SPECIFICATION FairSpec
CONSTANTS
    None = None
    p = p
    q = q
    Ids <- MCIds
    Rows <- MCRows
    Phones = {p, q}
    Refs = {f1}
    Workers = {w1, w2}
    Known <- MCKnown
    Booked <- MCBooked
    Kinds = {"bot", "completion", "lead", "online", "link", "separate", "merge"}
    MaxTries = 2
    MaxCalls = 4
INVARIANTS
    TypeOK
    RefNeverSplits
    OneClientPerCreator
    MergesConserve
    NoRowLeftBehind
PROPERTIES
    EveryCallEnds
