SPECIFICATION Spec
CONSTANTS
    None = None
    p = p
    q = q
    Ids <- MCIds
    Rows <- MCRows
    Phones = {p, q}
    Refs = {f1}
    Workers = {w1, w2}
    Known <- MCKnown
    Booked <- MCBooked
    Kinds = {"bot", "completion"}
    MaxTries = 2
    MaxCalls = 2
INVARIANTS
    OneLiveClientPerPhone
