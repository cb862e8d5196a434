SPECIFICATION Spec
CONSTANTS
    Sessions = {s1, s2, s3}
    Keys = {k1, k2}
    Phones = {p1}
    Workers = {w1, w2}
    None = None
    NoPlay = NoPlay
    PlayWindow = 1
    ClaimWindow = 1
    LimitWindow = 1
    StartLimit = 2
    MaxTime = 2
    MaxRequests = 6
SYMMETRY MCSymmetry
INVARIANTS
    TypeOK
    ConsumedByALead
    OneLeadPerPlay
    OneOpenLeadPerPhone
    LeadAnswersAreTrue
PROPERTIES
    ImplementsGiftClaim
