SPECIFICATION Spec
CONSTANTS
    Sessions = {s1, s2}
    Keys = {k1}
    Phones = {p1}
    Workers = {w1, w2}
    None = None
    NoPlay = NoPlay
    PlayWindow = 1
    ClaimWindow = 2
    LimitWindow = 2
    StartLimit = 2
    MaxTime = 1
    MaxRequests = 3
SYMMETRY MCSymmetry
INVARIANTS
    GiftHasClaimWindow
