SPECIFICATION Spec
CONSTANTS
    Sessions = {s1, s2}
    Phones = {p1, p2}
    Browsers = {b1, b2}
    Attempts = {a1, a2}
    Keys = {k1, k2}
    Workers = {w1, w2}
    None = None
    Cooldown = 2
    PlayWindow = 1
    MaxTime = 3
    MaxRequests = 4
SYMMETRY MCSymmetry
INVARIANTS
    TypeOK
    CooldownHolds
    RetryGetsItsSpin
    LeadAnswersAreTrue
PROPERTIES
    ImplementsGiftClaim
