SPECIFICATION FairSpec
CONSTANTS
    k1 = k1
    old = old
    new = new
    other = other
    None = None
    Keys = {k1}
    RequestKeys = {k1}
    Workers = {old, new, other}
    Payloads = {"p1", "p2"}
    KeyOf <- MCKeyOf
    Payload <- MCPayload
    Current <- MCCurrent
    Candidates <- MCCandidates
    Fingerprints <- MCFingerprints
    Signs <- MCSigns
    Lease = 1
    MaxAge = 2
    MaxTries = 2
    MaxCrashes = 2
INVARIANTS
    TypeOK
    AtMostOneEffect
    RowTellsTheEffect
    OkIsTruthful
PROPERTIES
    SettledForGood
    InProgressIsJustified
    ImplementsAtMostOnce
    EveryCallIsAnswered
    AbandonedClaimIsRecovered
