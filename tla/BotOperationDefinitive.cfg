SPECIFICATION Spec
CONSTANTS
    k1 = k1
    old = old
    new = new
    other = other
    None = None
    Keys = {k1}
    RequestKeys = {}
    Workers = {old, new}
    Payloads = {"p1", "p2"}
    KeyOf <- MCKeyOf
    Payload <- MCPayload
    Current <- MCCurrent
    Candidates <- MCCandidates
    Fingerprints <- MCFingerprints
    Signs <- MCSigns
    Lease = 1
    MaxAge = 2
    MaxTries = 2
    MaxCrashes = 1
INVARIANTS
    DefinitiveAnswersAgree
