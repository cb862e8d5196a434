SPECIFICATION FairSpec
CONSTANTS
    m1 = m1
    mon = mon
    tue = tue
    Masters = {m1}
    Dates = {mon, tue}
    None = None
    Appts = {a1, a2}
    Blocks = {b1, b2}
    Workers = {w1, w2}
    Intervals <- MCIntervals
    Kinds = {"book", "change", "cancel", "reschedule", "adminClose", "adminCloseDay", "adminMove", "adminDrop"}
    NewStatuses = {"SCHEDULED", "RESCHEDULED"}
    MaxTries = 2
    MaxRequests = 3
INVARIANTS
    NoUnwaivedOverlap
    OneRescheduleRequest
PROPERTIES
    EveryRequestEnds
    SeenBlocksKeptFree
