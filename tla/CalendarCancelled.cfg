SPECIFICATION Spec
CONSTANTS
    m1 = m1
    mon = mon
    tue = tue
    Masters = {m1}
    Dates = {mon, tue}
    None = None
    Appts = {a1, a2}
    Blocks = {b1}
    Workers = {w1, w2}
    Intervals <- MCIntervals
    Kinds = {"book", "cancel", "clientCancel", "reschedule"}
    NewStatuses = {"SCHEDULED"}
    MaxTries = 2
    MaxRequests = 3
PROPERTIES
    CancelledIsFinal
