SPECIFICATION Spec
CONSTANTS
    m1 = m1
    mon = mon
    tue = tue
    Masters = {m1}
    Dates = {mon, tue}
    None = None
    Appts = {a1, a2}
    Blocks = {b1}
    Workers = {w1, w2, w3}
    Intervals <- MCIntervals
    Kinds = {"book", "change", "close", "closeDay", "dropOwned", "cancel", "clientCancel", "adminDrop"}
    NewStatuses = {"SCHEDULED"}
    MaxTries = 2
    MaxRequests = 4
INVARIANTS
    TypeOK
PROPERTIES
    ImplementsAgenda
SYMMETRY MCSymmetry
