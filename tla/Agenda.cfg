SPECIFICATION Spec
CONSTANTS
    m1 = m1
    m2 = m2
    mon = mon
    tue = tue
    Masters = {m1, m2}
    Dates = {mon, tue}
    Appts = {a1, a2, a3}
    Blocks = {b1, b2}
    Intervals <- MCIntervals
INVARIANTS
    TypeOK
    NoUnwaivedOverlap
    BlocksKeptFree
    ClosedOnce
PROPERTIES
    CancelledIsFinal
