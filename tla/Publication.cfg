SPECIFICATION Spec
CONSTANTS
    Workers = {w1, w2}
    Parts = {p1, p2}
    Values = {x, y}
    MaxRequests = 5
    MaxEdits = 2
SYMMETRY MCSymmetry
INVARIANTS
    TypeOK
PROPERTIES
    DraftIsLive
    ImplementsPublishedVersions
