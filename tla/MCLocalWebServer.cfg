SPECIFICATION Spec
CONSTANTS
    Connections = {c1, c2, c3}
    c1 = c1
    c2 = c2
    c3 = c3
    MaxConnections = 2
    MaxBody = 1
INVARIANTS
    TypeOK
    SlotsAccounted
    AnsweredInFull
    SuccessMeansWholeBody
SYMMETRY Symmetry
