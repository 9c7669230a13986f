CONSTANTS
    Replica = {r1}
    Project = {p1}
    Id = {1, 2, 3}
    Capacity = 1
    PageSize = 1
    Period = 1
    MaxTime = 3
SPECIFICATION AuditSpec
CHECK_DEADLOCK FALSE
SYMMETRY Symmetry
INVARIANTS
    ExportIsComplete
    DenialLossIsCounted
PROPERTIES
    RemovalIsDecided
