CONSTANTS
    Project = {p1, p2}
    Request = {r1, r2}
    x = x
    y = y
    Limit = {1, 2}
    Priority = {1, 2}
    Registry = {x, y}
    Asked <- Three
    MaxConflicts = 3
    MaxUpdates = 2
SPECIFICATION Spec
SYMMETRY Symmetry
CHECK_DEADLOCK FALSE
PROPERTIES
    AcceptedIsNarrower
    SubmittedWithinInstallation
    AdmittedByCurrentLimit
