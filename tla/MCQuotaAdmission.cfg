SPECIFICATION Spec
CONSTANTS
    j1 = j1
    j2 = j2
    all = all
    project = project
    Job <- MCJob
    Scope <- MCScope
    ScopesOf <- MCScopesOf
    Limits <- MCLimits
    FirstLimit <- MCNarrow
    MaxRequests = 1
SYMMETRY Interchangeable
INVARIANTS
    TypeOK
    UsageIsHeld
    EndedHoldsNothing
PROPERTIES
    ReleasedStaysReleased
    WithinLimits
