CONSTANTS
    c1 = c1
    c2 = c2
    a = a
    b = b
    k = k
    none = none
    Actor = {c1, c2}
    JobProject = {a, b}
    Key = {k}
    Unnamed = none
    MaxPriority = 1
    MaxPosition = 2
    MaxJobs = 4
    MaxChanges = 3
    FirstProjects <- OneOfEach
SYMMETRY ActorSymmetry
SPECIFICATION QueueSpec
INVARIANTS
    OneJobPerKey
PROPERTIES
    ReorderReplacesWhatWasSeen
    ReorderTakesEffect
