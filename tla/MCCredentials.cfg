CONSTANTS
    Account = {a1, a2}
    Request = {r1, r2}
    MaxEvents = 4
    MaxTime = 6
    Lifetimes = {3, 9}
    Overlaps = {1, 2}
    WriteInterval = 2
    Second = 2
    Text <- MCText
SPECIFICATION Spec
CHECK_DEADLOCK FALSE
SYMMETRY Symmetry
INVARIANTS
    OneReplacement
PROPERTIES
    UseIsOfTheLive
