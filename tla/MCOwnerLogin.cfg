CONSTANTS
    Human = {h1, h2, h3}
    Provider = {p1, p2}
    Fingerprint = {f1, f2}
    Request = {r1, r2}
    MaxEvents = 5
SPECIFICATION Spec
CHECK_DEADLOCK FALSE
SYMMETRY Symmetry
INVARIANTS
    OfferedIsProven
    SetupHasOneWinner
    ChangesUndoNothing
