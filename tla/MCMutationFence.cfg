SPECIFICATION FairSpec
CONSTANTS
    w1 = w1
    w2 = w2
    Gone = Gone
    k1 = k1
    Worker <- MCWorker
    Key <- MCKey
    Reversible = {}
    Skew = TRUE
    MaxGeneration = 3
    MaxAttempt = 2
INVARIANTS
    TypeOK
    DoubtIsRemembered
    SucceededIsReal
PROPERTIES
    DoubtIsResolved
