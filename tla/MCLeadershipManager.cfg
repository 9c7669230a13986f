SPECIFICATION Spec
CONSTANTS
    h1 = h1
    h2 = h2
    NoHolder = NoHolder
    Holder <- MCHolder
    Skew <- MCSkew
    TTL = 2
    Second = 2
    Text <- MCText
    MaxSkew = 1
    MaxLag = 0
    MaxGeneration = 3
    MaxClock = 3
INVARIANTS
    TypeOK
    OneHolderPerGeneration
    SupersededAuthorityLapses
PROPERTIES
    NoSessionAcrossForeignTurn
    TokenSpec
