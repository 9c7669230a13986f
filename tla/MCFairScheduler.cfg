SPECIFICATION FairSpec
CONSTANTS
    LastProject = 3
    MaxProjects = 2
    InitialWeight <- MCWeight
    MaxWeight = 2
    MaxEligible = 1
    MaxAdjustments = 1
    MaxEmergencies = 1
    MaxWithdrawals = 1
INVARIANTS
    TypeOK
    WaitIsBounded
PROPERTIES
    NoStarvation
