SPECIFICATION FairSpec
CONSTANTS
    Nodes = {n1}
    Mutations = {m1}
    ClaimAttempts = 1
    MaxTries = 2
    AutoCreate = FALSE
    MaxLease = 2
    MaxRev = 2
    MaxFaults = 1
PROPERTY UnloadEnds
