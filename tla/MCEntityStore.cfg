SPECIFICATION Spec
CONSTANTS
    Nodes = {n1, n2}
    Mutations = {m1, m2}
    ClaimAttempts = 2
    MaxTries = 2
    AutoCreate = TRUE
    MaxLease = 2
    MaxRev = 2
    MaxFaults = 1
SYMMETRY Symmetry
INVARIANTS
    OneOwner
    NotOvertaken
    AckedDurable
    NeverStranded
    UsableIsLocked
PROPERTIES
    NoLostUpdate
    ImplementsFencedDoc
    ChangesKept
