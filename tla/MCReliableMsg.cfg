SPECIFICATION Spec
CONSTANTS
    Nodes = {n1, n2}
    Msgs = {m1, m2}
    None = None
    Orphan = Orphan
    MaxAttempts = 2
    Page = 2
    MaxParts = 3
    MaxMishaps = 2
INVARIANTS AckedIsDurable DeadByPolicy NeverForgotten
PROPERTIES InOrder
SYMMETRY Perms
CHECK_DEADLOCK FALSE
