SPECIFICATION Spec
CONSTANTS
    Clients = {c1}
    TTL = 4
    Grace = 1
    Heartbeat = 2
    MaxTime = 8
    MaxLease = 3
INVARIANTS ValidLeaseIsLive NoLossMissed
PROPERTIES NoEpochLeftUnreported
CHECK_DEADLOCK FALSE
