SPECIFICATION Spec
CONSTANTS
    BufSize = 1
    CacheSize = 1
    CallsOffline = FALSE
    HandlersThrow = FALSE
    MaxConn = 2
    MaxReq = 1
    MaxSent = 2
INVARIANT
    NoSilentGap
CHECK_DEADLOCK FALSE
