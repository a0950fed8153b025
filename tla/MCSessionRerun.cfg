SPECIFICATION Spec
CONSTANTS
    BufSize = 1
    CacheSize = 1
    CallsOffline = TRUE
    HandlersThrow = FALSE
    MaxConn = 2
    MaxReq = 1
    MaxSent = 0
INVARIANT
    NeverRerun
CHECK_DEADLOCK FALSE
