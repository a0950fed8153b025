SPECIFICATION Spec
CONSTANTS
    BufSize = 1
    CacheSize = 1
    CallsOffline = FALSE
    HandlersThrow = TRUE
    MaxConn = 3
    MaxReq = 1
    MaxSent = 0
INVARIANTS
    CredentialUsedOnce
    NoDeadConn
    LiveConnKept
CHECK_DEADLOCK FALSE
