SPECIFICATION Spec
CONSTANTS
    BufSize = 1
    CacheSize = 1
    CallsOffline = TRUE
    HandlersThrow = TRUE
    MaxConn = 2
    MaxReq = 2
    MaxSent = 1
INVARIANTS
    BufferCovers
    NothingTrimmedUnseen
    InOrder
    CountsAgree
    AtMostOnce
CHECK_DEADLOCK FALSE
