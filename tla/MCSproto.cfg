SPECIFICATION RpcSpec
CONSTANTS
    Base = 4
    SafeMax = 1000
    MaxRun = 3
    Null = Null
    Undefined = Undefined
    EncodeStruct <- EncodeObject
    DecodeStruct <- DecodeObject
    EncodeBody <- EncodeArgs
    DecodeBody <- DecodeArgs
    Schemas <- MCSchemas
    Cases <- MCCases
    Uncounted = {"ping"}
    FirstId = 5
    MaxCalls = 2
    MaxPushes = 1
INVARIANTS
    RpcTypeOK
    PackedWhole
    SchemaLoaded
    RoundTrip
    CountsAgree
CHECK_DEADLOCK FALSE
