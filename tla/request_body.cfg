CONSTANTS
    NULL = NULL
    REFUSED = REFUSED
    Byte = {"cr", "lf", "nul"}
    ContentType = {"form", "encoding"}
    Limited = FALSE
    MaxContentLength = 2
    MaxBody = 3
    MaxRequests = 2
    MaxBlocks = 2
    MaxCalls = 2
SPECIFICATION FairSpec
INVARIANTS
    TypeOK
    EveryByteOnce
    NothingLost
    
    FormIsWhole
PROPERTIES
    InOrder
    BlocksEnd
