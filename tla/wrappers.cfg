CONSTANTS
    NULL = NULL
    MaxObjects = 4
    MaxRequests = 2
SPECIFICATION Spec
INVARIANTS
    TypeOK
    ReachableIsLive
