CONSTANTS
    NULL = NULL
    Path <- MCPath
    ParentOf <- MCParentOf
    BLOCK = 4
    LENGTH = 2
    WORD = 64
    MaxEvents = 1
    MaxHandles = 3
    MaxBytes = 10
SPECIFICATION FairSpec
INVARIANTS
    TypeOK
    DigestIsOfBytes
PROPERTIES
    SuccessRemoves
    RetryingRemoves
