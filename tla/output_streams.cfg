CONSTANTS
    NULL = NULL
    MaxRuns = 3
    MaxDepth = 3
    MaxPrints = 2
    MaxBuffers = 5
SPECIFICATION Spec
INVARIANTS
    TypeOK
    SentOnce
    SentToItsRequest
    PrintsStayInside
PROPERTIES
    UndisturbedOutputSent
