CONSTANTS
    NULL = NULL
    MaxRuns = 3
    MaxDepth = 2
    MaxPrints = 2
    MaxBuffers = 4
SPECIFICATION Spec
PROPERTIES
    WholeOutputSent
