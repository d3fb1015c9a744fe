CONSTANTS
    app = app
    guard = guard
    half = half
    ghost = ghost
    NULL = NULL
    HandlerName = {app, guard, half, ghost}
    Text = {}
    Option = {}
    Config <- MCConfig
    Location <- MCLocation
    DirOptions <- MCDirOptions
    Hook = {"ruby-handler", "ruby-script-handler", "other"}
    HTTP_OK = "200"
    Status = {"200", "401"}
    MaxDepth = 2
    MaxObjects = 3
SPECIFICATION FairSpec
INVARIANTS
    TypeOK
    RefusedNeverServed
    ConfiguredContentRuns
    HeldObjectsAreRooted
    ShutdownReachesAll
    NothingFailsSilently
PROPERTIES
    OneObjectPerRoute
    ShutdownCompletes
