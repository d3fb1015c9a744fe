CONSTANTS
    h1 = h1
    h2 = h2
    NULL = NULL
    HandlerName = {h1, h2, h3}
    Text = {v1}
    Option = {opt}
    Server = {main}
    Global = main
    Section = {outer, inner}
    Hosted = {}
    HostOf <- MCHostOf
    MaxLines = 2
SPECIFICATION SpecDeclared
INVARIANTS
    AccessOnlyWhenAsked
CHECK_DEADLOCK FALSE
