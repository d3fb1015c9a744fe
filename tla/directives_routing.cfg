CONSTANTS
    h1 = h1
    h2 = h2
    NULL = NULL
    HandlerName = {h1, h2, h3}
    Text = {v1, v2}
    Option = {opt}
    Server = {main, vhost}
    Global = main
    Section = {outer, hosted}
    Hosted = {hosted}
    HostOf <- MCHostOf
    MaxLines = 3
SPECIFICATION SpecDeclared
INVARIANTS
    TypeOK
    ContentRoutedAsAsked
    AccessRoutedAsAsked
    OptionPrecedence
PROPERTIES
    HandlersOnlyGrow
CHECK_DEADLOCK FALSE
