CONSTANTS
    a = a
    quote = quote
    NEWLINE = NEWLINE
    ESCAPE = ESCAPE
    Char = {a, quote}
    Special = {quote}
    MaxActs = 4
SPECIFICATION Spec
INVARIANTS
    TypeOK
    NothingAstray
    LinesEvaluate
CHECK_DEADLOCK FALSE
