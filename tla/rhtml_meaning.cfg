CONSTANTS
    a = a
    quote = quote
    NEWLINE = NEWLINE
    ESCAPE = ESCAPE
    Char = {a, quote}
    Special = {quote}
    MaxActs = 6
SPECIFICATION PlainSpec
PROPERTIES
    AsInERuby
CHECK_DEADLOCK FALSE
