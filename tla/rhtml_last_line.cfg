CONSTANTS
    a = a
    quote = quote
    NEWLINE = NEWLINE
    ESCAPE = ESCAPE
    Char = {a, quote}
    Special = {quote}
    MaxActs = 4
SPECIFICATION UnterminatedSpec
PROPERTIES
    AsInERuby
CHECK_DEADLOCK FALSE
