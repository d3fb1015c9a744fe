CONSTANTS
    NULL = NULL
    Spelling <- MCSpelling
    CGI <- MCCGI
    OtherForm <- MCOtherForm
    Name <- MCName
    Val <- MCVal
    Touched = {"params"}
    MaxItems = 2
    MaxChanges = 2
    MaxLoops = 1
    MaxCalls = 1
    MaxIndex = 4
SPECIFICATION Spec
INVARIANTS
    TypeOK
    ParsedAsMeant
    ValueAsGiven
    WildOnlyAfterShrink
PROPERTIES
    EachSeesAll
