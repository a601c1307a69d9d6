SPECIFICATION Spec
CONSTANTS
    f = f  g = g  l = l
    NoEntry = NoEntry
    Path <- P
    Clean <- PClean
    Entry <- Image
    At <- ImageAt
    IsFile <- ImageFile
    Statement <- PlainStatement
    File <- PlainFile
    Key <- PlainKey
    Means <- PlainMeans
INVARIANTS
    NoStatementDropped
    ErrorOnlyIfAllFail
PROPERTIES
    ValueKeptWithinFile
