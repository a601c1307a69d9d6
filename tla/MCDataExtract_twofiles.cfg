SPECIFICATION Spec
CONSTANTS
    f = f  g = g  l = l
    NoEntry = NoEntry
    Path <- P
    Clean <- PClean
    Entry <- Image
    At <- ImageAt
    IsFile <- ImageFile
    Statement <- TwoFilesStatement
    File <- TwoFilesFile
    Key <- TwoFilesKey
    Means <- TwoFilesMeans
PROPERTIES
    FirstValidSetsTheKey
