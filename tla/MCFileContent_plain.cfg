SPECIFICATION Spec
CONSTANTS
    d = d  s = s  f = f  g = g  h = h
    c1 = c1  c2 = c2  c3 = c3  c4 = c4  c5 = c5  c6 = c6  c7 = c7  c8 = c8
    NoEntry = NoEntry
    Entry <- Image
    At <- ImageAt
    Loc <- ImageLoc
    Type <- ImageType
    Path <- P
    Clean <- PClean
    Check <- PlainCheck
    File <- PlainFile
    Kind <- PlainKind
    InfoOnly <- PlainInfo
    EmptyDigest <- PlainEmpty
    Match <- PlainMatch
    Docs <- ImageDocs
    Fields <- TheFields
    Expected <- TheExpected
    Node <- JsonNode
    Name <- JsonName
    Shape <- JsonShape
    Member <- JsonMember
    Text <- JsonText
    Index <- JsonIndex
    Absent = "null"
    Broken = "broken"
    OffEnd = "offend"
INVARIANTS
    NoCheckSkipped
    NotFoundIffMissing
    ScriptSeesItsFiles
    JsonChecksAreRight
