SPECIFICATION Spec
CONSTANTS
    Absent = Absent
    NoTree = NoTree
    File <- Files
    Regular <- Files
    Attr <- Attrs
    Size <- Sizes
    CheckPath <- Paths
    Config <- Settings
INVARIANTS
    AcceptedImageIsQuiet
    ReportedTreeIsOfReportedImage
    DifferencesReported
