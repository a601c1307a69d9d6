SPECIFICATION Spec
CONSTANTS
    Item <- Items
    Root = "root"
    Path <- Paths
    At <- ItemAt
    Loc <- ItemLoc
    IsDir = {"root", "home", "etc", "jon"}
    Parsed <- ItemRead
    Granted <- ItemGranted
    GlobalConfs <- Sections
    Clean <- Cleaned
    Rooted = {"/home/*/jon"}
    GlobMatches <- Matching
    GlobFails <- Failing
    DirStatement <- DirStatements
    DirPath <- DirPaths
    Slash <- PathSlash
    Allowed <- DirAllowed
    Required <- DirRequired
    Pattern <- Globs
    BadPattern = {"["}
    StatStatement <- StatStatements
    StatConf <- StatConfs
    ParseUint <- Modes
    Fold <- Labels
    Undefined = Undefined
    OwnerStatement <- OwnerStatements
    OwnerDir <- OwnerDirs
    Owner <- OwnerIds
    Again <- PathAgain
    None = None
    NoReport = NoReport
INVARIANTS
    NotAllowedReported
    RequiredReported
    NoStatementLost
    WrongOwnersReported
    SilentIffAsStated
    GlobalReported
PROPERTIES
    ImplementsScan
