SPECIFICATION FairSpec
CONSTANTS
    N = 3
    root = root  a = a  b = b  e = e  f = f  g = g  lost = lost
    RootEntry = root
    RootPath = "/"
    NoEntry = NoEntry
    NoReport = NoReport
    Subject = {k1, k2}
    Entry <- TreeEntry
    Path <- TreePath
    Dir <- TreeDir
    Loc <- TreeLoc
    At <- TreeAt
INVARIANTS
    CompleteBeforeFinalize
    ShownAtMostOnce
    OnlyReachableShown
    ParentBeforeChild
    ExitStatusSound
    ForgottenTmpDirMeansNoReport
PROPERTIES
    OffendersNeverLost
    Termination
    ImplementsScan
