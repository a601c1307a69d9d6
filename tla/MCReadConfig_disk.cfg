SPECIFICATION Spec
CONSTANTS
    Path <- Paths
    Args <- CommandLines
    Dir <- Dirs
    Joined <- PathJoined
    Readable <- Disk
    Invalid = {"toml"}
    Include <- FileInclude
    Table <- Tables
    Defines <- FileDefines
    First <- FileFirst
    Last <- FileLast
    MaxDepth = 5
    NoTable = NoTable
    NoFile = NoFile
INVARIANTS
    UsedIsWhole
    UsedIsTree
    TreeIsUsed
