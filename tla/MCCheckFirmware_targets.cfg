SPECIFICATION ScriptSpec
CONSTANTS
    T = 3
INVARIANTS
    PassedMeansClean
    StatusMatchesReport
    OnlyOwnDirDeleted
