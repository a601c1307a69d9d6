SPECIFICATION Spec
CONSTANTS
    Zero = "zero"
    Archives <- ListArchives
    Images <- ToolImages
    Name <- Names
    LastWord <- LastWords
    VfatName <- VfatNames
INVARIANTS
    EveryLineReachable
    ListIsTree
    WholeImageShown
    InfoAgrees
