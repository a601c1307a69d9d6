SPECIFICATION Spec
CONSTANTS
    i1 = i1  i2 = i2  i3 = i3
    Content = {"c", "d"}
    Absent = Absent
    NotAFile = NotAFile
    Partial = Partial
    InfoOnly = {i2}
    Path <- P
    Clean <- PClean
    Item <- Items
    Usable = {i1, i2, i3}
    File <- ItemFile
    OldPath <- ItemOld
INVARIANTS
    ChangeReported
    AcceptedIsQuiet
    SavedIsCurrent
