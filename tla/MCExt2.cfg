SPECIFICATION Spec
CONSTANTS
    Names = {"a", "b"}
    Dot = "."
    DotDot = ".."
    LostFound = "lost+found"
    NameLen <- MCNameLen
    Data = {x}
    Junk = Junk
    BlockBytes = 104
    BlockCells = 4
    SectorCells = 2
    NDIR = 3
    Groups = 1
    BlocksPerGroup = 8
    InodesPerGroup = 7
    Meta = 2
    Lengths = {4, 7}
    Seeks = {2}
    Large = FALSE
    Crowded = FALSE
INVARIANTS    OwnInode ReadBack
CHECK_DEADLOCK FALSE
