SPECIFICATION Spec
CONSTANTS
    W = 2
    WordBytes = 1
    PAGE_SIZE = 4
    Maps <- SoundMaps
    Counts <- Singles
INVARIANTS
    Exact
    UsableOnly
    FailsOnlyWhenNone
CHECK_DEADLOCK FALSE
