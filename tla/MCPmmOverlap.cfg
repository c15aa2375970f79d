SPECIFICATION Spec
CONSTANTS
    W = 2
    WordBytes = 1
    PAGE_SIZE = 4
    Maps <- SoundMaps
    Counts <- Several
INVARIANT
    NoOverlap
CHECK_DEADLOCK FALSE
