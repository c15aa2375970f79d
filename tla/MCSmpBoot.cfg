SPECIFICATION SmpFairSpec
CONSTANTS
    c1 = c1
    c2 = c2
    c3 = c3
    BspId = BspId
    NONE = NONE
    Tables <- MCTables
    Lines = 24
    Retries = 2
    Prompts = {TRUE, FALSE}
INVARIANTS
    OwnLaunch
PROPERTY
    AllHalt
CHECK_DEADLOCK FALSE
