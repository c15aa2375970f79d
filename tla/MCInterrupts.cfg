SPECIFICATION FairSpec
CONSTANTS
    Procs = {p1, p2}
    idle = idle
    BOOT = BOOT
    K = K
    RET = RET
    Bursts = {TRUE, FALSE}
INVARIANTS
    Preserved
    
    PollingOnly
PROPERTY
    KeepsTicking
CHECK_DEADLOCK FALSE
