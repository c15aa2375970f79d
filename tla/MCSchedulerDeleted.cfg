SPECIFICATION Spec
CONSTANTS
    shell1 = shell1
    shell2 = shell2
    low1 = low1
    low2 = low2
    Idle = Idle
    MaxPriority = 3
    Procs <- MCProcs
    Priority <- MCPriority
    Windows <- ExitWindow
INVARIANT
    DeletedNeverQueued
CHECK_DEADLOCK FALSE
