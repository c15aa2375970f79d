SPECIFICATION PSpec
CONSTANTS
    shell1 = shell1
    shell2 = shell2
    low1 = low1
    low2 = low2
    Idle = Idle
    MaxPriority = 3
    Procs <- MCProcs
    Priority <- MCPriority
    Windows <- ExitWindow
    QueueNodes = {n1, n2, n3, n4, n5, n6}
    ListNodes = {b1, b2, b3, b4, b5}
    NULL = NULL
INVARIANTS
    Conserved
    HighestFirst
    TimerAlive
    NoPanic
    Linked
    Trees
PROPERTIES
    KeepsPlace
    RoundRobin
CHECK_DEADLOCK FALSE
