SPECIFICATION Spec
CONSTANTS
    p1 = p1
    p2 = p2
    Procs = {p1, p2}
    N = 40
    KernelFirst = 0
    KernelLast = 1
    Writable = {1}
    FbFirst = 40
    FbLast = 41
    Entries = 4
    HeapFirst = 192
    HeapPages = 2
    StackFirst = 190
    StackPages = 2
    PAGE_SIZE = 2
    Touched <- MCTouched
PROPERTIES FaultMapsAddress
CHECK_DEADLOCK FALSE
