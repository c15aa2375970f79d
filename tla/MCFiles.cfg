CONSTANTS
    Procs = {p, q}
    Names = {"a", "b"}
    Paths <- MCPaths
    MaxNodes = 3
    MaxFds = 1
    MaxSize = 2
    Counts = {1}
    Block = 1
    Offsets = {0}
    Garbage <- MCGarbage
    Anywhere = FALSE
SYMMETRY Symmetric
SPECIFICATION Spec
CHECK_DEADLOCK FALSE
INVARIANTS
    
    LexicalAgrees
    
    StreamExact
    
