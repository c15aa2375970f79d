SPECIFICATION Spec
CONSTANTS
    Letters = {"a"}
    Others = {"enter"}
    Modifiers <- MCModifiers
    Extended = {"rctl"}
    BufSize = 3
    MaxStrokes = 4
    Width = 4
    Height = 5
    BYTES_PER_CHAR = 2
    CHARS_PER_TAB = 2
    Back = FALSE
INVARIANTS
    
    InOrder
    DrawsInside
PROPERTY
    Drained
CHECK_DEADLOCK FALSE
