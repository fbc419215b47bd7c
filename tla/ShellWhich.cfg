CONSTANTS
    Letters = {"w", "x"}
    BufChunk = 5
    ArgChunk = 3
    MaxInput = 8
    Dirs <- MCDirs
    Where <- MCWhere
SPECIFICATION Spec
INVARIANT WhichChecksWholePath
CHECK_DEADLOCK FALSE
