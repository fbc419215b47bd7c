CONSTANTS
    Letters = {"c", "e", "w", "x"}
    BufChunk = 2
    ArgChunk = 2
    MaxInput = 6
    Dirs <- MCDirs
    Where <- MCWhere
SPECIFICATION FairSpec
INVARIANTS LineInBounds ArgvReady OneReader LineIsTyped 
PROPERTY LineAnswered
CHECK_DEADLOCK FALSE
