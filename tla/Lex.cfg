CONSTANTS
    Char = {"pct", "nl"}
    pct = "pct"
    nl = "nl"
    Space = {"nl"}
    CHUNK_SIZE = 3
    MaxFiles = 2
    MaxInput = 10
    MaxErrors = 1
SPECIFICATION FairSpec
INVARIANTS TypeOK BufferFits WholeLines 
PROPERTY Finishes
CHECK_DEADLOCK FALSE
