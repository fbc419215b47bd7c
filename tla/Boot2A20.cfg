CONSTANTS
    Modes = {3}
    Leftover = {0}
    TABLE = 2
    WORD = 1048576
    Entry <- MCEntry
    MaxMap = 1
    Paragraphs = 1
    DL = 128
SPECIFICATION Spec
INVARIANT A20Reported
CHECK_DEADLOCK FALSE
