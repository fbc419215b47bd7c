CONSTANTS
    Modes = {0, 3, 7, 11, 13, 19}
    Leftover = {0}
    TABLE = 2
    WORD = 1048576
    Entry <- MCEntry
    MaxMap = 3
    Paragraphs = 2
    DL = 128
SPECIFICATION FairSpec
INVARIANTS TypeOK MapWholeOrEmpty DriveKept  ReportOnScreen
PROPERTY Reports
CHECK_DEADLOCK FALSE
