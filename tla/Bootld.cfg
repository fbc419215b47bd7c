CONSTANTS
    InitByte = {0, 255}
    PollLimit = 3
    KbLimit = 3
    Cylinders = {0, 255, 256, 1023}
    Heads = {0, 15, 255}
    Sectors = {1, 63}
SPECIFICATION FairSpec
INVARIANTS A20Sound GivesBack GeometryDecoded
PROPERTIES KeepsPromise Halts
CHECK_DEADLOCK FALSE
