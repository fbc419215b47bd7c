CONSTANTS
    Char = {"a", "nl"}
    delimiter = "nl"
    CHUNK_SIZE = 3
    Sizes = {0, 2, 4}
    MaxInput = 8
SPECIFICATION FairSpec
INVARIANTS TypeOK StoreInBounds ReturnsText
PROPERTY ReadsOut
CHECK_DEADLOCK FALSE
