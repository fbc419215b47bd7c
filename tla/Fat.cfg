CONSTANTS
    File = {"bootld", "other"}
    BOOTLD = "bootld"
    MaxSlots = 4
    SLOT = 8
    SECTOR = 16
    NAME_LENGTH = 5
    MaxCluster = 5
    EOC = 99
    TERMINATOR = 50
    OFFSETS = 128
    Geometry <- MCGeometry
SPECIFICATION FatSpec
INVARIANTS  ListsFiles 
CHECK_DEADLOCK FALSE
