CONSTANTS
    PART_ARRAY_SLOTS = 8
    PART_DATA_LBA = 4
    EFI_SYSTEM_PART = 8
    SectorSizes = {0, 2, 4, 8}
    Sizes = {0, 6, 9, 14}
    MaxLba = 20
    MaxRuns = 3
    MaxErrors = 1
SPECIFICATION Spec
INVARIANT BackupValid
CHECK_DEADLOCK FALSE
