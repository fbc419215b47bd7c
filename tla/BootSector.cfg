CONSTANTS
    BiosPush = {0, 1, 9}
    Sector = {0, 1}
    Drive = {128}
    Count = {0, 128}
    MaxEntry = 7
    Cylinders = {0, 1023}
    Heads = {1, 255}
    Sectors = {1, 63}
SPECIFICATION FairSpec
INVARIANTS LoadsFirstActive 
 
CHECK_DEADLOCK FALSE
