SPECIFICATION Spec
CONSTANTS
    Wirings <- MCWirings
    BootDrives = {0, 128, 129, 224}
    Blocks = {0, 17, 47, 70}
    Starts = {0, 100}
    SECTOR = 2
    BLOCK_SECTORS = 2
    SPT = 3
    HEADS = 2
    LBA28 = 128
    RADIX = 4
    FLOPPY_SPT = 3
    MAX_TRIES = 3
    SEEK_TRIES = 2
    SECTOR_TRIES = 2
INVARIANTS BlockIsRead InterruptIsFresh
PROPERTIES ReadsEnd
CHECK_DEADLOCK FALSE
