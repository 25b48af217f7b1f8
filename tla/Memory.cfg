SPECIFICATION Spec
CONSTANTS
    Procs = {p1, p2}
    Frames = 50
    WordBits = 4
    BootTables = 1
    ImagePages = 2
    HeapPages = 2
    BlockPages = 3
    BlocksPerTable = 2
    MaxBlocks = 3
SYMMETRY Symmetry
INVARIANTS OneOwner MarkedIsOwned WildOnlyWhenShort
