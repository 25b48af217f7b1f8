SPECIFICATION Spec
CONSTANTS
    PageBytes = 4
    CellBytes = 4
    HeaderBytes = 5
    FirstPages = 6
    BlockPages = {6, 12}
    IdCount = 4
    ReservedId = 2
    Sizes = {7, 20, 28, 60}
    Aligns = {4}
    MaxBlocks = 2
INVARIANTS HeldIsDisjoint MarkedIsOwned UsedIsCounted RefusedIsTooLarge
