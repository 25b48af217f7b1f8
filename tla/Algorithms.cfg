SPECIFICATION Spec
CONSTANTS
    MaxCells = 9
    MaxNeeded = 4
    Bits = 11
    ByteBits = 2
    PageSize = 8
    Calls <- MCCalls
    ShortBits = 6
    Lists <- MCLists
    Width = 3
    Height = 2
    TabStop = 2
    DefaultColor = 7
    Colors = {7, 12}
    Places <- MCPlaces
    High = {3, 7}
    MaxOut = 7
    MaxCalls = 1
    Setups <- MCSetups
    BusCount = 4
    DeviceCount = 4
    FunctionCount = 3
INVARIANTS
    SearchIsFind
    LibraryIsReference
    PrintedIsMeant
    ScreenIsText
    NothingTooEarly
    BootedAsAsked
PROPERTY SearchEnds
CHECK_DEADLOCK FALSE
