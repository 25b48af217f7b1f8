SPECIFICATION Spec
CONSTANTS
    BS = 4
    PTR = 2
    INODE = 2
    DIRECT = 2
    SPC = 1
    DATA = 50
    PerBlock = 5
    Volumes <- MCVolumes
    Upcase <- MCUpcase
    Paths <- MCPaths
    Devices <- MCDevices
    NFD = 1
    TTYS = 2
    MAX_MOUNTS = 10
    Counts = {4, 40}
    Modes = {"w", "rw", "d"}
    Seeks <- MCSeeks
    MaxOffset = 8
    MaxOpens = 3
INVARIANTS OpenedIsNamed  StreamIsFile DirectoryIsListed
VIEW View
CHECK_DEADLOCK FALSE
