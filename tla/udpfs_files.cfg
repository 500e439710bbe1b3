SPECIFICATION Spec
CONSTANTS
    Paths <- MCPaths
    Parent <- MCParent
    Backing <- MCBacking
    Unpacked <- MCUnpacked
    RootDir = TRUE
    BlockDevice = 1
    MaxHandles = 3
    SectorUnits = 2
    Tree0 <- MCTree
    Data0 <- MCData
    MaxFd = 2
    ChunkUnits = 3
    MaxRead = 3
    MaxSectorRead = 1
    Inputs <- MCInputs
    Histories <- MCHistories
INVARIANTS HandlesMatch
PROPERTIES CallsDoAsOnLocalFiles OnlyWholeWrites CallsReturn
CHECK_DEADLOCK FALSE
