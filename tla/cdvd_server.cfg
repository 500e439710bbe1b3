SPECIFICATION Spec
CONSTANTS
    Bankmax = 6
    Banksize = 1
    MediaEnd = 12
    MaxFaults = 1
    SectorUnits = 6
    FsSectors = 3
    MaxFd = 1
    PvdLsn = 1
    Layer1Start = 8
    DvdDl = FALSE
    Volumes <- MCVolumes
    Toc <- MCToc
    LineUnits = 3
    EeUnits = 26
    Histories <- MCHistories
INVARIANTS ReadArrives FilesAsOnDisc
PROPERTIES OffAtRest CallsReturn
CHECK_DEADLOCK FALSE
