CONSTANTS
    UseAlarm = TRUE
    Histories <- MCHistories
    RoundMax = 2
    MaxFd = 2
    SectorUnits = 2
    Layout <- MCLayout
    LsnSectors = 2
    Games <- MCGames
    Partition <- MCPartition
    Unplugged = {"ours"}
    BlockSize = 2
    Pages = {0, 1}
    Trailer = FALSE
    Sizes <- MCSizes
    Runs <- MCRuns
    Positions = {0, 3}
SPECIFICATION Spec
INVARIANTS TransferIsOwn CallsDoWhatTheySay CardKeepsPages
CHECK_DEADLOCK FALSE
PROPERTIES CallsReturn
