SPECIFICATION Spec
CONSTANTS
    MAX_SCAN_DEPTH = 6
    Tree <- MCTree
    DotNames = {".trash"}
    OddNames = {}
    UpperRank <- MCUpperRank
    ImageIds <- MCImageIds
    FullIds <- MCGameIds
    Partitions <- MCPartitions
    EntryUnits = 2
    Paths = {"/card.vmc", "/OPL"}
    Global = "global"
    TitleFiles <- MCTitleFiles
    NoFile = NoFile
    MaxPolls = 2
    bsdValues <- MCbsdValues
    Configs <- MCConfigs
    Modes <- MCModes
    GameTables <- MCGameTables
    PathPrefix <- MCPathPrefix
    DRV_MAX_MOD = 30
    MODULE_SETTINGS_MAX_FAKE_COUNT = 15
    MAX_CHEATLIST = 510
    DriverOfMode <- MCDriverOfMode
    CnfVMode <- MCCnfVMode
    IdRegion <- MCIdRegion
    SpecialTitles = {}
    ExtraTitles <- MCExtraTitles
    Histories <- MCHistories
    ServerToken = "udpfs0:"
    GameDriver <- MCGameDriver
    OtherFiles <- MCOtherFiles
    Searched <- MCSearched
INVARIANTS TitlesAsOnDisk SavedIsLoaded GameIsChosen SettingsReachGame GameHasItsImage
PROPERTIES StartsEnd

