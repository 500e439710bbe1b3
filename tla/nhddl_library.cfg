CONSTANTS
    GridColumns = 1
    GridPageSize = 2
    CoverCount = 4
    CoverFocus = 2
    Total = 7
    Art <- MCArt
    ListPage = 3
    ClassicArt <- MCArt
    Histories <- MCHistories
    TapInCascade = FALSE
SPECIFICATION FairSpec
INVARIANTS TwoFullCovers CoversMatchTitles ScreenIsRight LaunchIsSeen RecordKept FavouritesAsSaved
CHECK_DEADLOCK FALSE
PROPERTIES ScreensSettle
