SPECIFICATION FairSpec
CONSTANTS
    Bankmax = 2
    Banksize = 2
    MediaEnd = 0
    MaxFaults = 0
    Calls <- PlayCalls
    StartLsns <- TwoStarts
    Reads <- Mixed
    Apart = TRUE
    SyncRead = {TRUE, FALSE}
    MaxCalls = 5
    MaxUserReads = 0
INVARIANTS OneReadAtATime BufferInOrder
PROPERTIES IsQueue CallsReturn
CHECK_DEADLOCK FALSE
