SPECIFICATION FairSpec
CONSTANTS
    SectorCount = 3
    MaxRead = 2
    MaxRetries = 4
    CmdIds = 3
    Ops = {"read", "write"}
    Late = {"read", "write"}
    MaxCalls = 2
    MaxLost = 1
    MaxEarly = 1
INVARIANTS ClearCallIsDone OneFaultSurvived
PROPERTIES CallsReturn
CHECK_DEADLOCK FALSE
