SPECIFICATION FairSpec
CONSTANTS
    MaxHist = 2
    ReadMax = 2
    Lines <- MCLines
    MaxKeys = 4
    MaxResp = 1
    MaxSessions = 2
    MaxTrouble = 1
    LocalFaults = TRUE
INVARIANTS
    RestartRemembers
    LeavesClean
    ServerSeesLines
PROPERTY HangupEnds
