SPECIFICATION FairSpec
CONSTANTS
    MaxHist = 2
    ReadMax = 2
    Lines <- MCLines
    MaxKeys = 2
    MaxResp = 1
    MaxSessions = 1
    MaxTrouble = 1
    LocalFaults = FALSE
PROPERTY SignalRestores
