SPECIFICATION FairSpec
CONSTANTS
    Radix = 2
    Slack = 1
    TermChar = 1
    NetCap = 2
    MaxResp = 2
    LocalFaults = TRUE
    Configs <- PlainConfigs
INVARIANTS
    NothingLost
    CleanExit
PROPERTIES
    Termination
    ImplementsTransfer
