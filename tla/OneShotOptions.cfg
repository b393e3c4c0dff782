SPECIFICATION Spec
CONSTANTS
    Radix = 2
    Slack = 1
    TermChar = 1
    NetCap = 2
    MaxResp = 6
    LocalFaults = TRUE
    Configs <- OptionConfigs
INVARIANTS
    HalfCloseIsLast
    OutputIsResponse
    FrameEndsWait
