SPECIFICATION EchoSpec
CONSTANTS
    Radix = 2
    Slack = 1
    TermChar = 1
    NetCap = 1
    MaxResp = 5
    LocalFaults = FALSE
    Backlog = 1
    Configs <- EchoConfigs
PROPERTY EchoCompletes
