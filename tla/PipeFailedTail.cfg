SPECIFICATION Spec
CONSTANTS
    Scripts <- MCScripts
    NetCap = 1
    LocalFaults = FALSE
INVARIANT FailedWriteIsFive
