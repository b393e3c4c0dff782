SPECIFICATION FairSpec
CONSTANTS
    MaxAddrs = 3
    LocalFaults = TRUE
INVARIANTS
    NothingLeaks
    SocketIsConnected
    FailureIsTheLast
    EverythingReleased
    ExitCodesTell
PROPERTY Termination
