SPECIFICATION FairSpec
CONSTANTS
    Scripts <- MCScripts
    NetCap = 2
    LocalFaults = TRUE
INVARIANTS
    NothingLost
    WholeLines
    ExitIsLast
    LastWordsRead
    ExitIsJustified
PROPERTY EofEnds
