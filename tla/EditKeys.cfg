SPECIFICATION Spec
CONSTANTS
    BufLen = 3
    MaxHist = 2
    IntMax = 99
    Keys <- EditKeys
    Candidates <- EditCandidates
    Loaded <- EditLoaded
INVARIANTS
    BufferSound
    HistorySound
    CompletionSound
PROPERTIES
    DraftComesBack
    ImplementsTextLine
