SPECIFICATION SeqSpec
CONSTANTS
    BufLen = 3
    MaxHist = 2
    IntMax = 31
    MaxDigits = 3
    Keys <- SequenceKeys
    TextKeys <- SequenceText
    Candidates <- SequenceCandidates
    Loaded <- SequenceLoaded
PROPERTY SequencesAreKeys
