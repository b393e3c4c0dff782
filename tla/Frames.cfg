SPECIFICATION FairSpec
CONSTANTS
    Radix = 4
    Slack = 1
    TermChar = 3
    Messages <- MCMessages
    MaxMessages = 2
    Capacities = {1, 10, 17}
    HeaderCap = 1
    Delimiter = 3
    SuccessCode <- MCSuccess
    KeyResponse <- MCKeyResponse
    BlockScheme = 1
    KeySchemes = {2}
    KeySizes = {1, 2}
    Atoi <- MCAtoi
    Responses <- MCResponses
INVARIANTS
    FramesAreMessages
    BufferFits
    CleanEndIsBetween
    OnlyATailIsLost
    DecodesBack
    FieldsTile
PROPERTY CallReturns
