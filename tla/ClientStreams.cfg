SPECIFICATION FairStreamsSpec
CONSTANTS
    OpenAiFrames <- MCOpenAiFrames
    AnthropicFrames <- MCAnthropicFrames
    Complete <- Answers
    MaxWhole = 2
    MaxFrames = 4
    MaxChunk = 2
    MaxCuts = 1
    MaxKeepalives = 1
INVARIANTS
    ToldRight
    NothingLost
    StoredIsStreamed
    SameAnswer
PROPERTIES
    EveryStreamEnds
CHECK_DEADLOCK FALSE
