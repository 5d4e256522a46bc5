CONSTANTS
    Depth = 1
    SeqMod = 3
    MaxCalls = 3
    Timed = {"requester", "provider"}
SPECIFICATION StagedSpec
INVARIANTS AnswerIsOwn SuccessIsOwnData
PROPERTY ChannelLive
