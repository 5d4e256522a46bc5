\* A clip of three frames played twice, guest streams of one, three and five elements in rings
\* of three; two tasks, the second spawned by the first; three vblanks over two starts.
CONSTANTS
    MaxStreams = 2
    Depth = 4
    FileLen <- MCFileLen
    Clips = {0}
    SubFrames = 2
    Preroll = 1
    AudioCap = 1
    MaxPlays = 2
    Settled = TRUE
    NTasks = 1
    MaxTasks = 2
    Spawners = {0}
    Calls = {"spawn", "sleep", "timeout"}
    MaxCalls = 1
    SleepTicks = 1
    GateCap = 3
    WakeObject = "event"
    MaxVblanks = 3
    MaxStarts = 2
SPECIFICATION Spec
INVARIANT StreamsExact
PROPERTIES ClipEnds WorkDone
CHECK_DEADLOCK FALSE
