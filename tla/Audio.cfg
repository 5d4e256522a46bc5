SPECIFICATION Spec
CONSTANTS
    MaxObjects = 2
    BlockCount = 2
    BlockSize = 1
    GenMod = 3
    Owner = {1, 2}
    Streamers = {2}
    VoiceGenMod = 2
    MaxTracks = 2
    MaxMusicObjs = 1
    MaxMusic = 1
    ChannelFrames = 1
    Sizes = {1}
    Rates = {0}
    FreeOnce = FALSE
    MeterVms = {1, 2}
    MeterFarVms = {9}
    HostHolds = 2
    SegLen <- MCSegLen
    StreamFrames = 4
    HeadFrames = 2
    RingFrames = 6
    MaxFill = 0
    One = 16
    BaseSteps = {16, 24, 40}
    AnyRate = FALSE
    Capacity = 3
    MaxWritten = 4
    MaxPos = 40
    AccOne = 32
    MaxAcc = 3
    Smoothing = 1
    Ticks = 16
    Deltas = {0, 1}
    Drifts = {1, 2}
    Bits = 5
    TapCodes = {0, 46, 63}
    Fractions = {0, 1, 16, 31}
    StagingCap = 8
    RegBits = 4
    Readable = 16
    FileFrames = {0, 3, 9}
    MaxLevels = 1
    MaxAudioCalls = 2
    Registrable = {"LOAD_SAMPLE", "LOAD_MUSIC", "FREE", "TRIGGER_SFX", "PLAY_MUSIC", "STOP", "SET_GAIN", "GET_LEVELS", "FFT_ENABLE", "LOAD_WAV", "STREAM_WAV", "PCM_STREAM_OPEN", "PCM_STREAM_FEED", "PCM_STREAM_CLOSE"}
INVARIANTS  SegmentsComplete MixerExact AudioCallsExact
PROPERTY SampleEnds
CONSTRAINT Followed
VIEW View
CHECK_DEADLOCK FALSE
