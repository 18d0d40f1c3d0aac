SPECIFICATION MCSpec
CONSTANTS
    Participants = {0, 1}
    LastSeq <- MCLastSeq
    MAX_BUFFERED_PACKETS = 2
    SKIP_WAIT_BACKLOG = 2
    MIN_JITTER_WAIT = 1
    MAX_JITTER_WAIT = 3
    GAP_FRAMES = 2
    PacketFrames = {0, 2}
    PLAYBACK_QUEUE = 2
    SLOT = 2
    RESET = 2
    MaxLate = 5
    CAPTURE_QUEUE = 2
    OPUS_PACKET_QUEUE = 2
    MaxFrames = 5
    FRAME_SAMPLES = 3
    PRE_SKIP = 2
    RECORD_QUEUE = 3
    MaxSamples = 8
CHECK_DEADLOCK FALSE
INVARIANTS
    PacketsAccounted NoStall
    MutedNeverHeard
    SavedIsWhole NoFileLeft
PROPERTIES CloseEnds
