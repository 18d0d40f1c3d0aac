SPECIFICATION RecSpec
CONSTANTS
    FRAME_SAMPLES = 3
    PRE_SKIP = 2
    RECORD_QUEUE = 3
    MaxSamples = 8
CHECK_DEADLOCK FALSE
INVARIANT EverySampleSaved
