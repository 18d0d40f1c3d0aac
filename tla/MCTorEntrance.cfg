SPECIFICATION MCSpec
CONSTANTS
    Starts = {s1}
    Stops = {p1}
    Sends = {m1}
    Proxies = {w1}
    m1 = m1 m2 = m2 x = x
    Onion <- MCOnion
    LaunchAttempts = 2
    None = None
    Streams = {c1}
    MAX_INCOMING_STREAMS = 2
    FrameSizes = {1, 2}
    MAX_QUEUED_FRAME_BYTES = 3
    MaxEvents = 3
CHECK_DEADLOCK FALSE
INVARIANTS EntranceWhileRunning
