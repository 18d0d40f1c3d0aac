SPECIFICATION MCSpec
CONSTANTS
    m1 = m1 m2 = m2 x = x
    Starts = {s1, s2}
    Stops = {p1}
    Sends = {m1, m2}
    Proxies = {w1}
    Onion <- MCOnion
    LaunchAttempts = 2
    None = None
    Streams = {c1, c2, c3, c4}
    MAX_INCOMING_STREAMS = 2
    FrameSizes = {1, 2}
    MAX_QUEUED_FRAME_BYTES = 3
    MaxEvents = 3
CHECK_DEADLOCK FALSE
INVARIANTS StopWakesAll NoClientAfterStop StrangersBounded
PROPERTIES CommandsAnswered
