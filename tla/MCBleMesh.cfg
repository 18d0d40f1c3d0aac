SPECIFICATION FairSpec
CONSTANTS
    Addresses = {1, 2, 3, 4}
    Local = 2
    MAX_LINKS = 2
    MaxId = 3
    MAX_BACKOFF = 1
    SetupTime = 0
    SilentTime = 1
    FirstDelay = 1
    LastDelay = 2
    DROPS_TO_PAUSE = 2
    DROP_WINDOW = 1
INVARIANTS OneLinkPerPeer DialledLinksServed NoRestartStorm
PROPERTIES CrossedLinksConverge DeadSlotsFreed OrphansEnd
