SPECIFICATION MCSpec
CONSTANTS
    Newest = 3
    Broken = {2}
    Commands = {"update-now"}
    MaxCrashes = 1
    Staged <- MCStaged
    Installed <- MCInstalled
    MAX_ATTEMPTS = 2
    UnlinksOpen = FALSE
    MaxRestarts = 1
    size_bytes = 3
    block_size = 2
    block_count = 2
    JOURNAL_CHECKPOINT_BYTES = 3
    Torn = Torn
    Bad = Bad
    MaxJournal = 3
    MaxPendingBytes = 5
CHECK_DEADLOCK FALSE
INVARIANTS WorkingRelayKept LaunchedWhole JournalledIntact DestinationWhole
PROPERTIES WholeCopyKept
