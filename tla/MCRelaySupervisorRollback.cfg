SPECIFICATION FairSpec
CONSTANTS
    Newest = 3
    Broken = {3}
    Commands = {"rollback"}
    MaxCrashes = 1
INVARIANTS BrokenNeverServes
PROPERTIES BackUndisturbed
