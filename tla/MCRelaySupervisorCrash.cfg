SPECIFICATION FairSpec
CONSTANTS
    Newest = 2
    Broken = {}
    Commands = {}
    MaxCrashes = 1
PROPERTIES RelayAlwaysBack
