SPECIFICATION FairSpec
CONSTANTS
    Fetchers = {f1, f2}
    Storers = {s1, s2}
    Messages = {x1, x2}
    Notifiers = {n1, n2, n3}
    None = None
    MaxStores = 2
INVARIANTS SharedNotifier NoLostWakeup
PROPERTIES ArrivalWakes
