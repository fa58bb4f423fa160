SPECIFICATION FairSpec
CONSTANTS
    e1 = e1
    e2 = e2
    e3 = e3
    w1 = w1
    w2 = w2
    Effects = {e1, e2, e3}
    Workers = {w1, w2}
    Kind <- LaunchKind
    Safety <- LaunchSafety
    MaxAttempts <- LaunchAttempts
    MaxFaults = 1
    NoWorker = NoWorker
    NoEffect = NoEffect
INVARIANTS
    FreshRead
PROPERTIES
    EverythingResolves
