SPECIFICATION FairSpec
CONSTANTS
    t1 = t1
    t2 = t2
    t3 = t3
    r1 = r1
    r2 = r2
    c1 = c1
    c2 = c2
    Turns = {t1, t2}
    Runs = {r1}
    Controls = {c1}
    Source <- TwoUser
    QueueLimit = 2
    NoTurn = NoTurn
    NoRun = NoRun
    NoControl = NoControl
    NativeCancel = TRUE
    Craft = "claude"
    MaxStrikes = 2
    MaxFaults = 1
    MaxReboots = 0
PROPERTIES
    DeliveredSettles
    GateIsReleased
CHECK_DEADLOCK FALSE
