SPECIFICATION Spec
CONSTANTS
    t1 = t1
    t2 = t2
    t3 = t3
    r1 = r1
    r2 = r2
    c1 = c1
    c2 = c2
    Turns = {t1, t2, t3}
    Runs = {r1}
    Controls = {c1, c2}
    Source <- UserAndRetries
    QueueLimit = 1
    NoTurn = NoTurn
    NoRun = NoRun
    NoControl = NoControl
    NativeCancel = TRUE
    Craft = "codex"
    MaxStrikes = 2
    MaxFaults = 1
    MaxReboots = 1
SYMMETRY ControlSymmetry
INVARIANTS
    WorkIsClaimed
PROPERTIES
    EndIsFinal
    TurnsKeepPromise
CHECK_DEADLOCK FALSE
