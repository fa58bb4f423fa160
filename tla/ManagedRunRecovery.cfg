SPECIFICATION Spec
CONSTANTS
    t1 = t1
    t2 = t2
    t3 = t3
    r1 = r1
    r2 = r2
    c1 = c1
    c2 = c2
    Turns = {t1, t2}
    Runs = {r1, r2}
    Controls = {}
    Source <- TwoUser
    QueueLimit = 2
    NoTurn = NoTurn
    NoRun = NoRun
    NoControl = NoControl
    NativeCancel = TRUE
    Craft = "claude"
    MaxStrikes = 2
    MaxFaults = 2
    MaxReboots = 0
SYMMETRY RunTurnSymmetry
INVARIANTS
    TypeOK
    DeliveredOnce
    OneOwner
    LostIsDead
PROPERTIES
    TurnsKeepPromise
CHECK_DEADLOCK FALSE
