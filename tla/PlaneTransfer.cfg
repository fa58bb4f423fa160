SPECIFICATION Spec
CONSTANTS
    a = a
    b = b
    c = c
    t1 = t1
    t2 = t2
    t3 = t3
    Planes = {a, b, c}
    Origin = a
    Transfers = {t1, t2, t3}
    NoRow = NoRow
    NoTransfer = NoTransfer
    LateBundles = FALSE
    MaxTurns = 1
    MaxFaults = 2
SYMMETRY TransferSymmetry
INVARIANTS
    OneHome
    HomeIsFenced
    NothingLost
CHECK_DEADLOCK FALSE
