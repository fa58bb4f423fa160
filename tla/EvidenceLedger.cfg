SPECIFICATION Spec
CONSTANTS
    i1 = i1
    i2 = i2
    Identities = {i1, i2}
    Rows = {"plain", "edited"}
    NoRow = NoRow
    NoIdentity = NoIdentity
    MaxSnapshots = 2
    MaxFaults = 2
SYMMETRY IdentitySymmetry
INVARIANTS
    TypeOK
    GoneStaysGone
    LedgerHolds
PROPERTIES
    PurgeIsComplete
CHECK_DEADLOCK FALSE
