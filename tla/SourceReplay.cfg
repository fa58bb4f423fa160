SPECIFICATION FairSpec
CONSTANTS
    Total = 3
    SpoolLimit = 2
    Group = 2
    Versions = {"v1", "v2"}
    BatchLen <- TwoLens
    MaxFailures = 3
    MaxFaults = 6
INVARIANTS
    TypeOK
    ExactlyOnce
    AcknowledgedAfterCommit
    CursorRecoverable
PROPERTIES
    JournalGrows
    SourceDrains
CHECK_DEADLOCK FALSE
