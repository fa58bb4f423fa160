SPECIFICATION Spec
CONSTANTS
    c1 = c1
    c2 = c2
    Conversations = {c1}
    Forgets = {c1}
    Worktrees = {c1}
    Protections = {"schedule", "live"}
    NoRow = NoRow
    NoConversation = NoConversation
    GracePeriod = 1
    BatchLimit = 1
    Rank <- Ranks
    Days = {1, 2}
    MaxTime = 2
    MaxFaults = 0
PROPERTIES
    RestoredIsKept
CHECK_DEADLOCK FALSE
