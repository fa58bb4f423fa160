SPECIFICATION FairSpec
CONSTANTS
    c1 = c1
    c2 = c2
    Conversations = {c1, c2}
    Forgets = {c1}
    Worktrees = {c1}
    Protections = {"live"}
    NoRow = NoRow
    NoConversation = NoConversation
    GracePeriod = 1
    BatchLimit = 1
    Rank <- Ranks
    Days = {1}
    MaxTime = 1
    MaxFaults = 2
PROPERTIES
    StagedAsApproved
    WorkHoldsDeletion
    TrashEmpties
CHECK_DEADLOCK FALSE
