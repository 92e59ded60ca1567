CONSTANTS
    Lane = {"lane"}
    MaxCommits = 3
    AllowDetach = TRUE
    AllowForeign = TRUE
SPECIFICATION WorktreeSpec

CHECK_DEADLOCK FALSE
INVARIANT
    OnlyEmptyBranchDeleted
