CONSTANTS
    design = design
    review = review
    docs = docs
    build = build
    code = code
    judge = judge
    Nobody = Nobody
    Node <- LoopNode
    Parents <- LoopParents
    Gates = {review}
    Width = 2
    ContinueOnFail = TRUE
    RetryMax <- NoRetryMax
    RetryOn <- NoRetryOn
    Declarers = {judge}
    Rerun <- LoopRerun
    FeedbackMax <- LoopMax
    AllowInterrupt = TRUE
    AllowWriteFault = FALSE
    MaxLegs = 3
    AllowCrash = TRUE
    ForbidRemoteChanges = FALSE
SPECIFICATION RunSpec
INVARIANTS
    EveryLegSafe
    RunTypeOK
    NoUnapprovedGate
    PauseAgrees
    NoStuckRun
PROPERTIES
    SettledNeverRerun
    RejectStands
CHECK_DEADLOCK FALSE
