CONSTANTS
    design = design
    review = review
    docs = docs
    build = build
    code = code
    judge = judge
    Nobody = Nobody
    Node <- ApprovalNode
    Parents <- ApprovalParents
    Gates = {review}
    Width = 2
    ContinueOnFail = TRUE
    RetryMax <- NoRetryMax
    RetryOn <- NoRetryOn
    Declarers = {}
    Rerun <- NoRerun
    FeedbackMax <- NoMax
    AllowInterrupt = FALSE
    AllowWriteFault = FALSE
    MaxLegs = 2
    AllowCrash = FALSE
    ForbidRemoteChanges = FALSE
SPECIFICATION RunSpec
INVARIANTS
    NilMeansPassed
CHECK_DEADLOCK FALSE
