CONSTANTS
    design = design
    review = review
    docs = docs
    signoff = signoff
    build = build
    plan = plan
    code = code
    tests = tests
    judge = judge
    release = release
    Nobody = Nobody
    Node <- LoopNode
    Parents <- LoopParents
    Gates = {}
    Width = 2
    ContinueOnFail = TRUE
    RetryMax <- JudgeRetryMax
    RetryOn <- JudgeRetryOn
    Declarers = {judge}
    Rerun <- LoopRerun
    FeedbackMax <- LoopMax
    AllowInterrupt = FALSE
    AllowWriteFault = TRUE
SPECIFICATION Spec
INVARIANTS
    RowsAccounted
