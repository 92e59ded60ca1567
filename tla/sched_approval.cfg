CONSTANTS
    design = design
    review = review
    docs = docs
    signoff = signoff
    build = build
    plan = plan
    code = code
    tests = tests
    judge = judge
    release = release
    Nobody = Nobody
    Node <- ApprovalNode
    Parents <- ApprovalParents
    Gates = {review, signoff}
    Width = 2
    ContinueOnFail = TRUE
    RetryMax <- ApprovalRetryMax
    RetryOn <- ApprovalRetryOn
    Declarers = {}
    Rerun <- NoRerun
    FeedbackMax <- NoMax
    AllowInterrupt = TRUE
    AllowWriteFault = FALSE
SPECIFICATION ApprovalSpec
INVARIANTS
    TypeOK
    NothingForgotten
    PausedIsResumable
