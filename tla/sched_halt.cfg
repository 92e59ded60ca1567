CONSTANTS
    design = design
    review = review
    docs = docs
    signoff = signoff
    build = build
    plan = plan
    code = code
    tests = tests
    judge = judge
    release = release
    Nobody = Nobody
    Node <- SiblingNode
    Parents <- SiblingParents
    Gates = {}
    Width = 3
    ContinueOnFail = FALSE
    RetryMax <- JudgeRetryMax
    RetryOn <- JudgeRetryOn
    Declarers = {judge}
    Rerun <- SiblingRerun
    FeedbackMax <- SiblingMax
    AllowInterrupt = FALSE
    AllowWriteFault = TRUE
SPECIFICATION FairSpec
INVARIANTS
    CausalStory
