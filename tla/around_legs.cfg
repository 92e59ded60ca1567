CONSTANTS
    Node <- Nodes
    Parents <- Edges
    Sessions <- SessionNodes
    Declarer = "judge"
    Loop <- LoopNodes
    MaxRounds = 2
    MaxExecs = 3
    MaxLegs = 3
    Lane <- Lanes
    MaxCommits = 3
    AllowDetach = FALSE
    AllowForeign = TRUE
    Remote <- RemoteNames
    Url <- Urls
    Mirror = "fork"
    Branch = {"topic"}
    Guarded = TRUE
    MaxEvents = 2
    MaxRemoteLegs = 2
    MaxCycles = 3
    Ceilings <- Budgets
    MaxQuestions = 1
    MaxRepairs = 1
    SpawnAttempts = 2
    launch = launch
    again = again
    watcher = watcher
    Nobody = Nobody
    Leg <- LaunchAndResume
    First = launch
    Watcher = {watcher}
    Planned = TRUE
    AllowEmitFault = TRUE
    AllowCrash = TRUE
    MaxFeedLegs = 3
    MaxEmits = 4
    MaxTears = 2
    Shown <- Runs
    MaxLines = 2
    MaxSaves = 2
    MaxConnects = 2
    GateIds <- TwoGates
    Viewers <- Posts
    Terminals <- Shells
    MaxLegPauses = 3
    Unnamed = "nobody"
    Docs <- GraphDocs
    MaxChain = 3
    CallNode <- CallNodes
    Attempts = 2
    LookupAttempts = 2
    Baseline <- Baselines
    ParentTotal = 1
    MaxSpend = 2
    MaxExecutions = 2
    Answers <- PlannerReplies
    Wishes <- CommandLines
    Allowlist <- WriteTools
    ShapeTools <- ReadTools
    AgentTools <- AgentFile
    MaxPlanRepairs = 1
    MaxEdits = 1
    MaxRunLegs = 2
    Named <- Names
    Inode = {"one", "other"}
    Sizes = {1, 2}
    StageCap = 3
    Header = 1
    Builds <- Programs
    MaxChanges = 2
    MaxBriefLegs = 3
    BriefAttempts = 2
    Cycles <- Evidences
    Material = 12
    Excerpt = 4
    Lists <- RefusalLists
    PromptLimit = 20
    NoteSize = 2
    ClassSize = 3
    MaxClasses = 2
SPECIFICATION AroundSpec
INVARIANTS
    AroundTypeOK
    InputsAreRecorded
    FilesAgree
    WorkAloneIsKept
    BudgetHolds
    AccountsComplete
    LegsBracketed
    OpenLegIsHeld
    NoFalseDeath
    OneLegAtATime
    FeedTold
    NoUpdateLost
    LoadKeepsMeaning
    RowIsTrue
    LegRunsThePlan
    AdviceHolds
    BriefedAlike
    PromptsFair
PROPERTIES
    FailAnswered
    PriorIsNewest
    RemotesJudged
    DecidesThePause
CHECK_DEADLOCK FALSE
