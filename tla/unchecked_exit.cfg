CONSTANTS
    Answers <- PlannerReplies
    Wishes <- CommandLines
    Allowlist <- WriteTools
    ShapeTools <- ReadTools
    AgentTools <- AgentFile
    MaxPlanRepairs = 1
    MaxEdits = 1
    MaxRunLegs = 2
SPECIFICATION PlanSpec
INVARIANTS
    NeverWeakerThanExit
CHECK_DEADLOCK FALSE
