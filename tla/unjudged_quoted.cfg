CONSTANTS
    Node <- Nodes
    Parents <- Edges
    Sessions <- SessionNodes
    Declarer = "judge"
    Loop <- LoopNodes
    MaxRounds = 1
    MaxExecs = 3
    MaxLegs = 3
SPECIFICATION HandoffSpec
PROPERTIES
    QuoteIsJudged
CHECK_DEADLOCK FALSE
