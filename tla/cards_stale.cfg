CONSTANTS
    Shown = {"run"}
    MaxLines = 3
    MaxSaves = 2
    MaxConnects = 2
SPECIFICATION DashSpec
INVARIANTS
    CardsFollowTheirInputs
CHECK_DEADLOCK FALSE
