CONSTANTS
    launch = launch
    again = again
    watcher = watcher
    Nobody = Nobody
    Leg <- LaunchAndResume
    First = launch
    Watcher = {watcher}
    Planned = FALSE
    AllowEmitFault = FALSE
    AllowCrash = TRUE
SPECIFICATION Spec
INVARIANTS
    RecoveryContinues
CHECK_DEADLOCK FALSE
