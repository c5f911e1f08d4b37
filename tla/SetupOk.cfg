CONSTANTS
    SetupItems <- MCSetupItems
    SetupCalls = 2
    SetupMoves = 0
    SetupPRs = 1
INIT SetupInit
NEXT SetupNext
INVARIANT AlreadyIsOnDefault
CHECK_DEADLOCK FALSE
