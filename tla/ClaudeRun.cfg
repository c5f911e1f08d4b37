CONSTANTS
    Flags <- MCFlags
    MaxEvents = 2
    PipeRoom = 1
SPECIFICATION FairSpec
INVARIANTS
    KillIsNamed
    NoBeatAfterFinish
PROPERTIES
    DispatchReturns
CHECK_DEADLOCK FALSE
