CONSTANTS
    Flags <- MCTimed
    MaxEvents = 2
    PipeRoom = 1
SPECIFICATION Spec
INVARIANTS
    OverBudgetWasStillGoing
CHECK_DEADLOCK FALSE
