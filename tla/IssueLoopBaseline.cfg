CONSTANTS
    Retries = 1
    ResumeCeiling = 2
    CleanCeiling = 1
    MaxCost = 0
    RunCosts <- MCFree
    StrictOrder = FALSE
    MaxComments = 2
    MaxLimits = 0
    MaxShifts = 0
SPECIFICATION Spec
INVARIANTS
    BaselineIsTheQuestion
CHECK_DEADLOCK FALSE
