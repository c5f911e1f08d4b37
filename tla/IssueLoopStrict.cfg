CONSTANTS
    Retries = 1
    ResumeCeiling = 1
    CleanCeiling = 1
    MaxCost = 0
    RunCosts <- MCFree
    StrictOrder = TRUE
    MaxComments = 2
    MaxLimits = 1
    MaxShifts = 0
SPECIFICATION FairSpec
INVARIANTS
    EveryRunPaidFor
PROPERTIES
    AnsweredRunIsTold
    LegEnds
CHECK_DEADLOCK FALSE
