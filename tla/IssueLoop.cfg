CONSTANTS
    Retries = 1
    ResumeCeiling = 2
    CleanCeiling = 1
    MaxCost = 1
    RunCosts <- MCRunCosts
    StrictOrder = FALSE
    MaxComments = 2
    MaxLimits = 0
    MaxShifts = 1
SPECIFICATION Spec
INVARIANTS
    BudgetsHold
    OneBlindRunAtMost
    NoWaitOnStaleFlag
    RefusalBlamedUnlessBudget
PROPERTIES
    DeadSessionForgotten
    ClosedOnlyByCleanRun
    KeepsIssueLife
    KeepsIssueLegs
CHECK_DEADLOCK FALSE
