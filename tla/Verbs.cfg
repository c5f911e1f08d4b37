CONSTANTS
    TidyBranches <- MCTidyBranches
    TidyWorlds <- MCTidyWorlds
    TidyLateWork = 2
    Releases = {1, 2}
    UpdateCalls = 3
    UnparkIssues <- MCUnparkIssues
    UnparkWorlds <- MCUnparkWorlds
    GrantEntries = {"web", "edit", "forged"}
    UnparkMoves = 1
    StandingIssues = 1
    MaxFiled = 2
    StrayLabels = {"bug"}
    IntakeMoves = 2
    Waiting = {1, 2}
    Poll = 2
    WaitMoves = 1
    Dates = 5
    Grace = 1
    PoolSpan = 2
    MeterLag = 1
    Years = 2
    Knobs <- MCKnobs
    LabelSets <- MCLabelSets
    Settings <- MCSettings
    PluginCopies <- MCPluginCopies
    Queues <- MCQueues
    RecIssues = {1}
    RecShifts = {1, 2}
    RecClock = 2
    RecLines = 2
    RecPRs = 2
    SetupItems <- MCSetupItems
    SetupCalls = 2
    SetupMoves = 2
    SetupPRs = 2
    Requests = {1, 2}
    DesignFiled = {1}
    DesignCalls = 2
    DesignMoves = 1
    StIssues = {1, 2}
    StDocs = {"a"}
    StCalls <- MCStCalls
    StatusPRs = 1
    PlanDocsLimit = 1
    StatusMoves = 1
INIT Init
NEXT Next
INVARIANTS
    VerbsTypeOK
    TidyLosesNothingSeen
    GrantsMatchClears
    ReplyWaitsOnePoll
    SleepsNoLongerThanNeeded
    StrongestVoice
    DryRunForesees
    ReportsHold
    NothingStranded
    CodeIsNotDesign
    ReportStands
PROPERTIES
    HalvesInOrder
    PassSparesTheRest
CHECK_DEADLOCK FALSE
