CONSTANTS
    Issues <- MCIssues
    Skip <- MCNone
    LegCosts <- MCCosts
    AuthHoldLimit = 3
    Setups <- MCParks
SPECIFICATION Spec
INVARIANTS
    ClearedHidesNoPark
CHECK_DEADLOCK FALSE
