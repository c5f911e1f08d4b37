CONSTANTS
    Issues <- MCIssues
    Skip <- MCNone
    LegCosts <- MCCosts
    AuthHoldLimit = 3
    Setups <- MCSafety
SPECIFICATION Spec
INVARIANTS
    BooksBalance
    StopsWhereItShould
PROPERTIES
    PutDownStaysDown
    KeepsIssueLegs
CHECK_DEADLOCK FALSE
