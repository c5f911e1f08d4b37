CONSTANTS
    Issues <- MCIssues
    Skip <- MCNone
    LegCosts <- MCCosts
    AuthHoldLimit = 3
    Setups <- MCLive
SPECIFICATION FairSpec
PROPERTIES
    ComesToRest
    ReplyIsFound
CHECK_DEADLOCK FALSE
