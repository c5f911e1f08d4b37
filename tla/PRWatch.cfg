CONSTANTS
    Flags <- MCFlags
    RunCosts <- MCRunCosts
    Reviewers <- MCReviewers
    Trusted <- MCTrusted
    Rollups <- MCRollups
    MaxHead = 2
    MaxTime = 3
    MaxBase = 1
SPECIFICATION FairSpec
PROPERTIES
    SpendsAsAllowed
    ParkedForItsOwnCause
    WatchEnds
CHECK_DEADLOCK FALSE
