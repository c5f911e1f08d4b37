CONSTANTS
    Epics <- MCEpics
    Docs <- MCDocs
    DocOf <- MCSame
    NoDoc = NoDoc
    MaxReopens = 1
    MaxHolds = 1
SPECIFICATION FairSpec
INVARIANTS
    OneNote
    OneRetirePerCall
PROPERTIES
    ClosedWithReason
    FinishedIsClosed
