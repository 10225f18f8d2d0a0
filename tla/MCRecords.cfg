SPECIFICATION RecordsSpec
CONSTANTS
    r1 = r1
    r2 = r2
    NoRun = NoRun
    Run <- MCRun
    Statuses <- AllStatuses
    Faults <- Anything
INVARIANTS
    PublishedIsComplete
    LatestIsFresh
    IndexIsExact
    TrainedIsRecorded
    LearnsUnlessSpoilt
PROPERTIES
    ImplementsLedger
CHECK_DEADLOCK FALSE
