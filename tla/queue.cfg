SPECIFICATION FairSpec
CONSTANTS
    MaxKey = 2
    FailureKeys = {0, 2}
    MaxCallbacks = 2
    SchedulerFaults = 1
    PlanMayFail = TRUE
    ApplyMayFail = TRUE
INVARIANTS
    NoLostWakeup
    CacheFollowsMachine
    FailuresInOrder
PROPERTIES
    ReportedFailureIsNewest
    StaleFlushHasNoEffect
    HandedEventIsAnswered
