SPECIFICATION Spec
CONSTANTS
    MaxKey = 2
    FailureKeys = {0, 1, 2}
    MaxCallbacks = 2
    SchedulerFaults = 1
    PlanMayFail = FALSE
    ApplyMayFail = FALSE
PROPERTIES
    NextEventReschedules
