SPECIFICATION Spec
CONSTANTS
    Kinds = {"owned", "corrupt", "suspect", "manual"}
    MaxGenerations = 2
    MaxAttempts = 1
    MaxFaults = 1
    RetryWindow = 1
INVARIANT NothingStuck
CHECK_DEADLOCK FALSE
