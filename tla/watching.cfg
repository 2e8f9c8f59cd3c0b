SPECIFICATION Spec
CONSTANTS
    Kinds = {"owned", "corrupt", "manual"}
    MaxGenerations = 2
    MaxAttempts = 1
    ClaimFaults = 1
    RetryWindow = 1
    MaxShots = 4
    Streams = {1, 2}
    MaxGeneration = 2
    ChunkCount = 2
    FragmentFaults = 1
    Folders = {1, 2}
    MaxWatchers = 3
    MaxSnapshots = 2
    MaxFailures = 1
CHECK_DEADLOCK FALSE
INVARIANTS
    UserFilesAreSafe
    ScreenshotsAreNotLost
    GroupsArePure
    GroupsKeepOrder
    HandoffIsClean
