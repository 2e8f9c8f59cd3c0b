SPECIFICATION Spec
CONSTANTS
    Workers = {w1, w2}
    Validator = v
    Credentials = {c1, c2}
    None = none
    MaxEvents = 3
    MaxAuths = 2
    MaxTokens = 2
    MaxVersions = 3
    FailingWrites = 2
    MaxLate = 1
    MaxCloses = 2
    MaxCrashes = 1
    MaxRequests = 3
    ShortcutFaults = 2
    MaxRefusals = 1
    Regions = {"eu", "us"}
    MaxReaders = 1
    MaxPreloads = 5
    AddonVersions = 2
    MaxLoads = 2
    MaxTroubles = 3
CHECK_DEADLOCK FALSE
INVARIANTS
    CoalescingIsSafe
    TokensAreLive
    TokenFileServes
    CacheFileIsDurable
    ShortcutAnswersAreTrue
    LocalProfilesAreSound
    RecordsAreRead
    SurfacesAgree
PROPERTIES
    NothingDroppedOrApprovedUnasked
    SurfacesFollow
SYMMETRY Symmetry
