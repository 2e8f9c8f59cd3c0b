SPECIFICATION FairSpec
CONSTANTS
    Producers = {p, q}
    Unnamed = unnamed
    Bodies = {1}
    MaxStamp = 3
    MaxGeneration = 1
    MaxEvents = 3
CHECK_DEADLOCK FALSE
INVARIANTS
    CacheIsSound
PROPERTIES
    LatestSaveIsWritten
