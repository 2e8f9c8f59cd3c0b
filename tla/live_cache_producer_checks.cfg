SPECIFICATION Spec
CONSTANTS
    Producers = {p, q}
    Unnamed = unnamed
    Bodies = {1}
    MaxStamp = 3
    MaxGeneration = 1
    MaxEvents = 1
CHECK_DEADLOCK FALSE
INVARIANT
    ChecksRestoreNoOlderProducer
