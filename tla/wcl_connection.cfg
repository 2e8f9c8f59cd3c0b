SPECIFICATION FairSpec
CONSTANTS
    Workers = {w1, w2}
    Validator = v
    None = none
    MaxAuths = 2
    MaxRuntime = 2
CHECK_DEADLOCK FALSE
INVARIANTS
    TypeOK
    LimitsAreCurrent
PROPERTIES
    CheckingEnds
