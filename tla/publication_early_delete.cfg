SPECIFICATION Spec
CONSTANTS
    Workers = {w1, w2}
    Timer = timer
    MaxKey = 3
    Fragments = {}
    EmitMayRaise = FALSE
    NoKey = nokey
CHECK_DEADLOCK FALSE
INVARIANTS
    DeletedOnlyAfterHandoff
