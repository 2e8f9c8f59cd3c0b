SPECIFICATION Spec
CONSTANTS
    Characters = {c}
    Variants = {v}
    Scopes = {h, m}
    RaidScopes = {h}
    h = h
    m = m
    Preferences <- Selections
    Workers = {w1, w2}
    MaxAnswers = 3
    MaxEvents = 1
    MaxEntries = 3
    MaxProofs = 1
CHECK_DEADLOCK FALSE
INVARIANTS
    TypeOK
PROPERTIES
    ImplementsLedger
SYMMETRY Symmetry
