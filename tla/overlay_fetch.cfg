SPECIFICATION FairSpec
CONSTANTS
    Applicants = {x}
    Members = {m}
    Characters = {a}
    Specs = {"known", "unknown"}
    NoRealm = norealm
    NoFetch = nofetch
    Absent = absent
    Choices = {{}, {"mplus", "raid"}}
    Private = {"raid"}
    MaxChanges = 2
CHECK_DEADLOCK FALSE
INVARIANTS
    RowsAreServed
PROPERTIES
    RowsSettle
