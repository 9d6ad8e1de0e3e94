SPECIFICATION VerdictSpec
CONSTANTS
    Groups = {g}
    Created <- SomeRules
    Patient = TRUE
    MaxRules = 2
    MaxOps = 2
    Calls = {c1, c2}
    MaxVpnOps = 2
INVARIANTS CacheIsCurrent VerdictAgrees
PROPERTY Reconnects
CHECK_DEADLOCK FALSE
