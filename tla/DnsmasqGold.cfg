SPECIFICATION Spec
CONSTANTS
    Writers = {w1}
    Restarts = {c1}
    DhcpRestarts = {d1}
    OneUnit = FALSE
    None = None
    Fresh = TRUE
    Slow = FALSE
    MaxChanges = 2
    MaxFailures = 0
    MaxCrashes = 0
INVARIANT FiltersLoaded
CHECK_DEADLOCK FALSE
