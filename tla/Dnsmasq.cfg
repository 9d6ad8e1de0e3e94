SPECIFICATION MCSpec
CONSTANTS
    Writers = {w1}
    Restarts = {c1}
    DhcpRestarts = {d1}
    OneUnit = TRUE
    None = None
    Fresh = TRUE
    Slow = FALSE
    MaxChanges = 2
    MaxFailures = 1
    MaxCrashes = 1
INVARIANTS LatestLoaded DeadIsBypassed
PROPERTY ServesLatest
CHECK_DEADLOCK FALSE
