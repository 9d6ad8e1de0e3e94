SPECIFICATION PoliciesSpec
CONSTANTS
    Rules = {r1, r2}
    Inbound = {r2}
    Tasks = {k1, k2, k3}
    Timers = {t1, t2}
    None = None
    Expiries = {0, 2}
    MaxNow = 3
    MaxOps = 2
    MaxCrashes = 1
    Calls = {c1, c2}
    Strict = TRUE
    MaxVpnOps = 3
    MaxBreaks = 1
    MaxFailures = 1
SYMMETRY Symmetry
INVARIANTS PausedMeansRemoved NotPausedMeansInstalled PauseHasEnd StrictFollowsState
CHECK_DEADLOCK FALSE
