SPECIFICATION Spec
CONSTANTS
    Rules = {r1, r2}
    Inbound = {r2}
    Tasks = {k1, k2, k3}
    Timers = {t1, t2}
    None = None
    Expiries = {1}
    MaxNow = 3
    MaxOps = 2
    MaxCrashes = 0
INVARIANTS NotPausedMeansInstalled
CHECK_DEADLOCK FALSE
