SPECIFICATION Spec
CONSTANTS
    Pids = {p1}
    Clients = {c1}
    Handlers = {h1}
    Timers = {t1, t2}
    None = None
    Lives = {"expiring"}
    Pausing = FALSE
    Patient = TRUE
    MaxOps = 4
    MaxCrashes = 0
    MaxTimeouts = 0
SYMMETRY Symmetry
INVARIANTS DisabledMeansRevoked
CHECK_DEADLOCK FALSE
