SPECIFICATION Spec
CONSTANTS
    Pids = {p1}
    Clients = {c1, c2}
    Handlers = {h1, h2}
    Timers = {t1, t2}
    None = None
    Lives = {"autodelete"}
    Pausing = TRUE
    Patient = FALSE
    MaxOps = 3
    MaxCrashes = 2
    MaxTimeouts = 1
CONSTRAINT FewOnFailure
SYMMETRY Symmetry
INVARIANTS TypeOK ActiveHasRecord NoOrphanTimer RestartHeals
CHECK_DEADLOCK FALSE
