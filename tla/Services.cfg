SPECIFICATION ServicesSpec
CONSTANTS
    Spoofing = {spoof}
    Others = {dhcp}
    None = None
    Tasks = {x1, x2}
    Reloads = {r1}
    Patient = TRUE
    MaxOps = 4
    MaxCrashes = 1
    Cats = {c, d}
    Active = {c}
    Sweeps = {x1, x2}
    Recycles = {x1, x2}
    MaxCatOps = 2
    MaxCatCrashes = 1
INVARIANTS ModeIsApplied ServiceFollowsMode RemovedIsCleared
PROPERTIES RevertsToNone SetCatchesUp
CHECK_DEADLOCK FALSE
