SPECIFICATION RulesSpec
CONSTANTS
    Pids = {p1}
    Versions = {v1, v2}
    Slots = {s1, s2}
    Reloads = {r1}
    Queue = queue
    None = None
    MaxJobs = 4
    MaxRejections = 1
    p1 = p1
    p2 = p2
    p3 = p3
    a = a
    b = b
    RulePids = {p1, p2, p3}
    Boxes <- AllBoxes
    MaxHandler = 3
    MaxOps = 3
    MaxBacklog = 1
    MaxToggles = 1
INVARIANTS TypeOK OneCronJobPerPolicy ActivationBounded ScheduledStaysScheduled
           UncheckedIsGone MarksAreOwned
PROPERTIES ActivationEnds BackInForce
CHECK_DEADLOCK FALSE
