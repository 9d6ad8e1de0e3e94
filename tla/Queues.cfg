SPECIFICATION QueuesSpec
CONSTANTS
    None = None
    Pids = {p1}
    Clients = {c1, c2}
    Handlers = {h1}
    Timers = {t1}
    Lives = {"plain"}
    Pausing = FALSE
    Patient = TRUE
    MaxOps = 4
    MaxCrashes = 2
    MaxTimeouts = 0
    Kinds = {k1}
    Queues = {q1}
    Workers = {w1}
    Apps = {a1}
    Names = {d, sub}
    Covered = {d, sub}
    Top = d
    Addrs = {a, b}
    Lines = {l1}
    MaxDomainOps = 3
CONSTRAINT NoneExpires
INVARIANTS Settled MappedIsBlocked
PROPERTIES QueueDrains GoneIsRevoked LearnedIsBlocked
CHECK_DEADLOCK FALSE
