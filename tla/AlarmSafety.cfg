SPECIFICATION Spec
CONSTANTS
    Kinds = {k1}
    Queues = {q1}
    Workers = {w1}
    Apps = {a1, a2}
    None = None
    FirstIds = {0, 1}
    Slow = FALSE
    MaxAlarms = 2
    MaxRules = 2
    MaxJobs = 2
    MaxDirect = 1
    MaxOps = 2
INVARIANTS OneList ActiveIsLoadable HandledLeaves NoDuplicates
CONSTRAINTS FewOnNewBox FewExpire
SYMMETRY Symmetry
CHECK_DEADLOCK FALSE
