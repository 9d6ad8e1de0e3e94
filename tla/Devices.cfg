SPECIFICATION DevicesSpec
CONSTANTS
    m1 = m1
    m2 = m2
    i1 = i1
    i2 = i2
    Devices = {m1, m2}
    Addrs = {i1, i2}
    None = None
    Starts <- Places
    Sweeps = {x1, x2}
    MaxMoves = 1
    MaxDeletes = 1
    MaxFailures = 1
    MaxEvents = 2
    Handlers = {x1, x2}
    MaxChanges = 2
INVARIANTS TypesOK ListedIsFound
PROPERTIES ListedIsTracked RecordsSettle
CHECK_DEADLOCK FALSE
