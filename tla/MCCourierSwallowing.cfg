SPECIFICATION Spec
SYMMETRY DrainerSymmetry
CONSTANTS
    Order = {o1}
    Drainer = {worker, route}
    Poller = {}
    Swallowing <- EveryRow
    NoRow = NoRow
    MaxAttempts = 2
    RestoreBatch = 20
    MaxGenerations = 1
    MaxExpiries = 0
    MaxUnreadable = 0
    MaxCrashes = 0
INVARIANTS
    NoDuplicateParcel
CHECK_DEADLOCK FALSE
