SPECIFICATION Spec
SYMMETRY DrainerSymmetry
CONSTANTS
    Order = {o1}
    Drainer = {worker, route}
    Poller = {}
    Swallowing = {}
    NoRow = NoRow
    MaxAttempts = 2
    RestoreBatch = 20
    MaxGenerations = 2
    MaxExpiries = 2
    MaxUnreadable = 1
    MaxCrashes = 1
INVARIANTS
    TypeOK
    NoDuplicateParcel
    ReleasedIsQuiet
    NoForgottenParcel
    DeliveryMirrorsIntent
    OneRecorder
PROPERTIES
    KeepsPromise
CHECK_DEADLOCK FALSE
