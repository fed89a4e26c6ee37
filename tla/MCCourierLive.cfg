SPECIFICATION FairSpec
CONSTANTS
    Order = {o1}
    Drainer = {worker}
    Poller = {worker}
    Swallowing = {}
    NoRow = NoRow
    MaxAttempts = 2
    RestoreBatch = 20
    MaxGenerations = 2
    MaxExpiries = 1
    MaxUnreadable = 0
    MaxCrashes = 1
PROPERTIES
    BookingResolves
    RejectionReleases
CHECK_DEADLOCK FALSE
