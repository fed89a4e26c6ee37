SPECIFICATION FairSpec
CONSTANTS
    Effect = {m1}
    Executor = {worker, route}
    Poller = {worker}
    MaxAttempts = 2
    MaxPresses = 2
    MaxFaults = 1
INVARIANTS
    AtMostOnce
    SuccessIsShown
    HeldSendsAreUntouched
PROPERTIES
    KeepsPromise
    SendResolves
CHECK_DEADLOCK FALSE
