SPECIFICATION FairSpec
CONSTANTS
    Message = {m1, bad}
    Bad = {bad}
    Handler = {route, worker}
    OpenAfter = 2
    Budget = 2
    MaxFaults = 2
    MaxTurns = 2
PROPERTIES
    KeepsPromise
    MessageArrives
CHECK_DEADLOCK FALSE
