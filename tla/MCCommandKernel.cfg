SPECIFICATION FairSpec
CONSTANTS
    Caller = {c1, c2}
    Client = {route, worker}
    Key = {k1, k2, k3}
    Aggregate = {orderA, orderB}
    Reservation = {r1}
    NoCaller = NoCaller
    NoCommand = NoCommand
    NoWrites = NoWrites
    k1 = k1
    k2 = k2
    k3 = k3
    orderA = orderA
    orderB = orderB
    r1 = r1
    route = route
    worker = worker
    MaxAttempts = 3
    MaxCrashes = 1
    Principal <- MCPrincipal
    Request <- MCRequest
INVARIANTS
    TypeOK
    VersionChain
    ClaimedWhatWasRead
    FactsOncePerKey
    ReservationHistory
    AnswerIsTheStoredOne
PROPERTIES
    CommittedIsForever
    KeepsPromise
    EveryCallAnswered
CHECK_DEADLOCK FALSE
