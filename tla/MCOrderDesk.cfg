CONSTANTS
    o1 = o1
    o2 = o2
    clock = clock
    press = press
    Order = {o1}
    Qty <- Unit
    Stock = 1
    Course <- Desk
    Worker = {clock}
    Button = {}
    RejectBelow = 4
SPECIFICATION FairSpec
PROPERTY DeliveredReachesTheBooks
CHECK_DEADLOCK FALSE
