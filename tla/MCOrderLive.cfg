CONSTANTS
    o1 = o1
    o2 = o2
    clock = clock
    press = press
    Order = {o1}
    Qty <- Unit
    Stock = 1
    Course <- Plain
    Worker = {clock}
    Button = {}
    RejectBelow = 4
SPECIFICATION FairSpec
PROPERTY DeliveredReachesTheBooks
PROPERTY ReturnReachesTheOrder
CHECK_DEADLOCK FALSE
