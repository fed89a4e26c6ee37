CONSTANTS
    o1 = o1
    o2 = o2
    clock = clock
    press = press
    Order = {o1}
    Qty <- Unit
    Stock = 1
    Course <- Histories
    Worker = {clock}
    Button = {press}
    RejectBelow = 0
SPECIFICATION Spec
INVARIANT GoodsTellOneStory
INVARIANT CashFollowsDelivery
PROPERTY DeliveryNeverRollsBack
CHECK_DEADLOCK FALSE
