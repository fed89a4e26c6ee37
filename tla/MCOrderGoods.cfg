CONSTANTS
    o1 = o1
    o2 = o2
    clock = clock
    press = press
    Order = {o1, o2}
    Qty <- Units
    Stock = 2
    Course <- TwoEnds
    Worker = {clock}
    Button = {}
    RejectBelow = 4
SPECIFICATION Spec
INVARIANT TypeOK
INVARIANT StockConserved
INVARIANT LedgerContinuous
INVARIANT CancelledStaysHome
PROPERTY NoStockBeforeInspection
CHECK_DEADLOCK FALSE
