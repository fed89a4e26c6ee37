SPECIFICATION Spec
SYMMETRY CodSymmetry
CONSTANTS
    Order = {o1, o2}
    NoOrder = none
    Line = {l1, l2}
    Provider = {yalidine, maystro}
    Receivable <- TwoEach
    Amount = {1, 2}
    Sheet <- Sheets
    CashDelta <- CashDeltas
    LineDelta <- LineDeltas
    MaxCommands = 6
INVARIANTS
    StoredStateIsDerived
    CostsReachTheBooks
CHECK_DEADLOCK FALSE
