CONSTANTS
    Symbols = {sym1}
    Scans = {loop}
    Manager = manager
    RowIds = {r1, r2}
    OrderIds = {o1, o2, o3, o4}
    Sides <- BuyAndSell
    Qty = 2
    MaxClock = 1
    MaxChanges = 0
    MaxFaults = 2
    MaxManual = 0
    None = none
SPECIFICATION Spec
SYMMETRY Symmetry
INVARIANTS
    ExecutedMeansFilled
    ExposureBounded
CHECK_DEADLOCK FALSE
