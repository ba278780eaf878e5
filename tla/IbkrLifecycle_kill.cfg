CONSTANTS
    Symbols = {sym1}
    Scans = {loop}
    Manager = manager
    RowIds = {r1}
    OrderIds = {o1}
    Sides <- BuyOnly
    Qty = 1
    MaxClock = 3
    MaxChanges = 1
    MaxFaults = 0
    MaxManual = 0
    None = none
SPECIFICATION Spec
SYMMETRY Symmetry
PROPERTIES
    NoOrderWhileKilled
CHECK_DEADLOCK FALSE
