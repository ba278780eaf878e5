CONSTANTS
    Symbols = {sym1}
    Scans = {loop}
    Manager = manager
    RowIds = {r1, r2}
    OrderIds = {o1, o2}
    Sides <- BuyOnly
    Qty = 1
    MaxClock = 2
    MaxChanges = 0
    MaxFaults = 1
    MaxManual = 1
    None = none
SPECIFICATION FairSpec
PROPERTIES
    FillsAreRecorded
    ReservationsAreReleased
CHECK_DEADLOCK FALSE
