CONSTANTS
    Symbols = {sym1}
    Scans = {loop, scan_now}
    Manager = manager
    RowIds = {r1, r2}
    OrderIds = {o1, o2}
    Sides <- BuyOnly
    Qty = 2
    MaxClock = 3
    MaxChanges = 1
    MaxFaults = 1
    MaxManual = 0
    None = none
SPECIFICATION Spec
SYMMETRY Symmetry
INVARIANTS
    TypeOK
    OneUnresolvedEntry
    NoConcurrentEntryOrders
    ReleasedMeansDead
PROPERTIES
    OutcomeIsFinal
    ImplementsSlot
CHECK_DEADLOCK FALSE
