SPECIFICATION SpecEither
CONSTANTS
    Scans = {s1, s2}
    MaxOrders = 3
    Qty = 2
    MinQty = 2
    Own = 1
    MaxTransfers = 2
    MaxLost = 1
    MaxEntries = 2
    MaxFaults = 2
    None = None
INVARIANT RowsAgree
INVARIANT OneUnresolvedOrder
INVARIANT ScansInTurnSellOnlyManaged
INVARIANT OneEntry
INVARIANT StockIsExact
INVARIANT OnePair
INVARIANT RecordsAgree
CHECK_DEADLOCK FALSE
