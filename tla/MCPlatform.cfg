CONSTANTS
    Scans = {loop, now}
    Views = {view}
    Monitors = {monitor}
    Certifiers = {certify}
    Providers = {"IBKR", "MT5", "BYBIT"}
    Books <- ThreeBooks
    Equity = 16
    MaxPct = 50
    MaxOpen = 2
    MaxNew = 2
    MaxStarts = 2
    NumSymbols = 3
    Orders = {1, 2, 3}
    Exits = {2}
    Partial = {1, 2}
    Several = 2
    Operators = {h1, h2}
    Readers = {r1, r2}
    Operations = {"positions", "orders", "exec", "acct"}
    MaxRequests = 2
    MaxEpoch = 1
    Emitters = {e1, e2}
    QueueSize = 1
    Keep = 2
    Window = 2
    Limit = 1
    MaxEvents = 3
    Profiles = {1, 2}
    Certified = {2}
    Traded = {s}
    Jobs = {j1, j2}
    Ceiling = 2
    MaxCalls = 3
    MaxEras = 2
    None = None
SPECIFICATION Spec
INVARIANTS
    PortfolioIsGuarded
    LedgerIsTrue
    ReadIsWhole
    EventsAreAccounted
    HistoryTellsRow
    TradesAreAllowed
CHECK_DEADLOCK FALSE
