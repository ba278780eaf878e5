SPECIFICATION FairSpec
CONSTANTS
    Symbols = {s1}
    Scans = {a, b}
    Cert = cert
    Manager = pm
    ToolsCrews = {{a, cert}, {a, pm}}
    WindowsCrews = {{a, b}}
    MaxOrders = 2
    MaxFaults = 1
    MaxControls = 1
    None = None
CHECK_DEADLOCK FALSE
INVARIANTS OneEntry RowsAgree CertifiedMeansFlat
PROPERTIES KillTakesHold
