CONSTANTS
    Accounts = {ann}
    None = None
    Other = Other
    Docs = {d1, d2}
    Callers = {v1}
    NoCaller = NoCaller
    MaxPending = 2
    MaxVersion = 2
    MaxDrops = 0
    MaxQueries = 1
    MaxRoughDrops = 0
    Settings = {"rough"}
SPECIFICATION ToggleSpec
PROPERTIES
    TouchPrintsTruth
CHECK_DEADLOCK FALSE
