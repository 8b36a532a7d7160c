CONSTANTS
    Accounts = {ann}
    None = None
    Other = Other
    Docs = {d1, d2}
    Callers = {v1}
    NoCaller = NoCaller
    MaxPending = 2
    MaxVersion = 1
    MaxDrops = 2
    MaxQueries = 1
    MaxRoughDrops = 1
    Settings = {"calm", "rough"}
SPECIFICATION FairToggleSpec
INVARIANTS
    ToggleTypeOK
    TitleAgrees
    ReportedOnce
PROPERTIES
    TitleArrives
CHECK_DEADLOCK FALSE
