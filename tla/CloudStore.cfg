CONSTANTS
    Accounts = {ann}
    None = None
    Other = Other
    Docs = {d1, d2}
    Callers = {screen}
    NoCaller = NoCaller
    MaxPending = 2
    MaxVersion = 2
    MaxDrops = 1
SPECIFICATION FairSpec
INVARIANTS
    TypeOK
    NothingLost
    SuccessMeansStored
PROPERTIES
    
    NoFlicker
    WritesDrain
    ImplementsDocumentLife
CHECK_DEADLOCK FALSE
