CONSTANTS
    Accounts = {ann, bob}
    None = None
    Other = Other
    Docs = {d1, d2}
    Callers = {screen}
    NoCaller = NoCaller
    MaxPending = 1
    MaxVersion = 1
    MaxDrops = 1
    MaxRows = 2
SPECIFICATION ListSpec
INVARIANTS
    ListTypeOK
    TableWithinRows
    
    FavouritesOfOneUser
SYMMETRY ListSymmetry
CHECK_DEADLOCK FALSE
