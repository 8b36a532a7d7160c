CONSTANTS
    Locations = {home}
    MaxUpdates = 3
    MaxItems = 2
SPECIFICATION FairSpec
INVARIANTS
    TypeOK
    ShownNonEmpty
    NoHoles
    LatestResultsComplete

    
CHECK_DEADLOCK FALSE
