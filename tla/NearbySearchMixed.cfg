CONSTANTS
    Locations = {home, work}
    MaxUpdates = 2
    MaxItems = 1
SPECIFICATION Spec
INVARIANTS
    NearbyOnly
CHECK_DEADLOCK FALSE
