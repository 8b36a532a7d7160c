CONSTANTS
    Targets = {t1}
    Docs = {d1, d2}
    NoToken = NoToken
    MaxRequests = 2
    MaxMessages = 2
    MaxChanges = 2
    MaxTroubles = 1
SPECIFICATION FairSpec
INVARIANTS
    OutstandingResponses
PROPERTIES
    CurrentIsTrue
    ViewsCatchUp
