CONSTANTS
    Targets = {t1}
    Docs = {d1, d2}
    NoToken = NoToken
    MaxRequests = 2
    MaxMessages = 2
    MaxChanges = 2
    MaxTroubles = 0
SPECIFICATION Spec
INVARIANTS
    TokensAreStored
