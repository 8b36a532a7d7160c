CONSTANTS
    Accounts = {ann, bob}
    None = None
    MaxLogins = 3
    MaxRequests = 2
    MaxQueue = 2
SPECIFICATION FairSpec
INVARIANTS
    TypeOK
    SessionBehindScreens
    ScreensGrowFromLogin
    SavedSessionIsCurrent
PROPERTIES
    EvaluationOpensLogin
    SignInOpensLocation
