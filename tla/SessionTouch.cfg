CONSTANTS
    Accounts = {ann}
    None = None
    MaxLogins = 3
    MaxRequests = 1
    MaxQueue = 2
SPECIFICATION Spec
PROPERTIES
    TouchEvaluates
