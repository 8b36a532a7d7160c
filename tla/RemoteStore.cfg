CONSTANTS
    Users = {ann, bob}
    Targets = {q1, q2}
    MaxPendingWrites = 2
    MaxWatchStreamFailures = 1
    MaxWrites = 3
    MaxRestarts = 2
SPECIFICATION FairSpec
INVARIANTS
    TypeOK
    CallbacksFit
    StreamsRunWhenNeeded
    TimerOnlyWhileUnknown
    WatchesWhatIsListenedTo
    WireMatchesPipeline
PROPERTIES
    OwnAnswer
    QueueDrains
    OnlineStateSettles
