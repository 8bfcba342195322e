CONSTANTS
    Messages = {m1, m2}
    Threads = FALSE
    Patient = TRUE
    MaxAttempts = 3
SPECIFICATION MCFairSpec
INVARIANTS
    TypesOK
    NothingStranded
    SessionsWork
    MessagesArrive
PROPERTIES
    StartsWithFeatures
    EveryRequestCompletes
    ExchangesEnd
CHECK_DEADLOCK FALSE
