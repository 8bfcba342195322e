CONSTANTS
    Tasks = {"t1", "t2"}
    PoolSize = 2
    MaxOps = 3
    MaxFaults = 1
SPECIFICATION MCFairSpec
INVARIANTS
    TypesOK
    NoLostUpdate
    ReadsSeeWhatWasDone
    CreationsEndWell
    ToldInOrder
PROPERTIES
    EverythingEnds
    DevicesSettle
CHECK_DEADLOCK FALSE
