CONSTANTS
    Accounts = {x, y}
    Peers = {p, q}
    PreKeys = {1}
    MaxRequests = 3
    MaxTasks = 3
SPECIFICATION MCSpec
SYMMETRY Symmetric
INVARIANTS
    TypesOK
    NoKeyTwice
    MessagesAreKept
CHECK_DEADLOCK FALSE
