CONSTANTS
    Messages = {m1, m2}
    Threads = FALSE
    Patient = FALSE
    MaxAttempts = 2
SPECIFICATION Spec
INVARIANT NothingStranded
CHECK_DEADLOCK FALSE
