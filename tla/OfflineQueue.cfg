CONSTANTS
    Keys = {k1, k2}
    Flushers = {f1, f2}
    MaxQueueSize = 1
    MaxAttempts = 2
    NoRow = NoRow
    MaxRows = 2
    MaxReloads = 1
SPECIFICATION Spec
INVARIANTS
    TypeOK
    DurableUntilAcked
PROPERTIES
    RetriesNeverRegress
    FlushTerminates
CHECK_DEADLOCK FALSE
