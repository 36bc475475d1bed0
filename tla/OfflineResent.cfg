CONSTANTS
    Keys = {k1}
    Flushers = {f1}
    MaxQueueSize = 1
    MaxAttempts = 2
    NoRow = NoRow
    MaxRows = 1
    MaxReloads = 1
SPECIFICATION Spec
PROPERTIES
    SentOnce
CHECK_DEADLOCK FALSE
