SPECIFICATION Spec
CONSTANTS
    maxReconnectAttempts = 2
    QueueCap = 1
    MaxSockets = 3
    MaxPayloads = 0
PROPERTY DropIsRetried
CHECK_DEADLOCK FALSE
