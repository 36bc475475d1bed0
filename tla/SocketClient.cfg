SPECIFICATION Spec
CONSTANTS
    maxReconnectAttempts = 2
    QueueCap = 2
    MaxSockets = 4
    MaxPayloads = 4
INVARIANTS TypeOK FifoWithoutLoss OpenSocketDrained HeartbeatHasSocket
PROPERTIES ReleasedStaysClosed ConnectingEnds
CHECK_DEADLOCK FALSE
