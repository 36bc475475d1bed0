CONSTANTS
    i1 = i1  i2 = i2
    ann = ann  bob = bob
    a1 = a1  a2 = a2  b1 = b1
    Instances = {i1, i2}
    Users = {ann, bob}
    Sockets = {a1, a2, b1}
    NoPeer = NoPeer
    InstanceOf <- TwoProcesses
    UserOf <- MCUserOf
    PeerOf <- MCPeerOf
    SyncOnConnect = {a2}
    MaxEvents = 0
SPECIFICATION Spec
INVARIANTS
    PresenceNeverOver
PROPERTIES
    HangupEndsHandler
CHECK_DEADLOCK FALSE
