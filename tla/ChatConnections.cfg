CONSTANTS
    i1 = i1  i2 = i2
    ann = ann  bob = bob
    a1 = a1  a2 = a2  b1 = b1
    Instances = {i1}
    Users = {ann, bob}
    Sockets = {a1, a2, b1}
    NoPeer = NoPeer
    InstanceOf <- OneProcess
    UserOf <- MCUserOf
    PeerOf <- MCPeerOf
    SyncOnConnect = {a2}
    MaxEvents = 1
SPECIFICATION Spec
INVARIANTS
    TypeOK
    CountNeverOver
    CountExactWithoutReaping
    PresenceNeverOver
    CleanExitUnregisters
PROPERTIES
    LastLeaverAnnounces
    LastLocalLeaverAnnounces
CHECK_DEADLOCK FALSE
