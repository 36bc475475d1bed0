CONSTANTS
    i1 = i1  i2 = i2
    ann = ann  bob = bob
    a1 = a1  a2 = a2  b1 = b1
    Instances = {i1}
    Users = {ann, bob}
    Sockets = {a1, a2}
    NoPeer = NoPeer
    InstanceOf <- OneProcess
    UserOf <- MCUserOf
    PeerOf <- NotificationsPeerOf
    SyncOnConnect = {a2}
    MaxEvents = 3
SPECIFICATION Spec
INVARIANTS
    CleanExitUnregisters
PROPERTIES
    LastLocalLeaverAnnounces
CHECK_DEADLOCK FALSE
