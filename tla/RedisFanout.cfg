CONSTANTS
    i1 = i1  i2 = i2
    s1 = s1  s2 = s2
    ann = ann
    Instances = {i1, i2}
    Addresses = {ann}
    Sockets = {s1, s2}
    Events = {e1, e2}
    InstanceOf <- MCInstanceOf
    AddressOf <- MCAddressOf
SPECIFICATION Spec
PROPERTIES
    ReachesEveryReplica
CHECK_DEADLOCK FALSE
