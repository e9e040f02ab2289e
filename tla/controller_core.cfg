SPECIFICATION Spec
CONSTANTS
    NUMBER_GROUPS = 2
    NUMBER_VMs = 1
    IP = {ip1, ip2}
    NoIP = NoIP
    MaxConn = 3
    Faults = {"reset"}
INVARIANTS TypeOK RegistryExact OwnSocket
PROPERTY KeepsFeed
SYMMETRY Symmetry
CHECK_DEADLOCK FALSE
