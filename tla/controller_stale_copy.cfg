SPECIFICATION Spec
CONSTANTS
    NUMBER_GROUPS = 1
    NUMBER_VMs = 1
    IP = {ip1, ip2}
    NoIP = NoIP
    MaxConn = 3
    Faults = {}
INVARIANT CopyIsTheEntry
CHECK_DEADLOCK FALSE
