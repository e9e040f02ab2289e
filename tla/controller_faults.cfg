SPECIFICATION Spec
CONSTANTS
    NUMBER_GROUPS = 1
    NUMBER_VMs = 1
    IP = {ip1, ip2}
    NoIP = NoIP
    MaxConn = 2
    Faults = {"send", "reset", "thread", "lb", "overlap"}
INVARIANTS TableCompact HandOver
SYMMETRY Symmetry
CHECK_DEADLOCK FALSE
