SPECIFICATION Spec
CONSTANTS
    NUMBER_GROUPS = 1
    NUMBER_VMs = 1
    IP = {ip1, ip2}
    NoIP = NoIP
    MaxConn = 3
    Faults = {"send"}
PROPERTY ListensToItsOwnVm
CHECK_DEADLOCK FALSE
