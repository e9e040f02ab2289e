SPECIFICATION FairSpec
CONSTANTS
    NUMBER_GROUPS = 1
    NUMBER_VMs = 1
    MAX_CONNECTED_CLIENTS = 2
    IP = {vm1, vm2}
    NoIP = NoIP
    ClientIP = {c1, c2}
    MaxMsgs = 3
    MaxClients = 3
    Faults = {"recv", "connect", "thread"}
INVARIANTS TableFollowsFeed ArgumentHandedOver
PROPERTIES ClientsStick SentToRegistered ClientServed
CHECK_DEADLOCK FALSE
