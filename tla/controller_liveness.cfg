SPECIFICATION FairSpec
CONSTANTS
    NUMBER_GROUPS = 1
    NUMBER_VMs = 1
    IP = {ip1, ip2}
    NoIP = NoIP
    MaxConn = 2
    Faults = {"overlap", "send"}
INVARIANT NoDescriptorLeak
PROPERTIES MainReturns MailboxStable DepartureCompletes ArrivalAnnounced
CHECK_DEADLOCK FALSE
