SPECIFICATION FairSpec
CONSTANTS
    FORWARD_BUFFER_SIZE = 2
    MaxBytes <- ClientThreeVmTwo
    Faults = {"block", "error", "move"}
INVARIANTS Conserved BufferFits
PROPERTIES WorkerEnds Delivered
CHECK_DEADLOCK FALSE
