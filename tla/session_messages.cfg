SPECIFICATION FairSpec
CONSTANTS
    NUMBER_GROUPS = 1
    SOCKBUF = 4
    Faults = {"split", "crash"}
INVARIANTS Lockstep ServiceAgreed RebootsOnlyWhenTold ControllerSurvives
PROPERTIES CommandObeyed AgentEnds DepartureNoticed
CHECK_DEADLOCK FALSE
