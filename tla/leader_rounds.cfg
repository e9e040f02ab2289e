SPECIFICATION FairSpec
CONSTANTS
    N = 2
    Running = {1}
    MaxProposals = 2
    Faults = {"loss", "race", "noeth0"}
INVARIANTS NoLeaderInARound
PROPERTIES ElectsTheGreatest RoundEnds BroadcastSent SentBeforeForgotten
CHECK_DEADLOCK FALSE
