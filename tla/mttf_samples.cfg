SPECIFICATION FairSpec
CONSTANTS
    Thread = {t1, t2}
    NUMBER_GROUPS = 1
    NUMBER_VMs = 2
    Garbage = Garbage
    MaxPoints = 2
    MaxGrowth = 1
INVARIANTS AveragedOnce NeverDividesByZero
PROPERTY SampleAveraged
CHECK_DEADLOCK FALSE
