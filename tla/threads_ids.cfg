SPECIFICATION AtomicFairSpec
CONSTANTS
    Thread = {t1, t2, t3}
    MaxBatch = 1
INVARIANT TidsUnique
PROPERTIES LockKept ThreadsReturn
CHECK_DEADLOCK FALSE
