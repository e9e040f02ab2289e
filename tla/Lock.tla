-------------------------------- MODULE Lock --------------------------------
(***************************************************************************)
(* What a lock promises, however it is made: a thread acquires it while    *)
(* nobody holds it, and only the thread that holds it gives it back.       *)
(***************************************************************************)
CONSTANT Thread

VARIABLE holders     \* the threads that believe they hold the lock

Init == holders = {}

Acquire(t) == holders = {} /\ holders' = {t}

Release(t) == holders = {t} /\ holders' = {}

Next == \E t \in Thread : Acquire(t) \/ Release(t)

Spec == Init /\ [][Next]_holders
=============================================================================
