------------------------------ MODULE Threads ------------------------------
(***************************************************************************)
(* thread.c: create_threads and the helper every created thread starts in. *)
(* The helper takes a local id from thread_counter with a compare-and-swap *)
(* loop (iCAS of atomic.c), runs the real entry point and frees the block  *)
(* that held it.                                                           *)
(***************************************************************************)
EXTENDS Integers, FiniteSets

CONSTANTS
    Thread,     \* the threads that can be created
    MaxBatch    \* the greatest n of a call of create_threads

ASSUME ThreadAssumption == IsFiniteSet(Thread)
ASSUME MaxBatchAssumption == MaxBatch \in Nat \ {0}

VARIABLES
    pc,              \* where a thread is; "new" before it is created
    thread_counter,
    old_counter,     \* what a thread last read of it
    tid,             \* the id it will take or has taken
    real_arg,        \* the set of threads that share its block
    freed            \* how often the block of a thread has been freed

vars == <<pc, thread_counter, old_counter, tid, real_arg, freed>>

Init ==
    /\ pc = [t \in Thread |-> "new"]
    /\ thread_counter = 0
    /\ old_counter = [t \in Thread |-> 0]
    /\ tid = [t \in Thread |-> 0]
    /\ real_arg = [t \in Thread |-> {}]
    /\ freed = [t \in Thread |-> 0]

(* create_threads(n, ...): one malloc, and n threads that are given it. *)
CreateThreads(batch) ==
    /\ batch # {} /\ Cardinality(batch) <= MaxBatch
    /\ \A t \in batch : pc[t] = "new"
    /\ pc' = [t \in Thread |-> IF t \in batch THEN "read" ELSE pc[t]]
    /\ real_arg' = [t \in Thread |-> IF t \in batch THEN batch ELSE real_arg[t]]
    /\ UNCHANGED <<thread_counter, old_counter, tid, freed>>

ReadCounter(t) ==
    /\ pc[t] = "read"
    /\ old_counter' = [old_counter EXCEPT ![t] = thread_counter]
    /\ tid' = [tid EXCEPT ![t] = thread_counter + 1]
    /\ pc' = [pc EXCEPT ![t] = "cas"]
    /\ UNCHANGED <<thread_counter, real_arg, freed>>

(* Mutant: a swap that does not compare. *)
SwapSucceeds(t) ==
    /\ pc[t] = "cas"
    /\ thread_counter' = tid[t]
    /\ pc' = [pc EXCEPT ![t] = "start"]
    /\ UNCHANGED <<old_counter, tid, real_arg, freed>>

(* iCAS: one locked instruction. *)
CasSucceeds(t) ==
    /\ pc[t] = "cas" /\ thread_counter = old_counter[t]
    /\ thread_counter' = tid[t]
    /\ pc' = [pc EXCEPT ![t] = "start"]
    /\ UNCHANGED <<old_counter, tid, real_arg, freed>>

CasFails(t) ==
    /\ pc[t] = "cas" /\ thread_counter # old_counter[t]
    /\ pc' = [pc EXCEPT ![t] = "read"]
    /\ UNCHANGED <<thread_counter, old_counter, tid, real_arg, freed>>

(* The entry point and its argument are read from the block. *)
Start(t) ==
    /\ pc[t] = "start"
    /\ pc' = [pc EXCEPT ![t] = "running"]
    /\ UNCHANGED <<thread_counter, old_counter, tid, real_arg, freed>>

(* start_routine returns: the block is freed. *)
Return(t) ==
    /\ pc[t] = "running"
    /\ pc' = [pc EXCEPT ![t] = "ended"]
    /\ freed' = [u \in Thread |-> IF u \in real_arg[t] THEN freed[u] + 1 ELSE freed[u]]
    /\ UNCHANGED <<thread_counter, old_counter, tid, real_arg>>

Helper(t) ==
    ReadCounter(t) \/ CasSucceeds(t) \/ CasFails(t) \/ Start(t) \/ Return(t)

Next ==
    \/ \E batch \in SUBSET Thread : CreateThreads(batch)
    \/ \E t \in Thread : Helper(t)

Spec == Init /\ [][Next]_vars

(* A created thread is scheduled until its entry point has returned. *)
FairSpec == Spec /\ \A t \in Thread : WF_vars(Helper(t))

(***************************************************************************)
(* Properties.                                                             *)
(***************************************************************************)
(* Types only; the bounds on the ids are in TidsUnique. *)
TypeOK ==
    /\ pc \in [Thread -> {"new", "read", "cas", "start", "running", "ended"}]
    /\ thread_counter \in Nat
    /\ old_counter \in [Thread -> Nat]
    /\ tid \in [Thread -> Nat]
    /\ real_arg \in [Thread -> SUBSET Thread]
    /\ freed \in [Thread -> Nat]

HasTid(t) == pc[t] \in {"start", "running", "ended"}

(* "Get a unique local thread id" (thread.c:31): whatever the order in      *)
(* which threads read the counter and swap it, no two of them take the same *)
(* id, and the ids taken are 1 to thread_counter without a gap.             *)
TidsUnique ==
    /\ \A t, u \in Thread :
           HasTid(t) /\ HasTid(u) /\ t # u => tid[t] # tid[u]
    /\ {tid[t] : t \in {u \in Thread : HasTid(u)}} = 1..thread_counter
=============================================================================
