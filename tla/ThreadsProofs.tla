--------------------------- MODULE ThreadsProofs ---------------------------
(***************************************************************************)
(* Proofs about Threads and about Atomic on top of it, for any set of      *)
(* threads, any interleaving of their compare-and-swap loops and any       *)
(* mixture of spin_lock and spin_trylock.                                  *)
(***************************************************************************)
EXTENDS Atomic, TLAPS

(* What a thread holds between its read and its swap. *)
ReadInv ==
    \A t \in Thread : pc[t] = "cas" => tid[t] = old_counter[t] + 1

TidsInv == TypeOK /\ ReadInv /\ TidsUnique

(* A swap that succeeds takes the next id: nobody holds it yet. *)
LEMMA SwapTakesNextId ==
    ASSUME TidsInv, NEW t \in Thread, CasSucceeds(t)
    PROVE  /\ tid[t] = thread_counter + 1
           /\ thread_counter' = thread_counter + 1
           /\ \A u \in Thread : HasTid(u)' <=> HasTid(u) \/ u = t
           /\ ~HasTid(t)
BY DEF TidsInv, TypeOK, ReadInv, CasSucceeds, HasTid

(* The ids are unique and dense through every step of create_threads and   *)
(* of the helper.                                                          *)
LEMMA TidsStep == TidsInv /\ [Next]_vars => TidsInv'
<1> SUFFICES ASSUME TidsInv, [Next]_vars PROVE TidsInv'
    OBVIOUS
<1> USE DEF TidsInv
<1>1. ASSUME NEW batch \in SUBSET Thread, CreateThreads(batch) PROVE TidsInv'
  <2>1. TypeOK' /\ ReadInv'
    BY <1>1 DEF TypeOK, ReadInv, CreateThreads
  <2>2. \A u \in Thread : HasTid(u)' <=> HasTid(u)
    BY <1>1 DEF TypeOK, CreateThreads, HasTid
  <2>3. TidsUnique'
    BY <1>1, <2>2 DEF TidsUnique, CreateThreads
  <2> QED BY <2>1, <2>3
<1>2. ASSUME NEW t \in Thread, ReadCounter(t) PROVE TidsInv'
  <2>1. TypeOK' /\ ReadInv'
    BY <1>2 DEF TypeOK, ReadInv, ReadCounter
  <2>2. \A u \in Thread : (HasTid(u)' <=> HasTid(u)) /\ (HasTid(u) => u # t)
    BY <1>2 DEF TypeOK, ReadCounter, HasTid
  <2>3. \A u \in Thread : HasTid(u) => tid'[u] = tid[u]
    BY <1>2, <2>2 DEF TypeOK, ReadCounter
  <2>4. {tid[u] : u \in {w \in Thread : HasTid(w)}}'
        = {tid[u] : u \in {w \in Thread : HasTid(w)}}
    BY <2>2, <2>3
  <2>5. TidsUnique'
    BY <1>2, <2>2, <2>3, <2>4 DEF TidsUnique, ReadCounter
  <2> QED BY <2>1, <2>5
<1>3. ASSUME NEW t \in Thread, CasSucceeds(t) PROVE TidsInv'
  <2>1. TypeOK' /\ ReadInv'
    BY <1>3 DEF TypeOK, ReadInv, CasSucceeds
  <2>2. /\ tid[t] = thread_counter + 1
        /\ thread_counter' = thread_counter + 1
        /\ \A u \in Thread : HasTid(u)' <=> HasTid(u) \/ u = t
        /\ ~HasTid(t)
    BY <1>3, SwapTakesNextId
  <2>3. tid' = tid
    BY <1>3 DEF CasSucceeds
  <2>4. \A u \in Thread : HasTid(u) => tid[u] \in 1..thread_counter
    BY DEF TidsUnique
  <2>5. \A u, w \in Thread : HasTid(u)' /\ HasTid(w)' /\ u # w => tid'[u] # tid'[w]
    BY <2>2, <2>3, <2>4 DEF TidsUnique, TypeOK
  <2>6. {tid[u] : u \in {w \in Thread : HasTid(w)}}'
        = {tid[u] : u \in {w \in Thread : HasTid(w)}} \cup {tid[t]}
    BY <2>2, <2>3
  <2>7. (1..thread_counter) \cup {tid[t]} = 1..(thread_counter + 1)
    BY <2>2 DEF TypeOK
  <2>8. TidsUnique'
    BY <2>2, <2>5, <2>6, <2>7 DEF TidsUnique
  <2> QED BY <2>1, <2>8
<1>4. ASSUME NEW t \in Thread, CasFails(t) \/ Start(t) \/ Return(t) PROVE TidsInv'
  <2>1. TypeOK' /\ ReadInv'
    BY <1>4 DEF TypeOK, ReadInv, CasFails, Start, Return
  <2>2. \A u \in Thread : HasTid(u)' <=> HasTid(u)
    BY <1>4 DEF TypeOK, CasFails, Start, Return, HasTid
  <2>3. tid' = tid /\ thread_counter' = thread_counter
    BY <1>4 DEF CasFails, Start, Return
  <2>4. TidsUnique'
    BY <2>2, <2>3 DEF TidsUnique
  <2> QED BY <2>1, <2>4
<1>5. ASSUME UNCHANGED vars PROVE TidsInv'
  <2>1. \A u \in Thread : HasTid(u)' <=> HasTid(u)
    BY <1>5 DEF vars, HasTid
  <2>2. TidsUnique'
    BY <1>5, <2>1 DEF vars, TidsUnique
  <2> QED BY <1>5, <2>2 DEF vars, TypeOK, ReadInv
<1> QED BY <1>1, <1>2, <1>3, <1>4, <1>5 DEF Next, Helper

(* thread.c:31, for any number of threads: the ids taken by the            *)
(* compare-and-swap loop of the helper are unique and have no gap.          *)
THEOREM UniqueTids == Spec => []TidsUnique
<1>1. Init => TidsInv
  <2> SUFFICES ASSUME Init PROVE TidsInv
      OBVIOUS
  <2>1. TypeOK /\ ReadInv
    BY DEF Init, TypeOK, ReadInv
  <2>2. \A u \in Thread : ~HasTid(u)
    BY DEF Init, HasTid
  <2>3. {tid[t] : t \in {u \in Thread : HasTid(u)}} = {}
    BY <2>2
  <2>4. 1..thread_counter = {}
    BY DEF Init
  <2>5. TidsUnique
    BY <2>2, <2>3, <2>4 DEF TidsUnique
  <2> QED BY <2>1, <2>5 DEF TidsInv
<1>2. TidsInv => TidsUnique
  BY DEF TidsInv
<1> QED BY <1>1, <1>2, TidsStep, PTL DEF Spec

-----------------------------------------------------------------------------
(* Entry points that use the spinlock.                                     *)

(* The threads with their entry points are threads of thread.c: what is    *)
(* proved of Spec holds of the program that uses the spinlock.             *)
THEOREM EntryPointsAreThreads == AtomicSpec => Spec
<1>1. AtomicInit => Init
  BY DEF AtomicInit
<1>2. [AtomicNext]_allVars => [Next]_vars
  <2> SUFFICES ASSUME [AtomicNext]_allVars PROVE [Next]_vars
      OBVIOUS
  <2>1. ASSUME NEW batch \in SUBSET Thread, CreateThreads(batch) PROVE Next
    BY <2>1 DEF Next
  <2>2. ASSUME NEW t \in Thread, Created(t) PROVE Next
    BY <2>2 DEF Created, Next, Helper
  <2>3. ASSUME NEW t \in Thread, EntryPoint(t) PROVE UNCHANGED vars
    BY <2>3 DEF EntryPoint, SpinLock, SpinTrylock, SpinUnlock, At
  <2> QED BY <2>1, <2>2, <2>3 DEF AtomicNext, allVars
<1> QED BY <1>1, <1>2, PTL DEF AtomicSpec, Spec

AtomicPc == {"lock", "trylock", "holds", "done"}

(* The word is 1 exactly when a thread holds the lock, and then only one   *)
(* does.  LockKept needs all of it: a step that finds 0 must find no       *)
(* holder, and a step that stores 0 must leave none.                       *)
LockInv ==
    /\ lock \in {0, 1}
    /\ apc \in [Thread -> AtomicPc]
    /\ lock = 0 => \A t \in Thread : apc[t] # "holds"
    /\ \A t, u \in Thread : apc[t] = "holds" /\ apc[u] = "holds" => t = u

(* What a step does that moves only one thread, and neither into nor out   *)
(* of the critical section.                                                *)
LEMMA NoHolderMoves ==
    ASSUME LockInv, NEW t \in Thread, NEW to \in AtomicPc,
           apc[t] # "holds", to # "holds",
           apc' = [apc EXCEPT ![t] = to]
    PROVE  /\ apc' \in [Thread -> AtomicPc]
           /\ \A u \in Thread : apc'[u] = "holds" <=> apc[u] = "holds"
           /\ Holders' = Holders
BY DEF LockInv, AtomicPc, Holders

(* An attempt on the lock, by spin_lock or by spin_trylock: the word is 1  *)
(* afterwards, and the thread holds the lock if it found a 0.              *)
LEMMA AttemptKeepsLock ==
    ASSUME LockInv, NEW t \in Thread, NEW otherwise \in AtomicPc \ {"holds"},
           apc[t] # "holds", lock' = 1,
           apc' = [apc EXCEPT ![t] = IF lock = 0 THEN "holds" ELSE otherwise]
    PROVE  /\ LockInv'
           /\ TheLock!Acquire(t) \/ Holders' = Holders
<1>1. CASE lock = 0
  <2>1. /\ \A u \in Thread : apc[u] # "holds"
        /\ apc' = [apc EXCEPT ![t] = "holds"]
    BY <1>1 DEF LockInv
  <2>2. LockInv'
    BY <2>1 DEF LockInv, AtomicPc
  <2>3. Holders = {} /\ Holders' = {t}
    BY <2>1 DEF LockInv, Holders, AtomicPc
  <2> QED BY <2>2, <2>3 DEF TheLock!Acquire
<1>2. CASE lock # 0
  <2>1. apc' = [apc EXCEPT ![t] = otherwise]
    BY <1>2
  <2>2. /\ apc' \in [Thread -> AtomicPc]
        /\ \A u \in Thread : apc'[u] = "holds" <=> apc[u] = "holds"
        /\ Holders' = Holders
    BY <2>1, NoHolderMoves
  <2>3. LockInv'
    BY <2>2 DEF LockInv
  <2> QED BY <2>2, <2>3
<1> QED BY <1>1, <1>2

(* Every step keeps the invariant and is a step of the abstract lock.      *)
LEMMA AtomicStep ==
    LockInv /\ [AtomicNext]_allVars => LockInv' /\ [TheLock!Next]_Holders
<1> SUFFICES ASSUME LockInv, [AtomicNext]_allVars
             PROVE  LockInv' /\ [TheLock!Next]_Holders
    OBVIOUS
<1>1. ASSUME UNCHANGED atomicVars PROVE LockInv' /\ Holders' = Holders
    BY <1>1 DEF LockInv, Holders, atomicVars
<1>2. ASSUME NEW t \in Thread, SpinLock(t)
      PROVE  LockInv' /\ (TheLock!Acquire(t) \/ Holders' = Holders)
  <2>1. /\ apc[t] = "lock" /\ lock' = 1
        /\ apc' = [apc EXCEPT ![t] = IF lock = 0 THEN "holds" ELSE "lock"]
    BY <1>2 DEF SpinLock, At
  <2>2. "lock" \in AtomicPc \ {"holds"}
    BY DEF AtomicPc
  <2> QED BY <2>1, <2>2, AttemptKeepsLock
<1>3. ASSUME NEW t \in Thread, SpinTrylock(t)
      PROVE  LockInv' /\ (TheLock!Acquire(t) \/ Holders' = Holders)
  <2>1. /\ apc[t] = "trylock" /\ lock' = 1
        /\ apc' = [apc EXCEPT ![t] = IF lock = 0 THEN "holds" ELSE "done"]
    BY <1>3 DEF SpinTrylock, At, TestAndSet
  <2>2. "done" \in AtomicPc \ {"holds"}
    BY DEF AtomicPc
  <2> QED BY <2>1, <2>2, AttemptKeepsLock
<1>4. ASSUME NEW t \in Thread, SpinUnlock(t)
      PROVE  LockInv' /\ TheLock!Release(t)
  <2>1. apc[t] = "holds" /\ lock' = 0 /\ apc' = [apc EXCEPT ![t] = "done"]
    BY <1>4 DEF SpinUnlock, At
  <2>2. \A u \in Thread : apc[u] = "holds" <=> u = t
    BY <2>1 DEF LockInv
  <2>3. \A u \in Thread : apc'[u] # "holds"
    BY <2>1, <2>2 DEF LockInv
  <2>4. LockInv'
    BY <2>1, <2>3 DEF LockInv, AtomicPc
  <2>5. Holders = {t} /\ Holders' = {}
    BY <2>2, <2>3 DEF Holders
  <2> QED BY <2>4, <2>5 DEF TheLock!Release
<1>5. CASE AtomicNext
    BY <1>1, <1>2, <1>3, <1>4, <1>5
    DEF AtomicNext, Created, EntryPoint, TheLock!Next
<1>6. CASE UNCHANGED allVars
    BY <1>1, <1>6 DEF allVars, atomicVars
<1> QED BY <1>5, <1>6

LEMMA AtomicStart == AtomicInit => LockInv /\ TheLock!Init
BY DEF AtomicInit, LockInv, AtomicPc, TheLock!Init, Holders

(* The spinlock of atomic.c is a lock: AtomicSpec, the program with its    *)
(* exchanges and bit tests, implements Lock, the abstract specification of *)
(* acquiring and releasing.                                                *)
THEOREM LockIsKept == AtomicSpec => LockKept
<1>1. AtomicInit => LockInv /\ TheLock!Init
    BY AtomicStart
<1>2. LockInv /\ [AtomicNext]_allVars => LockInv' /\ [TheLock!Next]_Holders
    BY AtomicStep
<1> QED BY <1>1, <1>2, PTL DEF AtomicSpec, LockKept, TheLock!Spec
=============================================================================
