------------------------------- MODULE Atomic -------------------------------
(***************************************************************************)
(* The spinlock of atomic.c, used by threads that create_threads has       *)
(* started.  An entry point takes the lock, with spin_lock, or with one    *)
(* spin_trylock and then goes without it if it is taken; it releases the   *)
(* lock, and it returns.  Every operation is one locked instruction, so it *)
(* is one step.                                                            *)
(***************************************************************************)
EXTENDS Threads

VARIABLES
    lock,       \* s->lock
    apc         \* where the entry point of a thread is

atomicVars == <<lock, apc>>
allVars == <<vars, atomicVars>>

AtomicInit ==
    /\ Init
    /\ lock = 0            \* spinlock_init
    /\ apc \in [Thread -> {"lock", "trylock"}]

\* An entry point runs between Start and Return.
At(t, from, to) ==
    /\ pc[t] = "running" /\ apc[t] = from
    /\ apc' = [apc EXCEPT ![t] = to]
    /\ UNCHANGED vars

\* spin_lock: exchanges until the value it got back is 0.
SpinLock(t) ==
    /\ At(t, "lock", IF lock = 0 THEN "holds" ELSE "lock")
    /\ lock' = 1

\* Mutant: the carry itself is returned, the bit that was found.
TestAndSetFound == lock # 0

\* What atomic_test_and_set returns: the bit was not set before.
TestAndSet == lock = 0

\* spin_trylock: the bit is set in any case.
SpinTrylock(t) ==
    /\ At(t, "trylock", IF TestAndSet THEN "holds" ELSE "done")
    /\ lock' = 1

\* Mutant: the exchange stores what the register held after spin_lock.
SpinUnlockKept(t) ==
    /\ At(t, "holds", "done")
    /\ UNCHANGED lock

SpinUnlock(t) ==
    /\ At(t, "holds", "done")
    /\ lock' = 0

EntryPoint(t) == SpinLock(t) \/ SpinTrylock(t) \/ SpinUnlock(t)

Created(t) ==
    /\ \/ ReadCounter(t) \/ CasSucceeds(t) \/ CasFails(t) \/ Start(t)
       \/ apc[t] = "done" /\ Return(t)
    /\ UNCHANGED atomicVars

AtomicNext ==
    \/ \E batch \in SUBSET Thread : CreateThreads(batch) /\ UNCHANGED atomicVars
    \/ \E t \in Thread : Created(t) \/ EntryPoint(t)

AtomicSpec == AtomicInit /\ [][AtomicNext]_allVars

\* A created thread is scheduled until its entry point has returned.  Nothing
\* is assumed of who gets the lock.
AtomicFairSpec ==
    AtomicSpec /\ \A t \in Thread : WF_allVars(Created(t) \/ EntryPoint(t))

-----------------------------------------------------------------------------
(* Properties.                                                             *)

Holders == {t \in Thread : apc[t] = "holds"}

TheLock == INSTANCE Lock WITH holders <- Holders

\* The word in memory is a lock, although spin_lock exchanges the whole of it
\* and spin_trylock sets one bit of it: it is acquired only when nobody holds
\* it, and a failed attempt, which writes to it too, changes nothing.
LockKept == TheLock!Spec

\* Every created thread takes its id, since a compare-and-swap fails only when
\* another thread's has succeeded, and returns, since the lock is always given
\* back and who spins while others come and go gets it in the end.
ThreadsReturn == \A t \in Thread : pc[t] = "read" ~> pc[t] = "ended"
=============================================================================
