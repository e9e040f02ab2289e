-------------------------------- MODULE Mttf --------------------------------
(***************************************************************************)
(* The path of a data point through the controller (controller/server.c):  *)
(* a communication_thread receives it, predicts a mean time to failure and *)
(* appends its inverse to rej_rate; the mttf_thread averages what has      *)
(* accumulated and starts again; main enlarges rej_rate when a group grows.*)
(*                                                                         *)
(* A data point is its number, Garbage is what an automatic variable or    *)
(* memory holds that the program did not write, and a sample stands for    *)
(* the value 1/mean_time_to_fail computed from two points.                 *)
(*                                                                         *)
(* rej_rate is written without a look at its size, and main reallocates it *)
(* without mttf_mutex.  What a cell outside the allocated memory, or in a  *)
(* block that realloc() is leaving, holds when it is read is open: the     *)
(* sample written there, a copy of what was there before, or Garbage; and  *)
(* the allocator may end the program when it finds its memory overwritten. *)
(***************************************************************************)
EXTENDS Integers, Sequences, FiniteSets

CONSTANTS Thread,         \* communication_threads of ACTIVE machines
          NUMBER_GROUPS,
          NUMBER_VMs,
          Garbage,        \* unwritten memory
          MaxPoints,      \* bound: data points received by one thread
          MaxGrowth       \* bound: how often a group grows

ASSUME MttfSizes == /\ NUMBER_GROUPS \in Nat \ {0}
                    /\ NUMBER_VMs \in Nat \ {0}
                    /\ MaxPoints \in Nat
                    /\ MaxGrowth \in Nat

Group == 0 .. (NUMBER_GROUPS - 1)
Point == 1 .. MaxPoints
Features == Point \union {Garbage}
Sample == [thread : Thread, number : Point]

ASSUME GarbageIsNoSample == Garbage \notin Sample

SizeofFloat == 4

Smaller(a, b) == IF a <= b THEN a ELSE b
Larger(a, b) == IF a <= b THEN b ELSE a

(* The whole floats in a block of b bytes. *)
Cells(b) == b \div SizeofFloat

VARIABLES
    got,             \* per thread, data points received so far
    current_features, init_features, last_features,   \* per thread
    flag_init_features,                                \* per thread
    last_system_features_stored,                       \* per thread
    tpc,             \* where each communication_thread is
    rej_rate,        \* the cells written so far, those of the past included
    index_rej_rate,  \* the next cell
    bytes,           \* size of the memory rej_rate points to, or will
    allocated_vms,   \* per group
    moving,          \* main is inside a realloc() that moves rej_rate
    copied,          \* what it has copied to the new block
    heap,            \* "good", "corrupted", or "aborted": the program has ended
    mpc,             \* where the mttf_thread is
    thread_index_rej_rate,  \* the number of samples it divides by
    summed,          \* the samples in avg_rej_rate
    averaged,        \* per sample, in how many printed averages it is (ghost)
    astray           \* the samples written outside the memory, cut off by a
                     \* smaller block, or in reach of a moving one (ghost)

features == <<got, current_features, init_features, last_features,
              flag_init_features, last_system_features_stored>>
buffer == <<rej_rate, index_rej_rate>>
memory == <<bytes, allocated_vms, moving, copied>>
mttf == <<mpc, thread_index_rej_rate, summed, averaged>>
vars == <<features, tpc, buffer, memory, heap, mttf, astray>>

(* The samples in the given cells of a block. *)
SamplesIn(cells, which) == {cells[i] : i \in which} \ {Garbage}

(* The cells below index_rej_rate. *)
Used == 1 .. index_rej_rate

\* last_system_features_stored comes from malloc'ed memory nobody wrote.
Init == /\ got = [t \in Thread |-> 0]
        /\ current_features = [t \in Thread |-> Garbage]
        /\ init_features = [t \in Thread |-> Garbage]
        /\ last_features = [t \in Thread |-> Garbage]
        /\ flag_init_features = [t \in Thread |-> FALSE]
        /\ last_system_features_stored \in [Thread -> BOOLEAN]
        /\ tpc = [t \in Thread |-> "recv"]
        /\ rej_rate = <<>>
        /\ index_rej_rate = 0
        /\ bytes = SizeofFloat * NUMBER_GROUPS * NUMBER_VMs
        /\ allocated_vms = [g \in Group |-> NUMBER_VMs]
        /\ moving = FALSE
        /\ copied = <<>>
        /\ heap = "good"
        /\ mpc = "poll"
        /\ thread_index_rej_rate = 0
        /\ summed = {}
        /\ averaged = [x \in Sample |-> 0]
        /\ astray = {}

-----------------------------------------------------------------------------
(* A communication_thread.                                                 *)

\* get_feature parses into a by-value parameter: the caller's
\* current_features keeps what it had.
GetFeature(t, p) == current_features[t]

RecvFeatures(t) ==
    /\ tpc[t] = "recv"
    /\ got[t] < MaxPoints
    /\ got' = [got EXCEPT ![t] = @ + 1]
    /\ current_features' = [current_features EXCEPT ![t] = GetFeature(t, got[t] + 1)]
    /\ init_features' = [init_features EXCEPT ![t] =
                            IF flag_init_features[t] THEN @ ELSE current_features'[t]]
    /\ flag_init_features' = [flag_init_features EXCEPT ![t] = TRUE]
    /\ tpc' = [tpc EXCEPT ![t] =
                  IF last_system_features_stored[t] THEN "predict" ELSE "store"]
    /\ UNCHANGED <<last_features, last_system_features_stored, buffer, memory, heap,
                   mttf, astray>>

(* The cells with a sample written to cell i, which is at most the one     *)
(* after the last written so far.                                          *)
Written(cells, i, x) ==
    IF i <= Len(cells) THEN [cells EXCEPT ![i] = x] ELSE Append(cells, x)

\* get_predicted_mttf and the section protected by mttf_mutex.  Below
\* TTC_THRESHOLD the thread goes back to recv without storing the point.
\* The cell may lie beyond the memory, and realloc() may have copied it.
Predict(t) ==
    /\ tpc[t] = "predict"
    /\ LET x == [thread |-> t, number |-> got[t]]
           outside == moving \/ index_rej_rate + 1 > Cells(bytes)
       IN /\ rej_rate' = Written(rej_rate, index_rej_rate + 1, x)
          /\ heap' = IF outside THEN "corrupted" ELSE heap
          /\ astray' = astray \union (IF outside THEN {x} ELSE {})
    /\ index_rej_rate' = index_rej_rate + 1
    /\ \E next \in {"recv", "store"} : tpc' = [tpc EXCEPT ![t] = next]
    /\ UNCHANGED <<features, memory, mttf>>

Store(t) ==
    /\ tpc[t] = "store"
    /\ last_features' = [last_features EXCEPT ![t] = current_features[t]]
    /\ last_system_features_stored' = [last_system_features_stored EXCEPT ![t] = TRUE]
    /\ tpc' = [tpc EXCEPT ![t] = "recv"]
    /\ UNCHANGED <<got, current_features, init_features, flag_init_features, buffer,
                   memory, heap, mttf, astray>>

-----------------------------------------------------------------------------
(* main, when a full group gets one more machine.                          *)

\* realloc() with the new slots counted in bytes: the block may move, and a
\* smaller one than before cuts off its last cells.  A block that moves is
\* copied first; rej_rate names the new one when realloc() has returned.
Grow(g) ==
    /\ ~moving
    /\ allocated_vms[g] < NUMBER_VMs * 2^MaxGrowth
    /\ allocated_vms' = [allocated_vms EXCEPT ![g] = 2 * @]
    /\ bytes' = SizeofFloat * NUMBER_GROUPS * NUMBER_VMs
                + allocated_vms'[g] - allocated_vms[g]
    /\ moving' \in BOOLEAN
    /\ copied' = IF moving'
                 THEN SubSeq(rej_rate, 1, Smaller(Len(rej_rate),
                                               Smaller(Cells(bytes), Cells(bytes'))))
                 ELSE <<>>
    /\ astray' = astray \union SamplesIn(rej_rate, {i \in Used : i > Cells(bytes')})
    /\ UNCHANGED <<features, tpc, buffer, heap, mttf>>

\* The assignment.  A cell written since the copy gets back what it held then,
\* or has no contents in the new block.
Moved ==
    /\ moving
    /\ rej_rate' = [i \in 1 .. Larger(Len(copied), index_rej_rate) |->
                       IF i <= Len(copied) THEN copied[i] ELSE Garbage]
    /\ astray' = astray \union
                 SamplesIn(copied, {i \in Used : i <= Len(copied) /\ copied[i] # rej_rate[i]})
    /\ moving' = FALSE
    /\ copied' = <<>>
    /\ UNCHANGED <<features, tpc, index_rej_rate, bytes, allocated_vms, heap, mttf>>

\* The allocator, or a store far outside, ends the program.
Abort ==
    /\ heap = "corrupted"
    /\ heap' = "aborted"
    /\ UNCHANGED <<features, tpc, buffer, memory, mttf, astray>>

-----------------------------------------------------------------------------
(* The mttf_thread.                                                        *)

\* Mutant: the busy wait does not look at index_rej_rate.
PollAlways ==
    /\ mpc = "poll"
    /\ mpc' = "sum"
    /\ UNCHANGED <<features, tpc, buffer, memory, heap, thread_index_rej_rate, summed, averaged,
                   astray>>

\* Mutant: waits for rej_rate to be full.
PollFull ==
    /\ mpc = "poll"
    /\ index_rej_rate = NUMBER_GROUPS * NUMBER_VMs
    /\ mpc' = "sum"
    /\ UNCHANGED <<features, tpc, buffer, memory, heap, thread_index_rej_rate, summed, averaged,
                   astray>>

\* The busy wait, which reads index_rej_rate without the mutex.
Poll ==
    /\ mpc = "poll"
    /\ index_rej_rate # 0
    /\ mpc' = "sum"
    /\ UNCHANGED <<features, tpc, buffer, memory, heap, thread_index_rej_rate, summed, averaged,
                   astray>>

(* The sum over the cells below index_rej_rate.  A cell outside the memory *)
(* may have lost its sample, and so may all of them while the block moves, *)
(* when what was copied of them is read as well.                           *)
ReadCells ==
    /\ \E lost \in SUBSET {i \in Used : moving \/ i > Cells(bytes)},
          stale \in SUBSET {i \in Used : moving /\ i <= Len(copied)} :
          summed' = SamplesIn(rej_rate, Used \ (lost \union stale))
                    \union SamplesIn(copied, stale)
    /\ astray' = astray \union
                 (IF moving THEN SamplesIn(rej_rate, Used)
                                 \union SamplesIn(copied, {i \in Used : i <= Len(copied)})
                  ELSE {})

\* Mutant: index_rej_rate is not reset.
SumWithoutReset ==
    /\ mpc = "sum"
    /\ thread_index_rej_rate' = index_rej_rate
    /\ ReadCells
    /\ mpc' = "divide"
    /\ UNCHANGED <<features, tpc, buffer, memory, heap, averaged>>

\* The section protected by mttf_mutex.
Sum ==
    /\ mpc = "sum"
    /\ thread_index_rej_rate' = index_rej_rate
    /\ ReadCells
    /\ index_rej_rate' = 0
    /\ mpc' = "divide"
    /\ UNCHANGED <<features, tpc, rej_rate, memory, heap, averaged>>

\* Divides, prints and sleeps.
Report ==
    /\ mpc = "divide"
    /\ averaged' = [x \in Sample |-> averaged[x] + (IF x \in summed THEN 1 ELSE 0)]
    /\ summed' = {}
    /\ mpc' = "poll"
    /\ UNCHANGED <<features, tpc, buffer, memory, heap, thread_index_rej_rate, astray>>

-----------------------------------------------------------------------------
Main == \/ \E g \in Group : Grow(g)
        \/ Moved \/ Abort

MttfThread == Poll \/ Sum \/ Report

Next == /\ heap # "aborted"
        /\ \/ \E t \in Thread : RecvFeatures(t) \/ Predict(t) \/ Store(t)
           \/ Main
           \/ MttfThread

Spec == Init /\ [][Next]_vars

\* The mttf_thread spins, so it runs; data points need not arrive, and nothing
\* is asked of main.
FairSpec == Spec /\ WF_vars(heap # "aborted" /\ MttfThread)

-----------------------------------------------------------------------------
(* Properties.                                                             *)

\* Every variable has its type; the cells below index_rej_rate are written, and
\* what realloc() copies fits the new block.
TypeOK ==
    /\ got \in [Thread -> 0 .. MaxPoints]
    /\ current_features \in [Thread -> Features]
    /\ init_features \in [Thread -> Features]
    /\ last_features \in [Thread -> Features]
    /\ flag_init_features \in [Thread -> BOOLEAN]
    /\ last_system_features_stored \in [Thread -> BOOLEAN]
    /\ tpc \in [Thread -> {"recv", "predict", "store"}]
    /\ rej_rate \in Seq(Sample \union {Garbage})
    /\ index_rej_rate \in 0 .. Len(rej_rate)
    /\ bytes \in Nat
    /\ allocated_vms \in [Group -> Nat]
    /\ moving \in BOOLEAN
    /\ copied \in Seq(Sample \union {Garbage})
    /\ Len(copied) <= Cells(bytes)
    /\ heap \in {"good", "corrupted", "aborted"}
    /\ mpc \in {"poll", "sum", "divide"}
    /\ thread_index_rej_rate \in Nat
    /\ summed \subseteq Sample
    /\ averaged \in [Sample -> Nat]
    /\ astray \subseteq Sample

Pending == SamplesIn(rej_rate, Used)

\* Although the number of samples is first read without mttf_mutex, no sample
\* is averaged twice, and none that waits in rej_rate was averaged before, unless
\* it went astray: written outside the memory (the store of server.c:246 has no
\* bound), or written, summed or brought back while realloc() moved the block
\* (server.c:380 does not hold mttf_mutex).
AveragedOnce ==
    \A x \in Sample \ astray :
        averaged[x] + (IF x \in summed THEN 1 ELSE 0) + (IF x \in Pending THEN 1 ELSE 0) <= 1

\* The mttf_thread never divides by zero, although threads and the mttf_thread
\* both change index_rej_rate between its test and its use.
NeverDividesByZero == mpc = "divide" => thread_index_rej_rate # 0

\* Every sample ends up in exactly one average, unless it went astray, or a store
\* outside the memory ended the program.
SampleAveraged ==
    \A x \in Sample :
        x \in Pending ~> averaged[x] = 1 \/ x \in astray \/ heap = "aborted"
=============================================================================
