----------------------------- MODULE Aggregate -----------------------------
(***************************************************************************)
(* model_build/aggregate.c: the data points of the training database, one  *)
(* list per run of a machine, averaged over windows of AGGREGATION_STEP     *)
(* seconds into the rows the learners are trained on.                      *)
(*                                                                         *)
(* A data point has a time and one measure: the code repeats for fourteen  *)
(* measures, statement by statement, what the model does for one.  The     *)
(* measure is an integer (its average truncates); a slope and a generation *)
(* time are floating point in the code and exact fractions here, written   *)
(* <<numerator, denominator>>.                                             *)
(***************************************************************************)
EXTENDS Integers, Sequences, FiniteSets, FiniteSetsExt, SequencesExt

CONSTANTS
    AGGREGATION_STEP,
    MaxTime, MaxMeasure,   \* the data points are over 0..MaxTime, 0..MaxMeasure
    MaxRuns, MaxPoints     \* the runs and the data points of a database

ASSUME AggregateAssumption ==
    /\ AGGREGATION_STEP \in Nat
    /\ MaxTime \in Nat /\ MaxMeasure \in Nat
    /\ MaxRuns \in Nat /\ MaxPoints \in Nat

Point == [key : 0..MaxTime, v : 0..MaxMeasure]

VARIABLES
    phase,             \* "read", "run", "visit", "done", or how it crashed
    input_datapoints,  \* the runs: a sequence of sequences of points
    curr_list,         \* the run that is aggregated
    curr_node,         \* the point of it that is visited
    init_time, num_nodes, compute_RTTC,
    aggregated,        \* the window that is being filled
    aggregated_datapoints

windowVars == <<init_time, num_nodes, compute_RTTC, aggregated>>
vars == <<phase, input_datapoints, curr_list, curr_node, windowVars,
          aggregated_datapoints>>

(* bzero of a node. *)
Zeroed == [key |-> 0, generation_time |-> 0, slope |-> 0, v |-> 0]

Init ==
    /\ phase = "read"
    /\ input_datapoints = <<>>
    /\ curr_list = 1
    /\ curr_node = 1
    /\ init_time = 0 /\ num_nodes = 0 /\ compute_RTTC = TRUE
    /\ aggregated = Zeroed
    /\ aggregated_datapoints = <<>>

Points == FoldFunction(LAMBDA run, n : Len(run) + n, 0, input_datapoints)

(***************************************************************************)
(* read_db_file: the lines of the database.                                *)
(***************************************************************************)
(* NEW ACTIVE MACHINE: an empty list for the points that follow. *)
ReadMarker ==
    /\ phase = "read" /\ Len(input_datapoints) < MaxRuns
    /\ input_datapoints' = Append(input_datapoints, <<>>)
    /\ UNCHANGED <<phase, curr_list, curr_node, windowVars, aggregated_datapoints>>

(* The four lines of a data point, the last of which inserts it at the     *)
(* rear of the current list.                                               *)
ReadPoint(p) ==
    /\ phase = "read" /\ Points < MaxPoints
    /\ input_datapoints # <<>>
    /\ input_datapoints' =
           [input_datapoints EXCEPT ![Len(input_datapoints)] = Append(@, p)]
    /\ UNCHANGED <<phase, curr_list, curr_node, windowVars, aggregated_datapoints>>

(* A data point before any marker fails the assertion. *)
ReadPointOfNoRun ==
    /\ phase = "read" /\ input_datapoints = <<>>
    /\ phase' = "assertion"
    /\ UNCHANGED <<input_datapoints, curr_list, curr_node, windowVars,
                   aggregated_datapoints>>

EndOfFile ==
    /\ phase = "read"
    /\ phase' = "run"
    /\ UNCHANGED <<input_datapoints, curr_list, curr_node, windowVars,
                   aggregated_datapoints>>

(***************************************************************************)
(* aggregate.                                                              *)
(***************************************************************************)
run == input_datapoints[curr_list]
point == run[curr_node]
Abs(i) == IF i < 0 THEN -i ELSE i

(* Mutant: a run that starts with the time of the last window of the run before. *)
StartRunKeepsTime ==
    /\ phase = "run" /\ curr_list <= Len(input_datapoints)
    /\ phase' = IF run = <<>> THEN "null pointer" ELSE "visit"
    /\ curr_node' = 1
    /\ num_nodes' = 0
    /\ compute_RTTC' = TRUE
    /\ aggregated' = Zeroed
    /\ UNCHANGED <<input_datapoints, curr_list, init_time, aggregated_datapoints>>

(* The head of the list is read whether or not there is one. *)
StartRun ==
    /\ phase = "run" /\ curr_list <= Len(input_datapoints)
    /\ phase' = IF run = <<>> THEN "null pointer" ELSE "visit"
    /\ curr_node' = 1
    /\ init_time' = IF run = <<>> THEN init_time ELSE run[1].key
    /\ num_nodes' = 0
    /\ compute_RTTC' = TRUE
    /\ aggregated' = Zeroed
    /\ UNCHANGED <<input_datapoints, curr_list, aggregated_datapoints>>

(* This point ends the window before it. *)
Closes == Abs(point.key - init_time) > AGGREGATION_STEP \/ curr_node = Len(run)

(* The averages and slopes of the window that this point ends. *)
Averaged ==
    [key |-> aggregated.key,
     generation_time |-> <<point.key - aggregated.generation_time, num_nodes>>,
     slope |-> <<point.v - aggregated.slope, num_nodes>>,
     v |-> aggregated.v \div num_nodes]

(* The point enters window w of n points, which it opens if opens holds. *)
Accumulate(w, n, opens) ==
    /\ aggregated' =
           IF opens
           THEN [key |-> run[Len(run)].key - point.key,
                 generation_time |-> point.key,
                 slope |-> point.v,
                 v |-> w.v + point.v]
           ELSE [w EXCEPT !.v = @ + point.v]
    /\ compute_RTTC' = FALSE
    /\ num_nodes' = n + 1
    /\ curr_node' = curr_node + 1

VisitInside ==
    /\ phase = "visit" /\ curr_node <= Len(run)
    /\ ~Closes
    /\ Accumulate(aggregated, num_nodes, compute_RTTC)
    /\ UNCHANGED <<phase, input_datapoints, curr_list, init_time,
                   aggregated_datapoints>>

(* Mutant: compute_RTTC is left as it was, so that no window after the     *)
(* first takes its time and slope from its own first point.                 *)
VisitBoundaryKeepsRTTC ==
    /\ phase = "visit" /\ curr_node <= Len(run)
    /\ Closes /\ num_nodes # 0
    /\ aggregated_datapoints' = Append(aggregated_datapoints, Averaged)
    /\ init_time' = point.key
    /\ Accumulate(Zeroed, 0, compute_RTTC)
    /\ UNCHANGED <<phase, input_datapoints, curr_list>>

VisitBoundary ==
    /\ phase = "visit" /\ curr_node <= Len(run)
    /\ Closes /\ num_nodes # 0
    /\ aggregated_datapoints' = Append(aggregated_datapoints, Averaged)
    /\ init_time' = point.key
    /\ Accumulate(Zeroed, 0, TRUE)
    /\ UNCHANGED <<phase, input_datapoints, curr_list>>

(* The first point of a run is its last: the integer averages divide by 0. *)
DivideByZero ==
    /\ phase = "visit" /\ curr_node <= Len(run)
    /\ Closes /\ num_nodes = 0
    /\ phase' = "division by zero"
    /\ UNCHANGED <<input_datapoints, curr_list, curr_node, windowVars,
                   aggregated_datapoints>>

EndRun ==
    /\ phase = "visit" /\ curr_node > Len(run)
    /\ phase' = "run"
    /\ curr_list' = curr_list + 1
    /\ UNCHANGED <<input_datapoints, curr_node, windowVars, aggregated_datapoints>>

(* After the last run the rows are written. *)
Write ==
    /\ phase = "run" /\ curr_list > Len(input_datapoints)
    /\ phase' = "done"
    /\ UNCHANGED <<input_datapoints, curr_list, curr_node, windowVars,
                   aggregated_datapoints>>

Next ==
    \/ ReadMarker \/ ReadPointOfNoRun \/ EndOfFile
    \/ \E p \in Point : ReadPoint(p)
    \/ StartRun \/ VisitInside \/ VisitBoundary \/ DivideByZero \/ EndRun
    \/ Write

Spec == Init /\ [][Next]_vars

(***************************************************************************)
(* The reference: the rows of a run, without a loop over it.               *)
(***************************************************************************)
(* The point that ends the window opened by point i of run r: the next     *)
(* that is more than a step away from it, or the last.                     *)
NextOpening(r, i) ==
    Min({j \in (i + 1)..Len(r) :
             j = Len(r) \/ Abs(r[j].key - r[i].key) > AGGREGATION_STEP})

(* The measures of the first i points of run r, summed. *)
Total(r) ==
    LET t[i \in 0..Len(r)] == IF i = 0 THEN 0 ELSE t[i - 1] + r[i].v
    IN  t

(* The row of the window with the points i, ..., j - 1 of run r. *)
Row(r, i, j) ==
    [key |-> r[Len(r)].key - r[i].key,
     generation_time |-> <<r[j].key - r[i].key, j - i>>,
     slope |-> <<r[j].v - r[i].v, j - i>>,
     v |-> (Total(r)[j - 1] - Total(r)[i - 1]) \div (j - i)]

(* The pieces met on the way from i to n, by steps of next. *)
Chain(n, piece, next) ==
    LET c[i \in 1..n] == IF i = n THEN <<>> ELSE piece[i] \o c[next[i]]
    IN  c

(* The rows from the window on that point i of run r opens.  The window of *)
(* the last point is never written.                                        *)
RowsFrom(r) ==
    Chain(Len(r),
          [i \in 1..(Len(r) - 1) |-> <<Row(r, i, NextOpening(r, i))>>],
          [i \in 1..(Len(r) - 1) |-> NextOpening(r, i)])

Rows(r) == IF r = <<>> THEN <<>> ELSE RowsFrom(r)[1]

(* The rows from the l-th run on. *)
RowsOfRuns(db) ==
    Chain(Len(db) + 1,
          [l \in 1..Len(db) |-> Rows(db[l])],
          [l \in 1..Len(db) |-> l + 1])

(***************************************************************************)
(* Properties.                                                             *)
(***************************************************************************)
WindowType == [key : Int, generation_time : Int, slope : Int, v : Int]
RowType == [key : Int, generation_time : Int \X Int, slope : Int \X Int, v : Int]

(* The window in use is an unaveraged one: averages and fractions are in   *)
(* the output only, and the cursors stay within the database.              *)
TypeOK ==
    /\ phase \in {"read", "run", "visit", "done", "assertion", "null pointer",
                  "division by zero"}
    /\ input_datapoints \in Seq(Seq(Point))
    /\ curr_list \in 1..(Len(input_datapoints) + 1)
    /\ curr_node \in Nat \ {0}
    /\ init_time \in 0..MaxTime
    /\ num_nodes \in Nat
    /\ compute_RTTC \in BOOLEAN
    /\ aggregated \in WindowType
    /\ aggregated_datapoints \in Seq(RowType)

(* The one pass of aggregate() writes the rows of the reference, and so    *)
(* far nothing else: windows do not leak sums, counts, times or slopes     *)
(* into the next window or the next run.                                   *)
RowsAreTheReference ==
    LET rows == RowsOfRuns(input_datapoints)[1]
    IN  /\ phase # "read" => IsPrefix(aggregated_datapoints, rows)
        /\ phase = "done" => aggregated_datapoints = rows

(* "Compute average values" (aggregate.c:193): an average is over at least *)
(* one data point, whatever times the points of this run and of the runs   *)
(* before it carry; the one exception is a run of a single point, which is *)
(* at once its first and its tail.                                         *)
AveragesExist == phase = "division by zero" => Len(run) = 1
=============================================================================
