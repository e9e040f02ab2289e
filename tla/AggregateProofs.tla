--------------------------- MODULE AggregateProofs ---------------------------
(***************************************************************************)
(* Proofs about Aggregate, for databases of any size, any times and any    *)
(* AGGREGATION_STEP.                                                       *)
(***************************************************************************)
EXTENDS Aggregate, SequenceTheorems, WellFoundedInduction, TLAPS

(***************************************************************************)
(* Induction over the data.  Every set of naturals has a least element, so *)
(* that a least counterexample can be assumed; this is what shows that the *)
(* recursive definitions of the reference are functions.                   *)
(***************************************************************************)
LEMMA LeastNatural ==
    ASSUME NEW T \in SUBSET Nat, T # {}
    PROVE  \E m \in T : \A k \in T : m <= k
<1> DEFINE R == {ss \in Nat \X Nat : ss[1] < ss[2]}
<1>1. IsWellFoundedOn(R, Nat)
  BY NatLessThanWellFounded DEF OpToRel
<1>2. \E m \in T : \A k \in T : ~(<<k, m>> \in R)
  <2> HIDE DEF R
  <2> QED BY <1>1, WFMin
<1>3. PICK m \in T : \A k \in T : ~(<<k, m>> \in R)
  BY <1>2
<1>4. ASSUME NEW k \in T PROVE m <= k
  <2>1. k \in Nat /\ m \in Nat /\ <<k, m>> \in Nat \X Nat
    OBVIOUS
  <2>2. ~(k < m)
    BY <1>3, <2>1
  <2> QED BY <2>1, <2>2
<1> QED BY <1>4

(* What the steps of a chain need to lead to its end. *)
Leads(n, next) == \A i \in 1..(n - 1) : next[i] \in (i + 1)..n

(* f collects the pieces from each point of m..n on. *)
Collects(f, m, n, piece, next) ==
    f = [i \in m..n |-> IF i = n THEN <<>> ELSE piece[i] \o f[next[i]]]

(* A chain can be collected from its end, point by point. *)
LEMMA ChainExists ==
    ASSUME NEW n \in Nat \ {0}, NEW piece, NEW next, Leads(n, next)
    PROVE  \E f : Collects(f, 1, n, piece, next)
<1> DEFINE Bad == {k \in 0..(n - 1) : ~ \E f : Collects(f, n - k, n, piece, next)}
<1>1. SUFFICES ASSUME Bad # {} PROVE FALSE
  <2>1. n - 1 \in 0..(n - 1) /\ n - (n - 1) = 1
    OBVIOUS
  <2> QED BY <2>1
<1>2. PICK k \in Bad : \A j \in Bad : k <= j
  <2>1. Bad \in SUBSET Nat
    OBVIOUS
  <2> HIDE DEF Bad
  <2> QED BY <1>1, <2>1, LeastNatural
<1>3. k \in 0..(n - 1) /\ ~ \E f : Collects(f, n - k, n, piece, next)
  OBVIOUS
<1>4. k # 0
  <2>1. Collects([i \in n..n |-> <<>>], n, n, piece, next)
    BY DEF Collects
  <2>2. n - 0 = n
    OBVIOUS
  <2> QED BY <1>3, <2>1, <2>2
<1>5. PICK f : Collects(f, n - k + 1, n, piece, next)
  <2>1. k - 1 \in 0..(n - 1) /\ k - 1 \notin Bad /\ n - (k - 1) = n - k + 1
    BY <1>2, <1>3, <1>4
  <2> QED BY <2>1
<1>6. PICK m \in 1..(n - 1) : m = n - k
  BY <1>3, <1>4
<1>7. PICK g : g = [i \in m..n |-> IF i = m THEN piece[m] \o f[next[m]] ELSE f[i]]
  OBVIOUS
<1>8. ASSUME NEW i \in m..n
      PROVE  g[i] = IF i = n THEN <<>> ELSE piece[i] \o g[next[i]]
  <2>1. f = [j \in (m + 1)..n |-> IF j = n THEN <<>> ELSE piece[j] \o f[next[j]]]
    BY <1>5, <1>6 DEF Collects
  <2>2. CASE i = m
    <3>1. next[m] \in (m + 1)..n
      BY DEF Leads
    <3>2. g[next[m]] = f[next[m]]
      BY <1>7, <3>1
    <3>3. g[m] = piece[m] \o f[next[m]]
      <4>1. m \in m..n
        OBVIOUS
      <4> QED BY <1>7, <4>1, Zenon
    <3>4. m # n
      OBVIOUS
    <3> QED BY <2>2, <3>2, <3>3, <3>4, Zenon
  <2>3. CASE i # m /\ i # n
    <3>1. i \in (m + 1)..n /\ next[i] \in (i + 1)..n
      BY <2>3 DEF Leads
    <3>2. g[i] = f[i] /\ g[next[i]] = f[next[i]]
      BY <1>7, <3>1
    <3> QED BY <2>1, <2>3, <3>1, <3>2
  <2>4. CASE i = n
    <3>1. i \in (m + 1)..n /\ i # m
      BY <2>4
    <3> QED BY <1>7, <2>1, <2>4, <3>1
  <2> QED BY <2>2, <2>3, <2>4
<1>9. Collects(g, m, n, piece, next)
  BY <1>7, <1>8 DEF Collects
<1> QED BY <1>3, <1>6, <1>9

(* The equations that define a chain. *)
Unfolds(c, n, piece, next) ==
    /\ c[n] = <<>>
    /\ \A i \in 1..(n - 1) : c[i] = piece[i] \o c[next[i]]

LEMMA ChainUnfolds ==
    ASSUME NEW n \in Nat \ {0}, NEW piece, NEW next, Leads(n, next)
    PROVE  Unfolds(Chain(n, piece, next), n, piece, next)
<1>1. PICK c : c = Chain(n, piece, next)
  OBVIOUS
<1>2. Collects(c, 1, n, piece, next)
  <2>1. \E f : Collects(f, 1, n, piece, next)
    BY ChainExists
  <2>2. c = CHOOSE f : Collects(f, 1, n, piece, next)
    BY <1>1, Zenon DEF Chain, Collects
  <2> QED BY <2>1, <2>2, Zenon
<1>3. ASSUME NEW i \in 1..n
      PROVE  c[i] = IF i = n THEN <<>> ELSE piece[i] \o c[next[i]]
  BY <1>2, Zenon DEF Collects
<1>4. n \in 1..n /\ \A i \in 1..(n - 1) : i \in 1..n /\ i # n
  OBVIOUS
<1>5. Unfolds(c, n, piece, next)
  BY <1>3, <1>4, Zenon DEF Unfolds
<1> QED BY <1>1, <1>5

(* The chain of sequences over S consists of sequences over S. *)
LEMMA ChainType ==
    ASSUME NEW n \in Nat \ {0}, NEW piece, NEW next, Leads(n, next),
           NEW S, \A i \in 1..(n - 1) : piece[i] \in Seq(S)
    PROVE  \A i \in 1..n : Chain(n, piece, next)[i] \in Seq(S)
<1>1. PICK c : c = Chain(n, piece, next)
  OBVIOUS
<1>2. c[n] = <<>> /\ \A i \in 1..(n - 1) : c[i] = piece[i] \o c[next[i]]
  <2>1. Unfolds(c, n, piece, next)
    BY <1>1, ChainUnfolds
  <2> QED BY <2>1, Zenon DEF Unfolds
<1> DEFINE Bad == {k \in 0..(n - 1) : c[n - k] \notin Seq(S)}
<1>3. SUFFICES ASSUME Bad # {} PROVE FALSE
  <2>1. ASSUME NEW i \in 1..n PROVE c[i] \in Seq(S)
    <3>1. n - i \in 0..(n - 1) /\ n - (n - i) = i
      OBVIOUS
    <3>2. n - i \notin Bad
      BY <1>3
    <3> QED BY <3>1, <3>2
  <2> QED BY <1>1, <2>1
<1>4. PICK k \in Bad : \A j \in Bad : k <= j
  <2>1. Bad \in SUBSET Nat
    OBVIOUS
  <2> HIDE DEF Bad
  <2> QED BY <1>3, <2>1, LeastNatural
<1>5. PICK m \in 1..n : m = n - k
  OBVIOUS
<1>6. c[m] \notin Seq(S)
  BY <1>5
<1>7. m # n
  <2>1. <<>> \in Seq(S)
    OBVIOUS
  <2> QED BY <1>2, <1>6, <2>1
<1>8. next[m] \in (m + 1)..n
  BY <1>7 DEF Leads
<1>9. c[next[m]] \in Seq(S)
  <2>1. /\ n - next[m] \in 0..(n - 1) /\ n - (n - next[m]) = next[m]
        /\ ~(k <= n - next[m])
    BY <1>5, <1>8
  <2>2. n - next[m] \notin Bad
    BY <1>4, <2>1
  <2> QED BY <2>1, <2>2
<1>10. c[m] = piece[m] \o c[next[m]] /\ piece[m] \in Seq(S)
  <2>1. m \in 1..(n - 1)
    BY <1>7
  <2> QED BY <1>2, <2>1, Zenon
<1>11. c[m] \in Seq(S)
  BY <1>9, <1>10, ConcatProperties
<1> QED BY <1>6, <1>11

(* A point of a run has a time and a measure. *)
LEMMA PointOfRun ==
    ASSUME NEW r \in Seq(Point), NEW i \in 1..Len(r)
    PROVE  r[i].key \in Int /\ r[i].v \in Int
<1>1. r[i] \in Point
  OBVIOUS
<1> QED BY <1>1, AggregateAssumption DEF Point

(* t holds the sums of the first measures of run r, up to the m-th. *)
Sums(t, m, r) ==
    t = [i \in 0..m |-> IF i = 0 THEN 0 ELSE t[i - 1] + r[i].v]

LEMMA TotalExists ==
    ASSUME NEW r, Len(r) \in Nat
    PROVE  \E t : Sums(t, Len(r), r)
<1> DEFINE Bad == {m \in Nat : ~ \E t : Sums(t, m, r)}
<1>1. SUFFICES ASSUME Bad # {} PROVE FALSE
  OBVIOUS
<1>2. PICK m \in Bad : \A j \in Bad : m <= j
  <2>1. Bad \in SUBSET Nat
    OBVIOUS
  <2> HIDE DEF Bad
  <2> QED BY <1>1, <2>1, LeastNatural
<1>3. m # 0
  <2>1. Sums([i \in 0..0 |-> 0], 0, r)
    BY DEF Sums
  <2> QED BY <2>1
<1>4. PICK t : Sums(t, m - 1, r)
  <2>1. m - 1 \in Nat /\ ~(m <= m - 1)
    BY <1>3
  <2> QED BY <1>2, <2>1
<1>5. PICK u : u = [i \in 0..m |-> IF i = m THEN t[m - 1] + r[m].v ELSE t[i]]
  OBVIOUS
<1>6. ASSUME NEW i \in 0..m
      PROVE  u[i] = IF i = 0 THEN 0 ELSE u[i - 1] + r[i].v
  <2>1. t = [j \in 0..(m - 1) |-> IF j = 0 THEN 0 ELSE t[j - 1] + r[j].v]
    BY <1>4 DEF Sums
  <2>2. CASE i = m
    BY <1>3, <1>5, <2>2
  <2>3. CASE i # m
    BY <1>5, <2>1, <2>3
  <2> QED BY <2>2, <2>3
<1>7. Sums(u, m, r)
  BY <1>5, <1>6 DEF Sums
<1> QED BY <1>7

(* The equations that define the sums, which are numbers. *)
LEMMA TotalUnfolds ==
    ASSUME NEW r \in Seq(Point)
    PROVE  /\ Total(r)[0] = 0
           /\ \A i \in 1..Len(r) : Total(r)[i] = Total(r)[i - 1] + r[i].v
           /\ \A i \in 0..Len(r) : Total(r)[i] \in Int
<1>1. PICK t : t = Total(r)
  OBVIOUS
<1>2. Sums(t, Len(r), r)
  <2>1. \E u : Sums(u, Len(r), r)
    BY TotalExists
  <2>2. t = CHOOSE u : Sums(u, Len(r), r)
    BY <1>1, Zenon DEF Total, Sums
  <2> QED BY <2>1, <2>2, Zenon
<1>3. t[0] = 0 /\ \A i \in 1..Len(r) : t[i] = t[i - 1] + r[i].v
  BY <1>2 DEF Sums
<1> DEFINE Bad == {i \in 0..Len(r) : t[i] \notin Int}
<1>4. ASSUME Bad # {} PROVE FALSE
  <2>1. PICK i \in Bad : \A j \in Bad : i <= j
    <3>1. Bad \in SUBSET Nat
      OBVIOUS
    <3> HIDE DEF Bad
    <3> QED BY <1>4, <3>1, LeastNatural
  <2>2. i \in 1..Len(r) /\ i - 1 \in 0..Len(r) /\ ~(i <= i - 1)
    BY <1>3
  <2>3. t[i - 1] \in Int
    BY <2>1, <2>2
  <2>4. r[i].v \in Int
    BY <2>2, PointOfRun
  <2> QED BY <1>3, <2>2, <2>3, <2>4
<1> QED BY <1>1, <1>3, <1>4

(* A window ends at a later point, and at the first that ends it. *)
Ends(r, i, j) == j = Len(r) \/ Abs(r[j].key - r[i].key) > AGGREGATION_STEP

LEMMA NextOpeningIs ==
    ASSUME NEW r, Len(r) \in Nat, NEW i \in 1..(Len(r) - 1)
    PROVE  /\ NextOpening(r, i) \in (i + 1)..Len(r)
           /\ \A j \in (i + 1)..Len(r) :
                  Ends(r, i, j) /\ (\A k \in (i + 1)..(j - 1) : ~Ends(r, i, k))
                      => NextOpening(r, i) = j
<1>1. PICK T : T = {j \in (i + 1)..Len(r) : Ends(r, i, j)}
  OBVIOUS
<1>2. NextOpening(r, i) = CHOOSE x \in T : \A y \in T : x =< y
  BY <1>1, Zenon DEF NextOpening, Min, Ends
<1>3. \E x \in T : \A y \in T : x =< y
  <2>1. T \in SUBSET Nat
    BY <1>1
  <2>2. Len(r) \in T
    BY <1>1 DEF Ends
  <2> QED BY <2>1, <2>2, LeastNatural
<1>4. PICK x \in T : x = NextOpening(r, i) /\ \A y \in T : x =< y
  BY <1>2, <1>3, Zenon
<1>5. ASSUME NEW j \in (i + 1)..Len(r), Ends(r, i, j),
             \A k \in (i + 1)..(j - 1) : ~Ends(r, i, k)
      PROVE  x = j
  <2>1. j \in T
    BY <1>1, <1>5
  <2>2. x \in (i + 1)..Len(r) /\ Ends(r, i, x) /\ x <= j
    BY <1>1, <1>4, <2>1
  <2> QED BY <1>5, <2>2
<1> QED BY <1>1, <1>4, <1>5

(* The rows of a window are made of integers and fractions. *)
LEMMA RowTyped ==
    ASSUME NEW r \in Seq(Point), NEW i \in 1..Len(r), NEW j \in (i + 1)..Len(r)
    PROVE  Row(r, i, j) \in RowType
<1>1. i \in 1..Len(r) /\ j \in 1..Len(r) /\ Len(r) \in 1..Len(r)
  OBVIOUS
<1>2. Total(r)[j - 1] - Total(r)[i - 1] \in Int
  <2>1. i - 1 \in 0..Len(r) /\ j - 1 \in 0..Len(r)
    OBVIOUS
  <2>2. Total(r)[j - 1] \in Int /\ Total(r)[i - 1] \in Int
    BY <2>1, TotalUnfolds, Zenon
  <2> QED BY <2>2
<1>3. (Total(r)[j - 1] - Total(r)[i - 1]) \div (j - i) \in Int
  <2>1. j - i \in Nat /\ j - i > 0
    OBVIOUS
  <2> QED BY <1>2, <2>1
<1>4. /\ r[Len(r)].key - r[i].key \in Int /\ r[j].key - r[i].key \in Int
      /\ r[j].v - r[i].v \in Int /\ j - i \in Int
  BY <1>1, PointOfRun
<1> QED BY <1>3, <1>4 DEF Row, RowType

(* The rows from a window on: its own, and those from the next opening on. *)
LEMMA RowsFromUnfolds ==
    ASSUME NEW r \in Seq(Point), r # <<>>
    PROVE  /\ RowsFrom(r)[Len(r)] = <<>>
           /\ \A i \in 1..(Len(r) - 1) :
                  RowsFrom(r)[i] = <<Row(r, i, NextOpening(r, i))>>
                                       \o RowsFrom(r)[NextOpening(r, i)]
           /\ \A i \in 1..Len(r) : RowsFrom(r)[i] \in Seq(RowType)
<1>1. PICK n \in Nat \ {0} : n = Len(r)
  OBVIOUS
<1>2. PICK piece : piece = [i \in 1..(n - 1) |-> <<Row(r, i, NextOpening(r, i))>>]
  OBVIOUS
<1>3. PICK next : next = [i \in 1..(n - 1) |-> NextOpening(r, i)]
  OBVIOUS
<1>4. PICK c : c = Chain(n, piece, next)
  OBVIOUS
<1>5. c = RowsFrom(r)
  BY <1>1, <1>2, <1>3, <1>4, Zenon DEF RowsFrom
<1>6. Leads(n, next)
  BY <1>1, <1>3, NextOpeningIs DEF Leads
<1>7. \A i \in 1..(n - 1) : piece[i] \in Seq(RowType)
  <2>1. ASSUME NEW i \in 1..(n - 1) PROVE piece[i] \in Seq(RowType)
    <3>1. NextOpening(r, i) \in (i + 1)..Len(r) /\ i \in 1..Len(r)
      BY <1>1, NextOpeningIs
    <3>2. PICK row \in RowType : row = Row(r, i, NextOpening(r, i))
      BY <3>1, RowTyped
    <3>3. piece[i] = <<row>>
      BY <1>2, <3>2, Zenon
    <3> QED BY <3>3
  <2> QED BY <2>1
<1>8. Unfolds(c, n, piece, next)
  BY <1>4, <1>6, ChainUnfolds
<1>9. \A i \in 1..n : c[i] \in Seq(RowType)
  BY <1>4, <1>6, <1>7, ChainType
<1>10. c[n] = <<>> /\ \A i \in 1..(n - 1) :
           c[i] = <<Row(r, i, NextOpening(r, i))>> \o c[NextOpening(r, i)]
  <2>1. \A i \in 1..(n - 1) :
            piece[i] = <<Row(r, i, NextOpening(r, i))>> /\ next[i] = NextOpening(r, i)
    BY <1>2, <1>3, Zenon
  <2> QED BY <1>8, <2>1, Zenon DEF Unfolds
<1> QED BY <1>1, <1>5, <1>9, <1>10, Zenon

(* The rows from a run on: its own, and those from the next run on. *)
LEMMA RowsOfRunsUnfolds ==
    ASSUME NEW db \in Seq(Seq(Point))
    PROVE  /\ RowsOfRuns(db)[Len(db) + 1] = <<>>
           /\ \A l \in 1..Len(db) :
                  RowsOfRuns(db)[l] = Rows(db[l]) \o RowsOfRuns(db)[l + 1]
           /\ \A l \in 1..Len(db) : Rows(db[l]) \in Seq(RowType)
           /\ \A l \in 1..(Len(db) + 1) : RowsOfRuns(db)[l] \in Seq(RowType)
<1>1. PICK n \in Nat \ {0} : n = Len(db) + 1
  OBVIOUS
<1>2. PICK piece : piece = [l \in 1..Len(db) |-> Rows(db[l])]
  OBVIOUS
<1>3. PICK next : next = [l \in 1..Len(db) |-> l + 1]
  OBVIOUS
<1>4. PICK c : c = Chain(n, piece, next)
  OBVIOUS
<1>5. c = RowsOfRuns(db)
  BY <1>1, <1>2, <1>3, <1>4, Zenon DEF RowsOfRuns
<1>6. 1..(n - 1) = 1..Len(db)
  BY <1>1
<1>7. Leads(n, next)
  BY <1>1, <1>3, <1>6 DEF Leads
<1>8. ASSUME NEW l \in 1..Len(db) PROVE Rows(db[l]) \in Seq(RowType)
  <2>1. PICK r \in Seq(Point) : r = db[l]
    OBVIOUS
  <2>2. CASE r = <<>>
    <3>1. <<>> \in Seq(RowType)
      OBVIOUS
    <3> QED BY <2>1, <2>2, <3>1, Zenon DEF Rows
  <2>3. CASE r # <<>>
    <3>1. 1 \in 1..Len(r)
      BY <2>3
    <3>2. RowsFrom(r)[1] \in Seq(RowType)
      BY <2>3, <3>1, RowsFromUnfolds, Zenon
    <3> QED BY <2>1, <2>3, <3>2, Zenon DEF Rows
  <2> QED BY <2>2, <2>3
<1>9. \A l \in 1..(n - 1) : piece[l] \in Seq(RowType)
  BY <1>2, <1>6, <1>8, Zenon
<1>10. Unfolds(c, n, piece, next)
  BY <1>4, <1>7, ChainUnfolds
<1>11. \A l \in 1..n : c[l] \in Seq(RowType)
  BY <1>4, <1>7, <1>9, ChainType
<1>12. c[n] = <<>> /\ \A l \in 1..Len(db) : c[l] = Rows(db[l]) \o c[l + 1]
  <2>1. \A l \in 1..Len(db) : piece[l] = Rows(db[l]) /\ next[l] = l + 1
    BY <1>2, <1>3, Zenon
  <2> QED BY <1>6, <1>10, <2>1, Zenon DEF Unfolds
<1> QED BY <1>1, <1>5, <1>8, <1>11, <1>12, Zenon

(* Rows are put together in any grouping. *)
LEMMA Regroup ==
    \A s, t, u \in Seq(RowType) : (s \o t) \o u = s \o (t \o u)
<1> TAKE s, t, u \in Seq(RowType)
<1> QED BY ConcatAssociative

(***************************************************************************)
(* The inductive invariant.                                                *)
(***************************************************************************)
(* The point of the run that opened the window. *)
opening == curr_node - num_nodes

(* The window of the points i, ..., j - 1 of run r before it is averaged. *)
Filled(r, i, j) ==
    [key |-> r[Len(r)].key - r[i].key,
     generation_time |-> r[i].key,
     slope |-> r[i].v,
     v |-> Total(r)[j - 1] - Total(r)[i - 1]]

(* The types, except that of the flag compute_RTTC. *)
DataInv ==
    /\ phase \in {"read", "run", "visit", "done", "assertion", "null pointer",
                  "division by zero"}
    /\ input_datapoints \in Seq(Seq(Point))
    /\ curr_list \in 1..(Len(input_datapoints) + 1)
    /\ curr_node \in Nat \ {0}
    /\ init_time \in 0..MaxTime
    /\ num_nodes \in Nat
    /\ aggregated \in WindowType
    /\ aggregated_datapoints \in Seq(RowType)

(* The flag is set exactly while the window of a run is empty. *)
FlagInv ==
    /\ compute_RTTC \in BOOLEAN
    /\ phase = "visit" => (compute_RTTC <=> num_nodes = 0)

(* While a run is visited, the window is empty only before the first point *)
(* of the run, and everything kept of it is that of the points from        *)
(* opening on, none of which ends it: this is what the resets at the head  *)
(* of a run and after each average establish.                              *)
WindowInv ==
    phase = "visit" =>
        /\ curr_list \in 1..Len(input_datapoints)
        /\ opening \in 1..Len(run) /\ curr_node \in opening..(Len(run) + 1)
        /\ init_time = run[opening].key
        /\ \A j \in (opening + 1)..(curr_node - 1) : ~Ends(run, opening, j)
        /\ num_nodes = 0 => curr_node = 1 /\ aggregated = Zeroed
        /\ num_nodes # 0 => aggregated = Filled(run, opening, curr_node)

(* The rows written so far and those of the reference that are to come,    *)
(* from the open window on, are all the rows of the reference.             *)
RowsInv ==
    LET all == RowsOfRuns(input_datapoints)
    IN  /\ phase = "read" => curr_list = 1 /\ aggregated_datapoints = <<>>
        /\ phase \in {"run", "done"} => aggregated_datapoints \o all[curr_list] = all[1]
        /\ phase = "visit" =>
               (aggregated_datapoints \o RowsFrom(run)[opening]) \o all[curr_list + 1] = all[1]
        /\ phase = "done" => curr_list = Len(input_datapoints) + 1
        /\ phase # "read" => \E rest \in Seq(RowType) : aggregated_datapoints \o rest = all[1]

AggregateInv == DataInv /\ FlagInv /\ WindowInv /\ RowsInv /\ AveragesExist

(* A run of the database is a sequence of data points. *)
LEMMA RunOfPoints ==
    ASSUME DataInv, curr_list \in 1..Len(input_datapoints)
    PROVE  run \in Seq(Point)
<1>1. input_datapoints \in Seq(Seq(Point))
  BY DEF DataInv
<1> QED BY <1>1 DEF run

LEMMA LenOfDatabase ==
    ASSUME DataInv
    PROVE  Len(input_datapoints) \in Nat
<1>1. input_datapoints \in Seq(Seq(Point))
  BY DEF DataInv
<1> QED BY <1>1

(* The first point of a run, visited with an empty window, is not more     *)
(* than a step away from the start of the window: it closes the window     *)
(* only as the tail of its run.                                            *)
LEMMA FirstPointCloses ==
    ASSUME AggregateInv, phase = "visit", num_nodes = 0, Closes, curr_node <= Len(run)
    PROVE  Len(run) = 1
<1>1. run \in Seq(Point) /\ curr_node = 1 /\ opening = 1 /\ init_time = run[1].key
  BY RunOfPoints DEF AggregateInv, WindowInv, opening
<1>2. point.key - init_time = 0
  <2>1. point = run[1]
    BY <1>1 DEF point
  <2>2. run[1].key \in Int
    BY <1>1, PointOfRun
  <2> QED BY <1>1, <2>1, <2>2
<1>3. ~(Abs(point.key - init_time) > AGGREGATION_STEP)
  BY <1>2, AggregateAssumption DEF Abs
<1> QED BY <1>1, <1>3 DEF Closes

(* A point closes the window exactly if it ends it in the reference. *)
LEMMA ClosesIsEnds ==
    ASSUME WindowInv, phase = "visit"
    PROVE  Closes <=> Ends(run, opening, curr_node)
BY DEF WindowInv, Closes, Ends, point

(* Reading the database: nothing is written yet, and all is to come. *)
LEMMA ReadStep ==
    ASSUME AggregateInv,
           \/ ReadMarker \/ ReadPointOfNoRun \/ EndOfFile
           \/ \E p \in Point : ReadPoint(p)
    PROVE  AggregateInv'
<1> USE DEF AggregateInv
<1>1. /\ phase = "read" /\ phase' \in {"read", "run", "assertion"}
      /\ UNCHANGED <<curr_list, curr_node, init_time, num_nodes, aggregated, aggregated_datapoints>>
  BY DEF windowVars, ReadMarker, ReadPointOfNoRun, EndOfFile, ReadPoint
<1>2. input_datapoints' \in Seq(Seq(Point))
  <2>1. CASE ReadMarker
    <3>1. <<>> \in Seq(Point)
      OBVIOUS
    <3> QED BY <2>1, <3>1 DEF ReadMarker, DataInv
  <2>2. CASE ReadPointOfNoRun \/ EndOfFile
    BY <2>2 DEF ReadPointOfNoRun, EndOfFile, DataInv
  <2>3. ASSUME NEW p \in Point, ReadPoint(p) PROVE input_datapoints' \in Seq(Seq(Point))
    <3>1. PICK n : n = Len(input_datapoints)
      OBVIOUS
    <3>2. input_datapoints \in Seq(Seq(Point)) /\ n \in 1..Len(input_datapoints)
      BY <2>3, <3>1 DEF ReadPoint, DataInv
    <3>3. PICK r : r = Append(input_datapoints[n], p)
      OBVIOUS
    <3>4. r \in Seq(Point)
      BY <3>2, <3>3
    <3>5. input_datapoints' = [input_datapoints EXCEPT ![n] = r]
      BY <2>3, <3>1, <3>3 DEF ReadPoint
    <3> QED BY <3>2, <3>4, <3>5
  <2> QED BY <2>1, <2>2, <2>3
<1>3. curr_list' = 1 /\ aggregated_datapoints' = <<>>
  BY <1>1 DEF RowsInv
<1>4. DataInv'
  <2>1. 1 \in 1..(Len(input_datapoints') + 1)
    BY <1>2
  <2>2. phase' \in {"read", "run", "visit", "done", "assertion", "null pointer",
                    "division by zero"}
    BY <1>1
  <2> QED BY <1>1, <1>2, <1>3, <2>1, <2>2, Zenon DEF DataInv
<1>5. PICK all : all = RowsOfRuns(input_datapoints')
  OBVIOUS
<1>6. all[1] \in Seq(RowType) /\ <<>> \o all[1] = all[1]
  <2>1. 1 \in 1..(Len(input_datapoints') + 1)
    BY <1>2
  <2>2. all[1] \in Seq(RowType)
    BY <1>2, <1>5, <2>1, RowsOfRunsUnfolds
  <2> QED BY <2>2, ConcatEmptySeq
<1>7. RowsInv'
  BY <1>1, <1>3, <1>5, <1>6, Zenon DEF RowsInv
<1>8. UNCHANGED compute_RTTC
  BY DEF windowVars, ReadMarker, ReadPointOfNoRun, EndOfFile, ReadPoint
<1>9. FlagInv' /\ WindowInv' /\ AveragesExist'
  BY <1>1, <1>8, Zenon DEF FlagInv, WindowInv, AveragesExist
<1> QED BY <1>4, <1>7, <1>9

(* The head of a run opens a window; what is to come is what was. *)
LEMMA StartRunStep ==
    ASSUME AggregateInv, StartRun
    PROVE  AggregateInv'
<1> USE DEF AggregateInv
<1>1. /\ UNCHANGED <<input_datapoints, curr_list, aggregated_datapoints>>
      /\ curr_node' = 1 /\ num_nodes' = 0 /\ aggregated' = Zeroed
      /\ phase = "run" /\ curr_list <= Len(input_datapoints)
      /\ phase' = IF run = <<>> THEN "null pointer" ELSE "visit"
      /\ init_time' = IF run = <<>> THEN init_time ELSE run[1].key
  BY DEF StartRun
<1>2. run' = run /\ opening' = 1
  <2>1. UNCHANGED <<input_datapoints, curr_list>> /\ curr_node' = 1 /\ num_nodes' = 0
    BY <1>1
  <2> QED BY <2>1 DEF run, opening
<1>3. curr_list \in 1..Len(input_datapoints)
  <2>1. /\ curr_list \in 1..(Len(input_datapoints) + 1)
        /\ input_datapoints \in Seq(Seq(Point)) /\ curr_list <= Len(input_datapoints)
    BY <1>1 DEF DataInv
  <2> QED BY <2>1
<1>4. run \in Seq(Point)
  BY <1>3, RunOfPoints
<1>5. DataInv'
  <2>1. init_time' \in 0..MaxTime
    <3>1. CASE run = <<>>
      BY <1>1, <3>1 DEF DataInv
    <3>2. CASE run # <<>>
      <4>1. run[1] \in Point
        BY <1>4, <3>2
      <4> QED BY <1>1, <3>2, <4>1 DEF Point
    <3> QED BY <3>1, <3>2
  <2>2. Zeroed \in WindowType
    BY DEF Zeroed, WindowType
  <2>3. phase' = "null pointer" \/ phase' = "visit"
    BY <1>1, Zenon
  <2>4. 1 \in Nat \ {0} /\ 0 \in Nat
    OBVIOUS
  <2> QED BY <1>1, <2>1, <2>2, <2>3, <2>4, Zenon DEF DataInv
<1>6. WindowInv'
  <2>1. SUFFICES ASSUME run # <<>> PROVE WindowInv'
    BY <1>1 DEF WindowInv
  <2>2. 1 \in 1..Len(run) /\ 1 \in 1..(Len(run) + 1) /\ (1 + 1)..(1 - 1) = {}
    BY <1>4, <2>1
  <2> QED BY <1>1, <1>2, <1>3, <2>1, <2>2 DEF WindowInv
<1>7. RowsInv'
  <2>1. PICK all : all = RowsOfRuns(input_datapoints)
    OBVIOUS
  <2>2. all[curr_list] = Rows(run) \o all[curr_list + 1]
    BY <1>3, <2>1, RowsOfRunsUnfolds, Zenon DEF run, DataInv
  <2>3. /\ all[curr_list] \in Seq(RowType) /\ all[curr_list + 1] \in Seq(RowType)
        /\ Rows(run) \in Seq(RowType)
    <3>1. curr_list \in 1..(Len(input_datapoints) + 1) /\ curr_list + 1 \in 1..(Len(input_datapoints) + 1)
      BY <1>3, LenOfDatabase
    <3> QED BY <1>3, <2>1, <3>1, RowsOfRunsUnfolds, Zenon DEF run, DataInv
  <2>4. aggregated_datapoints \o all[curr_list] = all[1]
    BY <1>1, <2>1, Zenon DEF RowsInv
  <2>5. CASE run = <<>>
    BY <1>1, <2>1, <2>3, <2>4, <2>5 DEF RowsInv
  <2>6. CASE run # <<>>
    <3>1. Rows(run) = RowsFrom(run)[1]
      BY <2>6, Zenon DEF Rows
    <3>2. (aggregated_datapoints \o Rows(run)) \o all[curr_list + 1] = all[1]
      <4>1. aggregated_datapoints \in Seq(RowType)
        BY DEF DataInv
      <4>2. (aggregated_datapoints \o Rows(run)) \o all[curr_list + 1]
              = aggregated_datapoints \o (Rows(run) \o all[curr_list + 1])
        BY <2>3, <4>1, Regroup, Zenon
      <4> QED BY <2>2, <2>4, <4>2, Zenon
    <3>3. phase' = "visit"
      BY <1>1, <2>6
    <3>4. RowsFrom(run)'[opening'] = RowsFrom(run)[1]
      BY <1>2, Zenon
    <3> QED BY <1>1, <1>2, <2>1, <2>3, <2>4, <3>1, <3>2, <3>3, Zenon DEF RowsInv
  <2> QED BY <2>5, <2>6
<1>8. FlagInv'
  BY <1>1, Zenon DEF StartRun, FlagInv
<1>9. AveragesExist'
  BY <1>1 DEF AveragesExist
<1> QED BY <1>5, <1>6, <1>7, <1>8, <1>9

(* The sum of a window grows by the measure of the point that enters it. *)
LEMMA TotalStep ==
    ASSUME NEW r \in Seq(Point), NEW i \in 1..Len(r), NEW j \in i..Len(r)
    PROVE  /\ Total(r)[j] - Total(r)[i - 1] = (Total(r)[j - 1] - Total(r)[i - 1]) + r[j].v
           /\ Total(r)[j] - Total(r)[i - 1] \in Int
           /\ i = j => Total(r)[j] - Total(r)[i - 1] = 0 + r[j].v
<1>1. PICK t : t = Total(r)
  OBVIOUS
<1>2. j \in 1..Len(r) /\ i - 1 \in 0..Len(r) /\ j - 1 \in 0..Len(r) /\ j \in 0..Len(r)
  OBVIOUS
<1>3. t[j] = t[j - 1] + r[j].v /\ t[j - 1] \in Int /\ t[i - 1] \in Int /\ t[j] \in Int
  BY <1>1, <1>2, TotalUnfolds
<1>4. r[j].v \in Int
  BY <1>2, PointOfRun
<1>5. /\ t[j] - t[i - 1] = (t[j - 1] - t[i - 1]) + r[j].v
      /\ t[j] - t[i - 1] \in Int
      /\ i = j => t[j] - t[i - 1] = 0 + r[j].v
  <2>1. PICK a \in Int, b \in Int, c \in Int :
            a = t[j - 1] /\ b = t[i - 1] /\ c = r[j].v
    BY <1>3, <1>4
  <2>2. /\ (a + c) - b = (a - b) + c /\ (a + c) - b \in Int
        /\ a = b => (a + c) - b = 0 + c
    OBVIOUS
  <2> QED BY <1>3, <2>1, <2>2, Zenon
<1> QED BY <1>1, <1>5

(* What WindowInv says of the point that is visited. *)
LEMMA Visiting ==
    ASSUME AggregateInv, phase = "visit", curr_node <= Len(run)
    PROVE  /\ run \in Seq(Point) /\ curr_list \in 1..Len(input_datapoints)
           /\ opening \in 1..Len(run) /\ curr_node \in opening..Len(run)
           /\ num_nodes = curr_node - opening /\ num_nodes \in Nat
           /\ curr_node \in Nat \ {0} /\ point = run[curr_node]
<1>1. curr_list \in 1..Len(input_datapoints) /\ opening \in 1..Len(run)
  BY DEF AggregateInv, WindowInv
<1>2. run \in Seq(Point)
  BY <1>1, RunOfPoints DEF AggregateInv
<1>3. num_nodes \in Nat /\ curr_node \in Nat \ {0}
  BY DEF AggregateInv, DataInv
<1>4. curr_node \in opening..Len(run)
  <2>1. curr_node \in opening..(Len(run) + 1)
    BY DEF AggregateInv, WindowInv
  <2> QED BY <1>1, <1>2, <1>3, <2>1
<1>5. num_nodes = curr_node - opening
  BY <1>3 DEF opening
<1> QED BY <1>1, <1>2, <1>3, <1>4, <1>5 DEF point

(* A window of points of a run has integer fields. *)
LEMMA FilledType ==
    ASSUME NEW r \in Seq(Point), NEW i \in 1..Len(r), NEW j \in i..Len(r)
    PROVE  Filled(r, i, j + 1) \in WindowType
<1>1. (j + 1) - 1 = j /\ Len(r) \in 1..Len(r)
  OBVIOUS
<1>2. Total(r)[(j + 1) - 1] - Total(r)[i - 1] \in Int
  BY <1>1, TotalStep
<1>3. r[Len(r)].key - r[i].key \in Int /\ r[i].key \in Int /\ r[i].v \in Int
  BY <1>1, PointOfRun
<1> QED BY <1>2, <1>3 DEF Filled, WindowType

(* A point that does not end the window enters it, and opens it if the     *)
(* window is empty.                                                        *)
LEMMA VisitInsideStep ==
    ASSUME AggregateInv, VisitInside
    PROVE  AggregateInv'
<1> USE DEF AggregateInv
<1>1. /\ phase = "visit" /\ curr_node <= Len(run) /\ ~Closes
      /\ UNCHANGED <<phase, input_datapoints, curr_list, init_time, aggregated_datapoints>>
      /\ curr_node' = curr_node + 1 /\ num_nodes' = num_nodes + 1
  BY DEF VisitInside, Accumulate
<1>2. /\ run \in Seq(Point) /\ curr_list \in 1..Len(input_datapoints)
      /\ opening \in 1..Len(run) /\ curr_node \in opening..Len(run)
      /\ num_nodes = curr_node - opening /\ num_nodes \in Nat
      /\ curr_node \in Nat \ {0} /\ point = run[curr_node]
  BY <1>1, Visiting
<1>3. run' = run /\ opening' = opening
  <2>1. run' = run
    BY <1>1 DEF run
  <2>2. opening' = (curr_node + 1) - (num_nodes + 1) /\ opening = curr_node - num_nodes
    BY <1>1 DEF opening
  <2> QED BY <1>2, <2>1, <2>2
<1>4. aggregated' = Filled(run, opening, curr_node + 1)
  <2>1. PICK sum : sum = Total(run)[curr_node] - Total(run)[opening - 1]
    OBVIOUS
  <2>2. Filled(run, opening, curr_node + 1) =
            [key |-> run[Len(run)].key - run[opening].key,
             generation_time |-> run[opening].key, slope |-> run[opening].v, v |-> sum]
    <3>1. (curr_node + 1) - 1 = curr_node
      BY <1>2
    <3> QED BY <2>1, <3>1, Zenon DEF Filled
  <2>3. CASE num_nodes = 0
    <3>1. compute_RTTC
      BY <1>1, <2>3, Zenon DEF FlagInv
    <3>2. aggregated = Zeroed
      BY <1>1, <2>3 DEF WindowInv
    <3>3. opening = curr_node
      BY <1>2, <2>3
    <3>4. sum = 0 + point.v
      BY <1>2, <2>1, <3>3, TotalStep
    <3>5. aggregated' = [key |-> run[Len(run)].key - point.key,
                         generation_time |-> point.key, slope |-> point.v,
                         v |-> aggregated.v + point.v]
      BY <3>1, Zenon DEF VisitInside, Accumulate
    <3>6. aggregated.v = 0
      BY <3>2 DEF Zeroed
    <3> QED BY <1>2, <2>2, <3>3, <3>4, <3>5, <3>6, Zenon
  <2>4. CASE num_nodes # 0
    <3>1. ~compute_RTTC
      BY <1>1, <2>4, Zenon DEF FlagInv
    <3>2. aggregated = Filled(run, opening, curr_node)
      BY <1>1, <2>4 DEF WindowInv
    <3>3. aggregated' = [aggregated EXCEPT !.v = @ + point.v]
      BY <3>1, Zenon DEF VisitInside, Accumulate
    <3>4. sum = (Total(run)[curr_node - 1] - Total(run)[opening - 1]) + point.v
      BY <1>2, <2>1, TotalStep
    <3>5. aggregated' =
            [key |-> run[Len(run)].key - run[opening].key,
             generation_time |-> run[opening].key, slope |-> run[opening].v, v |-> sum]
      BY <3>2, <3>3, <3>4 DEF Filled
    <3> QED BY <2>2, <3>5, Zenon
  <2> QED BY <2>3, <2>4
<1>5. DataInv'
  <2>1. aggregated' \in WindowType
    BY <1>2, <1>4, FilledType
  <2>2. curr_node + 1 \in Nat \ {0} /\ num_nodes + 1 \in Nat
    BY <1>2
  <2> QED BY <1>1, <2>1, <2>2, Zenon DEF DataInv
<1>6. FlagInv'
  <2>1. num_nodes' # 0
    BY <1>1, <1>2
  <2>2. compute_RTTC' = FALSE
    BY Zenon DEF VisitInside, Accumulate
  <2> QED BY <2>1, <2>2, Zenon DEF FlagInv
<1>7. WindowInv'
  <2>1. \A j \in (opening + 1)..curr_node : ~Ends(run, opening, j)
    <3>1. ~Ends(run, opening, curr_node)
      BY <1>1, ClosesIsEnds
    <3>2. \A j \in (opening + 1)..(curr_node - 1) : ~Ends(run, opening, j)
      BY <1>1 DEF WindowInv
    <3>3. \A j \in (opening + 1)..curr_node : j = curr_node \/ j \in (opening + 1)..(curr_node - 1)
      BY <1>2
    <3> QED BY <3>1, <3>2, <3>3, Zenon
  <2>2. /\ (curr_node + 1) - 1 = curr_node /\ curr_node + 1 \in opening..(Len(run) + 1)
        /\ num_nodes + 1 # 0
    BY <1>2
  <2>3. init_time = run[opening].key
    BY <1>1 DEF WindowInv
  <2> QED BY <1>1, <1>2, <1>3, <1>4, <2>1, <2>2, <2>3, Zenon DEF WindowInv
<1>8. RowsInv'
  BY <1>1, <1>3, Zenon DEF RowsInv
<1>9. AveragesExist'
  BY <1>1 DEF AveragesExist
<1> QED BY <1>5, <1>6, <1>7, <1>8, <1>9

(* A point that ends a window with points in it: the row of the window is  *)
(* written, which is the first of those that were to come, and the point   *)
(* opens the next window.                                                  *)
LEMMA VisitBoundaryStep ==
    ASSUME AggregateInv, VisitBoundary
    PROVE  AggregateInv'
<1> USE DEF AggregateInv
<1>1. /\ phase = "visit" /\ curr_node <= Len(run) /\ Closes /\ num_nodes # 0
      /\ UNCHANGED <<phase, input_datapoints, curr_list>>
      /\ curr_node' = curr_node + 1 /\ num_nodes' = 0 + 1 /\ init_time' = point.key
      /\ aggregated_datapoints' = Append(aggregated_datapoints, Averaged)
  BY DEF VisitBoundary, Accumulate
<1>2. /\ run \in Seq(Point) /\ curr_list \in 1..Len(input_datapoints)
      /\ opening \in 1..Len(run) /\ curr_node \in opening..Len(run)
      /\ num_nodes = curr_node - opening /\ num_nodes \in Nat
      /\ curr_node \in Nat \ {0} /\ point = run[curr_node]
  BY <1>1, Visiting
<1>3. run' = run /\ opening' = curr_node
  <2>1. run' = run
    BY <1>1 DEF run
  <2>2. opening' = (curr_node + 1) - (0 + 1)
    BY <1>1 DEF opening
  <2> QED BY <1>2, <2>1, <2>2
<1>4. aggregated' = Filled(run, curr_node, curr_node + 1)
  <2>1. aggregated' = [key |-> run[Len(run)].key - point.key,
                       generation_time |-> point.key, slope |-> point.v,
                       v |-> Zeroed.v + point.v]
    BY Zenon DEF VisitBoundary, Accumulate
  <2>2. Zeroed.v = 0
    BY DEF Zeroed
  <2>3. curr_node \in 1..Len(run) /\ curr_node \in curr_node..Len(run)
        /\ (curr_node + 1) - 1 = curr_node
    BY <1>2
  <2>4. Total(run)[curr_node] - Total(run)[curr_node - 1] = 0 + point.v
    BY <1>2, <2>3, TotalStep
  <2> QED BY <1>2, <2>1, <2>2, <2>3, <2>4, Zenon DEF Filled
<1>5. opening \in 1..(Len(run) - 1) /\ NextOpening(run, opening) = curr_node
  <2>1. opening \in 1..(Len(run) - 1) /\ curr_node \in (opening + 1)..Len(run)
    BY <1>1, <1>2
  <2>2. Ends(run, opening, curr_node)
    BY <1>1, ClosesIsEnds
  <2>3. \A j \in (opening + 1)..(curr_node - 1) : ~Ends(run, opening, j)
    BY <1>1 DEF WindowInv
  <2>4. Len(run) \in Nat
    BY <1>2
  <2> QED BY <2>1, <2>2, <2>3, <2>4, NextOpeningIs
<1>6. Averaged = Row(run, opening, curr_node)
  <2>1. aggregated = Filled(run, opening, curr_node)
    BY <1>1 DEF WindowInv
  <2>2. /\ aggregated.key = run[Len(run)].key - run[opening].key
        /\ aggregated.generation_time = run[opening].key
        /\ aggregated.slope = run[opening].v
        /\ aggregated.v = Total(run)[curr_node - 1] - Total(run)[opening - 1]
    BY <2>1 DEF Filled
  <2> QED BY <1>2, <2>2, Zenon DEF Averaged, Row
<1>7. PICK row \in RowType : row = Averaged
  <2>1. curr_node \in (opening + 1)..Len(run)
    BY <1>1, <1>2
  <2> QED BY <1>2, <1>6, <2>1, RowTyped
<1>8. /\ aggregated_datapoints \in Seq(RowType) /\ <<row>> \in Seq(RowType)
      /\ aggregated_datapoints' = aggregated_datapoints \o <<row>>
      /\ aggregated_datapoints' \in Seq(RowType)
  <2>1. aggregated_datapoints \in Seq(RowType)
    BY DEF DataInv
  <2>2. aggregated_datapoints' = Append(aggregated_datapoints, row)
    BY <1>1, <1>7
  <2> QED BY <2>1, <2>2, AppendIsConcat
<1>9. DataInv'
  <2>1. aggregated' \in WindowType
    <3>1. curr_node \in 1..Len(run) /\ curr_node \in curr_node..Len(run)
      BY <1>2
    <3> QED BY <1>2, <1>4, <3>1, FilledType
  <2>2. curr_node + 1 \in Nat \ {0} /\ 0 + 1 \in Nat
    BY <1>2
  <2>3. init_time' \in 0..MaxTime
    <3>1. run[curr_node] \in Point
      BY <1>2
    <3> QED BY <1>1, <1>2, <3>1 DEF Point
  <2> QED BY <1>1, <1>8, <2>1, <2>2, <2>3, Zenon DEF DataInv
<1>10. FlagInv'
  <2>1. num_nodes' # 0
    BY <1>1
  <2>2. compute_RTTC' = FALSE
    BY Zenon DEF VisitBoundary, Accumulate
  <2> QED BY <2>1, <2>2, Zenon DEF FlagInv
<1>11. WindowInv'
  <2>1. /\ (curr_node + 1) - 1 = curr_node /\ curr_node + 1 \in curr_node..(Len(run) + 1)
        /\ 0 + 1 # 0 /\ curr_node \in 1..Len(run)
        /\ \A j \in (curr_node + 1)..curr_node : FALSE
    BY <1>2
  <2> QED BY <1>1, <1>2, <1>3, <1>4, <2>1, Zenon DEF WindowInv
<1>12. RowsInv'
  <2>1. PICK all : all = RowsOfRuns(input_datapoints)
    OBVIOUS
  <2>2. PICK rest : rest = RowsFrom(run)[curr_node]
    OBVIOUS
  <2>3. run # <<>> /\ curr_node \in 1..Len(run) /\ opening \in 1..Len(run)
    BY <1>2
  <2>4. RowsFrom(run)[opening] = <<row>> \o rest /\ rest \in Seq(RowType)
    BY <1>2, <1>5, <1>6, <1>7, <2>2, <2>3, RowsFromUnfolds, Zenon
  <2>5. all[curr_list + 1] \in Seq(RowType)
    <3>1. curr_list + 1 \in 1..(Len(input_datapoints) + 1)
      BY <1>2, LenOfDatabase
    <3> QED BY <2>1, <3>1, RowsOfRunsUnfolds, Zenon DEF DataInv
  <2>6. (aggregated_datapoints \o (<<row>> \o rest)) \o all[curr_list + 1] = all[1]
    BY <1>1, <2>1, <2>4, Zenon DEF RowsInv
  <2>7. (aggregated_datapoints' \o rest) \o all[curr_list + 1] = all[1]
    <3>1. (aggregated_datapoints \o <<row>>) \o rest = aggregated_datapoints \o (<<row>> \o rest)
      <4>1. PICK s \in Seq(RowType), t \in Seq(RowType) :
                s = aggregated_datapoints /\ t = <<row>>
        BY <1>8, Zenon
      <4>2. (s \o t) \o rest = s \o (t \o rest)
        BY <2>4, Regroup, Zenon
      <4> QED BY <4>1, <4>2, Zenon
    <3> QED BY <1>8, <2>6, <3>1, Zenon
  <2>8. rest \o all[curr_list + 1] \in Seq(RowType)
    BY <2>4, <2>5, ConcatProperties
  <2>9. aggregated_datapoints' \o (rest \o all[curr_list + 1]) = all[1]
    <3>1. PICK s \in Seq(RowType), u \in Seq(RowType) :
              s = aggregated_datapoints' /\ u = all[curr_list + 1]
      BY <1>8, <2>5, Zenon
    <3>2. (s \o rest) \o u = s \o (rest \o u)
      BY <2>4, Regroup, Zenon
    <3> QED BY <2>7, <3>1, <3>2, Zenon
  <2> QED BY <1>1, <1>3, <2>1, <2>2, <2>7, <2>8, <2>9, Zenon DEF RowsInv
<1>13. AveragesExist'
  BY <1>1 DEF AveragesExist
<1> QED BY <1>9, <1>10, <1>11, <1>12, <1>13

(* The averages of an empty window end the program: the run has one point. *)
LEMMA DivideByZeroStep ==
    ASSUME AggregateInv, DivideByZero
    PROVE  AggregateInv'
<1> USE DEF AggregateInv
<1>1. /\ phase = "visit" /\ num_nodes = 0 /\ Closes /\ curr_node <= Len(run)
      /\ phase' = "division by zero"
      /\ UNCHANGED <<input_datapoints, curr_list, curr_node, init_time, num_nodes,
                     aggregated, aggregated_datapoints>>
  BY DEF DivideByZero, windowVars
<1>2. run' = run
  BY <1>1 DEF run
<1>3. Len(run) = 1
  BY <1>1, FirstPointCloses
<1>4. DataInv'
  BY <1>1, Zenon DEF DataInv
<1>5. FlagInv'
  <2>1. UNCHANGED compute_RTTC
    BY DEF DivideByZero, windowVars
  <2> QED BY <1>1, <2>1, Zenon DEF FlagInv
<1>6. RowsInv'
  BY <1>1, Zenon DEF RowsInv
<1> QED BY <1>1, <1>2, <1>3, <1>4, <1>5, <1>6 DEF WindowInv, AveragesExist

(* The end of a run: its last point has opened a window, from which on     *)
(* there are no rows.                                                      *)
LEMMA EndRunStep ==
    ASSUME AggregateInv, EndRun
    PROVE  AggregateInv'
<1> USE DEF AggregateInv
<1>1. /\ phase = "visit" /\ curr_node > Len(run) /\ phase' = "run"
      /\ curr_list' = curr_list + 1
      /\ UNCHANGED <<input_datapoints, curr_node, init_time, num_nodes,
                     aggregated, aggregated_datapoints>>
  BY DEF EndRun, windowVars
<1>2. /\ curr_list \in 1..Len(input_datapoints) /\ opening \in 1..Len(run)
      /\ curr_node \in opening..(Len(run) + 1)
      /\ \A j \in (opening + 1)..(curr_node - 1) : ~Ends(run, opening, j)
  BY <1>1 DEF WindowInv
<1>3. run \in Seq(Point) /\ curr_node \in Nat
  BY <1>2, RunOfPoints DEF DataInv
<1>4. opening = Len(run)
  <2>1. curr_node - 1 = Len(run)
    BY <1>1, <1>2, <1>3
  <2>2. Ends(run, opening, Len(run))
    BY DEF Ends
  <2>3. Len(run) \notin (opening + 1)..Len(run)
    BY <1>2, <2>1, <2>2, Zenon
  <2> QED BY <1>2, <1>3, <2>3
<1>5. curr_list + 1 \in 1..(Len(input_datapoints) + 1)
  BY <1>2, LenOfDatabase
<1>6. DataInv'
  BY <1>1, <1>5, Zenon DEF DataInv
<1>7. FlagInv'
  <2>1. UNCHANGED compute_RTTC
    BY DEF EndRun, windowVars
  <2> QED BY <1>1, <2>1, Zenon DEF FlagInv
<1>8. RowsInv'
  <2>1. PICK all : all = RowsOfRuns(input_datapoints)
    OBVIOUS
  <2>2. RowsFrom(run)[opening] = <<>>
    <3>1. run # <<>>
      BY <1>2, <1>3
    <3> QED BY <1>3, <1>4, <3>1, RowsFromUnfolds, Zenon
  <2>3. aggregated_datapoints \o <<>> = aggregated_datapoints
    <3>1. aggregated_datapoints \in Seq(RowType)
      BY DEF DataInv
    <3> QED BY <3>1, ConcatEmptySeq
  <2>4. aggregated_datapoints \o all[curr_list + 1] = all[1]
    BY <1>1, <2>1, <2>2, <2>3, Zenon DEF RowsInv
  <2>5. all[curr_list + 1] \in Seq(RowType)
    BY <1>5, <2>1, RowsOfRunsUnfolds, Zenon DEF DataInv
  <2> QED BY <1>1, <2>1, <2>4, <2>5, Zenon DEF RowsInv
<1> QED BY <1>1, <1>6, <1>7, <1>8 DEF WindowInv, AveragesExist

(* After the last run nothing is to come. *)
LEMMA WriteStep ==
    ASSUME AggregateInv, Write
    PROVE  AggregateInv'
<1> USE DEF AggregateInv
<1>1. /\ phase = "run" /\ curr_list > Len(input_datapoints) /\ phase' = "done"
      /\ UNCHANGED <<input_datapoints, curr_list, curr_node, init_time, num_nodes,
                     aggregated, aggregated_datapoints>>
  BY DEF Write, windowVars
<1>2. curr_list = Len(input_datapoints) + 1
  <2>1. curr_list \in 1..(Len(input_datapoints) + 1) /\ Len(input_datapoints) \in Nat
    BY LenOfDatabase DEF DataInv
  <2> QED BY <1>1, <2>1
<1>3. DataInv'
  BY <1>1, Zenon DEF DataInv
<1>4. FlagInv'
  <2>1. UNCHANGED compute_RTTC
    BY DEF Write, windowVars
  <2> QED BY <1>1, <2>1, Zenon DEF FlagInv
<1>5. RowsInv'
  BY <1>1, <1>2, Zenon DEF RowsInv
<1> QED BY <1>1, <1>3, <1>4, <1>5 DEF WindowInv, AveragesExist

(* The invariant is inductive. *)
LEMMA AggregateInductive == Spec => []AggregateInv
<1>1. Init => AggregateInv
  <2> SUFFICES ASSUME Init PROVE AggregateInv
      OBVIOUS
  <2>1. /\ <<>> \in Seq(Seq(Point)) /\ <<>> \in Seq(RowType) /\ Len(<<>>) = 0
        /\ 1 \in 1..(0 + 1) /\ 0 \in 0..MaxTime
    BY AggregateAssumption
  <2>2. Zeroed \in WindowType
    BY DEF Zeroed, WindowType
  <2>3. DataInv
    <3>1. /\ phase = "read" /\ input_datapoints = <<>> /\ curr_list = 1 /\ curr_node = 1
          /\ init_time = 0 /\ num_nodes = 0 /\ aggregated = Zeroed
          /\ aggregated_datapoints = <<>>
      BY Zenon DEF Init
    <3>2. 1 \in Nat \ {0} /\ 0 \in Nat
      OBVIOUS
    <3> QED BY <2>1, <2>2, <3>1, <3>2, Zenon DEF DataInv
  <2>4. FlagInv /\ WindowInv /\ RowsInv /\ AveragesExist
    BY Zenon DEF Init, FlagInv, WindowInv, RowsInv, AveragesExist
  <2> QED BY <2>3, <2>4 DEF AggregateInv
<1>2. AggregateInv /\ [Next]_vars => AggregateInv'
  <2> SUFFICES ASSUME AggregateInv, [Next]_vars PROVE AggregateInv'
      OBVIOUS
  <2>1. CASE Next
    BY <2>1, ReadStep, StartRunStep, VisitInsideStep, VisitBoundaryStep,
       DivideByZeroStep, EndRunStep, WriteStep DEF Next
  <2>2. CASE UNCHANGED vars
    <3>1. UNCHANGED <<phase, input_datapoints, curr_list, curr_node, init_time, num_nodes,
                      compute_RTTC, aggregated, aggregated_datapoints>>
      BY <2>2 DEF vars, windowVars
    <3>2. run' = run /\ opening' = opening
      BY <3>1, Zenon DEF run, opening
    <3> QED BY <3>1, <3>2, Zenon DEF AggregateInv, DataInv, FlagInv, WindowInv, RowsInv,
                                     AveragesExist
  <2> QED BY <2>1, <2>2
<1> QED BY <1>1, <1>2, PTL DEF Spec

(* What aggregate.c keeps in its cursors, its window and its two lists. *)
THEOREM AggregateTypes == Spec => []TypeOK
<1>1. AggregateInv => TypeOK
  BY Zenon DEF AggregateInv, DataInv, FlagInv, TypeOK
<1> QED BY <1>1, AggregateInductive, PTL

(* aggregate.c:193, for databases of any size and points with any times:   *)
(* every average is over at least one data point, unless a run has a       *)
(* single one.                                                             *)
THEOREM AveragedOverPoints == Spec => []AveragesExist
<1>1. AggregateInv => AveragesExist
  BY DEF AggregateInv
<1> QED BY <1>1, AggregateInductive, PTL

(* What comes before something else is a prefix of both. *)
LEMMA PrefixOfConcat ==
    ASSUME NEW S, NEW s \in Seq(S), NEW t \in Seq(S)
    PROVE  IsPrefix(s, s \o t)
<1>1. /\ Len(s) \in Nat /\ Len(t) \in Nat /\ s \o t \in Seq(S)
      /\ Len(s \o t) = Len(s) + Len(t)
      /\ \A i \in 1..Len(s) : (s \o t)[i] = s[i]
  BY ConcatProperties
<1>2. SubSeq(s, 1, Len(s)) = SubSeq(s \o t, 1, Len(s))
  <2>1. PICK u : u = s \o t
    OBVIOUS
  <2>2. \A i \in 1..Len(s) : s[i] \in S /\ u[i] \in S /\ u[i] = s[i]
    BY <1>1, <2>1
  <2>3. 1 \in Int /\ Len(s) \in Int
    BY <1>1
  <2>4. /\ SubSeq(s, 1, Len(s)) \in Seq(S) /\ SubSeq(u, 1, Len(s)) \in Seq(S)
        /\ Len(SubSeq(s, 1, Len(s))) = Len(s) /\ Len(SubSeq(u, 1, Len(s))) = Len(s)
        /\ \A i \in 1..Len(s) : SubSeq(s, 1, Len(s))[i] = SubSeq(u, 1, Len(s))[i]
    BY <1>1, <2>2
  <2> QED BY <2>1, <2>4, SeqEqual
<1> QED BY <1>1, <1>2 DEF IsPrefix

(* The one pass of aggregate() computes the rows of the reference for      *)
(* every database, whatever the number of runs and points, their times     *)
(* and measures, and the length of a step; and what it has put out when it *)
(* ends early, by a run without points or with a single one, is the        *)
(* beginning of them.                                                      *)
THEOREM RowsOfEveryDatabase == Spec => []RowsAreTheReference
<1>1. AggregateInv => RowsAreTheReference
  <2> SUFFICES ASSUME AggregateInv PROVE RowsAreTheReference
      OBVIOUS
  <2>1. PICK all : all = RowsOfRuns(input_datapoints)
    OBVIOUS
  <2>2. aggregated_datapoints \in Seq(RowType)
    BY DEF AggregateInv, DataInv
  <2>3. ASSUME phase # "read" PROVE IsPrefix(aggregated_datapoints, all[1])
    <3>1. PICK rest \in Seq(RowType) : aggregated_datapoints \o rest = all[1]
      BY <2>1, <2>3, Zenon DEF AggregateInv, RowsInv
    <3>2. IsPrefix(aggregated_datapoints, aggregated_datapoints \o rest)
      BY <2>2, PrefixOfConcat
    <3> QED BY <3>1, <3>2, Zenon
  <2>4. ASSUME phase = "done" PROVE aggregated_datapoints = all[1]
    <3>1. aggregated_datapoints \o all[curr_list] = all[1] /\ all[curr_list] = <<>>
      <4>1. curr_list = Len(input_datapoints) + 1
        BY <2>4 DEF AggregateInv, RowsInv
      <4>2. all[Len(input_datapoints) + 1] = <<>>
        BY <2>1, RowsOfRunsUnfolds, Zenon DEF AggregateInv, DataInv
      <4>3. aggregated_datapoints \o all[curr_list] = all[1]
        BY <2>1, <2>4, Zenon DEF AggregateInv, RowsInv
      <4> QED BY <4>1, <4>2, <4>3, Zenon
    <3>2. aggregated_datapoints \o <<>> = aggregated_datapoints
      BY <2>2, ConcatEmptySeq
    <3> QED BY <3>1, <3>2, Zenon
  <2> QED BY <2>1, <2>3, <2>4, Zenon DEF RowsAreTheReference
<1> QED BY <1>1, AggregateInductive, PTL
=============================================================================
