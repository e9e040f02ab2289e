----------------------------- MODULE MttfProofs -----------------------------
(***************************************************************************)
(* Proofs about Mttf, for any set of communication_threads, any number of  *)
(* data points and any growth of the table.                                *)
(***************************************************************************)
EXTENDS Mttf, SequenceTheorems, FiniteSetTheorems, TLAPS

(* The sample is still to be written: its data point has not arrived, or   *)
(* its thread is about to predict with it.                                 *)
Unborn(x) == \/ x.number > got[x.thread]
             \/ x.number = got[x.thread] /\ tpc[x.thread] = "predict"

(* A thread predicts only with a data point it has received. *)
PredictsInv == \A t \in Thread : tpc[t] = "predict" => got[t] \in Point

(* The sample is in none of the cells, used or not, of either block. *)
InNoCell(x) == /\ \A i \in 1 .. Len(rej_rate) : rej_rate[i] # x
               /\ \A i \in 1 .. Len(copied) : copied[i] # x

(* A sample that is still to be written is nowhere.  Without this a second *)
(* write of the same sample could not be excluded.                         *)
UnbornInv == \A x \in Sample : Unborn(x) => /\ averaged[x] = 0
                                            /\ x \notin summed
                                            /\ InNoCell(x)

(* What the mttf_thread saw without the mutex is still so: only itself     *)
(* resets index_rej_rate.                                                  *)
PolledInv == mpc = "sum" => index_rej_rate # 0

MttfInv == /\ TypeOK /\ PredictsInv /\ UnbornInv /\ PolledInv
           /\ AveragedOnce /\ NeverDividesByZero

Cell == Sample \union {Garbage}

-----------------------------------------------------------------------------
(* What the operations on the cells do. *)

LEMMA CellsNat == \A b \in Nat : Cells(b) \in Nat
BY DEF Cells, SizeofFloat

LEMMA WrittenFacts ==
    ASSUME NEW s \in Seq(Cell), NEW i \in Nat, 1 <= i, i <= Len(s) + 1, NEW x \in Cell
    PROVE  /\ Written(s, i, x) \in Seq(Cell)
           /\ Len(Written(s, i, x)) \in Nat
           /\ Len(s) <= Len(Written(s, i, x)) /\ i <= Len(Written(s, i, x))
           /\ Written(s, i, x)[i] = x
           /\ \A j \in 1 .. Len(Written(s, i, x)) :
                 j # i => j \in 1 .. Len(s) /\ Written(s, i, x)[j] = s[j]
<1>0. Len(s) \in Nat
  BY LenProperties
<1>1. CASE i <= Len(s)
  <2>1. Written(s, i, x) = [s EXCEPT ![i] = x]
    BY <1>1 DEF Written
  <2>2. [s EXCEPT ![i] = x] \in Seq(Cell) /\ Len([s EXCEPT ![i] = x]) = Len(s)
    BY <1>0, <1>1, ExceptSeq
  <2> QED
    BY <1>0, <1>1, <2>1, <2>2
<1>2. CASE ~(i <= Len(s))
  <2>1. Written(s, i, x) = Append(s, x) /\ i = Len(s) + 1
    BY <1>0, <1>2 DEF Written
  <2> QED
    BY <1>0, <2>1, AppendProperties
<1> QED
  BY <1>1, <1>2

(* The section under mttf_mutex adds one sample to those below             *)
(* index_rej_rate, whatever the cells above it still hold.                 *)
LEMMA PredictWrites ==
    ASSUME TypeOK, NEW x \in Sample,
           rej_rate' = Written(rej_rate, index_rej_rate + 1, x),
           index_rej_rate' = index_rej_rate + 1
    PROVE  /\ rej_rate' \in Seq(Cell)
           /\ index_rej_rate' \in 0 .. Len(rej_rate')
           /\ \A j \in 1 .. Len(rej_rate') : \/ rej_rate'[j] = x
                                             \/ j \in 1 .. Len(rej_rate) /\ rej_rate'[j] = rej_rate[j]
           /\ rej_rate'[index_rej_rate + 1] = x
           /\ \A j \in Used : rej_rate'[j] = rej_rate[j]
           /\ Pending' = Pending \union {x}
<1> DEFINE n == index_rej_rate
<1>1. rej_rate \in Seq(Cell) /\ n \in 0 .. Len(rej_rate) /\ n \in Nat /\ Len(rej_rate) \in Nat
  BY LenProperties DEF TypeOK, Cell
<1>2. x \in Cell /\ x # Garbage
  BY GarbageIsNoSample DEF Cell
<1>3. /\ rej_rate' \in Seq(Cell)
      /\ Len(rej_rate') \in Nat
      /\ Len(rej_rate) <= Len(rej_rate') /\ n + 1 <= Len(rej_rate')
      /\ rej_rate'[n + 1] = x
      /\ \A j \in 1 .. Len(rej_rate') :
            j # n + 1 => j \in 1 .. Len(rej_rate) /\ rej_rate'[j] = rej_rate[j]
  <2>1. n + 1 \in Nat /\ 1 <= n + 1 /\ n + 1 <= Len(rej_rate) + 1
    BY <1>1
  <2> DEFINE w == Written(rej_rate, n + 1, x)
  <2>2. /\ w \in Seq(Cell)
        /\ Len(w) \in Nat
        /\ Len(rej_rate) <= Len(w) /\ n + 1 <= Len(w)
        /\ w[n + 1] = x
        /\ \A j \in 1 .. Len(w) : j # n + 1 => j \in 1 .. Len(rej_rate) /\ w[j] = rej_rate[j]
    <3> HIDE DEF n
    <3> QED
      BY <1>1, <1>2, <2>1, WrittenFacts
  <2>3. rej_rate' = w
    OBVIOUS
  <2> HIDE DEF w
  <2> QED
    BY <2>2, <2>3
<1>4. \A j \in 1 .. n : rej_rate'[j] = rej_rate[j]
  BY <1>1, <1>3
<1>5. Used' = Used \union {n + 1} /\ Used = 1 .. n
  BY <1>1 DEF Used
<1>6. Pending' = {rej_rate'[i] : i \in Used'} \ {Garbage}
  BY DEF Pending, SamplesIn
<1>7. \A y : y \in Pending' <=> y \in Pending \/ y = x
  BY <1>2, <1>3, <1>4, <1>5, <1>6 DEF Pending, SamplesIn
<1>8. Pending' = Pending \union {x}
  BY <1>7
<1> QED
  BY <1>1, <1>3, <1>4, <1>5, <1>8

(* The cells that realloc() copies are the first ones of the block. *)
LEMMA GrowCopies ==
    ASSUME TypeOK, NEW g \in Group, Grow(g)
    PROVE  /\ allocated_vms' \in [Group -> Nat] /\ bytes' \in Nat
           /\ copied' \in Seq(Cell) /\ Len(copied') \in Nat
           /\ Len(copied') <= Len(rej_rate) /\ Len(copied') <= Cells(bytes')
           /\ \A i \in 1 .. Len(copied') : copied'[i] = rej_rate[i]
           /\ moving' => \A i \in 1 .. Len(rej_rate) :
                            i <= Cells(bytes) /\ i <= Cells(bytes') => i <= Len(copied')
<1>1. allocated_vms' \in [Group -> Nat] /\ bytes' \in Nat
  <2>1. /\ allocated_vms[g] \in Nat
        /\ allocated_vms' = [allocated_vms EXCEPT ![g] = 2 * allocated_vms[g]]
    BY DEF Grow, TypeOK
  <2>2. allocated_vms'[g] - allocated_vms[g] = allocated_vms[g]
    BY <2>1 DEF TypeOK
  <2>3. SizeofFloat * NUMBER_GROUPS * NUMBER_VMs \in Nat
    BY MttfSizes DEF SizeofFloat
  <2>4. bytes' = SizeofFloat * NUMBER_GROUPS * NUMBER_VMs
                 + allocated_vms'[g] - allocated_vms[g]
    BY DEF Grow
  <2> QED
    BY <2>1, <2>2, <2>3, <2>4 DEF TypeOK
<1>2. Cells(bytes) \in Nat /\ Cells(bytes') \in Nat
  BY <1>1, CellsNat DEF TypeOK
<1>3. rej_rate \in Seq(Cell) /\ Len(rej_rate) \in Nat
  BY LenProperties DEF TypeOK, Cell
<1> DEFINE m == Smaller(Len(rej_rate), Smaller(Cells(bytes), Cells(bytes')))
<1>4. /\ m \in Nat /\ m <= Len(rej_rate) /\ m <= Cells(bytes')
      /\ \A i \in 1 .. Len(rej_rate) : i <= Cells(bytes) /\ i <= Cells(bytes') => i <= m
  BY <1>2, <1>3 DEF Smaller
<1> HIDE DEF m
<1>5. /\ SubSeq(rej_rate, 1, m) \in Seq(Cell) /\ Len(SubSeq(rej_rate, 1, m)) = m
      /\ \A i \in 1 .. m : SubSeq(rej_rate, 1, m)[i] = rej_rate[i]
  BY <1>3, <1>4
<1>6. CASE moving'
  <2>1. copied' = SubSeq(rej_rate, 1, m)
    BY <1>6 DEF Grow, m
  <2> QED
    BY <1>1, <1>3, <1>4, <1>5, <2>1
<1>7. CASE ~moving'
  <2>1. copied' = <<>>
    BY <1>7 DEF Grow
  <2>2. copied' \in Seq(Cell) /\ Len(copied') = 0
    BY <2>1, EmptySeq
  <2> QED
    BY <1>1, <1>2, <1>3, <1>7, <2>2
<1> QED
  BY <1>6, <1>7

(* The new block holds the copy, and nothing of what came after it. *)
LEMMA MovedCells ==
    ASSUME TypeOK, Moved
    PROVE  /\ rej_rate' \in Seq(Cell) /\ index_rej_rate' = index_rej_rate
           /\ Len(rej_rate') \in Nat /\ index_rej_rate <= Len(rej_rate')
           /\ Len(copied) \in Nat /\ Used' = Used
           /\ \A i \in 1 .. Len(rej_rate') :
                 rej_rate'[i] = IF i <= Len(copied) THEN copied[i] ELSE Garbage
           /\ \A i \in Used : i \in 1 .. Len(rej_rate') /\ i \in 1 .. Len(rej_rate)
<1>1. copied \in Seq(Cell) /\ Len(copied) \in Nat /\ Len(rej_rate) \in Nat
  BY LenProperties DEF TypeOK, Cell
<1>2. index_rej_rate \in Nat /\ index_rej_rate <= Len(rej_rate)
  BY <1>1 DEF TypeOK
<1> DEFINE n == Larger(Len(copied), index_rej_rate)
           cell(i) == IF i <= Len(copied) THEN copied[i] ELSE Garbage
<1>3. n \in Nat /\ index_rej_rate <= n
  BY <1>1, <1>2 DEF Larger
<1>4. \A i \in 1 .. n : cell(i) \in Cell
  BY <1>1, <1>3 DEF Cell
<1>5. rej_rate' = [i \in 1 .. n |-> cell(i)]
  BY DEF Moved
<1> HIDE DEF n, cell
<1>6. rej_rate' \in Seq(Cell) /\ Len(rej_rate') = n /\ \A i \in 1 .. n : rej_rate'[i] = cell(i)
  BY <1>3, <1>4, <1>5
<1>7. index_rej_rate' = index_rej_rate /\ Used' = Used
  BY DEF Moved, Used
<1>8. \A i \in Used : i \in 1 .. n /\ i \in 1 .. Len(rej_rate)
  BY <1>1, <1>2, <1>3 DEF Used
<1>9. \A i \in 1 .. Len(rej_rate') :
         rej_rate'[i] = IF i <= Len(copied) THEN copied[i] ELSE Garbage
  BY <1>6 DEF cell
<1> QED
  BY <1>1, <1>3, <1>6, <1>7, <1>8, <1>9

-----------------------------------------------------------------------------
(* The invariant is kept by every step. *)

LEMMA MttfInit == Init => MttfInv
<1> SUFFICES ASSUME Init PROVE MttfInv
  OBVIOUS
<1> USE MttfSizes DEF Init
<1>1. Cells(bytes) \in Nat /\ bytes \in Nat
  <2>1. bytes \in Nat
    BY DEF SizeofFloat
  <2> QED
    BY <2>1, CellsNat
<1>2. TypeOK
  <2>1. /\ rej_rate \in Seq(Sample \union {Garbage}) /\ Len(rej_rate) = 0
        /\ copied \in Seq(Sample \union {Garbage}) /\ Len(copied) = 0
    BY EmptySeq
  <2>2. Len(copied) <= Cells(bytes)
    BY <1>1, <2>1
  <2>3. index_rej_rate \in 0 .. Len(rej_rate)
    BY <2>1
  <2>4. /\ got \in [Thread -> 0 .. MaxPoints]
        /\ current_features \in [Thread -> Features]
        /\ init_features \in [Thread -> Features]
        /\ last_features \in [Thread -> Features]
        /\ flag_init_features \in [Thread -> BOOLEAN]
        /\ last_system_features_stored \in [Thread -> BOOLEAN]
        /\ tpc \in [Thread -> {"recv", "predict", "store"}]
    BY DEF Features
  <2>5. /\ allocated_vms \in [Group -> Nat]
        /\ averaged \in [Sample -> Nat]
        /\ thread_index_rej_rate \in Nat
        /\ mpc \in {"poll", "sum", "divide"}
        /\ summed \subseteq Sample /\ astray \subseteq Sample
    OBVIOUS
  <2>6. moving \in BOOLEAN /\ heap \in {"good", "corrupted", "aborted"}
    OBVIOUS
  <2> QED
    BY <1>1, <2>1, <2>2, <2>3, <2>4, <2>5, <2>6, Zenon DEF TypeOK
<1>3. Used = {} /\ Pending = {}
  BY DEF Pending, SamplesIn, Used
<1>4. \A x \in Sample : InNoCell(x)
  BY EmptySeq DEF InNoCell
<1> QED
  BY <1>2, <1>3, <1>4 DEF MttfInv, PredictsInv, UnbornInv, PolledInv, AveragedOnce,
                          NeverDividesByZero

(* What the samples' places hold does not change; no sample is unborn that *)
(* was not before.                                                         *)
LEMMA PlacesUnchanged ==
    ASSUME MttfInv, UNCHANGED <<averaged, summed, buffer, copied>>, astray \subseteq astray',
           \A x \in Sample : Unborn(x)' => Unborn(x)
    PROVE  UnbornInv' /\ AveragedOnce'
<1>1. UNCHANGED Pending
  BY DEF Pending, SamplesIn, Used, buffer
<1>2. \A x \in Sample : InNoCell(x)' <=> InNoCell(x)
  BY DEF InNoCell, buffer
<1> QED
  BY <1>1, <1>2 DEF MttfInv, UnbornInv, AveragedOnce

LEMMA PendingIsSamples == TypeOK => Pending \subseteq Sample
<1> SUFFICES ASSUME TypeOK PROVE Pending \subseteq Sample
  OBVIOUS
<1>1. \A i \in Used : rej_rate[i] \in Sample \union {Garbage}
  BY LenProperties DEF TypeOK, Used
<1> QED
  BY <1>1 DEF Pending, SamplesIn

(* A data point arrives: it is a new one. *)
LEMMA RecvFeaturesInv ==
    ASSUME MttfInv, NEW t \in Thread, RecvFeatures(t)
    PROVE  MttfInv'
<1> USE DEF MttfInv
<1>1. /\ got[t] \in 0 .. MaxPoints /\ got[t] < MaxPoints
      /\ got' = [got EXCEPT ![t] = got[t] + 1]
      /\ tpc' \in [Thread -> {"recv", "predict", "store"}]
      /\ \A u \in Thread \ {t} : tpc'[u] = tpc[u]
  BY DEF RecvFeatures, TypeOK
<1>2. UNCHANGED <<last_features, last_system_features_stored, buffer, memory, heap, mttf, astray>>
  BY DEF RecvFeatures
<1>3. got' \in [Thread -> 0 .. MaxPoints] /\ got'[t] = got[t] + 1 /\ got'[t] \in Point
  BY <1>1, MttfSizes DEF TypeOK, Point
<1>4. /\ current_features' \in [Thread -> Features]
      /\ init_features' \in [Thread -> Features]
      /\ flag_init_features' \in [Thread -> BOOLEAN]
  BY DEF RecvFeatures, TypeOK, GetFeature
<1>5. TypeOK'
  BY <1>1, <1>2, <1>3, <1>4 DEF TypeOK, buffer, memory, mttf
<1>6. \A x \in Sample : Unborn(x)' => Unborn(x)
  BY <1>1, <1>3, MttfSizes DEF Unborn, Sample, Point, TypeOK
<1>7. UnbornInv' /\ AveragedOnce'
  BY <1>2, <1>6, PlacesUnchanged DEF memory, mttf
<1>8. PredictsInv'
  BY <1>1, <1>3 DEF PredictsInv, TypeOK
<1> QED
  BY <1>2, <1>5, <1>7, <1>8 DEF PolledInv, NeverDividesByZero, buffer, mttf

(* A prediction writes a sample that was nowhere before, wherever its cell *)
(* lies.                                                                   *)
LEMMA PredictInv ==
    ASSUME MttfInv, NEW t \in Thread, Predict(t)
    PROVE  MttfInv'
<1> USE DEF MttfInv
<1>0. PICK x \in Sample : x = [thread |-> t, number |-> got[t]]
  BY DEF Predict, PredictsInv, Sample
<1>1. Unborn(x) /\ x.thread = t /\ x.number = got[t]
  BY <1>0 DEF Predict, Unborn
<1>2. UNCHANGED <<features, memory, mttf>>
  BY DEF Predict
<1>3. /\ rej_rate' \in Seq(Cell) /\ index_rej_rate' \in 0 .. Len(rej_rate')
      /\ \A j \in 1 .. Len(rej_rate') : \/ rej_rate'[j] = x
                                        \/ j \in 1 .. Len(rej_rate) /\ rej_rate'[j] = rej_rate[j]
      /\ Pending' = Pending \union {x}
      /\ index_rej_rate' = index_rej_rate + 1
  BY <1>0, PredictWrites DEF Predict
<1>4. /\ tpc' \in [Thread -> {"recv", "predict", "store"}]
      /\ tpc'[t] # "predict"
      /\ \A u \in Thread : tpc'[u] = "predict" => tpc[u] = "predict"
  BY DEF Predict, TypeOK
<1>5. /\ astray \subseteq astray' /\ astray' \subseteq Sample
      /\ heap' \in {"good", "corrupted", "aborted"}
  BY <1>0 DEF Predict, TypeOK
<1>6. TypeOK'
  BY <1>2, <1>3, <1>4, <1>5 DEF TypeOK, Cell, features, memory, mttf
<1>7. ~Unborn(x)' /\ \A y \in Sample : Unborn(y)' => Unborn(y)
  BY <1>1, <1>2, <1>4, MttfSizes DEF Unborn, Sample, Point, TypeOK, features
<1>8. averaged[x] = 0 /\ x \notin summed /\ x \notin Pending
  <2>1. averaged[x] = 0 /\ x \notin summed /\ InNoCell(x)
    BY <1>1 DEF UnbornInv
  <2>2. \A i \in Used : i \in 1 .. Len(rej_rate)
    BY LenProperties DEF Used, TypeOK
  <2> QED
    BY <2>1, <2>2 DEF InNoCell, Pending, SamplesIn
<1>9. UnbornInv'
  <2> SUFFICES ASSUME NEW y \in Sample, Unborn(y)'
               PROVE  averaged'[y] = 0 /\ y \notin summed' /\ InNoCell(y)'
    BY DEF UnbornInv
  <2>1. y # x /\ averaged[y] = 0 /\ y \notin summed /\ InNoCell(y)
    BY <1>7 DEF UnbornInv
  <2>2. InNoCell(y)'
    BY <1>2, <1>3, <2>1 DEF InNoCell, memory
  <2> QED
    BY <1>2, <2>1, <2>2 DEF mttf
<1>10. AveragedOnce'
  <2> SUFFICES ASSUME NEW y \in Sample \ astray'
               PROVE  (averaged[y] + (IF y \in summed THEN 1 ELSE 0)
                         + (IF y \in Pending' THEN 1 ELSE 0)) <= 1
    BY <1>2 DEF AveragedOnce, mttf
  <2>1. CASE y = x
    BY <1>8, <2>1
  <2>2. CASE y # x
    BY <1>3, <1>5, <2>2 DEF AveragedOnce
  <2> QED
    BY <2>1, <2>2
<1>11. PredictsInv'
  BY <1>2, <1>4 DEF PredictsInv, features
<1>12. PolledInv' /\ NeverDividesByZero'
  BY <1>2, <1>3 DEF PolledInv, NeverDividesByZero, mttf, TypeOK
<1> QED
  BY <1>6, <1>9, <1>10, <1>11, <1>12

LEMMA StoreInv ==
    ASSUME MttfInv, NEW t \in Thread, Store(t)
    PROVE  MttfInv'
<1> USE DEF MttfInv
<1>1. /\ tpc' \in [Thread -> {"recv", "predict", "store"}]
      /\ \A u \in Thread : tpc'[u] = "predict" <=> tpc[u] = "predict"
      /\ UNCHANGED <<got, buffer, memory, heap, mttf, astray>>
  BY DEF Store, TypeOK
<1>2. TypeOK'
  BY <1>1 DEF TypeOK, Store, buffer, memory, mttf
<1>3. \A x \in Sample : Unborn(x)' => Unborn(x)
  BY <1>1 DEF Unborn, Sample
<1>4. UnbornInv' /\ AveragedOnce'
  BY <1>1, <1>3, PlacesUnchanged DEF memory, mttf
<1> QED
  BY <1>1, <1>2, <1>4 DEF PredictsInv, PolledInv, NeverDividesByZero, buffer, mttf

(* The copy that realloc() takes holds nothing that the block does not.    *)
LEMMA GrowInv ==
    ASSUME MttfInv, NEW g \in Group, Grow(g)
    PROVE  MttfInv'
<1> USE DEF MttfInv
<1>1. UNCHANGED <<features, tpc, buffer, heap, mttf>> /\ moving' \in BOOLEAN
  BY DEF Grow
<1>2. /\ allocated_vms' \in [Group -> Nat] /\ bytes' \in Nat
      /\ copied' \in Seq(Cell) /\ Len(copied') \in Nat
      /\ Len(copied') <= Len(rej_rate) /\ Len(copied') <= Cells(bytes')
      /\ \A i \in 1 .. Len(copied') : copied'[i] = rej_rate[i]
  BY GrowCopies
<1>3. astray \subseteq astray' /\ astray' \subseteq Sample
  <2>1. astray' = astray \union SamplesIn(rej_rate, {i \in Used : i > Cells(bytes')})
    BY DEF Grow
  <2>2. SamplesIn(rej_rate, {i \in Used : i > Cells(bytes')}) \subseteq Pending
    BY DEF SamplesIn, Pending
  <2> QED
    BY <2>1, <2>2, PendingIsSamples DEF TypeOK
<1>4. TypeOK'
  BY <1>1, <1>2, <1>3 DEF TypeOK, Cell, features, buffer, mttf
<1>5. \A x \in Sample : (Unborn(x)' <=> Unborn(x)) /\ (InNoCell(x) => InNoCell(x)')
  <2>1. \A x \in Sample : Unborn(x)' <=> Unborn(x)
    BY <1>1 DEF Unborn, features
  <2>2. Len(rej_rate) \in Nat
    BY LenProperties DEF TypeOK
  <2>3. \A x \in Sample : InNoCell(x) => InNoCell(x)'
    BY <1>1, <1>2, <2>2 DEF InNoCell, buffer
  <2> QED
    BY <2>1, <2>3
<1>6. UnbornInv'
  BY <1>1, <1>5 DEF UnbornInv, mttf
<1>7. AveragedOnce'
  <2>1. UNCHANGED Pending
    BY <1>1 DEF Pending, SamplesIn, Used, buffer
  <2> QED
    BY <1>1, <1>3, <2>1 DEF AveragedOnce, mttf
<1> QED
  BY <1>1, <1>4, <1>6, <1>7 DEF PredictsInv, PolledInv, NeverDividesByZero, features, buffer, mttf

(* What a cell gets back when the block has moved goes astray, unless the  *)
(* cell held it all the time.                                              *)
LEMMA MovedInv ==
    ASSUME MttfInv, Moved
    PROVE  MttfInv'
<1> USE DEF MttfInv
<1>1. /\ UNCHANGED <<features, tpc, index_rej_rate, bytes, allocated_vms, heap, mttf>>
      /\ moving' = FALSE /\ copied' = <<>>
  BY DEF Moved
<1>2. /\ rej_rate' \in Seq(Cell)
      /\ Len(rej_rate') \in Nat /\ index_rej_rate <= Len(rej_rate')
      /\ Len(copied) \in Nat /\ Used' = Used
      /\ \A i \in 1 .. Len(rej_rate') :
            rej_rate'[i] = IF i <= Len(copied) THEN copied[i] ELSE Garbage
      /\ \A i \in Used : i \in 1 .. Len(rej_rate') /\ i \in 1 .. Len(rej_rate)
  BY MovedCells
<1> DEFINE back == {i \in Used : i <= Len(copied) /\ copied[i] # rej_rate[i]}
<1>3. astray' = astray \union SamplesIn(copied, back)
  BY DEF Moved
<1>4. \A i \in Used : i <= Len(copied) => copied[i] \in Sample \union {Garbage}
  BY <1>2 DEF TypeOK, Used
<1>5. astray \subseteq astray' /\ astray' \subseteq Sample
  BY <1>3, <1>4 DEF TypeOK, SamplesIn
<1>6. Len(copied') = 0 /\ copied' \in Seq(Sample \union {Garbage}) /\ Cells(bytes) \in Nat
  BY <1>1, EmptySeq, CellsNat DEF TypeOK
<1>7. TypeOK'
  <2>1. index_rej_rate' \in 0 .. Len(rej_rate')
    BY <1>1, <1>2 DEF TypeOK
  <2>2. Len(copied') <= Cells(bytes')
    BY <1>1, <1>6
  <2>3. rej_rate' \in Seq(Sample \union {Garbage})
    BY <1>2 DEF Cell
  <2>4. moving' \in BOOLEAN
    BY <1>1
  <2> QED
    BY <1>1, <1>5, <1>6, <2>1, <2>2, <2>3, <2>4 DEF TypeOK, features, mttf
<1>8. \A x \in Sample : InNoCell(x) => InNoCell(x)'
  <2> SUFFICES ASSUME NEW x \in Sample, InNoCell(x) PROVE InNoCell(x)'
    OBVIOUS
  <2>1. ASSUME NEW i \in 1 .. Len(rej_rate') PROVE rej_rate'[i] # x
    BY <1>2, GarbageIsNoSample DEF InNoCell
  <2> QED
    BY <1>6, <2>1 DEF InNoCell
<1>9. UnbornInv'
  <2>1. \A x \in Sample : Unborn(x)' <=> Unborn(x)
    BY <1>1 DEF Unborn, features
  <2> QED
    BY <1>1, <1>8, <2>1 DEF UnbornInv, mttf
<1>10. \A x \in Sample \ astray' : x \in Pending' => x \in Pending
  <2> SUFFICES ASSUME NEW x \in Sample, x \notin astray', x \in Pending' PROVE x \in Pending
    OBVIOUS
  <2>1. PICK i \in Used : x = rej_rate'[i] /\ x # Garbage
    BY <1>2 DEF Pending, SamplesIn
  <2>2. i <= Len(copied) /\ x = copied[i]
    BY <1>2, <2>1
  <2>3. i \notin back
    BY <1>3, <2>1, <2>2 DEF SamplesIn
  <2> QED
    BY <2>1, <2>2, <2>3 DEF Pending, SamplesIn
<1>11. AveragedOnce'
  <2> SUFFICES ASSUME NEW y \in Sample \ astray'
               PROVE  (averaged[y] + (IF y \in summed THEN 1 ELSE 0)
                         + (IF y \in Pending' THEN 1 ELSE 0)) <= 1
    BY <1>1 DEF AveragedOnce, mttf
  <2>1. averaged[y] \in Nat
    BY DEF TypeOK
  <2> QED
    BY <1>5, <1>10, <2>1 DEF AveragedOnce
<1> QED
  BY <1>1, <1>7, <1>9, <1>11 DEF PredictsInv, PolledInv, NeverDividesByZero, features, mttf

(* What the sum may hold: the samples below index_rej_rate, and, while the *)
(* block moves, samples that are all astray then.                          *)
LEMMA SumReads ==
    ASSUME TypeOK, ReadCells
    PROVE  /\ summed' \subseteq Sample /\ astray \subseteq astray' /\ astray' \subseteq Sample
           /\ summed' \subseteq Pending \union astray'
           /\ moving => Pending \subseteq astray'
           /\ ~moving => astray' = astray
<1>1. PICK lost \in SUBSET {i \in Used : moving \/ i > Cells(bytes)},
           stale \in SUBSET {i \in Used : moving /\ i <= Len(copied)} :
           summed' = SamplesIn(rej_rate, Used \ (lost \union stale))
                     \union SamplesIn(copied, stale)
  BY DEF ReadCells
<1> DEFINE there == {i \in Used : i <= Len(copied)}
<1>2. astray' = astray \union
                (IF moving THEN SamplesIn(rej_rate, Used) \union SamplesIn(copied, there) ELSE {})
  BY DEF ReadCells
<1>3. SamplesIn(rej_rate, Used \ (lost \union stale)) \subseteq Pending
  BY DEF SamplesIn, Pending
<1>4. SamplesIn(copied, there) \subseteq Sample
  <2>1. \A i \in there : copied[i] \in Sample \union {Garbage}
    BY LenProperties DEF TypeOK, Used
  <2> QED
    BY <2>1 DEF SamplesIn
<1>5. /\ SamplesIn(copied, stale) \subseteq SamplesIn(copied, there)
      /\ ~moving => SamplesIn(copied, stale) = {}
  BY <1>1 DEF SamplesIn
<1>6. Pending \subseteq Sample
  BY PendingIsSamples
<1>7. CASE moving
  BY <1>1, <1>2, <1>3, <1>4, <1>5, <1>6, <1>7 DEF Pending, TypeOK
<1>8. CASE ~moving
  BY <1>1, <1>2, <1>3, <1>5, <1>6, <1>8 DEF TypeOK
<1> QED
  BY <1>7, <1>8

(* The samples go from the cells to the sum, all at once. *)
LEMMA SumInv ==
    ASSUME MttfInv, Sum
    PROVE  MttfInv'
<1> USE DEF MttfInv
<1>1. /\ UNCHANGED <<features, tpc, rej_rate, memory, heap, averaged>>
      /\ index_rej_rate' = 0
      /\ thread_index_rej_rate' = index_rej_rate /\ index_rej_rate # 0
      /\ mpc' = "divide"
  BY DEF Sum, PolledInv
<1>2. Pending' = {}
  BY <1>1 DEF Pending, SamplesIn, Used
<1>3. /\ summed' \subseteq Sample /\ astray \subseteq astray' /\ astray' \subseteq Sample
      /\ summed' \subseteq Pending \union astray'
  BY SumReads DEF Sum
<1>4. TypeOK'
  BY <1>1, <1>3, LenProperties DEF TypeOK, features, memory
<1>5. \A x \in Sample : (Unborn(x)' <=> Unborn(x)) /\ (InNoCell(x)' <=> InNoCell(x))
  BY <1>1 DEF Unborn, InNoCell, features, memory
<1>6. \A x \in Sample : Unborn(x) => x \notin summed'
  <2> SUFFICES ASSUME NEW x \in Sample, Unborn(x) PROVE x \notin summed'
    OBVIOUS
  <2>1. InNoCell(x)
    BY DEF UnbornInv
  <2>2. \A i \in Used : i \in 1 .. Len(rej_rate)
    BY LenProperties DEF Used, TypeOK
  <2>3. PICK lost \in SUBSET {i \in Used : moving \/ i > Cells(bytes)},
             stale \in SUBSET {i \in Used : moving /\ i <= Len(copied)} :
             summed' = SamplesIn(rej_rate, Used \ (lost \union stale))
                       \union SamplesIn(copied, stale)
    BY DEF Sum, ReadCells
  <2>4. \A i \in stale : i \in 1 .. Len(copied)
    BY LenProperties DEF Used, TypeOK
  <2> QED
    BY <2>1, <2>2, <2>3, <2>4 DEF InNoCell, SamplesIn
<1>7. UnbornInv'
  BY <1>1, <1>5, <1>6 DEF UnbornInv
<1>8. AveragedOnce'
  <2> SUFFICES ASSUME NEW x \in Sample, x \notin astray'
               PROVE  (averaged[x] + (IF x \in summed' THEN 1 ELSE 0)
                         + (IF x \in Pending' THEN 1 ELSE 0)) <= 1
    BY <1>1 DEF AveragedOnce
  <2>1. /\ averaged[x] \in Nat
        /\ averaged[x] + (IF x \in summed THEN 1 ELSE 0)
                       + (IF x \in Pending THEN 1 ELSE 0) <= 1
    BY <1>3 DEF AveragedOnce, TypeOK
  <2>2. x \in summed' => x \in Pending
    BY <1>3
  <2>3. x \notin Pending'
    BY <1>2
  <2> QED
    BY <2>1, <2>2, <2>3
<1> QED
  BY <1>1, <1>4, <1>7, <1>8 DEF PredictsInv, PolledInv, NeverDividesByZero, features

(* The samples go from the sum into an average. *)
LEMMA ReportInv ==
    ASSUME MttfInv, Report
    PROVE  MttfInv'
<1> USE DEF MttfInv
<1>1. /\ UNCHANGED <<features, tpc, buffer, memory, heap, thread_index_rej_rate, astray>>
      /\ averaged' = [x \in Sample |-> averaged[x] + (IF x \in summed THEN 1 ELSE 0)]
      /\ summed' = {} /\ mpc' = "poll"
  BY DEF Report
<1>2. UNCHANGED Pending
  BY <1>1 DEF Pending, SamplesIn, Used, buffer
<1>3. averaged' \in [Sample -> Nat]
  BY <1>1 DEF TypeOK
<1>4. TypeOK'
  BY <1>1, <1>3 DEF TypeOK, features, buffer, memory
<1>5. \A x \in Sample : (Unborn(x)' <=> Unborn(x)) /\ (InNoCell(x)' <=> InNoCell(x))
  BY <1>1 DEF Unborn, InNoCell, features, buffer, memory
<1>6. UnbornInv'
  BY <1>1, <1>5 DEF UnbornInv
<1>7. AveragedOnce'
  BY <1>1, <1>2 DEF AveragedOnce, TypeOK
<1> QED
  BY <1>1, <1>4, <1>6, <1>7 DEF PredictsInv, PolledInv, NeverDividesByZero, features

LEMMA MttfNext == MttfInv /\ [Next]_vars => MttfInv'
<1> SUFFICES ASSUME MttfInv, [Next]_vars PROVE MttfInv'
  OBVIOUS
<1>1. CASE Poll
  <2>1. TypeOK'
    BY <1>1 DEF Poll, MttfInv, TypeOK, features, buffer, memory
  <2>2. UnbornInv' /\ AveragedOnce'
    BY <1>1, PlacesUnchanged DEF Poll, Unborn, features, memory
  <2> QED
    BY <1>1, <2>1, <2>2 DEF Poll, MttfInv, PredictsInv, PolledInv,
                            NeverDividesByZero, features, buffer
<1>2. CASE UNCHANGED vars
  <2>1. TypeOK'
    BY <1>2 DEF MttfInv, TypeOK, vars, features, buffer, memory, mttf
  <2>2. UnbornInv' /\ AveragedOnce'
    BY <1>2, PlacesUnchanged DEF vars, Unborn, features, memory, mttf
  <2> QED
    BY <1>2, <2>1, <2>2 DEF MttfInv, PredictsInv, PolledInv, NeverDividesByZero, vars,
                            features, buffer, mttf
<1>3. CASE Abort
  <2>1. TypeOK'
    BY <1>3 DEF Abort, MttfInv, TypeOK, features, buffer, memory, mttf
  <2>2. UnbornInv' /\ AveragedOnce'
    BY <1>3, PlacesUnchanged DEF Abort, Unborn, features, memory, mttf
  <2> QED
    BY <1>3, <2>1, <2>2 DEF Abort, MttfInv, PredictsInv, PolledInv, NeverDividesByZero,
                            features, buffer, mttf
<1> QED
  BY <1>1, <1>2, <1>3, RecvFeaturesInv, PredictInv, StoreInv, GrowInv, MovedInv, SumInv,
     ReportInv DEF Next, Main, MttfThread

LEMMA MttfInductive == Spec => []MttfInv
BY MttfInit, MttfNext, PTL DEF Spec

(* The state of the threads and of rej_rate has its type: in particular    *)
(* the cells below index_rej_rate are written, and a block that moves is   *)
(* copied within the bounds of the new one.                                *)
THEOREM MttfTypes == Spec => []TypeOK
BY MttfInductive, PTL DEF MttfInv

(* Whatever the communication_threads and main do between the              *)
(* mttf_thread's test and its locked section, a sample that was written    *)
(* inside the memory, and not in reach of a moving block, is averaged at   *)
(* most once, and none that was averaged waits in rej_rate again.          *)
THEOREM SamplesAveragedOnce == Spec => []AveragedOnce
BY MttfInductive, PTL DEF MttfInv

(* The number of samples that the mttf_thread divides by is never zero.    *)
THEOREM DivisorNotZero == Spec => []NeverDividesByZero
BY MttfInductive, PTL DEF MttfInv

-----------------------------------------------------------------------------
(* No other sample is lost on its way to an average, and the average is    *)
(* one.                                                                    *)

Gone(v) == v \in astray \/ v = Garbage

(* A used cell outside the memory holds nothing but what went astray; and  *)
(* while the block moves a used cell has been copied as it is, or what it  *)
(* holds went astray.                                                      *)
OutsideInv == ~moving => \A i \in Used : i > Cells(bytes) => Gone(rej_rate[i])
CopyInv == moving => \A i \in Used : \/ i <= Len(copied) /\ copied[i] = rej_rate[i]
                                     \/ Gone(rej_rate[i])

PlaceInv == OutsideInv /\ CopyInv

(* What a step of a communication_thread does to the samples. *)
LEMMA PredictAdds ==
    ASSUME MttfInv, NEW t \in Thread, Predict(t)
    PROVE  \E x \in Sample : /\ x \notin Pending /\ Pending' = Pending \union {x}
                             /\ rej_rate'[index_rej_rate + 1] = x
                             /\ \A j \in Used : rej_rate'[j] = rej_rate[j]
                             /\ moving \/ index_rej_rate + 1 > Cells(bytes) => x \in astray'
<1> USE DEF MttfInv
<1>1. PICK x \in Sample : x = [thread |-> t, number |-> got[t]]
  BY DEF Predict, PredictsInv, Sample
<1>2. InNoCell(x)
  BY <1>1 DEF Predict, Unborn, UnbornInv
<1>3. \A i \in Used : i \in 1 .. Len(rej_rate)
  BY LenProperties DEF Used, TypeOK
<1>4. x \notin Pending
  BY <1>2, <1>3 DEF InNoCell, Pending, SamplesIn
<1>5. /\ Pending' = Pending \union {x}
      /\ rej_rate'[index_rej_rate + 1] = x
      /\ \A j \in Used : rej_rate'[j] = rej_rate[j]
  BY <1>1, PredictWrites DEF Predict
<1>6. moving \/ index_rej_rate + 1 > Cells(bytes) => x \in astray'
  BY <1>1 DEF Predict
<1> QED
  BY <1>4, <1>5, <1>6

(* The steps that leave every sample where it is, and the blocks. *)
Others == /\ [Next]_vars
          /\ \A t \in Thread : ~Predict(t)
          /\ \A g \in Group : ~Grow(g)
          /\ ~Moved /\ ~Sum /\ ~Report

LEMMA SamplesStay ==
    ASSUME Others
    PROVE  /\ UNCHANGED <<buffer, Pending, Used, memory, astray>>
           /\ UNCHANGED <<thread_index_rej_rate, summed, averaged>>
           /\ mpc' = mpc \/ (mpc = "poll" /\ mpc' = "sum")
<1> USE DEF Others
<1>1. ASSUME NEW t \in Thread, RecvFeatures(t) \/ Store(t)
      PROVE  UNCHANGED <<buffer, memory, mttf, astray>>
  BY <1>1 DEF RecvFeatures, Store
<1>2. CASE Abort
  BY <1>2 DEF Abort, Pending, SamplesIn, Used, buffer, memory, mttf
<1>3. CASE UNCHANGED vars
  BY <1>3 DEF vars, Pending, SamplesIn, Used, buffer, memory, mttf
<1>4. CASE Poll
  BY <1>4 DEF Poll, Pending, SamplesIn, Used, buffer, memory
<1> QED
  BY <1>1, <1>2, <1>3, <1>4 DEF Next, Main, MttfThread, Pending, SamplesIn, Used, buffer,
                                memory, mttf

(* A step of main that starts to reallocate. *)
LEMMA GrowStays ==
    ASSUME NEW g \in Group, Grow(g)
    PROVE  UNCHANGED <<buffer, Pending, Used, mttf>> /\ astray \subseteq astray' /\ ~moving
BY DEF Grow, Pending, SamplesIn, Used, buffer

LEMMA PlaceStep ==
    ASSUME MttfInv, PlaceInv, [Next]_vars
    PROVE  PlaceInv'
<1> USE DEF MttfInv
<1>0. index_rej_rate \in Nat /\ Len(rej_rate) \in Nat /\ index_rej_rate <= Len(rej_rate)
  BY LenProperties DEF TypeOK
<1>1. ASSUME NEW t \in Thread, Predict(t) PROVE PlaceInv'
  <2>1. PICK x \in Sample : /\ x \notin Pending /\ Pending' = Pending \union {x}
                            /\ rej_rate'[index_rej_rate + 1] = x
                            /\ \A j \in Used : rej_rate'[j] = rej_rate[j]
                            /\ moving \/ index_rej_rate + 1 > Cells(bytes) => x \in astray'
    BY <1>1, PredictAdds
  <2>2. /\ UNCHANGED memory /\ astray \subseteq astray'
        /\ index_rej_rate' = index_rej_rate + 1
    BY <1>1 DEF Predict
  <2>3. \A i \in Used' : i \in Used \/ i = index_rej_rate + 1
    BY <1>0, <2>2 DEF Used
  <2>4. OutsideInv'
    BY <2>1, <2>2, <2>3 DEF PlaceInv, OutsideInv, Gone, memory
  <2>5. CopyInv'
    BY <2>1, <2>2, <2>3 DEF PlaceInv, CopyInv, Gone, memory
  <2> QED
    BY <2>4, <2>5 DEF PlaceInv
<1>2. ASSUME NEW g \in Group, Grow(g) PROVE PlaceInv'
  <2>1. /\ UNCHANGED <<buffer, Used>> /\ astray \subseteq astray' /\ ~moving
        /\ astray' = astray \union SamplesIn(rej_rate, {i \in Used : i > Cells(bytes')})
    BY <1>2, GrowStays DEF Grow
  <2>2. /\ Len(copied') \in Nat
        /\ \A i \in 1 .. Len(copied') : copied'[i] = rej_rate[i]
        /\ moving' => \A i \in 1 .. Len(rej_rate) :
                         i <= Cells(bytes) /\ i <= Cells(bytes') => i <= Len(copied')
        /\ bytes' \in Nat
    BY <1>2, GrowCopies
  <2>3. Cells(bytes) \in Nat /\ Cells(bytes') \in Nat
    BY <2>2, CellsNat DEF TypeOK
  <2>4. ASSUME NEW i \in Used, i > Cells(bytes') PROVE Gone(rej_rate[i])'
    BY <2>1, <2>4 DEF SamplesIn, Gone, buffer
  <2>5. ASSUME NEW i \in Used, i > Cells(bytes) PROVE Gone(rej_rate[i])'
    BY <2>1, <2>5 DEF PlaceInv, OutsideInv, Gone, buffer
  <2>6. OutsideInv'
    BY <2>1, <2>4 DEF OutsideInv
  <2>7. CopyInv'
    <3> SUFFICES ASSUME moving', NEW i \in Used, ~Gone(rej_rate[i])'
                 PROVE  i <= Len(copied') /\ copied'[i] = rej_rate'[i]
      BY <2>1 DEF CopyInv
    <3>1. i \in 1 .. Len(rej_rate) /\ i <= Cells(bytes) /\ i <= Cells(bytes')
      BY <1>0, <2>3, <2>4, <2>5 DEF Used
    <3> QED
      BY <2>1, <2>2, <3>1 DEF buffer
  <2> QED
    BY <2>6, <2>7 DEF PlaceInv
<1>3. CASE Moved
  <2>1. /\ Used' = Used /\ Len(copied) \in Nat
        /\ \A i \in 1 .. Len(rej_rate') :
              rej_rate'[i] = IF i <= Len(copied) THEN copied[i] ELSE Garbage
        /\ \A i \in Used : i \in 1 .. Len(rej_rate')
    BY <1>3, MovedCells
  <2>2. ~moving' /\ bytes' = bytes /\ Cells(bytes) \in Nat /\ Len(copied) <= Cells(bytes)
    BY <1>3, CellsNat DEF Moved, TypeOK
  <2>3. ASSUME NEW i \in Used, i > Cells(bytes) PROVE rej_rate'[i] = Garbage
    BY <2>1, <2>2, <2>3
  <2> QED
    BY <2>1, <2>2, <2>3 DEF PlaceInv, OutsideInv, CopyInv, Gone
<1>4. CASE Sum
  <2>1. Used' = {}
    BY <1>4 DEF Sum, Used
  <2> QED
    BY <2>1 DEF PlaceInv, OutsideInv, CopyInv
<1>5. CASE Report
  BY <1>5 DEF Report, PlaceInv, OutsideInv, CopyInv, Gone, Used, buffer, memory
<1>6. CASE Others
  BY <1>6, SamplesStay DEF PlaceInv, OutsideInv, CopyInv, Gone, buffer, memory
<1> QED
  BY <1>1, <1>2, <1>3, <1>4, <1>5, <1>6 DEF Others

LEMMA PlaceInductive == Spec => []PlaceInv
<1>1. Init => PlaceInv
  BY DEF Init, PlaceInv, OutsideInv, CopyInv, Used
<1> QED
  BY <1>1, PlaceStep, MttfInductive, PTL DEF Spec

(* As long as no sample went astray, those below index_rej_rate are as     *)
(* many as it says, although a reset of index_rej_rate leaves the old ones *)
(* in the cells above it, and the mttf_thread's sum holds as many as it    *)
(* divides by.  It holds samples only between its two sections.            *)
CountInv == /\ mpc # "divide" => summed = {}
            /\ astray = {} => /\ \A i \in Used : rej_rate[i] # Garbage
                              /\ IsFiniteSet(Pending) /\ Cardinality(Pending) = index_rej_rate
            /\ astray = {} /\ mpc = "divide" =>
                  IsFiniteSet(summed) /\ Cardinality(summed) = thread_index_rej_rate

(* With no sample astray a block that moves keeps every used cell. *)
LEMMA MovedKeepsAll ==
    ASSUME MttfInv, PlaceInv, CountInv, Moved, astray = {}
    PROVE  UNCHANGED <<Used, Pending>> /\ \A i \in Used : rej_rate'[i] = rej_rate[i]
<1>1. /\ Used' = Used
      /\ \A i \in 1 .. Len(rej_rate') :
            rej_rate'[i] = IF i <= Len(copied) THEN copied[i] ELSE Garbage
      /\ \A i \in Used : i \in 1 .. Len(rej_rate')
  BY MovedCells DEF MttfInv
<1>2. \A i \in Used : rej_rate[i] # Garbage
  BY DEF CountInv
<1>3. \A i \in Used : i <= Len(copied) /\ copied[i] = rej_rate[i]
  BY <1>2 DEF PlaceInv, CopyInv, Gone, Moved
<1>4. \A i \in Used : rej_rate'[i] = rej_rate[i]
  BY <1>1, <1>3
<1> QED
  BY <1>1, <1>4 DEF Pending, SamplesIn

LEMMA CountStep ==
    ASSUME MttfInv, PlaceInv, CountInv, [Next]_vars
    PROVE  CountInv'
<1> USE DEF MttfInv
<1>0. index_rej_rate \in Nat
  BY LenProperties DEF TypeOK
<1>1. ASSUME NEW t \in Thread, Predict(t) PROVE CountInv'
  <2>1. PICK x \in Sample : /\ x \notin Pending /\ Pending' = Pending \union {x}
                            /\ rej_rate'[index_rej_rate + 1] = x
                            /\ \A j \in Used : rej_rate'[j] = rej_rate[j]
                            /\ moving \/ index_rej_rate + 1 > Cells(bytes) => x \in astray'
    BY <1>1, PredictAdds
  <2>2. /\ UNCHANGED mttf /\ astray \subseteq astray'
        /\ index_rej_rate' = index_rej_rate + 1
    BY <1>1 DEF Predict
  <2>3. \A i \in Used' : i \in Used \/ i = index_rej_rate + 1
    BY <1>0, <2>2 DEF Used
  <2>4. ASSUME astray' = {}
        PROVE  /\ \A i \in Used' : rej_rate'[i] # Garbage
               /\ IsFiniteSet(Pending') /\ Cardinality(Pending') = index_rej_rate'
    <3>1. /\ \A i \in Used : rej_rate[i] # Garbage
          /\ IsFiniteSet(Pending) /\ Cardinality(Pending) = index_rej_rate
      BY <2>2, <2>4 DEF CountInv
    <3>2. /\ IsFiniteSet(Pending \union {x})
          /\ Cardinality(Pending \union {x}) = Cardinality(Pending) + 1
      BY <2>1, <3>1, FS_AddElement
    <3>3. \A i \in Used' : rej_rate'[i] # Garbage
      BY <2>1, <2>3, <3>1, GarbageIsNoSample
    <3> QED
      BY <2>1, <2>2, <3>1, <3>2, <3>3
  <2>5. astray' = {} => astray = {}
    BY <2>2
  <2> QED
    BY <2>2, <2>4, <2>5 DEF CountInv, mttf
<1>2. ASSUME NEW g \in Group, Grow(g) PROVE CountInv'
  <2>1. UNCHANGED <<buffer, Pending, Used, mttf>> /\ astray \subseteq astray'
    BY <1>2, GrowStays
  <2>2. astray' = {} => astray = {}
    BY <2>1
  <2> QED
    BY <2>1, <2>2 DEF CountInv, buffer, mttf
<1>3. CASE Moved
  <2>1. UNCHANGED <<index_rej_rate, mttf>> /\ astray \subseteq astray'
    BY <1>3 DEF Moved
  <2>2. astray' = {} => /\ astray = {} /\ UNCHANGED <<Used, Pending>>
                        /\ \A i \in Used : rej_rate'[i] = rej_rate[i]
    BY <1>3, <2>1, MovedKeepsAll
  <2> QED
    BY <2>1, <2>2 DEF CountInv, mttf
<1>4. CASE Sum
  <2>1. /\ index_rej_rate' = 0 /\ mpc' = "divide" /\ index_rej_rate # 0
        /\ thread_index_rej_rate' = index_rej_rate
    BY <1>4 DEF Sum, PolledInv
  <2>2. Used' = {} /\ Pending' = {}
    BY <2>1 DEF Pending, SamplesIn, Used
  <2>3. ASSUME astray' = {}
        PROVE  IsFiniteSet(summed') /\ Cardinality(summed') = thread_index_rej_rate'
    <3>1. astray \subseteq astray' /\ (moving => Pending \subseteq astray')
      BY <1>4, SumReads DEF Sum
    <3>2. /\ \A i \in Used : rej_rate[i] # Garbage
          /\ IsFiniteSet(Pending) /\ Cardinality(Pending) = index_rej_rate
      BY <2>3, <3>1 DEF CountInv
    <3>3. ~moving
      <4>1. Pending # {}
        BY <2>1, <3>2, FS_EmptySet
      <4> QED
        BY <2>3, <3>1, <4>1
    <3>4. \A i \in Used : ~(moving \/ i > Cells(bytes))
      BY <2>3, <3>1, <3>2, <3>3 DEF PlaceInv, OutsideInv, Gone
    <3>5. PICK lost \in SUBSET {i \in Used : moving \/ i > Cells(bytes)},
               stale \in SUBSET {i \in Used : moving /\ i <= Len(copied)} :
               summed' = SamplesIn(rej_rate, Used \ (lost \union stale))
                         \union SamplesIn(copied, stale)
      BY <1>4 DEF Sum, ReadCells
    <3>6. lost = {} /\ stale = {}
      BY <3>3, <3>4
    <3>7. summed' = Pending
      BY <3>5, <3>6 DEF SamplesIn, Pending
    <3> QED
      BY <2>1, <3>2, <3>7
  <2> QED
    BY <2>1, <2>2, <2>3, FS_EmptySet DEF CountInv
<1>5. CASE Report
  <2>1. UNCHANGED <<buffer, astray>> /\ summed' = {} /\ mpc' = "poll"
    BY <1>5 DEF Report
  <2>2. UNCHANGED <<Pending, Used>>
    BY <2>1 DEF Pending, SamplesIn, Used, buffer
  <2> QED
    BY <2>1, <2>2 DEF CountInv, buffer
<1>6. CASE Others
  BY <1>6, SamplesStay DEF CountInv, buffer
<1> QED
  BY <1>1, <1>2, <1>3, <1>4, <1>5, <1>6 DEF Others

LEMMA CountInductive == Spec => []CountInv
<1>1. Init => CountInv
  <2> SUFFICES ASSUME Init PROVE CountInv
    OBVIOUS
  <2>1. Pending = {} /\ Used = {}
    BY DEF Init, Pending, SamplesIn, Used
  <2> QED
    BY <2>1, FS_EmptySet DEF Init, CountInv
<1> QED
  BY <1>1, CountStep, PlaceInductive, MttfInductive, PTL DEF Spec

(* The mttf_thread divides by the number of samples in its sum, as long as *)
(* no sample went astray.                                                  *)
DividesByTheirNumber ==
    astray = {} /\ mpc = "divide" => Cardinality(summed) = thread_index_rej_rate

(* What mttf_thread prints is the mean of the samples it has summed, until *)
(* a sample is written outside the memory or in reach of a moving block:   *)
(* it copies index_rej_rate in the section in which it sums, every cell    *)
(* below it was written since the last reset, by a different prediction,   *)
(* and a block that moves keeps them.                                      *)
THEOREM AverageIsTheMean == Spec => []DividesByTheirNumber
<1>1. CountInv => DividesByTheirNumber
  BY DEF CountInv, DividesByTheirNumber
<1> QED
  BY <1>1, CountInductive, PTL

(* A sample is somewhere: in a cell, in the sum, or in an average. *)
Kept(x) == x \in Pending \/ x \in summed \/ averaged[x] > 0

NoSampleDropped == [][\A x \in Sample : Kept(x) => Kept(x)' \/ x \in astray']_vars

(* A sample is lost only by being written outside the memory, by a smaller *)
(* block that cuts its cell off, or in reach of a block that moves: by no  *)
(* append that overwrites the cell of a sample not yet summed, no reset of *)
(* index_rej_rate before the sum is taken, no second sum that starts from  *)
(* zero before the first was printed, and by no growth of the table that   *)
(* neither writes nor sums fall into.  Together with AveragedOnce, a       *)
(* sample that did not go astray is in exactly one place.                  *)
THEOREM SamplesNotLost == Spec => NoSampleDropped
<1>1. ASSUME MttfInv, PlaceInv, CountInv, [Next]_vars, NEW x \in Sample, Kept(x), x \notin astray'
      PROVE  Kept(x)'
  <2> USE <1>1
  <2>0. x # Garbage
    BY GarbageIsNoSample
  <2>1. ASSUME NEW t \in Thread, Predict(t) PROVE Kept(x)'
    <3>1. Pending \subseteq Pending'
      BY <2>1, PredictAdds
    <3> QED
      BY <2>1, <3>1 DEF Kept, Predict, mttf
  <2>2. ASSUME NEW g \in Group, Grow(g) PROVE Kept(x)'
    BY <2>2, GrowStays DEF Kept, mttf
  <2>3. CASE Moved
    <3>1. /\ moving /\ UNCHANGED mttf /\ astray \subseteq astray'
      BY <2>3 DEF Moved
    <3>2. ASSUME x \in Pending PROVE x \in Pending'
      <4>1. PICK i \in Used : x = rej_rate[i]
        BY <3>2 DEF Pending, SamplesIn
      <4>2. i <= Len(copied) /\ copied[i] = x
        BY <2>0, <3>1, <4>1 DEF PlaceInv, CopyInv, Gone
      <4>3. i \in Used' /\ rej_rate'[i] = x
        BY <2>3, <4>1, <4>2, MovedCells DEF MttfInv
      <4> QED
        BY <2>0, <4>3 DEF Pending, SamplesIn
    <3> QED
      BY <3>1, <3>2 DEF Kept, mttf
  <2>4. CASE Sum
    <3>1. averaged' = averaged /\ summed = {} /\ ReadCells
      BY <2>4 DEF Sum, CountInv
    <3>2. ASSUME x \in Pending PROVE x \in summed'
      <4>1. PICK i \in Used : x = rej_rate[i]
        BY <3>2 DEF Pending, SamplesIn
      <4>2. ~moving /\ astray \subseteq astray'
        BY <3>1, <3>2, SumReads DEF MttfInv
      <4>3. ~(i > Cells(bytes))
        BY <2>0, <4>1, <4>2 DEF PlaceInv, OutsideInv, Gone
      <4>4. PICK lost \in SUBSET {j \in Used : moving \/ j > Cells(bytes)},
                 stale \in SUBSET {j \in Used : moving /\ j <= Len(copied)} :
                 summed' = SamplesIn(rej_rate, Used \ (lost \union stale))
                           \union SamplesIn(copied, stale)
        BY <3>1 DEF ReadCells
      <4>5. i \in Used \ (lost \union stale)
        BY <4>2, <4>3, <4>4
      <4> QED
        BY <2>0, <4>1, <4>4, <4>5 DEF SamplesIn
    <3> QED
      BY <3>1, <3>2 DEF Kept
  <2>5. CASE Report
    <3>1. /\ averaged'[x] = averaged[x] + (IF x \in summed THEN 1 ELSE 0)
          /\ UNCHANGED Pending /\ averaged[x] \in Nat
      BY <2>5 DEF Report, Pending, SamplesIn, Used, buffer, MttfInv, TypeOK
    <3> QED
      BY <3>1 DEF Kept
  <2>6. CASE Others
    BY <2>6, SamplesStay DEF Kept
  <2> QED
    BY <2>1, <2>2, <2>3, <2>4, <2>5, <2>6 DEF Others
<1>2. MttfInv /\ PlaceInv /\ CountInv /\ [Next]_vars
        => [\A x \in Sample : Kept(x) => Kept(x)' \/ x \in astray']_vars
  BY <1>1
<1> QED
  BY <1>2, MttfInductive, PlaceInductive, CountInductive, PTL DEF Spec, NoSampleDropped
=============================================================================
