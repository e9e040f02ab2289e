---------------------------- MODULE LeaderProofs ----------------------------
(***************************************************************************)
(* Proofs about Leader, for any number of controllers, any of them         *)
(* running, any number of proposals per round and any faults.              *)
(***************************************************************************)
EXTENDS Leader, WellFoundedInduction, TLAPS

(* From suspect_leader to the reduction there is no leader. *)
ElectionInv ==
    \A n \in Running :
        agreement_running[n] \/ leaderPc[n] \in {"elect", "propose"} =>
            leader_socket[n] = NoSocket

(* broadcast_loop sends only what broadcast() has stored. *)
StoredInv ==
    \A n \in Running :
        \/ new_bcast_message[n] \/ my_new_bcast_message[n] \/ loopPc[n] = "bcast"
        => msg_temp[n] \in Types

Written(n, i) == /\ leader_proposals[n][i] \in Controllers
                 /\ leader_proposals_sockets[n][i] \in Controllers

(* What the reduction reads has been written, even in a round opened while *)
(* leader_propose is between two of its stores: the cells below the count  *)
(* it has read were written before, the reset only lowers the cell it      *)
(* writes next to one of them, and if the count is stored before the value *)
(* only the value of the last cell is missing, not its socket.             *)
WrittenOf(n) ==
    /\ loopPc[n] # "value" => \A i \in 0 .. (last_proposal[n] - 1) : Written(n, i)
    /\ loopPc[n] = "read" =>
          /\ last_proposal[n] < MaxProposals
          /\ msg[n].src \in Controllers
          /\ leader_proposals_sockets[n][last_proposal[n]] \in Controllers
    /\ loopPc[n] \in {"both", "value", "count"} =>
          /\ counted[n] < MaxProposals
          /\ last_proposal[n] <= counted[n] + 1
          /\ msg[n].src \in Controllers
          /\ leader_proposals_sockets[n][counted[n]] \in Controllers
          /\ \A i \in 0 .. (counted[n] - 1) : Written(n, i)
    /\ loopPc[n] = "both" => last_proposal[n] <= counted[n]
    /\ loopPc[n] = "count" => leader_proposals[n][counted[n]] \in Controllers

WrittenInv == \A n \in Running : WrittenOf(n)

Same(n, i) == leader_proposals_sockets[n][i] = leader_proposals[n][i]

(* The cells that are counted and written. *)
Cells(n) == IF loopPc[n] = "value" THEN 0 .. (counted[n] - 1)
                                   ELSE 0 .. (last_proposal[n] - 1)

(* Unless it was opened between two stores, a round holds what was heard   *)
(* since then and nothing else, each value with its socket; a proposal     *)
(* that is counted before its value is stored is still to come.            *)
RoundOf(n) ==
    ~torn[n] =>
        /\ \A v \in heard[n] : \/ \E i \in Cells(n) : leader_proposals[n][i] = v
                               \/ loopPc[n] = "value" /\ v = msg[n].src
        /\ \A i \in Cells(n) : leader_proposals[n][i] \in heard[n] /\ Same(n, i)
        /\ loopPc[n] = "read" =>
              leader_proposals_sockets[n][last_proposal[n]] = msg[n].src
        /\ loopPc[n] \in {"both", "value", "count"} =>
              leader_proposals_sockets[n][counted[n]] = msg[n].src
        /\ loopPc[n] \in {"both", "count"} => last_proposal[n] = counted[n]
        /\ loopPc[n] = "value" =>
              last_proposal[n] = counted[n] + 1 /\ msg[n].src \in heard[n]
        /\ loopPc[n] = "count" => leader_proposals[n][counted[n]] = msg[n].src

RoundInv == \A n \in Running : RoundOf(n)

(* The controllers below do_bcast's index have the message, if it was      *)
(* stored before do_bcast began.                                           *)
SentInv ==
    \A n \in Running :
        /\ loopPc[n] # "bcast" => index[n] = 1
        /\ ~overtaken[n] => \A i \in 1 .. (index[n] - 1) : i \in sent[n]

LeaderInv == TypeOK /\ ElectionInv /\ StoredInv /\ WrittenInv /\ RoundInv

-----------------------------------------------------------------------------
(* The least and the greatest of a set.                                    *)

LEMMA LeastExists ==
    ASSUME NEW S \in SUBSET Nat, S # {}
    PROVE  \E x \in S : \A y \in S : x <= y
<1>1. PICK x \in S : \A y \in S : ~ (<<y, x>> \in OpToRel(<, Nat))
  BY NatLessThanWellFounded, WFMin
<1>2. \A y \in S : ~ (y < x)
  BY <1>1 DEF OpToRel
<1> QED
  BY <1>2

LEMMA MinProperties ==
    ASSUME NEW S \in SUBSET Nat, S # {}
    PROVE  Min(S) \in S /\ \A y \in S : Min(S) <= y
BY LeastExists DEF Min

LEMMA GreatestExists ==
    ASSUME NEW S \in SUBSET Controllers, S # {}
    PROVE  \E x \in S : \A y \in S : x >= y
<1> DEFINE T == {N - x : x \in S}
<1>1. T \in SUBSET Nat /\ T # {}
  BY NAssumption DEF Controllers
<1>2. PICK t \in T : \A u \in T : t <= u
  BY <1>1, LeastExists
<1>3. PICK x \in S : t = N - x
  BY <1>2
<1>4. ASSUME NEW y \in S PROVE x >= y
  <2>1. N - x <= N - y
    BY <1>2, <1>3
  <2> QED
    BY <2>1, NAssumption DEF Controllers
<1> QED
  BY <1>4

LEMMA MaxProperties ==
    ASSUME NEW S \in SUBSET Controllers, S # {}
    PROVE  Max(S) \in S /\ \A y \in S : Max(S) >= y
BY GreatestExists DEF Max

LEMMA MaxIs ==
    ASSUME NEW S \in SUBSET Controllers, NEW x \in S, \A y \in S : y <= x
    PROVE  Max(S) = x
<1>1. Max(S) \in S /\ Max(S) >= x /\ Max(S) <= x
  BY MaxProperties
<1>2. \A y \in Controllers : y >= x /\ y <= x => y = x
  BY NAssumption DEF Controllers
<1> QED
  BY <1>1, <1>2

-----------------------------------------------------------------------------
LEMMA LeaderInit == Init => LeaderInv
<1> SUFFICES ASSUME Init PROVE LeaderInv
  OBVIOUS
<1> USE NAssumption, MaxProposalsAssumption DEF Init
<1>1. TypeOK
  BY DEF TypeOK, Controllers, Slots, Types, Storing, NoMessage, Datagram, NoSocket, Unwritten
<1>2. \A n \in Running : 0 .. (last_proposal[n] - 1) = {}
  OBVIOUS
<1>3. RoundInv
  BY <1>2 DEF RoundInv, RoundOf, Cells
<1>4. WrittenInv
  BY <1>2 DEF WrittenInv, WrittenOf
<1> QED
  BY <1>1, <1>3, <1>4 DEF LeaderInv, ElectionInv, StoredInv, NoSocket

(* Nothing changes of what was proposed to a controller, and it is not at  *)
(* another store of leader_propose than before.                            *)
LEMMA ProposalsOfUnchanged ==
    ASSUME LeaderInv, NEW n \in Running,
           leader_proposals'[n] = leader_proposals[n],
           leader_proposals_sockets'[n] = leader_proposals_sockets[n],
           last_proposal'[n] = last_proposal[n], counted'[n] = counted[n],
           heard'[n] = heard[n], torn'[n] = torn[n],
           \/ loopPc[n] \notin Storing /\ loopPc'[n] \notin Storing
           \/ loopPc'[n] = loopPc[n] /\ msg'[n] = msg[n]
    PROVE  WrittenOf(n)' /\ RoundOf(n)'
<1>1. CASE loopPc[n] \notin Storing /\ loopPc'[n] \notin Storing
  <2>1. WrittenOf(n)'
    BY <1>1 DEF LeaderInv, WrittenInv, WrittenOf, Written, Storing
  <2>2. RoundOf(n)'
    BY <1>1 DEF LeaderInv, RoundInv, RoundOf, Cells, Same, Storing
  <2> QED
    BY <2>1, <2>2
<1>2. CASE loopPc'[n] = loopPc[n] /\ msg'[n] = msg[n]
  <2>1. WrittenOf(n)'
    BY <1>2 DEF LeaderInv, WrittenInv, WrittenOf, Written
  <2>2. Cells(n)' = Cells(n) /\ \A i : Same(n, i)' = Same(n, i)
    BY <1>2 DEF Cells, Same
  <2>3. RoundOf(n)'
    BY <1>2, <2>2 DEF LeaderInv, RoundInv, RoundOf
  <2> QED
    BY <2>1, <2>3
<1> QED
  BY <1>1, <1>2

LEMMA ProposalsUnchanged ==
    ASSUME LeaderInv, UNCHANGED proposalVars,
           \A n \in Running : \/ loopPc[n] \notin Storing /\ loopPc'[n] \notin Storing
                              \/ loopPc'[n] = loopPc[n] /\ msg'[n] = msg[n]
    PROVE  WrittenInv' /\ RoundInv'
BY ProposalsOfUnchanged DEF proposalVars, WrittenInv, RoundInv

(* What Greatest chooses: the socket of a listed controller or none; and,  *)
(* if every value that is counted is stored, that of a value that no other *)
(* exceeds.                                                                *)
LEMMA GreatestChooses ==
    ASSUME LeaderInv, NEW n \in Running
    PROVE  /\ Greatest(n) \in Controllers \cup {NoSocket}
           /\ loopPc[n] # "value" /\ last_proposal[n] > 0 =>
                 \E i \in 0 .. (last_proposal[n] - 1) :
                    /\ Greatest(n) = leader_proposals_sockets[n][i]
                    /\ \A j \in 0 .. (last_proposal[n] - 1) :
                          leader_proposals[n][j] <= leader_proposals[n][i]
<1> DEFINE I == 0 .. (last_proposal[n] - 1)
           used == {i \in I : leader_proposals[n][i] > 0}
           best == {i \in used : \A j \in used :
                        leader_proposals[n][j] <= leader_proposals[n][i]}
<1>1. /\ last_proposal[n] \in Nat /\ counted[n] \in Nat
      /\ last_proposal[n] <= MaxProposals /\ MaxProposals \in Nat
  BY MaxProposalsAssumption DEF LeaderInv, TypeOK
<1>2. loopPc[n] # "value" => \A i \in I : Written(n, i)
  BY DEF LeaderInv, WrittenInv, WrittenOf
<1>3. \A i \in I : i \in Nat /\ i \in Slots
  BY <1>1 DEF Slots
<1>4. ASSUME NEW i \in used
      PROVE  leader_proposals[n][i] \in Controllers
  BY <1>3 DEF LeaderInv, TypeOK, Unwritten
<1>5. ASSUME NEW i \in used
      PROVE  leader_proposals_sockets[n][i] \in Controllers
  <2>1. CASE loopPc[n] # "value"
    BY <1>2, <2>1 DEF Written
  <2>2. CASE loopPc[n] = "value"
    <3>1. /\ last_proposal[n] <= counted[n] + 1
          /\ leader_proposals_sockets[n][counted[n]] \in Controllers
          /\ \A k \in 0 .. (counted[n] - 1) : Written(n, k)
      BY <2>2 DEF LeaderInv, WrittenInv, WrittenOf
    <3>2. i = counted[n] \/ i \in 0 .. (counted[n] - 1)
      BY <1>1, <3>1
    <3> QED
      BY <3>1, <3>2 DEF Written
  <2> QED
    BY <2>1, <2>2
<1>6. loopPc[n] # "value" => used = I
  BY <1>2, NAssumption DEF Written, Controllers
<1>7. CASE used = {}
  <2>1. Greatest(n) = NoSocket
    BY <1>7 DEF Greatest
  <2>2. last_proposal[n] > 0 => 0 \in I
    BY <1>1
  <2> QED
    BY <1>6, <1>7, <2>1, <2>2
<1>8. CASE used # {}
  <2> DEFINE V == {leader_proposals[n][i] : i \in used}
  <2>1. V \in SUBSET Controllers /\ V # {}
    BY <1>4, <1>8
  <2>2. PICK v \in V : \A w \in V : v >= w
    BY <2>1, GreatestExists
  <2>3. PICK k \in used : leader_proposals[n][k] = v
    BY <2>2
  <2>4. \A j \in used : leader_proposals[n][j] <= leader_proposals[n][k]
    BY <2>1, <2>2, <2>3, NAssumption DEF Controllers
  <2>5. k \in best
    BY <2>4
  <2>6. best \in SUBSET Nat /\ best # {}
    BY <1>3, <2>5
  <2>7. Min(best) \in best
    BY <2>6, MinProperties
  <2>8. Greatest(n) = leader_proposals_sockets[n][Min(best)]
    BY <1>8 DEF Greatest
  <2> HIDE DEF best
  <2>9. PICK i \in used : i = Min(best) /\ \A j \in used :
            leader_proposals[n][j] <= leader_proposals[n][i]
    BY <2>7 DEF best
  <2>10. Greatest(n) = leader_proposals_sockets[n][i]
    BY <2>8, <2>9
  <2>11. Greatest(n) \in Controllers
    BY <1>5, <2>10
  <2> HIDE DEF used
  <2> QED
    BY <1>6, <2>9, <2>10, <2>11
<1> QED
  BY <1>7, <1>8
-----------------------------------------------------------------------------
(* leader_loop.                                                            *)

LEMMA SuspectInv ==
    ASSUME LeaderInv, NEW n \in Running, Suspect(n)
    PROVE  LeaderInv'
<1> USE DEF LeaderInv
<1>1. /\ leaderPc' = [leaderPc EXCEPT ![n] = leaderPc'[n]]
      /\ leaderPc'[n] \in {"elect", "beat"}
      /\ leaderPc'[n] = "elect" => leader_socket'[n] = NoSocket
      /\ leader_socket'[n] \in {leader_socket[n], NoSocket}
      /\ leader_socket' = [leader_socket EXCEPT ![n] = leader_socket'[n]]
      /\ am_i_leader' \in [Running -> BOOLEAN]
      /\ UNCHANGED <<agreement_running, proposalVars, timerVars, slotVars, loopVars, net>>
  BY DEF Suspect, LeaderStep, TypeOK
<1>2. TypeOK'
  <2>1. /\ leaderPc' \in [Running -> {"sleep", "elect", "propose", "beat"}]
        /\ leader_socket' \in [Running -> Controllers \cup {NoSocket}]
    BY DEF Suspect, LeaderStep, TypeOK
  <2> QED
    BY <1>1, <2>1 DEF TypeOK, proposalVars, timerVars, slotVars, loopVars
<1>3. ElectionInv'
  BY <1>1 DEF ElectionInv, TypeOK
<1>4. StoredInv'
  BY <1>1 DEF StoredInv, slotVars, loopVars
<1> QED
  BY <1>1, <1>2, <1>3, <1>4, ProposalsUnchanged DEF loopVars

LEMMA StartRoundInv ==
    ASSUME LeaderInv, NEW n \in Running, StartRound(n)
    PROVE  LeaderInv'
<1> USE DEF LeaderInv
<1>1. /\ last_proposal' = [last_proposal EXCEPT ![n] = 0]
      /\ heard' = [heard EXCEPT ![n] = {}]
      /\ torn' = [torn EXCEPT ![n] = loopPc[n] \in Storing]
      /\ UNCHANGED <<leader_socket, am_i_leader, leader_proposals, counted,
                     leader_proposals_sockets, heartbeatOld, slotVars, loopVars, net>>
  BY DEF StartRound
<1>2. TypeOK'
  BY <1>1, MaxProposalsAssumption
  DEF StartRound, LeaderStep, TypeOK, slotVars, loopVars
<1>3. ElectionInv'
  BY DEF StartRound, LeaderStep, ElectionInv, TypeOK
<1>4. StoredInv'
  BY <1>1 DEF StoredInv, slotVars, loopVars
<1>5. /\ last_proposal'[n] = 0 /\ heard'[n] = {}
      /\ torn'[n] = (loopPc[n] \in Storing)
      /\ 0 .. (last_proposal'[n] - 1) = {}
  BY <1>1 DEF TypeOK
<1>6. \A m \in Running \ {n} : WrittenOf(m)' /\ RoundOf(m)'
  BY <1>1, ProposalsOfUnchanged DEF loopVars, TypeOK
<1>7. WrittenOf(n)'
  <2>1. last_proposal[n] \in Nat /\ counted[n] \in Nat /\ MaxProposals > 0
    BY MaxProposalsAssumption DEF TypeOK
  <2>2. loopPc[n] = "read" => leader_proposals_sockets[n][0] \in Controllers
    <3>1. CASE last_proposal[n] = 0
      BY <3>1 DEF WrittenInv, WrittenOf
    <3>2. CASE last_proposal[n] # 0
      <4>1. 0 \in 0 .. (last_proposal[n] - 1)
        BY <2>1, <3>2
      <4> QED
        BY <4>1 DEF WrittenInv, WrittenOf, Written
    <3> QED
      BY <3>1, <3>2
  <2>3. /\ loopPc[n] = "read" => msg[n].src \in Controllers
        /\ loopPc[n] \in {"both", "value", "count"} =>
              /\ counted[n] < MaxProposals
              /\ msg[n].src \in Controllers
              /\ leader_proposals_sockets[n][counted[n]] \in Controllers
              /\ \A i \in 0 .. (counted[n] - 1) : Written(n, i)
        /\ loopPc[n] = "count" => leader_proposals[n][counted[n]] \in Controllers
    BY DEF WrittenInv, WrittenOf
  <2>4. 0 <= counted[n] + 1 /\ 0 <= counted[n] /\ 0 < MaxProposals
    BY <2>1
  <2> QED
    BY <1>1, <1>5, <2>2, <2>3, <2>4 DEF WrittenOf, Written, loopVars
<1>8. RoundOf(n)'
  <2>1. loopPc'[n] = loopPc[n]
    BY <1>1 DEF loopVars
  <2> QED
    BY <1>5, <2>1 DEF RoundOf, Cells, Storing
<1> QED
  BY <1>2, <1>3, <1>4, <1>6, <1>7, <1>8 DEF WrittenInv, RoundInv

LEMMA ReduceInv ==
    ASSUME LeaderInv, NEW n \in Running, Reduce(n)
    PROVE  LeaderInv'
<1> USE DEF LeaderInv
<1>1. /\ Greatest(n) \in Controllers \cup {NoSocket}
      /\ UNCHANGED <<am_i_leader, proposalVars, timerVars, slotVars, loopVars, net>>
  BY GreatestChooses DEF Reduce
<1>2. TypeOK'
  BY <1>1 DEF Reduce, LeaderStep, TypeOK, proposalVars, timerVars, slotVars, loopVars
<1>3. ElectionInv'
  BY DEF Reduce, LeaderStep, ElectionInv, TypeOK
<1>4. StoredInv'
  BY <1>1 DEF StoredInv, slotVars, loopVars
<1> QED
  BY <1>1, <1>2, <1>3, <1>4, ProposalsUnchanged DEF loopVars

(* The other steps of leader_loop leave the election as it is. *)
LEMMA LeaderLoopInv ==
    ASSUME LeaderInv, NEW n \in Running, LeaderLoop(n)
    PROVE  LeaderInv'
<1> USE DEF LeaderInv
<1>1. CASE ProposeSelf(n) \/ NoOwnAddress(n) \/ KeepWaiting(n) \/ Beat(n)
  <2>1. /\ UNCHANGED <<electionVars, proposalVars, timerVars, loopVars, net>>
        /\ leaderPc' \in [Running -> {"sleep", "elect", "propose", "beat"}]
        /\ leaderPc'[n] \in {"sleep", "beat"}
        /\ \A m \in Running \ {n} : leaderPc'[m] = leaderPc[m]
    BY <1>1 DEF ProposeSelf, NoOwnAddress, KeepWaiting, Beat, LeaderStep, TypeOK
  <2>2. \/ UNCHANGED slotVars
        \/ \E t \in Types : Broadcast(n, t)
    BY <1>1 DEF ProposeSelf, NoOwnAddress, KeepWaiting, Beat, Types
  <2>3. /\ msg_temp' \in [Running -> Types \cup {"none"}]
        /\ new_bcast_message' \in [Running -> BOOLEAN]
        /\ sent' \in [Running -> SUBSET Controllers]
        /\ overtaken' \in [Running -> BOOLEAN]
        /\ \A m \in Running : \/ msg_temp'[m] \in Types
                              \/ UNCHANGED <<msg_temp[m], new_bcast_message[m]>>
    <3>1. CASE UNCHANGED slotVars
      BY <3>1 DEF slotVars, TypeOK
    <3>2. ASSUME NEW t \in Types, Broadcast(n, t)
          PROVE  /\ msg_temp' \in [Running -> Types \cup {"none"}]
                 /\ new_bcast_message' \in [Running -> BOOLEAN]
                 /\ sent' \in [Running -> SUBSET Controllers]
                 /\ overtaken' \in [Running -> BOOLEAN]
                 /\ msg_temp'[n] \in Types
                 /\ \A m \in Running \ {n} :
                       UNCHANGED <<msg_temp[m], new_bcast_message[m]>>
      BY <3>2 DEF Broadcast, TypeOK
    <3> QED
      BY <2>2, <3>1, <3>2
  <2>4. TypeOK'
    BY <2>1, <2>3 DEF TypeOK, electionVars, proposalVars, timerVars, loopVars
  <2>5. ElectionInv'
    BY <2>1 DEF ElectionInv, electionVars
  <2>6. StoredInv'
    BY <2>1, <2>3 DEF StoredInv, loopVars
  <2> QED
    BY <2>1, <2>4, <2>5, <2>6, ProposalsUnchanged DEF loopVars
<1> QED
  BY <1>1, SuspectInv, StartRoundInv, ReduceInv DEF LeaderLoop
-----------------------------------------------------------------------------
(* broadcast_loop.                                                         *)

LEMMA SendsInv ==
    ASSUME LeaderInv, NEW n \in Running,
           CopyFlag(n) \/ SelectTimeout(n) \/ DoBcast(n) \/ DoBcastEnds(n)
    PROVE  LeaderInv'
<1> USE NAssumption DEF LeaderInv
<1>1. /\ UNCHANGED <<electionVars, proposalVars, timerVars, leaderPc, msg, msg_temp>>
      /\ \A m \in Running : \/ loopPc[m] \notin Storing /\ loopPc'[m] \notin Storing
                            \/ loopPc'[m] = loopPc[m]
  <2>1. /\ UNCHANGED <<electionVars, proposalVars, timerVars, leaderPc, msg, msg_temp>>
        /\ loopPc[n] \in {"top", "select", "bcast"}
        /\ \E q \in {"top", "select", "bcast"} : loopPc' = [loopPc EXCEPT ![n] = q]
    BY DEF CopyFlag, SelectTimeout, DoBcast, DoBcastEnds, LowerFlag, LoopStep, slotVars
  <2> QED
    BY <2>1 DEF TypeOK, Storing
<1>2. /\ loopPc' \in [Running -> {"top", "select", "bcast"} \cup Storing]
      /\ my_new_bcast_message' \in [Running -> BOOLEAN]
      /\ new_bcast_message' \in [Running -> BOOLEAN]
      /\ index' \in [Running -> 1..(N + 1)]
      /\ sent' \in [Running -> SUBSET Controllers]
      /\ overtaken' \in [Running -> BOOLEAN]
  <2>1. CASE DoBcast(n)
    <3>1. index[n] + 1 \in 1..(N + 1) /\ index' = [index EXCEPT ![n] = index[n] + 1]
      BY <2>1 DEF DoBcast, TypeOK
    <3>2. index[n] \in Controllers
      BY <2>1 DEF DoBcast, TypeOK, Controllers
    <3> QED
      BY <2>1, <3>1, <3>2 DEF DoBcast, LoopStep, TypeOK
  <2>2. CASE CopyFlag(n)
    BY <2>2 DEF CopyFlag, LoopStep, slotVars, TypeOK
  <2>3. CASE SelectTimeout(n)
    BY <2>3 DEF SelectTimeout, LoopStep, slotVars, TypeOK
  <2>4. CASE DoBcastEnds(n)
    <3>1. 1 \in 1..(N + 1)
      OBVIOUS
    <3> QED
      BY <2>4, <3>1 DEF DoBcastEnds, LowerFlag, LoopStep, TypeOK
  <2> QED
    BY <2>1, <2>2, <2>3, <2>4
<1>3. net' \subseteq Datagram
  <2>1. CASE DoBcast(n)
    <3>1. msg_temp[n] \in Types /\ n \in Controllers
      BY <2>1, RunningAssumption DEF DoBcast, LoopStep, StoredInv, Controllers
    <3> QED
      BY <2>1, <3>1 DEF DoBcast, Datagram, TypeOK
  <2> QED
    BY <2>1 DEF CopyFlag, SelectTimeout, DoBcastEnds, LowerFlag, TypeOK
<1>4. TypeOK'
  BY <1>1, <1>2, <1>3 DEF TypeOK, electionVars, proposalVars, timerVars
<1>5. ElectionInv'
  BY <1>1 DEF ElectionInv, electionVars
<1>6. StoredInv'
  <2>1. CASE DoBcast(n)
    BY <2>1 DEF DoBcast, LoopStep, slotVars, TypeOK, StoredInv
  <2>2. CASE CopyFlag(n)
    BY <2>2 DEF CopyFlag, LoopStep, slotVars, TypeOK, StoredInv
  <2>3. CASE SelectTimeout(n)
    BY <2>3 DEF SelectTimeout, LoopStep, slotVars, TypeOK, StoredInv
  <2>4. CASE DoBcastEnds(n)
    BY <2>4 DEF DoBcastEnds, LowerFlag, LoopStep, TypeOK, StoredInv
  <2> QED
    BY <2>1, <2>2, <2>3, <2>4
<1> QED
  BY <1>1, <1>4, <1>5, <1>6, ProposalsUnchanged

(* The proposals of a controller are those it had and one more, in the     *)
(* next cell.                                                              *)
LEMMA ReceiveInv ==
    ASSUME LeaderInv, NEW n \in Running, NEW d \in net, Receive(n, d)
    PROVE  LeaderInv'
<1> USE DEF LeaderInv
<1>1. /\ UNCHANGED <<electionVars, proposeOld, slotVars, leaderPc,
                     my_new_bcast_message, index, msg>>
      /\ loopPc' = [loopPc EXCEPT ![n] = "top"] /\ loopPc[n] = "select"
      /\ net' \subseteq Datagram /\ d \in Datagram
  BY DEF Receive, LoopStep, TypeOK
<1>2. ElectionInv' /\ StoredInv'
  BY <1>1 DEF ElectionInv, StoredInv, electionVars, slotVars, TypeOK
<1>3. CASE d.type # "propose"
  <2>1. TypeOK'
    BY <1>1, <1>3 DEF Receive, TypeOK, electionVars, proposalVars, slotVars
  <2>2. UNCHANGED proposalVars
    BY <1>3 DEF Receive
  <2> QED
    BY <1>1, <1>2, <2>1, <2>2, ProposalsUnchanged DEF TypeOK, Storing
<1>4. CASE d.type = "propose"
  <2> DEFINE i == last_proposal[n]
  <2>1. /\ i < MaxProposals
        /\ leader_proposals_sockets' = [leader_proposals_sockets EXCEPT ![n][i] = d.src]
        /\ leader_proposals' = [leader_proposals EXCEPT ![n][i] = d.src]
        /\ last_proposal' = [last_proposal EXCEPT ![n] = i + 1]
        /\ heard' = [heard EXCEPT ![n] = heard[n] \cup {d.src}]
        /\ UNCHANGED <<counted, torn, heartbeatOld>>
    BY <1>4 DEF Receive, LeaderPropose, SocketOf
  <2>2. i \in Slots /\ i \in Nat /\ d.src \in Controllers /\ i + 1 \in 0 .. MaxProposals
    BY <1>1, <2>1, MaxProposalsAssumption DEF Slots, TypeOK, Datagram
  <2>3. TypeOK'
    <3>1. /\ leader_proposals_sockets' \in [Running -> [Slots -> Controllers \cup {Unwritten}]]
          /\ leader_proposals' \in [Running -> [Slots -> Controllers \cup {Unwritten}]]
          /\ last_proposal' \in [Running -> 0..MaxProposals]
          /\ heard' \in [Running -> SUBSET Controllers]
          /\ loopPc' \in [Running -> {"top", "select", "bcast"} \cup Storing]
      BY <1>1, <2>1, <2>2 DEF TypeOK
    <3> QED
      BY <1>1, <2>1, <3>1 DEF TypeOK, electionVars, slotVars
  <2>4. /\ last_proposal'[n] - 1 = i
        /\ \A j \in Slots : /\ leader_proposals'[n][j] =
                                   IF j = i THEN d.src ELSE leader_proposals[n][j]
                            /\ leader_proposals_sockets'[n][j] =
                                   IF j = i THEN d.src ELSE leader_proposals_sockets[n][j]
        /\ loopPc'[n] = "top" /\ heard'[n] = heard[n] \cup {d.src} /\ torn'[n] = torn[n]
    <3>1. last_proposal'[n] = i + 1
      BY <2>1 DEF TypeOK
    <3>2. last_proposal'[n] - 1 = i
      BY <2>2, <3>1
    <3> QED
      BY <1>1, <2>1, <2>2, <3>2 DEF TypeOK
  <2>5. \A m \in Running \ {n} : WrittenOf(m)' /\ RoundOf(m)'
    BY <1>1, <2>1, ProposalsOfUnchanged DEF TypeOK
  <2>6. \A j \in 0 .. i : j \in Slots /\ (j = i \/ j \in 0 .. (i - 1))
    BY <2>1, <2>2, MaxProposalsAssumption DEF Slots
  <2>7. WrittenOf(n)'
    <3>0. \A j \in 0 .. (i - 1) : Written(n, j)
      BY <1>1 DEF WrittenInv, WrittenOf
    <3>1. \A j \in 0 .. i : Written(n, j)'
      BY <2>2, <2>4, <2>6, <3>0 DEF Written
    <3> QED
      BY <2>4, <3>1 DEF WrittenOf, Written
  <2>8. RoundOf(n)'
    <3>0. ~torn[n] =>
             /\ \A v \in heard[n] : \E j \in 0 .. (i - 1) : leader_proposals[n][j] = v
             /\ \A j \in 0 .. (i - 1) : leader_proposals[n][j] \in heard[n] /\ Same(n, j)
      BY <1>1 DEF RoundInv, RoundOf, Cells
    <3>1. ASSUME ~torn[n], NEW j \in 0 .. i
          PROVE  leader_proposals'[n][j] \in heard'[n] /\ Same(n, j)'
      BY <2>2, <2>4, <2>6, <3>0, <3>1 DEF Same
    <3>2. ASSUME ~torn[n], NEW v \in heard'[n]
          PROVE  \E j \in 0 .. i : leader_proposals'[n][j] = v
      <4>1. CASE v = d.src
        BY <2>2, <2>4, <4>1
      <4>2. CASE v \in heard[n]
        <5>1. PICK j \in 0 .. (i - 1) : leader_proposals[n][j] = v
          BY <3>0, <3>2, <4>2
        <5>2. j \in 0 .. i /\ j # i
          BY <2>2
        <5> QED
          BY <2>4, <2>6, <5>1, <5>2
      <4> QED
        BY <2>4, <4>1, <4>2
    <3>3. Cells(n)' = 0 .. i
      BY <2>4 DEF Cells
    <3> QED
      BY <2>4, <3>1, <3>2, <3>3 DEF RoundOf, Same
  <2> QED
    BY <1>2, <2>3, <2>5, <2>7, <2>8 DEF WrittenInv, RoundInv
<1> QED
  BY <1>3, <1>4
LEMMA ProposeSocketInv ==
    ASSUME LeaderInv, NEW n \in Running, NEW d \in net, ProposeSocket(n, d)
    PROVE  LeaderInv'
<1> USE DEF LeaderInv
<1> DEFINE i == last_proposal[n]
<1>1. /\ i < MaxProposals
      /\ leader_proposals_sockets' = [leader_proposals_sockets EXCEPT ![n][i] = d.src]
      /\ msg' = [msg EXCEPT ![n] = d]
      /\ loopPc' = [loopPc EXCEPT ![n] = "read"] /\ loopPc[n] = "select"
      /\ UNCHANGED <<electionVars, leader_proposals, last_proposal, counted, heard,
                     torn, timerVars, slotVars, leaderPc, my_new_bcast_message, index>>
  BY DEF ProposeSocket, LoopStep, SocketOf
<1>2. /\ i \in Slots /\ i \in Nat
      /\ net' \subseteq Datagram /\ d \in Datagram /\ d.src \in Controllers
  BY <1>1, MaxProposalsAssumption DEF ProposeSocket, Slots, TypeOK, Datagram
<1>3. TypeOK'
  <2>1. /\ leader_proposals_sockets' \in [Running -> [Slots -> Controllers \cup {Unwritten}]]
        /\ loopPc' \in [Running -> {"top", "select", "bcast"} \cup Storing]
        /\ msg' \in [Running -> Datagram \cup {NoMessage}]
    BY <1>1, <1>2 DEF TypeOK, Storing
  <2> QED
    BY <1>1, <1>2, <2>1 DEF TypeOK, electionVars, timerVars, slotVars
<1>4. ElectionInv' /\ StoredInv'
  BY <1>1 DEF ElectionInv, StoredInv, electionVars, slotVars, TypeOK
<1>5. /\ \A j \in Slots \ {i} : leader_proposals_sockets'[n][j] = leader_proposals_sockets[n][j]
      /\ leader_proposals_sockets'[n][i] = d.src
      /\ loopPc'[n] = "read" /\ msg'[n] = d
  BY <1>1, <1>2 DEF TypeOK
<1>6. \A j \in 0 .. (i - 1) : j \in Slots \ {i}
  BY <1>1, <1>2, MaxProposalsAssumption DEF Slots
<1>7. \A m \in Running \ {n} : WrittenOf(m)' /\ RoundOf(m)'
  BY <1>1, ProposalsOfUnchanged DEF TypeOK
<1>8. WrittenOf(n)'
  <2>1. \A j \in 0 .. (i - 1) : Written(n, j)
    BY <1>1 DEF WrittenInv, WrittenOf
  <2>2. \A j \in 0 .. (i - 1) : Written(n, j)'
    BY <1>1, <1>5, <1>6, <2>1 DEF Written
  <2> QED
    BY <1>1, <1>2, <1>5, <2>2 DEF WrittenOf, Written
<1>9. RoundOf(n)'
  <2>1. ~torn[n] =>
           /\ \A v \in heard[n] : \E j \in 0 .. (i - 1) : leader_proposals[n][j] = v
           /\ \A j \in 0 .. (i - 1) : leader_proposals[n][j] \in heard[n] /\ Same(n, j)
    BY <1>1 DEF RoundInv, RoundOf, Cells
  <2>2. Cells(n)' = 0 .. (i - 1)
    BY <1>1, <1>5 DEF Cells
  <2> QED
    BY <1>1, <1>5, <1>6, <2>1, <2>2 DEF RoundOf, Same
<1> QED
  BY <1>3, <1>4, <1>7, <1>8, <1>9 DEF WrittenInv, RoundInv

LEMMA ProposeReadInv ==
    ASSUME LeaderInv, NEW n \in Running, ProposeRead(n)
    PROVE  LeaderInv'
<1> USE DEF LeaderInv
<1> DEFINE i == last_proposal[n]
<1>1. /\ loopPc[n] = "read" /\ loopPc' = [loopPc EXCEPT ![n] = "both"]
      /\ counted' = [counted EXCEPT ![n] = i]
      /\ UNCHANGED <<electionVars, leader_proposals, leader_proposals_sockets,
                     last_proposal, heard, torn, timerVars, slotVars, leaderPc,
                     my_new_bcast_message, index, msg, net>>
  BY DEF ProposeRead, LoopStep
<1>2. TypeOK'
  <2>1. /\ loopPc' \in [Running -> {"top", "select", "bcast"} \cup Storing]
        /\ counted' \in [Running -> 0..MaxProposals]
    BY <1>1 DEF TypeOK, Storing
  <2> QED
    BY <1>1, <2>1 DEF TypeOK, electionVars, timerVars, slotVars
<1>3. ElectionInv' /\ StoredInv'
  BY <1>1 DEF ElectionInv, StoredInv, electionVars, slotVars, TypeOK
<1>4. loopPc'[n] = "both" /\ counted'[n] = i /\ i \in Nat /\ i <= i + 1 /\ i <= i
  BY <1>1, MaxProposalsAssumption DEF TypeOK
<1>5. \A m \in Running \ {n} : WrittenOf(m)' /\ RoundOf(m)'
  BY <1>1, ProposalsOfUnchanged DEF TypeOK
<1>6. WrittenOf(n)'
  <2>1. /\ \A j \in 0 .. (i - 1) : Written(n, j)
        /\ i < MaxProposals
        /\ msg[n].src \in Controllers
        /\ leader_proposals_sockets[n][i] \in Controllers
    BY <1>1 DEF WrittenInv, WrittenOf
  <2> QED
    BY <1>1, <1>4, <2>1 DEF WrittenOf, Written
<1>7. RoundOf(n)'
  <2>1. ~torn[n] =>
           /\ \A v \in heard[n] : \E j \in 0 .. (i - 1) : leader_proposals[n][j] = v
           /\ \A j \in 0 .. (i - 1) : leader_proposals[n][j] \in heard[n] /\ Same(n, j)
           /\ leader_proposals_sockets[n][i] = msg[n].src
    BY <1>1 DEF RoundInv, RoundOf, Cells
  <2>2. Cells(n)' = 0 .. (i - 1)
    BY <1>1, <1>4 DEF Cells
  <2> QED
    BY <1>1, <1>4, <2>1, <2>2 DEF RoundOf, Same
<1> QED
  BY <1>2, <1>3, <1>5, <1>6, <1>7 DEF WrittenInv, RoundInv

(* What the two stores of the assignment have in common. *)
LEMMA StoreFacts ==
    ASSUME LeaderInv, NEW n \in Running, NEW from \in {"both", "value", "count"},
           NEW to \in {"value", "count", "top"}, Store(n, from, to)
    PROVE  /\ loopPc[n] = from /\ loopPc'[n] = to
           /\ UNCHANGED <<electionVars, leader_proposals_sockets, torn, timerVars,
                          slotVars, leaderPc, my_new_bcast_message, index, net>>
           /\ loopPc' \in [Running -> {"top", "select", "bcast"} \cup Storing]
           /\ counted' \in [Running -> 0..MaxProposals]
           /\ msg' \in [Running -> Datagram \cup {NoMessage}]
           /\ ElectionInv' /\ StoredInv'
           /\ \A m \in Running \ {n} :
                 UNCHANGED <<loopPc[m], counted[m], msg[m]>>
           /\ to # "top" => UNCHANGED <<counted, msg>>
           /\ counted[n] \in Nat /\ counted[n] \in Slots /\ counted[n] + 1 \in 0..MaxProposals
           /\ \A i \in 0 .. (counted[n] - 1) : i \in Slots /\ i # counted[n]
           /\ msg[n].src \in Controllers
<1> USE DEF LeaderInv
<1>1. /\ loopPc[n] = from /\ loopPc' = [loopPc EXCEPT ![n] = to]
      /\ UNCHANGED <<electionVars, leader_proposals_sockets, torn, timerVars, slotVars,
                     leaderPc, my_new_bcast_message, index, net>>
      /\ \/ msg' = [msg EXCEPT ![n] = NoMessage] /\ counted' = [counted EXCEPT ![n] = 0]
         \/ UNCHANGED <<msg, counted>>
      /\ to # "top" => UNCHANGED <<msg, counted>>
  BY DEF Store, LoopStep
<1>2. /\ loopPc' \in [Running -> {"top", "select", "bcast"} \cup Storing]
      /\ loopPc'[n] = to /\ \A m \in Running \ {n} : loopPc'[m] = loopPc[m]
  BY <1>1 DEF TypeOK, Storing
<1>3. /\ counted' \in [Running -> 0..MaxProposals]
      /\ msg' \in [Running -> Datagram \cup {NoMessage}]
      /\ \A m \in Running \ {n} : UNCHANGED <<counted[m], msg[m]>>
  <2>1. 0 \in 0..MaxProposals
    BY MaxProposalsAssumption
  <2>2. CASE msg' = [msg EXCEPT ![n] = NoMessage] /\ counted' = [counted EXCEPT ![n] = 0]
    BY <2>1, <2>2 DEF TypeOK
  <2>3. CASE UNCHANGED <<msg, counted>>
    BY <2>3 DEF TypeOK
  <2> QED
    BY <1>1, <2>2, <2>3
<1>4. ElectionInv'
  BY <1>1 DEF ElectionInv, electionVars
<1>5. StoredInv'
  BY <1>1, <1>2 DEF StoredInv, slotVars
<1>6. counted[n] < MaxProposals /\ msg[n].src \in Controllers
  BY <1>1 DEF WrittenInv, WrittenOf
<1>7. /\ counted[n] \in Nat /\ counted[n] \in Slots /\ counted[n] + 1 \in 0..MaxProposals
      /\ \A i \in 0 .. (counted[n] - 1) : i \in Slots /\ i # counted[n]
  BY <1>6, MaxProposalsAssumption DEF TypeOK, Slots
<1> QED
  BY <1>1, <1>2, <1>3, <1>4, <1>5, <1>6, <1>7

LEMMA ValueStoreInv ==
    ASSUME LeaderInv, NEW n \in Running, ProposeValue(n),
           NEW from \in {"both", "value"}, NEW to \in {"count", "top"}, Store(n, from, to),
           (from = "both" /\ to = "count") \/ (from = "value" /\ to = "top")
    PROVE  LeaderInv'
<1> USE DEF LeaderInv
<1> DEFINE k == counted[n]
<1>1. /\ Store(n, from, to)
      /\ (from = "both" /\ to = "count") \/ (from = "value" /\ to = "top")
  OBVIOUS
<1>2. /\ leader_proposals' = [leader_proposals EXCEPT ![n][k] = msg[n].src]
      /\ UNCHANGED <<last_proposal, heard, leader_proposals_sockets, torn>>
  BY <1>1, StoreFacts DEF ProposeValue
<1>3. /\ k \in Nat /\ k \in Slots /\ msg[n].src \in Controllers
      /\ \A j \in 0 .. (k - 1) : j \in Slots /\ j # k
      /\ loopPc[n] = from /\ loopPc'[n] = to
      /\ to # "top" => counted'[n] = k /\ msg'[n] = msg[n]
  BY <1>1, StoreFacts
<1>4. TypeOK'
  <2>1. leader_proposals' \in [Running -> [Slots -> Controllers \cup {Unwritten}]]
    BY <1>2, <1>3 DEF TypeOK
  <2>2. /\ UNCHANGED <<electionVars, leader_proposals_sockets, torn, timerVars,
                       slotVars, leaderPc, my_new_bcast_message, index, net>>
        /\ loopPc' \in [Running -> {"top", "select", "bcast"} \cup Storing]
        /\ counted' \in [Running -> 0..MaxProposals]
        /\ msg' \in [Running -> Datagram \cup {NoMessage}]
    BY <1>1, StoreFacts
  <2> QED
    BY <1>2, <2>1, <2>2 DEF TypeOK, electionVars, timerVars, slotVars
<1>5. ElectionInv' /\ StoredInv'
  BY <1>1, StoreFacts
<1>6. /\ \A j \in 0 .. (k - 1) : leader_proposals'[n][j] = leader_proposals[n][j]
      /\ leader_proposals'[n][k] = msg[n].src
  BY <1>2, <1>3 DEF TypeOK
<1>7. \A m \in Running \ {n} : WrittenOf(m)' /\ RoundOf(m)'
  <2>1. \A m \in Running \ {n} : UNCHANGED <<loopPc[m], counted[m], msg[m]>>
    BY <1>1, StoreFacts
  <2> QED
    BY <1>2, <2>1, ProposalsOfUnchanged DEF TypeOK
<1>8. /\ last_proposal[n] \in Nat /\ last_proposal[n] <= k + 1 /\ k < MaxProposals
      /\ leader_proposals_sockets[n][k] \in Controllers
      /\ \A j \in 0 .. (k - 1) : Written(n, j)
      /\ from = "both" => last_proposal[n] <= k
  BY <1>3, MaxProposalsAssumption DEF WrittenInv, WrittenOf, TypeOK
<1>9. \A j \in 0 .. k : j = k \/ j \in 0 .. (k - 1)
  BY <1>3
<1>10. \A j \in 0 .. k : Written(n, j)'
  BY <1>2, <1>3, <1>6, <1>8, <1>9 DEF Written
<1>11. WrittenOf(n)'
  <2>1. \A j \in 0 .. (last_proposal[n] - 1) : j \in 0 .. k
    BY <1>3, <1>8
  <2>2. \A j \in 0 .. (k - 1) : j \in 0 .. k
    BY <1>3
  <2>3. CASE to = "count"
    BY <1>2, <1>3, <1>6, <1>8, <1>10, <2>1, <2>2, <2>3 DEF WrittenOf, Written
  <2>4. CASE to = "top"
    BY <1>2, <1>3, <1>10, <2>1, <2>4 DEF WrittenOf, Written
  <2> QED
    BY <2>3, <2>4
<1>12. RoundOf(n)'
  <2> SUFFICES ASSUME ~torn[n] PROVE RoundOf(n)'
    BY <1>2 DEF RoundOf
  <2>1. leader_proposals_sockets[n][k] = msg[n].src
    BY <1>1, <1>3 DEF RoundInv, RoundOf
  <2>2. CASE from = "both" /\ to = "count"
    <3>1. last_proposal[n] = k
      BY <1>3, <2>2 DEF RoundInv, RoundOf
    <3>2. Cells(n) = 0 .. (k - 1) /\ Cells(n)' = 0 .. (k - 1)
      BY <1>2, <1>3, <2>2, <3>1 DEF Cells
    <3>3. /\ \A v \in heard[n] : \E j \in 0 .. (k - 1) : leader_proposals[n][j] = v
          /\ \A j \in 0 .. (k - 1) : leader_proposals[n][j] \in heard[n] /\ Same(n, j)
      BY <1>3, <2>2, <3>2 DEF RoundInv, RoundOf
    <3> QED
      BY <1>2, <1>3, <1>6, <2>1, <2>2, <3>1, <3>2, <3>3 DEF RoundOf, Same
  <2>3. CASE from = "value" /\ to = "top"
    <3>1. last_proposal[n] = k + 1 /\ msg[n].src \in heard[n]
      BY <1>3, <2>3 DEF RoundInv, RoundOf
    <3>2. Cells(n) = 0 .. (k - 1)
      BY <1>3, <2>3 DEF Cells
    <3>3. Cells(n)' = 0 .. k
      BY <1>2, <1>3, <2>3, <3>1 DEF Cells
    <3>4. /\ \A v \in heard[n] : \/ \E j \in 0 .. (k - 1) : leader_proposals[n][j] = v
                                 \/ v = msg[n].src
          /\ \A j \in 0 .. (k - 1) : leader_proposals[n][j] \in heard[n] /\ Same(n, j)
      <4>1. RoundOf(n)
        BY DEF RoundInv
      <4> QED
        BY <3>2, <4>1, SMTT(30) DEF RoundOf
    <3>5. k \in 0 .. k /\ \A j \in 0 .. (k - 1) : j \in 0 .. k
      BY <1>3
    <3>6. \A v \in heard[n] : \E j \in 0 .. k : leader_proposals'[n][j] = v
      BY <1>6, <3>4, <3>5
    <3>7. \A j \in 0 .. k : leader_proposals'[n][j] \in heard[n] /\ Same(n, j)'
      BY <1>2, <1>6, <1>9, <2>1, <3>1, <3>4 DEF Same
    <3> QED
      BY <1>2, <1>3, <2>3, <3>3, <3>6, <3>7 DEF RoundOf
  <2> QED
    BY <1>1, <2>2, <2>3
<1> QED
  BY <1>4, <1>5, <1>7, <1>11, <1>12 DEF WrittenInv, RoundInv

LEMMA ProposeValueInv ==
    ASSUME LeaderInv, NEW n \in Running, ProposeValue(n)
    PROVE  LeaderInv'
<1>1. CASE Store(n, "both", "count")
  BY <1>1, ValueStoreInv
<1>2. CASE Store(n, "value", "top")
  BY <1>2, ValueStoreInv
<1> QED
  BY <1>1, <1>2 DEF ProposeValue

LEMMA CountStoreInv ==
    ASSUME LeaderInv, NEW n \in Running, ProposeCount(n),
           NEW from \in {"both", "count"}, NEW to \in {"value", "top"}, Store(n, from, to),
           (from = "both" /\ to = "value") \/ (from = "count" /\ to = "top")
    PROVE  LeaderInv'
<1> USE DEF LeaderInv
<1> DEFINE k == counted[n]
<1>1. /\ Store(n, from, to)
      /\ (from = "both" /\ to = "value") \/ (from = "count" /\ to = "top")
  OBVIOUS
<1>2. /\ last_proposal' = [last_proposal EXCEPT ![n] = k + 1]
      /\ heard' = [heard EXCEPT ![n] = heard[n] \cup {msg[n].src}]
      /\ UNCHANGED <<leader_proposals, leader_proposals_sockets, torn>>
  BY <1>1, StoreFacts DEF ProposeCount
<1>3. /\ k \in Nat /\ k + 1 \in 0..MaxProposals /\ msg[n].src \in Controllers
      /\ loopPc[n] = from /\ loopPc'[n] = to
      /\ to # "top" => counted'[n] = k /\ msg'[n] = msg[n]
  BY <1>1, StoreFacts
<1>4. TypeOK'
  <2>1. /\ last_proposal' \in [Running -> 0..MaxProposals]
        /\ heard' \in [Running -> SUBSET Controllers]
    BY <1>2, <1>3 DEF TypeOK
  <2>2. /\ UNCHANGED <<electionVars, leader_proposals_sockets, torn, timerVars,
                       slotVars, leaderPc, my_new_bcast_message, index, net>>
        /\ loopPc' \in [Running -> {"top", "select", "bcast"} \cup Storing]
        /\ counted' \in [Running -> 0..MaxProposals]
        /\ msg' \in [Running -> Datagram \cup {NoMessage}]
    BY <1>1, StoreFacts
  <2> QED
    BY <1>2, <2>1, <2>2 DEF TypeOK, electionVars, timerVars, slotVars
<1>5. ElectionInv' /\ StoredInv'
  BY <1>1, StoreFacts
<1>6. /\ last_proposal'[n] = k + 1 /\ last_proposal'[n] - 1 = k
      /\ heard'[n] = heard[n] \cup {msg[n].src} /\ torn'[n] = torn[n]
  <2>1. last_proposal'[n] = k + 1 /\ heard'[n] = heard[n] \cup {msg[n].src}
    BY <1>2 DEF TypeOK
  <2> QED
    BY <1>2, <1>3, <2>1
<1>7. \A m \in Running \ {n} : WrittenOf(m)' /\ RoundOf(m)'
  <2>1. \A m \in Running \ {n} : UNCHANGED <<loopPc[m], counted[m], msg[m]>>
    BY <1>1, StoreFacts
  <2> QED
    BY <1>2, <2>1, ProposalsOfUnchanged DEF TypeOK
<1>8. /\ k < MaxProposals /\ leader_proposals_sockets[n][k] \in Controllers
      /\ \A j \in 0 .. (k - 1) : Written(n, j)
      /\ from = "count" => leader_proposals[n][k] \in Controllers
  BY <1>3 DEF WrittenInv, WrittenOf
<1>9. \A j \in 0 .. k : j = k \/ j \in 0 .. (k - 1)
  BY <1>3
<1>10. WrittenOf(n)'
  <2>1. CASE from = "both" /\ to = "value"
    <3>1. k + 1 <= k + 1
      BY <1>3
    <3> QED
      BY <1>2, <1>3, <1>6, <1>8, <2>1, <3>1 DEF WrittenOf, Written
  <2>2. CASE from = "count" /\ to = "top"
    <3>1. \A j \in 0 .. k : Written(n, j)
      BY <1>8, <1>9, <2>2 DEF Written
    <3> QED
      BY <1>2, <1>3, <1>6, <2>2, <3>1 DEF WrittenOf, Written
  <2> QED
    BY <1>1, <2>1, <2>2
<1>11. RoundOf(n)'
  <2> SUFFICES ASSUME ~torn[n] PROVE RoundOf(n)'
    BY <1>2 DEF RoundOf
  <2>1. leader_proposals_sockets[n][k] = msg[n].src /\ last_proposal[n] = k
    BY <1>1, <1>3 DEF RoundInv, RoundOf
  <2>2. Cells(n) = 0 .. (k - 1)
    BY <1>1, <1>3, <2>1 DEF Cells
  <2>3. /\ \A v \in heard[n] : \E j \in 0 .. (k - 1) : leader_proposals[n][j] = v
        /\ \A j \in 0 .. (k - 1) : leader_proposals[n][j] \in heard[n] /\ Same(n, j)
    BY <1>1, <1>3, <2>2 DEF RoundInv, RoundOf
  <2>4. CASE from = "both" /\ to = "value"
    <3>1. Cells(n)' = 0 .. (k - 1)
      BY <1>3, <2>4 DEF Cells
    <3>2. \A v \in heard'[n] : \/ \E j \in 0 .. (k - 1) : leader_proposals[n][j] = v
                               \/ v = msg[n].src
      BY <1>6, <2>3
    <3>3. \A j \in 0 .. (k - 1) : leader_proposals[n][j] \in heard'[n] /\ Same(n, j)
      BY <1>6, <2>3
    <3>4. msg[n].src \in heard'[n]
      BY <1>6
    <3> QED
      BY <1>2, <1>3, <1>6, <2>1, <2>4, <3>1, <3>2, <3>3, <3>4 DEF RoundOf, Same
  <2>5. CASE from = "count" /\ to = "top"
    <3>1. Cells(n)' = 0 .. k
      BY <1>3, <1>6, <2>5 DEF Cells
    <3>2. leader_proposals[n][k] = msg[n].src
      BY <1>3, <2>5 DEF RoundInv, RoundOf
    <3>3. k \in 0 .. k /\ \A j \in 0 .. (k - 1) : j \in 0 .. k
      BY <1>3
    <3>4. \A v \in heard'[n] : \E j \in 0 .. k : leader_proposals[n][j] = v
      BY <1>6, <2>3, <3>2, <3>3
    <3>5. \A j \in 0 .. k : leader_proposals[n][j] \in heard'[n] /\ Same(n, j)
      BY <1>6, <1>9, <2>1, <2>3, <3>2 DEF Same
    <3> QED
      BY <1>2, <1>3, <2>5, <3>1, <3>4, <3>5 DEF RoundOf, Same
  <2> QED
    BY <1>1, <2>4, <2>5
<1> QED
  BY <1>4, <1>5, <1>7, <1>10, <1>11 DEF WrittenInv, RoundInv

LEMMA ProposeCountInv ==
    ASSUME LeaderInv, NEW n \in Running, ProposeCount(n)
    PROVE  LeaderInv'
<1>1. CASE Store(n, "both", "value")
  BY <1>1, CountStoreInv
<1>2. CASE Store(n, "count", "top")
  BY <1>2, CountStoreInv
<1> QED
  BY <1>1, <1>2 DEF ProposeCount

-----------------------------------------------------------------------------
LEMMA LeaderNext == LeaderInv /\ [Next]_vars => LeaderInv'
<1> SUFFICES ASSUME LeaderInv, [Next]_vars PROVE LeaderInv'
  OBVIOUS
<1> USE DEF LeaderInv
<1>1. ASSUME NEW n \in Running, BroadcastLoop(n) PROVE LeaderInv'
  BY <1>1, SendsInv, ReceiveInv, ProposeSocketInv, ProposeReadInv, ProposeValueInv,
     ProposeCountInv
  DEF BroadcastLoop
<1>2. ASSUME NEW n \in Running, HeartbeatAges(n) \/ ProposeAges(n) PROVE LeaderInv'
  <2>1. /\ UNCHANGED <<electionVars, proposalVars, slotVars, loopVars, leaderPc, net>>
        /\ heartbeatOld' \in [Running -> BOOLEAN] /\ proposeOld' \in [Running -> BOOLEAN]
    BY <1>2 DEF HeartbeatAges, ProposeAges, TypeOK
  <2>2. TypeOK'
    BY <2>1 DEF TypeOK, electionVars, proposalVars, slotVars, loopVars
  <2>3. ElectionInv' /\ StoredInv'
    BY <2>1 DEF ElectionInv, StoredInv, electionVars, slotVars, loopVars
  <2> QED
    BY <2>1, <2>2, <2>3, ProposalsUnchanged DEF loopVars
<1>3. CASE \/ \E m \in Controllers \ Running, n \in Running : OtherProposes(m, n)
           \/ \E d \in net : Lose(d)
           \/ UNCHANGED vars
  <2>1. /\ UNCHANGED <<electionVars, proposalVars, timerVars, slotVars, loopVars, leaderPc>>
        /\ net' \subseteq Datagram
    BY <1>3 DEF OtherProposes, Lose, vars, TypeOK, Datagram, Types
  <2>2. TypeOK'
    BY <2>1 DEF TypeOK, electionVars, proposalVars, timerVars, slotVars, loopVars
  <2>3. ElectionInv' /\ StoredInv'
    BY <2>1 DEF ElectionInv, StoredInv, electionVars, slotVars, loopVars
  <2> QED
    BY <2>1, <2>2, <2>3, ProposalsUnchanged DEF loopVars
<1> QED
  BY <1>1, <1>2, <1>3, LeaderLoopInv DEF Next

LEMMA LeaderInductive == Spec => []LeaderInv
BY LeaderInit, LeaderNext, PTL DEF Spec

-----------------------------------------------------------------------------
(* Every variable has its type; in particular, a leader once chosen is the *)
(* socket of a listed controller even when leader_loop resets the count    *)
(* between two stores of leader_propose.                                   *)
THEOREM LeaderTypes == Spec => []TypeOK
BY LeaderInductive, PTL DEF LeaderInv

(* A round of proposals is open only while there is no leader. *)
THEOREM RoundHasNoLeader == Spec => []NoLeaderInARound
<1>1. LeaderInv => NoLeaderInARound
  BY DEF LeaderInv, ElectionInv, NoLeaderInARound
<1> QED
  BY <1>1, LeaderInductive, PTL

(* Without a lock between the two threads, do_agreement_reduction elects   *)
(* the greatest of those that proposed since the round was opened, unless  *)
(* it was opened between two stores of leader_propose or the value of the  *)
(* last proposal is stored after its count and not yet there.              *)
THEOREM GreatestIsElected == Spec => ElectsTheGreatest
<1> DEFINE A == \A n \in Running :
                   Elects(n) /\ ~torn[n] /\ loopPc[n] # "value" =>
                       heard[n] # {} /\ leader_socket'[n] = Max(heard[n])
<1>1. ASSUME LeaderInv, [Next]_vars PROVE [A]_vars
  <2> SUFFICES ASSUME NEW n \in Running, Elects(n), ~torn[n], loopPc[n] # "value"
               PROVE  heard[n] # {} /\ leader_socket'[n] = Max(heard[n])
    OBVIOUS
  <2>1. Reduce(n)
    <3>1. leader_socket'[n] # leader_socket[n] /\ leader_socket'[n] # NoSocket
      BY DEF Elects
    <3>2. PICK m \in Running : LeaderLoop(m)
      BY <1>1, <3>1 DEF Next, vars, electionVars, BroadcastLoop, HeartbeatAges, ProposeAges,
         OtherProposes, Lose, CopyFlag, SelectTimeout, DoBcast, DoBcastEnds, LowerFlag,
         Receive, ProposeSocket, ProposeRead, ProposeValue, ProposeCount, Store
    <3>3. Suspect(m) \/ Reduce(m)
      BY <3>1, <3>2 DEF LeaderLoop, StartRound, ProposeSelf, NoOwnAddress, KeepWaiting,
         Beat, electionVars
    <3>4. m = n
      BY <1>1, <3>1, <3>3 DEF Suspect, Reduce, LeaderInv, TypeOK
    <3> QED
      BY <1>1, <3>1, <3>3, <3>4 DEF Suspect, LeaderInv, TypeOK
  <2>2. leader_socket'[n] = Greatest(n) /\ Greatest(n) # NoSocket
    BY <1>1, <2>1 DEF Reduce, Elects, LeaderInv, TypeOK
  <2>3. last_proposal[n] > 0
    <3>1. last_proposal[n] \in Nat
      BY <1>1, MaxProposalsAssumption DEF LeaderInv, TypeOK
    <3>2. last_proposal[n] = 0 => 0 .. (last_proposal[n] - 1) = {}
      OBVIOUS
    <3> QED
      BY <2>2, <3>1, <3>2 DEF Greatest
  <2>4. PICK i \in 0 .. (last_proposal[n] - 1) :
           /\ Greatest(n) = leader_proposals_sockets[n][i]
           /\ \A j \in 0 .. (last_proposal[n] - 1) :
                 leader_proposals[n][j] <= leader_proposals[n][i]
    BY <1>1, <2>3, GreatestChooses
  <2>5. /\ Greatest(n) = leader_proposals[n][i] /\ leader_proposals[n][i] \in heard[n]
        /\ \A v \in heard[n] : \E j \in 0 .. (last_proposal[n] - 1) :
              leader_proposals[n][j] = v
    BY <1>1, <2>4 DEF LeaderInv, RoundInv, RoundOf, Cells, Same
  <2>6. heard[n] \in SUBSET Controllers
    BY <1>1 DEF LeaderInv, TypeOK
  <2>7. \A v \in heard[n] : v <= Greatest(n)
    BY <2>4, <2>5
  <2> QED
    BY <2>2, <2>5, <2>6, <2>7, MaxIs
<1>2. Spec => [][A]_vars
  BY <1>1, LeaderInductive, PTL DEF Spec
<1> QED
  BY <1>2 DEF ElectsTheGreatest

-----------------------------------------------------------------------------
(* What do_bcast has sent of the message that is stored.                   *)

LEMMA SentStep ==
    ASSUME LeaderInv, SentInv, [Next]_vars
    PROVE  SentInv'
<1> USE DEF LeaderInv
<1>0. \A n \in Running : index[n] \in Nat /\ index[n] >= 1
  BY NAssumption DEF TypeOK
<1>1. ASSUME NEW n \in Running, ProposeSelf(n) \/ Beat(n) PROVE SentInv'
  <2>1. UNCHANGED loopVars /\ (UNCHANGED slotVars \/ \E type \in Types : Broadcast(n, type))
    BY <1>1 DEF ProposeSelf, Beat, Types
  <2>2. CASE UNCHANGED slotVars
    BY <2>1, <2>2 DEF SentInv, slotVars, loopVars
  <2>3. ASSUME NEW type \in Types, Broadcast(n, type) PROVE SentInv'
    <3>1. /\ overtaken'[n] = (loopPc[n] = "bcast")
          /\ \A m \in Running \ {n} : overtaken'[m] = overtaken[m] /\ sent'[m] = sent[m]
      BY <2>3 DEF Broadcast, TypeOK
    <3>2. ~overtaken'[n] => index[n] = 1
      BY <3>1 DEF SentInv
    <3>3. \A i \in 1 .. (1 - 1) : FALSE
      OBVIOUS
    <3> QED
      BY <2>1, <3>1, <3>2, <3>3 DEF SentInv, loopVars
  <2> QED
    BY <2>1, <2>2, <2>3
<1>2. ASSUME NEW n \in Running, DoBcast(n) PROVE SentInv'
  <2>1. /\ index' = [index EXCEPT ![n] = index[n] + 1]
        /\ sent' = [sent EXCEPT ![n] = sent[n] \cup {index[n]}]
        /\ loopPc[n] = "bcast" /\ loopPc' = [loopPc EXCEPT ![n] = "bcast"]
        /\ UNCHANGED overtaken
    BY <1>2 DEF DoBcast, LoopStep
  <2>2. /\ index'[n] = index[n] + 1 /\ sent'[n] = sent[n] \cup {index[n]}
        /\ loopPc'[n] = "bcast"
        /\ \A m \in Running \ {n} : index'[m] = index[m] /\ sent'[m] = sent[m]
        /\ \A m \in Running : loopPc'[m] = loopPc[m]
    BY <2>1 DEF TypeOK
  <2>3. \A i \in 1 .. (index'[n] - 1) : i = index[n] \/ i \in 1 .. (index[n] - 1)
    BY <1>0, <2>2
  <2> QED
    BY <2>1, <2>2, <2>3 DEF SentInv
<1>3. ASSUME NEW n \in Running, DoBcastEnds(n) PROVE SentInv'
  <2>1. /\ index'[n] = 1
        /\ \A m \in Running \ {n} : UNCHANGED <<index[m], sent[m], overtaken[m], loopPc[m]>>
    BY <1>3 DEF DoBcastEnds, LowerFlag, LoopStep, TypeOK
  <2>2. \A i \in 1 .. (1 - 1) : FALSE
    OBVIOUS
  <2> QED
    BY <2>1, <2>2 DEF SentInv
<1>4. ASSUME UNCHANGED <<sent, overtaken, index>>,
             \A n \in Running : loopPc[n] = "bcast" => loopPc'[n] = "bcast"
      PROVE  SentInv'
  BY <1>4 DEF SentInv
<1>5. ASSUME NEW n \in Running,
             \/ Suspect(n) \/ StartRound(n) \/ NoOwnAddress(n) \/ KeepWaiting(n)
             \/ Reduce(n) \/ HeartbeatAges(n) \/ ProposeAges(n)
      PROVE  SentInv'
  BY <1>4, <1>5 DEF Suspect, StartRound, NoOwnAddress, KeepWaiting, Reduce,
                    HeartbeatAges, ProposeAges, slotVars, loopVars
<1>6. ASSUME NEW n \in Running,
             \/ CopyFlag(n) \/ SelectTimeout(n) \/ ProposeRead(n)
             \/ ProposeValue(n) \/ ProposeCount(n)
             \/ \E d \in net : Receive(n, d) \/ ProposeSocket(n, d)
      PROVE  SentInv'
  <2>1. /\ UNCHANGED <<sent, overtaken, index>>
        /\ \E from \in {"top", "select"} \cup Storing : \E to : LoopStep(n, from, to)
    BY <1>6 DEF CopyFlag, SelectTimeout, ProposeRead, ProposeValue, ProposeCount, Store,
                Receive, ProposeSocket, slotVars, Storing
  <2>2. \A m \in Running : loopPc[m] = "bcast" => loopPc'[m] = "bcast"
    BY <2>1 DEF LoopStep, TypeOK, Storing
  <2> QED
    BY <1>4, <2>1, <2>2
<1>7. CASE \/ \E m \in Controllers \ Running, n \in Running : OtherProposes(m, n)
           \/ \E d \in net : Lose(d)
           \/ UNCHANGED vars
  BY <1>4, <1>7 DEF OtherProposes, Lose, vars, slotVars, loopVars
<1> QED
  BY <1>1, <1>2, <1>3, <1>5, <1>6, <1>7 DEF Next, LeaderLoop, BroadcastLoop

(* do_bcast lowers new_bcast_message only when the message that is stored  *)
(* has been sent to every controller, unless broadcast() stored it while   *)
(* do_bcast was sending: line 67 of broadcast.c is the one way to forget a *)
(* message.                                                                *)
THEOREM ForgottenOnlyWhenOvertaken == Spec => SentBeforeForgotten
<1> DEFINE A == \A n \in Running : new_bcast_message[n] /\ ~new_bcast_message'[n] =>
                   sent[n] = Controllers \/ overtaken[n]
<1>1. Init => SentInv
  <2>1. \A i \in 1 .. (1 - 1) : FALSE
    OBVIOUS
  <2> QED
    BY <2>1 DEF Init, SentInv
<1>2. Spec => []SentInv
  BY <1>1, SentStep, LeaderInductive, PTL DEF Spec
<1>3. ASSUME LeaderInv, SentInv, [Next]_vars PROVE [A]_vars
  <2> SUFFICES ASSUME NEW n \in Running, new_bcast_message[n], ~new_bcast_message'[n],
                      ~overtaken[n]
               PROVE  sent[n] = Controllers
    OBVIOUS
  <2>1. new_bcast_message \in [Running -> BOOLEAN] /\ sent[n] \subseteq Controllers
    BY <1>3 DEF LeaderInv, TypeOK
  <2>2. PICK m \in Running : DoBcastEnds(m) \/ ProposeSelf(m) \/ Beat(m)
    BY <1>3 DEF Next, vars, slotVars, LeaderLoop, Suspect, StartRound, NoOwnAddress,
       KeepWaiting, Reduce, BroadcastLoop, CopyFlag, SelectTimeout, DoBcast, Receive,
       ProposeSocket, ProposeRead, ProposeValue, ProposeCount, Store, HeartbeatAges,
       ProposeAges, OtherProposes, Lose
  <2>3. DoBcastEnds(m) /\ m = n
    BY <2>1, <2>2 DEF ProposeSelf, Beat, Broadcast, slotVars, DoBcastEnds, LowerFlag
  <2>4. index[n] > N /\ \A i \in 1 .. (index[n] - 1) : i \in sent[n]
    BY <1>3, <2>3 DEF DoBcastEnds, SentInv
  <2>5. \A i \in Controllers : i \in 1 .. (index[n] - 1)
    BY <1>3, <2>4, NAssumption DEF Controllers, LeaderInv, TypeOK
  <2> QED
    BY <2>1, <2>4, <2>5
<1>4. Spec => [][A]_vars
  BY <1>2, <1>3, LeaderInductive, PTL DEF Spec
<1> QED
  BY <1>4 DEF SentBeforeForgotten
=============================================================================
