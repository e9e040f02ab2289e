-------------------------- MODULE ControllerProofs --------------------------
(***************************************************************************)
(* Proofs about Controller for every number of groups, slots, connections  *)
(* and addresses, and for every set of faults unless a theorem says which  *)
(* ones it excludes.                                                       *)
(***************************************************************************)
EXTENDS Controller, TLAPS

\* Facts about the constants that the steps below use.
LEMMA ConstantFacts ==
    /\ Main # NoOne
    /\ NoOne \notin Conn
    /\ NoOne \notin Fd
    /\ 0 \in Group
    /\ Main \in 0 .. Main
    /\ Conn \subseteq 0 .. Main
    /\ Group \subseteq Service
    /\ NoIP \notin IP
    /\ Uninit \notin Entry
    /\ Uninit.service \in Group
  BY SizesAssumption, NoIPAssumption
  DEF Main, NoOne, Conn, Fd, Group, Service, Uninit, Entry

LEMMA InitInv == Init => ControllerInv
  <1> SUFFICES ASSUME Init PROVE ControllerInv
    OBVIOUS
  <1> USE SizesAssumption DEF Init, NoOne
  <1>1. TypeOK
    BY ConstantFacts DEF TypeOK, NoMessage, MainPc, ThreadPc, VmState, Operation,
                         Group, Service, Main
  <1>2. TableCompact
    BY DEF TableCompact, Used
  <1>3. HandOver
    BY DEF HandOver
  <1>4. MainInv /\ PortsInv /\ CopyInv
    BY DEF MainInv, PortsInv, CopyInv, Used
  <1> QED
    BY <1>1, <1>2, <1>3, <1>4 DEF ControllerInv

-----------------------------------------------------------------------------
(* Steps that leave the table alone.                                       *)

\* A thread past its start moves on; the table, main and all copies stay.
LEMMA ThreadMoves ==
    ASSUME ControllerInv, NEW c \in Conn,
           pc[c] \notin {"none", "start"},
           NEW p \in ThreadPc \ {"none", "start"},
           pc' = [pc EXCEPT ![c] = p],
           UNCHANGED <<mutex, table, main, arg, vm>>
    PROVE  TableCompact' /\ HandOver' /\ MainInv' /\ PortsInv' /\ CopyInv'
  <1> USE DEF ControllerInv, table, main
  <1>1. pc \in [Conn -> ThreadPc]
    BY DEF TypeOK
  <1>2. \A d \in Conn : pc'[d] = "start" <=> pc[d] = "start"
    BY <1>1
  <1>3. \A d \in Conn : pc'[d] \notin {"none", "start"} => pc[d] \notin {"none", "start"}
    BY <1>1
  <1>4. TableCompact'
    BY DEF TableCompact, Used
  <1>5. HandOver'
    BY <1>2 DEF HandOver, Used
  <1>6. MainInv' /\ PortsInv'
    BY DEF MainInv, PortsInv, Used
  <1>7. CopyInv'
    BY <1>3 DEF CopyInv
  <1> QED
    BY <1>4, <1>5, <1>6, <1>7

\* Only the mailbox, the descriptors, the balancer_thread or the peers change.
LEMMA TableUnchanged ==
    ASSUME ControllerInv, UNCHANGED <<mutex, table, main, threads>>
    PROVE  TableCompact' /\ HandOver' /\ MainInv' /\ PortsInv' /\ CopyInv'
  BY DEF ControllerInv, table, main, threads, TableCompact, HandOver, MainInv,
         PortsInv, CopyInv, Used

\* main moves on within the handshake, or leaves it: the table, the mutex, the
\* threads and the current connection stay.
LEMMA HandshakeMoves ==
    ASSUME ControllerInv, UNCHANGED <<mutex, table, threads, accepted, client, msock>>,
           mpc \in {"info", "reply", "again"},
           mpc' \in {"accept", "reply", "again", "insert"},
           mpc' = "insert" => s'.service \in Group
    PROVE  TableCompact' /\ HandOver' /\ MainInv' /\ PortsInv' /\ CopyInv'
  <1> USE DEF ControllerInv, table, threads
  <1>1. TableCompact' /\ CopyInv'
    BY DEF TableCompact, CopyInv, Used
  <1>2. HandOver'
    BY DEF HandOver, Used
  <1>3. MainInv'
    BY DEF MainInv
  <1>4. PortsInv'
    BY DEF PortsInv, Used
  <1> QED
    BY <1>1, <1>2, <1>3, <1>4

LEMMA StutterInv == ControllerInv /\ UNCHANGED vars => ControllerInv'
  <1> SUFFICES ASSUME ControllerInv, UNCHANGED vars PROVE ControllerInv'
    OBVIOUS
  <1>1. TableCompact' /\ HandOver' /\ MainInv' /\ PortsInv' /\ CopyInv'
    BY TableUnchanged DEF vars, shared
  <1>2. TypeOK'
    BY DEF ControllerInv, TypeOK, vars, shared, table, main, threads, peers
  <1> QED
    BY <1>1, <1>2 DEF ControllerInv

-----------------------------------------------------------------------------
(* The main thread.                                                        *)

LEMMA AcceptInv ==
    ASSUME ControllerInv, NEW ip \in IP, Accept(ip)
    PROVE  ControllerInv'
  <1> USE DEF ControllerInv
  <1>1. UNCHANGED <<mutex, table, threads>>
    BY DEF Accept, shared
  <1>2. accepted' = accepted + 1 /\ accepted' \in Conn /\ accepted \in Nat
    BY SizesAssumption DEF Accept, TypeOK, Conn
  <1>3. msock' \in Fd /\ client' \in IP /\ fd' \in [Fd -> Conn \union {NoOne}]
    BY <1>2 DEF Accept, TypeOK
  <1>4. TypeOK'
    <2>1. UNCHANGED <<shared, s, bpc, peers>> /\ mpc' \in MainPc
      BY DEF Accept, MainPc
    <2>2. accepted' \in 0 .. MaxConn
      BY <1>2 DEF Conn
    <2> QED
      BY SMTT(30), <1>1, <1>3, <2>1, <2>2 DEF TypeOK, shared, table, threads, peers
  <1>5. TableCompact' /\ CopyInv'
    BY <1>1 DEF TableCompact, CopyInv, Used, table, threads
  <1>6. HandOver'
    BY <1>1 DEF HandOver, Used, table, threads, Accept
  <1>7. MainInv'
    BY <1>2, <1>3 DEF MainInv, Accept
  <1>8. PortsInv'
    <2>1. \A g \in Group : \A i \in Used(g) : /\ vm_data_set[g][i].port \in Nat
                                              /\ vm_data_set[g][i].port <= accepted
      BY DEF PortsInv, TableCompact, Entry, Conn
    <2> QED
      BY <1>1, <1>2, <2>1 DEF PortsInv, Used, table, Accept
  <1> QED
    BY <1>4, <1>5, <1>6, <1>7, <1>8

LEMMA HandshakeInv ==
    ASSUME ControllerInv,
           RecvInfo \/ RecvInfoFails \/ Reply \/ RecvAgain \/ RecvAgainFails
    PROVE  ControllerInv'
  <1> USE DEF ControllerInv
  <1>1. UNCHANGED <<mutex, table, threads, accepted, client, msock>>
    BY DEF RecvInfo, RecvInfoFails, Reply, RecvAgain, RecvAgainFails, shared
  <1>2. /\ mpc \in {"info", "reply", "again"}
        /\ mpc' \in {"accept", "reply", "again", "insert"}
    BY DEF RecvInfo, RecvInfoFails, Reply, RecvAgain, RecvAgainFails
  <1>3. mpc' = "insert" => s'.service \in Group
    BY SizesAssumption DEF RecvInfo, RecvInfoFails, Reply, RecvAgain, RecvAgainFails,
                           TypeOK, Service, Group
  <1>4. s' \in [service : Service, state : VmState]
    BY DEF RecvInfo, RecvInfoFails, Reply, RecvAgain, RecvAgainFails, TypeOK
  <1>5. fd' \in [Fd -> Conn \union {NoOne}]
    BY DEF RecvInfo, RecvInfoFails, Reply, RecvAgain, RecvAgainFails, TypeOK, Closed
  <1>6. UNCHANGED <<shared, bpc, peers>>
    BY DEF RecvInfo, RecvInfoFails, Reply, RecvAgain, RecvAgainFails
  <1>7. TypeOK'
    BY SMTT(30), <1>1, <1>2, <1>4, <1>5, <1>6
    DEF TypeOK, shared, table, threads, peers, MainPc
  <1> QED
    BY <1>1, <1>2, <1>3, <1>7, HandshakeMoves

\* The entry of the connection main is handling.
NewEntry == [socket |-> msock, ip_address |-> client, port |-> accepted,
             service |-> s.service, state |-> s.state]

\* The new machine is in slot n of group g, which exists; the slots in use stay
\* as they are.
Inserted(g, n) ==
    /\ g \in Group /\ n \in Nat /\ accepted \in Nat
    /\ NewEntry \in Entry /\ NewEntry.port = accepted /\ NewEntry.service = g
    /\ allocated_vms' \in [Group -> Nat \ {0}]
    /\ current_vms' \in [Group -> Nat]
    /\ current_vms'[g] = n + 1
    /\ n < allocated_vms'[g]
    /\ DOMAIN vm_data_set' = Group
    /\ \A h \in Group \ {g} : /\ current_vms'[h] = current_vms[h]
                              /\ allocated_vms'[h] = allocated_vms[h]
                              /\ vm_data_set'[h] = vm_data_set[h]
    /\ vm_data_set'[g] \in [0 .. (allocated_vms'[g] - 1) -> Entry \union {Uninit}]
    /\ vm_data_set'[g][n] = NewEntry
    /\ \A i \in 0 .. (n - 1) : vm_data_set'[g][i] = vm_data_set[g][i]

\* Insertion takes the first free slot of the group, enlarged if it was full.
LEMMA InsertEffect ==
    ASSUME ControllerInv, Insert, NEW g, g = s.service, NEW n, n = current_vms[g]
    PROVE  Inserted(g, n)
  <1> USE DEF ControllerInv
  <1>1. g \in Group /\ n \in Nat /\ NewEntry \in Entry /\ accepted \in Nat
    BY DEF Insert, MainInv, TypeOK, Entry, NewEntry
  <1>2. /\ allocated_vms[g] \in Nat /\ allocated_vms[g] > 0
        /\ n <= allocated_vms[g]
    BY <1>1 DEF TypeOK, TableCompact
  <1>3. /\ allocated_vms' \in [Group -> Nat \ {0}]
        /\ current_vms' \in [Group -> Nat]
        /\ current_vms'[g] = n + 1
        /\ n < allocated_vms'[g]
        /\ \A h \in Group \ {g} : /\ current_vms'[h] = current_vms[h]
                                  /\ allocated_vms'[h] = allocated_vms[h]
    <2>1. /\ current_vms' = [current_vms EXCEPT ![g] = n + 1]
          /\ allocated_vms' = IF n = allocated_vms[g]
                              THEN [allocated_vms EXCEPT ![g] = 2 * allocated_vms[g]]
                              ELSE allocated_vms
      BY DEF Insert, Full
    <2>2. current_vms \in [Group -> Nat] /\ allocated_vms \in [Group -> Nat \ {0}]
      BY DEF TypeOK
    <2>3. 2 * allocated_vms[g] \in Nat \ {0} /\ n + 1 \in Nat
      BY <1>1, <1>2
    <2> QED
      BY <1>1, <1>2, <2>1, <2>2, <2>3
  <1> DEFINE slots == IF Full(g) THEN Grown(g) ELSE vm_data_set[g]
  <1>4. slots \in [0 .. (allocated_vms'[g] - 1) -> Entry \union {Uninit}]
    <2>1. CASE Full(g)
      <3>1. allocated_vms'[g] = 2 * allocated_vms[g]
        BY <2>1, <1>1 DEF Insert, TypeOK
      <3>2. vm_data_set[g] \in [0 .. (allocated_vms[g] - 1) -> Entry \union {Uninit}]
        BY <1>1 DEF TypeOK
      <3> QED
        BY SMTT(30), <2>1, <3>1, <3>2, <1>2 DEF Grown
    <2>2. CASE ~Full(g)
      <3>1. allocated_vms'[g] = allocated_vms[g]
        BY <2>2, <1>1 DEF Insert, TypeOK
      <3> QED
        BY <2>2, <3>1, <1>1 DEF TypeOK
    <2> QED
      BY <2>1, <2>2
  <1>5. \A i \in 0 .. (n - 1) : slots[i] = vm_data_set[g][i]
    BY <1>1, <1>2 DEF Grown
  <1>6. /\ vm_data_set' = [vm_data_set EXCEPT ![g] = [slots EXCEPT ![n] = NewEntry]]
        /\ DOMAIN vm_data_set = Group
    BY DEF Insert, TypeOK, NewEntry
  <1>7. NewEntry.port = accepted /\ NewEntry.service = g
    BY DEF NewEntry
  <1> HIDE DEF slots
  <1>8. /\ vm_data_set'[g] = [slots EXCEPT ![n] = NewEntry]
        /\ DOMAIN vm_data_set' = Group
        /\ \A h \in Group \ {g} : vm_data_set'[h] = vm_data_set[h]
    BY <1>1, <1>6
  <1>9. /\ vm_data_set'[g] \in [0 .. (allocated_vms'[g] - 1) -> Entry \union {Uninit}]
        /\ vm_data_set'[g][n] = NewEntry
        /\ \A i \in 0 .. (n - 1) : vm_data_set'[g][i] = vm_data_set[g][i]
    BY <1>1, <1>3, <1>4, <1>5, <1>8
  <1> QED
    BY <1>1, <1>3, <1>7, <1>8, <1>9 DEF Inserted

LEMMA InsertInv ==
    ASSUME ControllerInv, Insert
    PROVE  ControllerInv'
  <1> USE DEF ControllerInv
  <1> DEFINE g == s.service
             n == current_vms[g]
             e == NewEntry
  <1>0. Inserted(g, n)
    BY InsertEffect
  <1>1. g \in Group /\ n \in Nat /\ e \in Entry /\ accepted \in Nat
    BY <1>0 DEF Inserted
  <1>2. /\ allocated_vms' \in [Group -> Nat \ {0}]
        /\ current_vms' \in [Group -> Nat]
        /\ current_vms'[g] = n + 1
        /\ n < allocated_vms'[g]
        /\ \A h \in Group \ {g} : /\ current_vms'[h] = current_vms[h]
                                  /\ allocated_vms'[h] = allocated_vms[h]
    BY <1>0 DEF Inserted
  <1>3. /\ DOMAIN vm_data_set' = Group
        /\ \A h \in Group \ {g} : vm_data_set'[h] = vm_data_set[h]
    BY <1>0 DEF Inserted
  <1>4. /\ vm_data_set'[g] \in [0 .. (allocated_vms'[g] - 1) -> Entry \union {Uninit}]
        /\ vm_data_set'[g][n] = e
        /\ \A i \in 0 .. (n - 1) : vm_data_set'[g][i] = vm_data_set[g][i]
    BY <1>0 DEF Inserted
  <1>5. e.port = accepted /\ e.service = g
    BY <1>0 DEF Inserted
  <1> HIDE DEF e
  <1>6. \A i \in 0 .. (n - 1) : /\ vm_data_set[g][i].port # accepted
                                /\ vm_data_set[g][i].port <= accepted
                                /\ vm_data_set[g][i] \in Entry
                                /\ vm_data_set[g][i].service = g
    BY <1>1 DEF Insert, PortsInv, TableCompact, Used
  <1>7. TypeOK'
    <2>1. \A h \in Group : vm_data_set'[h] \in
                              [0 .. (allocated_vms'[h] - 1) -> Entry \union {Uninit}]
      BY <1>2, <1>3, <1>4 DEF TypeOK
    <2> QED
      BY <2>1, <1>2, <1>3 DEF TypeOK, Insert, MainPc, threads, peers
  <1>8. TableCompact'
    <2> SUFFICES ASSUME NEW h \in Group
                 PROVE  /\ current_vms'[h] <= allocated_vms'[h]
                        /\ \A i \in 0 .. (current_vms'[h] - 1) :
                              /\ vm_data_set'[h][i] \in Entry
                              /\ vm_data_set'[h][i].service = h
                        /\ \A i, j \in 0 .. (current_vms'[h] - 1) :
                              vm_data_set'[h][i].port = vm_data_set'[h][j].port => i = j
      BY DEF TableCompact, Used
    <2>1. CASE h # g
      BY <2>1, <1>2, <1>3 DEF TableCompact, Used
    <2>2. CASE h = g
      <3>1. current_vms'[g] <= allocated_vms'[g]
        BY SMTT(30), <1>1, <1>2 DEF TypeOK
      <3>2. \A i \in 0 .. n : i = n \/ i \in 0 .. (n - 1)
        BY <1>1
      <3>3. \A i \in 0 .. n : vm_data_set'[g][i] \in Entry /\ vm_data_set'[g][i].service = g
        BY <1>1, <1>4, <1>5, <1>6, <3>2
      <3>4. \A i, j \in 0 .. (n - 1) :
               vm_data_set[g][i].port = vm_data_set[g][j].port => i = j
        BY <1>1 DEF TableCompact, Used
      <3>5. \A i, j \in 0 .. n :
               vm_data_set'[g][i].port = vm_data_set'[g][j].port => i = j
        BY <1>4, <1>5, <1>6, <3>2, <3>4
      <3>6. current_vms'[g] - 1 = n
        BY <1>1, <1>2
      <3> QED
        BY <2>2, <3>1, <3>3, <3>5, <3>6
    <2> QED
      BY <2>1, <2>2
  <1>9. HandOver'
    <2>1. mutex' = Main /\ mutex = NoOne /\ UNCHANGED pc
      BY DEF Insert, threads
    <2>2. \A c \in Conn : pc[c] # "start"
      BY <2>1, ConstantFacts DEF HandOver
    <2> QED
      BY <2>1, <2>2 DEF HandOver
  <1>10. MainInv' /\ CopyInv'
    BY DEF MainInv, CopyInv, Insert, threads
  <1>11. PortsInv'
    <2>1. mpc' \in {"publish", "create"} /\ UNCHANGED <<s, accepted>>
      BY DEF Insert
    <2>2. \A h \in Group : \A i \in 0 .. (current_vms'[h] - 1) :
              vm_data_set'[h][i].port <= accepted
      <3> SUFFICES ASSUME NEW h \in Group, NEW i \in 0 .. (current_vms'[h] - 1)
                   PROVE  vm_data_set'[h][i].port <= accepted
        OBVIOUS
      <3>1. CASE h # g
        BY <3>1, <1>2, <1>3 DEF PortsInv, Used
      <3>2. CASE h = g /\ i = n
        BY <3>2, <1>1, <1>4, <1>5
      <3>3. CASE h = g /\ i # n
        <4>1. i \in 0 .. (n - 1)
          BY <3>3, <1>1, <1>2
        <4> QED
          BY <3>3, <4>1, <1>4, <1>6
      <3> QED
        BY <3>1, <3>2, <3>3
    <2>3. current_vms'[g] > 0 /\ vm_data_set'[g][current_vms'[g] - 1].port = accepted
      BY <1>1, <1>2, <1>4, <1>5
    <2> QED
      BY <2>1, <2>2, <2>3 DEF PortsInv, Used
  <1> QED
    BY <1>7, <1>8, <1>9, <1>10, <1>11

LEMMA PublishAddInv ==
    ASSUME ControllerInv, PublishAdd
    PROVE  ControllerInv'
  <1> USE DEF ControllerInv, PublishAdd
  <1>1. TypeOK'
    BY ConstantFacts DEF TypeOK, Publish, FillMailbox, MainInv, MainPc, Operation,
                         table, threads, peers
  <1>2. TableCompact' /\ CopyInv'
    BY DEF TableCompact, CopyInv, Used, table, threads
  <1>3. HandOver'
    BY DEF HandOver, Used, table, threads
  <1>4. MainInv' /\ PortsInv'
    BY DEF MainInv, PortsInv, Used, table
  <1> QED
    BY <1>1, <1>2, <1>3, <1>4

\* The mutex stays locked: from here on it protects the slot of the new thread.
LEMMA CreateThreadInv ==
    ASSUME ControllerInv, CreateThread
    PROVE  ControllerInv'
  <1> USE DEF ControllerInv, CreateThread
  <1> DEFINE g == s.service
  <1>1. g \in Group /\ accepted \in Conn /\ current_vms[g] \in Nat /\ current_vms[g] > 0
    BY DEF MainInv, TypeOK, PortsInv
  <1>2. pc \in [Conn -> ThreadPc] /\ \A c \in Conn : pc[c] # "start"
    BY DEF TypeOK, HandOver
  <1>3. \A c \in Conn : pc'[c] = IF c = accepted THEN "start" ELSE pc[c]
    BY <1>1, <1>2
  <1>4. /\ arg'[accepted].service = g
        /\ arg'[accepted].index = current_vms[g] - 1
        /\ arg' \in [Conn -> [service : Group, index : Nat]]
    <2> DEFINE a == [service |-> g, index |-> current_vms[g] - 1]
    <2>1. a \in [service : Group, index : Nat]
      BY <1>1
    <2>2. arg \in [Conn -> [service : Group, index : Nat]]
      BY DEF TypeOK
    <2>3. arg' = [arg EXCEPT ![accepted] = a]
      OBVIOUS
    <2> HIDE DEF ControllerInv, CreateThread
    <2> QED
      BY <1>1, <2>1, <2>2, <2>3
  <1>5. TypeOK'
    BY <1>1, <1>4 DEF TypeOK, shared, table, peers, MainPc, ThreadPc
  <1>6. TableCompact' /\ MainInv' /\ PortsInv'
    BY DEF TableCompact, MainInv, PortsInv, Used, table
  <1>7. CopyInv'
    BY <1>3 DEF CopyInv
  <1>8. HandOver'
    <2>1. mutex' = Main
      BY DEF HandOver, shared
    <2>2. /\ current_vms[g] - 1 \in Used(g)
          /\ vm_data_set[g][current_vms[g] - 1].port = accepted
      BY <1>1 DEF PortsInv, Used
    <2> QED
      BY <1>2, <1>3, <1>4, <2>1, <2>2 DEF HandOver, Used, table
  <1> QED
    BY <1>5, <1>6, <1>7, <1>8

LEMMA CreateThreadFailsInv ==
    ASSUME ControllerInv, CreateThreadFails
    PROVE  ControllerInv'
  <1> USE DEF ControllerInv, CreateThreadFails
  <1>1. TypeOK'
    BY SizesAssumption DEF TypeOK, table, threads, peers, MainPc, NoOne, Main
  <1>2. TableCompact' /\ CopyInv' /\ MainInv' /\ PortsInv'
    BY DEF TableCompact, CopyInv, MainInv, PortsInv, Used, table, threads
  <1>3. HandOver'
    BY DEF HandOver, threads
  <1> QED
    BY <1>1, <1>2, <1>3

-----------------------------------------------------------------------------
(* The communication_threads.                                              *)

\* The copy is made while the mutex still protects the slot.
LEMMA StartInv ==
    ASSUME ControllerInv, NEW c \in Conn, Start(c)
    PROVE  ControllerInv'
  <1> USE DEF ControllerInv
  <1> DEFINE g == arg[c].service
             i == arg[c].index
  <1>1. g \in Group /\ i \in Used(g) /\ vm_data_set[g][i].port = c
    BY DEF Start, HandOver, TypeOK
  <1>2. vm_data_set[g][i] \in Entry
    BY <1>1 DEF TableCompact
  <1>3. /\ vm' = [vm EXCEPT ![c] = vm_data_set[g][i]]
        /\ vm \in [Conn -> Entry \union {Uninit}]
        /\ pc \in [Conn -> ThreadPc]
    BY DEF Start, TypeOK
  <1>4. /\ vm' \in [Conn -> Entry \union {Uninit}]
        /\ vm'[c] = vm_data_set[g][i]
        /\ \A d \in Conn \ {c} : vm'[d] = vm[d]
    BY <1>2, <1>3
  <1>5. PICK p \in {"recv", "spin"} : pc' = [pc EXCEPT ![c] = p]
    BY DEF Start
  <1>6. /\ pc' \in [Conn -> ThreadPc]
        /\ pc'[c] # "start"
        /\ \A d \in Conn \ {c} : pc'[d] = pc[d]
    BY <1>3, <1>5 DEF ThreadPc
  <1>7. TypeOK'
    BY <1>4, <1>6 DEF TypeOK, Start, table, main, peers
  <1>8. TableCompact' /\ MainInv' /\ PortsInv'
    BY DEF TableCompact, MainInv, PortsInv, Used, Start, table, main
  <1>9. \A d \in Conn : pc'[d] # "start"
    BY <1>6 DEF Start, HandOver
  <1>10. mpc' \notin {"publish", "create"}
    BY DEF Start, HandOver, main
  <1>11. HandOver'
    BY <1>9, <1>10 DEF HandOver
  <1>12. CopyInv'
    BY <1>1, <1>2, <1>4, <1>6 DEF CopyInv
  <1> QED
    BY <1>7, <1>8, <1>11, <1>12

\* Steps that only move the thread, and perhaps close its descriptor.
LEMMA QuietThreadInv ==
    ASSUME ControllerInv, NEW c \in Conn,
           \/ RecvFeatures(c) \/ RecvFails(c) \/ SendContinue(c) \/ SendContinueFails(c)
           \/ SendRejuvenateFails(c) \/ CloseInSwitch(c) \/ Close(c)
    PROVE  ControllerInv'
  <1> USE DEF ControllerInv
  <1>1. pc[c] \notin {"none", "start"}
    BY DEF RecvFeatures, RecvFails, SendContinue, SendContinueFails,
           SendRejuvenateFails, CloseInSwitch, Close
  <1>2. PICK p \in ThreadPc \ {"none", "start"} : pc' = [pc EXCEPT ![c] = p]
    BY DEF RecvFeatures, RecvFails, SendContinue, SendContinueFails,
           SendRejuvenateFails, CloseInSwitch, Close, ThreadPc
  <1>3. UNCHANGED <<shared, table, main, arg, vm, bpc, peers>>
    BY DEF RecvFeatures, RecvFails, SendContinue, SendContinueFails,
           SendRejuvenateFails, CloseInSwitch, Close
  <1>4. fd' \in [Fd -> Conn \union {NoOne}]
    BY DEF RecvFeatures, RecvFails, SendContinue, SendContinueFails,
           SendRejuvenateFails, CloseInSwitch, Close, TypeOK, Closed
  <1>5. TypeOK'
    BY <1>2, <1>3, <1>4 DEF TypeOK, shared, table, main, peers
  <1>6. UNCHANGED mutex
    BY <1>3 DEF shared
  <1> QED
    BY <1>1, <1>2, <1>3, <1>5, <1>6, ThreadMoves

LEMMA SendRejuvenateInv ==
    ASSUME ControllerInv, NEW c \in Conn, SendRejuvenate(c)
    PROVE  ControllerInv'
  <1> USE DEF ControllerInv, SendRejuvenate
  <1>1. pc[c] \notin {"none", "start"} /\ pc' = [pc EXCEPT ![c] = "pubrej"]
    OBVIOUS
  <1>2. fd[vm[c].socket] \in Conn
    <2>1. vm[c].socket \in Fd
      BY <1>1 DEF CopyInv, Entry
    <2> QED
      BY <2>1 DEF TypeOK
  <1>3. TypeOK'
    BY <1>2 DEF TypeOK, shared, table, main, ThreadPc
  <1>4. UNCHANGED mutex
    BY DEF shared
  <1> QED
    BY <1>1, <1>3, <1>4, ThreadMoves DEF ThreadPc

LEMMA ThreadPublishInv ==
    ASSUME ControllerInv, NEW c \in Conn, PublishRej(c) \/ PublishDelete(c)
    PROVE  ControllerInv'
  <1> USE DEF ControllerInv
  <1>1. pc[c] \notin {"none", "start"}
    BY DEF PublishRej, PublishDelete
  <1>2. PICK p \in ThreadPc \ {"none", "start"} : pc' = [pc EXCEPT ![c] = p]
    BY DEF PublishRej, PublishDelete, ThreadPc
  <1>3. UNCHANGED <<mutex, table, fd, main, arg, vm, bpc, peers>>
    BY DEF PublishRej, PublishDelete
  <1>4. vm[c].ip_address \in IP /\ vm[c].service \in Group
    BY <1>1 DEF CopyInv, Entry
  <1>5. /\ manage_vm_mutex' \in 0 .. Main
        /\ state_man_vm' \in {0, 1}
        /\ virt_machine' \in [ip : IP \union {NoIP}, service : Group,
                              op : Operation, conn : Conn \union {NoOne}]
    BY <1>4, ConstantFacts DEF PublishRej, PublishDelete, Publish, FillMailbox, Operation
  <1>6. TypeOK'
    BY <1>2, <1>3, <1>5 DEF TypeOK, table, main, peers
  <1> QED
    BY <1>1, <1>2, <1>3, <1>6, ThreadMoves

\* Promotion changes one field of one used slot.
LEMMA SwitchEffect ==
    ASSUME ControllerInv, NEW c \in Conn, SwitchActive(c)
    PROVE  /\ DOMAIN vm_data_set' = Group
           /\ \A h \in Group : vm_data_set'[h] \in
                                  [0 .. (allocated_vms[h] - 1) -> Entry \union {Uninit}]
           /\ \A h \in Group : \A j \in Used(h) :
                 /\ vm_data_set'[h][j] \in Entry
                 /\ vm_data_set'[h][j].port = vm_data_set[h][j].port
                 /\ vm_data_set'[h][j].service = vm_data_set[h][j].service
                 /\ vm_data_set'[h][j].ip_address = vm_data_set[h][j].ip_address
  <1> USE DEF ControllerInv
  <1>1. pc[c] \notin {"none", "start"}
    BY DEF SwitchActive
  <1>2. CASE UNCHANGED vm_data_set
    BY <1>2 DEF TypeOK, TableCompact
  <1>3. ASSUME NEW i \in Used(vm[c].service),
               vm_data_set' = [vm_data_set EXCEPT ![vm[c].service][i].state = "ACTIVE"]
        PROVE  /\ DOMAIN vm_data_set' = Group
               /\ \A h \in Group : vm_data_set'[h] \in
                                      [0 .. (allocated_vms[h] - 1) -> Entry \union {Uninit}]
               /\ \A h \in Group : \A j \in Used(h) :
                     /\ vm_data_set'[h][j] \in Entry
                     /\ vm_data_set'[h][j].port = vm_data_set[h][j].port
                     /\ vm_data_set'[h][j].service = vm_data_set[h][j].service
                     /\ vm_data_set'[h][j].ip_address = vm_data_set[h][j].ip_address
    <2> DEFINE g == vm[c].service
               e == vm_data_set[g][i]
               f == [e EXCEPT !.state = "ACTIVE"]
    <2>1. g \in Group
      BY <1>1 DEF CopyInv, Entry
    <2>2. e \in Entry /\ i \in 0 .. (allocated_vms[g] - 1)
      <3>1. e \in Entry /\ current_vms[g] <= allocated_vms[g]
        BY <2>1, <1>3 DEF TableCompact
      <3>2. current_vms[g] \in Nat /\ allocated_vms[g] \in Nat
        BY <2>1 DEF TypeOK
      <3> QED
        BY <3>1, <3>2, <1>3 DEF Used
    <2>3. /\ vm_data_set' = [vm_data_set EXCEPT ![g] = [vm_data_set[g] EXCEPT ![i] = f]]
          /\ DOMAIN vm_data_set = Group
          /\ vm_data_set[g] \in [0 .. (allocated_vms[g] - 1) -> Entry \union {Uninit}]
      BY <1>3, <2>1 DEF TypeOK
    <2>4. /\ f \in Entry /\ f.port = e.port /\ f.service = e.service
          /\ f.ip_address = e.ip_address
      BY <2>2 DEF Entry, VmState
    <2> HIDE DEF e, f
    <2>5. /\ DOMAIN vm_data_set' = Group
          /\ vm_data_set'[g] \in [0 .. (allocated_vms[g] - 1) -> Entry \union {Uninit}]
          /\ vm_data_set'[g][i] = f
          /\ \A h \in Group \ {g} : vm_data_set'[h] = vm_data_set[h]
          /\ \A j \in 0 .. (allocated_vms[g] - 1) : j # i => vm_data_set'[g][j] = vm_data_set[g][j]
      BY <2>1, <2>2, <2>3, <2>4
    <2>6. ASSUME NEW h \in Group, NEW j \in Used(h)
          PROVE  /\ vm_data_set'[h][j] \in Entry
                 /\ vm_data_set'[h][j].port = vm_data_set[h][j].port
                 /\ vm_data_set'[h][j].service = vm_data_set[h][j].service
                 /\ vm_data_set'[h][j].ip_address = vm_data_set[h][j].ip_address
      <3>1. CASE h # g
        BY <3>1, <2>5 DEF TableCompact
      <3>2. CASE h = g /\ j = i
        BY <3>2, <2>4, <2>5 DEF e
      <3>3. CASE h = g /\ j # i
        <4>1. j \in 0 .. (allocated_vms[g] - 1)
          BY SMTT(30), <3>3, <2>1 DEF TableCompact, Used, TypeOK
        <4> QED
          BY <3>3, <4>1, <2>5 DEF TableCompact
      <3> QED
        BY <3>1, <3>2, <3>3
    <2>7. \A h \in Group : vm_data_set'[h] \in
                              [0 .. (allocated_vms[h] - 1) -> Entry \union {Uninit}]
      BY <2>5 DEF TypeOK
    <2> QED
      BY <2>5, <2>6, <2>7
  <1> QED
    BY <1>2, <1>3 DEF SwitchActive

LEMMA SwitchActiveInv ==
    ASSUME ControllerInv, NEW c \in Conn, SwitchActive(c)
    PROVE  ControllerInv'
  <1> USE DEF ControllerInv
  <1>1. /\ pc[c] \notin {"none", "start"}
        /\ pc' = [pc EXCEPT ![c] = "rejuvenate"]
        /\ mutex = NoOne
        /\ UNCHANGED <<shared, current_vms, allocated_vms, fd, main, arg, vm, bpc, peers>>
    BY DEF SwitchActive
  <1>2. \A h \in Group : \A j \in Used(h) :
           /\ vm_data_set'[h][j] \in Entry
           /\ vm_data_set'[h][j].port = vm_data_set[h][j].port
           /\ vm_data_set'[h][j].service = vm_data_set[h][j].service
    BY SwitchEffect
  <1>3. TypeOK'
    <2>1. /\ DOMAIN vm_data_set' = Group
          /\ \A h \in Group : vm_data_set'[h] \in
                                 [0 .. (allocated_vms[h] - 1) -> Entry \union {Uninit}]
      BY SwitchEffect
    <2> QED
      BY <1>1, <2>1 DEF TypeOK, shared, main, peers, ThreadPc
  <1>4. TableCompact'
    BY <1>1, <1>2 DEF TableCompact, Used
  <1>5. \A d \in Conn : pc[d] # "start"
    BY <1>1, ConstantFacts DEF HandOver
  <1>6. \A d \in Conn : /\ pc'[d] # "start"
                        /\ pc'[d] \notin {"none", "start"} => pc[d] \notin {"none", "start"}
    BY <1>1, <1>5 DEF TypeOK
  <1>7. mpc \notin {"publish", "create"} /\ UNCHANGED mpc
    BY <1>1, ConstantFacts DEF HandOver, main
  <1>8. HandOver'
    BY <1>6, <1>7 DEF HandOver
  <1>9. MainInv' /\ CopyInv'
    BY <1>1, <1>6 DEF MainInv, CopyInv, main
  <1>10. PortsInv'
    BY <1>1, <1>2, <1>7 DEF PortsInv, Used, main
  <1> QED
    BY <1>3, <1>4, <1>8, <1>9, <1>10

\* Slot i of group g has been filled with the last one in use, which was n.
Compacted(g, i, n) ==
    /\ allocated_vms[g] \in Nat /\ current_vms[g] <= allocated_vms[g]
    /\ n \in Nat /\ i \in 0 .. n /\ n \in Used(g) /\ n < allocated_vms[g]
    /\ current_vms' \in [Group -> Nat]
    /\ current_vms'[g] = n
    /\ \A h \in Group \ {g} : current_vms'[h] = current_vms[h]
    /\ DOMAIN vm_data_set' = Group
    /\ vm_data_set'[g] \in [0 .. (allocated_vms[g] - 1) -> Entry \union {Uninit}]
    /\ \A h \in Group \ {g} : vm_data_set'[h] = vm_data_set[h]
    /\ \A j \in 0 .. (allocated_vms[g] - 1) :
          vm_data_set'[g][j] = vm_data_set[g][IF j = i THEN n ELSE j]

\* What the loop of manage_disconnected_vms does when it finds a machine.
LEMMA RemoveEffect ==
    ASSUME ControllerInv, NEW g \in Group, NEW i \in Used(g),
           NEW n, n = current_vms[g] - 1,
           current_vms' = [current_vms EXCEPT ![g] = @ - 1],
           vm_data_set' = [vm_data_set EXCEPT ![g][i] = vm_data_set[g][current_vms[g] - 1]]
    PROVE  Compacted(g, i, n)
  <1> USE DEF ControllerInv
  <1>1. /\ current_vms \in [Group -> Nat] /\ allocated_vms[g] \in Nat
        /\ current_vms[g] <= allocated_vms[g]
    BY DEF TypeOK, TableCompact
  <1>2. n \in Nat /\ i \in 0 .. n /\ n \in Used(g) /\ n < allocated_vms[g]
    BY <1>1 DEF Used
  <1>3. /\ current_vms' \in [Group -> Nat]
        /\ current_vms'[g] = n
        /\ \A h \in Group \ {g} : current_vms'[h] = current_vms[h]
    BY <1>1, <1>2
  <1>4. vm_data_set[g][n] \in Entry
    BY <1>2 DEF TableCompact
  <1>5. /\ vm_data_set' = [vm_data_set EXCEPT ![g] =
                              [vm_data_set[g] EXCEPT ![i] = vm_data_set[g][n]]]
        /\ DOMAIN vm_data_set = Group
        /\ vm_data_set[g] \in [0 .. (allocated_vms[g] - 1) -> Entry \union {Uninit}]
    BY DEF TypeOK
  <1>6. /\ DOMAIN vm_data_set' = Group
        /\ vm_data_set'[g] \in [0 .. (allocated_vms[g] - 1) -> Entry \union {Uninit}]
        /\ \A h \in Group \ {g} : vm_data_set'[h] = vm_data_set[h]
        /\ \A j \in 0 .. (allocated_vms[g] - 1) :
              vm_data_set'[g][j] = vm_data_set[g][IF j = i THEN n ELSE j]
    <2>1. i \in 0 .. (allocated_vms[g] - 1)
      BY <1>1, <1>2
    <2> QED
      BY <1>4, <1>5, <2>1
  <1> QED
    BY <1>1, <1>2, <1>3, <1>6 DEF Compacted

\* The used slots stay without gaps and every remaining machine keeps one slot.
LEMMA RemoveVmInv ==
    ASSUME ControllerInv, NEW c \in Conn, NEW p \in ThreadPc \ {"none", "start"},
           pc[c] \notin {"none", "start"},
           pc' = [pc EXCEPT ![c] = p],
           RemoveVm(vm[c]),
           UNCHANGED <<manage_vm_mutex, state_man_vm, virt_machine, fd, main, arg, vm,
                       bpc, peers>>
    PROVE  ControllerInv'
  <1> USE DEF ControllerInv
  <1>0. PICK g : g = vm[c].service
    OBVIOUS
  <1>1. g \in Group
    BY <1>0 DEF CopyInv, Entry
  <1>2. mutex = NoOne /\ UNCHANGED <<mutex, allocated_vms>>
    BY DEF RemoveVm, CompactGroup
  <1>3. CASE UNCHANGED <<current_vms, vm_data_set>>
    <2>1. TypeOK'
      BY <1>2, <1>3 DEF TypeOK, main, peers
    <2>2. UNCHANGED <<mutex, table, main, arg, vm>>
      BY <1>2, <1>3 DEF table
    <2> QED
      BY <2>1, <2>2, ThreadMoves
  <1>4. ASSUME NEW i \in Used(g),
               current_vms' = [current_vms EXCEPT ![g] = @ - 1],
               vm_data_set' = [vm_data_set EXCEPT ![g][i] =
                                  vm_data_set[g][current_vms[g] - 1]]
        PROVE  ControllerInv'
    <2>0. PICK n : n = current_vms[g] - 1
      OBVIOUS
    <2>c. Compacted(g, i, n)
      BY <1>1, <1>4, <2>0, RemoveEffect
    <2>1. allocated_vms[g] \in Nat /\ current_vms[g] <= allocated_vms[g]
      BY <2>c DEF Compacted
    <2>2. n \in Nat /\ i \in 0 .. n /\ n \in Used(g) /\ n < allocated_vms[g]
      BY <2>c DEF Compacted
    <2>3. /\ current_vms' \in [Group -> Nat]
          /\ current_vms'[g] = n
          /\ \A h \in Group \ {g} : current_vms'[h] = current_vms[h]
      BY <2>c DEF Compacted
    <2>4. /\ DOMAIN vm_data_set' = Group
          /\ vm_data_set'[g] \in [0 .. (allocated_vms[g] - 1) -> Entry \union {Uninit}]
          /\ \A h \in Group \ {g} : vm_data_set'[h] = vm_data_set[h]
          /\ \A j \in 0 .. (allocated_vms[g] - 1) :
                vm_data_set'[g][j] = vm_data_set[g][IF j = i THEN n ELSE j]
      BY <2>c DEF Compacted
    <2>5. \A h \in Group : \A j \in 0 .. (current_vms'[h] - 1) :
             \E k \in Used(h) : vm_data_set'[h][j] = vm_data_set[h][k]
      <3> SUFFICES ASSUME NEW h \in Group, NEW j \in 0 .. (current_vms'[h] - 1)
                   PROVE  \E k \in Used(h) : vm_data_set'[h][j] = vm_data_set[h][k]
        OBVIOUS
      <3>1. CASE h # g
        BY <3>1, <2>3, <2>4 DEF Used
      <3>2. CASE h = g
        <4>1. j \in 0 .. (n - 1) /\ j \in 0 .. (allocated_vms[g] - 1) /\ j \in Used(g)
          BY <3>2, <2>0, <2>1, <2>2, <2>3 DEF Used
        <4>2. (IF j = i THEN n ELSE j) \in Used(g)
          BY <4>1, <2>2
        <4> QED
          BY <3>2, <4>1, <4>2, <2>4
      <3> QED
        BY <3>1, <3>2
    <2>6. TypeOK'
      <3>1. \A h \in Group : vm_data_set'[h] \in
                                [0 .. (allocated_vms[h] - 1) -> Entry \union {Uninit}]
        BY <2>4 DEF TypeOK
      <3> QED
        BY <1>2, <2>3, <2>4, <3>1 DEF TypeOK, main, peers
    <2>7. TableCompact'
      <3> SUFFICES ASSUME NEW h \in Group
                   PROVE  /\ current_vms'[h] <= allocated_vms[h]
                          /\ \A j \in 0 .. (current_vms'[h] - 1) :
                                /\ vm_data_set'[h][j] \in Entry
                                /\ vm_data_set'[h][j].service = h
                          /\ \A j, k \in 0 .. (current_vms'[h] - 1) :
                                vm_data_set'[h][j].port = vm_data_set'[h][k].port => j = k
        BY <1>2 DEF TableCompact, Used
      <3>1. \A j \in 0 .. (current_vms'[h] - 1) :
               /\ vm_data_set'[h][j] \in Entry
               /\ vm_data_set'[h][j].service = h
        BY <2>5 DEF TableCompact
      <3>2. CASE h # g
        BY <3>1, <3>2, <2>3, <2>4 DEF TableCompact, Used
      <3>3. CASE h = g
        <4>1. current_vms'[g] <= allocated_vms[g]
          BY <2>1, <2>2, <2>3
        <4>2. \A j, k \in Used(g) :
                 vm_data_set[g][j].port = vm_data_set[g][k].port => j = k
          BY <1>1 DEF TableCompact
        <4>3. ASSUME NEW j \in 0 .. (n - 1), NEW k \in 0 .. (n - 1),
                     vm_data_set'[g][j].port = vm_data_set'[g][k].port
              PROVE  j = k
          <5> DEFINE a == IF j = i THEN n ELSE j
                     b == IF k = i THEN n ELSE k
          <5>1. /\ j \in 0 .. (allocated_vms[g] - 1) /\ k \in 0 .. (allocated_vms[g] - 1)
                /\ a \in Used(g) /\ b \in Used(g)
            BY <2>0, <2>1, <2>2 DEF Used
          <5>2. vm_data_set'[g][j] = vm_data_set[g][a] /\ vm_data_set'[g][k] = vm_data_set[g][b]
            BY <5>1, <2>4
          <5>3. a = b
            <6> HIDE DEF a, b
            <6> QED
              BY <5>1, <5>2, <4>2, <4>3
          <5> QED
            BY <5>3, <2>2
        <4> QED
          BY <3>1, <3>3, <4>1, <4>3, <2>3
      <3> QED
        BY <3>2, <3>3
    <2>8. \A d \in Conn : pc[d] # "start"
      BY <1>2, ConstantFacts DEF HandOver
    <2>9. \A d \in Conn : /\ pc'[d] # "start"
                          /\ pc'[d] \notin {"none", "start"} => pc[d] \notin {"none", "start"}
      BY <2>8 DEF TypeOK
    <2>10. mpc \notin {"publish", "create"} /\ UNCHANGED <<mpc, accepted>>
      BY <1>2, ConstantFacts DEF HandOver, main
    <2>11. HandOver'
      BY <2>9, <2>10 DEF HandOver
    <2>12. MainInv' /\ CopyInv'
      BY <2>9 DEF MainInv, CopyInv, main
    <2>13. PortsInv'
      BY <2>5, <2>10 DEF PortsInv, Used
    <2> QED
      BY <2>6, <2>7, <2>11, <2>12, <2>13
  <1> QED
    BY <1>0, <1>3, <1>4 DEF RemoveVm, CompactGroup

LEMMA DropInv ==
    ASSUME ControllerInv, NEW c \in Conn, Drop(c) \/ DropInSwitch(c)
    PROVE  ControllerInv'
  <1>1. CASE Drop(c)
    BY <1>1, RemoveVmInv DEF Drop, ThreadPc
  <1>2. CASE DropInSwitch(c)
    BY <1>2, RemoveVmInv DEF DropInSwitch, ThreadPc
  <1> QED
    BY <1>1, <1>2

-----------------------------------------------------------------------------
(* The balancer_thread.                                                    *)

LEMMA BalancerInv ==
    ASSUME ControllerInv, BalancerStep
    PROVE  ControllerInv'
  <1> USE DEF ControllerInv
  <1>1. UNCHANGED <<mutex, table, main, threads, fd, told>>
    BY DEF BalancerStep, BalancerSend, SendMailbox, BalancerClear, BalancerUnlock,
           shared, peers
  <1>2. lb' \in [Conn -> Operation \union {"none"}]
    BY DEF BalancerStep, BalancerSend, SendMailbox, BalancerClear, BalancerUnlock,
           TypeOK, peers
  <1>5. feed' \in [Group -> [IP -> Operation]]
    <2>1. CASE UNCHANGED feed
      BY <2>1 DEF TypeOK
    <2>2. CASE feed' = [feed EXCEPT ![virt_machine.service][virt_machine.ip]
                                     = virt_machine.op]
      BY <2>2 DEF TypeOK
    <2> QED
      BY <2>1, <2>2 DEF BalancerStep, BalancerSend, SendMailbox, BalancerClear,
                        BalancerUnlock, peers
  <1>3. /\ state_man_vm' \in {0, 1} /\ manage_vm_mutex' \in 0 .. Main
        /\ bpc' \in {"poll", "clear", "unlock"} /\ UNCHANGED virt_machine
    BY SizesAssumption
    DEF BalancerStep, BalancerSend, SendMailbox, BalancerClear, BalancerUnlock,
        TypeOK, shared, NoOne, Main
  <1>4. TypeOK'
    BY <1>1, <1>2, <1>3, <1>5 DEF TypeOK, table, main, threads
  <1> QED
    BY <1>1, <1>4, TableUnchanged

-----------------------------------------------------------------------------
(* The theorems.                                                           *)

LEMMA NextInv == ControllerInv /\ [Next]_vars => ControllerInv'
  <1> SUFFICES ASSUME ControllerInv, [Next]_vars PROVE ControllerInv'
    OBVIOUS
  <1>1. CASE MainStep
    BY <1>1, AcceptInv, HandshakeInv, InsertInv, PublishAddInv, CreateThreadInv,
       CreateThreadFailsInv DEF MainStep
  <1>2. ASSUME NEW c \in Conn, ThreadStep(c) PROVE ControllerInv'
    BY <1>2, StartInv, QuietThreadInv, SendRejuvenateInv, ThreadPublishInv,
       SwitchActiveInv, DropInv DEF ThreadStep
  <1>3. CASE BalancerStep
    BY <1>3, BalancerInv
  <1>4. CASE UNCHANGED vars
    BY <1>4, StutterInv
  <1> QED
    BY <1>1, <1>2, <1>3, <1>4 DEF Next

\* ControllerInv is inductive.
THEOREM Inductive == Spec => []ControllerInv
  BY InitInv, NextInv, PTL DEF Spec

\* Type correctness, whatever fails.
THEOREM TypeCorrect == Spec => []TypeOK
  BY Inductive, PTL DEF ControllerInv

\* Whatever fails, manage_disconnected_vms and accept_new_client keep every
\* group of vm_data_set within its allocation, without gaps and without a
\* connection registered twice.
THEOREM TableStaysCompact == Spec => []TableCompact
  BY Inductive, PTL DEF ControllerInv

\* Whatever fails, the mutex main locks for a new communication_thread protects
\* the thread's slot until the thread has copied it.
THEOREM MutexHandedOver == Spec => []HandOver
  BY Inductive, PTL DEF ControllerInv

LEMMA MailboxInductive ==
    ASSUME "thread" \notin Faults
    PROVE  Spec => []MailboxInv
  <1>1. Init => MailboxInv
    BY DEF Init, MailboxInv, NoOne
  <1>2. ControllerInv /\ MailboxInv /\ [Next]_vars => MailboxInv'
    <2> SUFFICES ASSUME ControllerInv, MailboxInv, [Next]_vars PROVE MailboxInv'
      OBVIOUS
    <2> USE DEF MailboxInv, shared
    <2>1. CASE MainStep
      <3>1. CASE PublishAdd
        BY <3>1, ConstantFacts DEF PublishAdd, Publish, FillMailbox, ControllerInv, TypeOK
      <3>2. CASE MainStep /\ ~PublishAdd
        BY <3>2 DEF MainStep, Accept, RecvInfo, RecvInfoFails, Reply, RecvAgain,
                    RecvAgainFails, Insert, CreateThread, CreateThreadFails
      <3> QED
        BY <2>1, <3>1, <3>2
    <2>2. ASSUME NEW c \in Conn, ThreadStep(c) PROVE MailboxInv'
      <3>1. CASE PublishRej(c) \/ PublishDelete(c)
        BY SMTT(30), <3>1, ConstantFacts DEF PublishRej, PublishDelete, Publish, FillMailbox,
                                   ControllerInv, TypeOK
      <3>2. CASE ThreadStep(c) /\ ~PublishRej(c) /\ ~PublishDelete(c)
        BY <3>2 DEF ThreadStep, Start, RecvFeatures, RecvFails, SendContinue,
                    SendContinueFails, SwitchActive, SendRejuvenate,
                    SendRejuvenateFails, DropInSwitch, CloseInSwitch, Drop, Close
      <3> QED
        BY <2>2, <3>1, <3>2
    <2>3. CASE BalancerStep
      BY <2>3 DEF BalancerStep, BalancerSend, SendMailbox, BalancerClear, BalancerUnlock
    <2>4. CASE UNCHANGED vars
      BY <2>4 DEF vars
    <2> QED
      BY <2>1, <2>2, <2>3, <2>4 DEF Next
  <1> QED
    BY <1>1, <1>2, Inductive, PTL DEF Spec

\* As long as pthread_create does not fail, no notification to the load balancer
\* is overwritten in virt_machine before the balancer_thread has sent it.
THEOREM NotificationNotOverwritten ==
    ASSUME "thread" \notin Faults
    PROVE  Spec => MailboxStable
  <1>1. MailboxInv /\ [Next]_vars =>
           [state_man_vm = 1 \/ bpc # "poll" => virt_machine' = virt_machine]_vars
    <2> SUFFICES ASSUME MailboxInv, Next, state_man_vm = 1 \/ bpc # "poll"
                 PROVE  virt_machine' = virt_machine
      OBVIOUS
    <2>1. manage_vm_mutex # NoOne
      BY DEF MailboxInv
    <2> USE <2>1 DEF shared
    <2>2. CASE MainStep
      BY <2>2 DEF MainStep, Accept, RecvInfo, RecvInfoFails, Reply, RecvAgain,
                  RecvAgainFails, Insert, PublishAdd, Publish, CreateThread,
                  CreateThreadFails
    <2>3. ASSUME NEW c \in Conn, ThreadStep(c) PROVE virt_machine' = virt_machine
      BY <2>3 DEF ThreadStep, Start, RecvFeatures, RecvFails, SendContinue,
                  SendContinueFails, SwitchActive, SendRejuvenate,
                  SendRejuvenateFails, DropInSwitch, CloseInSwitch, PublishRej,
                  PublishDelete, Publish, Drop, Close
    <2>4. CASE BalancerStep
      BY <2>4 DEF BalancerStep, BalancerSend, SendMailbox, BalancerClear, BalancerUnlock
    <2> QED
      BY <2>2, <2>3, <2>4 DEF Next
  <1> QED
    BY <1>1, MailboxInductive, PTL DEF Spec, MailboxStable

-----------------------------------------------------------------------------
(* Which connection is open on which descriptor.                           *)

\* The slot a new thread was given.
Given(c) == vm_data_set[arg[c].service][arg[c].index]

\* What main knows about the connection it is handling, whose thread does not
\* exist yet.
NewestInv ==
    /\ \A c \in Conn : pc[c] # "none" => c <= accepted /\ (mpc # "accept" => c # accepted)
    /\ mpc \in {"publish", "create"} =>
          vm_data_set[s.service][current_vms[s.service] - 1] = NewEntry
    /\ mpc = "publish" => s.state = "ACTIVE"

\* A connection is open on one descriptor only: the one main accepted it on,
\* which is the one its thread was given.
OpenInv ==
    \A f \in Fd : fd[f] # NoOne =>
        /\ fd[f] <= accepted
        /\ fd[f] = accepted /\ mpc # "accept" => f = msock
        /\ pc[fd[f]] = "start" => Given(fd[f]).socket = f
        /\ pc[fd[f]] \notin {"none", "start"} => vm[fd[f]].socket = f

\* What every step of a communication_thread has in common.
LEMMA ThreadFacts ==
    ASSUME ControllerInv, NEW c \in Conn, ThreadStep(c)
    PROVE  /\ pc[c] # "none" /\ pc'[c] \notin {"none", "start"}
           /\ \A d \in Conn \ {c} : pc'[d] = pc[d] /\ vm'[d] = vm[d]
           /\ UNCHANGED <<main, arg>>
           /\ UNCHANGED table \/ mutex = NoOne
           /\ pc[c] # "start" => UNCHANGED vm
           /\ pc[c] = "start" => vm'[c] = Given(c)
  <1> USE DEF ControllerInv
  <1>1. pc \in [Conn -> ThreadPc] /\ vm \in [Conn -> Entry \union {Uninit}]
    BY DEF TypeOK
  <1>2. CASE Start(c)
    <2>1. PICK p \in {"recv", "spin"} : pc' = [pc EXCEPT ![c] = p]
      BY <1>2 DEF Start
    <2>2. vm' = [vm EXCEPT ![c] = Given(c)] /\ pc[c] = "start" /\ UNCHANGED <<main, arg, table>>
      BY <1>2 DEF Start, Given
    <2> QED
      BY <1>1, <2>1, <2>2
  <1>3. CASE ~Start(c)
    <2> DEFINE P == {"recv", "continue", "switch", "rejuvenate", "swdrop", "swclose",
                     "pubrej", "pubdelete", "drop", "close", "done"}
    <2>1. pc[c] \in P /\ \E p \in P : pc' = [pc EXCEPT ![c] = p]
      BY <1>3 DEF ThreadStep, RecvFeatures, RecvFails, SendContinue, SendContinueFails,
                  SwitchActive, SendRejuvenate, SendRejuvenateFails, DropInSwitch,
                  CloseInSwitch, PublishRej, PublishDelete, Drop, Close
    <2>2. UNCHANGED <<main, arg, vm>>
      BY <1>3 DEF ThreadStep, RecvFeatures, RecvFails, SendContinue, SendContinueFails,
                  SwitchActive, SendRejuvenate, SendRejuvenateFails, DropInSwitch,
                  CloseInSwitch, PublishRej, PublishDelete, Drop, Close
    <2>3. UNCHANGED table \/ mutex = NoOne
      BY <1>3 DEF ThreadStep, RecvFeatures, RecvFails, SendContinue, SendContinueFails,
                  SwitchActive, SendRejuvenate, SendRejuvenateFails, DropInSwitch,
                  CloseInSwitch, PublishRej, PublishDelete, Drop, Close, RemoveVm
    <2> QED
      BY <1>1, <2>1, <2>2, <2>3
  <1> QED
    BY <1>2, <1>3

\* A thread only ever closes the descriptor in its copy.
LEMMA ThreadDescriptors ==
    ASSUME ControllerInv, NEW c \in Conn, ThreadStep(c)
    PROVE  \/ UNCHANGED fd
           \/ /\ fd' = Closed(vm[c].socket)
              /\ \/ pc[c] = "swclose" /\ pc'[c] = "pubrej"
                 \/ pc[c] = "close" /\ pc'[c] = "done"
  <1>1. pc \in [Conn -> ThreadPc]
    BY DEF ControllerInv, TypeOK
  <1>2. CASE CloseInSwitch(c)
    BY <1>1, <1>2 DEF CloseInSwitch
  <1>3. CASE Close(c)
    BY <1>1, <1>3 DEF Close
  <1>4. CASE ~CloseInSwitch(c) /\ ~Close(c)
    BY <1>4 DEF ThreadStep, Start, RecvFeatures, RecvFails, SendContinue,
                SendContinueFails, SwitchActive, SendRejuvenate, SendRejuvenateFails,
                DropInSwitch, PublishRej, PublishDelete, Drop
  <1> QED
    BY <1>2, <1>3, <1>4

\* What the steps of main and of the balancer_thread leave alone.
LEMMA HandshakeFacts ==
    ASSUME RecvInfo \/ RecvInfoFails \/ Reply \/ RecvAgain \/ RecvAgainFails
    PROVE  /\ UNCHANGED <<shared, table, accepted, client, msock, threads, bpc, peers>>
           /\ mpc \in {"info", "reply", "again"}
           /\ mpc' \in {"accept", "reply", "again", "insert"}
           /\ UNCHANGED fd \/ fd' = Closed(msock)
  BY DEF RecvInfo, RecvInfoFails, Reply, RecvAgain, RecvAgainFails

LEMMA BalancerFacts ==
    ASSUME BalancerStep
    PROVE  UNCHANGED <<mutex, virt_machine, table, fd, main, threads>>
  BY DEF BalancerStep, BalancerSend, SendMailbox, BalancerClear, BalancerUnlock, shared

LEMMA NewestStep ==
    ASSUME ControllerInv, NewestInv, [Next]_vars
    PROVE  NewestInv'
  <1> USE DEF ControllerInv
  <1>0. accepted \in Nat /\ \A c \in Conn : c \in Nat
    BY SizesAssumption DEF TypeOK, Conn
  <1>1. ASSUME NEW ip \in IP, Accept(ip) PROVE NewestInv'
    BY <1>0, <1>1 DEF NewestInv, Accept, threads
  <1>2. CASE RecvInfo \/ RecvInfoFails \/ Reply \/ RecvAgain \/ RecvAgainFails
    BY <1>2, HandshakeFacts DEF NewestInv, threads
  <1>3. CASE Insert
    <2>1. UNCHANGED <<pc, accepted, client, msock, s>> /\ mpc = "insert"
          /\ mpc' = IF s.state = "ACTIVE" THEN "publish" ELSE "create"
      BY <1>3 DEF Insert, threads
    <2>2. Inserted(s.service, current_vms[s.service])
      BY <1>3, InsertEffect
    <2>3. /\ current_vms'[s.service] - 1 = current_vms[s.service]
          /\ vm_data_set'[s.service][current_vms[s.service]] = NewEntry
      BY <2>2 DEF Inserted
    <2>4. NewEntry' = NewEntry
      BY <2>1 DEF NewEntry
    <2> QED
      BY <2>1, <2>2, <2>3, <2>4 DEF NewestInv
  <1>4. CASE PublishAdd
    BY <1>4 DEF PublishAdd, NewestInv, NewEntry, table, threads
  <1>5. CASE CreateThread
    <2>1. \A c \in Conn : pc'[c] # "none" => pc[c] # "none" \/ c = accepted
      BY <1>5 DEF CreateThread, TypeOK
    <2>2. mpc' = "accept" /\ UNCHANGED accepted
      BY <1>5 DEF CreateThread
    <2> QED
      BY <1>0, <2>1, <2>2 DEF NewestInv
  <1>6. CASE CreateThreadFails
    BY <1>6 DEF CreateThreadFails, NewestInv, threads
  <1>7. ASSUME NEW c \in Conn, ThreadStep(c) PROVE NewestInv'
    <2>1. \A d \in Conn : pc'[d] # "none" => pc[d] # "none"
      BY <1>7, ThreadFacts
    <2>2. UNCHANGED main
      BY <1>7, ThreadFacts
    <2>3. mpc \in {"publish", "create"} => UNCHANGED table
      BY <1>7, ThreadFacts, ConstantFacts DEF HandOver
    <2> QED
      BY <2>1, <2>2, <2>3 DEF NewestInv, NewEntry, main, table
  <1>8. CASE BalancerStep
    BY <1>8, BalancerFacts DEF NewestInv, NewEntry, main, table, threads
  <1>9. CASE UNCHANGED vars
    BY <1>9 DEF NewestInv, NewEntry, vars, main, table, threads
  <1> QED
    BY <1>1, <1>2, <1>3, <1>4, <1>5, <1>6, <1>7, <1>8, <1>9 DEF Next, MainStep

LEMMA OpenStep ==
    ASSUME ControllerInv, NewestInv, OpenInv, [Next]_vars
    PROVE  OpenInv'
  <1> USE DEF ControllerInv
  <1>0. /\ accepted \in Nat /\ \A c \in Conn : c \in Nat
        /\ fd \in [Fd -> Conn \union {NoOne}] /\ pc \in [Conn -> ThreadPc]
    BY SizesAssumption DEF TypeOK, Conn
  <1>1. ASSUME NEW ip \in IP, Accept(ip) PROVE OpenInv'
    <2>1. PICK f \in Fd : fd' = [fd EXCEPT ![f] = accepted + 1] /\ msock' = f
      BY <1>1 DEF Accept
    <2>2. accepted' = accepted + 1 /\ accepted + 1 \in Conn
      BY <1>0, <1>1, SizesAssumption DEF Accept, Conn
    <2>3. pc[accepted + 1] = "none"
      BY <1>0, <2>2 DEF NewestInv
    <2>4. UNCHANGED <<table, threads>>
      BY <1>1 DEF Accept
    <2>5. ASSUME NEW h \in Fd \ {f}, fd[h] # NoOne
          PROVE  fd'[h] = fd[h] /\ fd[h] <= accepted' /\ fd[h] # accepted'
      BY <1>0, <2>1, <2>2, <2>5 DEF OpenInv
    <2>6. fd'[f] = accepted + 1 /\ \A h \in Fd \ {f} : fd'[h] = fd[h]
      BY <1>0, <2>1, <2>2
    <2> QED
      BY <1>0, <2>1, <2>2, <2>3, <2>4, <2>5, <2>6 DEF OpenInv, Given, table, threads
  <1>2. CASE RecvInfo \/ RecvInfoFails \/ Reply \/ RecvAgain \/ RecvAgainFails
    <2>1. \A f \in Fd : fd'[f] # NoOne => fd'[f] = fd[f]
      BY <1>0, <1>2, HandshakeFacts DEF Closed
    <2> QED
      BY <1>2, <2>1, HandshakeFacts DEF OpenInv, Given, table, threads
  <1>3. CASE Insert
    <2>1. UNCHANGED <<fd, accepted, msock, pc, vm, arg>> /\ mpc # "accept"
      BY <1>3 DEF Insert, threads
    <2>2. \A c \in Conn : pc[c] # "start"
      BY <1>3, ConstantFacts DEF Insert, HandOver
    <2>3. \A f \in Fd : fd[f] # NoOne => fd[f] \in Conn
      BY <1>0
    <2> QED
      BY <2>1, <2>2, <2>3 DEF OpenInv
  <1>4. CASE PublishAdd
    BY <1>4 DEF PublishAdd, OpenInv, Given, table, threads
  <1>5. CASE CreateThread
    <2>1. /\ UNCHANGED <<fd, accepted, vm, table>> /\ mpc = "create" /\ mpc' = "accept"
          /\ accepted \in Conn
      BY <1>5 DEF CreateThread, MainInv
    <2>2. /\ pc'[accepted] = "start" /\ \A c \in Conn \ {accepted} : pc'[c] = pc[c]
          /\ arg'[accepted] = [service |-> s.service, index |-> current_vms[s.service] - 1]
          /\ \A c \in Conn \ {accepted} : arg'[c] = arg[c]
      BY <1>0, <1>5, <2>1 DEF CreateThread, TypeOK
    <2>3. \A c \in Conn : c = accepted => Given(c)'.socket = msock
      BY <2>1, <2>2 DEF NewestInv, NewEntry, Given, table
    <2>4. \A c \in Conn \ {accepted} : Given(c)' = Given(c)
      BY <2>1, <2>2 DEF Given, table
    <2>5. ASSUME NEW f \in Fd, NEW c \in Conn, fd[f] = c
          PROVE  /\ c <= accepted
                 /\ pc'[c] = "start" => Given(c)'.socket = f
                 /\ pc'[c] \notin {"none", "start"} => vm[c].socket = f
      <3>1. c # NoOne
        BY ConstantFacts
      <3>2. CASE c = accepted
        <4>1. f = msock /\ c <= accepted
          BY <2>1, <2>5, <3>1, <3>2 DEF OpenInv
        <4> QED
          BY <2>2, <2>3, <3>2, <4>1
      <3>3. CASE c # accepted
        BY <2>2, <2>4, <2>5, <3>1, <3>3 DEF OpenInv
      <3> QED
        BY <3>2, <3>3
    <2>6. \A f \in Fd : fd[f] # NoOne => fd[f] \in Conn
      BY <1>0
    <2> QED
      BY <2>1, <2>5, <2>6 DEF OpenInv
  <1>6. CASE CreateThreadFails
    BY <1>6 DEF CreateThreadFails, OpenInv, Given, table, threads
  <1>7. ASSUME NEW c \in Conn, ThreadStep(c) PROVE OpenInv'
    <2>1. \A f \in Fd : fd'[f] # NoOne => fd'[f] = fd[f]
      BY <1>0, <1>7, ThreadDescriptors DEF Closed
    <2>2. UNCHANGED <<accepted, mpc, msock>>
      BY <1>7, ThreadFacts DEF main
    <2>3. \A d \in Conn : pc'[d] = "start" => pc[d] = "start" /\ Given(d)' = Given(d)
      <3> SUFFICES ASSUME NEW d \in Conn, pc'[d] = "start"
                   PROVE  pc[d] = "start" /\ Given(d)' = Given(d)
        OBVIOUS
      <3>1. pc[d] = "start"
        BY <1>7, ThreadFacts
      <3>2. mutex # NoOne
        BY <3>1, ConstantFacts DEF HandOver
      <3>3. UNCHANGED <<table, arg>>
        BY <1>7, <3>2, ThreadFacts
      <3> QED
        BY <3>1, <3>3 DEF Given, table
    <2>4. \A d \in Conn : pc'[d] \notin {"none", "start"} =>
             \/ pc[d] \notin {"none", "start"} /\ vm'[d] = vm[d]
             \/ pc[d] = "start" /\ vm'[d] = Given(d)
      BY <1>7, ThreadFacts
    <2>5. \A f \in Fd : fd[f] # NoOne => fd[f] \in Conn
      BY <1>0
    <2> QED
      BY <2>1, <2>2, <2>3, <2>4, <2>5 DEF OpenInv
  <1>8. CASE BalancerStep
    BY <1>8, BalancerFacts DEF OpenInv, Given, main, table, threads
  <1>9. CASE UNCHANGED vars
    BY <1>9 DEF OpenInv, Given, vars, main, table, threads
  <1> QED
    BY <1>1, <1>2, <1>3, <1>4, <1>5, <1>6, <1>7, <1>8, <1>9 DEF Next, MainStep

\* NewestInv and OpenInv are inductive together with ControllerInv, whatever
\* fails.
LEMMA OpenInductive == Spec => []NewestInv /\ []OpenInv
  <1>1. Init => NewestInv /\ OpenInv
    BY DEF Init, NewestInv, OpenInv
  <1>2. ControllerInv /\ NewestInv /\ OpenInv /\ [Next]_vars => NewestInv' /\ OpenInv'
    BY NewestStep, OpenStep
  <1> QED
    BY <1>1, <1>2, Inductive, PTL DEF Spec

\* An open descriptor belongs to the connection main is handling or to one
\* whose thread has not ended.
OwnedInv ==
    \A f \in Fd : fd[f] # NoOne =>
        \/ fd[f] = accepted /\ mpc # "accept"
        \/ pc[fd[f]] \notin {"none", "done"}

\* Only the thread of a machine that joined in stand-by is in the loop that
\* does not end.
LoopInv ==
    \A c \in Conn : pc[c] \notin {"none", "start"} =>
        vm[c].state = IF pc[c] = "spin" THEN "STAND_BY" ELSE "ACTIVE"

LEMMA OwnedInductive ==
    ASSUME "reset" \notin Faults, "thread" \notin Faults
    PROVE  Spec => []OwnedInv
  <1>1. Init => OwnedInv
    BY DEF Init, OwnedInv
  <1>2. ASSUME ControllerInv, NewestInv, OpenInv, OwnedInv, [Next]_vars
        PROVE  OwnedInv'
    <2> USE <1>2 DEF ControllerInv
    <2>0. /\ fd \in [Fd -> Conn \union {NoOne}] /\ pc \in [Conn -> ThreadPc]
          /\ \A f \in Fd : fd[f] # NoOne => fd[f] \in Conn
      BY DEF TypeOK
    <2>1. ASSUME NEW ip \in IP, Accept(ip) PROVE OwnedInv'
      <3>1. /\ \A f \in Fd : fd'[f] = fd[f] \/ fd'[f] = accepted'
            /\ mpc = "accept" /\ mpc' # "accept" /\ UNCHANGED pc
        BY <2>0, <2>1 DEF Accept, threads
      <3> QED
        BY <3>1 DEF OwnedInv
    <2>2. CASE RecvInfoFails
      <3>1. \A f \in Fd : fd'[f] # NoOne => fd'[f] = fd[f] /\ f # msock
        BY <2>0, <2>2 DEF RecvInfoFails, Closed
      <3>2. mpc # "accept" /\ UNCHANGED <<pc, accepted>>
        BY <2>2 DEF RecvInfoFails, threads
      <3> QED
        BY <3>1, <3>2 DEF OwnedInv, OpenInv
    <2>3. CASE RecvInfo \/ Reply \/ RecvAgain \/ RecvAgainFails
      <3>1. \A f \in Fd : fd'[f] # NoOne => fd'[f] = fd[f]
        BY <2>0, <2>3, HandshakeFacts DEF Closed
      <3>2. mpc' # "accept" /\ UNCHANGED <<pc, accepted>>
        BY <2>3 DEF RecvInfo, Reply, RecvAgain, RecvAgainFails, threads
      <3> QED
        BY <3>1, <3>2 DEF OwnedInv
    <2>4. CASE Insert \/ PublishAdd
      BY <2>4 DEF Insert, PublishAdd, OwnedInv, threads
    <2>5. CASE CreateThread
      <3>1. \A c \in Conn : pc'[c] \in {"none", "done"} => pc'[c] = pc[c] /\ c # accepted
        BY <2>0, <2>5 DEF CreateThread
      <3>2. UNCHANGED fd
        BY <2>5 DEF CreateThread
      <3> QED
        BY <2>0, <3>1, <3>2 DEF OwnedInv
    <2>6. CASE CreateThreadFails
      BY <2>6 DEF CreateThreadFails
    <2>7. ASSUME NEW c \in Conn, ThreadStep(c) PROVE OwnedInv'
      <3>1. /\ pc[c] # "none" /\ pc'[c] # "none" /\ UNCHANGED <<mpc, accepted>>
            /\ \A d \in Conn \ {c} : pc'[d] = pc[d]
        BY <2>7, ThreadFacts DEF main
      <3>2. \A f \in Fd : fd'[f] # NoOne => fd'[f] = fd[f]
        BY <2>0, <2>7, ThreadDescriptors DEF Closed
      <3>3. pc'[c] = "done" => \A f \in Fd : fd'[f] # c
        <4> SUFFICES ASSUME pc'[c] = "done", NEW f \in Fd, fd'[f] = c PROVE FALSE
          OBVIOUS
        <4>1. fd[f] = c /\ c # NoOne
          BY <3>2, ConstantFacts
        <4>2. pc[c] = "close" /\ fd' = Closed(vm[c].socket)
          BY <2>0, <2>7 DEF ThreadStep, Start, RecvFeatures, RecvFails, SendContinue,
                            SendContinueFails, SwitchActive, SendRejuvenate,
                            SendRejuvenateFails, DropInSwitch, CloseInSwitch,
                            PublishRej, PublishDelete, Drop, Close
        <4>3. f = vm[c].socket
          BY <4>1, <4>2 DEF OpenInv
        <4> QED
          BY <2>0, <4>1, <4>2, <4>3 DEF Closed
      <3> QED
        BY <2>0, <3>1, <3>2, <3>3 DEF OwnedInv
    <2>8. CASE BalancerStep
      BY <2>8, BalancerFacts DEF OwnedInv, main, threads
    <2>9. CASE UNCHANGED vars
      BY <2>9 DEF OwnedInv, vars, main, threads
    <2> QED
      BY <2>1, <2>2, <2>3, <2>4, <2>5, <2>6, <2>7, <2>8, <2>9 DEF Next, MainStep
  <1> QED
    BY <1>1, <1>2, Inductive, OpenInductive, PTL DEF Spec

LEMMA LoopInductive == Spec => []LoopInv
  <1>1. Init => LoopInv
    BY DEF Init, LoopInv
  <1>2. ASSUME ControllerInv, LoopInv, [Next]_vars PROVE LoopInv'
    <2> USE <1>2 DEF ControllerInv
    <2>0. pc \in [Conn -> ThreadPc] /\ vm \in [Conn -> Entry \union {Uninit}]
      BY DEF TypeOK
    <2>1. CASE MainStep
      <3>1. UNCHANGED vm /\ \A c \in Conn : pc'[c] = pc[c] \/ pc'[c] = "start"
        BY <2>0, <2>1 DEF MainStep, Accept, RecvInfo, RecvInfoFails, Reply, RecvAgain,
                    RecvAgainFails, Insert, PublishAdd, CreateThread,
                    CreateThreadFails, threads
      <3> QED
        BY <3>1 DEF LoopInv
    <2>2. ASSUME NEW c \in Conn, ThreadStep(c) PROVE LoopInv'
      <3>1. /\ \A d \in Conn \ {c} : pc'[d] = pc[d] /\ vm'[d] = vm[d]
            /\ pc[c] # "start" => vm'[c] = vm[c]
        BY <2>2, ThreadFacts
      <3>2. CASE Start(c)
        <4>1. vm'[c] = Given(c) /\ pc[c] = "start"
          BY <2>2, <3>2, ThreadFacts DEF Start
        <4>2. pc'[c] = IF vm'[c].state = "ACTIVE" THEN "recv" ELSE "spin"
          BY <2>0, <3>2 DEF Start
        <4>3. Given(c) \in Entry
          BY <4>1 DEF HandOver, TableCompact, Given, TypeOK
        <4>4. vm'[c].state \in VmState
          BY <4>1, <4>3 DEF Entry
        <4> QED
          BY <3>1, <4>2, <4>4 DEF LoopInv, VmState
      <3>3. CASE ~Start(c)
        <4> DEFINE P == {"recv", "continue", "switch", "rejuvenate", "swdrop", "swclose",
                         "pubrej", "pubdelete", "drop", "close", "done"}
        <4>1. pc[c] \in P /\ \E p \in P : pc' = [pc EXCEPT ![c] = p]
          BY <2>2, <3>3 DEF ThreadStep, RecvFeatures, RecvFails, SendContinue,
                            SendContinueFails, SwitchActive, SendRejuvenate,
                            SendRejuvenateFails, DropInSwitch, CloseInSwitch,
                            PublishRej, PublishDelete, Drop, Close
        <4>2. pc'[c] \in P
          BY <2>0, <4>1
        <4> QED
          BY <3>1, <4>1, <4>2 DEF LoopInv
      <3> QED
        BY <3>2, <3>3
    <2>3. CASE BalancerStep \/ UNCHANGED vars
      BY <2>3, BalancerFacts DEF LoopInv, vars, threads
    <2> QED
      BY <2>1, <2>2, <2>3 DEF Next
  <1> QED
    BY <1>1, <1>2, Inductive, PTL DEF Spec

\* As long as no recv() of the handshake is reset and every pthread_create
\* succeeds, a descriptor is lost in the stand-by loop only: accept_new_client
\* and the threads of ACTIVE machines close every connection they give up, and
\* the descriptor a thread closes is the one its connection is open on.
THEOREM EveryDescriptorClosed ==
    ASSUME "reset" \notin Faults, "thread" \notin Faults
    PROVE  Spec => []NoDescriptorLeak
  <1>1. ASSUME ControllerInv, OpenInv, OwnedInv, LoopInv PROVE NoDescriptorLeak
    <2> SUFFICES ASSUME NEW f \in Fd, fd[f] # NoOne, ~KeptInStandBy(f)
                 PROVE  \/ fd[f] = accepted /\ mpc # "accept" /\ msock = f
                        \/ /\ pc[fd[f]] \notin {"none", "spin", "done"}
                           /\ Record(fd[f]).state = "ACTIVE"
                           /\ Record(fd[f]).socket = f
      BY DEF NoDescriptorLeak
    <2> DEFINE c == fd[f]
    <2>1. c \in Conn
      BY <1>1 DEF ControllerInv, TypeOK
    <2>2. CASE c = accepted /\ mpc # "accept"
      BY <1>1, <2>2 DEF OpenInv
    <2>3. CASE pc[c] = "start"
      <3>1. Record(c) = Given(c)
        BY <2>3 DEF Record, Given
      <3>2. Given(c) \in Entry
        BY <1>1, <2>1, <2>3 DEF ControllerInv, HandOver, TableCompact, Given, TypeOK
      <3>3. Record(c).state \in VmState
        BY <3>1, <3>2 DEF Entry
      <3>4. Record(c).state = "ACTIVE"
        BY <2>3, <3>3 DEF KeptInStandBy, VmState
      <3>5. Given(c).socket = f
        BY <1>1, <2>3 DEF OpenInv
      <3> QED
        BY <2>3, <3>1, <3>4, <3>5
    <2>4. CASE pc[c] \notin {"none", "done", "start"}
      <3>1. Record(c) = vm[c] /\ vm[c].socket = f
        BY <1>1, <2>4 DEF Record, OpenInv
      <3>2. vm[c].state = IF pc[c] = "spin" THEN "STAND_BY" ELSE "ACTIVE"
        BY <1>1, <2>1, <2>4 DEF LoopInv
      <3>3. pc[c] # "spin"
        BY <3>1, <3>2 DEF KeptInStandBy
      <3> QED
        BY <2>4, <3>1, <3>2, <3>3
    <2> QED
      BY <1>1, <2>2, <2>3, <2>4 DEF OwnedInv
  <1> QED
    BY <1>1, Inductive, OpenInductive, OwnedInductive, LoopInductive, PTL

\* Without failing sends, the descriptors main and the threads work with are
\* open on their own connection.  Only a machine that asked for a service that
\* does not exist can lose its descriptor during the handshake.
SocketInv ==
    /\ mpc \in {"info", "insert", "publish", "create"} => fd[msock] = accepted
    /\ mpc \in {"reply", "again"} => fd[msock] \in {accepted, NoOne}
    /\ mpc = "reply" /\ s.service # NUMBER_GROUPS => fd[msock] = accepted
    /\ mpc = "again" => s.service = NUMBER_GROUPS
    /\ \A c \in Conn : /\ pc[c] = "start" => fd[Given(c).socket] = c
                       /\ pc[c] \notin {"swdrop", "swclose"}
    /\ OwnSocket

\* Threads whose descriptor is not the one that changes keep theirs.
LEMMA DescriptorsKept ==
    ASSUME ControllerInv, SocketInv, NEW f, NEW x,
           fd' = [fd EXCEPT ![f] = x],
           \A c \in Conn : pc[c] # "none" => fd[f] # c
    PROVE  /\ \A c \in Conn : pc[c] = "start" => fd'[Given(c).socket] = c
           /\ \A c \in Conn : UsesSocket(c) => fd'[vm[c].socket] = c
  <1>1. fd \in [Fd -> Conn \union {NoOne}]
    BY DEF ControllerInv, TypeOK
  <1>2. \A h \in Fd : fd'[h] = fd[h] \/ h = f
    BY <1>1
  <1>3. \A c \in Conn : pc[c] = "start" => Given(c).socket \in Fd
    BY DEF ControllerInv, HandOver, TableCompact, Given, Entry, TypeOK
  <1>4. \A c \in Conn : UsesSocket(c) => vm[c].socket \in Fd /\ pc[c] # "none"
    BY DEF ControllerInv, CopyInv, UsesSocket, Entry
  <1> QED
    BY <1>2, <1>3, <1>4 DEF SocketInv, OwnSocket

LEMMA SocketStep ==
    ASSUME "send" \notin Faults, ControllerInv, NewestInv, SocketInv, [Next]_vars
    PROVE  SocketInv'
  <1> USE DEF ControllerInv
  <1>0. /\ accepted \in Nat /\ \A c \in Conn : c \in Nat
        /\ fd \in [Fd -> Conn \union {NoOne}] /\ pc \in [Conn -> ThreadPc]
    BY SizesAssumption DEF TypeOK, Conn
  <1>1. ASSUME NEW ip \in IP, Accept(ip) PROVE SocketInv'
    <2>1. PICK f \in Fd : /\ fd' = [fd EXCEPT ![f] = accepted + 1] /\ msock' = f
                          /\ fd[f] = NoOne
      BY <1>1 DEF Accept, LowestFree
    <2>2. fd'[msock'] = accepted'
      BY <1>0, <1>1, <2>1 DEF Accept
    <2>3. /\ \A c \in Conn : pc[c] = "start" => fd'[Given(c).socket] = c
          /\ \A c \in Conn : UsesSocket(c) => fd'[vm[c].socket] = c
      BY <2>1, DescriptorsKept, ConstantFacts
    <2>4. mpc' = "info" /\ UNCHANGED <<table, threads>>
      BY <1>1 DEF Accept
    <2> QED
      BY <2>2, <2>3, <2>4 DEF SocketInv, OwnSocket, UsesSocket, Given, table, threads
  <1>2. CASE RecvInfo \/ RecvInfoFails \/ Reply \/ RecvAgain \/ RecvAgainFails
    <2>1. /\ UNCHANGED <<table, accepted, msock, threads>>
          /\ mpc \in {"info", "reply", "again"}
          /\ UNCHANGED fd \/ fd' = [fd EXCEPT ![msock] = NoOne]
      BY <1>2, HandshakeFacts DEF Closed
    <2>2. msock \in Fd /\ fd[msock] \in {accepted, NoOne}
      BY <2>1 DEF SocketInv, MainInv
    <2>3. /\ \A c \in Conn : pc[c] = "start" => fd'[Given(c).socket] = c
          /\ \A c \in Conn : UsesSocket(c) => fd'[vm[c].socket] = c
      <3>1. CASE UNCHANGED fd
        BY <3>1 DEF SocketInv, OwnSocket
      <3>2. CASE fd' = [fd EXCEPT ![msock] = NoOne]
        <4>1. \A c \in Conn : pc[c] # "none" => fd[msock] # c
          BY <2>1, <2>2, ConstantFacts DEF NewestInv
        <4> QED
          BY <3>2, <4>1, DescriptorsKept
      <3> QED
        BY <2>1, <3>1, <3>2
    <2>4. /\ (\A c \in Conn : /\ pc[c] = "start" => fd[Given(c).socket] = c
                              /\ pc[c] \notin {"swdrop", "swclose"})'
          /\ OwnSocket'
      BY <2>1, <2>3 DEF SocketInv, OwnSocket, UsesSocket, Given, table, threads
    <2>5. fd'[msock] = fd[msock] \/ fd'[msock] = NoOne
      BY <1>0, <2>1, <2>2
    <2>6. mpc' \in {"reply", "again", "accept", "insert"}
      BY <1>2, HandshakeFacts
    <2>7. /\ mpc' \in {"reply", "again"} => fd'[msock] \in {accepted, NoOne}
          /\ mpc' = "insert" => fd'[msock] = accepted
          /\ mpc' = "reply" /\ s'.service # NUMBER_GROUPS => fd'[msock] = accepted
          /\ mpc' = "again" => s'.service = NUMBER_GROUPS
      <3>1. s.service \in Service /\ NUMBER_GROUPS \in Nat
        BY SizesAssumption DEF TypeOK
      <3>2. mpc \in {"info", "reply", "again"} => fd[msock] \in {accepted, NoOne}
        BY DEF SocketInv
      <3>3. CASE RecvInfo
        BY <3>3 DEF RecvInfo, SocketInv
      <3>4. CASE RecvInfoFails
        BY <3>4 DEF RecvInfoFails
      <3>5. CASE RecvAgain
        BY <3>5 DEF RecvAgain, SocketInv
      <3>6. CASE RecvAgainFails
        BY <3>6, <2>2, <2>5 DEF RecvAgainFails, SocketInv
      <3>7. CASE Reply
        <4>1. UNCHANGED s
          BY <3>7 DEF Reply
        <4>2. CASE s.service >= NUMBER_GROUPS
          BY <3>7, <4>1, <4>2, <2>2, <2>5, <3>1 DEF Reply, Service
        <4>3. CASE ~(s.service >= NUMBER_GROUPS)
          <5>1. s.service # NUMBER_GROUPS
            BY <4>3, <3>1 DEF Service
          <5>2. fd[msock] = accepted /\ fd[msock] # NoOne
            BY <3>7, <5>1, ConstantFacts DEF Reply, SocketInv, MainInv
          <5> QED
            BY <3>7, <4>3, <5>2 DEF Reply
        <4> QED
          BY <4>2, <4>3
      <3> QED
        BY <1>2, <3>3, <3>4, <3>5, <3>6, <3>7
    <2> QED
      BY <2>1, <2>4, <2>6, <2>7 DEF SocketInv
  <1>3. CASE Insert
    <2>1. UNCHANGED <<fd, accepted, msock, pc, vm>> /\ mpc = "insert"
          /\ mpc' \in {"publish", "create"}
      BY <1>3 DEF Insert, threads
    <2>2. \A c \in Conn : pc[c] # "start"
      BY <1>3, ConstantFacts DEF Insert, HandOver
    <2> QED
      BY <2>1, <2>2 DEF SocketInv, OwnSocket, UsesSocket
  <1>4. CASE PublishAdd
    BY <1>4 DEF PublishAdd, SocketInv, OwnSocket, UsesSocket, Given, table, threads
  <1>5. CASE CreateThread
    <2>1. /\ UNCHANGED <<fd, accepted, vm, table>> /\ mpc = "create" /\ mpc' = "accept"
          /\ accepted \in Conn /\ fd[msock] = accepted
      BY <1>5 DEF CreateThread, MainInv, SocketInv
    <2>2. /\ pc'[accepted] = "start" /\ \A c \in Conn \ {accepted} : pc'[c] = pc[c]
          /\ arg'[accepted] = [service |-> s.service, index |-> current_vms[s.service] - 1]
      BY <1>0, <1>5, <2>1 DEF CreateThread, TypeOK
    <2>3. \A c \in Conn : c = accepted => Given(c)'.socket = msock
      BY <2>1, <2>2 DEF NewestInv, NewEntry, Given, table
    <2>4. \A c \in Conn : pc'[c] = "start" => c = accepted
      BY <2>1, <2>2 DEF HandOver
    <2>5. (\A c \in Conn : /\ pc[c] = "start" => fd[Given(c).socket] = c
                           /\ pc[c] \notin {"swdrop", "swclose"})'
      BY <2>1, <2>2, <2>3, <2>4 DEF SocketInv
    <2>6. OwnSocket'
      BY <2>1, <2>2 DEF SocketInv, OwnSocket, UsesSocket
    <2> QED
      BY <2>1, <2>5, <2>6 DEF SocketInv
  <1>6. CASE CreateThreadFails
    BY <1>6 DEF CreateThreadFails, SocketInv, OwnSocket, UsesSocket, Given, table, threads
  <1>7. ASSUME NEW c \in Conn, ThreadStep(c) PROVE SocketInv'
    <2>1. /\ pc[c] # "none" /\ pc'[c] \notin {"none", "start"}
          /\ \A d \in Conn \ {c} : pc'[d] = pc[d] /\ vm'[d] = vm[d]
          /\ UNCHANGED <<main, arg>>
      BY <1>7, ThreadFacts
    <2>2. \/ UNCHANGED fd
          \/ /\ fd' = [fd EXCEPT ![vm[c].socket] = NoOne]
             /\ fd[vm[c].socket] = c
             /\ vm[c].socket \in Fd
      BY <1>7, ThreadDescriptors DEF Closed, SocketInv, OwnSocket, UsesSocket, CopyInv, Entry
    <2>3. \A h \in Fd : fd[h] # c => fd'[h] = fd[h]
      BY <1>0, <2>2
    <2>4. mpc # "accept" => c # accepted /\ accepted # NoOne /\ msock \in Fd
      BY <2>1, ConstantFacts DEF NewestInv, MainInv
    <2>5. mpc # "accept" => fd[msock] \in {accepted, NoOne} /\ fd'[msock] = fd[msock]
      <3> SUFFICES ASSUME mpc # "accept"
                   PROVE  fd[msock] \in {accepted, NoOne} /\ fd'[msock] = fd[msock]
        OBVIOUS
      <3>1. mpc \in {"info", "reply", "again", "insert", "publish", "create"}
        BY DEF TypeOK, MainPc
      <3>2. fd[msock] \in {accepted, NoOne}
        BY <3>1 DEF SocketInv
      <3>3. fd[msock] # c
        BY <2>4, <3>2, ConstantFacts
      <3> QED
        BY <2>3, <2>4, <3>2, <3>3
    <2>6. \A d \in Conn \ {c} : pc[d] = "start" => fd'[Given(d)'.socket] = d
      <3> SUFFICES ASSUME NEW d \in Conn \ {c}, pc[d] = "start"
                   PROVE  fd'[Given(d)'.socket] = d
        OBVIOUS
      <3>1. mutex # NoOne
        BY ConstantFacts DEF HandOver
      <3>2. UNCHANGED <<table, arg>>
        BY <1>7, <3>1, ThreadFacts
      <3>3. Given(d)' = Given(d) /\ Given(d).socket \in Fd
        BY <3>2 DEF Given, table, HandOver, TableCompact, TypeOK, Entry
      <3> QED
        BY <2>3, <3>3 DEF SocketInv
    <2>7. \A d \in Conn \ {c} : UsesSocket(d) => fd'[vm[d].socket] = d
      <3>1. \A d \in Conn : UsesSocket(d) => vm[d].socket \in Fd
        BY DEF CopyInv, UsesSocket, Entry
      <3> QED
        BY <2>3, <3>1 DEF SocketInv, OwnSocket
    <2>8. UsesSocket(c)' => fd'[vm'[c].socket] = c
      <3>1. CASE Start(c)
        <4>1. pc[c] = "start" /\ UNCHANGED fd
          BY <3>1 DEF Start
        <4>2. vm'[c] = Given(c)
          BY <1>7, <4>1, ThreadFacts
        <4> QED
          BY <4>1, <4>2 DEF SocketInv
      <3>2. CASE ~Start(c)
        <4>1. UNCHANGED vm /\ UsesSocket(c)
          BY <1>7, <3>2 DEF ThreadStep, RecvFeatures, RecvFails, SendContinue,
                  SendContinueFails, SwitchActive, SendRejuvenate, SendRejuvenateFails,
                  DropInSwitch, CloseInSwitch, PublishRej, PublishDelete, Drop, Close,
                  UsesSocket
        <4>2. UNCHANGED fd \/ pc'[c] = "done"
          BY <1>7, ThreadDescriptors DEF SocketInv
        <4> QED
          BY <4>1, <4>2 DEF SocketInv, OwnSocket, UsesSocket
      <3> QED
        BY <3>1, <3>2
    <2>9. OwnSocket'
      BY <2>1, <2>7, <2>8 DEF OwnSocket, UsesSocket
    <2>10. pc'[c] \notin {"swdrop", "swclose"}
      <3>1. pc[c] = "rejuvenate" => fd[vm[c].socket] # NoOne
        BY ConstantFacts DEF SocketInv, OwnSocket, UsesSocket
      <3>2. ~SendRejuvenateFails(c) /\ ~DropInSwitch(c)
        BY <3>1 DEF SendRejuvenateFails, DropInSwitch, SocketInv
      <3> QED
        BY <1>0, <1>7, <3>2 DEF ThreadStep, Start, RecvFeatures, RecvFails, SendContinue,
              SendContinueFails, SwitchActive, SendRejuvenate,
              CloseInSwitch, PublishRej, PublishDelete, Drop, Close
    <2> QED
      BY <2>1, <2>5, <2>6, <2>9, <2>10 DEF SocketInv, main
  <1>8. CASE BalancerStep
    BY <1>8, BalancerFacts DEF SocketInv, OwnSocket, UsesSocket, Given, main, table, threads
  <1>9. CASE UNCHANGED vars
    BY <1>9 DEF SocketInv, OwnSocket, UsesSocket, Given, vars, main, table, threads
  <1> QED
    BY <1>1, <1>2, <1>3, <1>4, <1>5, <1>6, <1>7, <1>8, <1>9 DEF Next, MainStep

LEMMA SocketInductive ==
    ASSUME "send" \notin Faults
    PROVE  Spec => []SocketInv
  <1>1. Init => SocketInv
    BY DEF Init, SocketInv, OwnSocket, UsesSocket
  <1>2. ControllerInv /\ NewestInv /\ SocketInv /\ [Next]_vars => SocketInv'
    BY SocketStep
  <1> QED
    BY <1>1, <1>2, Inductive, OpenInductive, PTL DEF Spec

\* As long as no send() to a machine fails, no communication_thread reads,
\* writes or closes a descriptor that accept() has reused for another machine.
THEOREM DescriptorsNotShared ==
    ASSUME "send" \notin Faults
    PROVE  Spec => []OwnSocket
  <1>1. SocketInv => OwnSocket
    BY DEF SocketInv
  <1> QED
    BY <1>1, SocketInductive, PTL

-----------------------------------------------------------------------------
(* Which machines are registered.                                          *)

\* Connection c has a slot, in group g and with address ip.
Holds(c, ip, g) == \E i \in Used(g) : /\ vm_data_set[g][i].port = c
                                      /\ vm_data_set[g][i].ip_address = ip

\* An address and a connection are registered once in the whole table, exactly
\* for the machines that a thread serves or that main is about to start one for.
\* This is why the loop of manage_disconnected_vms, which compares addresses
\* only, removes the machine of the thread that runs it.
RegisterInv ==
    /\ \A g, h \in Group, c, d \in Conn, ip \in IP :
          Holds(c, ip, g) /\ Holds(d, ip, h) => c = d /\ g = h
    /\ \A g, h \in Group, c \in Conn, ip, iq \in IP :
          Holds(c, ip, g) /\ Holds(c, iq, h) => ip = iq /\ g = h
    /\ mpc \in {"info", "reply", "again", "insert"} =>
          \A c \in Conn, g \in Group : ~Holds(c, client, g)
    /\ \A c \in Conn, ip \in IP, g \in Group : Holds(c, ip, g) =>
          Serving(c) \/ (c = accepted /\ mpc \in {"publish", "create"})
    /\ \A c \in Conn : Serving(c) /\ pc[c] # "start" =>
          Holds(c, vm[c].ip_address, vm[c].service)

\* Insertion registers the new connection and nothing else.
LEMMA InsertHolds ==
    ASSUME ControllerInv, Insert, NEW c \in Conn, NEW ip \in IP, NEW g \in Group
    PROVE  Holds(c, ip, g)' <=> \/ Holds(c, ip, g)
                                \/ c = accepted /\ ip = client /\ g = s.service
  <1>1. PICK h : h = s.service
    OBVIOUS
  <1>2. PICK n : n = current_vms[h]
    OBVIOUS
  <1>3. /\ h \in Group /\ n \in Nat
        /\ current_vms'[h] = n + 1
        /\ \A k \in Group \ {h} : /\ current_vms'[k] = current_vms[k]
                                  /\ vm_data_set'[k] = vm_data_set[k]
        /\ vm_data_set'[h][n] = NewEntry
        /\ \A i \in 0 .. (n - 1) : vm_data_set'[h][i] = vm_data_set[h][i]
    <2>1. Inserted(h, n)
      BY <1>1, <1>2, InsertEffect
    <2> QED
      BY <2>1 DEF Inserted
  <1>4. CASE g # h
    BY <1>1, <1>3, <1>4 DEF Holds, Used
  <1>5. CASE g = h
    <2>1. \A i : i \in 0 .. (current_vms'[g] - 1) <=> i = n \/ i \in 0 .. (n - 1)
      BY <1>3, <1>5
    <2>2. NewEntry.port = accepted /\ NewEntry.ip_address = client
      BY DEF NewEntry
    <2> QED
      BY <1>1, <1>2, <1>3, <1>5, <2>1, <2>2 DEF Holds, Used
  <1> QED
    BY <1>4, <1>5

\* Promotion registers and removes nobody.
LEMMA SwitchHolds ==
    ASSUME ControllerInv, NEW d \in Conn, SwitchActive(d),
           NEW c \in Conn, NEW ip \in IP, NEW g \in Group
    PROVE  Holds(c, ip, g)' <=> Holds(c, ip, g)
  <1>1. \A j \in Used(g) :
           /\ vm_data_set'[g][j].port = vm_data_set[g][j].port
           /\ vm_data_set'[g][j].ip_address = vm_data_set[g][j].ip_address
    BY SwitchEffect
  <1>2. UNCHANGED current_vms
    BY DEF SwitchActive
  <1> QED
    BY <1>1, <1>2 DEF Holds, Used

\* manage_disconnected_vms removes the machine of that group with that address,
\* as long as there is only one, and moves the others without losing any.
LEMMA RemoveHolds ==
    ASSUME ControllerInv, RegisterInv, NEW v \in Entry, RemoveVm(v),
           NEW c \in Conn, NEW ip \in IP, NEW g \in Group
    PROVE  Holds(c, ip, g)' <=> /\ Holds(c, ip, g)
                                /\ ~(g = v.service /\ ip = v.ip_address)
  <1> USE DEF ControllerInv
  <1>1. PICK h : h = v.service
    OBVIOUS
  <1>2. PICK a : a = v.ip_address
    OBVIOUS
  <1>3. h \in Group /\ a \in IP
    BY <1>1, <1>2 DEF Entry
  <1>4. CASE /\ \A i \in Used(h) : vm_data_set[h][i].ip_address # a
             /\ UNCHANGED <<current_vms, vm_data_set>>
    BY <1>1, <1>2, <1>4 DEF Holds, Used
  <1>5. ASSUME NEW i \in Used(h), vm_data_set[h][i].ip_address = a,
               current_vms' = [current_vms EXCEPT ![h] = @ - 1],
               vm_data_set' = [vm_data_set EXCEPT ![h][i] =
                                  vm_data_set[h][current_vms[h] - 1]]
        PROVE  Holds(c, ip, g)' <=> Holds(c, ip, g) /\ ~(g = h /\ ip = a)
    <2>1. PICK n : n = current_vms[h] - 1
      OBVIOUS
    <2>c. Compacted(h, i, n)
      BY <1>3, <1>5, <2>1, RemoveEffect
    <2>2. /\ allocated_vms[h] \in Nat /\ n \in Nat /\ n < allocated_vms[h]
          /\ i \in 0 .. n /\ current_vms'[h] = n
          /\ \A k \in Group \ {h} : /\ current_vms'[k] = current_vms[k]
                                    /\ vm_data_set'[k] = vm_data_set[k]
      BY <2>c DEF Compacted
    <2>3. \A j \in 0 .. (allocated_vms[h] - 1) :
             vm_data_set'[h][j] = vm_data_set[h][IF j = i THEN n ELSE j]
      BY <2>c DEF Compacted
    <2>4. Used(h) = 0 .. n
      BY <1>3, <2>1, <2>2 DEF Used, TypeOK
    <2>5. CASE g # h
      BY <2>2, <2>5 DEF Holds, Used
    <2>6. CASE g = h
      <3>1. \A k \in 0 .. n : vm_data_set[h][k].ip_address = a => k = i
        <4> SUFFICES ASSUME NEW k \in 0 .. n, vm_data_set[h][k].ip_address = a
                     PROVE  k = i
          OBVIOUS
        <4>1. vm_data_set[h][k].port \in Conn /\ vm_data_set[h][i].port \in Conn
          BY <1>3, <2>4, <1>5 DEF TableCompact, Entry
        <4>2. /\ Holds(vm_data_set[h][k].port, a, h)
              /\ Holds(vm_data_set[h][i].port, a, h)
          BY <1>5, <2>4 DEF Holds
        <4>3. vm_data_set[h][k].port = vm_data_set[h][i].port
          BY <1>3, <4>1, <4>2 DEF RegisterInv
        <4> QED
          BY <1>3, <1>5, <2>4, <4>3 DEF TableCompact
      <3>2. ASSUME Holds(c, ip, g)' PROVE Holds(c, ip, g) /\ ip # a
        <4>1. PICK j \in 0 .. (n - 1) : /\ vm_data_set'[h][j].port = c
                                        /\ vm_data_set'[h][j].ip_address = ip
          BY <2>2, <2>6, <3>2 DEF Holds, Used
        <4>2. PICK k : k = IF j = i THEN n ELSE j
          OBVIOUS
        <4>3. k \in 0 .. n /\ k # i /\ j \in 0 .. (allocated_vms[h] - 1)
          BY <2>2, <4>2
        <4>4. vm_data_set'[h][j] = vm_data_set[h][k]
          BY <2>3, <4>2, <4>3
        <4> QED
          BY <2>4, <2>6, <3>1, <4>1, <4>3, <4>4 DEF Holds
      <3>3. ASSUME Holds(c, ip, g), ip # a PROVE Holds(c, ip, g)'
        <4>1. PICK k \in 0 .. n : /\ vm_data_set[h][k].port = c
                                  /\ vm_data_set[h][k].ip_address = ip
          BY <2>4, <2>6, <3>3 DEF Holds
        <4>2. k # i
          BY <1>5, <3>3, <4>1
        <4>3. PICK j : j = IF k = n THEN i ELSE k
          OBVIOUS
        <4>4. /\ j \in 0 .. (n - 1) /\ j \in 0 .. (allocated_vms[h] - 1)
              /\ (IF j = i THEN n ELSE j) = k
          BY <2>2, <4>2, <4>3
        <4>5. vm_data_set'[h][j] = vm_data_set[h][k]
          BY <2>3, <4>4
        <4> QED
          BY <2>2, <2>6, <4>1, <4>4, <4>5 DEF Holds, Used
      <3> QED
        BY <2>6, <3>2, <3>3
    <2> QED
      BY <2>5, <2>6
  <1> QED
    BY <1>1, <1>2, <1>4, <1>5 DEF RemoveVm, CompactGroup, FirstWithIp

LEMMA TableKeepsHolds ==
    ASSUME UNCHANGED table
    PROVE  \A c, ip, g : Holds(c, ip, g)' <=> Holds(c, ip, g)
  BY DEF Holds, Used, table

\* A thread past its start registers nobody; until it removes its own machine
\* it stays among the serving threads, and then among those that have left.
LEMMA ThreadKeepsHolds ==
    ASSUME "send" \notin Faults, ControllerInv, SocketInv,
           NEW c \in Conn, ThreadStep(c), ~Start(c), ~Drop(c)
    PROVE  /\ \A d \in Conn, ip \in IP, g \in Group : Holds(d, ip, g)' <=> Holds(d, ip, g)
           /\ Serving(c)' <=> Serving(c)
           /\ pc[c] # "start" /\ UNCHANGED vm
  <1>1. pc \in [Conn -> ThreadPc]
    BY DEF ControllerInv, TypeOK
  <1>2. pc[c] = "rejuvenate" => fd[vm[c].socket] # NoOne
    BY ConstantFacts DEF SocketInv, OwnSocket, UsesSocket
  <1>3. ~SendRejuvenateFails(c) /\ ~DropInSwitch(c) /\ ~CloseInSwitch(c)
    BY <1>2 DEF SendRejuvenateFails, DropInSwitch, CloseInSwitch, SocketInv
  <1>4. \/ RecvFeatures(c) \/ RecvFails(c) \/ SendContinue(c) \/ SendContinueFails(c)
        \/ SwitchActive(c) \/ SendRejuvenate(c) \/ PublishRej(c) \/ PublishDelete(c)
        \/ Close(c)
    BY <1>3 DEF ThreadStep
  <1>5. /\ Serving(c)' <=> Serving(c)
        /\ pc[c] # "start"
    BY <1>1, <1>4 DEF RecvFeatures, RecvFails, SendContinue, SendContinueFails,
           SwitchActive, SendRejuvenate, PublishRej, PublishDelete, Close, Serving
  <1>6. UNCHANGED vm /\ (UNCHANGED table \/ SwitchActive(c))
    BY <1>4 DEF RecvFeatures, RecvFails, SendContinue, SendContinueFails,
           SwitchActive, SendRejuvenate, PublishRej, PublishDelete, Close
  <1>7. \A d \in Conn, ip \in IP, g \in Group : Holds(d, ip, g)' <=> Holds(d, ip, g)
    BY <1>6, TableKeepsHolds, SwitchHolds
  <1> QED
    BY <1>5, <1>6, <1>7

LEMMA RegisterStep ==
    ASSUME "send" \notin Faults, "overlap" \notin Faults, "thread" \notin Faults,
           ControllerInv, NewestInv, SocketInv, RegisterInv, [Next]_vars
    PROVE  RegisterInv'
  <1> USE DEF ControllerInv
  <1>0. /\ pc \in [Conn -> ThreadPc]
        /\ \A c \in Conn : Serving(c) => pc[c] # "none"
        /\ \A c \in Conn : Serving(c) /\ pc[c] # "start" =>
              vm[c].ip_address \in IP /\ vm[c].service \in Group
    BY DEF TypeOK, Serving, CopyInv, Entry
  <1>1. ASSUME NEW ip \in IP, Accept(ip) PROVE RegisterInv'
    <2>1. UNCHANGED <<table, threads>> /\ mpc = "accept" /\ mpc' = "info" /\ client' = ip
      BY <1>1 DEF Accept
    <2>2. \A c \in Conn, g \in Group : ~Holds(c, ip, g)
      BY <1>1 DEF Accept, Registered, Holds
    <2>3. \A c, iq, g : Holds(c, iq, g)' <=> Holds(c, iq, g)
      BY <2>1, TableKeepsHolds
    <2> QED
      BY <2>1, <2>2, <2>3 DEF RegisterInv, Serving, threads
  <1>2. CASE RecvInfo \/ RecvInfoFails \/ Reply \/ RecvAgain \/ RecvAgainFails
    <2>1. /\ UNCHANGED <<table, accepted, client, threads>>
          /\ mpc \in {"info", "reply", "again"}
          /\ mpc' \in {"accept", "reply", "again", "insert"}
      BY <1>2, HandshakeFacts
    <2>2. \A c, ip, g : Holds(c, ip, g)' <=> Holds(c, ip, g)
      BY <2>1, TableKeepsHolds
    <2> QED
      BY <2>1, <2>2 DEF RegisterInv, Serving, threads
  <1>3. CASE Insert
    <2>1. /\ mpc = "insert" /\ mpc' \in {"publish", "create"}
          /\ UNCHANGED <<threads, accepted, client, s>>
      BY <1>3 DEF Insert
    <2>2. \A c \in Conn, ip \in IP, g \in Group : Holds(c, ip, g)' <=>
             Holds(c, ip, g) \/ (c = accepted /\ ip = client /\ g = s.service)
      BY <1>3, InsertHolds
    <2>3. \A c \in Conn, ip \in IP, g \in Group : Holds(c, ip, g) => c # accepted
      BY <2>1 DEF Holds, PortsInv
    <2>4. \A c \in Conn, g \in Group : ~Holds(c, client, g)
      BY <2>1 DEF RegisterInv
    <2>5. (\A g, h \in Group, c, d \in Conn, ip \in IP :
              Holds(c, ip, g) /\ Holds(d, ip, h) => c = d /\ g = h)'
      BY <2>2, <2>4 DEF RegisterInv
    <2>6. (\A g, h \in Group, c \in Conn, ip, iq \in IP :
              Holds(c, ip, g) /\ Holds(c, iq, h) => ip = iq /\ g = h)'
      BY <2>2, <2>3 DEF RegisterInv
    <2>7. (\A c \in Conn, ip \in IP, g \in Group : Holds(c, ip, g) =>
              Serving(c) \/ (c = accepted /\ mpc \in {"publish", "create"}))'
      BY <2>1, <2>2 DEF RegisterInv, Serving, threads
    <2>8. (\A c \in Conn : Serving(c) /\ pc[c] # "start" =>
              Holds(c, vm[c].ip_address, vm[c].service))'
      <3> SUFFICES ASSUME NEW c \in Conn, Serving(c)', pc'[c] # "start"
                   PROVE  Holds(c, vm[c].ip_address, vm[c].service)'
        OBVIOUS
      <3>1. PICK ip, g : ip = vm[c].ip_address /\ g = vm[c].service
        OBVIOUS
      <3>2. Serving(c) /\ pc[c] # "start" /\ UNCHANGED vm
        BY <2>1 DEF Serving, threads
      <3>3. Holds(c, ip, g) /\ ip \in IP /\ g \in Group
        BY <1>0, <3>1, <3>2 DEF RegisterInv
      <3>4. Holds(c, ip, g)'
        BY <2>2, <3>3
      <3> QED
        BY <3>1, <3>2, <3>4 DEF Holds, Used
    <2> QED
      BY <2>1, <2>5, <2>6, <2>7, <2>8 DEF RegisterInv
  <1>4. CASE PublishAdd
    <2>1. /\ UNCHANGED <<table, accepted, client, threads>>
          /\ mpc = "publish" /\ mpc' = "create"
      BY <1>4 DEF PublishAdd
    <2>2. \A c, ip, g : Holds(c, ip, g)' <=> Holds(c, ip, g)
      BY <2>1, TableKeepsHolds
    <2> QED
      BY <2>1, <2>2 DEF RegisterInv, Serving, threads
  <1>5. CASE CreateThread
    <2>1. /\ UNCHANGED <<table, accepted, client, vm>>
          /\ mpc = "create" /\ mpc' = "accept" /\ accepted \in Conn
      BY <1>5 DEF CreateThread, MainInv
    <2>2. \A c, ip, g : Holds(c, ip, g)' <=> Holds(c, ip, g)
      BY <2>1, TableKeepsHolds
    <2>3. pc'[accepted] = "start" /\ \A c \in Conn \ {accepted} : pc'[c] = pc[c]
      BY <1>0, <1>5, <2>1 DEF CreateThread
    <2>4. \A c \in Conn : /\ Serving(c)' <=> Serving(c) \/ c = accepted
                          /\ c = accepted => pc'[c] = "start"
                          /\ c # accepted => pc'[c] = pc[c]
      BY <2>3 DEF Serving
    <2> QED
      BY <2>1, <2>2, <2>4 DEF RegisterInv
  <1>6. CASE CreateThreadFails
    BY <1>6 DEF CreateThreadFails
  <1>7. ASSUME NEW c \in Conn, ThreadStep(c) PROVE RegisterInv'
    <2>1. /\ \A d \in Conn \ {c} : /\ pc'[d] = pc[d] /\ vm'[d] = vm[d]
                                   /\ Serving(d)' <=> Serving(d)
          /\ UNCHANGED <<accepted, mpc, client>>
      BY <1>7, ThreadFacts DEF main, Serving
    <2>2. CASE Start(c)
      <3>1. /\ UNCHANGED table /\ pc[c] = "start" /\ Serving(c) /\ Serving(c)'
            /\ pc'[c] # "start"
        <4>1. PICK p \in {"recv", "spin"} : pc' = [pc EXCEPT ![c] = p]
          BY <2>2 DEF Start
        <4> QED
          BY <1>0, <2>2, <4>1 DEF Start, Serving
      <3>2. \A d, ip, g : Holds(d, ip, g)' <=> Holds(d, ip, g)
        BY <3>1, TableKeepsHolds
      <3>3. vm'[c] = Given(c)
        BY <1>7, <3>1, ThreadFacts
      <3>4. Holds(c, Given(c).ip_address, Given(c).service)
        <4>1. arg[c].service \in Group /\ arg[c].index \in Used(arg[c].service)
          BY <3>1 DEF HandOver, TypeOK
        <4>2. Given(c).port = c /\ Given(c).service = arg[c].service
          BY <3>1, <4>1 DEF HandOver, TableCompact, Given
        <4> QED
          BY <4>1, <4>2 DEF Holds, Given
      <3>5. Holds(c, vm[c].ip_address, vm[c].service)'
        BY <3>1, <3>3, <3>4 DEF Holds, Used, table
      <3> QED
        BY <2>1, <3>1, <3>2, <3>5 DEF RegisterInv
    <2>3. CASE Drop(c)
      <3>1. PICK ip, g : ip = vm[c].ip_address /\ g = vm[c].service
        OBVIOUS
      <3>2. /\ pc[c] = "drop" /\ pc'[c] = "close" /\ UNCHANGED vm
            /\ RemoveVm(vm[c]) /\ vm[c] \in Entry
        BY <1>0, <2>3 DEF Drop, CopyInv
      <3>3. Serving(c) /\ ~Serving(c)' /\ pc[c] # "start"
        BY <3>2 DEF Serving
      <3>4. Holds(c, ip, g) /\ ip \in IP /\ g \in Group
        BY <1>0, <3>1, <3>3 DEF RegisterInv
      <3>5. \A d \in Conn, iq \in IP, h \in Group :
               Holds(d, iq, h)' <=> Holds(d, iq, h) /\ ~(h = g /\ iq = ip)
        BY <3>1, <3>2, RemoveHolds
      <3>6. \A iq \in IP, h \in Group : ~Holds(c, iq, h)'
        BY <3>4, <3>5 DEF RegisterInv
      <3>7. \A d \in Conn \ {c} : ~Holds(d, ip, g)
        BY <3>4 DEF RegisterInv
      <3>8. (\A d \in Conn : Serving(d) /\ pc[d] # "start" =>
                Holds(d, vm[d].ip_address, vm[d].service))'
        <4> SUFFICES ASSUME NEW d \in Conn, Serving(d)', pc'[d] # "start"
                     PROVE  Holds(d, vm[d].ip_address, vm[d].service)'
          OBVIOUS
        <4>1. d # c /\ Serving(d) /\ pc[d] # "start"
          BY <2>1, <3>3
        <4>2. PICK iq, h : iq = vm[d].ip_address /\ h = vm[d].service
          OBVIOUS
        <4>3. Holds(d, iq, h) /\ iq \in IP /\ h \in Group
          BY <1>0, <4>1, <4>2 DEF RegisterInv
        <4>4. Holds(d, iq, h)'
          BY <3>5, <3>7, <4>1, <4>3
        <4> QED
          BY <3>2, <4>2, <4>4 DEF Holds, Used
      <3>9. (mpc \in {"info", "reply", "again", "insert"} =>
                \A d \in Conn, h \in Group : ~Holds(d, client, h))'
        <4>1. mpc # "accept" => client \in IP
          BY DEF MainInv
        <4> QED
          BY <2>1, <3>5, <4>1 DEF RegisterInv
      <3>10. (\A d \in Conn, iq \in IP, h \in Group : Holds(d, iq, h) =>
                Serving(d) \/ (d = accepted /\ mpc \in {"publish", "create"}))'
        BY <2>1, <3>5, <3>6 DEF RegisterInv
      <3> QED
        BY <3>5, <3>8, <3>9, <3>10 DEF RegisterInv
    <2>4. CASE ~Start(c) /\ ~Drop(c)
      <3>1. /\ \A d \in Conn, ip \in IP, g \in Group : Holds(d, ip, g)' <=> Holds(d, ip, g)
            /\ Serving(c)' <=> Serving(c)
            /\ pc[c] # "start" /\ UNCHANGED vm
        BY <1>7, <2>4, ThreadKeepsHolds
      <3>2. \A d \in Conn : /\ Serving(d)' <=> Serving(d)
                            /\ pc'[d] # "start" => pc[d] # "start"
        BY <2>1, <3>1
      <3>3. mpc # "accept" => client \in IP
        BY DEF MainInv
      <3>4. (\A d \in Conn : Serving(d) /\ pc[d] # "start" =>
                Holds(d, vm[d].ip_address, vm[d].service))'
        <4> SUFFICES ASSUME NEW d \in Conn, Serving(d)', pc'[d] # "start"
                     PROVE  Holds(d, vm[d].ip_address, vm[d].service)'
          OBVIOUS
        <4>1. PICK iq, h : iq = vm[d].ip_address /\ h = vm[d].service
          OBVIOUS
        <4>2. Holds(d, iq, h) /\ iq \in IP /\ h \in Group
          BY <1>0, <3>2, <4>1 DEF RegisterInv
        <4>3. Holds(d, iq, h)'
          BY <3>1, <4>2
        <4> QED
          BY <3>1, <4>1, <4>3 DEF Holds, Used
      <3> QED
        BY <2>1, <3>1, <3>2, <3>3, <3>4 DEF RegisterInv
    <2> QED
      BY <2>2, <2>3, <2>4
  <1>8. CASE BalancerStep
    <2>1. UNCHANGED <<table, main, threads>>
      BY <1>8, BalancerFacts
    <2>2. \A c, ip, g : Holds(c, ip, g)' <=> Holds(c, ip, g)
      BY <2>1, TableKeepsHolds
    <2> QED
      BY <2>1, <2>2 DEF RegisterInv, Serving, main, threads
  <1>9. CASE UNCHANGED vars
    <2>1. UNCHANGED <<table, main, threads>>
      BY <1>9 DEF vars
    <2>2. \A c, ip, g : Holds(c, ip, g)' <=> Holds(c, ip, g)
      BY <2>1, TableKeepsHolds
    <2> QED
      BY <2>1, <2>2 DEF RegisterInv, Serving, main, threads
  <1> QED
    BY <1>1, <1>2, <1>3, <1>4, <1>5, <1>6, <1>7, <1>8, <1>9 DEF Next, MainStep

LEMMA RegisterInductive ==
    ASSUME "send" \notin Faults, "overlap" \notin Faults, "thread" \notin Faults
    PROVE  Spec => []RegisterInv
  <1>1. Init => RegisterInv
    <2> SUFFICES ASSUME Init PROVE RegisterInv
      OBVIOUS
    <2>1. \A c \in Conn, ip \in IP, g \in Group : ~Holds(c, ip, g)
      BY DEF Init, Holds, Used
    <2>2. \A c \in Conn : ~Serving(c)
      BY DEF Init, Serving
    <2>3. mpc = "accept"
      BY DEF Init
    <2> QED
      BY <2>1, <2>2, <2>3 DEF RegisterInv
  <1>2. ControllerInv /\ NewestInv /\ SocketInv /\ RegisterInv /\ [Next]_vars => RegisterInv'
    BY RegisterStep
  <1> QED
    BY <1>1, <1>2, Inductive, OpenInductive, SocketInductive, PTL DEF Spec

\* As long as no send() to a machine fails, every pthread_create succeeds and
\* no machine reconnects before its entry was removed, vm_data_set holds exactly
\* the machines that are served: manage_disconnected_vms, which looks for an
\* address, removes the entry of its own connection and no other.
THEOREM RegistryIsExact ==
    ASSUME "send" \notin Faults, "overlap" \notin Faults, "thread" \notin Faults
    PROVE  Spec => []RegistryExact
  <1>1. ControllerInv /\ RegisterInv => RegistryExact
    <2> SUFFICES ASSUME ControllerInv, RegisterInv PROVE RegistryExact
      OBVIOUS
    <2> USE DEF ControllerInv
    <2>1. ASSUME NEW g \in Group, NEW i \in Used(g)
          PROVE  \/ Serving(vm_data_set[g][i].port)
                 \/ /\ vm_data_set[g][i].port = accepted
                    /\ mpc \in {"publish", "create"}
      <3>1. vm_data_set[g][i].port \in Conn /\ vm_data_set[g][i].ip_address \in IP
        BY DEF TableCompact, Entry
      <3>2. Holds(vm_data_set[g][i].port, vm_data_set[g][i].ip_address, g)
        BY DEF Holds
      <3> QED
        BY <3>1, <3>2 DEF RegisterInv
    <2>2. ASSUME NEW c \in Conn, Serving(c)
          PROVE  /\ \E g \in Group : \E i \in Used(g) : vm_data_set[g][i].port = c
                 /\ pc[c] # "start" => vm[c].port = c
      <3>1. CASE pc[c] = "start"
        <4>1. arg[c].service \in Group
          BY DEF TypeOK
        <4> QED
          BY <3>1, <4>1 DEF HandOver
      <3>2. CASE pc[c] # "start"
        <4>1. vm[c] \in Entry /\ vm[c].port = c
          BY <2>2, <3>2 DEF CopyInv, Serving
        <4>2. Holds(c, vm[c].ip_address, vm[c].service) /\ vm[c].service \in Group
          BY <2>2, <3>2, <4>1 DEF RegisterInv, Entry
        <4> QED
          BY <4>1, <4>2 DEF Holds
      <3> QED
        BY <3>1, <3>2
    <2> QED
      BY <2>1, <2>2 DEF RegistryExact
  <1> QED
    BY <1>1, Inductive, RegisterInductive, PTL

-----------------------------------------------------------------------------
(* The controller implements Feed.                                         *)

\* A notification waits to be sent.
Waiting == state_man_vm = 1 /\ bpc = "poll"

\* The last operation on a machine, the one that waits included.
Latest(g, ip) == IF Waiting /\ virt_machine.service = g /\ virt_machine.ip = ip
                 THEN virt_machine.op ELSE feed[g][ip]

\* Thread c stands for a machine that was announced, and will announce its
\* departure.
ThreadAnnounced(c, g, ip) ==
    \/ /\ pc[c] \in {"recv", "continue", "switch", "rejuvenate", "pubrej", "pubdelete"}
       /\ vm[c].service = g /\ vm[c].ip_address = ip
    \/ /\ pc[c] = "start" /\ Given(c).state = "ACTIVE"
       /\ Given(c).service = g /\ Given(c).ip_address = ip

\* main has announced the machine it is about to start a thread for.
MainAnnounced(g, ip) ==
    mpc = "create" /\ s.state = "ACTIVE" /\ s.service = g /\ client = ip

Announced(g, ip) == MainAnnounced(g, ip) \/ \E c \in Conn : ThreadAnnounced(c, g, ip)

\* The load balancer has, or is about to be sent, exactly the machines somebody
\* has announced, and what waits in the mailbox may follow what was sent.
AnnounceInv ==
    /\ \A g \in Group, ip \in IP : Latest(g, ip) # "DELETE" <=> Announced(g, ip)
    /\ Waiting => /\ virt_machine.ip \in IP
                  /\ LoadBalancerFeed!MayFollow(feed[virt_machine.service][virt_machine.ip],
                                                virt_machine.op)

\* Whoever announced a machine has it in the table.
LEMMA AnnouncedHolds ==
    ASSUME ControllerInv, NewestInv, RegisterInv
    PROVE  /\ \A c \in Conn, g \in Group, ip \in IP :
                 ThreadAnnounced(c, g, ip) => Holds(c, ip, g) /\ pc[c] # "none"
           /\ mpc \in {"publish", "create"} => Holds(accepted, client, s.service)
  <1> USE DEF ControllerInv
  <1>1. ASSUME NEW c \in Conn, NEW g \in Group, NEW ip \in IP, ThreadAnnounced(c, g, ip)
        PROVE  Holds(c, ip, g)
    <2>1. CASE pc[c] = "start"
      <3>1. arg[c].service \in Group /\ arg[c].index \in Used(arg[c].service)
        BY <2>1 DEF HandOver, TypeOK
      <3>2. Given(c).port = c /\ Given(c).service = arg[c].service
        BY <2>1, <3>1 DEF HandOver, TableCompact, Given
      <3> QED
        BY <1>1, <2>1, <3>1, <3>2 DEF ThreadAnnounced, Holds, Given
    <2>2. CASE pc[c] # "start"
      BY <1>1, <2>2 DEF ThreadAnnounced, RegisterInv, Serving
    <2> QED
      BY <2>1, <2>2
  <1>2. ASSUME mpc \in {"publish", "create"} PROVE Holds(accepted, client, s.service)
    <2>1. /\ vm_data_set[s.service][current_vms[s.service] - 1] = NewEntry
          /\ current_vms[s.service] > 0 /\ s.service \in Group
      BY <1>2, SMTT(30) DEF NewestInv, PortsInv, MainInv
    <2>2. current_vms[s.service] \in Nat
      BY <2>1 DEF TypeOK
    <2>3. current_vms[s.service] - 1 \in Used(s.service)
      BY <2>1, <2>2 DEF Used
    <2> QED
      BY <2>1, <2>3 DEF Holds, NewEntry
  <1> QED
    BY <1>1, <1>2 DEF ThreadAnnounced

\* No two of the threads and main have announced the same machine.
LEMMA AnnouncerUnique ==
    ASSUME ControllerInv, NewestInv, RegisterInv,
           NEW g \in Group, NEW ip \in IP, NEW c \in Conn, ThreadAnnounced(c, g, ip)
    PROVE  /\ \A d \in Conn : ThreadAnnounced(d, g, ip) => d = c
           /\ mpc \in {"publish", "create"} => ~(s.service = g /\ client = ip)
  <1>1. Holds(c, ip, g) /\ pc[c] # "none"
    BY AnnouncedHolds
  <1>2. \A d \in Conn : ThreadAnnounced(d, g, ip) => d = c
    BY <1>1, AnnouncedHolds DEF RegisterInv
  <1>3. ASSUME mpc \in {"publish", "create"}, s.service = g, client = ip PROVE FALSE
    <2>1. Holds(accepted, ip, g) /\ accepted \in Conn
      BY <1>3, AnnouncedHolds DEF ControllerInv, MainInv
    <2>2. accepted = c
      BY <1>1, <2>1 DEF RegisterInv
    <2> QED
      BY <1>1, <1>3, <2>2 DEF NewestInv
  <1> QED
    BY <1>2, <1>3

\* Steps that neither fill nor empty the mailbox and change no announcement.
LEMMA AnnounceKept ==
    ASSUME AnnounceInv, UNCHANGED <<state_man_vm, virt_machine, bpc, feed>>,
           \A g \in Group, ip \in IP : Announced(g, ip)' <=> Announced(g, ip)
    PROVE  AnnounceInv'
  <1>1. /\ Waiting' <=> Waiting
        /\ \A g \in Group, ip \in IP : Latest(g, ip)' = Latest(g, ip)
    BY DEF Waiting, Latest
  <1>2. (\A g \in Group, ip \in IP : Latest(g, ip) # "DELETE" <=> Announced(g, ip))'
    BY <1>1 DEF AnnounceInv
  <1> QED
    BY <1>1, <1>2 DEF AnnounceInv, LoadBalancerFeed!MayFollow

\* A notification is put in a mailbox that is empty: it may follow the last one
\* if machines that are announced are those that were not, and no others are
\* announced again.
LEMMA AnnouncePublish ==
    ASSUME ControllerInv, MailboxInv, AnnounceInv,
           NEW t, NEW c, NEW g \in Group, NEW ip \in IP, NEW op \in Operation,
           Publish(t, ip, g, op, c), UNCHANGED <<bpc, feed>>,
           op = "ADD" <=> ~Announced(g, ip),
           op = "DELETE" <=> ~Announced(g, ip)',
           \A h \in Group, iq \in IP :
              ~(h = g /\ iq = ip) => (Announced(h, iq)' <=> Announced(h, iq))
    PROVE  AnnounceInv'
  <1>1. /\ state_man_vm # 1 /\ bpc = "poll" /\ state_man_vm' = 1
        /\ virt_machine' = [ip |-> ip, service |-> g, op |-> op, conn |-> c]
    BY DEF Publish, FillMailbox, MailboxInv, ControllerInv, TypeOK
  <1>2. ~Waiting /\ Waiting'
    BY <1>1 DEF Waiting
  <1>3. \A h \in Group, iq \in IP :
           /\ Latest(h, iq) = feed[h][iq]
           /\ Latest(h, iq)' = IF h = g /\ iq = ip THEN op ELSE feed[h][iq]
    BY <1>1, <1>2 DEF Latest
  <1>4. (\A h \in Group, iq \in IP : Latest(h, iq) # "DELETE" <=> Announced(h, iq))'
    BY <1>3 DEF AnnounceInv
  <1>5. feed[g][ip] = "DELETE" <=> op = "ADD"
    BY <1>3 DEF AnnounceInv
  <1>6. LoadBalancerFeed!MayFollow(feed'[virt_machine'.service][virt_machine'.ip],
                                   virt_machine'.op)
    BY <1>1, <1>5 DEF LoadBalancerFeed!MayFollow
  <1>7. virt_machine'.ip \in IP
    BY <1>1
  <1> QED
    BY <1>4, <1>6, <1>7 DEF AnnounceInv, LoadBalancerFeed!MayFollow

\* Other threads' announcements never change with a thread's step.
LEMMA OthersAnnounced ==
    ASSUME ControllerInv, NEW c \in Conn, ThreadStep(c),
           NEW d \in Conn \ {c}, NEW g, NEW ip
    PROVE  ThreadAnnounced(d, g, ip)' <=> ThreadAnnounced(d, g, ip)
  <1>1. pc'[d] = pc[d] /\ vm'[d] = vm[d]
    BY ThreadFacts
  <1>2. pc[d] = "start" => Given(d)' = Given(d)
    <2> SUFFICES ASSUME pc[d] = "start" PROVE Given(d)' = Given(d)
      OBVIOUS
    <2>1. mutex # NoOne
      BY ConstantFacts DEF ControllerInv, HandOver
    <2>2. UNCHANGED <<table, arg>>
      BY <2>1, ThreadFacts
    <2> QED
      BY <2>2 DEF Given, table
  <1> QED
    BY <1>1, <1>2 DEF ThreadAnnounced

\* A thread's own announcement changes only when it publishes DELETE.
LEMMA OwnAnnounced ==
    ASSUME "send" \notin Faults, ControllerInv, SocketInv,
           NEW c \in Conn, ThreadStep(c), ~PublishDelete(c), NEW g, NEW ip
    PROVE  ThreadAnnounced(c, g, ip)' <=> ThreadAnnounced(c, g, ip)
  <1>1. pc \in [Conn -> ThreadPc] /\ vm \in [Conn -> Entry \union {Uninit}]
    BY DEF ControllerInv, TypeOK
  <1>2. CASE Start(c)
    <2>1. vm' = [vm EXCEPT ![c] = Given(c)] /\ pc[c] = "start"
      BY <1>2 DEF Start, Given
    <2>2. vm'[c] = Given(c)
      BY <1>1, <2>1
    <2>3. pc' = [pc EXCEPT ![c] = IF Given(c).state = "ACTIVE" THEN "recv" ELSE "spin"]
      BY <1>2, <2>2 DEF Start
    <2>4. pc'[c] = IF Given(c).state = "ACTIVE" THEN "recv" ELSE "spin"
      BY <1>1, <2>3
    <2> QED
      BY <2>1, <2>2, <2>4 DEF ThreadAnnounced
  <1>3. CASE ~Start(c)
    <2> DEFINE A == {"recv", "continue", "switch", "rejuvenate", "pubrej", "pubdelete"}
    <2>1. pc[c] = "rejuvenate" => fd[vm[c].socket] # NoOne
      BY ConstantFacts DEF SocketInv, OwnSocket, UsesSocket
    <2>2. ~SendRejuvenateFails(c) /\ ~DropInSwitch(c) /\ ~CloseInSwitch(c)
      BY <2>1 DEF SendRejuvenateFails, DropInSwitch, CloseInSwitch, SocketInv
    <2>3. \/ RecvFeatures(c) \/ RecvFails(c) \/ SendContinue(c) \/ SendContinueFails(c)
          \/ SwitchActive(c) \/ SendRejuvenate(c) \/ PublishRej(c) \/ Drop(c) \/ Close(c)
      BY <1>3, <2>2 DEF ThreadStep
    <2>4. (pc'[c] \in A <=> pc[c] \in A) /\ pc[c] # "start" /\ pc'[c] # "start"
      BY <1>1, <2>3 DEF RecvFeatures, RecvFails, SendContinue, SendContinueFails,
             SwitchActive, SendRejuvenate, PublishRej, Drop, Close
    <2>5. UNCHANGED vm
      BY <2>4, ThreadFacts
    <2> QED
      BY <2>4, <2>5 DEF ThreadAnnounced
  <1> QED
    BY <1>2, <1>3

LEMMA MainAnnounceStep ==
    ASSUME ControllerInv, NewestInv, RegisterInv, MailboxInv, AnnounceInv, MainStep,
           "thread" \notin Faults
    PROVE  AnnounceInv'
  <1> USE DEF ControllerInv
  <1>1. CASE \/ \E ip \in IP : Accept(ip)
             \/ RecvInfo \/ RecvInfoFails \/ Reply \/ RecvAgain \/ RecvAgainFails
    <2>1. /\ UNCHANGED <<shared, table, threads, bpc, peers>>
          /\ mpc # "create" /\ mpc' # "create"
      BY <1>1, HandshakeFacts DEF Accept
    <2>2. UNCHANGED <<state_man_vm, virt_machine, bpc, feed, pc, vm, arg>>
      BY <2>1 DEF shared, threads, peers
    <2>3. \A g \in Group, ip \in IP : Announced(g, ip)' <=> Announced(g, ip)
      BY <2>1, <2>2 DEF Announced, MainAnnounced, ThreadAnnounced, Given, table
    <2> QED
      BY <2>2, <2>3, AnnounceKept
  <1>2. CASE Insert
    <2>1. /\ UNCHANGED <<state_man_vm, virt_machine, bpc, feed, pc, vm, s>>
          /\ mpc = "insert" /\ mpc' = IF s.state = "ACTIVE" THEN "publish" ELSE "create"
      BY <1>2 DEF Insert, threads, peers
    <2>2. \A c \in Conn : pc[c] # "start"
      BY <1>2, ConstantFacts DEF Insert, HandOver
    <2>3. \A g \in Group, ip \in IP : Announced(g, ip)' <=> Announced(g, ip)
      BY <2>1, <2>2 DEF Announced, MainAnnounced, ThreadAnnounced
    <2> QED
      BY <2>1, <2>3, AnnounceKept
  <1>3. CASE PublishAdd
    <2>1. PICK g, ip : g = s.service /\ ip = client
      OBVIOUS
    <2>2. /\ mpc = "publish" /\ mpc' = "create" /\ Publish(Main, ip, g, "ADD", accepted)
          /\ UNCHANGED <<table, threads, bpc, feed, s, client>> /\ s.state = "ACTIVE"
          /\ g \in Group /\ ip \in IP
      BY <1>3, <2>1 DEF PublishAdd, NewestInv, MainInv, peers
    <2>3. \A c \in Conn, h \in Group, iq \in IP :
             ThreadAnnounced(c, h, iq)' <=> ThreadAnnounced(c, h, iq)
      BY <2>2 DEF ThreadAnnounced, Given, table, threads
    <2>4. \A h \in Group, iq \in IP : /\ ~MainAnnounced(h, iq)
                                      /\ MainAnnounced(h, iq)' <=> h = g /\ iq = ip
      BY <2>1, <2>2 DEF MainAnnounced
    <2>5. \A c \in Conn : ~ThreadAnnounced(c, g, ip)
      BY <2>1, <2>2, AnnouncerUnique
    <2>6. ~Announced(g, ip) /\ Announced(g, ip)'
      BY <2>2, <2>4, <2>5 DEF Announced
    <2>7. \A h \in Group, iq \in IP :
             ~(h = g /\ iq = ip) => (Announced(h, iq)' <=> Announced(h, iq))
      BY <2>3, <2>4 DEF Announced
    <2> QED
      BY <2>2, <2>6, <2>7, AnnouncePublish DEF Operation
  <1>4. CASE CreateThread
    <2>1. /\ UNCHANGED <<state_man_vm, virt_machine, bpc, feed, vm, table>>
          /\ mpc = "create" /\ mpc' = "accept" /\ accepted \in Conn
          /\ pc[accepted] = "none"
      BY <1>4 DEF CreateThread, shared, peers, MainInv, NewestInv
    <2>2. /\ pc'[accepted] = "start" /\ \A c \in Conn \ {accepted} : pc'[c] = pc[c]
          /\ arg'[accepted] = [service |-> s.service, index |-> current_vms[s.service] - 1]
          /\ \A c \in Conn \ {accepted} : arg'[c] = arg[c]
      BY <1>4, <2>1 DEF CreateThread, TypeOK
    <2>3. PICK a \in Conn : a = accepted
      BY <2>1
    <2>4. Given(a)' = NewEntry
      BY <2>1, <2>2, <2>3 DEF NewestInv, Given, table
    <2>5. \A g \in Group, ip \in IP :
             /\ ThreadAnnounced(a, g, ip)' <=> MainAnnounced(g, ip)
             /\ ~ThreadAnnounced(a, g, ip) /\ ~MainAnnounced(g, ip)'
      BY <2>1, <2>2, <2>3, <2>4 DEF ThreadAnnounced, MainAnnounced, NewEntry
    <2>6. \A c \in Conn \ {a}, g \in Group, ip \in IP :
             ThreadAnnounced(c, g, ip)' <=> ThreadAnnounced(c, g, ip)
      BY <2>1, <2>2, <2>3 DEF ThreadAnnounced, Given, table
    <2>7. \A g \in Group, ip \in IP : Announced(g, ip)' <=> Announced(g, ip)
      BY <2>5, <2>6 DEF Announced
    <2> QED
      BY <2>1, <2>7, AnnounceKept
  <1>5. CASE CreateThreadFails
    BY <1>5 DEF CreateThreadFails
  <1> QED
    BY <1>1, <1>2, <1>3, <1>4, <1>5 DEF MainStep

LEMMA ThreadAnnounceStep ==
    ASSUME ControllerInv, NewestInv, SocketInv, RegisterInv, MailboxInv, AnnounceInv,
           NEW c \in Conn, ThreadStep(c), "send" \notin Faults
    PROVE  AnnounceInv'
  <1> USE DEF ControllerInv
  <1>1. UNCHANGED <<bpc, feed>>
    BY DEF ThreadStep, Start, RecvFeatures, RecvFails, SendContinue, SendContinueFails,
           SwitchActive, SendRejuvenate, SendRejuvenateFails, DropInSwitch,
           CloseInSwitch, PublishRej, PublishDelete, Drop, Close, peers
  <1>2. /\ UNCHANGED main
        /\ \A g \in Group, ip \in IP : MainAnnounced(g, ip)' <=> MainAnnounced(g, ip)
    BY ThreadFacts DEF MainAnnounced, main
  <1>3. \A d \in Conn \ {c}, g \in Group, ip \in IP :
           ThreadAnnounced(d, g, ip)' <=> ThreadAnnounced(d, g, ip)
    BY OthersAnnounced
  <1>4. CASE PublishDelete(c)
    <2>1. PICK g, ip : g = vm[c].service /\ ip = vm[c].ip_address
      OBVIOUS
    <2>2. /\ pc[c] = "pubdelete" /\ pc'[c] = "drop" /\ Publish(c, ip, g, "DELETE", c)
          /\ g \in Group /\ ip \in IP
      BY <1>4, <2>1 DEF PublishDelete, CopyInv, Entry, TypeOK
    <2>3. \A h \in Group, iq \in IP : /\ ThreadAnnounced(c, h, iq) <=> h = g /\ iq = ip
                                      /\ ~ThreadAnnounced(c, h, iq)'
      BY <2>1, <2>2 DEF ThreadAnnounced
    <2>4. /\ \A d \in Conn : ThreadAnnounced(d, g, ip) => d = c
          /\ ~MainAnnounced(g, ip)
      BY <2>2, <2>3, AnnouncerUnique DEF MainAnnounced
    <2>5. Announced(g, ip) /\ ~Announced(g, ip)'
      BY <1>2, <1>3, <2>2, <2>3, <2>4 DEF Announced
    <2>6. \A h \in Group, iq \in IP :
             ~(h = g /\ iq = ip) => (Announced(h, iq)' <=> Announced(h, iq))
      BY <1>2, <1>3, <2>3 DEF Announced
    <2> QED
      BY <1>1, <2>2, <2>5, <2>6, AnnouncePublish DEF Operation
  <1>5. CASE ~PublishDelete(c)
    <2>1. \A g \in Group, ip \in IP : ThreadAnnounced(c, g, ip)' <=> ThreadAnnounced(c, g, ip)
      BY <1>5, OwnAnnounced
    <2>2. \A g \in Group, ip \in IP : Announced(g, ip)' <=> Announced(g, ip)
      BY <1>2, <1>3, <2>1 DEF Announced
    <2>3. CASE PublishRej(c)
      <3>1. PICK g, ip : g = vm[c].service /\ ip = vm[c].ip_address
        OBVIOUS
      <3>2. /\ pc[c] = "pubrej" /\ Publish(c, ip, g, "REJ", c)
            /\ g \in Group /\ ip \in IP
        BY <2>3, <3>1 DEF PublishRej, CopyInv, Entry, TypeOK
      <3>3. Announced(g, ip)
        BY <3>1, <3>2 DEF Announced, ThreadAnnounced
      <3> QED
        BY <1>1, <2>2, <3>2, <3>3, AnnouncePublish DEF Operation
    <2>4. CASE ~PublishRej(c)
      <3>1. UNCHANGED <<state_man_vm, virt_machine>>
        BY <1>5, <2>4 DEF ThreadStep, Start, RecvFeatures, RecvFails, SendContinue,
               SendContinueFails, SwitchActive, SendRejuvenate, SendRejuvenateFails,
               DropInSwitch, CloseInSwitch, Drop, Close, shared
      <3> QED
        BY <1>1, <2>2, <3>1, AnnounceKept
    <2> QED
      BY <2>3, <2>4
  <1> QED
    BY <1>4, <1>5

LEMMA BalancerAnnounceStep ==
    ASSUME ControllerInv, MailboxInv, AnnounceInv, BalancerStep, "lb" \notin Faults
    PROVE  AnnounceInv'
  <1>1. \A g \in Group, ip \in IP : Announced(g, ip)' <=> Announced(g, ip)
    BY BalancerFacts DEF Announced, MainAnnounced, ThreadAnnounced, Given, main, table, threads
  <1>2. ~Waiting' /\ UNCHANGED virt_machine
    BY DEF BalancerStep, BalancerSend, SendMailbox, BalancerClear, BalancerUnlock,
           MailboxInv, Waiting, shared
  <1>3. \A g \in Group, ip \in IP : feed'[g][ip] = Latest(g, ip)
    <2>1. CASE BalancerSend
      <3>1. /\ feed' = [feed EXCEPT ![virt_machine.service][virt_machine.ip] = virt_machine.op]
            /\ Waiting
        BY <2>1 DEF BalancerSend, SendMailbox, Waiting
      <3>2. feed \in [Group -> [IP -> Operation]]
        BY DEF ControllerInv, TypeOK
      <3> QED
        BY <3>1, <3>2 DEF Latest
    <2>2. CASE BalancerClear \/ BalancerUnlock
      BY <2>2 DEF BalancerClear, BalancerUnlock, Latest, Waiting, peers
    <2> QED
      BY <2>1, <2>2 DEF BalancerStep
  <1>4. \A g \in Group, ip \in IP : Latest(g, ip)' = Latest(g, ip)
    BY <1>2, <1>3 DEF Latest
  <1> QED
    BY <1>1, <1>2, <1>4 DEF AnnounceInv

LEMMA AnnounceInductive ==
    ASSUME "send" \notin Faults, "overlap" \notin Faults, "thread" \notin Faults,
           "lb" \notin Faults
    PROVE  Spec => []AnnounceInv
  <1>1. Init => AnnounceInv
    <2> SUFFICES ASSUME Init PROVE AnnounceInv
      OBVIOUS
    <2>1. ~Waiting
      BY DEF Init, Waiting
    <2>2. \A g \in Group, ip \in IP : ~Announced(g, ip)
      BY DEF Init, Announced, MainAnnounced, ThreadAnnounced
    <2>3. \A g \in Group, ip \in IP : Latest(g, ip) = "DELETE"
      BY <2>1 DEF Init, Latest
    <2> QED
      BY <2>1, <2>2, <2>3 DEF AnnounceInv
  <1>2. /\ ControllerInv /\ NewestInv /\ SocketInv /\ RegisterInv /\ MailboxInv
        /\ AnnounceInv /\ [Next]_vars
        => AnnounceInv'
    <2> SUFFICES ASSUME ControllerInv, NewestInv, SocketInv, RegisterInv, MailboxInv,
                        AnnounceInv, [Next]_vars
                 PROVE  AnnounceInv'
      OBVIOUS
    <2>1. CASE MainStep
      BY <2>1, MainAnnounceStep
    <2>2. ASSUME NEW c \in Conn, ThreadStep(c) PROVE AnnounceInv'
      BY <2>2, ThreadAnnounceStep
    <2>3. CASE BalancerStep
      BY <2>3, BalancerAnnounceStep
    <2>4. CASE UNCHANGED vars
      <3>1. UNCHANGED <<state_man_vm, virt_machine, bpc, feed>>
        BY <2>4 DEF vars, shared, peers
      <3>2. \A g \in Group, ip \in IP : Announced(g, ip)' <=> Announced(g, ip)
        BY <2>4 DEF vars, main, table, threads, Announced, MainAnnounced,
                    ThreadAnnounced, Given
      <3> QED
        BY <3>1, <3>2, AnnounceKept
    <2> QED
      BY <2>1, <2>2, <2>3, <2>4 DEF Next
  <1> QED
    BY <1>1, <1>2, Inductive, OpenInductive, SocketInductive, RegisterInductive,
       MailboxInductive, PTL DEF Spec

\* As long as no send() fails, every pthread_create succeeds and no machine
\* reconnects before its entry was removed, the controller implements Feed: the
\* balancer_thread, which sends whatever is in virt_machine, tells the load
\* balancer ADD, REJ and DELETE of each machine in an order it can follow,
\* although main and several threads fill the mailbox.
THEOREM ImplementsFeed ==
    ASSUME "send" \notin Faults, "overlap" \notin Faults, "thread" \notin Faults,
           "lb" \notin Faults
    PROVE  Spec => KeepsFeed
  <1>1. Init => LoadBalancerFeed!Init
    BY DEF Init, LoadBalancerFeed!Init
  <1>2. ControllerInv /\ AnnounceInv /\ [Next]_vars => [LoadBalancerFeed!Next]_feed
    <2> SUFFICES ASSUME ControllerInv, AnnounceInv, [Next]_vars, feed' # feed
                 PROVE  LoadBalancerFeed!Next
      OBVIOUS
    <2>1. BalancerSend
      <3>1. ~MainStep
        BY DEF MainStep, Accept, RecvInfo, RecvInfoFails, Reply, RecvAgain,
               RecvAgainFails, Insert, PublishAdd, CreateThread, CreateThreadFails, peers
      <3>2. \A c \in Conn : ~ThreadStep(c)
        BY DEF ThreadStep, Start, RecvFeatures, RecvFails, SendContinue,
               SendContinueFails, SwitchActive, SendRejuvenate, SendRejuvenateFails,
               DropInSwitch, CloseInSwitch, PublishRej, PublishDelete, Drop, Close, peers
      <3>3. ~BalancerClear /\ ~BalancerUnlock /\ ~UNCHANGED vars
        BY DEF BalancerClear, BalancerUnlock, vars, peers
      <3> QED
        BY <3>1, <3>2, <3>3 DEF Next, BalancerStep
    <2>2. PICK g, ip, op : /\ g = virt_machine.service /\ ip = virt_machine.ip
                           /\ op = virt_machine.op
      OBVIOUS
    <2>3. feed' = [feed EXCEPT ![g][ip] = op] /\ Waiting
      BY <2>1, <2>2 DEF BalancerSend, SendMailbox, Waiting
    <2>4. g \in Group /\ ip \in IP /\ op \in LoadBalancerFeed!Operation
      BY <2>2, <2>3 DEF ControllerInv, TypeOK, AnnounceInv, Operation,
                        LoadBalancerFeed!Operation
    <2>5. LoadBalancerFeed!Notify(g, ip, op)
      BY <2>2, <2>3 DEF AnnounceInv, LoadBalancerFeed!Notify
    <2> QED
      BY <2>4, <2>5 DEF LoadBalancerFeed!Next
  <1> QED
    BY <1>1, <1>2, Inductive, AnnounceInductive, PTL
    DEF Spec, KeepsFeed, LoadBalancerFeed!Spec
-----------------------------------------------------------------------------
(* Nothing is locked, and no notification dropped, without a way out.       *)

\* A mutex that is locked has somebody who is about to unlock it: main or the
\* thread it started for mutex, the balancer_thread for manage_vm_mutex.
LocksHaveAWayOut ==
    /\ mutex # NoOne => \/ mpc \in {"publish", "create"}
                        \/ \E c \in Conn : pc[c] = "start"
    /\ manage_vm_mutex # NoOne => state_man_vm = 1 \/ bpc # "poll"

\* Both mutexes are unlocked by another thread than the one that locked them.
\* Whatever fails, pthread_create included, the thread that has to unlock exists
\* and is at the statement, or on its way to it: no error branch of
\* accept_new_client, communication_thread or balancer_thread leaves a mutex
\* locked behind it.
THEOREM NoMutexLeftLocked == Spec => []LocksHaveAWayOut
  <1>1. Init => LocksHaveAWayOut
    BY DEF Init, LocksHaveAWayOut
  <1>2. ASSUME ControllerInv, LocksHaveAWayOut, [Next]_vars PROVE LocksHaveAWayOut'
    <2> USE <1>2 DEF LocksHaveAWayOut, shared
    <2>0. pc \in [Conn -> ThreadPc]
      BY DEF ControllerInv, TypeOK
    <2>1. ASSUME NEW ip \in IP, Accept(ip) PROVE LocksHaveAWayOut'
      BY <2>1 DEF Accept, threads
    <2>2. CASE RecvInfo \/ RecvInfoFails \/ Reply \/ RecvAgain \/ RecvAgainFails
      BY <2>2, HandshakeFacts DEF threads
    <2>3. CASE Insert \/ PublishAdd \/ CreateThreadFails
      BY <2>3 DEF Insert, PublishAdd, Publish, FillMailbox, CreateThreadFails, threads
    <2>4. CASE CreateThread
      <3>1. accepted \in Conn
        BY <2>4 DEF CreateThread, ControllerInv, MainInv
      <3>2. pc'[accepted] = "start"
        BY <2>0, <2>4, <3>1 DEF CreateThread
      <3> QED
        BY <2>4, <3>1, <3>2 DEF CreateThread
    <2>5. ASSUME NEW c \in Conn, ThreadStep(c) PROVE LocksHaveAWayOut'
      <3>1. CASE Start(c)
        BY <3>1 DEF Start
      <3>2. CASE ~Start(c)
        <4>1. pc[c] # "start" /\ UNCHANGED <<mutex, mpc, bpc>>
          BY <2>5, <3>2 DEF ThreadStep, RecvFeatures, RecvFails, SendContinue,
                SendContinueFails, SwitchActive, SendRejuvenate, SendRejuvenateFails,
                DropInSwitch, CloseInSwitch, PublishRej, PublishDelete, Drop, Close,
                RemoveVm, CompactGroup, main
        <4>2. \/ UNCHANGED <<manage_vm_mutex, state_man_vm>>
              \/ state_man_vm' = 1
          BY <2>5, <3>2 DEF ThreadStep, RecvFeatures, RecvFails, SendContinue,
                SendContinueFails, SwitchActive, SendRejuvenate, SendRejuvenateFails,
                DropInSwitch, CloseInSwitch, PublishRej, PublishDelete, Drop, Close,
                Publish, FillMailbox
        <4>3. \A d \in Conn : pc[d] = "start" => pc'[d] = "start"
          BY <2>5, <4>1, ThreadFacts
        <4> QED
          BY <4>1, <4>2, <4>3
      <3> QED
        BY <3>1, <3>2
    <2>6. CASE BalancerStep
      BY <2>6 DEF BalancerStep, BalancerSend, SendMailbox, BalancerClear,
                  BalancerUnlock, main, threads
    <2>7. CASE UNCHANGED vars
      BY <2>7 DEF vars, main, threads
    <2> QED
      BY <2>1, <2>2, <2>3, <2>4, <2>5, <2>6, <2>7 DEF Next, MainStep
  <1> QED
    BY <1>1, <1>2, Inductive, PTL DEF Spec

\* The notification that waits is about connection c.
InMailbox(c) == Waiting /\ virt_machine.conn = c

\* Connection c is one the load balancer was to be told of: its machine came as
\* ACTIVE and main is past the announcement.
Arrived(c) == \/ pc[c] \notin {"none", "start", "spin"}
              \/ pc[c] = "start" /\ Given(c).state = "ACTIVE"
              \/ c = accepted /\ mpc = "create" /\ s.state = "ACTIVE"

\* Its thread is past the announcement of its departure.
Departed(c) == pc[c] \in {"drop", "close", "done"}

\* The load balancer knows of every machine that arrived and has been told to
\* forget every one that left, or the notification waits to be sent.
NotificationsKept ==
    \A c \in Conn :
        /\ Arrived(c) => lb[c] # "none" \/ InMailbox(c)
        /\ Departed(c) => \/ lb[c] = "DELETE"
                          \/ InMailbox(c) /\ virt_machine.op = "DELETE"

\* DELETE is the last word about a connection.
LastWord == \A c \in Conn : Departed(c) /\ virt_machine.conn = c => virt_machine.op = "DELETE"

\* Steps that touch neither the mailbox nor the load balancer, and announce
\* nothing.
LEMMA NotificationsUntouched ==
    ASSUME NotificationsKept, LastWord, UNCHANGED <<state_man_vm, virt_machine, bpc, lb>>,
           \A c \in Conn : (Arrived(c)' => Arrived(c)) /\ (Departed(c)' => Departed(c))
    PROVE  NotificationsKept' /\ LastWord'
  <1>1. \A c \in Conn : InMailbox(c)' <=> InMailbox(c)
    BY DEF InMailbox, Waiting
  <1> QED
    BY <1>1 DEF NotificationsKept, LastWord

\* A notification about c is put in an empty mailbox.
LEMMA NotificationPublished ==
    ASSUME MailboxInv, NotificationsKept, LastWord, UNCHANGED <<bpc, lb>>,
           NEW c \in Conn, NEW t, NEW g, NEW ip, NEW op, Publish(t, ip, g, op, c),
           Departed(c)' => op = "DELETE",
           \A d \in Conn \ {c} : (Arrived(d)' => Arrived(d)) /\ (Departed(d)' => Departed(d))
    PROVE  NotificationsKept' /\ LastWord'
  <1>1. ~Waiting /\ bpc = "poll"
    BY DEF MailboxInv, Publish, Waiting
  <1>2. state_man_vm' = 1 /\ virt_machine'.conn = c /\ virt_machine'.op = op
    BY DEF Publish, FillMailbox
  <1>3. InMailbox(c)'
    BY <1>1, <1>2 DEF InMailbox, Waiting
  <1>4. \A d \in Conn : ~InMailbox(d)
    BY <1>1 DEF InMailbox
  <1>5. NotificationsKept'
    BY <1>2, <1>3, <1>4 DEF NotificationsKept
  <1>6. LastWord'
    BY <1>2 DEF LastWord
  <1> QED
    BY <1>5, <1>6

\* The steps of main.
LEMMA MainNotifies ==
    ASSUME "thread" \notin Faults, ControllerInv, NewestInv, MailboxInv,
           NotificationsKept, LastWord, MainStep
    PROVE  NotificationsKept' /\ LastWord'
  <1> USE DEF ControllerInv
  <1>1. ASSUME NEW ip \in IP, Accept(ip) PROVE NotificationsKept' /\ LastWord'
    <2>1. UNCHANGED <<state_man_vm, virt_machine, bpc, lb, pc, arg, vm_data_set>> /\ mpc' = "info"
      BY <1>1 DEF Accept, shared, table, threads, peers
    <2>2. \A c \in Conn : (Arrived(c)' => Arrived(c)) /\ (Departed(c)' => Departed(c))
      BY <2>1 DEF Arrived, Departed, Given
    <2> QED
      BY <2>1, <2>2, NotificationsUntouched
  <1>2. CASE RecvInfo \/ RecvInfoFails \/ Reply \/ RecvAgain \/ RecvAgainFails
    <2>1. /\ UNCHANGED <<state_man_vm, virt_machine, bpc, lb, pc, arg, vm_data_set>>
          /\ mpc' # "create"
      BY <1>2, HandshakeFacts DEF shared, table, threads, peers
    <2>2. \A c \in Conn : (Arrived(c)' => Arrived(c)) /\ (Departed(c)' => Departed(c))
      BY <2>1 DEF Arrived, Departed, Given
    <2> QED
      BY <2>1, <2>2, NotificationsUntouched
  <1>3. CASE Insert
    <2>1. /\ UNCHANGED <<state_man_vm, virt_machine, bpc, lb, pc, s>> /\ mutex = NoOne
          /\ mpc' = IF s.state = "ACTIVE" THEN "publish" ELSE "create"
      BY <1>3 DEF Insert, threads, peers
    <2>2. \A c \in Conn : pc[c] # "start"
      BY <2>1, ConstantFacts DEF HandOver
    <2>3. \A c \in Conn : (Arrived(c)' => Arrived(c)) /\ (Departed(c)' => Departed(c))
      BY <2>1, <2>2 DEF Arrived, Departed
    <2> QED
      BY <2>1, <2>3, NotificationsUntouched
  <1>4. CASE PublishAdd
    <2>1. /\ UNCHANGED <<bpc, lb, pc, arg, vm_data_set, accepted, s>> /\ mpc = "publish"
          /\ Publish(Main, client, s.service, "ADD", accepted)
      BY <1>4 DEF PublishAdd, table, threads, peers
    <2>2. accepted \in Conn /\ pc[accepted] = "none"
      BY <2>1 DEF MainInv, NewestInv
    <2>3. ~Departed(accepted)'
      BY <2>1, <2>2 DEF Departed
    <2>4. \A d \in Conn \ {accepted} :
             (Arrived(d)' => Arrived(d)) /\ (Departed(d)' => Departed(d))
      BY <2>1 DEF Arrived, Departed, Given
    <2> QED
      BY <2>1, <2>2, <2>3, <2>4, NotificationPublished
  <1>5. CASE CreateThread
    <2>1. /\ UNCHANGED <<state_man_vm, virt_machine, bpc, lb, vm_data_set, accepted>>
          /\ mpc = "create" /\ mpc' = "accept"
          /\ pc' = [pc EXCEPT ![accepted] = "start"]
          /\ arg' = [arg EXCEPT ![accepted] =
                        [service |-> s.service, index |-> current_vms[s.service] - 1]]
      BY <1>5 DEF CreateThread, shared, table, peers
    <2>2. accepted \in Conn /\ pc \in [Conn -> ThreadPc] /\ DOMAIN arg = Conn
      BY <2>1 DEF MainInv, TypeOK
    <2>3. Given(accepted)'.state = s.state
      BY <2>1, <2>2 DEF NewestInv, NewEntry, Given
    <2>4. \A d \in Conn \ {accepted} : pc'[d] = pc[d] /\ arg'[d] = arg[d]
      BY <2>1, <2>2
    <2>5. pc'[accepted] = "start"
      BY <2>1, <2>2
    <2>6. \A c \in Conn : (Arrived(c)' => Arrived(c)) /\ (Departed(c)' => Departed(c))
      <3>1. (Arrived(accepted)' => Arrived(accepted)) /\ ~Departed(accepted)'
        BY <2>1, <2>3, <2>5 DEF Arrived, Departed
      <3>2. \A d \in Conn \ {accepted} :
               (Arrived(d)' => Arrived(d)) /\ (Departed(d)' => Departed(d))
        BY <2>1, <2>4 DEF Arrived, Departed, Given
      <3> QED
        BY <2>1, <3>1, <3>2
    <2> QED
      BY <2>1, <2>6, NotificationsUntouched
  <1> QED
    BY <1>1, <1>2, <1>3, <1>4, <1>5 DEF MainStep, CreateThreadFails

\* The steps of a communication_thread.
LEMMA ThreadNotifies ==
    ASSUME ControllerInv, MailboxInv, NotificationsKept, LastWord,
           NEW c \in Conn, ThreadStep(c)
    PROVE  NotificationsKept' /\ LastWord'
  <1> USE DEF ControllerInv
  <1>0. pc \in [Conn -> ThreadPc] /\ DOMAIN vm = Conn
    BY DEF TypeOK
  <1>1. /\ \A d \in Conn \ {c} : pc'[d] = pc[d]
        /\ UNCHANGED <<accepted, mpc, s, arg>>
        /\ UNCHANGED table \/ mutex = NoOne
    BY ThreadFacts DEF main
  <1>2. \A d \in Conn : pc[d] = "start" => vm_data_set' = vm_data_set
    BY <1>1, ConstantFacts DEF HandOver, table
  <1>3. \A d \in Conn \ {c} : (Arrived(d)' => Arrived(d)) /\ (Departed(d)' => Departed(d))
    BY <1>1, <1>2 DEF Arrived, Departed, Given
  <1>4. UNCHANGED <<bpc, lb>>
    BY DEF ThreadStep, Start, RecvFeatures, RecvFails, SendContinue, SendContinueFails,
           SwitchActive, SendRejuvenate, SendRejuvenateFails, DropInSwitch,
           CloseInSwitch, PublishRej, PublishDelete, Drop, Close, peers
  <1>5. CASE PublishRej(c)
    <2>1. Publish(c, vm[c].ip_address, vm[c].service, "REJ", c) /\ pc'[c] = "recv"
      BY <1>0, <1>5 DEF PublishRej
    <2>2. ~Departed(c)'
      BY <2>1 DEF Departed
    <2> QED
      BY <1>3, <1>4, <2>1, <2>2, NotificationPublished
  <1>6. CASE PublishDelete(c)
    BY <1>3, <1>4, <1>6, NotificationPublished DEF PublishDelete
  <1>7. CASE Start(c)
    <2>1. /\ UNCHANGED <<state_man_vm, virt_machine>> /\ pc[c] = "start"
          /\ vm' = [vm EXCEPT ![c] = Given(c)]
          /\ pc' = [pc EXCEPT ![c] = IF vm'[c].state = "ACTIVE" THEN "recv" ELSE "spin"]
      BY <1>7 DEF Start, Given
    <2>2. pc'[c] = (IF Given(c).state = "ACTIVE" THEN "recv" ELSE "spin")
      BY <1>0, <2>1
    <2>3. ~Departed(c)' /\ (pc'[c] = "recv" => Arrived(c))
      BY <2>1, <2>2 DEF Departed, Arrived
    <2>4. mpc \notin {"publish", "create"}
      BY <2>1 DEF HandOver
    <2>5. Arrived(c)' => Arrived(c)
      BY <1>1, <2>2, <2>3, <2>4 DEF Arrived
    <2> QED
      BY <1>3, <1>4, <2>1, <2>3, <2>5, NotificationsUntouched
  <1>8. CASE ~PublishRej(c) /\ ~PublishDelete(c) /\ ~Start(c)
    <2>1. UNCHANGED <<state_man_vm, virt_machine>> /\ pc[c] \notin {"none", "start", "spin"}
      BY <1>8 DEF ThreadStep, RecvFeatures, RecvFails, SendContinue, SendContinueFails,
           SwitchActive, SendRejuvenate, SendRejuvenateFails, DropInSwitch,
           CloseInSwitch, Drop, Close, shared
    <2>2. pc'[c] \in {"drop", "close", "done"} => pc[c] \in {"drop", "close", "done"}
      BY <1>0, <1>8 DEF ThreadStep, RecvFeatures, RecvFails, SendContinue, SendContinueFails,
           SwitchActive, SendRejuvenate, SendRejuvenateFails, DropInSwitch,
           CloseInSwitch, Drop, Close
    <2>3. Arrived(c) /\ (Departed(c)' => Departed(c))
      BY <2>1, <2>2 DEF Arrived, Departed
    <2> QED
      BY <1>3, <1>4, <2>1, <2>3, NotificationsUntouched
  <1> QED
    BY <1>5, <1>6, <1>7, <1>8

\* The steps of the balancer_thread.
LEMMA BalancerNotifies ==
    ASSUME "lb" \notin Faults, ControllerInv, NotificationsKept, LastWord, BalancerStep
    PROVE  NotificationsKept' /\ LastWord'
  <1>1. UNCHANGED <<virt_machine, vm_data_set, accepted, mpc, s, pc, arg>>
    BY BalancerFacts DEF table, main, threads
  <1>2. \A c \in Conn : (Arrived(c)' <=> Arrived(c)) /\ (Departed(c)' <=> Departed(c))
    BY <1>1 DEF Arrived, Departed, Given
  <1>3. LastWord'
    BY <1>1, <1>2 DEF LastWord
  <1>4. CASE BalancerSend
    <2>1. /\ lb' = [lb EXCEPT ![virt_machine.conn] = virt_machine.op]
          /\ DOMAIN lb = Conn /\ virt_machine.op \in Operation
      BY <1>4 DEF BalancerSend, SendMailbox, ControllerInv, TypeOK
    <2>2. "none" \notin Operation
      BY DEF Operation
    <2>3. ASSUME NEW c \in Conn
          PROVE  /\ Arrived(c)' => lb'[c] # "none"
                 /\ Departed(c)' => lb'[c] = "DELETE"
      <3>1. CASE virt_machine.conn = c
        BY <1>2, <2>1, <2>2, <3>1 DEF LastWord
      <3>2. CASE virt_machine.conn # c
        <4>1. lb'[c] = lb[c] /\ ~InMailbox(c)
          BY <2>1, <3>2 DEF InMailbox
        <4> QED
          BY <1>2, <4>1 DEF NotificationsKept
      <3> QED
        BY <3>1, <3>2
    <2> QED
      BY <1>3, <2>3 DEF NotificationsKept
  <1>5. CASE BalancerClear \/ BalancerUnlock
    <2>1. UNCHANGED lb /\ ~Waiting
      BY <1>5 DEF BalancerClear, BalancerUnlock, Waiting, peers
    <2>2. \A c \in Conn : ~InMailbox(c)
      BY <2>1 DEF InMailbox
    <2> QED
      BY <1>2, <1>3, <2>1, <2>2 DEF NotificationsKept
  <1> QED
    BY <1>4, <1>5 DEF BalancerStep

\* As long as every pthread_create and every send() to the load balancer
\* succeeds - sends to machines may fail, handshakes may be reset and machines
\* may reconnect early - the one-place mailbox loses nothing: every connection
\* that a thread serves as ACTIVE was announced, and a thread that goes on to
\* remove its entry and to close its connection has had its DELETE sent or has
\* it waiting in virt_machine.
THEOREM NoNotificationLost ==
    ASSUME "thread" \notin Faults, "lb" \notin Faults
    PROVE  Spec => []NotificationsKept
  <1>1. Init => NotificationsKept /\ LastWord
    BY DEF Init, NotificationsKept, LastWord, Arrived, Departed
  <1>2. ASSUME ControllerInv, NewestInv, MailboxInv, NotificationsKept, LastWord, [Next]_vars
        PROVE  NotificationsKept' /\ LastWord'
    <2>1. CASE UNCHANGED vars
      <3>1. UNCHANGED <<state_man_vm, virt_machine, bpc, lb, vm_data_set, accepted,
                        mpc, s, pc, arg>>
        BY <2>1 DEF vars, shared, table, main, threads, peers
      <3>2. \A c \in Conn : (Arrived(c)' => Arrived(c)) /\ (Departed(c)' => Departed(c))
        BY <3>1 DEF Arrived, Departed, Given
      <3> QED
        BY <1>2, <3>1, <3>2, NotificationsUntouched
    <2> QED
      BY <1>2, <2>1, MainNotifies, ThreadNotifies, BalancerNotifies DEF Next
  <1> QED
    BY <1>1, <1>2, Inductive, OpenInductive, MailboxInductive, PTL DEF Spec
=============================================================================
