--------------------------- MODULE BalancerProofs ---------------------------
(***************************************************************************)
(* Proofs about Balancer, for any number of groups, machines, places and   *)
(* clients, any number of notifications and any faults.                    *)
(***************************************************************************)
EXTENDS Balancer, FiniteSetTheorems, TLAPS

Picking == {"start", "wrap", "choose", "connect"}

(* The mutex is with main, with the worker main created, or free; main's   *)
(* argument is the connection it accepted last.                            *)
WorkerInv ==
    /\ \A c \in Conn :
          /\ wpc[c] = "start" => vm_client = c
          /\ wpc[c] \notin {"none", "start"} => warg[c] = c
          /\ wpc[c] \in Picking => mutex = Main /\ mpc # "create"
          /\ wpc[c] # "none" => c <= accepted
          /\ c <= accepted => addr[c] \in ClientIP
    /\ \A c, d \in Conn : wpc[c] \in Picking /\ wpc[d] \in Picking => c = d
    /\ mpc \in {"lock", "create"} => accepted \in Conn /\ wpc[accepted] = "none"
    /\ mpc = "create" => mutex = Main /\ vm_client = accepted

(* The slots whose machine stays: while delete_vm copies the last slot     *)
(* into the gap, the last one and not the gap.                             *)
Live(g) == IF cpc = "fill" /\ g = cvm.service THEN (0 .. current_vms[g]) \ {cindex}
                                              ELSE Used(g)

TableInv ==
    /\ cpc # "recv" => cvm \in Message
    /\ cpc \in {"write", "count"} => cvm.op = "ADD"
    /\ cpc \in {"find", "fill"} => cvm.op # "ADD"
    /\ \A g \in Group : current_vms[g] <= allocated_vms[g]
    /\ cpc \in {"write", "count", "find", "fill"} =>
          current_vms[cvm.service] < allocated_vms[cvm.service]
    /\ cpc = "count" => vm_data_set[cvm.service][current_vms[cvm.service]].ip = cvm.ip
    /\ cpc = "fill" => cindex \in 0 .. current_vms[cvm.service]
    /\ \A g \in Group : \A i \in Live(g) : vm_data_set[g][i].ip \in IP

(* The notification was received and is not applied yet. *)
Pending == {"grow", "write", "count", "find"}

FeedInv ==
    fresh =>
      /\ \A g \in Group : \A i, j \in Live(g) :
            vm_data_set[g][i].ip = vm_data_set[g][j].ip => i = j
      /\ \A g \in Group, ip \in IP :
            (cpc \in Pending => <<g, ip>> # <<cvm.service, cvm.ip>>) =>
               (feed[g][ip] = "ADD" <=> \E i \in Live(g) : vm_data_set[g][i].ip = ip)
      /\ cpc \in Pending =>
            /\ feed[cvm.service][cvm.ip] = cvm.op
            /\ cvm.op = "ADD" =>
                  \A i \in Live(cvm.service) : vm_data_set[cvm.service][i].ip # cvm.ip

(* A client with a machine is listed there and nowhere else. *)
HomeInv ==
    ~raced =>
      /\ \A a \in ClientIP : home[a] # NoIP =>
            /\ \E i \in Live(0) : /\ vm_data_set[0][i].ip = home[a]
                                  /\ a \in vm_data_set[0][i].clients
            /\ \A i \in Live(0) : a \in vm_data_set[0][i].clients =>
                                     vm_data_set[0][i].ip = home[a]
      /\ cpc \in {"write", "count"} /\ cvm.service = 0 =>
            vm_data_set[0][current_vms[0]].clients = {}

(* A worker that has compared actual_index uses it while it is in range. *)
IndexInv ==
    ~astray =>
      /\ actual_index <= current_vms[0]
      /\ \A c \in Conn : wpc[c] = "choose" /\ current_vms[0] > 0 =>
            actual_index < current_vms[0]

BalancerInv == TypeOK /\ WorkerInv /\ TableInv /\ FeedInv /\ HomeInv /\ IndexInv

-----------------------------------------------------------------------------
LEMMA NameFacts ==
    /\ 0 \in Group /\ NoIP \notin IP /\ NoIP \notin ClientIP /\ Main # NoOne
    /\ NoOne \notin Conn /\ Unwritten \notin Message /\ Conn \subseteq Nat
BY BalancerSizes, BalancerNames DEF Group, Main, NoOne, Conn, Unwritten, Message

LEMMA SlotTypes ==
    ASSUME TypeOK, NEW g \in Group
    PROVE  /\ current_vms[g] \in Nat /\ allocated_vms[g] \in Nat \ {0}
           /\ vm_data_set[g] \in [0 .. (allocated_vms[g] - 1) -> Slot]
           /\ \A i \in 0 .. (allocated_vms[g] - 1) : vm_data_set[g][i] \in Slot
<1>1. /\ current_vms[g] \in Nat /\ allocated_vms[g] \in Nat \ {0}
      /\ vm_data_set[g] \in [0 .. (allocated_vms[g] - 1) -> Slot]
  BY DEF TypeOK
<1> QED
  BY <1>1

LEMMA BalancerInit == Init => BalancerInv
<1> SUFFICES ASSUME Init PROVE BalancerInv
  OBVIOUS
<1> USE NameFacts, BalancerSizes DEF Init
<1>1. feed = [g \in Group |-> [ip \in IP |-> "DELETE"]]
  BY DEF ControllerFeed!Init
<1>2. TypeOK
  <2>1. Uninit \in Slot
    BY DEF Uninit, Slot
  <2>2. \A g \in Group : vm_data_set[g] \in [0 .. (allocated_vms[g] - 1) -> Slot]
    BY <2>1
  <2>3. feed \in [Group -> [IP -> {"ADD", "DELETE", "REJ"}]]
    BY <1>1
  <2>4. /\ addr \in [Conn -> ClientIP \union {NoIP}]
        /\ da_socket \in [Conn -> IP \union {NoIP}]
        /\ home \in [ClientIP -> IP \union {NoIP}]
        /\ warg \in [Conn -> Conn \union {NoOne}]
        /\ wpc \in [Conn -> WorkerPc]
    BY DEF WorkerPc
  <2>5. /\ current_vms \in [Group -> Nat]
        /\ allocated_vms \in [Group -> Nat \ {0}]
        /\ DOMAIN vm_data_set = Group
    OBVIOUS
  <2>6. /\ actual_index \in Nat /\ cindex \in Nat
        /\ msgs \in 0 .. MaxMsgs /\ accepted \in 0 .. MaxClients
    OBVIOUS
  <2> QED
    BY <2>2, <2>3, <2>4, <2>5, <2>6 DEF TypeOK
<1>3. WorkerInv
  BY DEF WorkerInv, Picking, Conn
<1>4. \A g \in Group : Live(g) = {}
  BY DEF Live, Used
<1>5. TableInv
  BY <1>4 DEF TableInv
<1>6. FeedInv
  BY <1>1, <1>4 DEF FeedInv, Pending
<1>7. HomeInv /\ IndexInv
  BY <1>4 DEF HomeInv, IndexInv
<1> QED
  BY <1>2, <1>3, <1>5, <1>6, <1>7 DEF BalancerInv

(* Neither the table nor what was notified changes. *)
LEMMA TableUnchanged ==
    ASSUME BalancerInv, UNCHANGED <<table, cpc, cvm, cindex, fresh, feed, home>>,
           raced => raced'
    PROVE  TableInv' /\ FeedInv' /\ HomeInv'
<1> USE DEF BalancerInv, table
<1>1. \A g : Live(g)' = Live(g)
  BY DEF Live, Used
<1>2. TableInv'
  BY <1>1 DEF TableInv
<1>3. FeedInv'
  BY <1>1 DEF FeedInv
<1>4. HomeInv'
  BY <1>1 DEF HomeInv
<1> QED
  BY <1>2, <1>3, <1>4

-----------------------------------------------------------------------------
(* main.                                                                   *)

LEMMA MainInv == ASSUME BalancerInv, MainStep PROVE BalancerInv'
<1> USE NameFacts, BalancerSizes DEF BalancerInv
<1>1. UNCHANGED <<table, actual_index, controller, warg, da_socket, home, alive, ghosts>>
  BY DEF MainStep, Accept, LockAndFill, FillArgument, CreateWorker, CreateWorkerFails,
     workers
<1>2. TableInv' /\ FeedInv' /\ HomeInv'
  BY <1>1, TableUnchanged DEF controller, ghosts
<1>3. accepted \in Nat /\ accepted <= MaxClients
  BY DEF TypeOK
<1>4. CASE Accept
  <2>1. PICK a \in ClientIP : addr' = [addr EXCEPT ![accepted + 1] = a]
    BY <1>4 DEF Accept
  <2>2. /\ accepted' = accepted + 1 /\ accepted + 1 \in Conn /\ mpc = "accept"
        /\ mpc' = "lock" /\ UNCHANGED <<mutex, vm_client, workers>>
    BY <1>3, <1>4 DEF Accept, Conn
  <2>3. TypeOK'
    BY <1>1, <2>1, <2>2 DEF TypeOK, table, controller, workers, ghosts, Conn
  <2>4. ASSUME NEW c \in Conn
        PROVE  /\ wpc[c] # "none" => c <= accepted + 1
               /\ c <= accepted + 1 => addr'[c] \in ClientIP
    <3>1. c \in Nat /\ (c = accepted + 1 \/ (c <= accepted + 1 => c <= accepted))
      BY <1>3
    <3>2. wpc[c] # "none" => c <= accepted
      BY DEF WorkerInv
    <3>3. c # accepted + 1 => addr'[c] = addr[c]
      BY <2>1, <2>2 DEF TypeOK
    <3>4. c = accepted + 1 => addr'[c] = a
      BY <2>1, <2>2 DEF TypeOK
    <3>5. c <= accepted => addr[c] \in ClientIP
      BY DEF WorkerInv
    <3>6. c <= accepted => c <= accepted + 1
      BY <1>3, <3>1
    <3> QED
      BY <3>1, <3>2, <3>3, <3>4, <3>5, <3>6
  <2>5. wpc[accepted + 1] = "none"
    BY <1>3, <2>2 DEF WorkerInv
  <2>6. WorkerInv'
    BY <1>1, <2>2, <2>4, <2>5 DEF WorkerInv, workers
  <2>7. IndexInv'
    BY <1>1, <2>2 DEF IndexInv, workers, table, ghosts
  <2> QED
    BY <1>2, <2>3, <2>6, <2>7
<1>5. CASE LockAndFill
  <2>1. /\ mutex = NoOne /\ mutex' = Main /\ vm_client' = accepted /\ accepted \in Conn
        /\ mpc = "lock" /\ mpc' = "create" /\ UNCHANGED <<addr, accepted, workers>>
    BY <1>5 DEF LockAndFill, FillArgument, WorkerInv
  <2>2. TypeOK'
    BY <1>1, <2>1 DEF TypeOK, table, controller, workers, ghosts
  <2>3. \A c \in Conn : wpc[c] \notin Picking
    BY <2>1 DEF WorkerInv
  <2>4. WorkerInv'
    BY <1>1, <2>1, <2>3 DEF WorkerInv, Picking, workers
  <2>5. IndexInv'
    BY <1>1, <2>1 DEF IndexInv, workers, table, ghosts
  <2> QED
    BY <1>2, <2>2, <2>4, <2>5
<1>6. CASE CreateWorker
  <2>1. /\ mpc = "create" /\ mpc' = "accept" /\ accepted \in Conn
        /\ wpc' = [wpc EXCEPT ![accepted] = "start"]
        /\ UNCHANGED <<mutex, vm_client, addr, accepted>>
    BY <1>6 DEF CreateWorker, WorkerInv
  <2>2. TypeOK'
    BY <1>1, <2>1 DEF TypeOK, table, controller, ghosts, WorkerPc
  <2>3. \A c \in Conn : wpc[c] \notin Picking
    BY <2>1 DEF WorkerInv
  <2>4. \A c \in Conn : wpc'[c] = IF c = accepted THEN "start" ELSE wpc[c]
    BY <2>1 DEF TypeOK
  <2>5. WorkerInv'
    BY <1>1, <1>3, <2>1, <2>3, <2>4 DEF WorkerInv, Picking
  <2>6. IndexInv'
    BY <1>1, <2>4 DEF IndexInv, table, ghosts
  <2> QED
    BY <1>2, <2>2, <2>5, <2>6
<1>7. CASE CreateWorkerFails
  <2>1. /\ mpc = "create" /\ mpc' = "accept" /\ mutex' = NoOne
        /\ UNCHANGED <<vm_client, addr, accepted, workers>>
    BY <1>7 DEF CreateWorkerFails
  <2>2. TypeOK'
    BY <1>1, <2>1 DEF TypeOK, table, controller, workers, ghosts
  <2>3. WorkerInv'
    BY <1>1, <2>1 DEF WorkerInv, workers
  <2>4. IndexInv'
    BY <1>1, <2>1 DEF IndexInv, workers, table, ghosts
  <2> QED
    BY <1>2, <2>2, <2>3, <2>4
<1> QED
  BY <1>4, <1>5, <1>6, <1>7 DEF MainStep
-----------------------------------------------------------------------------
(* A worker.                                                               *)

LEMMA LiveAllocated ==
    ASSUME TypeOK, TableInv, NEW g \in Group
    PROVE  Live(g) \subseteq 0 .. (allocated_vms[g] - 1) /\ Live(g) \subseteq Nat
<1>1. current_vms[g] \in Nat /\ allocated_vms[g] \in Nat /\ current_vms[g] <= allocated_vms[g]
  BY DEF TypeOK, TableInv
<1>2. CASE cpc = "fill" /\ g = cvm.service
  <2>1. current_vms[g] < allocated_vms[g]
    BY <1>2 DEF TableInv
  <2> QED
    BY <1>1, <1>2, <2>1 DEF Live
<1>3. CASE ~(cpc = "fill" /\ g = cvm.service)
  BY <1>1, <1>3 DEF Live, Used
<1> QED
  BY <1>2, <1>3

(* No machine moves, whatever happens to the lists of clients. *)
LEMMA AddressesUnchanged ==
    ASSUME BalancerInv,
           UNCHANGED <<current_vms, allocated_vms, cpc, cvm, cindex, fresh, feed>>,
           \A g \in Group : \A i \in 0 .. (allocated_vms[g] - 1) :
              vm_data_set'[g][i].ip = vm_data_set[g][i].ip
    PROVE  TableInv' /\ FeedInv'
<1> USE NameFacts DEF BalancerInv
<1>1. \A g : Live(g)' = Live(g)
  BY DEF Live, Used
<1>2. \A g \in Group : \A i \in Live(g) : vm_data_set'[g][i].ip = vm_data_set[g][i].ip
  BY LiveAllocated
<1>3. TableInv'
  <2>1. cpc # "recv" => cvm.service \in Group
    BY DEF TableInv, Message
  <2>2. cpc = "count" =>
           vm_data_set'[cvm.service][current_vms[cvm.service]].ip = cvm.ip
    <3>1. SUFFICES ASSUME cpc = "count"
                   PROVE  current_vms[cvm.service] \in 0 .. (allocated_vms[cvm.service] - 1)
      BY <2>1 DEF TableInv
    <3> QED
      BY <2>1, <3>1 DEF TableInv, TypeOK
  <2> QED
    BY <1>1, <1>2, <2>2 DEF TableInv
<1>4. FeedInv'
  <2>1. SUFFICES ASSUME fresh PROVE FeedInv'
    BY DEF FeedInv
  <2>2. cpc \in Pending => cvm.service \in Group
    BY DEF TableInv, Message, Pending
  <2>3. \A g \in Group : \A i, j \in Live(g) :
           vm_data_set'[g][i].ip = vm_data_set'[g][j].ip => i = j
    BY <1>2, <2>1 DEF FeedInv
  <2>4. ASSUME NEW g \in Group, NEW ip \in IP,
               cpc \in Pending => <<g, ip>> # <<cvm.service, cvm.ip>>
        PROVE  feed[g][ip] = "ADD" <=> \E i \in Live(g) : vm_data_set'[g][i].ip = ip
    <3>1. feed[g][ip] = "ADD" <=> \E i \in Live(g) : vm_data_set[g][i].ip = ip
      BY <2>1, <2>4 DEF FeedInv
    <3> QED
      BY <1>2, <3>1
  <2>5. cpc \in Pending =>
            /\ feed[cvm.service][cvm.ip] = cvm.op
            /\ cvm.op = "ADD" =>
                  \A i \in Live(cvm.service) : vm_data_set'[cvm.service][i].ip # cvm.ip
    BY <1>2, <2>1, <2>2 DEF FeedInv
  <2> QED
    BY <1>1, <2>3, <2>4, <2>5 DEF FeedInv
<1> QED
  BY <1>3, <1>4

(* The worker that picks a machine goes on, and keeps the mutex as long as *)
(* it is picking.                                                          *)
LEMMA WorkerMoves ==
    ASSUME BalancerInv, NEW c \in Conn,
           NEW q \in {"wrap", "choose", "connect", "forward", "crashed"},
           wpc[c] \in Picking, wpc' = [wpc EXCEPT ![c] = q],
           warg' = [warg EXCEPT ![c] = c],
           mutex' = mutex \/ q \notin Picking,
           UNCHANGED main
    PROVE  /\ WorkerInv'
           /\ \A d \in Conn : wpc'[d] = "choose" => d = c /\ q = "choose"
<1> USE DEF BalancerInv, main
<1>1. \A d \in Conn : /\ wpc'[d] = IF d = c THEN q ELSE wpc[d]
                      /\ warg'[d] = IF d = c THEN c ELSE warg[d]
  BY DEF TypeOK
<1>2. \A d \in Conn : d # c => wpc[d] \notin Picking
  BY DEF WorkerInv
<1>3. /\ mpc # "create" /\ mutex = Main /\ c <= accepted
      /\ (mpc = "lock" => accepted # c)
  BY DEF WorkerInv, Picking
<1>4. \A d \in Conn :
          /\ wpc'[d] = "start" => vm_client' = d
          /\ wpc'[d] \notin {"none", "start"} => warg'[d] = d
          /\ wpc'[d] \in Picking => mutex' = Main /\ mpc' # "create"
          /\ wpc'[d] # "none" => d <= accepted'
          /\ d <= accepted' => addr'[d] \in ClientIP
  BY <1>1, <1>2, <1>3 DEF WorkerInv, Picking
<1>5. \A d, e \in Conn : wpc'[d] \in Picking /\ wpc'[e] \in Picking => d = e
  BY <1>1, <1>2
<1>6. mpc' \in {"lock", "create"} => accepted' \in Conn /\ wpc'[accepted'] = "none"
  BY <1>1, <1>3 DEF WorkerInv
<1>7. WorkerInv'
  BY <1>3, <1>4, <1>5, <1>6 DEF WorkerInv
<1> QED
  BY <1>1, <1>2, <1>7 DEF Picking

LEMMA ArgumentInRange ==
    ASSUME BalancerInv, NEW c \in Conn, wpc[c] \in Picking
    PROVE  /\ addr[c] \in ClientIP
           /\ wpc[c] = "start" => vm_client = c
           /\ wpc[c] # "start" => warg[c] = c /\ warg = [warg EXCEPT ![c] = c]
BY DEF BalancerInv, WorkerInv, TypeOK, Picking

(* The steps of a worker that leave the table alone. *)
LEMMA WorkerReads ==
    ASSUME BalancerInv, NEW c \in Conn,
           \/ CopyArgument(c) \/ WrapIndex(c) \/ ChooseSame(c) \/ ChooseNowhere(c)
           \/ Connect(c) \/ ConnectFails(c)
    PROVE  BalancerInv'
<1> USE NameFacts, BalancerSizes DEF BalancerInv
<1>1. /\ UNCHANGED <<table, controller, main, home, astray>>
      /\ wpc[c] \in Picking /\ raced' \in BOOLEAN /\ (raced => raced')
  BY DEF CopyArgument, WrapIndex, ChooseSame, ChooseNowhere, Connect, ConnectFails,
     ghosts, Looks, Picking, TypeOK
<1>2. TableInv' /\ FeedInv' /\ HomeInv'
  BY <1>1, TableUnchanged DEF controller
<1>3. ASSUME NEW q \in {"wrap", "choose", "connect", "forward", "crashed"},
             wpc' = [wpc EXCEPT ![c] = q], warg' = [warg EXCEPT ![c] = c],
             mutex' = mutex \/ (mutex' = NoOne /\ q \notin Picking),
             actual_index' \in Nat, da_socket' \in [Conn -> IP \union {NoIP}],
             alive' \in BOOLEAN,
             q # "choose" => actual_index' = actual_index,
             q = "choose" => actual_index' =
                IF actual_index = current_vms[0] THEN 0 ELSE actual_index
      PROVE  BalancerInv'
  <2>1. WorkerInv' /\ \A d \in Conn : wpc'[d] = "choose" => d = c /\ q = "choose"
    BY <1>1, <1>3, WorkerMoves
  <2>2. wpc' \in [Conn -> WorkerPc] /\ warg' \in [Conn -> Conn \union {NoOne}]
        /\ mutex' \in {NoOne, Main}
    BY <1>3 DEF TypeOK, WorkerPc
  <2>3. TypeOK'
    BY <1>1, <1>3, <2>2 DEF TypeOK, table, controller, main
  <2>4. current_vms[0] \in Nat /\ actual_index \in Nat
    BY DEF TypeOK
  <2>5. IndexInv'
    BY <1>1, <1>3, <2>1, <2>4 DEF IndexInv, table
  <2> QED
    BY <1>2, <2>1, <2>3, <2>5
<1>4. actual_index \in Nat /\ current_vms[0] \in Nat /\ alive \in BOOLEAN
      /\ da_socket \in [Conn -> IP \union {NoIP}]
  BY DEF TypeOK
<1>5. CASE CopyArgument(c)
  BY <1>3, <1>4, <1>5, ArgumentInRange DEF CopyArgument, Picking
<1>6. CASE WrapIndex(c)
  BY <1>3, <1>4, <1>6, ArgumentInRange DEF WrapIndex, Picking
<1>7. CASE ChooseSame(c)
  <2>1. PICK i \in Used(0) : da_socket' = [da_socket EXCEPT ![c] = vm_data_set[0][i].ip]
    BY <1>7 DEF ChooseSame
  <2>2. vm_data_set[0][i].ip \in IP \union {NoIP}
    <3>1. i \in 0 .. (allocated_vms[0] - 1)
      BY <1>4, <2>1 DEF Used, TableInv, TypeOK
    <3>2. vm_data_set[0][i] \in Slot
      BY <3>1 DEF TypeOK
    <3> QED
      BY <3>2 DEF Slot
  <2>3. da_socket' \in [Conn -> IP \union {NoIP}]
    BY <1>4, <2>1, <2>2
  <2> QED
    BY <1>3, <1>4, <1>7, <2>3, ArgumentInRange DEF ChooseSame, Picking
<1>8. CASE ChooseNowhere(c)
  BY <1>3, <1>4, <1>8, ArgumentInRange DEF ChooseNowhere, Picking
<1>9. CASE Connect(c)
  BY <1>3, <1>4, <1>9, ArgumentInRange DEF Connect, Picking
<1>10. CASE ConnectFails(c)
  <2>1. UNCHANGED <<actual_index, mutex, workers, raced>> /\ alive' = FALSE
    BY <1>10 DEF ConnectFails, ghosts
  <2>2. TypeOK'
    <3>1. alive' \in BOOLEAN /\ raced' \in BOOLEAN
      BY <1>1, <2>1
    <3> QED
      BY <1>1, <2>1, <3>1 DEF TypeOK, table, controller, main, workers
  <2>3. WorkerInv' /\ IndexInv'
    BY <1>1, <2>1 DEF WorkerInv, IndexInv, main, workers, table
  <2> QED
    BY <1>2, <2>2, <2>3
<1> QED
  BY <1>5, <1>6, <1>7, <1>8, <1>9, <1>10
LEMMA WorkerAssigns ==
    ASSUME BalancerInv, NEW c \in Conn, ChooseNext(c) PROVE BalancerInv'
<1> USE NameFacts, BalancerSizes DEF BalancerInv
<1> DEFINE a == addr[c]
           i == actual_index
<1>1. /\ wpc[c] = "choose" /\ wpc[c] \in Picking /\ warg[c] = c /\ a \in ClientIP
      /\ warg = [warg EXCEPT ![c] = c]
  BY ArgumentInRange DEF ChooseNext, Picking
<1>2. /\ raced' = (raced \/ cpc # "recv")
      /\ \A j \in Used(0) : a \notin vm_data_set[0][j].clients
      /\ i < allocated_vms[0]
      /\ da_socket' = [da_socket EXCEPT ![c] = vm_data_set[0][i].ip]
      /\ vm_data_set' = [vm_data_set EXCEPT ![0][i].clients = @ \union {a}]
      /\ home' = [home EXCEPT ![a] = IF i \in Used(0) THEN vm_data_set[0][i].ip ELSE NoIP]
      /\ actual_index' = i + 1
      /\ astray' = (astray \/ current_vms[0] = 0)
      /\ wpc' = [wpc EXCEPT ![c] = "connect"]
      /\ UNCHANGED <<current_vms, allocated_vms, mutex, controller, main, warg, alive>>
  BY <1>1 DEF ChooseNext, Looks, NotListed, HasRoom
<1>3. /\ i \in Nat /\ allocated_vms[0] \in Nat /\ current_vms[0] \in Nat
      /\ i \in 0 .. (allocated_vms[0] - 1)
  <2>1. i \in Nat
    BY DEF TypeOK
  <2> QED
    BY <1>2, <2>1, SlotTypes
<1>4. /\ vm_data_set[0] \in [0 .. (allocated_vms[0] - 1) -> Slot]
      /\ vm_data_set[0][i] \in Slot
  BY <1>3, SlotTypes
<1>5. /\ \A g \in Group : g # 0 => vm_data_set'[g] = vm_data_set[g]
      /\ vm_data_set'[0] = [vm_data_set[0] EXCEPT ![i].clients = @ \union {a}]
      /\ DOMAIN vm_data_set' = Group
  BY <1>2 DEF TypeOK
<1>6. /\ vm_data_set'[0][i] = [vm_data_set[0][i] EXCEPT !.clients = @ \union {a}]
      /\ \A j \in 0 .. (allocated_vms[0] - 1) :
            j # i => vm_data_set'[0][j] = vm_data_set[0][j]
  BY <1>3, <1>4, <1>5
<1>7. /\ vm_data_set'[0][i] \in Slot
      /\ vm_data_set'[0][i].ip = vm_data_set[0][i].ip
      /\ vm_data_set'[0][i].clients = vm_data_set[0][i].clients \union {a}
  BY <1>1, <1>4, <1>6 DEF Slot
<1>8. WorkerInv' /\ \A d \in Conn : wpc'[d] # "choose"
  BY <1>1, <1>2, WorkerMoves
<1>9. TypeOK'
  <2>1. \A g \in Group : vm_data_set'[g] \in [0 .. (allocated_vms'[g] - 1) -> Slot]
    <3>1. vm_data_set'[0] \in [0 .. (allocated_vms[0] - 1) -> Slot]
      <4>1. vm_data_set'[0] = [vm_data_set[0] EXCEPT ![i] = vm_data_set'[0][i]]
        BY <1>3, <1>4, <1>5
      <4>2. PICK I, f, t, v : /\ I = 0 .. (allocated_vms[0] - 1) /\ f = vm_data_set[0]
                              /\ t = vm_data_set'[0] /\ v = vm_data_set'[0][i]
        OBVIOUS
      <4>3. f \in [I -> Slot] /\ i \in I /\ v \in Slot /\ t = [f EXCEPT ![i] = v]
        BY <1>3, <1>4, <1>7, <4>1, <4>2, Zenon
      <4>4. t \in [I -> Slot]
        BY <4>3
      <4> QED
        BY <4>2, <4>4, Zenon
    <3> QED
      BY <1>2, <1>5, <3>1 DEF TypeOK
  <2>2. vm_data_set[0][i].ip \in IP \union {NoIP}
    BY <1>4 DEF Slot
  <2>3. /\ da_socket' \in [Conn -> IP \union {NoIP}]
        /\ home' \in [ClientIP -> IP \union {NoIP}]
        /\ wpc' \in [Conn -> WorkerPc]
    BY <1>2, <2>2 DEF TypeOK, WorkerPc
  <2>4. actual_index' \in Nat /\ raced' \in BOOLEAN /\ astray' \in BOOLEAN
    <3>1. actual_index' \in Nat
      BY <1>2, <1>3
    <3>2. raced' \in BOOLEAN /\ astray' \in BOOLEAN
      BY <1>2
    <3> QED
      BY <3>1, <3>2
  <2>5. /\ UNCHANGED <<current_vms, allocated_vms, mutex, controller, main, warg, alive>>
        /\ DOMAIN vm_data_set' = Group
    BY <1>2, <1>5
  <2> QED
    BY <2>1, <2>3, <2>4, <2>5 DEF TypeOK, controller, main
<1>10. TableInv' /\ FeedInv'
  <2>1. \A g \in Group : \A j \in 0 .. (allocated_vms[g] - 1) :
              vm_data_set'[g][j].ip = vm_data_set[g][j].ip
    BY <1>5, <1>6, <1>7
  <2> QED
    BY <1>2, <2>1, AddressesUnchanged DEF controller
<1>11. HomeInv'
  <2>1. SUFFICES ASSUME ~raced, cpc = "recv" PROVE HomeInv'
    BY <1>2 DEF HomeInv
  <2>2. Live(0) = Used(0) /\ Live(0)' = Used(0) /\ Live(0) \subseteq 0 .. (allocated_vms[0] - 1)
    BY <1>2, <2>1, LiveAllocated DEF Live, Used, controller
  <2>3. \A b \in ClientIP : home'[b] = IF b = a THEN IF i \in Used(0) THEN vm_data_set[0][i].ip
                                                                      ELSE NoIP
                                                ELSE home[b]
    BY <1>1, <1>2 DEF TypeOK
  <2>4. \A j \in Used(0) : /\ vm_data_set'[0][j].ip = vm_data_set[0][j].ip
                           /\ \A b \in ClientIP \ {a} : b \in vm_data_set'[0][j].clients
                                                    <=> b \in vm_data_set[0][j].clients
                           /\ a \in vm_data_set'[0][j].clients <=> j = i
    BY <1>2, <1>6, <1>7, <2>2
  <2>5. ASSUME NEW b \in ClientIP, home'[b] # NoIP
        PROVE  /\ \E j \in Used(0) : /\ vm_data_set'[0][j].ip = home'[b]
                                     /\ b \in vm_data_set'[0][j].clients
               /\ \A j \in Used(0) : b \in vm_data_set'[0][j].clients =>
                                        vm_data_set'[0][j].ip = home'[b]
    <3>1. CASE b = a
      BY <2>3, <2>4, <2>5, <3>1
    <3>2. CASE b # a
      BY <2>1, <2>2, <2>3, <2>4, <2>5, <3>2 DEF HomeInv
    <3> QED
      BY <3>1, <3>2
  <2>6. cpc' = "recv"
    BY <1>2, <2>1 DEF controller
  <2> QED
    BY <2>2, <2>5, <2>6 DEF HomeInv
<1>12. IndexInv'
  <2>1. SUFFICES ASSUME ~astray' PROVE actual_index' <= current_vms'[0]
    BY <1>8 DEF IndexInv
  <2>2. ~astray /\ current_vms[0] # 0
    BY <1>2, <2>1
  <2>3. actual_index < current_vms[0]
    BY <1>1, <1>3, <2>2 DEF IndexInv
  <2> QED
    BY <1>2, <1>3, <2>3
<1> QED
  BY <1>8, <1>9, <1>10, <1>11, <1>12
LEMMA WorkersInv == ASSUME BalancerInv, NEW c \in Conn, WorkerStep(c) PROVE BalancerInv'
BY WorkerReads, WorkerAssigns DEF WorkerStep

-----------------------------------------------------------------------------
(* The controller_thread.                                                  *)

(* It leaves main and the workers alone. *)
LEMMA WorkersUnchanged ==
    ASSUME BalancerInv, UNCHANGED <<mutex, main, workers>> PROVE WorkerInv'
BY DEF BalancerInv, WorkerInv, main, workers

LEMMA RecvInv == ASSUME BalancerInv, Recv PROVE BalancerInv'
<1> USE NameFacts, BalancerSizes DEF BalancerInv
<1>1. PICK m \in Message :
          /\ ControllerFeed!MayFollow(feed[m.service][m.ip], m.op)
          /\ feed' = [feed EXCEPT ![m.service][m.ip] = m.op]
          /\ cvm' = m
  BY DEF Recv, ControllerFeed!Notify
<1>2. /\ cpc = "recv" /\ cpc' = "grow" /\ msgs < MaxMsgs /\ msgs' = msgs + 1
      /\ UNCHANGED <<table, actual_index, mutex, cindex, fresh, main, workers, home, alive, ghosts>>
  BY DEF Recv
<1>3. m.service \in Group /\ m.ip \in IP /\ m.op \in {"ADD", "DELETE", "REJ"}
  BY DEF Message
<1>4. \A g \in Group, ip \in IP :
         feed'[g][ip] = IF g = m.service /\ ip = m.ip THEN m.op ELSE feed[g][ip]
  BY <1>1, <1>3 DEF TypeOK
<1>5. m.op = "ADD" => feed[m.service][m.ip] # "ADD"
  BY <1>1 DEF ControllerFeed!MayFollow
<1>6. \A g : Live(g) = Used(g) /\ Live(g)' = Used(g)
  BY <1>2 DEF Live, Used, table
<1>7. TypeOK'
  <2>1. feed' \in [Group -> [IP -> {"ADD", "DELETE", "REJ"}]]
    BY <1>1, <1>3 DEF TypeOK
  <2>2. msgs' \in 0 .. MaxMsgs
    BY <1>2 DEF TypeOK
  <2> QED
    BY <1>1, <1>2, <2>1, <2>2 DEF TypeOK, table, main, workers, ghosts
<1>8. TableInv'
  BY <1>1, <1>2, <1>6 DEF TableInv, table
<1>9. FeedInv'
  <2>1. SUFFICES ASSUME fresh PROVE FeedInv'
    BY <1>2 DEF FeedInv
  <2>2. \A g \in Group : \A i, j \in Used(g) :
           vm_data_set[g][i].ip = vm_data_set[g][j].ip => i = j
    BY <1>6, <2>1 DEF FeedInv
  <2>3. \A g \in Group, ip \in IP :
           feed[g][ip] = "ADD" <=> \E i \in Used(g) : vm_data_set[g][i].ip = ip
    BY <1>2, <1>6, <2>1 DEF FeedInv, Pending
  <2>4. \A g \in Group, ip \in IP : <<g, ip>> # <<m.service, m.ip>> => feed'[g][ip] = feed[g][ip]
    BY <1>4
  <2>5. feed'[m.service][m.ip] = m.op
    BY <1>3, <1>4
  <2>6. m.op = "ADD" => \A i \in Used(m.service) : vm_data_set[m.service][i].ip # m.ip
    BY <1>3, <1>5, <2>3
  <2>7. cpc' \in Pending
    BY <1>2 DEF Pending
  <2> QED
    BY <1>1, <1>2, <1>6, <2>2, <2>3, <2>4, <2>5, <2>6, <2>7 DEF FeedInv, table
<1>10. HomeInv' /\ IndexInv'
  BY <1>2, <1>6 DEF HomeInv, IndexInv, table, workers, ghosts
<1> QED
  BY <1>2, <1>7, <1>8, <1>9, <1>10, WorkersUnchanged

LEMMA RecvFailsInv == ASSUME BalancerInv, RecvFails PROVE BalancerInv'
<1> USE NameFacts, BalancerSizes DEF BalancerInv
<1>1. /\ cpc = "recv" /\ cpc' = "grow" /\ msgs < MaxMsgs /\ msgs' = msgs + 1 /\ fresh' = FALSE
      /\ cvm' \in IF cvm = Unwritten THEN Message ELSE {cvm}
      /\ UNCHANGED <<table, actual_index, mutex, cindex, feed, main, workers, home, alive, ghosts>>
  BY DEF RecvFails
<1>2. cvm' \in Message
  BY <1>1 DEF TypeOK
<1>3. \A g : Live(g) = Used(g) /\ Live(g)' = Used(g)
  BY <1>1 DEF Live, Used, table
<1>4. TypeOK'
  <2>1. msgs' \in 0 .. MaxMsgs
    BY <1>1 DEF TypeOK
  <2> QED
    BY <1>1, <1>2, <2>1 DEF TypeOK, table, main, workers, ghosts
<1>5. TableInv' /\ FeedInv'
  BY <1>1, <1>2, <1>3 DEF TableInv, FeedInv, table
<1>6. HomeInv' /\ IndexInv'
  BY <1>1, <1>3 DEF HomeInv, IndexInv, table, workers, ghosts
<1> QED
  BY <1>1, <1>4, <1>5, <1>6, WorkersUnchanged
(* The slots in use stay as they are, and none is added or taken away. *)
LEMMA SlotsUnchanged ==
    ASSUME BalancerInv,
           cpc \in {"grow", "write"}, cpc' \in {"write", "count", "find"},
           UNCHANGED <<current_vms, cvm, fresh, feed, home, actual_index, workers, ghosts>>,
           \A g \in Group : \A i \in Used(g) : vm_data_set'[g][i] = vm_data_set[g][i]
    PROVE  /\ \A g \in Group : \A i \in Live(g)' : vm_data_set'[g][i].ip \in IP
           /\ FeedInv'
           /\ (cvm.service = 0 => vm_data_set'[0][current_vms[0]].clients = {}) => HomeInv'
           /\ IndexInv'
<1> USE NameFacts DEF BalancerInv
<1>1. \A g : Live(g) = Used(g) /\ Live(g)' = Used(g)
  BY DEF Live, Used
<1>2. \A g \in Group : \A i \in Live(g)' : vm_data_set'[g][i].ip \in IP
  BY <1>1 DEF TableInv
<1>3. FeedInv'
  <2>1. SUFFICES ASSUME fresh PROVE FeedInv'
    BY DEF FeedInv
  <2>2. cpc \in Pending /\ cpc' \in Pending /\ cvm.service \in Group
    BY DEF TableInv, Message, Pending
  <2>3. \A g \in Group : \A i, j \in Used(g) :
           vm_data_set'[g][i].ip = vm_data_set'[g][j].ip => i = j
    BY <1>1, <2>1 DEF FeedInv
  <2>4. ASSUME NEW g \in Group, NEW ip \in IP, <<g, ip>> # <<cvm.service, cvm.ip>>
        PROVE  feed[g][ip] = "ADD" <=> \E i \in Used(g) : vm_data_set'[g][i].ip = ip
    <3>1. feed[g][ip] = "ADD" <=> \E i \in Used(g) : vm_data_set[g][i].ip = ip
      BY <1>1, <2>1, <2>4 DEF FeedInv
    <3> QED
      BY <3>1
  <2>5. /\ feed[cvm.service][cvm.ip] = cvm.op
        /\ cvm.op = "ADD" =>
              \A i \in Used(cvm.service) : vm_data_set'[cvm.service][i].ip # cvm.ip
    BY <1>1, <2>1, <2>2 DEF FeedInv
  <2> QED
    BY <1>1, <2>2, <2>3, <2>4, <2>5 DEF FeedInv
<1>4. ASSUME cvm.service = 0 => vm_data_set'[0][current_vms[0]].clients = {} PROVE HomeInv'
  BY <1>1, <1>4 DEF HomeInv, ghosts
<1>5. IndexInv'
  BY DEF IndexInv, workers, ghosts
<1> QED
  BY <1>2, <1>3, <1>4, <1>5

LEMMA ExtendedTable ==
    ASSUME NEW S, NEW d \in S, NEW old \in Nat, NEW new \in Nat, old <= new,
           NEW f \in [0 .. (old - 1) -> S],
           NEW t, t = [i \in 0 .. (new - 1) |-> IF i < old THEN f[i] ELSE d]
    PROVE  t \in [0 .. (new - 1) -> S] /\ \A i \in 0 .. (old - 1) : t[i] = f[i]
<1>1. \A i \in 0 .. (new - 1) : (IF i < old THEN f[i] ELSE d) \in S
  OBVIOUS
<1>2. t \in [0 .. (new - 1) -> S]
  BY <1>1
<1>3. \A i \in 0 .. (old - 1) : i \in 0 .. (new - 1) /\ i < old
  OBVIOUS
<1> QED
  BY <1>2, <1>3

LEMMA GrowInv == ASSUME BalancerInv, GrowAndEmpty PROVE BalancerInv'
<1> USE NameFacts, BalancerSizes DEF BalancerInv
<1> DEFINE g == cvm.service
           n == current_vms[g]
           old == allocated_vms[g]
<1>1. /\ cpc = "grow" /\ cpc' = IF cvm.op = "ADD" THEN "write" ELSE "find"
      /\ allocated_vms' = [allocated_vms EXCEPT ![g] = IF n = @ THEN 2 * @ ELSE @]
      /\ vm_data_set' = [vm_data_set EXCEPT ![g] = [Grown(g) EXCEPT ![n].ready = TRUE,
                                                                    ![n].clients = {}]]
      /\ UNCHANGED <<current_vms, actual_index, mutex, cvm, cindex, fresh, feed, msgs,
                     main, workers, home, alive, ghosts>>
  BY DEF GrowAndEmpty
<1>2. cvm \in Message /\ g \in Group /\ n \in Nat /\ old \in Nat \ {0} /\ n <= old
  BY <1>1 DEF TableInv, Message, TypeOK
<1>3. PICK new \in Nat \ {0} : new = IF n = old THEN 2 * old ELSE old
  BY <1>2
<1>4. /\ \A h \in Group : allocated_vms'[h] = IF h = g THEN new ELSE allocated_vms[h]
      /\ allocated_vms' \in [Group -> Nat \ {0}]
  BY <1>1, <1>2, <1>3 DEF TypeOK
<1>5. n < new /\ old <= new
  BY <1>2, <1>3
<1>6. PICK t : t = Grown(g)
  OBVIOUS
<1>7. t \in [0 .. (new - 1) -> Slot] /\ \A i \in 0 .. (old - 1) : t[i] = vm_data_set[g][i]
  <2>1. vm_data_set[g] \in [0 .. (old - 1) -> Slot] /\ Uninit \in Slot
    BY <1>2 DEF TypeOK, Slot, Uninit
  <2>2. CASE n = old
    <3>1. t = [i \in 0 .. (new - 1) |-> IF i < old THEN vm_data_set[g][i] ELSE Uninit]
      BY <1>3, <1>6, <2>2 DEF Grown
    <3> QED
      BY <1>2, <1>5, <2>1, <3>1, ExtendedTable
  <2>3. CASE n # old
    BY <1>3, <1>6, <2>1, <2>3 DEF Grown
  <2> QED
    BY <2>2, <2>3
<1>8. PICK u : u = [t EXCEPT ![n].ready = TRUE, ![n].clients = {}]
  OBVIOUS
<1>9. n \in 0 .. (new - 1) /\ t[n] \in Slot
  BY <1>2, <1>5, <1>7
<1>10. /\ \A i \in 0 .. (new - 1) : i # n => u[i] = t[i]
       /\ u[n] = [t[n] EXCEPT !.ready = TRUE, !.clients = {}]
       /\ DOMAIN u = 0 .. (new - 1)
  BY <1>7, <1>8, <1>9
<1>11. u[n] \in Slot /\ u[n].clients = {} /\ u \in [0 .. (new - 1) -> Slot]
  <2>1. u[n] \in Slot /\ u[n].clients = {}
    BY <1>9, <1>10 DEF Slot
  <2>2. u = [i \in 0 .. (new - 1) |-> u[i]]
    BY <1>7, <1>8
  <2> QED
    BY <1>7, <1>10, <2>1, <2>2
<1>12. vm_data_set' = [vm_data_set EXCEPT ![g] = u]
  BY <1>1, <1>6, <1>8
<1>13. /\ DOMAIN vm_data_set' = Group
       /\ \A h \in Group : vm_data_set'[h] = IF h = g THEN u ELSE vm_data_set[h]
  BY <1>2, <1>12 DEF TypeOK
<1>14. \A h \in Group : \A i \in Used(h) : vm_data_set'[h][i] = vm_data_set[h][i]
  <2>1. \A i \in Used(g) : i \in 0 .. (old - 1) /\ i \in 0 .. (new - 1) /\ i # n
    BY <1>2, <1>5 DEF Used
  <2> QED
    BY <1>7, <1>10, <1>13, <2>1
<1>15. TypeOK'
  <2>1. \A h \in Group : vm_data_set'[h] \in [0 .. (allocated_vms'[h] - 1) -> Slot]
    BY <1>4, <1>11, <1>13 DEF TypeOK
  <2>2. cpc' \in {"write", "find"}
    BY <1>1
  <2>3. UNCHANGED <<current_vms, actual_index, mutex, cvm, cindex, fresh, feed, msgs,
                    main, workers, home, alive, ghosts>>
    BY <1>1
  <2>4. DOMAIN vm_data_set' = Group /\ allocated_vms' \in [Group -> Nat \ {0}]
    BY <1>4, <1>13
  <2> QED
    BY <2>1, <2>2, <2>3, <2>4 DEF TypeOK, main, workers, ghosts
<1>16. /\ \A h \in Group : \A i \in Live(h)' : vm_data_set'[h][i].ip \in IP
       /\ FeedInv' /\ HomeInv' /\ IndexInv'
  <2>1. g = 0 => vm_data_set'[0][current_vms[0]].clients = {}
    BY <1>11, <1>13
  <2> QED
    BY <1>1, <1>14, <2>1, SlotsUnchanged
<1>17. TableInv'
  <2>1. \A h \in Group : current_vms'[h] <= allocated_vms'[h]
    BY <1>1, <1>2, <1>4, <1>5 DEF TableInv
  <2>2. current_vms'[g] < allocated_vms'[g]
    BY <1>1, <1>2, <1>4, <1>5
  <2> QED
    BY <1>1, <1>2, <1>16, <2>1, <2>2 DEF TableInv
<1> QED
  BY <1>1, <1>15, <1>16, <1>17, WorkersUnchanged

LEMMA AddWriteInv == ASSUME BalancerInv, AddWrite PROVE BalancerInv'
<1> USE NameFacts, BalancerSizes DEF BalancerInv
<1> DEFINE g == cvm.service
           n == current_vms[g]
<1>1. /\ cpc = "write" /\ cpc' = "count"
      /\ vm_data_set' = [vm_data_set EXCEPT ![g][n].ip = cvm.ip]
      /\ UNCHANGED <<current_vms, allocated_vms, actual_index, mutex, cvm, cindex, fresh,
                     feed, msgs, main, workers, home, alive, ghosts>>
  BY DEF AddWrite
<1>2. /\ cvm \in Message /\ g \in Group /\ cvm.ip \in IP
      /\ n \in Nat /\ allocated_vms[g] \in Nat /\ n \in 0 .. (allocated_vms[g] - 1)
  <2>1. cvm \in Message /\ n < allocated_vms[g]
    BY <1>1 DEF TableInv
  <2>2. g \in Group /\ cvm.ip \in IP
    BY <2>1 DEF Message
  <2>3. n \in Nat /\ allocated_vms[g] \in Nat
    BY <2>2 DEF TypeOK
  <2> QED
    BY <2>1, <2>2, <2>3
<1>3. /\ DOMAIN vm_data_set' = Group
      /\ \A h \in Group : h # g => vm_data_set'[h] = vm_data_set[h]
      /\ vm_data_set'[g] = [vm_data_set[g] EXCEPT ![n].ip = cvm.ip]
  BY <1>1, <1>2 DEF TypeOK
<1>4. vm_data_set[g] \in [0 .. (allocated_vms[g] - 1) -> Slot] /\ vm_data_set[g][n] \in Slot
  BY <1>2 DEF TypeOK
<1>5. /\ vm_data_set'[g][n] = [vm_data_set[g][n] EXCEPT !.ip = cvm.ip]
      /\ \A i \in 0 .. (allocated_vms[g] - 1) : i # n => vm_data_set'[g][i] = vm_data_set[g][i]
  BY <1>2, <1>3, <1>4
<1>6. /\ vm_data_set'[g][n] \in Slot /\ vm_data_set'[g][n].ip = cvm.ip
      /\ vm_data_set'[g][n].clients = vm_data_set[g][n].clients
  BY <1>2, <1>4, <1>5 DEF Slot
<1>7. \A h \in Group : \A i \in Used(h) : vm_data_set'[h][i] = vm_data_set[h][i]
  <2>1. \A i \in Used(g) : i \in 0 .. (allocated_vms[g] - 1) /\ i # n
    BY <1>2 DEF Used
  <2> QED
    BY <1>3, <1>5, <2>1
<1>8. TypeOK'
  <2>1. vm_data_set'[g] \in [0 .. (allocated_vms[g] - 1) -> Slot]
    <3>1. vm_data_set'[g] = [vm_data_set[g] EXCEPT ![n] = vm_data_set'[g][n]]
      BY <1>2, <1>3, <1>4, <1>5
    <3>2. n \in 0 .. (allocated_vms[g] - 1) /\ vm_data_set'[g][n] \in Slot
      BY <1>2, <1>6
    <3>3. vm_data_set[g] \in [0 .. (allocated_vms[g] - 1) -> Slot]
      BY <1>4
    <3>4. PICK I, f, t, v : /\ I = 0 .. (allocated_vms[g] - 1) /\ f = vm_data_set[g]
                            /\ t = vm_data_set'[g] /\ v = vm_data_set'[g][n]
      OBVIOUS
    <3>5. f \in [I -> Slot] /\ n \in I /\ v \in Slot /\ t = [f EXCEPT ![n] = v]
      BY <3>1, <3>2, <3>3, <3>4, Zenon
    <3>6. t \in [I -> Slot]
      BY <3>5
    <3> QED
      BY <3>4, <3>6, Zenon
  <2>2. \A h \in Group : vm_data_set'[h] \in [0 .. (allocated_vms'[h] - 1) -> Slot]
    BY <1>1, <1>3, <2>1 DEF TypeOK
  <2> QED
    BY <1>1, <1>3, <2>2 DEF TypeOK, main, workers, ghosts
<1>9. /\ \A h \in Group : \A i \in Live(h)' : vm_data_set'[h][i].ip \in IP
      /\ FeedInv' /\ IndexInv'
  BY <1>1, <1>7, SlotsUnchanged
<1>10. HomeInv'
  <2>1. SUFFICES ASSUME ~raced PROVE HomeInv'
    BY <1>1 DEF HomeInv, ghosts
  <2>2. g = 0 => vm_data_set'[0][current_vms[0]].clients = {}
    BY <1>1, <1>6, <2>1 DEF HomeInv
  <2> QED
    BY <1>1, <1>7, <2>2, SlotsUnchanged
<1>11. TableInv'
  BY <1>1, <1>2, <1>6, <1>9 DEF TableInv
<1> QED
  BY <1>1, <1>8, <1>9, <1>10, <1>11, WorkersUnchanged
LEMMA AddCountInv == ASSUME BalancerInv, AddCount PROVE BalancerInv'
<1> USE NameFacts, BalancerSizes DEF BalancerInv
<1>1. /\ cpc = "count" /\ cpc' = "recv"
      /\ current_vms' = [current_vms EXCEPT ![cvm.service] = @ + 1]
      /\ UNCHANGED <<allocated_vms, vm_data_set, actual_index, mutex, cvm, cindex, fresh,
                     feed, msgs, main, workers, home, alive, ghosts>>
  BY DEF AddCount
<1>2. PICK g \in Group : g = cvm.service
  BY <1>1 DEF TableInv, Message
<1>3. PICK n \in Nat : n = current_vms[g]
  BY DEF TypeOK
<1>4. /\ cvm \in Message /\ g \in Group /\ cvm.ip \in IP /\ cvm.op = "ADD"
      /\ n \in Nat /\ allocated_vms[g] \in Nat /\ n < allocated_vms[g]
      /\ vm_data_set[g][n].ip = cvm.ip
  BY <1>2, <1>1, <1>3 DEF TableInv, Message, TypeOK
<1>5. \A h \in Group : /\ current_vms[h] \in Nat
                       /\ current_vms'[h] = IF h = g THEN n + 1 ELSE current_vms[h]
  BY <1>2, <1>1, <1>4, <1>3 DEF TypeOK
<1>6. /\ \A h \in Group : Live(h) = Used(h)
      /\ \A h \in Group : h # g => Live(h)' = Used(h)
      /\ Live(g)' = Used(g) \union {n} /\ n \notin Used(g)
  <2>1. 0 .. ((n + 1) - 1) = (0 .. (n - 1)) \union {n}
    BY <1>4
  <2>2. \A h : Live(h) = Used(h) /\ Live(h)' = 0 .. (current_vms'[h] - 1)
    BY <1>1 DEF Live, Used
  <2> QED
    BY <1>4, <1>5, <1>3, <2>1, <2>2 DEF Used
<1>7. TypeOK'
  <2>1. current_vms' \in [Group -> Nat]
    BY <1>2, <1>1, <1>4 DEF TypeOK
  <2> QED
    BY <1>1, <2>1 DEF TypeOK, main, workers, ghosts
<1>8. TableInv'
  <2>1. \A h \in Group : current_vms'[h] <= allocated_vms'[h]
    BY <1>1, <1>4, <1>5, <1>3 DEF TableInv
  <2>2. \A h \in Group : \A i \in Live(h)' : vm_data_set[h][i].ip \in IP
    BY <1>4, <1>6 DEF TableInv
  <2> QED
    BY <1>1, <2>1, <2>2 DEF TableInv
<1>9. FeedInv'
  <2>1. SUFFICES ASSUME fresh PROVE FeedInv'
    BY <1>1 DEF FeedInv
  <2>2. \A i \in Used(g) : vm_data_set[g][i].ip # cvm.ip
    BY <1>2, <1>1, <1>4, <1>6, <2>1 DEF FeedInv, Pending
  <2>3. \A h \in Group : \A i, j \in Live(h)' :
           vm_data_set[h][i].ip = vm_data_set[h][j].ip => i = j
    <3>1. \A h \in Group : \A i, j \in Used(h) :
             vm_data_set[h][i].ip = vm_data_set[h][j].ip => i = j
      BY <1>6, <2>1 DEF FeedInv
    <3> QED
      BY <1>4, <1>6, <2>2, <3>1
  <2>4. ASSUME NEW h \in Group, NEW ip \in IP
        PROVE  feed[h][ip] = "ADD" <=> \E i \in Live(h)' : vm_data_set[h][i].ip = ip
    <3>1. CASE <<h, ip>> # <<g, cvm.ip>>
      <4>1. feed[h][ip] = "ADD" <=> \E i \in Used(h) : vm_data_set[h][i].ip = ip
        BY <1>2, <1>6, <2>1, <3>1 DEF FeedInv
      <4>2. CASE h # g
        BY <1>6, <4>1, <4>2
      <4>3. CASE h = g /\ ip # cvm.ip
        BY <1>4, <1>6, <4>1, <4>3
      <4> QED
        BY <3>1, <4>2, <4>3
    <3>2. CASE h = g /\ ip = cvm.ip
      <4>1. feed[g][cvm.ip] = "ADD"
        BY <1>2, <1>1, <1>4, <2>1 DEF FeedInv, Pending
      <4> QED
        BY <1>4, <1>6, <3>2, <4>1
    <3> QED
      BY <3>1, <3>2
  <2>5. cpc' \notin Pending
    BY <1>1 DEF Pending
  <2> QED
    BY <1>1, <2>3, <2>4, <2>5 DEF FeedInv
<1>10. HomeInv'
  <2>1. SUFFICES ASSUME ~raced PROVE HomeInv'
    BY <1>1 DEF HomeInv, ghosts
  <2>2. g = 0 => vm_data_set[0][n].clients = {}
    BY <1>2, <1>1, <1>3, <2>1 DEF HomeInv
  <2>3. Live(0) \subseteq Live(0)' /\ \A i \in Live(0)' \ Live(0) : vm_data_set[0][i].clients = {}
    BY <1>6, <2>2
  <2>4. \A a \in ClientIP : home[a] # NoIP =>
            /\ \E i \in Live(0) : /\ vm_data_set[0][i].ip = home[a]
                                  /\ a \in vm_data_set[0][i].clients
            /\ \A i \in Live(0) : a \in vm_data_set[0][i].clients =>
                                     vm_data_set[0][i].ip = home[a]
    BY <2>1 DEF HomeInv
  <2>5. \A a \in ClientIP : home[a] # NoIP =>
            /\ \E i \in Live(0)' : /\ vm_data_set[0][i].ip = home[a]
                                   /\ a \in vm_data_set[0][i].clients
            /\ \A i \in Live(0)' : a \in vm_data_set[0][i].clients =>
                                      vm_data_set[0][i].ip = home[a]
    BY <2>3, <2>4
  <2> QED
    BY <1>1, <2>5 DEF HomeInv
<1>11. IndexInv'
  <2>1. /\ current_vms[0] \in Nat /\ current_vms'[0] \in Nat
        /\ current_vms[0] <= current_vms'[0] /\ actual_index \in Nat
    <3>1. current_vms[0] \in Nat /\ actual_index \in Nat
      BY DEF TypeOK
    <3>2. current_vms'[0] = current_vms[0] \/ current_vms'[0] = current_vms[0] + 1
      BY <1>5, <1>3
    <3> QED
      BY <3>1, <3>2
  <2>2. ASSUME ~astray PROVE /\ actual_index <= current_vms'[0]
                             /\ \A c \in Conn : wpc[c] = "choose" /\ current_vms'[0] > 0 =>
                                   actual_index < current_vms'[0]
    <3>1. actual_index <= current_vms[0]
      BY <2>2 DEF IndexInv
    <3>2. current_vms[0] > 0 => \A c \in Conn : wpc[c] = "choose" => actual_index < current_vms[0]
      BY <2>2 DEF IndexInv
    <3> QED
      BY <2>1, <3>1, <3>2
  <2> QED
    BY <1>1, <2>2 DEF IndexInv, workers, ghosts
<1> QED
  BY <1>1, <1>7, <1>8, <1>9, <1>10, <1>11, WorkersUnchanged

(* delete_vm takes machine i out of the table.                             *)
LEMMA DeleteFoundInv ==
    ASSUME BalancerInv, cpc = "find",
           NEW i \in Used(cvm.service), FirstWithIp(cvm.service, cvm.ip, i),
           cindex' = i,
           current_vms' = [current_vms EXCEPT ![cvm.service] = @ - 1],
           home' = [a \in ClientIP |->
                      IF cvm.service = 0 /\ home[a] = cvm.ip THEN NoIP ELSE home[a]],
           astray' = (astray \/ (cvm.service = 0 /\ PassesIndex(current_vms[0] - 1))),
           cpc' = "fill",
           UNCHANGED <<allocated_vms, vm_data_set, actual_index, mutex, cvm, fresh, feed,
                       msgs, main, workers, alive, raced>>
    PROVE  BalancerInv'
<1> USE NameFacts, BalancerSizes DEF BalancerInv
<1> DEFINE g == cvm.service
           n == current_vms[g]
<1>1. /\ cvm \in Message /\ g \in Group /\ cvm.ip \in IP /\ cvm.op # "ADD"
      /\ n \in Nat /\ allocated_vms[g] \in Nat /\ n < allocated_vms[g]
  BY DEF TableInv, Message, TypeOK
<1>2. i \in 0 .. (n - 1) /\ n - 1 \in Nat /\ vm_data_set[g][i].ip = cvm.ip
  BY <1>1 DEF Used, FirstWithIp
<1>3. \A h \in Group : /\ current_vms[h] \in Nat
                       /\ current_vms'[h] = IF h = g THEN n - 1 ELSE current_vms[h]
  BY <1>1 DEF TypeOK
<1>4. /\ \A h \in Group : Live(h) = Used(h)
      /\ \A h \in Group : h # g => Live(h)' = Used(h)
      /\ Live(g)' = Used(g) \ {i}
  BY <1>1, <1>3 DEF Live, Used
<1>5. \A h \in Group : Live(h)' \subseteq Live(h)
  BY <1>4
<1>6. TypeOK'
  <2>1. current_vms' \in [Group -> Nat]
    BY <1>1, <1>2 DEF TypeOK
  <2>2. home' \in [ClientIP -> IP \union {NoIP}]
    BY DEF TypeOK
  <2>3. astray' \in BOOLEAN
    BY DEF TypeOK
  <2>4. cindex' \in Nat
    BY <1>2
  <2> QED
    BY <2>1, <2>2, <2>3, <2>4 DEF TypeOK, main, workers
<1>7. TableInv'
  <2>1. \A h \in Group : current_vms'[h] <= allocated_vms'[h]
    BY <1>1, <1>3 DEF TableInv
  <2>2. current_vms'[g] < allocated_vms'[g] /\ cindex' \in 0 .. current_vms'[g]
    BY <1>1, <1>2, <1>3
  <2>3. \A h \in Group : \A j \in Live(h)' : vm_data_set[h][j].ip \in IP
    BY <1>5 DEF TableInv
  <2> QED
    BY <1>1, <2>1, <2>2, <2>3 DEF TableInv
<1>8. FeedInv'
  <2>1. SUFFICES ASSUME fresh PROVE FeedInv'
    BY DEF FeedInv
  <2>2. \A h \in Group : \A j, k \in Live(h) :
           vm_data_set[h][j].ip = vm_data_set[h][k].ip => j = k
    BY <2>1 DEF FeedInv
  <2>3. ASSUME NEW h \in Group, NEW ip \in IP
        PROVE  feed[h][ip] = "ADD" <=> \E j \in Live(h)' : vm_data_set[h][j].ip = ip
    <3>1. CASE <<h, ip>> # <<g, cvm.ip>>
      <4>1. feed[h][ip] = "ADD" <=> \E j \in Live(h) : vm_data_set[h][j].ip = ip
        BY <2>1, <3>1 DEF FeedInv
      <4>2. CASE h # g
        BY <1>4, <4>1, <4>2
      <4>3. CASE h = g /\ ip # cvm.ip
        BY <1>2, <1>4, <4>1, <4>3
      <4> QED
        BY <3>1, <4>2, <4>3
    <3>2. CASE h = g /\ ip = cvm.ip
      <4>1. feed[g][cvm.ip] # "ADD"
        BY <1>1, <2>1 DEF FeedInv, Pending
      <4>2. \A j \in Live(g)' : vm_data_set[g][j].ip # cvm.ip
        BY <1>1, <1>2, <1>4, <2>2
      <4> QED
        BY <3>2, <4>1, <4>2
    <3> QED
      BY <3>1, <3>2
  <2>4. cpc' \notin Pending
    BY DEF Pending
  <2> QED
    BY <1>5, <2>2, <2>3, <2>4 DEF FeedInv
<1>9. HomeInv'
  <2>1. SUFFICES ASSUME ~raced PROVE HomeInv'
    BY DEF HomeInv
  <2>2. ASSUME NEW a \in ClientIP, home'[a] # NoIP
        PROVE  /\ \E j \in Live(0)' : /\ vm_data_set[0][j].ip = home'[a]
                                      /\ a \in vm_data_set[0][j].clients
               /\ \A j \in Live(0)' : a \in vm_data_set[0][j].clients =>
                                         vm_data_set[0][j].ip = home'[a]
    <3>1. home'[a] = home[a] /\ (g = 0 => home[a] # cvm.ip)
      BY <2>2
    <3>2. /\ \E j \in Live(0) : /\ vm_data_set[0][j].ip = home[a]
                                /\ a \in vm_data_set[0][j].clients
          /\ \A j \in Live(0) : a \in vm_data_set[0][j].clients =>
                                   vm_data_set[0][j].ip = home[a]
      BY <2>1, <2>2, <3>1 DEF HomeInv
    <3>3. \A j \in Live(0) : vm_data_set[0][j].ip = home[a] => j \in Live(0)'
      BY <1>2, <1>4, <3>1
    <3> QED
      BY <1>5, <3>1, <3>2, <3>3
  <2> QED
    BY <2>2 DEF HomeInv
<1>10. IndexInv'
  <2>1. SUFFICES ASSUME ~astray'
                 PROVE  /\ actual_index <= current_vms'[0]
                        /\ \A c \in Conn : wpc[c] = "choose" /\ current_vms'[0] > 0 =>
                              actual_index < current_vms'[0]
    BY DEF IndexInv, workers
  <2>2. ~astray
    BY <2>1
  <2>3. CASE g # 0
    BY <1>3, <2>2, <2>3 DEF IndexInv
  <2>4. CASE g = 0
    <3>1. ~(actual_index > n - 1) /\ ~(actual_index = n - 1 /\ \E c \in Conn : wpc[c] = "choose")
      BY <2>1, <2>4 DEF PassesIndex
    <3>2. actual_index \in Nat /\ current_vms'[0] = n - 1
      BY <1>3, <2>4 DEF TypeOK
    <3> QED
      BY <1>2, <3>1, <3>2
  <2> QED
    BY <2>3, <2>4
<1> QED
  BY <1>6, <1>7, <1>8, <1>9, <1>10, WorkersUnchanged
LEMMA DeleteCountInv == ASSUME BalancerInv, DeleteCount PROVE BalancerInv'
<1> USE NameFacts, BalancerSizes DEF BalancerInv
<1>1. /\ cpc = "find"
      /\ UNCHANGED <<allocated_vms, vm_data_set, actual_index, mutex, cvm, fresh, feed,
                     msgs, main, workers, alive, raced>>
  BY DEF DeleteCount
<1>2. PICK g \in Group : g = cvm.service
  BY <1>1 DEF TableInv, Message
<1>3. CASE \E i \in Used(cvm.service) :
              /\ FirstWithIp(cvm.service, cvm.ip, i)
              /\ cindex' = i
              /\ current_vms' = [current_vms EXCEPT ![cvm.service] = @ - 1]
              /\ home' = [a \in ClientIP |->
                            IF cvm.service = 0 /\ home[a] = cvm.ip THEN NoIP ELSE home[a]]
              /\ astray' = (astray \/ (cvm.service = 0 /\ PassesIndex(current_vms[0] - 1)))
              /\ cpc' = "fill"
  BY <1>1, <1>3, DeleteFoundInv
<1>4. CASE /\ \A i \in Used(cvm.service) : vm_data_set[cvm.service][i].ip # cvm.ip
           /\ cpc' = "recv"
           /\ UNCHANGED <<cindex, current_vms, home, astray>>
  <2>1. \A h : Live(h) = Used(h) /\ Live(h)' = Used(h)
    BY <1>1, <1>4 DEF Live, Used
  <2>2. TypeOK'
    BY <1>1, <1>4 DEF TypeOK, main, workers
  <2>3. TableInv'
    BY <1>1, <1>4, <2>1 DEF TableInv
  <2>4. FeedInv'
    <3>1. SUFFICES ASSUME fresh PROVE FeedInv'
      BY <1>1 DEF FeedInv
    <3>2. feed[g][cvm.ip] # "ADD" /\ \A i \in Used(g) : vm_data_set[g][i].ip # cvm.ip
      BY <1>1, <1>2, <1>4, <3>1 DEF FeedInv, Pending, TableInv
    <3>3. ASSUME NEW h \in Group, NEW ip \in IP
          PROVE  feed[h][ip] = "ADD" <=> \E i \in Used(h) : vm_data_set[h][i].ip = ip
      <4>1. CASE <<h, ip>> # <<g, cvm.ip>>
        BY <1>2, <2>1, <3>1, <4>1 DEF FeedInv
      <4>2. CASE h = g /\ ip = cvm.ip
        BY <3>2, <4>2
      <4> QED
        BY <4>1, <4>2
    <3>4. \A h \in Group : \A i, j \in Used(h) :
             vm_data_set[h][i].ip = vm_data_set[h][j].ip => i = j
      BY <2>1, <3>1 DEF FeedInv
    <3>5. cpc' \notin Pending
      BY <1>4 DEF Pending
    <3> QED
      BY <1>1, <2>1, <3>3, <3>4, <3>5 DEF FeedInv
  <2>5. HomeInv' /\ IndexInv'
    BY <1>1, <1>4, <2>1 DEF HomeInv, IndexInv, workers
  <2> QED
    BY <1>1, <2>2, <2>3, <2>4, <2>5, WorkersUnchanged
<1> QED
  BY <1>3, <1>4 DEF DeleteCount

(* The last machine moves into the gap: every slot in use afterwards is    *)
(* the copy of one that stayed, and every one that stayed has its copy.    *)
LEMMA DeleteFillInv == ASSUME BalancerInv, DeleteFill PROVE BalancerInv'
<1> USE NameFacts, BalancerSizes DEF BalancerInv
<1>1. /\ cpc = "fill" /\ cpc' = "recv"
      /\ vm_data_set' = [vm_data_set EXCEPT ![cvm.service][cindex] =
                            vm_data_set[cvm.service][current_vms[cvm.service]]]
      /\ UNCHANGED <<current_vms, allocated_vms, actual_index, mutex, cvm, cindex, fresh,
                     feed, msgs, main, workers, home, alive, ghosts>>
  BY DEF DeleteFill
<1>2. PICK g \in Group : g = cvm.service
  BY <1>1 DEF TableInv, Message
<1>3. PICK n \in Nat : n = current_vms[g]
  BY DEF TypeOK
<1>4. /\ allocated_vms[g] \in Nat /\ n < allocated_vms[g] /\ cindex \in 0 .. n
      /\ n \in 0 .. (allocated_vms[g] - 1) /\ cindex \in 0 .. (allocated_vms[g] - 1)
  <2>1. allocated_vms[g] \in Nat
    BY DEF TypeOK
  <2>2. n < allocated_vms[g] /\ cindex \in 0 .. n
    BY <1>1, <1>2, <1>3 DEF TableInv
  <2> QED
    BY <2>1, <2>2
<1>5. /\ DOMAIN vm_data_set' = Group
      /\ \A h \in Group : h # g => vm_data_set'[h] = vm_data_set[h]
      /\ vm_data_set'[g] = [vm_data_set[g] EXCEPT ![cindex] = vm_data_set[g][n]]
  BY <1>1, <1>2, <1>3 DEF TypeOK
<1>6. vm_data_set[g] \in [0 .. (allocated_vms[g] - 1) -> Slot] /\ vm_data_set[g][n] \in Slot
  BY <1>4 DEF TypeOK
<1>7. /\ \A h \in Group : h # g => Live(h) = Used(h)
      /\ \A h \in Group : Live(h)' = Used(h)
      /\ Live(g) = (0 .. n) \ {cindex} /\ Used(g) = 0 .. (n - 1)
  BY <1>1, <1>2, <1>3 DEF Live, Used
<1> DEFINE From(h, j) == IF h = g /\ j = cindex THEN n ELSE j
<1>8. \A h \in Group : \A j \in Used(h) : From(h, j) \in Live(h)
  BY <1>4, <1>7
<1>9. \A h \in Group : \A j, k \in Used(h) : From(h, j) = From(h, k) => j = k
  BY <1>4, <1>7
<1>10. \A h \in Group : \A k \in Live(h) : \E j \in Used(h) : From(h, j) = k
  <2>1. CASE cindex = n
    <3>1. Live(g) = Used(g) /\ \A k \in Used(g) : From(g, k) = k
      BY <1>4, <1>7, <2>1
    <3> QED
      BY <1>7, <3>1
  <2>2. CASE cindex # n
    <3>1. cindex \in Used(g) /\ From(g, cindex) = n
      BY <1>4, <1>7, <2>2
    <3>2. \A k \in Live(g) : k # n => k \in Used(g) /\ From(g, k) = k
      BY <1>4, <1>7
    <3> QED
      BY <1>7, <3>1, <3>2
  <2> QED
    BY <2>1, <2>2
<1>11. \A h \in Group : \A j \in Used(h) : vm_data_set'[h][j] = vm_data_set[h][From(h, j)]
  <2>1. \A j \in Used(g) : j \in 0 .. (allocated_vms[g] - 1)
    BY <1>4, <1>7
  <2>2. \A j \in Used(g) : vm_data_set'[g][j] = IF j = cindex THEN vm_data_set[g][n]
                                                              ELSE vm_data_set[g][j]
    BY <1>5, <1>6, <2>1
  <2> QED
    BY <1>5, <2>2
<1>12. TypeOK'
  <2>1. vm_data_set'[g] \in [0 .. (allocated_vms[g] - 1) -> Slot]
    <3>1. PICK I, f, t, v : /\ I = 0 .. (allocated_vms[g] - 1) /\ f = vm_data_set[g]
                            /\ t = vm_data_set'[g] /\ v = vm_data_set[g][n]
      OBVIOUS
    <3>2. f \in [I -> Slot] /\ cindex \in I /\ v \in Slot /\ t = [f EXCEPT ![cindex] = v]
      BY <1>4, <1>5, <1>6, <3>1, Zenon
    <3>3. t \in [I -> Slot]
      BY <3>2
    <3> QED
      BY <3>1, <3>3, Zenon
  <2>2. \A h \in Group : vm_data_set'[h] \in [0 .. (allocated_vms'[h] - 1) -> Slot]
    BY <1>1, <1>5, <2>1 DEF TypeOK
  <2>3. /\ cpc' = "recv" /\ DOMAIN vm_data_set' = Group
        /\ UNCHANGED <<current_vms, allocated_vms, actual_index, mutex, cvm, cindex, fresh,
                       feed, msgs, main, workers, home, alive, ghosts>>
    BY <1>1, <1>5, Zenon
  <2> QED
    BY <2>2, <2>3 DEF TypeOK, main, workers, ghosts
<1> HIDE DEF From
<1>13. TableInv'
  <2>1. \A h \in Group : \A j \in Used(h) : vm_data_set'[h][j].ip \in IP
    BY <1>8, <1>11 DEF TableInv
  <2> QED
    BY <1>1, <1>7, <2>1 DEF TableInv
<1>14. FeedInv'
  <2>1. SUFFICES ASSUME fresh PROVE FeedInv'
    BY <1>1 DEF FeedInv
  <2>2. cpc \notin Pending /\ cpc' \notin Pending
    BY <1>1 DEF Pending
  <2>3. ASSUME NEW h \in Group, NEW j \in Used(h), NEW k \in Used(h),
               vm_data_set'[h][j].ip = vm_data_set'[h][k].ip
        PROVE  j = k
    <3>1. vm_data_set[h][From(h, j)].ip = vm_data_set[h][From(h, k)].ip
      BY <1>11, <2>3
    <3>2. From(h, j) = From(h, k)
      BY <1>8, <2>1, <3>1 DEF FeedInv
    <3> QED
      BY <1>9, <3>2
  <2>4. ASSUME NEW h \in Group, NEW ip \in IP
        PROVE  feed[h][ip] = "ADD" <=> \E j \in Used(h) : vm_data_set'[h][j].ip = ip
    <3>1. feed[h][ip] = "ADD" <=> \E k \in Live(h) : vm_data_set[h][k].ip = ip
      BY <2>1, <2>2 DEF FeedInv
    <3>2. ASSUME NEW k \in Live(h), vm_data_set[h][k].ip = ip
          PROVE  \E j \in Used(h) : vm_data_set'[h][j].ip = ip
      <4>1. PICK j \in Used(h) : From(h, j) = k
        BY <1>10
      <4> QED
        BY <1>11, <3>2, <4>1
    <3>3. ASSUME NEW j \in Used(h), vm_data_set'[h][j].ip = ip
          PROVE  \E k \in Live(h) : vm_data_set[h][k].ip = ip
      BY <1>8, <1>11, <3>3
    <3> QED
      BY <3>1, <3>2, <3>3, Zenon
  <2>5. UNCHANGED <<fresh, feed, cvm>> /\ \A h \in Group : Live(h)' = Used(h)
    BY <1>1, <1>7, Zenon
  <2>6. (\A h \in Group : \A j, k \in Live(h) :
            vm_data_set[h][j].ip = vm_data_set[h][k].ip => j = k)'
    BY <2>3, <2>5
  <2>7. (\A h \in Group, ip \in IP :
            feed[h][ip] = "ADD" <=> \E j \in Live(h) : vm_data_set[h][j].ip = ip)'
    BY <2>4, <2>5
  <2> QED
    BY <2>2, <2>6, <2>7 DEF FeedInv
<1>15. HomeInv'
  <2>1. SUFFICES ASSUME ~raced PROVE HomeInv'
    BY <1>1 DEF HomeInv, ghosts
  <2>2. ASSUME NEW a \in ClientIP, home[a] # NoIP
        PROVE  /\ \E j \in Used(0) : /\ vm_data_set'[0][j].ip = home[a]
                                     /\ a \in vm_data_set'[0][j].clients
               /\ \A j \in Used(0) : a \in vm_data_set'[0][j].clients =>
                                        vm_data_set'[0][j].ip = home[a]
    <3>1. /\ \E k \in Live(0) : /\ vm_data_set[0][k].ip = home[a]
                                /\ a \in vm_data_set[0][k].clients
          /\ \A k \in Live(0) : a \in vm_data_set[0][k].clients =>
                                   vm_data_set[0][k].ip = home[a]
      BY <2>1, <2>2 DEF HomeInv
    <3> QED
      BY <1>8, <1>10, <1>11, <3>1
  <2>3. UNCHANGED home /\ cpc' = "recv" /\ Live(0)' = Used(0)
    BY <1>1, <1>7
  <2> QED
    BY <2>2, <2>3 DEF HomeInv
<1>16. IndexInv'
  BY <1>1 DEF IndexInv, workers, ghosts
<1> QED
  BY <1>1, <1>12, <1>13, <1>14, <1>15, <1>16, WorkersUnchanged
-----------------------------------------------------------------------------
LEMMA BalancerNext == BalancerInv /\ [Next]_vars => BalancerInv'
<1> SUFFICES ASSUME BalancerInv, [Next]_vars PROVE BalancerInv'
  OBVIOUS
<1>1. CASE UNCHANGED vars
  <2>1. UNCHANGED <<current_vms, allocated_vms, vm_data_set, actual_index, mutex, cpc, cvm,
                    cindex, fresh, feed, msgs, mpc, vm_client, addr, accepted, wpc, warg,
                    da_socket, home, alive, raced, astray>>
    BY <1>1 DEF vars, table, controller, main, workers, ghosts
  <2>2. TableInv' /\ FeedInv' /\ HomeInv'
    BY <2>1, TableUnchanged DEF table
  <2> QED
    BY <2>1, <2>2 DEF BalancerInv, TypeOK, WorkerInv, IndexInv
<1>2. CASE Next
  BY <1>2, MainInv, WorkersInv, RecvInv, RecvFailsInv, GrowInv, AddWriteInv, AddCountInv,
     DeleteCountInv, DeleteFillInv
  DEF Next, ControllerStep
<1> QED
  BY <1>1, <1>2

LEMMA BalancerInductive == Spec => []BalancerInv
BY BalancerInit, BalancerNext, PTL DEF Spec

(* Every variable of the load balancer keeps its type: in particular the   *)
(* table always has as many slots as allocated_vms says, and the mutex is  *)
(* main's or free.                                                         *)
THEOREM BalancerTypes == Spec => []TypeOK
<1>1. BalancerInv => TypeOK
  BY DEF BalancerInv
<1> QED
  BY <1>1, BalancerInductive, PTL

(* The argument main passes to a new worker is copied before main          *)
(* overwrites it, and one worker at a time picks a machine, because the    *)
(* mutex main locks is unlocked only by the worker.                        *)
THEOREM ArgumentNotOverwritten == Spec => []ArgumentHandedOver
<1>1. BalancerInv => ArgumentHandedOver
  BY DEF BalancerInv, WorkerInv, ArgumentHandedOver, Picking
<1> QED
  BY <1>1, BalancerInductive, PTL

(* Distinct machines in n slots are n machines. *)
LEMMA DistinctSlots ==
    ASSUME NEW n \in Nat, NEW S, NEW b \in [0 .. (n - 1) -> S],
           \A i, j \in 0 .. (n - 1) : b[i] = b[j] => i = j,
           \A s \in S : \E i \in 0 .. (n - 1) : b[i] = s
    PROVE  Cardinality(S) = n
<1> DEFINE I == 0 .. (n - 1)
<1>1. DOMAIN b = I /\ b \in [I -> S]
  OBVIOUS
<1>2. b \in Bijection(I, S)
  BY <1>1 DEF Bijection, Injection, Surjection, IsInjective
<1>3. IsFiniteSet(I) /\ Cardinality(I) = n
  <2>1. 0 \in Int /\ n - 1 \in Int /\ (IF 0 > n - 1 THEN 0 ELSE (n - 1) - 0 + 1) = n
    OBVIOUS
  <2> QED
    BY <2>1, FS_Interval
<1>4. ExistsBijection(I, S)
  BY <1>2 DEF ExistsBijection
<1> HIDE DEF I
<1> QED
  BY <1>3, <1>4, FS_Bijection

(* As long as the connection to the controller lasts, the table holds      *)
(* between two notifications exactly the machines that were added and not  *)
(* deleted or rejuvenated since, once each.                                *)
THEOREM TableIsTheFeed == Spec => []TableFollowsFeed
<1>1. BalancerInv => TableFollowsFeed
  <2> SUFFICES ASSUME BalancerInv, fresh, cpc = "recv", NEW g \in Group
               PROVE  /\ RegisteredIn(g) = {ip \in IP : feed[g][ip] = "ADD"}
                      /\ Cardinality(RegisteredIn(g)) = current_vms[g]
    BY DEF TableFollowsFeed
  <2> USE DEF BalancerInv
  <2>1. Live(g) = Used(g)
    BY DEF Live
  <2>2. \A i \in Used(g) : vm_data_set[g][i].ip \in IP
    BY <2>1 DEF TableInv
  <2>3. \A ip \in IP : feed[g][ip] = "ADD" <=> \E i \in Used(g) : vm_data_set[g][i].ip = ip
    BY <2>1 DEF FeedInv, Pending
  <2>4. RegisteredIn(g) = {ip \in IP : feed[g][ip] = "ADD"}
    BY <2>2, <2>3 DEF RegisteredIn
  <2>5. PICK n \in Nat : n = current_vms[g]
    BY DEF TypeOK
  <2> DEFINE b == [i \in 0 .. (n - 1) |-> vm_data_set[g][i].ip]
  <2>6. b \in [0 .. (n - 1) -> RegisteredIn(g)]
    BY <2>5 DEF RegisteredIn, Used
  <2>7. \A i, j \in 0 .. (n - 1) : b[i] = b[j] => i = j
    BY <2>1, <2>5 DEF FeedInv, Used
  <2>8. Cardinality(RegisteredIn(g)) = n
    <3>1. \A s \in RegisteredIn(g) : \E i \in 0 .. (n - 1) : b[i] = s
      BY <2>5 DEF RegisteredIn, Used
    <3> HIDE DEF b
    <3> QED
      BY <2>6, <2>7, <3>1, DistinctSlots
  <2> QED
    BY <2>4, <2>5, <2>8
<1> QED
  BY <1>1, BalancerInductive, PTL

(* Only two steps choose a machine. *)
LEMMA ChoosingStep ==
    ASSUME BalancerInv, [Next]_vars, NEW c \in Conn, Chosen(c)
    PROVE  /\ ChooseSame(c) \/ ChooseNext(c)
           /\ warg[c] = c /\ addr[c] \in ClientIP
<1> USE DEF Chosen
<1>1. wpc \in [Conn -> WorkerPc] /\ wpc[c] = "choose" /\ wpc'[c] = "connect"
  BY DEF BalancerInv, TypeOK
<1>2. ~UNCHANGED wpc
  BY <1>1
<1>3. CASE MainStep
  BY <1>1, <1>3 DEF MainStep, Accept, LockAndFill, FillArgument, CreateWorker,
     CreateWorkerFails, workers
<1>4. ASSUME \E d \in Conn : WorkerStep(d) PROVE ChooseSame(c) \/ ChooseNext(c)
  <2>1. PICK d \in Conn : WorkerStep(d)
    BY <1>4
  <2>2. \E q : wpc' = [wpc EXCEPT ![d] = q] \/ UNCHANGED wpc
    BY <2>1 DEF WorkerStep, CopyArgument, WrapIndex, ChooseSame, ChooseNext, ChooseNowhere,
       Connect, ConnectFails, workers
  <2>3. d = c
    BY <1>1, <1>2, <2>2
  <2> QED
    BY <1>1, <1>2, <2>1, <2>3 DEF WorkerStep, CopyArgument, WrapIndex, ChooseNowhere,
       Connect, ConnectFails, workers
<1>5. ~ControllerStep /\ ~UNCHANGED vars
  BY <1>2 DEF ControllerStep, Recv, RecvFails, GrowAndEmpty, AddWrite, AddCount, DeleteCount,
     DeleteFill, workers, vars
<1>6. ChooseSame(c) \/ ChooseNext(c)
  BY <1>3, <1>4, <1>5 DEF Next
<1>7. wpc[c] \in Picking
  BY <1>1 DEF Picking
<1> QED
  BY <1>1, <1>6, <1>7, ArgumentInRange

(* A client is sent to a machine of the table whenever there is one and    *)
(* actual_index has not been overtaken: between the comparison with        *)
(* current_vms and the use of the index only this worker moves it.         *)
THEOREM SentToAMachine == Spec => SentToRegistered
<1>1. ASSUME BalancerInv, [Next]_vars, NEW c \in Conn, Chosen(c), ~astray, current_vms[0] > 0
      PROVE  da_socket'[c] \in RegisteredIn(0)
  <2>1. da_socket \in [Conn -> IP \union {NoIP}] /\ actual_index \in Nat /\ current_vms[0] \in Nat
    BY <1>1, NameFacts DEF BalancerInv, TypeOK
  <2>2. \E i \in Used(0) : da_socket' = [da_socket EXCEPT ![c] = vm_data_set[0][i].ip]
    <3>1. CASE ChooseSame(c)
      BY <3>1 DEF ChooseSame
    <3>2. CASE ChooseNext(c)
      <4>1. actual_index < current_vms[0]
        BY <1>1 DEF BalancerInv, IndexInv, Chosen
      <4>2. actual_index \in Used(0)
        BY <2>1, <4>1 DEF Used
      <4> QED
        BY <3>2, <4>2 DEF ChooseNext
    <3> QED
      BY <1>1, <3>1, <3>2, ChoosingStep
  <2> QED
    BY <2>1, <2>2 DEF RegisteredIn
<1>2. BalancerInv /\ [Next]_vars =>
         [\A c \in Conn : Chosen(c) /\ ~astray /\ current_vms[0] > 0 =>
             da_socket'[c] \in RegisteredIn(0)]_vars
  BY <1>1
<1> QED
  BY <1>2, BalancerInductive, PTL DEF Spec, SentToRegistered

(* A client that comes back is sent to the machine it was assigned to as   *)
(* long as that machine is registered, however often delete_vm moved the   *)
(* machine in the meantime, unless a worker read the table while the       *)
(* controller_thread was changing it.                                      *)
THEOREM ClientsAreSticky == Spec => ClientsStick
<1>1. ASSUME BalancerInv, [Next]_vars, NEW c \in Conn, Chosen(c), ~raced'
      PROVE  home[addr[c]] \in {NoIP, da_socket'[c]}
  <2> DEFINE a == addr[c]
  <2>1. (ChooseSame(c) \/ ChooseNext(c)) /\ warg[c] = c /\ a \in ClientIP
    BY <1>1, ChoosingStep
  <2>2. ~raced /\ cpc = "recv"
    BY <1>1, <2>1 DEF ChooseSame, ChooseNext, Looks
  <2>3. Live(0) = Used(0)
    BY <2>2 DEF Live
  <2>4. home[a] # NoIP =>
            /\ \E i \in Used(0) : a \in vm_data_set[0][i].clients
            /\ \A i \in Used(0) : a \in vm_data_set[0][i].clients =>
                                     vm_data_set[0][i].ip = home[a]
    BY <1>1, <2>1, <2>2, <2>3 DEF BalancerInv, HomeInv
  <2>5. da_socket \in [Conn -> IP \union {NoIP}]
    BY <1>1 DEF BalancerInv, TypeOK
  <2>6. CASE ChooseSame(c)
    <3>1. PICK i \in Used(0) : /\ a \in vm_data_set[0][i].clients
                               /\ da_socket' = [da_socket EXCEPT ![c] = vm_data_set[0][i].ip]
      BY <2>1, <2>6 DEF ChooseSame, FirstListing
    <3> QED
      BY <2>4, <2>5, <3>1
  <2>7. CASE ChooseNext(c)
    BY <2>1, <2>4, <2>7 DEF ChooseNext, NotListed
  <2> QED
    BY <2>1, <2>6, <2>7
<1>2. BalancerInv /\ [Next]_vars =>
         [\A c \in Conn : Chosen(c) /\ ~raced' => home[addr[c]] \in {NoIP, da_socket'[c]}]_vars
  BY <1>1
<1> QED
  BY <1>2, BalancerInductive, PTL DEF Spec, ClientsStick

-----------------------------------------------------------------------------
(* As long as the load balancer runs, a locked mutex is with main, which   *)
(* is about to create a worker, or with a worker on its way to unlock it.  *)
MutexHasAWayOut ==
    alive => \/ mutex = NoOne
             \/ mpc = "create"
             \/ \E c \in Conn : wpc[c] \in Picking

(* The mutex is locked by main and unlocked by the worker: whatever fails, *)
(* create_thread included, no path through main and deal_with_data leaves  *)
(* it locked behind it, and the paths that do not unlock it - connect()    *)
(* fails, or a client is written through a wild pointer - end the process. *)
THEOREM MutexNotLeftLocked == Spec => []MutexHasAWayOut
<1>1. Init => MutexHasAWayOut
  BY DEF Init, MutexHasAWayOut
<1>2. ASSUME BalancerInv, MutexHasAWayOut, [Next]_vars PROVE MutexHasAWayOut'
  <2> USE <1>2
  <2>0. wpc \in [Conn -> WorkerPc]
    BY DEF BalancerInv, TypeOK
  <2>1. CASE UNCHANGED vars
    BY <2>1 DEF vars, main, workers, MutexHasAWayOut
  <2>2. CASE Next /\ alive
    <3>0. mutex = NoOne \/ mpc = "create" \/ \E c \in Conn : wpc[c] \in Picking
      BY <2>2 DEF MutexHasAWayOut
    <3>1. CASE ControllerStep
      <4>1. UNCHANGED <<mutex, mpc, wpc>>
        BY <3>1 DEF ControllerStep, Recv, RecvFails, GrowAndEmpty, AddWrite, AddCount,
                    DeleteCount, DeleteFill, main, workers
      <4> QED
        BY <3>0, <4>1 DEF MutexHasAWayOut
    <3>2. CASE Accept \/ LockAndFill \/ CreateWorkerFails
      <4>1. \/ UNCHANGED <<mutex, wpc>> /\ mpc = "accept"
            \/ mpc' = "create"
            \/ mutex' = NoOne
        BY <3>2 DEF Accept, LockAndFill, FillArgument, CreateWorkerFails, workers
      <4> QED
        BY <3>0, <4>1 DEF MutexHasAWayOut
    <3>3. CASE CreateWorker
      <4>1. accepted \in Conn
        BY <3>3 DEF CreateWorker, BalancerInv, WorkerInv
      <4>2. wpc'[accepted] = "start"
        BY <2>0, <3>3, <4>1 DEF CreateWorker
      <4> QED
        BY <4>1, <4>2 DEF MutexHasAWayOut, Picking
    <3>4. ASSUME NEW c \in Conn, WorkerStep(c) PROVE MutexHasAWayOut'
      <4>1. CASE CopyArgument(c) \/ WrapIndex(c) \/ ChooseSame(c) \/ ChooseNext(c)
        <5>1. wpc'[c] \in {"wrap", "choose", "connect"}
          BY <2>0, <4>1 DEF CopyArgument, WrapIndex, ChooseSame, ChooseNext
        <5> QED
          BY <5>1 DEF MutexHasAWayOut, Picking
      <4>2. CASE Connect(c)
        BY <4>2 DEF Connect, MutexHasAWayOut
      <4>3. CASE ChooseNowhere(c) \/ ConnectFails(c)
        BY <4>3 DEF ChooseNowhere, ConnectFails, MutexHasAWayOut
      <4> QED
        BY <3>4, <4>1, <4>2, <4>3 DEF WorkerStep
    <3> QED
      BY <2>2, <3>1, <3>2, <3>3, <3>4 DEF Next, MainStep
  <2> QED
    BY <2>1, <2>2 DEF Next
<1> QED
  BY <1>1, <1>2, BalancerInductive, PTL DEF Spec
=============================================================================
