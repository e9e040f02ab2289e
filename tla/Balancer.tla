------------------------------ MODULE Balancer ------------------------------
(***************************************************************************)
(* The load balancer of controller/balancer.c up to the point where a      *)
(* client is connected to a machine: the controller_thread, which keeps    *)
(* vm_data_set in step with the controller's notifications and takes no    *)
(* lock, main, which accepts clients, and one worker per client, which     *)
(* picks a machine in get_current_socket.  What a worker does afterwards   *)
(* is the subject of Forwarder.                                            *)
(*                                                                         *)
(* Only group 0 is ever offered to clients.  The five places of a          *)
(* machine's connected_clients are a set of at most MAX_CONNECTED_CLIENTS  *)
(* addresses: the places are only searched, never ordered.  A client that  *)
(* leaves changes nothing here: its address stays in the list.             *)
(***************************************************************************)
EXTENDS Naturals, FiniteSets

CONSTANTS NUMBER_GROUPS,
          NUMBER_VMs,             \* slots allocated for every group
          MAX_CONNECTED_CLIENTS,  \* places in a machine's list of clients
          IP,                     \* addresses of machines
          NoIP,                   \* an address never written
          ClientIP,               \* addresses of clients
          MaxMsgs,                \* bound: returns of the controller_thread's recv()
          MaxClients,             \* bound: client connections accepted
          Faults                  \* see FaultKind

(***************************************************************************)
(* "recv"    the connection to the controller fails or is shut down        *)
(* "connect" connect() to a machine fails                                  *)
(* "thread"  create_thread() fails                                         *)
(***************************************************************************)
FaultKind == {"recv", "connect", "thread"}

ASSUME BalancerSizes == /\ NUMBER_GROUPS \in Nat \ {0}
                        /\ NUMBER_VMs \in Nat \ {0}
                        /\ MAX_CONNECTED_CLIENTS \in Nat \ {0}
                        /\ MaxMsgs \in Nat
                        /\ MaxClients \in Nat
ASSUME BalancerNames == NoIP \notin IP \union ClientIP /\ Faults \subseteq FaultKind

Group == 0 .. (NUMBER_GROUPS - 1)
Conn == 1 .. MaxClients
NoOne == 0
Main == MaxClients + 1

Message == [ip : IP, service : Group, op : {"ADD", "DELETE", "REJ"}]
Unwritten == [ip |-> NoIP, service |-> 0, op |-> "none"]

\* A slot: the address, whether create_empty_list ever initialised the list of
\* clients, and the list.  ports are the same for all machines (8080).
Slot == [ip : IP \union {NoIP}, ready : BOOLEAN, clients : SUBSET ClientIP]
Uninit == [ip |-> NoIP, ready |-> FALSE, clients |-> {}]

VARIABLES
    current_vms, allocated_vms, vm_data_set,  \* as in the code
    actual_index,    \* next slot to assign in group 0
    mutex,           \* owner of mutex, NoOne when free
    cpc,             \* where the controller_thread is
    cvm,             \* its struct virtual_machine
    cindex,          \* the slot delete_vm found
    fresh,           \* TRUE iff every message used was received (ghost)
    feed,            \* per group and machine, the last operation sent (ghost)
    msgs,            \* returns of recv() so far
    mpc,             \* where main is
    vm_client,       \* main's struct arg_thread, shared with the new worker
    addr,            \* address of every accepted client
    accepted,        \* clients accepted so far
    wpc,             \* where each worker is
    warg,            \* each worker's copy of vm_client
    da_socket,       \* the machine each worker connects to
    home,            \* per client address, the registered machine it was
                     \* assigned to, NoIP once that machine is gone (ghost)
    alive,           \* FALSE after exit() or a wild memory access
    raced,           \* a worker read the table while the controller_thread,
                     \* which takes no lock, was changing it (ghost)
    astray           \* actual_index has left the used slots: by a deletion, or
                     \* by an assignment from an empty table (ghost)

table == <<current_vms, allocated_vms, vm_data_set>>
controller == <<cpc, cvm, cindex, fresh, feed, msgs>>
main == <<mpc, vm_client, addr, accepted>>
workers == <<wpc, warg, da_socket>>
ghosts == <<raced, astray>>
vars == <<table, actual_index, mutex, controller, main, workers, home, alive, ghosts>>

\* What the controller sends (Controller!KeepsFeed).
ControllerFeed == INSTANCE Feed

Init == /\ current_vms = [g \in Group |-> 0]
        /\ allocated_vms = [g \in Group |-> NUMBER_VMs]
        /\ vm_data_set = [g \in Group |-> [i \in 0 .. (NUMBER_VMs - 1) |-> Uninit]]
        /\ actual_index = 0
        /\ mutex = NoOne
        /\ cpc = "recv"
        /\ cvm = Unwritten
        /\ cindex = 0
        /\ fresh = TRUE
        /\ ControllerFeed!Init
        /\ msgs = 0
        /\ mpc = "accept"
        /\ vm_client = NoOne
        /\ addr = [c \in Conn |-> NoIP]
        /\ accepted = 0
        /\ wpc = [c \in Conn |-> "none"]
        /\ warg = [c \in Conn |-> NoOne]
        /\ da_socket = [c \in Conn |-> NoIP]
        /\ home = [a \in ClientIP |-> NoIP]
        /\ alive = TRUE
        /\ raced = FALSE /\ astray = FALSE

Used(g) == 0 .. (current_vms[g] - 1)

-----------------------------------------------------------------------------
(* The controller_thread.                                                  *)

Recv ==
    /\ cpc = "recv"
    /\ msgs < MaxMsgs
    /\ \E m \in Message :
          /\ ControllerFeed!Notify(m.service, m.ip, m.op)
          /\ cvm' = m
    /\ msgs' = msgs + 1
    /\ cpc' = "grow"
    /\ UNCHANGED <<table, actual_index, mutex, cindex, fresh, main, workers, home, alive, ghosts>>

\* recv() returns -1 or 0: the thread goes on with the message it has, which is
\* an automatic variable and may be anything before the first one.
RecvFails ==
    /\ cpc = "recv"
    /\ "recv" \in Faults
    /\ msgs < MaxMsgs
    /\ msgs' = msgs + 1
    /\ fresh' = FALSE
    /\ cvm' \in IF cvm = Unwritten THEN Message ELSE {cvm}
    /\ cpc' = "grow"
    /\ UNCHANGED <<table, actual_index, mutex, cindex, feed, main, workers, home,
                   alive, ghosts>>

\* The table of group g after check_vm_data_set_size.
Grown(g) == IF current_vms[g] = allocated_vms[g]
            THEN [i \in 0 .. (2 * allocated_vms[g] - 1) |->
                     IF i < allocated_vms[g] THEN vm_data_set[g][i] ELSE Uninit]
            ELSE vm_data_set[g]

\* check_vm_data_set_size, then create_empty_list on the first free slot,
\* whatever the operation is.
GrowAndEmpty ==
    /\ cpc = "grow"
    /\ LET g == cvm.service
       IN  /\ allocated_vms' = [allocated_vms EXCEPT ![g] =
                                   IF current_vms[g] = @ THEN 2 * @ ELSE @]
           /\ vm_data_set' = [vm_data_set EXCEPT ![g] =
                                 [Grown(g) EXCEPT ![current_vms[g]].ready = TRUE,
                                                  ![current_vms[g]].clients = {}]]
    /\ cpc' = IF cvm.op = "ADD" THEN "write" ELSE "find"
    /\ UNCHANGED <<current_vms, actual_index, mutex, cvm, cindex, fresh, feed, msgs,
                   main, workers, home, alive, ghosts>>

AddWrite ==
    /\ cpc = "write"
    /\ vm_data_set' = [vm_data_set EXCEPT ![cvm.service][current_vms[cvm.service]].ip = cvm.ip]
    /\ cpc' = "count"
    /\ UNCHANGED <<current_vms, allocated_vms, actual_index, mutex, cvm, cindex, fresh,
                   feed, msgs, main, workers, home, alive, ghosts>>

AddCount ==
    /\ cpc = "count"
    /\ current_vms' = [current_vms EXCEPT ![cvm.service] = @ + 1]
    /\ cpc' = "recv"
    /\ UNCHANGED <<allocated_vms, vm_data_set, actual_index, mutex, cvm, cindex, fresh,
                   feed, msgs, main, workers, home, alive, ghosts>>

\* Mutant: the loop compares nothing.
FirstOfGroup(g, ip, i) == i \in Used(g) /\ i = 0

FirstWithIp(g, ip, i) ==
    /\ i \in Used(g)
    /\ vm_data_set[g][i].ip = ip
    /\ \A j \in Used(g) : vm_data_set[g][j].ip = ip => i <= j

\* With n machines left actual_index is out of range, or in range only until a
\* worker that has compared it already uses it.
PassesIndex(n) == actual_index > n \/ (actual_index = n /\ \E c \in Conn : wpc[c] = "choose")

\* delete_vm: the count drops before the last slot is copied into the gap.
DeleteCount ==
    /\ cpc = "find"
    /\ LET g == cvm.service
       IN  \/ \E i \in Used(g) :
                 /\ FirstWithIp(g, cvm.ip, i)
                 /\ cindex' = i
                 /\ current_vms' = [current_vms EXCEPT ![g] = @ - 1]
                 /\ home' = [a \in ClientIP |->
                                IF g = 0 /\ home[a] = cvm.ip THEN NoIP ELSE home[a]]
                 /\ astray' = (astray \/ (g = 0 /\ PassesIndex(current_vms[0] - 1)))
                 /\ cpc' = "fill"
           \/ /\ \A i \in Used(g) : vm_data_set[g][i].ip # cvm.ip
              /\ cpc' = "recv"
              /\ UNCHANGED <<cindex, current_vms, home, astray>>
    /\ UNCHANGED <<allocated_vms, vm_data_set, actual_index, mutex, cvm, fresh, feed,
                   msgs, main, workers, alive, raced>>

\* Mutant: only the address is copied, not the list of clients.
DeleteFillAddressOnly ==
    /\ cpc = "fill"
    /\ vm_data_set' = [vm_data_set EXCEPT ![cvm.service][cindex].ip =
                          vm_data_set[cvm.service][current_vms[cvm.service]].ip]
    /\ cpc' = "recv"
    /\ UNCHANGED <<current_vms, allocated_vms, actual_index, mutex, cvm, cindex, fresh,
                   feed, msgs, main, workers, home, alive, ghosts>>

DeleteFill ==
    /\ cpc = "fill"
    /\ vm_data_set' = [vm_data_set EXCEPT ![cvm.service][cindex] =
                          vm_data_set[cvm.service][current_vms[cvm.service]]]
    /\ cpc' = "recv"
    /\ UNCHANGED <<current_vms, allocated_vms, actual_index, mutex, cvm, cindex, fresh,
                   feed, msgs, main, workers, home, alive, ghosts>>

-----------------------------------------------------------------------------
(* main.                                                                   *)

Accept ==
    /\ mpc = "accept"
    /\ accepted < MaxClients
    /\ accepted' = accepted + 1
    /\ \E a \in ClientIP : addr' = [addr EXCEPT ![accepted + 1] = a]
    /\ mpc' = "lock"
    /\ UNCHANGED <<table, actual_index, mutex, controller, vm_client, workers,
                   home, alive, ghosts>>

FillArgument ==
    /\ mpc = "lock"
    /\ mutex' = Main
    /\ vm_client' = accepted
    /\ mpc' = "create"
    /\ UNCHANGED <<table, actual_index, controller, addr, accepted, workers, home, alive, ghosts>>

\* Mutant: main does not wait for the previous worker.
FillUnlocked == FillArgument

\* The mutex is unlocked by the worker.
LockAndFill == mutex = NoOne /\ FillArgument

CreateWorker ==
    /\ mpc = "create"
    /\ wpc' = [wpc EXCEPT ![accepted] = "start"]
    /\ mpc' = "accept"
    /\ UNCHANGED <<table, actual_index, mutex, controller, vm_client, addr, accepted,
                   warg, da_socket, home, alive, ghosts>>

CreateWorkerFails ==
    /\ mpc = "create"
    /\ "thread" \in Faults
    /\ mutex' = NoOne
    /\ mpc' = "accept"
    /\ UNCHANGED <<table, actual_index, controller, vm_client, addr, accepted, workers,
                   home, alive, ghosts>>

-----------------------------------------------------------------------------
(* A worker: deal_with_data up to the unlock.                              *)

CopyArgument(c) ==
    /\ wpc[c] = "start"
    /\ warg' = [warg EXCEPT ![c] = vm_client]
    /\ wpc' = [wpc EXCEPT ![c] = "wrap"]
    /\ UNCHANGED <<table, actual_index, mutex, controller, main, da_socket, home, alive, ghosts>>

\* A worker looks at the table.
Looks == raced' = (raced \/ cpc # "recv")

\* Mutant: an index equal to the number of machines passes.
WrapIndexLate(c) ==
    /\ wpc[c] = "wrap"
    /\ Looks
    /\ actual_index' = IF actual_index > current_vms[0] THEN 0 ELSE actual_index
    /\ wpc' = [wpc EXCEPT ![c] = "choose"]
    /\ UNCHANGED <<table, mutex, controller, main, warg, da_socket, home, alive, astray>>

\* get_current_socket: back to the first machine after the last one.
WrapIndex(c) ==
    /\ wpc[c] = "wrap"
    /\ Looks
    /\ actual_index' = IF actual_index = current_vms[0] THEN 0 ELSE actual_index
    /\ wpc' = [wpc EXCEPT ![c] = "choose"]
    /\ UNCHANGED <<table, mutex, controller, main, warg, da_socket, home, alive, astray>>

\* The first machine that lists this client.
FirstListing(a, i) ==
    /\ i \in Used(0)
    /\ a \in vm_data_set[0][i].clients
    /\ \A j \in Used(0) : a \in vm_data_set[0][j].clients => i <= j

\* check_already_connected, first loop: the client returns to its machine.
ChooseSame(c) ==
    /\ wpc[c] = "choose"
    /\ Looks
    /\ \E i \in Used(0) :
          /\ FirstListing(addr[warg[c]], i)
          /\ da_socket' = [da_socket EXCEPT ![c] = vm_data_set[0][i].ip]
    /\ wpc' = [wpc EXCEPT ![c] = "connect"]
    /\ UNCHANGED <<table, actual_index, mutex, controller, main, warg, home, alive, astray>>

NotListed(a) == \A i \in Used(0) : a \notin vm_data_set[0][i].clients

\* A slot whose list can take one more client.
HasRoom(i) == /\ i < allocated_vms[0]
              /\ vm_data_set[0][i].ready
              /\ Cardinality(vm_data_set[0][i].clients) < MAX_CONNECTED_CLIENTS

\* Second part: the slot at actual_index, which is not compared with
\* current_vms again.
ChooseNext(c) ==
    /\ wpc[c] = "choose"
    /\ Looks
    /\ NotListed(addr[warg[c]])
    /\ HasRoom(actual_index)
    /\ LET a == addr[warg[c]]
           i == actual_index
       IN  /\ da_socket' = [da_socket EXCEPT ![c] = vm_data_set[0][i].ip]
           /\ vm_data_set' = [vm_data_set EXCEPT ![0][i].clients = @ \union {a}]
           /\ home' = [home EXCEPT ![a] = IF i \in Used(0) THEN vm_data_set[0][i].ip ELSE NoIP]
    /\ actual_index' = actual_index + 1
    /\ astray' = (astray \/ current_vms[0] = 0)
    /\ wpc' = [wpc EXCEPT ![c] = "connect"]
    /\ UNCHANGED <<current_vms, allocated_vms, mutex, controller, main, warg, alive>>

\* No free place, no list or no slot: a write through a wild pointer.
ChooseNowhere(c) ==
    /\ wpc[c] = "choose"
    /\ Looks
    /\ NotListed(addr[warg[c]])
    /\ ~HasRoom(actual_index)
    /\ alive' = FALSE
    /\ wpc' = [wpc EXCEPT ![c] = "crashed"]
    /\ UNCHANGED <<table, actual_index, mutex, controller, main, warg, da_socket, home, astray>>

\* Mutant: the worker forgets to unlock the mutex main locked for it.
ConnectKeepsMutex(c) ==
    /\ wpc[c] = "connect"
    /\ da_socket[c] # NoIP
    /\ wpc' = [wpc EXCEPT ![c] = "forward"]
    /\ UNCHANGED <<table, actual_index, mutex, controller, main, warg, da_socket, home,
                   alive, ghosts>>

Connect(c) ==
    /\ wpc[c] = "connect"
    /\ da_socket[c] # NoIP
    /\ mutex' = NoOne
    /\ wpc' = [wpc EXCEPT ![c] = "forward"]
    /\ UNCHANGED <<table, actual_index, controller, main, warg, da_socket, home, alive, ghosts>>

\* connect() fails: exit(EXIT_FAILURE) ends the whole load balancer.
ConnectFails(c) ==
    /\ wpc[c] = "connect"
    /\ "connect" \in Faults \/ da_socket[c] = NoIP
    /\ alive' = FALSE
    /\ UNCHANGED <<table, actual_index, mutex, controller, main, workers, home, ghosts>>

-----------------------------------------------------------------------------
ControllerStep == \/ Recv \/ RecvFails \/ GrowAndEmpty
                  \/ AddWrite \/ AddCount \/ DeleteCount \/ DeleteFill

MainStep == Accept \/ LockAndFill \/ CreateWorker \/ CreateWorkerFails

WorkerStep(c) == \/ CopyArgument(c) \/ WrapIndex(c)
                 \/ ChooseSame(c) \/ ChooseNext(c) \/ ChooseNowhere(c)
                 \/ Connect(c) \/ ConnectFails(c)

Next == /\ alive
        /\ ControllerStep \/ MainStep \/ \E c \in Conn : WorkerStep(c)

Spec == Init /\ [][Next]_vars

\* Every thread that can run eventually does; connections and notifications
\* need not arrive.
Fairness == /\ WF_vars(alive /\ mpc # "accept" /\ MainStep)
            /\ \A c \in Conn : WF_vars(alive /\ WorkerStep(c))
            /\ WF_vars(alive /\ cpc # "recv" /\ ControllerStep)

FairSpec == Spec /\ Fairness

-----------------------------------------------------------------------------
(* Properties.                                                             *)

WorkerPc == {"none", "start", "wrap", "choose", "connect", "forward", "crashed"}

\* Every variable has its type.
TypeOK ==
    /\ current_vms \in [Group -> Nat]
    /\ allocated_vms \in [Group -> Nat \ {0}]
    /\ DOMAIN vm_data_set = Group
    /\ \A g \in Group : vm_data_set[g] \in [0 .. (allocated_vms[g] - 1) -> Slot]
    /\ actual_index \in Nat
    /\ mutex \in {NoOne, Main}
    /\ cpc \in {"recv", "grow", "write", "count", "find", "fill"}
    /\ cvm \in Message \union {Unwritten}
    /\ cindex \in Nat
    /\ fresh \in BOOLEAN
    /\ feed \in [Group -> [IP -> {"ADD", "DELETE", "REJ"}]]
    /\ msgs \in 0 .. MaxMsgs
    /\ mpc \in {"accept", "lock", "create"}
    /\ vm_client \in Conn \union {NoOne}
    /\ addr \in [Conn -> ClientIP \union {NoIP}]
    /\ accepted \in 0 .. MaxClients
    /\ wpc \in [Conn -> WorkerPc]
    /\ warg \in [Conn -> Conn \union {NoOne}]
    /\ da_socket \in [Conn -> IP \union {NoIP}]
    /\ home \in [ClientIP -> IP \union {NoIP}]
    /\ alive \in BOOLEAN /\ raced \in BOOLEAN /\ astray \in BOOLEAN

RegisteredIn(g) == {vm_data_set[g][i].ip : i \in Used(g)}

\* As long as recv() from the controller has not failed: between two
\* notifications the used slots of every group hold, once each, exactly the
\* machines whose last notification was ADD, whatever deletions moved.  After a
\* failure the last message is used again, which may add its machine twice.
TableFollowsFeed ==
    fresh /\ cpc = "recv" => \A g \in Group :
        /\ RegisteredIn(g) = {ip \in IP : feed[g][ip] = "ADD"}
        /\ Cardinality(RegisteredIn(g)) = current_vms[g]

\* main's struct vm_client, which lives on main's stack, is not overwritten
\* before the worker it was filled for has copied it, and one worker at a time
\* picks a machine.
ArgumentHandedOver ==
    \A c \in Conn :
        /\ wpc[c] = "start" => mutex = Main /\ vm_client = c
        /\ wpc[c] \notin {"none", "start"} => warg[c] = c
        /\ \A d \in Conn : wpc[c] \in {"start", "wrap", "choose", "connect"}
                           /\ wpc[d] \in {"start", "wrap", "choose", "connect"} => c = d

Chosen(c) == wpc[c] = "choose" /\ wpc'[c] = "connect"

\* A client comes back to the machine it was assigned to for as long as that
\* machine stays registered, wherever deletions move the machine's slot, unless
\* a worker looked at the table in the middle of a change.
ClientsStick ==
    [][\A c \in Conn : Chosen(c) /\ ~raced' => home[addr[c]] \in {NoIP, da_socket'[c]}]_vars

\* A client is sent to a machine the load balancer has, if it has one: the
\* round robin leaves the used slots only when a deletion overtakes it or there
\* was no machine to assign.
SentToRegistered ==
    [][\A c \in Conn : Chosen(c) /\ ~astray /\ current_vms[0] > 0 =>
          da_socket'[c] \in RegisteredIn(0)]_vars

\* The mutex passed from main to the workers never blocks a client for ever:
\* it gets a machine, or main gives it up because no thread could be created,
\* or the load balancer has ended.
ClientServed ==
    \A c \in Conn : mpc = "lock" /\ accepted = c ~>
                       \/ ~alive
                       \/ wpc[c] = "forward"
                       \/ wpc[c] = "none" /\ mpc = "accept"
=============================================================================
