----------------------------- MODULE Controller -----------------------------
(***************************************************************************)
(* The per-region controller of controller/server.c: the main thread, which *)
(* accepts virtual machines and registers them in vm_data_set, one          *)
(* communication_thread per registered machine, and the balancer_thread,    *)
(* which forwards the content of the one-place mailbox virt_machine to the  *)
(* load balancer.                                                           *)
(*                                                                          *)
(* A step is what one thread does between two points where another thread   *)
(* can observe it: a system call on a socket, the acquisition of a mutex    *)
(* together with the section it protects, or the release of a mutex that    *)
(* another thread acquired.  Data points and predictions are abstracted to  *)
(* the decision they lead to (below TTC_THRESHOLD or not).                  *)
(***************************************************************************)
EXTENDS Naturals, FiniteSets

CONSTANTS NUMBER_GROUPS,  \* number of services the controller manages
          NUMBER_VMs,     \* slots allocated for every group at start-up
          IP,             \* addresses virtual machines connect from
          NoIP,           \* content of a slot that was never written
          MaxConn,        \* bound: connections accepted in one behaviour
          Faults          \* failures this instance exercises, see FaultKind

(***************************************************************************)
(* "send"    a send() to a virtual machine fails                           *)
(* "reset"   recv() fails during the handshake other than by a timeout     *)
(* "thread"  pthread_create() fails                                        *)
(* "lb"      a send() to the load balancer fails                           *)
(* "overlap" a machine reconnects before its previous entry was removed    *)
(***************************************************************************)
FaultKind == {"send", "reset", "thread", "lb", "overlap"}

ASSUME SizesAssumption == /\ NUMBER_GROUPS \in Nat \ {0}
                          /\ NUMBER_VMs \in Nat \ {0}
                          /\ MaxConn \in Nat \ {0}
ASSUME NoIPAssumption == NoIP \notin IP
ASSUME FaultsAssumption == Faults \subseteq FaultKind

Group == 0 .. (NUMBER_GROUPS - 1)
Service == 0 .. NUMBER_GROUPS      \* NUMBER_GROUPS stands for every wrong value
Conn == 1 .. MaxConn               \* the n-th accepted connection; also its port
Fd == 1 .. MaxConn                 \* socket descriptors of accepted connections
NoOne == 0                         \* no thread, no connection, no descriptor
Main == MaxConn + 1                \* the main thread as the owner of a mutex

VmState == {"STAND_BY", "ACTIVE"}
Operation == {"ADD", "DELETE", "REJ"}

Entry == [socket : Fd, ip_address : IP, port : Conn,
          service : Group, state : VmState]
Uninit == [socket |-> NoOne, ip_address |-> NoIP, port |-> NoOne,
           service |-> 0, state |-> "STAND_BY"]
NoMessage == [ip |-> NoIP, service |-> 0, op |-> "ADD", conn |-> NoOne]

VARIABLES
    mutex,            \* owner of mutex, NoOne when free
    manage_vm_mutex,  \* owner of manage_vm_mutex, NoOne when free
    state_man_vm,     \* 1 while virt_machine waits for the balancer_thread
    virt_machine,     \* the mailbox (conn: the connection it is about, ghost)
    current_vms,      \* per group, how many slots are in use
    allocated_vms,    \* per group, how many slots exist
    vm_data_set,      \* per group, the slots
    fd,               \* descriptor -> the connection open on it, or NoOne
    accepted,         \* connections accepted so far
    mpc,              \* where the main thread is
    client,           \* address of the connection main is handling
    msock,            \* descriptor of the connection main is handling
    s,                \* the struct vm_service main received last
    pc,               \* where each communication_thread is
    arg,              \* the slot main passed to each communication_thread
    vm,               \* each communication_thread's own struct vm_data
    bpc,              \* where the balancer_thread is
    told,             \* machines that received REJUVENATE: they reboot
    lb,               \* per connection, the last operation the LB received
    feed              \* per group and address, the last operation it received

shared == <<mutex, manage_vm_mutex, state_man_vm, virt_machine>>
table == <<current_vms, allocated_vms, vm_data_set>>
main == <<accepted, mpc, client, msock, s>>
threads == <<pc, arg, vm>>
peers == <<told, lb, feed>>
vars == <<shared, table, fd, main, threads, bpc, peers>>

Init == /\ mutex = NoOne
        /\ manage_vm_mutex = NoOne
        /\ state_man_vm = 0
        /\ virt_machine = NoMessage
        /\ current_vms = [g \in Group |-> 0]
        /\ allocated_vms = [g \in Group |-> NUMBER_VMs]
        /\ vm_data_set = [g \in Group |-> [i \in 0 .. (NUMBER_VMs - 1) |-> Uninit]]
        /\ fd = [f \in Fd |-> NoOne]
        /\ accepted = 0
        /\ mpc = "accept"
        /\ client = NoIP
        /\ msock = NoOne
        /\ s = [service |-> 0, state |-> "STAND_BY"]
        /\ pc = [c \in Conn |-> "none"]
        /\ arg = [c \in Conn |-> [service |-> 0, index |-> 0]]
        /\ vm = [c \in Conn |-> Uninit]
        /\ bpc = "poll"
        /\ told = {}
        /\ lb = [c \in Conn |-> "none"]
        /\ feed = [g \in Group |-> [ip \in IP |-> "DELETE"]]

-----------------------------------------------------------------------------
(* Descriptors, the table and the mailbox.                                 *)

\* close(): an invalid descriptor is refused, a valid one is freed whoever
\* opened it.
Closed(f) == [fd EXCEPT ![f] = NoOne]

\* accept() returns the lowest free descriptor.
LowestFree(f) == /\ fd[f] = NoOne
                 /\ \A h \in Fd : fd[h] = NoOne => f <= h

Used(g) == 0 .. (current_vms[g] - 1)

Registered(ip) == \E g \in Group : \E i \in Used(g) :
                      vm_data_set[g][i].ip_address = ip

\* Mutant: the loop compares nothing.
FirstOfGroup(g, ip, i) == i \in Used(g) /\ i = 0

\* The slot of the loop in manage_disconnected_vms: the first with this address.
FirstWithIp(g, ip, i) ==
    /\ i \in Used(g)
    /\ vm_data_set[g][i].ip_address = ip
    /\ \A j \in Used(g) : vm_data_set[g][j].ip_address = ip => i <= j

\* The slot of the loop in switch_active_machine: the first in stand-by.
FirstStandBy(g, i) ==
    /\ i \in Used(g)
    /\ vm_data_set[g][i].state = "STAND_BY"
    /\ \A j \in Used(g) : vm_data_set[g][j].state = "STAND_BY" => i <= j

\* Mutant: one machine too many before the table grows.
FullTooLate(g) == current_vms[g] > allocated_vms[g]

Full(g) == current_vms[g] = allocated_vms[g]

\* Mutant: realloc() is asked for the old size.
GrownByNothing(g) == vm_data_set[g]

\* The slots of group g after the reallocation that a full group asks for.
Grown(g) == [i \in 0 .. (2 * allocated_vms[g] - 1) |->
                IF i < allocated_vms[g] THEN vm_data_set[g][i] ELSE Uninit]

FillMailbox(t, ip, g, op, c) ==
    /\ manage_vm_mutex' = t
    /\ virt_machine' = [ip |-> ip, service |-> g, op |-> op, conn |-> c]
    /\ state_man_vm' = 1

\* Mutant: the mailbox is filled without waiting for manage_vm_mutex.
PublishUnlocked(t, ip, g, op, c) == FillMailbox(t, ip, g, op, c)

\* Locks manage_vm_mutex on behalf of thread t and fills the mailbox.  Nobody
\* but the balancer_thread unlocks it.
Publish(t, ip, g, op, c) ==
    /\ manage_vm_mutex = NoOne
    /\ FillMailbox(t, ip, g, op, c)

\* The loop of manage_disconnected_vms: the last slot fills the gap.
CompactGroup(v) ==
    /\ \/ \E i \in Used(v.service) :
             /\ FirstWithIp(v.service, v.ip_address, i)
             /\ current_vms' = [current_vms EXCEPT ![v.service] = @ - 1]
             /\ vm_data_set' = [vm_data_set EXCEPT ![v.service][i] =
                                  vm_data_set[v.service][current_vms[v.service] - 1]]
       \/ /\ \A i \in Used(v.service) :
                vm_data_set[v.service][i].ip_address # v.ip_address
          /\ UNCHANGED <<current_vms, vm_data_set>>
    /\ UNCHANGED <<mutex, allocated_vms>>

\* Mutant: the removal does not lock mutex.
RemoveVmUnlocked(v) == CompactGroup(v)

\* manage_disconnected_vms(v), a section protected by mutex.
RemoveVm(v) == mutex = NoOne /\ CompactGroup(v)

-----------------------------------------------------------------------------
(* The main thread: accept_new_client.                                     *)

Accept(ip) ==
    /\ mpc = "accept"
    /\ accepted < MaxConn
    /\ "overlap" \in Faults \/ ~Registered(ip)
    /\ \E f \in Fd : /\ LowestFree(f)
                     /\ fd' = [fd EXCEPT ![f] = accepted + 1]
                     /\ msock' = f
    /\ accepted' = accepted + 1
    /\ client' = ip
    /\ mpc' = "info"
    /\ UNCHANGED <<shared, table, s, threads, bpc, peers>>

\* The first struct vm_service arrives.
RecvInfo ==
    /\ mpc = "info"
    /\ s' \in [service : Service, state : VmState]
    /\ mpc' = "reply"
    /\ UNCHANGED <<shared, table, fd, accepted, client, msock, threads, bpc, peers>>

\* Mutant: no failure closes the descriptor.
RecvInfoFailsLeaks ==
    /\ mpc = "info"
    /\ mpc' = "accept"
    /\ UNCHANGED <<shared, table, fd, accepted, client, msock, s, threads, bpc, peers>>

\* It does not: a timeout or an orderly shutdown closes the descriptor, any
\* other error leaves it open.
RecvInfoFails ==
    /\ mpc = "info"
    /\ \/ fd' = Closed(msock)
       \/ "reset" \in Faults /\ UNCHANGED fd
    /\ mpc' = "accept"
    /\ UNCHANGED <<shared, table, accepted, client, msock, s, threads, bpc, peers>>

\* "ok" for an existing group, "groups" otherwise.  A failed send closes the
\* descriptor and changes nothing else.
Reply ==
    /\ mpc = "reply"
    /\ \/ fd[msock] # NoOne /\ UNCHANGED fd
       \/ /\ "send" \in Faults \/ fd[msock] = NoOne
          /\ fd' = Closed(msock)
    /\ mpc' = IF s.service >= NUMBER_GROUPS THEN "again" ELSE "insert"
    /\ UNCHANGED <<shared, table, accepted, client, msock, s, threads, bpc, peers>>

\* After "groups": another struct vm_service (the service is chosen again, the
\* state is not).
RecvAgain ==
    /\ mpc = "again"
    /\ fd[msock] # NoOne
    /\ \E g \in Service : s' = [s EXCEPT !.service = g]
    /\ mpc' = "reply"
    /\ UNCHANGED <<shared, table, fd, accepted, client, msock, threads, bpc, peers>>

\* No answer to "groups": the loop continues with the old value of s.
RecvAgainFails ==
    /\ mpc = "again"
    /\ \/ fd' = Closed(msock)
       \/ "reset" \in Faults /\ UNCHANGED fd
    /\ mpc' = "reply"
    /\ UNCHANGED <<shared, table, accepted, client, msock, s, threads, bpc, peers>>

\* Takes mutex, which stays locked until the new thread has copied its slot.
Insert ==
    /\ mpc = "insert"
    /\ mutex = NoOne
    /\ mutex' = Main
    /\ LET g == s.service
       IN  /\ allocated_vms' = IF Full(g)
                               THEN [allocated_vms EXCEPT ![g] = 2 * @]
                               ELSE allocated_vms
           /\ vm_data_set' = [vm_data_set EXCEPT ![g] =
                 [(IF Full(g) THEN Grown(g) ELSE @) EXCEPT ![current_vms[g]] =
                     [socket |-> msock, ip_address |-> client, port |-> accepted,
                      service |-> g, state |-> s.state]]]
           /\ current_vms' = [current_vms EXCEPT ![g] = @ + 1]
    /\ mpc' = IF s.state = "ACTIVE" THEN "publish" ELSE "create"
    /\ UNCHANGED <<manage_vm_mutex, state_man_vm, virt_machine, fd, accepted,
                   client, msock, s, threads, bpc, peers>>

PublishAdd ==
    /\ mpc = "publish"
    /\ Publish(Main, client, s.service, "ADD", accepted)
    /\ mpc' = "create"
    /\ UNCHANGED <<mutex, table, fd, accepted, client, msock, s, threads, bpc, peers>>

CreateThread ==
    /\ mpc = "create"
    /\ pc' = [pc EXCEPT ![accepted] = "start"]
    /\ arg' = [arg EXCEPT ![accepted] =
                  [service |-> s.service, index |-> current_vms[s.service] - 1]]
    /\ mpc' = "accept"
    /\ UNCHANGED <<shared, table, fd, accepted, client, msock, s, vm, bpc, peers>>

\* Both mutexes are unlocked, manage_vm_mutex even when main does not hold it.
CreateThreadFails ==
    /\ mpc = "create"
    /\ "thread" \in Faults
    /\ mutex' = NoOne
    /\ manage_vm_mutex' = NoOne
    /\ mpc' = "accept"
    /\ UNCHANGED <<state_man_vm, virt_machine, table, fd, accepted, client, msock,
                   s, threads, bpc, peers>>

-----------------------------------------------------------------------------
(* A communication_thread.                                                 *)

\* Copies the slot it was given and unlocks the mutex main locked.  A thread
\* whose copy is not ACTIVE loops without a system call for ever.
Start(c) ==
    /\ pc[c] = "start"
    /\ vm' = [vm EXCEPT ![c] = vm_data_set[arg[c].service][arg[c].index]]
    /\ mutex' = NoOne
    /\ pc' = [pc EXCEPT ![c] = IF vm'[c].state = "ACTIVE" THEN "recv" ELSE "spin"]
    /\ UNCHANGED <<manage_vm_mutex, state_man_vm, virt_machine, table, fd, main,
                   arg, bpc, peers>>

\* A data point arrives on the descriptor, whichever connection is open on it.
\* The machine is either about to fail ("switch") or not ("continue").
RecvFeatures(c) ==
    /\ pc[c] = "recv"
    /\ fd[vm[c].socket] # NoOne
    /\ fd[vm[c].socket] \notin told
    /\ \E next \in {"switch", "continue"} : pc' = [pc EXCEPT ![c] = next]
    /\ UNCHANGED <<shared, table, fd, main, arg, vm, bpc, peers>>

\* Timeout, error or shutdown.
RecvFails(c) ==
    /\ pc[c] = "recv"
    /\ pc' = [pc EXCEPT ![c] = "pubdelete"]
    /\ UNCHANGED <<shared, table, fd, main, arg, vm, bpc, peers>>

SendContinue(c) ==
    /\ pc[c] = "continue"
    /\ fd[vm[c].socket] # NoOne
    /\ pc' = [pc EXCEPT ![c] = "recv"]
    /\ UNCHANGED <<shared, table, fd, main, arg, vm, bpc, peers>>

\* Mutant: the error branch closes the descriptor, which is closed again later.
SendContinueFailsAndCloses(c) ==
    /\ pc[c] = "continue"
    /\ pc' = [pc EXCEPT ![c] = "pubdelete"]
    /\ fd' = Closed(vm[c].socket)
    /\ UNCHANGED <<shared, table, main, arg, vm, bpc, peers>>

SendContinueFails(c) ==
    /\ pc[c] = "continue"
    /\ pc' = [pc EXCEPT ![c] = "pubdelete"]
    /\ UNCHANGED <<shared, table, fd, main, arg, vm, bpc, peers>>

\* switch_active_machine: promotes the first machine in stand-by of the group,
\* in the table only.  REJUVENATING is written to a by-value parameter.
SwitchActive(c) ==
    /\ pc[c] = "switch"
    /\ mutex = NoOne
    /\ LET g == vm[c].service
       IN  \/ \E i \in Used(g) :
                 /\ FirstStandBy(g, i)
                 /\ vm_data_set' = [vm_data_set EXCEPT ![g][i].state = "ACTIVE"]
           \/ /\ \A i \in Used(g) : vm_data_set[g][i].state # "STAND_BY"
              /\ UNCHANGED vm_data_set
    /\ pc' = [pc EXCEPT ![c] = "rejuvenate"]
    /\ UNCHANGED <<shared, current_vms, allocated_vms, fd, main, arg, vm, bpc, peers>>

SendRejuvenate(c) ==
    /\ pc[c] = "rejuvenate"
    /\ fd[vm[c].socket] # NoOne
    /\ told' = told \union {fd[vm[c].socket]}
    /\ pc' = [pc EXCEPT ![c] = "pubrej"]
    /\ UNCHANGED <<shared, table, fd, main, arg, vm, bpc, lb, feed>>

SendRejuvenateFails(c) ==
    /\ pc[c] = "rejuvenate"
    /\ "send" \in Faults \/ fd[vm[c].socket] = NoOne
    /\ pc' = [pc EXCEPT ![c] = "swdrop"]
    /\ UNCHANGED <<shared, table, fd, main, arg, vm, bpc, peers>>

\* The two statements switch_active_machine runs after a failed send; it then
\* returns as usual.
DropInSwitch(c) ==
    /\ pc[c] = "swdrop"
    /\ RemoveVm(vm[c])
    /\ pc' = [pc EXCEPT ![c] = "swclose"]
    /\ UNCHANGED <<manage_vm_mutex, state_man_vm, virt_machine, fd, main, arg, vm,
                   bpc, peers>>

CloseInSwitch(c) ==
    /\ pc[c] = "swclose"
    /\ fd' = Closed(vm[c].socket)
    /\ pc' = [pc EXCEPT ![c] = "pubrej"]
    /\ UNCHANGED <<shared, table, main, arg, vm, bpc, peers>>

PublishRej(c) ==
    /\ pc[c] = "pubrej"
    /\ Publish(c, vm[c].ip_address, vm[c].service, "REJ", c)
    /\ pc' = [pc EXCEPT ![c] = "recv"]
    /\ UNCHANGED <<mutex, table, fd, main, arg, vm, bpc, peers>>

\* What follows the loop: DELETE to the load balancer, removal, close.
PublishDelete(c) ==
    /\ pc[c] = "pubdelete"
    /\ Publish(c, vm[c].ip_address, vm[c].service, "DELETE", c)
    /\ pc' = [pc EXCEPT ![c] = "drop"]
    /\ UNCHANGED <<mutex, table, fd, main, arg, vm, bpc, peers>>

Drop(c) ==
    /\ pc[c] = "drop"
    /\ RemoveVm(vm[c])
    /\ pc' = [pc EXCEPT ![c] = "close"]
    /\ UNCHANGED <<manage_vm_mutex, state_man_vm, virt_machine, fd, main, arg, vm,
                   bpc, peers>>

Close(c) ==
    /\ pc[c] = "close"
    /\ fd' = Closed(vm[c].socket)
    /\ pc' = [pc EXCEPT ![c] = "done"]
    /\ UNCHANGED <<shared, table, main, arg, vm, bpc, peers>>

-----------------------------------------------------------------------------
(* The balancer_thread.                                                    *)

\* send() of the mailbox; a failure is reported on the console only.
SendMailbox ==
    /\ bpc = "poll"
    /\ state_man_vm = 1
    /\ \/ /\ lb' = [lb EXCEPT ![virt_machine.conn] = virt_machine.op]
          /\ feed' = [feed EXCEPT ![virt_machine.service][virt_machine.ip] = virt_machine.op]
       \/ "lb" \in Faults /\ UNCHANGED <<lb, feed>>
    /\ bpc' = "clear"
    /\ UNCHANGED <<shared, table, fd, main, threads, told>>

\* Mutant: the balancer_thread sends inside a section protected by mutex.
BalancerSendLocked == mutex = NoOne /\ SendMailbox

BalancerSend == SendMailbox

BalancerClear ==
    /\ bpc = "clear"
    /\ state_man_vm' = 0
    /\ bpc' = "unlock"
    /\ UNCHANGED <<mutex, manage_vm_mutex, virt_machine, table, fd, main, threads, peers>>

\* Mutant: manage_vm_mutex is left locked.
BalancerForgetsUnlock ==
    /\ bpc = "unlock"
    /\ bpc' = "poll"
    /\ UNCHANGED <<shared, table, fd, main, threads, peers>>

BalancerUnlock ==
    /\ bpc = "unlock"
    /\ manage_vm_mutex' = NoOne
    /\ bpc' = "poll"
    /\ UNCHANGED <<mutex, state_man_vm, virt_machine, table, fd, main, threads, peers>>

-----------------------------------------------------------------------------
MainStep == \/ \E ip \in IP : Accept(ip)
            \/ RecvInfo \/ RecvInfoFails
            \/ Reply \/ RecvAgain \/ RecvAgainFails
            \/ Insert \/ PublishAdd \/ CreateThread \/ CreateThreadFails

ThreadStep(c) == \/ Start(c) \/ RecvFeatures(c) \/ RecvFails(c)
                 \/ SendContinue(c) \/ SendContinueFails(c)
                 \/ SwitchActive(c) \/ SendRejuvenate(c) \/ SendRejuvenateFails(c)
                 \/ DropInSwitch(c) \/ CloseInSwitch(c) \/ PublishRej(c)
                 \/ PublishDelete(c) \/ Drop(c) \/ Close(c)

BalancerStep == BalancerSend \/ BalancerClear \/ BalancerUnlock

Next == MainStep \/ (\E c \in Conn : ThreadStep(c)) \/ BalancerStep

Spec == Init /\ [][Next]_vars

(***************************************************************************)
(* Every thread that can run eventually does; recv() and send() return, by  *)
(* SO_RCVTIMEO and SO_SNDTIMEO at the latest.  Nothing makes a connection   *)
(* arrive.  Waiting for a mutex needs no strong fairness: a machine that    *)
(* was told to rejuvenate sends nothing more, so a thread is overtaken      *)
(* finitely often.                                                          *)
(***************************************************************************)
Fairness == /\ WF_vars(mpc # "accept" /\ MainStep)
            /\ \A c \in Conn : WF_vars(ThreadStep(c))
            /\ WF_vars(BalancerStep)

FairSpec == Spec /\ Fairness
-----------------------------------------------------------------------------
(* Properties.                                                             *)

MainPc == {"accept", "info", "reply", "again", "insert", "publish", "create"}
ThreadPc == {"none", "start", "spin", "recv", "continue", "switch", "rejuvenate",
             "swdrop", "swclose", "pubrej", "pubdelete", "drop", "close", "done"}

\* Every variable has its type; a group's slots are numbered from 0 to
\* allocated_vms - 1.
TypeOK ==
    /\ mutex \in {NoOne, Main}
    /\ manage_vm_mutex \in 0 .. Main
    /\ state_man_vm \in {0, 1}
    /\ virt_machine \in [ip : IP \union {NoIP}, service : Group, op : Operation,
                         conn : Conn \union {NoOne}]
    /\ current_vms \in [Group -> Nat]
    /\ allocated_vms \in [Group -> Nat \ {0}]
    /\ DOMAIN vm_data_set = Group
    /\ \A g \in Group : vm_data_set[g] \in
                            [0 .. (allocated_vms[g] - 1) -> Entry \union {Uninit}]
    /\ fd \in [Fd -> Conn \union {NoOne}]
    /\ accepted \in 0 .. MaxConn
    /\ mpc \in MainPc
    /\ client \in IP \union {NoIP}
    /\ msock \in Fd \union {NoOne}
    /\ s \in [service : Service, state : VmState]
    /\ pc \in [Conn -> ThreadPc]
    /\ arg \in [Conn -> [service : Group, index : Nat]]
    /\ vm \in [Conn -> Entry \union {Uninit}]
    /\ bpc \in {"poll", "clear", "unlock"}
    /\ told \subseteq Conn
    /\ lb \in [Conn -> Operation \union {"none"}]
    /\ feed \in [Group -> [IP -> Operation]]

\* The promise of manage_disconnected_vms and of the declaration of
\* allocated_vms: the machines of a group fill the slots 0 .. current_vms - 1
\* without a gap, within what is allocated, and no connection fills two slots.
TableCompact ==
    \A g \in Group :
        /\ current_vms[g] <= allocated_vms[g]
        /\ \A i \in Used(g) : /\ vm_data_set[g][i] \in Entry
                              /\ vm_data_set[g][i].service = g
        /\ \A i, j \in Used(g) :
              vm_data_set[g][i].port = vm_data_set[g][j].port => i = j

\* The mutex that accept_new_client locks and communication_thread unlocks
\* really is handed over: until the new thread has copied its slot, no removal
\* moves another machine into that slot and no second thread is started.
HandOver ==
    /\ mpc \in {"publish", "create"} => /\ mutex = Main
                                        /\ \A c \in Conn : pc[c] # "start"
    /\ \A c \in Conn : pc[c] = "start" =>
          /\ mutex = Main
          /\ arg[c].index \in Used(arg[c].service)
          /\ vm_data_set[arg[c].service][arg[c].index].port = c
          /\ \A d \in Conn : pc[d] = "start" => d = c

\* Threads that stand for a connected machine; they run until they have
\* removed their entry.
Serving(c) == pc[c] \in {"start", "spin", "recv", "continue", "switch",
                         "rejuvenate", "pubrej", "pubdelete", "drop"}

\* While no machine reconnects too early and no send fails: the table holds
\* exactly the machines that a thread serves, plus the one main is about to
\* start a thread for, and a thread's copy names its own connection.
RegistryExact ==
    /\ \A g \in Group : \A i \in Used(g) :
          LET c == vm_data_set[g][i].port
          IN  Serving(c) \/ (c = accepted /\ mpc \in {"publish", "create"})
    /\ \A c \in Conn : Serving(c) =>
          /\ \E g \in Group : \E i \in Used(g) : vm_data_set[g][i].port = c
          /\ pc[c] # "start" => vm[c].port = c

\* Threads that will still use the descriptor in their copy.
UsesSocket(c) == pc[c] \in {"spin", "recv", "continue", "switch", "rejuvenate",
                            "swdrop", "swclose", "pubrej", "pubdelete", "drop",
                            "close"}

\* While no send fails: the descriptor a communication_thread reads, writes and
\* finally closes is still its own connection, never one accept() reused.
OwnSocket == \A c \in Conn : UsesSocket(c) => fd[vm[c].socket] = c

\* A notification is never overwritten before the balancer_thread is done with
\* it: between the publication and the unlock the mailbox does not change.
MailboxStable ==
    [][state_man_vm = 1 \/ bpc # "poll" => virt_machine' = virt_machine]_vars

LoadBalancerFeed == INSTANCE Feed WITH feed <- feed

\* While no send fails, no thread is missing and no machine reconnects too
\* early, the load balancer can tell machines apart by their address, as its
\* delete_vm does: the controller implements Feed, although the notifications of
\* one machine come from main and from the threads of all its connections.
KeepsFeed == LoadBalancerFeed!Spec

\* What a thread works on: its copy or, until it has made it, the slot it was
\* given.
Record(c) == IF pc[c] = "start" THEN vm_data_set[arg[c].service][arg[c].index]
                                ELSE vm[c]

\* The thread of a machine that joined in stand-by never leaves its loop
\* (server.c:214), so that nobody closes the descriptor, not even when the
\* machine has gone.
KeptInStandBy(f) == pc[fd[f]] \in {"start", "spin"} /\ Record(fd[f]).state = "STAND_BY"

\* The stand-by loop is the only place where a descriptor is lost: any other
\* open one is the one main is handling, or the one in the record of a thread
\* whose machine is ACTIVE and which has its close() still ahead of it.
NoDescriptorLeak ==
    \A f \in Fd : fd[f] # NoOne /\ ~KeptInStandBy(f) =>
        \/ fd[f] = accepted /\ mpc # "accept" /\ msock = f
        \/ /\ pc[fd[f]] \notin {"none", "spin", "done"}
           /\ Record(fd[f]).state = "ACTIVE"
           /\ Record(fd[f]).socket = f

\* main always returns to accept(), unless a machine insists on a service that
\* does not exist, or has left after asking for one: neither a mutex nor the
\* mailbox nor a silent machine can hold it.
MainReturns ==
    \/ []<>(mpc = "accept")
    \/ <>[](mpc \in {"reply", "again"} /\ s.service = NUMBER_GROUPS)

\* A thread that leaves its loop removes its machine, closes the connection
\* and the load balancer is told.
DepartureCompletes ==
    \A c \in Conn : pc[c] = "pubdelete" ~> pc[c] = "done" /\ lb[c] = "DELETE"

\* An ACTIVE machine that was inserted in the table is announced.
ArrivalAnnounced ==
    \A c \in Conn : mpc = "publish" /\ accepted = c ~> lb[c] # "none"

-----------------------------------------------------------------------------
(* The inductive invariants behind TypeOK, TableCompact and HandOver.       *)

\* What main's local variables hold, by where main is.
MainInv ==
    /\ mpc # "accept" => msock \in Fd /\ client \in IP /\ accepted \in Conn
    /\ mpc \in {"insert", "publish", "create"} => s.service \in Group

\* Ports in the table are those of connections accepted before; the connection
\* in the handshake is not among them, and the one whose thread main is about
\* to start is the last of its group.
PortsInv ==
    /\ \A g \in Group : \A i \in Used(g) :
          /\ vm_data_set[g][i].port <= accepted
          /\ mpc \in {"info", "reply", "again", "insert"} =>
                vm_data_set[g][i].port # accepted
    /\ mpc \in {"publish", "create"} =>
          /\ current_vms[s.service] > 0
          /\ vm_data_set[s.service][current_vms[s.service] - 1].port = accepted

\* A thread past its start works on a copy of a real entry, its own.
CopyInv == \A c \in Conn : pc[c] \notin {"none", "start"} =>
               vm[c] \in Entry /\ vm[c].port = c

ControllerInv == /\ TypeOK
                 /\ TableCompact
                 /\ HandOver
                 /\ MainInv
                 /\ PortsInv
                 /\ CopyInv

\* As long as the mailbox is in use, manage_vm_mutex is locked.
MailboxInv == /\ state_man_vm = 1 \/ bpc # "poll" => manage_vm_mutex # NoOne
              /\ bpc = "clear" => state_man_vm = 1
              /\ bpc = "unlock" => state_man_vm = 0

-----------------------------------------------------------------------------
(* What comments of server.c say and the code does not do.                 *)

\* "this is exactly the struct stored in the system matrix": the state a thread
\* acts on is the state its machine has in the table.
CopyIsTheEntry ==
    \A c \in Conn : Serving(c) /\ pc[c] # "start" =>
        \A g \in Group : \A i \in Used(g) :
            vm_data_set[g][i].port = c => vm_data_set[g][i].state = vm[c].state

\* "The duties of this thread are ONLY to listen for messages from a connected
\* VM": a thread never receives from another machine's connection.
ListensToItsOwnVm ==
    [][\A c \in Conn : RecvFeatures(c) => fd[vm[c].socket] = c]_vars
=============================================================================
