------------------------------- MODULE Leader -------------------------------
(***************************************************************************)
(* The election of a leader among the controllers: leader.c on top of      *)
(* broadcast.c.  Every controller runs two threads that share their state  *)
(* without a lock.  leader_loop suspects the leader, opens a round of       *)
(* proposals and closes it; broadcast_loop sends the one pending message   *)
(* when a select of 5 s times out, and runs the callback of every datagram *)
(* it receives.  A controller is named by its address: the number it       *)
(* proposes, and the key under which its socket is found.                  *)
(***************************************************************************)
EXTENDS Integers, FiniteSets, FiniteSetsExt

CONSTANTS
    N,             \* the lines of the list of controllers, the same at each
    Running,       \* the controllers whose two threads are modelled; the
                   \* others are seen through the proposals they may send
    MaxProposals,  \* the slots of leader_proposals that the model keeps
    Faults         \* subset of {"loss", "race", "noeth0"}

ASSUME NAssumption == N \in Nat \ {0}
ASSUME RunningAssumption == Running \subseteq 1..N
ASSUME MaxProposalsAssumption == MaxProposals \in Nat \ {0}
ASSUME FaultsAssumption == Faults \subseteq {"loss", "race", "noeth0"}

Controllers == 1..N
NoSocket == -1     \* leader_socket when there is no leader
Unwritten == 0     \* what a static array holds before its first write
Slots == 0..(MaxProposals - 1)
Types == {"propose", "heartbeat"}
Storing == {"read", "both", "value", "count"}  \* leader_propose between stores

VARIABLES
    leader_socket, am_i_leader, agreement_running,
    leader_proposals, leader_proposals_sockets, last_proposal,
    heartbeatOld,        \* heartbeat is older than LEADER_SUSPECT_THRESHOLD
    proposeOld,          \* the round is older than LEADER_PROPOSE_THRESHOLD
    leaderPc,            \* where leader_loop is
    msg_temp, new_bcast_message,    \* the one message to broadcast
    loopPc,              \* where broadcast_loop is
    my_new_bcast_message,           \* its copy of the flag
    index,               \* do_bcast: the next controller to write to
    msg,                 \* the datagram whose callback is running
    counted,             \* last_proposal as leader_propose has read it
    net,                 \* the datagrams in flight
    heard,               \* history: who was counted since the round was opened
    torn,                \* history: the round was opened while leader_propose
                         \* was between two of its stores
    sent,                \* history of the flagged message: whom do_bcast has
                         \* sent it to since broadcast() stored it
    overtaken            \* and whether do_bcast was running when it was stored

electionVars == <<leader_socket, am_i_leader, agreement_running>>
proposalVars == <<leader_proposals, leader_proposals_sockets, last_proposal,
                  counted, heard, torn>>
timerVars == <<heartbeatOld, proposeOld>>
slotVars == <<msg_temp, new_bcast_message, sent, overtaken>>
loopVars == <<loopPc, my_new_bcast_message, index, msg>>
vars == <<electionVars, proposalVars, timerVars, slotVars, loopVars,
          leaderPc, net>>

NoMessage == [type |-> "none", src |-> Unwritten, dst |-> Unwritten]
Datagram == [type : Types, src : Controllers, dst : Running]

Init ==
    /\ leader_socket = [n \in Running |-> NoSocket]
    /\ am_i_leader = [n \in Running |-> FALSE]
    /\ agreement_running = [n \in Running |-> FALSE]
    /\ leader_proposals = [n \in Running |-> [i \in Slots |-> Unwritten]]
    /\ leader_proposals_sockets = leader_proposals
    /\ last_proposal = [n \in Running |-> 0]
    /\ heartbeatOld = [n \in Running |-> FALSE]
    /\ proposeOld = [n \in Running |-> FALSE]
    /\ leaderPc = [n \in Running |-> "sleep"]
    /\ msg_temp = [n \in Running |-> "none"]
    /\ new_bcast_message = [n \in Running |-> FALSE]
    /\ loopPc = [n \in Running |-> "top"]
    /\ my_new_bcast_message = [n \in Running |-> FALSE]
    /\ index = [n \in Running |-> 1]
    /\ msg = [n \in Running |-> NoMessage]
    /\ counted = [n \in Running |-> 0]
    /\ net = {}
    /\ heard = [n \in Running |-> {}]
    /\ torn = [n \in Running |-> FALSE]
    /\ sent = [n \in Running |-> {}]
    /\ overtaken = [n \in Running |-> FALSE]

(***************************************************************************)
(* leader_loop.                                                            *)
(***************************************************************************)
LeaderStep(n, from, to) ==
    /\ leaderPc[n] = from
    /\ leaderPc' = [leaderPc EXCEPT ![n] = to]

(* Mutant: suspect_leader that opens an election although the leader is kept. *)
SuspectAlways(n) ==
    /\ LeaderStep(n, "sleep", "elect")
    /\ UNCHANGED <<electionVars, proposalVars, timerVars, slotVars, loopVars, net>>

(* suspect_leader, after the sleep, and the test that follows it. *)
Suspect(n) ==
    LET gone == heartbeatOld[n]
        none == gone \/ leader_socket[n] = NoSocket
    IN  /\ LeaderStep(n, "sleep", IF none THEN "elect" ELSE "beat")
        /\ leader_socket' = [leader_socket EXCEPT ![n] = IF gone THEN NoSocket ELSE @]
        /\ am_i_leader' = [am_i_leader EXCEPT ![n] = @ /\ ~gone]
        /\ UNCHANGED <<agreement_running, proposalVars, timerVars, slotVars,
                       loopVars, net>>

(* Mutant: a round opened over the proposals of the round before. *)
StartRoundKeepsProposals(n) ==
    /\ ~agreement_running[n]
    /\ LeaderStep(n, "elect", "propose")
    /\ agreement_running' = [agreement_running EXCEPT ![n] = TRUE]
    /\ heard' = [heard EXCEPT ![n] = {}]
    /\ torn' = [torn EXCEPT ![n] = loopPc[n] \in Storing]
    /\ proposeOld' = [proposeOld EXCEPT ![n] = FALSE]
    /\ UNCHANGED <<leader_socket, am_i_leader, leader_proposals, last_proposal,
                   counted, leader_proposals_sockets, heartbeatOld, slotVars,
                   loopVars, net>>

(* do_leader_election with no round open: the proposals are forgotten and *)
(* the period starts.                                                      *)
StartRound(n) ==
    /\ ~agreement_running[n]
    /\ LeaderStep(n, "elect", "propose")
    /\ agreement_running' = [agreement_running EXCEPT ![n] = TRUE]
    /\ last_proposal' = [last_proposal EXCEPT ![n] = 0]
    /\ heard' = [heard EXCEPT ![n] = {}]
    /\ torn' = [torn EXCEPT ![n] = loopPc[n] \in Storing]
    /\ proposeOld' = [proposeOld EXCEPT ![n] = FALSE]
    /\ UNCHANGED <<leader_socket, am_i_leader, leader_proposals, counted,
                   leader_proposals_sockets, heartbeatOld, slotVars, loopVars, net>>

(* broadcast: the one slot is overwritten and flagged. *)
Broadcast(n, type) ==
    /\ msg_temp' = [msg_temp EXCEPT ![n] = type]
    /\ new_bcast_message' = [new_bcast_message EXCEPT ![n] = TRUE]
    /\ sent' = [sent EXCEPT ![n] = {}]
    /\ overtaken' = [overtaken EXCEPT ![n] = loopPc[n] = "bcast"]

ProposeSelf(n) ==
    /\ LeaderStep(n, "propose", "beat")
    /\ Broadcast(n, "propose")
    /\ UNCHANGED <<electionVars, proposalVars, timerVars, loopVars, net>>

(* No interface is named eth0: the round goes on without a proposal. *)
NoOwnAddress(n) ==
    /\ "noeth0" \in Faults
    /\ LeaderStep(n, "propose", "beat")
    /\ UNCHANGED <<electionVars, proposalVars, timerVars, slotVars, loopVars, net>>

(* Mutant: "all the controllers have proposed and [...] propose period is *)
(* expired" (leader.c:45), taken by its words.                            *)
TooEarlyWithoutAll(n) == last_proposal[n] < N \/ ~proposeOld[n]

(* do_agreement_reduction returns at once: either condition lets it go on. *)
TooEarly(n) == last_proposal[n] < N /\ ~proposeOld[n]

KeepWaiting(n) ==
    /\ agreement_running[n]
    /\ TooEarly(n)
    /\ LeaderStep(n, "elect", "beat")
    /\ UNCHANGED <<electionVars, proposalVars, timerVars, slotVars, loopVars, net>>

(* The socket of the first greatest proposal, none if no value exceeds 0. *)
Greatest(n) ==
    LET used == {i \in 0..(last_proposal[n] - 1) : leader_proposals[n][i] > 0}
        best == {i \in used : \A j \in used :
                    leader_proposals[n][j] <= leader_proposals[n][i]}
    IN  IF used = {} THEN NoSocket ELSE leader_proposals_sockets[n][Min(best)]

(* do_agreement_reduction decides, or fails for want of proposals. *)
Reduce(n) ==
    /\ agreement_running[n]
    /\ ~TooEarly(n)
    /\ LeaderStep(n, "elect", "beat")
    /\ agreement_running' = [agreement_running EXCEPT ![n] = FALSE]
    /\ leader_socket' = [leader_socket EXCEPT ![n] = Greatest(n)]
    /\ UNCHANGED <<am_i_leader, proposalVars, timerVars, slotVars, loopVars, net>>

(* The end of an iteration: only a leader broadcasts a heartbeat. *)
Beat(n) ==
    /\ LeaderStep(n, "beat", "sleep")
    /\ IF am_i_leader[n] THEN Broadcast(n, "heartbeat") ELSE UNCHANGED slotVars
    /\ UNCHANGED <<electionVars, proposalVars, timerVars, loopVars, net>>

(***************************************************************************)
(* broadcast_loop.                                                         *)
(***************************************************************************)
LoopStep(n, from, to) ==
    /\ loopPc[n] = from
    /\ loopPc' = [loopPc EXCEPT ![n] = to]

(* Mutant: the flag is lowered where it is copied, before the select. *)
CopyFlagLowers(n) ==
    /\ LoopStep(n, "top", "select")
    /\ my_new_bcast_message' = [my_new_bcast_message EXCEPT ![n] = new_bcast_message[n]]
    /\ new_bcast_message' = [new_bcast_message EXCEPT ![n] = FALSE]
    /\ UNCHANGED <<electionVars, proposalVars, timerVars, msg_temp, sent, overtaken,
                   leaderPc, index, msg, net>>

(* The flag is copied before the select. *)
CopyFlag(n) ==
    /\ LoopStep(n, "top", "select")
    /\ my_new_bcast_message' = [my_new_bcast_message EXCEPT ![n] = new_bcast_message[n]]
    /\ UNCHANGED <<electionVars, proposalVars, timerVars, slotVars, leaderPc,
                   index, msg, net>>

(* 5 s without a datagram: the pending message is broadcast. *)
SelectTimeout(n) ==
    /\ LoopStep(n, "select", IF my_new_bcast_message[n] THEN "bcast" ELSE "top")
    /\ UNCHANGED <<electionVars, proposalVars, timerVars, slotVars, leaderPc,
                   my_new_bcast_message, index, msg, net>>

(* do_bcast: msg_temp, as it is now, to the next controller of the list.   *)
(* Nothing is kept of what a controller outside the model receives.        *)
DoBcast(n) ==
    /\ index[n] <= N
    /\ LoopStep(n, "bcast", "bcast")
    /\ net' = net \cup
           {[type |-> msg_temp[n], src |-> n, dst |-> m] : m \in {index[n]} \cap Running}
    /\ sent' = [sent EXCEPT ![n] = @ \cup {index[n]}]
    /\ index' = [index EXCEPT ![n] = @ + 1]
    /\ UNCHANGED <<electionVars, proposalVars, timerVars, msg_temp, new_bcast_message,
                   overtaken, leaderPc, my_new_bcast_message, msg>>

(* The flag is lowered, whatever broadcast() has stored meanwhile, and the *)
(* history of the message ends.                                            *)
LowerFlag(n) ==
    /\ LoopStep(n, "bcast", "top")
    /\ new_bcast_message' = [new_bcast_message EXCEPT ![n] = FALSE]
    /\ sent' = [sent EXCEPT ![n] = {}]
    /\ overtaken' = [overtaken EXCEPT ![n] = FALSE]
    /\ index' = [index EXCEPT ![n] = 1]
    /\ UNCHANGED <<electionVars, proposalVars, timerVars, msg_temp, leaderPc,
                   my_new_bcast_message, msg, net>>

(* Mutant: the loop leaves out the last controller of the list. *)
DoBcastEndsEarly(n) ==
    /\ index[n] >= N
    /\ LowerFlag(n)

DoBcastEnds(n) ==
    /\ index[n] > N
    /\ LowerFlag(n)

(* The connection whose address is the sender's. *)
SocketOf(d) == d.src

(* leader_propose: the socket, the value and the count are stored.  The    *)
(* model drops a datagram its slots have no room for.                      *)
LeaderPropose(n, d) ==
    LET i == last_proposal[n] IN
    /\ i < MaxProposals
    /\ leader_proposals_sockets' = [leader_proposals_sockets EXCEPT ![n][i] = SocketOf(d)]
    /\ leader_proposals' = [leader_proposals EXCEPT ![n][i] = d.src]
    /\ last_proposal' = [last_proposal EXCEPT ![n] = i + 1]
    /\ heard' = [heard EXCEPT ![n] = @ \cup {d.src}]
    /\ UNCHANGED <<counted, torn>>

(* recvfrom and call_function, with nothing of leader_loop in between. *)
Receive(n, d) ==
    /\ d \in net /\ d.dst = n
    /\ LoopStep(n, "select", "top")
    /\ net' = net \ {d}
    /\ IF d.type = "propose"
       THEN LeaderPropose(n, d) /\ UNCHANGED heartbeatOld
       ELSE /\ heartbeatOld' = [heartbeatOld EXCEPT ![n] = FALSE]
            /\ UNCHANGED proposalVars
    /\ UNCHANGED <<electionVars, proposeOld, slotVars, leaderPc,
                   my_new_bcast_message, index, msg>>

(* leader_propose store by store: the other thread may read or reset      *)
(* last_proposal between any two of them.  First the socket.               *)
ProposeSocket(n, d) ==
    /\ "race" \in Faults
    /\ d \in net /\ d.dst = n /\ d.type = "propose"
    /\ last_proposal[n] < MaxProposals
    /\ LoopStep(n, "select", "read")
    /\ net' = net \ {d}
    /\ leader_proposals_sockets' =
           [leader_proposals_sockets EXCEPT ![n][last_proposal[n]] = SocketOf(d)]
    /\ msg' = [msg EXCEPT ![n] = d]
    /\ UNCHANGED <<electionVars, leader_proposals, last_proposal, counted, heard,
                   torn, timerVars, slotVars, leaderPc, my_new_bcast_message, index>>

(* leader_proposals[last_proposal++] = content reads the count, ... *)
ProposeRead(n) ==
    /\ LoopStep(n, "read", "both")
    /\ counted' = [counted EXCEPT ![n] = last_proposal[n]]
    /\ UNCHANGED <<electionVars, leader_proposals, leader_proposals_sockets,
                   last_proposal, heard, torn, timerVars, slotVars, leaderPc,
                   my_new_bcast_message, index, msg, net>>

(* ... and stores the value and the new count, in an order that C leaves   *)
(* open: "both" are left, or only the "value", or only the "count".        *)
Store(n, from, to) ==
    /\ LoopStep(n, from, to)
    /\ IF to = "top"
       THEN /\ msg' = [msg EXCEPT ![n] = NoMessage]
            /\ counted' = [counted EXCEPT ![n] = 0]
       ELSE UNCHANGED <<msg, counted>>
    /\ UNCHANGED <<electionVars, leader_proposals_sockets, torn, timerVars, slotVars,
                   leaderPc, my_new_bcast_message, index, net>>

ProposeValue(n) ==
    /\ Store(n, "both", "count") \/ Store(n, "value", "top")
    /\ leader_proposals' = [leader_proposals EXCEPT ![n][counted[n]] = msg[n].src]
    /\ UNCHANGED <<last_proposal, heard>>

ProposeCount(n) ==
    /\ Store(n, "both", "value") \/ Store(n, "count", "top")
    /\ last_proposal' = [last_proposal EXCEPT ![n] = counted[n] + 1]
    /\ heard' = [heard EXCEPT ![n] = @ \cup {msg[n].src}]
    /\ UNCHANGED leader_proposals

(***************************************************************************)
(* Time and the network.                                                   *)
(***************************************************************************)
HeartbeatAges(n) ==
    /\ ~heartbeatOld[n]
    /\ heartbeatOld' = [heartbeatOld EXCEPT ![n] = TRUE]
    /\ UNCHANGED <<electionVars, proposalVars, proposeOld, slotVars, loopVars,
                   leaderPc, net>>

ProposeAges(n) ==
    /\ agreement_running[n] /\ ~proposeOld[n]
    /\ proposeOld' = [proposeOld EXCEPT ![n] = TRUE]
    /\ UNCHANGED <<electionVars, proposalVars, heartbeatOld, slotVars, loopVars,
                   leaderPc, net>>

(* A controller outside the model proposes itself: once, again, or never. *)
OtherProposes(m, n) ==
    /\ net' = net \cup {[type |-> "propose", src |-> m, dst |-> n]}
    /\ UNCHANGED <<electionVars, proposalVars, timerVars, slotVars, loopVars,
                   leaderPc>>

Lose(d) ==
    /\ "loss" \in Faults
    /\ d \in net
    /\ net' = net \ {d}
    /\ UNCHANGED <<electionVars, proposalVars, timerVars, slotVars, loopVars,
                   leaderPc>>

LeaderLoop(n) ==
    \/ Suspect(n) \/ StartRound(n) \/ ProposeSelf(n) \/ NoOwnAddress(n)
    \/ KeepWaiting(n) \/ Reduce(n) \/ Beat(n)

BroadcastLoop(n) ==
    \/ CopyFlag(n) \/ SelectTimeout(n) \/ DoBcast(n) \/ DoBcastEnds(n)
    \/ \E d \in net : Receive(n, d) \/ ProposeSocket(n, d)
    \/ ProposeRead(n) \/ ProposeValue(n) \/ ProposeCount(n)

Next ==
    \/ \E n \in Running :
          LeaderLoop(n) \/ BroadcastLoop(n) \/ HeartbeatAges(n) \/ ProposeAges(n)
    \/ \E m \in Controllers \ Running, n \in Running : OtherProposes(m, n)
    \/ \E d \in net : Lose(d)

Spec == Init /\ [][Next]_vars

(* The threads keep running and the clock advances; nothing is promised of *)
(* a datagram.                                                             *)
FairSpec ==
    /\ Spec
    /\ \A n \in Running :
          /\ WF_vars(LeaderLoop(n))
          /\ WF_vars(BroadcastLoop(n))
          /\ WF_vars(HeartbeatAges(n))
          /\ WF_vars(ProposeAges(n))

(***************************************************************************)
(* Properties.                                                             *)
(***************************************************************************)
(* The state of the two threads: in particular a leader, once chosen, is   *)
(* the socket of a listed controller, never the never-written cell that    *)
(* broadcast.c:132 would pass for a sender it did not find.                *)
TypeOK ==
    /\ leader_socket \in [Running -> Controllers \cup {NoSocket}]
    /\ am_i_leader \in [Running -> BOOLEAN]
    /\ agreement_running \in [Running -> BOOLEAN]
    /\ leader_proposals \in [Running -> [Slots -> Controllers \cup {Unwritten}]]
    /\ leader_proposals_sockets \in [Running -> [Slots -> Controllers \cup {Unwritten}]]
    /\ last_proposal \in [Running -> 0..MaxProposals]
    /\ heartbeatOld \in [Running -> BOOLEAN]
    /\ proposeOld \in [Running -> BOOLEAN]
    /\ leaderPc \in [Running -> {"sleep", "elect", "propose", "beat"}]
    /\ msg_temp \in [Running -> Types \cup {"none"}]
    /\ new_bcast_message \in [Running -> BOOLEAN]
    /\ loopPc \in [Running -> {"top", "select", "bcast"} \cup Storing]
    /\ my_new_bcast_message \in [Running -> BOOLEAN]
    /\ index \in [Running -> 1..(N + 1)]
    /\ msg \in [Running -> Datagram \cup {NoMessage}]
    /\ counted \in [Running -> 0..MaxProposals]
    /\ net \subseteq Datagram
    /\ heard \in [Running -> SUBSET Controllers]
    /\ torn \in [Running -> BOOLEAN]
    /\ sent \in [Running -> SUBSET Controllers]
    /\ overtaken \in [Running -> BOOLEAN]

(* A round of proposals is open only while there is no leader: suspicion,  *)
(* opening and reduction, an iteration apart, keep the two in step.         *)
NoLeaderInARound ==
    \A n \in Running : agreement_running[n] => leader_socket[n] = NoSocket

Elects(n) ==
    leader_socket'[n] # leader_socket[n] /\ leader_socket'[n] # NoSocket

(* "for all the proposal, searches for the greatest one" (leader.c:49): the *)
(* controller elected is the greatest of those that proposed since the      *)
(* round was opened; a proposal of an earlier round has no say.  The two    *)
(* threads need no lock for this except in two places, and there it fails:  *)
(* a round opened while leader_propose is between its stores, and one       *)
(* reduced while the last proposal is counted and its value, in the order   *)
(* of stores that the compiler may choose, is not there yet.                *)
ElectsTheGreatest ==
    [][\A n \in Running :
          Elects(n) /\ ~torn[n] /\ loopPc[n] # "value" =>
              heard[n] # {} /\ leader_socket'[n] = Max(heard[n])]_vars

(* Every round ends, whatever datagrams are lost: do_agreement_reduction   *)
(* gives up waiting when the period has expired.                           *)
RoundEnds ==
    \A n \in Running : agreement_running[n] ~> ~agreement_running[n]

(* No datagram of a controller outside the model is under way. *)
Quiet == \A d \in net : d.src \in Running

(* A message stored while do_bcast is not running is eventually sent to     *)
(* every controller of the list, its own included, although it only goes    *)
(* out when select times out and any message before it is flagged by the    *)
(* same Boolean - provided that the others fall silent, for a steady stream *)
(* of their datagrams keeps select from ever timing out, and unless another *)
(* message is stored while it is being sent.                                *)
BroadcastSent ==
    <>[]Quiet => \A n \in Running :
        new_bcast_message[n] /\ ~overtaken[n] ~> sent[n] = Controllers \/ overtaken[n]

(* No message is forgotten in any other way: the flag is lowered only when  *)
(* the message that is stored has been sent to every controller, or was     *)
(* stored while do_bcast was sending (broadcast.c:67).                      *)
SentBeforeForgotten ==
    [][\A n \in Running : new_bcast_message[n] /\ ~new_bcast_message'[n] =>
          sent[n] = Controllers \/ overtaken[n]]_vars
=============================================================================
