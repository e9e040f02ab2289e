------------------------------ MODULE Session ------------------------------
(***************************************************************************)
(* One machine's agent (controller/client.c) and the controller's side of  *)
(* its connection: the handshake of accept_new_client and then the loop of *)
(* communication_thread (controller/server.c).  What the controller does   *)
(* with its table and mailbox meanwhile is in Controller.                  *)
(*                                                                         *)
(* TCP carries bytes, not messages.  The agent's struct vm_service is two  *)
(* units, its two fields; the controller's has a third, provided_port, so  *)
(* that it asks for three.  A message of BUFSIZE bytes is two units too, a *)
(* head with all that the receiver looks at and a rest of zeros or digits. *)
(* send() enters a message, and recv() returns what has arrived, at most   *)
(* what was asked for; neither side compares the number of bytes with what *)
(* it expects.                                                             *)
(***************************************************************************)
EXTENDS Naturals, Sequences

CONSTANTS NUMBER_GROUPS,
          SOCKBUF,   \* bound: units a connection holds in each direction
          Faults     \* see FaultKind

(***************************************************************************)
(* "split" a recv() or a send() moves a part of a message                  *)
(* "crash" the machine stops, or the agent's process is killed             *)
(***************************************************************************)
FaultKind == {"split", "crash"}

ASSUME SessionSizes == /\ NUMBER_GROUPS \in Nat \ {0}
                       /\ SOCKBUF \in Nat /\ SOCKBUF >= 2
ASSUME SessionFaults == Faults \subseteq FaultKind

Service == 0 .. NUMBER_GROUPS     \* NUMBER_GROUPS stands for every wrong value
NoService == NUMBER_GROUPS + 1

\* Heads of the controller's messages; "zeros" is the rest of each of them.
Answer == {"ok", "groups", "CONTINUE", "REJUVENATE"}

STAND_BY == 0
ACTIVE == 1

\* What travels up: the fields of a struct vm_service, the head and the rest of
\* a data point.
Info(g, st) == <<[kind |-> "service", value |-> g], [kind |-> "state", value |-> st]>>
Point == [kind |-> "point", value |-> NoService]
Digits == [kind |-> "digits", value |-> NoService]
Unit == [kind : {"service", "state"}, value : Service] \union {Point, Digits}

VARIABLES
    up, down,      \* units on their way to the controller, to the agent
    aopen, sopen,  \* FALSE once that side has closed its descriptor
    reset,         \* TRUE once a side was told that the other is closed
    apc,           \* where the agent is
    service,       \* its s.service
    state,         \* its s.state
    spc,           \* where the controller is
    sservice,      \* its s.service and s.state, a local variable that only
    sstate,        \* recv() writes
    registered,    \* the group it has put the machine in
    told,          \* REJUVENATE was sent (ghost)
    aligned,       \* every recv() and send() moved one whole message (ghost)
    crashed        \* the fault "crash" happened (ghost)

net == <<up, down, aopen, sopen, reset>>
agent == <<apc, service, state>>
controller == <<spc, sservice, sstate, registered>>
ghosts == <<told, aligned, crashed>>
vars == <<net, agent, controller, ghosts>>

Init == /\ up = <<>> /\ down = <<>>
        /\ aopen = TRUE /\ sopen = TRUE /\ reset = FALSE
        /\ apc = "connect"
        /\ service \in Service /\ state \in {STAND_BY, ACTIVE}
        /\ spc = "accept" /\ sservice = NoService /\ sstate \in Service
        /\ registered = NoService
        /\ told = FALSE /\ aligned = TRUE /\ crashed = FALSE

-----------------------------------------------------------------------------
(* The connection.                                                         *)

Rest(q, k) == SubSeq(q, k + 1, Len(q))

\* How many units recv() may return of what has arrived, at most max.
Returned(q, max) ==
    LET most == IF Len(q) < max THEN Len(q) ELSE max
    IN  IF "split" \in Faults THEN 1 .. most ELSE {most}

\* The first k units of up, of down, are one message.
WholeUp(k) == k = 2 /\ up[1].kind \in {"service", "point"}
WholeDown(k) == k = 2 /\ down[1] \in Answer

\* send() of m on a connection whose sender has not been told of a close.  The
\* data of a connection that the other side has closed is answered by a reset.
AgentSends(m) ==
    /\ aopen /\ ~reset
    /\ \/ /\ sopen /\ Len(up) + Len(m) <= SOCKBUF
          /\ up' = up \o m
          /\ UNCHANGED reset
       \/ ~sopen /\ reset' = TRUE /\ UNCHANGED up
    /\ UNCHANGED <<down, aopen, sopen>>

\* The controller's send() gives up after SO_SNDTIMEO; what has been entered by
\* then has been sent.
ControllerSends(m) ==
    /\ sopen /\ ~reset
    /\ \/ /\ aopen /\ Len(down) + Len(m) <= SOCKBUF
          /\ down' = down \o m
          /\ UNCHANGED <<reset, aligned>>
       \/ /\ aopen /\ Len(down) + 1 = SOCKBUF /\ "split" \in Faults
          /\ down' = Append(down, Head(m))
          /\ aligned' = FALSE
          /\ UNCHANGED reset
       \/ ~aopen /\ reset' = TRUE /\ UNCHANGED <<down, aligned>>
    /\ UNCHANGED <<up, aopen, sopen>>

\* The ways in which the controller's send() can return -1.
ControllerCannotSend == ~sopen \/ reset \/ Len(down) + 2 > SOCKBUF

\* close() by one side; unread data is answered by a reset.
AgentCloses == /\ aopen' = FALSE
               /\ reset' = (reset \/ (aopen /\ down # <<>>))
               /\ UNCHANGED <<up, down, sopen>>

ControllerCloses == /\ sopen' = FALSE
                    /\ reset' = (reset \/ (sopen /\ up # <<>>))
                    /\ UNCHANGED <<up, down, aopen>>

\* recv() has nothing to return and will not have: 0 or -1.
AgentHearsEnd == down = <<>> /\ (~sopen \/ reset)
ControllerHearsEnd == up = <<>> /\ (~aopen \/ reset)

-----------------------------------------------------------------------------
(* The agent.                                                              *)

Connect ==
    /\ apc = "connect"
    /\ apc' \in {"info", "refused"}
    /\ UNCHANGED <<net, service, state, controller, ghosts>>

SendInfo ==
    /\ apc = "info"
    /\ AgentSends(Info(service, state))
    /\ apc' = "ack"
    /\ UNCHANGED <<service, state, controller, ghosts>>

\* Something arrives: "ok" ends the handshake, anything else does not.
RecvAck ==
    /\ apc = "ack"
    /\ down # <<>>
    /\ \E k \in Returned(down, 2) : /\ down' = Rest(down, k)
                                    /\ aligned' = (aligned /\ WholeDown(k))
    /\ apc' = IF Head(down) = "ok" THEN "features" ELSE "ask"
    /\ UNCHANGED <<up, aopen, sopen, reset, service, state, controller, told, crashed>>

\* 0 leaves the zeroed buffer, which is not "ok"; -1 also closes the descriptor.
RecvAckFails ==
    /\ apc = "ack"
    /\ AgentHearsEnd
    /\ apc' = "ask"
    /\ \/ UNCHANGED net
       \/ reset /\ AgentCloses
    /\ UNCHANGED <<service, state, controller, ghosts>>

\* Mutant: the struct is sent before the new value is stored in it.
AskAndSendOld ==
    /\ apc = "ask"
    /\ AgentSends(Info(service, state))
    /\ service' \in Service
    /\ apc' = "ack"
    /\ UNCHANGED <<state, controller, ghosts>>

\* scanf() and send() of another service.
Ask ==
    /\ apc = "ask"
    /\ service' \in Service
    /\ AgentSends(Info(service', state))
    /\ apc' = "ack"
    /\ UNCHANGED <<state, controller, ghosts>>

\* send() fails: exit(1), or SIGPIPE before it returns.
SendInfoFails ==
    /\ apc \in {"info", "ask"}
    /\ reset \/ ~aopen
    /\ apc' = "exited"
    /\ AgentCloses
    /\ UNCHANGED <<service, state, controller, ghosts>>

\* get_features() and send() of what it wrote.
SendPoint ==
    /\ apc = "features"
    /\ AgentSends(<<Point, Digits>>)
    /\ apc' = "command"
    /\ UNCHANGED <<service, state, controller, ghosts>>

\* Mutant: the result of send() is not tested.
SendPointIgnored ==
    /\ apc = "features"
    /\ reset
    /\ apc' = "command"
    /\ UNCHANGED <<net, service, state, controller, ghosts>>

SendPointFails ==
    /\ apc = "features"
    /\ reset
    /\ apc' = "exited"
    /\ AgentCloses
    /\ UNCHANGED <<service, state, controller, ghosts>>

\* get_features() cannot run ps or read a file of /proc: the agent ends.
FeaturesFail ==
    /\ apc = "features"
    /\ apc' = "exited"
    /\ AgentCloses
    /\ UNCHANGED <<service, state, controller, ghosts>>

\* Mutant: whatever is not CONTINUE is an order to rejuvenate.
ObeysAll(u) == u # "CONTINUE"

\* Mutant: the order is compared with the wrong member of the enumeration.
ObeysNothing(u) == u = "STARTING_REJUVENATING"

Obeys(u) == u = "REJUVENATE"

RecvCommand ==
    /\ apc = "command"
    /\ down # <<>>
    /\ \E k \in Returned(down, 2) : /\ down' = Rest(down, k)
                                    /\ aligned' = (aligned /\ WholeDown(k))
    /\ apc' = IF Obeys(Head(down)) THEN "rejuvenate" ELSE "features"
    /\ UNCHANGED <<up, aopen, sopen, reset, service, state, controller, told, crashed>>

\* 0 leaves the zeroed buffer, a command like any other.
RecvCommandZero ==
    /\ apc = "command"
    /\ AgentHearsEnd
    /\ apc' = IF Obeys("zeros") THEN "rejuvenate" ELSE "features"
    /\ UNCHANGED <<net, service, state, controller, ghosts>>

RecvCommandFails ==
    /\ apc = "command"
    /\ AgentHearsEnd /\ reset
    /\ apc' = "exited"
    /\ AgentCloses
    /\ UNCHANGED <<service, state, controller, ghosts>>

\* The pending requests are given their time, then the machine reboots.
Reboot ==
    /\ apc = "rejuvenate"
    /\ apc' = "rebooted"
    /\ AgentCloses
    /\ UNCHANGED <<service, state, controller, ghosts>>

AgentEnded == apc \in {"refused", "exited", "rebooted", "halted"}

\* The machine stops without a word, or the process ends and its descriptor is
\* closed.
Crash ==
    /\ "crash" \in Faults
    /\ ~AgentEnded /\ apc # "connect"
    /\ \/ apc' = "halted" /\ UNCHANGED net
       \/ apc' = "exited" /\ AgentCloses
    /\ crashed' = TRUE
    /\ UNCHANGED <<service, state, controller, told, aligned>>

-----------------------------------------------------------------------------
(* The controller: accept_new_client.                                      *)

Accept ==
    /\ spc = "accept"
    /\ apc \notin {"connect", "refused"}
    /\ spc' = "info"
    /\ UNCHANGED <<net, agent, sservice, sstate, registered, ghosts>>

\* A struct vm_service arrives, the first one or another after "groups".
RecvInfo ==
    /\ spc \in {"info", "again"}
    /\ sopen /\ up # <<>>
    /\ \E k \in Returned(up, 3) :
          /\ sservice' = up[1].value
          /\ sstate' = IF k > 1 THEN up[2].value ELSE sstate
          /\ up' = Rest(up, k)
          /\ aligned' = (aligned /\ WholeUp(k))
    /\ spc' = "reply"
    /\ UNCHANGED <<down, aopen, sopen, reset, agent, registered, told, crashed>>

\* The first one does not arrive: main returns to accept().  Only a timeout and
\* a shutdown close the descriptor.
RecvInfoFails ==
    /\ spc = "info"
    /\ up = <<>>
    /\ ControllerCloses \/ (reset /\ UNCHANGED net)
    /\ spc' = "gone"
    /\ UNCHANGED <<agent, sservice, sstate, registered, ghosts>>

\* Another one does not arrive: the loop continues with the old one.
RecvAgainFails ==
    /\ spc = "again"
    /\ up = <<>> \/ ~sopen
    /\ ControllerCloses \/ (reset /\ UNCHANGED net)
    /\ spc' = "reply"
    /\ UNCHANGED <<agent, sservice, sstate, registered, ghosts>>

WrongGroup(g) == g >= NUMBER_GROUPS

\* "groups" or "ok"; a send() that fails closes the descriptor and no more.
Reply ==
    /\ spc = "reply"
    /\ \/ ControllerSends(<<IF WrongGroup(sservice) THEN "groups" ELSE "ok", "zeros">>)
       \/ ControllerCannotSend /\ ControllerCloses /\ UNCHANGED aligned
    /\ spc' = IF WrongGroup(sservice) THEN "again" ELSE "register"
    /\ UNCHANGED <<agent, sservice, sstate, registered, told, crashed>>

\* The entry is written, and its thread looks at the state: in stand-by it
\* loops without a system call for ever.
Register ==
    /\ spc = "register"
    /\ registered' = sservice
    /\ spc' = IF sstate = ACTIVE THEN "recv" ELSE "spin"
    /\ UNCHANGED <<net, agent, sservice, sstate, ghosts>>

-----------------------------------------------------------------------------
(* The controller: communication_thread.                                   *)

\* Whatever arrives is a data point.  The machine is about to crash or not.
RecvFeatures ==
    /\ spc = "recv"
    /\ sopen /\ up # <<>>
    /\ \E k \in Returned(up, 2) : /\ up' = Rest(up, k)
                                  /\ aligned' = (aligned /\ WholeUp(k))
    /\ spc' \in {"continue", "rejuvenate"}
    /\ UNCHANGED <<down, aopen, sopen, reset, agent, sservice, sstate, registered, told, crashed>>

\* Mutant: a recv() of 0 is not told apart from a data point.
RecvZeroIgnored ==
    /\ spc = "recv"
    /\ up = <<>> \/ ~sopen
    /\ spc' = IF ControllerHearsEnd /\ sopen THEN "continue" ELSE "leave"
    /\ UNCHANGED <<net, agent, sservice, sstate, registered, ghosts>>

\* Mutant: only a shutdown ends the loop.
RecvTimeoutRetried ==
    /\ spc = "recv"
    /\ up = <<>> \/ ~sopen
    /\ spc' = IF sopen /\ ~ControllerHearsEnd THEN "recv" ELSE "leave"
    /\ UNCHANGED <<net, agent, sservice, sstate, registered, ghosts>>

\* Timeout, error or shutdown.
RecvFails ==
    /\ spc = "recv"
    /\ up = <<>> \/ ~sopen
    /\ spc' = "leave"
    /\ UNCHANGED <<net, agent, sservice, sstate, registered, ghosts>>

SendContinue ==
    /\ spc = "continue"
    /\ \/ ControllerSends(<<"CONTINUE", "zeros">>) /\ spc' = "recv"
       \/ ControllerCannotSend /\ spc' = "leave" /\ UNCHANGED <<net, aligned>>
    /\ UNCHANGED <<agent, sservice, sstate, registered, told, crashed>>

\* Mutant: after the rejuvenation the loop does not start again.
SendRejuvenateAndContinue ==
    /\ spc = "rejuvenate"
    /\ ControllerSends(<<"REJUVENATE", "zeros">>)
    /\ told' = TRUE
    /\ spc' = "continue"
    /\ UNCHANGED <<agent, sservice, sstate, registered, crashed>>

\* switch_active_machine; a send() that fails closes the descriptor, and the
\* thread goes on.
SendRejuvenate ==
    /\ spc = "rejuvenate"
    /\ \/ ControllerSends(<<"REJUVENATE", "zeros">>) /\ told' = TRUE
       \/ ControllerCannotSend /\ ControllerCloses /\ UNCHANGED <<told, aligned>>
    /\ spc' = "recv"
    /\ UNCHANGED <<agent, sservice, sstate, registered, crashed>>

\* send() on a connection that was reset raises SIGPIPE, which the controller
\* does not handle: the process ends.
BrokenPipe ==
    /\ spc \in {"reply", "continue", "rejuvenate"}
    /\ sopen /\ reset
    /\ spc' = "killed"
    /\ ControllerCloses
    /\ UNCHANGED <<agent, sservice, sstate, registered, ghosts>>

\* What follows the loop: notification, removal, close.
Leave ==
    /\ spc = "leave"
    /\ ControllerCloses
    /\ spc' = "done"
    /\ UNCHANGED <<agent, sservice, sstate, registered, ghosts>>

-----------------------------------------------------------------------------
AgentStep == \/ Connect \/ SendInfo \/ RecvAck \/ RecvAckFails
             \/ Ask \/ SendInfoFails
             \/ FeaturesFail \/ SendPoint \/ SendPointFails
             \/ RecvCommand \/ RecvCommandZero \/ RecvCommandFails \/ Reboot

ControllerStep == \/ Accept \/ RecvInfo \/ RecvInfoFails \/ RecvAgainFails
                  \/ Reply \/ Register
                  \/ RecvFeatures \/ RecvFails \/ SendContinue \/ SendRejuvenate
                  \/ BrokenPipe \/ Leave

Next == AgentStep \/ ControllerStep \/ Crash

Spec == Init /\ [][Next]_vars

\* Both programs run, and somebody answers the agent's question.  The
\* controller's recv() and send() return, by their timeouts at the latest; the
\* agent's have none.
FairSpec == Spec /\ WF_vars(AgentStep) /\ WF_vars(ControllerStep)

-----------------------------------------------------------------------------
(* Properties.                                                             *)

\* Every variable has its type; only an existing group has machines.
TypeOK ==
    /\ up \in Seq(Unit) /\ Len(up) <= SOCKBUF
    /\ down \in Seq(Answer \union {"zeros"}) /\ Len(down) <= SOCKBUF
    /\ {aopen, sopen, reset, told, aligned, crashed} \subseteq BOOLEAN
    /\ apc \in {"connect", "info", "ack", "ask", "features", "command",
                "rejuvenate", "refused", "exited", "rebooted", "halted"}
    /\ service \in Service /\ state \in {STAND_BY, ACTIVE}
    /\ spc \in {"accept", "info", "again", "reply", "register", "recv", "spin",
                "continue", "rejuvenate", "leave", "gone", "done", "killed"}
    /\ sservice \in Service \union {NoService} /\ sstate \in Service
    /\ registered \in (0 .. (NUMBER_GROUPS - 1)) \union {NoService}

One(b) == IF b THEN 1 ELSE 0

\* The two programs take turns, which is all that keeps their messages apart:
\* as long as each recv() returned one whole message and the connection is up,
\* either one message is under way, or one of the two is working on its next.
\* A machine that was told to rejuvenate sends no further data point, as
\* Controller assumes of it.
Lockstep ==
    aligned /\ sopen /\ ~reset /\ ~crashed =>
        /\ Len(up) <= 2 /\ Len(down) <= 2
        /\   One(up # <<>>) + One(down # <<>>)
           + One(apc \in {"info", "ask", "features", "rejuvenate"})
           + One(spc \in {"reply", "continue", "rejuvenate"}) <= 1
        /\ told => up = <<>>

\* The controller has the service and the state the agent has sent last,
\* however often the service was asked for and although it asks for more bytes
\* than the agent's struct has, as long as messages were not torn; and it is
\* one of the existing services.
ServiceAgreed ==
    aligned /\ apc \in {"features", "command", "rejuvenate"} =>
        spc # "accept" /\ sservice = service /\ sstate = state
        /\ service < NUMBER_GROUPS

\* A machine reboots only if the controller told it to, however the bytes were
\* cut: not on the rest of another message, nor on the end of the stream.
RebootsOnlyWhenTold == apc \in {"rejuvenate", "rebooted"} => told

\* A well-behaved agent never ends the controller by SIGPIPE: the controller
\* only sends to an agent that is waiting for it.
ControllerSurvives == aligned /\ ~crashed => spc # "killed"

\* A machine that was told to rejuvenate does so, even if the controller goes
\* away in the meantime, unless it crashes first.
CommandObeyed == told /\ aligned ~> apc = "rebooted" \/ crashed \/ ~aligned

\* Once the controller has closed the connection the agent ends, although a
\* recv() of 0 passes for a command and the agent's calls have no timeout.
AgentEnds == ~sopen /\ apc # "connect" ~> AgentEnded

\* Once the agent of an active machine is gone, its thread ends.
DepartureNoticed ==
    AgentEnded /\ spc = "recv" ~> spc \in {"done", "killed"}
=============================================================================
