--------------------------- MODULE SessionProofs ----------------------------
(***************************************************************************)
(* Proofs about Session, for any number of groups, any size of the socket  *)
(* buffers and any faults.                                                 *)
(***************************************************************************)
EXTENDS Session, SequenceTheorems, TLAPS

Has(q, e) == \E i \in 1 .. Len(q) : q[i] = e

(* accept_new_client is past its loop. *)
Late == {"register", "recv", "spin", "continue", "rejuvenate", "leave", "done", "killed"}

(* Only "ok" lets the agent go on, and the controller, having sent it,     *)
(* never again takes what arrives for a struct vm_service: no data point   *)
(* becomes a service or a state, however the bytes were cut.               *)
LateInv ==
    \/ Has(down, "ok")
    \/ apc \in {"features", "command", "rejuvenate", "rebooted"}
    \/ Has(up, Point) \/ Has(up, Digits)
    => spc \in Late

RegisterInv == spc = "register" => ~WrongGroup(sservice)

(* The order to rejuvenate reaches the agent only after it was given. *)
ToldInv == Has(down, "REJUVENATE") \/ apc \in {"rejuvenate", "rebooted"} => told

CrashInv == crashed => AgentEnded

TornInv == TypeOK /\ LateInv /\ RegisterInv /\ ToldInv /\ CrashInv

-----------------------------------------------------------------------------
(* The turns of the two programs as long as messages were whole.           *)

Idle == up = <<>> /\ down = <<>>

Heard == sservice = service /\ sstate = state
Agreed == Heard /\ service < NUMBER_GROUPS

(* Up to the "ok" that ends the handshake. *)
Handshake ==
    /\ aopen
    /\ ~told
    /\ spc = "again" => WrongGroup(sservice)
    /\ \/ apc \in {"connect", "refused"} /\ spc = "accept" /\ Idle
       \/ apc = "info" /\ spc \in {"accept", "info"} /\ Idle
       \/ /\ apc = "ack" /\ spc \in {"accept", "info", "again"}
          /\ up = Info(service, state) /\ down = <<>>
       \/ apc = "ack" /\ spc = "reply" /\ Heard /\ Idle
       \/ apc = "ack" /\ spc = "again" /\ up = <<>> /\ down = <<"groups", "zeros">>
       \/ apc = "ask" /\ spc = "again" /\ Idle

(* The thread may be anywhere up to the end of its loop: it can give up    *)
(* waiting while the agent goes on.                                        *)
Waiting == {"register", "spin", "recv", "leave"}

Exchange ==
    /\ Agreed
    /\ \/ aopen /\ ~told /\ spc \in Waiting
          /\ \/ apc = "ack" /\ up = <<>> /\ down = <<"ok", "zeros">>
             \/ apc = "features" /\ Idle
             \/ apc = "command" /\ up = <<Point, Digits>> /\ down = <<>>
             \/ apc = "command" /\ up = <<>> /\ down = <<"CONTINUE", "zeros">>
       \/ aopen /\ ~told /\ apc = "command" /\ spc \in {"continue", "rejuvenate"} /\ Idle
       \/ aopen /\ told /\ spc \in {"recv", "leave"}
          /\ \/ apc = "command" /\ up = <<>> /\ down = <<"REJUVENATE", "zeros">>
             \/ apc = "rejuvenate" /\ Idle
       \/ ~aopen /\ apc \in {"exited", "rebooted"} /\ spc \in Waiting /\ Idle

(* The controller has closed the connection: it will send nothing more.    *)
Closed ==
    \/ /\ spc \in {"gone", "reply", "again"}
       /\ spc # "gone" => WrongGroup(sservice)
       /\ \/ apc \in {"info", "ack", "ask", "exited"} /\ down = <<>>
          \/ apc = "ack" /\ down = <<"groups", "zeros">>
    \/ /\ spc = "done" /\ Agreed
       /\ \/ apc \in {"features", "command", "rejuvenate", "exited", "rebooted"}
          \/ apc = "ack" /\ down = <<"ok", "zeros">>

TurnInv ==
    aligned /\ ~crashed => IF sopen THEN ~reset /\ (Handshake \/ Exchange) ELSE Closed

SessionInv == TornInv /\ TurnInv

-----------------------------------------------------------------------------
(* Sequences of units.                                                     *)

Down == Answer \union {"zeros"}

LEMMA RestProperties ==
    ASSUME NEW S, NEW q \in Seq(S), NEW k \in 1 .. Len(q)
    PROVE  /\ Rest(q, k) \in Seq(S) /\ Len(Rest(q, k)) <= Len(q)
           /\ \A e : Has(Rest(q, k), e) => Has(q, e)
<1>1. PICK n \in Nat : n = Len(q)
  BY LenProperties
<1>2. PICK r : r = SubSeq(q, k + 1, n)
  OBVIOUS
<1>3. /\ r \in Seq(S) /\ Len(r) = n - k
      /\ \A i \in 1 .. (n - k) : r[i] = q[k + i]
  BY <1>1, <1>2, SubSeqProperties
<1>4. \A i \in 1 .. (n - k) : k + i \in 1 .. n
  BY <1>1
<1>5. \A e : Has(r, e) => Has(q, e)
  BY <1>1, <1>3, <1>4 DEF Has
<1>6. Len(r) <= n
  BY <1>1, <1>3
<1> QED
  BY <1>1, <1>2, <1>3, <1>5, <1>6 DEF Rest

LEMMA JoinProperties ==
    ASSUME NEW S, NEW q \in Seq(S), NEW m \in Seq(S)
    PROVE  /\ q \o m \in Seq(S) /\ Len(q \o m) = Len(q) + Len(m)
           /\ \A e : Has(q \o m, e) => Has(q, e) \/ Has(m, e)
<1>1. PICK n \in Nat, l \in Nat : n = Len(q) /\ l = Len(m)
  BY LenProperties
<1>2. PICK r : r = q \o m
  OBVIOUS
<1>3. /\ r \in Seq(S) /\ Len(r) = n + l
      /\ \A i \in 1 .. (n + l) : r[i] = IF i <= n THEN q[i] ELSE m[i - n]
  BY <1>1, <1>2, ConcatProperties
<1>4. \A i \in 1 .. (n + l) : IF i <= n THEN i \in 1 .. n ELSE i - n \in 1 .. l
  BY <1>1
<1>5. \A e : Has(r, e) => Has(q, e) \/ Has(m, e)
  BY <1>1, <1>3, <1>4 DEF Has
<1> QED
  BY <1>1, <1>2, <1>3, <1>5

LEMMA AppendHas ==
    ASSUME NEW S, NEW q \in Seq(S), NEW a \in S
    PROVE  /\ Append(q, a) \in Seq(S) /\ Len(Append(q, a)) = Len(q) + 1
           /\ \A e : Has(Append(q, a), e) => Has(q, e) \/ e = a
<1>1. PICK n \in Nat : n = Len(q)
  BY LenProperties
<1>2. PICK r : r = Append(q, a)
  OBVIOUS
<1>3. /\ r \in Seq(S) /\ Len(r) = n + 1 /\ r[n + 1] = a
      /\ \A i \in 1 .. n : r[i] = q[i]
  BY <1>1, <1>2, AppendProperties
<1>4. \A i \in 1 .. (n + 1) : i = n + 1 \/ i \in 1 .. n
  BY <1>1
<1>5. \A e : Has(r, e) => Has(q, e) \/ e = a
  BY <1>1, <1>3, <1>4 DEF Has
<1> QED
  BY <1>1, <1>2, <1>3, <1>5

LEMMA PairProperties ==
    ASSUME NEW S, NEW a \in S, NEW b \in S
    PROVE  /\ <<a, b>> \in Seq(S) /\ Len(<<a, b>>) = 2
           /\ Head(<<a, b>>) = a /\ <<a, b>>[1] = a /\ <<a, b>>[2] = b
           /\ Has(<<a, b>>, a) /\ Has(<<a, b>>, b)
           /\ \A e : Has(<<a, b>>, e) => e = a \/ e = b
           /\ Rest(<<a, b>>, 2) = <<>>
           /\ <<>> \o <<a, b>> = <<a, b>>
<1>1. <<a, b>> \in Seq(S) /\ Len(<<a, b>>) = 2 /\ <<a, b>>[1] = a /\ <<a, b>>[2] = b
      /\ Head(<<a, b>>) = a
  OBVIOUS
<1>2. PICK q \in Seq(S) : q = <<a, b>>
  BY <1>1
<1>3. Len(q) = 2 /\ q[1] = a /\ q[2] = b
  BY <1>1, <1>2
<1>4. 1 .. 2 = {1, 2}
  OBVIOUS
<1>5. Has(q, a) /\ Has(q, b) /\ \A e : Has(q, e) => e = a \/ e = b
  BY <1>3, <1>4 DEF Has
<1>6. Rest(q, 2) = <<>>
  BY <1>3, SubSeqEmpty DEF Rest
<1>7. <<>> \o q = q
  BY ConcatEmptySeq
<1> QED
  BY <1>1, <1>2, <1>5, <1>6, <1>7

LEMMA HeadIsIn ==
    ASSUME NEW S, NEW q \in Seq(S), q # <<>>
    PROVE  Has(q, Head(q)) /\ Head(q) \in S /\ Head(q) = q[1] /\ Len(q) \in Nat \ {0}
<1>1. Len(q) \in Nat /\ Len(q) # 0
  BY LenProperties, EmptySeq
<1>2. 1 \in 1 .. Len(q)
  BY <1>1
<1>3. Head(q) = q[1] /\ q[1] \in S
  BY <1>2, HeadTailProperties, ElementOfSeq
<1> QED
  BY <1>1, <1>2, <1>3 DEF Has

LEMMA ReturnedProperties ==
    ASSUME NEW S, NEW q \in Seq(S), q # <<>>, NEW max \in {2, 3}, NEW k \in Returned(q, max)
    PROVE  k \in 1 .. Len(q)
BY HeadIsIn DEF Returned

LEMMA UnitFacts ==
    /\ Point \in Unit /\ Digits \in Unit /\ Point # Digits
    /\ STAND_BY \in Service /\ ACTIVE \in Service
    /\ \A u \in Unit : u \in {Point, Digits} \/ u.value \in Service
    /\ \A u \in Unit : u.kind \in {"service", "state"} => u \notin {Point, Digits}
BY SessionSizes DEF Unit, Point, Digits, STAND_BY, ACTIVE, Service

LEMMA InfoProperties ==
    ASSUME NEW g \in Service, NEW st \in {STAND_BY, ACTIVE}
    PROVE  /\ Info(g, st) \in Seq(Unit) /\ Len(Info(g, st)) = 2
           /\ Info(g, st)[1].value = g /\ Info(g, st)[2].value = st
           /\ Info(g, st)[1].kind = "service"
           /\ ~Has(Info(g, st), Point) /\ ~Has(Info(g, st), Digits)
           /\ Rest(Info(g, st), 2) = <<>>
           /\ <<>> \o Info(g, st) = Info(g, st)
<1> DEFINE a == [kind |-> "service", value |-> g]
           b == [kind |-> "state", value |-> st]
<1>1. a \in Unit /\ b \in Unit /\ a \notin {Point, Digits} /\ b \notin {Point, Digits}
      /\ a.value = g /\ b.value = st /\ a.kind = "service"
  BY UnitFacts DEF Unit, Point, Digits
<1> HIDE DEF a, b
<1>2. Info(g, st) = <<a, b>>
  BY DEF Info, a, b
<1> QED
  BY <1>1, <1>2, PairProperties
-----------------------------------------------------------------------------
(* However the messages are cut.                                           *)

LEMMA EmptyHasNothing == \A e : ~Has(<<>>, e)
BY DEF Has

LEMMA TornInit == Init => TornInv
<1> SUFFICES ASSUME Init PROVE TornInv
  OBVIOUS
<1> USE SessionSizes DEF Init
<1>1. up \in Seq(Unit) /\ down \in Seq(Answer \union {"zeros"})
      /\ Len(up) <= SOCKBUF /\ Len(down) <= SOCKBUF
  BY EmptySeq
<1>2. TypeOK
  BY <1>1 DEF TypeOK, NoService
<1> QED
  BY <1>2, EmptyHasNothing DEF TornInv, LateInv, RegisterInv, ToldInv, CrashInv

LEMMA AgentClosesTypes ==
    ASSUME TypeOK, AgentCloses
    PROVE  {aopen', sopen', reset'} \subseteq BOOLEAN /\ UNCHANGED <<up, down, sopen>>
BY DEF TypeOK, AgentCloses

LEMMA ControllerClosesTypes ==
    ASSUME TypeOK, ControllerCloses
    PROVE  {aopen', sopen', reset'} \subseteq BOOLEAN /\ UNCHANGED <<up, down, aopen>>
BY DEF TypeOK, ControllerCloses

(* The agent neither sends nor receives. *)
AgentAlone ==
    \/ Connect \/ RecvAckFails \/ SendInfoFails \/ SendPointFails \/ FeaturesFail
    \/ RecvCommandZero \/ RecvCommandFails \/ Reboot \/ Crash

LEMMA AgentAloneTorn == ASSUME TornInv, AgentAlone PROVE TornInv'
<1> USE DEF TornInv
<1>1. UNCHANGED net \/ AgentCloses
  BY DEF AgentAlone, Connect, RecvAckFails, SendInfoFails, SendPointFails,
     FeaturesFail, RecvCommandZero, RecvCommandFails, Reboot, Crash
<1>2. UNCHANGED <<up, down>> /\ {aopen', sopen', reset'} \subseteq BOOLEAN
  BY <1>1, AgentClosesTypes DEF net, TypeOK
<1>3. UNCHANGED <<service, state, controller, told, aligned>>
  BY DEF AgentAlone, Connect, RecvAckFails, SendInfoFails, SendPointFails,
     FeaturesFail, RecvCommandZero, RecvCommandFails, Reboot, Crash, ghosts
<1>4. /\ apc' \in {"connect", "info", "ack", "ask", "features", "command",
                   "rejuvenate", "refused", "exited", "rebooted", "halted"}
      /\ apc' \in {"features", "command", "rejuvenate", "rebooted"} =>
            apc \in {"features", "command", "rejuvenate", "rebooted"}
      /\ apc' \in {"rejuvenate", "rebooted"} => apc \in {"rejuvenate", "rebooted"}
  BY DEF AgentAlone, Connect, RecvAckFails, SendInfoFails, SendPointFails, Obeys,
     FeaturesFail, RecvCommandZero, RecvCommandFails, Reboot, Crash
<1>5. crashed' \in BOOLEAN /\ CrashInv'
  <2>1. \/ crashed' = crashed /\ ~AgentEnded
        \/ crashed' = TRUE /\ apc' \in {"halted", "exited"}
    BY DEF AgentAlone, Connect, RecvAckFails, SendInfoFails, SendPointFails,
       FeaturesFail, RecvCommandZero, RecvCommandFails, Reboot, Crash, ghosts, AgentEnded
  <2>2. crashed \in BOOLEAN
    BY DEF TypeOK
  <2>3. CASE crashed' = crashed /\ ~AgentEnded
    BY Zenon, <2>2, <2>3 DEF CrashInv
  <2>4. CASE crashed' = TRUE /\ apc' \in {"halted", "exited"}
    BY <2>4 DEF CrashInv, AgentEnded
  <2> QED
    BY <2>1, <2>3, <2>4
<1>6. TypeOK'
  BY <1>2, <1>3, <1>4, <1>5 DEF TypeOK, controller
<1>7. LateInv' /\ RegisterInv' /\ ToldInv'
  BY <1>2, <1>3, <1>4 DEF LateInv, RegisterInv, ToldInv, controller
<1> QED
  BY <1>5, <1>6, <1>7

LEMMA AgentSendsTorn ==
    ASSUME TornInv, SendInfo \/ Ask \/ SendPoint
    PROVE  TornInv'
<1> USE DEF TornInv
<1>1. PICK m \in Seq(Unit) :
         /\ AgentSends(m) /\ Len(m) = 2
         /\ Has(m, Point) \/ Has(m, Digits) => apc = "features"
  <2>1. CASE SendPoint
    BY <2>1, UnitFacts, PairProperties DEF SendPoint
  <2>2. CASE SendInfo
    BY <2>2, InfoProperties DEF SendInfo, TypeOK
  <2>3. CASE Ask
    BY <2>3, InfoProperties DEF Ask, TypeOK
  <2> QED
    BY <2>1, <2>2, <2>3
<1>2. /\ up' \in Seq(Unit) /\ Len(up') <= SOCKBUF
      /\ \A e : Has(up', e) => Has(up, e) \/ Has(m, e)
  <2>1. up \in Seq(Unit) /\ Len(up) <= SOCKBUF
    BY DEF TypeOK
  <2>2. \/ up' = up
        \/ up' = up \o m /\ Len(up) + 2 <= SOCKBUF
    BY <1>1 DEF AgentSends
  <2>3. CASE up' = up \o m /\ Len(up) + 2 <= SOCKBUF
    <3>1. up \o m \in Seq(Unit) /\ Len(up \o m) = Len(up) + Len(m)
          /\ \A e : Has(up \o m, e) => Has(up, e) \/ Has(m, e)
      BY <2>1, JoinProperties
    <3> QED
      BY <1>1, <2>3, <3>1
  <2> QED
    BY <2>1, <2>2, <2>3
<1>3. reset' \in BOOLEAN /\ UNCHANGED <<down, aopen, sopen, state, controller, ghosts>>
  BY <1>1 DEF AgentSends, SendInfo, Ask, SendPoint, TypeOK
<1>4. /\ apc' \in {"ack", "command"} /\ service' \in Service
      /\ apc' = "command" => apc = "features"
      /\ apc \in {"info", "ask", "features"}
  BY DEF SendInfo, Ask, SendPoint, TypeOK
<1>5. TypeOK'
  BY <1>2, <1>3, <1>4 DEF TypeOK, controller, ghosts
<1>6. LateInv'
  BY <1>1, <1>2, <1>3, <1>4 DEF LateInv, controller
<1>7. RegisterInv' /\ ToldInv' /\ CrashInv'
  BY <1>3, <1>4 DEF RegisterInv, ToldInv, CrashInv, AgentEnded, controller, ghosts
<1> QED
  BY <1>5, <1>6, <1>7

LEMMA AgentReceivesTorn ==
    ASSUME TornInv, RecvAck \/ RecvCommand
    PROVE  TornInv'
<1> USE DEF TornInv
<1>1. PICK k \in Returned(down, 2) : down' = Rest(down, k) /\ down # <<>>
  BY DEF RecvAck, RecvCommand
<1>2. down \in Seq(Down) /\ k \in 1 .. Len(down)
  BY <1>1, ReturnedProperties DEF TypeOK, Down
<1>3. /\ down' \in Seq(Down) /\ Len(down') <= SOCKBUF
      /\ \A e : Has(down', e) => Has(down, e)
  <2>1. Len(down') <= Len(down) /\ Len(down') \in Nat /\ Len(down) \in Nat
    BY <1>1, <1>2, RestProperties, LenProperties
  <2> QED
    BY <1>1, <1>2, <2>1, RestProperties, SessionSizes DEF TypeOK
<1>4. UNCHANGED <<up, aopen, sopen, reset, service, state, controller, told, crashed>>
      /\ aligned' \in BOOLEAN
  BY DEF RecvAck, RecvCommand, TypeOK
<1>5. Has(down, Head(down))
  BY <1>1, <1>2, HeadIsIn
<1>6. /\ apc \in {"ack", "command"}
      /\ apc' \in {"features", "ask", "rejuvenate"}
      /\ apc' # "ask" /\ apc = "ack" => Head(down) = "ok"
      /\ apc' = "rejuvenate" => Head(down) = "REJUVENATE"
  BY DEF RecvAck, RecvCommand, Obeys
<1>7. TypeOK'
  BY <1>3, <1>4, <1>6 DEF TypeOK, controller, Down
<1>8. LateInv'
  BY <1>3, <1>4, <1>5, <1>6 DEF LateInv, controller
<1>9. RegisterInv' /\ ToldInv' /\ CrashInv'
  BY <1>3, <1>4, <1>5, <1>6 DEF RegisterInv, ToldInv, CrashInv, AgentEnded, controller
<1> QED
  BY <1>7, <1>8, <1>9
(* The controller moves on without a byte. *)
LEMMA ControllerAloneTorn ==
    ASSUME TornInv, UNCHANGED net \/ ControllerCloses,
           UNCHANGED <<agent, ghosts>>,
           \/ Accept \/ RecvInfoFails \/ RecvAgainFails \/ Register \/ RecvFails
           \/ BrokenPipe \/ Leave \/ Reply \/ SendContinue \/ SendRejuvenate
    PROVE  TornInv'
<1> USE DEF TornInv
<1>1. UNCHANGED <<up, down>> /\ {aopen', sopen', reset'} \subseteq BOOLEAN
  BY ControllerClosesTypes DEF net, TypeOK
<1>2. /\ spc' \in {"accept", "info", "again", "reply", "register", "recv", "spin",
                   "continue", "rejuvenate", "leave", "gone", "done", "killed"}
      /\ spc \in Late => spc' \in Late
      /\ spc' = "register" => ~WrongGroup(sservice)
      /\ UNCHANGED <<sservice, sstate>>
  BY DEF Late, Accept, RecvInfoFails, RecvAgainFails, Register, RecvFails,
     BrokenPipe, Leave, Reply, SendContinue, SendRejuvenate
<1>3. registered' \in (0 .. (NUMBER_GROUPS - 1)) \union {NoService}
  <2>1. CASE Register
    <3>1. sservice \in Service \union {NoService} /\ ~WrongGroup(sservice)
      BY <2>1 DEF Register, RegisterInv, TypeOK
    <3>2. sservice \in 0 .. (NUMBER_GROUPS - 1)
      BY <3>1, SessionSizes DEF WrongGroup, Service, NoService
    <3> QED
      BY <2>1, <3>2 DEF Register
  <2> QED
    BY <2>1 DEF Accept, RecvInfoFails, RecvAgainFails, RecvFails,
       BrokenPipe, Leave, Reply, SendContinue, SendRejuvenate, TypeOK
<1>4. TypeOK'
  BY <1>1, <1>2, <1>3 DEF TypeOK, agent, ghosts
<1>5. LateInv' /\ RegisterInv' /\ ToldInv' /\ CrashInv'
  BY <1>1, <1>2 DEF LateInv, RegisterInv, ToldInv, CrashInv, AgentEnded, agent, ghosts
<1> QED
  BY <1>4, <1>5

(* What RecvInfo takes for a struct vm_service comes from one: data points *)
(* are only sent later.                                                    *)
LEMMA ControllerReceivesTorn ==
    ASSUME TornInv, RecvInfo \/ RecvFeatures
    PROVE  TornInv'
<1> USE DEF TornInv
<1>1. PICK k : /\ up' = Rest(up, k) /\ up # <<>>
               /\ k \in Returned(up, 2) \/ k \in Returned(up, 3)
               /\ RecvInfo => sservice' = up[1].value
                              /\ sstate' = IF k > 1 THEN up[2].value ELSE sstate
  <2>1. CASE RecvInfo
    BY <2>1 DEF RecvInfo
  <2>2. CASE RecvFeatures
    <3>1. ~RecvInfo
      BY <2>2 DEF RecvInfo, RecvFeatures
    <3> QED
      BY <2>2, <3>1 DEF RecvFeatures
  <2> QED
    BY <2>1, <2>2
<1>2. up \in Seq(Unit) /\ k \in 1 .. Len(up) /\ Len(up) \in Nat
  BY <1>1, ReturnedProperties, LenProperties DEF TypeOK
<1>3. /\ up' \in Seq(Unit) /\ Len(up') <= SOCKBUF
      /\ \A e : Has(up', e) => Has(up, e)
  <2>1. Len(up') <= Len(up) /\ Len(up') \in Nat
    BY <1>1, <1>2, RestProperties, LenProperties
  <2> QED
    BY <1>1, <1>2, <2>1, RestProperties, SessionSizes DEF TypeOK
<1>4. UNCHANGED <<down, aopen, sopen, reset, agent, registered, told, crashed>>
      /\ aligned' \in BOOLEAN
  BY DEF RecvInfo, RecvFeatures, TypeOK
<1>5. /\ spc' \in {"reply", "continue", "rejuvenate"}
      /\ spc \in Late => spc' \in Late
  BY DEF RecvInfo, RecvFeatures, Late
<1>6. sservice' \in Service \union {NoService} /\ sstate' \in Service
  <2>1. CASE RecvInfo
    <3>1. ~Has(up, Point) /\ ~Has(up, Digits)
      BY <2>1 DEF RecvInfo, LateInv, Late
    <3>2. ASSUME NEW i \in 1 .. Len(up) PROVE up[i].value \in Service
      <4>1. up[i] \in Unit
        BY <1>2, ElementOfSeq
      <4> QED
        BY <3>1, <4>1, UnitFacts DEF Has
    <3>3. 1 \in 1 .. Len(up) /\ (k > 1 => 2 \in 1 .. Len(up))
      BY <1>2
    <3> QED
      BY <1>1, <2>1, <3>2, <3>3 DEF TypeOK
  <2>2. CASE RecvFeatures
    BY <2>2 DEF RecvFeatures, TypeOK
  <2> QED
    BY <2>1, <2>2
<1>7. TypeOK'
  BY <1>3, <1>4, <1>5, <1>6 DEF TypeOK, agent
<1>8. LateInv' /\ RegisterInv' /\ ToldInv' /\ CrashInv'
  BY <1>3, <1>4, <1>5 DEF LateInv, RegisterInv, ToldInv, CrashInv, AgentEnded, agent
<1> QED
  BY <1>7, <1>8

LEMMA ControllerSendsTorn ==
    ASSUME TornInv, Reply \/ SendContinue \/ SendRejuvenate
    PROVE  TornInv'
<1> USE DEF TornInv
<1>1. CASE (UNCHANGED net \/ ControllerCloses) /\ UNCHANGED ghosts
  BY <1>1, ControllerAloneTorn DEF Reply, SendContinue, SendRejuvenate
<1>2. ASSUME NEW a \in Answer, ControllerSends(<<a, "zeros">>), UNCHANGED <<agent, registered>>,
             UNCHANGED <<sservice, sstate, crashed>>, told' \in BOOLEAN, told => told',
             a = "ok" => spc' = "register" /\ ~WrongGroup(sservice),
             a = "REJUVENATE" => told', spc \in Late => spc' \in Late,
             spc' \in {"again", "register", "recv"}, spc' = "register" => a = "ok"
      PROVE  TornInv'
  <2>1. a \in Down /\ "zeros" \in Down /\ down \in Seq(Down)
    BY DEF Down, TypeOK
  <2>2. /\ <<a, "zeros">> \in Seq(Down) /\ Len(<<a, "zeros">>) = 2
        /\ Head(<<a, "zeros">>) = a
        /\ \A e : Has(<<a, "zeros">>, e) => e = a \/ e = "zeros"
    BY <2>1, PairProperties
  <2>3. PICK m : m = <<a, "zeros">>
    OBVIOUS
  <2>4. /\ down' \in Seq(Down) /\ Len(down') <= SOCKBUF
        /\ \A e : Has(down', e) => Has(down, e) \/ e = a \/ e = "zeros"
    <3>1. \/ down' = down \o m /\ Len(down) + 2 <= SOCKBUF
          \/ down' = Append(down, a) /\ Len(down) + 1 = SOCKBUF
          \/ down' = down
      BY <1>2, <2>2, <2>3 DEF ControllerSends
    <3>2. CASE down' = down \o m /\ Len(down) + 2 <= SOCKBUF
      <4>1. down \o m \in Seq(Down) /\ Len(down \o m) = Len(down) + Len(m)
            /\ \A e : Has(down \o m, e) => Has(down, e) \/ Has(m, e)
        BY <2>1, <2>2, <2>3, JoinProperties
      <4> QED
        BY <2>2, <2>3, <3>2, <4>1
    <3>3. CASE down' = Append(down, a) /\ Len(down) + 1 = SOCKBUF
      <4>1. Append(down, a) \in Seq(Down) /\ Len(Append(down, a)) = Len(down) + 1
            /\ \A e : Has(Append(down, a), e) => Has(down, e) \/ e = a
        BY <2>1, AppendHas
      <4> QED
        BY <3>3, <4>1, SessionSizes
    <3> QED
      BY <3>1, <3>2, <3>3 DEF TypeOK, Down
  <2>5. /\ {aopen', sopen', reset', aligned'} \subseteq BOOLEAN
        /\ UNCHANGED up
    BY <1>2 DEF ControllerSends, TypeOK
  <2>6. TypeOK'
    BY <1>2, <2>4, <2>5 DEF TypeOK, agent, Down
  <2>7. LateInv'
    BY <1>2, <2>4, <2>5 DEF LateInv, agent, Late
  <2>8. RegisterInv' /\ CrashInv'
    BY <1>2 DEF RegisterInv, CrashInv, AgentEnded, agent
  <2>9. ToldInv'
    BY <1>2, <2>4 DEF ToldInv, agent
  <2> QED
    BY <2>6, <2>7, <2>8, <2>9
<1>3. CASE Reply
  <2>1. CASE ControllerSends(<<IF WrongGroup(sservice) THEN "groups" ELSE "ok", "zeros">>)
    BY <1>2, <1>3, <2>1 DEF Reply, Answer, Late, TypeOK
  <2> QED
    BY <1>1, <1>3, <2>1 DEF Reply, ghosts
<1>4. CASE SendContinue
  <2>1. CASE ControllerSends(<<"CONTINUE", "zeros">>) /\ spc' = "recv"
    BY <1>2, <1>4, <2>1 DEF SendContinue, Answer, Late, TypeOK
  <2> QED
    BY <1>1, <1>4, <2>1 DEF SendContinue, ghosts
<1>5. CASE SendRejuvenate
  <2>1. CASE ControllerSends(<<"REJUVENATE", "zeros">>) /\ told' = TRUE
    BY <1>2, <1>5, <2>1 DEF SendRejuvenate, Answer, Late
  <2> QED
    BY <1>1, <1>5, <2>1 DEF SendRejuvenate, ghosts
<1> QED
  BY <1>3, <1>4, <1>5

LEMMA TornNext == ASSUME TornInv, [Next]_vars PROVE TornInv'
<1>1. CASE AgentStep \/ Crash
  BY <1>1, AgentAloneTorn, AgentSendsTorn, AgentReceivesTorn DEF AgentStep, AgentAlone
<1>2. CASE ControllerStep
  <2>1. CASE \/ Accept \/ RecvInfoFails \/ RecvAgainFails \/ Register \/ RecvFails
             \/ BrokenPipe \/ Leave
    <3>1. (UNCHANGED net \/ ControllerCloses) /\ UNCHANGED <<agent, ghosts>>
      BY <2>1 DEF Accept, RecvInfoFails, RecvAgainFails, Register, RecvFails,
         BrokenPipe, Leave
    <3> QED
      BY <2>1, <3>1, ControllerAloneTorn
  <2> QED
    BY <1>2, <2>1, ControllerReceivesTorn, ControllerSendsTorn DEF ControllerStep
<1>3. CASE UNCHANGED vars
  BY <1>3 DEF vars, net, agent, controller, ghosts, TornInv, TypeOK, LateInv,
     RegisterInv, ToldInv, CrashInv, AgentEnded
<1> QED
  BY <1>1, <1>2, <1>3 DEF Next
-----------------------------------------------------------------------------
(* As long as messages are whole.                                          *)

Turn == IF sopen THEN ~reset /\ (Handshake \/ Exchange) ELSE Closed

LEMMA AnswerFacts ==
    ASSUME NEW a \in Answer
    PROVE  /\ <<a, "zeros">> # <<>> /\ Head(<<a, "zeros">>) = a
           /\ Rest(<<a, "zeros">>, 2) = <<>>
           /\ <<>> \o <<a, "zeros">> = <<a, "zeros">>
           /\ Len(<<a, "zeros">>) = 2
<1>1. a \in Down /\ "zeros" \in Down
  BY DEF Down
<1> QED
  BY <1>1, PairProperties, EmptySeq

LEMMA PointFacts ==
    /\ <<Point, Digits>> # <<>> /\ Rest(<<Point, Digits>>, 2) = <<>>
    /\ <<>> \o <<Point, Digits>> = <<Point, Digits>> /\ Len(<<Point, Digits>>) = 2
    /\ <<Point, Digits>> \in Seq(Unit)
BY UnitFacts, PairProperties, EmptySeq

LEMMA SendsWhole ==
    ASSUME aopen, sopen, down = <<>>, NEW a \in Answer, aligned',
           ControllerSends(<<a, "zeros">>)
    PROVE  down' = <<a, "zeros">> /\ UNCHANGED <<reset, up, aopen, sopen>>
BY AnswerFacts DEF ControllerSends

LEMMA CanSend ==
    ASSUME sopen, ~reset, down = <<>>
    PROVE  ~ControllerCannotSend
BY SessionSizes, EmptySeq DEF ControllerCannotSend

LEMMA TurnInit == Init => TurnInv
BY DEF Init, TurnInv, Handshake, Idle

(* accept_new_client. *)
LEMMA AcceptTurn ==
    ASSUME Turn, Accept
    PROVE  Turn'
<1> USE DEF Turn, Accept, net, agent, ghosts
<1>1. sopen /\ ~reset /\ Handshake
  BY DEF Exchange, Closed, Waiting
<1>2. Handshake'
  BY <1>1 DEF Handshake, Idle, Heard
<1> QED
  BY <1>1, <1>2

LEMMA RecvInfoTurn ==
    ASSUME TypeOK, Turn, RecvInfo, aligned'
    PROVE  Turn'
<1> USE DEF Turn, RecvInfo, agent
<1>1. sopen /\ ~reset /\ Handshake /\ up # <<>>
  BY DEF Exchange, Waiting
<1>2. apc = "ack" /\ aopen /\ ~told /\ up = Info(service, state) /\ down = <<>>
  BY <1>1 DEF Handshake, Idle
<1>3. PICK k : /\ sservice' = up[1].value
               /\ sstate' = IF k > 1 THEN up[2].value ELSE sstate
               /\ up' = Rest(up, k)
               /\ k = 2
  BY DEF WholeUp
<1>4. sservice' = service /\ sstate' = state /\ up' = <<>>
  BY <1>2, <1>3, InfoProperties DEF TypeOK
<1>5. Handshake'
  BY <1>2, <1>4 DEF Handshake, Idle, Heard
<1> QED
  BY <1>1, <1>5

LEMMA RecvInfoFailsTurn ==
    ASSUME Turn, RecvInfoFails
    PROVE  Turn'
<1> USE DEF Turn, RecvInfoFails, agent, ghosts
<1>1. sopen /\ ~reset /\ Handshake
  BY DEF Exchange, Closed, Waiting
<1>2. sopen' = FALSE /\ apc = "info" /\ down = <<>> /\ UNCHANGED down
  <2>1. up # Info(service, state)
    BY DEF Info
  <2> QED
    BY <1>1, <2>1 DEF Handshake, Idle, ControllerCloses
<1>3. Closed'
  BY <1>2 DEF Closed
<1> QED
  BY <1>2, <1>3

LEMMA RecvAgainFailsTurn ==
    ASSUME Turn, RecvAgainFails
    PROVE  Turn'
<1> USE DEF Turn, RecvAgainFails, agent, ghosts
<1>1. CASE sopen
  <2>1. ~reset /\ Handshake
    BY <1>1 DEF Exchange, Waiting
  <2>2. up # Info(service, state)
    BY <1>1 DEF Info
  <2>3. sopen' = FALSE /\ UNCHANGED down
    BY <2>1 DEF ControllerCloses
  <2>4. Closed'
    BY <2>1, <2>2, <2>3 DEF Handshake, Idle, Closed, WrongGroup
  <2> QED
    BY <2>3, <2>4
<1>2. CASE ~sopen
  <2>1. ~sopen' /\ UNCHANGED down
    BY <1>2 DEF ControllerCloses, net
  <2>2. Closed'
    BY <1>2, <2>1 DEF Closed, WrongGroup
  <2> QED
    BY <2>1, <2>2
<1> QED
  BY <1>1, <1>2

LEMMA ReplyTurn ==
    ASSUME TypeOK, Turn, Reply, aligned'
    PROVE  Turn'
<1> USE DEF Turn, Reply, agent
<1>1. CASE sopen
  <2>1. ~reset /\ Handshake
    BY <1>1 DEF Exchange, Waiting
  <2>2. aopen /\ ~told /\ apc = "ack" /\ Heard /\ Idle
    BY <2>1 DEF Handshake
  <2>3. ~ControllerCannotSend
    BY <1>1, <2>1, <2>2, CanSend DEF Idle
  <2>4. CASE WrongGroup(sservice)
    <3>1. down' = <<"groups", "zeros">> /\ UNCHANGED <<reset, up, aopen, sopen>>
      BY <1>1, <2>2, <2>3, <2>4, SendsWhole DEF Answer, Idle
    <3>2. Handshake'
      BY <2>2, <2>4, <3>1 DEF Handshake, Idle, WrongGroup
    <3> QED
      BY <1>1, <2>1, <3>1, <3>2
  <2>5. CASE ~WrongGroup(sservice)
    <3>1. down' = <<"ok", "zeros">> /\ UNCHANGED <<reset, up, aopen, sopen>>
      BY <1>1, <2>2, <2>3, <2>5, SendsWhole DEF Answer, Idle
    <3>2. service < NUMBER_GROUPS
      BY <2>2, <2>5, SessionSizes DEF Heard, WrongGroup, TypeOK, Service
    <3>3. Exchange'
      BY <2>2, <2>5, <3>1, <3>2 DEF Exchange, Agreed, Heard, Idle, Waiting
    <3> QED
      BY <1>1, <2>1, <3>1, <3>3
  <2> QED
    BY <2>4, <2>5
<1>2. CASE ~sopen
  <2>1. ~sopen' /\ UNCHANGED down
    BY <1>2 DEF ControllerCloses, ControllerSends
  <2>2. Closed'
    BY <1>2, <2>1 DEF Closed, WrongGroup
  <2> QED
    BY <2>1, <2>2
<1> QED
  BY <1>1, <1>2
(* communication_thread. *)
LEMMA ThreadTurn ==
    ASSUME Turn, Register \/ RecvFails \/ Leave \/ BrokenPipe
    PROVE  Turn'
<1> USE DEF Turn, agent, ghosts, net
<1>1. sopen /\ ~reset
  BY DEF Register, RecvFails, Leave, BrokenPipe, Closed
<1>2. Exchange /\ spc \in Waiting
  BY <1>1 DEF Register, RecvFails, Leave, BrokenPipe, Handshake, Exchange, Waiting
<1>3. CASE Register \/ RecvFails
  <2>1. Exchange'
    BY <1>2, <1>3 DEF Register, RecvFails, Exchange, Agreed, Heard, Idle, Waiting
  <2>2. UNCHANGED <<sopen, reset>>
    BY <1>3 DEF Register, RecvFails
  <2> QED
    BY <1>1, <2>1, <2>2
<1>4. CASE Leave
  <2>1. sopen' = FALSE /\ UNCHANGED down
    BY <1>4 DEF Leave, ControllerCloses
  <2>2. Closed'
    BY <1>2, <1>4, <2>1 DEF Leave, Exchange, Closed, Agreed, Heard
  <2> QED
    BY <2>1, <2>2
<1>5. CASE BrokenPipe
  BY <1>1, <1>5 DEF BrokenPipe
<1> QED
  BY <1>3, <1>4, <1>5

LEMMA RecvFeaturesTurn ==
    ASSUME Turn, RecvFeatures, aligned'
    PROVE  Turn'
<1> USE DEF Turn, RecvFeatures, agent
<1>1. sopen /\ ~reset /\ Exchange /\ up # <<>>
  BY DEF Handshake
<1>2. apc = "command" /\ aopen /\ ~told /\ up = <<Point, Digits>> /\ down = <<>> /\ Agreed
  BY <1>1 DEF Exchange, Idle
<1>3. up' = <<>>
  BY <1>2, PointFacts DEF WholeUp
<1>4. Exchange'
  BY <1>2, <1>3 DEF Exchange, Agreed, Heard, Idle
<1> QED
  BY <1>1, <1>4

LEMMA CommandTurn ==
    ASSUME Turn, SendContinue \/ SendRejuvenate, aligned'
    PROVE  Turn'
<1> USE DEF Turn, agent
<1>1. sopen /\ ~reset
  BY DEF Closed, SendContinue, SendRejuvenate
<1>2. Exchange /\ aopen /\ ~told /\ apc = "command" /\ Idle /\ Agreed
  BY <1>1 DEF Handshake, Exchange, Waiting, SendContinue, SendRejuvenate
<1>3. ~ControllerCannotSend
  BY <1>1, <1>2, CanSend DEF Idle
<1>4. CASE SendContinue
  <2>1. ControllerSends(<<"CONTINUE", "zeros">>) /\ spc' = "recv"
    BY <1>3, <1>4 DEF SendContinue
  <2>2. down' = <<"CONTINUE", "zeros">> /\ UNCHANGED <<reset, up, aopen, sopen>>
    BY <1>1, <1>2, <2>1, SendsWhole DEF Answer, Idle
  <2>3. Exchange'
    BY <1>2, <1>4, <2>1, <2>2 DEF SendContinue, Exchange, Agreed, Heard, Idle, Waiting
  <2> QED
    BY <1>1, <2>2, <2>3
<1>5. CASE SendRejuvenate
  <2>1. ControllerSends(<<"REJUVENATE", "zeros">>) /\ told' = TRUE
    BY <1>3, <1>5 DEF SendRejuvenate
  <2>2. down' = <<"REJUVENATE", "zeros">> /\ UNCHANGED <<reset, up, aopen, sopen>>
    BY <1>1, <1>2, <2>1, SendsWhole DEF Answer, Idle
  <2>3. Exchange'
    BY <1>2, <1>5, <2>1, <2>2 DEF SendRejuvenate, Exchange, Agreed, Heard, Idle
  <2> QED
    BY <1>1, <2>2, <2>3
<1> QED
  BY <1>4, <1>5

(* The agent. *)
LEMMA AgentSendsTurn ==
    ASSUME TypeOK, Turn, SendInfo \/ Ask \/ SendPoint
    PROVE  Turn'
<1> USE DEF Turn, controller, ghosts
<1>1. /\ UNCHANGED <<down, aopen, sopen, state, spc, sservice, sstate, registered, told>>
  BY DEF SendInfo, Ask, SendPoint, AgentSends
<1>2. CASE ~sopen
  <2>1. Closed'
    BY <1>1, <1>2 DEF Closed, SendInfo, Ask, SendPoint, Agreed, Heard, WrongGroup
  <2> QED
    BY <1>1, <1>2, <2>1
<1>3. CASE sopen
  <2>1. CASE SendPoint
    <3>1. Exchange /\ Agreed /\ aopen /\ ~told /\ spc \in Waiting /\ Idle
      BY <1>3, <2>1 DEF SendPoint, Handshake, Exchange
    <3>2. up' = <<Point, Digits>> /\ UNCHANGED reset
      BY <1>3, <2>1, <3>1, PointFacts DEF SendPoint, AgentSends, Idle
    <3>3. Exchange'
      BY <1>1, <2>1, <3>1, <3>2 DEF SendPoint, Exchange, Agreed, Heard, Idle, Waiting
    <3> QED
      BY <1>1, <1>3, <3>2, <3>3
  <2>2. CASE SendInfo \/ Ask
    <3>1. Handshake /\ spc \in {"accept", "info", "again"} /\ Idle
      BY <1>3, <2>2 DEF SendInfo, Ask, Handshake, Exchange
    <3>2. /\ apc' = "ack" /\ service' \in Service
          /\ AgentSends(Info(service', state))
      BY <2>2 DEF SendInfo, Ask, TypeOK
    <3>3. up' = Info(service', state) /\ UNCHANGED reset
      BY <1>3, <3>1, <3>2, InfoProperties DEF AgentSends, Idle, TypeOK
    <3>4. Handshake'
      <4>1. Info(service, state)' = Info(service', state)
        BY <1>1 DEF Info
      <4> QED
        BY <1>1, <3>1, <3>2, <3>3, <4>1 DEF Handshake, Idle, WrongGroup
    <3> QED
      BY <1>1, <1>3, <3>3, <3>4
  <2> QED
    BY <2>1, <2>2
<1> QED
  BY <1>2, <1>3

LEMMA AgentReceivesTurn ==
    ASSUME TypeOK, Turn, RecvAck \/ RecvCommand, aligned'
    PROVE  Turn'
<1> USE DEF Turn, controller
<1>1. /\ UNCHANGED <<up, aopen, sopen, reset, service, state, spc, sservice, sstate, told>>
      /\ down # <<>> /\ down' = Rest(down, 2)
  BY DEF RecvAck, RecvCommand, WholeDown
<1>2. /\ apc = "ack" \/ apc = "command"
      /\ apc = "ack" => apc' = IF Head(down) = "ok" THEN "features" ELSE "ask"
      /\ apc = "command" => apc' = IF Head(down) = "REJUVENATE" THEN "rejuvenate"
                                                                ELSE "features"
  BY DEF RecvAck, RecvCommand, Obeys
<1>3. \A a \in Answer : down = <<a, "zeros">> => Head(down) = a /\ down' = <<>>
  BY <1>1, AnswerFacts
<1>4. CASE ~sopen
  <2>1. Closed'
    <3>1. CASE apc = "ack" /\ down = <<"groups", "zeros">> /\ spc \in {"gone", "reply", "again"}
      BY <1>1, <1>2, <1>3, <1>4, <3>1 DEF Closed, Answer, WrongGroup
    <3>2. CASE spc = "done" /\ Agreed
      BY <1>1, <1>2, <1>3, <1>4, <3>2 DEF Closed, Answer, Agreed, Heard
    <3> QED
      BY <1>1, <1>2, <1>4, <3>1, <3>2 DEF Closed
  <2> QED
    BY <1>1, <1>4, <2>1
<1>5. CASE sopen /\ Handshake
  <2>1. spc = "again" /\ apc = "ack" /\ up = <<>> /\ down = <<"groups", "zeros">>
    BY <1>1, <1>2, <1>5 DEF Handshake, Idle
  <2>2. Handshake'
    BY <1>1, <1>2, <1>3, <1>5, <2>1 DEF Handshake, Answer, Idle, WrongGroup
  <2> QED
    BY <1>1, <1>5, <2>2
<1>6. CASE sopen /\ Exchange
  <2>1. /\ Agreed /\ aopen /\ up = <<>>
        /\ \/ apc = "ack" /\ down = <<"ok", "zeros">> /\ ~told /\ spc \in Waiting
           \/ apc = "command" /\ down = <<"CONTINUE", "zeros">> /\ ~told /\ spc \in Waiting
           \/ /\ apc = "command" /\ down = <<"REJUVENATE", "zeros">> /\ told
              /\ spc \in {"recv", "leave"}
    BY <1>1, <1>2, <1>6 DEF Exchange, Idle
  <2>2. Exchange'
    BY <1>1, <1>2, <1>3, <2>1 DEF Exchange, Answer, Idle, Agreed, Heard, Waiting
  <2> QED
    BY <1>1, <1>6, <2>2
<1> QED
  BY <1>4, <1>5, <1>6

LEMMA AgentAloneTurn ==
    ASSUME TypeOK, Turn, AgentAlone, ~Crash
    PROVE  Turn'
<1> USE DEF Turn, controller, ghosts
<1>1. UNCHANGED <<service, state, spc, sservice, sstate, told>>
  BY DEF AgentAlone, Connect, RecvAckFails, SendInfoFails, SendPointFails,
     FeaturesFail, RecvCommandZero, RecvCommandFails, Reboot
<1>2. UNCHANGED <<up, down, sopen>>
  BY DEF AgentAlone, Connect, RecvAckFails, SendInfoFails, SendPointFails,
     FeaturesFail, RecvCommandZero, RecvCommandFails, Reboot, AgentCloses, net
<1>3. CASE ~sopen
  <2>1. \/ apc = "ack" /\ down = <<>> /\ apc' = "ask"
        \/ apc \in {"info", "ask"} /\ apc' = "exited"
        \/ /\ apc \in {"features", "command", "rejuvenate"}
           /\ apc' \in {"features", "exited", "rebooted"}
        \/ apc = "connect"
    BY DEF AgentAlone, Connect, RecvAckFails, SendInfoFails, SendPointFails, AgentHearsEnd,
       FeaturesFail, RecvCommandZero, RecvCommandFails, Reboot, Obeys
  <2>2. Closed'
    BY <1>1, <1>2, <1>3, <2>1, AnswerFacts DEF Closed, Agreed, Heard, WrongGroup, Answer
  <2> QED
    BY <1>2, <1>3, <2>2
<1>4. CASE sopen
  <2>1. aopen \/ apc \in {"exited", "rebooted"}
    BY <1>4 DEF Handshake, Exchange
  <2>2. Connect \/ FeaturesFail \/ Reboot
    BY <1>4, <2>1 DEF AgentAlone, RecvAckFails, SendInfoFails, SendPointFails,
       AgentHearsEnd, RecvCommandZero, RecvCommandFails
  <2>3. CASE Connect
    <3>1. Handshake'
      BY <1>1, <1>2, <1>4, <2>3 DEF Connect, Handshake, Exchange, Idle, net
    <3> QED
      BY <1>2, <1>4, <2>3, <3>1 DEF Connect, net
  <2>4. CASE FeaturesFail \/ Reboot
    <3>1. Agreed /\ Idle /\ spc \in Waiting
      BY <1>4, <2>4 DEF FeaturesFail, Reboot, Handshake, Exchange, Waiting
    <3>2. aopen' = FALSE /\ ~reset' /\ apc' \in {"exited", "rebooted"}
      BY <1>4, <2>4, <3>1 DEF FeaturesFail, Reboot, AgentCloses, Idle
    <3>3. Exchange'
      BY <1>1, <1>2, <3>1, <3>2 DEF Exchange, Agreed, Heard, Idle
    <3> QED
      BY <1>2, <1>4, <3>2, <3>3
  <2> QED
    BY <2>2, <2>3, <2>4
<1> QED
  BY <1>3, <1>4

LEMMA SessionNext == SessionInv /\ [Next]_vars => SessionInv'
<1> SUFFICES ASSUME SessionInv, [Next]_vars PROVE SessionInv'
  OBVIOUS
<1>1. TornInv /\ TornInv' /\ TypeOK
  BY TornNext DEF SessionInv, TornInv
<1>2. ASSUME aligned', ~crashed' PROVE Turn'
  <2>1. CASE UNCHANGED vars
    BY <1>2, <2>1 DEF SessionInv, TurnInv, vars, net, agent, controller, ghosts, Turn,
       Handshake, Exchange, Closed, Idle, Agreed, Heard, WrongGroup, Info
  <2>2. CASE Next
    <3>1. aligned /\ ~crashed /\ ~Crash
      <4>1. ~Crash
        BY <1>2 DEF Crash
      <4>2. crashed' = crashed
        BY <2>2, <4>1 DEF Next, AgentStep, ControllerStep, ghosts, Connect, SendInfo,
           RecvAck, RecvAckFails, Ask, SendInfoFails, FeaturesFail, SendPoint,
           SendPointFails, RecvCommand, RecvCommandZero, RecvCommandFails, Reboot,
           Accept, RecvInfo, RecvInfoFails, RecvAgainFails, Reply, Register,
           RecvFeatures, RecvFails, SendContinue, SendRejuvenate, BrokenPipe, Leave
      <4>3. aligned
        BY <1>1, <1>2, <2>2, <4>1 DEF Next, AgentStep, ControllerStep, ghosts, Connect, SendInfo,
           RecvAck, RecvAckFails, Ask, SendInfoFails, FeaturesFail, SendPoint,
           SendPointFails, RecvCommand, RecvCommandZero, RecvCommandFails, Reboot,
           Accept, RecvInfo, RecvInfoFails, RecvAgainFails, Reply, Register,
           RecvFeatures, RecvFails, SendContinue, SendRejuvenate, BrokenPipe, Leave,
           ControllerSends, TypeOK
      <4> QED
        BY <1>2, <4>1, <4>2, <4>3
    <3>2. Turn
      BY <3>1 DEF SessionInv, TurnInv, Turn
    <3> QED
      BY <1>1, <1>2, <2>2, <3>1, <3>2, AcceptTurn, RecvInfoTurn, RecvInfoFailsTurn,
         RecvAgainFailsTurn, ReplyTurn, ThreadTurn, RecvFeaturesTurn, CommandTurn,
         AgentSendsTurn, AgentReceivesTurn, AgentAloneTurn
      DEF Next, AgentStep, ControllerStep, AgentAlone
  <2> QED
    BY <2>1, <2>2
<1> QED
  BY <1>1, <1>2 DEF SessionInv, TurnInv, Turn

LEMMA SessionInductive == Spec => []SessionInv
<1>1. Init => SessionInv
  BY TornInit, TurnInit DEF SessionInv
<1> QED
  BY <1>1, SessionNext, PTL DEF Spec

-----------------------------------------------------------------------------
(* Every variable has its type, however the messages are cut: a data point *)
(* never becomes a service or a state, and only an existing group gets a   *)
(* machine.                                                                *)
THEOREM SessionTypes == Spec => []TypeOK
<1>1. SessionInv => TypeOK
  BY DEF SessionInv, TornInv
<1> QED
  BY <1>1, SessionInductive, PTL

(* A machine reboots only after the controller sent it REJUVENATE, whatever *)
(* part of a message a recv() returns.                                      *)
THEOREM NoUnorderedReboot == Spec => []RebootsOnlyWhenTold
<1>1. SessionInv => RebootsOnlyWhenTold
  BY DEF SessionInv, TornInv, ToldInv, RebootsOnlyWhenTold
<1> QED
  BY <1>1, SessionInductive, PTL

(* As long as messages are whole, the two programs take turns. *)
THEOREM TurnsAreTaken == Spec => []Lockstep
<1>1. ASSUME SessionInv PROVE Lockstep
  <2> SUFFICES ASSUME aligned, sopen, ~reset, ~crashed
               PROVE  /\ Len(up) <= 2 /\ Len(down) <= 2
                      /\   One(up # <<>>) + One(down # <<>>)
                         + One(apc \in {"info", "ask", "features", "rejuvenate"})
                         + One(spc \in {"reply", "continue", "rejuvenate"}) <= 1
                      /\ told => up = <<>>
    BY DEF Lockstep
  <2>1. Handshake \/ Exchange
    BY <1>1 DEF SessionInv, TurnInv
  <2>2. /\ Len(<<>>) = 0
        /\ Len(<<Point, Digits>>) = 2
        /\ Len(Info(service, state)) = 2
        /\ \A a : Len(<<a, "zeros">>) = 2
    BY <1>1, PointFacts, InfoProperties DEF SessionInv, TornInv, TypeOK
  <2>3. PICK nu \in Nat, nd \in Nat : nu = Len(up) /\ nd = Len(down)
    BY <1>1, LenProperties DEF SessionInv, TornInv, TypeOK
  <2>4. (nu = 0 \/ nu = 2) /\ (nd = 0 \/ nd = 2) /\ (told => up = <<>>)
    BY Zenon, <2>1, <2>2, <2>3 DEF Handshake, Exchange, Idle
  <2>5. PICK a \in {0, 1}, b \in {0, 1}, c \in {0, 1}, d \in {0, 1} :
           /\ a = One(up # <<>>) /\ (a = 1 => up # <<>>)
           /\ b = One(down # <<>>) /\ (b = 1 => down # <<>>)
           /\ c = One(apc \in {"info", "ask", "features", "rejuvenate"})
           /\ c = 1 => apc \in {"info", "ask", "features", "rejuvenate"}
           /\ d = One(spc \in {"reply", "continue", "rejuvenate"})
           /\ d = 1 => spc \in {"reply", "continue", "rejuvenate"}
    BY DEF One
  <2>6. /\ ~(a = 1 /\ b = 1) /\ ~(a = 1 /\ c = 1) /\ ~(a = 1 /\ d = 1)
        /\ ~(b = 1 /\ c = 1) /\ ~(b = 1 /\ d = 1) /\ ~(c = 1 /\ d = 1)
    <3>1. CASE Handshake
      BY <2>5, <3>1 DEF Handshake, Idle
    <3>2. CASE Exchange
      BY <2>5, <3>2 DEF Exchange, Idle, Waiting
    <3> QED
      BY <2>1, <3>1, <3>2
  <2>7. a + b + c + d <= 1
    BY <2>6
  <2>8. One(up # <<>>) + One(down # <<>>)
        + One(apc \in {"info", "ask", "features", "rejuvenate"})
        + One(spc \in {"reply", "continue", "rejuvenate"}) <= 1
    BY Zenon, <2>5, <2>7
  <2>9. nu <= 2 /\ nd <= 2
    BY <2>4
  <2> QED
    BY Zenon, <2>3, <2>4, <2>8, <2>9
<1> QED
  BY <1>1, SessionInductive, PTL

(* As long as messages are whole, a connected agent and the controller     *)
(* agree on an existing service and on the machine's state.                *)
THEOREM ServiceIsAgreed == Spec => []ServiceAgreed
<1>1. ASSUME SessionInv PROVE ServiceAgreed
  <2> SUFFICES ASSUME aligned, apc \in {"features", "command", "rejuvenate"}
               PROVE  spc # "accept" /\ Agreed
    BY DEF ServiceAgreed, Agreed, Heard
  <2>1. ~crashed
    BY <1>1 DEF SessionInv, TornInv, CrashInv, AgentEnded
  <2> QED
    BY <1>1, <2>1 DEF SessionInv, TurnInv, Handshake, Exchange, Closed, Waiting
<1> QED
  BY <1>1, SessionInductive, PTL

(* As long as messages are whole, no agent that does not crash ends the    *)
(* controller by SIGPIPE.                                                  *)
THEOREM NoBrokenPipe == Spec => []ControllerSurvives
<1>1. ASSUME SessionInv PROVE ControllerSurvives
  BY <1>1 DEF SessionInv, TurnInv, ControllerSurvives, Handshake, Exchange, Closed, Waiting
<1> QED
  BY <1>1, SessionInductive, PTL

(* The turn is not lost: while the connection is open, a message is under  *)
(* way, or one of the two programs has something to do other than to wait  *)
(* for the other, or the agent has ended.                                  *)
TurnNotLost ==
    aligned /\ sopen /\ ~crashed =>
        \/ up # <<>> \/ down # <<>>
        \/ apc \in {"connect", "info", "ask", "features", "rejuvenate"} \/ AgentEnded
        \/ spc \in {"reply", "continue", "rejuvenate"}

(* With TurnsAreTaken: not only at most one of the two has the turn, one   *)
(* of them always has it.  As long as messages are whole, the agent, whose *)
(* recv() has no timeout, and the controller never wait for each other,    *)
(* however often the service is asked for again and whatever the thread    *)
(* decides.                                                                *)
THEOREM TurnIsNeverLost == Spec => []TurnNotLost
<1>1. ASSUME SessionInv PROVE TurnNotLost
  <2> SUFFICES ASSUME aligned, sopen, ~crashed, up = <<>>, down = <<>>
               PROVE  \/ apc \in {"connect", "info", "ask", "features", "rejuvenate"}
                      \/ AgentEnded
                      \/ spc \in {"reply", "continue", "rejuvenate"}
    BY DEF TurnNotLost
  <2>1. Handshake \/ Exchange
    BY <1>1 DEF SessionInv, TurnInv
  <2>2. /\ <<>> # Info(service, state) /\ <<>> # <<Point, Digits>>
        /\ \A a : <<>> # <<a, "zeros">>
    <3>1. /\ Len(<<>>) = 0 /\ Len(<<Point, Digits>>) = 2
          /\ Len(Info(service, state)) = 2 /\ \A a : Len(<<a, "zeros">>) = 2
      BY <1>1, PointFacts, InfoProperties DEF SessionInv, TornInv, TypeOK
    <3> QED
      BY <3>1
  <2>3. CASE Handshake
    BY <2>2, <2>3 DEF Handshake, AgentEnded
  <2>4. CASE Exchange
    BY <2>2, <2>4 DEF Exchange, AgentEnded
  <2> QED
    BY <2>1, <2>3, <2>4
<1> QED
  BY <1>1, SessionInductive, PTL
=============================================================================
