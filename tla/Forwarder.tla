----------------------------- MODULE Forwarder ------------------------------
(***************************************************************************)
(* One worker of the load balancer once it is connected (deal_with_data in *)
(* controller/balancer.c, sock_read and sock_write in controller/          *)
(* sockhelp.c): it copies what the client sends to the machine and what    *)
(* the machine sends to the client, through two buffers, in a loop around  *)
(* select().                                                               *)
(*                                                                         *)
(* Bytes are numbered per sender.  FORWARD_BUFFER_SIZE is counted in such  *)
(* units.  select() is given the same set for reading and for writing, so  *)
(* what it leaves there is the set of writable sockets.                    *)
(***************************************************************************)
EXTENDS Naturals, Sequences

CONSTANTS FORWARD_BUFFER_SIZE,
          MaxBytes,     \* bound: per side, bytes it sends
          Faults        \* see FaultKind

(***************************************************************************)
(* "block" write() stops early because the socket buffer is full           *)
(* "error" read() fails                                                    *)
(* "move"  realloc() returns another address                               *)
(***************************************************************************)
FaultKind == {"block", "error", "move"}

ASSUME ForwarderConstants == /\ FORWARD_BUFFER_SIZE \in Nat \ {0}
                             /\ MaxBytes \in [{"client", "vm"} -> Nat]
                             /\ Faults \subseteq FaultKind

Side == {"client", "vm"}
Other(x) == IF x = "client" THEN "vm" ELSE "client"
Garbage == 0           \* what is read through a pointer realloc() invalidated
Byte == UNION {1 .. MaxBytes[x] : x \in Side}

VARIABLES
    sent,      \* per side, bytes it has sent
    unread,    \* per side, those not yet read by the worker
    eof,       \* sides that have shut down
    buffer,    \* per side, bytes_ready_to_client / bytes_ready_from_client:
               \* what is kept for that side
    size,      \* per side, memory of that buffer
    moved,     \* sides whose buffer pointer realloc() invalidated
    times,     \* as in the code, shared by both buffers
    out,       \* per side, what was written to it
    clipped,   \* per side, the bytes that a write to it which stopped early
               \* left out (ghost)
    socks,     \* result of select()
    pc

env == <<sent, unread, eof>>
vars == <<env, buffer, size, moved, times, out, clipped, socks, pc>>

Init == /\ sent = [x \in Side |-> 0]
        /\ unread = [x \in Side |-> <<>>]
        /\ eof = {}
        /\ buffer = [x \in Side |-> <<>>]
        /\ size = [x \in Side |-> FORWARD_BUFFER_SIZE]
        /\ moved = {}
        /\ times = 2
        /\ out = [x \in Side |-> <<>>]
        /\ clipped = [x \in Side |-> {}]
        /\ socks = {}
        /\ pc = "select"

-----------------------------------------------------------------------------
(* The client and the machine.                                             *)

PeerSend(x) ==
    /\ x \notin eof
    /\ sent[x] < MaxBytes[x]
    /\ sent' = [sent EXCEPT ![x] = @ + 1]
    /\ unread' = [unread EXCEPT ![x] = Append(@, sent[x] + 1)]
    /\ UNCHANGED <<eof, buffer, size, moved, times, out, clipped, socks, pc>>

PeerClose(x) ==
    /\ x \notin eof
    /\ eof' = eof \union {x}
    /\ UNCHANGED <<sent, unread, buffer, size, moved, times, out, clipped, socks, pc>>

-----------------------------------------------------------------------------
(* The worker.                                                             *)

\* select() with a timeout of one second: no, one or two sockets are writable.
Select ==
    /\ pc = "select"
    /\ \E w \in SUBSET Side : /\ socks' = w
                              /\ pc' = IF w = {} THEN "select" ELSE "write client"
    /\ UNCHANGED <<env, buffer, size, moved, times, out, clipped>>

\* Where the loop body goes after the write to, and the read from, a side.
ReadPc(x) == IF x = "client" THEN "read client" ELSE "read vm"
WritePc(x) == IF x = "client" THEN "write client" ELSE "write vm"
AfterRead(x) == IF x = "client" THEN "write vm" ELSE "select"

NotReady(x) ==
    /\ pc = WritePc(x)
    /\ x \notin socks
    /\ pc' = AfterRead(x)
    /\ UNCHANGED <<env, buffer, size, moved, times, out, clipped, socks>>

\* What write() sends: the buffer, or a wild region of the same length.
Content(x) == IF x \in moved THEN [i \in 1 .. Len(buffer[x]) |-> Garbage] ELSE buffer[x]

\* How many of n bytes sock_write() may have written when it returns: it repeats
\* write() until all are written or write() fails, EWOULDBLOCK included.
SockWrite(n) == IF "block" \in Faults THEN 0 .. n ELSE {n}

\* Mutant: bytes_ready is not reset.
WriteKeepsBuffer(x) ==
    /\ pc = WritePc(x)
    /\ x \in socks
    /\ out' = [out EXCEPT ![x] = @ \o buffer[x]]
    /\ Len(out'[x]) <= 2 * MaxBytes[Other(x)]
    /\ pc' = ReadPc(x)
    /\ UNCHANGED <<env, buffer, size, moved, times, clipped, socks>>

\* Mutant: bytes_ready is reset before the call, which then writes nothing.
WriteResetsFirst(x) ==
    /\ pc = WritePc(x)
    /\ x \in socks
    /\ buffer' = [buffer EXCEPT ![x] = <<>>]
    /\ pc' = ReadPc(x)
    /\ UNCHANGED <<env, size, moved, times, out, clipped, socks>>

\* The buffer is emptied whether sock_write() wrote all of it or not.
Write(x) ==
    /\ pc = WritePc(x)
    /\ x \in socks
    /\ \E n \in SockWrite(Len(buffer[x])) :
          /\ out' = [out EXCEPT ![x] = @ \o SubSeq(Content(x), 1, n)]
          /\ clipped' = [clipped EXCEPT ![x] =
                            @ \union {buffer[x][i] : i \in (n + 1) .. Len(buffer[x])}]
    /\ buffer' = [buffer EXCEPT ![x] = <<>>]
    /\ pc' = ReadPc(x)
    /\ UNCHANGED <<env, size, moved, times, socks>>

\* Mutant: the test ignores the bytes about to be appended.
AppendIgnoresNew(y, bytes) ==
    /\ buffer' = [buffer EXCEPT ![y] = @ \o bytes]
    /\ IF Len(buffer[y]) >= FORWARD_BUFFER_SIZE
       THEN /\ size' = [size EXCEPT ![y] = times * FORWARD_BUFFER_SIZE]
            /\ times' = times + 1
            /\ UNCHANGED moved
       ELSE UNCHANGED <<size, times, moved>>

\* append_buffer(buffer kept for y, n bytes): the enlarged block's address stays
\* in append_buffer's parameter.
AppendBuffer(y, bytes) ==
    /\ buffer' = [buffer EXCEPT ![y] = @ \o bytes]
    /\ IF Len(buffer[y]) + Len(bytes) >= FORWARD_BUFFER_SIZE
       THEN /\ size' = [size EXCEPT ![y] = times * FORWARD_BUFFER_SIZE]
            /\ times' = times + 1
            /\ \/ UNCHANGED moved
               \/ "move" \in Faults /\ moved' = moved \union {y}
       ELSE UNCHANGED <<size, times, moved>>

\* How many bytes sock_read() may return: it is one read(), of what has arrived.
SockRead(x) == {n \in 1 .. Len(unread[x]) : n <= FORWARD_BUFFER_SIZE}

ReadSome(x) ==
    /\ pc = ReadPc(x)
    /\ \E n \in SockRead(x) :
          /\ AppendBuffer(Other(x), SubSeq(unread[x], 1, n))
          /\ unread' = [unread EXCEPT ![x] = SubSeq(@, n + 1, Len(@))]
    /\ pc' = AfterRead(x)
    /\ UNCHANGED <<sent, eof, out, clipped, socks>>

\* NOT_AVAILABLE, or an error, which is only reported.
ReadNothing(x) ==
    /\ pc = ReadPc(x)
    /\ (unread[x] = <<>> /\ x \notin eof) \/ "error" \in Faults
    /\ pc' = AfterRead(x)
    /\ UNCHANGED <<env, buffer, size, moved, times, out, clipped, socks>>

\* Mutant: the end of the stream is taken for "nothing available".
ReadEndIgnored(x) ==
    /\ pc = ReadPc(x)
    /\ unread[x] = <<>>
    /\ x \in eof
    /\ pc' = AfterRead(x)
    /\ UNCHANGED <<env, buffer, size, moved, times, out, clipped, socks>>

\* read() returns 0: both sockets are closed and the thread ends.
ReadEnd(x) ==
    /\ pc = ReadPc(x)
    /\ unread[x] = <<>>
    /\ x \in eof
    /\ pc' = "done"
    /\ UNCHANGED <<env, buffer, size, moved, times, out, clipped, socks>>

WorkerStep == \/ Select
              \/ \E x \in Side : NotReady(x) \/ Write(x)
                                 \/ ReadSome(x) \/ ReadNothing(x) \/ ReadEnd(x)

Next == WorkerStep \/ \E x \in Side : PeerSend(x) \/ PeerClose(x)

Spec == Init /\ [][Next]_vars

\* The worker runs, a socket is writable again and again, and read() on a
\* closed stream does not fail for ever: a pending error is reported once.
FairSpec == /\ Spec
            /\ WF_vars(WorkerStep)
            /\ \A x \in Side : /\ SF_vars(Select /\ x \in socks')
                               /\ SF_vars(ReadSome(x) \/ ReadEnd(x))

-----------------------------------------------------------------------------
(* Properties.                                                             *)

Pcs == {"select", "write client", "read client", "write vm", "read vm", "done"}

\* Every variable has its type.
TypeOK ==
    /\ sent \in [Side -> {0} \union Byte]
    /\ unread \in [Side -> Seq(Byte)]
    /\ eof \subseteq Side
    /\ buffer \in [Side -> Seq(Byte)]
    /\ size \in [Side -> Nat]
    /\ moved \subseteq Side
    /\ times \in Nat
    /\ out \in [Side -> Seq(Byte \union {Garbage})]
    /\ clipped \in [Side -> SUBSET Byte]
    /\ socks \subseteq Side
    /\ pc \in Pcs

Stream(x) == out[x] \o buffer[x] \o unread[Other(x)]

\* As long as realloc() has not moved the buffer kept for a side: what it
\* received, what is kept for it and what was not read yet are together what
\* the other side sent, in order and without repetition; and all of it, unless
\* a write to that side stopped early.  What goes wrong in one direction leaves
\* the other alone.
Conserved ==
    \A x \in Side \ moved :
        LET n == Len(Stream(x)) IN
        /\ \A i \in 1 .. (n - 1) : Stream(x)[i] < Stream(x)[i + 1]
        /\ \A i \in 1 .. n : Stream(x)[i] \in 1 .. sent[Other(x)]
        /\ clipped[x] = {} => n = sent[Other(x)]

\* Although both directions share the counter times, a buffer is never asked to
\* hold more than the memory append_buffer obtained for it.
BufferFits == \A x \in Side : Len(buffer[x]) <= size[x]

\* A worker whose client or machine has gone ends, and closes the other side.
WorkerEnds == eof # {} ~> pc = "done"

\* Every byte that the worker has read for x so far was written to x, or was in a
\* write to x that stopped early and left it out.
AllWritten(x) ==
    \A b \in 1 .. (sent[Other(x)] - Len(unread[Other(x)])) :
        b \in clipped[x] \/ \E i \in 1 .. Len(out[x]) : out[x][i] = b

\* Whenever something is kept for a side, there is a later moment at which every
\* byte read for that side until then was written to it, whatever happens in the
\* other direction: a byte is lost only by the very write that carries it, when
\* it stops early and the buffer is cleared all the same (balancer.c:310-315),
\* when realloc() has moved the buffer, or when the end of a stream ends the
\* worker first.
Delivered ==
    \A x \in Side : buffer[x] # <<>> ~> AllWritten(x) \/ x \in moved \/ pc = "done"
=============================================================================
