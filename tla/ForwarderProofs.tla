-------------------------- MODULE ForwarderProofs ---------------------------
(***************************************************************************)
(* Proofs about Forwarder, for any FORWARD_BUFFER_SIZE, any number of      *)
(* bytes and any faults.                                                   *)
(***************************************************************************)
EXTENDS Forwarder, SequenceTheorems, TLAPS

(* Part of a stream of m numbered bytes: each byte is smaller than all     *)
(* that follow it, not only than the next one, so that a gap in the middle *)
(* leaves it so; whole if none is missing.                                 *)
Part(q, m, whole) ==
    /\ \A i, j \in 1 .. Len(q) : i < j => q[i] < q[j]
    /\ \A i \in 1 .. Len(q) : q[i] \in 1 .. m
    /\ whole => Len(q) = m

StreamInv ==
    \A x \in Side \ moved : Part(Stream(x), sent[Other(x)], clipped[x] = {})

(* times is one more than the greatest number of FORWARD_BUFFER_SIZEs that *)
(* either buffer was ever given: what is kept for a side is less than that *)
(* even when it was the other side's buffer that was enlarged last.        *)
RoomInv ==
    /\ times >= 2
    /\ \A x \in Side : /\ size[x] >= FORWARD_BUFFER_SIZE
                       /\ Len(buffer[x]) <= size[x]
                       /\ Len(buffer[x]) <= (times - 1) * FORWARD_BUFFER_SIZE

ForwarderInv == TypeOK /\ StreamInv /\ RoomInv

-----------------------------------------------------------------------------
(* Sequences of bytes.                                                     *)

Cell == Byte \union {Garbage}

LEMMA CellIsNat == Cell \subseteq Nat /\ Byte \subseteq Cell /\ {0} \union Byte \subseteq Nat
BY ForwarderConstants DEF Cell, Byte, Garbage, Side

(* One more byte at the end, the next one. *)
LEMMA PartGrows ==
    ASSUME NEW q \in Seq(Cell), NEW m \in Nat, m + 1 \in Cell, NEW w \in BOOLEAN,
           Part(q, m, w)
    PROVE  Part(Append(q, m + 1), m + 1, w)
<1> DEFINE r == Append(q, m + 1)
<1>1. /\ Len(q) \in Nat /\ Len(r) = Len(q) + 1
      /\ \A i \in 1 .. Len(q) : r[i] = q[i]
      /\ r[Len(q) + 1] = m + 1
  BY AppendProperties, LenProperties
<1> HIDE DEF r
<1>2. \A i \in 1 .. Len(r) : i = Len(q) + 1 \/ i \in 1 .. Len(q)
  BY <1>1
<1>3. \A i \in 1 .. Len(q) : q[i] \in Nat /\ q[i] <= m
  BY DEF Part
<1>4. \A i \in 1 .. Len(r) : r[i] \in 1 .. (m + 1)
  BY <1>1, <1>2, <1>3 DEF Part
<1>5. ASSUME NEW i \in 1 .. Len(r), NEW j \in 1 .. Len(r), i < j PROVE r[i] < r[j]
  <2>1. i \in 1 .. Len(q)
    BY <1>1, <1>5
  <2>2. CASE j = Len(q) + 1
    BY <1>1, <1>3, <2>1, <2>2
  <2>3. CASE j \in 1 .. Len(q)
    BY <1>1, <1>5, <2>1, <2>3 DEF Part
  <2> QED
    BY <1>2, <2>2, <2>3
<1>6. w => Len(r) = m + 1
  BY <1>1 DEF Part
<1> QED
  BY <1>4, <1>5, <1>6 DEF Part, r

(* The bytes from n + 1 to n + d are lost. *)
LEMMA PartLoses ==
    ASSUME NEW q \in Seq(Cell), NEW r \in Seq(Cell), NEW m, NEW w,
           NEW n \in Nat, NEW d \in Nat,
           Part(q, m, w), Len(q) = Len(r) + d, n <= Len(r),
           \A i \in 1 .. Len(r) : r[i] = q[IF i <= n THEN i ELSE i + d]
    PROVE  Part(r, m, FALSE)
<1> DEFINE f(i) == IF i <= n THEN i ELSE i + d
<1>1. Len(q) \in Nat /\ Len(r) \in Nat
  BY LenProperties
<1>2. \A i \in 1 .. Len(r) : f(i) \in 1 .. Len(q)
  BY <1>1
<1>3. \A i, j \in 1 .. Len(r) : i < j => f(i) < f(j)
  BY <1>1
<1>4. \A i \in 1 .. Len(r) : r[i] = q[f(i)]
  OBVIOUS
<1> HIDE DEF f
<1> QED
  BY <1>2, <1>3, <1>4 DEF Part

LEMMA Associative ==
    \A a, b, c \in Seq(Cell) : (a \o b) \o c = a \o (b \o c)
<1>1. ASSUME NEW a \in Seq(Cell), NEW b \in Seq(Cell), NEW c \in Seq(Cell)
      PROVE  (a \o b) \o c = a \o (b \o c)
  BY ConcatAssociative
<1> QED
  BY <1>1

(* The same with a name the provers take as it stands. *)
Cat(a, b) == a \o b

LEMMA CatAssociative ==
    \A a, b, c \in Seq(Cell) : /\ Cat(a, b) \in Seq(Cell)
                               /\ Cat(Cat(a, b), c) = Cat(a, Cat(b, c))
BY Associative, ConcatProperties DEF Cat

(* Bytes move from the front of what follows a buffer to its end. *)
LEMMA Regroup ==
    \A a, b, h, r \in Seq(Cell) :
        Cat(Cat(a, Cat(b, h)), r) = Cat(Cat(a, b), Cat(h, r))
BY CatAssociative

(* Of what stands between a and u only the first part w remains. *)
LEMMA GapInStream ==
    ASSUME NEW a \in Seq(Cell), NEW b \in Seq(Cell), NEW u \in Seq(Cell),
           NEW w \in Seq(Cell), Len(w) <= Len(b), \A i \in 1 .. Len(w) : w[i] = b[i],
           NEW m, NEW c, Part((a \o b) \o u, m, c)
    PROVE  Part((a \o w) \o u, m, FALSE)
<1> DEFINE q == (a \o b) \o u
           r == (a \o w) \o u
<1>1. PICK la \in Nat, lb \in Nat, lu \in Nat, lw \in Nat :
         la = Len(a) /\ lb = Len(b) /\ lu = Len(u) /\ lw = Len(w)
  BY LenProperties
<1>2. /\ a \o b \in Seq(Cell) /\ Len(a \o b) = la + lb
      /\ \A i \in 1 .. (la + lb) : (a \o b)[i] = IF i <= la THEN a[i] ELSE b[i - la]
  BY <1>1, ConcatProperties
<1>3. /\ a \o w \in Seq(Cell) /\ Len(a \o w) = la + lw
      /\ \A i \in 1 .. (la + lw) : (a \o w)[i] = IF i <= la THEN a[i] ELSE w[i - la]
  BY <1>1, ConcatProperties
<1>4. /\ q \in Seq(Cell) /\ Len(q) = la + lb + lu
      /\ \A i \in 1 .. (la + lb + lu) :
            q[i] = IF i <= la + lb THEN (a \o b)[i] ELSE u[i - (la + lb)]
  BY <1>1, <1>2, ConcatProperties
<1>5. /\ r \in Seq(Cell) /\ Len(r) = la + lw + lu
      /\ \A i \in 1 .. (la + lw + lu) :
            r[i] = IF i <= la + lw THEN (a \o w)[i] ELSE u[i - (la + lw)]
  BY <1>1, <1>3, ConcatProperties
<1>6. Part(q, m, c)
  OBVIOUS
<1> HIDE DEF q, r
<1>7. PICK k \in Nat, d \in Nat : k = la + lw /\ d = lb - lw
  <2>1. la + lw \in Nat /\ lb - lw \in Nat
    BY <1>1
  <2> QED
    BY <2>1
<1>8. Len(q) = Len(r) + d /\ k <= Len(r)
  BY <1>4, <1>5, <1>7
<1>9. ASSUME NEW i \in 1 .. Len(r) PROVE r[i] = q[IF i <= k THEN i ELSE i + d]
  <2>0. i \in 1 .. (la + lw + lu) /\ lw <= lb
    BY <1>1, <1>5
  <2>1. CASE i <= la
    <3>1. i <= k /\ i \in 1 .. (la + lw) /\ i \in 1 .. (la + lb) /\ i <= la + lb
          /\ i \in 1 .. (la + lb + lu)
      BY <1>7, <2>0, <2>1
    <3> QED
      BY <1>2, <1>3, <1>4, <1>5, <1>7, <2>0, <2>1, <3>1
  <2>2. CASE i > la /\ i <= k
    <3>1. /\ i - la \in 1 .. lw /\ i \in 1 .. (la + lw) /\ i \in 1 .. (la + lb)
          /\ i <= la + lb /\ ~(i <= la) /\ i \in 1 .. (la + lb + lu)
      BY <1>7, <2>0, <2>2
    <3>2. w[i - la] = b[i - la]
      BY <1>1, <3>1
    <3> QED
      BY <1>2, <1>3, <1>4, <1>5, <1>7, <2>0, <2>2, <3>1, <3>2
  <2>3. CASE i > k
    <3>1. /\ i + d \in 1 .. (la + lb + lu) /\ ~(i + d <= la + lb) /\ ~(i <= la + lw)
          /\ i + d - (la + lb) = i - (la + lw)
      BY <1>7, <2>0, <2>3
    <3>2. r[i] = u[i - (la + lw)]
      BY <1>5, <2>0, <3>1
    <3>3. q[i + d] = u[i + d - (la + lb)]
      BY <1>4, <3>1
    <3>4. q[i + d] = u[i - (la + lw)]
      BY <3>1, <3>3
    <3>5. ~(i <= k)
      BY <1>7, <2>0, <2>3
    <3> QED
      BY <3>2, <3>4, <3>5
  <2> QED
    BY <1>7, <2>0, <2>1, <2>2, <2>3
<1>10. Part(r, m, FALSE)
  BY <1>4, <1>5, <1>6, <1>8, <1>9, PartLoses
<1> QED
  BY <1>10 DEF r

-----------------------------------------------------------------------------
LEMMA ForwarderInit == Init => ForwarderInv
<1> SUFFICES ASSUME Init PROVE ForwarderInv
  OBVIOUS
<1> USE DEF Init
<1>1. TypeOK
  BY ForwarderConstants, EmptySeq DEF TypeOK, Pcs
<1>2. \A x \in Side : Stream(x) = <<>> /\ sent[Other(x)] = 0
  BY EmptySeq DEF Stream, Side, Other
<1>3. StreamInv
  BY <1>2, EmptySeq DEF StreamInv, Part
<1>4. RoomInv
  BY ForwarderConstants, EmptySeq DEF RoomInv
<1> QED
  BY <1>1, <1>3, <1>4 DEF ForwarderInv

LEMMA Sides == \A x \in Side : /\ Other(x) \in Side /\ Other(x) # x
                               /\ Other(Other(x)) = x
                               /\ \A y \in Side : y = x \/ y = Other(x)
BY DEF Side, Other

LEMMA StreamTypes ==
    ASSUME TypeOK, NEW x \in Side
    PROVE  /\ out[x] \in Seq(Cell) /\ buffer[x] \in Seq(Cell) /\ unread[x] \in Seq(Cell)
           /\ sent[x] \in Nat
<1>1. out[x] \in Seq(Cell)
  BY DEF TypeOK, Cell
<1>2. buffer[x] \in Seq(Byte) /\ unread[x] \in Seq(Byte) /\ sent[x] \in {0} \union Byte
  BY DEF TypeOK
<1>3. buffer[x] \in Seq(Cell) /\ unread[x] \in Seq(Cell)
  BY <1>2, SeqMonotonic, CellIsNat
<1>4. sent[x] \in Nat
  BY <1>2, CellIsNat
<1> QED
  BY <1>1, <1>3, <1>4

-----------------------------------------------------------------------------
(* The client and the machine.                                             *)

LEMMA PeerSendInv ==
    ASSUME ForwarderInv, NEW x \in Side, PeerSend(x)
    PROVE  ForwarderInv'
<1> USE DEF ForwarderInv
<1>1. /\ UNCHANGED <<eof, buffer, size, moved, times, out, clipped, socks, pc>>
      /\ sent' = [sent EXCEPT ![x] = sent[x] + 1]
      /\ unread' = [unread EXCEPT ![x] = Append(unread[x], sent[x] + 1)]
  BY DEF PeerSend
<1>2. sent[x] \in Nat /\ sent[x] + 1 \in Byte
  <2>1. sent[x] \in Nat
    BY StreamTypes
  <2>2. MaxBytes[x] \in Nat /\ sent[x] + 1 \in 1 .. MaxBytes[x]
    BY <2>1, ForwarderConstants DEF PeerSend, Side
  <2> QED
    BY <2>1, <2>2 DEF Byte
<1>3. unread[x] \in Seq(Byte) /\ Append(unread[x], sent[x] + 1) \in Seq(Byte)
  BY <1>2, AppendProperties DEF TypeOK
<1>4. sent' \in [Side -> {0} \union Byte] /\ unread' \in [Side -> Seq(Byte)]
  BY <1>1, <1>2, <1>3 DEF TypeOK
<1>5. TypeOK'
  BY <1>1, <1>4 DEF TypeOK
<1>6. RoomInv'
  BY <1>1 DEF RoomInv
<1>7. StreamInv'
  <2> SUFFICES ASSUME NEW y \in Side \ moved
               PROVE  Part(Stream(y)', sent'[Other(y)], clipped[y] = {})
    BY <1>1 DEF StreamInv
  <2>1. Part(Stream(y), sent[Other(y)], clipped[y] = {})
    BY DEF StreamInv
  <2>2. CASE Other(y) # x
    BY <1>1, <2>1, <2>2, Sides DEF TypeOK, Stream
  <2>3. CASE Other(y) = x
    <3> DEFINE a == out[y] \o buffer[y]
               e == sent[x] + 1
    <3>1. a \in Seq(Cell) /\ unread[x] \in Seq(Cell) /\ e \in Cell
      BY <1>2, StreamTypes, ConcatProperties, CellIsNat
    <3>2. Stream(y) = a \o unread[x] /\ Stream(y)' = a \o Append(unread[x], e)
      BY <1>1, <2>3 DEF Stream, TypeOK
    <3> HIDE DEF a
    <3>3. a \o Append(unread[x], e) = Append(a \o unread[x], e)
      BY <3>1
    <3>4. a \o unread[x] \in Seq(Cell)
      BY <3>1, ConcatProperties
    <3>5. sent'[x] = e
      BY <1>1 DEF TypeOK
    <3> QED
      BY <1>2, <2>1, <2>3, <3>1, <3>2, <3>3, <3>4, <3>5, PartGrows
  <2> QED
    BY <2>2, <2>3
<1> QED
  BY <1>5, <1>6, <1>7

(* Steps that touch neither the bytes nor the buffers. *)
LEMMA BytesUnchanged ==
    ASSUME ForwarderInv,
           UNCHANGED <<sent, unread, buffer, size, moved, times, out, clipped>>,
           eof' \subseteq Side, socks' \subseteq Side, pc' \in Pcs
    PROVE  ForwarderInv'
<1>1. TypeOK'
  BY DEF ForwarderInv, TypeOK
<1>2. StreamInv'
  BY DEF ForwarderInv, StreamInv, Stream
<1>3. RoomInv'
  BY DEF ForwarderInv, RoomInv
<1> QED
  BY <1>1, <1>2, <1>3 DEF ForwarderInv

-----------------------------------------------------------------------------
(* The worker.                                                             *)

(* The buffer is written, or a first part of it; in any case it is empty   *)
(* afterwards.                                                             *)
LEMMA WriteInv ==
    ASSUME ForwarderInv, NEW x \in Side, Write(x)
    PROVE  ForwarderInv'
<1> USE DEF ForwarderInv
<1> DEFINE b == buffer[x]
           u == unread[Other(x)]
<1>1. PICK n \in SockWrite(Len(b)) :
         /\ out' = [out EXCEPT ![x] = @ \o SubSeq(Content(x), 1, n)]
         /\ clipped' = [clipped EXCEPT ![x] = @ \union {b[i] : i \in (n + 1) .. Len(b)}]
  BY DEF Write
<1>2. /\ buffer' = [buffer EXCEPT ![x] = <<>>]
      /\ UNCHANGED <<env, size, moved, times, socks>>
      /\ pc' \in Pcs
  BY DEF Write, ReadPc, Pcs
<1>3. Other(x) \in Side /\ b \in Seq(Cell) /\ u \in Seq(Cell) /\ out[x] \in Seq(Cell)
  BY StreamTypes, Sides
<1>4. Len(b) \in Nat /\ n \in 0 .. Len(b)
  BY <1>3, LenProperties DEF SockWrite
<1>5. /\ \A i \in 1 .. n : Content(x)[i] \in Cell
      /\ x \notin moved => Content(x) = b
  <2>1. CASE x \in moved
    BY <1>4, <2>1 DEF Content, Cell
  <2>2. CASE x \notin moved
    BY <1>3, <1>4, <2>2, ElementOfSeq DEF Content
  <2> QED
    BY <2>1, <2>2
<1> DEFINE w == SubSeq(Content(x), 1, n)
<1>6. /\ w \in Seq(Cell) /\ Len(w) = n
      /\ \A i \in 1 .. n : w[i] = Content(x)[i]
  BY <1>4, <1>5, SubSeqProperties
<1>7. out' = [out EXCEPT ![x] = out[x] \o w]
  BY <1>1
<1> HIDE DEF w
<1>8. out[x] \o w \in Seq(Cell)
  BY <1>3, <1>6, ConcatProperties
<1>9. TypeOK'
  <2>1. out' \in [Side -> Seq(Byte \union {Garbage})]
    BY <1>7, <1>8 DEF TypeOK, Cell
  <2>2. buffer' \in [Side -> Seq(Byte)]
    BY <1>2, EmptySeq DEF TypeOK
  <2>3. clipped' \in [Side -> SUBSET Byte]
    <3>1. \A i \in (n + 1) .. Len(b) : b[i] \in Byte
      BY <1>4 DEF TypeOK
    <3> QED
      BY <1>1, <3>1 DEF TypeOK
  <2> QED
    BY <1>2, <2>1, <2>2, <2>3 DEF TypeOK, env
<1>10. RoomInv'
  <2>1. \A y \in Side : Len(buffer'[y]) <= Len(buffer[y]) /\ Len(buffer'[y]) \in Nat
                        /\ Len(buffer[y]) \in Nat
    BY <1>2, StreamTypes, LenProperties, EmptySeq DEF TypeOK
  <2>2. \A y \in Side : size[y] \in Nat /\ times \in Nat /\ (times - 1) * FORWARD_BUFFER_SIZE \in Int
    BY ForwarderConstants DEF TypeOK
  <2> QED
    BY <1>2, <2>1, <2>2 DEF RoomInv
<1>11. StreamInv'
  <2> SUFFICES ASSUME NEW y \in Side \ moved
               PROVE  Part(Stream(y)', sent'[Other(y)], clipped'[y] = {})
    BY <1>2 DEF StreamInv
  <2>1. Part(Stream(y), sent[Other(y)], clipped[y] = {})
    BY DEF StreamInv
  <2>2. CASE y # x
    BY <1>1, <1>2, <1>7, <2>1, <2>2 DEF Stream, TypeOK, env
  <2>3. CASE y = x
    <3> DEFINE q == (out[x] \o b) \o u
               r == ((out[x] \o w) \o <<>>) \o u
    <3>1. Stream(x) = q /\ Stream(x)' = r /\ UNCHANGED sent
      BY <1>2, <1>3, <1>7 DEF Stream, TypeOK, env
    <3>2. (out[x] \o w) \o <<>> = out[x] \o w
      BY <1>8, ConcatEmptySeq
    <3>3. \A i \in 1 .. n : w[i] = b[i]
      BY <1>5, <1>6, <2>3
    <3>4. CASE n = Len(b)
      <4>1. w = b
        BY <1>3, <1>6, <3>3, <3>4, SeqEqual
      <4>2. q = r /\ clipped'[x] = clipped[x]
        <5>1. (n + 1) .. Len(b) = {}
          BY <1>4, <3>4
        <5>2. clipped'[x] = clipped[x]
          BY <1>1, <5>1 DEF TypeOK
        <5> QED
          BY <3>2, <4>1, <5>2
      <4> QED
        BY <2>1, <2>3, <3>1, <4>2
    <3>5. CASE n # Len(b)
      <4>1. clipped'[x] # {}
        <5>1. Len(b) \in (n + 1) .. Len(b)
          BY <1>4, <3>5
        <5>2. b[Len(b)] \in clipped'[x]
          <6>1. clipped'[x] = clipped[x] \union {b[i] : i \in (n + 1) .. Len(b)}
            <7> HIDE DEF b
            <7> QED
              BY <1>1 DEF TypeOK
          <6> QED
            BY <5>1, <6>1
        <5> QED
          BY <5>2
      <4>2. Part((out[x] \o b) \o u, sent[Other(x)], clipped[x] = {})
        BY <2>1, <2>3, <3>1
      <4>3. Part((out[x] \o w) \o u, sent[Other(x)], FALSE)
        <5>1. \A i \in 1 .. Len(w) : w[i] = b[i]
          BY <1>6, <3>3
        <5>2. Len(w) <= Len(b)
          BY <1>4, <1>6
        <5> HIDE DEF b, u
        <5> QED
          BY <1>3, <1>6, <4>2, <5>1, <5>2, GapInStream
      <4> QED
        BY <2>3, <3>1, <3>2, <4>1, <4>3
    <3> QED
      BY <3>4, <3>5
  <2> QED
    BY <2>2, <2>3
<1> QED
  BY <1>9, <1>10, <1>11

(* append_buffer: as much is added to the buffer as was given to it, and   *)
(* the buffer is enlarged to times FORWARD_BUFFER_SIZEs when it has to.    *)
LEMMA AppendRoom ==
    ASSUME RoomInv, TypeOK, NEW y \in Side, NEW bytes \in Seq(Byte),
           Len(bytes) <= FORWARD_BUFFER_SIZE, AppendBuffer(y, bytes)
    PROVE  /\ RoomInv'
           /\ buffer' \in [Side -> Seq(Byte)] /\ size' \in [Side -> Nat]
           /\ times' \in Nat /\ moved' \subseteq Side /\ moved \subseteq moved'
<1> DEFINE F == FORWARD_BUFFER_SIZE
<1>1. /\ F \in Nat /\ F > 0 /\ times \in Nat /\ times >= 2 /\ size \in [Side -> Nat]
      /\ buffer \in [Side -> Seq(Byte)]
  BY ForwarderConstants DEF TypeOK, RoomInv
<1>2. PICK lb \in Nat, n \in Nat, m \in Nat :
         lb = Len(buffer[y]) /\ n = Len(bytes) /\ m = (times - 1) * F
  <2>1. times - 1 \in Nat
    BY <1>1
  <2> QED
    BY <1>1, <2>1, LenProperties
<1>3. times * F = m + F /\ (times + 1 - 1) * F = m + F
  <2>1. times = (times - 1) + 1 /\ times + 1 - 1 = times
    BY <1>1
  <2> QED
    BY <1>1, <1>2, <2>1
<1>4. /\ buffer' = [buffer EXCEPT ![y] = buffer[y] \o bytes]
      /\ buffer[y] \o bytes \in Seq(Byte)
      /\ Len(buffer[y] \o bytes) = lb + n
  BY <1>1, <1>2, ConcatProperties DEF AppendBuffer
<1>5. /\ buffer' \in [Side -> Seq(Byte)]
      /\ Len(buffer'[y]) = lb + n
      /\ \A x \in Side \ {y} : buffer'[x] = buffer[x]
  BY <1>1, <1>4
<1>6. /\ n <= F /\ lb <= m /\ lb <= size[y] /\ size[y] >= F /\ m >= F
      /\ \A x \in Side : Len(buffer[x]) \in Nat /\ Len(buffer[x]) <= size[x]
                          /\ Len(buffer[x]) <= m /\ size[x] >= F
  <2>1. m >= F
    <3>1. PICK k \in Nat : times - 1 = k + 1
      BY <1>1
    <3>2. (k + 1) * F = k * F + F /\ k * F \in Nat
      BY <1>1
    <3> QED
      BY <1>1, <1>2, <3>1, <3>2
  <2> QED
    BY <1>1, <1>2, <2>1, LenProperties DEF RoomInv
<1>7. CASE lb + n >= F
  <2>1. size' = [size EXCEPT ![y] = m + F] /\ times' = times + 1
    BY <1>2, <1>3, <1>7 DEF AppendBuffer
  <2>2. size' \in [Side -> Nat] /\ size'[y] = m + F /\ \A x \in Side \ {y} : size'[x] = size[x]
    BY <1>1, <2>1
  <2>3. (times' - 1) * F = m + F
    <3>1. times' - 1 = times
      BY <1>1, <2>1
    <3> QED
      BY <1>3, <3>1
  <2>4. \A x \in Side : /\ size'[x] >= F /\ Len(buffer'[x]) <= size'[x]
                        /\ Len(buffer'[x]) <= m + F
    <3> HIDE DEF F
    <3>1. lb + n <= m + F /\ m + F >= F
      BY <1>1, <1>2, <1>6
    <3>2. \A x \in Side \ {y} : Len(buffer[x]) <= m + F
      BY <1>1, <1>2, <1>6
    <3> QED
      BY <1>5, <1>6, <2>2, <3>1, <3>2
  <2>5. RoomInv'
    BY <1>1, <2>1, <2>3, <2>4 DEF RoomInv
  <2>6. moved' \subseteq Side /\ moved \subseteq moved'
    BY <1>2, <1>7 DEF AppendBuffer, TypeOK
  <2> QED
    BY <1>1, <1>5, <2>1, <2>2, <2>5, <2>6
<1>8. CASE ~(lb + n >= F)
  <2>1. UNCHANGED <<size, times, moved>>
    BY <1>2, <1>8 DEF AppendBuffer
  <2>2. \A x \in Side : Len(buffer'[x]) <= size[x] /\ Len(buffer'[x]) <= m
    <3>1. PICK s \in Nat, f \in Nat : s = size[y] /\ f = F
      BY <1>1
    <3>2. lb + n < f /\ f <= s /\ f <= m
      BY <1>2, <1>6, <1>8, <3>1
    <3>3. lb + n <= s /\ lb + n <= m
      BY <3>2
    <3> QED
      BY <1>5, <1>6, <3>1, <3>3
  <2>3. RoomInv'
    BY <1>2, <1>6, <2>1, <2>2 DEF RoomInv
  <2> QED
    BY <1>1, <1>5, <2>1, <2>3 DEF TypeOK
<1> QED
  BY <1>7, <1>8

(* What is read goes from the stream to the end of the buffer. *)
LEMMA ReadSomeInv ==
    ASSUME ForwarderInv, NEW x \in Side, ReadSome(x)
    PROVE  ForwarderInv'
<1> USE DEF ForwarderInv
<1> DEFINE y == Other(x)
           u == unread[x]
<1>1. PICK n \in SockRead(x) :
         /\ AppendBuffer(y, SubSeq(u, 1, n))
         /\ unread' = [unread EXCEPT ![x] = SubSeq(u, n + 1, Len(u))]
  BY DEF ReadSome
<1>2. UNCHANGED <<sent, eof, out, clipped, socks>> /\ pc' \in Pcs
  BY DEF ReadSome, AfterRead, Pcs
<1>3. y \in Side /\ u \in Seq(Byte) /\ Len(u) \in Nat /\ n \in 1 .. Len(u)
      /\ n <= FORWARD_BUFFER_SIZE
  BY Sides, LenProperties DEF SockRead, TypeOK
<1>4. PICK h \in Seq(Byte), r \in Seq(Byte) :
         /\ h = SubSeq(u, 1, n) /\ r = SubSeq(u, n + 1, Len(u))
         /\ Len(h) = n /\ h \o r = u
  <2>1. SubSeq(u, 1, n) \in Seq(Byte) /\ Len(SubSeq(u, 1, n)) = n
    BY <1>3
  <2>2. SubSeq(u, n + 1, Len(u)) \in Seq(Byte)
    BY <1>3
  <2>3. SubSeq(u, 1, n) \o SubSeq(u, n + 1, Len(u)) = SubSeq(u, 1, Len(u))
    BY <1>3, ConcatAdjacentSubSeq
  <2>4. SubSeq(u, 1, Len(u)) = u
    BY <1>3, SubSeqFull
  <2> QED
    BY <2>1, <2>2, <2>3, <2>4
<1>5. /\ RoomInv' /\ buffer' \in [Side -> Seq(Byte)] /\ size' \in [Side -> Nat]
      /\ times' \in Nat /\ moved' \subseteq Side /\ moved \subseteq moved'
  BY <1>1, <1>3, <1>4, AppendRoom
<1>6. /\ buffer' = [buffer EXCEPT ![y] = buffer[y] \o h]
      /\ unread' = [unread EXCEPT ![x] = r]
  BY <1>1, <1>4 DEF AppendBuffer
<1>7. TypeOK'
  <2>1. unread' \in [Side -> Seq(Byte)]
    BY <1>6 DEF TypeOK
  <2> QED
    BY <1>2, <1>5, <2>1 DEF TypeOK
<1>8. StreamInv'
  <2> SUFFICES ASSUME NEW z \in Side \ moved'
               PROVE  Part(Stream(z)', sent[Other(z)], clipped[z] = {})
    BY <1>2 DEF StreamInv
  <2>1. Part(Stream(z), sent[Other(z)], clipped[z] = {})
    BY <1>5 DEF StreamInv
  <2>2. Stream(z)' = Stream(z)
    <3>1. CASE z = x
      BY <1>2, <1>6, <3>1, Sides DEF Stream, TypeOK
    <3>2. CASE z = y
      <4>1. Stream(z)' = (out[y] \o (buffer[y] \o h)) \o r
        BY <1>2, <1>3, <1>6, <3>2, Sides DEF Stream, TypeOK
      <4>2. Stream(z) = (out[y] \o buffer[y]) \o u
        BY <3>2, Sides DEF Stream
      <4>3. out[y] \in Seq(Cell) /\ buffer[y] \in Seq(Cell) /\ h \in Seq(Cell) /\ r \in Seq(Cell)
        BY <1>3, <1>4, StreamTypes, SeqMonotonic, CellIsNat
      <4>4. Stream(z)' = Cat(Cat(out[y], Cat(buffer[y], h)), r)
        BY <4>1 DEF Cat
      <4>5. Stream(z) = Cat(Cat(out[y], buffer[y]), u) /\ u = Cat(h, r)
        BY <1>4, <4>2 DEF Cat
      <4> QED
        BY <4>3, <4>4, <4>5, Regroup
    <3> QED
      BY <3>1, <3>2, Sides
  <2> QED
    BY <2>1, <2>2
<1> QED
  BY <1>5, <1>7, <1>8

LEMMA ForwarderNext == ForwarderInv /\ [Next]_vars => ForwarderInv'
<1> SUFFICES ASSUME ForwarderInv, [Next]_vars PROVE ForwarderInv'
  OBVIOUS
<1> USE DEF ForwarderInv
<1>1. ASSUME NEW x \in Side, PeerClose(x) PROVE ForwarderInv'
  BY <1>1, BytesUnchanged DEF PeerClose, TypeOK
<1>2. CASE Select
  BY <1>2, BytesUnchanged DEF Select, TypeOK, env, Pcs
<1>3. ASSUME NEW x \in Side, NotReady(x) \/ ReadNothing(x) \/ ReadEnd(x)
      PROVE  ForwarderInv'
  BY <1>3, BytesUnchanged
  DEF NotReady, ReadNothing, ReadEnd, TypeOK, env, AfterRead, Pcs
<1>4. CASE UNCHANGED vars
  BY <1>4, BytesUnchanged DEF vars, env, TypeOK
<1> QED
  BY <1>1, <1>2, <1>3, <1>4, PeerSendInv, WriteInv, ReadSomeInv DEF Next, WorkerStep

LEMMA ForwarderInductive == Spec => []ForwarderInv
BY ForwarderInit, ForwarderNext, PTL DEF Spec

-----------------------------------------------------------------------------
(* Every variable has its type. *)
THEOREM ForwarderTypes == Spec => []TypeOK
BY ForwarderInductive, PTL DEF ForwarderInv

(* Whatever sock_write leaves out, whatever fails and however the two      *)
(* directions interleave: a side whose buffer was not moved by realloc     *)
(* receives the other side's bytes in order, none twice, and all of them   *)
(* unless a write to it stopped early.                                     *)
THEOREM BytesConserved == Spec => []Conserved
<1>1. ForwarderInv => Conserved
  <2> SUFFICES ASSUME ForwarderInv, NEW x \in Side \ moved
               PROVE  LET n == Len(Stream(x)) IN
                      /\ \A i \in 1 .. (n - 1) : Stream(x)[i] < Stream(x)[i + 1]
                      /\ \A i \in 1 .. n : Stream(x)[i] \in 1 .. sent[Other(x)]
                      /\ clipped[x] = {} => n = sent[Other(x)]
    BY DEF Conserved
  <2>1. Part(Stream(x), sent[Other(x)], clipped[x] = {})
    BY DEF ForwarderInv, StreamInv
  <2>2. Stream(x) \in Seq(Cell)
    BY StreamTypes, Sides, ConcatProperties DEF ForwarderInv, Stream
  <2>3. Len(Stream(x)) \in Nat
    BY <2>2, LenProperties
  <2>4. \A i \in 1 .. (Len(Stream(x)) - 1) :
           i \in 1 .. Len(Stream(x)) /\ i + 1 \in 1 .. Len(Stream(x)) /\ i < i + 1
    BY <2>3
  <2> QED
    BY <2>1, <2>4 DEF Part
<1> QED
  BY <1>1, ForwarderInductive, PTL

(* Although the two directions count their enlargements with one variable, *)
(* neither buffer is ever asked to hold more than it was given.            *)
THEOREM BuffersFit == Spec => []BufferFits
<1>1. ForwarderInv => BufferFits
  BY DEF ForwarderInv, RoomInv, BufferFits
<1> QED
  BY <1>1, ForwarderInductive, PTL
=============================================================================
