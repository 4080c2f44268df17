------------------------- MODULE PacketStreamProofs -------------------------
(***************************************************************************)
(* Theorems about PacketStream, for all payloads, all sizes of buffers and *)
(* all loads: the buffers are never overrun, the parser leaves no whole    *)
(* packet behind, and either direction of a Session implements             *)
(* PacketChannel.                                                          *)
(***************************************************************************)
EXTENDS PacketStream, SequenceTheorems, TLAPS

-----------------------------------------------------------------------------
(* Sequences.                                                              *)

(* Concatenation under a name: the facts about it are instantiated without *)
(* looking into the sequences.                                             *)
Cat(a, b) == a \o b

LEMMA CatAssociates ==
    \A S : \A x, y, z \in Seq(S) : Cat(Cat(x, y), z) = Cat(x, Cat(y, z))
BY ConcatAssociative, Zenon DEF Cat

LEMMA CatIsSeq ==
    \A S : \A x, y \in Seq(S) : Cat(x, y) \in Seq(S)
BY ConcatProperties, Zenon DEF Cat

(* Moving a cut does not change what is cut.                               *)
LEMMA Associative ==
    ASSUME NEW S, NEW a \in Seq(S), NEW b \in Seq(S), NEW c \in Seq(S)
    PROVE  a \o b \in Seq(S) /\ (a \o b) \o c = a \o (b \o c)
<1>1. Cat(a, b) \in Seq(S) /\ Cat(Cat(a, b), c) = Cat(a, Cat(b, c))
  BY CatIsSeq, CatAssociates
<1> QED BY ONLY <1>1 DEF Cat

(* A sequence is what comes up to position n and what comes after it.      *)
LEMMA CutAt ==
    ASSUME NEW S, NEW s \in Seq(S), NEW n \in 0 .. Len(s)
    PROVE  /\ SubSeq(s, 1, n) \in Seq(S) /\ Len(SubSeq(s, 1, n)) = n
           /\ \A i \in 1 .. n : SubSeq(s, 1, n)[i] = s[i]
           /\ Drop(s, n) \in Seq(S) /\ Len(Drop(s, n)) = Len(s) - n
           /\ \A i \in 1 .. Len(s) - n : Drop(s, n)[i] = s[n + i]
           /\ SubSeq(s, 1, n) \o Drop(s, n) = s
<1>1. /\ SubSeq(s, 1, n) \in Seq(S) /\ Len(SubSeq(s, 1, n)) = n
      /\ \A i \in 1 .. n : SubSeq(s, 1, n)[i] = s[i]
  OBVIOUS
<1>2. /\ Drop(s, n) \in Seq(S) /\ Len(Drop(s, n)) = Len(s) - n
      /\ \A i \in 1 .. Len(s) - n : Drop(s, n)[i] = s[n + i]
  BY DEF Drop
<1> DEFINE a == SubSeq(s, 1, n)
           b == Drop(s, n)
<1> HIDE DEF a, b
<1>3. a \o b = s
  <2>1. /\ a \o b \in Seq(S) /\ Len(a \o b) = Len(a) + Len(b)
        /\ \A i \in 1 .. Len(a) + Len(b) :
             (a \o b)[i] = IF i <= Len(a) THEN a[i] ELSE b[i - Len(a)]
    BY <1>1, <1>2, ConcatProperties DEF a, b
  <2>2. Len(a \o b) = Len(s)
    BY <2>1, <1>1, <1>2 DEF a, b
  <2>3. ASSUME NEW i \in 1 .. Len(s) PROVE (a \o b)[i] = s[i]
    <3>1. CASE i <= n
      BY <1>1, <1>2, <2>1, <3>1 DEF a, b
    <3>2. CASE ~(i <= n)
      <4>1. (a \o b)[i] = b[i - n]
        BY <1>1, <1>2, <2>1, <3>2 DEF a, b
      <4>2. i - n \in 1 .. Len(s) - n /\ n + (i - n) = i
        BY <3>2
      <4>3. b[i - n] = s[i]
        BY <1>2, <4>2 DEF b
      <4> QED BY <4>1, <4>3
    <3> QED BY <3>1, <3>2
  <2> QED BY <2>1, <2>2, <2>3, SeqEqual
<1> QED BY <1>1, <1>2, <1>3 DEF a, b

(* The first part of a concatenation, and the rest of it.                  *)
LEMMA CutConcat ==
    ASSUME NEW S, NEW a \in Seq(S), NEW b \in Seq(S)
    PROVE  /\ a \o b \in Seq(S) /\ Len(a \o b) = Len(a) + Len(b)
           /\ \A i \in 1 .. Len(a) : (a \o b)[i] = a[i]
           /\ \A i \in 1 .. Len(b) : (a \o b)[Len(a) + i] = b[i]
           /\ SubSeq(a \o b, 1, Len(a)) = a
           /\ Drop(a \o b, Len(a)) = b
<1>1. /\ a \o b \in Seq(S) /\ Len(a \o b) = Len(a) + Len(b)
      /\ \A i \in 1 .. Len(a) + Len(b) :
             (a \o b)[i] = IF i <= Len(a) THEN a[i] ELSE b[i - Len(a)]
  BY ConcatProperties
<1>2. \A i \in 1 .. Len(a) : (a \o b)[i] = a[i]
  BY <1>1
<1>3. ASSUME NEW i \in 1 .. Len(b) PROVE (a \o b)[Len(a) + i] = b[i]
  <2>1. Len(a) + i \in 1 .. Len(a) + Len(b) /\ ~(Len(a) + i <= Len(a))
        /\ (Len(a) + i) - Len(a) = i
    OBVIOUS
  <2> QED BY <1>1, <2>1
<1> DEFINE c == a \o b
<1> HIDE DEF c
<1>4. c \in Seq(S) /\ Len(a) \in 0 .. Len(c) /\ Len(c) - Len(a) = Len(b)
  BY <1>1 DEF c
<1>5. /\ SubSeq(c, 1, Len(a)) \in Seq(S) /\ Len(SubSeq(c, 1, Len(a))) = Len(a)
      /\ \A i \in 1 .. Len(a) : SubSeq(c, 1, Len(a))[i] = c[i]
      /\ Drop(c, Len(a)) \in Seq(S) /\ Len(Drop(c, Len(a))) = Len(c) - Len(a)
      /\ \A i \in 1 .. Len(c) - Len(a) : Drop(c, Len(a))[i] = c[Len(a) + i]
  BY <1>4, CutAt, Zenon
<1>6. SubSeq(c, 1, Len(a)) = a
  BY <1>2, <1>5, SeqEqual DEF c
<1>7. Drop(c, Len(a)) = b
  BY <1>3, <1>4, <1>5, SeqEqual DEF c
<1> QED BY <1>1, <1>2, <1>3, <1>6, <1>7 DEF c

LEMMA CutCat ==
    \A S : \A a, b \in Seq(S) :
        /\ Cat(a, b) \in Seq(S) /\ Len(Cat(a, b)) = Len(a) + Len(b)
        /\ \A i \in 1 .. Len(a) : Cat(a, b)[i] = a[i]
        /\ \A i \in 1 .. Len(b) : Cat(a, b)[Len(a) + i] = b[i]
        /\ SubSeq(Cat(a, b), 1, Len(a)) = a
        /\ Drop(Cat(a, b), Len(a)) = b
BY CutConcat, Zenon DEF Cat

(* Two ways of cutting the same sequence: the longer first part is the     *)
(* shorter one and something more.                                         *)
LEMMA LongerFirstPart ==
    ASSUME NEW S, NEW a \in Seq(S), NEW b \in Seq(S), NEW c \in Seq(S), NEW d \in Seq(S),
           a \o b = c \o d, Len(c) <= Len(a)
    PROVE  a = c \o Drop(a, Len(c)) /\ Drop(a, Len(c)) \o b = d
<1> DEFINE m == Drop(a, Len(c))
<1> HIDE DEF m
<1>1. Len(c) \in 0 .. Len(a)
  OBVIOUS
<1>2. /\ m \in Seq(S) /\ SubSeq(a, 1, Len(c)) \o m = a
      /\ SubSeq(a, 1, Len(c)) \in Seq(S) /\ Len(SubSeq(a, 1, Len(c))) = Len(c)
      /\ \A i \in 1 .. Len(c) : SubSeq(a, 1, Len(c))[i] = a[i]
  BY <1>1, CutAt DEF m
<1>3. \A i \in 1 .. Len(c) : a[i] = c[i]
  <2>1. \A i \in 1 .. Len(c) : (a \o b)[i] = a[i]
    BY CutConcat
  <2>2. \A i \in 1 .. Len(c) : (c \o d)[i] = c[i]
    BY CutConcat
  <2> QED BY <2>1, <2>2
<1>4. SubSeq(a, 1, Len(c)) = c
  BY <1>2, <1>3, SeqEqual
<1>5. a = c \o m
  BY <1>2, <1>4
<1>6. (c \o m) \o b = c \o (m \o b)
  <2>1. m \in Seq(S) BY <1>2
  <2>2. Cat(Cat(c, m), b) = Cat(c, Cat(m, b))
    BY <2>1, CatAssociates
  <2> QED BY ONLY <2>2 DEF Cat
<1>7. Drop(c \o d, Len(c)) = d /\ Drop(c \o (m \o b), Len(c)) = m \o b
  <2>1. PICK e \in Seq(S) : e = m \o b
    BY <1>2, ConcatProperties
  <2>2. Drop(Cat(c, e), Len(c)) = e /\ Drop(Cat(c, d), Len(c)) = d
    BY CutCat
  <2> QED BY ONLY <2>1, <2>2 DEF Cat
<1>8. m \o b = d
  BY <1>5, <1>6, <1>7
<1> QED BY <1>5, <1>8 DEF m
-----------------------------------------------------------------------------
(* Buffers: what is written joins the data, whether or not the array has   *)
(* to be moved or to grow; what is consumed leaves at the front.           *)
LEMMA WriteBytesAppends ==
    ASSUME NEW S, NEW b \in Buffer(S), NEW val \in Seq(S), Fits(b)
    PROVE  /\ WriteBytes(b, val) \in Buffer(S) /\ Fits(WriteBytes(b, val))
           /\ Data(WriteBytes(b, val)) = Data(b) \o val
<1> DEFINE room == ReserveWriteBuffer(b, Len(val))
<1>1. /\ b.data \in Seq(S) /\ b.start_ \in Nat /\ b.size_ \in Nat /\ Len(b.data) \in Nat
      /\ b.start_ + Len(b.data) <= b.size_ /\ Len(val) \in Nat
  BY LenProperties DEF Buffer, Fits, Length
<1>2. /\ room \in Buffer(S) /\ room.data = b.data
      /\ room.start_ + Len(b.data) + Len(val) <= room.size_
  <2>1. CASE Length(b) + Len(val) > Capacity(b)
    <3> DEFINE size == Length(b) + Len(val)
               grown == IF size <= b.size_ THEN b.size_
                        ELSE GreaterOf(size, (3 * b.size_) \div 2)
    <3>1. room = Resize(b, size)
      BY <2>1 DEF ReserveWriteBuffer
    <3>2. size \in Nat /\ LesserOf(Length(b), size) = Len(b.data)
      BY <1>1 DEF Length, LesserOf
    <3>3. grown \in Nat /\ size <= grown
      BY <1>1, <3>2 DEF GreaterOf
    <3>4. SubSeq(b.data, 1, Len(b.data)) = b.data
      BY <1>1, SubSeqFull
    <3> HIDE DEF size, grown
    <3>5. room = [data |-> b.data, start_ |-> 0, size_ |-> grown]
      BY <3>1, <3>2, <3>4 DEF Resize, grown
    <3> HIDE DEF room
    <3>6. room \in Buffer(S) /\ room.data = b.data /\ room.start_ = 0 /\ room.size_ = grown
      BY <1>1, <3>3, <3>5 DEF Buffer
    <3> QED BY <1>1, <3>3, <3>6 DEF size, Length
  <2>2. CASE ~(Length(b) + Len(val) > Capacity(b))
    BY <1>1, <2>2 DEF ReserveWriteBuffer, Capacity, Length
  <2> QED BY <2>1, <2>2
<1>3. WriteBytes(b, val) = [room EXCEPT !.data = b.data \o val]
  BY <1>2 DEF WriteBytes
<1> HIDE DEF room
<1>4. b.data \o val \in Seq(S) /\ Len(b.data \o val) = Len(b.data) + Len(val)
  BY <1>1, ConcatProperties
<1> DEFINE w == b.data \o val
<1> HIDE DEF w
<1>5. [room EXCEPT !.data = w] \in Buffer(S) /\ [room EXCEPT !.data = w].data = w
      /\ [room EXCEPT !.data = w].start_ = room.start_
      /\ [room EXCEPT !.data = w].size_ = room.size_
  BY <1>2, <1>4 DEF Buffer, w
<1>6. room.start_ \in Nat /\ room.size_ \in Nat
  BY <1>2 DEF Buffer
<1> DEFINE v == [room EXCEPT !.data = w]
<1>7. WriteBytes(b, val) = v /\ v \in Buffer(S) /\ v.data = w
  BY <1>3, <1>5 DEF w
<1>8. v.start_ + Len(v.data) <= v.size_
  <2>1. v.start_ = room.start_ /\ v.size_ = room.size_ /\ Len(w) = Len(b.data) + Len(val)
    BY <1>4, <1>5 DEF w
  <2> HIDE DEF v
  <2> QED BY <1>1, <1>2, <1>6, <1>7, <2>1
<1> HIDE DEF v
<1>9. Fits(v) /\ Data(v) = w
  BY <1>7, <1>8 DEF Fits, Length, Data
<1> QED BY <1>7, <1>9 DEF w, Data

(* Consume takes what it is given from the front of the data and leaves    *)
(* the rest.                                                               *)
LEMMA ConsumeDrops ==
    ASSUME NEW S, NEW b \in Buffer(S), NEW n \in 0 .. Length(b), Fits(b)
    PROVE  /\ Consume(b, n) \in Buffer(S) /\ Fits(Consume(b, n))
           /\ Data(Consume(b, n)) = Drop(Data(b), n)
<1>1. /\ b.data \in Seq(S) /\ b.start_ \in Nat /\ b.size_ \in Nat /\ Len(b.data) \in Nat
      /\ b.start_ + Len(b.data) <= b.size_ /\ n \in 0 .. Len(b.data)
  BY LenProperties DEF Buffer, Fits, Length
<1> DEFINE d == Drop(b.data, n)
<1> HIDE DEF d
<1>2. d \in Seq(S) /\ Len(d) = Len(b.data) - n
  BY <1>1, CutAt DEF d
<1> DEFINE c == [data |-> d, start_ |-> b.start_ + n, size_ |-> b.size_]
<1>3. Consume(b, n) = c
  <2>1. Consume(b, n) = [b EXCEPT !.data = d, !.start_ = b.start_ + n]
    BY <1>1 DEF Consume, Drop, d, Length, Buffer
  <2> QED BY <2>1 DEF Buffer
<1>4. c \in Buffer(S) /\ c.data = d /\ c.start_ = b.start_ + n /\ c.size_ = b.size_
  BY <1>1, <1>2 DEF Buffer
<1> HIDE DEF c
<1>5. c.start_ + Len(c.data) <= c.size_
  BY <1>1, <1>2, <1>4
<1>6. Fits(c) /\ Data(c) = d
  BY <1>4, <1>5 DEF Fits, Length, Data
<1> QED BY <1>3, <1>4, <1>6 DEF d, Data
-----------------------------------------------------------------------------
(***************************************************************************)
(* Streams.  whole is what one gets by putting parts one after the other:  *)
(* rest[i] is what is left of it after the first i parts.                  *)
(***************************************************************************)
Joins(S, whole, parts) ==
    \E rest \in [0 .. Len(parts) -> Seq(S)] :
        /\ rest[0] = whole /\ rest[Len(parts)] = <<>>
        /\ \A i \in 1 .. Len(parts) : rest[i - 1] = parts[i] \o rest[i]

(* No parts make the empty whole ...                                       *)
LEMMA JoinsEmpty == ASSUME NEW S PROVE Joins(S, <<>>, <<>>)
<1> DEFINE rest == [i \in 0 .. 0 |-> <<>>]
<1>1. Len(<<>>) = 0 /\ rest \in [0 .. 0 -> Seq(S)] /\ rest[0] = <<>>
  OBVIOUS
<1> HIDE DEF rest
<1> QED BY <1>1 DEF Joins

(* ... and nothing else.                                                   *)
LEMMA JoinsNone == ASSUME NEW S, NEW w, Joins(S, w, <<>>) PROVE w = <<>>
BY DEF Joins

(* A part more at the end.                                                 *)
LEMMA JoinsAppend ==
    ASSUME NEW S, NEW w, NEW parts \in Seq(Seq(S)), NEW p \in Seq(S), Joins(S, w, parts)
    PROVE  Joins(S, w \o p, Append(parts, p))
<1> DEFINE n == Len(parts)
           more == Append(parts, p)
<1>1. n \in Nat /\ Len(more) = n + 1 /\ more[n + 1] = p
      /\ \A i \in 1 .. n : more[i] = parts[i] /\ parts[i] \in Seq(S)
  BY AppendProperties, LenProperties, ElementOfSeq
<1>2. PICK rest \in [0 .. n -> Seq(S)] :
         /\ rest[0] = w /\ rest[n] = <<>>
         /\ \A i \in 1 .. n : rest[i - 1] = parts[i] \o rest[i]
  BY DEF Joins
<1> DEFINE longer == [i \in 0 .. n + 1 |-> IF i <= n THEN rest[i] \o p ELSE <<>>]
<1> HIDE DEF n, more
<1>3. \A i \in 0 .. n : rest[i] \o p \in Seq(S)
  BY <1>1, <1>2, ConcatProperties
<1>4. longer \in [0 .. n + 1 -> Seq(S)]
  BY <1>1, <1>3
<1>5. longer[0] = w \o p /\ longer[n + 1] = <<>>
  <2>1. 0 \in 0 .. n + 1 /\ n + 1 \in 0 .. n + 1 /\ 0 <= n /\ ~(n + 1 <= n)
    BY <1>1
  <2> QED BY ONLY <1>2, <2>1
<1>6. ASSUME NEW i \in 1 .. n + 1 PROVE longer[i - 1] = more[i] \o longer[i]
  <2>1. CASE i = n + 1
    <3>1. longer[i - 1] = rest[n] \o p /\ longer[i] = <<>>
      BY <1>1, <2>1
    <3> QED BY <1>1, <1>2, <2>1, <3>1, ConcatEmptySeq
  <2>2. CASE i # n + 1
    <3>1. i \in 1 .. n /\ i \in 0 .. n /\ i - 1 \in 0 .. n
      BY <1>1, <2>2
    <3>2. \A j \in 0 .. n : longer[j] = rest[j] \o p
      <4>1. \A j \in 0 .. n : j \in 0 .. n + 1 /\ j <= n
        BY <1>1
      <4> QED BY ONLY <4>1
    <3>3. more[i] = parts[i] /\ rest[i - 1] = parts[i] \o rest[i]
      BY <1>1, <1>2, <3>1
    <3>4. parts[i] \in Seq(S)
      BY <1>1, <3>1
    <3>5. rest[i] \in Seq(S)
      BY <1>2, <3>1
    <3> HIDE DEF longer
    <3>6. (parts[i] \o rest[i]) \o p = parts[i] \o (rest[i] \o p)
      <4>1. Cat(Cat(parts[i], rest[i]), p) = Cat(parts[i], Cat(rest[i], p))
        BY ONLY <3>4, <3>5, CatAssociates, p \in Seq(S)
      <4> QED BY ONLY <4>1 DEF Cat
    <3>7. longer[i - 1] = rest[i - 1] \o p /\ longer[i] = rest[i] \o p
      BY <3>1, <3>2
    <3> QED BY <3>3, <3>6, <3>7
  <2> QED BY <2>1, <2>2
<1> HIDE DEF longer
<1> QED BY <1>1, <1>4, <1>5, <1>6 DEF Joins, more

(* The first part and what follows it.                                     *)
LEMMA JoinsFirst ==
    ASSUME NEW S, NEW w, NEW parts \in Seq(Seq(S)), parts # <<>>, Joins(S, w, parts)
    PROVE  \E r \in Seq(S) : w = parts[1] \o r /\ Joins(S, r, Tail(parts))
<1> DEFINE n == Len(parts)
<1>1. n \in Nat \ {0} /\ Len(Tail(parts)) = n - 1
      /\ \A i \in 1 .. n - 1 : Tail(parts)[i] = parts[i + 1]
  BY EmptySeq, HeadTailProperties
<1>2. PICK rest \in [0 .. n -> Seq(S)] :
         /\ rest[0] = w /\ rest[n] = <<>>
         /\ \A i \in 1 .. n : rest[i - 1] = parts[i] \o rest[i]
  BY DEF Joins
<1> DEFINE less == [i \in 0 .. n - 1 |-> rest[i + 1]]
<1> HIDE DEF n
<1>3. less \in [0 .. n - 1 -> Seq(S)] /\ less[0] = rest[1] /\ less[n - 1] = <<>>
  BY <1>1, <1>2
<1>4. ASSUME NEW i \in 1 .. n - 1 PROVE less[i - 1] = Tail(parts)[i] \o less[i]
  <2>1. i + 1 \in 1 .. n /\ i - 1 \in 0 .. n - 1 /\ (i + 1) - 1 = i /\ (i - 1) + 1 = i
    BY <1>1
  <2>2. less[i - 1] = rest[i] /\ less[i] = rest[i + 1]
    BY <2>1
  <2> QED BY <1>1, <1>2, <2>1, <2>2
<1> HIDE DEF less
<1>5. Joins(S, rest[1], Tail(parts))
  BY <1>1, <1>3, <1>4 DEF Joins
<1>6. rest[1] \in Seq(S) /\ w = parts[1] \o rest[1]
  <2>1. 1 \in 1 .. n /\ 1 \in 0 .. n /\ 1 - 1 = 0
    BY <1>1
  <2>2. rest[1 - 1] = parts[1] \o rest[1]
    BY <1>2, <2>1
  <2> QED BY <1>2, <2>1, <2>2
<1> QED BY <1>5, <1>6
-----------------------------------------------------------------------------
(* Packets.  What Encode puts where.                                       *)
LEMMA EncodeCells ==
    ASSUME NEW p \in Packet
    PROVE  /\ p.type \in Nat /\ p.data \in Seq(Nat) /\ Len(p.data) \in Nat
           /\ p = [type |-> p.type, data |-> p.data]
           /\ Header(p) \in Seq(Nat)
           /\ Encode(p) \in Seq(Nat) /\ Len(Encode(p)) = HEADER_SIZE + Len(p.data)
           /\ Encode(p)[1] = HEADER_V /\ Encode(p)[2] = HEADER_Z
           /\ Encode(p)[3] = p.type /\ Encode(p)[5] = Len(p.data)
           /\ Drop(Encode(p), HEADER_SIZE) = p.data
<1>1. /\ p.type \in Nat /\ p.data \in Seq(Nat)
      /\ p = [type |-> p.type, data |-> p.data]
  <2> USE DEF PACKET_TYPE_JSON, PACKET_TYPE_BINARY, PACKET_TYPE_HEARTBEAT
  <2>1. CASE p \in [type : {PACKET_TYPE_JSON, PACKET_TYPE_BINARY}, data : Payloads]
    <3>1. p.type \in Nat /\ p.data \in Payloads /\ p = [type |-> p.type, data |-> p.data]
      BY <2>1
    <3> QED BY <3>1, StreamAssumption
  <2>2. CASE p \in [type : {PACKET_TYPE_HEARTBEAT}, data : {<<>>}]
    <3>1. p.type \in Nat /\ p.data = <<>> /\ p = [type |-> p.type, data |-> p.data]
      BY <2>2
    <3> QED BY <3>1, EmptySeq
  <2> QED BY <2>1, <2>2 DEF Packet
<1>2. Len(p.data) \in Nat
  BY <1>1, LenProperties
<1>3. /\ Header(p) \in Seq(Nat) /\ Len(Header(p)) = 5
      /\ Header(p)[1] = HEADER_V /\ Header(p)[2] = HEADER_Z
      /\ Header(p)[3] = p.type /\ Header(p)[5] = Len(p.data)
  BY <1>1, <1>2 DEF Header, HEADER_V, HEADER_Z
<1> DEFINE h == Header(p)
           d == p.data
<1> HIDE DEF h, d
<1>4. /\ h \o d \in Seq(Nat) /\ Len(h \o d) = Len(h) + Len(d)
      /\ \A i \in 1 .. Len(h) : (h \o d)[i] = h[i]
      /\ Drop(h \o d, Len(h)) = d
  <2>1. h \in Seq(Nat) /\ d \in Seq(Nat)
    BY <1>1, <1>3 DEF h, d
  <2> QED BY <2>1, CutConcat
<1>5. Len(h) = 5
  BY <1>3 DEF h
<1>6. (h \o d)[1] = h[1] /\ (h \o d)[2] = h[2] /\ (h \o d)[3] = h[3] /\ (h \o d)[5] = h[5]
  <2>1. 1 \in 1 .. 5 /\ 2 \in 1 .. 5 /\ 3 \in 1 .. 5 /\ 5 \in 1 .. 5
    OBVIOUS
  <2> QED BY <1>4, <1>5, <2>1, Zenon
<1> QED BY <1>1, <1>2, <1>3, <1>4, <1>6 DEF Encode, HEADER_SIZE, h, d

(* What a function makes of each packet that goes through a connection.    *)
Each(f, frames) == [i \in 1 .. Len(frames) |-> f[frames[i]]]

(* A name of its own for a set of functions, which keeps lemmas about      *)
(* functions applicable.                                                   *)
Maps(S, T) == [S -> T]

(* What Each returns: the images, in order, also of a longer sequence and  *)
(* of what follows the first packet.                                       *)
LEMMA EachParts ==
    ASSUME NEW S, NEW T, NEW f \in Maps(S, T), NEW frames \in Seq(S)
    PROVE  /\ Each(f, frames) \in Seq(T)
           /\ \A p \in S : Each(f, Append(frames, p)) = Append(Each(f, frames), f[p])
           /\ frames # <<>> => /\ Each(f, frames) # <<>>
                               /\ Each(f, frames)[1] = f[Head(frames)]
                               /\ Each(f, Tail(frames)) = Tail(Each(f, frames))
<1> DEFINE n == Len(frames)
<1>1. n \in Nat /\ \A i \in 1 .. n : frames[i] \in S /\ f[frames[i]] \in T
  BY LenProperties, ElementOfSeq DEF Maps
<1>2. Each(f, frames) \in Seq(T) /\ Len(Each(f, frames)) = n
      /\ \A i \in 1 .. n : Each(f, frames)[i] = f[frames[i]]
  BY <1>1 DEF Each
<1>3. ASSUME NEW p \in S
      PROVE  Each(f, Append(frames, p)) = Append(Each(f, frames), f[p])
  <2> DEFINE m == Append(frames, p)
             a == Append(Each(f, frames), f[p])
  <2>1. m \in Seq(S) /\ Len(m) = n + 1 /\ m[n + 1] = p /\ \A i \in 1 .. n : m[i] = frames[i]
    BY AppendProperties
  <2>2. /\ a \in Seq(T) /\ Len(a) = n + 1 /\ a[n + 1] = f[p]
        /\ \A i \in 1 .. n : a[i] = Each(f, frames)[i]
    <3>1. f[p] \in T
      BY DEF Maps
    <3> QED BY <1>2, <3>1, AppendProperties
  <2>3. Each(f, m) \in Seq(T) /\ Len(Each(f, m)) = n + 1
        /\ \A i \in 1 .. n + 1 : Each(f, m)[i] = f[m[i]]
    BY <1>1, <2>1 DEF Each, Maps
  <2>4. ASSUME NEW i \in 1 .. n + 1 PROVE Each(f, m)[i] = a[i]
    <3>1. CASE i = n + 1
      BY <2>1, <2>2, <2>3, <3>1
    <3>2. CASE i # n + 1
      <4>1. i \in 1 .. n
        BY <1>1, <3>2
      <4> QED BY <1>2, <2>1, <2>2, <2>3, <4>1
    <3> QED BY <3>1, <3>2
  <2> HIDE DEF a, m
  <2>5. Each(f, m) = a
    BY <2>2, <2>3, <2>4, SeqEqual
  <2> QED BY <2>5 DEF a, m
<1>4. ASSUME frames # <<>>
      PROVE  /\ Each(f, frames) # <<>>
             /\ Each(f, frames)[1] = f[Head(frames)]
             /\ Each(f, Tail(frames)) = Tail(Each(f, frames))
  <2> DEFINE t == Tail(frames)
             e == Tail(Each(f, frames))
  <2>1. /\ t \in Seq(S) /\ Len(t) = n - 1 /\ n \in Nat \ {0}
        /\ \A i \in 1 .. n - 1 : t[i] = frames[i + 1]
    BY <1>4, EmptySeq, HeadTailProperties
  <2>2. Each(f, frames) # <<>> /\ Head(frames) = frames[1] /\ 1 \in 1 .. n
    BY <1>2, <1>4, <2>1
  <2>3. /\ e \in Seq(T) /\ Len(e) = n - 1
        /\ \A i \in 1 .. n - 1 : e[i] = Each(f, frames)[i + 1]
    BY <1>2, <2>2, HeadTailProperties
  <2>4. Each(f, t) \in Seq(T) /\ Len(Each(f, t)) = n - 1
        /\ \A i \in 1 .. n - 1 : Each(f, t)[i] = f[t[i]]
    BY <2>1 DEF Each, Maps
  <2>5. ASSUME NEW i \in 1 .. n - 1 PROVE Each(f, t)[i] = e[i]
    <3>1. i + 1 \in 1 .. n
      BY <2>1
    <3> QED BY <1>2, <2>1, <2>3, <2>4, <3>1
  <2> HIDE DEF e, t
  <2>6. Each(f, t) = e
    BY <2>3, <2>4, <2>5, SeqEqual
  <2> QED BY <1>2, <2>2, <2>6 DEF e, t
<1> QED BY <1>2, <1>3, <1>4
-----------------------------------------------------------------------------
(* What AsyncWrite queues is the packet, behind what is queued already.    *)
LEMMA QueueAppends ==
    ASSUME NEW b \in Buffer(Nat), NEW p \in Packet, Fits(b)
    PROVE  /\ Queue(b, p) \in Buffer(Nat) /\ Fits(Queue(b, p))
           /\ Data(Queue(b, p)) = Data(b) \o Encode(p)
<1> DEFINE h == Header(p)
           d == p.data
           w == WriteBytes(b, h)
<1>1. h \in Seq(Nat) /\ d \in Seq(Nat) /\ Data(b) \in Seq(Nat)
  BY EncodeCells DEF Data, Buffer
<1> HIDE DEF h, d, w
<1>2. w \in Buffer(Nat) /\ Fits(w) /\ Data(w) = Data(b) \o h
  BY <1>1, WriteBytesAppends DEF w
<1>3. /\ WriteBytes(w, d) \in Buffer(Nat) /\ Fits(WriteBytes(w, d))
      /\ Data(WriteBytes(w, d)) = Data(w) \o d
  BY <1>1, <1>2, WriteBytesAppends
<1>4. (Data(b) \o h) \o d = Data(b) \o (h \o d)
  <2>1. Cat(Cat(Data(b), h), d) = Cat(Data(b), Cat(h, d))
    BY ONLY <1>1, CatAssociates
  <2> QED BY ONLY <2>1 DEF Cat
<1> QED BY <1>2, <1>3, <1>4 DEF Queue, Encode, h, d, w

(* send() takes from the front of the buffer what it puts behind what the  *)
(* kernel holds, no more than there is room for.                           *)
LEMMA WriteMoves ==
    ASSUME NEW b \in Buffer(Nat), Fits(b), NEW enabled \in BOOLEAN,
           tx \in Seq(Nat), Len(tx) <= TxRoom, TryToWriteData(b, enabled)
    PROVE  /\ write_buffer_' \in Buffer(Nat) /\ Fits(write_buffer_')
           /\ tx' \in Seq(Nat) /\ Len(tx') <= TxRoom /\ DE_WRITE' \in BOOLEAN
           /\ tx' \o Data(write_buffer_') = tx \o Data(b)
<1> DEFINE n == LesserOf(Length(b), TxRoom - Len(tx))
           d == Data(b)
<1>1. d \in Seq(Nat) /\ Len(d) \in Nat /\ Length(b) = Len(d) /\ Len(tx) \in Nat /\ TxRoom \in Nat
  BY LenProperties, StreamAssumption DEF Data, Buffer, Length
<1>2. n \in 0 .. Len(d) /\ Len(tx) + n <= TxRoom
  BY <1>1 DEF LesserOf
<1>3. CASE state # "CS_CONNECTED" \/ Length(b) = 0
  BY <1>3 DEF TryToWriteData
<1>4. CASE ~(state # "CS_CONNECTED" \/ Length(b) = 0)
  <2>1. tx' = tx \o SubSeq(d, 1, n) /\ write_buffer_' = Consume(b, n)
        /\ DE_WRITE' = (enabled \/ n = 0)
    BY <1>4 DEF TryToWriteData
  <2> HIDE DEF n, d
  <2>2. /\ write_buffer_' \in Buffer(Nat) /\ Fits(write_buffer_')
        /\ Data(write_buffer_') = Drop(d, n)
    <3>1. n \in 0 .. Length(b)
      BY <1>1, <1>2
    <3> QED BY <2>1, <3>1, ConsumeDrops DEF d
  <2>3. /\ SubSeq(d, 1, n) \in Seq(Nat) /\ Len(SubSeq(d, 1, n)) = n
        /\ Drop(d, n) \in Seq(Nat) /\ SubSeq(d, 1, n) \o Drop(d, n) = d
    BY <1>1, <1>2, CutAt
  <2>4. tx' \in Seq(Nat) /\ Len(tx') = Len(tx) + n
    BY <2>1, <2>3, ConcatProperties
  <2>5. (tx \o SubSeq(d, 1, n)) \o Drop(d, n) = tx \o (SubSeq(d, 1, n) \o Drop(d, n))
    <3> DEFINE a == SubSeq(d, 1, n)
               r == Drop(d, n)
    <3>1. a \in Seq(Nat) /\ r \in Seq(Nat) /\ tx \in Seq(Nat)
      BY <2>3
    <3> HIDE DEF a, r
    <3>2. Cat(Cat(tx, a), r) = Cat(tx, Cat(a, r))
      BY ONLY <3>1, CatAssociates
    <3> QED BY ONLY <3>2 DEF Cat, a, r
  <2>6. DE_WRITE' \in BOOLEAN
    BY <2>1
  <2>7. tx' \o Data(write_buffer_') = tx \o d
    BY <2>1, <2>2, <2>3, <2>5, Zenon
  <2> QED BY <1>2, <2>2, <2>4, <2>6, <2>7 DEF d
<1> QED BY <1>3, <1>4
-----------------------------------------------------------------------------
(***************************************************************************)
(* Types and buffers, one step per action.                                 *)
(***************************************************************************)
(* The packet of the heartbeat timer is an ordinary packet.                *)
LEMMA HeartbeatIsPacket == Heartbeat \in Packet
BY DEF Heartbeat, Packet

(* What is left of the data of ProcessPacketProtocol at an offset.         *)
LEMMA DataLeft ==
    ASSUME read_buffer_ \in Buffer(Nat), offset \in 0 .. Length(read_buffer_)
    PROVE  /\ Data(read_buffer_) \in Seq(Nat) /\ Length(read_buffer_) = Len(Data(read_buffer_))
           /\ Drop(Data(read_buffer_), offset) \in Seq(Nat)
           /\ Len(Drop(Data(read_buffer_), offset)) = Length(read_buffer_) - offset
<1>1. Data(read_buffer_) \in Seq(Nat) /\ Length(read_buffer_) = Len(Data(read_buffer_))
  BY DEF Data, Buffer, Length
<1> DEFINE d == Data(read_buffer_)
<1> HIDE DEF d
<1>2. d \in Seq(Nat) /\ offset \in 0 .. Len(d)
  BY <1>1 DEF d
<1>3. Drop(d, offset) \in Seq(Nat) /\ Len(Drop(d, offset)) = Len(d) - offset
  BY <1>2, CutAt
<1> QED BY <1>1, <1>3 DEF d

(* The cells of a header are numbers.                                      *)
LEMMA HeaderCells ==
    ASSUME NEW data \in Seq(Nat), Len(data) >= HEADER_SIZE
    PROVE  Len(data) \in Nat /\ HEADER_SIZE \in 0 .. Len(data)
           /\ data[1] \in Nat /\ data[2] \in Nat /\ data[3] \in Nat /\ data[5] \in Nat
<1>1. Len(data) \in Nat /\ 5 <= Len(data)
  BY LenProperties DEF HEADER_SIZE
<1>2. 1 \in 1 .. Len(data) /\ 2 \in 1 .. Len(data) /\ 3 \in 1 .. Len(data)
      /\ 5 \in 1 .. Len(data)
  BY <1>1
<1>3. \A i \in 1 .. Len(data) : data[i] \in Nat
  BY ElementOfSeq
<1> QED BY <1>1, <1>2, <1>3 DEF HEADER_SIZE

(* A whole packet lies within the data.                                    *)
LEMMA WholeCells ==
    ASSUME NEW data \in Seq(Nat), WholePacket(data)
    PROVE  /\ Len(data) \in Nat /\ data[3] \in Nat /\ data[5] \in Nat
           /\ HEADER_SIZE + data[5] \in 0 .. Len(data)
           /\ SubSeq(data, HEADER_SIZE + 1, HEADER_SIZE + data[5]) \in Seq(Nat)
<1>1. Len(data) >= HEADER_SIZE /\ Len(data) - HEADER_SIZE >= data[5]
  BY DEF WholePacket
<1>2. Len(data) \in Nat /\ data[3] \in Nat /\ data[5] \in Nat
  BY <1>1, HeaderCells
<1>3. HEADER_SIZE + data[5] \in 0 .. Len(data)
  BY <1>1, <1>2 DEF HEADER_SIZE
<1>4. ASSUME NEW i \in HEADER_SIZE + 1 .. HEADER_SIZE + data[5] PROVE data[i] \in Nat
  <2>1. i \in 1 .. Len(data)
    BY <1>2, <1>3 DEF HEADER_SIZE
  <2> QED BY ONLY <2>1, data \in Seq(Nat), ElementOfSeq
<1>5. SubSeq(data, HEADER_SIZE + 1, HEADER_SIZE + data[5]) \in Seq(Nat)
  BY <1>2, <1>4, SubSeqProperties DEF HEADER_SIZE
<1> QED BY <1>2, <1>3, <1>5

(* The first cell of a sequence joins the end of another.                  *)
LEMMA HeadMoves ==
    ASSUME NEW S, NEW a \in Seq(S), NEW b \in Seq(S), b # <<>>
    PROVE  /\ Append(a, Head(b)) \in Seq(S) /\ Len(Append(a, Head(b))) = Len(a) + 1
           /\ Tail(b) \in Seq(S) /\ Len(Tail(b)) = Len(b) - 1
           /\ Append(a, Head(b)) \o Tail(b) = a \o b
<1>1. Head(b) \in S /\ Tail(b) \in Seq(S) /\ Len(Tail(b)) = Len(b) - 1
  BY HeadTailProperties
<1>2. Append(a, Head(b)) \in Seq(S) /\ Len(Append(a, Head(b))) = Len(a) + 1
      /\ Append(a, Head(b)) = a \o <<Head(b)>> /\ <<Head(b)>> \in Seq(S)
  BY <1>1
<1>3. b = <<Head(b)>> \o Tail(b)
  OBVIOUS
<1>4. (a \o <<Head(b)>>) \o Tail(b) = a \o (<<Head(b)>> \o Tail(b))
  <2>1. PICK h \in Seq(S) : h = <<Head(b)>>
    BY <1>2
  <2>2. PICK t \in Seq(S) : t = Tail(b)
    BY <1>1
  <2>3. Cat(Cat(a, h), t) = Cat(a, Cat(h, t))
    BY ONLY a \in Seq(S), h \in Seq(S), t \in Seq(S), CatAssociates
  <2>4. (a \o h) \o t = a \o (h \o t)
    BY ONLY <2>3 DEF Cat
  <2> QED BY ONLY <2>1, <2>2, <2>4
<1> QED BY <1>1, <1>2, <1>3, <1>4

(* One step of OnReadEvent, ProcessInput, TryToWriteData or the network    *)
(* leaves both buffers within their arrays.                                *)
LEMMA BuffersStep == ASSUME BuffersFit, [Next]_vars PROVE BuffersFit'
<1> USE DEF BuffersFit, TypeOK, inVars, outVars
<1>1. CASE OnConnectEvent \/ OnCloseEvent
  BY <1>1 DEF OnConnectEvent, OnCloseEvent
<1>2. ASSUME NEW p \in Packet, DeviceSend(p) PROVE BuffersFit'
  <2>1. Encode(p) \in Seq(Nat)
    BY EncodeCells
  <2>2. rx' \in Seq(Nat) /\ sent' \in Seq(Packet)
    BY <1>2, <2>1, ConcatProperties, AppendProperties DEF DeviceSend
  <2> QED BY <1>2, <2>2 DEF DeviceSend
<1>3. ASSUME NEW n \in 1 .. TempSize, OnReadEvent(n) PROVE BuffersFit'
  <2>1. n \in 0 .. Len(rx)
    BY <1>3, StreamAssumption DEF OnReadEvent
  <2>2. SubSeq(rx, 1, n) \in Seq(Nat) /\ Drop(rx, n) \in Seq(Nat)
    BY <2>1, CutAt
  <2>3. read_buffer_' \in Buffer(Nat) /\ Fits(read_buffer_')
    BY <1>3, <2>2, WriteBytesAppends DEF OnReadEvent
  <2>4. offset' \in 0 .. Length(read_buffer_')
    BY <1>3, <2>3, LenProperties DEF OnReadEvent, Length, Buffer
  <2> QED BY <1>3, <2>2, <2>3, <2>4 DEF OnReadEvent
<1>4. CASE OnHandleInputPacket
  <2> DEFINE data == Drop(Data(read_buffer_), offset)
             packet == [type |-> data[3], data |-> SubSeq(data, HEADER_SIZE + 1,
                                                          HEADER_SIZE + data[5])]
  <2>1. offset \in 0 .. Length(read_buffer_) /\ WholePacket(data)
        /\ handled' = Append(handled, packet) /\ offset' = offset + HEADER_SIZE + data[5]
    BY <1>4 DEF OnHandleInputPacket
  <2>2. data \in Seq(Nat) /\ Len(data) = Length(read_buffer_) - offset
    BY <2>1, DataLeft
  <2> HIDE DEF data
  <2>3. data[3] \in Nat /\ data[5] \in Nat /\ HEADER_SIZE + data[5] \in 0 .. Len(data)
    BY <2>1, <2>2, WholeCells
  <2>4. SubSeq(data, HEADER_SIZE + 1, HEADER_SIZE + data[5]) \in Seq(Nat)
    BY <2>1, <2>2, WholeCells
  <2>5. handled' \in Seq([type : Nat, data : Seq(Nat)])
    BY <2>1, <2>3, <2>4
  <2>6. Length(read_buffer_) \in Nat
    BY LenProperties DEF Length, Buffer
  <2>7. offset' \in 0 .. Length(read_buffer_)
    <3> DEFINE l == Length(read_buffer_)
               m == data[5]
    <3>1. /\ offset \in 0 .. l /\ l \in Nat /\ m \in Nat /\ HEADER_SIZE + m \in 0 .. l - offset
          /\ offset' = offset + HEADER_SIZE + m
      BY <2>1, <2>2, <2>3, <2>6
    <3> HIDE DEF l, m, BuffersFit, TypeOK
    <3>2. offset' \in 0 .. l
      BY <3>1 DEF HEADER_SIZE
    <3> QED BY <3>2 DEF l
  <2> QED BY <1>4, <2>5, <2>7 DEF OnHandleInputPacket
<1>5. CASE ConsumeInput
  <2>1. offset \in 0 .. Length(read_buffer_) /\ read_buffer_' = Consume(read_buffer_, offset)
    BY <1>5 DEF ConsumeInput
  <2>2. read_buffer_' \in Buffer(Nat) /\ Fits(read_buffer_')
    BY <2>1, ConsumeDrops
  <2> QED BY <1>5, <2>2 DEF ConsumeInput
<1>6. ASSUME NEW p \in Packet, AsyncWrite(p) PROVE BuffersFit'
  <2>1. Queue(write_buffer_, p) \in Buffer(Nat) /\ Fits(Queue(write_buffer_, p))
    BY QueueAppends
  <2>2. /\ write_buffer_' \in Buffer(Nat) /\ Fits(write_buffer_')
        /\ tx' \in Seq(Nat) /\ Len(tx') <= TxRoom /\ DE_WRITE' \in BOOLEAN
    BY <1>6, <2>1, WriteMoves DEF AsyncWrite
  <2>3. written' \in Seq(Packet)
    BY <1>6, AppendProperties DEF AsyncWrite
  <2> QED BY <1>6, <2>2, <2>3 DEF AsyncWrite
<1>7. CASE WriteHeartbeat
  <2>1. Queue(write_buffer_, Heartbeat) \in Buffer(Nat) /\ Fits(Queue(write_buffer_, Heartbeat))
    BY HeartbeatIsPacket, QueueAppends
  <2>2. /\ write_buffer_' \in Buffer(Nat) /\ Fits(write_buffer_')
        /\ tx' \in Seq(Nat) /\ Len(tx') <= TxRoom /\ DE_WRITE' \in BOOLEAN
    BY <1>7, <2>1, WriteMoves DEF WriteHeartbeat
  <2> QED BY <1>7, <2>2 DEF WriteHeartbeat
<1>8. CASE OnWriteEvent
  <2>1. /\ write_buffer_' \in Buffer(Nat) /\ Fits(write_buffer_')
        /\ tx' \in Seq(Nat) /\ Len(tx') <= TxRoom /\ DE_WRITE' \in BOOLEAN
    BY <1>8, WriteMoves DEF OnWriteEvent
  <2> QED BY <1>8, <2>1 DEF OnWriteEvent
<1>9. CASE DeviceRead
  <2> DEFINE data == Append(peer, Head(tx))
  <2>1. data \in Seq(Nat) /\ tx' \in Seq(Nat) /\ Len(tx') <= TxRoom
    <3>1. tx \in Seq(Nat) /\ peer \in Seq(Nat) /\ tx # <<>> /\ tx' = Tail(tx)
      BY <1>9 DEF DeviceRead
    <3>2. data \in Seq(Nat) /\ Tail(tx) \in Seq(Nat) /\ Len(Tail(tx)) = Len(tx) - 1
      BY <3>1, HeadMoves
    <3>3. Len(tx) \in Nat /\ TxRoom \in Nat
      BY <3>1, LenProperties, StreamAssumption
    <3> QED BY <3>1, <3>2, <3>3
  <2> HIDE DEF data
  <2>2. peer' \in Seq(Nat) /\ received' \in Seq([type : Nat, data : Seq(Nat)])
    <3>1. CASE Len(data) >= HEADER_SIZE /\ Len(data) = HEADER_SIZE + data[5]
      <4>1. HEADER_SIZE \in 0 .. Len(data) /\ data[3] \in Nat
        BY <2>1, <3>1, HeaderCells
      <4>2. Drop(data, HEADER_SIZE) \in Seq(Nat)
        BY <2>1, <4>1, CutAt
      <4>3. \/ received' = received
            \/ received' = Append(received, [type |-> data[3], data |-> Drop(data, HEADER_SIZE)])
        BY <1>9, <3>1 DEF DeviceRead, data
      <4>4. peer' = <<>>
        BY <1>9, <3>1 DEF DeviceRead, data
      <4>5. received' \in Seq([type : Nat, data : Seq(Nat)])
        <5> DEFINE P == [type : Nat, data : Seq(Nat)]
                   r == [type |-> data[3], data |-> Drop(data, HEADER_SIZE)]
        <5>1. r \in P
          BY <4>1, <4>2
        <5> HIDE DEF P, r
        <5>2. received' = received \/ received' = Append(received, r)
          BY <4>3 DEF r
        <5>3. received \in Seq(P)
          BY DEF P
        <5> HIDE DEF BuffersFit, TypeOK
        <5>4. received' \in Seq(P)
          BY <5>1, <5>2, <5>3, AppendProperties
        <5> QED BY <5>4 DEF P
      <4> QED BY <4>4, <4>5
    <3>2. CASE ~(Len(data) >= HEADER_SIZE /\ Len(data) = HEADER_SIZE + data[5])
      BY <1>9, <2>1, <3>2 DEF DeviceRead, data
    <3> QED BY <3>1, <3>2
  <2> QED BY <1>9, <2>1, <2>2 DEF DeviceRead
<1>10. CASE UNCHANGED vars
  BY <1>10 DEF vars
<1> QED
  BY <1>1, <1>2, <1>3, <1>4, <1>5, <1>6, <1>7, <1>8, <1>9, <1>10 DEF Next, Read

(* Session::OnReadEvent, ProcessInput and TryToWriteData keep both buffers *)
(* within their arrays, and every variable its type.                       *)
THEOREM BuffersFitHolds == Spec => []BuffersFit
<1>1. Init => BuffersFit
  BY StreamAssumption
     DEF Init, BuffersFit, TypeOK, Construct, Buffer, Fits, Length, None
<1>2. BuffersFit /\ [Next]_vars => BuffersFit'
  BY BuffersStep
<1> QED BY <1>1, <1>2, PTL DEF Spec

(* ProcessInput stops only when no whole packet is left.                   *)
LEMMA NoPacketLeftStep ==
    ASSUME BuffersFit, NoPacketLeft, [Next]_vars PROVE NoPacketLeft'
<1>1. CASE UNCHANGED <<offset, read_buffer_>>
  BY <1>1 DEF NoPacketLeft
<1>2. ASSUME NEW n \in 1 .. TempSize, OnReadEvent(n) PROVE NoPacketLeft'
  BY <1>2 DEF OnReadEvent, NoPacketLeft, None
<1>3. CASE OnHandleInputPacket
  <2>1. /\ read_buffer_ \in Buffer(Nat) /\ offset \in 0 .. Length(read_buffer_)
        /\ WholePacket(Drop(Data(read_buffer_), offset))
        /\ offset' = offset + HEADER_SIZE + Drop(Data(read_buffer_), offset)[5]
    BY <1>3 DEF OnHandleInputPacket, BuffersFit, TypeOK
  <2> DEFINE data == Drop(Data(read_buffer_), offset)
  <2>2. data \in Seq(Nat)
    BY <2>1, DataLeft
  <2>3. data[5] \in Nat
    BY <2>1, <2>2, WholeCells
  <2> HIDE DEF data
  <2>4. offset' # None
    BY <2>1, <2>3 DEF None, HEADER_SIZE, data
  <2> QED BY <2>4 DEF NoPacketLeft
<1>4. CASE ConsumeInput
  <2>1. /\ read_buffer_ \in Buffer(Nat) /\ Fits(read_buffer_) /\ offset \in 0 .. Length(read_buffer_)
        /\ ~WholePacket(Drop(Data(read_buffer_), offset))
        /\ read_buffer_' = Consume(read_buffer_, offset)
    BY <1>4 DEF ConsumeInput, BuffersFit, TypeOK
  <2>2. Data(read_buffer_') = Drop(Data(read_buffer_), offset)
    BY <2>1, ConsumeDrops
  <2>3. NoPacketLeft' <=> (offset' = None => ~WholePacket(Data(read_buffer_')))
    BY DEF NoPacketLeft, WholePacket, Data
  <2> QED BY <2>1, <2>2, <2>3
<1>5. \/ UNCHANGED <<offset, read_buffer_>> \/ OnHandleInputPacket \/ ConsumeInput
      \/ \E n \in 1 .. TempSize : OnReadEvent(n)
  BY DEF Next, vars, inVars, outVars, Read, OnConnectEvent, OnCloseEvent, DeviceSend, AsyncWrite,
         WriteHeartbeat, OnWriteEvent, DeviceRead
<1> QED BY <1>1, <1>2, <1>3, <1>4, <1>5

(* Between two read events read_buffer_ holds no whole packet, so that no  *)
(* answer waits for more data to arrive.                                   *)
THEOREM NoPacketLeftHolds == Spec => []NoPacketLeft
<1>1. Init => NoPacketLeft
  BY DEF Init, NoPacketLeft, WholePacket, Construct, Data, HEADER_SIZE
<1>2. BuffersFit /\ NoPacketLeft /\ [Next]_vars => NoPacketLeft'
  BY NoPacketLeftStep
<1> QED BY <1>1, <1>2, BuffersFitHolds, PTL DEF Spec
-----------------------------------------------------------------------------
(***************************************************************************)
(* From the device.  frames are the packets that are sent and not handled: *)
(* what the parser has not handed out of read_buffer_, with what recv()    *)
(* has not returned, is their cells and no others.                         *)
(***************************************************************************)
Encoder == [p \in Packet |-> Encode(p)]

Unparsed == IF offset = None THEN Data(read_buffer_) ELSE Drop(Data(read_buffer_), offset)

InboundInv ==
    /\ handled \in Seq(Packet)
    /\ \E frames \in Seq(Packet) :
        /\ sent = handled \o frames
        /\ Joins(Nat, Unparsed \o rx, Each(Encoder, frames))

(* The encoder makes cells of packets.                                     *)
LEMMA EncoderType ==
    Encoder \in Maps(Packet, Seq(Nat)) /\ \A p \in Packet : Encoder[p] = Encode(p)
BY EncodeCells DEF Encoder, Maps

(* A packet at the end of the stream.                                      *)
LEMMA FrameAdded ==
    ASSUME NEW frames \in Seq(Packet), NEW p \in Packet, NEW w \in Seq(Nat),
           Joins(Nat, w, Each(Encoder, frames))
    PROVE  Joins(Nat, w \o Encode(p), Each(Encoder, Append(frames, p)))
<1>1. /\ Each(Encoder, frames) \in Seq(Seq(Nat))
      /\ Each(Encoder, Append(frames, p)) = Append(Each(Encoder, frames), Encoder[p])
  BY EncoderType, EachParts
<1>2. Encoder[p] = Encode(p) /\ Encode(p) \in Seq(Nat)
  BY EncoderType, EncodeCells
<1> QED BY <1>1, <1>2, JoinsAppend

(* The packet at the front of the stream.                                  *)
LEMMA FirstFrame ==
    ASSUME NEW frames \in Seq(Packet), NEW w \in Seq(Nat), w # <<>>,
           Joins(Nat, w, Each(Encoder, frames))
    PROVE  /\ frames # <<>> /\ Head(frames) \in Packet /\ Tail(frames) \in Seq(Packet)
           /\ frames = <<Head(frames)>> \o Tail(frames)
           /\ \E r \in Seq(Nat) : /\ w = Encode(Head(frames)) \o r
                                  /\ Joins(Nat, r, Each(Encoder, Tail(frames)))
<1>1. frames # <<>>
  <2>1. SUFFICES ASSUME frames = <<>> PROVE FALSE
    OBVIOUS
  <2>2. Each(Encoder, frames) = <<>>
    BY <2>1 DEF Each
  <2> QED BY <2>2, JoinsNone
<1>2. Head(frames) \in Packet /\ Tail(frames) \in Seq(Packet)
      /\ frames = <<Head(frames)>> \o Tail(frames)
  BY <1>1
<1>3. /\ Each(Encoder, frames) \in Seq(Seq(Nat)) /\ Each(Encoder, frames) # <<>>
      /\ Each(Encoder, frames)[1] = Encoder[Head(frames)]
      /\ Each(Encoder, Tail(frames)) = Tail(Each(Encoder, frames))
  BY <1>1, EncoderType, EachParts
<1>4. Encoder[Head(frames)] = Encode(Head(frames))
  BY <1>2, EncoderType
<1>5. \E r \in Seq(Nat) : /\ w = Each(Encoder, frames)[1] \o r
                          /\ Joins(Nat, r, Tail(Each(Encoder, frames)))
  BY <1>3, JoinsFirst
<1> QED BY <1>1, <1>2, <1>3, <1>4, <1>5

(* What the header at the beginning of data says.                          *)
FrameSize(data) == HEADER_SIZE + data[5]
Covers(data) == Len(data) >= HEADER_SIZE /\ Len(data) >= FrameSize(data)
Payload(data) == SubSeq(data, HEADER_SIZE + 1, HEADER_SIZE + data[5])

(* The first frame is whole within a first part of the stream as soon as   *)
(* the part is as long as its header says.                                 *)
LEMMA WholeFrame ==
    ASSUME NEW p \in Packet, NEW r \in Seq(Nat), NEW data \in Seq(Nat), NEW more \in Seq(Nat)
    PROVE  data \o more = Encode(p) \o r /\ Covers(data)
           => /\ data[3] = p.type /\ FrameSize(data) = Len(Encode(p))
              /\ Payload(data) = p.data
<1> USE DEF FrameSize, Covers, Payload
<1>a. SUFFICES ASSUME data \o more = Encode(p) \o r, Covers(data)
               PROVE  /\ data[3] = p.type /\ FrameSize(data) = Len(Encode(p))
                      /\ Payload(data) = p.data
  OBVIOUS
<1> DEFINE e == Encode(p)
           w == e \o r
<1>1. /\ e \in Seq(Nat) /\ Len(e) = HEADER_SIZE + Len(p.data) /\ Len(p.data) \in Nat
      /\ e[3] = p.type /\ e[5] = Len(p.data) /\ p.data \in Seq(Nat)
      /\ Drop(e, HEADER_SIZE) = p.data
  BY EncodeCells
<1> HIDE DEF e
<1>2. \A i \in 1 .. Len(e) : w[i] = e[i]
  BY <1>1, CutConcat
<1>3. \A i \in 1 .. Len(data) : w[i] = data[i]
  <2>1. w = data \o more
    BY <1>a DEF e
  <2> HIDE DEF w
  <2> QED BY <2>1, CutConcat
<1>4. 3 \in 1 .. Len(e) /\ 5 \in 1 .. Len(e) /\ 3 \in 1 .. Len(data) /\ 5 \in 1 .. Len(data)
  <2>1. Len(data) \in Nat /\ Len(e) \in Nat
    BY <1>1, LenProperties
  <2>2. 5 <= Len(data)
    BY <1>a, <2>1 DEF HEADER_SIZE
  <2>3. 5 <= Len(e)
    BY <1>1, <2>1 DEF HEADER_SIZE
  <2> QED BY <2>1, <2>2, <2>3
<1>5. data[3] = e[3] /\ data[5] = e[5]
  BY <1>2, <1>3, <1>4
<1>6. data[3] = p.type /\ data[5] = Len(p.data) /\ HEADER_SIZE + data[5] = Len(e)
  BY <1>1, <1>5
<1>7. SubSeq(data, HEADER_SIZE + 1, Len(e)) = p.data
  <2> DEFINE q == SubSeq(data, HEADER_SIZE + 1, Len(e))
             n == Len(p.data)
  <2>1. HEADER_SIZE + n = Len(e) /\ n \in Nat /\ Len(e) <= Len(data) /\ Len(data) \in Nat
    BY <1>a, <1>1, <1>6, LenProperties
  <2>2. ASSUME NEW i \in HEADER_SIZE + 1 .. Len(e) PROVE data[i] \in Nat
    <3>1. i \in 1 .. Len(data)
      BY <2>1 DEF HEADER_SIZE
    <3> QED BY ONLY <3>1, data \in Seq(Nat), ElementOfSeq
  <2>3. q \in Seq(Nat) /\ Len(q) = n
        /\ \A i \in 1 .. n : q[i] = data[HEADER_SIZE + i]
    <3>1. PICK h \in Nat : h = HEADER_SIZE
      BY DEF HEADER_SIZE
    <3>2. PICK l \in Nat : l = Len(e) /\ l = h + n
      BY <2>1, <3>1
    <3>3. q = SubSeq(data, h + 1, l) /\ \A i \in h + 1 .. l : data[i] \in Nat
      BY ONLY <2>2, <3>1, <3>2
    <3>4. q \in Seq(Nat) /\ Len(q) = n /\ \A i \in 1 .. n : q[i] = data[h + i]
      <4> HIDE DEF q, n
      <4> QED BY <2>1, <3>2, <3>3
    <3> QED BY ONLY <3>1, <3>4
  <2>4. HEADER_SIZE \in 0 .. Len(e) /\ Len(e) - HEADER_SIZE = n
    BY <2>1 DEF HEADER_SIZE
  <2>5. \A i \in 1 .. n : Drop(e, HEADER_SIZE)[i] = e[HEADER_SIZE + i]
    <3>1. e \in Seq(Nat)
      BY <1>1
    <3> HIDE DEF n
    <3>2. \A i \in 1 .. Len(e) - HEADER_SIZE : Drop(e, HEADER_SIZE)[i] = e[HEADER_SIZE + i]
      BY <2>4, <3>1, CutAt
    <3> QED BY <2>4, <3>2
  <2> HIDE DEF q
  <2>6. ASSUME NEW i \in 1 .. n PROVE q[i] = p.data[i]
    <3>1. HEADER_SIZE + i \in 1 .. Len(e) /\ HEADER_SIZE + i \in 1 .. Len(data)
      BY <2>1 DEF HEADER_SIZE
    <3>2. data[HEADER_SIZE + i] = e[HEADER_SIZE + i]
      BY <1>2, <1>3, <3>1
    <3> QED BY <1>1, <2>3, <2>5, <3>2
  <2>7. q = p.data
    BY <1>1, <2>3, <2>6, SeqEqual
  <2> QED BY <2>7 DEF q
<1> QED BY <1>6, <1>7 DEF e

(* And what follows it follows it.                                         *)
LEMMA FrameRest ==
    ASSUME NEW p \in Packet, NEW r \in Seq(Nat), NEW data \in Seq(Nat), NEW more \in Seq(Nat),
           Cat(data, more) = Cat(Encode(p), r), Covers(data)
    PROVE  Cat(Drop(data, FrameSize(data)), more) = r
<1>0. data \o more = Encode(p) \o r
  BY ONLY Cat(data, more) = Cat(Encode(p), r) DEF Cat
<1>1. FrameSize(data) = Len(Encode(p)) /\ Encode(p) \in Seq(Nat)
  BY <1>0, WholeFrame, EncodeCells
<1>2. Len(Encode(p)) <= Len(data)
  <2>1. Len(data) \in Nat /\ Len(Encode(p)) \in Nat
    BY <1>1, LenProperties
  <2> QED BY <1>1, <2>1 DEF Covers
<1>3. Drop(data, Len(Encode(p))) \o more = r
  BY <1>0, <1>1, <1>2, LongerFirstPart
<1> QED BY ONLY <1>1, <1>3 DEF Cat

(* What is not parsed yet, and its types.                                  *)
LEMMA UnparsedType ==
    ASSUME BuffersFit
    PROVE  Unparsed \in Seq(Nat) /\ rx \in Seq(Nat) /\ Unparsed \o rx \in Seq(Nat)
<1>1. read_buffer_ \in Buffer(Nat) /\ rx \in Seq(Nat)
  BY DEF BuffersFit, TypeOK
<1>2. offset = None \/ offset \in 0 .. Length(read_buffer_)
  BY DEF BuffersFit, TypeOK
<1>3. Data(read_buffer_) \in Seq(Nat)
  BY <1>1 DEF Data, Buffer
<1>4. Unparsed \in Seq(Nat)
  BY <1>1, <1>2, <1>3, DataLeft DEF Unparsed
<1> QED BY <1>1, <1>4, ConcatProperties

(* Stepping over a packet, from the place where the parser is.             *)
LEMMA DropTwice ==
    ASSUME NEW S, NEW s \in Seq(S), NEW m \in 0 .. Len(s), NEW n \in 0 .. Len(Drop(s, m))
    PROVE  Drop(s, m + n) = Drop(Drop(s, m), n)
<1> DEFINE t == Drop(s, m)
<1> HIDE DEF t
<1>1. t \in Seq(S) /\ Len(t) = Len(s) - m
  BY CutAt DEF t
<1>2. \A i \in 1 .. Len(t) : t[i] = s[m + i]
  <2>1. \A i \in 1 .. Len(s) - m : t[i] = s[m + i]
    BY CutAt DEF t
  <2> QED BY <1>1, <2>1
<1>3. n \in 0 .. Len(t) /\ m + n \in 0 .. Len(s) /\ Len(s) \in Nat
  BY <1>1, LenProperties DEF t
<1>4. /\ Drop(t, n) \in Seq(S) /\ Len(Drop(t, n)) = Len(t) - n
      /\ \A i \in 1 .. Len(t) - n : Drop(t, n)[i] = t[n + i]
  BY <1>1, <1>3, CutAt
<1>5. /\ Drop(s, m + n) \in Seq(S) /\ Len(Drop(s, m + n)) = Len(s) - (m + n)
      /\ \A i \in 1 .. Len(s) - (m + n) : Drop(s, m + n)[i] = s[m + n + i]
  BY <1>3, CutAt
<1> DEFINE k == Len(s) - (m + n)
<1>6. Len(t) - n = k
  BY <1>1, <1>3
<1>7. ASSUME NEW i \in 1 .. k PROVE Drop(s, m + n)[i] = Drop(t, n)[i]
  <2>1. n + i \in 1 .. Len(t) /\ m + n + i = m + (n + i)
    BY <1>1, <1>3
  <2> QED BY <1>2, <1>4, <1>5, <1>6, <2>1
<1> QED BY <1>4, <1>5, <1>6, <1>7, SeqEqual DEF t

(* The next element of a sequence joins the part that is done.             *)
LEMMA NextOne ==
    ASSUME NEW S, NEW a \in Seq(S), NEW e \in S, NEW b \in Seq(S)
    PROVE  /\ Append(a, e) \in Seq(S) /\ Append(a, e) \o b = a \o (<<e>> \o b)
           /\ Len(a) < Len(a \o (<<e>> \o b)) /\ (a \o (<<e>> \o b))[Len(a) + 1] = e
<1> DEFINE c == <<e>> \o b
<1>1. c \in Seq(S) /\ Len(c) = Len(b) + 1 /\ c[1] = e
  OBVIOUS
<1>2. Append(a, e) \in Seq(S) /\ Append(a, e) \o b = a \o c
  OBVIOUS
<1> HIDE DEF c
<1>3. Len(a \o c) = Len(a) + Len(c) /\ \A i \in 1 .. Len(c) : (a \o c)[Len(a) + i] = c[i]
  BY ONLY <1>1, a \in Seq(S)
<1>4. 1 \in 1 .. Len(c) /\ Len(a) \in Nat /\ Len(b) \in Nat
  BY <1>1, LenProperties
<1> QED BY <1>1, <1>2, <1>3, <1>4 DEF c

LEMMA NextCat ==
    ASSUME NEW S, NEW a \in Seq(S), NEW e \in S, NEW b \in Seq(S), NEW f, f = <<e>>
    PROVE  /\ Append(a, e) \in Seq(S) /\ Cat(Append(a, e), b) = Cat(a, Cat(f, b))
           /\ Len(a) < Len(Cat(a, Cat(f, b))) /\ Cat(a, Cat(f, b))[Len(a) + 1] = e
BY NextOne DEF Cat

(* Every step keeps the unparsed cells the cells of the packets that are   *)
(* still to be handed out.                                                 *)
LEMMA InboundStep ==
    ASSUME BuffersFit, BuffersFit', InboundInv, [Next]_vars
    PROVE  InboundInv' /\ [Inbound!Next]_(Inbound!vars)
<1>1. Unparsed \in Seq(Nat) /\ rx \in Seq(Nat) /\ Unparsed \o rx \in Seq(Nat)
  BY UnparsedType
<1>2. PICK frames \in Seq(Packet) :
        sent = handled \o frames /\ Joins(Nat, Unparsed \o rx, Each(Encoder, frames))
  BY DEF InboundInv
<1>3. handled \in Seq(Packet)
  BY DEF InboundInv
<1>4. CASE UNCHANGED inVars
  BY <1>4 DEF inVars, InboundInv, Unparsed, Inbound!vars
<1>5. ASSUME NEW p \in Packet, DeviceSend(p) PROVE InboundInv' /\ [Inbound!Next]_(Inbound!vars)
  <2>1. /\ rx' = rx \o Encode(p) /\ sent' = Append(sent, p) /\ handled' = handled
        /\ UNCHANGED <<read_buffer_, offset>>
    BY <1>5 DEF DeviceSend
  <2>2. Encode(p) \in Seq(Nat)
    BY EncodeCells
  <2>3. Unparsed' = Unparsed
    BY <2>1 DEF Unparsed
  <2>4. Unparsed' \o rx' = (Unparsed \o rx) \o Encode(p)
    <3> DEFINE u == Unparsed
               e == Encode(p)
    <3>1. u \in Seq(Nat) /\ rx \in Seq(Nat) /\ e \in Seq(Nat)
      BY <1>1, <2>2
    <3> HIDE DEF u, e
    <3>2. Cat(Cat(u, rx), e) = Cat(u, Cat(rx, e))
      BY ONLY <3>1, CatAssociates
    <3>3. (u \o rx) \o e = u \o (rx \o e)
      BY ONLY <3>2 DEF Cat
    <3> QED BY <2>1, <2>3, <3>3 DEF u, e
  <2> DEFINE more == Append(frames, p)
  <2>5. more \in Seq(Packet) /\ Append(handled \o frames, p) = handled \o more
    BY <1>3
  <2> HIDE DEF more
  <2>6. sent' = handled' \o more
    BY <1>2, <2>1, <2>5
  <2>7. Joins(Nat, Unparsed' \o rx', Each(Encoder, more))
    BY <1>1, <1>2, <2>4, FrameAdded DEF more
  <2>8. InboundInv'
    BY <1>3, <2>1, <2>5, <2>6, <2>7, Zenon
    DEF InboundInv, Unparsed, Joins, Each, Encoder, Encode, Header
  <2> QED BY <2>1, <2>8 DEF Inbound!Next, Inbound!Send
<1>6. ASSUME UNCHANGED <<sent, handled>>, Unparsed' \o rx' = Unparsed \o rx
      PROVE  InboundInv' /\ [Inbound!Next]_(Inbound!vars)
  <2>1. Joins(Nat, Unparsed' \o rx', Each(Encoder, frames))
    BY <1>2, <1>6
  <2>2. InboundInv'
    BY <1>2, <1>3, <1>6, <2>1, Zenon DEF InboundInv, Joins, Each, Encoder, Encode, Header
  <2> QED BY <1>6, <2>2 DEF Inbound!vars
<1>7. ASSUME NEW n \in 1 .. TempSize, OnReadEvent(n)
      PROVE  InboundInv' /\ [Inbound!Next]_(Inbound!vars)
  <2>1. /\ offset = None /\ offset' = 0 /\ n <= Len(rx) /\ rx' = Drop(rx, n)
        /\ read_buffer_' = WriteBytes(read_buffer_, SubSeq(rx, 1, n))
        /\ read_buffer_ \in Buffer(Nat) /\ Fits(read_buffer_)
        /\ UNCHANGED <<sent, handled>>
    BY <1>7 DEF OnReadEvent, BuffersFit, TypeOK
  <2>2. n \in 0 .. Len(rx)
    BY <1>1, <2>1, LenProperties, StreamAssumption
  <2> DEFINE a == SubSeq(rx, 1, n)
             b == Drop(rx, n)
             d == Data(read_buffer_)
  <2>3. a \in Seq(Nat) /\ b \in Seq(Nat) /\ a \o b = rx
    BY <1>1, <2>2, CutAt
  <2>4. read_buffer_' \in Buffer(Nat) /\ Data(read_buffer_') = d \o a
    BY <2>1, <2>3, WriteBytesAppends
  <2>5. d \in Seq(Nat) /\ Unparsed = d
    BY <1>1, <2>1 DEF Unparsed
  <2> HIDE DEF a, b, d
  <2>6. Unparsed' = Drop(d \o a, 0)
    <3>1. offset' = 0 /\ 0 # None
      BY <2>1 DEF None
    <3>2. Unparsed' = Drop(Data(read_buffer_)', 0)
      BY ONLY <3>1 DEF Unparsed
    <3> QED BY ONLY <2>4, <3>2 DEF Data
  <2>7. d \o a \in Seq(Nat) /\ (d \o a) \o b = d \o (a \o b)
    <3>1. Cat(d, a) \in Seq(Nat) /\ Cat(Cat(d, a), b) = Cat(d, Cat(a, b))
      BY ONLY <2>3, <2>5, CatIsSeq, CatAssociates
    <3> QED BY ONLY <3>1 DEF Cat
  <2>8. Drop(d \o a, 0) = d \o a
    <3> DEFINE c == d \o a
    <3>1. c \in Seq(Nat)
      BY <2>7
    <3> HIDE DEF c
    <3>2. Drop(c, 0) = c
      BY <3>1, SubSeqFull DEF Drop
    <3> QED BY <3>2 DEF c
  <2>9. Unparsed' = d \o a /\ rx' = b
    BY <2>1, <2>6, <2>8 DEF b
  <2>10. Unparsed' \o rx' = Unparsed \o rx
    BY <2>3, <2>5, <2>7, <2>9, Zenon
  <2> QED BY <1>6, <2>1, <2>10
<1>8. CASE OnHandleInputPacket
  <2> DEFINE data == Drop(Data(read_buffer_), offset)
             packet == [type |-> data[3], data |-> SubSeq(data, HEADER_SIZE + 1,
                                                          HEADER_SIZE + data[5])]
             size == HEADER_SIZE + data[5]
  <2>1. /\ read_buffer_ \in Buffer(Nat) /\ offset \in 0 .. Length(read_buffer_)
        /\ offset # None /\ WholePacket(data) /\ handled' = Append(handled, packet)
        /\ offset' = offset + HEADER_SIZE + data[5]
        /\ UNCHANGED <<rx, read_buffer_, sent>>
    BY <1>8 DEF OnHandleInputPacket, BuffersFit, TypeOK
  <2>2. data \in Seq(Nat) /\ Unparsed = data
    BY <1>1, <2>1 DEF Unparsed
  <2>3. Data(read_buffer_) \in Seq(Nat) /\ Length(read_buffer_) = Len(Data(read_buffer_))
    BY <2>1, DataLeft
  <2>4. data[5] \in Nat /\ size \in 0 .. Len(data) /\ Len(data) >= HEADER_SIZE
    BY <2>1, <2>2, WholeCells DEF WholePacket
  <2>5. Unparsed' = Drop(data, size)
    <3> DEFINE d == Data(read_buffer_)
               m == data[5]
    <3>1. offset \in 0 .. Len(d) /\ d \in Seq(Nat) /\ m \in Nat
      BY <2>1, <2>3, <2>4
    <3>2. offset' # None /\ offset' = offset + (HEADER_SIZE + m)
      <4>1. offset \in Nat /\ m \in Nat /\ offset' = offset + HEADER_SIZE + m
        BY <2>1, <3>1
      <4> HIDE DEF m
      <4> QED BY ONLY <4>1 DEF None, HEADER_SIZE
    <3>3. Unparsed' = Drop(d, offset + (HEADER_SIZE + m))
      BY <2>1, <3>2 DEF Unparsed
    <3>4. HEADER_SIZE + m \in 0 .. Len(Drop(d, offset))
      BY <2>4
    <3> HIDE DEF d, m, data
    <3>5. Drop(d, offset + (HEADER_SIZE + m)) = Drop(Drop(d, offset), HEADER_SIZE + m)
      BY <3>1, <3>4, DropTwice
    <3> QED BY <3>3, <3>5 DEF d, m, data
  <2> HIDE DEF data
  <2>6. data \o rx # <<>>
    <3>1. Len(data \o rx) = Len(data) + Len(rx) /\ Len(data) \in Nat /\ Len(rx) \in Nat
      BY <1>1, <2>2, ConcatProperties, LenProperties
    <3>2. Len(data \o rx) # 0
      BY <2>4, <3>1 DEF HEADER_SIZE
    <3> QED BY <3>2
  <2>7. /\ Head(frames) \in Packet /\ Tail(frames) \in Seq(Packet)
        /\ frames = <<Head(frames)>> \o Tail(frames)
        /\ \E r \in Seq(Nat) : /\ data \o rx = Encode(Head(frames)) \o r
                               /\ Joins(Nat, r, Each(Encoder, Tail(frames)))
    BY <1>1, <1>2, <2>2, <2>6, FirstFrame
  <2> DEFINE p == Head(frames)
             rest == Tail(frames)
  <2> HIDE DEF p, rest
  <2>8. p \in Packet /\ rest \in Seq(Packet) /\ frames = <<p>> \o rest
    BY <2>7 DEF p, rest
  <2>9. PICK r \in Seq(Nat) : data \o rx = Encode(p) \o r /\ Joins(Nat, r, Each(Encoder, rest))
    BY <2>7 DEF p, rest
  <2>10. /\ data[3] = p.type /\ Drop(data, size) \o rx = r
         /\ SubSeq(data, HEADER_SIZE + 1, HEADER_SIZE + data[5]) = p.data
    <3>1. Covers(data)
      BY <2>4 DEF Covers, FrameSize
    <3>2. /\ data[3] = p.type /\ Drop(data, FrameSize(data)) \o rx = r
          /\ Payload(data) = p.data
      <4>1. data \in Seq(Nat)
        BY <2>2
      <4>2. rx \in Seq(Nat)
        BY <1>1
      <4>3. p \in Packet
        BY <2>8
      <4>4. data \o rx = Encode(p) \o r
        BY <2>9
      <4>5. data[3] = p.type /\ Payload(data) = p.data
        BY <4>1, <4>2, <4>3, <4>4, <3>1, WholeFrame
      <4>6. Drop(data, FrameSize(data)) \o rx = r
        <5>1. Cat(data, rx) = Cat(Encode(p), r)
          BY ONLY <4>4 DEF Cat
        <5>2. Cat(Drop(data, FrameSize(data)), rx) = r
          BY ONLY <3>1, <4>1, <4>2, <4>3, <5>1, FrameRest, r \in Seq(Nat)
        <5> QED BY ONLY <5>2 DEF Cat
      <4> QED BY <4>5, <4>6
    <3> QED BY <3>2 DEF FrameSize, Payload
  <2>11. packet = p
    <3>1. p = [type |-> p.type, data |-> p.data]
      BY <2>8, EncodeCells
    <3> QED BY <2>10, <3>1
  <2> HIDE DEF packet, size
  <2>12. Joins(Nat, Unparsed' \o rx', Each(Encoder, rest))
    BY <2>1, <2>5, <2>9, <2>10
  <2>13. /\ handled' \in Seq(Packet) /\ handled' \o rest = sent'
         /\ Len(handled) < Len(sent) /\ sent[Len(handled) + 1] = p
    <3>1. sent = handled \o (<<p>> \o rest) /\ handled' = Append(handled, p) /\ sent' = sent
      BY <1>2, <2>1, <2>8, <2>11
    <3> DEFINE c == handled \o (<<p>> \o rest)
    <3>2. /\ Append(handled, p) \in Seq(Packet) /\ Append(handled, p) \o rest = c
          /\ Len(handled) < Len(c) /\ c[Len(handled) + 1] = p
      <4>1. PICK f : f = <<p>>
        OBVIOUS
      <4>2. /\ Append(handled, p) \in Seq(Packet)
            /\ Cat(Append(handled, p), rest) = Cat(handled, Cat(f, rest))
            /\ Len(handled) < Len(Cat(handled, Cat(f, rest)))
            /\ Cat(handled, Cat(f, rest))[Len(handled) + 1] = p
        BY ONLY <1>3, <2>8, <4>1, NextCat
      <4> QED BY ONLY <4>1, <4>2 DEF Cat, c
    <3> HIDE DEF c
    <3>3. sent = c
      BY <3>1 DEF c
    <3> QED BY <3>1, <3>2, <3>3, Zenon
  <2>14. InboundInv'
    BY <2>8, <2>12, <2>13, Zenon DEF InboundInv, Joins, Each, Encoder, Encode, Header
  <2>15. Inbound!Handle
    BY <2>1, <2>11, <2>13 DEF Inbound!Handle
  <2> QED BY <2>14, <2>15 DEF Inbound!Next
<1>9. CASE ConsumeInput
  <2>1. /\ read_buffer_ \in Buffer(Nat) /\ Fits(read_buffer_) /\ offset \in 0 .. Length(read_buffer_)
        /\ read_buffer_' = Consume(read_buffer_, offset) /\ offset # None /\ offset' = None
        /\ UNCHANGED <<rx, sent, handled>>
    BY <1>9 DEF ConsumeInput, BuffersFit, TypeOK
  <2>2. Data(read_buffer_') = Drop(Data(read_buffer_), offset)
    BY <2>1, ConsumeDrops
  <2>3. Unparsed' = Unparsed
    BY <2>1, <2>2 DEF Unparsed, Data
  <2> QED BY <1>6, <2>1, <2>3
<1>10. \/ UNCHANGED inVars \/ OnHandleInputPacket \/ ConsumeInput
       \/ (\E n \in 1 .. TempSize : OnReadEvent(n)) \/ \E p \in Packet : DeviceSend(p)
  BY DEF Next, vars, inVars, outVars, Read, OnConnectEvent, OnCloseEvent, AsyncWrite,
         WriteHeartbeat, OnWriteEvent, DeviceRead
<1> QED BY <1>4, <1>5, <1>7, <1>8, <1>9, <1>10

(* Session::ProcessInput implements PacketChannel: however recv() cuts the *)
(* stream, the device's packets are handed out whole, in order and once.   *)
THEOREM InboundRefined == Spec => InboundChannel
<1>1. Init => InboundInv /\ Inbound!Init
  <2>1. SUFFICES ASSUME Init PROVE InboundInv /\ Inbound!Init
    OBVIOUS
  <2>2. /\ rx = <<>> /\ sent = <<>> /\ handled = <<>> /\ Unparsed = <<>>
    BY <2>1 DEF Init, Unparsed, Construct, Data
  <2>3. Each(Encoder, <<>>) = <<>> /\ <<>> \o <<>> = <<>>
    BY DEF Each
  <2>4. Joins(Nat, Unparsed \o rx, Each(Encoder, <<>>))
    BY <2>2, <2>3, JoinsEmpty
  <2>5. <<>> \in Seq(Packet)
    BY EmptySeq
  <2>6. InboundInv
    BY <2>2, <2>3, <2>4, <2>5 DEF InboundInv
  <2> QED BY <2>2, <2>6 DEF Inbound!Init
<1>2. BuffersFit /\ BuffersFit' /\ InboundInv /\ [Next]_vars
        => InboundInv' /\ [Inbound!Next]_(Inbound!vars)
  BY InboundStep
<1> QED BY <1>1, <1>2, BuffersFitHolds, PTL DEF Spec, InboundChannel, Inbound!Spec
-----------------------------------------------------------------------------
(***************************************************************************)
(* To the device.  frames are the packets, heartbeats among them, that are *)
(* queued and that the device does not have whole; reqs are the requests   *)
(* among them.  What the device has of the first one, what send() took and *)
(* what write_buffer_ holds is their cells and no others.                  *)
(***************************************************************************)
Request(p) == IF p.type = PACKET_TYPE_HEARTBEAT THEN <<>> ELSE <<p>>
Requester == [p \in Packet |-> Request(p)]

Unreceived == peer \o (tx \o Data(write_buffer_))

OutboundInv ==
    /\ received \in Seq(Packet)
    /\ \E frames, reqs \in Seq(Packet) :
        /\ written = received \o reqs
        /\ Joins(Packet, reqs, Each(Requester, frames))
        /\ Joins(Nat, Unreceived, Each(Encoder, frames))
        /\ frames # <<>> => Len(peer) < Len(Encode(Head(frames)))

(* A packet is at most one request.                                        *)
LEMMA RequesterType ==
    /\ Requester \in Maps(Packet, Seq(Packet))
    /\ \A p \in Packet : Requester[p] = Request(p) /\ Request(p) \in Seq(Packet)
BY DEF Requester, Maps, Request

(* A queued packet adds its request, or none, at the end.                  *)
LEMMA RequestAdded ==
    ASSUME NEW frames \in Seq(Packet), NEW p \in Packet, NEW reqs \in Seq(Packet),
           Joins(Packet, reqs, Each(Requester, frames))
    PROVE  Joins(Packet, reqs \o Request(p), Each(Requester, Append(frames, p)))
<1>1. /\ Each(Requester, frames) \in Seq(Seq(Packet))
      /\ Each(Requester, Append(frames, p)) = Append(Each(Requester, frames), Requester[p])
  BY RequesterType, EachParts
<1>2. Requester[p] = Request(p) /\ Request(p) \in Seq(Packet)
  BY RequesterType
<1> QED BY <1>1, <1>2, JoinsAppend

(* The first packet to arrive brings the first request, or none.           *)
LEMMA FirstRequest ==
    ASSUME NEW frames \in Seq(Packet), NEW reqs \in Seq(Packet), frames # <<>>,
           Joins(Packet, reqs, Each(Requester, frames))
    PROVE  \E q \in Seq(Packet) : /\ reqs = Request(Head(frames)) \o q
                                  /\ Joins(Packet, q, Each(Requester, Tail(frames)))
<1>1. /\ Each(Requester, frames) \in Seq(Seq(Packet)) /\ Each(Requester, frames) # <<>>
      /\ Each(Requester, frames)[1] = Requester[Head(frames)]
      /\ Each(Requester, Tail(frames)) = Tail(Each(Requester, frames))
  BY RequesterType, EachParts
<1>2. Requester[Head(frames)] = Request(Head(frames))
  BY RequesterType
<1>3. \E q \in Seq(Packet) : /\ reqs = Each(Requester, frames)[1] \o q
                             /\ Joins(Packet, q, Tail(Each(Requester, frames)))
  BY <1>1, JoinsFirst
<1> QED BY <1>1, <1>2, <1>3

(* What the device has still to make packets of, and its types.            *)
LEMMA UnreceivedType ==
    ASSUME BuffersFit
    PROVE  /\ peer \in Seq(Nat) /\ tx \in Seq(Nat) /\ Data(write_buffer_) \in Seq(Nat)
           /\ tx \o Data(write_buffer_) \in Seq(Nat) /\ Unreceived \in Seq(Nat)
<1>1. peer \in Seq(Nat) /\ tx \in Seq(Nat) /\ Data(write_buffer_) \in Seq(Nat)
  BY DEF BuffersFit, TypeOK, Data, Buffer
<1>2. tx \o Data(write_buffer_) \in Seq(Nat)
  BY <1>1, ConcatProperties
<1>3. Unreceived \in Seq(Nat)
  BY <1>1, <1>2, ConcatProperties DEF Unreceived
<1> QED BY <1>1, <1>2, <1>3

(* A packet is queued: it is the last frame, and a request more unless it  *)
(* is a heartbeat.                                                         *)
LEMMA QueuedStep ==
    ASSUME BuffersFit, OutboundInv, NEW p \in Packet,
           TryToWriteData(Queue(write_buffer_, p), DE_WRITE),
           peer' = peer, received' = received, written' = written \o Request(p)
    PROVE  OutboundInv'
<1>1. /\ peer \in Seq(Nat) /\ tx \in Seq(Nat) /\ Data(write_buffer_) \in Seq(Nat)
      /\ tx \o Data(write_buffer_) \in Seq(Nat) /\ Unreceived \in Seq(Nat)
  BY UnreceivedType
<1>2. received \in Seq(Packet)
  BY DEF OutboundInv
<1>3. PICK frames, reqs \in Seq(Packet) :
        /\ written = received \o reqs
        /\ Joins(Packet, reqs, Each(Requester, frames))
        /\ Joins(Nat, Unreceived, Each(Encoder, frames))
        /\ frames # <<>> => Len(peer) < Len(Encode(Head(frames)))
  BY DEF OutboundInv
<1>4. tx' \o Data(write_buffer_') = tx \o Data(Queue(write_buffer_, p))
  <2>1. /\ write_buffer_ \in Buffer(Nat) /\ Fits(write_buffer_) /\ DE_WRITE \in BOOLEAN
        /\ Len(tx) <= TxRoom
    BY DEF BuffersFit, TypeOK
  <2>2. Queue(write_buffer_, p) \in Buffer(Nat) /\ Fits(Queue(write_buffer_, p))
    BY <2>1, QueueAppends
  <2> QED BY <1>1, <2>1, <2>2, WriteMoves
<1>5. Data(Queue(write_buffer_, p)) = Data(write_buffer_) \o Encode(p)
  BY QueueAppends DEF BuffersFit, TypeOK
<1>6. Encode(p) \in Seq(Nat) /\ Len(Encode(p)) > 0 /\ Request(p) \in Seq(Packet)
  <2>1. Len(Encode(p)) = HEADER_SIZE + Len(p.data) /\ Len(p.data) \in Nat /\ Encode(p) \in Seq(Nat)
    BY EncodeCells
  <2> QED BY <2>1, RequesterType DEF HEADER_SIZE
<1> DEFINE d == Data(write_buffer_)
           e == Encode(p)
           q == Request(p)
           more == Append(frames, p)
<1>7. Unreceived' = Unreceived \o e
  <2>1. Unreceived' = peer \o (tx \o (d \o e))
    BY <1>4, <1>5 DEF Unreceived, Data
  <2> HIDE DEF d, e
  <2>3. d \in Seq(Nat) /\ e \in Seq(Nat) /\ Unreceived = peer \o (tx \o d)
    BY <1>1, <1>6 DEF d, e, Unreceived
  <2>4. (tx \o d) \o e = tx \o (d \o e)
    <3>1. tx \in Seq(Nat)
      BY <1>1
    <3>2. Cat(Cat(tx, d), e) = Cat(tx, Cat(d, e))
      BY ONLY <2>3, <3>1, CatAssociates
    <3> QED BY ONLY <3>2 DEF Cat
  <2>5. (peer \o (tx \o d)) \o e = peer \o ((tx \o d) \o e)
    <3> DEFINE t == tx \o d
    <3>1. peer \in Seq(Nat) /\ t \in Seq(Nat) /\ e \in Seq(Nat)
      BY <1>1, <2>3 DEF d
    <3> HIDE DEF t
    <3>2. Cat(Cat(peer, t), e) = Cat(peer, Cat(t, e))
      BY ONLY <3>1, CatAssociates
    <3> QED BY ONLY <3>2 DEF t, Cat
  <2> QED BY <2>1, <2>3, <2>4, <2>5, Zenon
<1> HIDE DEF d, e, q, more
<1>8. Joins(Nat, Unreceived', Each(Encoder, more))
  BY <1>1, <1>3, <1>7, FrameAdded DEF e, more
<1>9. Joins(Packet, reqs \o q, Each(Requester, more))
  BY <1>3, RequestAdded DEF q, more
<1>10. reqs \o q \in Seq(Packet) /\ written' = received' \o (reqs \o q)
  <2>1. q \in Seq(Packet) /\ written' = (received \o reqs) \o q
    BY <1>3, <1>6 DEF q
  <2>2. /\ Cat(reqs, q) \in Seq(Packet)
        /\ Cat(Cat(received, reqs), q) = Cat(received, Cat(reqs, q))
    BY ONLY <1>2, <2>1, CatIsSeq, CatAssociates, reqs \in Seq(Packet)
  <2>3. /\ reqs \o q \in Seq(Packet)
        /\ (received \o reqs) \o q = received \o (reqs \o q)
    BY ONLY <2>2 DEF Cat
  <2> QED BY <1>2, <2>1, <2>3, Zenon
<1>11. more \in Seq(Packet) /\ Len(peer) < Len(Encode(Head(more)))
  <2>1. more \in Seq(Packet)
    BY DEF more
  <2>2. CASE frames = <<>>
    <3>1. Head(more) = p
      BY <2>2 DEF more
    <3>2. Each(Encoder, frames) = <<>>
      BY <2>2 DEF Each
    <3>3. Unreceived = <<>>
      BY <1>3, <3>2, JoinsNone
    <3>4. peer = <<>>
      BY <1>1, <3>3, ConcatEqualIffEmpty DEF Unreceived
    <3> QED BY <1>6, <2>1, <3>1, <3>4
  <2>3. CASE frames # <<>>
    <3>1. Head(more) = Head(frames)
      BY <2>3 DEF more
    <3> QED BY <1>3, <2>1, <2>3, <3>1
  <2> QED BY <2>2, <2>3
<1>12. OutboundInv' <=>
         /\ received' \in Seq(Packet)
         /\ \E f, r \in Seq(Packet) :
              /\ written' = received' \o r
              /\ Joins(Packet, r, Each(Requester, f))
              /\ Joins(Nat, Unreceived', Each(Encoder, f))
              /\ f # <<>> => Len(peer') < Len(Encode(Head(f)))
  BY Zenon DEF OutboundInv, Joins, Each, Encoder, Encode, Header, Requester, Request
<1> QED BY <1>2, <1>8, <1>9, <1>10, <1>11, <1>12

(* The device takes a cell.  It has a whole frame exactly when it has as   *)
(* many cells as the header says.                                          *)
LEMMA DeviceReadStep ==
    ASSUME BuffersFit, OutboundInv, DeviceRead
    PROVE  OutboundInv' /\ (Outbound!Handle \/ UNCHANGED <<written, received>>)
<1>1. /\ peer \in Seq(Nat) /\ tx \in Seq(Nat) /\ Data(write_buffer_) \in Seq(Nat)
      /\ tx \o Data(write_buffer_) \in Seq(Nat) /\ Unreceived \in Seq(Nat)
  BY UnreceivedType
<1>2. received \in Seq(Packet)
  BY DEF OutboundInv
<1>3. PICK frames, reqs \in Seq(Packet) :
        /\ written = received \o reqs
        /\ Joins(Packet, reqs, Each(Requester, frames))
        /\ Joins(Nat, Unreceived, Each(Encoder, frames))
        /\ frames # <<>> => Len(peer) < Len(Encode(Head(frames)))
  BY DEF OutboundInv
<1> DEFINE data == Append(peer, Head(tx))
           more == Tail(tx) \o Data(write_buffer_)
<1>4. /\ tx # <<>> /\ tx' = Tail(tx) /\ UNCHANGED <<write_buffer_, written>>
      /\ \/ /\ Len(data) >= HEADER_SIZE /\ Len(data) = HEADER_SIZE + data[5]
            /\ peer' = <<>>
            /\ received' = IF data[3] = PACKET_TYPE_HEARTBEAT THEN received
                           ELSE Append(received, [type |-> data[3],
                                                  data |-> Drop(data, HEADER_SIZE)])
         \/ /\ ~(Len(data) >= HEADER_SIZE /\ Len(data) = HEADER_SIZE + data[5])
            /\ peer' = data /\ received' = received
  BY DEF DeviceRead
<1>5. /\ data \in Seq(Nat) /\ Len(data) = Len(peer) + 1 /\ more \in Seq(Nat)
      /\ Unreceived = data \o more
  <2> DEFINE t == Tail(tx)
             d == Data(write_buffer_)
  <2>a. tx # <<>>
    BY <1>4
  <2>b. peer \in Seq(Nat) /\ tx \in Seq(Nat)
    BY <1>1
  <2>1. /\ data \in Seq(Nat) /\ Len(data) = Len(peer) + 1 /\ t \in Seq(Nat)
        /\ data \o t = peer \o tx
    BY <2>a, <2>b, HeadMoves
  <2>3. d \in Seq(Nat) /\ peer \in Seq(Nat) /\ tx \in Seq(Nat)
    BY <1>1
  <2> HIDE DEF data, t, d
  <2>4. (data \o t) \o d = data \o (t \o d) /\ t \o d \in Seq(Nat)
    <3>1. Cat(t, d) \in Seq(Nat) /\ Cat(Cat(data, t), d) = Cat(data, Cat(t, d))
      BY ONLY <2>1, <2>3, CatIsSeq, CatAssociates
    <3> QED BY ONLY <3>1 DEF Cat
  <2>5. (peer \o tx) \o d = peer \o (tx \o d)
    <3>1. Cat(Cat(peer, tx), d) = Cat(peer, Cat(tx, d))
      BY ONLY <2>3, CatAssociates
    <3> QED BY ONLY <3>1 DEF Cat
  <2>6. data \o (t \o d) = peer \o (tx \o d)
    BY <2>1, <2>4, <2>5, Zenon
  <2> QED BY <2>1, <2>4, <2>6 DEF t, d, Unreceived
<1>6. Unreceived' = peer' \o more
  BY <1>4 DEF Unreceived, Data
<1> HIDE DEF data, more
<1>7. Unreceived # <<>>
  <2>1. Len(data \o more) = Len(data) + Len(more) /\ Len(peer) \in Nat /\ Len(more) \in Nat
    BY <1>1, <1>5, ConcatProperties, LenProperties
  <2>2. Len(Unreceived) # 0
    BY <1>5, <2>1
  <2> QED BY <2>2
<1>8. /\ frames # <<>> /\ Head(frames) \in Packet /\ Tail(frames) \in Seq(Packet)
      /\ \E r \in Seq(Nat) : /\ Unreceived = Encode(Head(frames)) \o r
                             /\ Joins(Nat, r, Each(Encoder, Tail(frames)))
  BY <1>1, <1>3, <1>7, FirstFrame
<1> DEFINE p == Head(frames)
           rest == Tail(frames)
<1> HIDE DEF p, rest
<1>9. p \in Packet /\ rest \in Seq(Packet)
  BY <1>8 DEF p, rest
<1>10. PICK r \in Seq(Nat) : data \o more = Encode(p) \o r /\ Joins(Nat, r, Each(Encoder, rest))
  BY <1>5, <1>8 DEF p, rest
<1>11. /\ Encode(p) \in Seq(Nat) /\ Len(Encode(p)) = HEADER_SIZE + Len(p.data)
       /\ Encode(p)[5] = Len(p.data) /\ Len(p.data) \in Nat
       /\ p = [type |-> p.type, data |-> p.data]
  BY <1>9, EncodeCells
<1>12. Len(data) <= Len(Encode(p))
  <2>1. Len(peer) < Len(Encode(p))
    BY <1>3, <1>8 DEF p
  <2>2. Len(peer) \in Nat /\ Len(Encode(p)) \in Nat
    BY <1>1, <1>11, LenProperties
  <2> QED BY <1>5, <2>1, <2>2
<1>13. OutboundInv' <=>
         /\ received' \in Seq(Packet)
         /\ \E f, q \in Seq(Packet) :
              /\ written' = received' \o q
              /\ Joins(Packet, q, Each(Requester, f))
              /\ Joins(Nat, Unreceived', Each(Encoder, f))
              /\ f # <<>> => Len(peer') < Len(Encode(Head(f)))
  BY Zenon DEF OutboundInv, Joins, Each, Encoder, Encode, Header, Requester, Request
<1>14. CASE ~(Len(data) >= HEADER_SIZE /\ Len(data) = HEADER_SIZE + data[5])
  <2>1. peer' = data /\ received' = received /\ written' = written
    BY <1>4, <1>14
  <2>2. Len(data) # Len(Encode(p))
    <3>1. SUFFICES ASSUME Len(data) = Len(Encode(p)) PROVE FALSE
      OBVIOUS
    <3>2. 5 \in 1 .. Len(data) /\ 5 \in 1 .. Len(Encode(p)) /\ Len(data) >= HEADER_SIZE
      BY <1>11, <3>1 DEF HEADER_SIZE
    <3>3. (data \o more)[5] = data[5]
      BY <1>5, <3>2, CutConcat
    <3>4. (Encode(p) \o r)[5] = Encode(p)[5]
      BY <1>11, <3>2, CutConcat
    <3>5. data[5] = Len(p.data)
      BY <1>10, <1>11, <3>3, <3>4
    <3> QED BY <1>11, <1>14, <3>1, <3>2, <3>5
  <2>3. Len(peer') < Len(Encode(Head(frames)))
    <3>1. Len(data) \in Nat /\ Len(Encode(p)) \in Nat
      BY <1>5, <1>11, LenProperties
    <3> QED BY <1>12, <2>1, <2>2, <3>1 DEF p
  <2>4. Unreceived' = Unreceived
    BY <1>5, <1>6, <2>1
  <2>5. OutboundInv'
    BY <1>2, <1>3, <1>13, <2>1, <2>3, <2>4
  <2> QED BY <2>1, <2>5
<1>15. CASE Len(data) >= HEADER_SIZE /\ Len(data) = HEADER_SIZE + data[5]
  <2>1. /\ peer' = <<>> /\ written' = written
        /\ received' = IF data[3] = PACKET_TYPE_HEARTBEAT THEN received
                       ELSE Append(received, [type |-> data[3], data |-> Drop(data, HEADER_SIZE)])
    BY <1>4, <1>15
  <2>2. Len(data) \in Nat /\ data[5] \in Nat
    BY <1>5, <1>15, HeaderCells
  <2>3. Covers(data)
    BY <1>15, <2>2 DEF Covers, FrameSize
  <2>4. data[3] = p.type /\ Payload(data) = p.data
    BY <1>5, <1>9, <1>10, <2>3, WholeFrame
  <2>5. Drop(data, FrameSize(data)) \o more = r
    <3>1. Cat(data, more) = Cat(Encode(p), r)
      BY ONLY <1>10 DEF Cat
    <3>2. data \in Seq(Nat) /\ more \in Seq(Nat)
      BY ONLY <1>5
    <3>3. Cat(Drop(data, FrameSize(data)), more) = r
      BY ONLY <1>9, <2>3, <3>1, <3>2, FrameRest, r \in Seq(Nat)
    <3> QED BY ONLY <3>3 DEF Cat
  <2>6. Drop(data, FrameSize(data)) = <<>> /\ Payload(data) = Drop(data, HEADER_SIZE)
    <3>1. FrameSize(data) = Len(data)
      BY <1>15 DEF FrameSize
    <3>2. Drop(data, Len(data)) = <<>>
      BY <1>5, <2>2, SubSeqEmpty DEF Drop
    <3> QED BY <1>15, <3>1, <3>2 DEF Payload, Drop
  <2>7. more = r
    BY <1>5, <2>5, <2>6, ConcatEmptySeq
  <2>8. Unreceived' = r
    BY <1>5, <1>6, <2>1, <2>7, ConcatEmptySeq
  <2>9. Joins(Nat, Unreceived', Each(Encoder, rest))
    BY <1>10, <2>8
  <2>10. rest # <<>> => Len(peer') < Len(Encode(Head(rest)))
    <3>1. SUFFICES ASSUME rest # <<>> PROVE 0 < Len(Encode(Head(rest)))
      BY <2>1
    <3>2. Head(rest) \in Packet
      BY <1>9, <3>1
    <3>3. Len(Encode(Head(rest))) = HEADER_SIZE + Len(Head(rest).data) /\ Len(Head(rest).data) \in Nat
      BY <3>2, EncodeCells
    <3> QED BY <3>3 DEF HEADER_SIZE
  <2>11. \E q \in Seq(Packet) : reqs = Request(p) \o q /\ Joins(Packet, q, Each(Requester, rest))
    BY <1>3, <1>8, FirstRequest DEF p, rest
  <2>12. PICK q \in Seq(Packet) : reqs = Request(p) \o q /\ Joins(Packet, q, Each(Requester, rest))
    BY <2>11
  <2>13. CASE p.type = PACKET_TYPE_HEARTBEAT
    <3>1. received' = received
      BY <2>1, <2>4, <2>13
    <3>2. reqs = q
      BY <2>12, <2>13, ConcatEmptySeq DEF Request
    <3>3. written' = received' \o q
      BY <1>3, <2>1, <3>1, <3>2
    <3>4. OutboundInv'
      BY <1>2, <1>9, <1>13, <2>9, <2>10, <2>12, <3>1, <3>3
    <3> QED BY <2>1, <3>1, <3>4
  <2>14. CASE p.type # PACKET_TYPE_HEARTBEAT
    <3>1. received' = Append(received, p)
      BY <1>11, <2>1, <2>4, <2>6, <2>14
    <3> DEFINE c == received \o (<<p>> \o q)
    <3>2. written = c
      BY <1>3, <2>12, <2>14 DEF Request
    <3>3. /\ Append(received, p) \in Seq(Packet) /\ Append(received, p) \o q = c
          /\ Len(received) < Len(c) /\ c[Len(received) + 1] = p
      <4>0. PICK f : f = <<p>>
        OBVIOUS
      <4>1. /\ Append(received, p) \in Seq(Packet)
            /\ Cat(Append(received, p), q) = Cat(received, Cat(f, q))
            /\ Len(received) < Len(Cat(received, Cat(f, q)))
            /\ Cat(received, Cat(f, q))[Len(received) + 1] = p
        BY ONLY <1>2, <1>9, <4>0, NextCat, q \in Seq(Packet)
      <4> QED BY ONLY <4>0, <4>1 DEF Cat, c
    <3> HIDE DEF c
    <3>4. received' \in Seq(Packet) /\ written' = received' \o q
      BY <2>1, <3>1, <3>2, <3>3
    <3>5. OutboundInv'
      BY <1>9, <1>13, <2>9, <2>10, <2>12, <3>4
    <3>6. Outbound!Handle
      BY <2>1, <3>1, <3>2, <3>3 DEF Outbound!Handle
    <3> QED BY <3>5, <3>6
  <2> QED BY <2>13, <2>14
<1> QED BY <1>14, <1>15

(* Every step keeps the cells on their way the cells of the packets that   *)
(* are still to arrive.                                                    *)
LEMMA OutboundStep ==
    ASSUME BuffersFit, OutboundInv, [Next]_vars
    PROVE  OutboundInv' /\ [Outbound!Next]_(Outbound!vars)
<1>1. ASSUME UNCHANGED <<written, received, peer>>, Unreceived' = Unreceived
      PROVE  OutboundInv' /\ [Outbound!Next]_(Outbound!vars)
  <2>1. OutboundInv'
    BY <1>1 DEF OutboundInv
  <2> QED BY <1>1, <2>1 DEF Outbound!vars
<1>2. CASE UNCHANGED outVars
  BY <1>1, <1>2 DEF outVars, Unreceived
<1>3. ASSUME NEW p \in Packet, AsyncWrite(p) PROVE OutboundInv' /\ [Outbound!Next]_(Outbound!vars)
  <2>1. /\ p.type = PACKET_TYPE_JSON /\ TryToWriteData(Queue(write_buffer_, p), DE_WRITE)
        /\ written' = Append(written, p) /\ UNCHANGED <<peer, received>>
    BY <1>3 DEF AsyncWrite
  <2>2. written \in Seq(Packet)
    BY DEF BuffersFit, TypeOK
  <2>3. Request(p) = <<p>>
    BY <2>1 DEF Request, PACKET_TYPE_JSON, PACKET_TYPE_HEARTBEAT
  <2>4. written' = written \o Request(p)
    BY <2>1, <2>2, <2>3, AppendIsConcat
  <2>5. OutboundInv'
    BY <2>1, <2>4, QueuedStep
  <2> QED BY <2>1, <2>5 DEF Outbound!Next, Outbound!Send
<1>4. CASE WriteHeartbeat
  <2>1. /\ TryToWriteData(Queue(write_buffer_, Heartbeat), DE_WRITE)
        /\ UNCHANGED <<peer, written, received>>
    BY <1>4 DEF WriteHeartbeat
  <2>2. Request(Heartbeat) = <<>>
    BY DEF Request, Heartbeat
  <2>3. written' = written \o Request(Heartbeat)
    BY <2>1, <2>2, ConcatEmptySeq DEF BuffersFit, TypeOK
  <2>4. OutboundInv'
    BY <2>1, <2>3, HeartbeatIsPacket, QueuedStep
  <2> QED BY <2>1, <2>4 DEF Outbound!vars
<1>5. CASE OnWriteEvent
  <2>1. TryToWriteData(write_buffer_, FALSE) /\ UNCHANGED <<peer, written, received>>
    BY <1>5 DEF OnWriteEvent
  <2>2. tx' \o Data(write_buffer_') = tx \o Data(write_buffer_)
    BY <2>1, WriteMoves DEF BuffersFit, TypeOK
  <2>3. Unreceived' = Unreceived
    BY <2>1, <2>2 DEF Unreceived, Data
  <2> QED BY <1>1, <2>1, <2>3
<1>6. CASE DeviceRead
  BY <1>6, DeviceReadStep DEF Outbound!Next, Outbound!vars
<1>7. \/ UNCHANGED outVars \/ (\E p \in Packet : AsyncWrite(p)) \/ WriteHeartbeat
      \/ OnWriteEvent \/ DeviceRead
  BY DEF Next, vars, inVars, outVars, Read, OnConnectEvent, OnCloseEvent, DeviceSend,
         OnReadEvent, OnHandleInputPacket, ConsumeInput
<1> QED BY <1>2, <1>3, <1>4, <1>5, <1>6, <1>7

(* Session::AsyncWrite and TryToWriteData implement PacketChannel for the  *)
(* requests: partial sends, full kernel buffers, requests queued before    *)
(* the connection is up and heartbeats between them never tear, lose,      *)
(* repeat or reorder one.                                                  *)
THEOREM OutboundRefined == Spec => OutboundChannel
<1>1. Init => OutboundInv /\ Outbound!Init
  <2>1. SUFFICES ASSUME Init PROVE OutboundInv /\ Outbound!Init
    OBVIOUS
  <2>2. /\ peer = <<>> /\ tx = <<>> /\ Data(write_buffer_) = <<>>
        /\ written = <<>> /\ received = <<>>
    BY <2>1 DEF Init, Construct, Data
  <2>3. /\ Each(Encoder, <<>>) = <<>> /\ Each(Requester, <<>>) = <<>> /\ <<>> \o <<>> = <<>>
    BY DEF Each
  <2>4. Unreceived = <<>>
    BY <2>2, <2>3 DEF Unreceived
  <2>5. /\ Joins(Nat, Unreceived, Each(Encoder, <<>>))
        /\ Joins(Packet, <<>>, Each(Requester, <<>>))
    BY <2>3, <2>4, JoinsEmpty
  <2>6. <<>> \in Seq(Packet)
    BY EmptySeq
  <2>7. OutboundInv
    BY <2>2, <2>3, <2>5, <2>6 DEF OutboundInv
  <2> QED BY <2>2, <2>7 DEF Outbound!Init
<1>2. BuffersFit /\ OutboundInv /\ [Next]_vars => OutboundInv' /\ [Outbound!Next]_(Outbound!vars)
  BY OutboundStep
<1> QED BY <1>1, <1>2, BuffersFitHolds, PTL DEF Spec, OutboundChannel, Outbound!Spec
=============================================================================
