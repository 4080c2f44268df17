----------------------------- MODULE ByteBuffer -----------------------------
(***************************************************************************)
(* base/bytebuffer: a growing array of size_ bytes whose bytes start_ ..   *)
(* end_ - 1 are in use.  A buffer is a record; data stands for the bytes   *)
(* in use, so that end_ is start_ + Len(data), and what the array holds    *)
(* outside of them, which nothing reads, is left out.                      *)
(***************************************************************************)
EXTENDS Integers, Sequences

Buffer(cell) == [data : Seq(cell), start_ : Nat, size_ : Nat]

Construct(len) == [data |-> <<>>, start_ |-> 0, size_ |-> len]

Data(b) == b.data
Length(b) == Len(b.data)

(* Mutant of Capacity: the bytes that were consumed count as room.         *)
CapacityAll(b) == b.size_

Capacity(b) == b.size_ - b.start_

LesserOf(m, n) == IF m < n THEN m ELSE n
GreaterOf(m, n) == IF m < n THEN n ELSE m

(* Move the bytes in use to the front, of a larger array if need be.       *)
Resize(b, size) ==
    [data |-> SubSeq(b.data, 1, LesserOf(Length(b), size)),
     start_ |-> 0,
     size_ |-> IF size <= b.size_ THEN b.size_ ELSE GreaterOf(size, (3 * b.size_) \div 2)]

ReserveWriteBuffer(b, len) ==
    IF Length(b) + len > Capacity(b) THEN Resize(b, Length(b) + len) ELSE b

WriteBytes(b, val) ==
    LET room == ReserveWriteBuffer(b, Len(val))
    IN  [room EXCEPT !.data = @ \o val]

Consume(b, size) ==
    IF size > Length(b) THEN b
    ELSE [b EXCEPT !.data = SubSeq(@, size + 1, Len(@)), !.start_ = @ + size]

(* The bytes in use lie within the array.                                  *)
Fits(b) == b.start_ + Length(b) <= b.size_
=============================================================================
