----------------------------- MODULE IOBufferOps -----------------------------
(***************************************************************************)
(* blueth/io/IOBuffer.hpp: a byte buffer with a consumed headroom, a data  *)
(* region and uninitialised space,                                         *)
(*                                                                         *)
(*      0 <= start_offset_ <= end_offset_ <= capacity_,                    *)
(*                                                                         *)
(* in one block obtained from realloc.  A buffer is a record; the operators*)
(* are its member functions, as functions from records to records.  The    *)
(* modules of the components that own buffers use them, and IOBuffer is the*)
(* state machine of a set of buffers.                                      *)
(*                                                                         *)
(* Offsets are size_t: they wrap at SizeMod (2^64 in the build).  The block*)
(* that realloc returned is kept apart from capacity_, which is only what  *)
(* the object believes about it.  The lengths that callers pass to         *)
(* modifyStartOffset() and modifyEndOffset(), which take an int, are taken *)
(* to be no more than INT_MAX: a larger size_t would be narrowed.          *)
(***************************************************************************)
EXTENDS Integers, Sequences

CONSTANTS
    Byte,       \* the values a caller appends
    Uninit,     \* the contents of memory nobody wrote
    SizeMod,    \* size_t has the values 0 .. SizeMod - 1
    MaxAlloc    \* no block is larger (PTRDIFF_MAX in the build)

ASSUME SizeAssumption ==
    /\ MaxAlloc \in Nat /\ SizeMod \in Nat
    /\ 2 * MaxAlloc < SizeMod
    /\ Uninit \notin Byte

Cell == Byte \cup {Uninit}
Size == 0 .. SizeMod - 1

\* internal_buffer_ is the block "mem" while ptr = "owned"; "null" is nullptr,
\* "freed" a pointer to memory that was given back.
Buffer == [ptr : {"null", "owned", "freed"}, mem : Seq(Cell),
           start_offset : Size, end_offset : Size, capacity : Size]

-----------------------------------------------------------------------------
(* size_t arithmetic.  An int argument is converted to size_t by adding    *)
(* SizeMod to a negative value, which is what one wrap-around does.        *)

Plus(a, n)  == IF a + n >= SizeMod THEN a + n - SizeMod
               ELSE IF a + n < 0 THEN a + n + SizeMod ELSE a + n
Minus(a, b) == Plus(a, 0 - b)

(* Observers.                                                              *)
getDataSize(b)       == Minus(b.end_offset, b.start_offset)
\* Mutant: the consumed headroom counts as free.
SpaceIgnoringHeadroom(b) == Minus(b.capacity, Minus(b.end_offset, b.start_offset))

getAvailableSpace(b) == Minus(b.capacity, b.end_offset)

\* The cells from index lo up to, not including, index hi of a block.
Slice(mem, lo, hi) == [i \in 1 .. hi - lo |-> mem[lo + i]]

\* What the caller sees between begin() and end().
Data(b) == Slice(b.mem, b.start_offset, b.end_offset)

(* Modifiers.                                                              *)
\* Mutant: the offset is moved backwards, in signed arithmetic.
MoveStartBack(b, n) == [b EXCEPT !.start_offset = @ - n]

modifyStartOffset(b, n) == [b EXCEPT !.start_offset = Plus(@, n)]
setStartOffset(b, n)    == [b EXCEPT !.start_offset = Plus(0, n)]
modifyEndOffset(b, n)   == [b EXCEPT !.end_offset = Plus(@, n)]
setEndOffset(b, n)      == [b EXCEPT !.end_offset = Plus(0, n)]
clear(b)                == [b EXCEPT !.start_offset = 0, !.end_offset = 0]

\* Mutant: a fresh block.
MallocInsteadOfRealloc(mem, n) == [i \in 1 .. n |-> Uninit]

\* realloc keeps the contents up to the smaller of the two sizes.
Realloc(mem, n) == [i \in 1 .. n |-> IF i <= Len(mem) THEN mem[i] ELSE Uninit]

\* reserve() doubles the capacity when it is given no size.
ReserveSize(b, mem_size) == IF mem_size = 0 THEN Plus(b.capacity, b.capacity) ELSE mem_size

\* Mutant: capacity_ is not updated.
ReserveKeepsCapacity(b, mem_size) ==
    [b EXCEPT !.ptr = "owned", !.mem = Realloc(b.mem, ReserveSize(b, mem_size))]

\* reserve() when realloc succeeds.  (realloc(p, 0) of an allocated block is
\* no success: it frees the block and returns a null pointer.)
reserve(b, mem_size) ==
    LET n == ReserveSize(b, mem_size)
    IN  [b EXCEPT !.ptr = "owned", !.mem = Realloc(b.mem, n), !.capacity = n]

\* The memcpy of an append lies inside the block.
InBlock(b, n) == b.ptr = "owned" /\ b.end_offset + n <= Len(b.mem)

\* The bytes of s, copied into mem from index at + 1 on.
Copy(mem, at, s) ==
    [i \in 1 .. Len(mem) |-> IF i \in at + 1 .. at + Len(s) THEN s[i - at] ELSE mem[i]]

Put(b, s) == [b EXCEPT !.mem = Copy(@, b.end_offset, s),
                       !.end_offset = Plus(@, Len(s))]

\* appendRawBytes(data, size): at once if there is space; otherwise reserve
\* more and call itself again, when there is.
appendRawBytes(b, s) ==
    IF getAvailableSpace(b) >= Len(s) THEN Put(b, s)
    ELSE Put(reserve(b, Plus(b.capacity, Len(s))), s)

\* IOBuffer(capacity), when the allocation succeeds.
NullBuffer == [ptr |-> "null", mem |-> <<>>, start_offset |-> 0,
               end_offset |-> 0, capacity |-> 0]
create(n) == [NullBuffer EXCEPT !.ptr = "owned", !.mem = Realloc(<<>>, n), !.capacity = n]
=============================================================================
