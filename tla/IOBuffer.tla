------------------------------ MODULE IOBuffer ------------------------------
(***************************************************************************)
(* A set of buffers and the callers that use them: one action for every    *)
(* member function of blueth/io/IOBuffer.hpp that changes a buffer.        *)
(***************************************************************************)
EXTENDS IOBufferOps

CONSTANTS
    Buffers,    \* the buffers
    InitialCapacity,
    Pieces      \* the byte sequences that callers append

ASSUME UseAssumption ==
    /\ InitialCapacity \in 0 .. MaxAlloc
    /\ \A s \in Pieces : s \in Seq(Byte) /\ Len(s) <= MaxAlloc

VARIABLES
    buf,        \* buf[x]: the buffer x
    written,    \* history: the bytes callers put into x since it was cleared
    fault       \* what the last call did to the process: "none", or the
                \* undefined behaviour it ran into

vars == <<buf, written, fault>>

Init ==
    /\ buf = [x \in Buffers |-> create(InitialCapacity)]
    /\ written = [x \in Buffers |-> <<>>]
    /\ fault = "none"

\* realloc refuses sizes above MaxAlloc and may refuse any other one; the
\* std::bad_alloc that follows leaves the buffer as it was (AppendFails; the
\* same failure inside the other operations is the same stuttering step).
Allocatable(n) == n \in 0 .. MaxAlloc

AppendRawBytes(x, s) ==
    /\ fault = "none"
    /\ \/ getAvailableSpace(buf[x]) >= Len(s)
       \/ Allocatable(Plus(buf[x].capacity, Len(s)))
    /\ IF getAvailableSpace(buf[x]) >= Len(s) /\ ~ InBlock(buf[x], Len(s))
       THEN /\ fault' = "invalid write"
            /\ UNCHANGED <<buf, written>>
       ELSE /\ buf' = [buf EXCEPT ![x] = appendRawBytes(buf[x], s)]
            /\ written' = [written EXCEPT ![x] = @ \o s]
            /\ UNCHANGED fault

AppendFails(x, s) ==
    /\ fault = "none"
    /\ getAvailableSpace(buf[x]) < Len(s)
    /\ UNCHANGED vars

\* appendRawBytes(io_buffer): if the bytes do not fit, reserve the capacity
\* of the source, whatever this buffer holds already, and try again.
AppendBuffer(x, y) ==
    LET s == Data(buf[y])
        b == IF getDataSize(buf[y]) <= getAvailableSpace(buf[x]) THEN buf[x]
             ELSE reserve(buf[x], buf[y].capacity)
    IN  /\ fault = "none"
        /\ b # buf[x] => Allocatable(b.capacity)
        /\ IF getDataSize(buf[y]) > getAvailableSpace(b)
           THEN fault' = "unbounded recursion" /\ UNCHANGED <<buf, written>>
           ELSE IF ~ InBlock(b, getDataSize(buf[y]))
           THEN fault' = "invalid write" /\ UNCHANGED <<buf, written>>
           ELSE /\ buf' = [buf EXCEPT ![x] = Put(b, s)]
                /\ written' = [written EXCEPT ![x] = @ \o s]
                /\ UNCHANGED fault

Reserve(x, n) ==
    /\ fault = "none"
    /\ IF ReserveSize(buf[x], n) = 0 /\ buf[x].ptr = "owned"
       THEN /\ buf' = [buf EXCEPT ![x].ptr = "freed"]
            /\ fault' = "dangling pointer"
       ELSE /\ Allocatable(ReserveSize(buf[x], n))
            /\ buf' = [buf EXCEPT ![x] = reserve(buf[x], n)]
            /\ UNCHANGED fault
    /\ UNCHANGED written

ModifyStartOffset(x, n) ==
    /\ fault = "none"
    /\ buf' = [buf EXCEPT ![x] = modifyStartOffset(buf[x], n)]
    /\ UNCHANGED <<written, fault>>

SetStartOffset(x, n) ==
    /\ fault = "none"
    /\ buf' = [buf EXCEPT ![x] = setStartOffset(buf[x], n)]
    /\ UNCHANGED <<written, fault>>

\* Callers shorten the data with a negative argument (a positive one exposes
\* bytes the caller put behind the data itself, as a recv does).
ModifyEndOffset(x, n) ==
    /\ fault = "none"
    /\ buf' = [buf EXCEPT ![x] = modifyEndOffset(buf[x], n)]
    /\ written' = [written EXCEPT ![x] = Slice(buf[x].mem, 0, buf'[x].end_offset)]
    /\ UNCHANGED fault

SetEndOffset(x, n) ==
    /\ fault = "none"
    /\ buf' = [buf EXCEPT ![x] = setEndOffset(buf[x], n)]
    /\ written' = [written EXCEPT ![x] = Slice(buf[x].mem, 0, buf'[x].end_offset)]
    /\ UNCHANGED fault

Clear(x) ==
    /\ fault = "none"
    /\ buf' = [buf EXCEPT ![x] = clear(buf[x])]
    /\ written' = [written EXCEPT ![x] = <<>>]
    /\ UNCHANGED fault

\* x = a buffer constructed from std::move(y): three of the four members are
\* exchanged with those of an empty object; capacity_ is not.
Moved(y) == [buf[y] EXCEPT !.capacity = 0]
Husk(y)  == [NullBuffer EXCEPT !.capacity = buf[y].capacity]

MoveConstruct(x, y) ==
    /\ fault = "none" /\ x # y
    /\ buf' = [buf EXCEPT ![x] = Moved(y), ![y] = Husk(y)]
    /\ written' = [written EXCEPT ![x] = written[y], ![y] = <<>>]
    /\ UNCHANGED fault

\* operator=(IOBuffer &&): exchanges the same three members, only if x has no
\* block, and then runs off the end of a function that has to return a value:
\* the caller may or may not get away with that.
MoveAssign(x, y) ==
    /\ fault = "none" /\ x # y
    /\ IF buf[x].ptr = "null"
       THEN /\ buf' = [buf EXCEPT ![x] = [buf[y] EXCEPT !.capacity = buf[x].capacity],
                                  ![y] = [buf[x] EXCEPT !.capacity = buf[y].capacity]]
            /\ written' = [written EXCEPT ![x] = written[y], ![y] = written[x]]
       ELSE UNCHANGED <<buf, written>>
    /\ fault' \in {"none", "missing return"}

-----------------------------------------------------------------------------
(* The callers' side of the bargain.                                       *)

Offsets(b) == 0 .. b.end_offset

\* The source fits, or its capacity leaves room for what x holds already.
FitsAfterReserve(x, y) ==
    LET b == buf[x]
        n == getDataSize(buf[y])
    IN  n <= getAvailableSpace(b) \/ b.end_offset + n <= buf[y].capacity

\* Calls that move the offsets only within the block and never ask reserve()
\* for less than the buffer holds.
Next ==
    \E x \in Buffers :
       \/ \E s \in Pieces : AppendRawBytes(x, s) \/ AppendFails(x, s)
       \/ \E y \in Buffers \ {x} : FitsAfterReserve(x, y) /\ AppendBuffer(x, y)
       \/ \E n \in 0 .. MaxAlloc :
            /\ ReserveSize(buf[x], n) >= buf[x].end_offset /\ ReserveSize(buf[x], n) > 0
            /\ Reserve(x, n)
       \/ \E n \in Offsets(buf[x]) :
            \/ ModifyStartOffset(x, n - buf[x].start_offset)
            \/ SetStartOffset(x, n)
       \/ \E n \in buf[x].start_offset .. buf[x].capacity :
            \/ ModifyEndOffset(x, n - buf[x].end_offset)
            \/ SetEndOffset(x, n)
       \/ Clear(x)

Spec == Init /\ [][Next]_vars

\* Calls that move buffers and append to them.
MoveNext ==
    \E x \in Buffers :
       \/ \E s \in Pieces : AppendRawBytes(x, s)
       \/ \E y \in Buffers : MoveConstruct(x, y) \/ MoveAssign(x, y)

MoveSpec == Init /\ [][MoveNext]_vars

-----------------------------------------------------------------------------
(* Properties                                                              *)

\* The variables keep their types.
TypeOK ==
    /\ buf \in [Buffers -> Buffer]
    /\ written \in [Buffers -> Seq(Cell)]
    /\ fault \in {"none", "invalid write", "unbounded recursion", "dangling pointer",
                  "missing return"}

\* The picture at the top of IOBuffer.hpp: the offsets are in order, and
\* capacity_ is the size of the block the buffer owns.
WellFormed ==
    \A x \in Buffers :
       /\ buf[x].ptr = "owned"
       /\ buf[x].start_offset <= buf[x].end_offset
       /\ buf[x].end_offset <= buf[x].capacity
       /\ buf[x].capacity = Len(buf[x].mem)
       /\ buf[x].capacity <= MaxAlloc

\* Up to end_offset_ the block holds exactly what was written, consumed bytes
\* included: growing the block, copying another buffer in and giving bytes
\* back never change, drop or reorder a byte.
HoldsWhatWasWritten ==
    \A x \in Buffers :
       written[x] = Slice(buf[x].mem, 0, buf[x].end_offset)

\* No call within the bargain touches memory outside the block, recurses
\* without end or leaves a dangling pointer.
NoFault == fault = "none"

\* "Get amount of memory/space left before we need ran our and allocate": the
\* buffer owns as much unused memory as getAvailableSpace() says.
SpaceLeftIsReal ==
    \A x \in Buffers :
        getAvailableSpace(buf[x]) + buf[x].end_offset <= Len(buf[x].mem)
=============================================================================
