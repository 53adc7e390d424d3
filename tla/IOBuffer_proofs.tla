--------------------------- MODULE IOBuffer_proofs ---------------------------
(***************************************************************************)
(* Proofs about IOBuffer, for any number of buffers, any pieces and any    *)
(* sizes of size_t and of the largest block (as long as twice the latter   *)
(* does not wrap).                                                         *)
(***************************************************************************)
EXTENDS IOBuffer, IOBufferOps_proofs

-----------------------------------------------------------------------------
(* The state machine.                                                      *)

IInv == TypeOK /\ WellFormed /\ HoldsWhatWasWritten /\ NoFault

\* The invariant says of every buffer what Good says of one.
LEMMA AllGood ==
    IInv <=> /\ buf = [x \in Buffers |-> buf[x]] /\ written = [x \in Buffers |-> written[x]]
             /\ fault = "none"
             /\ \A x \in Buffers : /\ Good(buf[x])
                                    /\ written[x] = Slice(buf[x].mem, 0, buf[x].end_offset)
<1>1. ASSUME \A x \in Buffers : Good(buf[x]) /\ written[x] = Slice(buf[x].mem, 0, buf[x].end_offset)
      PROVE  \A x \in Buffers : written[x] \in Seq(Cell)
  <2> SUFFICES ASSUME NEW x \in Buffers PROVE written[x] \in Seq(Cell)
    OBVIOUS
  <2>1. buf[x].mem \in Seq(Cell) /\ buf[x].end_offset \in Nat /\ buf[x].end_offset <= Len(buf[x].mem)
    BY <1>1, Observers DEF Good
  <2>2. QED
    BY <1>1, <2>1, PrefixSeq
<1>2. QED
  BY <1>1 DEF IInv, TypeOK, WellFormed, HoldsWhatWasWritten, NoFault, Good

\* A step that changes one buffer preserves the invariant if that buffer stays good.
LEMMA UpdateOne ==
    ASSUME IInv, NEW x \in Buffers, NEW c, Good(c), fault' = "none",
           buf' = [buf EXCEPT ![x] = c],
           written' = [written EXCEPT ![x] = Slice(c.mem, 0, c.end_offset)]
    PROVE  IInv'
<1>1. /\ buf = [y \in Buffers |-> buf[y]] /\ written = [y \in Buffers |-> written[y]]
      /\ \A y \in Buffers : Good(buf[y]) /\ written[y] = Slice(buf[y].mem, 0, buf[y].end_offset)
  BY AllGood
<1>2. \A y \in Buffers : /\ buf'[y] = IF y = x THEN c ELSE buf[y]
                         /\ written'[y] = IF y = x THEN Slice(c.mem, 0, c.end_offset) ELSE written[y]
  BY <1>1
<1>3. \A y \in Buffers : Good(buf'[y]) /\ written'[y] = Slice(buf'[y].mem, 0, buf'[y].end_offset)
  BY <1>1, <1>2
<1>4. buf' = [y \in Buffers |-> buf'[y]] /\ written' = [y \in Buffers |-> written'[y]]
  BY <1>1
<1>5. \A y \in Buffers : written'[y] \in Seq(Cell)
  <2> SUFFICES ASSUME NEW y \in Buffers PROVE written'[y] \in Seq(Cell)
    OBVIOUS
  <2>1. Good(buf'[y])
    BY <1>3
  <2>2. buf'[y].mem \in Seq(Cell) /\ buf'[y].end_offset \in Nat /\ buf'[y].end_offset <= Len(buf'[y].mem)
    BY <2>1, Observers DEF Good
  <2>3. QED
    BY <1>3, <2>2, PrefixSeq
<1>6. QED
  BY <1>3, <1>4, <1>5 DEF IInv, TypeOK, WellFormed, HoldsWhatWasWritten, NoFault, Good

\* appendRawBytes(data, size) preserves the invariant.
LEMMA AppendStep ==
    ASSUME IInv, NEW x \in Buffers, NEW s \in Pieces, AppendRawBytes(x, s)
    PROVE  IInv'
<1>1. s \in Seq(Cell) /\ Len(s) <= MaxAlloc /\ Len(s) \in Nat
  BY UseAssumption DEF Cell
<1>2. Good(buf[x]) /\ written[x] = Slice(buf[x].mem, 0, buf[x].end_offset) /\ fault = "none"
      /\ written = [y \in Buffers |-> written[y]]
  BY AllGood
<1>3. getAvailableSpace(buf[x]) >= Len(s) => InBlock(buf[x], Len(s))
  BY <1>1, <1>2, Observers DEF InBlock, Good
<1>4. /\ buf' = [buf EXCEPT ![x] = appendRawBytes(buf[x], s)]
      /\ written' = [written EXCEPT ![x] = written[x] \o s]
      /\ fault' = "none"
  BY <1>2, <1>3 DEF AppendRawBytes
<1>5. /\ Good(appendRawBytes(buf[x], s))
      /\ Slice(appendRawBytes(buf[x], s).mem, 0, appendRawBytes(buf[x], s).end_offset)
           = Slice(buf[x].mem, 0, buf[x].end_offset) \o s
  BY <1>1, <1>2, AppendGood DEF AppendRawBytes, Allocatable
<1>6. QED
  BY <1>2, <1>4, <1>5, UpdateOne

\* appendRawBytes(io_buffer) preserves it when the source fits after the reserve.
LEMMA AppendBufferStep ==
    ASSUME IInv, NEW x \in Buffers, NEW y \in Buffers, FitsAfterReserve(x, y), AppendBuffer(x, y)
    PROVE  IInv'
<1> DEFINE s == Data(buf[y])
           n == getDataSize(buf[y])
           fits == n <= getAvailableSpace(buf[x])
           b == IF fits THEN buf[x] ELSE reserve(buf[x], buf[y].capacity)
<1>1. Good(buf[x]) /\ Good(buf[y]) /\ written[x] = Slice(buf[x].mem, 0, buf[x].end_offset)
      /\ fault = "none"
  BY AllGood
<1>2. s \in Seq(Cell) /\ Len(s) = n /\ n \in Nat
  BY <1>1, DataSeq
<1>3. /\ Good(b) /\ b.end_offset + n <= b.capacity
      /\ Slice(b.mem, 0, b.end_offset) = Slice(buf[x].mem, 0, buf[x].end_offset)
  <2>1. CASE fits
    BY <1>1, <1>2, <2>1, Observers
  <2>2. CASE ~ fits
    <3>1. /\ buf[x].end_offset \in Nat /\ buf[y].capacity \in Nat
          /\ buf[x].end_offset + n <= buf[y].capacity
          /\ buf[y].capacity <= MaxAlloc
      BY <1>1, <2>2, Observers DEF FitsAfterReserve, Good
    <3>2. n # 0
      BY <1>1, <1>2, <2>2, Observers DEF Good
    <3>3. /\ ReserveSize(buf[x], buf[y].capacity) = buf[y].capacity
          /\ buf[y].capacity \in 0 .. MaxAlloc /\ buf[y].capacity >= buf[x].end_offset
      BY <1>2, <3>1, <3>2 DEF ReserveSize
    <3>4. b = reserve(buf[x], buf[y].capacity)
      BY <2>2
    <3>5. /\ Good(b) /\ b.capacity = buf[y].capacity /\ b.end_offset = buf[x].end_offset
          /\ Slice(b.mem, 0, buf[x].end_offset) = Slice(buf[x].mem, 0, buf[x].end_offset)
      BY <1>1, <3>1, <3>3, <3>4, ReserveGood
    <3>6. QED
      BY <3>1, <3>5
  <2>3. QED
    BY <2>1, <2>2
<1>4. n <= getAvailableSpace(b) /\ InBlock(b, n)
  BY <1>2, <1>3, Observers DEF InBlock, Good
<1>5. /\ buf' = [buf EXCEPT ![x] = Put(b, s)]
      /\ written' = [written EXCEPT ![x] = written[x] \o s]
      /\ fault' = "none"
  <2>1. ~ (n > getAvailableSpace(b))
    BY <1>2, <1>3, <1>4, Observers DEF Good
  <2>2. QED
    BY <1>1, <1>4, <2>1 DEF AppendBuffer
<1> HIDE DEF b, s
<1>6. Good(Put(b, s)) /\ Slice(Put(b, s).mem, 0, Put(b, s).end_offset) = Slice(b.mem, 0, b.end_offset) \o s
  BY <1>2, <1>3, PutGood
<1>7. QED
  BY <1>1, <1>3, <1>5, <1>6, UpdateOne

\* reserve() preserves it when it is not asked for less than the buffer holds.
LEMMA ReserveStep ==
    ASSUME IInv, NEW x \in Buffers, NEW n \in 0 .. MaxAlloc,
           ReserveSize(buf[x], n) >= buf[x].end_offset, ReserveSize(buf[x], n) > 0, Reserve(x, n)
    PROVE  IInv'
<1>1. Good(buf[x]) /\ written[x] = Slice(buf[x].mem, 0, buf[x].end_offset) /\ fault = "none"
      /\ written = [y \in Buffers |-> written[y]]
  BY AllGood
<1>2. /\ ReserveSize(buf[x], n) \in 0 .. MaxAlloc
      /\ buf' = [buf EXCEPT ![x] = reserve(buf[x], n)]
      /\ written' = written /\ fault' = "none"
  <2>1. ReserveSize(buf[x], n) \in Int
    BY <1>1, Observers, SizeAssumption DEF ReserveSize, Plus
  <2>2. ReserveSize(buf[x], n) # 0
    BY <2>1
  <2>3. QED
    BY <1>1, <2>2 DEF Reserve, Allocatable
<1>3. /\ Good(reserve(buf[x], n)) /\ reserve(buf[x], n).end_offset = buf[x].end_offset
      /\ Slice(reserve(buf[x], n).mem, 0, buf[x].end_offset) = Slice(buf[x].mem, 0, buf[x].end_offset)
  BY <1>1, <1>2, ReserveGood
<1>4. written' = [written EXCEPT ![x] = Slice(reserve(buf[x], n).mem, 0, reserve(buf[x], n).end_offset)]
  BY <1>1, <1>2, <1>3
<1>5. QED
  BY <1>2, <1>3, <1>4, UpdateOne

\* The four offset modifiers and clear() preserve it.
LEMMA OffsetStep ==
    ASSUME IInv, NEW x \in Buffers,
           \/ \E n \in Offsets(buf[x]) : \/ ModifyStartOffset(x, n - buf[x].start_offset)
                                         \/ SetStartOffset(x, n)
           \/ \E n \in buf[x].start_offset .. buf[x].capacity :
                 \/ ModifyEndOffset(x, n - buf[x].end_offset)
                 \/ SetEndOffset(x, n)
           \/ Clear(x)
    PROVE  IInv'
<1>1. /\ Good(buf[x]) /\ written[x] = Slice(buf[x].mem, 0, buf[x].end_offset) /\ fault = "none"
      /\ written = [y \in Buffers |-> written[y]] /\ buf = [y \in Buffers |-> buf[y]]
  BY AllGood
<1>2. /\ buf[x].start_offset \in Nat /\ buf[x].end_offset \in Nat /\ buf[x].capacity \in Nat
      /\ buf[x].start_offset <= buf[x].end_offset /\ buf[x].end_offset <= buf[x].capacity
      /\ buf[x].capacity < SizeMod
  BY <1>1, Observers, SizeAssumption DEF Good
<1>3. ASSUME NEW n \in Offsets(buf[x]),
             ModifyStartOffset(x, n - buf[x].start_offset) \/ SetStartOffset(x, n)
      PROVE  IInv'
  <2> DEFINE c == [buf[x] EXCEPT !.start_offset = n]
  <2>1. /\ n \in Nat /\ n <= buf[x].end_offset
        /\ Plus(buf[x].start_offset, n - buf[x].start_offset) = n /\ Plus(0, n) = n
    BY <1>2, SizeAssumption DEF Offsets, Plus
  <2>2. buf' = [buf EXCEPT ![x] = c] /\ written' = written /\ fault' = "none"
    BY <1>1, <1>3, <2>1 DEF ModifyStartOffset, SetStartOffset, modifyStartOffset, setStartOffset
  <2>3. Good(c) /\ c.mem = buf[x].mem /\ c.end_offset = buf[x].end_offset
    <3>1. n \in Size
      BY <1>2, <2>1, SizeAssumption DEF Size
    <3>2. QED
      BY <1>1, <1>2, <2>1, <3>1 DEF Good, Buffer
  <2> HIDE DEF c
  <2>4. written' = [written EXCEPT ![x] = Slice(c.mem, 0, c.end_offset)]
    BY <1>1, <2>2, <2>3
  <2>5. QED
    BY <2>2, <2>3, <2>4, UpdateOne
<1>4. ASSUME NEW n \in buf[x].start_offset .. buf[x].capacity,
             ModifyEndOffset(x, n - buf[x].end_offset) \/ SetEndOffset(x, n)
      PROVE  IInv'
  <2> DEFINE c == [buf[x] EXCEPT !.end_offset = n]
  <2>1. /\ n \in Nat /\ buf[x].start_offset <= n /\ n <= buf[x].capacity
        /\ Plus(buf[x].end_offset, n - buf[x].end_offset) = n /\ Plus(0, n) = n
    BY <1>2, SizeAssumption DEF Plus
  <2>2. /\ buf' = [buf EXCEPT ![x] = c] /\ fault' = "none"
        /\ written' = [written EXCEPT ![x] = Slice(buf[x].mem, 0, buf'[x].end_offset)]
    BY <1>1, <1>4, <2>1 DEF ModifyEndOffset, SetEndOffset, modifyEndOffset, setEndOffset
  <2>3. Good(c) /\ c.mem = buf[x].mem /\ c.end_offset = n
    <3>1. n \in Size
      BY <1>2, <2>1, SizeAssumption DEF Size
    <3>2. QED
      BY <1>1, <1>2, <2>1, <3>1 DEF Good, Buffer
  <2> HIDE DEF c
  <2>4. buf'[x] = c
    BY <1>1, <2>2
  <2>5. QED
    BY <2>2, <2>3, <2>4, UpdateOne
<1>5. ASSUME Clear(x) PROVE IInv'
  <2> DEFINE c == [buf[x] EXCEPT !.start_offset = 0, !.end_offset = 0]
  <2>1. buf' = [buf EXCEPT ![x] = c] /\ fault' = "none" /\ written' = [written EXCEPT ![x] = <<>>]
    BY <1>1, <1>5 DEF Clear, clear
  <2>2. Good(c) /\ c.mem = buf[x].mem /\ c.end_offset = 0
    <3>1. 0 \in Size
      BY SizeAssumption DEF Size
    <3>2. buf[x] \in Buffer
      BY <1>1 DEF Good
    <3>3. /\ c \in Buffer /\ c.ptr = buf[x].ptr /\ c.mem = buf[x].mem
          /\ c.start_offset = 0 /\ c.end_offset = 0 /\ c.capacity = buf[x].capacity
      BY <3>1, <3>2 DEF Buffer
    <3>4. QED
      BY <1>1, <1>2, <3>3 DEF Good
  <2>3. Slice(buf[x].mem, 0, 0) = <<>>
    BY DEF Slice
  <2> HIDE DEF c
  <2>4. QED
    BY <2>1, <2>2, <2>3, UpdateOne
<1>6. QED
  BY <1>3, <1>4, <1>5

\* A newly constructed buffer satisfies the invariant.
LEMMA InvInit == Init => IInv
<1> SUFFICES ASSUME Init PROVE IInv
  OBVIOUS
<1>1. InitialCapacity \in Nat /\ InitialCapacity <= MaxAlloc /\ InitialCapacity \in Size
  BY UseAssumption, SizeAssumption DEF Size
<1>2. <<>> \in Seq(Cell) /\ 0 \in Size
  BY SizeAssumption DEF Size
<1>3. Realloc(<<>>, InitialCapacity) \in Seq(Cell) /\ Len(Realloc(<<>>, InitialCapacity)) = InitialCapacity
  BY <1>1, <1>2, ReallocSeq
<1>4. Good(create(InitialCapacity))
  <2>1. NullBuffer \in Buffer
    BY <1>2 DEF NullBuffer, Buffer
  <2>2. /\ create(InitialCapacity) \in Buffer /\ create(InitialCapacity).ptr = "owned"
        /\ create(InitialCapacity).mem = Realloc(<<>>, InitialCapacity)
        /\ create(InitialCapacity).start_offset = NullBuffer.start_offset
        /\ create(InitialCapacity).end_offset = NullBuffer.end_offset
        /\ create(InitialCapacity).capacity = InitialCapacity
    BY <1>1, <1>3, <2>1 DEF create, Buffer
  <2>3. NullBuffer.start_offset = 0 /\ NullBuffer.end_offset = 0
    BY DEF NullBuffer
  <2>4. QED
    BY <1>1, <1>3, <2>2, <2>3 DEF Good
<1>5. create(InitialCapacity).end_offset = 0
  BY DEF create, NullBuffer
<1>6. Slice(create(InitialCapacity).mem, 0, 0) = <<>>
  BY DEF Slice
<1>7. QED
  BY <1>4, <1>5, <1>6, AllGood DEF Init

\* Every call within the bargain preserves the invariant.
LEMMA InvStep == IInv /\ [Next]_vars => IInv'
<1> SUFFICES ASSUME IInv, [Next]_vars PROVE IInv'
  OBVIOUS
<1>1. ASSUME UNCHANGED vars PROVE IInv'
  BY <1>1 DEF vars, IInv, TypeOK, WellFormed, HoldsWhatWasWritten, NoFault
<1>2. ASSUME NEW x \in Buffers, NEW s \in Pieces, AppendFails(x, s) PROVE IInv'
  BY <1>1, <1>2 DEF AppendFails
<1>3. QED
  BY <1>1, <1>2, AppendStep, AppendBufferStep, ReserveStep, OffsetStep DEF Next

\* The inductive invariant: types, the order of the offsets, the bytes written
\* and the absence of undefined behaviour, which only hold together.
THEOREM Invariance == Spec => []IInv
<1>1. QED
  BY InvInit, InvStep, PTL DEF Spec

\* The variables keep their types under calls that stay within the bargain.
THEOREM TypeCorrect == Spec => []TypeOK
<1>1. IInv => TypeOK
  BY DEF IInv
<1>2. QED
  BY <1>1, Invariance, PTL

\* The offsets stay in order and capacity_ stays the size of the block.
THEOREM OffsetsInOrder == Spec => []WellFormed
<1>1. IInv => WellFormed
  BY DEF IInv
<1>2. QED
  BY <1>1, Invariance, PTL

\* A buffer holds the bytes written to it, whatever was reallocated since.
THEOREM BytesArePreserved == Spec => []HoldsWhatWasWritten
<1>1. IInv => HoldsWhatWasWritten
  BY DEF IInv
<1>2. QED
  BY <1>1, Invariance, PTL

\* No call touches memory outside the block, recurses forever or frees it.
THEOREM MemorySafe == Spec => []NoFault
<1>1. IInv => NoFault
  BY DEF IInv
<1>2. QED
  BY <1>1, Invariance, PTL
=============================================================================
