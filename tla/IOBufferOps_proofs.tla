-------------------------- MODULE IOBufferOps_proofs --------------------------
(***************************************************************************)
(* Lemmas about the member functions of IOBuffer, for any sizes of size_t  *)
(* and of the largest block (as long as twice the latter does not wrap).   *)
(* IOBuffer_proofs, Connection_proofs and HTTPProxy_proofs use them.       *)
(***************************************************************************)
EXTENDS IOBufferOps, SequenceTheorems, TLAPS

-----------------------------------------------------------------------------
(* One buffer.                                                             *)

Good(b) ==
    /\ b \in Buffer
    /\ b.ptr = "owned"
    /\ b.start_offset <= b.end_offset
    /\ b.end_offset <= b.capacity
    /\ b.capacity = Len(b.mem)
    /\ b.capacity <= MaxAlloc

\* Slices, blocks from realloc and blocks after a memcpy are sequences.
LEMMA SliceSeq ==
    ASSUME NEW mem \in Seq(Cell), NEW lo \in Nat, NEW hi \in Nat, lo <= hi, hi <= Len(mem)
    PROVE  /\ Slice(mem, lo, hi) \in Seq(Cell)
           /\ Len(Slice(mem, lo, hi)) = hi - lo
           /\ \A i \in 1 .. hi - lo : Slice(mem, lo, hi)[i] = mem[lo + i]
<1> DEFINE n == hi - lo
<1>1. n \in Nat
  OBVIOUS
<1>2. \A i \in 1 .. n : lo + i \in 1 .. Len(mem) /\ mem[lo + i] \in Cell
  OBVIOUS
<1>3. Slice(mem, lo, hi) = [i \in 1 .. n |-> mem[lo + i]]
  BY DEF Slice
<1> HIDE DEF n
<1>4. [i \in 1 .. n |-> mem[lo + i]] \in Seq(Cell) /\ Len([i \in 1 .. n |-> mem[lo + i]]) = n
  BY <1>1, <1>2
<1>5. QED
  BY <1>3, <1>4 DEF n

\* What lies before index n of a block is a sequence of n cells.
LEMMA PrefixSeq ==
    ASSUME NEW mem \in Seq(Cell), NEW n \in Nat, n <= Len(mem)
    PROVE  /\ Slice(mem, 0, n) \in Seq(Cell)
           /\ Len(Slice(mem, 0, n)) = n
           /\ \A i \in 1 .. n : Slice(mem, 0, n)[i] = mem[i]
<1>1. n - 0 = n /\ \A i \in 1 .. n : 0 + i = i
  OBVIOUS
<1>2. /\ Slice(mem, 0, n) \in Seq(Cell)
      /\ Len(Slice(mem, 0, n)) = n - 0
      /\ \A i \in 1 .. n - 0 : Slice(mem, 0, n)[i] = mem[0 + i]
  <2>1. 0 \in Nat /\ 0 <= n
    OBVIOUS
  <2>2. QED
    BY <2>1, SliceSeq
<1>3. QED
  BY <1>1, <1>2

\* realloc returns a block of the requested size, with the old cells kept.
LEMMA ReallocSeq ==
    ASSUME NEW mem \in Seq(Cell), NEW n \in Nat
    PROVE  /\ Realloc(mem, n) \in Seq(Cell)
           /\ Len(Realloc(mem, n)) = n
           /\ \A i \in 1 .. n : i <= Len(mem) => Realloc(mem, n)[i] = mem[i]
<1>1. \A i \in 1 .. n : (IF i <= Len(mem) THEN mem[i] ELSE Uninit) \in Cell
  BY DEF Cell
<1>2. QED
  BY <1>1 DEF Realloc

\* A memcpy inside a block leaves a block of the same size.
LEMMA CopySeq ==
    ASSUME NEW mem \in Seq(Cell), NEW at \in Nat, NEW s \in Seq(Cell), at + Len(s) <= Len(mem)
    PROVE  /\ Copy(mem, at, s) \in Seq(Cell)
           /\ Len(Copy(mem, at, s)) = Len(mem)
           /\ \A i \in 1 .. at : Copy(mem, at, s)[i] = mem[i]
           /\ \A i \in 1 .. Len(s) : Copy(mem, at, s)[at + i] = s[i]
<1> DEFINE C(i) == IF i \in at + 1 .. at + Len(s) THEN s[i - at] ELSE mem[i]
<1>1. \A i \in 1 .. Len(mem) : C(i) \in Cell
  OBVIOUS
<1>2. Copy(mem, at, s) = [i \in 1 .. Len(mem) |-> C(i)]
  BY DEF Copy
<1>3. /\ \A i \in 1 .. at : C(i) = mem[i]
      /\ \A i \in 1 .. Len(s) : C(at + i) = s[i] /\ at + i \in 1 .. Len(mem)
  OBVIOUS
<1> HIDE DEF C
<1>4. [i \in 1 .. Len(mem) |-> C(i)] \in Seq(Cell) /\ Len([i \in 1 .. Len(mem) |-> C(i)]) = Len(mem)
  BY <1>1
<1>5. QED
  BY <1>2, <1>3, <1>4

\* Two sequences with the same length and the same elements are equal.
LEMMA SameElements ==
    ASSUME NEW S, NEW s \in Seq(S), NEW t \in Seq(S), Len(s) = Len(t),
           \A i \in 1 .. Len(s) : s[i] = t[i]
    PROVE  s = t
OBVIOUS

\* A sequence is the concatenation of the two parts it consists of.
LEMMA IsConcat ==
    ASSUME NEW S, NEW h \in Seq(S), NEW s \in Seq(S), NEW l \in Seq(S),
           Len(l) = Len(h) + Len(s),
           \A i \in 1 .. Len(h) : l[i] = h[i],
           \A i \in 1 .. Len(s) : l[Len(h) + i] = s[i]
    PROVE  l = h \o s
<1>1. h \o s \in Seq(S) /\ Len(h \o s) = Len(l) /\ Len(h) \in Nat /\ Len(s) \in Nat
  OBVIOUS
<1>2. ASSUME NEW i \in 1 .. Len(l) PROVE l[i] = (h \o s)[i]
  <2>1. CASE i <= Len(h)
    <3>1. i \in 1 .. Len(h)
      BY <1>1, <2>1
    <3>2. (h \o s)[i] = h[i]
      BY <3>1
    <3>3. QED
      BY <3>1, <3>2
  <2>2. CASE i > Len(h)
    <3>1. i - Len(h) \in 1 .. Len(s) /\ Len(h) + (i - Len(h)) = i
      BY <1>1, <2>2
    <3>2. (h \o s)[i] = s[i - Len(h)]
      BY <1>1, <2>2, <3>1
    <3>3. QED
      BY <3>1, <3>2
  <2>3. QED
    BY <1>1, <2>1, <2>2
<1>3. QED
  BY <1>1, <1>2, SameElements

\* A memcpy behind the first "at" cells appends to them.
LEMMA CopyAppends ==
    ASSUME NEW mem \in Seq(Cell), NEW at \in Nat, NEW s \in Seq(Cell), at + Len(s) <= Len(mem)
    PROVE  Slice(Copy(mem, at, s), 0, at + Len(s)) = Slice(mem, 0, at) \o s
<1>0. Len(s) \in Nat /\ at + Len(s) \in Nat /\ at <= Len(mem)
  OBVIOUS
<1>1. /\ Copy(mem, at, s) \in Seq(Cell)
      /\ Len(Copy(mem, at, s)) = Len(mem)
      /\ \A i \in 1 .. at : Copy(mem, at, s)[i] = mem[i]
      /\ \A i \in 1 .. Len(s) : Copy(mem, at, s)[at + i] = s[i]
  BY CopySeq
<1>2. /\ Slice(mem, 0, at) \in Seq(Cell)
      /\ Len(Slice(mem, 0, at)) = at
      /\ \A i \in 1 .. at : Slice(mem, 0, at)[i] = mem[i]
  BY <1>0, PrefixSeq
<1>3. ASSUME NEW c \in Seq(Cell), Len(c) = Len(mem)
      PROVE  /\ Slice(c, 0, at + Len(s)) \in Seq(Cell)
             /\ Len(Slice(c, 0, at + Len(s))) = at + Len(s)
             /\ \A i \in 1 .. at + Len(s) : Slice(c, 0, at + Len(s))[i] = c[i]
  BY <1>0, <1>3, PrefixSeq
<1>4. ASSUME NEW c \in Seq(Cell), Len(c) = Len(mem),
             \A i \in 1 .. at : c[i] = mem[i],
             \A i \in 1 .. Len(s) : c[at + i] = s[i],
             NEW h \in Seq(Cell), Len(h) = at, \A i \in 1 .. at : h[i] = mem[i],
             NEW l \in Seq(Cell), Len(l) = at + Len(s), \A i \in 1 .. at + Len(s) : l[i] = c[i]
      PROVE  l = h \o s
  <2>1. \A i \in 1 .. Len(h) : l[i] = h[i]
    BY <1>0, <1>4
  <2>2. \A i \in 1 .. Len(s) : l[Len(h) + i] = s[i]
    BY <1>0, <1>4
  <2>3. QED
    BY <1>4, <2>1, <2>2, IsConcat
<1>5. QED
  BY <1>1, <1>2, <1>3, <1>4

-----------------------------------------------------------------------------
(* The member functions on a good buffer.                                  *)

\* No subtraction of size_t values wraps around.
LEMMA Observers ==
    ASSUME NEW b, Good(b)
    PROVE  /\ getDataSize(b) = b.end_offset - b.start_offset
           /\ getAvailableSpace(b) = b.capacity - b.end_offset
           /\ b.start_offset \in Nat /\ b.end_offset \in Nat /\ b.capacity \in Nat
           /\ b.mem \in Seq(Cell)
<1>1. /\ b.start_offset \in 0 .. SizeMod - 1 /\ b.end_offset \in 0 .. SizeMod - 1
      /\ b.capacity \in 0 .. SizeMod - 1 /\ b.mem \in Seq(Cell)
  BY DEF Good, Buffer, Size
<1>2. b.start_offset <= b.end_offset /\ b.end_offset <= b.capacity
  BY DEF Good
<1>3. QED
  BY <1>1, <1>2, SizeAssumption DEF getDataSize, getAvailableSpace, Minus, Plus

\* Appending to a good buffer with space for the bytes leaves it good, with
\* exactly those bytes added to what it holds.
LEMMA PutGood ==
    ASSUME NEW b, Good(b), NEW s \in Seq(Cell), b.end_offset + Len(s) <= b.capacity
    PROVE  /\ Good(Put(b, s))
           /\ Slice(Put(b, s).mem, 0, Put(b, s).end_offset) = Slice(b.mem, 0, b.end_offset) \o s
<1>1. /\ b.start_offset \in Nat /\ b.end_offset \in Nat /\ b.capacity \in Nat
      /\ b.mem \in Seq(Cell)
  BY Observers
<1>2. /\ b.ptr = "owned" /\ b.start_offset <= b.end_offset /\ b.end_offset <= b.capacity
      /\ b.capacity = Len(b.mem) /\ b.capacity <= MaxAlloc
  BY DEF Good
<1>3. Len(s) \in Nat /\ b.end_offset + Len(s) \in Nat
  BY <1>1
<1>4. Plus(b.end_offset, Len(s)) = b.end_offset + Len(s)
  BY <1>1, <1>2, <1>3, SizeAssumption DEF Plus
<1>5. /\ Copy(b.mem, b.end_offset, s) \in Seq(Cell)
      /\ Len(Copy(b.mem, b.end_offset, s)) = Len(b.mem)
  BY <1>1, <1>2, CopySeq
<1>6. b.start_offset <= b.end_offset + Len(s) /\ b.end_offset + Len(s) \in Size
  BY <1>1, <1>2, <1>3, SizeAssumption DEF Size
<1>7. /\ Put(b, s) \in Buffer /\ Put(b, s).ptr = b.ptr
      /\ Put(b, s).mem = Copy(b.mem, b.end_offset, s)
      /\ Put(b, s).start_offset = b.start_offset
      /\ Put(b, s).end_offset = b.end_offset + Len(s)
      /\ Put(b, s).capacity = b.capacity
  <2>1. b \in Buffer
    BY DEF Good
  <2>2. Put(b, s) = [b EXCEPT !.mem = Copy(b.mem, b.end_offset, s),
                             !.end_offset = b.end_offset + Len(s)]
    BY <1>4 DEF Put
  <2>3. QED
    BY <1>5, <1>6, <2>1, <2>2 DEF Buffer
<1>8. Good(Put(b, s))
  BY <1>2, <1>5, <1>6, <1>7 DEF Good
<1>9. Slice(Copy(b.mem, b.end_offset, s), 0, b.end_offset + Len(s)) = Slice(b.mem, 0, b.end_offset) \o s
  BY <1>1, <1>2, CopyAppends
<1>10. QED
  BY <1>7, <1>8, <1>9

\* reserve() to no less than the buffer holds leaves it good, its bytes intact.
LEMMA ReserveGood ==
    ASSUME NEW b, Good(b), NEW m \in Nat, ReserveSize(b, m) \in 0 .. MaxAlloc,
           ReserveSize(b, m) >= b.end_offset
    PROVE  /\ Good(reserve(b, m))
           /\ reserve(b, m).capacity = ReserveSize(b, m)
           /\ reserve(b, m).end_offset = b.end_offset
           /\ Slice(reserve(b, m).mem, 0, b.end_offset) = Slice(b.mem, 0, b.end_offset)
<1>1. /\ b.start_offset \in Nat /\ b.end_offset \in Nat /\ b.capacity \in Nat
      /\ b.mem \in Seq(Cell)
  BY Observers
<1>2. /\ b.ptr = "owned" /\ b.start_offset <= b.end_offset /\ b.end_offset <= b.capacity
      /\ b.capacity = Len(b.mem) /\ b.capacity <= MaxAlloc
  BY DEF Good
<1>3. ASSUME NEW n \in Nat, n = ReserveSize(b, m), n <= MaxAlloc, n >= b.end_offset
      PROVE  /\ Good(reserve(b, m))
             /\ reserve(b, m).capacity = n /\ reserve(b, m).end_offset = b.end_offset
             /\ Slice(reserve(b, m).mem, 0, b.end_offset) = Slice(b.mem, 0, b.end_offset)
  <2>1. /\ Realloc(b.mem, n) \in Seq(Cell) /\ Len(Realloc(b.mem, n)) = n
        /\ \A i \in 1 .. n : i <= Len(b.mem) => Realloc(b.mem, n)[i] = b.mem[i]
    BY <1>1, ReallocSeq
  <2>2. /\ reserve(b, m) \in Buffer /\ reserve(b, m).ptr = "owned"
        /\ reserve(b, m).mem = Realloc(b.mem, n)
        /\ reserve(b, m).start_offset = b.start_offset
        /\ reserve(b, m).end_offset = b.end_offset
        /\ reserve(b, m).capacity = n
    <3>1. n \in Size /\ b \in Buffer
      BY <1>3, SizeAssumption DEF Size, Good
    <3>2. reserve(b, m) = [b EXCEPT !.ptr = "owned", !.mem = Realloc(b.mem, n), !.capacity = n]
      BY <1>3 DEF reserve
    <3>3. QED
      BY <2>1, <3>1, <3>2 DEF Buffer
  <2>3. Good(reserve(b, m))
    BY <1>2, <1>3, <2>1, <2>2 DEF Good
  <2>4. \A i \in 1 .. b.end_offset : Realloc(b.mem, n)[i] = b.mem[i]
    BY <1>1, <1>2, <1>3, <2>1
  <2>5. Slice(Realloc(b.mem, n), 0, b.end_offset) = Slice(b.mem, 0, b.end_offset)
    BY <1>1, <2>4 DEF Slice
  <2>6. QED
    BY <2>2, <2>3, <2>5
<1>4. QED
  BY <1>3

\* appendRawBytes(data, size) never writes outside the block and adds its bytes,
\* whether or not it has to reserve first.
LEMMA AppendGood ==
    ASSUME NEW b, Good(b), NEW s \in Seq(Cell), Len(s) <= MaxAlloc,
           \/ getAvailableSpace(b) >= Len(s)
           \/ Plus(b.capacity, Len(s)) \in 0 .. MaxAlloc
    PROVE  /\ Good(appendRawBytes(b, s))
           /\ Slice(appendRawBytes(b, s).mem, 0, appendRawBytes(b, s).end_offset)
                = Slice(b.mem, 0, b.end_offset) \o s
<1>1. /\ b.end_offset \in Nat /\ b.capacity \in Nat /\ Len(s) \in Nat
      /\ getAvailableSpace(b) = b.capacity - b.end_offset
      /\ b.end_offset <= b.capacity /\ b.capacity <= MaxAlloc
  BY Observers DEF Good
<1>2. CASE getAvailableSpace(b) >= Len(s)
  <2>1. b.end_offset + Len(s) <= b.capacity
    BY <1>1, <1>2
  <2>2. QED
    BY <1>2, <2>1, PutGood DEF appendRawBytes
<1>3. CASE ~ (getAvailableSpace(b) >= Len(s))
  <2> DEFINE n == b.capacity + Len(s)
             r == reserve(b, n)
  <2>1. Plus(b.capacity, Len(s)) = n
    BY <1>1, SizeAssumption DEF Plus
  <2>2. n \in Nat /\ n > 0 /\ n <= MaxAlloc /\ ReserveSize(b, n) = n
    BY <1>1, <1>3, <2>1 DEF ReserveSize
  <2>3. Good(r) /\ r.capacity = n /\ r.end_offset = b.end_offset
        /\ Slice(r.mem, 0, b.end_offset) = Slice(b.mem, 0, b.end_offset)
    BY <1>1, <2>2, ReserveGood
  <2>4. r.end_offset + Len(s) <= r.capacity
    BY <1>1, <2>3
  <2>5. Good(Put(r, s)) /\ Slice(Put(r, s).mem, 0, Put(r, s).end_offset) = Slice(r.mem, 0, r.end_offset) \o s
    BY <2>3, <2>4, PutGood
  <2>6. appendRawBytes(b, s) = Put(r, s)
    BY <1>3, <2>1 DEF appendRawBytes
  <2>7. QED
    BY <2>3, <2>5, <2>6
<1>4. QED
  BY <1>2, <1>3

\* The bytes of a good buffer.
LEMMA DataSeq ==
    ASSUME NEW b, Good(b)
    PROVE  Data(b) \in Seq(Cell) /\ Len(Data(b)) = getDataSize(b) /\ Len(Data(b)) <= MaxAlloc
<1>1. /\ b.start_offset \in Nat /\ b.end_offset \in Nat /\ b.mem \in Seq(Cell)
      /\ b.start_offset <= b.end_offset /\ b.end_offset <= Len(b.mem) /\ Len(b.mem) <= MaxAlloc
      /\ getDataSize(b) = b.end_offset - b.start_offset
  BY Observers DEF Good
<1>2. /\ Slice(b.mem, b.start_offset, b.end_offset) \in Seq(Cell)
      /\ Len(Slice(b.mem, b.start_offset, b.end_offset)) = b.end_offset - b.start_offset
  BY <1>1, SliceSeq
<1>3. QED
  BY <1>1, <1>2, SizeAssumption DEF Data

-----------------------------------------------------------------------------
(* What the caller of a member function sees between begin() and end().    *)

\* A good buffer, unfolded.
LEMMA GoodFacts ==
    ASSUME NEW b, Good(b)
    PROVE  /\ b \in Buffer /\ b.ptr = "owned" /\ b.mem \in Seq(Cell)
           /\ b.start_offset \in Nat /\ b.end_offset \in Nat /\ b.capacity \in Nat
           /\ b.start_offset <= b.end_offset /\ b.end_offset <= b.capacity
           /\ b.capacity = Len(b.mem) /\ b.capacity <= MaxAlloc
           /\ getDataSize(b) = b.end_offset - b.start_offset
           /\ getAvailableSpace(b) = b.capacity - b.end_offset
BY Observers DEF Good

\* The data, cell by cell.
LEMMA DataCells ==
    ASSUME NEW b, Good(b)
    PROVE  /\ Data(b) \in Seq(Cell)
           /\ Len(Data(b)) = b.end_offset - b.start_offset
           /\ \A i \in 1 .. b.end_offset - b.start_offset : Data(b)[i] = b.mem[b.start_offset + i]
BY GoodFacts, SliceSeq DEF Data

\* Buffers that agree on their offsets and on the cells between them hold the
\* same data.
LEMMA SameData ==
    ASSUME NEW b, Good(b), NEW c, Good(c),
           c.end_offset - c.start_offset = b.end_offset - b.start_offset,
           \A i \in 1 .. b.end_offset - b.start_offset :
              c.mem[c.start_offset + i] = b.mem[b.start_offset + i]
    PROVE  Data(c) = Data(b)
<1>1. /\ Data(b) \in Seq(Cell) /\ Data(c) \in Seq(Cell) /\ Len(Data(c)) = Len(Data(b))
      /\ Len(Data(b)) = b.end_offset - b.start_offset
      /\ \A i \in 1 .. Len(Data(b)) : Data(c)[i] = Data(b)[i]
  BY DataCells
<1> QED
  BY <1>1, SameElements

\* Buffers without data.
LEMMA NoData ==
    ASSUME NEW b, Good(b)
    PROVE  Data(b) = <<>> <=> b.start_offset = b.end_offset
<1>1. Data(b) \in Seq(Cell) /\ Len(Data(b)) = b.end_offset - b.start_offset
  BY DataCells
<1>2. b.start_offset \in Nat /\ b.end_offset \in Nat
  BY GoodFacts
<1> QED
  BY <1>1, <1>2

\* The constructor makes an empty buffer.
LEMMA CreateData ==
    ASSUME NEW n \in 0 .. MaxAlloc
    PROVE  Good(create(n)) /\ Data(create(n)) = <<>>
<1>1. <<>> \in Seq(Cell) /\ n \in Nat /\ n \in Size /\ 0 \in Size
  BY SizeAssumption DEF Size
<1>2. Realloc(<<>>, n) \in Seq(Cell) /\ Len(Realloc(<<>>, n)) = n
  BY <1>1, ReallocSeq
<1>3. NullBuffer \in Buffer /\ NullBuffer.start_offset = 0 /\ NullBuffer.end_offset = 0
  BY <1>1 DEF NullBuffer, Buffer
<1>4. /\ create(n) \in Buffer /\ create(n).ptr = "owned" /\ create(n).mem = Realloc(<<>>, n)
      /\ create(n).start_offset = 0 /\ create(n).end_offset = 0 /\ create(n).capacity = n
  BY <1>1, <1>2, <1>3 DEF create, Buffer
<1>5. Good(create(n))
  BY <1>1, <1>2, <1>4 DEF Good
<1> QED
  BY <1>4, <1>5, NoData

\* clear() leaves a buffer without data.
LEMMA ClearData ==
    ASSUME NEW b, Good(b)
    PROVE  Good(clear(b)) /\ Data(clear(b)) = <<>>
<1>0. b \in Buffer /\ clear(b) = [b EXCEPT !.start_offset = 0, !.end_offset = 0] /\ 0 \in Size
  BY SizeAssumption DEF Good, clear, Size
<1>1. /\ clear(b) \in Buffer /\ clear(b).ptr = b.ptr /\ clear(b).mem = b.mem
      /\ clear(b).start_offset = 0 /\ clear(b).end_offset = 0 /\ clear(b).capacity = b.capacity
  BY <1>0 DEF Buffer
<1>2. Good(clear(b))
  BY <1>1, GoodFacts DEF Good
<1> QED
  BY <1>1, <1>2, NoData

\* A buffer whose start offset moves inside its data.
LEMMA AdvanceData ==
    ASSUME NEW b, Good(b), NEW n \in Nat, n <= getDataSize(b)
    PROVE  /\ Good(modifyStartOffset(b, n))
           /\ Data(modifyStartOffset(b, n)) \in Seq(Cell)
           /\ Len(Data(modifyStartOffset(b, n))) = Len(Data(b)) - n
           /\ \A i \in 1 .. Len(Data(b)) - n : Data(modifyStartOffset(b, n))[i] = Data(b)[n + i]
<1> DEFINE c == modifyStartOffset(b, n)
<1>0. /\ b \in Buffer /\ b.mem \in Seq(Cell) /\ b.start_offset \in Nat /\ b.end_offset \in Nat
      /\ b.capacity \in Nat /\ b.start_offset + n <= b.end_offset /\ b.end_offset <= b.capacity
      /\ b.capacity = Len(b.mem) /\ b.capacity <= MaxAlloc /\ b.ptr = "owned"
  BY GoodFacts
<1>1. Plus(b.start_offset, n) = b.start_offset + n /\ b.start_offset + n \in Size
  BY <1>0, SizeAssumption DEF Plus, Size
<1>2. c = [b EXCEPT !.start_offset = b.start_offset + n]
  BY <1>1 DEF modifyStartOffset
<1>3. /\ c \in Buffer /\ c.ptr = b.ptr /\ c.mem = b.mem /\ c.start_offset = b.start_offset + n
      /\ c.end_offset = b.end_offset /\ c.capacity = b.capacity
  BY <1>0, <1>1, <1>2 DEF Buffer
<1> HIDE DEF c
<1>4. Good(c)
  BY <1>0, <1>3 DEF Good
<1>5. /\ Data(c) \in Seq(Cell) /\ Len(Data(c)) = c.end_offset - c.start_offset
      /\ \A i \in 1 .. c.end_offset - c.start_offset : Data(c)[i] = c.mem[c.start_offset + i]
  BY <1>4, DataCells
<1>6. /\ Len(Data(b)) = b.end_offset - b.start_offset
      /\ \A i \in 1 .. b.end_offset - b.start_offset : Data(b)[i] = b.mem[b.start_offset + i]
  BY DataCells
<1>7. Len(Data(c)) = Len(Data(b)) - n
  BY <1>0, <1>3, <1>5, <1>6
<1>8. ASSUME NEW i \in 1 .. Len(Data(b)) - n PROVE Data(c)[i] = Data(b)[n + i]
  <2>1. n + i \in 1 .. b.end_offset - b.start_offset /\ b.start_offset + (n + i) = c.start_offset + i
        /\ i \in 1 .. c.end_offset - c.start_offset
    BY <1>0, <1>3, <1>6
  <2> QED
    BY <1>3, <1>5, <1>6, <2>1
<1> QED
  BY <1>4, <1>5, <1>7, <1>8 DEF c

\* reserve() to no less than the buffer holds keeps its data.
LEMMA ReserveData ==
    ASSUME NEW b, Good(b), NEW m \in Nat, ReserveSize(b, m) \in 0 .. MaxAlloc,
           ReserveSize(b, m) >= b.end_offset
    PROVE  /\ Good(reserve(b, m)) /\ Data(reserve(b, m)) = Data(b)
           /\ reserve(b, m).capacity = ReserveSize(b, m) /\ reserve(b, m).end_offset = b.end_offset
<1> DEFINE c == reserve(b, m)
           n == ReserveSize(b, m)
<1>1. /\ b.mem \in Seq(Cell) /\ b.start_offset \in Nat /\ b.end_offset \in Nat /\ b \in Buffer
      /\ b.start_offset <= b.end_offset /\ b.end_offset <= Len(b.mem)
  BY GoodFacts
<1>2. Good(c) /\ c.capacity = n /\ c.end_offset = b.end_offset
  BY ReserveGood
<1>3. c.mem = Realloc(b.mem, n) /\ c.start_offset = b.start_offset
  BY <1>1 DEF reserve, Buffer
<1>4. \A i \in 1 .. n : i <= Len(b.mem) => Realloc(b.mem, n)[i] = b.mem[i]
  <2>1. n \in Nat
    OBVIOUS
  <2> HIDE DEF n
  <2> QED
    BY <1>1, <2>1, ReallocSeq
<1>5. \A i \in 1 .. b.end_offset - b.start_offset : c.mem[c.start_offset + i] = b.mem[b.start_offset + i]
  <2>1. n >= b.end_offset /\ n \in Nat
    OBVIOUS
  <2> HIDE DEF n, c
  <2>2. \A i \in 1 .. b.end_offset - b.start_offset :
           b.start_offset + i \in 1 .. n /\ b.start_offset + i <= Len(b.mem)
    BY <1>1, <2>1
  <2> QED
    BY <1>3, <1>4, <2>2
<1> HIDE DEF c
<1>6. Data(c) = Data(b)
  BY <1>2, <1>3, <1>5, SameData
<1> QED
  BY <1>2, <1>6 DEF c

\* A memcpy at the end of the data appends to it.
LEMMA PutData ==
    ASSUME NEW b, Good(b), NEW s \in Seq(Cell), b.end_offset + Len(s) <= b.capacity
    PROVE  Good(Put(b, s)) /\ Data(Put(b, s)) = Data(b) \o s
<1> DEFINE c == Put(b, s)
<1>1. /\ b.mem \in Seq(Cell) /\ b.start_offset \in Nat /\ b.end_offset \in Nat /\ b \in Buffer
      /\ b.start_offset <= b.end_offset /\ b.end_offset + Len(s) <= Len(b.mem) /\ Len(s) \in Nat
      /\ b.capacity = Len(b.mem) /\ b.capacity <= MaxAlloc
  BY GoodFacts
<1>2. Good(c)
  BY PutGood
<1>3. Plus(b.end_offset, Len(s)) = b.end_offset + Len(s)
  BY <1>1, SizeAssumption DEF Plus
<1>4. /\ c.mem = Copy(b.mem, b.end_offset, s) /\ c.start_offset = b.start_offset
      /\ c.end_offset = b.end_offset + Len(s)
  BY <1>1, <1>3 DEF Put, Buffer
<1>5. /\ \A i \in 1 .. b.end_offset : c.mem[i] = b.mem[i]
      /\ \A i \in 1 .. Len(s) : c.mem[b.end_offset + i] = s[i]
  BY <1>1, <1>4, CopySeq
<1> HIDE DEF c
<1>6. /\ Data(b) \in Seq(Cell) /\ Len(Data(b)) = b.end_offset - b.start_offset
      /\ \A i \in 1 .. b.end_offset - b.start_offset : Data(b)[i] = b.mem[b.start_offset + i]
  BY DataCells
<1>7. /\ Data(c) \in Seq(Cell) /\ Len(Data(c)) = c.end_offset - c.start_offset
      /\ \A i \in 1 .. c.end_offset - c.start_offset : Data(c)[i] = c.mem[c.start_offset + i]
  BY <1>2, DataCells
<1>8. Len(Data(c)) = Len(Data(b)) + Len(s)
  BY <1>1, <1>4, <1>6, <1>7
<1>9. ASSUME NEW i \in 1 .. Len(Data(b)) PROVE Data(c)[i] = Data(b)[i]
  <2>1. /\ i \in 1 .. c.end_offset - c.start_offset /\ b.start_offset + i \in 1 .. b.end_offset
        /\ i \in 1 .. b.end_offset - b.start_offset
    BY <1>1, <1>4, <1>6
  <2> QED
    BY <1>4, <1>5, <1>6, <1>7, <2>1
<1>10. ASSUME NEW i \in 1 .. Len(s) PROVE Data(c)[Len(Data(b)) + i] = s[i]
  <2>1. /\ Len(Data(b)) + i \in 1 .. c.end_offset - c.start_offset
        /\ c.start_offset + (Len(Data(b)) + i) = b.end_offset + i
    BY <1>1, <1>4, <1>6
  <2> QED
    BY <1>5, <1>7, <2>1
<1>11. Data(c) = Data(b) \o s
  BY <1>6, <1>7, <1>8, <1>9, <1>10, IsConcat
<1> QED
  BY <1>2, <1>11 DEF c

\* appendRawBytes(data, size) appends to the data, growing first if it must.
LEMMA AppendData ==
    ASSUME NEW b, Good(b), NEW s \in Seq(Cell), Len(s) <= MaxAlloc,
           \/ getAvailableSpace(b) >= Len(s)
           \/ Plus(b.capacity, Len(s)) \in 0 .. MaxAlloc
    PROVE  Good(appendRawBytes(b, s)) /\ Data(appendRawBytes(b, s)) = Data(b) \o s
<1>1. /\ b.end_offset \in Nat /\ b.capacity \in Nat /\ Len(s) \in Nat
      /\ getAvailableSpace(b) = b.capacity - b.end_offset
      /\ b.end_offset <= b.capacity /\ b.capacity <= MaxAlloc
  BY GoodFacts
<1>2. CASE getAvailableSpace(b) >= Len(s)
  <2>1. b.end_offset + Len(s) <= b.capacity
    BY <1>1, <1>2
  <2> QED
    BY <1>2, <2>1, PutData DEF appendRawBytes
<1>3. CASE ~ (getAvailableSpace(b) >= Len(s))
  <2> DEFINE n == b.capacity + Len(s)
             r == reserve(b, n)
  <2>1. Plus(b.capacity, Len(s)) = n
    BY <1>1, SizeAssumption DEF Plus
  <2>2. n \in Nat /\ n > 0 /\ n <= MaxAlloc /\ ReserveSize(b, n) = n
    BY <1>1, <1>3, <2>1 DEF ReserveSize
  <2>3. Good(r) /\ Data(r) = Data(b) /\ r.capacity = n /\ r.end_offset = b.end_offset
    BY <1>1, <2>2, ReserveData
  <2>4. r.end_offset + Len(s) <= r.capacity
    BY <1>1, <2>3
  <2>5. Good(Put(r, s)) /\ Data(Put(r, s)) = Data(r) \o s
    BY <2>3, <2>4, PutData
  <2>6. appendRawBytes(b, s) = Put(r, s)
    BY <1>3, <2>1 DEF appendRawBytes
  <2> QED
    BY <2>3, <2>5, <2>6
<1> QED
  BY <1>2, <1>3

\* The growth of a buffer that is to take n more bytes.
Grown(b, n) == IF n > getAvailableSpace(b) THEN reserve(b, Plus(b.capacity, n)) ELSE b

\* It keeps the data, and makes room for the bytes.
LEMMA GrowData ==
    ASSUME NEW b, Good(b), NEW n \in 0 .. MaxAlloc,
           n > getAvailableSpace(b) => Plus(b.capacity, n) <= MaxAlloc
    PROVE  Good(Grown(b, n)) /\ Data(Grown(b, n)) = Data(b) /\ getAvailableSpace(Grown(b, n)) >= n
<1>1. /\ b.capacity \in Nat /\ b.end_offset \in Nat /\ b.end_offset <= b.capacity
      /\ b.capacity <= MaxAlloc /\ getAvailableSpace(b) = b.capacity - b.end_offset
  BY GoodFacts
<1>2. CASE ~ (n > getAvailableSpace(b))
  BY <1>1, <1>2 DEF Grown
<1>3. CASE n > getAvailableSpace(b)
  <2> DEFINE m == b.capacity + n
  <2>1. Plus(b.capacity, n) = m /\ m \in 0 .. MaxAlloc /\ n > 0 /\ m > 0 /\ m >= b.end_offset
    BY <1>1, <1>3, SizeAssumption DEF Plus
  <2>2. ReserveSize(b, m) = m /\ m \in Nat
    BY <2>1 DEF ReserveSize
  <2>3. Grown(b, n) = reserve(b, m)
    BY <1>3, <2>1 DEF Grown
  <2>4. m - b.end_offset >= n
    BY <1>1
  <2> HIDE DEF m
  <2>5. Good(reserve(b, m)) /\ Data(reserve(b, m)) = Data(b) /\ reserve(b, m).capacity = m
        /\ reserve(b, m).end_offset = b.end_offset
    BY <2>1, <2>2, ReserveData
  <2>6. getAvailableSpace(reserve(b, m)) = m - b.end_offset
    BY <2>5, GoodFacts
  <2> QED
    BY <2>3, <2>4, <2>5, <2>6
<1> QED
  BY <1>2, <1>3
===============================================================================
