-------------------------- MODULE Connection_proofs --------------------------
(***************************************************************************)
(* Proofs about Connection, for any descriptors, any capacities and read   *)
(* lengths that fit into a block, and any number of bytes: bytes are       *)
(* neither lost nor reordered, and the client keeps off the descriptors of *)
(* others, with the exceptions that the properties name.                   *)
(***************************************************************************)
EXTENDS Connection, IOBufferOps_proofs

-----------------------------------------------------------------------------
(* Sequences.                                                              *)

\* ToSet is the range of a sequence.
LEMMA ToSetIndex ==
    ASSUME NEW S, NEW s \in Seq(S)
    PROVE  ToSet(s) = {s[i] : i \in 1 .. Len(s)} /\ ToSet(s) = Range(s)
BY DEF ToSet, Range

\* The elements of a concatenation.
LEMMA ToSetConcat ==
    ASSUME NEW S, NEW s \in Seq(S), NEW t \in Seq(S)
    PROVE  ToSet(s \o t) = ToSet(s) \cup ToSet(t)
<1>1. s \o t \in Seq(S)
  OBVIOUS
<1>2. ToSet(s \o t) = Range(s \o t) /\ ToSet(s) = Range(s) /\ ToSet(t) = Range(t)
  BY <1>1, ToSetIndex
<1> QED
  BY <1>2, RangeConcatenation

\* The elements of the empty sequence, and of one.
LEMMA ToSetSmall ==
    ASSUME NEW e
    PROVE  ToSet(<<>>) = {} /\ ToSet(<<e>>) = {e}
BY DEF ToSet

\* A sequence is its head and its tail.
LEMMA HeadAndTail ==
    ASSUME NEW S, NEW s \in Seq(S), s # <<>>
    PROVE  s = <<Head(s)>> \o Tail(s) /\ Head(s) \in S /\ Tail(s) \in Seq(S)
<1>1. Head(s) \in S /\ Tail(s) \in Seq(S) /\ Len(Tail(s)) = Len(s) - 1 /\ Len(s) \in Nat
  OBVIOUS
<1>2. \A i \in 1 .. Len(Tail(s)) : s[1 + i] = Tail(s)[i]
  OBVIOUS
<1>3. <<Head(s)>> \in Seq(S) /\ Len(<<Head(s)>>) = 1 /\ s[1] = <<Head(s)>>[1]
  BY <1>1
<1>4. s = <<Head(s)>> \o Tail(s)
  BY <1>1, <1>2, <1>3, IsConcat
<1> QED
  BY <1>1, <1>4

\* A sequence in two parts.
LEMMA SplitAt ==
    ASSUME NEW S, NEW s \in Seq(S), NEW j \in 0 .. Len(s)
    PROVE  /\ SubSeq(s, 1, j) \in Seq(S) /\ SubSeq(s, j + 1, Len(s)) \in Seq(S)
           /\ s = SubSeq(s, 1, j) \o SubSeq(s, j + 1, Len(s)) /\ Len(SubSeq(s, 1, j)) = j
<1>1. Len(s) \in Nat /\ j \in Nat
  OBVIOUS
<1>2. SubSeq(s, 1, j) \in Seq(S) /\ Len(SubSeq(s, 1, j)) = j
      /\ \A i \in 1 .. j : SubSeq(s, 1, j)[i] = s[i]
  OBVIOUS
<1>3. SubSeq(s, j + 1, Len(s)) \in Seq(S) /\ Len(SubSeq(s, j + 1, Len(s))) = Len(s) - j
      /\ \A i \in 1 .. Len(s) - j : SubSeq(s, j + 1, Len(s))[i] = s[j + i]
  OBVIOUS
<1>4. ASSUME NEW h \in Seq(S), NEW t \in Seq(S), Len(h) = j, Len(t) = Len(s) - j,
             \A i \in 1 .. j : h[i] = s[i], \A i \in 1 .. Len(s) - j : t[i] = s[j + i]
      PROVE  s = h \o t
  <2>1. Len(s) = Len(h) + Len(t)
    BY <1>1, <1>4
  <2>2. (\A i \in 1 .. Len(h) : s[i] = h[i]) /\ \A i \in 1 .. Len(t) : s[Len(h) + i] = t[i]
    BY <1>4
  <2> QED
    BY <1>4, <2>1, <2>2, IsConcat
<1> QED
  BY <1>2, <1>3, <1>4

\* A concatenation increases if its parts do and every element of the first
\* is below every element of the second.
LEMMA IncreasingConcat ==
    ASSUME NEW S, NEW s \in Seq(S), NEW t \in Seq(S)
    PROVE  Increasing(s \o t) <=> /\ Increasing(s) /\ Increasing(t)
                                  /\ \A x \in ToSet(s), y \in ToSet(t) : x < y
<1>0. /\ Len(s) \in Nat /\ Len(t) \in Nat /\ Len(s \o t) = Len(s) + Len(t)
      /\ \A i \in 1 .. Len(s) : (s \o t)[i] = s[i]
      /\ \A i \in 1 .. Len(t) : (s \o t)[Len(s) + i] = t[i]
  OBVIOUS
<1>1. ToSet(s) = {s[i] : i \in 1 .. Len(s)} /\ ToSet(t) = {t[i] : i \in 1 .. Len(t)}
  BY ToSetIndex
<1>2. ASSUME Increasing(s \o t)
      PROVE  Increasing(s) /\ Increasing(t) /\ \A x \in ToSet(s), y \in ToSet(t) : x < y
  <2>1. \A i, j \in 1 .. Len(s) + Len(t) : i < j => (s \o t)[i] < (s \o t)[j]
    BY <1>0, <1>2 DEF Increasing
  <2>2. Increasing(s)
    BY <1>0, <2>1 DEF Increasing
  <2>3. Increasing(t)
    <3> SUFFICES ASSUME NEW i \in 1 .. Len(t), NEW j \in 1 .. Len(t), i < j PROVE t[i] < t[j]
      BY DEF Increasing
    <3>1. /\ Len(s) + i \in 1 .. Len(s) + Len(t) /\ Len(s) + j \in 1 .. Len(s) + Len(t)
          /\ Len(s) + i < Len(s) + j
      BY <1>0
    <3> QED
      BY <1>0, <2>1, <3>1
  <2>4. ASSUME NEW i \in 1 .. Len(s), NEW j \in 1 .. Len(t) PROVE s[i] < t[j]
    <3>1. i \in 1 .. Len(s) + Len(t) /\ Len(s) + j \in 1 .. Len(s) + Len(t) /\ i < Len(s) + j
      BY <1>0
    <3> QED
      BY <1>0, <2>1, <3>1
  <2> QED
    BY <1>1, <2>2, <2>3, <2>4
<1>3. ASSUME Increasing(s), Increasing(t), \A x \in ToSet(s), y \in ToSet(t) : x < y
      PROVE  Increasing(s \o t)
  <2> SUFFICES ASSUME NEW i \in 1 .. Len(s) + Len(t), NEW j \in 1 .. Len(s) + Len(t), i < j
               PROVE  (s \o t)[i] < (s \o t)[j]
    BY <1>0 DEF Increasing
  <2>1. CASE j <= Len(s)
    <3>1. i \in 1 .. Len(s) /\ j \in 1 .. Len(s)
      BY <1>0, <2>1
    <3> QED
      BY <1>0, <1>3, <3>1 DEF Increasing
  <2>2. CASE i > Len(s)
    <3>1. /\ i - Len(s) \in 1 .. Len(t) /\ j - Len(s) \in 1 .. Len(t) /\ i - Len(s) < j - Len(s)
          /\ Len(s) + (i - Len(s)) = i /\ Len(s) + (j - Len(s)) = j
      BY <1>0, <2>2
    <3>2. t[i - Len(s)] < t[j - Len(s)]
      BY <1>3, <3>1 DEF Increasing
    <3>3. (s \o t)[i] = t[i - Len(s)] /\ (s \o t)[j] = t[j - Len(s)]
      BY <1>0, <3>1
    <3> QED
      BY <3>2, <3>3
  <2>3. CASE i <= Len(s) /\ j > Len(s)
    <3>1. i \in 1 .. Len(s) /\ j - Len(s) \in 1 .. Len(t) /\ Len(s) + (j - Len(s)) = j
      BY <1>0, <2>3
    <3>2. s[i] < t[j - Len(s)]
      BY <1>1, <1>3, <3>1
    <3>3. (s \o t)[i] = s[i] /\ (s \o t)[j] = t[j - Len(s)]
      BY <1>0, <3>1
    <3> QED
      BY <3>2, <3>3
  <2> QED
    BY <1>0, <2>1, <2>2, <2>3
<1> QED
  BY <1>2, <1>3

\* The bytes that a client sends.
LEMMA NumbersSeq ==
    ASSUME NEW a \in Nat, NEW j \in Nat
    PROVE  /\ Numbers(a, a + j) \in Seq(a + 1 .. a + j) /\ Len(Numbers(a, a + j)) = j
           /\ \A i \in 1 .. j : Numbers(a, a + j)[i] = a + i
           /\ Increasing(Numbers(a, a + j)) /\ ToSet(Numbers(a, a + j)) \subseteq a + 1 .. a + j
<1>1. Numbers(a, a + j) = [i \in 1 .. j |-> a + i]
  BY DEF Numbers
<1>2. [i \in 1 .. j |-> a + i] \in Seq(a + 1 .. a + j) /\ Len([i \in 1 .. j |-> a + i]) = j
  OBVIOUS
<1>3. \A i \in 1 .. j : Numbers(a, a + j)[i] = a + i
  BY <1>1
<1>4. Increasing(Numbers(a, a + j))
  BY <1>1, <1>2, <1>3 DEF Increasing
<1>5. ToSet(Numbers(a, a + j)) \subseteq a + 1 .. a + j
  <2>1. ToSet(Numbers(a, a + j)) = {Numbers(a, a + j)[i] : i \in 1 .. Len(Numbers(a, a + j))}
    BY <1>1, <1>2, ToSetIndex, ZenonT(40)
  <2> QED
    BY <1>1, <1>2, <1>3, <2>1
<1> QED
  BY <1>1, <1>2, <1>3, <1>4, <1>5

\* The next bytes follow those that were sent.
LEMMA NumbersConcat ==
    ASSUME NEW a \in Nat, NEW j \in Nat
    PROVE  Numbers(0, a + j) = Numbers(0, a) \o Numbers(a, a + j)
<1>1. /\ Numbers(0, a) \in Seq(Nat) /\ Len(Numbers(0, a)) = a /\ \A i \in 1 .. a : Numbers(0, a)[i] = i
  BY DEF Numbers
<1>2. /\ Numbers(0, a + j) \in Seq(Nat) /\ Len(Numbers(0, a + j)) = a + j
      /\ \A i \in 1 .. a + j : Numbers(0, a + j)[i] = i
  <2>1. a + j \in Nat
    OBVIOUS
  <2>2. Numbers(0, a + j) = [i \in 1 .. a + j |-> i]
    BY DEF Numbers
  <2> QED
    BY <2>1, <2>2
<1>3. /\ Numbers(a, a + j) \in Seq(Nat) /\ Len(Numbers(a, a + j)) = j
      /\ \A i \in 1 .. j : Numbers(a, a + j)[i] = a + i
  <2>1. Numbers(a, a + j) = [i \in 1 .. j |-> a + i]
    BY DEF Numbers
  <2> QED
    BY <2>1
<1>4. ASSUME NEW h \in Seq(Nat), NEW t \in Seq(Nat), NEW l \in Seq(Nat),
             Len(h) = a, Len(t) = j, Len(l) = a + j, \A i \in 1 .. a : h[i] = i,
             \A i \in 1 .. a + j : l[i] = i, \A i \in 1 .. j : t[i] = a + i
      PROVE  l = h \o t
  <2>1. (\A i \in 1 .. Len(h) : l[i] = h[i]) /\ \A i \in 1 .. Len(t) : l[Len(h) + i] = t[i]
    BY <1>4
  <2> QED
    BY <1>4, <2>1, IsConcat
<1> QED
  BY <1>1, <1>2, <1>3, <1>4
-----------------------------------------------------------------------------
(* The operations of the client and of the peer on good buffers.           *)

\* Another buffer leaves the rest of a client as it is.
LEMMA WithBuffer ==
    ASSUME NEW s \in Stream, NEW b \in Buffer \cup {NoBuffer}
    PROVE  /\ [s EXCEPT !.io_buffer = b] \in Stream
           /\ [s EXCEPT !.io_buffer = b].io_buffer = b
           /\ [s EXCEPT !.io_buffer = b].endpoint_fd = s.endpoint_fd
           /\ [s EXCEPT !.io_buffer = b].is_connected = s.is_connected
           /\ [s EXCEPT !.io_buffer = b].read_callback = s.read_callback
           /\ [s EXCEPT !.io_buffer = b].write_callback = s.write_callback
BY DEF Stream

\* What an operation of a client leaves alone.
Same(r, s) == /\ r \in Stream /\ r.endpoint_fd = s.endpoint_fd /\ r.is_connected = s.is_connected

\* A buffer that is there is good.
OwnGood(s) == s.io_buffer # NoBuffer => Good(s.io_buffer)

\* The growth before a read keeps the data, and makes room for the bytes.
LEMMA ReservedStream ==
    ASSUME NEW s \in Stream, Good(s.io_buffer), NEW n \in 0 .. MaxAlloc,
           NeedsSpace(s, n) => ReadSize(s, n) <= MaxAlloc
    PROVE  /\ Same(Reserved(s, n), s) /\ Reserved(s, n).read_callback = s.read_callback
           /\ Reserved(s, n).write_callback = s.write_callback
           /\ Reserved(s, n) = [s EXCEPT !.io_buffer = Reserved(s, n).io_buffer]
           /\ Good(Reserved(s, n).io_buffer) /\ Data(Reserved(s, n).io_buffer) = Data(s.io_buffer)
           /\ getAvailableSpace(Reserved(s, n).io_buffer) >= n
<1> DEFINE c == Grown(s.io_buffer, n)
<1>1. Good(c) /\ Data(c) = Data(s.io_buffer) /\ getAvailableSpace(c) >= n
  BY GrowData DEF NeedsSpace, ReadSize
<1>2. Reserved(s, n) = [s EXCEPT !.io_buffer = c]
  <2>1. [s EXCEPT !.io_buffer = s.io_buffer] = s
    BY DEF Stream
  <2> QED
    BY <2>1 DEF Reserved, Grown, NeedsSpace, ReadSize
<1> HIDE DEF c
<1>3. c \in Buffer
  BY <1>1, GoodFacts
<1> QED
  BY <1>1, <1>2, <1>3, WithBuffer DEF Same

\* streamRead() appends what it received, and the callback may clear it all.
LEMMA ReadStream ==
    ASSUME NEW s \in Stream, Good(s.io_buffer), NEW n \in 0 .. MaxAlloc,
           NeedsSpace(s, n) => ReadSize(s, n) <= MaxAlloc,
           NEW g \in Seq(Cell), Len(g) <= n
    PROVE  /\ Same(streamRead(s, n, g), s) /\ Good(streamRead(s, n, g).io_buffer)
           /\ Data(streamRead(s, n, g).io_buffer) =
                IF s.read_callback = "clears" THEN <<>> ELSE Data(s.io_buffer) \o g
<1> DEFINE r == Reserved(s, n)
           c == appendRawBytes(r.io_buffer, g)
           q == [r EXCEPT !.io_buffer = c]
<1>1. /\ Same(r, s) /\ Good(r.io_buffer) /\ Data(r.io_buffer) = Data(s.io_buffer)
      /\ getAvailableSpace(r.io_buffer) >= n
  BY ReservedStream
<1> HIDE DEF r
<1>2. Len(g) \in Nat /\ Len(g) <= MaxAlloc /\ n \in Nat
  BY SizeAssumption
<1>3. getAvailableSpace(r.io_buffer) >= Len(g)
  <2>1. getAvailableSpace(r.io_buffer) \in Int
    BY <1>1, GoodFacts, SMTT(30)
  <2> QED
    BY <1>1, <1>2, <2>1
<1>4. Good(c) /\ Data(c) = Data(s.io_buffer) \o g
  BY <1>1, <1>2, <1>3, AppendData
<1> HIDE DEF c
<1>5. c \in Buffer
  BY <1>4, GoodFacts
<1>6. Same(q, s) /\ q.io_buffer = c
  BY <1>1, <1>5, WithBuffer DEF Same
<1> HIDE DEF q
<1>7. streamRead(s, n, g) = RunCallback(q, s.read_callback)
  BY DEF streamRead, q, c, r
<1>8. c # NoBuffer
  BY <1>5, BufferAssumption
<1>9. CASE s.read_callback = "clears"
  <2>1. streamRead(s, n, g) = [q EXCEPT !.io_buffer = clear(c)]
    BY <1>6, <1>7, <1>8, <1>9 DEF RunCallback
  <2>2. Good(clear(c)) /\ Data(clear(c)) = <<>> /\ clear(c) \in Buffer
    BY <1>4, ClearData, GoodFacts
  <2>3. Same(streamRead(s, n, g), s) /\ streamRead(s, n, g).io_buffer = clear(c)
    BY <1>6, <2>1, <2>2, WithBuffer DEF Same
  <2> QED
    BY <1>9, <2>2, <2>3
<1>10. CASE s.read_callback # "clears"
  BY <1>4, <1>6, <1>7, <1>10 DEF RunCallback
<1> QED
  BY <1>9, <1>10

\* A write callback may clear the buffer, when there is one.
LEMMA WriteStream ==
    ASSUME NEW s \in Stream, OwnGood(s)
    PROVE  /\ Same(streamWrite(s), s) /\ OwnGood(streamWrite(s))
           /\ DataOf(streamWrite(s).io_buffer) =
                IF s.write_callback = "clears" THEN <<>> ELSE DataOf(s.io_buffer)
<1>1. CASE s.write_callback = "clears" /\ s.io_buffer # NoBuffer
  <2>1. streamWrite(s) = [s EXCEPT !.io_buffer = clear(s.io_buffer)]
    BY <1>1 DEF streamWrite, RunCallback
  <2>2. Good(clear(s.io_buffer)) /\ Data(clear(s.io_buffer)) = <<>> /\ clear(s.io_buffer) \in Buffer
    BY <1>1, ClearData, GoodFacts DEF OwnGood
  <2>3. Same(streamWrite(s), s) /\ streamWrite(s).io_buffer = clear(s.io_buffer)
    BY <2>1, <2>2, WithBuffer DEF Same
  <2> QED
    BY <1>1, <2>2, <2>3 DEF OwnGood, DataOf
<1>2. CASE ~ (s.write_callback = "clears" /\ s.io_buffer # NoBuffer)
  BY <1>2 DEF streamWrite, RunCallback, Same, OwnGood, DataOf
<1> QED
  BY <1>1, <1>2

\* writeToPeer() leaves no data, however little send() took.
LEMMA PeerWriteData ==
    ASSUME NEW b, Good(b)
    PROVE  Good(writeToPeer(b)) /\ Data(writeToPeer(b)) = <<>>
<1>1. getDataSize(b) \in Nat /\ getDataSize(b) = Len(Data(b)) /\ Data(b) \in Seq(Cell)
  BY GoodFacts, DataCells
<1>2. /\ Good(writeToPeer(b)) /\ Data(writeToPeer(b)) \in Seq(Cell)
      /\ Len(Data(writeToPeer(b))) = Len(Data(b)) - getDataSize(b)
  BY <1>1, AdvanceData DEF writeToPeer
<1> QED
  BY <1>1, <1>2

\* readFromPeer() into a buffer without data gives it what was received; in
\* any case the buffer stays good.
LEMMA PeerReadData ==
    ASSUME NEW b, Good(b), NEW g \in Seq(Cell), Len(g) <= ReadRoom(b)
    PROVE  /\ Good(readFromPeer(b, g))
           /\ Data(b) = <<>> => Data(readFromPeer(b, g)) = g
<1> DEFINE c == readFromPeer(b, g)
           mem == Copy(b.mem, b.start_offset, g)
<1>1. /\ b \in Buffer /\ b.ptr = "owned" /\ b.mem \in Seq(Cell)
      /\ b.start_offset \in Nat /\ b.end_offset \in Nat /\ b.capacity \in Nat
      /\ b.start_offset <= b.end_offset /\ b.capacity = Len(b.mem) /\ b.capacity <= MaxAlloc
      /\ Len(g) \in Nat /\ b.end_offset + Len(g) <= b.capacity
  BY GoodFacts DEF ReadRoom
<1>2. b.start_offset + Len(g) <= Len(b.mem)
  BY <1>1
<1>3. mem \in Seq(Cell) /\ Len(mem) = Len(b.mem) /\ \A i \in 1 .. Len(g) : mem[b.start_offset + i] = g[i]
  BY <1>1, <1>2, CopySeq
<1> HIDE DEF mem
<1>4. Plus(b.end_offset, Len(g)) = b.end_offset + Len(g) /\ b.end_offset + Len(g) \in Size
  BY <1>1, SizeAssumption DEF Plus, Size
<1>5. [b EXCEPT !.mem = mem] \in Buffer /\ [b EXCEPT !.mem = mem].end_offset = b.end_offset
  BY <1>1, <1>3 DEF Buffer
<1>6. c = [[b EXCEPT !.mem = mem] EXCEPT !.end_offset = b.end_offset + Len(g)]
  BY <1>4, <1>5 DEF readFromPeer, modifyEndOffset, mem
<1>7. /\ c \in Buffer /\ c.ptr = "owned" /\ c.mem = mem /\ c.start_offset = b.start_offset
      /\ c.end_offset = b.end_offset + Len(g) /\ c.capacity = b.capacity
  BY <1>1, <1>3, <1>4, <1>6 DEF Buffer
<1> HIDE DEF c
<1>8. Good(c)
  BY <1>1, <1>3, <1>7 DEF Good
<1>9. ASSUME Data(b) = <<>> PROVE Data(c) = g
  <2>1. b.start_offset = b.end_offset
    BY <1>9, NoData
  <2>2. c.end_offset - c.start_offset = Len(g)
    BY <1>1, <1>7, <2>1
  <2>3. /\ Data(c) \in Seq(Cell) /\ Len(Data(c)) = Len(g)
        /\ \A i \in 1 .. Len(g) : Data(c)[i] = c.mem[c.start_offset + i]
    BY <1>8, <2>2, DataCells
  <2>4. \A i \in 1 .. Len(g) : Data(c)[i] = g[i]
    BY <1>3, <1>7, <2>3
  <2> QED
    BY <2>3, <2>4, SameElements
<1> QED
  BY <1>8, <1>9 DEF c

\* The owner consumes a byte.
LEMMA ConsumeData ==
    ASSUME NEW b, Good(b), Data(b) # <<>>
    PROVE  Good(modifyStartOffset(b, 1)) /\ Data(modifyStartOffset(b, 1)) = Tail(Data(b))
<1>1. /\ Data(b) \in Seq(Cell) /\ Len(Data(b)) \in Nat \ {0} /\ getDataSize(b) = Len(Data(b))
  BY DataCells, GoodFacts
<1>2. 1 \in Nat /\ 1 <= getDataSize(b)
  BY <1>1
<1>3. /\ Good(modifyStartOffset(b, 1))
      /\ Data(modifyStartOffset(b, 1)) \in Seq(Cell)
      /\ Len(Data(modifyStartOffset(b, 1))) = Len(Data(b)) - 1
      /\ \A i \in 1 .. Len(Data(b)) - 1 : Data(modifyStartOffset(b, 1))[i] = Data(b)[1 + i]
  BY <1>2, AdvanceData
<1>4. /\ Tail(Data(b)) \in Seq(Cell) /\ Len(Tail(Data(b))) = Len(Data(b)) - 1
      /\ \A i \in 1 .. Len(Data(b)) - 1 : Tail(Data(b))[i] = Data(b)[i + 1]
  BY <1>1
<1>5. \A i \in 1 .. Len(Data(modifyStartOffset(b, 1))) : Data(modifyStartOffset(b, 1))[i] = Tail(Data(b))[i]
  BY <1>1, <1>3, <1>4
<1> QED
  BY <1>3, <1>4, <1>5, SameElements

-----------------------------------------------------------------------------
(* The inductive invariant.                                                *)

\* The buffers are good, and there is no loan without a client.
BufferInv ==
    /\ Good(peer_buffer) /\ (lent # NoBuffer => Good(lent))
    /\ IF Alive THEN OwnGood(client) ELSE lent = NoBuffer

\* The descriptor of a client was not left open by a constructor that threw.
TableInv ==
    /\ Alive => client.endpoint_fd \notin orphans
    /\ OpenIsOwned /\ KeepsOffOthers

\* All bytes that were sent and are not lost, in the order they were sent.
AllOf(g, d, p, u) == g \o d \o p \o u

ByteInv ==
    ~ clobbered =>
        LET all == AllOf(got, down, Data(peer_buffer), up)
        IN  /\ Increasing(all) /\ ToSet(all) \subseteq 1 .. sent
            /\ ~ shortSend => all = Numbers(0, sent)

IInv == TypeOK /\ BufferInv /\ TableInv /\ ByteInv /\ ReceivedIsKept

-----------------------------------------------------------------------------
(* The way of the bytes.                                                   *)

\* All bytes form a sequence.
LEMMA AllSeq ==
    ASSUME NEW S, NEW g \in Seq(S), NEW d \in Seq(S), NEW p \in Seq(S), NEW u \in Seq(S)
    PROVE  AllOf(g, d, p, u) \in Seq(S)
BY DEF AllOf

\* The client receives.
LEMMA AllReceived ==
    ASSUME NEW S, NEW g \in Seq(S), NEW d1 \in Seq(S), NEW d2 \in Seq(S), NEW p \in Seq(S), NEW u \in Seq(S)
    PROVE  AllOf(g \o d1, d2, p, u) = AllOf(g, d1 \o d2, p, u)
<1>1. (g \o d1) \o d2 = g \o (d1 \o d2)
  BY ConcatAssociative
<1> QED
  BY <1>1 DEF AllOf

\* The peer reads into an empty buffer.
LEMMA AllPeerReads ==
    ASSUME NEW S, NEW g \in Seq(S), NEW d \in Seq(S), NEW u1 \in Seq(S), NEW u2 \in Seq(S)
    PROVE  AllOf(g, d, u1, u2) = AllOf(g, d, <<>>, u1 \o u2)
<1>1. ASSUME NEW x \in Seq(S) PROVE (x \o u1) \o u2 = (x \o <<>>) \o (u1 \o u2)
  <2>1. x \o <<>> = x
    BY ConcatEmptySeq
  <2>2. (x \o u1) \o u2 = x \o (u1 \o u2)
    BY ConcatAssociative
  <2> QED
    BY <2>1, <2>2
<1>2. g \o d \in Seq(S)
  OBVIOUS
<1> QED
  BY <1>1, <1>2 DEF AllOf

\* The peer writes out p1 and forgets p2.
LEMMA AllPeerWrites ==
    ASSUME NEW S, NEW g \in Seq(S), NEW d \in Seq(S), NEW p1 \in Seq(S), NEW p2 \in Seq(S), NEW u \in Seq(S)
    PROVE  /\ AllOf(g, d \o p1, <<>>, u) = AllOf(g, d, p1, u)
           /\ Increasing(AllOf(g, d, p1 \o p2, u)) => Increasing(AllOf(g, d, p1, u))
           /\ ToSet(AllOf(g, d, p1, u)) \subseteq ToSet(AllOf(g, d, p1 \o p2, u))
<1> DEFINE x == g \o d
           y == x \o p1
           z == y \o p2
<1>1. x \in Seq(S) /\ y \in Seq(S)
  OBVIOUS
<1>2. x \o (p1 \o p2) = z /\ z \in Seq(S)
  <2>1. ASSUME NEW a \in Seq(S) PROVE (a \o p1) \o p2 = a \o (p1 \o p2)
    BY ConcatAssociative
  <2>2. z \in Seq(S)
    BY <1>1
  <2> QED
    BY <1>1, <2>1, <2>2
<1>3. (g \o (d \o p1)) \o <<>> = y
  <2>1. g \o (d \o p1) = y
    BY ConcatAssociative, SMTT(30)
  <2> QED
    BY <1>1, <2>1, ConcatEmptySeq
<1>4. /\ AllOf(g, d \o p1, <<>>, u) = y \o u /\ AllOf(g, d, p1, u) = y \o u
      /\ AllOf(g, d, p1 \o p2, u) = z \o u
  BY <1>2, <1>3 DEF AllOf
<1> HIDE DEF x, y, z
<1>5. ToSet(y \o u) = ToSet(y) \cup ToSet(u) /\ ToSet(z) = ToSet(y) \cup ToSet(p2)
  BY <1>1, ToSetConcat DEF z
<1>6. ToSet(z \o u) = ToSet(z) \cup ToSet(u)
  BY <1>2, ToSetConcat
<1>7. ASSUME Increasing(z \o u) PROVE Increasing(y \o u)
  <2>1. Increasing(z) /\ Increasing(u) /\ \A a \in ToSet(z), b \in ToSet(u) : a < b
    BY <1>2, <1>7, IncreasingConcat
  <2>2. Increasing(y)
    BY <1>1, <2>1, IncreasingConcat DEF z
  <2> QED
    BY <1>1, <1>5, <2>1, <2>2, IncreasingConcat
<1> QED
  BY <1>4, <1>5, <1>6, <1>7

-----------------------------------------------------------------------------
(* The places of the bytes that were received.                             *)

\* What ReceivedIsKept says of the client's buffer, the lent one, what was
\* taken and what was received.
Kept(own, out, tk, g) ==
    /\ Increasing(own) /\ Increasing(out)
    /\ ToSet(own) \cup ToSet(out) \cup ToSet(tk) = ToSet(g)
    /\ Len(own) + Len(out) + Len(tk) = Len(g)

\* An empty buffer is in order.
LEMMA EmptyIncreasing == Increasing(<<>>)
BY DEF Increasing

\* The data is received.
LEMMA KeptReceived ==
    ASSUME NEW S, NEW own \in Seq(S), NEW out \in Seq(S), NEW tk \in Seq(S), NEW g \in Seq(S),
           NEW d \in Seq(S), Kept(own, out, tk, g), Increasing(g \o d)
    PROVE  Kept(own \o d, out, tk, g \o d)
<1>1. ToSet(own \o d) = ToSet(own) \cup ToSet(d) /\ ToSet(g \o d) = ToSet(g) \cup ToSet(d)
  BY ToSetConcat
<1>2. Increasing(d) /\ \A x \in ToSet(g), y \in ToSet(d) : x < y
  BY IncreasingConcat
<1>3. Increasing(own \o d)
  BY <1>2, IncreasingConcat DEF Kept
<1>4. Len(own \o d) = Len(own) + Len(d) /\ Len(g \o d) = Len(g) + Len(d)
  OBVIOUS
<1>5. /\ Len(own) \in Nat /\ Len(out) \in Nat /\ Len(tk) \in Nat /\ Len(g) \in Nat /\ Len(d) \in Nat
      /\ Len(own) + Len(out) + Len(tk) = Len(g)
  BY DEF Kept
<1>6. Len(own \o d) + Len(out) + Len(tk) = Len(g \o d)
  <2> DEFINE a == Len(own)
             b == Len(out)
             c == Len(tk)
             e == Len(d)
  <2>1. a \in Nat /\ b \in Nat /\ c \in Nat /\ e \in Nat /\ a + b + c = Len(g)
    BY <1>5
  <2>2. Len(own \o d) = a + e /\ Len(g \o d) = Len(g) + e
    BY <1>4
  <2> HIDE DEF a, b, c, e
  <2>3. (a + e) + b + c = (a + b + c) + e
    BY <2>1
  <2> QED
    BY <2>1, <2>2, <2>3, Zenon DEF b, c
<1> QED
  BY <1>1, <1>3, <1>6 DEF Kept

\* The client's buffer is cleared, or given up.
LEMMA KeptCleared ==
    ASSUME NEW S, NEW own \in Seq(S), NEW out \in Seq(S), NEW tk \in Seq(S), NEW g \in Seq(S),
           Kept(own, out, tk, g)
    PROVE  Kept(<<>>, out, tk \o own, g)
<1>0. ToSet(<<>>) = {}
  BY ToSetSmall
<1>1. ToSet(tk \o own) = ToSet(tk) \cup ToSet(own)
  BY ToSetConcat
<1>2. Len(tk \o own) = Len(tk) + Len(own) /\ Len(<<>>) = 0
  OBVIOUS
<1>3. /\ Len(own) \in Nat /\ Len(out) \in Nat /\ Len(tk) \in Nat
      /\ Len(own) + Len(out) + Len(tk) = Len(g)
  BY DEF Kept
<1>4. Len(<<>>) + Len(out) + Len(tk \o own) = Len(g)
  BY <1>2, <1>3
<1> QED
  BY <1>0, <1>1, <1>4, EmptyIncreasing DEF Kept

\* The two buffers change places.
LEMMA KeptSwapped ==
    ASSUME NEW S, NEW own \in Seq(S), NEW out \in Seq(S), NEW tk \in Seq(S), NEW g \in Seq(S),
           Kept(own, out, tk, g)
    PROVE  Kept(out, own, tk, g)
<1>1. Len(own) \in Nat /\ Len(out) \in Nat /\ Len(tk) \in Nat
  OBVIOUS
<1>2. Len(out) + Len(own) + Len(tk) = Len(g)
  BY <1>1 DEF Kept
<1> QED
  BY <1>2 DEF Kept

\* The owner consumes the first byte of the lent buffer.
LEMMA KeptConsumed ==
    ASSUME NEW S, NEW own \in Seq(S), NEW out \in Seq(S), NEW tk \in Seq(S), NEW g \in Seq(S),
           Kept(own, out, tk, g), out # <<>>
    PROVE  Kept(own, Tail(out), Append(tk, Head(out)), g)
<1>1. out = <<Head(out)>> \o Tail(out) /\ Head(out) \in S /\ Tail(out) \in Seq(S)
  BY HeadAndTail
<1>2. <<Head(out)>> \in Seq(S)
  BY <1>1
<1>3. ToSet(out) = ToSet(<<Head(out)>>) \cup ToSet(Tail(out))
  <2>1. ToSet(<<Head(out)>> \o Tail(out)) = ToSet(<<Head(out)>>) \cup ToSet(Tail(out))
    BY <1>1, <1>2, ToSetConcat, ZenonT(40)
  <2> QED
    BY <1>1, <2>1
<1>4. ToSet(<<Head(out)>>) = {Head(out)}
  BY ToSetSmall
<1>5. Append(tk, Head(out)) = tk \o <<Head(out)>>
  BY <1>1, AppendIsConcat
<1>6. ToSet(Append(tk, Head(out))) = ToSet(tk) \cup {Head(out)}
  <2>1. ToSet(tk \o <<Head(out)>>) = ToSet(tk) \cup ToSet(<<Head(out)>>)
    BY <1>2, ToSetConcat, ZenonT(40)
  <2> QED
    BY <1>4, <1>5, <2>1
<1>7. Increasing(Tail(out))
  <2>1. Increasing(<<Head(out)>> \o Tail(out))
    BY <1>1 DEF Kept
  <2> QED
    BY <1>1, <1>2, <2>1, IncreasingConcat
<1>8. Len(own) + Len(Tail(out)) + Len(Append(tk, Head(out))) = Len(g)
  <2>1. Len(Tail(out)) = Len(out) - 1 /\ Len(Append(tk, Head(out))) = Len(tk) + 1
    BY <1>1
  <2>2. /\ Len(own) \in Nat /\ Len(out) \in Nat /\ Len(tk) \in Nat
        /\ Len(own) + Len(out) + Len(tk) = Len(g)
    BY DEF Kept
  <2> QED
    BY <2>1, <2>2
<1> QED
  BY <1>3, <1>4, <1>6, <1>7, <1>8 DEF Kept

-----------------------------------------------------------------------------
(* What the calls of the client do to its buffers.                         *)

\* The data of a good buffer, or of none.
LEMMA DataOfSeq ==
    ASSUME NEW b, b # NoBuffer => Good(b)
    PROVE  DataOf(b) \in Seq(Cell)
BY DataCells DEF DataOf

\* A stream is not "no stream", and a good buffer is not "no buffer".
LEMMA Exists ==
    /\ \A s \in Stream : s # NoStream
    /\ \A b : Good(b) => b # NoBuffer /\ b \in Buffer /\ DataOf(b) = Data(b)
BY ConnectionAssumption, BufferAssumption DEF Good, DataOf

\* A call leaves the client alive, with the same descriptor and a good buffer.
Calls == Alive /\ Alive' /\ client \in Stream /\ Same(client', client) /\ OwnGood(client) /\ OwnGood(client')

\* streamRead(): the received bytes are appended to the buffer, and are taken
\* with the rest if the callback clears it.
LEMMA ReadEffect ==
    ASSUME TypeOK, BufferInv, NEW n \in ReadLengths, Read(n)
    PROVE  /\ Calls
           /\ \E d1, d2 \in Seq(Cell) :
                /\ down = d1 \o d2 /\ down' = d2 /\ got' = got \o d1
                /\ \/ DataOf(client'.io_buffer) = DataOf(client.io_buffer) \o d1 /\ taken' = taken
                   \/ /\ DataOf(client'.io_buffer) = <<>>
                      /\ taken' = taken \o (DataOf(client.io_buffer) \o d1)
<1>1. /\ Alive /\ client \in Stream /\ client.io_buffer # NoBuffer /\ Good(client.io_buffer)
      /\ n \in 0 .. MaxAlloc /\ (NeedsSpace(client, n) => ReadSize(client, n) <= MaxAlloc)
      /\ down \in Seq(Cell) /\ taken \in Seq(Cell)
  BY ConnectionAssumption DEF TypeOK, BufferInv, OwnGood, Read, CanRead, Alive
<1>2. PICK j \in 0 .. n :
         /\ j <= Len(down)
         /\ client' = streamRead(client, n, SubSeq(down, 1, j))
         /\ down' = SubSeq(down, j + 1, Len(down))
         /\ got' = got \o SubSeq(down, 1, j)
         /\ taken' = taken \o Cleared(streamRead(setReadCallback(client, "none"), n,
                                          SubSeq(down, 1, j)).io_buffer, client.read_callback)
  BY DEF Read
<1> DEFINE d1 == SubSeq(down, 1, j)
           d2 == SubSeq(down, j + 1, Len(down))
           quiet == setReadCallback(client, "none")
<1>3. d1 \in Seq(Cell) /\ d2 \in Seq(Cell) /\ down = d1 \o d2 /\ Len(d1) = j /\ Len(d1) <= n
  <2>1. j \in 0 .. Len(down)
    BY <1>1, <1>2
  <2>2. d1 \in Seq(Cell) /\ d2 \in Seq(Cell) /\ down = d1 \o d2 /\ Len(d1) = j
    BY <1>1, <2>1, SplitAt
  <2>3. j <= n
    BY <1>1
  <2> HIDE DEF d1, d2
  <2> QED
    BY <2>2, <2>3
<1>4. /\ client' = streamRead(client, n, d1) /\ down' = d2 /\ got' = got \o d1
      /\ taken' = taken \o Cleared(streamRead(quiet, n, d1).io_buffer, client.read_callback)
  BY <1>2
<1> HIDE DEF d1, d2
<1>5. /\ quiet \in Stream /\ quiet.io_buffer = client.io_buffer /\ quiet.read_callback = "none"
      /\ NeedsSpace(quiet, n) = NeedsSpace(client, n) /\ ReadSize(quiet, n) = ReadSize(client, n)
  BY <1>1 DEF setReadCallback, Stream, Callbacks, NeedsSpace, ReadSize
<1> HIDE DEF quiet
<1>6. /\ Same(client', client) /\ Good(client'.io_buffer)
      /\ Data(client'.io_buffer) =
           IF client.read_callback = "clears" THEN <<>> ELSE Data(client.io_buffer) \o d1
  BY <1>1, <1>3, <1>4, ReadStream
<1>7. Good(streamRead(quiet, n, d1).io_buffer)
      /\ Data(streamRead(quiet, n, d1).io_buffer) = Data(client.io_buffer) \o d1
  BY <1>1, <1>3, <1>5, ReadStream
<1>8. taken' = IF client.read_callback = "clears" THEN taken \o (Data(client.io_buffer) \o d1) ELSE taken
  <2>1. taken \o <<>> = taken
    BY <1>1
  <2> QED
    BY <1>4, <1>7, <2>1, Exists DEF Cleared
<1>9. Calls
  BY <1>1, <1>6, Exists DEF Calls, Same, OwnGood, Alive
<1>10. DataOf(client'.io_buffer) = Data(client'.io_buffer) /\ DataOf(client.io_buffer) = Data(client.io_buffer)
  BY <1>1, <1>6, Exists
<1> QED
  BY <1>3, <1>4, <1>6, <1>8, <1>9, <1>10

\* A streamRead() whose recv fails keeps the data.
LEMMA ReadFailsEffect ==
    ASSUME TypeOK, BufferInv, NEW n \in ReadLengths, ReadFails(n)
    PROVE  Calls /\ DataOf(client'.io_buffer) = DataOf(client.io_buffer)
<1>1. /\ Alive /\ client \in Stream /\ client.io_buffer # NoBuffer /\ Good(client.io_buffer)
      /\ n \in 0 .. MaxAlloc /\ (NeedsSpace(client, n) => ReadSize(client, n) <= MaxAlloc)
      /\ client' = Reserved(client, n)
  BY ConnectionAssumption DEF TypeOK, BufferInv, OwnGood, ReadFails, CanRead, Alive, streamReadFails
<1>2. /\ Same(client', client) /\ Good(client'.io_buffer)
      /\ Data(client'.io_buffer) = Data(client.io_buffer)
  BY <1>1, ReservedStream
<1> QED
  BY <1>1, <1>2, Exists DEF Calls, Same, OwnGood, Alive

\* streamWrite(): the callback may clear the buffer.
LEMMA WriteEffect ==
    ASSUME TypeOK, BufferInv, NEW j \in 0 .. MaxSent, Write(j)
    PROVE  /\ Calls
           /\ \/ DataOf(client'.io_buffer) = DataOf(client.io_buffer) /\ taken' = taken
              \/ DataOf(client'.io_buffer) = <<>> /\ taken' = taken \o DataOf(client.io_buffer)
<1>1. /\ Alive /\ client \in Stream /\ OwnGood(client) /\ taken \in Seq(Cell)
      /\ client' = streamWrite(client)
      /\ taken' = taken \o Cleared(client.io_buffer, client.write_callback)
  BY DEF TypeOK, BufferInv, Write, Alive
<1>2. /\ Same(client', client) /\ OwnGood(client')
      /\ DataOf(client'.io_buffer) = IF client.write_callback = "clears" THEN <<>> ELSE DataOf(client.io_buffer)
  BY <1>1, WriteStream
<1>3. taken' = IF client.write_callback = "clears" THEN taken \o DataOf(client.io_buffer) ELSE taken
  <2>1. taken \o <<>> = taken
    BY <1>1
  <2> QED
    BY <1>1, <2>1 DEF Cleared
<1> QED
  BY <1>1, <1>2, <1>3, Exists DEF Calls, Same, Alive

\* The callbacks are no data.
LEMMA SetCallbacksEffect ==
    ASSUME TypeOK, BufferInv, NEW pair \in CallbackPairs, SetCallbacks(pair[1], pair[2])
    PROVE  Calls /\ DataOf(client'.io_buffer) = DataOf(client.io_buffer)
<1>1. pair[1] \in Callbacks /\ pair[2] \in Callbacks
  BY ConnectionAssumption
<1>2. /\ Alive /\ client \in Stream /\ OwnGood(client)
      /\ client' = [[client EXCEPT !.write_callback = pair[2]] EXCEPT !.read_callback = pair[1]]
  BY DEF TypeOK, BufferInv, SetCallbacks, Alive, setReadCallback, setWriteCallback
<1>3. [client EXCEPT !.write_callback = pair[2]] \in Stream
      /\ [client EXCEPT !.write_callback = pair[2]].endpoint_fd = client.endpoint_fd
      /\ [client EXCEPT !.write_callback = pair[2]].is_connected = client.is_connected
      /\ [client EXCEPT !.write_callback = pair[2]].io_buffer = client.io_buffer
  BY <1>1, <1>2 DEF Stream
<1>4. Same(client', client) /\ client'.io_buffer = client.io_buffer
  BY <1>1, <1>2, <1>3 DEF Stream, Same
<1> QED
  BY <1>2, <1>4, Exists DEF Calls, Same, OwnGood, Alive

\* flushBuffer() drops the data.
LEMMA FlushEffect ==
    ASSUME TypeOK, BufferInv, Flush
    PROVE  /\ Calls /\ DataOf(client'.io_buffer) = <<>>
           /\ taken' = taken \o DataOf(client.io_buffer)
<1>1. /\ Alive /\ client \in Stream /\ Good(client.io_buffer) /\ taken' = taken \o Data(client.io_buffer)
      /\ client' = [client EXCEPT !.io_buffer = clear(client.io_buffer)]
  BY DEF TypeOK, BufferInv, OwnGood, Flush, Alive, flushBuffer
<1>2. Good(clear(client.io_buffer)) /\ Data(clear(client.io_buffer)) = <<>>
  BY <1>1, ClearData
<1>3. Same(client', client) /\ client'.io_buffer = clear(client.io_buffer)
  BY <1>1, <1>2, Exists, WithBuffer DEF Same
<1> QED
  BY <1>1, <1>2, <1>3, Exists DEF Calls, Same, OwnGood, Alive

\* getIOBuffer() gives the buffer to the owner.
LEMMA BorrowEffect ==
    ASSUME TypeOK, BufferInv, Borrow
    PROVE  /\ Calls /\ Good(lent') /\ DataOf(client'.io_buffer) = <<>>
           /\ DataOf(lent) = <<>> /\ DataOf(lent') = DataOf(client.io_buffer)
<1>1. /\ Alive /\ client \in Stream /\ Good(client.io_buffer) /\ lent = NoBuffer /\ lent' = client.io_buffer
      /\ client' = [client EXCEPT !.io_buffer = NoBuffer]
  BY DEF TypeOK, BufferInv, OwnGood, Borrow, Alive, getIOBuffer
<1>2. Same(client', client) /\ client'.io_buffer = NoBuffer
  BY <1>1, WithBuffer DEF Same
<1> QED
  BY <1>1, <1>2, Exists DEF Calls, Same, OwnGood, Alive, DataOf

\* setIOBuffer() drops what the client has; the lent buffer comes back, or an
\* empty one comes in.
LEMMA ReturnEffect ==
    ASSUME TypeOK, BufferInv, NEW b \in {lent, create(InitialCapacity)} \ {NoBuffer}, Return(b)
    PROVE  /\ Calls /\ (lent' # NoBuffer => Good(lent')) /\ (lent' = NoBuffer \/ lent' = lent)
           /\ taken' = taken \o DataOf(client.io_buffer)
           /\ \/ DataOf(client'.io_buffer) = DataOf(lent) /\ DataOf(lent') = <<>>
              \/ DataOf(client'.io_buffer) = <<>> /\ DataOf(lent') = DataOf(lent)
<1>1. /\ Alive /\ client \in Stream /\ OwnGood(client) /\ (lent # NoBuffer => Good(lent))
      /\ client' = [client EXCEPT !.io_buffer = b] /\ taken' = taken \o DataOf(client.io_buffer)
      /\ lent' = IF b = lent THEN NoBuffer ELSE lent
  BY DEF TypeOK, BufferInv, Return, Alive, setIOBuffer
<1>2. Good(create(InitialCapacity)) /\ Data(create(InitialCapacity)) = <<>>
  BY ConnectionAssumption, CreateData
<1>3. Good(b) /\ (b # lent => Data(b) = <<>>)
  BY <1>1, <1>2
<1>4. Same(client', client) /\ client'.io_buffer = b
  BY <1>1, <1>3, Exists, WithBuffer DEF Same
<1>5. Calls
  BY <1>1, <1>3, <1>4, Exists DEF Calls, Same, OwnGood, Alive
<1> QED
  BY <1>1, <1>3, <1>4, <1>5, Exists DEF DataOf

-----------------------------------------------------------------------------
(* The calls of the client preserve the invariant.                         *)

\* ReceivedIsKept in terms of Kept.
LEMMA KeptState ==
    ReceivedIsKept <=>
        (Alive /\ ~ clobbered => Kept(DataOf(client.io_buffer), DataOf(lent), taken, got))
BY DEF ReceivedIsKept, Kept

\* What the invariant says about the data of a client that is alive.
LEMMA AliveData ==
    ASSUME TypeOK, BufferInv, Alive
    PROVE  /\ DataOf(client.io_buffer) \in Seq(Cell) /\ DataOf(lent) \in Seq(Cell)
           /\ taken \in Seq(Cell) /\ got \in Seq(Cell) /\ client \in Stream
BY DataOfSeq DEF TypeOK, BufferInv, Alive, OwnGood

\* A call keeps the table of descriptors; one that uses the descriptor found
\* the client connected.
LEMMA CallKeepsTable ==
    ASSUME TypeOK, TableInv, Calls, UNCHANGED <<open, others, orphans, closeFailed>>,
           UNCHANGED trespass \/ (client.is_connected /\ Using)
    PROVE  TableInv'
<1>1. /\ Alive /\ Alive' /\ client'.endpoint_fd = client.endpoint_fd
      /\ client'.is_connected = client.is_connected
  BY DEF Calls, Same
<1>2. KeepsOffOthers'
  BY DEF TableInv, OpenIsOwned, KeepsOffOthers, Using, Calls
<1>3. OpenIsOwned'
  BY <1>1 DEF TableInv, OpenIsOwned
<1> QED
  BY <1>1, <1>2, <1>3 DEF TableInv

\* A call keeps the buffers good.
LEMMA CallKeepsBuffers ==
    ASSUME BufferInv, Calls, Good(peer_buffer'), lent' # NoBuffer => Good(lent')
    PROVE  BufferInv'
BY DEF BufferInv, Calls

\* What does not touch the bytes keeps them.
LEMMA BytesUnchanged ==
    ASSUME ByteInv, UNCHANGED <<clobbered, got, down, peer_buffer, up, sent, shortSend>>
    PROVE  ByteInv'
BY DEF ByteInv

\* streamRead()
LEMMA ReadKeeps ==
    ASSUME IInv, NEW n \in ReadLengths, Read(n)
    PROVE  IInv'
<1> USE DEF IInv
<1>1. Calls
  BY ReadEffect
<1>2. PICK d1 \in Seq(Cell), d2 \in Seq(Cell) :
         /\ down = d1 \o d2 /\ down' = d2 /\ got' = got \o d1
         /\ \/ DataOf(client'.io_buffer) = DataOf(client.io_buffer) \o d1 /\ taken' = taken
            \/ /\ DataOf(client'.io_buffer) = <<>>
               /\ taken' = taken \o (DataOf(client.io_buffer) \o d1)
  BY ReadEffect
<1>3. /\ UNCHANGED <<lent, up, ended, peer_buffer, sent, shortSend, clobbered, table>>
      /\ Alive /\ UNCHANGED <<open, others, orphans, closeFailed, trespass>>
  BY DEF Read, table
<1>4. /\ DataOf(client.io_buffer) \in Seq(Cell) /\ DataOf(lent) \in Seq(Cell)
      /\ taken \in Seq(Cell) /\ got \in Seq(Cell) /\ up \in Seq(Cell)
      /\ Good(peer_buffer) /\ Data(peer_buffer) \in Seq(Cell)
  BY <1>3, AliveData, DataCells DEF TypeOK, BufferInv
<1>5. TypeOK'
  <2>1. client' \in Stream /\ down' \in Seq(Cell) /\ got' \in Seq(Cell)
    BY <1>1, <1>2, <1>4 DEF Calls, Same
  <2>2. taken' \in Seq(Cell)
    <3>1. DataOf(client.io_buffer) \o d1 \in Seq(Cell)
      BY <1>4
    <3>2. taken \o (DataOf(client.io_buffer) \o d1) \in Seq(Cell)
      BY <1>4, <3>1
    <3> QED
      BY <1>2, <1>4, <3>2
  <2> QED
    BY <1>3, <2>1, <2>2 DEF TypeOK
<1>6. BufferInv'
  BY <1>1, <1>3, CallKeepsBuffers DEF BufferInv
<1>7. TableInv'
  BY <1>1, <1>3, CallKeepsTable
<1>8. AllOf(got', down', Data(peer_buffer'), up') = AllOf(got, down, Data(peer_buffer), up)
  BY <1>2, <1>3, <1>4, AllReceived
<1>9. ByteInv'
  BY <1>3, <1>8 DEF ByteInv
<1>10. ReceivedIsKept'
  <2> SUFFICES ASSUME ~ clobbered
               PROVE  Kept(DataOf(client'.io_buffer), DataOf(lent'), taken', got')
    BY <1>3, KeptState DEF Kept, ReceivedIsKept
  <2>1. Kept(DataOf(client.io_buffer), DataOf(lent), taken, got)
    BY <1>3, KeptState
  <2>2. Increasing(got \o d1)
    <3> DEFINE g1 == got \o d1
               g2 == g1 \o d2
               g3 == g2 \o Data(peer_buffer)
    <3>1. g1 \in Seq(Cell) /\ g2 \in Seq(Cell) /\ g3 \in Seq(Cell)
      BY <1>4
    <3>2. Increasing(g3 \o up)
      BY <1>2, <1>3, <1>9 DEF ByteInv, AllOf
    <3> HIDE DEF g3
    <3>3. Increasing(g3)
      BY <1>4, <3>1, <3>2, IncreasingConcat
    <3> HIDE DEF g2
    <3>4. Increasing(g2)
      BY <1>4, <3>1, <3>3, IncreasingConcat DEF g3
    <3> HIDE DEF g1
    <3>5. Increasing(g1)
      BY <1>4, <3>1, <3>4, IncreasingConcat DEF g2
    <3> QED
      BY <3>5 DEF g1
  <2>3. Kept(DataOf(client.io_buffer) \o d1, DataOf(lent), taken, got \o d1)
    BY <1>4, <2>1, <2>2, KeptReceived
  <2>4. Kept(<<>>, DataOf(lent), taken \o (DataOf(client.io_buffer) \o d1), got \o d1)
    <3>1. DataOf(client.io_buffer) \o d1 \in Seq(Cell) /\ got \o d1 \in Seq(Cell)
      BY <1>4
    <3> QED
      BY <1>4, <2>3, <3>1, KeptCleared
  <2> QED
    BY <1>2, <1>3, <2>3, <2>4
<1> QED
  BY <1>5, <1>6, <1>7, <1>9, <1>10

\* A client whose buffer is filled or emptied, given to or taken back from the
\* owner keeps the invariant, if the bytes do.
LEMMA CallKeeps ==
    ASSUME IInv, Calls, lent' # NoBuffer => Good(lent'),
           UNCHANGED <<network, open, others, orphans, closeFailed, got>>,
           (UNCHANGED trespass) \/ (client.is_connected /\ Using),
           taken' \in Seq(Cell),
           Kept(DataOf(client.io_buffer), DataOf(lent), taken, got) =>
              Kept(DataOf(client'.io_buffer), DataOf(lent'), taken', got)
    PROVE  IInv'
<1> USE DEF IInv
<1>1. UNCHANGED <<up, down, ended, peer_buffer, sent, shortSend, clobbered>>
  BY DEF network
<1>2. TypeOK'
  <2>1. client' \in Stream /\ (lent' = NoBuffer \/ lent' \in Buffer)
    BY Exists DEF Calls, Same
  <2>2. trespass' \in BOOLEAN
    BY DEF TypeOK, Using
  <2> QED
    BY <1>1, <2>1, <2>2 DEF TypeOK
<1>3. BufferInv'
  BY <1>1, CallKeepsBuffers DEF BufferInv
<1>4. TableInv'
  BY CallKeepsTable
<1>5. ByteInv'
  BY <1>1, BytesUnchanged
<1>6. ReceivedIsKept'
  BY <1>1, KeptState DEF ReceivedIsKept, Kept, Calls
<1> QED
  BY <1>2, <1>3, <1>4, <1>5, <1>6

\* streamRead() whose recv() fails
LEMMA ReadFailsKeeps ==
    ASSUME IInv, NEW n \in ReadLengths, ReadFails(n)
    PROVE  IInv'
<1>1. Calls /\ DataOf(client'.io_buffer) = DataOf(client.io_buffer)
  BY ReadFailsEffect DEF IInv
<1>2. /\ UNCHANGED <<lent, network, open, others, orphans, closeFailed, got, taken>>
      /\ client.is_connected /\ Using
  BY DEF ReadFails, CanRead
<1>3. (lent' # NoBuffer => Good(lent')) /\ taken' \in Seq(Cell)
  BY <1>2 DEF IInv, BufferInv, TypeOK
<1> QED
  BY <1>1, <1>2, <1>3, CallKeeps

\* Callbacks are set.
LEMMA SetCallbacksKeeps ==
    ASSUME IInv, NEW pair \in CallbackPairs, SetCallbacks(pair[1], pair[2])
    PROVE  IInv'
<1>1. Calls /\ DataOf(client'.io_buffer) = DataOf(client.io_buffer)
  BY SetCallbacksEffect DEF IInv
<1>2. UNCHANGED <<lent, network, open, others, orphans, closeFailed, trespass, got, taken>>
  BY DEF SetCallbacks, table
<1>3. (lent' # NoBuffer => Good(lent')) /\ taken' \in Seq(Cell)
  BY <1>2 DEF IInv, BufferInv, TypeOK
<1> QED
  BY <1>1, <1>2, <1>3, CallKeeps

\* flushBuffer()
LEMMA FlushKeeps ==
    ASSUME IInv, Flush
    PROVE  IInv'
<1>1. /\ Calls /\ DataOf(client'.io_buffer) = <<>>
      /\ taken' = taken \o DataOf(client.io_buffer)
  BY FlushEffect DEF IInv
<1>2. UNCHANGED <<lent, network, open, others, orphans, closeFailed, trespass, got>>
  BY DEF Flush, table
<1>3. /\ DataOf(client.io_buffer) \in Seq(Cell) /\ DataOf(lent) \in Seq(Cell)
      /\ taken \in Seq(Cell) /\ got \in Seq(Cell)
  BY <1>1, AliveData DEF IInv, Calls
<1>4. (lent' # NoBuffer => Good(lent')) /\ taken' \in Seq(Cell)
  BY <1>1, <1>2, <1>3 DEF IInv, BufferInv
<1>5. Kept(DataOf(client.io_buffer), DataOf(lent), taken, got) =>
        Kept(DataOf(client'.io_buffer), DataOf(lent'), taken', got)
  BY <1>1, <1>2, <1>3, KeptCleared
<1> QED
  BY <1>1, <1>2, <1>4, <1>5, CallKeeps

\* getIOBuffer()
LEMMA BorrowKeeps ==
    ASSUME IInv, Borrow
    PROVE  IInv'
<1>1. /\ Calls /\ Good(lent') /\ DataOf(client'.io_buffer) = <<>>
      /\ DataOf(lent) = <<>> /\ DataOf(lent') = DataOf(client.io_buffer)
  BY BorrowEffect DEF IInv
<1>2. UNCHANGED <<network, open, others, orphans, closeFailed, trespass, got, taken>>
  BY DEF Borrow, table
<1>3. /\ DataOf(client.io_buffer) \in Seq(Cell) /\ DataOf(lent) \in Seq(Cell)
      /\ taken \in Seq(Cell) /\ got \in Seq(Cell)
  BY <1>1, AliveData DEF IInv, Calls
<1>4. Kept(DataOf(client.io_buffer), DataOf(lent), taken, got) =>
        Kept(DataOf(client'.io_buffer), DataOf(lent'), taken', got)
  BY <1>1, <1>2, <1>3, KeptSwapped
<1> QED
  BY <1>1, <1>2, <1>3, <1>4, CallKeeps

\* setIOBuffer()
LEMMA ReturnKeeps ==
    ASSUME IInv, NEW b \in {lent, create(InitialCapacity)} \ {NoBuffer}, Return(b)
    PROVE  IInv'
<1>1. /\ Calls /\ (lent' # NoBuffer => Good(lent'))
      /\ taken' = taken \o DataOf(client.io_buffer)
      /\ \/ DataOf(client'.io_buffer) = DataOf(lent) /\ DataOf(lent') = <<>>
         \/ DataOf(client'.io_buffer) = <<>> /\ DataOf(lent') = DataOf(lent)
  BY ReturnEffect DEF IInv
<1>2. UNCHANGED <<network, open, others, orphans, closeFailed, trespass, got>>
  BY DEF Return, table
<1>3. /\ DataOf(client.io_buffer) \in Seq(Cell) /\ DataOf(lent) \in Seq(Cell)
      /\ taken \in Seq(Cell) /\ got \in Seq(Cell) /\ taken' \in Seq(Cell)
  <2>1. /\ DataOf(client.io_buffer) \in Seq(Cell) /\ DataOf(lent) \in Seq(Cell)
        /\ taken \in Seq(Cell) /\ got \in Seq(Cell)
    BY <1>1, AliveData DEF IInv, Calls
  <2> QED
    BY <1>1, <2>1
<1>4. ASSUME Kept(DataOf(client.io_buffer), DataOf(lent), taken, got)
      PROVE  Kept(DataOf(client'.io_buffer), DataOf(lent'), taken', got)
  <2>1. Kept(<<>>, DataOf(lent), taken', got)
    BY <1>1, <1>3, <1>4, KeptCleared
  <2>2. <<>> \in Seq(Cell)
    OBVIOUS
  <2>3. Kept(DataOf(lent), <<>>, taken', got)
    BY <1>3, <2>1, <2>2, KeptSwapped
  <2> QED
    BY <1>1, <2>1, <2>3
<1> QED
  BY <1>1, <1>2, <1>3, <1>4, CallKeeps

\* The owner consumes a byte of the lent buffer, if there is one.
LEMMA ConsumeKeeps ==
    ASSUME IInv, Consume
    PROVE  IInv'
<1>1. /\ lent # NoBuffer /\ Data(lent) # <<>> /\ Alive /\ Good(lent)
      /\ taken' = Append(taken, Head(Data(lent))) /\ lent' = modifyStartOffset(lent, 1)
      /\ client' = client /\ DataOf(lent) = Data(lent) /\ client \in Stream /\ OwnGood(client)
  BY DEF IInv, BufferInv, Consume, DataOf, TypeOK, Alive
<1>2. UNCHANGED <<network, open, others, orphans, closeFailed, trespass, got>>
  BY DEF Consume, table
<1>3. Good(lent') /\ Data(lent') = Tail(Data(lent))
  BY <1>1, ConsumeData
<1>4. Calls
  BY <1>1 DEF Calls, Same, Alive, OwnGood
<1>5. /\ DataOf(client.io_buffer) \in Seq(Cell) /\ DataOf(lent) \in Seq(Cell)
      /\ taken \in Seq(Cell) /\ got \in Seq(Cell)
  BY <1>1, AliveData DEF IInv
<1>6. taken' \in Seq(Cell)
  <2>1. Head(Data(lent)) \in Cell
    BY <1>1, <1>5
  <2> QED
    BY <1>1, <1>5, <2>1
<1>7. DataOf(lent') = Tail(DataOf(lent)) /\ taken' = Append(taken, Head(DataOf(lent)))
  BY <1>1, <1>3, Exists
<1>8. ASSUME Kept(DataOf(client.io_buffer), DataOf(lent), taken, got)
      PROVE  Kept(DataOf(client'.io_buffer), DataOf(lent'), taken', got)
  <2>1. Kept(DataOf(client.io_buffer), Tail(DataOf(lent)), Append(taken, Head(DataOf(lent))), got)
    BY <1>1, <1>5, <1>8, KeptConsumed
  <2> QED
    BY <1>1, <1>7, <2>1
<1> QED
  BY <1>2, <1>3, <1>4, <1>6, <1>8, CallKeeps

\* streamWrite(): send() takes the next bytes.
LEMMA WriteKeeps ==
    ASSUME IInv, NEW j \in 0 .. MaxSent, Write(j)
    PROVE  IInv'
<1> DEFINE all == AllOf(got, down, Data(peer_buffer), up)
           v == Numbers(sent, sent + j)
<1>1. Calls
  BY WriteEffect DEF IInv
<1>2. \/ DataOf(client'.io_buffer) = DataOf(client.io_buffer) /\ taken' = taken
      \/ DataOf(client'.io_buffer) = <<>> /\ taken' = taken \o DataOf(client.io_buffer)
  BY WriteEffect DEF IInv
<1>3. /\ UNCHANGED <<lent, down, ended, peer_buffer, got, shortSend, clobbered,
                     open, others, orphans, closeFailed>>
      /\ client.is_connected /\ Using /\ up' = up \o v /\ sent' = sent + j /\ sent + j <= MaxSent
  BY DEF Write, CanWrite
<1>4. /\ DataOf(client.io_buffer) \in Seq(Cell) /\ DataOf(lent) \in Seq(Cell)
      /\ taken \in Seq(Cell) /\ got \in Seq(Cell)
  BY <1>1, AliveData DEF IInv, Calls
<1>5. /\ Data(peer_buffer) \in Seq(Cell) /\ down \in Seq(Cell) /\ up \in Seq(Cell)
      /\ sent \in Nat /\ j \in Nat /\ sent + j \in 0 .. MaxSent /\ MaxSent \in Nat
  BY <1>3, DataCells, ConnectionAssumption DEF IInv, TypeOK, BufferInv
<1>6. /\ v \in Seq(sent + 1 .. sent + j) /\ Increasing(v) /\ ToSet(v) \subseteq sent + 1 .. sent + j
      /\ Numbers(0, sent + j) = Numbers(0, sent) \o v
  BY <1>5, NumbersSeq, NumbersConcat
<1> HIDE DEF v
<1>7. v \in Seq(Cell)
  <2>1. sent + 1 .. sent + j \subseteq Cell
    BY <1>5, ConnectionAssumption DEF Cell
  <2>2. ASSUME NEW S, S \subseteq Cell, v \in Seq(S) PROVE v \in Seq(Cell)
    BY <2>2
  <2> QED
    BY <1>6, <2>1, <2>2
<1>8. TypeOK'
  <2>1. client' \in Stream /\ up' \in Seq(Cell) /\ sent' \in 0 .. MaxSent
    BY <1>1, <1>3, <1>5, <1>7 DEF Calls, Same
  <2>2. taken' \in Seq(Cell)
    <3>1. taken \o DataOf(client.io_buffer) \in Seq(Cell)
      BY <1>4
    <3> QED
      BY <1>2, <1>4, <3>1
  <2>3. trespass' \in BOOLEAN
    BY <1>3 DEF Using, IInv, TypeOK
  <2> QED
    BY <1>3, <2>1, <2>2, <2>3 DEF IInv, TypeOK
<1>9. BufferInv'
  BY <1>1, <1>3, CallKeepsBuffers DEF IInv, BufferInv
<1>10. TableInv'
  BY <1>1, <1>3, CallKeepsTable DEF IInv
<1>11. AllOf(got', down', Data(peer_buffer'), up') = all \o v /\ all \in Seq(Cell)
  <2>1. ASSUME NEW x \in Seq(Cell) PROVE x \o (up \o v) = (x \o up) \o v
    BY <1>5, <1>7, ConcatAssociative, SMTT(30)
  <2>2. (got \o down) \o Data(peer_buffer) \in Seq(Cell)
    BY <1>4, <1>5
  <2>3. AllOf(got, down, Data(peer_buffer), up \o v) = all \o v
    BY <2>1, <2>2 DEF AllOf
  <2> QED
    BY <1>3, <1>4, <1>5, <2>3, AllSeq
<1> HIDE DEF all
<1>12. ByteInv'
  <2> SUFFICES ASSUME ~ clobbered
               PROVE  /\ Increasing(all \o v) /\ ToSet(all \o v) \subseteq 1 .. sent + j
                      /\ ~ shortSend => all \o v = Numbers(0, sent + j)
    BY <1>3, <1>11 DEF ByteInv
  <2>1. Increasing(all) /\ ToSet(all) \subseteq 1 .. sent /\ (~ shortSend => all = Numbers(0, sent))
    BY DEF IInv, ByteInv, all
  <2>2. \A x \in ToSet(all), y \in ToSet(v) : x < y
    BY <1>5, <1>6, <2>1
  <2>3. Increasing(all \o v)
    BY <1>6, <1>7, <1>11, <2>1, <2>2, IncreasingConcat
  <2>4. ToSet(all \o v) = ToSet(all) \cup ToSet(v)
    BY <1>7, <1>11, ToSetConcat
  <2>5. ToSet(all \o v) \subseteq 1 .. sent + j
    BY <1>5, <1>6, <2>1, <2>4
  <2> QED
    BY <1>6, <2>1, <2>3, <2>5
<1>13. ReceivedIsKept'
  <2> SUFFICES ASSUME ~ clobbered
               PROVE  Kept(DataOf(client'.io_buffer), DataOf(lent'), taken', got')
    BY <1>3, KeptState DEF Kept, ReceivedIsKept
  <2>1. Kept(DataOf(client.io_buffer), DataOf(lent), taken, got)
    BY <1>1, KeptState DEF IInv, Calls
  <2>2. Kept(<<>>, DataOf(lent), taken \o DataOf(client.io_buffer), got)
    BY <1>4, <2>1, KeptCleared
  <2> QED
    BY <1>2, <1>3, <2>1, <2>2
<1> QED
  BY <1>8, <1>9, <1>10, <1>12, <1>13 DEF IInv

-----------------------------------------------------------------------------
(* The callbacks of the peer preserve the invariant.                       *)

\* They touch neither the client nor the descriptors.
LEMMA PeerKeeps ==
    ASSUME IInv, UNCHANGED <<client, lent, sent, table, got, taken>>, Good(peer_buffer'),
           up' \in Seq(Cell), down' \in Seq(Cell), ended' \in BOOLEAN, shortSend' \in BOOLEAN,
           clobbered' \in BOOLEAN, clobbered => clobbered', ByteInv'
    PROVE  IInv'
<1>1. UNCHANGED <<open, others, orphans, closeFailed, trespass>>
  BY DEF table
<1>2. TypeOK'
  BY <1>1, GoodFacts DEF IInv, TypeOK
<1>3. BufferInv'
  BY DEF IInv, BufferInv, Alive
<1>4. TableInv'
  BY <1>1 DEF IInv, TableInv, Alive, OpenIsOwned, KeepsOffOthers
<1>5. ReceivedIsKept'
  BY DEF IInv, ReceivedIsKept, Alive
<1> QED
  BY <1>2, <1>3, <1>4, <1>5 DEF IInv

\* readFromPeer()
LEMMA PeerReadsKeeps ==
    ASSUME IInv, NEW j \in 1 .. MaxSent, PeerReads(j)
    PROVE  IInv'
<1> DEFINE u1 == SubSeq(up, 1, j)
           u2 == SubSeq(up, j + 1, Len(up))
<1>1. /\ UNCHANGED <<client, lent, down, ended, sent, shortSend, table, got, taken>>
      /\ j \in 1 .. Len(up) /\ j <= ReadRoom(peer_buffer) /\ up' = u2
      /\ clobbered' = (clobbered \/ getDataSize(peer_buffer) > 0)
      /\ peer_buffer' = readFromPeer(peer_buffer, u1)
  BY DEF PeerReads
<1>2. /\ Good(peer_buffer) /\ Data(peer_buffer) \in Seq(Cell) /\ up \in Seq(Cell) /\ down \in Seq(Cell)
      /\ got \in Seq(Cell) /\ ended \in BOOLEAN /\ shortSend \in BOOLEAN /\ clobbered \in BOOLEAN
      /\ getDataSize(peer_buffer) = Len(Data(peer_buffer))
  BY DataCells, GoodFacts DEF IInv, TypeOK, BufferInv
<1>3. u1 \in Seq(Cell) /\ u2 \in Seq(Cell) /\ up = u1 \o u2 /\ Len(u1) = j
  <2>1. j \in 0 .. Len(up)
    BY <1>1
  <2> QED
    BY <1>2, <2>1, SplitAt
<1> HIDE DEF u1, u2
<1>4. Good(peer_buffer') /\ (Data(peer_buffer) = <<>> => Data(peer_buffer') = u1)
  BY <1>1, <1>2, <1>3, PeerReadData
<1>5. ByteInv'
  <2> SUFFICES ASSUME ~ clobbered' PROVE ByteInv'
    BY DEF ByteInv
  <2>1. ~ clobbered /\ Data(peer_buffer) = <<>>
    <3>1. ~ clobbered /\ ~ (getDataSize(peer_buffer) > 0)
      BY <1>1, Zenon
    <3> QED
      BY <1>2, <3>1
  <2>2. AllOf(got, down, u1, u2) = AllOf(got, down, <<>>, up)
    BY <1>2, <1>3, AllPeerReads
  <2>3. AllOf(got', down', Data(peer_buffer'), up') = AllOf(got, down, Data(peer_buffer), up)
    BY <1>1, <1>4, <2>1, <2>2
  <2> QED
    BY <1>1, <2>1, <2>3 DEF IInv, ByteInv
<1>6. clobbered' \in BOOLEAN /\ (clobbered => clobbered')
  BY <1>1, <1>2
<1> QED
  BY <1>1, <1>2, <1>3, <1>4, <1>5, <1>6, PeerKeeps

\* writeToPeer(): the bytes behind a short send() are dropped.
LEMMA PeerWritesKeeps ==
    ASSUME IInv, NEW j \in 1 .. MaxSent, PeerWrites(j)
    PROVE  IInv'
<1> DEFINE p == Data(peer_buffer)
           p1 == SubSeq(p, 1, j)
           p2 == SubSeq(p, j + 1, Len(p))
<1>1. /\ UNCHANGED <<client, lent, up, ended, sent, clobbered, table, got, taken>>
      /\ j \in 1 .. getDataSize(peer_buffer) /\ down' = down \o p1
      /\ shortSend' = (shortSend \/ j < getDataSize(peer_buffer))
      /\ peer_buffer' = writeToPeer(peer_buffer)
  BY DEF PeerWrites
<1>2. /\ Good(peer_buffer) /\ p \in Seq(Cell) /\ up \in Seq(Cell) /\ down \in Seq(Cell)
      /\ got \in Seq(Cell) /\ ended \in BOOLEAN /\ shortSend \in BOOLEAN /\ clobbered \in BOOLEAN
      /\ getDataSize(peer_buffer) = Len(p)
  BY DataCells, GoodFacts DEF IInv, TypeOK, BufferInv
<1> HIDE DEF p
<1>3. p1 \in Seq(Cell) /\ p2 \in Seq(Cell) /\ p = p1 \o p2 /\ Len(p1) = j
  <2>1. j \in 0 .. Len(p)
    BY <1>1, <1>2
  <2> QED
    BY <1>2, <2>1, SplitAt
<1>4. ASSUME ~ shortSend' PROVE p1 = p
  <2>1. ~ (j < getDataSize(peer_buffer))
    BY <1>1, <1>4, Zenon
  <2>2. j = Len(p) /\ Len(p) \in Nat
    BY <1>1, <1>2, <2>1
  <2>3. \A i \in 1 .. j : p1[i] = p[i]
    BY <1>2, <2>2
  <2> HIDE DEF p1
  <2> QED
    BY <1>2, <1>3, <2>2, <2>3, SameElements
<1> HIDE DEF p1, p2
<1>5. Good(peer_buffer') /\ Data(peer_buffer') = <<>>
  BY <1>1, <1>2, PeerWriteData
<1>6. /\ AllOf(got', down', Data(peer_buffer'), up') = AllOf(got, down, p1, up)
      /\ Increasing(AllOf(got, down, p, up)) => Increasing(AllOf(got, down, p1, up))
      /\ ToSet(AllOf(got, down, p1, up)) \subseteq ToSet(AllOf(got, down, p, up))
  BY <1>1, <1>2, <1>3, <1>5, AllPeerWrites
<1>7. ByteInv'
  <2> SUFFICES ASSUME ~ clobbered
               PROVE  /\ Increasing(AllOf(got, down, p1, up))
                      /\ ToSet(AllOf(got, down, p1, up)) \subseteq 1 .. sent
                      /\ ~ shortSend' => AllOf(got, down, p1, up) = Numbers(0, sent)
    BY <1>1, <1>6 DEF ByteInv
  <2>1. /\ Increasing(AllOf(got, down, p, up)) /\ ToSet(AllOf(got, down, p, up)) \subseteq 1 .. sent
        /\ ~ shortSend => AllOf(got, down, p, up) = Numbers(0, sent)
    BY DEF IInv, ByteInv, p
  <2>2. ~ shortSend' => ~ shortSend
    BY <1>1
  <2> QED
    BY <1>4, <1>6, <2>1, <2>2
<1>8. shortSend' \in BOOLEAN /\ down' \in Seq(Cell)
  BY <1>1, <1>2, <1>3
<1> QED
  BY <1>1, <1>2, <1>5, <1>7, <1>8, PeerKeeps

\* The callbacks clear a buffer without data, or double a full one.
LEMMA PeerMakesRoomKeeps ==
    ASSUME IInv, PeerMakesRoom
    PROVE  IInv'
<1>1. UNCHANGED <<client, lent, up, down, ended, sent, shortSend, clobbered, table, got, taken>>
  BY DEF PeerMakesRoom
<1>2. /\ Good(peer_buffer) /\ up \in Seq(Cell) /\ down \in Seq(Cell)
      /\ ended \in BOOLEAN /\ shortSend \in BOOLEAN /\ clobbered \in BOOLEAN
  BY DEF IInv, TypeOK, BufferInv
<1>3. Good(peer_buffer') /\ Data(peer_buffer') = Data(peer_buffer)
  <2>1. CASE getDataSize(peer_buffer) = 0 /\ peer_buffer' = clear(peer_buffer)
    <3>1. Data(peer_buffer) = <<>>
      BY <1>2, <2>1, GoodFacts, NoData
    <3> QED
      BY <1>2, <2>1, <3>1, ClearData
  <2>2. CASE ReserveSize(peer_buffer, 0) \in 1 .. MaxAlloc /\ peer_buffer' = reserve(peer_buffer, 0)
    <3>1. ReserveSize(peer_buffer, 0) \in 0 .. MaxAlloc
      BY <2>2
    <3>2. ReserveSize(peer_buffer, 0) >= peer_buffer.end_offset
      <4>1. /\ peer_buffer.capacity \in Nat /\ peer_buffer.end_offset \in Nat
            /\ peer_buffer.end_offset <= peer_buffer.capacity /\ peer_buffer.capacity <= MaxAlloc
        BY <1>2, GoodFacts
      <4> QED
        BY <4>1, SizeAssumption DEF ReserveSize, Plus
    <3> QED
      BY <1>2, <2>2, <3>1, <3>2, ReserveData
  <2> QED
    BY <2>1, <2>2 DEF PeerMakesRoom
<1>4. ByteInv'
  BY <1>1, <1>3 DEF IInv, ByteInv
<1> QED
  BY <1>1, <1>2, <1>3, <1>4, PeerKeeps

\* The peer closes its end.
LEMMA PeerClosesKeeps ==
    ASSUME IInv, PeerCloses
    PROVE  IInv'
<1>1. /\ UNCHANGED <<client, lent, up, down, peer_buffer, sent, shortSend, clobbered, table, got, taken>>
      /\ ended' = TRUE
  BY DEF PeerCloses
<1>2. /\ Good(peer_buffer) /\ up \in Seq(Cell) /\ down \in Seq(Cell)
      /\ shortSend \in BOOLEAN /\ clobbered \in BOOLEAN
  BY DEF IInv, TypeOK, BufferInv
<1>3. ByteInv'
  BY <1>1, BytesUnchanged DEF IInv
<1> QED
  BY <1>1, <1>2, <1>3, PeerKeeps

-----------------------------------------------------------------------------
(* The life of the client, and the other code of the process, preserve the *)
(* invariant.                                                              *)

\* No bytes are in order and in place.
LEMMA NoBytes ==
    /\ AllOf(<<>>, <<>>, <<>>, <<>>) = <<>> /\ Numbers(0, 0) = <<>>
    /\ ToSet(<<>>) = {} /\ Increasing(<<>>) /\ Kept(<<>>, <<>>, <<>>, <<>>)
<1>1. <<>> \o <<>> = <<>>
  OBVIOUS
<1>2. Numbers(0, 0) = <<>>
  BY DEF Numbers
<1>3. ToSet(<<>>) = {}
  BY ToSetSmall
<1>4. Len(<<>>) + Len(<<>>) + Len(<<>>) = Len(<<>>)
  OBVIOUS
<1> QED
  BY <1>1, <1>2, <1>3, <1>4, EmptyIncreasing DEF AllOf, Kept

\* A new connection has no bytes.
LEMMA FreshBytes ==
    ASSUME Fresh
    PROVE  /\ ByteInv' /\ Good(peer_buffer') /\ {up', down', got', taken'} \subseteq Seq(Cell)
           /\ sent' \in 0 .. MaxSent /\ {ended', shortSend', clobbered'} \subseteq BOOLEAN
<1>1. /\ up' = <<>> /\ down' = <<>> /\ got' = <<>> /\ taken' = <<>> /\ sent' = 0
      /\ ended' = FALSE /\ shortSend' = FALSE /\ clobbered' = FALSE
      /\ Good(peer_buffer') /\ Data(peer_buffer') = <<>>
  BY ConnectionAssumption, CreateData DEF Fresh
<1>2. AllOf(got', down', Data(peer_buffer'), up') = <<>>
  BY <1>1, NoBytes
<1>3. ByteInv'
  BY <1>1, <1>2, NoBytes DEF ByteInv
<1>4. {up', down', got', taken'} \subseteq Seq(Cell)
  BY <1>1
<1>5. sent' \in 0 .. MaxSent
  BY <1>1, ConnectionAssumption
<1> QED
  BY <1>1, <1>3, <1>4, <1>5

\* The constructor
LEMMA ConstructKeeps ==
    ASSUME IInv, NEW type, NEW fd \in Fds, Construct(type, fd)
    PROVE  IInv'
<1>1. /\ client = NoStream /\ fd \notin open /\ client' = Connected(fd, InitialCapacity)
      /\ open' = open \cup {fd} /\ closeFailed' = FALSE /\ trespass' = FALSE /\ Fresh
      /\ UNCHANGED <<lent, others, orphans>>
  BY DEF Construct
<1>2. /\ Good(create(InitialCapacity)) /\ Data(create(InitialCapacity)) = <<>>
      /\ create(InitialCapacity) \in Buffer
  BY ConnectionAssumption, CreateData, GoodFacts
<1>3. /\ client' \in Stream /\ client'.endpoint_fd = fd /\ client'.is_connected = TRUE
      /\ client'.io_buffer = create(InitialCapacity)
  BY <1>1, <1>2 DEF Connected, Stream, Callbacks
<1>4. Alive' /\ lent' = NoBuffer
  BY <1>1, <1>3, Exists DEF IInv, BufferInv, Alive
<1>5. /\ ByteInv' /\ Good(peer_buffer') /\ {up', down', got', taken'} \subseteq Seq(Cell)
      /\ sent' \in 0 .. MaxSent /\ {ended', shortSend', clobbered'} \subseteq BOOLEAN
  BY <1>1, FreshBytes
<1>6. TypeOK'
  BY <1>1, <1>3, <1>4, <1>5, GoodFacts DEF IInv, TypeOK
<1>7. BufferInv'
  BY <1>2, <1>3, <1>4, <1>5 DEF BufferInv, OwnGood
<1>8. TableInv'
  BY <1>1, <1>3, <1>4 DEF IInv, TableInv, OpenIsOwned, KeepsOffOthers, Alive
<1>9. ReceivedIsKept'
  <2>1. DataOf(client'.io_buffer) = <<>> /\ DataOf(lent') = <<>>
    BY <1>2, <1>3, <1>4, Exists DEF DataOf
  <2>2. got' = <<>> /\ taken' = <<>>
    BY <1>1 DEF Fresh
  <2> QED
    BY <2>1, <2>2, NoBytes DEF ReceivedIsKept, Kept
<1> QED
  BY <1>5, <1>6, <1>7, <1>8, <1>9 DEF IInv

\* A constructor that throws
LEMMA ConstructThrowsKeeps ==
    ASSUME IInv, NEW type, NEW i, ConstructThrows(type, i)
    PROVE  IInv'
<1>1. /\ client = NoStream
      /\ UNCHANGED <<client, lent, network, others, closeFailed, trespass, got, taken>>
      /\ UNCHANGED <<up, down, ended, peer_buffer, sent, shortSend, clobbered>>
  BY DEF ConstructThrows, network
<1>2. \/ UNCHANGED <<open, orphans>>
      \/ \E fd \in Fds \ open : open' = open \cup {fd} /\ orphans' = orphans \cup {fd}
  BY DEF ConstructThrows
<1>3. open' \subseteq Fds /\ orphans' \subseteq Fds
  BY <1>2 DEF IInv, TypeOK
<1>4. TypeOK'
  BY <1>1, <1>3 DEF IInv, TypeOK
<1>5. BufferInv'
  BY <1>1 DEF IInv, BufferInv, Alive
<1>6. TableInv'
  <2>1. OpenIsOwned'
    BY <1>1, <1>2 DEF IInv, TableInv, OpenIsOwned, Alive
  <2> QED
    BY <1>1, <1>3, <2>1 DEF IInv, TableInv, KeepsOffOthers, Alive
<1>7. ByteInv'
  BY <1>1, BytesUnchanged DEF IInv
<1>8. ReceivedIsKept'
  BY <1>1 DEF IInv, ReceivedIsKept, Alive
<1> QED
  BY <1>4, <1>5, <1>6, <1>7, <1>8 DEF IInv

\* closeConnection()
LEMMA CloseKeeps ==
    ASSUME IInv, NEW ok \in BOOLEAN, Close(ok)
    PROVE  IInv'
<1>1. /\ Alive /\ client \in Stream /\ client.is_connected /\ Using
      /\ client' = IF ok THEN closeConnection(client) ELSE client
      /\ closeFailed' = (closeFailed \/ ~ ok)
      /\ open' = open \ {client.endpoint_fd} /\ others' = others \ {client.endpoint_fd}
      /\ UNCHANGED <<lent, network, orphans, got, taken>>
      /\ UNCHANGED <<up, down, ended, peer_buffer, sent, shortSend, clobbered>>
  BY DEF Close, CloseOutcome, network, IInv, TypeOK, Alive
<1>2. /\ client' \in Stream /\ client'.endpoint_fd = client.endpoint_fd
      /\ client'.io_buffer = client.io_buffer /\ client'.is_connected = ~ ok
  BY <1>1 DEF closeConnection, Stream
<1>3. Alive'
  BY <1>2, Exists DEF Alive
<1>4. TypeOK'
  <2>1. trespass' \in BOOLEAN /\ closeFailed' \in BOOLEAN
    BY <1>1 DEF IInv, TypeOK, Using
  <2> QED
    BY <1>1, <1>2, <2>1 DEF IInv, TypeOK
<1>5. BufferInv'
  BY <1>1, <1>2, <1>3 DEF IInv, BufferInv, OwnGood
<1>6. TableInv'
  <2>1. OpenIsOwned'
    BY <1>1, <1>2, <1>3 DEF IInv, TableInv, OpenIsOwned
  <2>2. KeepsOffOthers'
    BY <1>1 DEF IInv, TableInv, OpenIsOwned, KeepsOffOthers, Using
  <2> QED
    BY <1>1, <1>2, <2>1, <2>2 DEF IInv, TableInv
<1>7. ByteInv'
  BY <1>1, BytesUnchanged DEF IInv
<1>8. ReceivedIsKept'
  BY <1>1, <1>2 DEF IInv, ReceivedIsKept
<1> QED
  BY <1>4, <1>5, <1>6, <1>7, <1>8 DEF IInv

\* The destructor
LEMMA DestroyKeeps ==
    ASSUME IInv, Destroy
    PROVE  IInv'
<1>1. /\ Alive /\ client' = NoStream /\ lent' = NoBuffer /\ ~ Alive' /\ Fresh
      /\ UNCHANGED <<orphans, closeFailed>>
  BY DEF Destroy, Alive
<1>2. \/ /\ client.is_connected /\ Using
         /\ open' = open \ {client.endpoint_fd} /\ others' = others \ {client.endpoint_fd}
      \/ ~ client.is_connected /\ UNCHANGED <<open, others, trespass>>
  BY DEF Destroy
<1>3. /\ ByteInv' /\ Good(peer_buffer') /\ {up', down', got', taken'} \subseteq Seq(Cell)
      /\ sent' \in 0 .. MaxSent /\ {ended', shortSend', clobbered'} \subseteq BOOLEAN
  BY <1>1, FreshBytes
<1>4. TypeOK'
  <2>1. trespass' \in BOOLEAN /\ open' \subseteq Fds /\ others' \subseteq Fds
    BY <1>2 DEF IInv, TypeOK, Using
  <2> QED
    BY <1>1, <1>3, <2>1, GoodFacts DEF IInv, TypeOK
<1>5. BufferInv'
  BY <1>1, <1>3 DEF BufferInv
<1>6. TableInv'
  <2>1. OpenIsOwned'
    BY <1>1, <1>2 DEF IInv, TableInv, OpenIsOwned
  <2>2. KeepsOffOthers'
    BY <1>1, <1>2 DEF IInv, TableInv, OpenIsOwned, KeepsOffOthers, Using
  <2> QED
    BY <1>1, <2>1, <2>2 DEF TableInv
<1>7. ReceivedIsKept'
  BY <1>1 DEF ReceivedIsKept
<1> QED
  BY <1>3, <1>4, <1>5, <1>6, <1>7 DEF IInv

\* Other code opens a descriptor, or closes one of its own.
LEMMA OtherKeeps ==
    ASSUME IInv, NEW fd \in Fds, OtherOpens(fd) \/ OtherCloses(fd)
    PROVE  IInv'
<1>1. /\ UNCHANGED <<client, lent, network, orphans, closeFailed, trespass, got, taken>>
      /\ UNCHANGED <<up, down, ended, peer_buffer, sent, shortSend, clobbered>>
  BY DEF OtherOpens, OtherCloses, network
<1>2. \/ fd \notin open /\ open' = open \cup {fd} /\ others' = others \cup {fd}
      \/ fd \in others /\ open' = open \ {fd} /\ others' = others \ {fd}
  BY DEF OtherOpens, OtherCloses
<1>3. TypeOK'
  <2>1. open' \subseteq Fds /\ others' \subseteq Fds
    BY <1>2 DEF IInv, TypeOK
  <2> QED
    BY <1>1, <2>1 DEF IInv, TypeOK
<1>4. BufferInv'
  BY <1>1 DEF IInv, BufferInv, Alive
<1>5. TableInv'
  BY <1>1, <1>2 DEF IInv, TableInv, OpenIsOwned, KeepsOffOthers, Alive
<1>6. ByteInv'
  BY <1>1, BytesUnchanged DEF IInv
<1>7. ReceivedIsKept'
  BY <1>1 DEF IInv, ReceivedIsKept, Alive
<1> QED
  BY <1>3, <1>4, <1>5, <1>6, <1>7 DEF IInv

-----------------------------------------------------------------------------
(* The theorems.                                                           *)

\* The invariant holds at first: there is no client, and nothing was sent.
LEMMA InvInit == Init => IInv
<1> SUFFICES ASSUME Init PROVE IInv
  OBVIOUS
<1>1. /\ up = <<>> /\ down = <<>> /\ got = <<>> /\ taken = <<>> /\ sent = 0
      /\ client = NoStream /\ lent = NoBuffer /\ open = {} /\ others = {} /\ ~ Alive
      /\ ended = FALSE /\ shortSend = FALSE /\ clobbered = FALSE
      /\ orphans = {} /\ closeFailed = FALSE /\ trespass = FALSE
      /\ Good(peer_buffer) /\ Data(peer_buffer) = <<>>
  BY ConnectionAssumption, CreateData DEF Init, Alive
<1>2. TypeOK
  <2>1. sent \in 0 .. MaxSent
    BY <1>1, ConnectionAssumption
  <2>2. {up, down, got, taken} \subseteq Seq(Cell)
    BY <1>1
  <2> QED
    BY <1>1, <2>1, <2>2, GoodFacts DEF TypeOK
<1>3. BufferInv
  BY <1>1 DEF BufferInv
<1>4. TableInv
  BY <1>1 DEF TableInv, OpenIsOwned, KeepsOffOthers
<1>5. ByteInv
  BY <1>1, NoBytes DEF ByteInv
<1>6. ReceivedIsKept
  BY <1>1 DEF ReceivedIsKept
<1> QED
  BY <1>2, <1>3, <1>4, <1>5, <1>6 DEF IInv

\* Every step preserves it.
LEMMA InvStep == IInv /\ [Next]_vars => IInv'
<1> SUFFICES ASSUME IInv, [Next]_vars PROVE IInv'
  OBVIOUS
<1>1. ASSUME NEW type \in StreamTypes,
             \/ \E fd \in Fds : Construct(type, fd)
             \/ \E i \in DOMAIN Stages(type) : ConstructThrows(type, i)
      PROVE  IInv'
  BY <1>1, ConstructKeeps, ConstructThrowsKeeps
<1>2. ASSUME NEW ok \in BOOLEAN, Close(ok) PROVE IInv'
  BY <1>2, CloseKeeps
<1>3. CASE Destroy
  BY <1>3, DestroyKeeps
<1>4. CASE ClientCall
  BY <1>4, ReadKeeps, ReadFailsKeeps, WriteKeeps, SetCallbacksKeeps, FlushKeeps, BorrowKeeps,
     ConsumeKeeps, ReturnKeeps DEF ClientCall
<1>5. CASE PeerCallback
  BY <1>5, PeerReadsKeeps, PeerWritesKeeps, PeerMakesRoomKeeps, PeerClosesKeeps DEF PeerCallback
<1>6. ASSUME NEW fd \in Fds, OtherOpens(fd) \/ OtherCloses(fd) PROVE IInv'
  BY <1>6, OtherKeeps
<1>7. CASE UNCHANGED vars
  <2>1. /\ UNCHANGED <<client, lent, got, taken, open, others, orphans, closeFailed, trespass>>
        /\ UNCHANGED <<up, down, ended, peer_buffer, sent, shortSend, clobbered>>
    BY <1>7 DEF vars, network, table
  <2> QED
    BY <2>1 DEF IInv, TypeOK, BufferInv, TableInv, ByteInv, ReceivedIsKept, OpenIsOwned,
                KeepsOffOthers, Alive
<1> QED
  BY <1>1, <1>2, <1>3, <1>4, <1>5, <1>6, <1>7 DEF Next

\* The inductive invariant is an invariant.
THEOREM Invariance == Spec => []IInv
BY InvInit, InvStep, PTL DEF Spec

\* The variables keep their types.
THEOREM TypeCorrect == Spec => []TypeOK
<1>1. IInv => TypeOK
  BY DEF IInv
<1> QED
  BY <1>1, Invariance, PTL

\* Between streamWrite() and streamRead() no byte is lost, doubled, invented
\* or overtaken, unless the peer's send() was short (bytes are missing then) or
\* the peer read over bytes that it had not written out.
THEOREM BytesAreInOrder == Spec => []BytesGoAround
<1>1. IInv => BytesGoAround
  BY DEF IInv, ByteInv, BytesGoAround, AllOf
<1> QED
  BY <1>1, Invariance, PTL

\* Growth, callbacks, flushes, loans and exchanges of the client's buffer lose
\* no byte that streamRead() received, and keep the order.
THEOREM ReceivedBytesStay == Spec => []ReceivedIsKept
<1>1. IInv => ReceivedIsKept
  BY DEF IInv
<1> QED
  BY <1>1, Invariance, PTL

\* A client that was constructed leaves no descriptor behind, however it is
\* closed and destroyed, and one that is connected has a descriptor of its own,
\* for any number of descriptors and any reuse of their numbers.
THEOREM DescriptorsAreOwned == Spec => []OpenIsOwned
<1>1. IInv => OpenIsOwned
  BY DEF IInv, TableInv
<1> QED
  BY <1>1, Invariance, PTL

\* A client whose close() did not fail uses no descriptor of other code.
THEOREM OthersAreLeftAlone == Spec => []KeepsOffOthers
<1>1. IInv => KeepsOffOthers
  BY DEF IInv, TableInv
<1> QED
  BY <1>1, Invariance, PTL

=============================================================================
