--------------------------- MODULE HTTPProxy_proofs ---------------------------
(***************************************************************************)
(* Proofs about HTTPProxy, for any proxy server, any answers and any read  *)
(* lengths that fit into a block: readProxy() loses and doubles no byte,   *)
(* whatever callbacks the stream came with.                                *)
(***************************************************************************)
EXTENDS HTTPProxy, IOBufferOps_proofs

-----------------------------------------------------------------------------
(* The operations of a stream.                                             *)

\* A stream whose buffer, if it has one, is good.
Sound(s) == s \in Stream /\ (s.io_buffer # NoBuffer => Good(s.io_buffer))

\* A good buffer is a buffer.
LEMMA GoodExists ==
    ASSUME NEW b, Good(b)
    PROVE  b \in Buffer /\ b # NoBuffer
BY BufferAssumption DEF Good

\* Another buffer leaves the rest of a stream as it is.
LEMMA WithBuffer ==
    ASSUME NEW s \in Stream, NEW b \in Buffer \cup {NoBuffer}
    PROVE  [s EXCEPT !.io_buffer = b] \in Stream /\ [s EXCEPT !.io_buffer = b].io_buffer = b
BY DEF Stream

\* The growth before a read keeps the data, and makes room for the bytes.
LEMMA GrowStream ==
    ASSUME NEW s, Sound(s), CanRead(s), NEW n \in 0 .. MaxAlloc,
           NeedsSpace(s, n) => ReadSize(s, n) <= MaxAlloc
    PROVE  /\ Sound(Reserved(s, n)) /\ Good(Reserved(s, n).io_buffer)
           /\ Data(Reserved(s, n).io_buffer) = Data(s.io_buffer)
           /\ getAvailableSpace(Reserved(s, n).io_buffer) >= n
<1> DEFINE c == Grown(s.io_buffer, n)
<1>0. s \in Stream /\ Good(s.io_buffer)
  BY DEF Sound, CanRead
<1>1. Good(c) /\ Data(c) = Data(s.io_buffer) /\ getAvailableSpace(c) >= n
  BY <1>0, GrowData DEF NeedsSpace, ReadSize
<1>2. Reserved(s, n) = [s EXCEPT !.io_buffer = c]
  <2>1. [s EXCEPT !.io_buffer = s.io_buffer] = s
    BY <1>0 DEF Stream
  <2> QED
    BY <2>1 DEF Reserved, Grown, NeedsSpace, ReadSize
<1> HIDE DEF c
<1>3. c \in Buffer
  BY <1>1, GoodExists
<1> QED
  BY <1>0, <1>1, <1>2, <1>3, WithBuffer DEF Sound

\* streamRead() appends what it received, and the callback may clear it all.
LEMMA ReadStream ==
    ASSUME NEW s, Sound(s), CanRead(s), NEW n \in 0 .. MaxAlloc,
           NeedsSpace(s, n) => ReadSize(s, n) <= MaxAlloc, NEW g \in Seq(Cell), Len(g) <= n
    PROVE  /\ Sound(streamRead(s, n, g)) /\ Good(streamRead(s, n, g).io_buffer)
           /\ Data(streamRead(s, n, g).io_buffer) =
                IF s.read_callback = "clears" THEN <<>> ELSE Data(s.io_buffer) \o g
<1> DEFINE r == Reserved(s, n)
           c == appendRawBytes(r.io_buffer, g)
           q == [r EXCEPT !.io_buffer = c]
<1>1. /\ Sound(r) /\ Good(r.io_buffer) /\ Data(r.io_buffer) = Data(s.io_buffer)
      /\ getAvailableSpace(r.io_buffer) >= n
  BY GrowStream
<1> HIDE DEF r
<1>2. Len(g) \in Nat /\ Len(g) <= MaxAlloc /\ n \in Nat
  BY SizeAssumption
<1>3. getAvailableSpace(r.io_buffer) >= Len(g)
  <2>1. getAvailableSpace(r.io_buffer) \in Int
    BY <1>1, GoodFacts
  <2> QED
    BY <1>1, <1>2, <2>1
<1>4. Good(c) /\ Data(c) = Data(s.io_buffer) \o g
  BY <1>1, <1>2, <1>3, AppendData
<1> HIDE DEF c
<1>5. c \in Buffer /\ c # NoBuffer
  BY <1>4, GoodExists
<1>6. q \in Stream /\ q.io_buffer = c
  BY <1>1, <1>5, WithBuffer DEF Sound
<1> HIDE DEF q
<1>7. streamRead(s, n, g) = RunCallback(q, s.read_callback)
  BY DEF streamRead, q, c, r
<1>8. CASE s.read_callback = "clears"
  <2>1. streamRead(s, n, g) = [q EXCEPT !.io_buffer = clear(c)]
    BY <1>5, <1>6, <1>7, <1>8 DEF RunCallback
  <2>2. Good(clear(c)) /\ Data(clear(c)) = <<>> /\ clear(c) \in Buffer
    BY <1>4, ClearData, GoodExists
  <2> QED
    BY <1>6, <1>8, <2>1, <2>2, WithBuffer DEF Sound
<1>9. CASE s.read_callback # "clears"
  BY <1>4, <1>6, <1>7, <1>9 DEF RunCallback, Sound
<1> QED
  BY <1>8, <1>9

\* The callback of a streamRead() is shown what there was and what came.
LEMMA GatheredData ==
    ASSUME NEW s, Sound(s), CanRead(s), NEW n \in 0 .. MaxAlloc,
           NeedsSpace(s, n) => ReadSize(s, n) <= MaxAlloc, NEW g \in Seq(Cell), Len(g) <= n
    PROVE  /\ Gathered(s, n, g) # NoBuffer
           /\ Data(Gathered(s, n, g)) = Data(s.io_buffer) \o g
<1> DEFINE q == setReadCallback(s, "none")
<1>1. /\ q \in Stream /\ q.io_buffer = s.io_buffer /\ q.is_connected = s.is_connected
      /\ q.read_callback = "none"
  BY DEF setReadCallback, Sound, Stream, Callbacks
<1> HIDE DEF q
<1>2. /\ Sound(q) /\ CanRead(q) /\ (NeedsSpace(q, n) => ReadSize(q, n) <= MaxAlloc)
  BY <1>1 DEF Sound, CanRead, NeedsSpace, ReadSize
<1>3. /\ Good(streamRead(q, n, g).io_buffer)
      /\ Data(streamRead(q, n, g).io_buffer) =
           IF q.read_callback = "clears" THEN <<>> ELSE Data(q.io_buffer) \o g
  BY <1>2, ReadStream
<1>4. Data(streamRead(q, n, g).io_buffer) = Data(s.io_buffer) \o g
  BY <1>1, <1>3
<1>5. Gathered(s, n, g) = streamRead(q, n, g).io_buffer
  BY DEF Gathered, q
<1> QED
  BY <1>3, <1>4, <1>5, GoodExists

\* Taking the buffer out, clearing it and putting it back leaves no data.
LEMMA DrainStream ==
    ASSUME NEW s, Sound(s), Good(s.io_buffer)
    PROVE  Sound(Drain(s)) /\ Good(Drain(s).io_buffer) /\ Data(Drain(s).io_buffer) = <<>>
<1> DEFINE c == clear(s.io_buffer)
           q == [s EXCEPT !.io_buffer = NoBuffer]
<1>1. Good(c) /\ Data(c) = <<>> /\ c \in Buffer
  BY ClearData, GoodExists
<1>2. Drain(s) = [q EXCEPT !.io_buffer = c]
  BY DEF Drain, setIOBuffer, getIOBuffer
<1>3. q \in Stream
  BY WithBuffer DEF Sound
<1> HIDE DEF c, q
<1> QED
  BY <1>1, <1>2, <1>3, WithBuffer DEF Sound

\* A write leaves in the buffer what its callback does not clear.
LEMMA WriteStream ==
    ASSUME NEW s, Sound(s)
    PROVE  /\ Sound(streamWrite(s))
           /\ streamWrite(s).io_buffer = NoBuffer <=> s.io_buffer = NoBuffer
           /\ s.io_buffer # NoBuffer =>
                /\ Data(s.io_buffer) \in Seq(Cell)
                /\ Cleared(s.write_callback, s.io_buffer) \o Data(streamWrite(s).io_buffer)
                      = Data(s.io_buffer)
           /\ Cleared(s.write_callback, s.io_buffer) \in Seq(Cell)
<1>0. s \in Stream
  BY DEF Sound
<1>1. CASE s.io_buffer = NoBuffer
  BY <1>1 DEF streamWrite, RunCallback, Cleared
<1>2. CASE s.io_buffer # NoBuffer
  <2>0. Good(s.io_buffer) /\ Data(s.io_buffer) \in Seq(Cell)
    BY <1>2, DataCells DEF Sound
  <2>1. CASE s.write_callback = "clears"
    <3>1. streamWrite(s) = [s EXCEPT !.io_buffer = clear(s.io_buffer)]
      BY <1>2, <2>1 DEF streamWrite, RunCallback
    <3>2. /\ Good(clear(s.io_buffer)) /\ Data(clear(s.io_buffer)) = <<>>
          /\ clear(s.io_buffer) \in Buffer /\ clear(s.io_buffer) # NoBuffer
      BY <2>0, ClearData, GoodExists
    <3>3. streamWrite(s) \in Stream /\ streamWrite(s).io_buffer = clear(s.io_buffer)
      BY <1>0, <3>1, <3>2, WithBuffer
    <3>4. Cleared(s.write_callback, s.io_buffer) = Data(s.io_buffer)
      BY <1>2, <2>1 DEF Cleared
    <3>5. Data(s.io_buffer) \o <<>> = Data(s.io_buffer)
      BY <2>0
    <3> QED
      BY <1>2, <2>0, <3>2, <3>3, <3>4, <3>5 DEF Sound
  <2>2. CASE s.write_callback # "clears"
    <3>1. streamWrite(s) = s /\ Cleared(s.write_callback, s.io_buffer) = <<>>
      BY <2>2 DEF streamWrite, RunCallback, Cleared
    <3>2. <<>> \o Data(s.io_buffer) = Data(s.io_buffer)
      BY <2>0
    <3> QED
      BY <2>0, <3>1, <3>2
  <2> QED
    BY <2>1, <2>2
<1> QED
  BY <1>1, <1>2

-----------------------------------------------------------------------------
(* The inductive invariant.                                                *)

\* The stream is sound, and the texts are texts.
StreamInv ==
    /\ Sound(stream) /\ owner \in {"user", "client"}
    /\ down \in Seq(Cell) /\ received \in Seq(Cell) /\ taken \in Seq(Cell)
    /\ handed \in Seq(Cell) \cup {NoBuffer}

\* Before the stream is moved in nothing has happened to the proxy client;
\* afterwards it has a buffer if and only if one came with it.
OwnerInv ==
    /\ owner = "user" => received = <<>> /\ taken = <<>>
    /\ owner = "client" => (handed = NoBuffer <=> stream.io_buffer = NoBuffer)

IInv == StreamInv /\ OwnerInv /\ TunnelKeepsBytes

\* What a step of the user or of the server leaves alone.
Aside == <<owner, handed, received, taken>>

\* A step that touches neither the buffer of a proxy client nor what is known
\* about it keeps the invariant.
LEMMA AsideKeeps ==
    ASSUME IInv, UNCHANGED Aside, Sound(stream'), down' \in Seq(Cell),
           \/ owner = "user"
           \/ /\ stream'.io_buffer = NoBuffer <=> stream.io_buffer = NoBuffer
              /\ stream.io_buffer # NoBuffer => Data(stream'.io_buffer) = Data(stream.io_buffer)
    PROVE  IInv'
<1>1. UNCHANGED <<owner, handed, received, taken>>
  BY DEF Aside
<1>2. owner = "client" /\ handed # NoBuffer => stream.io_buffer # NoBuffer
  BY DEF IInv, OwnerInv
<1>3. StreamInv'
  BY <1>1 DEF IInv, StreamInv
<1>4. OwnerInv'
  BY <1>1 DEF IInv, OwnerInv
<1>5. TunnelKeepsBytes'
  BY <1>1, <1>2 DEF IInv, TunnelKeepsBytes
<1> QED
  BY <1>3, <1>4, <1>5 DEF IInv

\* What recv() delivers is a prefix of what is on its way, of at most n bytes.
LEMMA ReceivedSeq ==
    ASSUME StreamInv, NEW n \in 0 .. MaxAlloc, NEW g \in Received(n)
    PROVE  g \in Seq(Cell) /\ Len(g) <= n /\ Rest(g) \in Seq(Cell)
<1> DEFINE most == IF n < Len(down) THEN n ELSE Len(down)
<1>1. down \in Seq(Cell) /\ Len(down) \in Nat /\ n \in Nat
  BY DEF StreamInv
<1>2. PICK j \in (IF ended /\ down = <<>> THEN 0 ELSE 1) .. most : g = SubSeq(down, 1, j)
  BY DEF Received
<1>3. j \in Nat /\ j <= n /\ j <= Len(down)
  BY <1>1, <1>2
<1>4. g \in Seq(Cell) /\ Len(g) = j
  BY <1>1, <1>2, <1>3
<1>5. SubSeq(down, j + 1, Len(down)) \in Seq(Cell)
  BY <1>1, <1>3
<1>6. Rest(g) = SubSeq(down, j + 1, Len(down))
  BY <1>4 DEF Rest
<1> HIDE DEF most
<1> QED
  BY <1>3, <1>4, <1>5, <1>6

\* The user of the stream preserves the invariant.
LEMMA UserKeeps ==
    ASSUME IInv, \/ UserWrites \/ UserFlushes \/ UserSpoils
                 \/ \E n \in ReadLengths : UserReads(n)
                 \/ \E pair \in CallbackPairs : UserSetsCallbacks(pair[1], pair[2])
    PROVE  IInv'
<1>0. Sound(stream) /\ down \in Seq(Cell) /\ stream \in Stream
  BY DEF IInv, StreamInv, Sound
<1>1. owner = "user" /\ UNCHANGED Aside
  BY DEF UserWrites, UserFlushes, UserSpoils, UserReads, UserSetsCallbacks, Aside, history, Sends
<1>2. CASE UserWrites
  BY <1>0, <1>1, <1>2, WriteStream, AsideKeeps DEF UserWrites
<1>3. CASE UserFlushes
  <2>1. stream' = [stream EXCEPT !.io_buffer = clear(stream.io_buffer)] /\ Good(stream.io_buffer)
    BY <1>0, <1>3 DEF UserFlushes, flushBuffer, Sound
  <2>2. Good(clear(stream.io_buffer)) /\ clear(stream.io_buffer) \in Buffer
    BY <2>1, ClearData, GoodExists
  <2>3. Sound(stream')
    BY <1>0, <2>1, <2>2, WithBuffer DEF Sound
  <2> QED
    BY <1>0, <1>1, <1>3, <2>3, AsideKeeps DEF UserFlushes
<1>4. CASE UserSpoils
  <2>1. Sound(getIOBuffer(stream))
    BY <1>0, WithBuffer DEF Sound, getIOBuffer
  <2>2. Sound(closeConnection(stream))
    BY <1>0 DEF Sound, Stream, closeConnection
  <2>3. Sound(stream')
    BY <1>4, <2>1, <2>2 DEF UserSpoils
  <2> QED
    BY <1>0, <1>1, <1>4, <2>3, AsideKeeps DEF UserSpoils
<1>5. ASSUME NEW n \in ReadLengths, UserReads(n) PROVE IInv'
  <2>1. /\ n \in 0 .. MaxAlloc /\ CanRead(stream)
        /\ NeedsSpace(stream, n) => ReadSize(stream, n) <= MaxAlloc
    BY <1>5, ProxyAssumption DEF UserReads, CanReserve
  <2>2. PICK g \in Received(n) : stream' = streamRead(stream, n, g) /\ down' = Rest(g)
    BY <1>5 DEF UserReads
  <2>3. g \in Seq(Cell) /\ Len(g) <= n /\ Rest(g) \in Seq(Cell)
    BY <2>1, ReceivedSeq DEF IInv
  <2>4. Sound(stream')
    BY <1>0, <2>1, <2>2, <2>3, ReadStream
  <2> QED
    BY <1>1, <2>2, <2>3, <2>4, AsideKeeps
<1>6. ASSUME NEW pair \in CallbackPairs, UserSetsCallbacks(pair[1], pair[2]) PROVE IInv'
  <2>1. pair[1] \in Callbacks /\ pair[2] \in Callbacks
    BY ProxyAssumption
  <2>2. stream' = setReadCallback(setWriteCallback(stream, pair[2]), pair[1]) /\ down' = down
    BY <1>6 DEF UserSetsCallbacks
  <2>3. Sound(stream')
    BY <1>0, <2>1, <2>2 DEF Sound, setReadCallback, setWriteCallback, Stream
  <2> QED
    BY <1>0, <1>1, <2>2, <2>3, AsideKeeps
<1> QED
  BY <1>2, <1>3, <1>4, <1>5, <1>6

\* The stream is moved into the proxy client.
LEMMA HandOverKeeps ==
    ASSUME IInv, HandOver
    PROVE  IInv'
<1>1. /\ owner = "user" /\ owner' = "client" /\ UNCHANGED <<stream, down, received, taken>>
      /\ handed' = IF stream.io_buffer = NoBuffer THEN NoBuffer ELSE Data(stream.io_buffer)
  BY DEF HandOver
<1>2. /\ Sound(stream) /\ down \in Seq(Cell)
      /\ received = <<>> /\ taken = <<>>
  BY <1>1 DEF IInv, StreamInv, OwnerInv
<1>3. stream.io_buffer # NoBuffer => Data(stream.io_buffer) \in Seq(Cell)
  BY <1>2, DataCells DEF Sound
<1>4. handed' = NoBuffer <=> stream.io_buffer = NoBuffer
  BY <1>1, <1>3, ProxyAssumption
<1>5. StreamInv'
  BY <1>1, <1>2, <1>3 DEF StreamInv
<1>6. OwnerInv'
  BY <1>1, <1>2, <1>4 DEF OwnerInv
<1>7. TunnelKeepsBytes'
  <2> SUFFICES ASSUME handed' # NoBuffer PROVE handed' \o <<>> = <<>> \o handed'
    BY <1>1, <1>2, <1>4 DEF TunnelKeepsBytes
  <2>1. handed' \in Seq(Cell)
    BY <1>1, <1>3, <1>4
  <2> QED
    BY <2>1
<1> QED
  BY <1>5, <1>6, <1>7 DEF IInv

\* A write of the proxy client: what the callback clears was next in line.
LEMMA WritesKeep ==
    ASSUME IInv, owner = "client", UNCHANGED <<owner, down>>, WritesStream
    PROVE  IInv'
<1> DEFINE cleared == Cleared(stream.write_callback, stream.io_buffer)
           old == Data(stream.io_buffer)
           new == Data(stream'.io_buffer)
<1>1. /\ stream' = streamWrite(stream) /\ taken' = taken \o cleared
      /\ UNCHANGED <<owner, down, handed, received>>
  BY DEF WritesStream
<1>2. /\ Sound(stream) /\ taken \in Seq(Cell) /\ handed \in Seq(Cell) \cup {NoBuffer}
      /\ handed = NoBuffer <=> stream.io_buffer = NoBuffer
      /\ handed # NoBuffer => handed \o received = taken \o old
  BY DEF IInv, StreamInv, OwnerInv, TunnelKeepsBytes
<1>3. /\ Sound(stream') /\ cleared \in Seq(Cell)
      /\ stream'.io_buffer = NoBuffer <=> stream.io_buffer = NoBuffer
      /\ stream.io_buffer # NoBuffer => old \in Seq(Cell) /\ cleared \o new = old
  BY <1>1, <1>2, WriteStream
<1>4. stream.io_buffer # NoBuffer => new \in Seq(Cell)
  BY <1>3, DataCells DEF Sound
<1> HIDE DEF cleared, old
<1>5. StreamInv'
  <2>1. taken' \in Seq(Cell)
    BY <1>1, <1>2, <1>3
  <2> QED
    BY <1>1, <1>3, <2>1 DEF IInv, StreamInv
<1>6. OwnerInv'
  BY <1>1, <1>2, <1>3 DEF OwnerInv
<1>7. TunnelKeepsBytes'
  <2> SUFFICES ASSUME handed # NoBuffer PROVE handed \o received = taken' \o new
    BY <1>1 DEF TunnelKeepsBytes
  <2> HIDE DEF new
  <2>1. (taken \o cleared) \o new = taken \o (cleared \o new)
    BY <1>2, <1>3, <1>4, ConcatAssociative
  <2> QED
    BY <1>1, <1>2, <1>3, <2>1
<1> QED
  BY <1>5, <1>6, <1>7 DEF IInv

\* makeConnection(), whether it gets an answer, throws, or send() fails.
LEMMA MakeConnectionKeeps ==
    ASSUME IInv, \/ \E username, passphrase \in BOOLEAN : MakeConnection(username, passphrase)
                 \/ MakeConnectionFails
    PROVE  IInv'
<1>1. owner = "client" /\ UNCHANGED <<owner, down>>
  BY DEF MakeConnection, MakeConnectionFails
<1>2. CASE WritesStream
  BY <1>1, <1>2, WritesKeep
<1>3. CASE UNCHANGED <<stream, history>>
  <2>1. UNCHANGED Aside /\ stream' = stream
    BY <1>1, <1>3 DEF Aside, history
  <2> QED
    BY <1>1, <2>1, AsideKeeps DEF IInv, StreamInv
<1> QED
  BY <1>2, <1>3 DEF MakeConnection, MakeConnectionFails

\* readProxy() returns what the buffer held and what it received, unless the
\* callback took it, and leaves the buffer empty.
LEMMA ReadProxyKeeps ==
    ASSUME IInv, NEW n \in ReadLengths, ReadProxy(n)
    PROVE  IInv'
<1>1. /\ owner = "client" /\ UNCHANGED <<owner, handed>> /\ CanRead(stream)
      /\ n \in 0 .. MaxAlloc /\ (NeedsSpace(stream, n) => ReadSize(stream, n) <= MaxAlloc)
  BY ProxyAssumption DEF ReadProxy, CanReserve
<1>2. PICK g \in Received(n) :
         /\ stream' = Drain(streamRead(stream, n, g)) /\ down' = Rest(g)
         /\ taken' = taken \o Cleared(stream.read_callback, Gathered(stream, n, g))
                          \o Data(streamRead(stream, n, g).io_buffer)
         /\ received' = received \o g
  BY DEF ReadProxy
<1> DEFINE s == streamRead(stream, n, g)
           old == Data(stream.io_buffer)
<1>3. g \in Seq(Cell) /\ Len(g) <= n /\ Rest(g) \in Seq(Cell)
  BY <1>1, ReceivedSeq DEF IInv
<1>4. /\ Sound(s) /\ Good(s.io_buffer)
      /\ Data(s.io_buffer) = IF stream.read_callback = "clears" THEN <<>> ELSE old \o g
  BY <1>1, <1>3, ReadStream DEF IInv, StreamInv
<1>g. Gathered(stream, n, g) # NoBuffer /\ Data(Gathered(stream, n, g)) = old \o g
  BY <1>1, <1>3, GatheredData DEF IInv, StreamInv
<1>5. Sound(stream') /\ Good(stream'.io_buffer) /\ Data(stream'.io_buffer) = <<>>
  <2> HIDE DEF s
  <2> QED
    BY <1>2, <1>4, DrainStream DEF s
<1>6. /\ stream.io_buffer # NoBuffer /\ handed # NoBuffer /\ handed \in Seq(Cell) /\ old \in Seq(Cell)
      /\ received \in Seq(Cell) /\ taken \in Seq(Cell) /\ handed \o received = taken \o old
  <2>1. stream.io_buffer # NoBuffer /\ Good(stream.io_buffer)
    BY <1>1 DEF CanRead, IInv, StreamInv, Sound
  <2>2. old \in Seq(Cell)
    BY <2>1, DataCells
  <2> QED
    BY <1>1, <2>1, <2>2 DEF IInv, StreamInv, OwnerInv, TunnelKeepsBytes
<1> HIDE DEF old
<1>7. received' = received \o g /\ taken' = taken \o (old \o g)
  <2>1. old \o g \in Seq(Cell) /\ taken \o (old \o g) \in Seq(Cell)
    BY <1>3, <1>6
  <2>2. CASE stream.read_callback = "clears"
    <3>1. taken' = (taken \o (old \o g)) \o <<>>
      BY <1>2, <1>4, <1>g, <2>2 DEF Cleared
    <3> QED
      BY <1>2, <2>1, <3>1
  <2>3. CASE stream.read_callback # "clears"
    <3>1. taken' = (taken \o <<>>) \o (old \o g)
      BY <1>2, <1>4, <2>3 DEF Cleared
    <3>2. taken \o <<>> = taken
      BY <1>6
    <3> QED
      BY <1>2, <3>1, <3>2
  <2> QED
    BY <2>2, <2>3
<1>8. received' \in Seq(Cell) /\ taken' \in Seq(Cell)
  <2>1. old \o g \in Seq(Cell)
    BY <1>3, <1>6
  <2> QED
    BY <1>3, <1>6, <1>7, <2>1
<1>9. StreamInv'
  BY <1>1, <1>2, <1>3, <1>5, <1>6, <1>8 DEF StreamInv
<1>10. stream'.io_buffer # NoBuffer
  BY <1>5, GoodExists
<1>11. OwnerInv'
  BY <1>1, <1>6, <1>10 DEF OwnerInv
<1>12. TunnelKeepsBytes'
  <2>1. \A a, b \in Seq(Cell) : a \o (b \o g) = (a \o b) \o g
    BY <1>3, ConcatAssociative
  <2>2. handed \o (received \o g) = (handed \o received) \o g
        /\ taken \o (old \o g) = (taken \o old) \o g
    BY <1>6, <2>1
  <2>3. handed \o received' = taken'
    BY <1>6, <1>7, <2>2
  <2>4. taken' \o <<>> = taken'
    BY <1>8
  <2> QED
    BY <1>1, <1>5, <2>3, <2>4 DEF TunnelKeepsBytes
<1> QED
  BY <1>9, <1>11, <1>12 DEF IInv

\* readProxy() whose streamRead() fails, and writeProxy()
LEMMA TunnelCallKeeps ==
    ASSUME IInv, WriteProxy \/ \E n \in ReadLengths : ReadProxyFails(n)
    PROVE  IInv'
<1>0. Sound(stream) /\ down \in Seq(Cell)
  BY DEF IInv, StreamInv
<1>2. CASE WriteProxy
  BY <1>2, WritesKeep DEF WriteProxy
<1>3. ASSUME NEW n \in ReadLengths, ReadProxyFails(n) PROVE IInv'
  <2>0. UNCHANGED Aside /\ down' = down
    BY <1>3 DEF ReadProxyFails, Aside, history
  <2>1. /\ n \in 0 .. MaxAlloc /\ CanRead(stream) /\ stream' = Reserved(stream, n)
        /\ NeedsSpace(stream, n) => ReadSize(stream, n) <= MaxAlloc
    BY <1>3, ProxyAssumption DEF ReadProxyFails, CanReserve, streamReadFails
  <2>2. /\ Sound(stream') /\ Good(stream'.io_buffer)
        /\ Data(stream'.io_buffer) = Data(stream.io_buffer)
    BY <1>0, <2>1, GrowStream
  <2>3. stream'.io_buffer # NoBuffer /\ stream.io_buffer # NoBuffer
    BY <2>1, <2>2, GoodExists DEF CanRead
  <2> QED
    BY <1>0, <2>0, <2>2, <2>3, AsideKeeps
<1> QED
  BY <1>2, <1>3

\* The proxy server and the origin server send symbols.
LEMMA ServerKeeps ==
    ASSUME IInv, (\E code \in Answers : ServerAnswers(code)) \/ OriginSends \/ ServerCloses
    PROVE  IInv'
<1>0. Sound(stream) /\ down \in Seq(Cell)
  BY DEF IInv, StreamInv
<1>1. UNCHANGED Aside /\ stream' = stream
  BY DEF ServerAnswers, OriginSends, ServerCloses, Aside, history
<1>2. {"H", "T", "P", "/", "1", ".", "SP", "a", "b", "CR", "LF"} \subseteq Cell
  BY ProxyAssumption DEF Cell, Response!Symbol, Response!Letter, Response!Digit, Response!Other
<1>3. ASSUME NEW code \in Answers, ServerAnswers(code) PROVE down' \in Seq(Cell)
  <2> DEFINE h == <<"H", "T", "T", "P", "/", "1", ".", "1", "SP">>
             e == <<"SP", "a", "CR", "LF", "CR", "LF">>
  <2>1. h \in Seq(Cell) /\ e \in Seq(Cell)
    BY <1>2
  <2>2. code \in Seq(Cell)
    <3>1. code \in Seq(Byte) /\ Byte \subseteq Cell
      BY ProxyAssumption DEF Cell
    <3> QED
      BY <3>1
  <2>3. down' = down \/ down' = down \o ((h \o code) \o e)
    BY <1>3 DEF ServerAnswers, AnswerText
  <2> HIDE DEF h, e
  <2>4. (h \o code) \o e \in Seq(Cell)
    BY <2>1, <2>2
  <2>5. down \o ((h \o code) \o e) \in Seq(Cell)
    BY <1>0, <2>4
  <2> QED
    BY <1>0, <2>3, <2>5
<1>4. down' \in Seq(Cell)
  BY <1>0, <1>2, <1>3 DEF OriginSends, ServerCloses
<1> QED
  BY <1>0, <1>1, <1>4, AsideKeeps

-----------------------------------------------------------------------------
(* The theorems.                                                           *)

\* The invariant holds at first.
LEMMA InvInit == Init => IInv
<1> SUFFICES ASSUME Init PROVE IInv
  OBVIOUS
<1>1. PICK fd \in Fds : stream = Connected(fd, InitialCapacity)
  BY DEF Init
<1>2. Good(create(InitialCapacity)) /\ create(InitialCapacity) \in Buffer
  BY ProxyAssumption, CreateData, GoodExists
<1>3. Sound(stream)
  BY <1>1, <1>2 DEF Sound, Connected, Stream, Callbacks
<1>4. /\ owner = "user" /\ down = <<>>
      /\ handed = NoBuffer /\ received = <<>> /\ taken = <<>>
  BY DEF Init
<1> QED
  BY <1>3, <1>4 DEF IInv, StreamInv, OwnerInv, TunnelKeepsBytes

\* Every step preserves it.
LEMMA InvStep == IInv /\ [Next]_vars => IInv'
<1> SUFFICES ASSUME IInv, [Next]_vars PROVE IInv'
  OBVIOUS
<1>1. CASE \/ UserWrites \/ UserFlushes \/ UserSpoils \/ \E n \in ReadLengths : UserReads(n)
           \/ \E pair \in CallbackPairs : UserSetsCallbacks(pair[1], pair[2])
  BY <1>1, UserKeeps
<1>2. CASE HandOver
  BY <1>2, HandOverKeeps
<1>3. ASSUME NEW n \in ReadLengths, ReadProxy(n) PROVE IInv'
  BY <1>3, ReadProxyKeeps
<1>4. CASE WriteProxy \/ \E n \in ReadLengths : ReadProxyFails(n)
  BY <1>4, TunnelCallKeeps
<1>5. CASE \/ \E username, passphrase \in BOOLEAN : MakeConnection(username, passphrase)
           \/ MakeConnectionFails
  BY <1>5, MakeConnectionKeeps
<1>6. CASE (\E code \in Answers : ServerAnswers(code)) \/ OriginSends \/ ServerCloses
  BY <1>6, ServerKeeps
<1>7. CASE UNCHANGED vars
  BY <1>7 DEF vars, history, server, IInv, StreamInv, OwnerInv, TunnelKeepsBytes
<1> QED
  BY <1>1, <1>2, <1>3, <1>4, <1>5, <1>6, <1>7 DEF Next, Crashed

\* The inductive invariant is an invariant.
THEOREM Invariance == Spec => []IInv
BY InvInit, InvStep, PTL DEF Spec

\* What readProxy() returns and callbacks clear, and what is left in the buffer,
\* is what the stream came with and what was received, in order, whatever calls
\* fail.
THEOREM TunnelIsLossless == Spec => []TunnelKeepsBytes
<1>1. IInv => TunnelKeepsBytes
  BY DEF IInv
<1> QED
  BY <1>1, Invariance, PTL

===============================================================================
