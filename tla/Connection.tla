----------------------------- MODULE Connection -----------------------------
(***************************************************************************)
(* A stream client (NetworkStream) connected to a peer that the event loop *)
(* serves with callbacks of the user that send back what they read, with   *)
(* readFromPeer() and writeToPeer() (PeerIO).  Between them are two byte   *)
(* streams; every call takes or delivers as little of them as it likes.    *)
(* Around them the process opens and closes other descriptors, whose       *)
(* numbers are reused.                                                     *)
(*                                                                         *)
(* The bytes that the client sends are 1, 2, 3, ...  A std::bad_alloc of   *)
(* reserve(), and an error of the peer's socket (both functions throw      *)
(* before they touch the buffer), change nothing and are left out.         *)
(***************************************************************************)
EXTENDS NetworkStream, PeerIO, SequencesExt

CONSTANTS
    NoStream,           \* there is no client object
    InitialCapacity,    \* of the client's buffer
    PeerCapacity,       \* of the peer's buffer
    ReadLengths,        \* the arguments of streamRead()
    CallbackPairs,      \* the read and write callbacks that are registered
    MaxSent             \* bound: the bytes that a client sends

ASSUME ConnectionAssumption ==
    /\ MaxSent \in Nat /\ Byte = 1 .. MaxSent
    /\ NoStream \notin Stream
    /\ InitialCapacity \in 0 .. MaxAlloc /\ PeerCapacity \in 0 .. MaxAlloc
    /\ ReadLengths \subseteq 0 .. MaxAlloc
    /\ CallbackPairs \subseteq Callbacks \X Callbacks

VARIABLES
    client,     \* the client object
    lent,       \* the buffer that the client's owner got from getIOBuffer()
    open,       \* the kernel: the open descriptors of the process
    others,     \* the descriptors that other code of the process owns
    up, down,   \* bytes on the way to the peer, and back
    ended,      \* the peer has closed its end
    peer_buffer,
    sent,       \* history: the number of bytes the kernel took from the client
    got,        \* history: what the client received
    taken,      \* history: what the owner consumed, cleared or dropped
    shortSend,  \* history: the peer's send() took less than it was given
    clobbered,  \* history: the peer read into a buffer that held data
    orphans,    \* history: the descriptors that throwing constructors left open
    closeFailed,\* history: this client's close() returned an error
    trespass    \* history: this client used a descriptor of other code

network == <<up, down, ended, peer_buffer, sent, shortSend, clobbered>>
table   == <<open, others, orphans, closeFailed, trespass>>
vars    == <<client, lent, network, table, got, taken>>

DataOf(b) == IF b = NoBuffer THEN <<>> ELSE Data(b)
Numbers(lo, hi) == [i \in 1 .. hi - lo |-> lo + i]

Fresh ==
    /\ up' = <<>> /\ down' = <<>> /\ ended' = FALSE /\ sent' = 0
    /\ peer_buffer' = create(PeerCapacity)
    /\ got' = <<>> /\ taken' = <<>>
    /\ shortSend' = FALSE /\ clobbered' = FALSE

Init ==
    /\ client = NoStream /\ lent = NoBuffer
    /\ open = {} /\ others = {} /\ orphans = {} /\ trespass = FALSE
    /\ up = <<>> /\ down = <<>> /\ ended = FALSE /\ sent = 0
    /\ peer_buffer = create(PeerCapacity)
    /\ got = <<>> /\ taken = <<>>
    /\ shortSend = FALSE /\ clobbered = FALSE /\ closeFailed = FALSE

-----------------------------------------------------------------------------
(* The client's life.                                                      *)

Construct(type, fd) ==
    /\ client = NoStream /\ fd \notin open
    /\ client' = Connected(fd, InitialCapacity)
    /\ open' = open \cup {fd}
    /\ closeFailed' = FALSE /\ trespass' = FALSE
    /\ Fresh
    /\ UNCHANGED <<lent, others, orphans>>

ConstructThrows(type, i) ==
    /\ client = NoStream
    /\ IF LeavesOpen(type, i)
       THEN \E fd \in Fds \ open : open' = open \cup {fd} /\ orphans' = orphans \cup {fd}
       ELSE UNCHANGED <<open, orphans>>
    /\ UNCHANGED <<client, lent, network, others, closeFailed, trespass, got, taken>>

Alive == client # NoStream

\* The descriptor is used: it may meanwhile be that of somebody else.
Using == trespass' = (trespass \/ client.endpoint_fd \in others)

\* What close() says.  Linux has released the descriptor even when it
\* reports an error; the exception then leaves is_connected_ set.
CloseOutcome(ok) ==
    /\ client' = IF ok THEN closeConnection(client) ELSE client
    /\ closeFailed' = (closeFailed \/ ~ ok)

Close(ok) ==
    /\ Alive /\ client.is_connected
    /\ ok => client.endpoint_fd \in open
    /\ CloseOutcome(ok)
    /\ open' = open \ {client.endpoint_fd} /\ others' = others \ {client.endpoint_fd}
    /\ Using
    /\ UNCHANGED <<lent, network, orphans, got, taken>>

\* Mutant: the destructor does not close.
DestroyWithoutClose ==
    /\ Alive
    /\ client' = NoStream /\ lent' = NoBuffer
    /\ Fresh
    /\ UNCHANGED table

\* The destructor closes.  (If that throws, the process ends.)
Destroy ==
    /\ Alive
    /\ IF client.is_connected
       THEN /\ client.endpoint_fd \in open
            /\ open' = open \ {client.endpoint_fd} /\ others' = others \ {client.endpoint_fd}
            /\ Using
       ELSE UNCHANGED <<open, others, trespass>>
    /\ client' = NoStream /\ lent' = NoBuffer
    /\ Fresh
    /\ UNCHANGED <<orphans, closeFailed>>

-----------------------------------------------------------------------------
(* The client's calls.                                                     *)

\* What the callback of a call cleared counts as taken.
Cleared(b, callback) == IF callback = "clears" THEN DataOf(b) ELSE <<>>

Read(n) ==
    /\ Alive /\ CanRead(client)
    /\ NeedsSpace(client, n) => ReadSize(client, n) <= MaxAlloc
    /\ client.endpoint_fd \in open \ others
    /\ down = <<>> => ended
    /\ \E j \in 0 .. n :
         /\ j <= Len(down) /\ (j = 0 => down = <<>> \/ n = 0)
         /\ client' = streamRead(client, n, SubSeq(down, 1, j))
         /\ down' = SubSeq(down, j + 1, Len(down))
         /\ got' = got \o SubSeq(down, 1, j)
         /\ taken' = taken \o Cleared(streamRead(setReadCallback(client, "none"), n,
                                          SubSeq(down, 1, j)).io_buffer, client.read_callback)
    /\ UNCHANGED <<lent, up, ended, peer_buffer, sent, shortSend, clobbered, table>>

\* recv() fails, as it does on a descriptor that is not open.
ReadFails(n) ==
    /\ Alive /\ CanRead(client)
    /\ NeedsSpace(client, n) => ReadSize(client, n) <= MaxAlloc
    /\ client' = streamReadFails(client, n)
    /\ Using
    /\ UNCHANGED <<lent, network, open, others, orphans, closeFailed, got, taken>>

\* send() takes j bytes, or fails with none.
Write(j) ==
    /\ Alive /\ CanWrite(client)
    /\ sent + j <= MaxSent
    /\ j > 0 => client.endpoint_fd \in open \ others /\ ~ ended
    /\ up' = up \o Numbers(sent, sent + j)
    /\ sent' = sent + j
    /\ client' = streamWrite(client)
    /\ taken' = taken \o Cleared(client.io_buffer, client.write_callback)
    /\ Using
    /\ UNCHANGED <<lent, down, ended, peer_buffer, got, shortSend, clobbered,
                   open, others, orphans, closeFailed>>

SetCallbacks(r, w) ==
    /\ Alive
    /\ client' = setReadCallback(setWriteCallback(client, w), r)
    /\ UNCHANGED <<lent, network, table, got, taken>>

\* flushBuffer(), which throws without a buffer.
Flush ==
    /\ Alive /\ client.io_buffer # NoBuffer
    /\ client' = flushBuffer(client)
    /\ taken' = taken \o Data(client.io_buffer)
    /\ UNCHANGED <<lent, network, table, got>>

\* getIOBuffer() of a buffer that is there.  (Otherwise it returns a null
\* pointer and changes nothing.)
Borrow ==
    /\ Alive /\ client.io_buffer # NoBuffer /\ lent = NoBuffer
    /\ lent' = client.io_buffer
    /\ client' = getIOBuffer(client)
    /\ UNCHANGED <<network, table, got, taken>>

\* setIOBuffer() of the lent buffer or of a new one destroys what was there.
Return(b) ==
    /\ Alive
    /\ client' = setIOBuffer(client, b)
    /\ taken' = taken \o DataOf(client.io_buffer)
    /\ lent' = IF b = lent THEN NoBuffer ELSE lent
    /\ UNCHANGED <<network, table, got>>

\* The owner consumes a byte of the lent buffer.
Consume ==
    /\ lent # NoBuffer /\ DataOf(lent) # <<>>
    /\ taken' = Append(taken, Head(Data(lent)))
    /\ lent' = modifyStartOffset(lent, 1)
    /\ UNCHANGED <<client, network, table, got>>

-----------------------------------------------------------------------------
(* The peer: the callbacks of the event loop.                              *)

PeerReads(j) ==
    /\ ~ ended /\ j \in 1 .. Len(up)
    /\ j <= ReadRoom(peer_buffer)
    /\ clobbered' = (clobbered \/ getDataSize(peer_buffer) > 0)
    /\ peer_buffer' = readFromPeer(peer_buffer, SubSeq(up, 1, j))
    /\ up' = SubSeq(up, j + 1, Len(up))
    /\ UNCHANGED <<client, lent, down, ended, sent, shortSend, table, got, taken>>

PeerWrites(j) ==
    /\ ~ ended /\ j \in 1 .. getDataSize(peer_buffer)
    /\ down' = down \o SubSeq(Data(peer_buffer), 1, j)
    /\ shortSend' = (shortSend \/ j < getDataSize(peer_buffer))
    /\ peer_buffer' = writeToPeer(peer_buffer)
    /\ UNCHANGED <<client, lent, up, ended, sent, clobbered, table, got, taken>>

\* The callbacks make room: they clear a buffer that was written out, or
\* double one that is full ("they must manually resize the IOBuffer").
PeerMakesRoom ==
    /\ ~ ended
    /\ \/ /\ getDataSize(peer_buffer) = 0 /\ peer_buffer.end_offset > 0
          /\ peer_buffer' = clear(peer_buffer)
       \/ /\ getAvailableSpace(peer_buffer) = 0
          /\ ReserveSize(peer_buffer, 0) \in 1 .. MaxAlloc
          /\ peer_buffer' = reserve(peer_buffer, 0)
    /\ UNCHANGED <<client, lent, up, down, ended, sent, shortSend, clobbered, table, got, taken>>

PeerCloses ==
    /\ Alive /\ ~ ended
    /\ ended' = TRUE
    /\ UNCHANGED <<client, lent, up, down, peer_buffer, sent, shortSend, clobbered, table,
                   got, taken>>

(* Other code of the process.                                              *)

OtherOpens(fd) ==
    /\ fd \notin open
    /\ open' = open \cup {fd} /\ others' = others \cup {fd}
    /\ UNCHANGED <<client, lent, network, orphans, closeFailed, trespass, got, taken>>

OtherCloses(fd) ==
    /\ fd \in others
    /\ open' = open \ {fd} /\ others' = others \ {fd}
    /\ UNCHANGED <<client, lent, network, orphans, closeFailed, trespass, got, taken>>

ClientCall ==
    \/ \E n \in ReadLengths : Read(n) \/ ReadFails(n)
    \/ \E j \in 0 .. MaxSent : Write(j)
    \/ \E pair \in CallbackPairs : SetCallbacks(pair[1], pair[2])
    \/ Flush \/ Borrow \/ Consume
    \/ \E b \in {lent, create(InitialCapacity)} \ {NoBuffer} : Return(b)

PeerCallback == \/ \E j \in 1 .. MaxSent : PeerReads(j) \/ PeerWrites(j)
                \/ PeerMakesRoom \/ PeerCloses

Next ==
    \/ \E type \in StreamTypes :
         \/ \E fd \in Fds : Construct(type, fd)
         \/ \E i \in DOMAIN Stages(type) : ConstructThrows(type, i)
    \/ \E ok \in BOOLEAN : Close(ok)
    \/ Destroy
    \/ ClientCall
    \/ PeerCallback
    \/ \E fd \in Fds : OtherOpens(fd) \/ OtherCloses(fd)

Spec == Init /\ [][Next]_vars

-----------------------------------------------------------------------------
(* Properties                                                              *)

\* The variables keep their types.
TypeOK ==
    /\ client = NoStream \/ client \in Stream
    /\ lent = NoBuffer \/ lent \in Buffer
    /\ others \subseteq Fds /\ open \subseteq Fds /\ orphans \subseteq Fds
    /\ peer_buffer \in Buffer
    /\ {up, down, got, taken} \subseteq Seq(Cell)
    /\ sent \in 0 .. MaxSent
    /\ {ended, shortSend, clobbered, closeFailed, trespass} \subseteq BOOLEAN

Increasing(s) == \A i, j \in 1 .. Len(s) : i < j => s[i] < s[j]

\* From the client to the peer and back no byte is lost, doubled, invented or
\* overtaken: what the client received, what is on its way back, what the
\* peer holds and what is on its way to it are the bytes sent, in order.  The
\* first exception is a short send() of the peer, after which bytes are
\* missing; the second is a peer that reads before it has written out what it
\* read before: the new bytes are stored over the old ones.
BytesGoAround ==
    ~ clobbered =>
        LET all == got \o down \o Data(peer_buffer) \o up
        IN  Increasing(all) /\ (~ shortSend => all = Numbers(0, sent))

\* Through growth, callbacks, flushes, loans and the exchange of the buffer,
\* every byte that streamRead() received is in one place: with the owner, in
\* the lent buffer or in the stream's; and each keeps the order.
ReceivedIsKept ==
    Alive /\ ~ clobbered =>
        LET own == DataOf(client.io_buffer)
            out == DataOf(lent)
        IN  /\ Increasing(own) /\ Increasing(out)
            /\ ToSet(own) \cup ToSet(out) \cup ToSet(taken) = ToSet(got)
            /\ Len(own) + Len(out) + Len(taken) = Len(got)

\* Every open descriptor has exactly one owner: other code, nobody (what a
\* constructor that threw left behind), or a client that is connected.  So a
\* client that was constructed leaves nothing open, however it ends: by
\* closeConnection(), by the destructor, or by both, with a close() that
\* failed and a number that was reused in between; and what it believes to be
\* connected to is open and its own, unless a close() of its own failed.
OpenIsOwned ==
    LET own == IF Alive /\ client.is_connected /\ ~ closeFailed THEN {client.endpoint_fd} ELSE {}
    IN  /\ open = others \cup orphans \cup own
        /\ others \cap orphans = {} /\ own \cap (others \cup orphans) = {}

\* A client receives on, sends on and closes no descriptor of anybody else,
\* unless a close() of its own failed: it then takes itself for connected.
KeepsOffOthers == trespass => closeFailed
=============================================================================
