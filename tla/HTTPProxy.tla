------------------------------ MODULE HTTPProxy ------------------------------
(***************************************************************************)
(* blueth/http/HTTPProxy.hpp: HTTPProxyClient, on a stream client          *)
(* (NetworkStream) and the response parser (HTTPResponseParser), with the  *)
(* proxy server at the other end as environment.                           *)
(*                                                                         *)
(* A stream belongs to its user, who may exchange ordinary requests with   *)
(* the proxy server over it and give it callbacks, until it is moved into  *)
(* the HTTPProxyClient; the callbacks move with it.                        *)
(* What is read are texts of symbols, which go through the parser; of what *)
(* is written only the kind of request matters.                            *)
(***************************************************************************)
EXTENDS NetworkStream, SequencesExt

Response == INSTANCE HTTPResponseParser

CONSTANTS
    InitialCapacity,    \* default_io_buffer_size
    ReadLengths,        \* the arguments of streamRead() and readProxy()
    ShortReads,         \* the numbers of bytes a read may give though there are more
    CallbackPairs,      \* the read and write callbacks that the user sets
    Answers,            \* the response codes that the proxy server may give
    MaxRequests,        \* bound: requests that are written
    MaxTunnelled        \* bound: bytes that the origin server sends

ASSUME ProxyAssumption ==
    /\ Byte = Response!Symbol /\ NoBuffer \notin Seq(Cell)
    /\ InitialCapacity \in 0 .. MaxAlloc /\ ReadLengths \subseteq 0 .. MaxAlloc
    /\ Answers \subseteq Seq(Byte) /\ CallbackPairs \subseteq Callbacks \X Callbacks

VARIABLES
    stream,     \* network_handler_
    owner,      \* "user", or "client" once it was moved in
    proxy_connection_made,
    verdict,    \* how the last makeConnection() ended
    requests,   \* what the proxy server has not answered yet
    written,    \* the number of requests written
    tunnel,     \* the proxy server has accepted a CONNECT
    tunnelled,  \* the number of bytes sent by the origin server
    ended,      \* the proxy server has closed the connection
    down,       \* bytes on the way to the stream
    handed,     \* history: what the buffer held when the stream was moved in
    received,   \* history: what readProxy() received
    taken       \* history: what readProxy() returned and callbacks cleared

server  == <<requests, written, tunnel, tunnelled, ended>>
history == <<handed, received, taken>>
vars    == <<stream, owner, proxy_connection_made, verdict, server, down, history>>

Init ==
    /\ \E fd \in Fds : stream = Connected(fd, InitialCapacity)
    /\ owner = "user" /\ proxy_connection_made = FALSE /\ verdict = "none"
    /\ requests = <<>> /\ written = 0 /\ tunnel = FALSE /\ tunnelled = 0
    /\ ended = FALSE /\ down = <<>>
    /\ handed = NoBuffer /\ received = <<>> /\ taken = <<>>

-----------------------------------------------------------------------------
(* The user of the stream.                                                 *)

\* What recv() may deliver; nothing only at the end of the stream.
Received(n) ==
    LET most == IF n < Len(down) THEN n ELSE Len(down)
    IN  {SubSeq(down, 1, j) : j \in (ShortReads \cup {most}) \cap
                                    (IF ended /\ down = <<>> THEN 0 ELSE 1) .. most}
Rest(got)   == SubSeq(down, Len(got) + 1, Len(down))
CanReserve(n) == NeedsSpace(stream, n) => ReadSize(stream, n) <= MaxAlloc

\* A request is written as a whole, or in part; the caller looks at the sign
\* of the result only.
Sends(request) ==
    /\ written < MaxRequests
    /\ written' = written + 1
    /\ requests' \in {Append(requests, request), Append(requests, "truncated")}
    /\ UNCHANGED <<tunnel, tunnelled, ended>>

UserSetsCallbacks(r, w) ==
    /\ owner = "user"
    /\ stream' = setReadCallback(setWriteCallback(stream, w), r)
    /\ UNCHANGED <<owner, proxy_connection_made, verdict, server, down, history>>

UserWrites ==
    /\ owner = "user" /\ CanWrite(stream)
    /\ Sends("GET")
    /\ stream' = streamWrite(stream)
    /\ UNCHANGED <<owner, proxy_connection_made, verdict, down, history>>

UserReads(n) ==
    /\ owner = "user" /\ CanRead(stream) /\ CanReserve(n)
    /\ \E got \in Received(n) :
         stream' = streamRead(stream, n, got) /\ down' = Rest(got)
    /\ UNCHANGED <<owner, proxy_connection_made, verdict, server, history>>

UserFlushes ==
    /\ owner = "user" /\ stream.io_buffer # NoBuffer
    /\ stream' = flushBuffer(stream)
    /\ UNCHANGED <<owner, proxy_connection_made, verdict, server, down, history>>

\* The user keeps the buffer, or closes the connection, and moves the stream
\* all the same.
UserSpoils ==
    /\ owner = "user"
    /\ stream' \in {getIOBuffer(stream), closeConnection(stream)}
    /\ UNCHANGED <<owner, proxy_connection_made, verdict, server, down, history>>

\* HTTPProxyClient(std::move(stream))
HandOver ==
    /\ owner = "user"
    /\ owner' = "client"
    /\ handed' = IF stream.io_buffer = NoBuffer THEN NoBuffer ELSE Data(stream.io_buffer)
    /\ UNCHANGED <<stream, proxy_connection_made, verdict, server, down, received, taken>>

-----------------------------------------------------------------------------
(* makeConnection()                                                        *)

\* ParseHTTP1_1ResponseMessage() over all of a text.
Parse(text) ==
    LET f[n \in 0 .. Len(text)] ==
          IF n = 0 THEN [state |-> Response!Start, message |-> Response!NewMessage]
          ELSE LET q == f[n - 1]
               IN  IF q.state \in {"ParsingDone", "ProtocolError"} THEN q
                   ELSE IF q.state = Response!BodyState
                   THEN Response!Body(q.message, SubSeq(text, n, Len(text)))
                   ELSE Response!Iteration(q.state, q.message, text[n],
                                           IF n = 1 THEN "CTL" ELSE text[n - 1])
    IN  f[Len(text)]

\* Its return code once the request was written.
StatusOf(text) ==
    LET p == Parse(text)
        c == p.message.response_code
    IN  IF p.state # "ParsingDone" THEN "InvalidResponse"
        ELSE IF c = <<"4", "0", "1">> THEN "ProxyAuthRequired"
        ELSE IF c = <<"2", "0", "0">> THEN "ConnectionSuccess" ELSE "NoProxySupport"

\* The CONNECT request; credentials are added when both parts are given.
Connect(username, passphrase) ==
    IF username /\ passphrase THEN "CONNECT with credentials" ELSE "CONNECT"

\* What is parsed: what the stream's buffer holds, without a streamRead().
AnswerIn(b) == StatusOf(Data(b))

\* What a callback clears.
Cleared(callback, b) == IF callback = "clears" /\ b # NoBuffer THEN Data(b) ELSE <<>>

\* streamWrite() of the proxy client, with what its callback does.
WritesStream ==
    /\ stream' = streamWrite(stream)
    /\ taken' = taken \o Cleared(stream.write_callback, stream.io_buffer)
    /\ UNCHANGED <<handed, received>>

MakeConnection(username, passphrase) ==
    /\ owner = "client" /\ CanWrite(stream) /\ verdict # "crash"
    /\ Sends(Connect(username, passphrase))
    /\ WritesStream
    /\ verdict' = IF stream.io_buffer = NoBuffer THEN "crash" ELSE AnswerIn(stream'.io_buffer)
    /\ proxy_connection_made' = (proxy_connection_made \/ verdict' = "ConnectionSuccess")
    /\ UNCHANGED <<owner, down>>

\* The stream throws because it is closed, or send() fails.
MakeConnectionFails ==
    /\ owner = "client" /\ verdict # "crash"
    /\ \/ ~ CanWrite(stream) /\ verdict' = "threw" /\ UNCHANGED <<stream, history>>
       \/ CanWrite(stream) /\ verdict' = "NetworkError" /\ WritesStream
    /\ UNCHANGED <<owner, proxy_connection_made, server, down>>

-----------------------------------------------------------------------------
(* readProxy() and writeProxy()                                            *)

\* Mutant: the bytes stay in the buffer.
LeavesBytes(s) == setIOBuffer(getIOBuffer(s), s.io_buffer)

\* The buffer is taken out, cleared and put back.
Drain(s) == setIOBuffer(getIOBuffer(s), clear(s.io_buffer))

\* What a streamRead() shows to its callback.
Gathered(s, n, got) == streamRead(setReadCallback(s, "none"), n, got).io_buffer

\* All that the buffer holds is returned, what it held before included; after
\* a callback that has cleared it that is nothing.
ReadProxy(n) ==
    /\ owner = "client" /\ verdict # "crash"
    /\ proxy_connection_made /\ CanRead(stream) /\ CanReserve(n)
    /\ \E got \in Received(n) :
         LET s == streamRead(stream, n, got)
         IN  /\ stream' = Drain(s)
             /\ taken' = taken \o Cleared(stream.read_callback, Gathered(stream, n, got))
                              \o Data(s.io_buffer)
             /\ received' = received \o got
             /\ down' = Rest(got)
    /\ UNCHANGED <<owner, proxy_connection_made, verdict, server, handed>>

\* streamRead() fails, and the result is an empty string.
ReadProxyFails(n) ==
    /\ owner = "client" /\ verdict # "crash"
    /\ proxy_connection_made /\ CanRead(stream) /\ CanReserve(n)
    /\ stream' = streamReadFails(stream, n)
    /\ UNCHANGED <<owner, proxy_connection_made, verdict, server, down, history>>

WriteProxy ==
    /\ owner = "client" /\ verdict # "crash"
    /\ proxy_connection_made /\ CanWrite(stream)
    /\ Sends("data")
    /\ WritesStream
    /\ UNCHANGED <<owner, proxy_connection_made, verdict, down>>

-----------------------------------------------------------------------------
(* The proxy server answers what is a request to it, in order, and relays  *)
(* what the origin server sends once there is a tunnel.                    *)

AnswerText(code) ==
    <<"H", "T", "T", "P", "/", "1", ".", "1", "SP">> \o code
        \o <<"SP", "a", "CR", "LF", "CR", "LF">>

ServerAnswers(code) ==
    /\ requests # <<>> /\ ~ tunnel /\ ~ ended
    /\ requests' = Tail(requests)
    /\ IF Head(requests) \in {"truncated", "data"} THEN UNCHANGED <<down, tunnel>>
       ELSE /\ down' = down \o AnswerText(code)
            /\ tunnel' = (Head(requests) # "GET" /\ code = <<"2", "0", "0">>)
    /\ UNCHANGED <<stream, owner, proxy_connection_made, verdict, written, tunnelled,
                   ended, history>>

OriginSends ==
    /\ tunnel /\ ~ ended /\ tunnelled < MaxTunnelled
    /\ tunnelled' = tunnelled + 1
    /\ down' = Append(down, "b")
    /\ UNCHANGED <<stream, owner, proxy_connection_made, verdict, requests, written, tunnel,
                   ended, history>>

ServerCloses ==
    /\ ~ ended /\ ended' = TRUE
    /\ UNCHANGED <<stream, owner, proxy_connection_made, verdict, requests, written, tunnel,
                   tunnelled, down, history>>

Crashed == verdict = "crash" /\ UNCHANGED vars

Next ==
    \/ \E pair \in CallbackPairs : UserSetsCallbacks(pair[1], pair[2])
    \/ UserWrites \/ UserFlushes \/ UserSpoils \/ HandOver
    \/ \E n \in ReadLengths : UserReads(n) \/ ReadProxy(n) \/ ReadProxyFails(n)
    \/ \E username, passphrase \in BOOLEAN : MakeConnection(username, passphrase)
    \/ MakeConnectionFails \/ WriteProxy
    \/ \E code \in Answers : ServerAnswers(code)
    \/ OriginSends \/ ServerCloses \/ Crashed

Spec == Init /\ [][Next]_vars

-----------------------------------------------------------------------------
(* Properties                                                              *)

\* The tunnel keeps every byte: what readProxy() returned and the stream's
\* callbacks cleared so far, followed by what is in the buffer, is what the
\* buffer held at first, followed by what was received, whether calls failed in
\* between or not.
TunnelKeepsBytes ==
    owner = "client" /\ handed # NoBuffer =>
        handed \o received = taken \o Data(stream.io_buffer)

\* "ConnectionSuccess: Means, we created a HTTP Tunnel through the Proxy
\* successfully": the proxy server has accepted a CONNECT.
SuccessMeansTunnel == verdict = "ConnectionSuccess" => tunnel
=============================================================================
