----------------------------- MODULE HTTPParsers -----------------------------
(***************************************************************************)
(* The two incremental parsers, the code that calls them, and the peer     *)
(* that composes what is parsed.                                           *)
(*                                                                         *)
(* The text comes from a peer that fills a message with the setters and    *)
(* builds its text (HTTPMessages), or from any other (Streams).            *)
(*                                                                         *)
(* A caller hands over the text in pieces of any size, as they come off    *)
(* the wire, and keeps current_state and the message between the calls.    *)
(* It either leaves the consumed bytes in front of the new ones and moves  *)
(* the start offset (as the tests do), or it hands over a buffer that      *)
(* begins with the new bytes.  The difference is visible to the parsers,   *)
(* which in one place look at the byte before the current one.             *)
(*                                                                         *)
(* A step of the model is one iteration of a parser's loop.  The loops of  *)
(* both parsers are the same code around different switches, which are the *)
(* modules HTTPRequestParser and HTTPResponseParser.                       *)
(***************************************************************************)
EXTENDS HTTPMessages, LineBasedFrameDecoder

Request  == INSTANCE HTTPRequestParser
Response == INSTANCE HTTPResponseParser

Kinds == {"request", "response"}

CONSTANTS
    Streams,     \* Streams[kind]: the texts that peers send
    PieceSizes,  \* the sizes of the pieces (and always all that is left)
    Names, Values, Targets, Bodies, Codes,  \* what the setters are given
    Templates,   \* the ready-made responses that are used
    MaxCalls     \* bound: the setters that are called

ASSUME StreamsAssumption ==
    /\ \A kind \in Kinds : \A s \in Streams[kind] : s \in Seq(Symbol)
    /\ PieceSizes \subseteq Nat \ {0} /\ Templates \subseteq TemplateType
    /\ Names \cup Values \cup Targets \cup Bodies \cup Codes \subseteq Seq(Symbol)
    /\ \A body \in Bodies : Len(body) < 10
    /\ MaxCalls \in Nat

VARIABLES
    kind,           \* which parser
    stream,         \* what the peer sends
    fed,            \* how much of it was handed over (the end of the buffer)
    pos,            \* start_buffer: the bytes before it are consumed
    before,         \* the byte before start_buffer is in the buffer
    current_state,
    http_message,
    pc,             \* "compose", then "caller", or "loop" inside the parser
    blind,          \* history: the parser looked at a byte outside the buffer
    calls,          \* the number of setters called
    version,        \* http_message_version_ of the message that is composed
    sent            \* history: the message that was composed, if any

composer == <<calls, version, sent>>
vars == <<kind, stream, fed, pos, before, current_state, http_message, pc, blind, composer>>

Start(k)      == IF k = "request" THEN Request!Start ELSE Response!Start
NewMessage(k) == IF k = "request" THEN Request!NewMessage ELSE Response!NewMessage

Init ==
    /\ kind \in Kinds
    /\ \/ pc = "caller" /\ stream \in Streams[kind]
       \/ pc = "compose" /\ stream = <<>>
    /\ calls = 0 /\ version = "HTTP1_1" /\ sent = <<>>
    /\ fed = 0 /\ pos = 0 /\ before = FALSE
    /\ current_state = Start(kind)
    /\ http_message = NewMessage(kind)
    /\ blind = FALSE

-----------------------------------------------------------------------------
(* The peer composes a message.                                            *)

Compose(m) ==
    /\ pc = "compose" /\ calls < MaxCalls
    /\ calls' = calls + 1
    /\ http_message' = m
    /\ UNCHANGED <<kind, stream, fed, pos, before, current_state, pc, blind, version, sent>>

AddHeader ==
    \E name \in Names, value \in Values :
        Compose([http_message EXCEPT !.headers = addHeader(@, name, value)])

RemoveHeader ==
    \E name \in Names : Compose([http_message EXCEPT !.headers = removeHeader(@, name)])

SetTarget ==
    /\ kind = "request"
    /\ \E target \in Targets : Compose(setHTTPTargetResource(http_message, target))

SetType ==
    /\ kind = "request"
    /\ \E type \in Request!RequestType : Compose(Request!setRequestType(http_message, type))

SetCode ==
    /\ kind = "response"
    /\ \E code \in Codes : Compose([http_message EXCEPT !.response_code = code])

SetBody   == \E body \in Bodies : Compose(setRawBody(http_message, body))
FlushBody == Compose(setRawBody(http_message, <<>>))

SetVersion ==
    /\ pc = "compose" /\ calls < MaxCalls
    /\ calls' = calls + 1
    /\ version' \in {"HTTP1_1", "HTTP_2"}
    /\ UNCHANGED <<kind, stream, fed, pos, before, current_state, http_message, pc, blind, sent>>

\* getHTTPHeaders() moves the headers out: a use of them, buildRawMessage()
\* included, would find a null pointer, and the model ends.
TakeHeaders ==
    /\ pc = "compose" /\ pc' = "taken"
    /\ http_message' = [http_message EXCEPT !.headers = NoHeaders]
    /\ UNCHANGED <<kind, stream, fed, pos, before, current_state, blind, composer>>

\* A text is on its way, and the other side has a message to parse it into.
Send(m, texts) ==
    /\ pc = "compose" /\ pc' = "caller"
    /\ stream' \in texts /\ sent' = <<m>>
    /\ http_message' = NewMessage(kind) /\ version' = "HTTP1_1" /\ calls' = 0
    /\ UNCHANGED <<kind, fed, pos, before, current_state, blind>>

SendBuilt == Send(http_message, IF kind = "request" THEN buildRequest(http_message)
                                ELSE buildResponse(http_message, version))

SendTemplate ==
    /\ kind = "response"
    /\ \E type \in Templates, body \in Bodies :
          LET m == HTTPResponseTemplates(NewMessage(kind), type, body)
          IN  Send(m, buildResponse(m, "HTTP1_1"))

-----------------------------------------------------------------------------
(* The switch of either parser.                                            *)

Iteration(s, m, c, previous) ==
    IF kind = "request" THEN Request!Iteration(s, m, c, previous)
    ELSE Response!Iteration(s, m, c, previous)

LooksBack(s, c) ==
    IF kind = "request" THEN Request!LooksBack(s, c) ELSE Response!LooksBack(s, c)

BodyState == IF kind = "request" THEN Request!BodyState ELSE Response!BodyState
AfterBody(m, rest) ==
    IF kind = "request" THEN Request!Body(m, rest) ELSE Response!Body(m, rest)

Final == {"ParsingDone", "ProtocolError"}

-----------------------------------------------------------------------------
(* The caller and the call.                                                *)

\* Mutant: the piece may be longer than what there is.
CallPastTheEnd(n, keep) ==
    /\ pc = "caller"
    /\ fed < Len(stream)
    /\ fed' = fed + n
    /\ pos' = fed
    /\ before' = (keep /\ fed > 0)
    /\ pc' = "loop"
    /\ UNCHANGED <<kind, stream, current_state, http_message, blind, composer>>

Call(n, keep) ==
    /\ pc = "caller"
    /\ fed < Len(stream) /\ fed + n <= Len(stream)
    /\ fed' = fed + n
    /\ pos' = fed
    /\ before' = (keep /\ fed > 0)
    /\ pc' = "loop"
    /\ UNCHANGED <<kind, stream, current_state, http_message, blind, composer>>

\* while (start_buffer != end_buffer) ends, or goto FINISH in a final state:
\* what is left of the piece is ignored.
Finish ==
    /\ pc = "loop"
    /\ pos = fed \/ current_state \in Final
    /\ pc' = "caller"
    /\ UNCHANGED <<kind, stream, fed, pos, before, current_state, http_message, blind, composer>>

\* The rest of the piece is body, and the call returns.
Body ==
    /\ pc = "loop" /\ pos < fed
    /\ current_state = BodyState
    /\ LET r == AfterBody(http_message, SubSeq(stream, pos + 1, fed))
       IN  current_state' = r.state /\ http_message' = r.message
    /\ pc' = "caller"
    /\ UNCHANGED <<kind, stream, fed, pos, before, blind, composer>>

\* *(start_buffer - 1): at the beginning of the buffer that is whatever lies
\* in front of the allocated block, a colon or something else.
Previous == IF before THEN {stream[pos]} ELSE {":", "CTL"}

Advance ==
    /\ pc = "loop" /\ pos < fed
    /\ current_state \notin Final \cup {BodyState}
    /\ LET c == stream[pos + 1]
           look == LooksBack(current_state, c)
       IN  /\ \E previous \in (IF look THEN Previous ELSE {"CTL"}) :
                LET r == Iteration(current_state, http_message, c, previous)
                IN  /\ current_state' = r.state
                    /\ http_message' = r.message
                    /\ pos' = IF r.used THEN pos + 1 ELSE pos
                    /\ before' = (before \/ r.used)
           /\ blind' = (blind \/ (look /\ ~ before))
    /\ UNCHANGED <<kind, stream, fed, pc, composer>>

\* Everything was handed over, or the message is of no more use.
Over == pc = "taken" \/ (pc = "caller" /\ fed = Len(stream))

Composition == AddHeader \/ RemoveHeader \/ SetTarget \/ SetType \/ SetCode \/ SetBody
               \/ FlushBody \/ SetVersion \/ TakeHeaders \/ SendBuilt \/ SendTemplate

Loop == Finish \/ Body \/ Advance

Next ==
    \/ \E n \in PieceSizes \cup {Len(stream) - fed}, keep \in BOOLEAN : Call(n, keep)
    \/ Loop
    \/ Composition
    \/ Over /\ UNCHANGED vars

Spec == Init /\ [][Next]_vars

\* A call that was made keeps running.
FairSpec == Spec /\ WF_vars(Loop)

-----------------------------------------------------------------------------
(* What the text means, told without a state machine: lines that end in CR *)
(* LF; the first is the request line or the status line, the header        *)
(* section goes on to the first line without a colon.                      *)

Least(S) == CHOOSE i \in S : \A j \in S : i <= j

\* The symbols of s that stand at these places, in their order.
SymbolsAt(s, places) ==
    LET f[n \in 0 .. Len(s)] ==
          IF n = 0 THEN <<>> ELSE IF n \in places THEN Append(f[n - 1], s[n]) ELSE f[n - 1]
    IN  f[Len(s)]

At(c)    == {i \in 1 .. Len(stream) : stream[i] = c}

LineStarts   == {i \in 1 .. Len(stream) :
                   /\ i = 1 \/ (i - 2 \in At("CR") /\ i - 1 \in At("LF"))
                   /\ \E k \in At("CR") : k >= i}
Line(i)      == SubSeq(stream, i, Least({k \in At("CR") : k >= i}) - 1)
Colon(i)     == Least({k \in At(":") : k >= i})
EndStart     == Least({i \in LineStarts \ {1} : ":" \notin ToSet(Line(i))})
HeaderStarts == {i \in LineStarts \ {1} : i < EndStart}
BodyStart    == EndStart + Len(Line(EndStart)) + 2

\* The values as the parsers see them: the request's without spaces, the
\* response's without the characters that stand behind a colon.
Kept(k)    == IF kind = "request" THEN stream[k] # "SP" ELSE stream[k - 1] # ":"
NameAt(i)  == SubSeq(stream, i, Colon(i) - 1)
ValueAt(i) == SymbolsAt(stream, {k \in Colon(i) + 1 .. i + Len(Line(i)) - 1 : Kept(k)})

Headers == [n \in {NameAt(i) : i \in HeaderStarts} |->
               ValueAt(Least({i \in HeaderStarts : NameAt(i) = n}))]

Digits(s) == \A i \in 1 .. Len(s) : isdigit(s[i])

RequestLineSays(line, m) ==
    \E major \in Digit, k \in 0 .. Len(line) :
        LET minor == SubSeq(line, Len(line) - k + 1, Len(line))
        IN  /\ Digits(minor)
            /\ line = m.temp_http_method \o <<"SP">> \o m.target_resource \o
                      <<"SP", "H", "T", "T", "P", "/", major, ".">> \o minor

StatusLineSays(line, m) ==
    /\ SubSeq(line, 1, 7) = <<"H", "T", "T", "P", "/", "1", ".">>
    /\ \E i, j \in 8 .. Len(line) :
         LET code == SubSeq(line, i + 1, j - 1)
         IN  /\ i < j /\ line[i] = "SP" /\ line[j] = "SP"
             /\ Digits(SubSeq(line, 8, i - 1)) /\ Digits(code)
             /\ m.response_code = IF Len(code) < 3 THEN Response!Indeterminate
                                  ELSE SubSeq(code, 1, 3)

-----------------------------------------------------------------------------
(* Properties                                                              *)

\* The variables keep their types.
TypeOK ==
    /\ kind \in Kinds
    /\ stream \in Seq(Symbol)
    /\ fed \in 0 .. Len(stream)
    /\ pos \in 0 .. fed
    /\ before \in BOOLEAN /\ blind \in BOOLEAN
    /\ pc \in {"compose", "taken", "caller", "loop"}
    /\ version \in {"HTTP1_1", "HTTP_2"} /\ calls \in 0 .. MaxCalls /\ Len(sent) <= 1
    /\ current_state \in IF kind = "request" THEN Request!ParserState
                         ELSE Response!ResponseParserState
    /\ DOMAIN http_message = DOMAIN NewMessage(kind)
    /\ \A f \in {"raw_body", "temp_header_name", "temp_header_value"} :
          http_message[f] \in Seq(Symbol)
    /\ \A n \in DOMAIN http_message.headers :
          n \in Seq(Symbol) /\ http_message.headers[n] \in Seq(Symbol)
    /\ kind = "request" => http_message.request_type \in Request!RequestType

\* What reading the first length bytes in one go gives: the state and the
\* message at the end of the head, and what follows the head.
Whole(length) ==
    LET f[n \in 0 .. length] ==
          IF n = 0 THEN [state |-> Start(kind), message |-> NewMessage(kind), rest |-> <<>>]
          ELSE LET q == f[n - 1]
                   r == Iteration(q.state, q.message, stream[n],
                                  IF n = 1 THEN "CTL" ELSE stream[n - 1])
               IN  IF q.state \in Final THEN q
                   ELSE IF q.state = BodyState THEN [q EXCEPT !.rest = Append(@, stream[n])]
                   ELSE [state |-> r.state, message |-> r.message, rest |-> <<>>]
    IN  f[length]

\* However the text is cut into pieces, the parser is where it would be had
\* it seen the text at once, and the message is the same: of a request all of
\* the body, of a response the part of the body that came with its first
\* byte.  The one exception is a fresh buffer that begins inside a header's
\* value, where the parser looks at a byte that is not there.
CuttingIsInvisible ==
    pc = "caller" /\ ~ blind =>
        LET w    == Whole(fed)
            body == http_message.raw_body
        IN  /\ [http_message EXCEPT !.raw_body = <<>>] = w.message
            /\ kind = "request" \/ w.rest = <<>> => current_state = w.state /\ body = w.rest
            /\ kind = "response" /\ w.rest # <<>> =>
                  current_state = "ParsingDone" /\ body # <<>> /\ IsPrefix(body, w.rest)

\* A message that was accepted says what the text says: the first line, for
\* every header name the value of its first line, and the body.
MessageMatchesText ==
    current_state \in {"ParsingDone", "MessageBody", "ResponseMessageBody"} /\ ~ blind =>
        /\ IF kind = "request" THEN RequestLineSays(Line(1), http_message)
           ELSE StatusLineSays(Line(1), http_message)
        /\ http_message.headers = Headers
        /\ IsPrefix(http_message.raw_body, SubSeq(stream, BodyStart, fed))
        /\ pc = "caller" /\ current_state = "MessageBody" =>
              http_message.raw_body = SubSeq(stream, BodyStart, fed)

\* A call returns, unless a request's header section ends in a byte that is
\* not LF or belongs to a request whose method is none of the four.
CallReturns ==
    (pc = "loop") ~> \/ pc = "caller"
                     \/ /\ kind = "request" /\ current_state = "HeaderEndLF" /\ pos < fed
                        /\ \/ stream[pos + 1] # "LF"
                           \/ ~ \E w \in Methods : Request!MethodStartsWith(http_message, w)

\* What HTTP lets a message be made of: names of tokens, values of text, and
\* a target without spaces.  The setters do not check it.
Plain(m) ==
    /\ \A n \in DOMAIN m.headers :
          /\ \A i \in 1 .. Len(n) : is_token(n[i])
          /\ \A i \in 1 .. Len(m.headers[n]) : is_text(m.headers[n][i])
    /\ kind = "request" => \A i \in 1 .. Len(m.target_resource) :
                              isprint(m.target_resource[i]) /\ m.target_resource[i] # "SP"

\* What the parser drops of a value, and what it keeps.
Dropped(v, i) == i > 1 /\ v[i - 1] = ":" /\ (kind = "request" => v[i] = "SP")
AsParsed(v)   == SymbolsAt(v, {i \in 1 .. Len(v) : ~ Dropped(v, i)})

\* A request with another space in a value, or a code that has no case
Refused(m) ==
    IF kind = "request"
    THEN \E n \in DOMAIN m.headers : LET v == m.headers[n]
                                     IN  \E i \in 1 .. Len(v) : v[i] = "SP" /\ ~ Dropped(v, i)
    ELSE \A c \in Phrase : HTTPResponseCodes[c] # m.response_code

\* What one side composes the other side parses back, in any pieces: the type
\* or the code, the target and the headers, and the body where the parser
\* keeps one.  Values lose what the parser drops behind a colon; a request with
\* another space in a value, and a response with a number that has no case,
\* are refused.  (The call for a request of another type does not return.)
RoundTrip ==
    pc = "caller" /\ fed = Len(stream) /\ stream # <<>> /\ ~ blind
        /\ sent # <<>> /\ Plain(sent[1]) =>
        LET m     == sent[1]
            sized == headerContains(m.headers, <<"Content-Length">>)
        IN  IF Refused(m) THEN current_state = "ProtocolError"
            ELSE /\ http_message.headers = [n \in DOMAIN m.headers |-> AsParsed(m.headers[n])]
                 /\ \/ /\ kind = "request"
                       /\ http_message.request_type = m.request_type
                       /\ http_message.target_resource = m.target_resource
                       /\ IF m.request_type \in {"Post", "Put"}
                          THEN current_state = "MessageBody" /\ http_message.raw_body = m.raw_body
                          ELSE current_state = "ParsingDone" /\ http_message.raw_body = <<>>
                    \/ /\ kind = "response"
                       /\ http_message.response_code = m.response_code
                       /\ IF sized /\ m.raw_body = <<>> THEN current_state = "ResponseMessageBody"
                          ELSE current_state = "ParsingDone"
                       /\ IF sized THEN IsPrefix(http_message.raw_body, m.raw_body)
                          ELSE http_message.raw_body = <<>>

\* The line decoder, over the same texts (looked at before the first call).
\* Wherever the text is cut, decoding what is there and going on behind its
\* last frame finds the frames of the whole text, except if the text is cut
\* behind a CR and what lies beyond it looks like an LF.  With CR LF there is
\* a frame for every line up to the first CR that stands alone, it begins
\* where the line begins, and the search goes on behind the line's end.  (How
\* much of the line the frame holds is what FramesAreWholeLines is about.)
FramesStartLines ==
    pc = "caller" /\ fed = 0 =>
        /\ \A type \in TerminatorType, cut \in 0 .. Len(stream), outside \in {"CR", "LF", "CTL"} :
              LET all   == Decode(stream, 1, type, outside, "CTL")
                  first == Decode(SubSeq(stream, 1, cut), 1, type, outside, outside)
                  from  == IF first = <<>> THEN 1 ELSE Resume(Last(first))
              IN  \/ all = first \o Decode(stream, from, type, outside, "CTL")
                  \/ /\ type = "CarriageReturnNewLine" /\ outside = "LF"
                     /\ cut \in At("CR") /\ cut + 1 \notin At("LF")
        /\ LET frames == Decode(stream, 1, "CarriageReturnNewLine", "CTL", "CTL")
               ends   == {i \in At("CR") : \A j \in At("CR") : j <= i => j + 1 \in At("LF")}
           IN  /\ {Resume(frames[i]) : i \in DOMAIN frames} = {i + 2 : i \in ends}
               /\ {frames[i].begin : i \in DOMAIN frames} \subseteq {1} \cup {i + 2 : i \in ends}

\* "The string_views only point to the Line-Frames within the two iterators":
\* a frame lies within the text, and ends where the terminator of its line is.
FramesAreWholeLines ==
    pc = "caller" /\ fed = 0 =>
        LET frames == Decode(stream, 1, "CarriageReturnNewLine", "CTL", "CTL")
        IN  \A i \in DOMAIN frames :
              frames[i].length >= 0 /\ frames[i].begin + frames[i].length \in At("CR")
=============================================================================
