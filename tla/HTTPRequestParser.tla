-------------------------- MODULE HTTPRequestParser --------------------------
(***************************************************************************)
(* blueth/http/HTTPParserStateMachine.hpp: one iteration of the loop of    *)
(* ParseHTTP1_1RequestMessage, and the HTTPRequestMessage that it fills.   *)
(* HTTPParsers calls it.                                                   *)
(***************************************************************************)
EXTENDS HTTPParserCommon

LiteralState == {"RequestProtocolH", "RequestProtocolT1", "RequestProtocolT2",
                 "RequestProtocolP", "RequestProtocolSlash", "RequestProtocolDot",
                 "RequestLineLF"}

ParserState == LiteralState \cup
    {"RequestLineBegin", "RequestMethod", "RequestResource",
     "RequestProtocolVersionMajor", "RequestProtocolVersionMinor", "HeaderName",
     "HeaderValue", "HeaderValueLF", "HeaderEndLF", "MessageBody", "ParsingDone",
     "ProtocolError"}

RequestType == {"Get", "Post", "Put", "Head", "Connect", "Unsupported"}

Start == "RequestLineBegin"

NewMessage ==
    [request_type |-> "Unsupported", target_resource |-> <<>>, headers |-> NoHeaders,
     raw_body |-> <<>>, temp_http_method |-> <<>>, temp_header_name |-> <<>>,
     temp_header_value |-> <<>>]

pushBackRequestMethod(m, c)  == [m EXCEPT !.temp_http_method = Append(@, c)]
pushBackTargetResource(m, c) == [m EXCEPT !.target_resource = Append(@, c)]
setRequestType(m, type)      == [m EXCEPT !.request_type = type]

\* str3cmp and str4cmp look at the first characters of the method only.
MethodStartsWith(m, word) == m.temp_http_method # <<>> /\ Head(m.temp_http_method) = word

-----------------------------------------------------------------------------

\* The states that accept one character, and the state that follows.
Literal ==
    [RequestProtocolH     |-> <<"H", "RequestProtocolT1">>,
     RequestProtocolT1    |-> <<"T", "RequestProtocolT2">>,
     RequestProtocolT2    |-> <<"T", "RequestProtocolP">>,
     RequestProtocolP     |-> <<"P", "RequestProtocolSlash">>,
     RequestProtocolSlash |-> <<"/", "RequestProtocolVersionMajor">>,
     RequestProtocolDot   |-> <<".", "RequestProtocolVersionMinor">>,
     RequestLineLF        |-> <<"LF", "HeaderName">>]

RequestLine(s, m, c) ==
    CASE s \in LiteralState /\ c = Literal[s][1] -> Consume(Literal[s][2], m)
      [] s \in {"RequestLineBegin", "RequestMethod"} /\ is_token(c) ->
            Consume("RequestMethod", pushBackRequestMethod(m, c))
      [] s = "RequestMethod" /\ c = "SP" -> Consume("RequestResource", m)
      [] s = "RequestResource" /\ c = "SP" -> Consume("RequestProtocolH", m)
      [] s = "RequestResource" /\ c # "SP" /\ isprint(c) ->
            Consume(s, pushBackTargetResource(m, c))
      [] s = "RequestProtocolVersionMajor" /\ isdigit(c) -> Consume("RequestProtocolDot", m)
      [] s = "RequestProtocolVersionMinor" /\ isdigit(c) -> Consume(s, m)
      [] s = "RequestProtocolVersionMinor" /\ c = "CR" -> Consume("RequestLineLF", m)
      [] OTHER -> Reject(m)

\* Where the parser reads *(start_buffer - 1).
LooksBack(s, c) == s = "HeaderValue" /\ c = "SP"

\* A space in a value is dropped right behind a colon and refused elsewhere.
HeaderValue(m, c, previous) ==
    CASE c = "CR" -> Consume("HeaderValueLF", m)
      [] c = "SP" /\ previous = ":" -> Consume("HeaderValue", m)
      [] c # "SP" /\ is_text(c) -> Consume("HeaderValue", pushBackHeaderValue(m, c))
      [] OTHER -> Reject(m)

\* Mutant: the byte is left where it is for every method.
HeaderEndStuck(m, c) ==
    [state |-> "HeaderEndLF", message |-> setRequestType(m, "Unsupported"), used |-> FALSE]

\* With another method, or another byte, nothing moves.
HeaderEndLF(m, c) ==
    CASE c # "LF" -> [state |-> "HeaderEndLF", message |-> m, used |-> FALSE]
      [] c = "LF" /\ MethodStartsWith(m, "GET")  -> Consume("ParsingDone", setRequestType(m, "Get"))
      [] c = "LF" /\ MethodStartsWith(m, "POST") -> Consume("MessageBody", setRequestType(m, "Post"))
      [] c = "LF" /\ MethodStartsWith(m, "PUT")  -> Consume("MessageBody", setRequestType(m, "Put"))
      [] c = "LF" /\ MethodStartsWith(m, "HEAD") -> Consume("ParsingDone", setRequestType(m, "Head"))
      [] OTHER -> [state |-> "HeaderEndLF", message |-> setRequestType(m, "Unsupported"),
                   used |-> FALSE]

Iteration(s, m, c, previous) ==
    CASE s = "HeaderName"    -> HeaderName(m, c)
      [] s = "HeaderValue"   -> HeaderValue(m, c, previous)
      [] s = "HeaderValueLF" -> HeaderValueLF(m, c)
      [] s = "HeaderEndLF"   -> HeaderEndLF(m, c)
      [] OTHER               -> RequestLine(s, m, c)

\* The rest of the piece is body; the state stays.
BodyState == "MessageBody"
Body(m, rest) == [state |-> "MessageBody", message |-> pushBackRawBody(m, rest)]
=============================================================================
