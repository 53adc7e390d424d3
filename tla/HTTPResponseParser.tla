------------------------- MODULE HTTPResponseParser -------------------------
(***************************************************************************)
(* blueth/http/HTTPParserStateMachineResponse.hpp: one iteration of the    *)
(* loop of ParseHTTP1_1ResponseMessage, and the HTTPResponseMessage that   *)
(* it fills.  HTTPParsers calls it.                                        *)
(***************************************************************************)
EXTENDS HTTPParserCommon

LiteralState == {"ResponseProtocolH", "ResponseProtocolT1", "ResponseProtocolT2",
                 "ResponseProtocolP", "ResponseProtocolSlash",
                 "ResponseProtocolVersionMajor", "ResponseProtocolDot", "StatusLineLF"}

ResponseParserState == LiteralState \cup
    {"ResponseProtocolVersionMinor", "StatusCode", "ResponseReasonPhrase", "HeaderName",
     "HeaderValue", "HeaderValueLF", "HeaderEndLF", "ResponseMessageBody",
     "ParsingDone", "ProtocolError"}

Start == "ResponseProtocolH"

\* A response code is its three digits.
\* The holder of the digits has three places that nobody initialises: a code
\* read from fewer digits has whatever value lay there.
Indeterminate == <<"?">>

NewMessage ==
    [response_code |-> HTTPResponseCodes["BadRequest"], headers |-> NoHeaders, raw_body |-> <<>>,
     temp_http_status_code |-> <<>>, temp_header_name |-> <<>>, temp_header_value |-> <<>>]

pushBackResponseCode(m, c) ==
    [m EXCEPT !.temp_http_status_code = IF Len(@) <= 2 THEN Append(@, c) ELSE @]

\* setResponseCode(atoi(getTempStatusCode()))
setResponseCode(m) ==
    [m EXCEPT !.response_code = IF Len(m.temp_http_status_code) < 3 THEN Indeterminate
                                ELSE m.temp_http_status_code]

-----------------------------------------------------------------------------

\* The states that accept one character, and the state that follows.
Literal ==
    [ResponseProtocolH            |-> <<"H", "ResponseProtocolT1">>,
     ResponseProtocolT1           |-> <<"T", "ResponseProtocolT2">>,
     ResponseProtocolT2           |-> <<"T", "ResponseProtocolP">>,
     ResponseProtocolP            |-> <<"P", "ResponseProtocolSlash">>,
     ResponseProtocolSlash        |-> <<"/", "ResponseProtocolVersionMajor">>,
     ResponseProtocolVersionMajor |-> <<"1", "ResponseProtocolDot">>,
     ResponseProtocolDot          |-> <<".", "ResponseProtocolVersionMinor">>,
     StatusLineLF                 |-> <<"LF", "HeaderName">>]

StatusLine(s, m, c) ==
    CASE s \in LiteralState /\ c = Literal[s][1] -> Consume(Literal[s][2], m)
      [] s = "ResponseProtocolVersionMinor" /\ isdigit(c) -> Consume(s, m)
      [] s = "ResponseProtocolVersionMinor" /\ c = "SP" -> Consume("StatusCode", m)
      [] s = "StatusCode" /\ isdigit(c) -> Consume(s, pushBackResponseCode(m, c))
      [] s = "StatusCode" /\ c = "SP" -> Consume("ResponseReasonPhrase", setResponseCode(m))
      [] s = "ResponseReasonPhrase" /\ c = "CR" -> Consume("StatusLineLF", m)
      [] s = "ResponseReasonPhrase" /\ is_text(c) -> Consume(s, m)
      [] OTHER -> Reject(m)

\* Where the parser reads *(start_buffer - 1).
LooksBack(s, c) == s = "HeaderValue" /\ c # "CR" /\ is_text(c)

\* Whatever stands right behind a colon is dropped, all along the value.
HeaderValue(m, c, previous) ==
    CASE c = "CR" -> Consume("HeaderValueLF", m)
      [] c # "CR" /\ is_text(c) /\ previous = ":" -> Consume("HeaderValue", m)
      [] c # "CR" /\ is_text(c) /\ previous # ":" ->
            Consume("HeaderValue", pushBackHeaderValue(m, c))
      [] OTHER -> Reject(m)

HeaderEndLF(m, c) ==
    IF c # "LF" THEN Reject(m)
    ELSE IF headerContains(m.headers, <<"Content-Length">>)
    THEN Consume("ResponseMessageBody", m)
    ELSE Consume("ParsingDone", m)

Iteration(s, m, c, previous) ==
    CASE s = "HeaderName"    -> HeaderName(m, c)
      [] s = "HeaderValue"   -> HeaderValue(m, c, previous)
      [] s = "HeaderValueLF" -> HeaderValueLF(m, c)
      [] s = "HeaderEndLF"   -> HeaderEndLF(m, c)
      [] OTHER               -> StatusLine(s, m, c)

\* The rest of the piece is the body, and that was all.
BodyState == "ResponseMessageBody"
Body(m, rest) == [state |-> "ParsingDone", message |-> pushBackRawBody(m, rest)]
=============================================================================
