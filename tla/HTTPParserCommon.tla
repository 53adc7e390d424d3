-------------------------- MODULE HTTPParserCommon --------------------------
(***************************************************************************)
(* What the two HTTP parsers share: the classes of characters of           *)
(* blueth/http/HTTPParserCommon.hpp, the header map of                     *)
(* blueth/http/HTTPHeaders.hpp, and what the parsers do to the headers and *)
(* the body of a message (blueth/http/HTTPMessage.hpp has this code once   *)
(* for requests and once for responses).                                   *)
(*                                                                         *)
(* A text is a sequence of symbols.  A symbol stands for one character, or *)
(* for a run of token characters that the parsers treat alike (they push   *)
(* them back one by one and stay where they are): a method, or the name    *)
(* Content-Length, is one symbol.                                          *)
(***************************************************************************)
EXTENDS Naturals, Sequences

Methods == {"GET", "POST", "PUT", "HEAD"}
Digit   == {"0", "1", "2", "3", "4", "5", "6", "7", "8", "9"}
Letter  == {"H", "T", "P", "a", "b", "CONNECT", "UNSUPPORTED", "text/html", "Date",
            "Content-Length", "Content-Type", "WWW-Authenticate"}
Other   == {"/", ":", "SP", "HT", "CR", "LF", "CTL", "HI"}   \* HI: a byte above 127

\* The response codes, as their digits.
HTTPResponseCodes ==
    [Continue                    |-> <<"1", "0", "0">>, SwitchingProtocols   |-> <<"1", "0", "1">>,
     Ok                          |-> <<"2", "0", "0">>, Created              |-> <<"2", "0", "1">>,
     Accepted                    |-> <<"2", "0", "2">>,
     NonAuthoritativeInformation |-> <<"2", "0", "3">>, NoContent            |-> <<"2", "0", "4">>,
     ResetContent                |-> <<"2", "0", "5">>, PartialContent       |-> <<"2", "0", "6">>,
     MultipleChoices             |-> <<"3", "0", "0">>, MovedPermanently     |-> <<"3", "0", "1">>,
     Found                       |-> <<"3", "0", "2">>, SeeOther             |-> <<"3", "0", "3">>,
     NotModified                 |-> <<"3", "0", "4">>, UseProxy             |-> <<"3", "0", "5">>,
     TemporaryRedirect           |-> <<"3", "0", "7">>, BadRequest           |-> <<"4", "0", "0">>,
     Unauthorized                |-> <<"4", "0", "1">>, PaymentRequired      |-> <<"4", "0", "2">>,
     Forbidden                   |-> <<"4", "0", "3">>, NotFound             |-> <<"4", "0", "4">>,
     MethodNotAllowed            |-> <<"4", "0", "5">>, NotAcceptable        |-> <<"4", "0", "6">>,
     ProxyAuthenticationRequired |-> <<"4", "0", "7">>, RequestTimeOut       |-> <<"4", "0", "8">>,
     Conflict                    |-> <<"4", "0", "9">>, Gone                 |-> <<"4", "1", "0">>,
     LengthRequired              |-> <<"4", "1", "1">>, PreconditionFailed   |-> <<"4", "1", "2">>,
     RequestEntityTooLarge       |-> <<"4", "1", "3">>, RequestURITooLarge   |-> <<"4", "1", "4">>,
     UnsupportedMediaType        |-> <<"4", "1", "5">>,
     RequestRangeNotSatisfiable  |-> <<"4", "1", "6">>, ExpectationFailed    |-> <<"4", "1", "7">>,
     InternalServerError         |-> <<"5", "0", "0">>, NotImplemented       |-> <<"5", "0", "1">>,
     BadGateway                  |-> <<"5", "0", "2">>, ServiceUnavailable   |-> <<"5", "0", "3">>,
     GatewayTimeOut              |-> <<"5", "0", "4">>, HttpVersionNotSupported |-> <<"5", "0", "5">>,
     InvalidHttpCode             |-> <<"5", "0", "6">>]

\* string_from_response_code(): every code but the invalid one has a phrase of
\* its own, which is one symbol here, the name of the code.
Phrase == DOMAIN HTTPResponseCodes \ {"InvalidHttpCode"}

Symbol == Methods \cup Digit \cup Letter \cup Phrase \cup {"."} \cup Other

is_control(c)   == c \in {"CR", "LF", "HT", "CTL"}
is_separator(c) == c \in {"/", ":", "SP", "HT"}
is_char(c)      == c # "HI"
is_token(c)     == is_char(c) /\ ~ (is_control(c) \/ is_separator(c))
is_text(c)      == ~ is_control(c) \/ c = "SP" \/ c = "HT"
isdigit(c)      == c \in Digit
isprint(c)      == is_char(c) /\ ~ is_control(c)

-----------------------------------------------------------------------------
(* HTTPHeaders: a map that keeps the value it has.                         *)

NoHeaders == [n \in {} |-> <<>>]

\* Mutant: the last value of a name wins.
addHeaderOverwrites(headers, name, value) ==
    [n \in DOMAIN headers \cup {name} |-> IF n = name THEN value ELSE headers[n]]

addHeader(headers, name, value) ==
    [n \in DOMAIN headers \cup {name} |->
        IF n \in DOMAIN headers THEN headers[n] ELSE value]

removeHeader(headers, name) == [n \in DOMAIN headers \ {name} |-> headers[n]]

headerContains(headers, name) == name \in DOMAIN headers

-----------------------------------------------------------------------------
(* The members of both kinds of message.  The version matters only when a  *)
(* response is built; HTTPParsers keeps it apart.                          *)

pushBackHeaderName(m, c)  == [m EXCEPT !.temp_header_name = Append(@, c)]
pushBackHeaderValue(m, c) == [m EXCEPT !.temp_header_value = Append(@, c)]

addTempHeadersHolderToMessage(m) ==
    [m EXCEPT !.headers = addHeader(@, m.temp_header_name, m.temp_header_value),
              !.temp_header_name = <<>>, !.temp_header_value = <<>>]

\* The body is replaced.  (Mutant of pushBackRawBody.)
setRawBody(m, s) == [m EXCEPT !.raw_body = s]

pushBackRawBody(m, s) == [m EXCEPT !.raw_body = @ \o s]

-----------------------------------------------------------------------------
(* One iteration of a parser's loop: the state and the message after it,   *)
(* and whether the current byte was consumed.                              *)

Consume(s, m) == [state |-> s, message |-> m, used |-> TRUE]
Reject(m)     == [state |-> "ProtocolError", message |-> m, used |-> FALSE]

HeaderName(m, c) ==
    CASE is_token(c) -> Consume("HeaderName", pushBackHeaderName(m, c))
      [] c = ":"     -> Consume("HeaderValue", m)
      [] c = "CR"    -> Consume("HeaderEndLF", m)
      [] OTHER       -> Reject(m)

HeaderValueLF(m, c) ==
    IF c = "LF" THEN Consume("HeaderName", addTempHeadersHolderToMessage(m)) ELSE Reject(m)
=============================================================================
