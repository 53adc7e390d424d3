---------------------------- MODULE HTTPMessages ----------------------------
(***************************************************************************)
(* The side that composes messages: what blueth/http/HTTPMessage.hpp and   *)
(* HTTPHeaders.hpp do for a user who fills a message with the setters and  *)
(* turns it into text, and the ready-made responses of                     *)
(* HTTPCommonResponseMessageTemplate.hpp.                                  *)
(***************************************************************************)
EXTENDS HTTPParserCommon, SequencesExt

Crlf == <<"CR", "LF">>

-----------------------------------------------------------------------------
(* HTTPHeaders::buildRawHeader()                                           *)

\* Mutant: no space behind the colon.
TightHeader(name, value) == name \o <<":">> \o value \o Crlf

HeaderText(name, value) == name \o <<":", "SP">> \o value \o Crlf

\* The map has no order: the lines come in any.
buildRawHeader(headers) ==
    {FlattenSeq([i \in 1 .. Len(order) |-> HeaderText(order[i], headers[order[i]])]) \o Crlf :
        order \in SetToSeqs(DOMAIN headers)}

-----------------------------------------------------------------------------
(* HTTPRequestMessage                                                      *)

\* The setter appends.
setHTTPTargetResource(m, target) == [m EXCEPT !.target_resource = @ \o target]

MethodText ==
    [Get |-> "GET", Post |-> "POST", Head |-> "HEAD", Put |-> "PUT",
     Connect |-> "CONNECT", Unsupported |-> "UNSUPPORTED"]

\* The version is not looked at.
buildRequest(m) ==
    {<<MethodText[m.request_type], "SP">> \o m.target_resource
        \o <<"SP", "H", "T", "T", "P", "/", "1", ".", "1">> \o Crlf \o head \o m.raw_body :
        head \in buildRawHeader(m.headers)}

-----------------------------------------------------------------------------
(* HTTPResponseMessage.  The cases of the switch of buildRawMessage() that *)
(* write a code and a phrase, in the order of the source.                  *)

EarlyCases ==
    {"Ok", "NotFound", "BadRequest", "Unauthorized", "Created", "Found", "Continue", "Accepted",
     "NonAuthoritativeInformation", "NoContent", "ResetContent", "PartialContent",
     "MultipleChoices", "SeeOther", "NotModified", "UseProxy", "TemporaryRedirect"}

LaterCases ==
    {"PaymentRequired", "Forbidden", "MethodNotAllowed", "NotAcceptable",
     "ProxyAuthenticationRequired", "RequestTimeOut", "Conflict", "Gone", "LengthRequired",
     "PreconditionFailed", "RequestEntityTooLarge", "RequestURITooLarge",
     "RequestRangeNotSatisfiable", "ExpectationFailed", "InternalServerError",
     "NotImplemented", "BadGateway", "ServiceUnavailable"}

LastCases ==
    {"GatewayTimeOut", "HttpVersionNotSupported", "SwitchingProtocols",
     "UnsupportedMediaType", "MovedPermanently"}

\* Every code that has a phrase has a case, and no two codes are the same.
ASSUME CasesAssumption ==
    /\ EarlyCases \cup LaterCases \cup LastCases = Phrase
    /\ \A c, d \in DOMAIN HTTPResponseCodes :
          HTTPResponseCodes[c] = HTTPResponseCodes[d] => c = d

\* Code and phrase; that of TemporaryRedirect is the phrase of UseProxy.  A
\* number that is none of the enumerators meets no case.
CodeText(code) ==
    IF ~ \E c \in Phrase : HTTPResponseCodes[c] = code THEN <<>>
    ELSE LET c == CHOOSE c \in Phrase : HTTPResponseCodes[c] = code
         IN  code \o <<"SP", IF c = "TemporaryRedirect" THEN "UseProxy" ELSE c>>

buildResponse(m, version) ==
    IF version # "HTTP1_1" \/ m.response_code = HTTPResponseCodes["InvalidHttpCode"] THEN {<<>>}
    ELSE {<<"H", "T", "T", "P", "/", "1", ".", "1", "SP">> \o CodeText(m.response_code) \o Crlf
             \o head \o m.raw_body :
             head \in buildRawHeader(m.headers)}

-----------------------------------------------------------------------------
(* HTTPResponseTemplates()                                                 *)

TemplateType == {"Ok", "BadRequest", "NotFound", "Forbidden", "NotAcceptable",
                 "MethodNotAllowed", "UnsupportedMediaType", "Created", "MovedPermanently",
                 "Unauthorized"}

\* getStringTime(): of its text, one colon and what follows it.
Now == <<":", "2">>

\* to_string(size) of a body of less than ten bytes
SizeText(body) == <<<<"0", "1", "2", "3", "4", "5", "6", "7", "8", "9">>[Len(body) + 1]>>

\* The Unauthorized response has the code of BadRequest, and the text that it
\* is given becomes a header instead of the body.
HTTPResponseTemplates(new, type, body) ==
    LET code    == IF type = "Unauthorized" THEN "BadRequest" ELSE type
        typed   == addHeader(new.headers, <<"Content-Type">>, <<"text/html">>)
        sized   == addHeader(typed, <<"Content-Length">>, SizeText(body))
        dated   == addHeader(sized, <<"Date">>, Now)
        message == [new EXCEPT !.response_code = HTTPResponseCodes[code], !.headers = dated]
    IN  IF type = "Unauthorized"
        THEN [message EXCEPT !.headers = addHeader(@, <<"WWW-Authenticate">>, body)]
        ELSE pushBackRawBody(message, body)
=============================================================================
