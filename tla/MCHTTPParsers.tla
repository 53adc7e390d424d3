---------------------------- MODULE MCHTTPParsers ----------------------------
(* Instances of HTTPParsers for TLC.                                       *)
EXTENDS HTTPParsers

Version   == <<"SP", "H", "T", "T", "P", "/", "1", ".", "1", "CR", "LF">>
StatusOf(code) == <<"H", "T", "T", "P", "/", "1", ".", "1", "SP">> \o code \o <<"SP", "a">> \o Crlf

\* Requests with and without headers, repeated names, values with a space
\* and with a colon in them, a body, and a method the parser does not know.
Requests ==
    {<<"GET", "SP", "/">> \o Version \o <<"a", ":", "SP", "b">> \o Crlf \o Crlf,
     <<"POST", "SP", "/", "a">> \o Version \o <<"a", ":", "b">> \o Crlf
         \o <<"a", ":", "a", ":", "b">> \o Crlf \o Crlf \o <<"a", "CR", "b">>,
     <<"PUT", "SP">> \o Version \o Crlf,
     <<"HEAD", "a", "SP">> \o Version \o Crlf \o <<"b">>,
     <<"b", "SP", "/">> \o Version \o Crlf}

\* Responses with a body of two bytes and without one, with a colon and a
\* space in a value, and with too few and too many digits.
Responses ==
    {StatusOf(<<"2", "1", "1">>) \o <<"Content-Length", ":", "SP", "2">> \o Crlf \o Crlf
         \o <<"a", "b">>,
     StatusOf(<<"2", "1", "2", "1">>) \o <<"a", ":", "SP", "b", ":", "a", "SP", "b">>
         \o Crlf \o Crlf,
     StatusOf(<<"2">>) \o Crlf \o <<"a">>}

Replacement == {"a", "1", ":", "SP", "CR", "LF", "CTL", "HI"}

\* Each of them, and each with any one symbol replaced.
Corrupted(S) ==
    S \cup UNION {{[s EXCEPT ![i] = c] : i \in 1 .. Len(s), c \in Replacement} : s \in S}

MCStreams == [request |-> Corrupted(Requests), response |-> Corrupted(Responses)]

MCPieceSizes == {1, 3}

\* Messages are composed with plain values, and with a space and a colon in
\* them, with codes of all kinds, and with a number that is no code.
MCNames   == {<<"a">>, <<"Content-Length">>}
MCValues  == {<<"b">>, <<"a", "SP">>, <<":", "b">>}
MCTargets == {<<"/">>}
MCBodies  == {<<"b">>}
MCTemplates == {"Ok", "Unauthorized"}
MCCodes   == {<<"2", "0", "0">>, <<"3", "0", "7">>, <<"5", "0", "6">>, <<"2", "9", "9">>}
=============================================================================
