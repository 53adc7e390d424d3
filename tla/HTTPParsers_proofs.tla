-------------------------- MODULE HTTPParsers_proofs --------------------------
(***************************************************************************)
(* Proofs about HTTPParsers, for any texts that peers send or compose and  *)
(* any pieces in which they arrive: however a text is cut, a parser is     *)
(* where it would be had it seen the text at once (Invariance); a message  *)
(* that was accepted says what its text says (MessagesMatch); and what one *)
(* side composes the other side parses back (RoundTrips).                  *)
(*                                                                         *)
(* MessagesMatch follows a parser through the text: Tells says what the    *)
(* message holds of the first n bytes in each state, and goes from a byte  *)
(* to the next.  RoundTrips follows it through the parts of a text that    *)
(* was composed, word by word and line by line.                            *)
(*                                                                         *)
(* What a parser makes of a whole text, and the frames that the line       *)
(* decoder finds in it, are defined by recursion over the text.  The       *)
(* proofs by induction go through SetInduction and DownInduction: what is  *)
(* to be shown for every number becomes a set of numbers.                  *)
(***************************************************************************)
EXTENDS HTTPParsers, SequenceTheorems, FiniteSetTheorems, WellFoundedInduction, TLAPS

-----------------------------------------------------------------------------
(* Induction.                                                              *)

\* A set of numbers that has 0 and all successors has all numbers.
LEMMA SetInduction ==
    ASSUME NEW S, 0 \in S, \A n \in Nat : n \in S => n + 1 \in S
    PROVE  \A n \in Nat : n \in S
<1> DEFINE T == Nat \ S
<1> SUFFICES ASSUME T # {} PROVE FALSE
  OBVIOUS
<1>1. PICK x \in T : \A y \in T : ~ (<<y, x>> \in OpToRel(<, Nat))
  BY NatLessThanWellFounded, WFMin
<1>2. \A y \in T : ~ (y < x)
  BY <1>1 DEF OpToRel
<1>3. x \in Nat /\ x # 0 /\ x - 1 \in Nat /\ x - 1 < x
  OBVIOUS
<1>4. x - 1 \in S
  BY <1>2, <1>3
<1>5. (x - 1) + 1 \in S
  BY <1>3, <1>4
<1> QED
  BY <1>3, <1>5

-----------------------------------------------------------------------------
(* What a parser makes of the first bytes of a text, byte by byte.         *)

Zero == [state |-> Start(kind), message |-> NewMessage(kind), rest |-> <<>>]

\* From the first n - 1 bytes to the first n.
Step(q, n) ==
    LET r == Iteration(q.state, q.message, stream[n], IF n = 1 THEN "CTL" ELSE stream[n - 1])
    IN  IF q.state \in Final THEN q
        ELSE IF q.state = BodyState THEN [q EXCEPT !.rest = Append(@, stream[n])]
        ELSE [state |-> r.state, message |-> r.message, rest |-> <<>>]

\* A function that has the values of Whole up to l.
Follows(f, l) == f = [n \in 0 .. l |-> IF n = 0 THEN Zero ELSE Step(f[n - 1], n)]

Table(l) == CHOOSE f : f = [n \in 0 .. l |-> IF n = 0 THEN Zero ELSE Step(f[n - 1], n)]

\* There is such a function.
LEMMA TableExists == \A l \in Nat : Follows(Table(l), l)
<1> DEFINE S == {l \in Nat : \E f : Follows(f, l)}
<1>1. 0 \in S
  <2> DEFINE f == [n \in 0 .. 0 |-> Zero]
  <2>1. Follows(f, 0)
    <3> HIDE DEF Zero, Step
    <3> QED
      BY DEF Follows
  <2> QED
    BY <2>1
<1>2. ASSUME NEW l \in Nat, l \in S PROVE l + 1 \in S
  <2>1. PICK f : Follows(f, l)
    BY <1>2
  <2> DEFINE g == [n \in 0 .. l + 1 |-> IF n <= l THEN f[n] ELSE Step(f[l], l + 1)]
  <2>2. \A n \in 0 .. l : f[n] = IF n = 0 THEN Zero ELSE Step(f[n - 1], n)
    BY <2>1 DEF Follows
  <2>3. ASSUME NEW n \in 0 .. l + 1 PROVE g[n] = IF n = 0 THEN Zero ELSE Step(g[n - 1], n)
    <3>1. CASE n = 0
      BY <2>2, <3>1
    <3>2. CASE n \in 1 .. l
      <4>1. n \in 0 .. l /\ n - 1 \in 0 .. l
        BY <3>2
      <4>2. g[n] = f[n] /\ g[n - 1] = f[n - 1]
        BY <4>1
      <4> QED
        BY <2>2, <3>2, <4>1, <4>2
    <3>3. CASE n = l + 1
      <4>1. g[n] = Step(f[l], l + 1) /\ g[n - 1] = f[l] /\ n # 0
        BY <3>3
      <4> QED
        BY <3>3, <4>1
    <3> QED
      BY <3>1, <3>2, <3>3
  <2>4. Follows(g, l + 1)
    <3>1. g = [n \in 0 .. l + 1 |-> g[n]]
      OBVIOUS
    <3> HIDE DEF g
    <3>2. [n \in 0 .. l + 1 |-> g[n]] = [n \in 0 .. l + 1 |-> IF n = 0 THEN Zero ELSE Step(g[n - 1], n)]
      BY <2>3
    <3> QED
      BY <3>1, <3>2 DEF Follows
  <2> QED
    BY <2>4
<1>3. \A l \in Nat : l \in S
  <2> HIDE DEF S
  <2> QED
    BY <1>1, <1>2, SetInduction
<1>4. ASSUME NEW l \in Nat PROVE Follows(Table(l), l)
  <2>1. \E f : f = [n \in 0 .. l |-> IF n = 0 THEN Zero ELSE Step(f[n - 1], n)]
    BY <1>3 DEF Follows
  <2>2. Table(l) = [n \in 0 .. l |-> IF n = 0 THEN Zero ELSE Step(Table(l)[n - 1], n)]
    BY <2>1, Zenon DEF Table
  <2> QED
    BY <2>2 DEF Follows
<1> QED
  BY <1>4

\* Two of them agree where both are defined.
LEMMA TablesAgree ==
    ASSUME NEW l \in Nat
    PROVE  \A n \in 0 .. l : Table(l + 1)[n] = Table(l)[n]
<1> DEFINE f == Table(l)
           g == Table(l + 1)
           S == {n \in Nat : n <= l => g[n] = f[n]}
<1>1. \A n \in 0 .. l : f[n] = IF n = 0 THEN Zero ELSE Step(f[n - 1], n)
  <2>1. f = [n \in 0 .. l |-> IF n = 0 THEN Zero ELSE Step(f[n - 1], n)]
    BY TableExists DEF Follows
  <2> HIDE DEF f
  <2> QED
    BY <2>1
<1>2. \A n \in 0 .. l + 1 : g[n] = IF n = 0 THEN Zero ELSE Step(g[n - 1], n)
  <2>0. l + 1 \in Nat
    OBVIOUS
  <2>1. g = [n \in 0 .. l + 1 |-> IF n = 0 THEN Zero ELSE Step(g[n - 1], n)]
    BY <2>0, TableExists DEF Follows
  <2> HIDE DEF g
  <2> QED
    BY <2>1
<1> HIDE DEF f, g
<1>3. 0 \in S
  BY <1>1, <1>2
<1>4. ASSUME NEW n \in Nat, n \in S PROVE n + 1 \in S
  <2> SUFFICES ASSUME n + 1 <= l PROVE g[n + 1] = f[n + 1]
    OBVIOUS
  <2>1. g[n] = f[n] /\ n + 1 \in 0 .. l /\ n + 1 \in 0 .. l + 1 /\ n + 1 # 0 /\ (n + 1) - 1 = n
    BY <1>4
  <2> QED
    BY <1>1, <1>2, <2>1
<1>5. \A n \in Nat : n \in S
  <2> HIDE DEF S
  <2> QED
    BY <1>3, <1>4, SetInduction
<1> QED
  BY <1>5 DEF f, g

\* Whole, by recursion.
LEMMA WholeStep ==
    /\ Whole(0) = Zero
    /\ \A n \in Nat : Whole(n + 1) = Step(Whole(n), n + 1)
<1>1. \A l : Whole(l) = Table(l)[l]
  BY DEF Whole, Table, Zero, Step
<1>2. ASSUME NEW l \in Nat
      PROVE  \A n \in 0 .. l : Table(l)[n] = IF n = 0 THEN Zero ELSE Step(Table(l)[n - 1], n)
  <2>1. Table(l) = [n \in 0 .. l |-> IF n = 0 THEN Zero ELSE Step(Table(l)[n - 1], n)]
    BY TableExists DEF Follows
  <2> DEFINE f == Table(l)
  <2>2. f = [n \in 0 .. l |-> IF n = 0 THEN Zero ELSE Step(f[n - 1], n)]
    BY <2>1
  <2> HIDE DEF f
  <2>3. \A n \in 0 .. l : f[n] = IF n = 0 THEN Zero ELSE Step(f[n - 1], n)
    BY <2>2
  <2> QED
    BY <2>3 DEF f
<1>3. Whole(0) = Zero
  BY <1>1, <1>2
<1>4. ASSUME NEW n \in Nat PROVE Whole(n + 1) = Step(Whole(n), n + 1)
  <2>1. n + 1 \in Nat /\ n + 1 \in 0 .. n + 1 /\ n + 1 # 0 /\ (n + 1) - 1 = n /\ n \in 0 .. n
    OBVIOUS
  <2>2. Table(n + 1)[n + 1] = Step(Table(n + 1)[n], n + 1)
    BY <1>2, <2>1
  <2>3. Table(n + 1)[n] = Table(n)[n]
    BY <2>1, TablesAgree
  <2> QED
    BY <1>1, <2>2, <2>3
<1> QED
  BY <1>3, <1>4

-----------------------------------------------------------------------------
(* The types of messages.                                                  *)

Text == Seq(Symbol)

IsHeaders(h) == IsFiniteSet(DOMAIN h) /\ DOMAIN h \subseteq Text /\ h \in [DOMAIN h -> Text]

IsRequest(m) ==
    /\ m \in [request_type : Request!RequestType, target_resource : Text, headers : {m.headers},
              raw_body : Text, temp_http_method : Text, temp_header_name : Text,
              temp_header_value : Text]
    /\ IsHeaders(m.headers)

\* A code that was read from too few digits is no text.
IsResponse(m) ==
    /\ m \in [response_code : Seq(Symbol \cup {"?"}), headers : {m.headers}, raw_body : Text,
              temp_http_status_code : Text, temp_header_name : Text, temp_header_value : Text]
    /\ IsHeaders(m.headers)

IsMessage(k, m) == IF k = "request" THEN IsRequest(m) ELSE IsResponse(m)

States(k) == IF k = "request" THEN Request!ParserState ELSE Response!ResponseParserState

\* Adding a header to a map of headers, and removing one
LEMMA HeadersType ==
    ASSUME NEW h, IsHeaders(h), NEW name \in Text, NEW value \in Text
    PROVE  IsHeaders(addHeader(h, name, value)) /\ IsHeaders(removeHeader(h, name))
<1> DEFINE a == addHeader(h, name, value)
           r == removeHeader(h, name)
<1>1. DOMAIN a = DOMAIN h \cup {name} /\ a \in [DOMAIN h \cup {name} -> Text]
  BY DEF addHeader, IsHeaders
<1>2. DOMAIN r = DOMAIN h \ {name} /\ r \in [DOMAIN h \ {name} -> Text]
  BY DEF removeHeader, IsHeaders
<1>3. IsFiniteSet(DOMAIN h \cup {name}) /\ IsFiniteSet(DOMAIN h \ {name})
  BY FS_AddElement, FS_RemoveElement DEF IsHeaders
<1> HIDE DEF a, r
<1>4. IsHeaders(a)
  BY <1>1, <1>3 DEF IsHeaders
<1>5. IsHeaders(r)
  BY <1>2, <1>3 DEF IsHeaders
<1> QED
  BY <1>4, <1>5 DEF a, r

\* No headers
LEMMA NoHeadersType == IsHeaders(NoHeaders) /\ DOMAIN NoHeaders = {}
<1>1. DOMAIN NoHeaders = {} /\ NoHeaders \in [{} -> Text]
  BY DEF NoHeaders
<1> QED
  BY <1>1, FS_EmptySet DEF IsHeaders

\* The new messages
LEMMA NewMessageType ==
    ASSUME NEW k \in Kinds
    PROVE  /\ IsMessage(k, NewMessage(k)) /\ Start(k) \in States(k)
           /\ NewMessage(k).raw_body = <<>>
<1>0. Request!NoHeaders = NoHeaders /\ Response!NoHeaders = NoHeaders
  BY DEF NoHeaders, Request!NoHeaders, Response!NoHeaders
<1>1. CASE k = "request"
  <2> DEFINE m == Request!NewMessage
  <2>1. IsRequest(m) /\ m.raw_body = <<>>
    BY <1>0, NoHeadersType DEF IsRequest, Request!NewMessage, Request!RequestType, Text
  <2> QED
    BY <1>1, <2>1 DEF IsMessage, NewMessage, Start, States, Request!Start, Request!ParserState
<1>2. CASE k = "response"
  <2> DEFINE m == Response!NewMessage
  <2>1. Response!HTTPResponseCodes["BadRequest"] = <<"4", "0", "0">>
    BY DEF Response!HTTPResponseCodes
  <2>2. <<"4", "0", "0">> \in Seq(Symbol \cup {"?"})
    BY DEF Symbol, Digit
  <2>3. IsResponse(m) /\ m.raw_body = <<>>
    BY <1>0, <2>1, <2>2, NoHeadersType DEF IsResponse, Response!NewMessage, Text
  <2> QED
    BY <1>2, <2>3 DEF IsMessage, NewMessage, Start, States, Response!Start,
                      Response!ResponseParserState, Response!LiteralState
<1> QED
  BY <1>1, <1>2 DEF Kinds

-----------------------------------------------------------------------------
(* The iterations of the parsers.                                          *)

\* What an iteration may do to a request
RequestEdits(m, c) ==
    {m, [m EXCEPT !.temp_header_name = Append(@, c)], [m EXCEPT !.temp_header_value = Append(@, c)],
     [m EXCEPT !.headers = addHeader(@, m.temp_header_name, m.temp_header_value),
               !.temp_header_name = <<>>, !.temp_header_value = <<>>],
     [m EXCEPT !.temp_http_method = Append(@, c)], [m EXCEPT !.target_resource = Append(@, c)]}
    \cup {[m EXCEPT !.request_type = type] : type \in Request!RequestType}

\* It keeps the type of the message, and leaves the body alone.
LEMMA RequestEditsType ==
    ASSUME NEW m, IsRequest(m), NEW c \in Symbol, NEW r \in RequestEdits(m, c)
    PROVE  IsRequest(r) /\ r.raw_body = m.raw_body
<1>0. /\ m.temp_header_name \in Text /\ m.temp_header_value \in Text /\ IsHeaders(m.headers)
      /\ m.temp_http_method \in Text /\ m.target_resource \in Text /\ <<>> \in Text
  BY DEF IsRequest, Text
<1>1. /\ Append(m.temp_header_name, c) \in Text /\ Append(m.temp_header_value, c) \in Text
      /\ Append(m.temp_http_method, c) \in Text /\ Append(m.target_resource, c) \in Text
  BY <1>0 DEF Text
<1>2. IsHeaders(addHeader(m.headers, m.temp_header_name, m.temp_header_value))
  BY <1>0, HeadersType
<1> HIDE DEF Text
<1>3. CASE r = m
  BY <1>3
<1>4. CASE r = [m EXCEPT !.temp_header_name = Append(@, c)]
  BY <1>1, <1>4 DEF IsRequest
<1>5. CASE r = [m EXCEPT !.temp_header_value = Append(@, c)]
  BY <1>1, <1>5 DEF IsRequest
<1>6. CASE r = [m EXCEPT !.headers = addHeader(@, m.temp_header_name, m.temp_header_value),
                         !.temp_header_name = <<>>, !.temp_header_value = <<>>]
  BY <1>0, <1>2, <1>6 DEF IsRequest
<1>7. CASE r = [m EXCEPT !.temp_http_method = Append(@, c)]
  BY <1>1, <1>7 DEF IsRequest
<1>8. CASE r = [m EXCEPT !.target_resource = Append(@, c)]
  BY <1>1, <1>8 DEF IsRequest
<1>9. ASSUME NEW type \in Request!RequestType, r = [m EXCEPT !.request_type = type]
      PROVE  IsRequest(r) /\ r.raw_body = m.raw_body
  BY <1>9 DEF IsRequest
<1> QED
  BY <1>3, <1>4, <1>5, <1>6, <1>7, <1>8, <1>9 DEF RequestEdits

\* An iteration of ParseHTTP1_1RequestMessage
LEMMA RequestIteration ==
    ASSUME NEW s \in Request!ParserState, NEW m, NEW c, NEW previous
    PROVE  LET r == Request!Iteration(s, m, c, previous)
           IN  /\ r.state \in Request!ParserState /\ r.message \in RequestEdits(m, c)
               /\ r.used \in BOOLEAN
               /\ \/ r.used
                  \/ r.state = "ProtocolError" /\ r.message = m
                  \/ /\ s = "HeaderEndLF" /\ r.state = s
                     /\ c # "LF" \/ ~ \E w \in Methods : Request!MethodStartsWith(m, w)
<1> DEFINE Result(r) ==
             /\ r.state \in Request!ParserState /\ r.message \in RequestEdits(m, c)
             /\ r.used \in BOOLEAN
             /\ \/ r.used
                \/ r.state = "ProtocolError" /\ r.message = m
                \/ /\ s = "HeaderEndLF" /\ r.state = s
                   /\ c # "LF" \/ ~ \E w \in Methods : Request!MethodStartsWith(m, w)
<1>1. ASSUME NEW t \in Request!ParserState, NEW e \in RequestEdits(m, c)
      PROVE  Result(Request!Consume(t, e))
  BY <1>1 DEF Request!Consume
<1>2. Result(Request!Reject(m))
  BY DEF Request!Reject, Request!ParserState, RequestEdits
<1>3. /\ m \in RequestEdits(m, c)
      /\ Request!pushBackHeaderName(m, c) \in RequestEdits(m, c)
      /\ Request!pushBackHeaderValue(m, c) \in RequestEdits(m, c)
      /\ Request!pushBackRequestMethod(m, c) \in RequestEdits(m, c)
      /\ Request!pushBackTargetResource(m, c) \in RequestEdits(m, c)
  BY DEF RequestEdits, Request!pushBackHeaderName, Request!pushBackHeaderValue,
         Request!pushBackRequestMethod, Request!pushBackTargetResource
<1>4. Request!addTempHeadersHolderToMessage(m) \in RequestEdits(m, c)
  BY DEF RequestEdits, Request!addTempHeadersHolderToMessage, addHeader, Request!addHeader
<1>5. \A type \in Request!RequestType : Request!setRequestType(m, type) \in RequestEdits(m, c)
  BY DEF RequestEdits, Request!setRequestType
<1>6. /\ {"HeaderName", "HeaderValue", "HeaderValueLF", "HeaderEndLF", "ParsingDone", "MessageBody",
          "RequestMethod", "RequestResource", "RequestProtocolH", "RequestProtocolDot",
          "RequestProtocolVersionMinor", "RequestLineLF"} \subseteq Request!ParserState
      /\ \A t \in Request!LiteralState : Request!Literal[t][2] \in Request!ParserState
  BY DEF Request!ParserState, Request!LiteralState, Request!Literal
<1> HIDE DEF Result
<1>7. Result(Request!HeaderName(m, c))
  BY <1>1, <1>2, <1>3, <1>6 DEF Request!HeaderName
<1>8. Result(Request!HeaderValueLF(m, c))
  BY <1>1, <1>2, <1>4, <1>6 DEF Request!HeaderValueLF
<1>9. Result(Request!HeaderValue(m, c, previous))
  BY <1>1, <1>2, <1>3, <1>6 DEF Request!HeaderValue
<1>10. Result(Request!RequestLine(s, m, c))
  BY <1>1, <1>2, <1>3, <1>6 DEF Request!RequestLine
<1>11. CASE s = "HeaderEndLF"
  <2>1. {"Get", "Post", "Put", "Head", "Unsupported"} \subseteq Request!RequestType
    BY DEF Request!RequestType
  <2>2. ASSUME NEW e \in RequestEdits(m, c),
               c # "LF" \/ ~ \E w \in Methods : Request!MethodStartsWith(m, w)
        PROVE  Result([state |-> "HeaderEndLF", message |-> e, used |-> FALSE])
    BY <1>6, <1>11, <2>2 DEF Result
  <2>3. Result(Request!HeaderEndLF(m, c))
    <3>1. CASE c # "LF"
      BY <1>3, <2>2, <3>1 DEF Request!HeaderEndLF
    <3>2. CASE c = "LF" /\ \E w \in Methods : Request!MethodStartsWith(m, w)
      BY <1>1, <1>5, <1>6, <2>1, <3>2 DEF Request!HeaderEndLF, Methods
    <3>3. CASE c = "LF" /\ ~ \E w \in Methods : Request!MethodStartsWith(m, w)
      BY <1>5, <2>1, <2>2, <3>3 DEF Request!HeaderEndLF, Methods
    <3> QED
      BY <3>1, <3>2, <3>3
  <2> QED
    BY <1>11, <2>3 DEF Request!Iteration, Result
<1>12. CASE s # "HeaderEndLF"
  BY <1>7, <1>8, <1>9, <1>10, <1>12 DEF Request!Iteration, Result
<1> QED
  BY <1>11, <1>12

\* What an iteration may do to a response
ResponseEdits(m, c) ==
    {m, [m EXCEPT !.temp_header_name = Append(@, c)], [m EXCEPT !.temp_header_value = Append(@, c)],
     [m EXCEPT !.headers = addHeader(@, m.temp_header_name, m.temp_header_value),
               !.temp_header_name = <<>>, !.temp_header_value = <<>>],
     [m EXCEPT !.temp_http_status_code = Append(@, c)],
     [m EXCEPT !.response_code = Response!Indeterminate],
     [m EXCEPT !.response_code = m.temp_http_status_code]}

\* It keeps the type of the message, and leaves the body alone.
LEMMA ResponseEditsType ==
    ASSUME NEW m, IsResponse(m), NEW c \in Symbol, NEW r \in ResponseEdits(m, c)
    PROVE  IsResponse(r) /\ r.raw_body = m.raw_body
<1>0. /\ m.temp_header_name \in Text /\ m.temp_header_value \in Text /\ IsHeaders(m.headers)
      /\ m.temp_http_status_code \in Text /\ <<>> \in Text
  BY DEF IsResponse, Text
<1>1. /\ Append(m.temp_header_name, c) \in Text /\ Append(m.temp_header_value, c) \in Text
      /\ Append(m.temp_http_status_code, c) \in Text
  BY <1>0 DEF Text
<1>2. IsHeaders(addHeader(m.headers, m.temp_header_name, m.temp_header_value))
  BY <1>0, HeadersType
<1>3. Response!Indeterminate \in Seq(Symbol \cup {"?"})
  BY DEF Response!Indeterminate
<1>4. m.temp_http_status_code \in Seq(Symbol \cup {"?"})
  BY <1>0 DEF Text
<1> HIDE DEF Text
<1> DEFINE Code == Seq(Symbol \cup {"?"})
<1>5. IsResponse(m) => m.response_code \in Code
  BY DEF IsResponse
<1>6. CASE r = m
  BY <1>6
<1>7. CASE r = [m EXCEPT !.temp_header_name = Append(@, c)]
  BY <1>1, <1>7 DEF IsResponse
<1>8. CASE r = [m EXCEPT !.temp_header_value = Append(@, c)]
  BY <1>1, <1>8 DEF IsResponse
<1>9. CASE r = [m EXCEPT !.headers = addHeader(@, m.temp_header_name, m.temp_header_value),
                         !.temp_header_name = <<>>, !.temp_header_value = <<>>]
  BY <1>0, <1>2, <1>9 DEF IsResponse
<1>10. CASE r = [m EXCEPT !.temp_http_status_code = Append(@, c)]
  BY <1>1, <1>10 DEF IsResponse
<1>11. CASE r = [m EXCEPT !.response_code = Response!Indeterminate]
  BY <1>3, <1>11 DEF IsResponse
<1>12. CASE r = [m EXCEPT !.response_code = m.temp_http_status_code]
  BY <1>4, <1>12 DEF IsResponse
<1> QED
  BY <1>6, <1>7, <1>8, <1>9, <1>10, <1>11, <1>12 DEF ResponseEdits

\* An iteration of ParseHTTP1_1ResponseMessage
LEMMA ResponseIteration ==
    ASSUME NEW s \in Response!ResponseParserState, NEW m, IsResponse(m), NEW c, NEW previous
    PROVE  LET r == Response!Iteration(s, m, c, previous)
           IN  /\ r.state \in Response!ResponseParserState /\ r.message \in ResponseEdits(m, c)
               /\ r.used \in BOOLEAN
               /\ r.used \/ (r.state = "ProtocolError" /\ r.message = m)
<1> DEFINE Result(r) ==
             /\ r.state \in Response!ResponseParserState /\ r.message \in ResponseEdits(m, c)
             /\ r.used \in BOOLEAN
             /\ r.used \/ (r.state = "ProtocolError" /\ r.message = m)
<1>1. ASSUME NEW t \in Response!ResponseParserState, NEW e \in ResponseEdits(m, c)
      PROVE  Result(Response!Consume(t, e))
  BY <1>1 DEF Response!Consume
<1>2. Result(Response!Reject(m))
  BY DEF Response!Reject, Response!ResponseParserState, ResponseEdits
<1>3. /\ m \in ResponseEdits(m, c)
      /\ Response!pushBackHeaderName(m, c) \in ResponseEdits(m, c)
      /\ Response!pushBackHeaderValue(m, c) \in ResponseEdits(m, c)
  BY DEF ResponseEdits, Response!pushBackHeaderName, Response!pushBackHeaderValue
<1>4. Response!addTempHeadersHolderToMessage(m) \in ResponseEdits(m, c)
  BY DEF ResponseEdits, Response!addTempHeadersHolderToMessage, addHeader, Response!addHeader
<1>5. Response!pushBackResponseCode(m, c) \in ResponseEdits(m, c)
  <2>1. [m EXCEPT !.temp_http_status_code = m.temp_http_status_code] = m
    BY DEF IsResponse
  <2> QED
    BY <2>1 DEF ResponseEdits, Response!pushBackResponseCode
<1>6. Response!setResponseCode(m) \in ResponseEdits(m, c)
  BY DEF ResponseEdits, Response!setResponseCode
<1>7. /\ {"HeaderName", "HeaderValue", "HeaderValueLF", "HeaderEndLF", "ParsingDone",
          "ResponseMessageBody", "ResponseProtocolVersionMinor", "StatusCode",
          "ResponseReasonPhrase", "StatusLineLF"} \subseteq Response!ResponseParserState
      /\ \A t \in Response!LiteralState : Response!Literal[t][2] \in Response!ResponseParserState
  BY DEF Response!ResponseParserState, Response!LiteralState, Response!Literal
<1> HIDE DEF Result
<1>8. Result(Response!HeaderName(m, c))
  BY <1>1, <1>2, <1>3, <1>7 DEF Response!HeaderName
<1>9. Result(Response!HeaderValueLF(m, c))
  BY <1>1, <1>2, <1>4, <1>7 DEF Response!HeaderValueLF
<1>10. Result(Response!HeaderValue(m, c, previous))
  BY <1>1, <1>2, <1>3, <1>7 DEF Response!HeaderValue
<1>11. Result(Response!HeaderEndLF(m, c))
  BY <1>1, <1>2, <1>3, <1>7 DEF Response!HeaderEndLF
<1>12. Result(Response!StatusLine(s, m, c))
  BY <1>1, <1>2, <1>3, <1>5, <1>6, <1>7 DEF Response!StatusLine
<1> QED
  BY <1>8, <1>9, <1>10, <1>11, <1>12 DEF Response!Iteration, Result

\* The switch of the parser at hand keeps the type of the message and leaves
\* the body alone; it consumes the byte, refuses it, or nothing moves any more.
Stuck(s, m, c) ==
    /\ kind = "request" /\ s = "HeaderEndLF"
    /\ c # "LF" \/ ~ \E w \in Methods : Request!MethodStartsWith(m, w)

\* An iteration of either parser
LEMMA IterationType ==
    ASSUME kind \in Kinds, NEW s \in States(kind), NEW m, IsMessage(kind, m),
           NEW c \in Symbol, NEW previous
    PROVE  LET r == Iteration(s, m, c, previous)
           IN  /\ r.state \in States(kind) /\ IsMessage(kind, r.message)
               /\ r.message.raw_body = m.raw_body
               /\ r.used \in BOOLEAN
               /\ \/ r.used
                  \/ r.state = "ProtocolError" /\ r.message = m
                  \/ Stuck(s, m, c) /\ r.state = s /\ Stuck(r.state, r.message, c)
<1>1. CASE kind = "request"
  <2> DEFINE r == Request!Iteration(s, m, c, previous)
  <2>0. s \in Request!ParserState /\ IsRequest(m) /\ Iteration(s, m, c, previous) = r
    BY <1>1 DEF States, IsMessage, Iteration
  <2>1. /\ r.state \in Request!ParserState /\ r.message \in RequestEdits(m, c)
        /\ r.used \in BOOLEAN
        /\ \/ r.used
           \/ r.state = "ProtocolError" /\ r.message = m
           \/ /\ s = "HeaderEndLF" /\ r.state = s
              /\ c # "LF" \/ ~ \E w \in Methods : Request!MethodStartsWith(m, w)
    BY <2>0, RequestIteration
  <2>2. IsRequest(r.message) /\ r.message.raw_body = m.raw_body
    BY <2>0, <2>1, RequestEditsType
  <2>3. ASSUME s = "HeaderEndLF"
        PROVE  r.message.temp_http_method = m.temp_http_method
    <3>1. r = Request!HeaderEndLF(m, c)
      BY <2>3 DEF Request!Iteration
    <3>2. ASSUME NEW type PROVE Request!setRequestType(m, type).temp_http_method = m.temp_http_method
      BY <2>0 DEF Request!setRequestType, IsRequest
    <3> QED
      BY <3>1, <3>2 DEF Request!HeaderEndLF, Request!Consume
  <2> HIDE DEF r
  <2>4. ASSUME s = "HeaderEndLF", ~ \E w \in Methods : Request!MethodStartsWith(m, w)
        PROVE  ~ \E w \in Methods : Request!MethodStartsWith(r.message, w)
    BY <2>3, <2>4 DEF Request!MethodStartsWith
  <2> QED
    BY <1>1, <2>0, <2>1, <2>2, <2>4 DEF States, IsMessage, Stuck
<1>2. CASE kind = "response"
  <2> DEFINE r == Response!Iteration(s, m, c, previous)
  <2>0. s \in Response!ResponseParserState /\ IsResponse(m) /\ Iteration(s, m, c, previous) = r
    BY <1>2 DEF States, IsMessage, Iteration
  <2>1. /\ r.state \in Response!ResponseParserState /\ r.message \in ResponseEdits(m, c)
        /\ r.used \in BOOLEAN
        /\ r.used \/ (r.state = "ProtocolError" /\ r.message = m)
    BY <2>0, ResponseIteration
  <2>2. IsResponse(r.message) /\ r.message.raw_body = m.raw_body
    BY <2>0, <2>1, ResponseEditsType
  <2> HIDE DEF r
  <2> QED
    BY <1>2, <2>0, <2>1, <2>2 DEF States, IsMessage
<1> QED
  BY <1>1, <1>2 DEF Kinds

\* The byte before the current one matters only where the parser looks at it.
LEMMA LookMatters ==
    ASSUME NEW s, NEW m, NEW c, NEW p, NEW q, ~ LooksBack(s, c)
    PROVE  Iteration(s, m, c, p) = Iteration(s, m, c, q)
<1>1. CASE kind = "request"
  <2>1. Request!HeaderValue(m, c, p) = Request!HeaderValue(m, c, q) \/ s # "HeaderValue"
    BY <1>1 DEF LooksBack, Request!LooksBack, Request!HeaderValue
  <2>2. Request!Iteration(s, m, c, p) = Request!Iteration(s, m, c, q)
    BY <2>1 DEF Request!Iteration
  <2> QED
    BY <1>1, <2>2 DEF Iteration
<1>2. CASE kind # "request"
  <2>1. Response!HeaderValue(m, c, p) = Response!HeaderValue(m, c, q) \/ s # "HeaderValue"
    BY <1>2 DEF LooksBack, Response!LooksBack, Response!HeaderValue
  <2>2. Response!Iteration(s, m, c, p) = Response!Iteration(s, m, c, q)
    BY <2>1 DEF Response!Iteration
  <2> QED
    BY <1>2, <2>2 DEF Iteration
<1> QED
  BY <1>1, <1>2

\* What was read says nothing else while the parser and the text are the same.
LEMMA WholeStays ==
    ASSUME kind' = kind, stream' = stream
    PROVE  \A n : Whole(n)' = Whole(n)
BY DEF Whole, Start, NewMessage, Iteration, BodyState, Final

-----------------------------------------------------------------------------
(* What reading a whole text gives.                                        *)

\* A state, a message without a body, and what follows its head
IsReading(w) ==
    /\ w = [state |-> w.state, message |-> w.message, rest |-> w.rest]
    /\ w.state \in States(kind) /\ IsMessage(kind, w.message)
    /\ w.message.raw_body = <<>>
    /\ w.rest \in Text /\ (w.rest # <<>> => w.state = BodyState)

\* Every prefix gives one.
LEMMA WholeType ==
    ASSUME kind \in Kinds, stream \in Text
    PROVE  \A n \in 0 .. Len(stream) : IsReading(Whole(n))
<1> DEFINE S == {n \in Nat : n <= Len(stream) => IsReading(Whole(n))}
<1>0. Len(stream) \in Nat
  BY DEF Text
<1>1. 0 \in S
  <2>1. IsReading(Zero)
    BY NewMessageType DEF IsReading, Zero, Text
  <2> QED
    BY <2>1, WholeStep
<1>2. ASSUME NEW n \in Nat, n \in S PROVE n + 1 \in S
  <2> SUFFICES ASSUME n + 1 <= Len(stream) PROVE IsReading(Whole(n + 1))
    OBVIOUS
  <2> DEFINE q == Whole(n)
             c == stream[n + 1]
             p == IF n + 1 = 1 THEN "CTL" ELSE stream[(n + 1) - 1]
             r == Iteration(q.state, q.message, c, p)
  <2>1. IsReading(q) /\ c \in Symbol
    BY <1>0, <1>2 DEF Text
  <2>2. Whole(n + 1) = IF q.state \in Final THEN q
                       ELSE IF q.state = BodyState THEN [q EXCEPT !.rest = Append(@, c)]
                       ELSE [state |-> r.state, message |-> r.message, rest |-> <<>>]
    BY WholeStep DEF Step
  <2> HIDE DEF q, c, p
  <2>3. r.state \in States(kind) /\ IsMessage(kind, r.message)
        /\ r.message.raw_body = q.message.raw_body
    BY <2>1, IterationType DEF IsReading
  <2>4. Append(q.rest, c) \in Text
    BY <2>1 DEF Text, IsReading
  <2> HIDE DEF r
  <2>5. CASE q.state \in Final
    BY <2>1, <2>2, <2>5
  <2>6. CASE q.state = BodyState /\ q.state \notin Final
    <3>1. [q EXCEPT !.rest = Append(@, c)] =
          [state |-> q.state, message |-> q.message, rest |-> Append(q.rest, c)]
      BY <2>1 DEF IsReading
    <3> QED
      BY <2>1, <2>2, <2>4, <2>6, <3>1 DEF IsReading
  <2>7. CASE q.state \notin Final /\ q.state # BodyState
    <3>1. Whole(n + 1) = [state |-> r.state, message |-> r.message, rest |-> <<>>]
      BY <2>2, <2>7
    <3>2. <<>> \in Text
      BY DEF Text
    <3> QED
      BY <2>1, <2>3, <3>1, <3>2 DEF IsReading
  <2> QED
    BY <2>5, <2>6, <2>7
<1>3. \A n \in Nat : n \in S
  <2> HIDE DEF S
  <2> QED
    BY <1>1, <1>2, SetInduction
<1> QED
  BY <1>0, <1>3

\* A final state is not left.
LEMMA FinalStays ==
    ASSUME NEW m \in Nat, Whole(m).state \in Final, NEW n \in Nat, m <= n
    PROVE  Whole(n) = Whole(m)
<1> DEFINE S == {i \in Nat : Whole(m + i) = Whole(m)}
<1>1. 0 \in S
  OBVIOUS
<1>2. ASSUME NEW i \in Nat, i \in S PROVE i + 1 \in S
  <2>1. m + i \in Nat /\ m + (i + 1) = (m + i) + 1
    OBVIOUS
  <2>2. Whole((m + i) + 1) = Step(Whole(m + i), (m + i) + 1)
    BY <2>1, WholeStep
  <2>3. Step(Whole(m), (m + i) + 1) = Whole(m)
    BY DEF Step
  <2> QED
    BY <1>2, <2>1, <2>2, <2>3
<1>3. \A i \in Nat : i \in S
  <2> HIDE DEF S
  <2> QED
    BY <1>1, <1>2, SetInduction
<1>4. n - m \in Nat /\ m + (n - m) = n
  OBVIOUS
<1> QED
  BY <1>3, <1>4

\* All that follows a head with a body is the body.
LEMMA BodyGoesOn ==
    ASSUME kind \in Kinds, stream \in Text, NEW m \in Nat, Whole(m).state = BodyState,
           NEW n \in Nat, m <= n, n <= Len(stream)
    PROVE  /\ Whole(n).state = BodyState /\ Whole(n).message = Whole(m).message
           /\ Whole(n).rest = Whole(m).rest \o SubSeq(stream, m + 1, n)
<1> DEFINE Same(i) == /\ Whole(m + i).state = BodyState
                      /\ Whole(m + i).message = Whole(m).message
                      /\ Whole(m + i).rest = Whole(m).rest \o SubSeq(stream, m + 1, m + i)
           S == {i \in Nat : m + i <= Len(stream) => Same(i)}
<1>0. Len(stream) \in Nat /\ \A i \in 1 .. Len(stream) : stream[i] \in Symbol
  BY DEF Text
<1>a. BodyState \notin Final
  BY DEF BodyState, Final, Request!BodyState, Response!BodyState
<1>b. IsReading(Whole(m))
  BY <1>0, WholeType
<1>1. 0 \in S
  <2>1. SubSeq(stream, m + 1, m + 0) = <<>>
    BY SubSeqProperties DEF Text
  <2>2. Whole(m).rest \o <<>> = Whole(m).rest /\ m + 0 = m
    BY <1>b DEF IsReading, Text
  <2>3. Same(0)
    BY <2>1, <2>2
  <2> HIDE DEF Same
  <2> QED
    BY <2>3
<1>2. ASSUME NEW i \in Nat, i \in S PROVE i + 1 \in S
  <2> SUFFICES ASSUME m + (i + 1) <= Len(stream) PROVE Same(i + 1)
    <3> HIDE DEF Same
    <3> QED
      OBVIOUS
  <2> DEFINE k == m + i
  <2>1. k \in Nat /\ m + (i + 1) = k + 1 /\ k + 1 \in 1 .. Len(stream) /\ k \in 0 .. Len(stream)
    BY <1>0
  <2>2. Whole(k + 1) = Step(Whole(k), k + 1)
    BY <2>1, WholeStep
  <2>3. Same(i)
    <3>1. m + i <= Len(stream)
      BY <1>0, <2>1
    <3> HIDE DEF Same
    <3> QED
      BY <1>2, <3>1
  <2>4. IsReading(Whole(k))
    BY <2>1, WholeType
  <2> DEFINE q == Whole(k)
             c == stream[k + 1]
  <2>5. Whole(k + 1) = [q EXCEPT !.rest = Append(@, c)]
    BY <1>a, <2>2, <2>3 DEF Step
  <2>6. SubSeq(stream, m + 1, k + 1) = Append(SubSeq(stream, m + 1, k), c)
    BY <2>1 DEF Text
  <2>7. /\ Whole(k + 1).state = q.state /\ Whole(k + 1).message = q.message
        /\ Whole(k + 1).rest = Append(q.rest, c)
    <3> HIDE DEF q
    <3> QED
      BY <2>4, <2>5 DEF IsReading, q
  <2>8. ASSUME NEW a \in Text, NEW b \in Text, NEW d \in Symbol PROVE Append(a \o b, d) = a \o Append(b, d)
    BY DEF Text
  <2>9. SubSeq(stream, m + 1, k) \in Text /\ c \in Symbol
    BY <1>0, <2>1 DEF Text
  <2>10. Append(Whole(m).rest \o SubSeq(stream, m + 1, k), c) = Whole(m).rest \o Append(SubSeq(stream, m + 1, k), c)
    <3> HIDE DEF c, k
    <3> QED
      BY <1>b, <2>8, <2>9 DEF IsReading
  <2> QED
    BY <2>1, <2>3, <2>6, <2>7, <2>10
<1>3. \A i \in Nat : i \in S
  <2> HIDE DEF S
  <2> QED
    BY <1>1, <1>2, SetInduction
<1>4. n - m \in Nat /\ m + (n - m) = n
  OBVIOUS
<1>5. Same(n - m)
  <2> HIDE DEF Same
  <2> QED
    BY <1>3, <1>4
<1> QED
  BY <1>4, <1>5

-----------------------------------------------------------------------------
(* The texts that are composed.                                            *)

\* FlattenSeq, text by text
LEMMA FlattenSteps ==
    ASSUME NEW texts \in Seq(Text)
    PROVE  \E f : /\ FlattenSeq(texts) = f[Len(texts)] /\ f[0] = <<>>
                  /\ \A i \in 1 .. Len(texts) : f[i] = f[i - 1] \o texts[i]
                  /\ \A i \in 0 .. Len(texts) : f[i] \in Text
<1> DEFINE Flat(f, l) == f = [i \in 1 .. l |-> IF i = 1 THEN texts[i] ELSE f[i - 1] \o texts[i]]
           L == Len(texts)
           S == {l \in Nat : l <= L => \E f : Flat(f, l)}
           F == CHOOSE f : f = [i \in 1 .. L |-> IF i = 1 THEN texts[i] ELSE f[i - 1] \o texts[i]]
<1>0. L \in Nat /\ \A i \in 1 .. L : texts[i] \in Text
  OBVIOUS
<1> HIDE DEF L, Flat
<1>1. 0 \in S
  <2> DEFINE f == [i \in {} |-> <<>>]
  <2>1. Flat(f, 0)
    BY DEF Flat
  <2> QED
    BY <2>1
<1>2. ASSUME NEW l \in Nat, l \in S PROVE l + 1 \in S
  <2> SUFFICES ASSUME l + 1 <= L PROVE \E f : Flat(f, l + 1)
    OBVIOUS
  <2>1. PICK f : Flat(f, l)
    BY <1>0, <1>2
  <2> DEFINE g == [i \in 1 .. l + 1 |-> IF i <= l THEN f[i]
                                        ELSE IF i = 1 THEN texts[i] ELSE f[i - 1] \o texts[i]]
  <2>2. \A i \in 1 .. l : f[i] = IF i = 1 THEN texts[i] ELSE f[i - 1] \o texts[i]
    BY <2>1 DEF Flat
  <2>3. ASSUME NEW i \in 1 .. l + 1
        PROVE  g[i] = IF i = 1 THEN texts[i] ELSE g[i - 1] \o texts[i]
    <3>1. CASE i <= l
      BY <2>2, <3>1
    <3>2. CASE i = l + 1
      BY <3>2
    <3> QED
      BY <3>1, <3>2
  <2>4. g = [i \in 1 .. l + 1 |-> g[i]]
    OBVIOUS
  <2> HIDE DEF g
  <2>5. [i \in 1 .. l + 1 |-> g[i]]
            = [i \in 1 .. l + 1 |-> IF i = 1 THEN texts[i] ELSE g[i - 1] \o texts[i]]
    BY <2>3
  <2>6. Flat(g, l + 1)
    BY <2>4, <2>5 DEF Flat
  <2> QED
    BY <2>6
<1>3. \A l \in Nat : l \in S
  <2> HIDE DEF S
  <2> QED
    BY <1>1, <1>2, SetInduction
<1>4. \E f : f = [i \in 1 .. L |-> IF i = 1 THEN texts[i] ELSE f[i - 1] \o texts[i]]
  <2>1. \E f : Flat(f, L)
    BY <1>0, <1>3
  <2> QED
    BY <2>1 DEF Flat
<1>5. F = [i \in 1 .. L |-> IF i = 1 THEN texts[i] ELSE F[i - 1] \o texts[i]]
  BY <1>4, Zenon
<1>6. FlattenSeq(texts) = IF Len(texts) = 0 THEN texts ELSE F[L]
  BY DEF FlattenSeq, L
<1> HIDE DEF F
<1>7. \A i \in 1 .. L : F[i] = IF i = 1 THEN texts[i] ELSE F[i - 1] \o texts[i]
  BY <1>5
<1> DEFINE G == [i \in 0 .. L |-> IF i = 0 THEN <<>> ELSE F[i]]
<1>8. G[0] = <<>> /\ \A i \in 1 .. L : G[i] = G[i - 1] \o texts[i]
  <2>1. G[0] = <<>> /\ \A i \in 1 .. L : G[i] = F[i]
    BY <1>0
  <2>2. \A t \in Text : <<>> \o t = t
    BY DEF Text
  <2> HIDE DEF G
  <2>3. ASSUME NEW i \in 1 .. L PROVE G[i] = G[i - 1] \o texts[i]
    <3>1. CASE i = 1
      <4>1. G[i - 1] = <<>> /\ G[i] = texts[i]
        BY <1>7, <2>1, <3>1
      <4> QED
        BY <1>0, <2>2, <4>1
    <3>2. CASE i # 1
      <4>1. i - 1 \in 1 .. L
        BY <1>0, <3>2
      <4> QED
        BY <1>7, <2>1, <3>2, <4>1
    <3> QED
      BY <3>1, <3>2
  <2> QED
    BY <2>1, <2>3
<1>9. FlattenSeq(texts) = G[L]
  <2>1. CASE L = 0
    <3>1. texts = <<>>
      BY <2>1 DEF L
    <3> QED
      BY <1>6, <1>8, <2>1, <3>1 DEF L
  <2>2. CASE L # 0
    BY <1>0, <1>6, <2>2 DEF L
  <2> QED
    BY <2>1, <2>2
<1> HIDE DEF G
<1> DEFINE T == {i \in Nat : i <= L => G[i] \in Text}
<1>10. 0 \in T
  <2>1. <<>> \in Text
    BY DEF Text
  <2> QED
    BY <1>8, <2>1
<1>11. ASSUME NEW i \in Nat, i \in T PROVE i + 1 \in T
  <2> SUFFICES ASSUME i + 1 <= L PROVE G[i + 1] \in Text
    OBVIOUS
  <2>1. i + 1 \in 1 .. L /\ (i + 1) - 1 = i /\ G[i] \in Text
    BY <1>0, <1>11
  <2>2. G[i + 1] = G[i] \o texts[i + 1]
    BY <1>8, <2>1
  <2>3. ASSUME NEW a \in Text, NEW b \in Text PROVE a \o b \in Text
    BY DEF Text
  <2> QED
    BY <1>0, <2>1, <2>2, <2>3
<1>12. \A i \in Nat : i \in T
  <2> HIDE DEF T
  <2> QED
    BY <1>10, <1>11, SetInduction
<1>13. \A i \in 0 .. L : G[i] \in Text
  BY <1>0, <1>12
<1> QED
  BY <1>8, <1>9, <1>13 DEF L

\* The texts of a sequence, one after the other, are a text.
LEMMA FlattenText ==
    ASSUME NEW texts \in Seq(Text)
    PROVE  FlattenSeq(texts) \in Text
<1>1. Len(texts) \in 0 .. Len(texts)
  OBVIOUS
<1> QED
  BY <1>1, FlattenSteps

\* Texts put together are a text.
LEMMA Together == \A a, b \in Text : a \o b \in Text
BY DEF Text

\* The text of the headers
LEMMA HeadersText ==
    ASSUME NEW h, IsHeaders(h)
    PROVE  buildRawHeader(h) \subseteq Text
<1>1. Crlf \in Text /\ <<":", "SP">> \in Text
  BY DEF Crlf, Text, Symbol, Other
<1> SUFFICES ASSUME NEW order \in SetToSeqs(DOMAIN h)
             PROVE  FlattenSeq([i \in 1 .. Len(order) |-> HeaderText(order[i], h[order[i]])]) \o Crlf
                        \in Text
  BY DEF buildRawHeader
<1>2. Cardinality(DOMAIN h) \in Nat
  BY FS_CardinalityType DEF IsHeaders
<1>3. order \in [1 .. Cardinality(DOMAIN h) -> DOMAIN h]
  BY DEF SetToSeqs
<1>4. order \in Seq(DOMAIN h)
  BY <1>2, <1>3
<1>5. ASSUME NEW i \in 1 .. Len(order) PROVE HeaderText(order[i], h[order[i]]) \in Text
  <2>1. order[i] \in Text /\ h[order[i]] \in Text
    BY <1>4 DEF IsHeaders
  <2> QED
    BY <1>1, <2>1, Together DEF HeaderText
<1> DEFINE lines == [i \in 1 .. Len(order) |-> HeaderText(order[i], h[order[i]])]
<1>6. Len(order) \in Nat
  BY <1>4
<1>7. lines \in Seq(Text)
  BY <1>5, <1>6
<1> HIDE DEF lines
<1>8. FlattenSeq(lines) \o Crlf \in Text
  BY <1>1, <1>7, FlattenText, Together
<1> QED
  BY <1>8 DEF lines

\* The text of a request
LEMMA RequestText ==
    ASSUME NEW m, IsRequest(m)
    PROVE  buildRequest(m) \subseteq Text
<1> SUFFICES ASSUME NEW head \in buildRawHeader(m.headers)
             PROVE  <<MethodText[m.request_type], "SP">> \o m.target_resource
                        \o <<"SP", "H", "T", "T", "P", "/", "1", ".", "1">> \o Crlf \o head
                        \o m.raw_body \in Text
  BY DEF buildRequest
<1>1. m.request_type \in Request!RequestType /\ m.target_resource \in Text /\ m.raw_body \in Text
  BY DEF IsRequest
<1>2. MethodText[m.request_type] \in Symbol
  BY <1>1 DEF MethodText, Request!RequestType, Symbol, Methods, Letter
<1>3. <<MethodText[m.request_type], "SP">> \in Text
  BY <1>2 DEF Text, Symbol, Other
<1>4. <<"SP", "H", "T", "T", "P", "/", "1", ".", "1">> \in Text
  BY DEF Text, Symbol, Other, Letter, Digit
<1>5. Crlf \in Text /\ head \in Text
  BY HeadersText DEF Crlf, Text, Symbol, Other, IsRequest
<1> QED
  BY <1>1, <1>3, <1>4, <1>5, Together

\* Code and phrase
LEMMA CodeTextType == ASSUME NEW code \in Text PROVE CodeText(code) \in Text
<1> DEFINE Fits(c) == HTTPResponseCodes[c] = code
           d == CHOOSE c \in Phrase : Fits(c)
<1>1. CASE \E c \in Phrase : Fits(c)
  <2>1. d \in Phrase
    BY <1>1, Zenon
  <2>2. CodeText(code) = code \o <<"SP", IF d = "TemporaryRedirect" THEN "UseProxy" ELSE d>>
    BY <1>1 DEF CodeText
  <2> HIDE DEF d
  <2>3. "UseProxy" \in Phrase
    BY DEF Phrase, HTTPResponseCodes
  <2>4. (IF d = "TemporaryRedirect" THEN "UseProxy" ELSE d) \in Symbol /\ "SP" \in Symbol
    BY <2>1, <2>3 DEF Symbol, Other
  <2>5. \A x, y \in Symbol : <<x, y>> \in Text
    BY DEF Text
  <2> QED
    BY <2>2, <2>4, <2>5, Together
<1>2. CASE ~ \E c \in Phrase : Fits(c)
  BY <1>2 DEF CodeText, Text
<1> QED
  BY <1>1, <1>2

\* The text of a response whose code is a text
LEMMA ResponseText ==
    ASSUME NEW m, IsResponse(m), m.response_code \in Text, NEW v
    PROVE  buildResponse(m, v) \subseteq Text
<1>1. <<>> \in Text
  BY DEF Text
<1>2. ASSUME NEW head \in buildRawHeader(m.headers)
      PROVE  <<"H", "T", "T", "P", "/", "1", ".", "1", "SP">> \o CodeText(m.response_code) \o Crlf
                 \o head \o m.raw_body \in Text
  <2>1. m.raw_body \in Text
    BY DEF IsResponse
  <2>2. CodeText(m.response_code) \in Text
    BY CodeTextType
  <2>3. <<"H", "T", "T", "P", "/", "1", ".", "1", "SP">> \in Text
    BY DEF Text, Symbol, Other, Letter, Digit
  <2>4. Crlf \in Text /\ head \in Text
    BY HeadersText DEF Crlf, Text, Symbol, Other, IsResponse
  <2> QED
    BY <2>1, <2>2, <2>3, <2>4, Together
<1> QED
  BY <1>1, <1>2 DEF buildResponse

-----------------------------------------------------------------------------
(* The inductive invariant.                                                *)

TypeInv ==
    /\ kind \in Kinds
    /\ stream \in Text
    /\ fed \in 0 .. Len(stream)
    /\ pos \in 0 .. fed
    /\ before \in BOOLEAN /\ blind \in BOOLEAN
    /\ pc \in {"compose", "taken", "caller", "loop"}
    /\ version \in {"HTTP1_1", "HTTP_2"} /\ calls \in 0 .. MaxCalls /\ Len(sent) <= 1
    /\ current_state \in States(kind)
    /\ IsMessage(kind, http_message)

\* While a message is composed nothing was sent, and its code is one.
ComposeInv ==
    pc \in {"compose", "taken"} =>
        /\ stream = <<>> /\ fed = 0 /\ pos = 0
        /\ ~ before /\ ~ blind
        /\ current_state = Start(kind)
        /\ kind = "response" => http_message.response_code \in Text

\* A parser in state s with message m is where reading w leads.
AgreeWith(w, s, m) ==
    /\ [m EXCEPT !.raw_body = <<>>] = w.message
    /\ kind = "request" \/ w.rest = <<>> => s = w.state /\ m.raw_body = w.rest
    /\ kind = "response" /\ w.rest # <<>> =>
          s = "ParsingDone" /\ m.raw_body # <<>> /\ IsPrefix(m.raw_body, w.rest)

\* Inside a call the parser agrees with the bytes it consumed; or with one
\* more, which it refused; or it will not move any more.
CutInv ==
    /\ before => pos >= 1
    /\ pc = "caller" /\ ~ blind => AgreeWith(Whole(fed), current_state, http_message)
    /\ pc = "loop" /\ ~ blind =>
          \/ AgreeWith(Whole(pos), current_state, http_message)
          \/ /\ pos < fed /\ current_state = "ProtocolError"
             /\ AgreeWith(Whole(pos + 1), current_state, http_message)
          \/ pos < fed /\ Stuck(current_state, http_message, stream[pos + 1])

IInv == TypeInv /\ ComposeInv /\ CutInv

\* It implies the type invariant that TLC checks.
LEMMA TypeInvType == TypeInv => TypeOK
<1> SUFFICES ASSUME TypeInv PROVE TypeOK
  OBVIOUS
<1>1. CASE kind = "request"
  <2>1. IsRequest(http_message)
    BY <1>1 DEF TypeInv, IsMessage
  <2>2. DOMAIN http_message = DOMAIN NewMessage(kind)
    BY <1>1, <2>1 DEF IsRequest, NewMessage, Request!NewMessage
  <2>3. /\ http_message.raw_body \in Text /\ http_message.temp_header_name \in Text
        /\ http_message.temp_header_value \in Text
        /\ http_message.request_type \in Request!RequestType
        /\ IsHeaders(http_message.headers)
    BY <2>1 DEF IsRequest
  <2>4. \A n \in DOMAIN http_message.headers : n \in Text /\ http_message.headers[n] \in Text
    BY <2>3 DEF IsHeaders
  <2> QED
    BY <1>1, <2>2, <2>3, <2>4 DEF TypeOK, TypeInv, Text, States
<1>2. CASE kind = "response"
  <2>1. IsResponse(http_message)
    BY <1>2 DEF TypeInv, IsMessage
  <2>2. DOMAIN http_message = DOMAIN NewMessage(kind)
    BY <1>2, <2>1 DEF IsResponse, NewMessage, Response!NewMessage
  <2>3. /\ http_message.raw_body \in Text /\ http_message.temp_header_name \in Text
        /\ http_message.temp_header_value \in Text
        /\ IsHeaders(http_message.headers)
    BY <2>1 DEF IsResponse
  <2>4. \A n \in DOMAIN http_message.headers : n \in Text /\ http_message.headers[n] \in Text
    BY <2>3 DEF IsHeaders
  <2> QED
    BY <1>2, <2>2, <2>3, <2>4 DEF TypeOK, TypeInv, Text, States
<1> QED
  BY <1>1, <1>2 DEF TypeInv, Kinds

\* Before the first byte
LEMMA AgreeZero ==
    ASSUME kind \in Kinds
    PROVE  AgreeWith(Zero, Start(kind), NewMessage(kind))
<1>1. NewMessage(kind).raw_body = <<>>
  BY NewMessageType
<1>2. [NewMessage(kind) EXCEPT !.raw_body = <<>>] = NewMessage(kind)
  BY DEF NewMessage, Request!NewMessage, Response!NewMessage
<1> QED
  BY <1>1, <1>2 DEF AgreeWith, Zero

\* The initial states
LEMMA InitInv == Init => IInv
<1> SUFFICES ASSUME Init PROVE IInv
  OBVIOUS
<1>1. kind \in Kinds /\ <<>> \in Text /\ MaxCalls \in Nat /\ Len(<<>>) = 0
  BY StreamsAssumption DEF Init, Text
<1>2. stream \in Text
  BY <1>1, StreamsAssumption DEF Init, Text
<1>3. Len(stream) \in Nat
  BY <1>2 DEF Text
<1>4. IsMessage(kind, NewMessage(kind)) /\ Start(kind) \in States(kind)
  BY <1>1, NewMessageType
<1>5. TypeInv
  <2>1. before \in BOOLEAN /\ blind \in BOOLEAN
    BY DEF Init
  <2>2. calls \in 0 .. MaxCalls /\ Len(sent) <= 1 /\ fed \in 0 .. Len(stream) /\ pos \in 0 .. fed
    BY <1>1, <1>3 DEF Init
  <2>3. pc \in {"compose", "taken", "caller", "loop"} /\ version \in {"HTTP1_1", "HTTP_2"}
    BY DEF Init
  <2> QED
    BY <1>1, <1>2, <1>4, <2>1, <2>2, <2>3 DEF Init, TypeInv
<1>6. kind = "response" => NewMessage(kind).response_code \in Text
  <2>1. <<"4", "0", "0">> \in Text
    BY DEF Text, Symbol, Digit
  <2> QED
    BY <2>1 DEF NewMessage, Response!NewMessage, Response!HTTPResponseCodes
<1>7. ComposeInv
  BY <1>6 DEF Init, ComposeInv
<1>8. CutInv
  BY <1>1, WholeStep, AgreeZero DEF Init, CutInv
<1> QED
  BY <1>5, <1>7, <1>8 DEF IInv

\* The beginning of every text, and so of the next one
LEMMA WholeZero == Whole(0) = Zero
BY WholeStep

\* The same in the next state
LEMMA WholeZeroNext == (Whole(0) = Zero)'
BY WholeZero, PTL

-----------------------------------------------------------------------------
(* The steps of the peer that composes.                                    *)

\* A setter
LEMMA ComposeKeeps ==
    ASSUME IInv, NEW m, Compose(m), IsMessage(kind, m),
           kind = "response" => m.response_code \in Text
    PROVE  IInv'
<1>1. /\ kind' = kind /\ stream' = stream /\ fed' = fed /\ pos' = pos /\ before' = before
      /\ blind' = blind /\ pc = "compose" /\ pc' = pc /\ current_state' = current_state
      /\ http_message' = m /\ version' = version /\ sent' = sent
  BY DEF Compose
<1>2. calls' \in 0 .. MaxCalls
  BY StreamsAssumption DEF Compose, IInv, TypeInv
<1>3. TypeInv'
  BY <1>1, <1>2 DEF IInv, TypeInv, IsMessage, States
<1>4. ComposeInv'
  BY <1>1 DEF IInv, ComposeInv, Start
<1>5. CutInv'
  BY <1>1 DEF IInv, ComposeInv, CutInv
<1> QED
  BY <1>3, <1>4, <1>5 DEF IInv

\* What the setters make of a message
LEMMA SettersType ==
    ASSUME IInv, pc = "compose"
    PROVE  /\ \A name \in Text, value \in Text :
                LET m == [http_message EXCEPT !.headers = addHeader(@, name, value)]
                IN  IsMessage(kind, m) /\ (kind = "response" => m.response_code \in Text)
           /\ \A name \in Text :
                LET m == [http_message EXCEPT !.headers = removeHeader(@, name)]
                IN  IsMessage(kind, m) /\ (kind = "response" => m.response_code \in Text)
           /\ \A body \in Text :
                LET m == setRawBody(http_message, body)
                IN  IsMessage(kind, m) /\ (kind = "response" => m.response_code \in Text)
           /\ \A target \in Text : kind = "request" =>
                IsMessage(kind, setHTTPTargetResource(http_message, target))
           /\ \A type \in Request!RequestType : kind = "request" =>
                IsMessage(kind, Request!setRequestType(http_message, type))
           /\ \A code \in Text : kind = "response" =>
                IsMessage(kind, [http_message EXCEPT !.response_code = code])
<1> DEFINE Good(m) == IsMessage(kind, m) /\ (kind = "response" => m.response_code \in Text)
<1>0. IsMessage(kind, http_message) /\ kind \in Kinds
      /\ (kind = "response" => http_message.response_code \in Text)
  BY DEF IInv, TypeInv, ComposeInv
<1>1. ASSUME NEW h, IsHeaders(h) PROVE Good([http_message EXCEPT !.headers = h])
  <2>1. CASE kind = "request"
    BY <1>0, <1>1, <2>1 DEF IsMessage, IsRequest
  <2>2. CASE kind = "response"
    <3>1. IsResponse(http_message)
      BY <1>0, <2>2 DEF IsMessage
    <3>2. IsResponse([http_message EXCEPT !.headers = h])
      BY <1>1, <3>1 DEF IsResponse
    <3>3. [http_message EXCEPT !.headers = h].response_code = http_message.response_code
      BY <3>1 DEF IsResponse
    <3> QED
      BY <1>0, <2>2, <3>2, <3>3 DEF IsMessage
  <2> QED
    BY <1>0, <2>1, <2>2 DEF Kinds
<1>2. IsHeaders(http_message.headers)
  BY <1>0 DEF IsMessage, IsRequest, IsResponse
<1>3. ASSUME NEW name \in Text, NEW value \in Text
      PROVE  Good([http_message EXCEPT !.headers = addHeader(@, name, value)])
  <2>1. IsHeaders(addHeader(http_message.headers, name, value))
    BY <1>2, HeadersType
  <2> HIDE DEF Good
  <2> QED
    BY <1>1, <2>1
<1>4. ASSUME NEW name \in Text
      PROVE  Good([http_message EXCEPT !.headers = removeHeader(@, name)])
  <2>1. IsHeaders(removeHeader(http_message.headers, name))
    BY <1>2, HeadersType
  <2> HIDE DEF Good
  <2> QED
    BY <1>1, <2>1
<1>5. ASSUME NEW body \in Text PROVE Good(setRawBody(http_message, body))
  <2>1. CASE kind = "request"
    BY <1>0, <1>5, <2>1 DEF IsMessage, IsRequest, setRawBody
  <2>2. CASE kind = "response"
    <3>1. IsResponse(http_message)
      BY <1>0, <2>2 DEF IsMessage
    <3>2. IsResponse([http_message EXCEPT !.raw_body = body])
      BY <1>5, <3>1 DEF IsResponse
    <3>3. [http_message EXCEPT !.raw_body = body].response_code = http_message.response_code
      BY <3>1 DEF IsResponse
    <3> QED
      BY <1>0, <2>2, <3>2, <3>3 DEF IsMessage, setRawBody
  <2> QED
    BY <1>0, <2>1, <2>2 DEF Kinds
<1>6. ASSUME NEW target \in Text, kind = "request"
      PROVE  IsMessage(kind, setHTTPTargetResource(http_message, target))
  <2>1. IsRequest(http_message) /\ http_message.target_resource \in Text
    BY <1>0, <1>6 DEF IsMessage, IsRequest
  <2>2. http_message.target_resource \o target \in Text
    BY <2>1, Together
  <2> QED
    BY <1>6, <2>1, <2>2 DEF IsMessage, IsRequest, setHTTPTargetResource
<1>7. ASSUME NEW type \in Request!RequestType, kind = "request"
      PROVE  IsMessage(kind, Request!setRequestType(http_message, type))
  BY <1>0, <1>7 DEF IsMessage, IsRequest, Request!setRequestType
<1>8. ASSUME NEW code \in Text, kind = "response"
      PROVE  IsMessage(kind, [http_message EXCEPT !.response_code = code])
  <2>1. code \in Seq(Symbol \cup {"?"})
    BY DEF Text
  <2> QED
    BY <1>0, <1>8, <2>1 DEF IsMessage, IsResponse
<1> QED
  BY <1>3, <1>4, <1>5, <1>6, <1>7, <1>8

\* The text goes out.
LEMMA SendKeeps ==
    ASSUME IInv, NEW m, NEW texts \in SUBSET Text, Send(m, texts)
    PROVE  IInv'
<1>1. /\ kind' = kind /\ stream' \in Text /\ fed' = 0 /\ pos' = 0 /\ before' = FALSE
      /\ blind' = FALSE /\ pc' = "caller" /\ current_state' = Start(kind)
      /\ http_message' = NewMessage(kind) /\ version' = "HTTP1_1" /\ calls' = 0 /\ sent' = <<m>>
  <2>1. before = FALSE /\ blind = FALSE
    <3>1. ~ before /\ ~ blind
      BY DEF Send, IInv, ComposeInv
    <3>2. before \in BOOLEAN /\ blind \in BOOLEAN
      BY DEF IInv, TypeInv
    <3> QED
      BY <3>1, <3>2
  <2> QED
    BY <2>1 DEF Send, IInv, ComposeInv
<1>2. kind \in Kinds /\ MaxCalls \in Nat
  BY StreamsAssumption DEF IInv, TypeInv
<1>3. IsMessage(kind, NewMessage(kind)) /\ Start(kind) \in States(kind)
  BY <1>2, NewMessageType
<1>4. TypeInv'
  <2>1. Len(stream') \in Nat
    BY <1>1 DEF Text
  <2>2. fed' \in 0 .. Len(stream') /\ pos' \in 0 .. fed' /\ calls' \in 0 .. MaxCalls /\ Len(sent') <= 1
    BY <1>1, <1>2, <2>1
  <2>3. before' \in BOOLEAN /\ blind' \in BOOLEAN
    BY <1>1
  <2>4. IsMessage(kind', http_message') /\ current_state' \in States(kind')
    BY <1>1, <1>3
  <2>5. pc' \in {"compose", "taken", "caller", "loop"} /\ version' \in {"HTTP1_1", "HTTP_2"}
    BY <1>1
  <2> QED
    BY <1>1, <1>2, <2>2, <2>3, <2>4, <2>5 DEF TypeInv
<1>5. ComposeInv'
  BY <1>1 DEF ComposeInv
<1>6. CutInv'
  <2>1. Zero' = Zero
    BY <1>1 DEF Zero, Start, NewMessage
  <2>2. AgreeWith(Whole(fed), current_state, http_message)'
    BY <1>1, <1>2, <2>1, WholeZeroNext, AgreeZero DEF AgreeWith
  <2> QED
    BY <1>1, <2>2 DEF CutInv
<1> QED
  BY <1>4, <1>5, <1>6 DEF IInv

\* The ready-made responses
LEMMA TemplatesType ==
    ASSUME NEW type \in TemplateType, NEW body \in Text, Len(body) < 10
    PROVE  LET m == HTTPResponseTemplates(NewMessage("response"), type, body)
           IN  IsResponse(m) /\ m.response_code \in Text
<1> DEFINE new   == NewMessage("response")
           code  == IF type = "Unauthorized" THEN "BadRequest" ELSE type
           typed == addHeader(new.headers, <<"Content-Type">>, <<"text/html">>)
           sized == addHeader(typed, <<"Content-Length">>, SizeText(body))
           dated == addHeader(sized, <<"Date">>, Now)
           authenticated == addHeader(dated, <<"WWW-Authenticate">>, body)
           message == [new EXCEPT !.response_code = HTTPResponseCodes[code], !.headers = dated]
<1>1. IsResponse(new) /\ IsHeaders(new.headers)
  BY NewMessageType DEF Kinds, IsMessage, IsResponse
<1>2. /\ <<"Content-Type">> \in Text /\ <<"text/html">> \in Text /\ <<"Content-Length">> \in Text
      /\ <<"Date">> \in Text /\ <<"WWW-Authenticate">> \in Text /\ Now \in Text
  BY DEF Text, Symbol, Letter, Now, Other, Digit
<1>3. SizeText(body) \in Text
  <2>1. Len(body) + 1 \in 1 .. 10
    BY DEF Text
  <2>2. <<"0", "1", "2", "3", "4", "5", "6", "7", "8", "9">>[Len(body) + 1] \in Symbol
    BY <2>1 DEF Symbol, Digit
  <2> QED
    BY <2>2 DEF SizeText, Text
<1>4. HTTPResponseCodes[code] \in Text
  <2>1. /\ HTTPResponseCodes["Ok"] = <<"2", "0", "0">>
        /\ HTTPResponseCodes["BadRequest"] = <<"4", "0", "0">>
        /\ HTTPResponseCodes["NotFound"] = <<"4", "0", "4">>
        /\ HTTPResponseCodes["Forbidden"] = <<"4", "0", "3">>
        /\ HTTPResponseCodes["NotAcceptable"] = <<"4", "0", "6">>
        /\ HTTPResponseCodes["MethodNotAllowed"] = <<"4", "0", "5">>
        /\ HTTPResponseCodes["UnsupportedMediaType"] = <<"4", "1", "5">>
        /\ HTTPResponseCodes["Created"] = <<"2", "0", "1">>
        /\ HTTPResponseCodes["MovedPermanently"] = <<"3", "0", "1">>
    BY DEF HTTPResponseCodes
  <2>2. \A x, y, z \in Digit : <<x, y, z>> \in Text
    BY DEF Text, Symbol
  <2>3. /\ <<"2", "0", "0">> \in Text
        /\ <<"4", "0", "0">> \in Text
        /\ <<"4", "0", "4">> \in Text
        /\ <<"4", "0", "3">> \in Text
        /\ <<"4", "0", "6">> \in Text
        /\ <<"4", "0", "5">> \in Text
        /\ <<"4", "1", "5">> \in Text
        /\ <<"2", "0", "1">> \in Text
        /\ <<"3", "0", "1">> \in Text
    BY <2>2 DEF Digit
  <2>4. code \in {"Ok", "BadRequest", "NotFound", "Forbidden", "NotAcceptable",
                 "MethodNotAllowed", "UnsupportedMediaType", "Created", "MovedPermanently"}
    BY DEF TemplateType
  <2> QED
    BY <2>1, <2>3, <2>4
<1>5. HTTPResponseCodes[code] \in Seq(Symbol \cup {"?"})
  BY <1>4 DEF Text
<1>6. IsHeaders(dated) /\ IsHeaders(authenticated)
  <2> HIDE DEF new
  <2>1. IsHeaders(typed)
    BY <1>1, <1>2, HeadersType
  <2> HIDE DEF typed
  <2>2. IsHeaders(sized)
    BY <1>2, <1>3, <2>1, HeadersType
  <2> HIDE DEF sized
  <2>3. IsHeaders(dated)
    BY <1>2, <2>2, HeadersType
  <2> HIDE DEF dated
  <2> QED
    BY <1>2, <2>3, HeadersType
<1>7. HTTPResponseTemplates(new, type, body) =
          IF type = "Unauthorized" THEN [message EXCEPT !.headers = authenticated]
          ELSE [message EXCEPT !.raw_body = @ \o body]
  <2>1. message.headers = dated
    <3> HIDE DEF dated, new, code
    <3> QED
      BY <1>1 DEF IsResponse
  <2> HIDE DEF message
  <2>2. [message EXCEPT !.headers = addHeader(@, <<"WWW-Authenticate">>, body)]
          = [message EXCEPT !.headers = authenticated]
    BY <2>1
  <2> QED
    BY <2>2 DEF HTTPResponseTemplates, pushBackRawBody, message
<1> HIDE DEF new, code, dated, authenticated
<1>8. IsResponse(message) /\ message.response_code = HTTPResponseCodes[code]
  BY <1>1, <1>5, <1>6 DEF IsResponse
<1> HIDE DEF message
<1>9. /\ IsResponse([message EXCEPT !.headers = authenticated])
      /\ [message EXCEPT !.headers = authenticated].response_code = message.response_code
  BY <1>6, <1>8 DEF IsResponse
<1>10. message.raw_body \o body \in Text
  BY <1>8, Together DEF IsResponse
<1>11. /\ IsResponse([message EXCEPT !.raw_body = @ \o body])
       /\ [message EXCEPT !.raw_body = @ \o body].response_code = message.response_code
  BY <1>8, <1>10 DEF IsResponse
<1> QED
  BY <1>4, <1>7, <1>8, <1>9, <1>11 DEF new

\* The steps of the peer that composes
LEMMA CompositionKeeps == IInv /\ Composition => IInv'
<1> SUFFICES ASSUME IInv, Composition PROVE IInv'
  OBVIOUS
<1>0. /\ Names \subseteq Text /\ Values \subseteq Text /\ Targets \subseteq Text
      /\ Bodies \subseteq Text /\ Codes \subseteq Text /\ <<>> \in Text
      /\ Templates \subseteq TemplateType /\ \A body \in Bodies : Len(body) < 10
  BY StreamsAssumption DEF Text
<1>1. CASE AddHeader
  <2>1. PICK name \in Names, value \in Values :
             Compose([http_message EXCEPT !.headers = addHeader(@, name, value)])
    BY <1>1 DEF AddHeader
  <2> DEFINE m == [http_message EXCEPT !.headers = addHeader(@, name, value)]
  <2>2. pc = "compose" /\ name \in Text /\ value \in Text
    BY <1>0, <2>1 DEF Compose
  <2>3. IsMessage(kind, m) /\ (kind = "response" => m.response_code \in Text)
    BY <2>2, SettersType
  <2> HIDE DEF m
  <2> QED
    BY <2>1, <2>3, ComposeKeeps DEF m
<1>2. CASE RemoveHeader
  <2>1. PICK name \in Names : Compose([http_message EXCEPT !.headers = removeHeader(@, name)])
    BY <1>2 DEF RemoveHeader
  <2> DEFINE m == [http_message EXCEPT !.headers = removeHeader(@, name)]
  <2>2. pc = "compose" /\ name \in Text
    BY <1>0, <2>1 DEF Compose
  <2>3. IsMessage(kind, m) /\ (kind = "response" => m.response_code \in Text)
    BY <2>2, SettersType
  <2> HIDE DEF m
  <2> QED
    BY <2>1, <2>3, ComposeKeeps DEF m
<1>3. CASE SetTarget
  <2>1. PICK target \in Targets : Compose(setHTTPTargetResource(http_message, target))
    BY <1>3 DEF SetTarget
  <2>2. pc = "compose" /\ kind = "request" /\ target \in Text
    BY <1>0, <1>3, <2>1 DEF Compose, SetTarget
  <2>3. IsMessage(kind, setHTTPTargetResource(http_message, target))
    BY <2>2, SettersType
  <2> QED
    BY <2>1, <2>2, <2>3, ComposeKeeps
<1>4. CASE SetType
  <2>1. PICK type \in Request!RequestType : Compose(Request!setRequestType(http_message, type))
    BY <1>4 DEF SetType
  <2>2. pc = "compose" /\ kind = "request"
    BY <1>4, <2>1 DEF Compose, SetType
  <2>3. IsMessage(kind, Request!setRequestType(http_message, type))
    BY <2>2, SettersType
  <2> QED
    BY <2>1, <2>2, <2>3, ComposeKeeps
<1>5. CASE SetCode
  <2>1. PICK code \in Codes : Compose([http_message EXCEPT !.response_code = code])
    BY <1>5 DEF SetCode
  <2> DEFINE m == [http_message EXCEPT !.response_code = code]
  <2>2. pc = "compose" /\ kind = "response" /\ code \in Text
    BY <1>0, <1>5, <2>1 DEF Compose, SetCode
  <2>3. IsMessage(kind, m)
    BY <2>2, SettersType
  <2>4. m.response_code = code
    BY <2>2 DEF IInv, TypeInv, IsMessage, IsResponse
  <2> HIDE DEF m
  <2> QED
    BY <2>1, <2>2, <2>3, <2>4, ComposeKeeps DEF m
<1>6. CASE SetBody \/ FlushBody
  <2>1. PICK body \in Text : Compose(setRawBody(http_message, body))
    BY <1>0, <1>6 DEF SetBody, FlushBody
  <2> DEFINE m == setRawBody(http_message, body)
  <2>2. pc = "compose"
    BY <2>1 DEF Compose
  <2>3. IsMessage(kind, m) /\ (kind = "response" => m.response_code \in Text)
    BY <2>2, SettersType
  <2> HIDE DEF m
  <2> QED
    BY <2>1, <2>3, ComposeKeeps DEF m
<1>7. CASE SetVersion
  <2>1. calls' \in 0 .. MaxCalls /\ version' \in {"HTTP1_1", "HTTP_2"}
    BY <1>7, StreamsAssumption DEF SetVersion, IInv, TypeInv
  <2>2. TypeInv'
    BY <1>7, <2>1 DEF SetVersion, IInv, TypeInv, IsMessage, States
  <2>3. ComposeInv'
    BY <1>7 DEF SetVersion, IInv, ComposeInv, Start
  <2>4. CutInv'
    BY <1>7 DEF SetVersion, IInv, ComposeInv, CutInv
  <2> QED
    BY <2>2, <2>3, <2>4 DEF IInv
<1>8. CASE TakeHeaders
  <2> DEFINE m == [http_message EXCEPT !.headers = NoHeaders]
  <2>1. IsMessage(kind, http_message) /\ kind \in Kinds
        /\ (kind = "response" => http_message.response_code \in Text)
    BY <1>8 DEF TakeHeaders, IInv, TypeInv, ComposeInv
  <2>2. IsMessage(kind, m) /\ (kind = "response" => m.response_code \in Text)
    <3>1. CASE kind = "request"
      BY <2>1, <3>1, NoHeadersType DEF IsMessage, IsRequest
    <3>2. CASE kind = "response"
      <4>1. IsResponse(http_message)
        BY <2>1, <3>2 DEF IsMessage
      <4>2. IsResponse(m) /\ m.response_code = http_message.response_code
        BY <4>1, NoHeadersType DEF IsResponse
      <4> QED
        BY <2>1, <3>2, <4>2 DEF IsMessage
    <3> QED
      BY <2>1, <3>1, <3>2 DEF Kinds
  <2> HIDE DEF m
  <2>3. /\ kind' = kind /\ stream' = stream /\ fed' = fed /\ pos' = pos /\ before' = before
        /\ blind' = blind /\ pc = "compose" /\ pc' = "taken" /\ current_state' = current_state
        /\ http_message' = m /\ version' = version /\ sent' = sent /\ calls' = calls
    BY <1>8 DEF TakeHeaders, composer, m
  <2>4. TypeInv'
    BY <2>2, <2>3 DEF IInv, TypeInv, IsMessage, States
  <2>5. ComposeInv'
    BY <2>2, <2>3 DEF IInv, ComposeInv, Start
  <2>6. CutInv'
    BY <2>3 DEF IInv, ComposeInv, CutInv
  <2> QED
    BY <2>4, <2>5, <2>6 DEF IInv
<1>9. CASE SendBuilt
  <2>1. CASE kind = "request"
    <3>1. buildRequest(http_message) \subseteq Text
      BY <2>1, RequestText DEF IInv, TypeInv, IsMessage
    <3> QED
      BY <1>9, <2>1, <3>1, SendKeeps DEF SendBuilt
  <2>2. CASE kind = "response"
    <3>1. buildResponse(http_message, version) \subseteq Text
      BY <1>9, <2>2, ResponseText DEF SendBuilt, Send, IInv, TypeInv, ComposeInv, IsMessage
    <3> QED
      BY <1>9, <2>2, <3>1, SendKeeps DEF SendBuilt
  <2> QED
    BY <2>1, <2>2 DEF IInv, TypeInv, Kinds
<1>10. CASE SendTemplate
  <2>1. PICK type \in Templates, body \in Bodies :
             LET m == HTTPResponseTemplates(NewMessage(kind), type, body)
             IN  Send(m, buildResponse(m, "HTTP1_1"))
    BY <1>10 DEF SendTemplate
  <2> DEFINE m == HTTPResponseTemplates(NewMessage("response"), type, body)
  <2>2. Send(m, buildResponse(m, "HTTP1_1"))
    BY <1>10, <2>1 DEF SendTemplate
  <2>3. IsResponse(m) /\ m.response_code \in Text
    BY <1>0, TemplatesType
  <2> HIDE DEF m
  <2>4. buildResponse(m, "HTTP1_1") \subseteq Text
    BY <2>3, ResponseText
  <2> QED
    BY <2>2, <2>4, SendKeeps
<1> QED
  BY <1>1, <1>2, <1>3, <1>4, <1>5, <1>6, <1>7, <1>8, <1>9, <1>10 DEF Composition

-----------------------------------------------------------------------------
(* The steps of the caller and of the parsers.                             *)

\* Where nothing moves, nothing moves ever after.
LEMMA StuckStays ==
    ASSUME NEW s, NEW m, IsMessage(kind, m), NEW c, NEW previous, Stuck(s, m, c)
    PROVE  LET r == Iteration(s, m, c, previous)
           IN  r.used = FALSE /\ Stuck(r.state, r.message, c)
<1> DEFINE r == Request!HeaderEndLF(m, c)
<1>1. Iteration(s, m, c, previous) = r /\ kind = "request" /\ s = "HeaderEndLF" /\ IsRequest(m)
  BY DEF Iteration, Stuck, Request!Iteration, IsMessage
<1>2. r = [state |-> "HeaderEndLF", message |-> m, used |-> FALSE]
      \/ r = [state |-> "HeaderEndLF", message |-> Request!setRequestType(m, "Unsupported"),
              used |-> FALSE]
  BY DEF Stuck, Request!HeaderEndLF, Methods
<1>3. Request!setRequestType(m, "Unsupported").temp_http_method = m.temp_http_method
  BY <1>1 DEF Request!setRequestType, IsRequest
<1> HIDE DEF r
<1>4. r.used = FALSE /\ r.state = "HeaderEndLF" /\ r.message.temp_http_method = m.temp_http_method
  BY <1>2, <1>3
<1>5. \A w : Request!MethodStartsWith(r.message, w) = Request!MethodStartsWith(m, w)
  BY <1>4 DEF Request!MethodStartsWith
<1> QED
  BY <1>1, <1>4, <1>5 DEF Stuck

\* A parser that is done ignores what comes.
LEMMA AgreeFinal ==
    ASSUME kind \in Kinds, stream \in Text, NEW n \in 0 .. Len(stream), NEW l \in n .. Len(stream),
           NEW s \in Final, NEW m, m.raw_body \in Text, AgreeWith(Whole(n), s, m)
    PROVE  AgreeWith(Whole(l), s, m)
<1>0. /\ Len(stream) \in Nat /\ n \in Nat /\ l \in Nat /\ n <= l /\ l <= Len(stream)
      /\ l \in 0 .. Len(stream)
  BY DEF Text
<1>1. IsReading(Whole(n))
  BY WholeType
<1>2. CASE kind = "request" \/ Whole(n).rest = <<>>
  <2>1. Whole(n).state \in Final
    BY <1>2 DEF AgreeWith
  <2>2. Whole(l) = Whole(n)
    BY <1>0, <2>1, FinalStays
  <2> QED
    BY <2>2
<1>3. CASE kind = "response" /\ Whole(n).rest # <<>>
  <2> DEFINE v == Whole(n).rest
             more == SubSeq(stream, n + 1, l)
  <2>1. /\ Whole(l).message = Whole(n).message
        /\ Whole(l).rest = v \o more
    BY <1>0, <1>1, <1>3, BodyGoesOn DEF IsReading
  <2>2. v \in Text /\ more \in Text /\ v # <<>> /\ IsPrefix(m.raw_body, v)
    BY <1>0, <1>1, <1>3 DEF IsReading, AgreeWith, Text
  <2> HIDE DEF v, more
  <2>3. v \o more # <<>>
    BY <2>2 DEF Text
  <2>4. IsPrefix(m.raw_body, v \o more)
    <3>1. \A a, b, d \in Text : IsPrefix(a, b) => IsPrefix(a, b \o d)
      <4> SUFFICES ASSUME NEW a \in Text, NEW b \in Text, NEW d \in Text, IsPrefix(a, b)
                   PROVE  IsPrefix(a, b \o d)
        OBVIOUS
      <4>1. Len(a) \in Nat /\ Len(b) \in Nat /\ Len(d) \in Nat /\ Len(a) <= Len(b)
            /\ Len(b \o d) = Len(b) + Len(d)
        BY DEF IsPrefix, Text
      <4>2. SubSeq(b \o d, 1, Len(a)) = SubSeq(b, 1, Len(a))
        BY <4>1 DEF Text
      <4> QED
        BY <4>1, <4>2 DEF IsPrefix
    <3> QED
      BY <2>2, <3>1
  <2>5. s = "ParsingDone" /\ m.raw_body # <<>> /\ [m EXCEPT !.raw_body = <<>>] = Whole(l).message
    BY <1>3, <2>1 DEF AgreeWith
  <2> QED
    BY <1>3, <2>1, <2>3, <2>4, <2>5 DEF AgreeWith
<1> QED
  BY <1>2, <1>3 DEF Kinds

\* A call begins.
LEMMA CallKeeps ==
    ASSUME IInv, NEW n \in PieceSizes \cup {Len(stream) - fed}, NEW keep \in BOOLEAN, Call(n, keep)
    PROVE  IInv'
<1>1. /\ kind' = kind /\ stream' = stream /\ fed' = fed + n /\ pos' = fed /\ pc = "caller"
      /\ before' = (keep /\ fed > 0) /\ blind' = blind /\ pc' = "loop"
      /\ current_state' = current_state /\ http_message' = http_message /\ version' = version
      /\ sent' = sent /\ calls' = calls /\ fed < Len(stream) /\ fed + n <= Len(stream)
  BY DEF Call, composer
<1>2. Len(stream) \in Nat /\ fed \in 0 .. Len(stream) /\ n \in Nat
  BY StreamsAssumption DEF IInv, TypeInv, Text
<1>3. TypeInv'
  <2>1. fed' \in 0 .. Len(stream') /\ pos' \in 0 .. fed'
    BY <1>1, <1>2
  <2>2. before' \in BOOLEAN
    BY <1>1
  <2> QED
    BY <1>1, <2>1, <2>2 DEF IInv, TypeInv, IsMessage, States
<1>4. ComposeInv'
  BY <1>1 DEF ComposeInv
<1>5. CutInv'
  <2>1. before' => pos' >= 1
    <3>1. fed > 0 => pos' >= 1
      BY <1>1, <1>2
    <3>2. before' => fed > 0
      BY <1>1
    <3> QED
      BY <3>1, <3>2
  <2>2. Whole(pos)' = Whole(fed)
    BY <1>1, WholeStays
  <2>3. ~ blind => AgreeWith(Whole(pos), current_state, http_message)'
    BY <1>1, <2>2 DEF IInv, CutInv, AgreeWith
  <2> QED
    BY <1>1, <2>1, <2>3 DEF CutInv
<1> QED
  BY <1>3, <1>4, <1>5 DEF IInv

\* A call ends behind its piece, or in a final state.
LEMMA FinishKeeps ==
    ASSUME IInv, Finish
    PROVE  IInv'
<1>1. /\ kind' = kind /\ stream' = stream /\ fed' = fed /\ pos' = pos /\ pc = "loop"
      /\ before' = before /\ blind' = blind /\ pc' = "caller"
      /\ current_state' = current_state /\ http_message' = http_message /\ version' = version
      /\ sent' = sent /\ calls' = calls
      /\ pos = fed \/ current_state \in Final
  BY DEF Finish, composer
<1>2. /\ Len(stream) \in Nat /\ fed \in 0 .. Len(stream) /\ pos \in 0 .. fed
      /\ kind \in Kinds /\ stream \in Text /\ IsMessage(kind, http_message)
  BY DEF IInv, TypeInv, Text
<1>3. TypeInv'
  BY <1>1 DEF IInv, TypeInv, IsMessage, States
<1>4. ComposeInv'
  BY <1>1 DEF ComposeInv
<1>5. ASSUME ~ blind PROVE AgreeWith(Whole(fed), current_state, http_message)
  <2>1. http_message.raw_body \in Text
    BY <1>2 DEF IsMessage, IsRequest, IsResponse
  <2>2. CASE AgreeWith(Whole(pos), current_state, http_message)
    <3>1. CASE pos = fed
      BY <2>2, <3>1
    <3>2. CASE current_state \in Final
      <4>1. pos \in 0 .. Len(stream) /\ fed \in pos .. Len(stream)
        BY <1>2
      <4> QED
        BY <1>2, <2>1, <2>2, <3>2, <4>1, AgreeFinal
    <3> QED
      BY <1>1, <3>1, <3>2
  <2>3. CASE /\ pos < fed /\ current_state = "ProtocolError"
             /\ AgreeWith(Whole(pos + 1), current_state, http_message)
    <3>1. pos + 1 \in 0 .. Len(stream) /\ fed \in pos + 1 .. Len(stream)
      BY <1>2, <2>3
    <3>2. current_state \in Final
      BY <2>3 DEF Final
    <3> QED
      BY <1>2, <2>1, <2>3, <3>1, <3>2, AgreeFinal
  <2>4. ~ (pos < fed /\ Stuck(current_state, http_message, stream[pos + 1]))
    BY <1>1, <1>2 DEF Stuck, Final
  <2> QED
    BY <1>1, <1>5, <2>2, <2>3, <2>4 DEF IInv, CutInv
<1>6. CutInv'
  <2>1. Whole(fed)' = Whole(fed)
    BY <1>1, WholeStays
  <2>2. ~ blind => AgreeWith(Whole(fed), current_state, http_message)'
    BY <1>1, <1>5, <2>1 DEF AgreeWith
  <2> QED
    BY <1>1, <2>2 DEF IInv, CutInv
<1> QED
  BY <1>3, <1>4, <1>6 DEF IInv

\* The rest of a piece is body.
LEMMA BodyKeeps ==
    ASSUME IInv, Body
    PROVE  IInv'
<1> DEFINE more == SubSeq(stream, pos + 1, fed)
<1>1. /\ kind' = kind /\ stream' = stream /\ fed' = fed /\ pos' = pos /\ pc = "loop"
      /\ before' = before /\ blind' = blind /\ pc' = "caller" /\ version' = version
      /\ sent' = sent /\ calls' = calls /\ pos < fed /\ current_state = BodyState
      /\ current_state' = AfterBody(http_message, more).state
      /\ http_message' = AfterBody(http_message, more).message
  BY DEF Body, composer
<1>2. /\ Len(stream) \in Nat /\ fed \in 0 .. Len(stream) /\ pos \in 0 .. fed
      /\ kind \in Kinds /\ stream \in Text /\ IsMessage(kind, http_message)
  BY DEF IInv, TypeInv, Text
<1>3. more \in Text /\ more # <<>>
  <2>1. Len(more) = fed - pos
    BY <1>1, <1>2 DEF Text
  <2> QED
    BY <1>1, <1>2, <2>1 DEF Text
<1>4. http_message.raw_body \in Text
  BY <1>2 DEF IsMessage, IsRequest, IsResponse
<1> DEFINE body == http_message.raw_body \o more
<1>5. body \in Text
  BY <1>3, <1>4, Together
<1>6. /\ http_message' = [http_message EXCEPT !.raw_body = body]
      /\ current_state' = IF kind = "request" THEN "MessageBody" ELSE "ParsingDone"
  <2> HIDE DEF more
  <2> QED
    BY <1>1, <1>2 DEF AfterBody, Request!Body, Response!Body, Request!pushBackRawBody,
                      Response!pushBackRawBody, Kinds
<1>7. /\ IsMessage(kind, http_message') /\ http_message'.raw_body = body
      /\ [http_message' EXCEPT !.raw_body = <<>>] = [http_message EXCEPT !.raw_body = <<>>]
  <2> HIDE DEF body
  <2>1. CASE kind = "request"
    BY <1>2, <1>5, <1>6, <2>1 DEF IsMessage, IsRequest
  <2>2. CASE kind = "response"
    BY <1>2, <1>5, <1>6, <2>2 DEF IsMessage, IsResponse
  <2> QED
    BY <1>2, <2>1, <2>2 DEF Kinds
<1>8. TypeInv'
  <2>1. current_state' \in States(kind)
    BY <1>2, <1>6 DEF States, Request!ParserState, Response!ResponseParserState, Kinds
  <2> QED
    BY <1>1, <1>7, <2>1 DEF IInv, TypeInv, IsMessage, States
<1>9. ComposeInv'
  BY <1>1 DEF ComposeInv
<1>10. ASSUME ~ blind PROVE AgreeWith(Whole(fed), current_state', http_message')
  <2> DEFINE w == Whole(pos)
  <2>0. current_state \notin Final /\ current_state # "HeaderEndLF" /\ current_state # "ParsingDone"
        /\ current_state # "ProtocolError"
    BY <1>1 DEF BodyState, Final, Request!BodyState, Response!BodyState
  <2>1. AgreeWith(w, current_state, http_message)
    BY <1>1, <1>10, <2>0 DEF IInv, CutInv, Stuck
  <2>2. pos \in 0 .. Len(stream) /\ pos \in Nat /\ fed \in Nat /\ pos <= fed /\ fed <= Len(stream)
    BY <1>2
  <2>3. IsReading(w)
    BY <1>2, <2>2, WholeType
  <2> HIDE DEF w
  <2>4. w.state = current_state /\ http_message.raw_body = w.rest /\ (kind = "response" => w.rest = <<>>)
    <3>1. kind = "response" => w.rest = <<>>
      BY <2>0, <2>1 DEF AgreeWith
    <3>2. kind = "request" \/ w.rest = <<>>
      BY <1>2, <3>1 DEF Kinds
    <3> QED
      BY <2>1, <3>1, <3>2 DEF AgreeWith
  <2>5. /\ Whole(fed).state = BodyState /\ Whole(fed).message = w.message
        /\ Whole(fed).rest = w.rest \o more
    BY <1>1, <1>2, <2>2, <2>4, BodyGoesOn DEF w
  <2>6. Whole(fed).rest = body
    BY <2>4, <2>5
  <2>7. body # <<>>
    <3>1. \A a, b \in Text : b # <<>> => a \o b # <<>>
      BY DEF Text
    <3> QED
      BY <1>3, <1>4, <3>1
  <2>8. IsPrefix(body, body)
    BY <1>5 DEF IsPrefix, Text
  <2>9. [http_message' EXCEPT !.raw_body = <<>>] = Whole(fed).message
    BY <1>7, <2>1, <2>5 DEF AgreeWith
  <2> HIDE DEF body
  <2>10. CASE kind = "request"
    <3>1. current_state' = Whole(fed).state
      BY <1>6, <2>5, <2>10 DEF BodyState, Request!BodyState
    <3> QED
      BY <1>7, <2>6, <2>9, <2>10, <3>1 DEF AgreeWith
  <2>11. CASE kind = "response"
    BY <1>6, <1>7, <2>6, <2>7, <2>8, <2>9, <2>11 DEF AgreeWith
  <2> QED
    BY <1>2, <2>10, <2>11 DEF Kinds
<1>11. CutInv'
  <2>1. Whole(fed)' = Whole(fed)
    BY <1>1, WholeStays
  <2>2. ~ blind => AgreeWith(Whole(fed), current_state, http_message)'
    BY <1>1, <1>10, <2>1 DEF AgreeWith
  <2> QED
    BY <1>1, <2>2 DEF IInv, CutInv
<1> QED
  BY <1>8, <1>9, <1>11 DEF IInv

\* One iteration of a parser's loop
LEMMA AdvanceKeeps ==
    ASSUME IInv, Advance
    PROVE  IInv'
<1> DEFINE c    == stream[pos + 1]
           look == LooksBack(current_state, c)
           n    == pos + 1
<1>1. PICK previous \in (IF look THEN Previous ELSE {"CTL"}) :
        LET r == Iteration(current_state, http_message, c, previous)
        IN  /\ current_state' = r.state
            /\ http_message' = r.message
            /\ pos' = IF r.used THEN pos + 1 ELSE pos
            /\ before' = (before \/ r.used)
  BY DEF Advance
<1> DEFINE r == Iteration(current_state, http_message, c, previous)
<1>2. /\ kind' = kind /\ stream' = stream /\ fed' = fed /\ pc = "loop" /\ pc' = pc
      /\ version' = version /\ sent' = sent /\ calls' = calls /\ pos < fed
      /\ current_state \notin Final /\ current_state # BodyState
      /\ blind' = (blind \/ (look /\ ~ before))
  BY DEF Advance, composer
<1>3. /\ Len(stream) \in Nat /\ fed \in 0 .. Len(stream) /\ pos \in 0 .. fed
      /\ kind \in Kinds /\ stream \in Text /\ IsMessage(kind, http_message)
      /\ current_state \in States(kind) /\ before \in BOOLEAN /\ blind \in BOOLEAN
  BY DEF IInv, TypeInv, Text
<1>4. c \in Symbol /\ n \in Nat /\ pos \in Nat /\ n \in 0 .. Len(stream) /\ n - 1 = pos /\ n <= fed
      /\ pos \in 0 .. Len(stream)
  BY <1>2, <1>3 DEF Text
<1> HIDE DEF c, look
<1>5. /\ r.state \in States(kind) /\ IsMessage(kind, r.message)
      /\ r.message.raw_body = http_message.raw_body
      /\ r.used \in BOOLEAN
      /\ \/ r.used
         \/ r.state = "ProtocolError" /\ r.message = http_message
         \/ /\ Stuck(current_state, http_message, c) /\ r.state = current_state
            /\ Stuck(r.state, r.message, c)
  BY <1>3, <1>4, IterationType
<1>6. /\ current_state' = r.state /\ http_message' = r.message
      /\ pos' = (IF r.used THEN n ELSE pos) /\ before' = (before \/ r.used)
  BY <1>1
<1>7. TypeInv'
  <2>1. pos' \in 0 .. fed'
    <3> HIDE DEF r
    <3> QED
      BY <1>2, <1>3, <1>4, <1>6
  <2>2. before' \in BOOLEAN /\ blind' \in BOOLEAN
    BY <1>2, <1>6
  <2> HIDE DEF r
  <2> QED
    BY <1>2, <1>5, <1>6, <2>1, <2>2 DEF IInv, TypeInv, IsMessage, States
<1>8. ComposeInv'
  BY <1>2 DEF ComposeInv
<1>9. before' => pos' >= 1
  <2> HIDE DEF r
  <2>1. r.used => pos' >= 1
    BY <1>3, <1>6
  <2>2. ~ r.used /\ before => pos' >= 1
    BY <1>6 DEF IInv, CutInv
  <2> QED
    BY <1>6, <2>1, <2>2
<1>10. ASSUME ~ blind'
       PROVE  \/ AgreeWith(Whole(pos'), r.state, r.message)
              \/ /\ pos' < fed /\ r.state = "ProtocolError"
                 /\ AgreeWith(Whole(pos' + 1), r.state, r.message)
              \/ pos' < fed /\ Stuck(r.state, r.message, stream[pos' + 1])
  <2> DEFINE w == Whole(pos)
  <2>1. ~ blind /\ (look => before)
    BY <1>2, <1>10
  <2>2. CASE AgreeWith(w, current_state, http_message)
    <3>1. IsReading(w)
      BY <1>3, <1>4, WholeType
    <3> HIDE DEF w
    <3>2. w.state = current_state /\ w.rest = <<>> /\ http_message.raw_body = <<>>
      <4>1. kind = "request" \/ w.rest = <<>>
        BY <1>2, <1>3, <2>2 DEF AgreeWith, Kinds, Final
      <4>2. w.state = current_state /\ http_message.raw_body = w.rest
        BY <2>2, <4>1 DEF AgreeWith
      <4> QED
        BY <1>2, <3>1, <4>2 DEF IsReading
    <3>3. w.message = http_message
      <4>1. [http_message EXCEPT !.raw_body = <<>>] = http_message
        BY <1>3, <3>2 DEF IsMessage, IsRequest, IsResponse
      <4> QED
        BY <2>2, <4>1 DEF AgreeWith
    <3> DEFINE p == IF n = 1 THEN "CTL" ELSE stream[n - 1]
    <3>4. Iteration(current_state, http_message, c, p) = r
      <4>1. CASE look
        <5>1. before /\ pos >= 1
          BY <2>1, <4>1 DEF IInv, CutInv
        <5>2. previous = stream[pos]
          BY <1>1, <4>1, <5>1 DEF Previous
        <5>3. p = stream[pos]
          BY <1>4, <5>1
        <5> QED
          BY <5>2, <5>3
      <4>2. CASE ~ look
        BY <4>2, LookMatters DEF look
      <4> QED
        BY <4>1, <4>2
    <3>5. Whole(n) = [state |-> r.state, message |-> r.message, rest |-> <<>>]
      <4>1. Whole(n) = Step(w, n)
        BY <1>4, WholeStep DEF w
      <4>2. Step(w, n) = [state |-> Iteration(w.state, w.message, c, p).state,
                          message |-> Iteration(w.state, w.message, c, p).message, rest |-> <<>>]
        BY <1>2, <3>2 DEF Step, c
      <4> QED
        BY <3>2, <3>3, <3>4, <4>1, <4>2
    <3> HIDE DEF r, p
    <3>6. [r.message EXCEPT !.raw_body = <<>>] = r.message
      BY <1>3, <1>5, <3>2 DEF IsMessage, IsRequest, IsResponse
    <3>7. AgreeWith(Whole(n), r.state, r.message)
      BY <1>5, <3>2, <3>5, <3>6 DEF AgreeWith
    <3>8. CASE r.used
      BY <1>6, <3>7, <3>8
    <3>9. CASE ~ r.used
      BY <1>2, <1>5, <1>6, <3>7, <3>9 DEF c
    <3> QED
      BY <3>8, <3>9
  <2>3. CASE Stuck(current_state, http_message, c)
    <3>1. r.used = FALSE /\ Stuck(r.state, r.message, c)
      BY <1>3, <2>3, StuckStays
    <3> HIDE DEF r
    <3> QED
      BY <1>2, <1>6, <3>1 DEF c
  <2> QED
    BY <1>2, <2>1, <2>2, <2>3 DEF IInv, CutInv, Final, c
<1>11. CutInv'
  <2>1. Whole(pos)' = Whole(pos') /\ Whole(pos + 1)' = Whole(pos' + 1)
    BY <1>2, WholeStays
  <2> HIDE DEF r
  <2>2. ASSUME ~ blind'
        PROVE  \/ AgreeWith(Whole(pos), current_state, http_message)'
               \/ /\ pos' < fed' /\ current_state' = "ProtocolError"
                  /\ AgreeWith(Whole(pos + 1), current_state, http_message)'
               \/ pos' < fed' /\ Stuck(current_state, http_message, stream[pos + 1])'
    <3>1. AgreeWith(Whole(pos), current_state, http_message)'
              = AgreeWith(Whole(pos'), r.state, r.message)
      BY <1>2, <1>6, <2>1 DEF AgreeWith
    <3>2. AgreeWith(Whole(pos + 1), current_state, http_message)'
              = AgreeWith(Whole(pos' + 1), r.state, r.message)
      BY <1>2, <1>6, <2>1 DEF AgreeWith
    <3>3. Stuck(current_state, http_message, stream[pos + 1])'
              = Stuck(r.state, r.message, stream[pos' + 1])
      BY <1>2, <1>6 DEF Stuck
    <3> QED
      BY <1>2, <1>6, <1>10, <2>2, <3>1, <3>2, <3>3
  <2> QED
    BY <1>2, <1>9, <2>2 DEF CutInv
<1> QED
  BY <1>7, <1>8, <1>11 DEF IInv

-----------------------------------------------------------------------------
(* The line decoder.                                                       *)

\* A set of numbers has a least one.
LEMMA LeastNumber ==
    ASSUME NEW S \in SUBSET Nat, S # {}
    PROVE  \E i \in S : \A j \in S : i <= j
<1>1. PICK i \in S : \A j \in S : ~ (<<j, i>> \in OpToRel(<, Nat))
  BY NatLessThanWellFounded, WFMin
<1>2. \A j \in S : ~ (j < i)
  BY <1>1 DEF OpToRel
<1> QED
  BY <1>2

\* The search for a character
LEMMA FindChar ==
    ASSUME NEW text \in Text, NEW b \in Nat \ {0}, NEW c
    PROVE  LET at == find_char(text, b, c)
           IN  \/ /\ at \in b .. Len(text) /\ text[at] = c
                  /\ \A j \in b .. at - 1 : text[j] # c
               \/ at = Len(text) + 1 /\ \A j \in b .. Len(text) : text[j] # c
<1> DEFINE places == {i \in b .. Len(text) : text[i] = c}
           at == CHOOSE i \in places : \A j \in places : i <= j
<1>0. Len(text) \in Nat
  BY DEF Text
<1>1. find_char(text, b, c) = IF places = {} THEN Len(text) + 1 ELSE at
  BY DEF find_char
<1>2. CASE places = {}
  BY <1>1, <1>2
<1>3. CASE places # {}
  <2>1. \E i \in places : \A j \in places : i <= j
    <3>1. places \in SUBSET Nat
      BY <1>0
    <3> HIDE DEF places
    <3> QED
      BY <1>3, <3>1, LeastNumber
  <2>2. at \in places /\ \A j \in places : at <= j
    <3> HIDE DEF places
    <3> QED
      BY <2>1, Zenon
  <2> HIDE DEF at
  <2>3. at \in b .. Len(text) /\ text[at] = c
    BY <2>2
  <2>4. \A j \in b .. at - 1 : text[j] # c
    <3> SUFFICES ASSUME NEW j \in b .. at - 1, text[j] = c PROVE FALSE
      OBVIOUS
    <3>1. j \in places
      BY <1>0, <2>3
    <3> QED
      BY <2>2, <2>3, <3>1
  <2> QED
    BY <1>1, <1>3, <2>3, <2>4
<1> QED
  BY <1>2, <1>3

\* The character that ends a frame, where it is found, and whether it does.
Mark(type) == IF type = "CarriageReturnNewLine" THEN "CR" ELSE "LF"

Place(text, type, b) == find_char(text, b, Mark(type))

Ends(text, type, ahead, beyond, b) ==
    Place(text, type, b) <= Len(text) /\ Terminates(text, type, Place(text, type, b), ahead, beyond)

\* What Decode finds from b on, given what it finds further on
More(text, type, ahead, beyond, f, b) ==
    IF Ends(text, type, ahead, beyond, b)
    THEN <<Frame(b, Place(text, type, b))>> \o f[Place(text, type, b) + 2] ELSE <<>>

\* Where a frame ends
LEMMA PlaceType ==
    ASSUME NEW text \in Text, NEW type, NEW b \in Nat \ {0}
    PROVE  /\ Place(text, type, b) \in Nat
           /\ Place(text, type, b) <= Len(text) =>
                /\ Place(text, type, b) \in b .. Len(text)
                /\ text[Place(text, type, b)] = Mark(type)
                /\ \A j \in b .. Place(text, type, b) - 1 : text[j] # Mark(type)
           /\ ~ Place(text, type, b) <= Len(text) =>
                \A j \in b .. Len(text) : text[j] # Mark(type)
<1>0. Len(text) \in Nat
  BY DEF Text
<1> DEFINE at == find_char(text, b, Mark(type))
<1>1. \/ /\ at \in b .. Len(text) /\ text[at] = Mark(type)
         /\ \A j \in b .. at - 1 : text[j] # Mark(type)
      \/ at = Len(text) + 1 /\ \A j \in b .. Len(text) : text[j] # Mark(type)
  BY FindChar
<1> HIDE DEF at
<1> QED
  BY <1>0, <1>1 DEF Place, at

\* Decode, by recursion
LEMMA DecodeStep ==
    ASSUME NEW text \in Text, NEW type, NEW ahead, NEW beyond
    PROVE  \A b \in 1 .. Len(text) + 2 :
             Decode(text, b, type, ahead, beyond) =
               IF Ends(text, type, ahead, beyond, b)
               THEN <<Frame(b, Place(text, type, b))>>
                    \o Decode(text, Place(text, type, b) + 2, type, ahead, beyond)
               ELSE <<>>
<1> DEFINE L == Len(text)
           D == 1 .. L + 2
           M(f, b) == More(text, type, ahead, beyond, f, b)
           c == IF type = "CarriageReturnNewLine" THEN "CR" ELSE "LF"
           at(b) == find_char(text, b, c)
           N(f, b) == IF at(b) > L THEN <<>>
                      ELSE IF ~ Terminates(text, type, at(b), ahead, beyond) THEN <<>>
                      ELSE <<Frame(b, at(b))>> \o f[Resume(Frame(b, at(b)))]
           F == CHOOSE f : f = [b \in D |-> N(f, b)]
           Good(f, k) == /\ f = [b \in D |-> f[b]]
                         /\ \A b \in D : b > L + 2 - k => f[b] = M(f, b)
           S == {k \in Nat : \E f : Good(f, k)}
<1>0. L \in Nat
  BY DEF Text
<1> HIDE DEF L
<1>a. ASSUME NEW b \in D PROVE Resume(Frame(b, Place(text, type, b))) = Place(text, type, b) + 2
  BY <1>0, <1>a, PlaceType DEF Resume, Frame
<1>b. \A b \in D : Ends(text, type, ahead, beyond, b) =>
        Place(text, type, b) + 2 \in D /\ Place(text, type, b) + 2 > b
  <2> SUFFICES ASSUME NEW b \in D, Ends(text, type, ahead, beyond, b)
               PROVE  Place(text, type, b) + 2 \in D /\ Place(text, type, b) + 2 > b
    OBVIOUS
  <2>1. b \in Nat \ {0} /\ Place(text, type, b) <= L
    BY <1>0 DEF Ends, L
  <2>2. Place(text, type, b) \in b .. L
    BY <2>1, PlaceType DEF L
  <2> QED
    BY <1>0, <2>1, <2>2
<1>1. 0 \in S
  <2> DEFINE f == [b \in D |-> <<>>]
  <2>1. Good(f, 0)
    BY <1>0
  <2> QED
    BY <2>1
<1>2. ASSUME NEW k \in Nat, k \in S PROVE k + 1 \in S
  <2>1. PICK f : Good(f, k)
    BY <1>2
  <2> DEFINE a == L + 2 - k
             g == [b \in D |-> IF b = a THEN M(f, a) ELSE f[b]]
  <2>2. ASSUME NEW b \in D, b >= a PROVE M(g, b) = M(f, b)
    <3> DEFINE p == Place(text, type, b) + 2
    <3>1. CASE Ends(text, type, ahead, beyond, b)
      <4>1. p \in D /\ p > b
        BY <1>b, <3>1
      <4>2. g[p] = f[p]
        BY <1>0, <2>2, <4>1
      <4> HIDE DEF g
      <4> QED
        BY <4>2 DEF More
    <3>2. CASE ~ Ends(text, type, ahead, beyond, b)
      BY <3>2 DEF More
    <3> QED
      BY <3>1, <3>2
  <2>3. ASSUME NEW b \in D, b > L + 2 - (k + 1) PROVE g[b] = M(g, b)
    <3>1. b >= a /\ (b # a => b > a)
      BY <1>0, <2>3
    <3>2. b # a => f[b] = M(f, b)
      BY <2>1, <3>1
    <3>3. g[b] = M(f, b)
      <4> HIDE DEF M
      <4> QED
        BY <3>2
    <3> QED
      BY <2>2, <3>1, <3>3
  <2>4. g = [b \in D |-> g[b]]
    OBVIOUS
  <2>5. Good(g, k + 1)
    <3> HIDE DEF g, M
    <3> QED
      BY <2>3, <2>4
  <2> HIDE DEF g, Good
  <2> QED
    BY <2>5
<1>3. \A k \in Nat : k \in S
  <2> HIDE DEF S
  <2> QED
    BY <1>1, <1>2, SetInduction
<1>4. \E f : f = [b \in D |-> M(f, b)]
  <2>1. PICK f : Good(f, L + 2)
    <3>1. L + 2 \in S
      BY <1>0, <1>3
    <3> QED
      BY <3>1
  <2>2. \A b \in D : f[b] = M(f, b)
    <3> HIDE DEF M
    <3> QED
      BY <1>0, <2>1
  <2>3. [b \in D |-> f[b]] = [b \in D |-> M(f, b)]
    <3> HIDE DEF M
    <3> QED
      BY <2>2
  <2> QED
    BY <2>1, <2>3
<1>5. ASSUME NEW f, NEW b \in D PROVE N(f, b) = M(f, b)
  <2>1. at(b) = Place(text, type, b) /\ (at(b) > L <=> ~ at(b) <= L)
    <3>1. Place(text, type, b) \in Nat
      BY <1>0, PlaceType
    <3> QED
      BY <1>0, <3>1 DEF Place, Mark
  <2> QED
    BY <1>a, <2>1 DEF More, Ends, L
<1>6. F = [b \in D |-> N(F, b)]
  <2>1. PICK f : f = [b \in D |-> M(f, b)]
    BY <1>4
  <2>2. [b \in D |-> M(f, b)] = [b \in D |-> N(f, b)]
    <3> HIDE DEF M, N
    <3> QED
      BY <1>5
  <2>3. \E h : h = [b \in D |-> N(h, b)]
    <3> HIDE DEF M, N
    <3> QED
      BY <2>1, <2>2
  <2> QED
    BY <2>3, Zenon
<1>8. ASSUME NEW b PROVE Decode(text, b, type, ahead, beyond) = F[b]
  BY DEF Decode, L
<1> HIDE DEF F
<1>7. \A b \in D : F[b] = M(F, b)
  <2> HIDE DEF M, N
  <2> QED
    BY <1>5, <1>6
<1> SUFFICES ASSUME NEW b \in D
             PROVE  Decode(text, b, type, ahead, beyond) =
                      IF Ends(text, type, ahead, beyond, b)
                      THEN <<Frame(b, Place(text, type, b))>>
                           \o Decode(text, Place(text, type, b) + 2, type, ahead, beyond)
                      ELSE <<>>
  BY DEF L
<1> QED
  BY <1>7, <1>8 DEF More

\* Induction from the end: a set that has a number when it has all larger ones
LEMMA DownInduction ==
    ASSUME NEW n \in Nat, NEW S,
           \A b \in 1 .. n : (\A d \in 1 .. n : d > b => d \in S) => b \in S
    PROVE  \A b \in 1 .. n : b \in S
<1> DEFINE T == {n - b : b \in (1 .. n) \ S}
<1> SUFFICES ASSUME T # {} PROVE FALSE
  OBVIOUS
<1>1. T \in SUBSET Nat
  OBVIOUS
<1>2. PICK i \in T : \A j \in T : i <= j
  <2> HIDE DEF T
  <2> QED
    BY <1>1, LeastNumber
<1>3. PICK b \in (1 .. n) \ S : i = n - b
  BY <1>2
<1>4. ASSUME NEW d \in 1 .. n, d > b PROVE d \in S
  <2> SUFFICES ASSUME d \notin S PROVE FALSE
    OBVIOUS
  <2>1. n - d \in T
    BY <1>4
  <2>2. n - d < i
    BY <1>3, <1>4
  <2>3. i <= n - d
    <3> HIDE DEF T
    <3> QED
      BY <1>2, <2>1
  <2> QED
    BY <1>3, <2>2, <2>3
<1> QED
  BY <1>3, <1>4

Frames == [begin : Nat, length : Int]

\* Decode gives frames.
LEMMA DecodeType ==
    ASSUME NEW text \in Text, NEW type, NEW ahead, NEW beyond
    PROVE  \A b \in 1 .. Len(text) + 2 : Decode(text, b, type, ahead, beyond) \in Seq(Frames)
<1> DEFINE D(b) == Decode(text, b, type, ahead, beyond)
           n == Len(text) + 2
           S == {b \in 1 .. n : D(b) \in Seq(Frames)}
<1>0. Len(text) \in Nat /\ n \in Nat
  BY DEF Text
<1> SUFFICES ASSUME NEW b \in 1 .. n, \A d \in 1 .. n : d > b => d \in S
             PROVE  b \in S
  <2>1. \A b \in 1 .. n : (\A d \in 1 .. n : d > b => d \in S) => b \in S
    OBVIOUS
  <2>2. \A b \in 1 .. n : b \in S
    <3> HIDE DEF S, n
    <3> QED
      BY <1>0, <2>1, DownInduction
  <2> QED
    BY <2>2
<1> DEFINE at == Place(text, type, b)
<1>1. D(b) = IF Ends(text, type, ahead, beyond, b) THEN <<Frame(b, at)>> \o D(at + 2) ELSE <<>>
  BY DecodeStep
<1>2. CASE Ends(text, type, ahead, beyond, b)
  <2>1. at \in b .. Len(text)
    BY <1>0, <1>2, PlaceType DEF Ends
  <2> HIDE DEF at
  <2>2. at + 2 \in 1 .. n /\ at + 2 > b
    BY <1>0, <2>1
  <2>3. D(at + 2) \in Seq(Frames)
    BY <2>2
  <2>4. Frame(b, at) \in Frames
    BY <2>1 DEF Frame, Frames
  <2> HIDE DEF D
  <2>5. <<Frame(b, at)>> \o D(at + 2) \in Seq(Frames)
    BY <2>3, <2>4
  <2> QED
    BY <1>1, <1>2, <2>5
<1>3. CASE ~ Ends(text, type, ahead, beyond, b)
  <2> HIDE DEF D
  <2> QED
    BY <1>1, <1>3
<1> QED
  BY <1>2, <1>3

\* Where the search goes on behind the frames that were found
After(frames, b) == IF frames = <<>> THEN b ELSE Resume(Last(frames))

\* One frame more in front changes nothing about that.
LEMMA AfterMore ==
    ASSUME NEW b \in Nat, NEW at \in Nat, NEW frames \in Seq(Frames)
    PROVE  After(<<Frame(b, at)>> \o frames, b) = After(frames, at + 2)
<1> DEFINE f == Frame(b, at)
<1>1. f \in Frames /\ Resume(f) = at + 2
  BY DEF Frame, Frames, Resume
<1> HIDE DEF f
<1>2. <<f>> \o frames # <<>> /\ Len(<<f>> \o frames) = 1 + Len(frames)
  BY <1>1
<1>3. CASE frames = <<>>
  <2>1. (<<f>> \o frames)[Len(<<f>> \o frames)] = f
    BY <1>1, <1>2, <1>3
  <2> QED
    BY <1>1, <1>2, <1>3, <2>1 DEF After, Last, f
<1>4. CASE frames # <<>>
  <2>1. (<<f>> \o frames)[Len(<<f>> \o frames)] = frames[Len(frames)]
    BY <1>1, <1>2, <1>4
  <2> QED
    BY <1>2, <1>4, <2>1 DEF After, Last, f
<1> QED
  BY <1>3, <1>4

\* The text is cut behind a CR that is not followed by an LF, where the memory
\* behind the first part looks like one.
Misled(text, type, cut, outside) ==
    /\ type = "CarriageReturnNewLine" /\ outside = "LF"
    /\ cut \in 1 .. Len(text) /\ text[cut] = "CR"
    /\ ~ (cut + 1 <= Len(text) /\ text[cut + 1] = "LF")

\* Decoding the first part of a text, and going on behind its last frame
LEMMA DecodeCut ==
    ASSUME NEW text \in Text, NEW type \in TerminatorType, NEW cut \in 0 .. Len(text), NEW outside,
           ~ Misled(text, type, cut, outside)
    PROVE  LET first == Decode(SubSeq(text, 1, cut), 1, type, outside, outside)
           IN  Decode(text, 1, type, outside, "CTL") =
                 first \o Decode(text, After(first, 1), type, outside, "CTL")
<1> DEFINE part == SubSeq(text, 1, cut)
           n == cut + 2
           First(b) == Decode(part, b, type, outside, outside)
           All(b) == Decode(text, b, type, outside, "CTL")
           S == {b \in 1 .. n : /\ After(First(b), b) \in 1 .. n
                                /\ All(b) = First(b) \o All(After(First(b), b))}
<1>0. /\ Len(text) \in Nat /\ cut \in Nat /\ cut <= Len(text) /\ n \in Nat
      /\ part \in Text /\ Len(part) = cut /\ \A i \in 1 .. cut : part[i] = text[i]
  BY DEF Text
<1> HIDE DEF part
<1>1. ASSUME NEW b \in 1 .. n, \A d \in 1 .. n : d > b => d \in S
      PROVE  b \in S
  <2> DEFINE at == Place(part, type, b)
  <2>0. b \in Nat \ {0} /\ b \in 1 .. Len(text) + 2 /\ b \in 1 .. Len(part) + 2
    BY <1>0
  <2>1. First(b) = IF Ends(part, type, outside, outside, b) THEN <<Frame(b, at)>> \o First(at + 2)
                   ELSE <<>>
    BY <1>0, <2>0, DecodeStep
  <2>2. CASE ~ Ends(part, type, outside, outside, b)
    <3>1. First(b) = <<>> /\ After(First(b), b) = b
      BY <2>1, <2>2 DEF After
    <3>2. All(b) \in Seq(Frames)
      BY <2>0, DecodeType
    <3> HIDE DEF All, First
    <3>3. <<>> \o All(b) = All(b)
      BY <3>2
    <3> QED
      BY <3>1, <3>3
  <2>3. CASE Ends(part, type, outside, outside, b)
    <3>1. /\ at \in b .. cut /\ part[at] = Mark(type) /\ \A j \in b .. at - 1 : part[j] # Mark(type)
      BY <1>0, <2>0, <2>3, PlaceType DEF Ends
    <3> HIDE DEF at
    <3>2. Place(text, type, b) = at
      <4> DEFINE p == Place(text, type, b)
      <4>1. /\ p \in Nat
            /\ p <= Len(text) => /\ p \in b .. Len(text) /\ text[p] = Mark(type)
                                 /\ \A j \in b .. p - 1 : text[j] # Mark(type)
            /\ ~ p <= Len(text) => \A j \in b .. Len(text) : text[j] # Mark(type)
        BY <2>0, PlaceType
      <4> HIDE DEF p
      <4>2. text[at] = Mark(type) /\ at \in b .. Len(text) /\ at \in Nat
            /\ \A j \in b .. at - 1 : text[j] # Mark(type)
        BY <1>0, <2>0, <3>1
      <4>3. p <= Len(text)
        BY <4>1, <4>2
      <4>4. ~ (p < at) /\ ~ (at < p)
        BY <2>0, <4>1, <4>2, <4>3
      <4> QED
        BY <4>1, <4>2, <4>4 DEF p
    <3>3. Terminates(text, type, at, outside, "CTL")
      <4>0. Terminates(part, type, at, outside, outside)
        BY <2>3 DEF Ends, at
      <4>1. CASE type = "CarriageReturnNewLine"
        <5>1. CASE at < cut
          <6>1. part[at + 1] = text[at + 1] /\ at < Len(part) /\ at < Len(text)
            BY <1>0, <2>0, <3>1, <5>1
          <6> QED
            BY <4>0, <4>1, <6>1 DEF Terminates
        <5>2. CASE at = cut
          <6>1. outside = "LF"
            BY <1>0, <4>0, <4>1, <5>2 DEF Terminates
          <6>2. cut \in 1 .. Len(text) /\ text[cut] = "CR"
            BY <1>0, <2>0, <3>1, <4>1, <5>2 DEF Mark
          <6>3. cut + 1 <= Len(text) /\ text[cut + 1] = "LF"
            BY <4>1, <6>1, <6>2 DEF Misled
          <6>4. at < Len(text)
            BY <1>0, <5>2, <6>3
          <6> QED
            BY <4>1, <5>2, <6>3, <6>4 DEF Terminates
        <5> QED
          BY <1>0, <3>1, <5>1, <5>2
      <4>2. CASE type # "CarriageReturnNewLine"
        <5>1. at > 1 => part[at - 1] = text[at - 1]
          BY <1>0, <2>0, <3>1
        <5> QED
          BY <4>0, <4>2, <5>1 DEF Terminates
      <4> QED
        BY <4>1, <4>2
    <3>4. Ends(text, type, outside, "CTL", b)
      BY <1>0, <3>1, <3>2, <3>3 DEF Ends
    <3>5. All(b) = <<Frame(b, at)>> \o All(at + 2)
      BY <2>0, <3>2, <3>4, DecodeStep
    <3>6. First(b) = <<Frame(b, at)>> \o First(at + 2)
      BY <2>1, <2>3
    <3>7. at + 2 \in 1 .. n /\ at + 2 > b /\ at \in Nat /\ at + 2 \in 1 .. Len(part) + 2
          /\ at + 2 \in 1 .. Len(text) + 2
      BY <1>0, <2>0, <3>1
    <3>8. /\ After(First(at + 2), at + 2) \in 1 .. n
          /\ All(at + 2) = First(at + 2) \o All(After(First(at + 2), at + 2))
      BY <1>1, <3>7
    <3>9. First(at + 2) \in Seq(Frames)
      BY <1>0, <3>7, DecodeType
    <3>10. Frame(b, at) \in Frames
      BY <2>0, <3>7 DEF Frame, Frames
    <3>11. After(First(b), b) = After(First(at + 2), at + 2)
      BY <2>0, <3>6, <3>7, <3>9, AfterMore
    <3>12. All(After(First(at + 2), at + 2)) \in Seq(Frames)
      <4>1. After(First(at + 2), at + 2) \in 1 .. Len(text) + 2
        BY <1>0, <3>8
      <4> QED
        BY <4>1, DecodeType
    <3> HIDE DEF All, First
    <3>13. ASSUME NEW x \in Frames, NEW y \in Seq(Frames), NEW z \in Seq(Frames)
           PROVE  <<x>> \o (y \o z) = (<<x>> \o y) \o z
      OBVIOUS
    <3>14. <<Frame(b, at)>> \o (First(at + 2) \o All(After(First(at + 2), at + 2)))
               = (<<Frame(b, at)>> \o First(at + 2)) \o All(After(First(at + 2), at + 2))
      BY <3>9, <3>10, <3>12, <3>13
    <3>15. All(b) = First(b) \o All(After(First(b), b)) /\ After(First(b), b) \in 1 .. n
      BY <3>5, <3>6, <3>8, <3>11, <3>14, Zenon
    <3> QED
      BY <3>15
  <2> QED
    BY <2>2, <2>3
<1>2. \A b \in 1 .. n : b \in S
  <2> HIDE DEF S, n
  <2> QED
    BY <1>0, <1>1, DownInduction
<1>3. 1 \in 1 .. n
  BY <1>0
<1> QED
  BY <1>2, <1>3 DEF part

\* The ends of lines from b on, up to the first CR that stands alone
EndsOfLines(text, b) ==
    {i \in b .. Len(text) :
        /\ text[i] = "CR"
        /\ \A j \in b .. i : text[j] = "CR" => j + 1 <= Len(text) /\ text[j + 1] = "LF"}

\* With CR LF, the end of a frame's line is two behind the frame's last
\* character (its length is one short), and frames begin behind lines.
LEMMA DecodeLines ==
    ASSUME NEW text \in Text, NEW ahead
    PROVE  LET frames == Decode(text, 1, "CarriageReturnNewLine", ahead, "CTL")
           IN  /\ {frames[i].begin + frames[i].length + 1 : i \in DOMAIN frames}
                      = EndsOfLines(text, 1)
               /\ {frames[i].begin : i \in DOMAIN frames}
                      \subseteq {1} \cup {i + 2 : i \in EndsOfLines(text, 1)}
<1> DEFINE type == "CarriageReturnNewLine"
           n == Len(text) + 2
           D(b) == Decode(text, b, type, ahead, "CTL")
           end(f) == f.begin + f.length + 1
           TheEnds(s) == {end(s[i]) : i \in DOMAIN s}
           Begins(s) == {s[i].begin : i \in DOMAIN s}
           E(b) == EndsOfLines(text, b)
           S == {b \in 1 .. n : /\ TheEnds(D(b)) = E(b)
                                /\ Begins(D(b)) \subseteq {b} \cup {i + 2 : i \in E(b)}}
<1>0. Len(text) \in Nat /\ n \in Nat
  BY DEF Text
<1>1. ASSUME NEW b \in 1 .. n, \A d \in 1 .. n : d > b => d \in S
      PROVE  b \in S
  <2> DEFINE at == Place(text, type, b)
  <2>1. D(b) = IF Ends(text, type, ahead, "CTL", b) THEN <<Frame(b, at)>> \o D(at + 2) ELSE <<>>
    BY DecodeStep
  <2>2. /\ at \in Nat /\ b \in Nat \ {0}
        /\ at <= Len(text) => /\ at \in b .. Len(text) /\ text[at] = "CR"
                              /\ \A j \in b .. at - 1 : text[j] # "CR"
        /\ ~ at <= Len(text) => \A j \in b .. Len(text) : text[j] # "CR"
    BY <1>0, PlaceType DEF Mark
  <2>3. Ends(text, type, ahead, "CTL", b) <=>
            at <= Len(text) /\ at + 1 <= Len(text) /\ text[at + 1] = "LF"
    BY <1>0, <2>2 DEF Ends, Terminates
  <2> HIDE DEF at
  <2>4. CASE ~ Ends(text, type, ahead, "CTL", b)
    <3>1. D(b) = <<>>
      BY <2>1, <2>4
    <3> HIDE DEF D
    <3>2. TheEnds(D(b)) = {} /\ Begins(D(b)) = {}
      BY <3>1
    <3>3. E(b) = {}
      <4> SUFFICES ASSUME NEW i \in E(b) PROVE FALSE
        OBVIOUS
      <4>1. i \in b .. Len(text) /\ text[i] = "CR"
            /\ \A j \in b .. i : text[j] = "CR" => j + 1 <= Len(text) /\ text[j + 1] = "LF"
        BY DEF EndsOfLines
      <4>2. at <= Len(text) /\ at \in b .. i /\ text[at] = "CR"
        BY <1>0, <2>2, <4>1
      <4> QED
        BY <2>3, <2>4, <4>1, <4>2
    <3> HIDE DEF TheEnds, Begins, E
    <3> QED
      BY <3>2, <3>3
  <2>5. CASE Ends(text, type, ahead, "CTL", b)
    <3> DEFINE f == Frame(b, at)
    <3>1. D(b) = <<f>> \o D(at + 2) /\ at \in b .. Len(text) /\ at + 1 <= Len(text)
          /\ text[at + 1] = "LF" /\ text[at] = "CR" /\ \A j \in b .. at - 1 : text[j] # "CR"
      BY <2>1, <2>2, <2>3, <2>5
    <3>2. at + 2 \in 1 .. n /\ at + 2 > b
      BY <1>0, <2>2, <3>1
    <3>3. D(at + 2) \in Seq(Frames)
      BY <3>2, DecodeType
    <3>4. /\ TheEnds(D(at + 2)) = E(at + 2)
          /\ Begins(D(at + 2)) \subseteq {at + 2} \cup {i + 2 : i \in E(at + 2)}
      <4> HIDE DEF TheEnds, Begins, E, D
      <4> QED
        BY <1>1, <3>2
    <3>5. f \in Frames /\ f.begin = b /\ f.begin + f.length + 1 = at
      BY <2>2 DEF Frame, Frames
    <3> HIDE DEF f
    <3>6. ASSUME NEW s \in Seq(Frames)
          PROVE  /\ TheEnds(<<f>> \o s) = {at} \cup TheEnds(s)
                 /\ Begins(<<f>> \o s) = {b} \cup Begins(s)
      <4> DEFINE t == <<f>> \o s
      <4>1. t \in Seq(Frames) /\ Len(t) = 1 + Len(s) /\ Len(s) \in Nat /\ t[1] = f
            /\ \A i \in 1 .. Len(s) : t[i + 1] = s[i]
        BY <3>5
      <4> HIDE DEF t
      <4>2. \A i \in DOMAIN t : i = 1 \/ (i - 1 \in DOMAIN s /\ t[i] = s[i - 1])
        <5> SUFFICES ASSUME NEW i \in DOMAIN t, i # 1 PROVE i - 1 \in DOMAIN s /\ t[i] = s[i - 1]
          OBVIOUS
        <5>1. i - 1 \in 1 .. Len(s) /\ (i - 1) + 1 = i
          BY <4>1
        <5> QED
          BY <4>1, <5>1
      <4>3. 1 \in DOMAIN t /\ \A i \in DOMAIN s : i + 1 \in DOMAIN t /\ t[i + 1] = s[i]
        BY <4>1
      <4>4. TheEnds(t) = {at} \cup TheEnds(s)
        <5>1. end(f) = at
          BY <3>5
        <5> HIDE DEF end
        <5>2. ASSUME NEW i \in DOMAIN t PROVE end(t[i]) \in {at} \cup TheEnds(s)
          <6>1. CASE i = 1
            BY <4>1, <5>1, <6>1
          <6>2. CASE i - 1 \in DOMAIN s /\ t[i] = s[i - 1]
            BY <6>2
          <6> QED
            BY <4>2, <6>1, <6>2
        <5>3. at \in TheEnds(t)
          BY <4>1, <4>3, <5>1
        <5>4. ASSUME NEW i \in DOMAIN s PROVE end(s[i]) \in TheEnds(t)
          BY <4>3
        <5> QED
          BY <5>2, <5>3, <5>4
      <4>5. Begins(t) = {b} \cup Begins(s)
        <5>1. ASSUME NEW i \in DOMAIN t PROVE t[i].begin \in {b} \cup Begins(s)
          <6>1. CASE i = 1
            BY <3>5, <4>1, <6>1
          <6>2. CASE i - 1 \in DOMAIN s /\ t[i] = s[i - 1]
            BY <6>2
          <6> QED
            BY <4>2, <6>1, <6>2
        <5>2. b \in Begins(t)
          BY <3>5, <4>1, <4>3
        <5>3. ASSUME NEW i \in DOMAIN s PROVE s[i].begin \in Begins(t)
          BY <4>3
        <5> QED
          BY <5>1, <5>2, <5>3
      <4> QED
        BY <4>4, <4>5 DEF t
    <3>7. E(b) = {at} \cup E(at + 2)
      <4>1. ASSUME NEW i \in E(b) PROVE i \in {at} \cup E(at + 2)
        <5>1. i \in b .. Len(text) /\ text[i] = "CR"
              /\ \A j \in b .. i : text[j] = "CR" => j + 1 <= Len(text) /\ text[j + 1] = "LF"
          BY <4>1 DEF EndsOfLines
        <5>2. i = at \/ i \in at + 2 .. Len(text)
          <6>1. ~ (i < at) /\ i # at + 1
            BY <2>2, <3>1, <5>1
          <6> QED
            BY <1>0, <2>2, <5>1, <6>1
        <5>3. i \in at + 2 .. Len(text) => i \in E(at + 2)
          BY <2>2, <3>1, <5>1 DEF EndsOfLines
        <5> QED
          BY <5>2, <5>3
      <4>2. at \in E(b)
        <5>1. \A j \in b .. at : text[j] = "CR" => j = at
          BY <2>2, <3>1
        <5> QED
          BY <3>1, <5>1 DEF EndsOfLines
      <4>3. ASSUME NEW i \in E(at + 2) PROVE i \in E(b)
        <5>1. i \in at + 2 .. Len(text) /\ text[i] = "CR"
              /\ \A j \in at + 2 .. i : text[j] = "CR" => j + 1 <= Len(text) /\ text[j + 1] = "LF"
          BY <4>3 DEF EndsOfLines
        <5>2. i \in b .. Len(text)
          BY <1>0, <2>2, <3>1, <5>1
        <5>3. ASSUME NEW j \in b .. i, text[j] = "CR"
              PROVE  j + 1 <= Len(text) /\ text[j + 1] = "LF"
          <6>1. j \in b .. at - 1 \/ j = at \/ j = at + 1 \/ j \in at + 2 .. i
            BY <2>2, <5>2, <5>3
          <6> QED
            BY <3>1, <5>1, <5>3, <6>1
        <5> QED
          BY <5>1, <5>2, <5>3 DEF EndsOfLines
      <4> HIDE DEF E
      <4> QED
        BY <4>1, <4>2, <4>3
    <3>8. /\ TheEnds(D(b)) = {at} \cup E(at + 2)
          /\ Begins(D(b)) \subseteq {b} \cup {at + 2} \cup {i + 2 : i \in E(at + 2)}
      <4> HIDE DEF TheEnds, Begins, E, D
      <4> QED
        BY <3>1, <3>3, <3>4, <3>6
    <3> HIDE DEF TheEnds, Begins, E, D
    <3> QED
      BY <3>7, <3>8
  <2> QED
    BY <2>4, <2>5
<1>2. \A b \in 1 .. n : b \in S
  <2> HIDE DEF S, n
  <2> QED
    BY <1>0, <1>1, DownInduction
<1>3. 1 \in 1 .. n
  BY <1>0
<1> QED
  BY <1>2, <1>3

-----------------------------------------------------------------------------
(* The symbols at some places of a text.                                   *)

\* SymbolsAt, prefix by prefix of s
LEMMA PrefixPicks ==
    ASSUME NEW s \in Text, NEW places
    PROVE  \E f : /\ SymbolsAt(s, places) = f[Len(s)] /\ f[0] = <<>>
                  /\ \A n \in 1 .. Len(s) :
                        f[n] = IF n \in places THEN Append(f[n - 1], s[n]) ELSE f[n - 1]
<1> DEFINE L == Len(s)
           Upto(f, l) == f = [n \in 0 .. l |-> IF n = 0 THEN <<>>
                                               ELSE IF n \in places THEN Append(f[n - 1], s[n])
                                               ELSE f[n - 1]]
           S == {l \in Nat : \E f : Upto(f, l)}
           F == CHOOSE f : f = [n \in 0 .. L |-> IF n = 0 THEN <<>>
                                                 ELSE IF n \in places THEN Append(f[n - 1], s[n])
                                                 ELSE f[n - 1]]
<1>0. L \in Nat
  BY DEF Text
<1> HIDE DEF L, Upto
<1>1. 0 \in S
  <2> DEFINE f == [n \in 0 .. 0 |-> <<>>]
  <2>1. Upto(f, 0)
    BY DEF Upto
  <2> QED
    BY <2>1
<1>2. ASSUME NEW l \in Nat, l \in S PROVE l + 1 \in S
  <2>1. PICK f : Upto(f, l)
    BY <1>2
  <2> DEFINE g == [n \in 0 .. l + 1 |-> IF n <= l THEN f[n]
                                        ELSE IF n \in places THEN Append(f[n - 1], s[n]) ELSE f[n - 1]]
  <2>2. \A n \in 0 .. l : f[n] = IF n = 0 THEN <<>>
                                 ELSE IF n \in places THEN Append(f[n - 1], s[n]) ELSE f[n - 1]
    BY <2>1 DEF Upto
  <2>3. ASSUME NEW n \in 0 .. l + 1
        PROVE  g[n] = IF n = 0 THEN <<>>
                      ELSE IF n \in places THEN Append(g[n - 1], s[n]) ELSE g[n - 1]
    <3>1. CASE n <= l
      BY <2>2, <3>1
    <3>2. CASE n = l + 1
      BY <3>2
    <3> QED
      BY <3>1, <3>2
  <2>4. g = [n \in 0 .. l + 1 |-> g[n]]
    OBVIOUS
  <2> HIDE DEF g
  <2>5. [n \in 0 .. l + 1 |-> g[n]]
            = [n \in 0 .. l + 1 |-> IF n = 0 THEN <<>>
                                    ELSE IF n \in places THEN Append(g[n - 1], s[n]) ELSE g[n - 1]]
    BY <2>3
  <2>6. Upto(g, l + 1)
    BY <2>4, <2>5 DEF Upto
  <2> QED
    BY <2>6
<1>3. \A l \in Nat : l \in S
  <2> HIDE DEF S
  <2> QED
    BY <1>1, <1>2, SetInduction
<1>4. \E f : Upto(f, L)
  BY <1>0, <1>3
<1>5. F = [n \in 0 .. L |-> IF n = 0 THEN <<>>
                            ELSE IF n \in places THEN Append(F[n - 1], s[n]) ELSE F[n - 1]]
  BY <1>4, Zenon DEF Upto
<1>6. SymbolsAt(s, places) = F[L]
  BY DEF SymbolsAt, L
<1> HIDE DEF F
<1>7. \A n \in 0 .. L : F[n] = IF n = 0 THEN <<>>
                               ELSE IF n \in places THEN Append(F[n - 1], s[n]) ELSE F[n - 1]
  BY <1>5
<1>8. F[0] = <<>> /\ \A n \in 1 .. L : F[n] = IF n \in places THEN Append(F[n - 1], s[n]) ELSE F[n - 1]
  BY <1>0, <1>7
<1> QED
  BY <1>6, <1>8 DEF L

\* The symbols at some places are a text; at no place there is none.
LEMMA SymbolsAtText ==
    ASSUME NEW s \in Text, NEW places
    PROVE  SymbolsAt(s, places) \in Text /\ SymbolsAt(s, {}) = <<>>
<1>0. Len(s) \in Nat /\ <<>> \in Text /\ \A a \in Text, n \in 1 .. Len(s) : Append(a, s[n]) \in Text
  BY DEF Text
<1>1. SymbolsAt(s, places) \in Text
  <2>1. PICK f : /\ SymbolsAt(s, places) = f[Len(s)] /\ f[0] = <<>>
                 /\ \A n \in 1 .. Len(s) :
                       f[n] = IF n \in places THEN Append(f[n - 1], s[n]) ELSE f[n - 1]
    BY PrefixPicks
  <2> DEFINE S == {n \in Nat : n <= Len(s) => f[n] \in Text}
  <2>2. 0 \in S
    BY <1>0, <2>1
  <2>3. ASSUME NEW n \in Nat, n \in S PROVE n + 1 \in S
    BY <1>0, <2>1, <2>3
  <2>4. \A n \in Nat : n \in S
    <3> HIDE DEF S
    <3> QED
      BY <2>2, <2>3, SetInduction
  <2> QED
    BY <1>0, <2>1, <2>4
<1>2. SymbolsAt(s, {}) = <<>>
  <2>1. PICK f : /\ SymbolsAt(s, {}) = f[Len(s)] /\ f[0] = <<>>
                 /\ \A n \in 1 .. Len(s) : f[n] = f[n - 1]
    BY PrefixPicks
  <2> DEFINE S == {n \in Nat : n <= Len(s) => f[n] = <<>>}
  <2>2. 0 \in S
    BY <2>1
  <2>3. ASSUME NEW n \in Nat, n \in S PROVE n + 1 \in S
    BY <1>0, <2>1, <2>3
  <2>4. \A n \in Nat : n \in S
    <3> HIDE DEF S
    <3> QED
      BY <2>2, <2>3, SetInduction
  <2> QED
    BY <1>0, <2>1, <2>4
<1> QED
  BY <1>1, <1>2

\* A place behind the others adds its symbol at the end.
LEMMA SymbolsAtGrow ==
    ASSUME NEW s \in Text, NEW places, NEW k \in 1 .. Len(s), \A i \in places : i < k
    PROVE  SymbolsAt(s, places \cup {k}) = Append(SymbolsAt(s, places), s[k])
<1>0. Len(s) \in Nat /\ k \notin places /\ \A i \in Nat : k <= i => i \notin places
  BY DEF Text
<1>1. PICK f : /\ SymbolsAt(s, places) = f[Len(s)] /\ f[0] = <<>>
               /\ \A n \in 1 .. Len(s) :
                     f[n] = IF n \in places THEN Append(f[n - 1], s[n]) ELSE f[n - 1]
  BY PrefixPicks
<1>2. PICK g : /\ SymbolsAt(s, places \cup {k}) = g[Len(s)] /\ g[0] = <<>>
               /\ \A n \in 1 .. Len(s) :
                     g[n] = IF n \in places \cup {k} THEN Append(g[n - 1], s[n]) ELSE g[n - 1]
  BY PrefixPicks
<1> DEFINE S == {n \in Nat : n <= Len(s) => g[n] = IF n < k THEN f[n] ELSE Append(f[n], s[k])}
<1>3. 0 \in S
  BY <1>1, <1>2
<1>4. ASSUME NEW n \in Nat, n \in S PROVE n + 1 \in S
  <2> SUFFICES ASSUME n + 1 <= Len(s)
               PROVE  g[n + 1] = IF n + 1 < k THEN f[n + 1] ELSE Append(f[n + 1], s[k])
    OBVIOUS
  <2>1. /\ g[n + 1] = IF n + 1 \in places \cup {k} THEN Append(g[n], s[n + 1]) ELSE g[n]
        /\ f[n + 1] = IF n + 1 \in places THEN Append(f[n], s[n + 1]) ELSE f[n]
    BY <1>0, <1>1, <1>2
  <2>2. g[n] = IF n < k THEN f[n] ELSE Append(f[n], s[k])
    BY <1>0, <1>4
  <2>3. CASE n + 1 < k
    BY <2>1, <2>2, <2>3
  <2>4. CASE n + 1 = k
    BY <1>0, <2>1, <2>2, <2>4
  <2>5. CASE n + 1 > k
    BY <1>0, <2>1, <2>2, <2>5
  <2> QED
    BY <2>3, <2>4, <2>5
<1>5. \A n \in Nat : n \in S
  <2> HIDE DEF S
  <2> QED
    BY <1>3, <1>4, SetInduction
<1>6. g[Len(s)] = Append(f[Len(s)], s[k])
  <2>1. Len(s) \in S /\ ~ (Len(s) < k)
    BY <1>0, <1>5
  <2> QED
    BY <1>0, <2>1
<1> QED
  BY <1>1, <1>2, <1>6

-----------------------------------------------------------------------------
(* What a parser has understood of a text: what its message says of the    *)
(* bytes it has read, in each of its states.                               *)

NoneOf(c, a, b) == \A k \in a .. b : stream[k] # c

\* The header lines that begin before i, and what they say.
Begun(i) == {j \in 3 .. i - 1 : stream[j - 2] = "CR" /\ stream[j - 1] = "LF"}

HeadersUpTo(i) == [x \in {NameAt(j) : j \in Begun(i)} |->
                      ValueAt(Least({j \in Begun(i) : NameAt(j) = x}))]

FirstLineSays(m) ==
    IF kind = "request" THEN RequestLineSays(Line(1), m) ELSE StatusLineSays(Line(1), m)

\* A request line, up to the symbols t
Begins(m) == m.temp_http_method \o <<"SP">> \o m.target_resource

Word == <<"SP", "H", "T", "T", "P", "/">>

ReadOfWord == [RequestProtocolH |-> 1, RequestProtocolT1 |-> 2, RequestProtocolT2 |-> 3,
               RequestProtocolP |-> 4, RequestProtocolSlash |-> 5, RequestProtocolVersionMajor |-> 6]

RequestLineBegins(s, m, t) ==
    \/ s = "RequestLineBegin" /\ t = <<>> /\ m.temp_http_method = <<>> /\ m.target_resource = <<>>
    \/ s = "RequestMethod" /\ t = m.temp_http_method /\ m.target_resource = <<>>
    \/ s = "RequestResource" /\ t = Begins(m)
    \/ s \in DOMAIN ReadOfWord /\ t = Begins(m) \o SubSeq(Word, 1, ReadOfWord[s])
    \/ /\ s = "RequestProtocolDot"
       /\ \E major \in Digit : t = Begins(m) \o Append(Word, major)
    \/ /\ s = "RequestProtocolVersionMinor"
       /\ \E major \in Digit, k \in 0 .. Len(t) :
            LET minor == SubSeq(t, Len(t) - k + 1, Len(t))
            IN  Digits(minor) /\ t = Begins(m) \o Append(Append(Word, major), ".") \o minor

\* A status line, up to the byte n
Protocol == <<"H", "T", "T", "P", "/", "1", ".">>

ReadOfProtocol == [ResponseProtocolH |-> 0, ResponseProtocolT1 |-> 1, ResponseProtocolT2 |-> 2,
                   ResponseProtocolP |-> 3, ResponseProtocolSlash |-> 4,
                   ResponseProtocolVersionMajor |-> 5, ResponseProtocolDot |-> 6]

DigitsAt(a, b) == \A k \in a .. b : isdigit(stream[k])

StatusLineBegins(s, m, n) ==
    \/ /\ s \in DOMAIN ReadOfProtocol /\ n = ReadOfProtocol[s]
       /\ \A k \in 1 .. n : stream[k] = Protocol[k]
       /\ m.temp_http_status_code = <<>>
    \/ /\ n >= 7 /\ \A k \in 1 .. 7 : stream[k] = Protocol[k]
       /\ \/ /\ s = "ResponseProtocolVersionMinor" /\ DigitsAt(8, n)
             /\ m.temp_http_status_code = <<>>
          \/ /\ s = "StatusCode"
             /\ \E i \in 8 .. n :
                  /\ stream[i] = "SP" /\ DigitsAt(8, i - 1) /\ DigitsAt(i + 1, n)
                  /\ m.temp_http_status_code = SubSeq(stream, i + 1, IF n <= i + 3 THEN n ELSE i + 3)
          \/ /\ s = "ResponseReasonPhrase"
             /\ \E i, j \in 8 .. n :
                  /\ i < j /\ stream[i] = "SP" /\ stream[j] = "SP"
                  /\ DigitsAt(8, i - 1) /\ DigitsAt(i + 1, j - 1)
                  /\ m.response_code = IF j <= i + 3 THEN Response!Indeterminate
                                       ELSE SubSeq(stream, i + 1, i + 3)

FirstStates == IF kind = "request"
               THEN DOMAIN ReadOfWord \cup {"RequestLineBegin", "RequestMethod", "RequestResource",
                                       "RequestProtocolDot", "RequestProtocolVersionMinor"}
               ELSE DOMAIN ReadOfProtocol \cup {"ResponseProtocolVersionMinor", "StatusCode",
                                                "ResponseReasonPhrase"}
FirstEnd == IF kind = "request" THEN "RequestLineLF" ELSE "StatusLineLF"

\* In the first line
InFirstLine(s, m, n) ==
    /\ m.headers = NoHeaders /\ m.temp_header_name = <<>> /\ m.temp_header_value = <<>>
    /\ \/ /\ s \in FirstStates /\ NoneOf("CR", 1, n)
          /\ IF kind = "request" THEN RequestLineBegins(s, m, SubSeq(stream, 1, n))
             ELSE StatusLineBegins(s, m, n)
       \/ /\ s = FirstEnd /\ n >= 1 /\ stream[n] = "CR" /\ NoneOf("CR", 1, n - 1)
          /\ FirstLineSays(m)

\* In the header line that begins at i, behind n
Section(m, i, n) ==
    /\ i <= n + 1 /\ stream[i - 2] = "CR" /\ stream[i - 1] = "LF" /\ NoneOf("CR", i, n)
    /\ FirstLineSays(m)
    /\ \A j \in Begun(i) : ":" \in ToSet(Line(j))
    /\ m.headers = HeadersUpTo(i)

InName(m, i, n) ==
    /\ Section(m, i, n) /\ NoneOf(":", i, n)
    /\ m.temp_header_name = SubSeq(stream, i, n) /\ m.temp_header_value = <<>>

InValue(m, i, n) ==
    /\ Section(m, i, n)
    /\ \E c \in i .. n :
         /\ stream[c] = ":" /\ NoneOf(":", i, c - 1)
         /\ m.temp_header_name = SubSeq(stream, i, c - 1)
         /\ m.temp_header_value = SymbolsAt(stream, {k \in c + 1 .. n : Kept(k)})

\* Behind the head, whose last line begins at i and ends at b
Behind(w, i, b, n) ==
    /\ b >= 2 /\ stream[b - 1] = "CR" /\ stream[b] = "LF"
    /\ Section(w.message, i, b - 2) /\ NoneOf(":", i, b - 2)
    /\ w.rest = IF w.state = BodyState THEN SubSeq(stream, b + 1, n) ELSE <<>>

\* What was read of the first n bytes
Tells(w, n) ==
    /\ w.state \in FirstStates \cup {FirstEnd} => InFirstLine(w.state, w.message, n)
    /\ w.state = "HeaderName"    => \E i \in 3 .. n + 1 : InName(w.message, i, n)
    /\ w.state = "HeaderValue"   => \E i \in 3 .. n + 1 : InValue(w.message, i, n)
    /\ w.state = "HeaderValueLF" => /\ n >= 1 /\ stream[n] = "CR"
                                    /\ \E i \in 3 .. n : InValue(w.message, i, n - 1)
    /\ w.state = "HeaderEndLF"   => /\ n >= 1 /\ stream[n] = "CR"
                                    /\ \E i \in 3 .. n : Section(w.message, i, n - 1)
                                                         /\ NoneOf(":", i, n - 1)
    /\ w.state \in {BodyState, "ParsingDone"} =>
          \E i \in 3 .. n, b \in 1 .. n : Behind(w, i, b, n)

\* No byte up to n leaves the parser where it is for ever.
Smooth(n) == \A k \in 0 .. n - 1 : ~ Stuck(Whole(k).state, Whole(k).message, stream[k + 1])

SmoothInv ==
    /\ pc = "caller" /\ ~ blind => Smooth(fed)
    /\ pc = "loop" /\ ~ blind => Smooth(pos) /\ (current_state \in Final => Smooth(fed))

SentInv ==
    sent # <<>> =>
        /\ IsMessage(kind, sent[1])
        /\ kind = "response" => sent[1].response_code \in Text
        /\ IF kind = "request" THEN stream \in buildRequest(sent[1])
           ELSE stream \in buildResponse(sent[1], "HTTP1_1") \cup {<<>>}

-----------------------------------------------------------------------------
(* Texts and places.                                                       *)

\* A symbol behind two texts
LEMMA AppendRight == \A a, b \in Text, c \in Symbol : Append(a \o b, c) = a \o Append(b, c)
BY DEF Text

\* One byte more of the stream
LEMMA PieceGrows ==
    ASSUME stream \in Text, NEW n \in Nat, n + 1 <= Len(stream), NEW a \in 1 .. n + 1
    PROVE  SubSeq(stream, a, n + 1) = Append(SubSeq(stream, a, n), stream[n + 1])
BY DEF Text

\* The least element of a set of numbers
LEMMA LeastIs ==
    ASSUME NEW S \in SUBSET Int, NEW i \in S, \A j \in S : i <= j
    PROVE  Least(S) = i
<1> DEFINE l == CHOOSE j \in S : \A k \in S : j <= k
<1>1. \E j \in S : \A k \in S : j <= k
  OBVIOUS
<1>2. l \in S /\ \A k \in S : l <= k
  BY <1>1, Zenon
<1>3. Least(S) = l
  BY DEF Least
<1> HIDE DEF l
<1> QED
  BY <1>2, <1>3

\* The line from i to the first CR
LEMMA LineIs ==
    ASSUME stream \in Text, NEW i \in Nat \ {0}, NEW e \in i .. Len(stream),
           stream[e] = "CR", NoneOf("CR", i, e - 1)
    PROVE  Line(i) = SubSeq(stream, i, e - 1) /\ Len(Line(i)) = e - i
<1> DEFINE S == {k \in At("CR") : k >= i}
<1>0. Len(stream) \in Nat
  BY DEF Text
<1>1. S \in SUBSET Int /\ e \in S
  BY <1>0 DEF At
<1>2. \A j \in S : e <= j
  BY <1>0 DEF At, NoneOf
<1> HIDE DEF S
<1>3. Least(S) = e
  BY <1>1, <1>2, LeastIs
<1>4. Line(i) = SubSeq(stream, i, e - 1)
  BY <1>3 DEF Line, S
<1> QED
  BY <1>0, <1>4 DEF Text

\* The first colon from i on
LEMMA ColonIs ==
    ASSUME stream \in Text, NEW i \in Nat \ {0}, NEW c \in i .. Len(stream),
           stream[c] = ":", NoneOf(":", i, c - 1)
    PROVE  Colon(i) = c
<1> DEFINE S == {k \in At(":") : k >= i}
<1>0. Len(stream) \in Nat
  BY DEF Text
<1>1. S \in SUBSET Int /\ c \in S
  BY <1>0 DEF At
<1>2. \A j \in S : c <= j
  BY <1>0 DEF At, NoneOf
<1> HIDE DEF S
<1>3. Least(S) = c
  BY <1>1, <1>2, LeastIs
<1> QED
  BY <1>3 DEF Colon, S

-----------------------------------------------------------------------------
(* What an iteration does in the header section, of either parser.         *)

Does(r, s, m) == r.state = s /\ r.message = m

\* In a name
LEMMA NameIteration ==
    ASSUME kind \in Kinds, NEW m, NEW c \in Symbol, NEW p
    PROVE  LET r == Iteration("HeaderName", m, c, p)
           IN  /\ is_token(c) => Does(r, "HeaderName", [m EXCEPT !.temp_header_name = Append(@, c)])
               /\ c = ":"  => Does(r, "HeaderValue", m)
               /\ c = "CR" => Does(r, "HeaderEndLF", m)
               /\ ~ is_token(c) /\ c # ":" /\ c # "CR" => Does(r, "ProtocolError", m)
<1>0. is_token(c) => c # ":" /\ c # "CR"
  BY DEF is_token, is_separator, is_control
<1>1. CASE kind = "request"
  <2>1. Iteration("HeaderName", m, c, p) = Request!HeaderName(m, c)
    BY <1>1 DEF Iteration, Request!Iteration
  <2>2. Request!is_token(c) = is_token(c)
    BY DEF is_token, is_char, is_separator, is_control, Request!is_token, Request!is_char,
           Request!is_separator, Request!is_control
  <2> QED
    BY <1>0, <2>1, <2>2 DEF Request!HeaderName, Request!Consume, Request!Reject, Does,
                            Request!pushBackHeaderName
<1>2. CASE kind = "response"
  <2>1. Iteration("HeaderName", m, c, p) = Response!HeaderName(m, c)
    BY <1>2 DEF Iteration, Response!Iteration
  <2>2. Response!is_token(c) = is_token(c)
    BY DEF is_token, is_char, is_separator, is_control, Response!is_token, Response!is_char,
           Response!is_separator, Response!is_control
  <2> QED
    BY <1>0, <2>1, <2>2 DEF Response!HeaderName, Response!Consume, Response!Reject, Does,
                            Response!pushBackHeaderName
<1> QED
  BY <1>1, <1>2 DEF Kinds

\* Whether a symbol of a value is kept, dropped or refused
Keeps(c, p) == IF kind = "request" THEN c # "SP" ELSE p # ":"
Drops(c, p) == IF kind = "request" THEN c = "SP" /\ p = ":" ELSE p = ":"

\* In a value
LEMMA ValueIteration ==
    ASSUME kind \in Kinds, NEW m, NEW c \in Symbol, NEW p
    PROVE  LET r == Iteration("HeaderValue", m, c, p)
           IN  /\ c = "CR" => Does(r, "HeaderValueLF", m)
               /\ is_text(c) /\ Keeps(c, p) =>
                     Does(r, "HeaderValue", [m EXCEPT !.temp_header_value = Append(@, c)])
               /\ is_text(c) /\ Drops(c, p) => Does(r, "HeaderValue", m)
               /\ c # "CR" /\ ~ (is_text(c) /\ (Keeps(c, p) \/ Drops(c, p))) =>
                     Does(r, "ProtocolError", m)
<1>0. (is_text(c) => c # "CR") /\ is_text("SP")
  BY DEF is_text, is_control
<1>1. CASE kind = "request"
  <2>1. Iteration("HeaderValue", m, c, p) = Request!HeaderValue(m, c, p)
    BY <1>1 DEF Iteration, Request!Iteration
  <2>2. Request!is_text(c) = is_text(c)
    BY DEF is_text, is_control, Request!is_text, Request!is_control
  <2> QED
    BY <1>0, <1>1, <2>1, <2>2 DEF Request!HeaderValue, Request!Consume, Request!Reject, Does,
                                  Request!pushBackHeaderValue, Keeps, Drops
<1>2. CASE kind = "response"
  <2>1. Iteration("HeaderValue", m, c, p) = Response!HeaderValue(m, c, p)
    BY <1>2 DEF Iteration, Response!Iteration
  <2>2. Response!is_text(c) = is_text(c)
    BY DEF is_text, is_control, Response!is_text, Response!is_control
  <2> QED
    BY <1>0, <1>2, <2>1, <2>2 DEF Response!HeaderValue, Response!Consume, Response!Reject, Does,
                                  Response!pushBackHeaderValue, Keeps, Drops
<1> QED
  BY <1>1, <1>2 DEF Kinds

\* Between CR and LF behind a value
LEMMA ValueEndIteration ==
    ASSUME kind \in Kinds, NEW m, NEW c \in Symbol, NEW p
    PROVE  LET r == Iteration("HeaderValueLF", m, c, p)
           IN  /\ c = "LF" => Does(r, "HeaderName",
                     [m EXCEPT !.headers = addHeader(@, m.temp_header_name, m.temp_header_value),
                               !.temp_header_name = <<>>, !.temp_header_value = <<>>])
               /\ c # "LF" => Does(r, "ProtocolError", m)
<1>1. CASE kind = "request"
  <2>1. Iteration("HeaderValueLF", m, c, p) = Request!HeaderValueLF(m, c)
    BY <1>1 DEF Iteration, Request!Iteration
  <2> QED
    BY <2>1 DEF Request!HeaderValueLF, Request!Consume, Request!Reject, Does,
                Request!addTempHeadersHolderToMessage, addHeader, Request!addHeader
<1>2. CASE kind = "response"
  <2>1. Iteration("HeaderValueLF", m, c, p) = Response!HeaderValueLF(m, c)
    BY <1>2 DEF Iteration, Response!Iteration
  <2> QED
    BY <2>1 DEF Response!HeaderValueLF, Response!Consume, Response!Reject, Does,
                Response!addTempHeadersHolderToMessage, addHeader, Response!addHeader
<1> QED
  BY <1>1, <1>2 DEF Kinds

\* Between CR and LF at the end of the head, of a request
LEMMA RequestEndIteration ==
    ASSUME kind = "request", NEW m, NEW c \in Symbol, NEW p
    PROVE  LET r == Iteration("HeaderEndLF", m, c, p)
           IN  \/ Stuck("HeaderEndLF", m, c)
               \/ /\ c = "LF"
                  /\ \E type \in {"Get", "Post", "Put", "Head"} :
                       /\ Request!MethodStartsWith(m, MethodText[type])
                       /\ Does(r, IF type \in {"Post", "Put"} THEN "MessageBody" ELSE "ParsingDone",
                                  [m EXCEPT !.request_type = type])
<1>1. Iteration("HeaderEndLF", m, c, p) = Request!HeaderEndLF(m, c)
  BY DEF Iteration, Request!Iteration
<1>2. /\ MethodText["Get"] = "GET" /\ MethodText["Post"] = "POST" /\ MethodText["Put"] = "PUT"
      /\ MethodText["Head"] = "HEAD"
  BY DEF MethodText
<1> SUFFICES ASSUME c = "LF", NEW w \in Methods, Request!MethodStartsWith(m, w)
             PROVE  LET r == Request!HeaderEndLF(m, c)
                    IN  \E type \in {"Get", "Post", "Put", "Head"} :
                          /\ Request!MethodStartsWith(m, MethodText[type])
                          /\ Does(r, IF type \in {"Post", "Put"} THEN "MessageBody"
                                     ELSE "ParsingDone", [m EXCEPT !.request_type = type])
  BY <1>1 DEF Stuck
<1>3. \A v : Request!MethodStartsWith(m, v) <=> v = w
  BY DEF Request!MethodStartsWith
<1> QED
  BY <1>2, <1>3 DEF Request!HeaderEndLF, Methods, Does, Request!Consume, Request!setRequestType

\* The same, of a response
LEMMA ResponseEndIteration ==
    ASSUME kind = "response", NEW m, NEW c \in Symbol, NEW p
    PROVE  LET r == Iteration("HeaderEndLF", m, c, p)
           IN  IF c # "LF" THEN Does(r, "ProtocolError", m)
               ELSE Does(r, IF headerContains(m.headers, <<"Content-Length">>)
                            THEN "ResponseMessageBody" ELSE "ParsingDone", m)
BY DEF Iteration, Response!Iteration, Response!HeaderEndLF, Response!Reject, Response!Consume, Does,
       headerContains, Response!headerContains

-----------------------------------------------------------------------------
(* What an iteration does in the first line.                               *)

\* In a state that accepts one symbol
LEMMA RequestLiteral ==
    ASSUME kind = "request", NEW s \in Request!LiteralState, NEW m, NEW c, NEW p
    PROVE  LET r == Iteration(s, m, c, p)
           IN  IF c = Request!Literal[s][1] THEN Does(r, Request!Literal[s][2], m)
               ELSE Does(r, "ProtocolError", m)
<1>1. s \notin {"HeaderName", "HeaderValue", "HeaderValueLF", "HeaderEndLF", "RequestLineBegin",
                "RequestMethod", "RequestResource", "RequestProtocolVersionMajor",
                "RequestProtocolVersionMinor"}
  BY DEF Request!LiteralState
<1>2. Iteration(s, m, c, p) = Request!RequestLine(s, m, c)
  BY <1>1 DEF Iteration, Request!Iteration
<1> QED
  BY <1>1, <1>2 DEF Request!RequestLine, Request!Consume, Request!Reject, Does

\* In the method, the target and the version
LEMMA RequestWords ==
    ASSUME kind = "request", NEW m, NEW c, NEW p
    PROVE  /\ \A s \in {"RequestLineBegin", "RequestMethod"} :
                 LET r == Iteration(s, m, c, p)
                 IN  IF is_token(c)
                     THEN Does(r, "RequestMethod", [m EXCEPT !.temp_http_method = Append(@, c)])
                     ELSE IF c = "SP" /\ s = "RequestMethod" THEN Does(r, "RequestResource", m)
                     ELSE Does(r, "ProtocolError", m)
           /\ LET r == Iteration("RequestResource", m, c, p)
              IN  IF c = "SP" THEN Does(r, "RequestProtocolH", m)
                  ELSE IF isprint(c)
                  THEN Does(r, "RequestResource", [m EXCEPT !.target_resource = Append(@, c)])
                  ELSE Does(r, "ProtocolError", m)
           /\ LET r == Iteration("RequestProtocolVersionMajor", m, c, p)
              IN  IF isdigit(c) THEN Does(r, "RequestProtocolDot", m)
                  ELSE Does(r, "ProtocolError", m)
           /\ LET r == Iteration("RequestProtocolVersionMinor", m, c, p)
              IN  IF isdigit(c) THEN Does(r, "RequestProtocolVersionMinor", m)
                  ELSE IF c = "CR" THEN Does(r, "RequestLineLF", m)
                  ELSE Does(r, "ProtocolError", m)
<1> DEFINE S == {"RequestLineBegin", "RequestMethod", "RequestResource",
                 "RequestProtocolVersionMajor", "RequestProtocolVersionMinor"}
<1>1. \A s \in S : Iteration(s, m, c, p) = Request!RequestLine(s, m, c) /\ s \notin Request!LiteralState
  BY DEF Iteration, Request!Iteration, Request!LiteralState
<1>2. /\ Request!is_token(c) = is_token(c) /\ Request!isprint(c) = isprint(c)
      /\ Request!isdigit(c) = isdigit(c)
      /\ (is_token(c) => c # "SP") /\ (isdigit(c) => c # "CR")
  BY DEF is_token, is_char, is_separator, is_control, Request!is_token, Request!is_char, isprint,
         isdigit, Request!isprint, Request!isdigit, Request!is_separator, Request!is_control,
         Digit, Request!Digit
<1>3. ASSUME NEW s \in {"RequestLineBegin", "RequestMethod"}
      PROVE  LET r == Request!RequestLine(s, m, c)
             IN  IF is_token(c)
                 THEN Does(r, "RequestMethod", [m EXCEPT !.temp_http_method = Append(@, c)])
                 ELSE IF c = "SP" /\ s = "RequestMethod" THEN Does(r, "RequestResource", m)
                 ELSE Does(r, "ProtocolError", m)
  BY <1>1, <1>2 DEF Request!RequestLine, Request!Consume, Request!Reject, Does,
                    Request!pushBackRequestMethod
<1>4. LET r == Request!RequestLine("RequestResource", m, c)
      IN  IF c = "SP" THEN Does(r, "RequestProtocolH", m)
          ELSE IF isprint(c)
          THEN Does(r, "RequestResource", [m EXCEPT !.target_resource = Append(@, c)])
          ELSE Does(r, "ProtocolError", m)
  BY <1>1, <1>2 DEF Request!RequestLine, Request!Consume, Request!Reject, Does,
                    Request!pushBackTargetResource
<1>5. LET r == Request!RequestLine("RequestProtocolVersionMajor", m, c)
      IN  IF isdigit(c) THEN Does(r, "RequestProtocolDot", m) ELSE Does(r, "ProtocolError", m)
  BY <1>1, <1>2 DEF Request!RequestLine, Request!Consume, Request!Reject, Does
<1>6. LET r == Request!RequestLine("RequestProtocolVersionMinor", m, c)
      IN  IF isdigit(c) THEN Does(r, "RequestProtocolVersionMinor", m)
          ELSE IF c = "CR" THEN Does(r, "RequestLineLF", m)
          ELSE Does(r, "ProtocolError", m)
  BY <1>1, <1>2 DEF Request!RequestLine, Request!Consume, Request!Reject, Does
<1> QED
  BY <1>1, <1>3, <1>4, <1>5, <1>6

\* In a state that accepts one symbol, of a response
LEMMA ResponseLiteral ==
    ASSUME kind = "response", NEW s \in Response!LiteralState, NEW m, NEW c, NEW p
    PROVE  LET r == Iteration(s, m, c, p)
           IN  IF c = Response!Literal[s][1] THEN Does(r, Response!Literal[s][2], m)
               ELSE Does(r, "ProtocolError", m)
<1>1. s \notin {"HeaderName", "HeaderValue", "HeaderValueLF", "HeaderEndLF",
                "ResponseProtocolVersionMinor", "StatusCode", "ResponseReasonPhrase"}
  BY DEF Response!LiteralState
<1>2. Iteration(s, m, c, p) = Response!StatusLine(s, m, c)
  BY <1>1 DEF Iteration, Response!Iteration
<1> QED
  BY <1>1, <1>2 DEF Response!StatusLine, Response!Consume, Response!Reject, Does

\* In the version, the code and the phrase
LEMMA ResponseWords ==
    ASSUME kind = "response", NEW m, NEW c, NEW p
    PROVE  /\ LET r == Iteration("ResponseProtocolVersionMinor", m, c, p)
              IN  IF isdigit(c) THEN Does(r, "ResponseProtocolVersionMinor", m)
                  ELSE IF c = "SP" THEN Does(r, "StatusCode", m)
                  ELSE Does(r, "ProtocolError", m)
           /\ LET r == Iteration("StatusCode", m, c, p)
              IN  IF isdigit(c) THEN Does(r, "StatusCode", Response!pushBackResponseCode(m, c))
                  ELSE IF c = "SP" THEN Does(r, "ResponseReasonPhrase", Response!setResponseCode(m))
                  ELSE Does(r, "ProtocolError", m)
           /\ LET r == Iteration("ResponseReasonPhrase", m, c, p)
              IN  IF c = "CR" THEN Does(r, "StatusLineLF", m)
                  ELSE IF is_text(c) THEN Does(r, "ResponseReasonPhrase", m)
                  ELSE Does(r, "ProtocolError", m)
<1> DEFINE S == {"ResponseProtocolVersionMinor", "StatusCode", "ResponseReasonPhrase"}
<1>1. \A s \in S : Iteration(s, m, c, p) = Response!StatusLine(s, m, c) /\ s \notin Response!LiteralState
  BY DEF Iteration, Response!Iteration, Response!LiteralState
<1>2. /\ Response!is_text(c) = is_text(c) /\ Response!isdigit(c) = isdigit(c)
      /\ (isdigit(c) => c # "SP") /\ (is_text(c) => c # "CR")
  BY DEF is_text, is_control, Response!is_text, Response!is_control, isdigit, Response!isdigit,
         Digit, Response!Digit
<1>3. LET r == Response!StatusLine("ResponseProtocolVersionMinor", m, c)
      IN  IF isdigit(c) THEN Does(r, "ResponseProtocolVersionMinor", m)
          ELSE IF c = "SP" THEN Does(r, "StatusCode", m)
          ELSE Does(r, "ProtocolError", m)
  BY <1>1, <1>2 DEF Response!StatusLine, Response!Consume, Response!Reject, Does
<1>4. LET r == Response!StatusLine("StatusCode", m, c)
      IN  IF isdigit(c) THEN Does(r, "StatusCode", Response!pushBackResponseCode(m, c))
          ELSE IF c = "SP" THEN Does(r, "ResponseReasonPhrase", Response!setResponseCode(m))
          ELSE Does(r, "ProtocolError", m)
  BY <1>1, <1>2 DEF Response!StatusLine, Response!Consume, Response!Reject, Does
<1>5. LET r == Response!StatusLine("ResponseReasonPhrase", m, c)
      IN  IF c = "CR" THEN Does(r, "StatusLineLF", m)
          ELSE IF is_text(c) THEN Does(r, "ResponseReasonPhrase", m)
          ELSE Does(r, "ProtocolError", m)
  BY <1>1, <1>2 DEF Response!StatusLine, Response!Consume, Response!Reject, Does
<1> QED
  BY <1>1, <1>3, <1>4, <1>5

-----------------------------------------------------------------------------
(* Reading the first line.                                                 *)

SameHeaders(m, o) ==
    /\ m.headers = o.headers /\ m.temp_header_name = o.temp_header_name
    /\ m.temp_header_value = o.temp_header_value

\* A text with one symbol more, and one of a single symbol
LEMMA AppendText ==
    /\ \A a \in Text, c \in Symbol :
          /\ Append(a, c) \in Text /\ Len(Append(a, c)) = Len(a) + 1
          /\ Append(a, c)[Len(a) + 1] = c /\ \A k \in 1 .. Len(a) : Append(a, c)[k] = a[k]
    /\ \A a \in Text : Len(a) = 1 => a = <<a[1]>>
<1>1. ASSUME NEW a \in Text, NEW c \in Symbol
      PROVE  /\ Append(a, c) \in Text /\ Len(Append(a, c)) = Len(a) + 1
             /\ Append(a, c)[Len(a) + 1] = c /\ \A k \in 1 .. Len(a) : Append(a, c)[k] = a[k]
  BY AppendProperties DEF Text
<1>2. ASSUME NEW a \in Text, Len(a) = 1 PROVE a = <<a[1]>>
  <2>1. a \in Seq(Symbol) /\ a[1] \in Symbol /\ <<a[1]>> \in Seq(Symbol) /\ Len(<<a[1]>>) = 1
    BY <1>2 DEF Text
  <2>2. \A k \in 1 .. 1 : a[k] = <<a[1]>>[k]
    OBVIOUS
  <2> QED
    BY <1>2, <2>1, <2>2, SeqEqual
<1> QED
  BY <1>1, <1>2

\* The word of the protocol, symbol by symbol
LEMMA WordGrows ==
    /\ Word \in Text /\ Len(Word) = 6 /\ SubSeq(Word, 1, 6) = Word
    /\ \A k \in 1 .. 5 : /\ SubSeq(Word, 1, k) \in Text
                        /\ SubSeq(Word, 1, k + 1) = Append(SubSeq(Word, 1, k), Word[k + 1])
    /\ \A major \in Digit :
          /\ Append(Word, major) \in Text /\ Append(Append(Word, major), ".") \in Text
          /\ Append(Append(Word, major), ".") = <<"SP", "H", "T", "T", "P", "/", major, ".">>
<1>1. Word \in Text /\ Len(Word) = 6
  BY DEF Word, Text, Symbol, Other, Letter
<1>2. SubSeq(Word, 1, 6) = Word
  BY <1>1 DEF Text
<1>3. \A k \in 1 .. 5 : /\ SubSeq(Word, 1, k) \in Text
                       /\ SubSeq(Word, 1, k + 1) = Append(SubSeq(Word, 1, k), Word[k + 1])
  BY <1>1 DEF Text
<1>4. ASSUME NEW major \in Digit
      PROVE  /\ Append(Word, major) \in Text /\ Append(Append(Word, major), ".") \in Text
             /\ Append(Append(Word, major), ".") = <<"SP", "H", "T", "T", "P", "/", major, ".">>
  <2> DEFINE s == Append(Append(Word, major), ".")
             t == <<"SP", "H", "T", "T", "P", "/", major, ".">>
  <2>1. major \in Symbol /\ "." \in Symbol
    BY DEF Symbol
  <2> DEFINE v == Append(Word, major)
  <2>a. v \in Text /\ Len(v) = 7 /\ v[7] = major /\ \A k \in 1 .. 6 : v[k] = Word[k]
    <3>1. /\ v \in Text /\ Len(v) = Len(Word) + 1 /\ v[Len(Word) + 1] = major
          /\ \A k \in 1 .. Len(Word) : v[k] = Word[k]
      BY <1>1, <2>1, AppendText
    <3> QED
      BY <1>1, <3>1
  <2>b. s = Append(v, ".")
    OBVIOUS
  <2> HIDE DEF s, v
  <2>c. /\ s \in Text /\ Len(s) = Len(v) + 1 /\ s[Len(v) + 1] = "."
        /\ \A k \in 1 .. Len(v) : s[k] = v[k]
    BY <2>1, <2>a, <2>b, AppendText
  <2>2. s \in Text /\ Len(s) = 8
    BY <2>a, <2>c
  <2>3. t \in Text /\ Len(t) = 8
    BY <2>1 DEF Text, Symbol, Other, Letter
  <2>4. s[8] = "." /\ \A k \in 1 .. 7 : s[k] = v[k]
    BY <2>a, <2>c
  <2>5. s[7] = major /\ \A k \in 1 .. 6 : s[k] = Word[k]
    BY <2>4, <2>a
  <2>6. /\ Word[1] = t[1] /\ Word[2] = t[2] /\ Word[3] = t[3] /\ Word[4] = t[4]
        /\ Word[5] = t[5] /\ Word[6] = t[6] /\ t[7] = major /\ t[8] = "."
    BY DEF Word
  <2> HIDE DEF t
  <2>7. \A k \in 1 .. 8 : s[k] = t[k]
    BY <2>4, <2>5, <2>6
  <2>8. s = t
    BY <2>2, <2>3, <2>7 DEF Text
  <2> QED
    BY <2>2, <2>a, <2>8 DEF s, t, v
<1> QED
  BY <1>1, <1>2, <1>3, <1>4

\* One symbol more of a request line
LEMMA RequestLineGrows ==
    ASSUME kind = "request", NEW m, IsRequest(m), NEW s, NEW t \in Text, RequestLineBegins(s, m, t),
           NEW c \in Symbol, NEW p
    PROVE  LET r == Iteration(s, m, c, p)
           IN  /\ SameHeaders(r.message, m)
               /\ \/ r.state = "ProtocolError"
                  \/ c # "CR" /\ RequestLineBegins(r.state, r.message, Append(t, c))
                  \/ c = "CR" /\ r.state = "RequestLineLF" /\ RequestLineSays(t, r.message)
<1> DEFINE r == Iteration(s, m, c, p)
           Good == /\ SameHeaders(r.message, m)
                   /\ \/ r.state = "ProtocolError"
                      \/ c # "CR" /\ RequestLineBegins(r.state, r.message, Append(t, c))
                      \/ c = "CR" /\ r.state = "RequestLineLF" /\ RequestLineSays(t, r.message)
<1> SUFFICES Good
  OBVIOUS
<1>0. /\ m.temp_http_method \in Text /\ m.target_resource \in Text /\ <<>> \in Text
      /\ <<"SP">> \in Text /\ "SP" \in Symbol
  BY DEF IsRequest, Text, Symbol, Other
<1>1. Does(r, "ProtocolError", m) => Good
  BY DEF Does, SameHeaders
<1>2. Begins(m) \in Text
  BY <1>0, Together DEF Begins
<1>3. \A a \in Text : a \o <<>> = a /\ Append(a, "SP") = a \o <<"SP">>
  BY DEF Text
<1>4. CASE s \in {"RequestLineBegin", "RequestMethod"}
  <2>1. t = m.temp_http_method /\ m.target_resource = <<>>
    BY <1>4 DEF RequestLineBegins, ReadOfWord
  <2>2. CASE is_token(c)
    <3> DEFINE o == [m EXCEPT !.temp_http_method = Append(@, c)]
    <3>1. Does(r, "RequestMethod", o)
      BY <1>4, <2>2, RequestWords
    <3>2. /\ o.temp_http_method = Append(t, c) /\ o.target_resource = <<>> /\ SameHeaders(o, m)
      BY <2>1 DEF IsRequest, SameHeaders
    <3>3. c # "CR"
      BY <2>2 DEF is_token, is_control
    <3> HIDE DEF o, r
    <3> QED
      BY <3>1, <3>2, <3>3 DEF Does, RequestLineBegins
  <2>3. CASE c = "SP" /\ s = "RequestMethod" /\ ~ is_token(c)
    <3>1. Does(r, "RequestResource", m)
      BY <1>4, <2>3, RequestWords
    <3>2. Append(t, c) = Begins(m)
      <4>1. m.temp_http_method \o <<"SP">> \in Text
        BY <1>0, Together
      <4> QED
        BY <1>0, <1>3, <2>1, <2>3, <4>1 DEF Begins
    <3> HIDE DEF r
    <3> QED
      BY <2>3, <3>1, <3>2 DEF Does, RequestLineBegins, SameHeaders
  <2>4. CASE ~ is_token(c) /\ ~ (c = "SP" /\ s = "RequestMethod")
    BY <1>1, <1>4, <2>4, RequestWords
  <2> QED
    BY <2>2, <2>3, <2>4
<1>5. CASE s = "RequestResource"
  <2>1. t = Begins(m)
    BY <1>5 DEF RequestLineBegins, ReadOfWord
  <2>2. CASE c = "SP"
    <3>1. Does(r, "RequestProtocolH", m)
      BY <1>5, <2>2, RequestWords
    <3>2. "RequestProtocolH" \in DOMAIN ReadOfWord /\ ReadOfWord["RequestProtocolH"] = 1
      BY DEF ReadOfWord
    <3>3. SubSeq(Word, 1, 1) = <<"SP">>
      <4>1. Word[1] = "SP" /\ Word \in Text /\ Len(Word) = 6
        BY WordGrows DEF Word
      <4>2. /\ SubSeq(Word, 1, 1) \in Text /\ Len(SubSeq(Word, 1, 1)) = 1
            /\ SubSeq(Word, 1, 1)[1] = "SP"
        BY <4>1 DEF Text
      <4> QED
        BY <4>2, AppendText
    <3>4. Append(t, c) = Begins(m) \o <<"SP">>
      BY <1>2, <1>3, <2>1, <2>2
    <3> HIDE DEF r
    <3> QED
      BY <2>2, <3>1, <3>2, <3>3, <3>4 DEF Does, RequestLineBegins, SameHeaders
  <2>3. CASE c # "SP" /\ isprint(c)
    <3> DEFINE o == [m EXCEPT !.target_resource = Append(@, c)]
    <3>1. Does(r, "RequestResource", o)
      BY <1>5, <2>3, RequestWords
    <3>2. /\ o.temp_http_method = m.temp_http_method /\ o.target_resource = Append(m.target_resource, c)
          /\ SameHeaders(o, m)
      BY DEF IsRequest, SameHeaders
    <3>3. m.temp_http_method \o <<"SP">> \in Text
      BY <1>0, Together
    <3>4. Append(t, c) = Begins(o)
      <4>1. Append(t, c) = (m.temp_http_method \o <<"SP">>) \o Append(m.target_resource, c)
        BY <1>0, <2>1, <3>3, AppendRight DEF Begins
      <4> HIDE DEF o
      <4> QED
        BY <3>2, <4>1 DEF Begins
    <3>5. c # "CR"
      BY <2>3 DEF isprint, is_control
    <3> HIDE DEF o, r
    <3> QED
      BY <3>1, <3>2, <3>4, <3>5 DEF Does, RequestLineBegins
  <2>4. CASE c # "SP" /\ ~ isprint(c)
    BY <1>1, <1>5, <2>4, RequestWords
  <2> QED
    BY <2>2, <2>3, <2>4
<1>6. CASE s \in DOMAIN ReadOfWord \ {"RequestProtocolVersionMajor"}
  <2>1. s \in Request!LiteralState /\ t = Begins(m) \o SubSeq(Word, 1, ReadOfWord[s])
    BY <1>6 DEF RequestLineBegins, ReadOfWord, Request!LiteralState
  <2>2. CASE c = Request!Literal[s][1]
    <3> DEFINE u == Request!Literal[s][2]
    <3>1. Does(r, u, m)
      BY <2>1, <2>2, RequestLiteral
    <3>2. /\ u \in DOMAIN ReadOfWord /\ ReadOfWord[u] = ReadOfWord[s] + 1 /\ ReadOfWord[s] \in 1 .. 5
          /\ c = Word[ReadOfWord[s] + 1] /\ c # "CR"
      BY <1>6, <2>2 DEF ReadOfWord, Word, Request!Literal
    <3>3. Append(t, c) = Begins(m) \o SubSeq(Word, 1, ReadOfWord[u])
      <4>1. /\ SubSeq(Word, 1, ReadOfWord[s]) \in Text
            /\ SubSeq(Word, 1, ReadOfWord[u]) = Append(SubSeq(Word, 1, ReadOfWord[s]), c)
        BY <3>2, WordGrows
      <4> QED
        BY <1>2, <2>1, <4>1, AppendRight, ZenonT(40)
    <3> HIDE DEF r, u
    <3> QED
      BY <3>1, <3>2, <3>3 DEF Does, RequestLineBegins, SameHeaders
  <2>3. CASE c # Request!Literal[s][1]
    BY <1>1, <2>1, <2>3, RequestLiteral
  <2> QED
    BY <2>2, <2>3
<1>7. CASE s = "RequestProtocolVersionMajor"
  <2>1. t = Begins(m) \o Word /\ Word \in Text
    <3>1. t = Begins(m) \o SubSeq(Word, 1, 6)
      BY <1>7 DEF RequestLineBegins, ReadOfWord
    <3> QED
      BY <3>1, WordGrows
  <2>2. CASE isdigit(c)
    <3>1. Does(r, "RequestProtocolDot", m)
      BY <1>7, <2>2, RequestWords
    <3>2. Append(t, c) = Begins(m) \o Append(Word, c)
      BY <1>2, <2>1, AppendRight
    <3>3. c \in Digit /\ c # "CR"
      BY <2>2 DEF isdigit, Digit
    <3> HIDE DEF r
    <3> QED
      BY <3>1, <3>2, <3>3 DEF Does, RequestLineBegins, SameHeaders
  <2>3. CASE ~ isdigit(c)
    BY <1>1, <1>7, <2>3, RequestWords
  <2> QED
    BY <2>2, <2>3
<1>8. CASE s = "RequestProtocolDot"
  <2>1. PICK major \in Digit : t = Begins(m) \o Append(Word, major)
    BY <1>8 DEF RequestLineBegins, ReadOfWord
  <2>2. /\ s \in Request!LiteralState /\ Request!Literal[s][1] = "."
        /\ Request!Literal[s][2] = "RequestProtocolVersionMinor"
    BY <1>8 DEF Request!LiteralState, Request!Literal
  <2>3. CASE c = "."
    <3> DEFINE V == Append(Append(Word, major), ".")
               u == Append(t, c)
    <3>1. Does(r, "RequestProtocolVersionMinor", m)
      BY <2>2, <2>3, RequestLiteral
    <3>2. Append(Word, major) \in Text /\ V \in Text
      BY WordGrows
    <3>3. u = Begins(m) \o V
      BY <1>2, <2>1, <2>3, <3>2, AppendRight
    <3>4. u \in Text /\ Begins(m) \o V \in Text
      BY <1>2, <3>2, <3>3, Together
    <3> HIDE DEF u, V
    <3>5. 0 \in 0 .. Len(u) /\ SubSeq(u, Len(u) - 0 + 1, Len(u)) = <<>> /\ Digits(<<>>)
      BY <3>4 DEF Text, Digits
    <3>6. u = Begins(m) \o V \o <<>>
      BY <1>3, <3>3, <3>4
    <3>7. RequestLineBegins("RequestProtocolVersionMinor", m, u)
      BY <3>5, <3>6 DEF RequestLineBegins, V
    <3> HIDE DEF r
    <3> QED
      BY <2>3, <3>1, <3>7 DEF Does, SameHeaders, u
  <2>4. CASE c # "."
    BY <1>1, <2>2, <2>4, RequestLiteral
  <2> QED
    BY <2>3, <2>4
<1>9. CASE s = "RequestProtocolVersionMinor"
  <2>1. PICK major \in Digit, k \in 0 .. Len(t) :
           LET minor == SubSeq(t, Len(t) - k + 1, Len(t))
           IN  /\ Digits(minor)
               /\ t = Begins(m) \o Append(Append(Word, major), ".") \o minor
    BY <1>9 DEF RequestLineBegins, ReadOfWord
  <2> DEFINE minor == SubSeq(t, Len(t) - k + 1, Len(t))
             V == Append(Append(Word, major), ".")
  <2>2. CASE isdigit(c)
    <3> DEFINE u == Append(t, c)
               more == SubSeq(u, Len(u) - (k + 1) + 1, Len(u))
    <3>1. Does(r, "RequestProtocolVersionMinor", m)
      BY <1>9, <2>2, RequestWords
    <3>2. c # "CR"
      BY <2>2 DEF isdigit, Digit
    <3>3. /\ more = Append(minor, c) /\ minor \in Text /\ k + 1 \in 0 .. Len(u)
      BY DEF Text
    <3>4. Digits(more)
      <4> HIDE DEF minor, more
      <4> QED
        BY <2>1, <2>2, <3>3 DEF Digits, Text, minor
    <3>5. V \in Text
      BY WordGrows
    <3>6. u = Begins(m) \o V \o more
      <4>1. Begins(m) \o V \in Text /\ t = Begins(m) \o V \o minor
        BY <1>2, <2>1, <3>5, Together
      <4> HIDE DEF V, minor, more
      <4> QED
        BY <3>3, <4>1, AppendRight
    <3>7. RequestLineBegins("RequestProtocolVersionMinor", m, u)
      <4> HIDE DEF u
      <4> QED
        BY <3>3, <3>4, <3>6 DEF RequestLineBegins
    <3> HIDE DEF r
    <3> QED
      BY <3>1, <3>2, <3>7 DEF Does, SameHeaders
  <2>3. CASE ~ isdigit(c) /\ c = "CR"
    <3>1. Does(r, "RequestLineLF", m)
      BY <1>9, <2>3, RequestWords
    <3>2. RequestLineSays(t, m)
      BY <2>1, WordGrows DEF RequestLineSays, Begins
    <3> HIDE DEF r
    <3> QED
      BY <2>3, <3>1, <3>2 DEF Does, SameHeaders
  <2>4. CASE ~ isdigit(c) /\ c # "CR"
    BY <1>1, <1>9, <2>4, RequestWords
  <2> QED
    BY <2>2, <2>3, <2>4
<1> QED
  BY <1>4, <1>5, <1>6, <1>7, <1>8, <1>9 DEF RequestLineBegins

\* One byte more of a status line
LEMMA StatusLineGrows ==
    ASSUME kind = "response", stream \in Text, NEW n \in Nat, n + 1 <= Len(stream),
           NEW m, IsResponse(m), NEW s, StatusLineBegins(s, m, n), NEW p
    PROVE  LET c == stream[n + 1]
               r == Iteration(s, m, c, p)
           IN  /\ SameHeaders(r.message, m)
               /\ \/ r.state = "ProtocolError"
                  \/ c # "CR" /\ StatusLineBegins(r.state, r.message, n + 1)
                  \/ /\ c = "CR" /\ r.state = "StatusLineLF"
                     /\ StatusLineSays(SubSeq(stream, 1, n), r.message)
<1> DEFINE c == stream[n + 1]
           r == Iteration(s, m, c, p)
           Good == /\ SameHeaders(r.message, m)
                   /\ \/ r.state = "ProtocolError"
                      \/ c # "CR" /\ StatusLineBegins(r.state, r.message, n + 1)
                      \/ /\ c = "CR" /\ r.state = "StatusLineLF"
                         /\ StatusLineSays(SubSeq(stream, 1, n), r.message)
<1> SUFFICES Good
  OBVIOUS
<1>0. /\ Len(stream) \in Nat /\ c \in Symbol /\ \A k \in 1 .. Len(stream) : stream[k] \in Symbol
      /\ m.temp_http_status_code \in Text
  BY DEF Text, IsResponse
<1>1. Does(r, "ProtocolError", m) => Good
  BY DEF Does, SameHeaders
<1>2. isdigit(c) => c # "CR"
  BY DEF isdigit, Digit
<1>3. CASE s \in DOMAIN ReadOfProtocol
  <2>1. /\ s \in Response!LiteralState /\ n = ReadOfProtocol[s] /\ n <= 6
        /\ \A k \in 1 .. n : stream[k] = Protocol[k]
        /\ m.temp_http_status_code = <<>>
    BY <1>3 DEF StatusLineBegins, ReadOfProtocol, Response!LiteralState
  <2>2. CASE c = Response!Literal[s][1]
    <3> DEFINE u == Response!Literal[s][2]
    <3>1. Does(r, u, m)
      BY <2>1, <2>2, ResponseLiteral
    <3>2. /\ c = Protocol[n + 1] /\ c # "CR"
          /\ IF n = 6 THEN u = "ResponseProtocolVersionMinor"
             ELSE u \in DOMAIN ReadOfProtocol /\ ReadOfProtocol[u] = n + 1
      BY <1>3, <2>1, <2>2 DEF ReadOfProtocol, Protocol, Response!Literal
    <3>3. \A k \in 1 .. n + 1 : stream[k] = Protocol[k]
      BY <2>1, <3>2
    <3>4. DigitsAt(8, 7)
      BY DEF DigitsAt
    <3>5. StatusLineBegins(u, m, n + 1)
      <4> HIDE DEF u
      <4> QED
        BY <2>1, <3>2, <3>3, <3>4 DEF StatusLineBegins
    <3> HIDE DEF r, u
    <3> QED
      BY <3>1, <3>2, <3>5 DEF Does, SameHeaders
  <2>3. CASE c # Response!Literal[s][1]
    BY <1>1, <2>1, <2>3, ResponseLiteral
  <2> QED
    BY <2>2, <2>3
<1>4. CASE s = "ResponseProtocolVersionMinor"
  <2>1. /\ n >= 7 /\ DigitsAt(8, n) /\ m.temp_http_status_code = <<>>
        /\ \A k \in 1 .. 7 : stream[k] = Protocol[k]
    BY <1>4 DEF StatusLineBegins, ReadOfProtocol
  <2>2. CASE isdigit(c)
    <3>1. Does(r, s, m)
      BY <1>4, <2>2, ResponseWords
    <3>2. DigitsAt(8, n + 1)
      BY <2>1, <2>2 DEF DigitsAt
    <3> HIDE DEF r
    <3> QED
      BY <1>2, <1>4, <2>1, <2>2, <3>1, <3>2 DEF Does, SameHeaders, StatusLineBegins
  <2>3. CASE c = "SP" /\ ~ isdigit(c)
    <3>1. Does(r, "StatusCode", m)
      BY <1>4, <2>3, ResponseWords
    <3>2. /\ n + 1 \in 8 .. n + 1 /\ DigitsAt(8, (n + 1) - 1) /\ DigitsAt((n + 1) + 1, n + 1)
      BY <2>1 DEF DigitsAt
    <3>3. SubSeq(stream, (n + 1) + 1, IF n + 1 <= (n + 1) + 3 THEN n + 1 ELSE (n + 1) + 3) = <<>>
      BY DEF Text
    <3>4. StatusLineBegins("StatusCode", m, n + 1)
      <4> DEFINE i == n + 1
      <4>1. /\ i \in 8 .. n + 1 /\ stream[i] = "SP" /\ DigitsAt(8, i - 1) /\ DigitsAt(i + 1, n + 1)
            /\ m.temp_http_status_code = SubSeq(stream, i + 1, IF n + 1 <= i + 3 THEN n + 1 ELSE i + 3)
        BY <2>1, <2>3, <3>2, <3>3
      <4>2. n + 1 >= 7
        BY <2>1
      <4> HIDE DEF i
      <4>3. \E a \in 8 .. n + 1 :
               /\ stream[a] = "SP" /\ DigitsAt(8, a - 1) /\ DigitsAt(a + 1, n + 1)
               /\ m.temp_http_status_code = SubSeq(stream, a + 1, IF n + 1 <= a + 3 THEN n + 1 ELSE a + 3)
        BY <4>1
      <4> QED
        BY <2>1, <4>2, <4>3 DEF StatusLineBegins
    <3> HIDE DEF r
    <3> QED
      BY <2>3, <3>1, <3>4 DEF Does, SameHeaders
  <2>4. CASE ~ isdigit(c) /\ c # "SP"
    BY <1>1, <1>4, <2>4, ResponseWords
  <2> QED
    BY <2>2, <2>3, <2>4
<1>5. CASE s = "StatusCode"
  <2>1. n >= 7 /\ \A k \in 1 .. 7 : stream[k] = Protocol[k]
    BY <1>5 DEF StatusLineBegins, ReadOfProtocol
  <2>2. PICK i \in 8 .. n :
           /\ stream[i] = "SP" /\ DigitsAt(8, i - 1) /\ DigitsAt(i + 1, n)
           /\ m.temp_http_status_code = SubSeq(stream, i + 1, IF n <= i + 3 THEN n ELSE i + 3)
    BY <1>5 DEF StatusLineBegins, ReadOfProtocol
  <2>3. Len(m.temp_http_status_code) = IF n <= i + 3 THEN n - i ELSE 3
    BY <1>0, <2>2 DEF Text
  <2>4. CASE isdigit(c)
    <3> DEFINE o == Response!pushBackResponseCode(m, c)
    <3>1. Does(r, "StatusCode", o)
      BY <1>5, <2>4, ResponseWords
    <3>2. /\ o.temp_http_status_code = IF Len(m.temp_http_status_code) <= 2
                                       THEN Append(m.temp_http_status_code, c)
                                       ELSE m.temp_http_status_code
          /\ SameHeaders(o, m)
      BY DEF Response!pushBackResponseCode, IsResponse, SameHeaders
    <3> HIDE DEF o
    <3>3. o.temp_http_status_code = SubSeq(stream, i + 1, IF n + 1 <= i + 3 THEN n + 1 ELSE i + 3)
      <4>1. CASE n + 1 <= i + 3
        <5>1. m.temp_http_status_code = SubSeq(stream, i + 1, n)
              /\ Len(m.temp_http_status_code) <= 2 /\ i + 1 \in 1 .. n + 1
          BY <2>2, <2>3, <4>1
        <5> QED
          BY <3>2, <4>1, <5>1, PieceGrows
      <4>2. CASE n + 1 > i + 3
        <5>1. /\ m.temp_http_status_code = SubSeq(stream, i + 1, i + 3)
              /\ ~ (Len(m.temp_http_status_code) <= 2)
          <6>1. CASE n = i + 3
            BY <2>2, <2>3, <6>1
          <6>2. CASE n > i + 3
            BY <2>2, <2>3, <6>2
          <6> QED
            BY <4>2, <6>1, <6>2
        <5> QED
          BY <3>2, <4>2, <5>1
      <4> QED
        BY <4>1, <4>2
    <3>4. DigitsAt(i + 1, n + 1) /\ i \in 8 .. n + 1
      BY <2>2, <2>4 DEF DigitsAt
    <3>5. StatusLineBegins("StatusCode", o, n + 1)
      BY <2>1, <2>2, <3>3, <3>4 DEF StatusLineBegins
    <3> HIDE DEF r
    <3> QED
      BY <1>2, <2>4, <3>1, <3>2, <3>5 DEF Does
  <2>5. CASE c = "SP" /\ ~ isdigit(c)
    <3> DEFINE o == Response!setResponseCode(m)
               j == n + 1
    <3>1. Does(r, "ResponseReasonPhrase", o)
      BY <1>5, <2>5, ResponseWords
    <3>2. /\ o.response_code = IF Len(m.temp_http_status_code) < 3 THEN Response!Indeterminate
                               ELSE m.temp_http_status_code
          /\ SameHeaders(o, m)
      BY DEF Response!setResponseCode, IsResponse, SameHeaders
    <3> HIDE DEF o
    <3>3. o.response_code = IF j <= i + 3 THEN Response!Indeterminate
                            ELSE SubSeq(stream, i + 1, i + 3)
      <4>1. CASE j <= i + 3
        BY <2>3, <3>2, <4>1
      <4>2. CASE n = i + 3
        BY <2>2, <2>3, <3>2, <4>2
      <4>3. CASE n > i + 3
        BY <2>2, <2>3, <3>2, <4>3
      <4> QED
        BY <4>1, <4>2, <4>3
    <3>4. /\ i \in 8 .. n + 1 /\ j \in 8 .. n + 1 /\ i < j /\ stream[j] = "SP"
          /\ DigitsAt(i + 1, j - 1)
      BY <2>2, <2>5
    <3> HIDE DEF j
    <3>5. StatusLineBegins("ResponseReasonPhrase", o, n + 1)
      BY <2>1, <2>2, <3>3, <3>4 DEF StatusLineBegins
    <3> HIDE DEF r
    <3> QED
      BY <2>5, <3>1, <3>2, <3>5 DEF Does
  <2>6. CASE ~ isdigit(c) /\ c # "SP"
    BY <1>1, <1>5, <2>6, ResponseWords
  <2> QED
    BY <2>4, <2>5, <2>6
<1>6. CASE s = "ResponseReasonPhrase"
  <2>1. n >= 7 /\ \A k \in 1 .. 7 : stream[k] = Protocol[k]
    BY <1>6 DEF StatusLineBegins, ReadOfProtocol
  <2>2. PICK i \in 8 .. n, j \in 8 .. n :
           /\ i < j /\ stream[i] = "SP" /\ stream[j] = "SP"
           /\ DigitsAt(8, i - 1) /\ DigitsAt(i + 1, j - 1)
           /\ m.response_code = IF j <= i + 3 THEN Response!Indeterminate
                                ELSE SubSeq(stream, i + 1, i + 3)
    BY <1>6 DEF StatusLineBegins, ReadOfProtocol
  <2>3. CASE c = "CR"
    <3> DEFINE line == SubSeq(stream, 1, n)
    <3>1. Does(r, "StatusLineLF", m)
      BY <1>6, <2>3, ResponseWords
    <3>2. line \in Text /\ Len(line) = n /\ \A k \in 1 .. n : line[k] = stream[k]
      BY <1>0 DEF Text
    <3> HIDE DEF line
    <3>3. SubSeq(line, 1, 7) = <<"H", "T", "T", "P", "/", "1", ".">>
      <4> DEFINE a == SubSeq(line, 1, 7)
                 b == <<"H", "T", "T", "P", "/", "1", ".">>
      <4>1. a \in Text /\ Len(a) = 7 /\ \A k \in 1 .. 7 : a[k] = line[k]
        BY <2>1, <3>2 DEF Text
      <4>2. b \in Text /\ Len(b) = 7 /\ b = Protocol
        BY DEF Text, Symbol, Other, Letter, Digit, Protocol
      <4> HIDE DEF a, b
      <4>3. \A k \in 1 .. 7 : a[k] = b[k]
        BY <2>1, <3>2, <4>1, <4>2
      <4>4. a = b
        BY <4>1, <4>2, <4>3, SeqEqual DEF Text
      <4> QED
        BY <4>4 DEF a, b
    <3>4. i \in 8 .. Len(line) /\ j \in 8 .. Len(line) /\ line[i] = "SP" /\ line[j] = "SP"
      BY <2>2, <3>2
    <3>5. ASSUME NEW a \in Nat \ {0}, NEW b \in Nat, b <= n, DigitsAt(a, b)
          PROVE  Digits(SubSeq(line, a, b))
      <4>1. \A k \in 1 .. Len(SubSeq(line, a, b)) :
               /\ SubSeq(line, a, b)[k] = line[a + k - 1] /\ a + k - 1 \in a .. b /\ a + k - 1 \in 1 .. n
        <5>1. CASE a <= b
          BY <3>2, <3>5, <5>1 DEF Text
        <5>2. CASE ~ (a <= b)
          <6>1. SubSeq(line, a, b) = <<>>
            BY <3>2, <3>5, <5>2 DEF Text
          <6> QED
            BY <6>1
        <5> QED
          BY <5>1, <5>2
      <4> QED
        BY <3>2, <3>5, <4>1 DEF Digits, DigitsAt
    <3>6. Digits(SubSeq(line, 8, i - 1)) /\ Digits(SubSeq(line, i + 1, j - 1))
      BY <2>2, <3>5
    <3> DEFINE code == SubSeq(line, i + 1, j - 1)
    <3>7. Len(code) = j - i - 1 /\ (~ (Len(code) < 3) => SubSeq(code, 1, 3) = SubSeq(stream, i + 1, i + 3))
      <4>1. code \in Text /\ Len(code) = j - i - 1 /\ \A k \in 1 .. Len(code) : code[k] = line[i + k]
        BY <2>2, <3>2 DEF Text
      <4>2. ASSUME ~ (Len(code) < 3) PROVE SubSeq(code, 1, 3) = SubSeq(stream, i + 1, i + 3)
        <5> DEFINE a == SubSeq(code, 1, 3)
                   b == SubSeq(stream, i + 1, i + 3)
        <5> HIDE DEF code
        <5>0. i + 3 <= n /\ i + 3 <= Len(stream)
          BY <1>0, <2>2, <4>1, <4>2
        <5>1. a \in Text /\ Len(a) = 3 /\ \A k \in 1 .. 3 : a[k] = code[k]
          BY <4>1, <4>2 DEF Text
        <5>2. b \in Text /\ Len(b) = 3 /\ \A k \in 1 .. 3 : b[k] = stream[i + k]
          BY <1>0, <2>2, <5>0 DEF Text
        <5>3. \A k \in 1 .. 3 : code[k] = stream[i + k]
          BY <2>2, <3>2, <4>1, <4>2, <5>0
        <5> HIDE DEF a, b
        <5>4. \A k \in 1 .. 3 : a[k] = b[k]
          BY <5>1, <5>2, <5>3
        <5>5. a = b
          BY <5>1, <5>2, <5>4, SeqEqual DEF Text
        <5> QED
          BY <5>5 DEF a, b
      <4> QED
        BY <4>1, <4>2
    <3>8. m.response_code = IF Len(code) < 3 THEN Response!Indeterminate ELSE SubSeq(code, 1, 3)
      <4>1. Len(code) < 3 <=> j <= i + 3
        <5> HIDE DEF code
        <5> QED
          BY <2>2, <3>7
      <4> HIDE DEF code
      <4>2. CASE j <= i + 3
        BY <2>2, <4>1, <4>2
      <4>3. CASE ~ (j <= i + 3)
        BY <2>2, <3>7, <4>1, <4>3
      <4> QED
        BY <4>2, <4>3
    <3>9. StatusLineSays(line, m)
      BY <2>2, <3>3, <3>4, <3>6, <3>8 DEF StatusLineSays
    <3> HIDE DEF r
    <3> QED
      BY <2>3, <3>1, <3>9 DEF Does, SameHeaders, line
  <2>4. CASE c # "CR" /\ is_text(c)
    <3>1. Does(r, s, m)
      BY <1>6, <2>4, ResponseWords
    <3>2. i \in 8 .. n + 1 /\ j \in 8 .. n + 1
      BY <2>2
    <3>3. StatusLineBegins("ResponseReasonPhrase", m, n + 1)
      BY <2>1, <2>2, <3>2 DEF StatusLineBegins
    <3> HIDE DEF r
    <3> QED
      BY <1>6, <2>4, <3>1, <3>3 DEF Does, SameHeaders
  <2>5. CASE c # "CR" /\ ~ is_text(c)
    BY <1>1, <1>6, <2>5, ResponseWords
  <2> QED
    BY <2>3, <2>4, <2>5
<1> QED
  BY <1>3, <1>4, <1>5, <1>6 DEF StatusLineBegins

-----------------------------------------------------------------------------
(* Reading the header lines.                                               *)

\* One more header line
LEMMA BegunGrows ==
    ASSUME stream \in Text, NEW i \in Nat, i >= 3, stream[i - 2] = "CR", stream[i - 1] = "LF",
           NEW e \in i .. Len(stream), stream[e] = "CR", stream[e + 1] = "LF",
           NoneOf("CR", i, e - 1)
    PROVE  Begun(e + 2) = Begun(i) \cup {i}
<1>0. Len(stream) \in Nat /\ e \in Nat
  BY DEF Text
<1>1. ASSUME NEW j \in Begun(e + 2) PROVE j \in Begun(i) \cup {i}
  <2>1. j \in 3 .. e + 1 /\ stream[j - 2] = "CR" /\ stream[j - 1] = "LF"
    BY <1>0 DEF Begun
  <2>2. j <= i
    <3> SUFFICES ASSUME j > i PROVE FALSE
      BY <2>1
    <3>1. CASE j = i + 1
      BY <2>1, <3>1
    <3>2. CASE j > i + 1
      <4>1. j - 2 \in i .. e - 1
        BY <1>0, <2>1, <3>2
      <4> QED
        BY <2>1, <4>1 DEF NoneOf
    <3> QED
      BY <1>0, <2>1, <3>1, <3>2
  <2> QED
    BY <1>0, <2>1, <2>2 DEF Begun
<1>2. ASSUME NEW j \in Begun(i) \cup {i} PROVE j \in Begun(e + 2)
  BY <1>0, <1>2 DEF Begun
<1> QED
  BY <1>1, <1>2

\* What it adds to the headers
LEMMA HeadersGrow ==
    ASSUME NEW i \in Nat, NEW e \in Nat, Begun(e) = Begun(i) \cup {i}
    PROVE  HeadersUpTo(e) = addHeader(HeadersUpTo(i), NameAt(i), ValueAt(i))
<1> DEFINE B == Begun(i)
           N == {NameAt(j) : j \in B}
           F(x) == ValueAt(Least({j \in B : NameAt(j) = x}))
           G(x) == ValueAt(Least({j \in B \cup {i} : NameAt(j) = x}))
           H == [x \in N |-> F(x)]
<1>0. B \in SUBSET Int /\ \A j \in B : j < i
  BY DEF Begun
<1>1. HeadersUpTo(i) = H
  BY DEF HeadersUpTo
<1>2. HeadersUpTo(e) = [x \in {NameAt(j) : j \in B \cup {i}} |-> G(x)]
  BY DEF HeadersUpTo
<1>3. {NameAt(j) : j \in B \cup {i}} = N \cup {NameAt(i)}
  OBVIOUS
<1>4. ASSUME NEW x \in N PROVE G(x) = F(x)
  <2> DEFINE S == {j \in B : NameAt(j) = x}
             T == {j \in B \cup {i} : NameAt(j) = x}
  <2>1. S \in SUBSET Nat /\ S # {}
    BY DEF Begun
  <2>2. PICK l \in S : \A j \in S : l <= j
    <3> HIDE DEF S
    <3> QED
      BY <2>1, LeastNumber
  <2>3. T \in SUBSET Int /\ l \in T /\ \A j \in T : l <= j
    BY <1>0, <2>2
  <2> HIDE DEF S, T
  <2>4. Least(S) = l /\ Least(T) = l
    BY <2>1, <2>2, <2>3, LeastIs
  <2> QED
    BY <2>4 DEF S, T
<1>5. NameAt(i) \notin N => G(NameAt(i)) = ValueAt(i)
  <2> SUFFICES ASSUME NameAt(i) \notin N PROVE G(NameAt(i)) = ValueAt(i)
    OBVIOUS
  <2> DEFINE T == {j \in B \cup {i} : NameAt(j) = NameAt(i)}
  <2>1. T = {i}
    OBVIOUS
  <2>2. Least({i}) = i
    BY LeastIs
  <2> QED
    BY <2>1, <2>2
<1>6. ASSUME NEW x \in N \cup {NameAt(i)}
      PROVE  G(x) = IF x \in N THEN H[x] ELSE ValueAt(i)
  BY <1>4, <1>5
<1>7. DOMAIN H = N
  OBVIOUS
<1> HIDE DEF N, G, H
<1> QED
  BY <1>1, <1>2, <1>3, <1>6, <1>7 DEF addHeader

\* The first header line
LEMMA FirstBegun ==
    ASSUME stream \in Text, NEW e \in 1 .. Len(stream), NoneOf("CR", 1, e - 1)
    PROVE  Begun(e + 2) = {} /\ HeadersUpTo(e + 2) = NoHeaders
<1>1. Begun(e + 2) = {}
  <2> SUFFICES ASSUME NEW j \in Begun(e + 2) PROVE FALSE
    OBVIOUS
  <2>1. j - 2 \in 1 .. e - 1 /\ stream[j - 2] = "CR"
    BY DEF Begun
  <2> QED
    BY <2>1 DEF NoneOf
<1>2. {NameAt(j) : j \in Begun(e + 2)} = {}
  BY <1>1
<1>3. HeadersUpTo(e + 2) = [x \in {} |-> ValueAt(Least({j \in Begun(e + 2) : NameAt(j) = x}))]
  BY <1>2 DEF HeadersUpTo
<1> QED
  BY <1>1, <1>3 DEF NoHeaders

\* A message that says the same of the first line and of the headers
SameHead(m, o) ==
    /\ m.headers = o.headers
    /\ kind = "request" => m.temp_http_method = o.temp_http_method
                           /\ m.target_resource = o.target_resource
    /\ kind = "response" => m.response_code = o.response_code

\* It is as good.
LEMMA SameSection ==
    ASSUME kind \in Kinds, NEW m, NEW o, SameHead(m, o)
    PROVE  /\ FirstLineSays(m) <=> FirstLineSays(o)
           /\ \A i, n : Section(m, i, n) <=> Section(o, i, n)
<1>1. FirstLineSays(m) <=> FirstLineSays(o)
  <2>1. CASE kind = "request"
    BY <2>1 DEF FirstLineSays, RequestLineSays, SameHead
  <2>2. CASE kind = "response"
    BY <2>2 DEF FirstLineSays, StatusLineSays, SameHead
  <2> QED
    BY <2>1, <2>2 DEF Kinds
<1> QED
  BY <1>1 DEF Section, SameHead

\* What collecting a name or a value leaves alone
LEMMA CollectingKeeps ==
    ASSUME kind \in Kinds, NEW m, IsMessage(kind, m), NEW x
    PROVE  /\ LET o == [m EXCEPT !.temp_header_name = x]
              IN  SameHead(o, m) /\ o.temp_header_name = x /\ o.temp_header_value = m.temp_header_value
           /\ LET o == [m EXCEPT !.temp_header_value = x]
              IN  SameHead(o, m) /\ o.temp_header_value = x /\ o.temp_header_name = m.temp_header_name
           /\ LET o == [m EXCEPT !.headers = x, !.temp_header_name = <<>>, !.temp_header_value = <<>>]
              IN  /\ o.headers = x /\ o.temp_header_name = <<>> /\ o.temp_header_value = <<>>
                  /\ SameHead([m EXCEPT !.headers = x], o)
           /\ kind = "request" => LET o == [m EXCEPT !.request_type = x]
                                  IN  SameHead(o, m)
<1>1. CASE kind = "request"
  BY <1>1 DEF IsMessage, IsRequest, SameHead
<1>2. CASE kind = "response"
  BY <1>2 DEF IsMessage, IsResponse, SameHead
<1> QED
  BY <1>1, <1>2 DEF Kinds

\* From the first line to the header section
LEMMA FirstLineStep ==
    ASSUME kind \in Kinds, stream \in Text, NEW n \in Nat, n + 1 <= Len(stream),
           NEW m, IsMessage(kind, m), NEW s, InFirstLine(s, m, n), NEW p
    PROVE  LET r == Iteration(s, m, stream[n + 1], p)
           IN  \/ r.state = "ProtocolError"
               \/ r.state \in FirstStates \cup {FirstEnd} /\ InFirstLine(r.state, r.message, n + 1)
               \/ r.state = "HeaderName" /\ InName(r.message, n + 2, n + 1)
<1> DEFINE c == stream[n + 1]
           r == Iteration(s, m, c, p)
           t == SubSeq(stream, 1, n)
           Good == \/ r.state = "ProtocolError"
                   \/ r.state \in FirstStates \cup {FirstEnd} /\ InFirstLine(r.state, r.message, n + 1)
                   \/ r.state = "HeaderName" /\ InName(r.message, n + 2, n + 1)
<1> SUFFICES Good
  OBVIOUS
<1>0. c \in Symbol /\ t \in Text /\ Len(stream) \in Nat /\ SubSeq(stream, 1, n + 1) = Append(t, c)
      /\ n + 1 \in 1 .. Len(stream)
  BY PieceGrows DEF Text
<1>1. m.headers = NoHeaders /\ m.temp_header_name = <<>> /\ m.temp_header_value = <<>>
  BY DEF InFirstLine
<1>2. CASE s \in FirstStates /\ NoneOf("CR", 1, n)
           /\ IF kind = "request" THEN RequestLineBegins(s, m, t) ELSE StatusLineBegins(s, m, n)
  <2>1. c # "CR" => NoneOf("CR", 1, n + 1)
    BY <1>2 DEF NoneOf
  <2>2. c = "CR" => Line(1) = t
    <3>1. (n + 1) - 1 = n /\ n + 1 \in 1 .. Len(stream) /\ 1 \in Nat \ {0}
      BY <1>0
    <3> QED
      BY <1>2, <3>1, LineIs
  <2>3. CASE kind = "request"
    <3>1. /\ SameHeaders(r.message, m)
          /\ \/ r.state = "ProtocolError"
             \/ c # "CR" /\ RequestLineBegins(r.state, r.message, Append(t, c))
             \/ c = "CR" /\ r.state = "RequestLineLF" /\ RequestLineSays(t, r.message)
      BY <1>0, <1>2, <2>3, RequestLineGrows DEF IsMessage
    <3> HIDE DEF r, t
    <3>2. \A u : RequestLineBegins(r.state, r.message, u) => r.state \in FirstStates
      BY <2>3 DEF RequestLineBegins, FirstStates
    <3>3. CASE c # "CR" /\ RequestLineBegins(r.state, r.message, Append(t, c))
      BY <1>0, <1>1, <2>1, <2>3, <3>1, <3>2, <3>3 DEF InFirstLine, SameHeaders
    <3>4. CASE c = "CR" /\ r.state = "RequestLineLF" /\ RequestLineSays(t, r.message)
      <4>1. FirstLineSays(r.message) /\ r.state = FirstEnd
        BY <2>2, <2>3, <3>4 DEF FirstLineSays, FirstEnd
      <4>2. (n + 1) - 1 = n /\ n + 1 >= 1
        OBVIOUS
      <4> QED
        BY <1>1, <1>2, <3>1, <3>4, <4>1, <4>2 DEF InFirstLine, SameHeaders
    <3> QED
      BY <3>1, <3>3, <3>4
  <2>4. CASE kind = "response"
    <3>1. /\ SameHeaders(r.message, m)
          /\ \/ r.state = "ProtocolError"
             \/ c # "CR" /\ StatusLineBegins(r.state, r.message, n + 1)
             \/ c = "CR" /\ r.state = "StatusLineLF" /\ StatusLineSays(t, r.message)
      BY <1>0, <1>2, <2>4, StatusLineGrows DEF IsMessage
    <3> HIDE DEF r, t
    <3>2. StatusLineBegins(r.state, r.message, n + 1) => r.state \in FirstStates
      BY <2>4 DEF StatusLineBegins, FirstStates
    <3>3. CASE c # "CR" /\ StatusLineBegins(r.state, r.message, n + 1)
      BY <1>0, <1>1, <2>1, <2>4, <3>1, <3>2, <3>3 DEF InFirstLine, SameHeaders
    <3>4. CASE c = "CR" /\ r.state = "StatusLineLF" /\ StatusLineSays(t, r.message)
      <4>1. FirstLineSays(r.message) /\ r.state = FirstEnd
        BY <2>2, <2>4, <3>4 DEF FirstLineSays, FirstEnd
      <4>2. (n + 1) - 1 = n /\ n + 1 >= 1
        OBVIOUS
      <4> QED
        BY <1>1, <1>2, <3>1, <3>4, <4>1, <4>2 DEF InFirstLine, SameHeaders
    <3> QED
      BY <3>1, <3>3, <3>4
  <2> QED
    BY <2>3, <2>4 DEF Kinds
<1>3. CASE s = FirstEnd /\ n >= 1 /\ stream[n] = "CR" /\ NoneOf("CR", 1, n - 1) /\ FirstLineSays(m)
  <2>1. IF c = "LF" THEN Does(r, "HeaderName", m) ELSE Does(r, "ProtocolError", m)
    <3>1. CASE kind = "request"
      <4>1. /\ s \in Request!LiteralState /\ Request!Literal[s][1] = "LF"
            /\ Request!Literal[s][2] = "HeaderName"
        BY <1>3, <3>1 DEF FirstEnd, Request!LiteralState, Request!Literal
      <4> QED
        BY <3>1, <4>1, RequestLiteral
    <3>2. CASE kind = "response"
      <4>1. /\ s \in Response!LiteralState /\ Response!Literal[s][1] = "LF"
            /\ Response!Literal[s][2] = "HeaderName"
        BY <1>3, <3>2 DEF FirstEnd, Response!LiteralState, Response!Literal
      <4> QED
        BY <3>2, <4>1, ResponseLiteral
    <3> QED
      BY <3>1, <3>2 DEF Kinds
  <2>2. CASE c = "LF"
    <3> DEFINE i == n + 2
    <3>1. Begun(i) = {} /\ HeadersUpTo(i) = NoHeaders
      BY <1>0, <1>3, FirstBegun
    <3>2. i - 2 = n /\ i - 1 = n + 1 /\ i <= (n + 1) + 1 /\ NoneOf("CR", i, n + 1) /\ NoneOf(":", i, n + 1)
      BY DEF NoneOf
    <3>3. SubSeq(stream, i, n + 1) = <<>>
      BY DEF Text
    <3> HIDE DEF i
    <3>4. Section(m, i, n + 1)
      BY <1>1, <1>3, <2>2, <3>1, <3>2 DEF Section
    <3>5. InName(m, i, n + 1)
      BY <1>1, <3>2, <3>3, <3>4 DEF InName
    <3> HIDE DEF r
    <3> QED
      BY <2>1, <2>2, <3>5 DEF Does, i
  <2>3. CASE c # "LF"
    BY <2>1, <2>3 DEF Does
  <2> QED
    BY <2>2, <2>3
<1> QED
  BY <1>2, <1>3 DEF InFirstLine

\* A section that goes on
LEMMA SectionGrows ==
    ASSUME NEW m, NEW i \in Nat, NEW n \in Nat, Section(m, i, n), stream[n + 1] # "CR"
    PROVE  Section(m, i, n + 1)
<1>1. i <= (n + 1) + 1 /\ NoneOf("CR", i, n + 1)
  BY DEF Section, NoneOf
<1> QED
  BY <1>1 DEF Section

\* A symbol of a header's name
LEMMA NameStep ==
    ASSUME kind \in Kinds, stream \in Text, NEW n \in Nat, n + 1 <= Len(stream),
           NEW m, IsMessage(kind, m), NEW i \in 3 .. n + 1, InName(m, i, n), NEW p
    PROVE  LET r == Iteration("HeaderName", m, stream[n + 1], p)
           IN  \/ r.state = "ProtocolError"
               \/ r.state = "HeaderName" /\ InName(r.message, i, n + 1)
               \/ r.state = "HeaderValue" /\ InValue(r.message, i, n + 1)
               \/ /\ r.state = "HeaderEndLF" /\ stream[n + 1] = "CR"
                  /\ Section(r.message, i, n) /\ NoneOf(":", i, n)
<1> DEFINE c == stream[n + 1]
           r == Iteration("HeaderName", m, c, p)
           Good == \/ r.state = "ProtocolError"
                   \/ r.state = "HeaderName" /\ InName(r.message, i, n + 1)
                   \/ r.state = "HeaderValue" /\ InValue(r.message, i, n + 1)
                   \/ /\ r.state = "HeaderEndLF" /\ stream[n + 1] = "CR"
                      /\ Section(r.message, i, n) /\ NoneOf(":", i, n)
<1> SUFFICES Good
  OBVIOUS
<1>0. /\ c \in Symbol /\ i \in Nat /\ i \in 1 .. n + 1 /\ (n + 1) - 1 = n
      /\ SubSeq(stream, i, n + 1) = Append(SubSeq(stream, i, n), c)
  BY PieceGrows DEF Text
<1>1. /\ Section(m, i, n) /\ NoneOf(":", i, n) /\ m.temp_header_name = SubSeq(stream, i, n)
      /\ m.temp_header_value = <<>>
  BY DEF InName
<1>2. CASE is_token(c)
  <2> DEFINE o == [m EXCEPT !.temp_header_name = Append(m.temp_header_name, c)]
  <2>1. Does(r, "HeaderName", o)
    BY <1>0, <1>2, NameIteration
  <2>2. SameHead(o, m) /\ o.temp_header_name = SubSeq(stream, i, n + 1) /\ o.temp_header_value = <<>>
    <3>1. Append(m.temp_header_name, c) = SubSeq(stream, i, n + 1)
      BY <1>0, <1>1
    <3> DEFINE x == SubSeq(stream, i, n + 1)
    <3>2. o = [m EXCEPT !.temp_header_name = x]
      BY <3>1
    <3> HIDE DEF x, o
    <3>3. SameHead(o, m) /\ o.temp_header_name = x /\ o.temp_header_value = m.temp_header_value
      BY <3>2, CollectingKeeps, ZenonT(40)
    <3> QED
      BY <1>1, <3>3 DEF x
  <2>3. c # "CR" /\ c # ":"
    BY <1>2 DEF is_token, is_separator, is_control
  <2>4. Section(m, i, n + 1) /\ NoneOf(":", i, n + 1)
    <3>1. Section(m, i, n + 1)
      BY <1>0, <1>1, <2>3, SectionGrows
    <3>2. NoneOf(":", i, n + 1)
      BY <1>0, <1>1, <2>3 DEF NoneOf
    <3> QED
      BY <3>1, <3>2
  <2> HIDE DEF o, r
  <2>5. InName(o, i, n + 1)
    BY <2>2, <2>4, SameSection DEF InName
  <2> QED
    BY <2>1, <2>5 DEF Does
<1>3. CASE c = ":"
  <2>1. Does(r, "HeaderValue", m)
    BY <1>0, <1>3, NameIteration
  <2>2. Section(m, i, n + 1)
    BY <1>0, <1>1, <1>3, SectionGrows
  <2>3. {k \in (n + 1) + 1 .. n + 1 : Kept(k)} = {}
    OBVIOUS
  <2>4. m.temp_header_value = SymbolsAt(stream, {k \in (n + 1) + 1 .. n + 1 : Kept(k)})
    BY <1>1, <2>3, SymbolsAtText
  <2>5. n + 1 \in i .. n + 1
    BY <1>0
  <2>6. InValue(m, i, n + 1)
    BY <1>0, <1>1, <1>3, <2>2, <2>4, <2>5 DEF InValue
  <2> HIDE DEF r
  <2> QED
    BY <2>1, <2>6 DEF Does
<1>4. CASE c = "CR"
  <2>1. Does(r, "HeaderEndLF", m)
    BY <1>0, <1>4, NameIteration
  <2> HIDE DEF r
  <2> QED
    BY <1>1, <1>4, <2>1 DEF Does
<1>5. CASE ~ is_token(c) /\ c # ":" /\ c # "CR"
  <2>1. Does(r, "ProtocolError", m)
    BY <1>0, <1>5, NameIteration
  <2> QED
    BY <2>1 DEF Does
<1> QED
  BY <1>2, <1>3, <1>4, <1>5

\* A symbol of a header's value
LEMMA ValueStep ==
    ASSUME kind \in Kinds, stream \in Text, NEW n \in Nat, n + 1 <= Len(stream),
           NEW m, IsMessage(kind, m), NEW i \in 3 .. n + 1, InValue(m, i, n)
    PROVE  LET r == Iteration("HeaderValue", m, stream[n + 1], stream[n])
           IN  \/ r.state = "ProtocolError"
               \/ r.state = "HeaderValue" /\ InValue(r.message, i, n + 1)
               \/ r.state = "HeaderValueLF" /\ stream[n + 1] = "CR" /\ InValue(r.message, i, n)
<1> DEFINE c == stream[n + 1]
           r == Iteration("HeaderValue", m, c, stream[n])
           Good == \/ r.state = "ProtocolError"
                   \/ r.state = "HeaderValue" /\ InValue(r.message, i, n + 1)
                   \/ r.state = "HeaderValueLF" /\ stream[n + 1] = "CR" /\ InValue(r.message, i, n)
<1> SUFFICES Good
  OBVIOUS
<1>0. c \in Symbol /\ i \in Nat /\ (n + 1) - 1 = n /\ n + 1 \in 1 .. Len(stream)
  BY DEF Text
<1>1. PICK d \in i .. n :
         /\ stream[d] = ":" /\ NoneOf(":", i, d - 1)
         /\ m.temp_header_name = SubSeq(stream, i, d - 1)
         /\ m.temp_header_value = SymbolsAt(stream, {k \in d + 1 .. n : Kept(k)})
  BY DEF InValue
<1> DEFINE S == {k \in d + 1 .. n : Kept(k)}
           T == {k \in d + 1 .. n + 1 : Kept(k)}
<1>2. Section(m, i, n)
  BY DEF InValue
<1>3. Keeps(c, stream[n]) = Kept(n + 1)
  BY <1>0 DEF Keeps, Kept
<1>4. T = IF Kept(n + 1) THEN S \cup {n + 1} ELSE S
  OBVIOUS
<1>5. \A k \in S : k < n + 1
  OBVIOUS
<1>6. d \in i .. n + 1
  BY <1>0
<1>7. CASE is_text(c) /\ Keeps(c, stream[n])
  <2> DEFINE o == [m EXCEPT !.temp_header_value = Append(m.temp_header_value, c)]
  <2>1. Does(r, "HeaderValue", o)
    BY <1>0, <1>7, ValueIteration
  <2>2. c # "CR"
    BY <1>7 DEF is_text, is_control
  <2>3. SymbolsAt(stream, T) = Append(m.temp_header_value, c)
    <3> HIDE DEF T, S
    <3>1. SymbolsAt(stream, S \cup {n + 1}) = Append(SymbolsAt(stream, S), stream[n + 1])
      BY <1>0, <1>5, SymbolsAtGrow
    <3> QED
      BY <1>1, <1>3, <1>4, <1>7, <3>1 DEF S
  <2>4. SameHead(o, m) /\ o.temp_header_value = SymbolsAt(stream, T)
        /\ o.temp_header_name = m.temp_header_name
    <3> HIDE DEF T
    <3> QED
      BY <2>3, CollectingKeeps, ZenonT(40)
  <2> HIDE DEF o, r
  <2>5. Section(o, i, n + 1)
    BY <1>0, <1>2, <2>2, <2>4, SectionGrows, SameSection
  <2>6. InValue(o, i, n + 1)
    BY <1>1, <1>6, <2>4, <2>5 DEF InValue
  <2> QED
    BY <2>1, <2>6 DEF Does
<1>8. CASE is_text(c) /\ Drops(c, stream[n])
  <2>1. Does(r, "HeaderValue", m)
    BY <1>0, <1>8, ValueIteration
  <2>2. c # "CR"
    BY <1>8 DEF is_text, is_control
  <2>3. ~ Keeps(c, stream[n])
    BY <1>8 DEF Keeps, Drops
  <2>4. T = S
    BY <1>3, <1>4, <2>3
  <2>5. Section(m, i, n + 1)
    BY <1>0, <1>2, <2>2, SectionGrows
  <2>6. InValue(m, i, n + 1)
    BY <1>1, <1>6, <2>4, <2>5 DEF InValue
  <2> HIDE DEF r
  <2> QED
    BY <2>1, <2>6 DEF Does
<1>9. CASE c = "CR"
  <2>1. Does(r, "HeaderValueLF", m)
    BY <1>0, <1>9, ValueIteration
  <2> HIDE DEF r
  <2> QED
    BY <1>9, <2>1 DEF Does
<1>10. CASE c # "CR" /\ ~ (is_text(c) /\ (Keeps(c, stream[n]) \/ Drops(c, stream[n])))
  <2>1. Does(r, "ProtocolError", m)
    BY <1>0, <1>10, ValueIteration
  <2> QED
    BY <2>1 DEF Does
<1> QED
  BY <1>7, <1>8, <1>9, <1>10

\* The end of a header line
LEMMA ValueEndStep ==
    ASSUME kind \in Kinds, stream \in Text, NEW n \in Nat, n >= 1, n + 1 <= Len(stream),
           NEW m, IsMessage(kind, m), NEW i \in 3 .. n, stream[n] = "CR", InValue(m, i, n - 1), NEW p
    PROVE  LET r == Iteration("HeaderValueLF", m, stream[n + 1], p)
           IN  \/ r.state = "ProtocolError"
               \/ r.state = "HeaderName" /\ InName(r.message, n + 2, n + 1)
<1> DEFINE c == stream[n + 1]
           r == Iteration("HeaderValueLF", m, c, p)
           Good == \/ r.state = "ProtocolError"
                   \/ r.state = "HeaderName" /\ InName(r.message, n + 2, n + 1)
<1> SUFFICES Good
  OBVIOUS
<1>0. /\ c \in Symbol /\ i \in Nat \ {0} /\ (n + 1) - 1 = n /\ n + 1 \in 1 .. Len(stream)
      /\ Len(stream) \in Nat /\ i >= 3 /\ n \in i .. Len(stream) /\ n - 1 \in Nat
  BY DEF Text
<1>1. CASE c # "LF"
  <2>1. Does(r, "ProtocolError", m)
    BY <1>0, <1>1, ValueEndIteration
  <2> QED
    BY <2>1 DEF Does
<1>2. CASE c = "LF"
  <2> DEFINE h == addHeader(m.headers, m.temp_header_name, m.temp_header_value)
             o == [m EXCEPT !.headers = h, !.temp_header_name = <<>>, !.temp_header_value = <<>>]
             j == n + 2
  <2>1. Does(r, "HeaderName", o)
    BY <1>0, <1>2, ValueEndIteration
  <2>2. PICK d \in i .. n - 1 :
           /\ stream[d] = ":" /\ NoneOf(":", i, d - 1)
           /\ m.temp_header_name = SubSeq(stream, i, d - 1)
           /\ m.temp_header_value = SymbolsAt(stream, {k \in d + 1 .. n - 1 : Kept(k)})
    BY DEF InValue
  <2>3. Section(m, i, n - 1)
    BY DEF InValue
  <2>4. /\ stream[i - 2] = "CR" /\ stream[i - 1] = "LF" /\ NoneOf("CR", i, n - 1) /\ FirstLineSays(m)
        /\ m.headers = HeadersUpTo(i) /\ \A x \in Begun(i) : ":" \in ToSet(Line(x))
    BY <2>3 DEF Section
  <2>5. Line(i) = SubSeq(stream, i, n - 1) /\ Len(Line(i)) = n - i
    BY <1>0, <2>4, LineIs
  <2>6. Colon(i) = d
    <3>1. d \in i .. Len(stream)
      BY <1>0
    <3> QED
      BY <1>0, <2>2, <3>1, ColonIs
  <2>7. NameAt(i) = m.temp_header_name /\ ValueAt(i) = m.temp_header_value
    <3>1. i + Len(Line(i)) - 1 = n - 1
      BY <1>0, <2>5
    <3> QED
      BY <2>2, <2>6, <3>1 DEF NameAt, ValueAt
  <2>8. ":" \in ToSet(Line(i))
    <3>1. d - i + 1 \in 1 .. n - i
      BY <1>0
    <3>2. Line(i)[d - i + 1] = ":"
      BY <1>0, <2>2, <2>5 DEF Text
    <3>3. Line(i) \in Text
      BY <1>0, <2>5 DEF Text
    <3>4. DOMAIN Line(i) = 1 .. n - i
      BY <2>5, <3>3 DEF Text
    <3> QED
      BY <3>1, <3>2, <3>4 DEF ToSet
  <2>9. Begun(j) = Begun(i) \cup {i}
    BY <1>0, <1>2, <2>4, BegunGrows
  <2>10. HeadersUpTo(j) = h
    <3>1. j \in Nat
      OBVIOUS
    <3> HIDE DEF j
    <3> QED
      BY <1>0, <2>4, <2>7, <2>9, <3>1, HeadersGrow
  <2>11. /\ o.headers = h /\ o.temp_header_name = <<>> /\ o.temp_header_value = <<>>
         /\ SameHead([m EXCEPT !.headers = h], o)
    <3>1. CASE kind = "request"
      <4> HIDE DEF h
      <4> QED
        BY <3>1 DEF IsMessage, IsRequest, SameHead
    <3>2. CASE kind = "response"
      <4> HIDE DEF h
      <4> QED
        BY <3>2 DEF IsMessage, IsResponse, SameHead
    <3> QED
      BY <3>1, <3>2 DEF Kinds
  <2>12. FirstLineSays(o)
    <3>1. FirstLineSays([m EXCEPT !.headers = h]) <=> FirstLineSays(m)
      <4> HIDE DEF h
      <4>1. CASE kind = "request"
        BY <4>1 DEF FirstLineSays, RequestLineSays, IsMessage, IsRequest
      <4>2. CASE kind = "response"
        BY <4>2 DEF FirstLineSays, StatusLineSays, IsMessage, IsResponse
      <4> QED
        BY <4>1, <4>2 DEF Kinds
    <3> HIDE DEF h, o
    <3> QED
      BY <2>4, <2>11, <3>1, SameSection
  <2>13. /\ j - 2 = n /\ j - 1 = n + 1 /\ j <= (n + 1) + 1 /\ NoneOf("CR", j, n + 1)
         /\ NoneOf(":", j, n + 1) /\ SubSeq(stream, j, n + 1) = <<>>
    BY DEF NoneOf, Text
  <2> HIDE DEF h, o, j
  <2>14. Section(o, j, n + 1)
    BY <1>2, <2>4, <2>8, <2>9, <2>10, <2>11, <2>12, <2>13 DEF Section
  <2>15. InName(o, j, n + 1)
    BY <2>11, <2>13, <2>14 DEF InName
  <2> HIDE DEF r
  <2> QED
    BY <2>1, <2>15 DEF Does, j
<1> QED
  BY <1>1, <1>2

\* The end of the head
LEMMA EndStep ==
    ASSUME kind \in Kinds, stream \in Text, NEW n \in Nat, n >= 1, n + 1 <= Len(stream),
           NEW m, IsMessage(kind, m), NEW i \in 3 .. n, stream[n] = "CR", Section(m, i, n - 1),
           NoneOf(":", i, n - 1), ~ Stuck("HeaderEndLF", m, stream[n + 1]), NEW p
    PROVE  LET r == Iteration("HeaderEndLF", m, stream[n + 1], p)
           IN  \/ r.state = "ProtocolError"
               \/ /\ r.state \in {BodyState, "ParsingDone"} /\ stream[n + 1] = "LF"
                  /\ Section(r.message, i, n - 1)
<1> DEFINE c == stream[n + 1]
           r == Iteration("HeaderEndLF", m, c, p)
           Good == \/ r.state = "ProtocolError"
                   \/ /\ r.state \in {BodyState, "ParsingDone"} /\ stream[n + 1] = "LF"
                      /\ Section(r.message, i, n - 1)
<1> SUFFICES Good
  OBVIOUS
<1>0. c \in Symbol
  BY DEF Text
<1>1. CASE kind = "request"
  <2>1. PICK type \in {"Get", "Post", "Put", "Head"} :
           /\ c = "LF"
           /\ Does(r, IF type \in {"Post", "Put"} THEN "MessageBody" ELSE "ParsingDone",
                   [m EXCEPT !.request_type = type])
    BY <1>0, <1>1, RequestEndIteration
  <2> DEFINE o == [m EXCEPT !.request_type = type]
  <2>2. SameHead(o, m)
    BY <1>1, CollectingKeeps
  <2> HIDE DEF r, o
  <2>3. Section(o, i, n - 1)
    BY <2>2, SameSection
  <2>4. r.state \in {BodyState, "ParsingDone"} /\ r.message = o
    BY <1>1, <2>1 DEF Does, BodyState, Request!BodyState, o
  <2> QED
    BY <2>1, <2>3, <2>4
<1>2. CASE kind = "response"
  <2>1. IF c # "LF" THEN Does(r, "ProtocolError", m)
        ELSE Does(r, IF headerContains(m.headers, <<"Content-Length">>)
                     THEN "ResponseMessageBody" ELSE "ParsingDone", m)
    BY <1>0, <1>2, ResponseEndIteration
  <2> HIDE DEF r
  <2> QED
    BY <1>2, <2>1 DEF Does, BodyState, Response!BodyState
<1> QED
  BY <1>1, <1>2 DEF Kinds

LaterStates == {"HeaderName", "HeaderValue", "HeaderValueLF", "HeaderEndLF", BodyState,
                "ParsingDone", "ProtocolError"}

\* The states are these, and different.
LEMMA StatesApart ==
    ASSUME kind \in Kinds
    PROVE  /\ \A s \in LaterStates : s \notin FirstStates \cup {FirstEnd}
           /\ BodyState \notin {"HeaderName", "HeaderValue", "HeaderValueLF", "HeaderEndLF"} \cup Final
           /\ States(kind) \subseteq FirstStates \cup {FirstEnd} \cup LaterStates
           /\ Start(kind) \in FirstStates
<1>1. CASE kind = "request"
  BY <1>1 DEF LaterStates, Final, FirstStates, FirstEnd, BodyState, Request!BodyState, States, ReadOfWord,
              Request!ParserState, Request!LiteralState, Start, Request!Start
<1>2. CASE kind = "response"
  BY <1>2 DEF LaterStates, Final, FirstStates, FirstEnd, BodyState, Response!BodyState, States, ReadOfProtocol,
              Response!ResponseParserState, Response!LiteralState, Start, Response!Start
<1> QED
  BY <1>1, <1>2 DEF Kinds

\* What is understood of one byte more
LEMMA TellsStep ==
    ASSUME kind \in Kinds, stream \in Text, NEW n \in Nat, n + 1 <= Len(stream),
           Tells(Whole(n), n), ~ Stuck(Whole(n).state, Whole(n).message, stream[n + 1])
    PROVE  Tells(Whole(n + 1), n + 1)
<1> DEFINE q == Whole(n)
           w == Whole(n + 1)
           c == stream[n + 1]
           p == IF n + 1 = 1 THEN "CTL" ELSE stream[(n + 1) - 1]
           r == Iteration(q.state, q.message, c, p)
<1>0. c \in Symbol /\ Len(stream) \in Nat /\ (n + 1) - 1 = n /\ n \in 0 .. Len(stream)
  BY DEF Text
<1>1. IsReading(q) /\ Tells(q, n) /\ ~ Stuck(q.state, q.message, c)
  BY <1>0, WholeType
<1>2. w = IF q.state \in Final THEN q
          ELSE IF q.state = BodyState THEN [q EXCEPT !.rest = Append(@, c)]
          ELSE [state |-> r.state, message |-> r.message, rest |-> <<>>]
  BY WholeStep DEF Step
<1> SUFFICES Tells(w, n + 1)
  OBVIOUS
<1> HIDE DEF q, w, c, p
<1>3. q.state \in States(kind) /\ IsMessage(kind, q.message)
  BY <1>1 DEF IsReading
<1> HIDE DEF r
<1>4. /\ \A s \in LaterStates : s \notin FirstStates \cup {FirstEnd}
      /\ BodyState \notin {"HeaderName", "HeaderValue", "HeaderValueLF", "HeaderEndLF"} \cup Final
      /\ States(kind) \subseteq FirstStates \cup {FirstEnd} \cup LaterStates
  BY StatesApart
<1>5. /\ w.state = "ProtocolError" => Tells(w, n + 1)
      /\ w.state \in FirstStates \cup {FirstEnd} /\ InFirstLine(w.state, w.message, n + 1)
            => Tells(w, n + 1)
      /\ w.state = "HeaderName" /\ (\E i \in 3 .. (n + 1) + 1 : InName(w.message, i, n + 1))
            => Tells(w, n + 1)
      /\ w.state = "HeaderValue" /\ (\E i \in 3 .. (n + 1) + 1 : InValue(w.message, i, n + 1))
            => Tells(w, n + 1)
  BY <1>4 DEF Tells, LaterStates, Final
<1>6. /\ w.state = "HeaderValueLF" /\ c = "CR" /\ (\E i \in 3 .. n + 1 : InValue(w.message, i, n))
            => Tells(w, n + 1)
      /\ w.state = "HeaderEndLF" /\ c = "CR"
            /\ (\E i \in 3 .. n + 1 : Section(w.message, i, n) /\ NoneOf(":", i, n))
            => Tells(w, n + 1)
  BY <1>0, <1>4 DEF Tells, LaterStates, Final, c
<1>7. /\ w.state \in {BodyState, "ParsingDone"}
            /\ (\E i \in 3 .. n + 1, b \in 1 .. n + 1 : Behind(w, i, b, n + 1))
            => Tells(w, n + 1)
  BY <1>4 DEF Tells, LaterStates, Final
<1>8. q.state \notin Final \cup {BodyState} =>
          w.state = r.state /\ w.message = r.message /\ w.rest = <<>>
  BY <1>2
<1>9. CASE q.state \in FirstStates \cup {FirstEnd}
  <2>1. InFirstLine(q.state, q.message, n)
    BY <1>1, <1>9 DEF Tells
  <2>2. \/ r.state = "ProtocolError"
        \/ r.state \in FirstStates \cup {FirstEnd} /\ InFirstLine(r.state, r.message, n + 1)
        \/ r.state = "HeaderName" /\ InName(r.message, n + 2, n + 1)
    BY <1>3, <2>1, FirstLineStep DEF r, c
  <2>3. q.state \notin Final \cup {BodyState}
    BY <1>4, <1>9 DEF LaterStates, Final
  <2>4. CASE r.state = "HeaderName" /\ InName(r.message, n + 2, n + 1)
    <3>1. n + 2 \in 3 .. (n + 1) + 1 \/ n = 0
      OBVIOUS
    <3>2. n # 0
      <4> SUFFICES ASSUME n = 0 PROVE FALSE
        OBVIOUS
      <4>1. Whole(0) = Zero
        BY WholeStep
      <4>2. q.state = Start(kind)
        BY <4>1 DEF q, Zero
      <4>3. \A m, x : Iteration(Start(kind), m, c, x).state # "HeaderName"
        <5>1. CASE kind = "request"
          <6>1. ASSUME NEW m, NEW x
                PROVE  \/ Does(Iteration("RequestLineBegin", m, c, x), "ProtocolError", m)
                       \/ Does(Iteration("RequestLineBegin", m, c, x), "RequestMethod",
                               [m EXCEPT !.temp_http_method = Append(@, c)])
            BY <1>0, <5>1, RequestWords
          <6> QED
            BY <5>1, <6>1 DEF Start, Request!Start, Does
        <5>2. CASE kind = "response"
          <6>1. /\ "ResponseProtocolH" \in Response!LiteralState
                /\ Response!Literal["ResponseProtocolH"][2] = "ResponseProtocolT1"
            BY DEF Response!LiteralState, Response!Literal
          <6>2. ASSUME NEW m, NEW x
                PROVE  \/ Does(Iteration("ResponseProtocolH", m, c, x), "ProtocolError", m)
                       \/ Does(Iteration("ResponseProtocolH", m, c, x), "ResponseProtocolT1", m)
            BY <1>0, <5>2, <6>1, ResponseLiteral
          <6> QED
            BY <5>2, <6>2 DEF Start, Response!Start, Does
        <5> QED
          BY <5>1, <5>2 DEF Kinds
      <4> QED
        BY <2>4, <4>2, <4>3 DEF r
    <3> QED
      BY <1>5, <1>8, <2>3, <2>4, <3>1, <3>2
  <2> QED
    BY <1>5, <1>8, <2>2, <2>3, <2>4
<1>10. CASE q.state = "HeaderName"
  <2>1. PICK i \in 3 .. n + 1 : InName(q.message, i, n)
    BY <1>1, <1>10 DEF Tells
  <2>2. \/ r.state = "ProtocolError"
        \/ r.state = "HeaderName" /\ InName(r.message, i, n + 1)
        \/ r.state = "HeaderValue" /\ InValue(r.message, i, n + 1)
        \/ r.state = "HeaderEndLF" /\ c = "CR" /\ Section(r.message, i, n) /\ NoneOf(":", i, n)
    BY <1>3, <1>10, <2>1, NameStep DEF r, c
  <2>3. q.state \notin Final \cup {BodyState}
    BY <1>4, <1>10 DEF LaterStates, Final
  <2>4. i \in 3 .. (n + 1) + 1
    OBVIOUS
  <2> QED
    BY <1>5, <1>6, <1>8, <2>2, <2>3, <2>4
<1>11. CASE q.state = "HeaderValue"
  <2>1. PICK i \in 3 .. n + 1 : InValue(q.message, i, n)
    BY <1>1, <1>11 DEF Tells
  <2>2. i <= n
    BY <2>1 DEF InValue
  <2>3. p = stream[n]
    BY <1>0, <2>2 DEF p
  <2>4. \/ r.state = "ProtocolError"
        \/ r.state = "HeaderValue" /\ InValue(r.message, i, n + 1)
        \/ r.state = "HeaderValueLF" /\ c = "CR" /\ InValue(r.message, i, n)
    BY <1>3, <1>11, <2>1, <2>3, ValueStep DEF r, c
  <2>5. q.state \notin Final \cup {BodyState}
    BY <1>4, <1>11 DEF LaterStates, Final
  <2>6. i \in 3 .. (n + 1) + 1
    OBVIOUS
  <2> QED
    BY <1>5, <1>6, <1>8, <2>4, <2>5, <2>6
<1>12. CASE q.state = "HeaderValueLF"
  <2>1. n >= 1 /\ stream[n] = "CR" /\ \E i \in 3 .. n : InValue(q.message, i, n - 1)
    BY <1>1, <1>12 DEF Tells
  <2>2. PICK i \in 3 .. n : InValue(q.message, i, n - 1)
    BY <2>1
  <2>3. \/ r.state = "ProtocolError"
        \/ r.state = "HeaderName" /\ InName(r.message, n + 2, n + 1)
    BY <1>3, <1>12, <2>1, <2>2, ValueEndStep, ZenonT(40) DEF r, c
  <2>4. q.state \notin Final \cup {BodyState}
    BY <1>4, <1>12 DEF LaterStates, Final
  <2>5. n + 2 \in 3 .. (n + 1) + 1
    BY <2>1
  <2> QED
    BY <1>5, <1>8, <2>3, <2>4, <2>5
<1>13. CASE q.state = "HeaderEndLF"
  <2>1. n >= 1 /\ stream[n] = "CR"
        /\ \E i \in 3 .. n : Section(q.message, i, n - 1) /\ NoneOf(":", i, n - 1)
    BY <1>1, <1>13 DEF Tells
  <2>2. PICK i \in 3 .. n : Section(q.message, i, n - 1) /\ NoneOf(":", i, n - 1)
    BY <2>1
  <2>3. \/ r.state = "ProtocolError"
        \/ /\ r.state \in {BodyState, "ParsingDone"} /\ c = "LF"
           /\ Section(r.message, i, n - 1)
    BY <1>1, <1>3, <1>13, <2>1, <2>2, EndStep DEF r, c
  <2>4. q.state \notin Final \cup {BodyState}
    BY <1>4, <1>13 DEF LaterStates, Final
  <2>5. CASE r.state \in {BodyState, "ParsingDone"} /\ c = "LF" /\ Section(r.message, i, n - 1)
    <3>1. SubSeq(stream, (n + 1) + 1, n + 1) = <<>> /\ (n + 1) - 2 = n - 1 /\ n + 1 >= 2
      BY <2>1 DEF Text
    <3>2. w.message = r.message /\ w.state = r.state /\ w.rest = <<>>
      BY <1>8, <2>4
    <3>3. Behind(w, i, n + 1, n + 1)
      BY <1>0, <2>1, <2>2, <2>5, <3>1, <3>2 DEF Behind, c
    <3>4. i \in 3 .. n + 1 /\ n + 1 \in 1 .. n + 1
      OBVIOUS
    <3> QED
      BY <1>7, <2>5, <3>2, <3>3, <3>4
  <2> QED
    BY <1>5, <1>8, <2>3, <2>4, <2>5
<1>14. CASE q.state = BodyState
  <2>1. q.state \notin Final
    BY <1>4, <1>14 DEF LaterStates, Final
  <2>2. w = [q EXCEPT !.rest = Append(@, c)]
    BY <1>2, <1>14, <2>1
  <2>3. w.state = q.state /\ w.message = q.message /\ w.rest = Append(q.rest, c)
    BY <1>1, <2>2 DEF IsReading
  <2>4. PICK i \in 3 .. n, b \in 1 .. n : Behind(q, i, b, n)
    BY <1>1, <1>14 DEF Tells
  <2>5. SubSeq(stream, b + 1, n + 1) = Append(SubSeq(stream, b + 1, n), c)
    BY PieceGrows DEF c
  <2>6. Behind(w, i, b, n + 1)
    BY <1>14, <2>3, <2>4, <2>5 DEF Behind
  <2>7. i \in 3 .. n + 1 /\ b \in 1 .. n + 1
    OBVIOUS
  <2> QED
    BY <1>7, <1>14, <2>3, <2>6, <2>7
<1>15. CASE q.state \in Final
  <2>1. w = q
    BY <1>2, <1>15
  <2>2. CASE q.state = "ParsingDone"
    <3>1. PICK i \in 3 .. n, b \in 1 .. n : Behind(q, i, b, n)
      BY <1>1, <2>2 DEF Tells
    <3>2. BodyState # "ParsingDone"
      BY <1>4 DEF Final
    <3>3. Behind(w, i, b, n + 1)
      BY <2>1, <2>2, <3>1, <3>2 DEF Behind
    <3>4. i \in 3 .. n + 1 /\ b \in 1 .. n + 1
      OBVIOUS
    <3> QED
      BY <1>7, <2>1, <2>2, <3>3, <3>4
  <2>3. CASE q.state = "ProtocolError"
    BY <1>5, <2>1, <2>3
  <2> QED
    BY <1>15, <2>2, <2>3 DEF Final
<1> QED
  BY <1>3, <1>4, <1>9, <1>10, <1>11, <1>12, <1>13, <1>14, <1>15 DEF LaterStates, Final

\* What a parser has understood of the first bytes of a text
LEMMA Told ==
    ASSUME kind \in Kinds, stream \in Text, NEW n \in 0 .. Len(stream), Smooth(n)
    PROVE  Tells(Whole(n), n)
<1> DEFINE S == {l \in Nat : l <= Len(stream) /\ Smooth(l) => Tells(Whole(l), l)}
<1>0. Len(stream) \in Nat
  BY DEF Text
<1>1. 0 \in S
  <2>1. Zero.state = Start(kind) /\ Zero.message = NewMessage(kind)
    BY DEF Zero
  <2>2. /\ Start(kind) \in FirstStates
        /\ \A s \in LaterStates : s \notin FirstStates \cup {FirstEnd}
    BY StatesApart
  <2>3. SubSeq(stream, 1, 0) = <<>> /\ NoneOf("CR", 1, 0)
    BY DEF Text, NoneOf
  <2>4. InFirstLine(Start(kind), NewMessage(kind), 0)
    <3>1. CASE kind = "request"
      BY <2>2, <2>3, <3>1 DEF InFirstLine, NewMessage, Request!NewMessage, Request!NoHeaders, NoHeaders,
                              RequestLineBegins, Start, Request!Start
    <3>2. CASE kind = "response"
      BY <2>2, <2>3, <3>2 DEF InFirstLine, NewMessage, Response!NewMessage, Response!NoHeaders, NoHeaders,
                              StatusLineBegins, ReadOfProtocol, Start, Response!Start
    <3> QED
      BY <3>1, <3>2 DEF Kinds
  <2>5. Tells(Zero, 0)
    BY <2>1, <2>2, <2>4 DEF Tells, LaterStates
  <2> QED
    BY <2>5, WholeStep
<1>2. ASSUME NEW l \in Nat, l \in S PROVE l + 1 \in S
  <2> SUFFICES ASSUME l + 1 <= Len(stream), Smooth(l + 1) PROVE Tells(Whole(l + 1), l + 1)
    OBVIOUS
  <2>1. Smooth(l) /\ ~ Stuck(Whole(l).state, Whole(l).message, stream[l + 1])
    BY DEF Smooth
  <2>2. Tells(Whole(l), l)
    BY <1>0, <1>2, <2>1
  <2> QED
    BY <2>1, <2>2, TellsStep
<1>3. \A l \in Nat : l \in S
  <2> HIDE DEF S
  <2> QED
    BY <1>1, <1>2, SetInduction
<1> QED
  BY <1>0, <1>3

-----------------------------------------------------------------------------
(* The parser never waits for ever at a byte it has read.                  *)

\* A byte that ends the parser's work did not stop it.
LEMMA FinalIsSmooth ==
    ASSUME kind \in Kinds, stream \in Text, NEW n \in Nat, n + 1 <= Len(stream),
           Whole(n + 1).state \in Final
    PROVE  ~ Stuck(Whole(n).state, Whole(n).message, stream[n + 1])
<1> SUFFICES ASSUME Stuck(Whole(n).state, Whole(n).message, stream[n + 1]) PROVE FALSE
  OBVIOUS
<1> DEFINE q == Whole(n)
           p == IF n + 1 = 1 THEN "CTL" ELSE stream[(n + 1) - 1]
           r == Iteration(q.state, q.message, stream[n + 1], p)
<1>1. n \in 0 .. Len(stream)
  BY DEF Text
<1>2. IsMessage(kind, q.message)
  BY <1>1, WholeType DEF IsReading
<1>3. r.used = FALSE /\ Stuck(r.state, r.message, stream[n + 1])
  <2> DEFINE c == stream[n + 1]
  <2> HIDE DEF q, p, c
  <2> QED
    BY <1>2, StuckStays DEF q, c
<1>4. q.state \notin Final \cup {BodyState}
  BY DEF Stuck, Final, BodyState, Request!BodyState
<1>5. Whole(n + 1) = [state |-> r.state, message |-> r.message, rest |-> <<>>]
  BY <1>4, WholeStep DEF Step
<1> HIDE DEF r
<1> QED
  BY <1>3, <1>5 DEF Stuck, Final

\* Nothing stops it where it does not look at the bytes.
LEMMA SmoothOn ==
    ASSUME kind \in Kinds, stream \in Text, NEW a \in Nat, NEW b \in Nat, a <= b, b <= Len(stream),
           Smooth(a), kind = "response" \/ Whole(a).state \in Final \cup {BodyState}
    PROVE  Smooth(b)
<1> SUFFICES ASSUME NEW k \in 0 .. b - 1, a <= k
             PROVE  ~ Stuck(Whole(k).state, Whole(k).message, stream[k + 1])
  BY DEF Smooth
<1>0. k \in Nat /\ k <= Len(stream)
  BY DEF Text
<1>1. CASE kind = "response"
  BY <1>1 DEF Stuck
<1>2. CASE Whole(a).state \in Final
  <2>1. Whole(k) = Whole(a)
    BY <1>0, <1>2, FinalStays
  <2> QED
    BY <1>2, <2>1 DEF Stuck, Final
<1>3. CASE Whole(a).state = BodyState
  <2>1. Whole(k).state = BodyState
    BY <1>0, <1>3, BodyGoesOn
  <2> QED
    BY <2>1 DEF Stuck, BodyState, Request!BodyState
<1> QED
  BY <1>1, <1>2, <1>3

\* The same of the same text
LEMMA SmoothStays ==
    ASSUME kind' = kind, stream' = stream
    PROVE  \A n : Smooth(n)' = Smooth(n)
<1>1. \A n : Whole(n)' = Whole(n)
  BY WholeStays
<1> QED
  BY <1>1 DEF Smooth, Stuck

\* A parser that agrees with a reading is stuck where it is.
LEMMA AgreeStuck ==
    ASSUME kind = "request", NEW w, IsReading(w), NEW s, NEW m, IsMessage(kind, m),
           AgreeWith(w, s, m), NEW c
    PROVE  w.state = s /\ (Stuck(w.state, w.message, c) <=> Stuck(s, m, c))
<1>1. w.state = s /\ w.message = [m EXCEPT !.raw_body = <<>>]
  BY DEF AgreeWith
<1>2. w.message.temp_http_method = m.temp_http_method
  BY <1>1 DEF IsMessage, IsRequest
<1> QED
  BY <1>1, <1>2 DEF Stuck, Request!MethodStartsWith

\* A parser that is done stays so.
LEMMA SmoothToTheEnd ==
    ASSUME TypeInv, NEW n \in 0 .. fed, Smooth(n), current_state \in Final,
           AgreeWith(Whole(n), current_state, http_message)
    PROVE  \A l \in n .. Len(stream) : Smooth(l)
<1>0. /\ Len(stream) \in Nat /\ kind \in Kinds /\ stream \in Text /\ n \in 0 .. Len(stream) /\ n \in Nat
  BY DEF TypeInv, Text
<1>1. kind = "response" \/ Whole(n).state \in Final \cup {BodyState}
  BY <1>0 DEF AgreeWith, Kinds
<1> QED
  BY <1>0, <1>1, SmoothOn

\* A call, an iteration and the end of a call
LEMMA SmoothKeeps ==
    ASSUME IInv, IInv', SmoothInv, [Next]_vars
    PROVE  SmoothInv'
<1>0. /\ Len(stream) \in Nat /\ fed \in 0 .. Len(stream) /\ pos \in 0 .. fed /\ kind \in Kinds
      /\ stream \in Text /\ IsMessage(kind, http_message) /\ TypeInv
      /\ pos \in Nat /\ fed \in Nat /\ pos \in 0 .. Len(stream)
  BY DEF IInv, TypeInv, Text
<1>1. CASE \E n \in PieceSizes \cup {Len(stream) - fed}, keep \in BOOLEAN : Call(n, keep)
  <2>1. PICK n \in PieceSizes \cup {Len(stream) - fed} : \E keep \in BOOLEAN : Call(n, keep)
    BY <1>1
  <2>2. /\ kind' = kind /\ stream' = stream /\ fed' = fed + n /\ pos' = fed /\ pc = "caller"
        /\ blind' = blind /\ pc' = "loop" /\ current_state' = current_state
        /\ fed + n <= Len(stream) /\ n \in Nat
    BY <1>0, <2>1, StreamsAssumption DEF Call
  <2>3. \A l : Smooth(l)' = Smooth(l)
    BY <2>2, SmoothStays
  <2>4. ASSUME ~ blind PROVE Smooth(fed) /\ (current_state \in Final => Smooth(fed + n))
    <3>1. Smooth(fed) /\ AgreeWith(Whole(fed), current_state, http_message)
      BY <2>2, <2>4 DEF SmoothInv, IInv, CutInv
    <3>2. fed \in 0 .. fed /\ fed + n \in fed .. Len(stream)
      BY <1>0, <2>2
    <3> QED
      BY <1>0, <3>1, <3>2, SmoothToTheEnd
  <2> QED
    BY <2>2, <2>3, <2>4 DEF SmoothInv, Final
<1>2. CASE Finish
  <2>1. /\ kind' = kind /\ stream' = stream /\ fed' = fed /\ pc = "loop" /\ pc' = "caller"
        /\ blind' = blind /\ (pos = fed \/ current_state \in Final)
    BY <1>2 DEF Finish
  <2>2. \A l : Smooth(l)' = Smooth(l)
    BY <2>1, SmoothStays
  <2> QED
    BY <2>1, <2>2 DEF SmoothInv
<1>3. CASE Body
  <2>1. /\ kind' = kind /\ stream' = stream /\ fed' = fed /\ pc = "loop" /\ pc' = "caller"
        /\ blind' = blind /\ current_state = BodyState
    BY <1>3 DEF Body
  <2>2. \A l : Smooth(l)' = Smooth(l)
    BY <2>1, SmoothStays
  <2>3. ASSUME ~ blind PROVE Smooth(fed)
    <3>1. Smooth(pos)
      BY <2>1, <2>3 DEF SmoothInv
    <3>2. kind = "response" \/ Whole(pos).state = BodyState
      <4> SUFFICES ASSUME kind = "request" PROVE Whole(pos).state = BodyState
        BY <1>0 DEF Kinds
      <4>1. current_state # "ProtocolError" /\ current_state # "HeaderEndLF"
        BY <2>1 DEF BodyState, Request!BodyState
      <4>2. AgreeWith(Whole(pos), current_state, http_message)
        BY <2>1, <2>3, <4>1 DEF IInv, CutInv, Stuck
      <4> QED
        BY <2>1, <4>2 DEF AgreeWith
    <3> QED
      BY <1>0, <3>1, <3>2, SmoothOn
  <2> QED
    BY <2>1, <2>2, <2>3 DEF SmoothInv
<1>4. CASE Advance
  <2> DEFINE c    == stream[pos + 1]
             look == LooksBack(current_state, c)
  <2>1. PICK previous : LET r == Iteration(current_state, http_message, c, previous)
                        IN  /\ current_state' = r.state /\ http_message' = r.message
                            /\ pos' = IF r.used THEN pos + 1 ELSE pos
    BY <1>4 DEF Advance
  <2> DEFINE r == Iteration(current_state, http_message, c, previous)
  <2>2. /\ kind' = kind /\ stream' = stream /\ fed' = fed /\ pc = "loop" /\ pc' = pc /\ pos < fed
        /\ current_state \notin Final /\ (~ blind' => ~ blind)
    BY <1>4 DEF Advance
  <2>3. \A l : Smooth(l)' = Smooth(l)
    BY <2>2, SmoothStays
  <2>4. current_state' = r.state /\ pos' = IF r.used THEN pos + 1 ELSE pos
    BY <2>1
  <2>5. ASSUME ~ blind PROVE Smooth(pos')
    <3>1. Smooth(pos)
      BY <2>2, <2>5 DEF SmoothInv
    <3>2. CASE ~ r.used
      BY <2>4, <3>1, <3>2
    <3>3. CASE r.used
      <4>1. ~ Stuck(current_state, http_message, c)
        <5> SUFFICES ASSUME Stuck(current_state, http_message, c) PROVE FALSE
          OBVIOUS
        <5>1. r.used = FALSE
          BY <1>0, StuckStays
        <5> QED
          BY <3>3, <5>1
      <4>2. AgreeWith(Whole(pos), current_state, http_message)
        BY <2>2, <2>5, <4>1 DEF IInv, CutInv, Final
      <4>3. ~ Stuck(Whole(pos).state, Whole(pos).message, c)
        <5>1. CASE kind = "request"
          <6>1. IsReading(Whole(pos))
            BY <1>0, WholeType
          <6> HIDE DEF c
          <6> QED
            BY <1>0, <4>1, <4>2, <5>1, <6>1, AgreeStuck
        <5>2. CASE kind # "request"
          BY <5>2 DEF Stuck
        <5> QED
          BY <5>1, <5>2
      <4>4. Smooth(pos + 1)
        BY <1>0, <3>1, <4>3 DEF Smooth
      <4> QED
        BY <2>4, <3>3, <4>4
    <3> QED
      BY <3>2, <3>3
  <2>6. ASSUME ~ blind', current_state' \in Final PROVE Smooth(fed)
    <3>1. Smooth(pos') /\ pos' \in 0 .. fed
      BY <2>2, <2>5, <2>6 DEF IInv, TypeInv
    <3>2. \A n : Whole(n)' = Whole(n)
      BY <2>2, WholeStays
    <3>3. IsMessage(kind, http_message')
      BY <2>2 DEF IInv, TypeInv, IsMessage
    <3>4. CASE kind = "response"
      BY <1>0, <3>1, <3>4, SmoothOn
    <3>5. CASE kind = "request"
      <4>1. \/ AgreeWith(Whole(pos), current_state, http_message)'
            \/ pos' < fed /\ AgreeWith(Whole(pos + 1), current_state, http_message)'
        BY <2>2, <2>6 DEF IInv, CutInv, Stuck, Final
      <4>2. CASE AgreeWith(Whole(pos), current_state, http_message)'
        <5>1. Whole(pos').state \in Final
          BY <2>2, <2>6, <3>2, <3>5, <4>2 DEF AgreeWith, Final
        <5> QED
          BY <1>0, <3>1, <5>1, SmoothOn
      <4>3. CASE pos' < fed /\ AgreeWith(Whole(pos + 1), current_state, http_message)'
        <5>1. Whole(pos' + 1).state \in Final
          BY <2>2, <2>6, <3>2, <3>5, <4>3 DEF AgreeWith, Final
        <5>2. pos' < fed
          BY <4>3, Zenon
        <5> DEFINE k == pos'
        <5>3. Whole(k + 1).state \in Final /\ k \in 0 .. fed /\ k < fed /\ Smooth(k)
          BY <3>1, <5>1, <5>2
        <5> HIDE DEF k
        <5>4. k \in Nat /\ k + 1 \in Nat /\ k + 1 <= Len(stream) /\ k + 1 <= fed
          BY <1>0, <5>3
        <5>5. ~ Stuck(Whole(k).state, Whole(k).message, stream[k + 1])
          BY <1>0, <5>3, <5>4, FinalIsSmooth
        <5>6. Smooth(k + 1)
          BY <5>3, <5>4, <5>5 DEF Smooth
        <5> QED
          BY <1>0, <5>3, <5>4, <5>6, SmoothOn
      <4> QED
        BY <4>1, <4>2, <4>3
    <3> QED
      BY <1>0, <3>4, <3>5 DEF Kinds
  <2> HIDE DEF r
  <2> QED
    BY <2>2, <2>3, <2>5, <2>6 DEF SmoothInv, Final
<1>5. CASE Composition
  <2>1. pc' \in {"compose", "taken"} \/ (pc' = "caller" /\ fed' = 0)
    BY <1>5 DEF Composition, AddHeader, RemoveHeader, SetTarget, SetType, SetCode, SetBody, FlushBody,
                SetVersion, TakeHeaders, SendBuilt, SendTemplate, Send, Compose, IInv, ComposeInv
  <2>2. Smooth(0)'
    BY DEF Smooth
  <2> QED
    BY <2>1, <2>2 DEF SmoothInv
<1>6. CASE UNCHANGED vars
  <2>1. /\ kind' = kind /\ stream' = stream /\ fed' = fed /\ pos' = pos /\ pc' = pc
        /\ blind' = blind /\ current_state' = current_state
    BY <1>6 DEF vars
  <2>2. \A l : Smooth(l)' = Smooth(l)
    BY <2>1, SmoothStays
  <2> QED
    BY <2>1, <2>2 DEF SmoothInv, Final
<1> QED
  BY <1>1, <1>2, <1>3, <1>4, <1>5, <1>6 DEF Next, Loop

-----------------------------------------------------------------------------
(* From what was understood to what the text says.                         *)

\* Where the head ends
LEMMA HeadEnds ==
    ASSUME kind \in Kinds, stream \in Text, NEW w, NEW n \in 0 .. Len(stream),
           NEW i \in 3 .. n, NEW b \in 1 .. n, Behind(w, i, b, n)
    PROVE  EndStart = i /\ HeaderStarts = Begun(i) /\ BodyStart = b + 1
<1>0. /\ Len(stream) \in Nat /\ i \in Nat \ {0} /\ b - 1 \in i .. Len(stream) /\ (b - 1) - 1 = b - 2
      /\ b \in Int
  BY DEF Behind, Section, Text
<1>1. /\ stream[b - 1] = "CR" /\ NoneOf("CR", i, b - 2) /\ NoneOf(":", i, b - 2)
      /\ stream[i - 2] = "CR" /\ stream[i - 1] = "LF" /\ \A j \in Begun(i) : ":" \in ToSet(Line(j))
  BY DEF Behind, Section
<1>2. Line(i) = SubSeq(stream, i, b - 2) /\ Len(Line(i)) = (b - 1) - i
  BY <1>0, <1>1, LineIs
<1>3. ":" \notin ToSet(Line(i))
  <2> DEFINE t == SubSeq(stream, i, b - 2)
  <2>1. DOMAIN t = 1 .. (b - 1) - i /\ \A k \in 1 .. (b - 1) - i : t[k] = stream[i + k - 1]
    BY <1>0 DEF Text
  <2>2. \A k \in 1 .. (b - 1) - i : i + k - 1 \in i .. b - 2
    BY <1>0
  <2>3. \A k \in DOMAIN t : t[k] # ":"
    BY <1>1, <2>1, <2>2 DEF NoneOf
  <2> HIDE DEF t
  <2>4. ":" \notin ToSet(t)
    BY <2>3 DEF ToSet
  <2> QED
    BY <1>2, <2>4 DEF t
<1>4. b - 1 \in At("CR") /\ b - 1 >= i
  BY <1>0, <1>1 DEF At
<1>5. i \in LineStarts \ {1}
  BY <1>0, <1>1, <1>4 DEF LineStarts, At
<1>6. \A j \in LineStarts \ {1} : j \in Nat /\ (j < i => j \in Begun(i))
  BY <1>0 DEF LineStarts, At, Begun
<1>7. \A j \in Begun(i) : j \in LineStarts \ {1} /\ j < i
  BY <1>0, <1>4 DEF LineStarts, At, Begun
<1> DEFINE S == {j \in LineStarts \ {1} : ":" \notin ToSet(Line(j))}
<1>8. S \in SUBSET Int /\ i \in S /\ \A j \in S : i <= j
  <2>1. i \in S
    BY <1>3, <1>5
  <2>2. \A j \in S : j \in Nat /\ ~ (j < i)
    BY <1>1, <1>6
  <2> HIDE DEF S
  <2> QED
    BY <1>0, <2>1, <2>2
<1> HIDE DEF S
<1>9. EndStart = i
  BY <1>8, LeastIs DEF EndStart, S
<1>10. HeaderStarts = Begun(i)
  BY <1>6, <1>7, <1>9 DEF HeaderStarts
<1>11. BodyStart = b + 1
  BY <1>0, <1>2, <1>9 DEF BodyStart
<1> QED
  BY <1>9, <1>10, <1>11

\* A part of a text, and more of it
LEMMA PartIsPrefix ==
    ASSUME NEW s \in Text, NEW a \in Nat \ {0}, NEW n \in Nat, NEW l \in Nat, n <= l, l <= Len(s),
           NEW t \in Text, IsPrefix(t, SubSeq(s, a, n))
    PROVE  IsPrefix(t, SubSeq(s, a, l))
<1> DEFINE u == SubSeq(s, a, n)
           v == SubSeq(s, a, l)
<1>1. u \in Text /\ v \in Text /\ Len(u) <= Len(v) /\ \A k \in 1 .. Len(u) : v[k] = u[k]
  BY DEF Text
<1> HIDE DEF u, v
<1>2. Len(t) \in Nat /\ Len(t) <= Len(u) /\ Len(u) \in Nat /\ Len(v) \in Nat
      /\ SubSeq(t, 1, Len(t)) = SubSeq(u, 1, Len(t))
  BY <1>1 DEF IsPrefix, Text, u
<1>3. SubSeq(u, 1, Len(t)) = SubSeq(v, 1, Len(t))
  BY <1>1, <1>2 DEF Text
<1>4. IsPrefix(t, v)
  BY <1>1, <1>2, <1>3 DEF IsPrefix
<1> QED
  BY <1>4 DEF v

\* Where a parser is, and what it read
LEMMA AgreesSomewhere ==
    ASSUME IInv, SmoothInv, ~ blind, pc \in {"caller", "loop"},
           current_state \notin {"ProtocolError", "HeaderEndLF"}
    PROVE  \E n \in 0 .. fed : /\ AgreeWith(Whole(n), current_state, http_message) /\ Smooth(n)
                               /\ pc = "caller" => n = fed
<1>0. fed \in 0 .. fed /\ pos \in 0 .. fed
  BY DEF IInv, TypeInv
<1>1. CASE pc = "caller"
  BY <1>0, <1>1 DEF IInv, CutInv, SmoothInv
<1>2. CASE pc = "loop"
  <2>1. AgreeWith(Whole(pos), current_state, http_message)
    BY <1>2 DEF IInv, CutInv, Stuck
  <2>2. Smooth(pos)
    BY <1>2 DEF SmoothInv
  <2> QED
    BY <1>0, <1>2, <2>1, <2>2
<1> QED
  BY <1>1, <1>2

\* The message says what the text says.
LEMMA MessageIsText == IInv /\ SmoothInv => MessageMatchesText
<1> SUFFICES ASSUME IInv, SmoothInv, ~ blind,
                    current_state \in {"ParsingDone", "MessageBody", "ResponseMessageBody"}
             PROVE  /\ IF kind = "request" THEN RequestLineSays(Line(1), http_message)
                       ELSE StatusLineSays(Line(1), http_message)
                    /\ http_message.headers = Headers
                    /\ IsPrefix(http_message.raw_body, SubSeq(stream, BodyStart, fed))
                    /\ pc = "caller" /\ current_state = "MessageBody" =>
                          http_message.raw_body = SubSeq(stream, BodyStart, fed)
  BY DEF MessageMatchesText
<1>0. /\ Len(stream) \in Nat /\ fed \in 0 .. Len(stream) /\ kind \in Kinds /\ stream \in Text
      /\ IsMessage(kind, http_message) /\ current_state \in States(kind)
      /\ http_message.raw_body \in Text /\ fed \in Nat
  BY DEF IInv, TypeInv, Text, IsMessage, IsRequest, IsResponse
<1>1. pc \in {"caller", "loop"}
  BY <1>0 DEF IInv, TypeInv, ComposeInv, Start, Request!Start, Response!Start
<1>2. PICK n \in 0 .. fed : /\ AgreeWith(Whole(n), current_state, http_message) /\ Smooth(n)
                            /\ pc = "caller" => n = fed
  BY <1>1, AgreesSomewhere
<1> DEFINE w == Whole(n)
<1>3. n \in 0 .. Len(stream) /\ n \in Nat /\ n <= fed
  BY <1>0
<1>4. IsReading(w) /\ Tells(w, n) /\ AgreeWith(w, current_state, http_message)
  BY <1>0, <1>2, <1>3, WholeType, Told
<1> HIDE DEF w
<1>5. current_state \in {BodyState, "ParsingDone"}
  BY <1>0 DEF States, BodyState, Kinds, Request!BodyState, Response!BodyState, Request!ParserState,
              Request!LiteralState, Response!ResponseParserState, Response!LiteralState
<1>6. w.state \in {BodyState, "ParsingDone"}
  <2>1. CASE kind = "request" \/ w.rest = <<>>
    BY <1>4, <1>5, <2>1 DEF AgreeWith
  <2>2. CASE w.rest # <<>>
    BY <1>4, <2>2 DEF IsReading
  <2> QED
    BY <2>1, <2>2
<1>7. PICK i \in 3 .. n, b \in 1 .. n : Behind(w, i, b, n)
  BY <1>4, <1>6 DEF Tells
<1>8. EndStart = i /\ HeaderStarts = Begun(i) /\ BodyStart = b + 1
  BY <1>0, <1>3, <1>7, HeadEnds
<1>9. SameHead(w.message, http_message)
  <2>1. w.message = [http_message EXCEPT !.raw_body = <<>>]
    BY <1>4 DEF AgreeWith
  <2>2. CASE kind = "request"
    BY <1>0, <2>1, <2>2 DEF SameHead, IsMessage, IsRequest
  <2>3. CASE kind = "response"
    BY <1>0, <2>1, <2>3 DEF SameHead, IsMessage, IsResponse
  <2> QED
    BY <1>0, <2>2, <2>3 DEF Kinds
<1>10. Section(w.message, i, b - 2)
  BY <1>7 DEF Behind
<1>11. FirstLineSays(http_message)
  BY <1>0, <1>9, <1>10, SameSection DEF Section
<1>12. http_message.headers = Headers
  <2>1. Headers = HeadersUpTo(i)
    BY <1>8 DEF Headers, HeadersUpTo
  <2> QED
    BY <1>9, <1>10, <2>1 DEF Section, SameHead
<1>13. w.rest = IF w.state = BodyState THEN SubSeq(stream, b + 1, n) ELSE <<>>
  BY <1>7 DEF Behind
<1>14. \A t \in Text : IsPrefix(t, t) /\ IsPrefix(<<>>, t) /\ <<>> \in Text
  BY DEF IsPrefix, Text
<1>15. IsPrefix(http_message.raw_body, SubSeq(stream, b + 1, n))
  <2>1. SubSeq(stream, b + 1, n) \in Text
    BY <1>0, <1>3 DEF Text
  <2>2. CASE kind = "request" \/ w.rest = <<>>
    BY <1>4, <1>13, <1>14, <2>1, <2>2 DEF AgreeWith
  <2>3. CASE kind = "response" /\ w.rest # <<>>
    BY <1>4, <1>13, <2>3 DEF AgreeWith
  <2> QED
    BY <1>0, <2>2, <2>3 DEF Kinds
<1>16. IsPrefix(http_message.raw_body, SubSeq(stream, BodyStart, fed))
  <2>1. b + 1 \in Nat \ {0}
    BY <1>3
  <2> QED
    BY <1>0, <1>3, <1>8, <1>15, <2>1, PartIsPrefix
<1>17. ASSUME pc = "caller", current_state = "MessageBody"
       PROVE  http_message.raw_body = SubSeq(stream, BodyStart, fed)
  <2>1. kind = "request"
    BY <1>0, <1>17 DEF States, Kinds, Response!ResponseParserState, Response!LiteralState
  <2>2. w.state = BodyState /\ http_message.raw_body = w.rest
    BY <1>4, <1>17, <2>1 DEF AgreeWith, BodyState, Request!BodyState
  <2> QED
    BY <1>2, <1>8, <1>13, <1>17, <2>2
<1> QED
  BY <1>0, <1>11, <1>12, <1>16, <1>17 DEF FirstLineSays, Kinds

-----------------------------------------------------------------------------
(* Reading the headers of a message that was composed.                     *)

\* The text t stands behind the byte n.
Stands(t, n) == n + Len(t) <= Len(stream) /\ \A k \in 1 .. Len(t) : stream[n + k] = t[k]

\* Behind the byte n the parser is in state s, with message m.
IsAt(n, s, m) == Whole(n).state = s /\ Whole(n).message = m /\ Whole(n).rest = <<>>

Before(n) == IF n = 0 THEN "CTL" ELSE stream[n]

\* The parts of a text stand one behind the other.
LEMMA StandsSplit ==
    ASSUME stream \in Text, NEW a \in Text, NEW b \in Text, NEW n \in Nat, Stands(a \o b, n)
    PROVE  Stands(a, n) /\ Stands(b, n + Len(a)) /\ Len(a \o b) = Len(a) + Len(b) /\ Len(a) \in Nat
<1>1. /\ Len(a) \in Nat /\ Len(b) \in Nat /\ Len(a \o b) = Len(a) + Len(b) /\ Len(stream) \in Nat
      /\ \A k \in 1 .. Len(a) : (a \o b)[k] = a[k]
      /\ \A k \in 1 .. Len(b) : (a \o b)[Len(a) + k] = b[k]
  BY DEF Text
<1>2. n + (Len(a) + Len(b)) <= Len(stream)
      /\ \A k \in 1 .. Len(a) + Len(b) : stream[n + k] = (a \o b)[k]
  BY <1>1 DEF Stands
<1>3. Stands(a, n)
  BY <1>1, <1>2 DEF Stands
<1>4. Stands(b, n + Len(a))
  <2>1. ASSUME NEW k \in 1 .. Len(b) PROVE stream[(n + Len(a)) + k] = b[k]
    <3>1. Len(a) + k \in 1 .. Len(a) + Len(b) /\ n + (Len(a) + k) = (n + Len(a)) + k
      BY <1>1
    <3> QED
      BY <1>1, <1>2, <3>1
  <2> QED
    BY <1>1, <1>2, <2>1 DEF Stands
<1> QED
  BY <1>1, <1>3, <1>4

\* One byte
LEMMA Moves ==
    ASSUME NEW n \in Nat, NEW s, NEW m, IsAt(n, s, m), s \notin Final \cup {BodyState},
           NEW t, NEW o, Does(Iteration(s, m, stream[n + 1], Before(n)), t, o)
    PROVE  IsAt(n + 1, t, o)
<1> DEFINE p == IF n + 1 = 1 THEN "CTL" ELSE stream[(n + 1) - 1]
<1>1. p = Before(n)
  BY DEF Before
<1> HIDE DEF p
<1>2. Whole(n + 1) = Step(Whole(n), n + 1)
  BY WholeStep
<1>3. Step(Whole(n), n + 1) = [state |-> Iteration(s, m, stream[n + 1], p).state,
                               message |-> Iteration(s, m, stream[n + 1], p).message, rest |-> <<>>]
  BY DEF Step, IsAt, p
<1> QED
  BY <1>1, <1>2, <1>3 DEF IsAt, Does

\* A name
LEMMA ReadName ==
    ASSUME kind \in Kinds, stream \in Text, NEW n \in Nat, NEW m, IsMessage(kind, m),
           m.temp_header_name = <<>>, IsAt(n, "HeaderName", m),
           NEW t \in Text, Stands(t, n), \A i \in 1 .. Len(t) : is_token(t[i])
    PROVE  IsAt(n + Len(t), "HeaderName", [m EXCEPT !.temp_header_name = t])
<1> DEFINE M(k) == [m EXCEPT !.temp_header_name = SubSeq(t, 1, k)]
           S == {k \in Nat : k <= Len(t) => IsAt(n + k, "HeaderName", M(k))}
<1>0. Len(t) \in Nat
  BY DEF Text
<1>1. 0 \in S
  <2>1. SubSeq(t, 1, 0) = <<>> /\ n + 0 = n
    BY DEF Text
  <2>2. [m EXCEPT !.temp_header_name = <<>>] = m
    BY DEF IsMessage, IsRequest, IsResponse
  <2> QED
    BY <2>1, <2>2
<1>2. ASSUME NEW k \in Nat, k \in S PROVE k + 1 \in S
  <2> SUFFICES ASSUME k + 1 <= Len(t) PROVE IsAt(n + (k + 1), "HeaderName", M(k + 1))
    OBVIOUS
  <2>1. IsAt(n + k, "HeaderName", M(k))
    BY <1>0, <1>2
  <2>2. k + 1 \in 1 .. Len(t) /\ n + (k + 1) = (n + k) + 1 /\ n + k \in Nat
    BY <1>0
  <2>3. stream[(n + k) + 1] = t[k + 1] /\ is_token(t[k + 1]) /\ t[k + 1] \in Symbol
    <3>1. stream[n + (k + 1)] = t[k + 1]
      BY <2>2 DEF Stands
    <3> QED
      BY <2>2, <3>1 DEF Text
  <2> DEFINE c == t[k + 1]
             o == M(k)
             u == [o EXCEPT !.temp_header_name = Append(@, c)]
  <2>4. u = M(k + 1)
    <3>1. SubSeq(t, 1, k + 1) = Append(SubSeq(t, 1, k), c)
      BY <2>2 DEF Text
    <3>2. o.temp_header_name = SubSeq(t, 1, k)
      BY DEF IsMessage, IsRequest, IsResponse
    <3> QED
      BY <3>1, <3>2
  <2>5. "HeaderName" \notin Final \cup {BodyState}
    BY DEF Final, BodyState, Request!BodyState, Response!BodyState
  <2> HIDE DEF o, c
  <2>6. Does(Iteration("HeaderName", o, c, Before(n + k)), "HeaderName", u)
    BY <2>3, NameIteration DEF c
  <2> HIDE DEF u, M
  <2>7. IsAt((n + k) + 1, "HeaderName", u)
    BY <2>1, <2>2, <2>3, <2>5, <2>6, Moves DEF o, c
  <2> QED
    BY <2>2, <2>4, <2>7
<1>3. \A k \in Nat : k \in S
  <2> HIDE DEF S
  <2> QED
    BY <1>1, <1>2, SetInduction
<1>4. SubSeq(t, 1, Len(t)) = t
  BY DEF Text
<1> QED
  BY <1>0, <1>3, <1>4

\* A space that makes the parser of requests refuse a value
Breaks(v, i) == kind = "request" /\ v[i] = "SP" /\ ~ Dropped(v, i)

\* A value behind the space that follows the colon: what is kept of it, or an error
LEMMA ReadValue ==
    ASSUME kind \in Kinds, stream \in Text, NEW n \in Nat, n >= 1, stream[n] = "SP",
           NEW m, IsMessage(kind, m), m.temp_header_value = <<>>, IsAt(n, "HeaderValue", m),
           NEW v \in Text, Stands(v, n), \A i \in 1 .. Len(v) : is_text(v[i])
    PROVE  IF \E i \in 1 .. Len(v) : Breaks(v, i) THEN Whole(n + Len(v)).state = "ProtocolError"
           ELSE IsAt(n + Len(v), "HeaderValue", [m EXCEPT !.temp_header_value = AsParsed(v)])
<1> DEFINE A(k) == {i \in 1 .. k : ~ Dropped(v, i)}
           M(k) == [m EXCEPT !.temp_header_value = SymbolsAt(v, A(k))]
           P(k) == IF \E i \in 1 .. k : Breaks(v, i) THEN Whole(n + k).state = "ProtocolError"
                   ELSE IsAt(n + k, "HeaderValue", M(k))
           S == {k \in Nat : k <= Len(v) => P(k)}
<1>0. Len(v) \in Nat
  BY DEF Text
<1>1. 0 \in S
  <2>1. A(0) = {} /\ n + 0 = n /\ ~ \E i \in 1 .. 0 : Breaks(v, i)
    OBVIOUS
  <2>2. [m EXCEPT !.temp_header_value = <<>>] = m
    BY DEF IsMessage, IsRequest, IsResponse
  <2>3. M(0) = m
    BY <2>1, <2>2, SymbolsAtText
  <2> HIDE DEF M, A
  <2>4. P(0)
    BY <2>1, <2>3
  <2> HIDE DEF P
  <2> QED
    BY <2>4
<1>2. ASSUME NEW k \in Nat, k \in S PROVE k + 1 \in S
  <2> SUFFICES ASSUME k + 1 <= Len(v) PROVE P(k + 1)
    <3> HIDE DEF P
    <3> QED
      OBVIOUS
  <2>1. P(k)
    <3> HIDE DEF P
    <3> QED
      BY <1>0, <1>2
  <2>2. k + 1 \in 1 .. Len(v) /\ n + (k + 1) = (n + k) + 1 /\ n + k \in Nat /\ n + k # 0
    BY <1>0
  <2> DEFINE c == v[k + 1]
             o == M(k)
             p == Before(n + k)
             u == [o EXCEPT !.temp_header_value = Append(@, c)]
  <2>3. stream[(n + k) + 1] = c /\ is_text(c) /\ c \in Symbol
    <3>1. stream[n + (k + 1)] = v[k + 1]
      BY <2>2 DEF Stands
    <3> QED
      BY <2>2, <3>1 DEF Text
  <2>4. p = IF k = 0 THEN "SP" ELSE v[k]
    <3>1. CASE k = 0
      BY <2>2, <3>1 DEF Before
    <3>2. CASE k # 0
      <4>1. k \in 1 .. Len(v)
        BY <2>2, <3>2
      <4> QED
        BY <2>2, <3>2, <4>1 DEF Before, Stands
    <3> QED
      BY <3>1, <3>2
  <2>5. /\ Dropped(v, k + 1) <=> Drops(c, p)
        /\ ~ Dropped(v, k + 1) /\ ~ Breaks(v, k + 1) <=> Keeps(c, p)
        /\ Breaks(v, k + 1) <=> ~ Keeps(c, p) /\ ~ Drops(c, p)
    <3>1. (k + 1) - 1 = k /\ (k + 1 > 1 <=> k # 0)
      OBVIOUS
    <3> HIDE DEF p
    <3>2. CASE kind = "request"
      BY <2>4, <3>1, <3>2 DEF Dropped, Breaks, Drops, Keeps
    <3>3. CASE kind = "response"
      BY <2>4, <3>1, <3>3 DEF Dropped, Breaks, Drops, Keeps
    <3> QED
      BY <3>2, <3>3 DEF Kinds
  <2>6. A(k + 1) = IF Dropped(v, k + 1) THEN A(k) ELSE A(k) \cup {k + 1}
    OBVIOUS
  <2>7. "HeaderValue" \notin Final \cup {BodyState} /\ c # "CR"
    BY <2>3 DEF Final, BodyState, Request!BodyState, Response!BodyState, is_text, is_control
  <2>8. CASE \E i \in 1 .. k : Breaks(v, i)
    <3>1. Whole(n + k).state = "ProtocolError"
      BY <2>1, <2>8
    <3>2. Whole((n + k) + 1) = Whole(n + k)
      <4>1. n + k <= (n + k) + 1 /\ (n + k) + 1 \in Nat /\ n + k \in Nat
        OBVIOUS
      <4> QED
        BY <3>1, <4>1, FinalStays DEF Final
    <3>3. \E i \in 1 .. k + 1 : Breaks(v, i)
      BY <2>8
    <3> QED
      BY <2>2, <3>1, <3>2, <3>3
  <2>9. CASE ~ (\E i \in 1 .. k : Breaks(v, i)) /\ Breaks(v, k + 1)
    <3>1. IsAt(n + k, "HeaderValue", o)
      BY <2>1, <2>9
    <3> HIDE DEF o, c, p
    <3>2. Does(Iteration("HeaderValue", o, c, p), "ProtocolError", o)
      BY <2>3, <2>5, <2>7, <2>9, ValueIteration
    <3>3. IsAt((n + k) + 1, "ProtocolError", o)
      BY <2>2, <2>3, <2>7, <3>1, <3>2, Moves DEF p
    <3>4. \E i \in 1 .. k + 1 : Breaks(v, i)
      BY <2>9
    <3> QED
      BY <2>2, <3>3, <3>4 DEF IsAt
  <2>10. CASE ~ \E i \in 1 .. k + 1 : Breaks(v, i)
    <3>1. ~ Breaks(v, k + 1) /\ ~ \E i \in 1 .. k : Breaks(v, i)
      BY <2>10
    <3>2. IsAt(n + k, "HeaderValue", o)
      BY <2>1, <3>1
    <3>3. IsAt((n + k) + 1, "HeaderValue", M(k + 1))
      <4>1. CASE Dropped(v, k + 1)
        <5>1. M(k + 1) = o
          BY <2>6, <4>1
        <5> HIDE DEF o, c, p, M
        <5>2. Does(Iteration("HeaderValue", o, c, p), "HeaderValue", o)
          BY <2>3, <2>5, <4>1, ValueIteration
        <5> QED
          BY <2>2, <2>3, <2>7, <3>2, <5>1, <5>2, Moves DEF p
      <4>2. CASE ~ Dropped(v, k + 1)
        <5>1. M(k + 1) = u
          <6>1. A(k + 1) = A(k) \cup {k + 1} /\ \A i \in A(k) : i < k + 1
            BY <2>6, <4>2
          <6> HIDE DEF A
          <6>2. SymbolsAt(v, A(k + 1)) = Append(SymbolsAt(v, A(k)), c)
            BY <2>2, <6>1, SymbolsAtGrow
          <6>3. o.temp_header_value = SymbolsAt(v, A(k))
            BY DEF IsMessage, IsRequest, IsResponse
          <6> HIDE DEF c
          <6> QED
            BY <6>2, <6>3
        <5> HIDE DEF o, c, p, M
        <5>2. Does(Iteration("HeaderValue", o, c, p), "HeaderValue", u)
          BY <2>3, <2>5, <3>1, <4>2, ValueIteration
        <5> HIDE DEF u
        <5> QED
          BY <2>2, <2>3, <2>7, <3>2, <5>1, <5>2, Moves DEF p
      <4> QED
        BY <4>1, <4>2
    <3> HIDE DEF M
    <3> QED
      BY <2>2, <2>10, <3>3
  <2> HIDE DEF P
  <2>11. k + 1 \in 1 .. k + 1 /\ \A i \in 1 .. k + 1 : i \in 1 .. k \/ i = k + 1
    OBVIOUS
  <2> QED
    BY <2>8, <2>9, <2>10, <2>11
<1>3. \A k \in Nat : k \in S
  <2> HIDE DEF S
  <2> QED
    BY <1>1, <1>2, SetInduction
<1>4. P(Len(v))
  <2> HIDE DEF P
  <2> QED
    BY <1>0, <1>3
<1> QED
  BY <1>4 DEF AsParsed

\* A header line
LEMMA ReadHeader ==
    ASSUME kind \in Kinds, stream \in Text, NEW n \in Nat, NEW m, IsMessage(kind, m),
           m.temp_header_name = <<>>, m.temp_header_value = <<>>, IsAt(n, "HeaderName", m),
           NEW name \in Text, \A i \in 1 .. Len(name) : is_token(name[i]),
           NEW v \in Text, \A i \in 1 .. Len(v) : is_text(v[i]), Stands(HeaderText(name, v), n)
    PROVE  LET l == n + Len(HeaderText(name, v))
           IN  IF \E i \in 1 .. Len(v) : Breaks(v, i) THEN Whole(l).state = "ProtocolError"
               ELSE IsAt(l, "HeaderName", [m EXCEPT !.headers = addHeader(@, name, AsParsed(v))])
<1> DEFINE cs == <<":", "SP">>
           a == n + Len(name)
           b == a + 2
           d == b + Len(v)
           o == [m EXCEPT !.temp_header_name = name]
           u == [o EXCEPT !.temp_header_value = AsParsed(v)]
           w == [m EXCEPT !.headers = addHeader(@, name, AsParsed(v))]
           Bad == \E i \in 1 .. Len(v) : Breaks(v, i)
<1>0. /\ cs \in Text /\ Crlf \in Text /\ Len(cs) = 2 /\ Len(Crlf) = 2 /\ cs[1] = ":" /\ cs[2] = "SP"
      /\ Crlf[1] = "CR" /\ Crlf[2] = "LF" /\ AsParsed(v) \in Text
      /\ ":" \in Symbol /\ "SP" \in Symbol /\ "CR" \in Symbol /\ "LF" \in Symbol
  <2>1. AsParsed(v) \in Text
    BY SymbolsAtText DEF AsParsed
  <2>2. ":" \in Symbol /\ "SP" \in Symbol /\ "CR" \in Symbol /\ "LF" \in Symbol
    BY DEF Symbol, Other
  <2> QED
    BY <2>1, <2>2 DEF Crlf, Text
<1> HIDE DEF cs
<1>1. name \o cs \in Text /\ name \o cs \o v \in Text
  BY <1>0, Together
<1>2. /\ Stands(name \o cs \o v, n) /\ Stands(Crlf, n + Len(name \o cs \o v))
      /\ Len(HeaderText(name, v)) = Len(name \o cs \o v) + 2
  BY <1>0, <1>1, StandsSplit DEF HeaderText, cs
<1>3. /\ Stands(name \o cs, n) /\ Stands(v, n + Len(name \o cs))
      /\ Len(name \o cs \o v) = Len(name \o cs) + Len(v) /\ Len(v) \in Nat
  <2>1. Len(v) \in Nat
    BY DEF Text
  <2> QED
    BY <1>1, <1>2, <2>1, StandsSplit
<1>4. Stands(name, n) /\ Stands(cs, n + Len(name)) /\ Len(name \o cs) = Len(name) + 2 /\ Len(name) \in Nat
  BY <1>0, <1>3, StandsSplit
<1>5. /\ a \in Nat /\ a + 1 \in Nat /\ b \in Nat /\ d \in Nat /\ d + 1 \in Nat /\ (a + 1) + 1 = b
      /\ n + Len(name \o cs) = b /\ n + Len(name \o cs \o v) = d
      /\ n + Len(HeaderText(name, v)) = (d + 1) + 1
  <2> DEFINE k1 == Len(name \o cs)
             k2 == Len(name \o cs \o v)
             k3 == Len(HeaderText(name, v))
             k0 == Len(name)
             k4 == Len(v)
  <2>1. k0 \in Nat /\ k4 \in Nat /\ k1 = k0 + 2 /\ k2 = k1 + k4 /\ k3 = k2 + 2
    BY <1>2, <1>3, <1>4
  <2> HIDE DEF k0, k1, k2, k3, k4
  <2>2. /\ n + k0 \in Nat /\ (n + k0) + 1 \in Nat /\ (n + k0) + 2 \in Nat
        /\ ((n + k0) + 2) + k4 \in Nat /\ (((n + k0) + 2) + k4) + 1 \in Nat
        /\ ((n + k0) + 1) + 1 = (n + k0) + 2 /\ n + k1 = (n + k0) + 2
        /\ n + k2 = ((n + k0) + 2) + k4 /\ n + k3 = ((((n + k0) + 2) + k4) + 1) + 1
    BY <2>1
  <2> QED
    BY <2>2 DEF k0, k1, k2, k3, k4
<1>6. /\ stream[a + 1] = ":" /\ stream[(a + 1) + 1] = "SP" /\ stream[d + 1] = "CR"
      /\ stream[(d + 1) + 1] = "LF" /\ stream[b] = "SP"
  <2>1. stream[a + 1] = ":" /\ stream[a + 2] = "SP"
    BY <1>0, <1>4 DEF Stands
  <2>2. Stands(Crlf, d)
    BY <1>2, <1>5
  <2>3. stream[d + 1] = "CR" /\ stream[d + 2] = "LF"
    <3> HIDE DEF d
    <3> QED
      BY <1>0, <2>2 DEF Stands
  <2>4. a + 2 = (a + 1) + 1 /\ d + 2 = (d + 1) + 1
    <3> HIDE DEF a, b, d
    <3> QED
      BY <1>5
  <2> QED
    BY <2>1, <2>3, <2>4
<1>7. {"HeaderName", "HeaderValue", "HeaderValueLF"} \cap (Final \cup {BodyState}) = {}
  BY DEF Final, BodyState, Request!BodyState, Response!BodyState
<1>8. IsAt(a, "HeaderName", o)
  BY <1>4, ReadName
<1>9. IsMessage(kind, o) /\ o.temp_header_value = <<>> /\ o.temp_header_name = name
      /\ u.temp_header_name = name /\ u.temp_header_value = AsParsed(v)
      /\ w = [u EXCEPT !.headers = addHeader(@, u.temp_header_name, u.temp_header_value),
                       !.temp_header_name = <<>>, !.temp_header_value = <<>>]
  <2>1. CASE kind = "request"
    BY <1>0, <2>1 DEF IsMessage, IsRequest
  <2>2. CASE kind = "response"
    BY <1>0, <2>2 DEF IsMessage, IsResponse
  <2> QED
    BY <2>1, <2>2 DEF Kinds
<1> HIDE DEF a, b, d, o, u, w
<1>10. IsAt(a + 1, "HeaderValue", o)
  <2>1. Does(Iteration("HeaderName", o, ":", Before(a)), "HeaderValue", o)
    BY <1>0, NameIteration
  <2> QED
    BY <1>5, <1>6, <1>7, <1>8, <2>1, Moves
<1>11. IsAt(b, "HeaderValue", o)
  <2>1. Before(a + 1) = ":"
    BY <1>5, <1>6 DEF Before
  <2>2. is_text("SP") /\ Drops("SP", ":")
    BY DEF is_text, Drops
  <2>3. Does(Iteration("HeaderValue", o, "SP", ":"), "HeaderValue", o)
    BY <1>0, <2>2, ValueIteration
  <2> QED
    BY <1>5, <1>6, <1>7, <1>10, <2>1, <2>3, Moves
<1>12. IF Bad THEN Whole(d).state = "ProtocolError" ELSE IsAt(d, "HeaderValue", u)
  <2>1. b >= 1 /\ Stands(v, b)
    BY <1>3, <1>5
  <2> QED
    BY <1>5, <1>6, <1>9, <1>11, <2>1, ReadValue DEF d, u
<1>13. CASE Bad
  <2>1. Whole(d).state \in Final
    BY <1>12, <1>13 DEF Final
  <2>2. Whole((d + 1) + 1) = Whole(d)
    BY <1>5, <2>1, FinalStays
  <2> QED
    BY <1>5, <1>12, <1>13, <2>2
<1>14. CASE ~ Bad
  <2>1. IsAt(d, "HeaderValue", u)
    BY <1>12, <1>14
  <2>2. IsAt(d + 1, "HeaderValueLF", u)
    <3>1. Does(Iteration("HeaderValue", u, "CR", Before(d)), "HeaderValueLF", u)
      BY <1>0, ValueIteration
    <3> QED
      BY <1>5, <1>6, <1>7, <2>1, <3>1, Moves
  <2>3. IsAt((d + 1) + 1, "HeaderName", w)
    <3>1. Does(Iteration("HeaderValueLF", u, "LF", Before(d + 1)), "HeaderName", w)
      BY <1>0, <1>9, ValueEndIteration
    <3> QED
      BY <1>5, <1>6, <1>7, <2>2, <3>1, Moves
  <2> QED
    BY <1>5, <1>14, <2>3 DEF w
<1> QED
  BY <1>13, <1>14

\* The lines of the headers, in any order
LEMMA ReadHeaders ==
    ASSUME kind \in Kinds, stream \in Text, NEW n \in Nat, NEW m, IsMessage(kind, m),
           m.headers = NoHeaders, m.temp_header_name = <<>>, m.temp_header_value = <<>>,
           IsAt(n, "HeaderName", m), NEW h, IsHeaders(h),
           \A x \in DOMAIN h : /\ \A i \in 1 .. Len(x) : is_token(x[i])
                               /\ \A i \in 1 .. Len(h[x]) : is_text(h[x][i]),
           NEW order \in SetToSeqs(DOMAIN h),
           NEW lines, lines = [i \in 1 .. Len(order) |-> HeaderText(order[i], h[order[i]])],
           Stands(FlattenSeq(lines), n)
    PROVE  LET l == n + Len(FlattenSeq(lines))
           IN  IF \E x \in DOMAIN h : \E i \in 1 .. Len(h[x]) : Breaks(h[x], i)
               THEN Whole(l).state = "ProtocolError"
               ELSE IsAt(l, "HeaderName", [m EXCEPT !.headers = [x \in DOMAIN h |-> AsParsed(h[x])]])
<1> DEFINE K == Cardinality(DOMAIN h)
           Bad(x) == \E i \in 1 .. Len(h[x]) : Breaks(h[x], i)
           R(j) == {order[i] : i \in 1 .. j}
           H(j) == [x \in R(j) |-> AsParsed(h[x])]
           M(j) == [m EXCEPT !.headers = H(j)]
<1>0. K \in Nat
  BY FS_CardinalityType DEF IsHeaders
<1>1. /\ order \in [1 .. K -> DOMAIN h] /\ \A i, j \in 1 .. K : i # j => order[i] # order[j]
      /\ Len(order) = K
  <2>1. order \in [1 .. K -> DOMAIN h] /\ \A i, j \in 1 .. K : i # j => order[i] # order[j]
    BY DEF SetToSeqs
  <2>2. order \in Seq(DOMAIN h) /\ DOMAIN order = 1 .. K
    BY <1>0, <2>1
  <2> QED
    BY <1>0, <2>1, <2>2
<1>2. R(K) = DOMAIN h
  <2>1. order \in Injection(1 .. K, DOMAIN h)
    BY <1>1 DEF Injection, IsInjective
  <2>2. Cardinality(1 .. K) = K
    BY <1>0, FS_Interval
  <2>3. order \in Surjection(1 .. K, DOMAIN h)
    BY <2>1, <2>2, FS_Injection DEF IsHeaders
  <2>4. \A y \in DOMAIN h : \E i \in 1 .. K : order[i] = y
    BY <2>3 DEF Surjection
  <2>5. \A i \in 1 .. K : order[i] \in DOMAIN h
    BY <1>1
  <2> HIDE DEF K
  <2> QED
    BY <2>4, <2>5
<1> HIDE DEF K
<1>3. ASSUME NEW i \in 1 .. K
      PROVE  /\ order[i] \in DOMAIN h /\ order[i] \in Text /\ h[order[i]] \in Text
             /\ lines[i] = HeaderText(order[i], h[order[i]]) /\ lines[i] \in Text
  <2>1. order[i] \in DOMAIN h
    BY <1>1
  <2>2. order[i] \in Text /\ h[order[i]] \in Text
    BY <2>1 DEF IsHeaders
  <2>3. lines[i] = HeaderText(order[i], h[order[i]])
    BY <1>1
  <2>4. Crlf \in Text /\ <<":", "SP">> \in Text
    BY DEF Crlf, Text, Symbol, Other
  <2> QED
    BY <2>1, <2>2, <2>3, <2>4, Together, ZenonT(40) DEF HeaderText
<1>4. lines \in Seq(Text) /\ Len(lines) = K
  BY <1>0, <1>1, <1>3
<1>5. PICK f : /\ FlattenSeq(lines) = f[K] /\ f[0] = <<>>
               /\ \A i \in 1 .. K : f[i] = f[i - 1] \o lines[i]
               /\ \A i \in 0 .. K : f[i] \in Text
  BY <1>4, FlattenSteps
<1> DEFINE P(j) == IF \E i \in 1 .. j : Bad(order[i])
                   THEN Whole(n + Len(f[j])).state = "ProtocolError"
                   ELSE IsAt(n + Len(f[j]), "HeaderName", M(j))
           S == {j \in Nat : j <= K /\ Stands(f[j], n) => P(j)}
<1>6. 0 \in S
  <2>1. R(0) = {}
    OBVIOUS
  <2>2. H(0) = NoHeaders
    BY <2>1 DEF NoHeaders
  <2>3. [m EXCEPT !.headers = NoHeaders] = m
    BY DEF IsMessage, IsRequest, IsResponse
  <2>4. M(0) = m /\ n + Len(f[0]) = n
    BY <1>5, <2>2, <2>3
  <2> HIDE DEF M, Bad
  <2>5. P(0)
    BY <2>4
  <2> HIDE DEF P
  <2> QED
    BY <2>5
<1>7. ASSUME NEW j \in Nat, j \in S PROVE j + 1 \in S
  <2> SUFFICES ASSUME j + 1 <= K, Stands(f[j + 1], n) PROVE P(j + 1)
    <3> HIDE DEF P
    <3> QED
      OBVIOUS
  <2> DEFINE x == order[j + 1]
             t == lines[j + 1]
             a == n + Len(f[j])
             b == n + Len(f[j + 1])
  <2>1. /\ j + 1 \in 1 .. K /\ (j + 1) - 1 = j /\ f[j] \in Text /\ t \in Text
        /\ f[j + 1] = f[j] \o t /\ x \in DOMAIN h /\ x \in Text /\ h[x] \in Text
        /\ t = HeaderText(x, h[x])
    <3>1. j + 1 \in 1 .. K /\ (j + 1) - 1 = j /\ j \in 0 .. K
      BY <1>0
    <3>2. f[j + 1] = f[(j + 1) - 1] \o lines[j + 1]
      BY <1>5, <3>1
    <3> QED
      BY <1>3, <1>5, <3>1, <3>2
  <2>2. /\ Stands(f[j], n) /\ Stands(t, a) /\ Len(f[j + 1]) = Len(f[j]) + Len(t) /\ Len(f[j]) \in Nat
        /\ Len(t) \in Nat
    <3>1. Stands(f[j] \o t, n) /\ Len(t) \in Nat
      BY <2>1 DEF Text
    <3> DEFINE g == f[j]
    <3>2. g \in Text /\ t \in Text /\ Stands(g \o t, n)
      BY <2>1, <3>1
    <3> HIDE DEF t, g
    <3>3. Stands(g, n) /\ Stands(t, n + Len(g)) /\ Len(g \o t) = Len(g) + Len(t) /\ Len(g) \in Nat
      BY <3>2, StandsSplit
    <3> QED
      BY <2>1, <3>1, <3>3 DEF g
  <2>3. P(j)
    <3> HIDE DEF P
    <3> QED
      BY <1>0, <1>7, <2>2
  <2>4. a \in Nat /\ b \in Nat /\ a <= b /\ b = a + Len(t)
    <3> DEFINE k0 == Len(f[j])
               k1 == Len(t)
               k2 == Len(f[j + 1])
    <3>1. k0 \in Nat /\ k1 \in Nat /\ k2 = k0 + k1
      BY <2>2
    <3> HIDE DEF k0, k1, k2
    <3>2. n + k0 \in Nat /\ n + k2 \in Nat /\ n + k0 <= n + k2 /\ n + k2 = (n + k0) + k1
      BY <3>1
    <3> QED
      BY <3>2 DEF k0, k1, k2
  <2>5. CASE \E i \in 1 .. j : Bad(order[i])
    <3>1. Whole(a).state \in Final /\ Whole(a).state = "ProtocolError"
      BY <2>3, <2>5 DEF Final
    <3>2. \E i \in 1 .. j + 1 : Bad(order[i])
      BY <2>5
    <3> HIDE DEF a, b, Bad
    <3>3. Whole(b) = Whole(a)
      BY <2>4, <3>1, FinalStays
    <3> QED
      BY <3>1, <3>2, <3>3 DEF b
  <2>6. CASE ~ \E i \in 1 .. j : Bad(order[i])
    <3>1. IsAt(a, "HeaderName", M(j))
      BY <2>3, <2>6
    <3>2. IsHeaders(H(j))
      <4>1. R(j) \subseteq DOMAIN h
        <5>1. \A i \in 1 .. j : i \in 1 .. K
          BY <1>0
        <5>2. \A i \in 1 .. K : order[i] \in DOMAIN h
          BY <1>3
        <5> QED
          BY <5>1, <5>2
      <4>2. IsFiniteSet(R(j))
        BY <4>1, FS_Subset DEF IsHeaders
      <4>3. \A y \in R(j) : y \in Text /\ AsParsed(h[y]) \in Text
        BY <4>1, SymbolsAtText DEF IsHeaders, AsParsed
      <4> HIDE DEF R
      <4> QED
        BY <4>2, <4>3 DEF IsHeaders
    <3>3. /\ IsMessage(kind, M(j)) /\ M(j).temp_header_name = <<>> /\ M(j).temp_header_value = <<>>
          /\ M(j).headers = H(j)
      <4> HIDE DEF H
      <4>1. CASE kind = "request"
        BY <3>2, <4>1 DEF IsMessage, IsRequest
      <4>2. CASE kind = "response"
        BY <3>2, <4>2 DEF IsMessage, IsResponse
      <4> QED
        BY <4>1, <4>2 DEF Kinds
    <3>4. /\ \A i \in 1 .. Len(x) : is_token(x[i])
          /\ \A i \in 1 .. Len(h[x]) : is_text(h[x][i])
      BY <2>1
    <3> DEFINE o == [M(j) EXCEPT !.headers = addHeader(@, x, AsParsed(h[x]))]
    <3>5. M(j + 1) = o
      <4>1. R(j + 1) = R(j) \cup {x}
        OBVIOUS
      <4>2. x \notin R(j)
        BY <1>0, <1>1, <2>1
      <4>3. H(j + 1) = addHeader(H(j), x, AsParsed(h[x]))
        <5> HIDE DEF R, x
        <5> QED
          BY <4>1, <4>2 DEF addHeader
      <4> HIDE DEF H, x
      <4> QED
        BY <3>3, <4>3
    <3> HIDE DEF M, x, t, a, b
    <3>6. IF Bad(x) THEN Whole(b).state = "ProtocolError" ELSE IsAt(b, "HeaderName", o)
      BY <2>1, <2>2, <2>4, <3>1, <3>3, <3>4, ReadHeader
    <3> HIDE DEF o, Bad
    <3>7. (\E i \in 1 .. j + 1 : Bad(order[i])) <=> Bad(x)
      BY <2>6 DEF x
    <3> QED
      BY <3>5, <3>6, <3>7 DEF b
  <2> QED
    BY <2>5, <2>6
<1>8. \A j \in Nat : j \in S
  <2> HIDE DEF S
  <2> QED
    BY <1>6, <1>7, SetInduction
<1>9. P(K)
  <2> HIDE DEF P
  <2> QED
    BY <1>0, <1>5, <1>8
<1>10. (\E i \in 1 .. K : Bad(order[i])) <=> \E x \in DOMAIN h : Bad(x)
  <2> HIDE DEF Bad
  <2> QED
    BY <1>2
<1>11. M(K) = [m EXCEPT !.headers = [x \in DOMAIN h |-> AsParsed(h[x])]]
  BY <1>2
<1> HIDE DEF M
<1> QED
  BY <1>5, <1>9, <1>10, <1>11

-----------------------------------------------------------------------------
(* Reading the first line of a message that was composed.                  *)

\* The target of a request
LEMMA ReadTarget ==
    ASSUME kind = "request", stream \in Text, NEW n \in Nat, NEW m, IsRequest(m),
           m.target_resource = <<>>, IsAt(n, "RequestResource", m),
           NEW t \in Text, Stands(t, n), \A i \in 1 .. Len(t) : isprint(t[i]) /\ t[i] # "SP"
    PROVE  IsAt(n + Len(t), "RequestResource", [m EXCEPT !.target_resource = t])
<1> DEFINE M(k) == [m EXCEPT !.target_resource = SubSeq(t, 1, k)]
           S == {k \in Nat : k <= Len(t) => IsAt(n + k, "RequestResource", M(k))}
<1>0. Len(t) \in Nat
  BY DEF Text
<1>1. 0 \in S
  <2>1. SubSeq(t, 1, 0) = <<>> /\ n + 0 = n
    BY DEF Text
  <2>2. [m EXCEPT !.target_resource = <<>>] = m
    BY DEF IsRequest
  <2> QED
    BY <2>1, <2>2
<1>2. ASSUME NEW k \in Nat, k \in S PROVE k + 1 \in S
  <2> SUFFICES ASSUME k + 1 <= Len(t) PROVE IsAt(n + (k + 1), "RequestResource", M(k + 1))
    OBVIOUS
  <2>1. IsAt(n + k, "RequestResource", M(k))
    BY <1>0, <1>2
  <2>2. k + 1 \in 1 .. Len(t) /\ n + (k + 1) = (n + k) + 1 /\ n + k \in Nat
    BY <1>0
  <2>3. stream[(n + k) + 1] = t[k + 1] /\ isprint(t[k + 1]) /\ t[k + 1] # "SP"
    <3>1. stream[n + (k + 1)] = t[k + 1]
      BY <2>2 DEF Stands
    <3> QED
      BY <2>2, <3>1
  <2> DEFINE c == t[k + 1]
             o == M(k)
             u == [o EXCEPT !.target_resource = Append(@, c)]
  <2>4. u = M(k + 1)
    <3>1. SubSeq(t, 1, k + 1) = Append(SubSeq(t, 1, k), c)
      BY <2>2 DEF Text
    <3>2. o.target_resource = SubSeq(t, 1, k)
      BY DEF IsRequest
    <3> QED
      BY <3>1, <3>2
  <2>5. "RequestResource" \notin Final \cup {BodyState}
    BY DEF Final, BodyState, Request!BodyState
  <2> HIDE DEF o, c
  <2>6. Does(Iteration("RequestResource", o, c, Before(n + k)), "RequestResource", u)
    BY <2>3, RequestWords DEF c
  <2> HIDE DEF u, M
  <2>7. IsAt((n + k) + 1, "RequestResource", u)
    BY <2>1, <2>2, <2>3, <2>5, <2>6, Moves DEF o, c
  <2> QED
    BY <2>2, <2>4, <2>7
<1>3. \A k \in Nat : k \in S
  <2> HIDE DEF S
  <2> QED
    BY <1>1, <1>2, SetInduction
<1>4. SubSeq(t, 1, Len(t)) = t
  BY DEF Text
<1> QED
  BY <1>0, <1>3, <1>4

\* A state that accepts one symbol
LEMMA MovesAlong ==
    ASSUME kind \in Kinds, NEW n \in Nat, NEW s, NEW m, IsAt(n, s, m), NEW t,
           \/ kind = "request" /\ s \in Request!LiteralState /\ Request!Literal[s] = <<stream[n + 1], t>>
           \/ kind = "response" /\ s \in Response!LiteralState /\ Response!Literal[s] = <<stream[n + 1], t>>
    PROVE  IsAt(n + 1, t, m)
<1> DEFINE c == stream[n + 1]
<1> HIDE DEF c
<1>1. CASE kind = "request" /\ s \in Request!LiteralState /\ Request!Literal[s] = <<c, t>>
  <2>1. s \notin Final \cup {BodyState}
    BY <1>1 DEF Request!LiteralState, Final, BodyState, Request!BodyState
  <2>2. Does(Iteration(s, m, c, Before(n)), t, m)
    BY <1>1, RequestLiteral
  <2> QED
    BY <2>1, <2>2, Moves DEF c
<1>2. CASE kind = "response" /\ s \in Response!LiteralState /\ Response!Literal[s] = <<c, t>>
  <2>1. s \notin Final \cup {BodyState}
    BY <1>2 DEF Response!LiteralState, Final, BodyState, Response!BodyState
  <2>2. Does(Iteration(s, m, c, Before(n)), t, m)
    BY <1>2, ResponseLiteral
  <2> QED
    BY <2>1, <2>2, Moves DEF c
<1> QED
  BY <1>1, <1>2 DEF c

RequestHead(word, target) ==
    <<word, "SP">> \o target \o <<"SP", "H", "T", "T", "P", "/", "1", ".", "1">> \o Crlf

\* The first line of a request
LEMMA ReadRequestLine ==
    ASSUME kind = "request", stream \in Text, NEW word \in Symbol, is_token(word), NEW target \in Text,
           \A i \in 1 .. Len(target) : isprint(target[i]) /\ target[i] # "SP",
           Stands(RequestHead(word, target), 0)
    PROVE  /\ Len(RequestHead(word, target)) = Len(target) + 13
           /\ IsAt(Len(target) + 13, "HeaderName",
                   [NewMessage(kind) EXCEPT !.temp_http_method = <<word>>, !.target_resource = target])
<1> DEFINE v == <<"SP", "H", "T", "T", "P", "/", "1", ".", "1">>
           w == <<word, "SP">>
           o == NewMessage(kind)
           u == [o EXCEPT !.temp_http_method = <<word>>]
           m == [u EXCEPT !.target_resource = target]
           a == Len(target) + 2
<1>0. /\ v \in Text /\ Crlf \in Text /\ w \in Text /\ Len(v) = 9 /\ Len(w) = 2 /\ Len(Crlf) = 2
      /\ Len(target) \in Nat
  BY DEF Crlf, Text, Symbol, Other, Letter, Digit
<1>1. /\ w[1] = word /\ w[2] = "SP" /\ Crlf[1] = "CR" /\ Crlf[2] = "LF"
      /\ v[1] = "SP" /\ v[2] = "H" /\ v[3] = "T" /\ v[4] = "T" /\ v[5] = "P" /\ v[6] = "/"
      /\ v[7] = "1" /\ v[8] = "." /\ v[9] = "1"
  BY DEF Crlf
<1>2. RequestHead(word, target) = w \o target \o v \o Crlf
  BY DEF RequestHead
<1>3. /\ IsMessage(kind, o) /\ o.temp_http_method = <<>> /\ o.target_resource = <<>>
  BY NewMessageType DEF NewMessage, Request!NewMessage, Kinds
<1>4. /\ IsRequest(u) /\ u.target_resource = <<>> /\ u = [o EXCEPT !.temp_http_method = Append(@, word)]
  <2>1. <<word>> \in Text /\ Append(<<>>, word) = <<word>>
    BY DEF Text
  <2>2. u = [o EXCEPT !.temp_http_method = Append(@, word)]
    BY <1>3, <2>1
  <2> HIDE DEF o
  <2>3. IsRequest(u) /\ u.target_resource = <<>>
    BY <1>3, <2>1 DEF IsMessage, IsRequest
  <2> QED
    BY <2>2, <2>3
<1>5. m = [o EXCEPT !.temp_http_method = <<word>>, !.target_resource = target]
  OBVIOUS
<1> HIDE DEF v, w, o, u, m
<1>6. w \o target \in Text /\ w \o target \o v \in Text
  BY <1>0, Together
<1>7. /\ Stands(w \o target \o v, 0) /\ Stands(Crlf, 0 + Len(w \o target \o v))
      /\ Len(RequestHead(word, target)) = Len(w \o target \o v) + 2
  <2> DEFINE x == w \o target \o v
  <2>1. x \in Text /\ RequestHead(word, target) = x \o Crlf
    BY <1>2, <1>6
  <2>2. Stands(x \o Crlf, 0)
    BY <2>1
  <2> HIDE DEF x
  <2>3. Stands(x, 0) /\ Stands(Crlf, 0 + Len(x)) /\ Len(x \o Crlf) = Len(x) + Len(Crlf)
    BY <1>0, <2>1, <2>2, StandsSplit
  <2> QED
    BY <1>0, <2>1, <2>3 DEF x
<1>8. /\ Stands(w \o target, 0) /\ Stands(v, 0 + Len(w \o target))
      /\ Len(w \o target \o v) = Len(w \o target) + 9
  BY <1>0, <1>6, <1>7, StandsSplit
<1>9. Stands(w, 0) /\ Stands(target, 0 + 2) /\ Len(w \o target) = 2 + Len(target)
  BY <1>0, <1>8, StandsSplit
<1>10. a \in Nat /\ 0 + Len(w \o target) = a /\ 0 + Len(w \o target \o v) = a + 9
       /\ Len(RequestHead(word, target)) = Len(target) + 13 /\ Len(target) + 13 = a + 11
       /\ 0 + 2 = 2 /\ 2 + Len(target) = a
  <2> DEFINE k0 == Len(target)
             k1 == Len(w \o target)
             k2 == Len(w \o target \o v)
             k3 == Len(RequestHead(word, target))
  <2>1. k0 \in Nat /\ k1 = 2 + k0 /\ k2 = k1 + 9 /\ k3 = k2 + 2
    BY <1>0, <1>7, <1>8, <1>9
  <2> HIDE DEF k0, k1, k2, k3
  <2>2. /\ k0 + 2 \in Nat /\ 0 + k1 = k0 + 2 /\ 0 + k2 = (k0 + 2) + 9 /\ k3 = k0 + 13
        /\ k0 + 13 = (k0 + 2) + 11 /\ 0 + 2 = 2 /\ 2 + k0 = k0 + 2
    BY <2>1
  <2> QED
    BY <2>2 DEF k0, k1, k2, k3
<1> HIDE DEF a
<1>11. stream[1] = word /\ stream[2] = "SP"
  BY <1>0, <1>1, <1>9 DEF Stands
<1>12. /\ stream[a + 1] = "SP" /\ stream[a + 2] = "H" /\ stream[a + 3] = "T" /\ stream[a + 4] = "T"
       /\ stream[a + 5] = "P" /\ stream[a + 6] = "/" /\ stream[a + 7] = "1" /\ stream[a + 8] = "."
       /\ stream[a + 9] = "1"
  <2>1. \A k \in 1 .. 9 : stream[a + k] = v[k]
    BY <1>0, <1>8, <1>10 DEF Stands
  <2> QED
    BY <1>1, <2>1
<1>13. stream[(a + 9) + 1] = "CR" /\ stream[(a + 9) + 2] = "LF"
  BY <1>0, <1>1, <1>7, <1>10 DEF Stands
<1>14. {"RequestLineBegin", "RequestMethod", "RequestResource", "RequestProtocolVersionMajor",
        "RequestProtocolVersionMinor"} \cap (Final \cup {BodyState}) = {}
  BY DEF Final, BodyState, Request!BodyState
<1>15. IsAt(0, "RequestLineBegin", o)
  BY WholeStep DEF IsAt, Zero, o, Start, Request!Start
<1>16. IsAt(0 + 1, "RequestMethod", u)
  <2>1. Does(Iteration("RequestLineBegin", o, word, Before(0)), "RequestMethod", u)
    BY <1>4, RequestWords
  <2> QED
    BY <1>11, <1>14, <1>15, <2>1, Moves
<1>17. IsAt(1 + 1, "RequestResource", u)
  <2>1. ~ is_token("SP")
    BY DEF is_token, is_separator
  <2>2. Does(Iteration("RequestMethod", u, "SP", Before(1)), "RequestResource", u)
    BY <2>1, RequestWords
  <2> QED
    BY <1>11, <1>14, <1>16, <2>2, Moves
<1>18. IsAt(a, "RequestResource", m)
  <2>1. IsAt(2, "RequestResource", u) /\ Stands(target, 2) /\ 2 \in Nat
    BY <1>9, <1>17
  <2>2. IsAt(2 + Len(target), "RequestResource", [u EXCEPT !.target_resource = target])
    BY <1>4, <2>1, ReadTarget
  <2> QED
    BY <1>10, <2>2 DEF m
<1>19. IsAt(a + 1, "RequestProtocolH", m)
  <2>1. Does(Iteration("RequestResource", m, "SP", Before(a)), "RequestProtocolH", m)
    BY RequestWords
  <2> QED
    BY <1>10, <1>12, <1>14, <1>18, <2>1, Moves
<1>20. /\ a + 1 \in Nat /\ a + 2 \in Nat /\ a + 3 \in Nat /\ a + 4 \in Nat /\ a + 5 \in Nat
       /\ a + 6 \in Nat /\ a + 7 \in Nat /\ a + 8 \in Nat /\ a + 9 \in Nat /\ a + 10 \in Nat
       /\ (a + 1) + 1 = a + 2 /\ (a + 2) + 1 = a + 3 /\ (a + 3) + 1 = a + 4 /\ (a + 4) + 1 = a + 5
       /\ (a + 5) + 1 = a + 6 /\ (a + 6) + 1 = a + 7 /\ (a + 7) + 1 = a + 8 /\ (a + 8) + 1 = a + 9
       /\ (a + 9) + 1 = a + 10 /\ (a + 9) + 2 = a + 11 /\ (a + 10) + 1 = a + 11
  BY <1>10
<1> DEFINE L == Request!Literal
<1>literal. /\ {"RequestProtocolH", "RequestProtocolT1", "RequestProtocolT2", "RequestProtocolP",
                "RequestProtocolSlash", "RequestProtocolDot", "RequestLineLF"}
                    \subseteq Request!LiteralState
            /\ L["RequestProtocolH"] = <<"H", "RequestProtocolT1">>
            /\ L["RequestProtocolT1"] = <<"T", "RequestProtocolT2">>
            /\ L["RequestProtocolT2"] = <<"T", "RequestProtocolP">>
            /\ L["RequestProtocolP"] = <<"P", "RequestProtocolSlash">>
            /\ L["RequestProtocolSlash"] = <<"/", "RequestProtocolVersionMajor">>
            /\ L["RequestProtocolDot"] = <<".", "RequestProtocolVersionMinor">>
            /\ L["RequestLineLF"] = <<"LF", "HeaderName">>
            /\ kind \in Kinds
  BY DEF Request!LiteralState, Request!Literal, Kinds
<1>21. IsAt(a + 2, "RequestProtocolT1", m)
  BY <1>12, <1>19, <1>20, <1>literal, MovesAlong
<1>22. IsAt(a + 3, "RequestProtocolT2", m)
  BY <1>12, <1>20, <1>21, <1>literal, MovesAlong
<1>23. IsAt(a + 4, "RequestProtocolP", m)
  BY <1>12, <1>20, <1>22, <1>literal, MovesAlong
<1>24. IsAt(a + 5, "RequestProtocolSlash", m)
  BY <1>12, <1>20, <1>23, <1>literal, MovesAlong
<1>25. IsAt(a + 6, "RequestProtocolVersionMajor", m)
  BY <1>12, <1>20, <1>24, <1>literal, MovesAlong
<1>26. isdigit("1") /\ ~ isdigit("CR")
  BY DEF isdigit, Digit
<1>27. IsAt(a + 7, "RequestProtocolDot", m)
  <2>1. Does(Iteration("RequestProtocolVersionMajor", m, "1", Before(a + 6)), "RequestProtocolDot", m)
    BY <1>26, RequestWords
  <2> QED
    BY <1>12, <1>14, <1>20, <1>25, <2>1, Moves
<1>28. IsAt(a + 8, "RequestProtocolVersionMinor", m)
  BY <1>12, <1>20, <1>27, <1>literal, MovesAlong
<1>29. IsAt(a + 9, "RequestProtocolVersionMinor", m)
  <2>1. Does(Iteration("RequestProtocolVersionMinor", m, "1", Before(a + 8)),
             "RequestProtocolVersionMinor", m)
    BY <1>26, RequestWords
  <2> QED
    BY <1>12, <1>14, <1>20, <1>28, <2>1, Moves
<1>30. IsAt(a + 10, "RequestLineLF", m)
  <2>1. Does(Iteration("RequestProtocolVersionMinor", m, "CR", Before(a + 9)), "RequestLineLF", m)
    BY <1>26, RequestWords
  <2> QED
    BY <1>13, <1>14, <1>20, <1>29, <2>1, Moves
<1>31. IsAt(a + 11, "HeaderName", m)
  BY <1>13, <1>20, <1>30, <1>literal, MovesAlong
<1> QED
  BY <1>5, <1>10, <1>31 DEF o

StatusHead == <<"H", "T", "T", "P", "/", "1", ".", "1", "SP">>

\* The version of a response
LEMMA ReadVersion ==
    ASSUME kind = "response", stream \in Text, Stands(StatusHead, 0)
    PROVE  IsAt(9, "StatusCode", NewMessage(kind))
<1> DEFINE m == NewMessage(kind)
           L == Response!Literal
<1>1. /\ stream[1] = "H" /\ stream[2] = "T" /\ stream[3] = "T" /\ stream[4] = "P" /\ stream[5] = "/"
      /\ stream[6] = "1" /\ stream[7] = "." /\ stream[8] = "1" /\ stream[9] = "SP"
  <2> DEFINE v == StatusHead
  <2>1. /\ Len(v) = 9 /\ v[1] = "H" /\ v[2] = "T" /\ v[3] = "T" /\ v[4] = "P" /\ v[5] = "/"
        /\ v[6] = "1" /\ v[7] = "." /\ v[8] = "1" /\ v[9] = "SP"
    BY DEF StatusHead
  <2> HIDE DEF v
  <2>2. \A k \in 1 .. 9 : stream[0 + k] = v[k]
    BY <2>1 DEF Stands, v
  <2>3. \A k \in 1 .. 9 : stream[k] = v[k]
    BY <2>2
  <2> QED
    BY <2>1, <2>3
<1>2. /\ {"ResponseProtocolH", "ResponseProtocolT1", "ResponseProtocolT2", "ResponseProtocolP",
          "ResponseProtocolSlash", "ResponseProtocolVersionMajor", "ResponseProtocolDot"}
              \subseteq Response!LiteralState
      /\ L["ResponseProtocolH"] = <<"H", "ResponseProtocolT1">>
      /\ L["ResponseProtocolT1"] = <<"T", "ResponseProtocolT2">>
      /\ L["ResponseProtocolT2"] = <<"T", "ResponseProtocolP">>
      /\ L["ResponseProtocolP"] = <<"P", "ResponseProtocolSlash">>
      /\ L["ResponseProtocolSlash"] = <<"/", "ResponseProtocolVersionMajor">>
      /\ L["ResponseProtocolVersionMajor"] = <<"1", "ResponseProtocolDot">>
      /\ L["ResponseProtocolDot"] = <<".", "ResponseProtocolVersionMinor">>
      /\ kind \in Kinds
  BY DEF Response!LiteralState, Response!Literal, Kinds
<1>3. IsAt(0, "ResponseProtocolH", m)
  BY WholeStep DEF IsAt, Zero, Start, Response!Start
<1> HIDE DEF m
<1>4. IsAt(0 + 1, "ResponseProtocolT1", m)
  BY <1>1, <1>2, <1>3, MovesAlong
<1>5. IsAt(1 + 1, "ResponseProtocolT2", m)
  BY <1>1, <1>2, <1>4, MovesAlong
<1>6. IsAt(2 + 1, "ResponseProtocolP", m)
  BY <1>1, <1>2, <1>5, MovesAlong
<1>7. IsAt(3 + 1, "ResponseProtocolSlash", m)
  BY <1>1, <1>2, <1>6, MovesAlong
<1>8. IsAt(4 + 1, "ResponseProtocolVersionMajor", m)
  BY <1>1, <1>2, <1>7, MovesAlong
<1>9. IsAt(5 + 1, "ResponseProtocolDot", m)
  BY <1>1, <1>2, <1>8, MovesAlong
<1>10. IsAt(6 + 1, "ResponseProtocolVersionMinor", m)
  BY <1>1, <1>2, <1>9, MovesAlong
<1>11. isdigit("1") /\ ~ isdigit("SP") /\ "ResponseProtocolVersionMinor" \notin Final \cup {BodyState}
  BY DEF isdigit, Digit, Final, BodyState, Response!BodyState
<1>12. IsAt(7 + 1, "ResponseProtocolVersionMinor", m)
  <2>1. Does(Iteration("ResponseProtocolVersionMinor", m, "1", Before(7)),
             "ResponseProtocolVersionMinor", m)
    BY <1>11, ResponseWords
  <2> QED
    BY <1>1, <1>10, <1>11, <2>1, Moves
<1>13. IsAt(8 + 1, "StatusCode", m)
  <2>1. Does(Iteration("ResponseProtocolVersionMinor", m, "SP", Before(8)), "StatusCode", m)
    BY <1>11, ResponseWords
  <2> QED
    BY <1>1, <1>11, <1>12, <2>1, Moves
<1> QED
  BY <1>13 DEF m

\* The code, the phrase and the end of the line
LEMMA ReadCode ==
    ASSUME kind = "response", stream \in Text, NEW x \in Digit, NEW y \in Digit, NEW z \in Digit,
           NEW phrase \in Phrase, IsAt(9, "StatusCode", NewMessage(kind)),
           stream[10] = x, stream[11] = y, stream[12] = z, stream[13] = "SP", stream[14] = phrase,
           stream[15] = "CR", stream[16] = "LF"
    PROVE  IsAt(16, "HeaderName", [NewMessage(kind) EXCEPT !.temp_http_status_code = <<x, y, z>>,
                                                            !.response_code = <<x, y, z>>])
<1> DEFINE o == NewMessage(kind)
           m1 == [o EXCEPT !.temp_http_status_code = <<x>>]
           m2 == [o EXCEPT !.temp_http_status_code = <<x, y>>]
           m3 == [o EXCEPT !.temp_http_status_code = <<x, y, z>>]
           m4 == [o EXCEPT !.temp_http_status_code = <<x, y, z>>, !.response_code = <<x, y, z>>]
<1>2. /\ isdigit(x) /\ isdigit(y) /\ isdigit(z) /\ ~ isdigit("SP")
      /\ is_text(phrase) /\ phrase # "CR"
      /\ {"StatusCode", "ResponseReasonPhrase"} \cap (Final \cup {BodyState}) = {}
  BY DEF isdigit, Digit, Phrase, HTTPResponseCodes, is_text, is_control, Final, BodyState,
         Response!BodyState
<1>3. IsMessage(kind, o) /\ o.temp_http_status_code = <<>>
  BY NewMessageType DEF NewMessage, Response!NewMessage, Kinds
<1>4. /\ Response!pushBackResponseCode(o, x) = m1 /\ Response!pushBackResponseCode(m1, y) = m2
      /\ Response!pushBackResponseCode(m2, z) = m3 /\ Response!setResponseCode(m3) = m4
  <2> HIDE DEF o
  <2>1. /\ Append(<<>>, x) = <<x>> /\ Append(<<x>>, y) = <<x, y>> /\ Append(<<x, y>>, z) = <<x, y, z>>
        /\ Len(<<>>) = 0 /\ Len(<<x>>) = 1 /\ Len(<<x, y>>) = 2 /\ Len(<<x, y, z>>) = 3
    <3>1. Append(<<>>, x) = <<x>> /\ Len(<<>>) = 0 /\ Len(<<x>>) = 1 /\ Len(<<x, y>>) = 2
          /\ Len(<<x, y, z>>) = 3
      OBVIOUS
    <3>2. Append(<<x>>, y) = <<x, y>>
      <4> DEFINE a == Append(<<x>>, y)
                 b == <<x, y>>
      <4>1. a \in Seq(Digit) /\ Len(a) = 2 /\ a[1] = x /\ a[2] = y
        <5>1. <<x>> \in Seq(Digit) /\ Len(<<x>>) = 1 /\ <<x>>[1] = x
          OBVIOUS
        <5> QED
          BY <5>1
      <4>2. b \in Seq(Digit) /\ Len(b) = 2 /\ b[1] = x /\ b[2] = y
        OBVIOUS
      <4> HIDE DEF a, b
      <4>3. \A k \in 1 .. Len(a) : a[k] = b[k]
        BY <4>1, <4>2
      <4>4. a = b
        BY <4>1, <4>2, <4>3, SeqEqual
      <4> QED
        BY <4>4 DEF a, b
    <3>3. Append(<<x, y>>, z) = <<x, y, z>>
      <4> DEFINE a == Append(<<x, y>>, z)
                 b == <<x, y, z>>
      <4>1. a \in Seq(Digit) /\ Len(a) = 3 /\ a[1] = x /\ a[2] = y /\ a[3] = z
        <5>1. <<x, y>> \in Seq(Digit) /\ Len(<<x, y>>) = 2 /\ <<x, y>>[1] = x /\ <<x, y>>[2] = y
          OBVIOUS
        <5> QED
          BY <5>1
      <4>2. b \in Seq(Digit) /\ Len(b) = 3 /\ b[1] = x /\ b[2] = y /\ b[3] = z
        OBVIOUS
      <4> HIDE DEF a, b
      <4>3. \A k \in 1 .. Len(a) : a[k] = b[k]
        BY <4>1, <4>2
      <4>4. a = b
        BY <4>1, <4>2, <4>3, SeqEqual
      <4> QED
        BY <4>4 DEF a, b
    <3> QED
      BY <3>1, <3>2, <3>3
  <2>2. m1.temp_http_status_code = <<x>> /\ m2.temp_http_status_code = <<x, y>>
        /\ m3.temp_http_status_code = <<x, y, z>>
    BY <1>3 DEF IsMessage, IsResponse
  <2>3. Response!pushBackResponseCode(o, x) = m1
    BY <1>3, <2>1 DEF Response!pushBackResponseCode
  <2>4. Response!pushBackResponseCode(m1, y) = m2
    <3>1. Response!pushBackResponseCode(m1, y) = [m1 EXCEPT !.temp_http_status_code = <<x, y>>]
      <4> HIDE DEF m1
      <4> QED
        BY <2>1, <2>2 DEF Response!pushBackResponseCode
    <3> QED
      BY <3>1
  <2>5. Response!pushBackResponseCode(m2, z) = m3
    <3>1. Response!pushBackResponseCode(m2, z) = [m2 EXCEPT !.temp_http_status_code = <<x, y, z>>]
      <4> HIDE DEF m2
      <4> QED
        BY <2>1, <2>2 DEF Response!pushBackResponseCode
    <3> QED
      BY <3>1
  <2>6. Response!setResponseCode(m3) = m4
    BY <2>1, <2>2 DEF Response!setResponseCode
  <2> QED
    BY <2>3, <2>4, <2>5, <2>6
<1> HIDE DEF o, m1, m2, m3, m4
<1>5. IsAt(9 + 1, "StatusCode", m1)
  <2>1. Does(Iteration("StatusCode", o, x, Before(9)), "StatusCode", m1)
    BY <1>2, <1>4, ResponseWords
  <2> QED
    BY <1>2, <2>1, Moves DEF o
<1>6. IsAt(10 + 1, "StatusCode", m2)
  <2>1. Does(Iteration("StatusCode", m1, y, Before(10)), "StatusCode", m2)
    BY <1>2, <1>4, ResponseWords
  <2> QED
    BY <1>2, <1>5, <2>1, Moves
<1>7. IsAt(11 + 1, "StatusCode", m3)
  <2>1. Does(Iteration("StatusCode", m2, z, Before(11)), "StatusCode", m3)
    BY <1>2, <1>4, ResponseWords
  <2> QED
    BY <1>2, <1>6, <2>1, Moves
<1>8. IsAt(12 + 1, "ResponseReasonPhrase", m4)
  <2>1. Does(Iteration("StatusCode", m3, "SP", Before(12)), "ResponseReasonPhrase", m4)
    BY <1>2, <1>4, ResponseWords
  <2> QED
    BY <1>2, <1>7, <2>1, Moves
<1>9. IsAt(13 + 1, "ResponseReasonPhrase", m4)
  <2>1. Does(Iteration("ResponseReasonPhrase", m4, phrase, Before(13)), "ResponseReasonPhrase", m4)
    BY <1>2, ResponseWords
  <2> QED
    BY <1>2, <1>8, <2>1, Moves
<1>10. IsAt(14 + 1, "StatusLineLF", m4)
  <2>1. Does(Iteration("ResponseReasonPhrase", m4, "CR", Before(14)), "StatusLineLF", m4)
    BY ResponseWords
  <2> QED
    BY <1>2, <1>9, <2>1, Moves
<1>11. IsAt(15 + 1, "HeaderName", m4)
  <2>1. "StatusLineLF" \in Response!LiteralState /\ kind \in Kinds
        /\ Response!Literal["StatusLineLF"] = <<"LF", "HeaderName">>
    BY DEF Response!LiteralState, Response!Literal, Kinds
  <2>2. IsAt(15, "StatusLineLF", m4) /\ stream[15 + 1] = "LF" /\ 15 \in Nat
    BY <1>10
  <2> QED
    BY <2>1, <2>2, MovesAlong
<1> QED
  BY <1>11 DEF m4, o

\* The codes have three digits.
LEMMA CodeDigits ==
    \A c \in Phrase : \E x, y, z \in Digit : HTTPResponseCodes[c] = <<x, y, z>>
<1> DEFINE T == {<<x, y, z>> : x, y, z \in Digit}
<1>1. \A c \in DOMAIN HTTPResponseCodes : HTTPResponseCodes[c] \in T
  BY SMTT(30) DEF HTTPResponseCodes, Digit
<1>2. \A t \in T : \E x, y, z \in Digit : t = <<x, y, z>>
  OBVIOUS
<1> HIDE DEF T
<1>3. Phrase \subseteq DOMAIN HTTPResponseCodes
  BY DEF Phrase
<1> QED
  BY <1>1, <1>2, <1>3, Zenon

-----------------------------------------------------------------------------
(* Reading all of a message that was composed.                             *)

\* The headers to the CR behind them, whatever the order of their lines
LEMMA ReadSection ==
    ASSUME kind \in Kinds, stream \in Text, NEW n \in Nat, NEW m, IsMessage(kind, m),
           m.headers = NoHeaders, m.temp_header_name = <<>>, m.temp_header_value = <<>>,
           IsAt(n, "HeaderName", m), NEW h, IsHeaders(h),
           \A x \in DOMAIN h : /\ \A i \in 1 .. Len(x) : is_token(x[i])
                               /\ \A i \in 1 .. Len(h[x]) : is_text(h[x][i]),
           NEW head \in buildRawHeader(h), Stands(head, n)
    PROVE  \E e \in Nat :
             /\ n + Len(head) = (e + 1) + 1 /\ stream[(e + 1) + 1] = "LF"
             /\ IF \E x \in DOMAIN h : \E i \in 1 .. Len(h[x]) : Breaks(h[x], i)
                THEN Whole(e).state = "ProtocolError"
                ELSE IsAt(e + 1, "HeaderEndLF", [m EXCEPT !.headers = [x \in DOMAIN h |-> AsParsed(h[x])]])
<1> DEFINE Bad == \E x \in DOMAIN h : \E i \in 1 .. Len(h[x]) : Breaks(h[x], i)
           o == [m EXCEPT !.headers = [x \in DOMAIN h |-> AsParsed(h[x])]]
           Lines(order) == [i \in 1 .. Len(order) |-> HeaderText(order[i], h[order[i]])]
<1>1. PICK order \in SetToSeqs(DOMAIN h) : head = FlattenSeq(Lines(order)) \o Crlf
  BY DEF buildRawHeader
<1> DEFINE lines == Lines(order)
           t == FlattenSeq(lines)
           e == n + Len(t)
<1>2. t \in Text
  <2>1. Cardinality(DOMAIN h) \in Nat
    BY FS_CardinalityType DEF IsHeaders
  <2>2. order \in [1 .. Cardinality(DOMAIN h) -> DOMAIN h]
    BY DEF SetToSeqs
  <2>3. order \in Seq(DOMAIN h) /\ Len(order) \in Nat
    BY <2>1, <2>2
  <2>4. Crlf \in Text /\ <<":", "SP">> \in Text
    BY DEF Crlf, Text, Symbol, Other
  <2>5. ASSUME NEW i \in 1 .. Len(order) PROVE HeaderText(order[i], h[order[i]]) \in Text
    <3>1. order[i] \in Text /\ h[order[i]] \in Text
      BY <2>3 DEF IsHeaders
    <3> QED
      BY <2>4, <3>1, Together DEF HeaderText
  <2>6. lines \in Seq(Text)
    BY <2>3, <2>5
  <2> HIDE DEF lines
  <2> QED
    BY <2>6, FlattenText
<1>3. lines = [i \in 1 .. Len(order) |-> HeaderText(order[i], h[order[i]])] /\ head = t \o Crlf
  BY <1>1
<1> HIDE DEF lines
<1>4. Crlf \in Text /\ Len(Crlf) = 2 /\ Crlf[1] = "CR" /\ Crlf[2] = "LF" /\ "CR" \in Symbol
  BY DEF Crlf, Text, Symbol, Other
<1>5. Stands(t, n) /\ Stands(Crlf, e) /\ Len(head) = Len(t) + 2 /\ Len(t) \in Nat
  <2> HIDE DEF t
  <2>1. Stands(t \o Crlf, n)
    BY <1>3
  <2> QED
    BY <1>2, <1>3, <1>4, <2>1, StandsSplit
<1>6. IF Bad THEN Whole(e).state = "ProtocolError" ELSE IsAt(e, "HeaderName", o)
  <2> HIDE DEF Bad, o
  <2>1. LET l == n + Len(FlattenSeq(lines))
        IN  IF Bad THEN Whole(l).state = "ProtocolError" ELSE IsAt(l, "HeaderName", o)
    BY <1>3, <1>5, ReadHeaders DEF Bad, o
  <2> QED
    BY <2>1
<1> DEFINE l == Len(t)
<1>7. l \in Nat /\ e = n + l /\ Len(head) = l + 2
  BY <1>5
<1> HIDE DEF t, Bad, o, e, l
<1>8. e \in Nat /\ n + Len(head) = (e + 1) + 1
  BY <1>7
<1>9. stream[e + 1] = "CR" /\ stream[(e + 1) + 1] = "LF"
  <2>1. stream[e + 1] = "CR" /\ stream[e + 2] = "LF"
    BY <1>4, <1>5 DEF Stands
  <2>2. (e + 1) + 1 = e + 2
    BY <1>8
  <2> QED
    BY <2>1, <2>2
<1>10. ~ Bad => IsAt(e + 1, "HeaderEndLF", o)
  <2>1. Does(Iteration("HeaderName", o, "CR", Before(e)), "HeaderEndLF", o)
    BY <1>4, NameIteration
  <2>2. "HeaderName" \notin Final \cup {BodyState}
    BY DEF Final, BodyState, Request!BodyState, Response!BodyState
  <2> QED
    BY <1>6, <1>8, <1>9, <2>1, <2>2, Moves
<1>11. IF Bad THEN Whole(e).state = "ProtocolError" ELSE IsAt(e + 1, "HeaderEndLF", o)
  BY <1>6, <1>10
<1> QED
  BY <1>8, <1>9, <1>11 DEF Bad, o

\* A text is where it begins.
LEMMA StandsHere == ASSUME stream \in Text PROVE Stands(stream, 0)
BY DEF Stands, Text

\* What stands at the end is the rest.
LEMMA RestIs ==
    ASSUME stream \in Text, NEW n \in Nat, NEW t \in Text, Stands(t, n), n + Len(t) = Len(stream)
    PROVE  SubSeq(stream, n + 1, Len(stream)) = t
<1> DEFINE u == SubSeq(stream, n + 1, Len(stream))
<1>0. Len(t) \in Nat /\ Len(stream) \in Nat /\ n <= Len(stream)
  BY DEF Text
<1>1. u \in Text /\ Len(u) = Len(stream) - n /\ \A k \in 1 .. Len(stream) - n : u[k] = stream[n + k]
  <2>1. u \in Text /\ Len(u) = Len(stream) - n
    BY <1>0 DEF Text
  <2>2. \A k \in 1 .. Len(stream) - n : u[k] = stream[(n + 1) + k - 1] /\ (n + 1) + k - 1 = n + k
    BY <1>0 DEF Text
  <2> HIDE DEF u
  <2> QED
    BY <2>1, <2>2
<1> HIDE DEF u
<1>2. Len(u) = Len(t) /\ \A k \in 1 .. Len(u) : u[k] = t[k]
  BY <1>0, <1>1 DEF Stands
<1>3. u = t
  BY <1>1, <1>2, SeqEqual DEF Text
<1> QED
  BY <1>3 DEF u

\* The words of the methods are different tokens.
LEMMA MethodWords ==
    /\ \A type \in Request!RequestType : MethodText[type] \in Symbol /\ is_token(MethodText[type])
    /\ \A s, t \in Request!RequestType : MethodText[s] = MethodText[t] => s = t
<1>1. /\ MethodText["Get"] = "GET" /\ MethodText["Post"] = "POST" /\ MethodText["Head"] = "HEAD"
      /\ MethodText["Put"] = "PUT" /\ MethodText["Connect"] = "CONNECT"
      /\ MethodText["Unsupported"] = "UNSUPPORTED"
  BY DEF MethodText
<1> QED
  BY <1>1 DEF Request!RequestType, Symbol, Methods, Letter, is_token, is_char, is_control, is_separator

\* What a parser makes of the text of a request
LEMMA ReadRequest ==
    ASSUME kind = "request", stream \in Text, NEW m, IsRequest(m), stream \in buildRequest(m), Plain(m),
           Smooth(Len(stream))
    PROVE  LET w == Whole(Len(stream))
           IN  IF Refused(m) THEN w.state = "ProtocolError"
               ELSE /\ w.message.headers = [n \in DOMAIN m.headers |-> AsParsed(m.headers[n])]
                    /\ w.message.request_type = m.request_type
                    /\ w.message.target_resource = m.target_resource
                    /\ IF m.request_type \in {"Post", "Put"}
                       THEN w.state = "MessageBody" /\ w.rest = m.raw_body
                       ELSE w.state = "ParsingDone" /\ w.rest = <<>>
<1> DEFINE word == MethodText[m.request_type]
           target == m.target_resource
           body == m.raw_body
           h == m.headers
           first == RequestHead(word, target)
           l == Len(stream)
           o == NewMessage(kind)
           u == [o EXCEPT !.temp_http_method = <<word>>, !.target_resource = target]
           p == [n \in DOMAIN h |-> AsParsed(h[n])]
           v == [u EXCEPT !.headers = p]
<1>1. PICK head \in buildRawHeader(h) : stream = first \o head \o body
  BY DEF buildRequest, RequestHead
<1>2. /\ target \in Text /\ body \in Text /\ IsHeaders(h) /\ m.request_type \in Request!RequestType
      /\ head \in Text
  BY HeadersText DEF IsRequest
<1>3. word \in Symbol /\ is_token(word)
  BY <1>2, MethodWords
<1>4. first \in Text
  <2>1. \A x \in Symbol : <<x, "SP">> \in Text
    BY DEF Text, Symbol, Other
  <2>2. Crlf \in Text /\ <<"SP", "H", "T", "T", "P", "/", "1", ".", "1">> \in Text
    BY DEF Crlf, Text, Symbol, Other, Letter, Digit
  <2> QED
    BY <1>2, <1>3, <2>1, <2>2, Together DEF RequestHead
<1>5. Refused(m) <=> \E x \in DOMAIN h : \E i \in 1 .. Len(h[x]) : Breaks(h[x], i)
  BY DEF Refused, Breaks
<1>6. /\ \A x \in DOMAIN h : /\ \A i \in 1 .. Len(x) : is_token(x[i])
                             /\ \A i \in 1 .. Len(h[x]) : is_text(h[x][i])
      /\ \A i \in 1 .. Len(target) : isprint(target[i]) /\ target[i] # "SP"
  BY DEF Plain
<1>7. /\ IsRequest(u) /\ u.headers = NoHeaders /\ u.temp_header_name = <<>> /\ u.temp_header_value = <<>>
      /\ u.temp_http_method = <<word>> /\ u.target_resource = target
  <2>1. IsRequest(o) /\ o.headers = NoHeaders /\ o.temp_header_name = <<>> /\ o.temp_header_value = <<>>
    BY NewMessageType DEF NewMessage, Request!NewMessage, Kinds, IsMessage, Request!NoHeaders, NoHeaders
  <2>2. <<word>> \in Text
    BY <1>3 DEF Text
  <2> HIDE DEF o, word, target
  <2> QED
    BY <1>2, <2>1, <2>2 DEF IsRequest
<1>8. /\ v.temp_http_method = <<word>> /\ v.target_resource = target /\ v.headers = p
      /\ DOMAIN v = DOMAIN u
  <2> HIDE DEF u, p, word, target
  <2> QED
    BY <1>7 DEF IsRequest
<1> HIDE DEF word, target, body, h, first, o, p, v
<1>9. /\ Stands(first, 0) /\ Stands(head, Len(first)) /\ Stands(body, Len(first) + Len(head))
      /\ l = (Len(first) + Len(head)) + Len(body)
      /\ Len(first) \in Nat /\ Len(head) \in Nat /\ Len(body) \in Nat /\ l \in Nat
  <2> DEFINE x == first \o head
  <2>1. x \in Text /\ Stands(x \o body, 0) /\ stream = x \o body
    BY <1>1, <1>2, <1>4, Together, StandsHere
  <2>2. Stands(first \o head, 0) /\ x = first \o head
    <3> HIDE DEF x
    <3>1. Stands(x, 0)
      BY <1>2, <2>1, StandsSplit
    <3> QED
      BY <3>1 DEF x
  <2> HIDE DEF x
  <2>3. Stands(body, 0 + Len(x)) /\ Len(x \o body) = Len(x) + Len(body)
    BY <1>2, <2>1, StandsSplit
  <2>4. /\ Stands(first, 0) /\ Stands(head, 0 + Len(first)) /\ Len(x) = Len(first) + Len(head)
    BY <1>2, <1>4, <2>2, StandsSplit
  <2>5. Len(first) \in Nat /\ Len(head) \in Nat /\ Len(body) \in Nat /\ l \in Nat
    BY <1>2, <1>4 DEF Text
  <2>6. 0 + Len(x) = Len(first) + Len(head) /\ 0 + Len(first) = Len(first)
    BY <2>4, <2>5
  <2> QED
    BY <2>1, <2>3, <2>4, <2>5, <2>6
<1>10. IsAt(Len(first), "HeaderName", u)
  BY <1>2, <1>3, <1>6, <1>9, ReadRequestLine DEF first, u, o
<1> DEFINE Bad == \E x \in DOMAIN h : \E i \in 1 .. Len(h[x]) : Breaks(h[x], i)
<1> HIDE DEF u
<1>11. PICK e \in Nat : /\ Len(first) + Len(head) = (e + 1) + 1 /\ stream[(e + 1) + 1] = "LF"
                        /\ IF Bad THEN Whole(e).state = "ProtocolError"
                           ELSE IsAt(e + 1, "HeaderEndLF", v)
  <2>1. kind \in Kinds /\ IsMessage(kind, u)
    BY <1>7 DEF Kinds, IsMessage
  <2> QED
    BY <1>2, <1>6, <1>7, <1>9, <1>10, <2>1, ReadSection DEF v, p
<1> DEFINE k == (e + 1) + 1
<1>12. k \in Nat /\ e + 1 \in Nat /\ e <= l /\ k <= l /\ e + 1 \in 0 .. l - 1 /\ l = k + Len(body)
  BY <1>9, <1>11
<1>13. CASE Bad
  <2>1. Whole(l) = Whole(e)
    BY <1>9, <1>11, <1>12, <1>13, FinalStays DEF Final
  <2> QED
    BY <1>5, <1>11, <1>13, <2>1 DEF h
<1>14. CASE ~ Bad
  <2>1. IsAt(e + 1, "HeaderEndLF", v) /\ ~ Refused(m)
    BY <1>5, <1>11, <1>14 DEF h
  <2>2. ~ Stuck("HeaderEndLF", v, "LF")
    <3>1. ~ Stuck(Whole(e + 1).state, Whole(e + 1).message, stream[(e + 1) + 1])
      BY <1>12 DEF Smooth
    <3> QED
      BY <1>11, <2>1, <3>1 DEF IsAt
  <2> DEFINE r == Iteration("HeaderEndLF", v, "LF", Before(e + 1))
  <2>3. PICK type \in {"Get", "Post", "Put", "Head"} :
            /\ Request!MethodStartsWith(v, MethodText[type])
            /\ Does(r, IF type \in {"Post", "Put"} THEN "MessageBody" ELSE "ParsingDone",
                       [v EXCEPT !.request_type = type])
    <3>1. "LF" \in Symbol
      BY DEF Symbol, Other
    <3> QED
      BY <2>2, <3>1, RequestEndIteration
  <2>4. type = m.request_type
    <3>1. MethodText[type] = word
      <4>1. Head(<<word>>) = word
        OBVIOUS
      <4> QED
        BY <1>8, <2>3, <4>1 DEF Request!MethodStartsWith
    <3> QED
      BY <1>2, <2>3, <3>1, MethodWords DEF word, Request!RequestType
  <2> DEFINE s == IF type \in {"Post", "Put"} THEN "MessageBody" ELSE "ParsingDone"
             q == [v EXCEPT !.request_type = type]
  <2>5. IsAt(k, s, q)
    <3>1. "HeaderEndLF" \notin Final \cup {BodyState}
      BY DEF Final, BodyState, Request!BodyState
    <3> HIDE DEF s, q
    <3> QED
      BY <1>11, <1>12, <2>1, <2>3, <3>1, Moves DEF s, q
  <2>6. q.headers = p /\ q.request_type = m.request_type /\ q.target_resource = target
    <3>1. "request_type" \in DOMAIN v
      BY <1>7, <1>8 DEF IsRequest
    <3> QED
      BY <1>8, <2>4, <3>1
  <2> HIDE DEF q, r, k
  <2>7. CASE m.request_type \in {"Post", "Put"}
    <3>1. Whole(k).state = BodyState /\ kind \in Kinds
      BY <2>4, <2>5, <2>7 DEF IsAt, BodyState, Request!BodyState, Kinds
    <3>2. /\ Whole(l).state = BodyState /\ Whole(l).message = Whole(k).message
          /\ Whole(l).rest = Whole(k).rest \o SubSeq(stream, k + 1, l)
      <4>1. l <= Len(stream)
        BY <1>9
      <4> HIDE DEF l
      <4> QED
        BY <1>9, <1>12, <3>1, <4>1, BodyGoesOn
    <3>3. SubSeq(stream, k + 1, l) = body
      <4>1. Stands(body, k)
        BY <1>9, <1>11 DEF k
      <4> QED
        BY <1>2, <1>12, <4>1, RestIs
    <3>4. \A t \in Text : <<>> \o t = t
      BY DEF Text
    <3>5. Whole(l).rest = body /\ Whole(l).state = "MessageBody"
      BY <1>2, <2>5, <3>2, <3>3, <3>4 DEF IsAt, BodyState, Request!BodyState
    <3> QED
      BY <2>1, <2>5, <2>6, <2>7, <3>2, <3>5 DEF IsAt, body, h, p, target
  <2>8. CASE m.request_type \notin {"Post", "Put"}
    <3>1. s = "ParsingDone"
      BY <2>4, <2>8
    <3>2. Whole(l) = Whole(k)
      BY <1>9, <1>12, <2>5, <3>1, FinalStays DEF IsAt, Final
    <3> QED
      BY <2>1, <2>5, <2>6, <2>8, <3>1, <3>2 DEF IsAt, h, p, target
  <2> QED
    BY <2>7, <2>8
<1> QED
  BY <1>13, <1>14

\* What a parser makes of the status line of a response
LEMMA ReadStatusLine ==
    ASSUME kind = "response", stream \in Text, NEW code,
           Stands(StatusHead \o CodeText(code) \o Crlf, 0)
    PROVE  IF \A c \in Phrase : HTTPResponseCodes[c] # code
           THEN 10 <= Len(stream) /\ Whole(10).state = "ProtocolError"
           ELSE /\ Len(StatusHead \o CodeText(code) \o Crlf) = 16 /\ code \in Text
                /\ IsAt(16, "HeaderName", [NewMessage(kind) EXCEPT !.temp_http_status_code = code,
                                                                   !.response_code = code])
<1> DEFINE t == CodeText(code)
           Fits(c) == HTTPResponseCodes[c] = code
           o == NewMessage(kind)
<1>0. /\ StatusHead \in Text /\ Len(StatusHead) = 9 /\ Crlf \in Text /\ Len(Crlf) = 2
      /\ Crlf[1] = "CR" /\ Crlf[2] = "LF" /\ Len(stream) \in Nat
  BY DEF StatusHead, Crlf, Text, Symbol, Other, Letter, Digit
<1>1. ASSUME t \in Text
      PROVE  /\ Stands(StatusHead, 0) /\ Stands(t, 9) /\ Stands(Crlf, 9 + Len(t))
             /\ Len(StatusHead \o t \o Crlf) = 11 + Len(t)
  <2> HIDE DEF t
  <2> DEFINE x == StatusHead \o t
  <2>1. x \in Text /\ Stands(x \o Crlf, 0)
    BY <1>0, <1>1, Together DEF t
  <2>2. Stands(StatusHead \o t, 0) /\ x = StatusHead \o t
    <3> HIDE DEF x
    <3>1. Stands(x, 0)
      BY <1>0, <2>1, StandsSplit
    <3> QED
      BY <3>1 DEF x
  <2> HIDE DEF x
  <2>3. Stands(Crlf, 0 + Len(x)) /\ Len(x \o Crlf) = Len(x) + 2
    BY <1>0, <2>1, StandsSplit
  <2>4. Stands(StatusHead, 0) /\ Stands(t, 0 + 9) /\ Len(x) = 9 + Len(t)
    BY <1>0, <1>1, <2>2, StandsSplit
  <2> DEFINE k == Len(t)
             j == Len(x)
  <2>5. k \in Nat /\ j = 9 + k
    BY <1>1, <2>4 DEF Text
  <2> HIDE DEF k, j
  <2>6. 0 + j = 9 + k /\ j + 2 = 11 + k /\ 0 + 9 = 9
    BY <2>5
  <2> QED
    BY <2>2, <2>3, <2>4, <2>6 DEF k, j
<1>2. CASE ~ \E c \in Phrase : Fits(c)
  <2>1. t = <<>> /\ <<>> \in Text /\ Len(<<>>) = 0
    BY <1>2 DEF CodeText, Text
  <2>2. IsAt(9, "StatusCode", o) /\ Stands(Crlf, 9 + Len(t))
    BY <1>1, <2>1, ReadVersion
  <2>3. stream[9 + 1] = "CR" /\ 10 <= Len(stream)
    <3>1. Stands(Crlf, 9)
      BY <2>1, <2>2
    <3> QED
      BY <1>0, <3>1 DEF Stands
  <2> HIDE DEF o
  <2>4. Does(Iteration("StatusCode", o, "CR", Before(9)), "ProtocolError", o)
    <3>1. ~ isdigit("CR")
      BY DEF isdigit, Digit
    <3> QED
      BY <3>1, ResponseWords
  <2>5. IsAt(9 + 1, "ProtocolError", o)
    <3>1. "StatusCode" \notin Final \cup {BodyState}
      BY DEF Final, BodyState, Response!BodyState
    <3> QED
      BY <2>2, <2>3, <2>4, <3>1, Moves
  <2>6. Whole(10).state = "ProtocolError"
    BY <2>5 DEF IsAt
  <2> QED
    BY <1>2, <2>3, <2>6
<1>3. CASE \E c \in Phrase : Fits(c)
  <2> DEFINE d == CHOOSE c \in Phrase : Fits(c)
             phrase == IF d = "TemporaryRedirect" THEN "UseProxy" ELSE d
             q == <<"SP", phrase>>
  <2>1. d \in Phrase /\ Fits(d)
    BY <1>3, Zenon
  <2>2. t = code \o <<"SP", IF d = "TemporaryRedirect" THEN "UseProxy" ELSE d>>
    BY <1>3 DEF CodeText
  <2> HIDE DEF d
  <2>3. phrase \in Phrase
    BY <2>1 DEF Phrase, HTTPResponseCodes
  <2>4. PICK x, y, z \in Digit : code = <<x, y, z>>
    <3>1. \E x, y, z \in Digit : HTTPResponseCodes[d] = <<x, y, z>>
      BY <2>1, CodeDigits
    <3> QED
      BY <2>1, <3>1
  <2>5. code \in Text /\ Len(code) = 3 /\ code[1] = x /\ code[2] = y /\ code[3] = z
    <3>1. x \in Symbol /\ y \in Symbol /\ z \in Symbol
      BY DEF Symbol
    <3> QED
      BY <2>4, <3>1 DEF Text
  <2> HIDE DEF phrase
  <2>6. q \in Text /\ Len(q) = 2 /\ q[1] = "SP" /\ q[2] = phrase
    <3>1. phrase \in Symbol /\ "SP" \in Symbol
      BY <2>3 DEF Symbol, Other
    <3> QED
      BY <3>1 DEF Text
  <2>7. t = code \o q
    BY <2>2 DEF phrase
  <2> HIDE DEF q, t
  <2>8. t \in Text
    BY <2>5, <2>6, <2>7, Together
  <2>9. /\ Stands(StatusHead, 0) /\ Stands(t, 9) /\ Stands(Crlf, 9 + Len(t))
        /\ Len(StatusHead \o t \o Crlf) = 11 + Len(t)
    BY <1>1, <2>8
  <2>10. Stands(code, 9) /\ Stands(q, 9 + 3) /\ Len(t) = 5
    <3>1. Stands(code \o q, 9) /\ 9 \in Nat
      BY <2>7, <2>9
    <3>2. Stands(code, 9) /\ Stands(q, 9 + Len(code)) /\ Len(code \o q) = Len(code) + Len(q)
      BY <2>5, <2>6, <3>1, StandsSplit, ZenonT(40)
    <3> QED
      BY <2>5, <2>6, <2>7, <3>2
  <2>11. /\ stream[10] = x /\ stream[11] = y /\ stream[12] = z /\ stream[13] = "SP"
         /\ stream[14] = phrase /\ stream[15] = "CR" /\ stream[16] = "LF"
    <3>1. stream[9 + 1] = x /\ stream[9 + 2] = y /\ stream[9 + 3] = z
      BY <2>5, <2>10 DEF Stands
    <3>2. stream[12 + 1] = "SP" /\ stream[12 + 2] = phrase
      <4>1. Stands(q, 12)
        BY <2>10
      <4> QED
        BY <2>6, <4>1 DEF Stands
    <3>3. stream[14 + 1] = "CR" /\ stream[14 + 2] = "LF"
      <4>1. Stands(Crlf, 14)
        BY <2>9, <2>10
      <4> QED
        BY <1>0, <4>1 DEF Stands
    <3> QED
      BY <3>1, <3>2, <3>3
  <2>12. IsAt(9, "StatusCode", NewMessage(kind))
    BY <2>9, ReadVersion
  <2>13. IsAt(16, "HeaderName", [NewMessage(kind) EXCEPT !.temp_http_status_code = <<x, y, z>>,
                                                         !.response_code = <<x, y, z>>])
    BY <2>3, <2>11, <2>12, ReadCode
  <2>14. Len(StatusHead \o t \o Crlf) = 16
    BY <2>9, <2>10
  <2> QED
    BY <1>3, <2>4, <2>5, <2>13, <2>14 DEF t
<1> QED
  BY <1>2, <1>3

\* What a parser makes of the text of a response
LEMMA ReadResponse ==
    ASSUME kind = "response", stream \in Text, NEW m, IsResponse(m), m.response_code \in Text,
           stream \in buildResponse(m, "HTTP1_1"), stream # <<>>, Plain(m)
    PROVE  LET w == Whole(Len(stream))
           IN  IF Refused(m) THEN w.state = "ProtocolError"
               ELSE /\ w.message.headers = [n \in DOMAIN m.headers |-> AsParsed(m.headers[n])]
                    /\ w.message.response_code = m.response_code
                    /\ IF headerContains(m.headers, <<"Content-Length">>)
                       THEN w.state = "ResponseMessageBody" /\ w.rest = m.raw_body
                       ELSE w.state = "ParsingDone" /\ w.rest = <<>>
<1> DEFINE code == m.response_code
           body == m.raw_body
           h == m.headers
           first == StatusHead \o CodeText(code) \o Crlf
           l == Len(stream)
           o == NewMessage(kind)
           u == [o EXCEPT !.temp_http_status_code = code, !.response_code = code]
           p == [n \in DOMAIN h |-> AsParsed(h[n])]
           v == [u EXCEPT !.headers = p]
<1>1. PICK head \in buildRawHeader(h) : stream = first \o head \o body
  BY DEF buildResponse, StatusHead
<1>2. body \in Text /\ IsHeaders(h) /\ head \in Text
  BY HeadersText DEF IsResponse
<1>3. first \in Text
  <2>1. StatusHead \in Text /\ Crlf \in Text
    BY DEF StatusHead, Crlf, Text, Symbol, Other, Letter, Digit
  <2>2. CodeText(code) \in Text
    BY CodeTextType
  <2> QED
    BY <2>1, <2>2, Together
<1>4. Refused(m) <=> \A c \in Phrase : HTTPResponseCodes[c] # code
  BY DEF Refused
<1>5. /\ \A x \in DOMAIN h : /\ \A i \in 1 .. Len(x) : is_token(x[i])
                             /\ \A i \in 1 .. Len(h[x]) : is_text(h[x][i])
      /\ ~ \E x \in DOMAIN h : \E i \in 1 .. Len(h[x]) : Breaks(h[x], i)
  BY DEF Plain, Breaks
<1>6. /\ IsResponse(u) /\ u.headers = NoHeaders /\ u.temp_header_name = <<>> /\ u.temp_header_value = <<>>
      /\ u.response_code = code
  <2>1. IsResponse(o) /\ o.headers = NoHeaders /\ o.temp_header_name = <<>> /\ o.temp_header_value = <<>>
    BY NewMessageType DEF NewMessage, Response!NewMessage, Kinds, IsMessage, Response!NoHeaders, NoHeaders
  <2>2. code \in Seq(Symbol \cup {"?"})
    BY DEF Text
  <2> HIDE DEF o, code
  <2> QED
    BY <2>1, <2>2 DEF IsResponse, code
<1>7. v.response_code = code /\ v.headers = p
  <2> HIDE DEF u, p, code
  <2> QED
    BY <1>6 DEF IsResponse
<1> HIDE DEF body, h, first, o, p, v
<1>8. /\ Stands(first, 0) /\ Stands(head, Len(first)) /\ Stands(body, Len(first) + Len(head))
      /\ l = (Len(first) + Len(head)) + Len(body)
      /\ Len(first) \in Nat /\ Len(head) \in Nat /\ Len(body) \in Nat /\ l \in Nat
  <2> DEFINE x == first \o head
  <2>1. x \in Text /\ Stands(x \o body, 0) /\ stream = x \o body
    BY <1>1, <1>2, <1>3, Together, StandsHere
  <2>2. Stands(first \o head, 0) /\ x = first \o head
    <3> HIDE DEF x
    <3>1. Stands(x, 0)
      BY <1>2, <2>1, StandsSplit
    <3> QED
      BY <3>1 DEF x
  <2> HIDE DEF x
  <2>3. Stands(body, 0 + Len(x)) /\ Len(x \o body) = Len(x) + Len(body)
    BY <1>2, <2>1, StandsSplit
  <2>4. /\ Stands(first, 0) /\ Stands(head, 0 + Len(first)) /\ Len(x) = Len(first) + Len(head)
    BY <1>2, <1>3, <2>2, StandsSplit
  <2>5. Len(first) \in Nat /\ Len(head) \in Nat /\ Len(body) \in Nat /\ l \in Nat
    BY <1>2, <1>3 DEF Text
  <2>6. 0 + Len(x) = Len(first) + Len(head) /\ 0 + Len(first) = Len(first)
    BY <2>4, <2>5
  <2> QED
    BY <2>1, <2>3, <2>4, <2>5, <2>6
<1>9. IF \A c \in Phrase : HTTPResponseCodes[c] # code
      THEN 10 <= l /\ Whole(10).state = "ProtocolError"
      ELSE Len(first) = 16 /\ IsAt(16, "HeaderName", u)
  <2> HIDE DEF code
  <2> QED
    BY <1>8, ReadStatusLine DEF first, u, o
<1>10. CASE Refused(m)
  <2>1. 10 <= l /\ Whole(10).state = "ProtocolError" /\ 10 \in Nat
    BY <1>4, <1>9, <1>10
  <2>2. Whole(l) = Whole(10)
    <3> HIDE DEF l
    <3> QED
      BY <1>8, <2>1, FinalStays DEF Final
  <2> QED
    BY <1>10, <2>1, <2>2
<1>11. CASE ~ Refused(m)
  <2> HIDE DEF u
  <2>1. IsAt(Len(first), "HeaderName", u)
    BY <1>4, <1>9, <1>11
  <2>2. PICK e \in Nat : /\ Len(first) + Len(head) = (e + 1) + 1 /\ stream[(e + 1) + 1] = "LF"
                         /\ IsAt(e + 1, "HeaderEndLF", v)
    <3>1. kind \in Kinds /\ IsMessage(kind, u)
      BY <1>6 DEF Kinds, IsMessage
    <3> QED
      BY <1>2, <1>5, <1>6, <1>8, <2>1, <3>1, ReadSection, ZenonT(40) DEF v, p
  <2> DEFINE k == (e + 1) + 1
             sized == headerContains(h, <<"Content-Length">>)
             s == IF sized THEN "ResponseMessageBody" ELSE "ParsingDone"
  <2>3. k \in Nat /\ e + 1 \in Nat /\ k <= l /\ l = k + Len(body)
    BY <1>8, <2>2
  <2>4. headerContains(v.headers, <<"Content-Length">>) = sized
    BY <1>7 DEF p, headerContains
  <2>5. IsAt(k, s, v)
    <3>1. "HeaderEndLF" \notin Final \cup {BodyState} /\ "LF" \in Symbol
      BY DEF Final, BodyState, Response!BodyState, Symbol, Other
    <3> HIDE DEF s, sized
    <3>2. Does(Iteration("HeaderEndLF", v, "LF", Before(e + 1)), s, v)
      BY <2>4, <3>1, ResponseEndIteration DEF s
    <3> QED
      BY <2>2, <2>3, <3>1, <3>2, Moves
  <2> HIDE DEF k
  <2>6. CASE sized
    <3>1. Whole(k).state = BodyState /\ kind \in Kinds
      BY <2>5, <2>6 DEF IsAt, BodyState, Response!BodyState, Kinds
    <3>2. /\ Whole(l).state = BodyState /\ Whole(l).message = Whole(k).message
          /\ Whole(l).rest = Whole(k).rest \o SubSeq(stream, k + 1, l)
      <4>1. l <= Len(stream)
        BY <1>8
      <4> HIDE DEF l
      <4> QED
        BY <1>8, <2>3, <3>1, <4>1, BodyGoesOn
    <3>3. SubSeq(stream, k + 1, l) = body
      <4>1. Stands(body, k)
        BY <1>8, <2>2 DEF k
      <4> QED
        BY <1>2, <2>3, <4>1, RestIs
    <3>4. \A t \in Text : <<>> \o t = t
      BY DEF Text
    <3>5. Whole(l).rest = body /\ Whole(l).state = "ResponseMessageBody"
      BY <1>2, <2>5, <3>2, <3>3, <3>4 DEF IsAt, BodyState, Response!BodyState
    <3> QED
      BY <1>7, <1>11, <2>5, <2>6, <3>2, <3>5 DEF IsAt, body, h, p
  <2>7. CASE ~ sized
    <3>1. s = "ParsingDone"
      BY <2>7
    <3>2. Whole(l) = Whole(k)
      BY <1>8, <2>3, <2>5, <3>1, FinalStays DEF IsAt, Final
    <3> QED
      BY <1>7, <1>11, <2>5, <2>7, <3>1, <3>2 DEF IsAt, h, p
  <2> QED
    BY <2>6, <2>7
<1> QED
  BY <1>10, <1>11

\* The text of a message goes out.
LEMMA SendSays ==
    ASSUME NEW m, IsMessage(kind, m), kind = "response" => m.response_code \in Text,
           NEW v, Send(m, IF kind = "request" THEN buildRequest(m) ELSE buildResponse(m, v))
    PROVE  SentInv'
<1>1. /\ sent' = <<m>> /\ kind' = kind
      /\ stream' \in IF kind = "request" THEN buildRequest(m) ELSE buildResponse(m, v)
  BY DEF Send
<1>2. sent'[1] = m
  BY <1>1
<1>3. kind # "request" => stream' \in buildResponse(m, "HTTP1_1") \cup {<<>>}
  <2>1. v # "HTTP1_1" => buildResponse(m, v) = {<<>>}
    BY DEF buildResponse
  <2> QED
    BY <1>1, <2>1
<1> QED
  BY <1>1, <1>2, <1>3 DEF SentInv, IsMessage

\* What is on its way stays what it is.
LEMMA SentKeeps == IInv /\ SentInv /\ [Next]_vars => SentInv'
<1> SUFFICES ASSUME IInv, SentInv, [Next]_vars PROVE SentInv'
  OBVIOUS
<1>1. CASE UNCHANGED <<kind, stream, sent>>
  BY <1>1 DEF SentInv, IsMessage
<1>2. CASE SendBuilt
  <2>1. pc = "compose" /\ IsMessage(kind, http_message)
        /\ (kind = "response" => http_message.response_code \in Text)
    BY <1>2 DEF SendBuilt, Send, IInv, TypeInv, ComposeInv
  <2> QED
    BY <1>2, <2>1, SendSays DEF SendBuilt
<1>3. CASE SendTemplate
  <2> DEFINE M(type, body) == HTTPResponseTemplates(NewMessage(kind), type, body)
  <2>1. PICK type \in Templates, body \in Bodies :
                Send(M(type, body), buildResponse(M(type, body), "HTTP1_1"))
    BY <1>3 DEF SendTemplate
  <2>2. kind = "response" /\ type \in TemplateType /\ body \in Text /\ Len(body) < 10
    BY <1>3, StreamsAssumption DEF SendTemplate, Text
  <2> DEFINE m == M(type, body)
  <2>3. IsMessage(kind, m) /\ m.response_code \in Text
    BY <2>2, TemplatesType DEF IsMessage
  <2>4. Send(m, IF kind = "request" THEN buildRequest(m) ELSE buildResponse(m, "HTTP1_1"))
    BY <2>1, <2>2
  <2> HIDE DEF m
  <2> QED
    BY <2>3, <2>4, SendSays
<1>4. CASE \/ UNCHANGED vars \/ Loop \/ TakeHeaders \/ SetVersion
           \/ \E n \in PieceSizes \cup {Len(stream) - fed}, keep \in BOOLEAN : Call(n, keep)
  <2>1. UNCHANGED <<kind, stream, sent>>
    BY <1>4 DEF vars, composer, Loop, Finish, Body, Advance, TakeHeaders, SetVersion, Call
  <2> QED
    BY <1>1, <2>1
<1>5. CASE AddHeader \/ RemoveHeader \/ SetTarget \/ SetType \/ SetCode \/ SetBody \/ FlushBody
  <2>1. ASSUME NEW m, Compose(m) PROVE UNCHANGED <<kind, stream, sent>>
    BY <2>1 DEF Compose
  <2> QED
    BY <1>1, <1>5, <2>1 DEF AddHeader, RemoveHeader, SetTarget, SetType, SetCode, SetBody, FlushBody
<1> QED
  BY <1>2, <1>3, <1>4, <1>5 DEF Next, Composition

\* What arrives is what was sent.
LEMMA ArrivesAsSent == IInv /\ SmoothInv /\ SentInv => RoundTrip
<1> SUFFICES ASSUME IInv, SmoothInv, SentInv, pc = "caller", fed = Len(stream), stream # <<>>,
                    ~ blind, sent # <<>>, Plain(sent[1])
             PROVE  LET m     == sent[1]
                        sized == headerContains(m.headers, <<"Content-Length">>)
                    IN  IF Refused(m) THEN current_state = "ProtocolError"
                        ELSE /\ http_message.headers = [n \in DOMAIN m.headers |-> AsParsed(m.headers[n])]
                             /\ \/ /\ kind = "request"
                                   /\ http_message.request_type = m.request_type
                                   /\ http_message.target_resource = m.target_resource
                                   /\ IF m.request_type \in {"Post", "Put"}
                                      THEN current_state = "MessageBody"
                                           /\ http_message.raw_body = m.raw_body
                                      ELSE current_state = "ParsingDone"
                                           /\ http_message.raw_body = <<>>
                                \/ /\ kind = "response"
                                   /\ http_message.response_code = m.response_code
                                   /\ IF sized /\ m.raw_body = <<>>
                                      THEN current_state = "ResponseMessageBody"
                                      ELSE current_state = "ParsingDone"
                                   /\ IF sized THEN IsPrefix(http_message.raw_body, m.raw_body)
                                      ELSE http_message.raw_body = <<>>
  BY DEF RoundTrip
<1> DEFINE m == sent[1]
           w == Whole(Len(stream))
<1>1. /\ kind \in Kinds /\ stream \in Text /\ Len(stream) \in Nat /\ Len(stream) \in 0 .. Len(stream)
      /\ IsMessage(kind, http_message) /\ Smooth(Len(stream))
      /\ AgreeWith(w, current_state, http_message)
  BY DEF IInv, TypeInv, CutInv, SmoothInv, Text
<1>2. IsReading(w)
  BY <1>1, WholeType
<1>3. CASE kind = "request"
  <2>1. /\ IsRequest(m) /\ stream \in buildRequest(m) /\ IsRequest(http_message) /\ Plain(m)
    BY <1>1, <1>3 DEF SentInv, IsMessage
  <2> HIDE DEF m
  <2>2. IF Refused(m) THEN w.state = "ProtocolError"
        ELSE /\ w.message.headers = [n \in DOMAIN m.headers |-> AsParsed(m.headers[n])]
             /\ w.message.request_type = m.request_type
             /\ w.message.target_resource = m.target_resource
             /\ IF m.request_type \in {"Post", "Put"}
                THEN w.state = "MessageBody" /\ w.rest = m.raw_body
                ELSE w.state = "ParsingDone" /\ w.rest = <<>>
    BY <1>1, <1>3, <2>1, ReadRequest
  <2> HIDE DEF w
  <2>3. /\ current_state = w.state /\ http_message.raw_body = w.rest
        /\ w.message = [http_message EXCEPT !.raw_body = <<>>]
    BY <1>1, <1>3 DEF AgreeWith
  <2>4. /\ w.message.headers = http_message.headers
        /\ w.message.request_type = http_message.request_type
        /\ w.message.target_resource = http_message.target_resource
    BY <2>1, <2>3 DEF IsRequest
  <2> QED
    BY <1>3, <2>2, <2>3, <2>4 DEF m
<1>4. CASE kind = "response"
  <2> DEFINE sized == headerContains(m.headers, <<"Content-Length">>)
  <2>1. /\ IsResponse(m) /\ m.response_code \in Text /\ stream \in buildResponse(m, "HTTP1_1")
        /\ IsResponse(http_message) /\ Plain(m)
    BY <1>1, <1>4 DEF SentInv, IsMessage
  <2> HIDE DEF m
  <2>2. IF Refused(m) THEN w.state = "ProtocolError"
        ELSE /\ w.message.headers = [n \in DOMAIN m.headers |-> AsParsed(m.headers[n])]
             /\ w.message.response_code = m.response_code
             /\ IF sized THEN w.state = "ResponseMessageBody" /\ w.rest = m.raw_body
                ELSE w.state = "ParsingDone" /\ w.rest = <<>>
    BY <1>1, <1>4, <2>1, ReadResponse
  <2> HIDE DEF w, sized
  <2>3. /\ w.message = [http_message EXCEPT !.raw_body = <<>>]
        /\ w.rest = <<>> => current_state = w.state /\ http_message.raw_body = <<>>
        /\ w.rest # <<>> => current_state = "ParsingDone" /\ IsPrefix(http_message.raw_body, w.rest)
        /\ w.rest # <<>> => w.state = BodyState
    BY <1>1, <1>2, <1>4 DEF AgreeWith, IsReading
  <2>4. /\ w.message.headers = http_message.headers
        /\ w.message.response_code = http_message.response_code
    BY <2>1, <2>3 DEF IsResponse
  <2>5. IsPrefix(<<>>, <<>>) /\ BodyState # "ProtocolError"
    BY <1>4 DEF IsPrefix, BodyState, Response!BodyState
  <2>6. CASE Refused(m)
    BY <2>2, <2>3, <2>5, <2>6 DEF m
  <2>7. CASE ~ Refused(m)
    <3>1. http_message.headers = [n \in DOMAIN m.headers |-> AsParsed(m.headers[n])]
          /\ http_message.response_code = m.response_code
      BY <2>2, <2>4, <2>7
    <3>2. IF sized /\ m.raw_body = <<>> THEN current_state = "ResponseMessageBody"
          ELSE current_state = "ParsingDone"
      BY <2>2, <2>3, <2>7
    <3>3. IF sized THEN IsPrefix(http_message.raw_body, m.raw_body) ELSE http_message.raw_body = <<>>
      BY <2>2, <2>3, <2>5, <2>7
    <3> QED
      BY <1>4, <2>7, <3>1, <3>2, <3>3 DEF m, sized
  <2> QED
    BY <2>6, <2>7
<1> QED
  BY <1>1, <1>3, <1>4 DEF Kinds

-----------------------------------------------------------------------------
(* The theorems.                                                           *)

\* The inductive invariant holds, for any texts, pieces and setters.
THEOREM Invariance == Spec => []IInv
<1>1. IInv /\ [Next]_vars => IInv'
  <2> SUFFICES ASSUME IInv, [Next]_vars PROVE IInv'
    OBVIOUS
  <2>1. CASE \E n \in PieceSizes \cup {Len(stream) - fed}, keep \in BOOLEAN : Call(n, keep)
    BY <2>1, CallKeeps
  <2>2. CASE Loop
    BY <2>2, FinishKeeps, BodyKeeps, AdvanceKeeps DEF Loop
  <2>3. CASE Composition
    BY <2>3, CompositionKeeps
  <2>4. CASE UNCHANGED vars
    <3>1. /\ kind' = kind /\ stream' = stream /\ fed' = fed /\ pos' = pos /\ pc' = pc
          /\ before' = before /\ blind' = blind /\ version' = version
          /\ sent' = sent /\ calls' = calls /\ current_state' = current_state
          /\ http_message' = http_message
      BY <2>4 DEF vars, composer
    <3>2. TypeInv'
      BY <3>1 DEF IInv, TypeInv, IsMessage, States
    <3>3. ComposeInv'
      BY <3>1 DEF IInv, ComposeInv, Start
    <3>4. \A n : Whole(n)' = Whole(n)
      BY <3>1, WholeStays
    <3>5. CutInv'
      BY <3>1, <3>4 DEF IInv, CutInv, AgreeWith, Stuck
    <3> QED
      BY <3>2, <3>3, <3>5 DEF IInv
  <2> QED
    BY <2>1, <2>2, <2>3, <2>4 DEF Next
<1> QED
  BY <1>1, InitInv, PTL DEF Spec

\* The variables keep their types: a parser is in one of its states, and what
\* it has collected are texts.
THEOREM TypeCorrect == Spec => []TypeOK
<1>1. IInv => TypeOK
  BY TypeInvType DEF IInv
<1> QED
  BY <1>1, Invariance, PTL

\* However a text is cut into pieces, the parser is where it would be had it
\* seen the text at once (unless it looked at a byte outside its buffer).
THEOREM CutsAreInvisible == Spec => []CuttingIsInvisible
<1>1. IInv => CuttingIsInvisible
  BY DEF IInv, CutInv, AgreeWith, CuttingIsInvisible
<1> QED
  BY <1>1, Invariance, PTL

\* Wherever a text is cut, LineBasedFrameDecoder finds the frames of the whole
\* text, unless it looks at an LF that is not there; with CR LF one frame begins
\* with every line up to the first CR that stands alone, and the search goes on
\* with the next line (the frame itself ends one character early).
THEOREM FramesStartTheLines == Spec => []FramesStartLines
<1>1. IInv => FramesStartLines
  <2> SUFFICES ASSUME IInv PROVE FramesStartLines
    OBVIOUS
  <2>1. stream \in Text /\ Len(stream) \in Nat
    BY DEF IInv, TypeInv, Text
  <2>2. ASSUME NEW type \in TerminatorType, NEW cut \in 0 .. Len(stream),
               NEW outside \in {"CR", "LF", "CTL"}
        PROVE  LET all   == Decode(stream, 1, type, outside, "CTL")
                   first == Decode(SubSeq(stream, 1, cut), 1, type, outside, outside)
                   from  == IF first = <<>> THEN 1 ELSE Resume(Last(first))
               IN  \/ all = first \o Decode(stream, from, type, outside, "CTL")
                   \/ /\ type = "CarriageReturnNewLine" /\ outside = "LF"
                      /\ cut \in At("CR") /\ cut + 1 \notin At("LF")
    <3>1. CASE Misled(stream, type, cut, outside)
      BY <2>1, <3>1 DEF Misled, At
    <3>2. CASE ~ Misled(stream, type, cut, outside)
      BY <2>1, <3>2, DecodeCut DEF After
    <3> QED
      BY <3>1, <3>2
  <2> DEFINE frames == Decode(stream, 1, "CarriageReturnNewLine", "CTL", "CTL")
             ends == {i \in At("CR") : \A j \in At("CR") : j <= i => j + 1 \in At("LF")}
  <2>3. ends = EndsOfLines(stream, 1)
    BY <2>1 DEF EndsOfLines, At
  <2>4. /\ {frames[i].begin + frames[i].length + 1 : i \in DOMAIN frames} = ends
        /\ {frames[i].begin : i \in DOMAIN frames} \subseteq {1} \cup {i + 2 : i \in ends}
    <3> HIDE DEF ends
    <3> QED
      BY <2>1, <2>3, DecodeLines
  <2>5. {Resume(frames[i]) : i \in DOMAIN frames} = {i + 2 : i \in ends}
    <3>1. frames \in Seq(Frames)
      BY <2>1, DecodeType
    <3>2. \A i \in DOMAIN frames : Resume(frames[i]) = (frames[i].begin + frames[i].length + 1) + 2
      <4> HIDE DEF frames
      <4>1. \A i \in DOMAIN frames : frames[i] \in Frames
        BY <3>1
      <4> QED
        BY <4>1 DEF Resume, Frames
    <3> DEFINE end(i) == frames[i].begin + frames[i].length + 1
    <3>3. {end(i) : i \in DOMAIN frames} = ends
      BY <2>4
    <3> HIDE DEF frames, ends, end
    <3>4. \A i \in DOMAIN frames : Resume(frames[i]) = end(i) + 2 /\ end(i) \in ends
      BY <3>2, <3>3 DEF end
    <3>5. \A e \in ends : \E i \in DOMAIN frames : e = end(i)
      BY <3>3
    <3> QED
      BY <3>4, <3>5
  <2> QED
    BY <2>2, <2>4, <2>5 DEF FramesStartLines
<1> QED
  BY <1>1, Invariance, PTL

\* A parser has passed every byte before its place: none of them is one at
\* which the request parser's loop stays for ever (the default branch of
\* HeaderEndLF, which does not move start_buffer).
THEOREM SmoothInvariance == Spec => []SmoothInv
<1>1. Init => SmoothInv
  BY DEF Init, SmoothInv, Smooth
<1>2. IInv /\ IInv' /\ SmoothInv /\ [Next]_vars => SmoothInv'
  BY SmoothKeeps
<1> QED
  BY <1>1, <1>2, Invariance, PTL DEF Spec

\* A message that a parser accepted says what the text says: the first line,
\* for every header name the value of its first line (the map keeps what it
\* has), and the body as far as it was handed over.
THEOREM MessagesMatch == Spec => []MessageMatchesText
BY MessageIsText, Invariance, SmoothInvariance, PTL

\* What the setters compose and buildRawMessage() writes, with the headers in
\* any order, the parsers read back, in any pieces, except for what they drop
\* of a value behind a colon; they refuse a request with another space in a
\* value, and a response whose code has no case in buildRawMessage().
THEOREM RoundTrips == Spec => []RoundTrip
<1>1. Init => SentInv
  BY DEF Init, SentInv
<1>2. Spec => []SentInv
  BY <1>1, SentKeeps, Invariance, PTL DEF Spec
<1> QED
  BY <1>2, ArrivesAsSent, Invariance, SmoothInvariance, PTL
===============================================================================
