----------------------------- MODULE HttpParser -----------------------------
(***************************************************************************)
(* HttpServerParserSimple and HttpClientParserSimple, one octet at a time, *)
(* with what their handlers in ApsStateEvents and ApcStateEvents accept.   *)
(*                                                                         *)
(* Printable text comes in two pieces.  "W" is the word that is expected   *)
(* where it stands: CONNECT, the path, HTTP/1.x, 200.  "P" is any other    *)
(* word, PUT or POST in the place of the method.  "SP", "CR" and "LF" are  *)
(* themselves; all other octets are not printable.                         *)
(***************************************************************************)
EXTENDS Sequences

Printable(octet) == octet \in {"W", "P", "SP"}

\* A word grows; only one piece alone is the word expected or PUT.
Grow(word, octet) == IF word = "NONE" THEN octet ELSE "OTHER"

\* A word of which only the beginning is looked at.
GrowPrefix(word, octet) == IF word = "NONE" THEN octet ELSE word

\* m_parse_state, the method or status code, path, version, m_cur_line.
\* verdict is what became of the last octet: "taken" or "refused", or
\* "accepted" with the head that it completes.
NewServer ==
    [state |-> "Method", method |-> "NONE", path |-> "NONE", version |-> "NONE", line |-> FALSE,
     verdict |-> "taken"]

NewClient == [NewServer EXCEPT !.state = "Version"]

Refused(p) == [p EXCEPT !.verdict = "refused"]

\* ParsingHeaderLine; done says what a blank line does.
HeaderLine(p, octet, done) ==
    IF octet = "LF" THEN (IF p.line THEN [p EXCEPT !.line = FALSE] ELSE done)
    ELSE IF Printable(octet) THEN [p EXCEPT !.line = TRUE]
    ELSE IF octet = "CR" THEN p
    ELSE Refused(p)

\* HttpServerHandler::onIncomingHttpRequest, which calls
\* onIncomingHttpConnectRequest; the other handlers refuse.
ConnectRequest(p) == p.method = "W" /\ p.path = "W" /\ p.version = "W"

\* The blank line behind a request.  PUT and POST have contents, which end
\* with the connection.
RequestEnds(p) ==
    IF p.method = "P" THEN [p EXCEPT !.state = "ContentUntilClose"]
    ELSE IF ConnectRequest(p) THEN [p EXCEPT !.verdict = "accepted"]
    ELSE Refused(p)

ServerParse(q, octet) ==
    LET p == [q EXCEPT !.verdict = "taken"] IN
    CASE p.state = "Method" ->
           IF octet = "SP" THEN [p EXCEPT !.state = "Path"]
           ELSE IF Printable(octet) THEN [p EXCEPT !.method = Grow(@, octet)]
           ELSE Refused(p)
      [] p.state = "Path" ->
           IF octet = "SP" THEN [p EXCEPT !.state = "Version"]
           ELSE IF Printable(octet) THEN [p EXCEPT !.path = Grow(@, octet)]
           ELSE Refused(p)
      [] p.state = "Version" ->
           IF octet = "LF" THEN [p EXCEPT !.state = "HeaderLine"]
           ELSE IF Printable(octet) THEN [p EXCEPT !.version = GrowPrefix(@, octet)]
           ELSE IF octet = "CR" THEN p
           ELSE Refused(p)
      [] p.state = "HeaderLine" -> HeaderLine(p, octet, RequestEnds(p))
      [] p.state = "ContentUntilClose" -> p

\* onIncomingHttpResponse looks at the status code only.
ResponseEnds(p) ==
    IF p.method = "W" THEN [p EXCEPT !.verdict = "accepted"] ELSE Refused(p)

ClientParse(q, octet) ==
    LET p == [q EXCEPT !.verdict = "taken"] IN
    CASE p.state = "Version" ->
           IF octet = "SP" THEN [p EXCEPT !.state = "StatusCode"]
           ELSE IF Printable(octet) \/ octet = "CR" THEN p
           ELSE Refused(p)
      [] p.state = "StatusCode" ->
           IF octet = "SP" THEN [p EXCEPT !.state = "ReasonPhrase"]
           ELSE IF Printable(octet) THEN [p EXCEPT !.method = Grow(@, octet)]
           ELSE Refused(p)
      [] p.state = "ReasonPhrase" ->
           IF octet = "LF" THEN [p EXCEPT !.state = "HeaderLine"]
           ELSE IF Printable(octet) \/ octet = "CR" THEN p
           ELSE Refused(p)
      [] p.state = "HeaderLine" -> HeaderLine(p, octet, ResponseEnds(p))
=============================================================================
