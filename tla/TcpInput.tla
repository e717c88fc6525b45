------------------------------ MODULE TcpInput ------------------------------
(***************************************************************************)
(* How an APS or an APC takes apart what comes in on its TCP connections:  *)
(* an HTTP head, then APP messages, in segments that end anywhere          *)
(* (onIncomingTcpData of ApsStateEvents and ApcStateEvents).               *)
(*                                                                         *)
(* An octet is a step.  When the HTTP parser refuses one it gives up the   *)
(* rest of the segment, but keeps its state and goes on with the next one: *)
(* the negative result meant to be an error is incremented by the loop.    *)
(* Segments of length zero change nothing.                                 *)
(***************************************************************************)
EXTENDS AppMessageParser, HttpParser, SequencesExt

CONSTANTS
    HttpOctets,     \* octets that come in a head
    AppOctets,      \* octets that come behind it
    MaxHead,        \* bound: octets of a head
    MaxFed,         \* bound: octets behind the heads
    MaxConnections, \* bound: TCP connections
    AnyHeads        \* bound: connections that bring any head, those behind it a plain one

VARIABLES
    role,           \* "APS" or "APC"
    inHttp,         \* m_in_http
    http,           \* m_http_parser
    discarding,     \* stop: the rest of the segment is given up
    app,            \* m_app_parser
    connections,    \* TCP connections so far
    head,           \* octets of this connection that the HTTP parser took, but for CR
    fed,            \* octets the APP parser was given since it was cleared
    dispatched,     \* messages it dispatched since then
    ends            \* the length of fed when it dispatched each of them

httpVars == <<inHttp, http, discarding, head>>
appVars == <<app, fed, dispatched, ends>>
vars == <<role, connections, httpVars, appVars>>

NewHttp(r) == IF r = "APS" THEN NewServer ELSE NewClient

Init ==
    /\ role \in {"APS", "APC"}
    /\ inHttp = TRUE /\ http = NewHttp(role) /\ discarding = FALSE /\ head = <<>>
    /\ app = NewParser /\ fed = <<>> /\ dispatched = <<>> /\ ends = <<>>
    /\ connections = 1

HttpParse(octet) ==
    IF role = "APS" THEN ServerParse(http, octet) ELSE ClientParse(http, octet)

\* A head as short as it can be.
PlainHead ==
    IF role = "APS" THEN <<"W", "SP", "W", "SP", "W", "LF", "LF">>
                    ELSE <<"P", "SP", "W", "SP", "LF", "LF">>

\* onIncomingTcpHttpData; the octets behind the head, in the same segment or
\* a later one, go to the APP parser.
IncomingHttpOctet(octet) ==
    /\ inHttp /\ ~discarding
    /\ Len(head) < MaxHead
    /\ connections > AnyHeads => IsPrefix(Append(head, octet), PlainHead)
    /\ http' = HttpParse(octet)
    /\ inHttp' = (http'.verdict # "accepted")
    /\ discarding' = (http'.verdict = "refused")
    /\ head' = IF discarding' \/ octet = "CR" THEN head ELSE Append(head, octet)
    /\ UNCHANGED <<role, connections, appVars>>

\* onIncomingTcpAppData.
IncomingAppOctet(octet) ==
    /\ ~inHttp
    /\ Len(fed) < MaxFed
    /\ app' = Parse(app, octet)
    /\ fed' = Append(fed, octet)
    /\ dispatched' = dispatched \o app'.out
    /\ ends' = IF app'.out = <<>> THEN ends ELSE Append(ends, Len(fed'))
    /\ UNCHANGED <<role, connections, httpVars>>

\* Segments that end elsewhere make no difference.
SegmentEnds ==
    /\ discarding
    /\ discarding' = FALSE
    /\ UNCHANGED <<role, connections, inHttp, http, head, appVars>>

\* Mutant: the head is not cleared either.
ClearedHttp_Kept == http

ClearedHttp == NewHttp(role)

\* onIncomingTcpConnection clears the HTTP parser; the APP parser is cleared
\* by the APC, when the connection before was closed, and by nobody in the
\* APS: the octets of all its clients are one stream.
NewConnection ==
    /\ connections < MaxConnections
    /\ connections' = connections + 1
    /\ inHttp' = TRUE /\ http' = ClearedHttp /\ discarding' = FALSE /\ head' = <<>>
    /\ IF role = "APC"
       THEN app' = NewParser /\ fed' = <<>> /\ dispatched' = <<>> /\ ends' = <<>>
       ELSE UNCHANGED appVars
    /\ UNCHANGED role

Next ==
    \/ \E octet \in HttpOctets : IncomingHttpOctet(octet)
    \/ \E octet \in AppOctets : IncomingAppOctet(octet)
    \/ SegmentEnds
    \/ NewConnection

Spec == Init /\ [][Next]_vars

-----------------------------------------------------------------------------
(* Properties.                                                              *)

\* The first blank line is at the end.
EndsBlank(s) ==
    /\ Len(s) > 1
    /\ \A i \in 1 .. Len(s) - 1 :
           (s[i] = "LF" /\ s[i + 1] = "LF") <=> (i = Len(s) - 1)

IsRequest(s) ==
    /\ EndsBlank(s)
    /\ IsPrefix(<<"W", "SP", "W", "SP", "W">>, s)

IsResponse(s) ==
    /\ EndsBlank(s)
    /\ \E i \in 1 .. Len(s) - 2 :
           /\ SubSeq(s, i, i + 2) = <<"SP", "W", "SP">>
           /\ \A j \in 1 .. i - 1 : s[j] # "SP"

IsHead(s) == IF role = "APS" THEN IsRequest(s) ELSE IsResponse(s)

\* The handshake is over exactly when the octets that were not given up form
\* a CONNECT request for the path, or a response with status 200, to the
\* blank line, and no octet that completes one is refused: no matter how
\* segments divide them, what was given up between them, and what an earlier
\* connection left behind.
HeadIsRecognised ==
    /\ ~inHttp <=> IsHead(head)
    /\ inHttp => \A octet \in HttpOctets :
                    HttpParse(octet).verdict = "accepted" <=> IsHead(Append(head, octet))

\* The messages a parser can finish: not those of variable length with none.
Finishes(message) ==
    /\ LengthIsValid(message.type, Len(message.payload))
    /\ message.type = Avdecc => message.payload # <<>>

\* The octets of message i end at ends[i] and begin behind this one.
EndBefore(i) == IF i = 1 THEN 0 ELSE ends[i - 1]

\* What is behind the last message.
Rest == SubSeq(fed, EndBefore(Len(ends) + 1) + 1, Len(fed))

\* What was dispatched is what is in the stream, in order, with nothing left
\* out and nothing added; what is left over does not begin with a message.
\* In the APS the stream goes on from one client to the next.
MessagesSplit ==
    /\ Len(ends) = Len(dispatched)
    /\ \A i \in 1 .. Len(ends) :
           /\ Finishes(dispatched[i])
           /\ SubSeq(fed, EndBefore(i) + 1, ends[i]) = Encode(dispatched[i])
    /\ \A n \in 2 .. Len(Rest) :
           ~(/\ Finishes([type |-> Rest[1], payload |-> SubSeq(Rest, 3, n)])
             /\ Rest[2] = n - 2)
=============================================================================
