-------------------------------- MODULE Proxy --------------------------------
(***************************************************************************)
(* An APS and an APC joined by a TCP connection, as the test application   *)
(* joins them (avdecc_test_app.cpp) but with the octets in flight: each    *)
(* machine runs on its own, the queues wire (to the APC) and uplink (to    *)
(* the APS) keep the order, and the ends learn of the connection and of    *)
(* its end at different times.  The APC makes one connection in its life.  *)
(***************************************************************************)
EXTENDS Aps

CONSTANT EagerRequest   \* the request may be read before run() waits for it

ASSUME ProxyAssumption == EagerRequest \in BOOLEAN

VARIABLES state, active, raised, apcMsg, apsMsg, linkMsg, nopDue, now, http, socket, uplink,
          captured, heard, processed, sent, linkSeen, available,
          backlog   \* the APC's connection waits for the server to accept it

Client == INSTANCE Apc

clientVars == <<state, active, raised, apcMsg, apsMsg, linkMsg, nopDue, now, http, socket, uplink,
                captured, heard, processed, sent, linkSeen, available>>
proxyVars  == <<vars, clientVars, backlog>>

ProxyInit == Init /\ Client!Init /\ backlog = FALSE

\* While one machine is in run() nothing else happens, as in the test
\* application: the machines share nothing but the queues, and a run() neither
\* reads its own queue nor waits for anything.
ServerRuns ==
    /\ ~active
    /\ Run \/ Step
    /\ UNCHANGED <<clientVars, backlog>>

ClientRuns ==
    /\ ~running
    /\ Client!Run \/ Client!StepConnected
    /\ UNCHANGED <<vars, backlog>>

Quiet == ~running /\ ~active

\* What happens at one end only.  Time stands still here: the NOP timers
\* concern each machine alone.
ServerAlone ==
    /\ OnNetLinkStatusUpdated(~link) \/ OnNetAvdeccMessageReceived \/ RequestFinish
    /\ UNCHANGED <<clientVars, backlog>>

ClientAlone ==
    /\ Client!OnNetAvdeccMessageReceived \/ Client!RequestFinish
    /\ UNCHANGED <<vars, backlog>>

\* connectToProxy: the connection waits at the server until it is accepted;
\* the client is told at once or later.
Connect ==
    /\ ~running
    /\ \E connected \in BOOLEAN : Client!DoBegin(connected)
    /\ backlog' = TRUE
    /\ UNCHANGED vars

ClientConnected ==
    /\ Client!OnIncomingTcpConnection
    /\ UNCHANGED <<vars, backlog>>

Accept ==
    /\ backlog
    /\ OnIncomingTcpConnection
    /\ backlog' = FALSE
    /\ UNCHANGED clientVars

\* The server reads the next message of the client.
ServerReads ==
    /\ uplink # <<>>
    /\ LET m == Head(uplink) IN
         IF m.type = "HTTP_REQUEST"
         THEN (EagerRequest \/ cs = "ACCEPT") /\ OnIncomingTcpHttpData("done")
         ELSE OnAppMessage(m.type, m.n)
    /\ uplink' = Tail(uplink)
    /\ UNCHANGED <<state, active, raised, apcMsg, apsMsg, linkMsg, nopDue, now, http, socket,
                   captured, heard, processed, sent, linkSeen, available, backlog>>

\* The client reads the next message of the server.
ClientReadsNext ==
    /\ wire # <<>>
    /\ LET m == Head(wire) IN
         IF m.type = "HTTP_200" THEN Client!OnHttpResponse
                                ELSE Client!OnAppMessage(m.type, m.n)
    /\ wire' = Tail(wire)
    /\ UNCHANGED <<stateVars, flags, requestValid, slotVars, timerVars, eventsVars, tcpVars,
                   worldVars, logVars, backlog>>

\* An end learns that the other one closed, perhaps before it has read all,
\* or that the server is closed.
ServerSeesClose ==
    /\ socket = "closed"
    /\ OnTcpConnectionClosed
    /\ UNCHANGED <<clientVars, backlog>>

ClientSeesClose ==
    /\ IF backlog THEN ~server ELSE tcp # "open"
    /\ Client!OnTcpConnectionClosed
    /\ backlog' = FALSE
    /\ UNCHANGED vars

\* Octets for an end that is gone.
Lost ==
    \/ socket = "closed" /\ ClientReads /\ UNCHANGED <<clientVars, backlog>>
    \/ ~backlog /\ tcp # "open" /\ Client!ServerReads /\ UNCHANGED <<vars, backlog>>

ProxyNext ==
    \/ ServerRuns \/ ClientRuns \/ Connect
    \/ /\ Quiet
       /\ \/ ServerAlone \/ ClientAlone \/ ClientConnected \/ Accept
          \/ ServerReads \/ ClientReadsNext \/ ServerSeesClose \/ ClientSeesClose \/ Lost

ProxySpec == ProxyInit /\ [][ProxyNext]_proxyVars

-----------------------------------------------------------------------------
(* Properties.                                                              *)

\* A frame of the APS's network reaches the APC's application at most once
\* and in order, through two slots and the queue between them.
ToClient == INSTANCE Relay
              WITH offered <- frames, delivered <- processed.last, deliveries <- processed.count
RelaysFrames == ToClient!Spec

\* The same for the PDUs of the APC on their way to the layer 2 network.
ToNetwork == INSTANCE Relay
               WITH offered <- captured, delivered <- up.last, deliveries <- up.count
RelaysPdus == ToNetwork!Spec

InTransfer ==
    /\ cs \in {"START_TRANSFER", "WAITING", "LINK_STATUS", "TRANSFER_TO_L2",
               "TRANSFER_TO_APC", "ASSIGN_ENTITY_ID", "SEND_NOP"}
    /\ state \in {"START_TRANSFER", "WAITING", "LINK_STATUS"}

\* Where the words about the link are in the queue.
Words == {i \in 1 .. Len(wire) : wire[i].type \in {"LINK_UP", "LINK_DOWN"}}

\* What the client was told of the link, at the place where the newest word
\* is: in flight, in the client's slot, or with the application.
LinkWord ==
    IF Words # {} THEN wire[CHOOSE i \in Words : \A j \in Words : j <= i].type
    ELSE IF "linkStatusMsg" \in raised THEN linkMsg
    ELSE linkSeen

\* In the transfer the newest word about the link, wherever it is, is the
\* status the server has, or the server still has to report a change.
LinkAgreement ==
    InTransfer /\ tcp = "open" /\ socket = "open" =>
        \/ "linkStatusChanged" \in flags
        \/ LinkWord = IF "linkStatus" \in flags THEN "LINK_UP" ELSE "LINK_DOWN"

\* The two never wait for each other: an APS that has no request yet and an
\* APC that has no answer yet have a message on its way.
NeverBothWait ==
    /\ cs = "ACCEPT" /\ requestValid = -1 /\ tcp = "open"
    /\ state = "CONNECTED" /\ "responseReceived" \notin raised /\ socket = "open"
    => uplink # <<>> \/ wire # <<>>
=============================================================================
