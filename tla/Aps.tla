--------------------------------- MODULE Aps ---------------------------------
(***************************************************************************)
(* The AVDECC Proxy Server state machine, ApsStateMachine (Aps.cpp): one   *)
(* machine serves one TCP client, the APC.  Event handlers (ApsStateEvents)*)
(* only set variables; run() (ApsStates::run) then calls the current state *)
(* procedure again and again until the state stops changing.  The library  *)
(* is single threaded: no event is handled while run() is on the stack, so *)
(* every event needs ~running and every state procedure needs running.     *)
(*                                                                         *)
(* Frames from the layer 2 network and the PDUs in AVDECC_FROM_APC messages *)
(* are numbered 1, 2, ... in the order in which they are received.          *)
(***************************************************************************)
EXTENDS Integers, Sequences

CONSTANTS
    NopInterval,    \* seconds of silence before a NOP is sent; 10 in the code
    MaxTime,        \* bound: seconds that pass
    MaxFrames,      \* bound: frames received from layer 2
    MaxPdus,        \* bound: AVDECC_FROM_APC messages received
    MaxWire,        \* bound: unread messages to the client when run() is called
    EagerAccept,    \* a client may connect before run() waits for one again
    LateClose,      \* the machine's own close is reported back to it later
    TornMessages    \* a connection may end in the middle of an APP message

ASSUME ApsAssumption ==
    /\ NopInterval \in Nat /\ MaxTime \in Nat /\ MaxFrames \in Nat
    /\ MaxPdus \in Nat /\ MaxWire \in Nat
    /\ EagerAccept \in BOOLEAN /\ LateClose \in BOOLEAN /\ TornMessages \in BOOLEAN

VARIABLES
    cs,             \* ApsStates::m_current_state, "NONE" for the null pointer
    running,        \* run() is on the stack
    \* ApsStateVariables
    flags,          \* its Boolean members that are true, see Flags
    requestValid, out, in, nopTimeout, currentTime,
    \* ApsStateEvents
    inHttp,         \* m_in_http and what the HTTP parser has read, see HttpInput
    parser,         \* where m_app_parser stands
    \* the TCP connection
    tcp,            \* "open", "none", or "closing" until its end is reported
    server,         \* the server accepts connections
    requested,      \* the client's request was accepted on this connection
    owed,           \* the client has sent only the first part of a message
    wire,           \* messages sent to the client that it has not read yet
    spoken,         \* the HTTP response was sent on this connection
    \* the layer 2 network and the clock
    clock, link, frames, pdus,
    \* what the machine has done: the number of the last frame handed to the
    \* client, of the last PDU handed to layer 2, how many there were of each
    down, up,
    told,           \* the link status the client was told last
    sentAt,         \* the time of the last message to the client
    lostAt          \* the time a frame too large to send was lost since then, or Never

stateVars  == <<cs, running>>
slotVars   == <<out, in>>
timerVars  == <<nopTimeout, currentTime>>
eventsVars == <<inHttp, parser>>
tcpVars    == <<tcp, server, requested, owed, spoken>>
worldVars  == <<clock, link, frames, pdus>>
logVars    == <<down, up, told, sentAt, lostAt>>
vars == <<stateVars, flags, requestValid, slotVars, timerVars, eventsVars, tcpVars, wire,
          worldVars, logVars>>

States == {"BEGIN", "INITIALIZE", "WAIT_FOR_CONNECT", "ACCEPT", "START_TRANSFER",
           "WAITING", "LINK_STATUS", "TRANSFER_TO_L2", "TRANSFER_TO_APC",
           "ASSIGN_ENTITY_ID", "SEND_NOP", "CLOSED", "CLOSE_AND_FINISH", "FINISH",
           "NONE"}

Flags == {"finished", "tcpConnected", "incomingTcpClosed", "linkStatus",
          "linkStatusChanged", "apcMsg", "L2Msg", "assignEntityIdRequest"}

\* The HTTP parser can still accept a request, has read one for another path
\* (it takes what follows for header lines of that one), or is no longer used.
HttpInput == {"fresh", "refused", "done"}

Garbage == 0    \* the content of m_out when no single client sent it
Never == -1

\* A message to the client: n is the frame's number, 0 when there is none.
Message == [type : {"HTTP_200", "LINK_UP", "LINK_DOWN", "AVDECC_FROM_APS",
                    "ENTITY_ID_RESPONSE", "NOP"},
            n    : Nat]
Msg(t) == [type |-> t, n |-> 0]

\* The state after setup() and, when the link is up, setLinkMac().
Init ==
    /\ cs = "BEGIN" /\ running = FALSE
    /\ requestValid = -1 /\ out = Garbage /\ in = 0
    /\ nopTimeout = 0 /\ currentTime = 0
    /\ inHttp = "fresh" /\ parser = "idle"
    /\ tcp = "none" /\ server = TRUE /\ requested = FALSE /\ owed = FALSE
    /\ wire = <<>> /\ spoken = FALSE
    /\ clock = 0 /\ link \in BOOLEAN /\ frames = 0 /\ pdus = 0
    /\ flags = IF link THEN {"linkStatus"} ELSE {}
    /\ down = [last |-> 0, count |-> 0]
    /\ up = [last |-> 0, count |-> 0]
    /\ told = FALSE /\ sentAt = 0 /\ lostAt = Never

-----------------------------------------------------------------------------
(* run() and the state procedures.  An action is a procedure doX together   *)
(* with the transition goToY it takes; it ends run() if the state stays.    *)

Run ==
    /\ ~running
    /\ cs # "NONE"
    /\ Len(wire) <= MaxWire
    /\ running' = TRUE
    /\ UNCHANGED <<cs, flags, requestValid, slotVars, timerVars, eventsVars, tcpVars, wire,
                   worldVars, logVars>>

Do(s) == running /\ cs = s

\* Mutant: run() does not stop when the state stays.
GoTo_NoCompare(s) == cs' = s /\ running' = (s # "NONE")

GoTo(s) == cs' = s /\ running' = (s \notin {cs, "NONE"})

\* goToInitialize: it forgets the link status setLinkMac stored, and leaves
\* incomingTcpClosed, linkStatusChanged and requestValid as they are.
DoBegin ==
    /\ Do("BEGIN")
    /\ GoTo("INITIALIZE")
    /\ flags' = flags \ {"apcMsg", "assignEntityIdRequest", "finished", "L2Msg",
                         "linkStatus", "tcpConnected"}
    /\ currentTime' = 0
    /\ nopTimeout' = 0
    /\ UNCHANGED <<requestValid, slotVars, eventsVars, tcpVars, wire, worldVars, logVars>>

\* Mutant: the close that was just handled stays pending.
GoToWaitForConnect_KeepsClosed ==
    /\ GoTo("WAIT_FOR_CONNECT")
    /\ flags' = flags \ {"tcpConnected"}
    /\ UNCHANGED <<requestValid, slotVars, timerVars, eventsVars, wire, worldVars, logVars>>

\* goToWaitForConnect: only these two flags are reset, not the pending messages.
GoToWaitForConnect ==
    /\ GoTo("WAIT_FOR_CONNECT")
    /\ flags' = flags \ {"tcpConnected", "incomingTcpClosed"}
    /\ UNCHANGED <<requestValid, slotVars, timerVars, eventsVars, wire, worldVars, logVars>>

DoInitialize ==
    /\ Do("INITIALIZE")
    /\ GoToWaitForConnect
    /\ UNCHANGED tcpVars

\* Mutant: the answer to the previous client's request is not forgotten.
GoToAccept_KeepsRequest == requestValid' = requestValid

GoToAccept == requestValid' = -1

\* Two ifs in a row: with finished and tcpConnected, goToFinish closes the
\* server and goToAccept then overrides the state it chose.
DoWaitForConnect ==
    /\ Do("WAIT_FOR_CONNECT")
    /\ server' = (server /\ "finished" \notin flags)
    /\ IF "tcpConnected" \in flags
       THEN GoTo("ACCEPT") /\ GoToAccept
       ELSE /\ GoTo(IF "finished" \in flags THEN "FINISH" ELSE cs)
            /\ UNCHANGED requestValid
    /\ UNCHANGED <<flags, slotVars, timerVars, eventsVars, tcp, requested, owed, spoken, wire,
                   worldVars, logVars>>

\* Mutant: the NOP is due one second late.
RearmNop_Late == nopTimeout' = currentTime + NopInterval + 1

\* Mutant: the interval is subtracted.
RearmNop_Past == nopTimeout' = currentTime - NopInterval - 1

RearmNop == nopTimeout' = currentTime + NopInterval

\* Octets written to a connection that is not open go nowhere.
Send(msgs) ==
    /\ wire' = IF tcp = "open" THEN wire \o msgs ELSE wire
    /\ sentAt' = currentTime
    /\ lostAt' = Never

LinkMessage == Msg(IF "linkStatus" \in flags THEN "LINK_UP" ELSE "LINK_DOWN")

\* Mutant: the link status goes out before the HTTP response.
Greeting_LinkFirst == <<LinkMessage, Msg("HTTP_200")>>

Greeting == <<Msg("HTTP_200"), LinkMessage>>

\* goToStartTransfer: the response, the link status, and the NOP timer;
\* linkStatusChanged is left as it was.  requestValid is never anything but
\* -1 and 200, so the branch to goToReject (and state REJECT) is dead code.
DoAccept ==
    /\ Do("ACCEPT")
    /\ \/ /\ requestValid = 200
          /\ GoTo("START_TRANSFER")
          /\ Send(Greeting)
          /\ RearmNop
          /\ spoken' = (tcp = "open")
          /\ told' = ("linkStatus" \in flags)
       \/ /\ requestValid = -1
          /\ GoTo("ACCEPT")
          /\ UNCHANGED <<wire, sentAt, lostAt, nopTimeout, spoken, told>>
    /\ UNCHANGED <<flags, requestValid, slotVars, currentTime, eventsVars, tcp, server,
                   requested, owed, worldVars, down, up>>

\* The procedures that only go to WAITING.
DoReturnToWaiting ==
    /\ running
    /\ cs \in {"START_TRANSFER", "LINK_STATUS", "TRANSFER_TO_L2", "TRANSFER_TO_APC",
               "ASSIGN_ENTITY_ID", "SEND_NOP"}
    /\ GoTo("WAITING")
    /\ UNCHANGED <<flags, requestValid, slotVars, timerVars, eventsVars, tcpVars, wire,
                   worldVars, logVars>>

\* Mutant: a closed connection is not noticed.
WaitingChoice_IgnoresClosed ==
    IF "finished" \in flags THEN "CLOSE_AND_FINISH"
    ELSE IF "linkStatusChanged" \in flags THEN "LINK_STATUS"
    ELSE IF "apcMsg" \in flags THEN "TRANSFER_TO_L2"
    ELSE IF "L2Msg" \in flags THEN "TRANSFER_TO_APC"
    ELSE IF "assignEntityIdRequest" \in flags THEN "ASSIGN_ENTITY_ID"
    ELSE IF nopTimeout < currentTime THEN "SEND_NOP"
    ELSE "WAITING"

\* doWaiting: the first condition that holds decides.
WaitingChoice ==
    IF "incomingTcpClosed" \in flags THEN "CLOSED"
    ELSE IF "finished" \in flags THEN "CLOSE_AND_FINISH"
    ELSE IF "linkStatusChanged" \in flags THEN "LINK_STATUS"
    ELSE IF "apcMsg" \in flags THEN "TRANSFER_TO_L2"
    ELSE IF "L2Msg" \in flags THEN "TRANSFER_TO_APC"
    ELSE IF "assignEntityIdRequest" \in flags THEN "ASSIGN_ENTITY_ID"
    ELSE IF nopTimeout < currentTime THEN "SEND_NOP"
    ELSE "WAITING"

\* Every transition out of WAITING, and staying there, leaves these alone.
DoWaiting(s) ==
    /\ Do("WAITING")
    /\ WaitingChoice = s
    /\ GoTo(s)
    /\ UNCHANGED <<requestValid, slotVars, currentTime, eventsVars, server, requested, owed,
                   spoken, worldVars>>

\* Nothing to do, or goToClosed, which only moves to CLOSED.
GoToClosedOrStay ==
    /\ DoWaiting("WAITING") \/ DoWaiting("CLOSED")
    /\ UNCHANGED <<flags, nopTimeout, tcp, wire, logVars>>

GoToLinkStatus ==
    /\ DoWaiting("LINK_STATUS")
    /\ Send(<<LinkMessage>>)
    /\ RearmNop
    /\ flags' = flags \ {"linkStatusChanged"}
    /\ told' = ("linkStatus" \in flags)
    /\ UNCHANGED <<tcp, down, up>>

\* Mutant: apcMsg is left set.
GoToTransferToL2_KeepsFlag ==
    /\ DoWaiting("TRANSFER_TO_L2")
    /\ up' = IF out = Garbage THEN up ELSE [last |-> out, count |-> up.count + 1]
    /\ UNCHANGED <<flags, nopTimeout, tcp, wire, down, told, sentAt, lostAt>>

GoToTransferToL2 ==
    /\ DoWaiting("TRANSFER_TO_L2")
    /\ flags' = flags \ {"apcMsg"}
    /\ up' = IF out = Garbage THEN up ELSE [last |-> out, count |-> up.count + 1]
    /\ UNCHANGED <<nopTimeout, tcp, wire, down, told, sentAt, lostAt>>

\* sendAvdeccToApc: a frame whose APP message does not fit sendMsgToApc's
\* buffer of 1500 octets is not sent, and nobody is told.
SendFrame ==
    \/ /\ Send(<<[type |-> "AVDECC_FROM_APS", n |-> in]>>)
       /\ down' = [last |-> in, count |-> down.count + 1]
    \/ /\ lostAt' = currentTime
       /\ UNCHANGED <<wire, sentAt, down>>

\* Mutant: L2Msg is left set.
GoToTransferToApc_KeepsFlag ==
    /\ DoWaiting("TRANSFER_TO_APC")
    /\ SendFrame
    /\ RearmNop
    /\ UNCHANGED <<flags, tcp, up, told>>

\* The flag is cleared and the timer armed also when the frame was lost.
GoToTransferToApc ==
    /\ DoWaiting("TRANSFER_TO_APC")
    /\ SendFrame
    /\ RearmNop
    /\ flags' = flags \ {"L2Msg"}
    /\ UNCHANGED <<tcp, up, told>>

\* Which id assignEntityId picks is the subject of module EntityIdPool.
GoToAssignEntityId ==
    /\ DoWaiting("ASSIGN_ENTITY_ID")
    /\ Send(<<Msg("ENTITY_ID_RESPONSE")>>)
    /\ RearmNop
    /\ flags' = flags \ {"assignEntityIdRequest"}
    /\ UNCHANGED <<tcp, down, up, told>>

GoToSendNop ==
    /\ DoWaiting("SEND_NOP")
    /\ Send(<<Msg("NOP")>>)
    /\ RearmNop
    /\ UNCHANGED <<flags, tcp, down, up, told>>

\* closeTcpConnection, as an integrator overrides it: the socket is closed.
CloseTcpConnection ==
    tcp' = IF tcp # "open" THEN tcp ELSE IF LateClose THEN "closing" ELSE "none"

GoToCloseAndFinish ==
    /\ DoWaiting("CLOSE_AND_FINISH")
    /\ CloseTcpConnection
    /\ UNCHANGED <<flags, nopTimeout, wire, logVars>>

DoClosed ==
    /\ Do("CLOSED")
    /\ CloseTcpConnection
    /\ GoToWaitForConnect
    /\ UNCHANGED <<server, requested, owed, spoken>>

\* goToFinish closes the server, and doFinish clears the state pointer.
DoCloseAndFinish ==
    /\ Do("CLOSE_AND_FINISH")
    /\ GoTo("FINISH")
    /\ server' = FALSE
    /\ UNCHANGED <<flags, requestValid, slotVars, timerVars, eventsVars, tcp, requested, owed,
                   spoken, wire, worldVars, logVars>>

DoFinish ==
    /\ Do("FINISH")
    /\ GoTo("NONE")
    /\ UNCHANGED <<flags, requestValid, slotVars, timerVars, eventsVars, tcpVars, wire,
                   worldVars, logVars>>

Step ==
    \/ DoBegin \/ DoInitialize \/ DoWaitForConnect \/ DoAccept \/ DoReturnToWaiting
    \/ GoToClosedOrStay \/ GoToLinkStatus \/ GoToTransferToL2 \/ GoToTransferToApc
    \/ GoToAssignEntityId \/ GoToSendNop \/ GoToCloseAndFinish
    \/ DoClosed \/ DoCloseAndFinish \/ DoFinish

-----------------------------------------------------------------------------
(* The events.  m_app_parser is "idle" between messages, "partial" inside   *)
(* one, "garbled" once it has lost the message boundaries and "dead" after  *)
(* a header it refuses.                                                     *)

\* The HTTP parser starts afresh; m_app_parser keeps what it holds.
OnIncomingTcpConnection ==
    /\ ~running
    /\ server
    /\ tcp # "open"
    /\ EagerAccept \/ (cs = "WAIT_FOR_CONNECT" /\ "tcpConnected" \notin flags /\ tcp = "none")
    /\ tcp' = "open"
    /\ flags' = flags \cup {"tcpConnected"}
    /\ inHttp' = "fresh"
    /\ requested' = FALSE /\ owed' = FALSE /\ spoken' = FALSE /\ wire' = <<>>
    /\ UNCHANGED <<stateVars, requestValid, slotVars, timerVars, parser, server, worldVars,
                   logVars>>

\* onIncomingTcpData, before the octets go to one of the two parsers.
OnIncomingTcpData(http) ==
    /\ ~running
    /\ tcp = "open"
    /\ http = (inHttp # "done")
    /\ UNCHANGED <<stateVars, in, timerVars, tcp, server, spoken, wire, clock, link, frames,
                   logVars>>

\* Octets for the HTTP parser: a part of a request, which leaves it "fresh", a
\* request for another path, or one for the configured path.
OnIncomingTcpHttpData(result) ==
    /\ OnIncomingTcpData(TRUE)
    /\ inHttp = "refused" => result = "refused"
    /\ flags' = flags \cup {"tcpConnected"}
    /\ requestValid' = IF result = "done" THEN 200 ELSE requestValid
    /\ inHttp' = result
    /\ requested' = (result = "done")
    /\ UNCHANGED <<out, parser, owed, pdus>>

Aligned == parser = IF owed THEN "partial" ELSE "idle"

\* The first octets of an APP message.
OnAppPrefix ==
    /\ OnIncomingTcpData(FALSE)
    /\ ~owed
    /\ owed' = TRUE
    /\ parser' = IF Aligned THEN "partial" ELSE IF parser = "dead" THEN "dead" ELSE "garbled"
    /\ flags' = flags \cup {"tcpConnected"}
    /\ UNCHANGED <<requestValid, out, inHttp, requested, pdus>>

\* A whole APP message, or the rest of one, that the parser reads as it was
\* sent; n is the number of the PDU it carries.  "NOP" stands for all
\* messages whose handlers do nothing.
OnAppMessage(kind, n) ==
    /\ OnIncomingTcpData(FALSE)
    /\ Aligned
    /\ owed' = FALSE
    /\ parser' = IF kind = "MALFORMED" THEN "dead" ELSE "idle"
    /\ \/ /\ kind = "AVDECC_FROM_APC"
          /\ n <= MaxPdus
          /\ flags' = flags \cup {"tcpConnected", "apcMsg"}
          /\ pdus' = n
          /\ out' = n
       \/ /\ kind = "ENTITY_ID_REQUEST"
          /\ flags' = flags \cup {"tcpConnected", "assignEntityIdRequest"}
          /\ UNCHANGED <<pdus, out>>
       \/ /\ kind \in {"NOP", "MALFORMED"}
          /\ flags' = flags \cup {"tcpConnected"}
          /\ UNCHANGED <<pdus, out>>
    /\ UNCHANGED <<requestValid, inHttp, requested>>

\* Octets that the parser takes for something else: they complete the message
\* that an earlier connection left unfinished, or form a message of their own.
OnGarbledMessage ==
    /\ OnIncomingTcpData(FALSE)
    /\ ~Aligned
    /\ owed' = FALSE
    /\ IF parser = "dead"
       THEN /\ flags' = flags \cup {"tcpConnected"}
            /\ UNCHANGED <<parser, out>>
       ELSE /\ parser' \in {"idle", "garbled", "dead"}
            /\ \E dispatched \in {{}, {"apcMsg"}, {"assignEntityIdRequest"}} :
                 /\ flags' = flags \cup {"tcpConnected"} \cup dispatched
                 /\ out' = IF "apcMsg" \in dispatched THEN Garbage ELSE out
    /\ UNCHANGED <<requestValid, inHttp, requested, pdus>>

\* The client closed, or the machine's own close is reported to it.
OnTcpConnectionClosed ==
    /\ ~running
    /\ \/ tcp = "open" /\ (TornMessages \/ ~owed)
       \/ tcp = "closing"
    /\ tcp' = "none"
    /\ flags' = flags \cup {"incomingTcpClosed"}
    /\ UNCHANGED <<stateVars, requestValid, slotVars, timerVars, eventsVars, server, requested,
                   owed, spoken, wire, worldVars, logVars>>

\* Mutant: the change is stored but not flagged.
LinkFlags_NoChange(active) ==
    IF active THEN flags \cup {"linkStatus"} ELSE flags \ {"linkStatus"}

\* The flags after onNetLinkStatusUpdated(active).
LinkFlags(active) ==
    IF active = ("linkStatus" \in flags) THEN flags
    ELSE {"linkStatusChanged"} \cup
         (IF active THEN flags \cup {"linkStatus"} ELSE flags \ {"linkStatus"})

OnNetLinkStatusUpdated(active) ==
    /\ ~running
    /\ link' = active
    /\ flags' = LinkFlags(active)
    /\ UNCHANGED <<stateVars, requestValid, slotVars, timerVars, eventsVars, tcpVars, wire,
                   clock, frames, pdus, logVars>>

\* One slot: a frame that was not yet forwarded is overwritten.
OnNetAvdeccMessageReceived ==
    /\ ~running
    /\ frames < MaxFrames
    /\ frames' = frames + 1
    /\ in' = frames + 1
    /\ flags' = flags \cup {"L2Msg"}
    /\ UNCHANGED <<stateVars, requestValid, out, timerVars, eventsVars, tcpVars, wire,
                   clock, link, pdus, logVars>>

OnTimeTick ==
    /\ ~running
    /\ clock < MaxTime
    /\ clock' = clock + 1
    /\ currentTime' = clock + 1
    /\ UNCHANGED <<stateVars, flags, requestValid, slotVars, nopTimeout, eventsVars, tcpVars,
                   wire, link, frames, pdus, logVars>>

\* The integrator sets m_finished through getVariables().
RequestFinish ==
    /\ ~running
    /\ "finished" \notin flags
    /\ flags' = flags \cup {"finished"}
    /\ UNCHANGED <<stateVars, requestValid, slotVars, timerVars, eventsVars, tcpVars, wire,
                   worldVars, logVars>>

\* The client reads all that the machine sent.
ClientReads ==
    /\ ~running
    /\ wire # <<>>
    /\ wire' = <<>>
    /\ UNCHANGED <<stateVars, flags, requestValid, slotVars, timerVars, eventsVars, tcpVars,
                   worldVars, logVars>>

Kinds == {"NOP", "ENTITY_ID_REQUEST", "AVDECC_FROM_APC", "MALFORMED"}

Event ==
    \/ OnIncomingTcpConnection
    \/ \E result \in HttpInput : OnIncomingTcpHttpData(result)
    \/ OnAppPrefix
    \/ \E kind \in Kinds : OnAppMessage(kind, pdus + 1)
    \/ OnGarbledMessage
    \/ OnTcpConnectionClosed
    \/ OnNetLinkStatusUpdated(~link)
    \/ OnNetAvdeccMessageReceived
    \/ OnTimeTick
    \/ RequestFinish

Next == Run \/ Step \/ Event \/ ClientReads

Spec == Init /\ [][Next]_vars

\* The integrator's loop calls run() for ever, a call of run() goes on until
\* it returns, and the client reads what it is sent.
FairSpec == Spec /\ WF_vars(Run) /\ WF_vars(Step) /\ WF_vars(ClientReads)

-----------------------------------------------------------------------------
(* Properties.                                                              *)

ControlType ==
    /\ cs \in States /\ running \in BOOLEAN
    /\ flags \in SUBSET Flags
    /\ requestValid \in {-1, 200}

DataType ==
    /\ out \in 0..MaxPdus /\ in \in 0..MaxFrames
    /\ frames \in 0..MaxFrames /\ pdus \in 0..MaxPdus
    /\ down \in [last : 0..MaxFrames, count : Nat]
    /\ up \in [last : 0..MaxPdus, count : Nat]

TimeType ==
    /\ clock \in 0..MaxTime /\ currentTime \in 0..MaxTime /\ sentAt \in 0..MaxTime
    /\ lostAt \in {Never} \cup 0..MaxTime
    /\ nopTimeout \in 0 .. MaxTime + NopInterval

ConnectionType ==
    /\ inHttp \in HttpInput /\ parser \in {"idle", "partial", "garbled", "dead"}
    /\ tcp \in {"none", "open", "closing"} /\ server \in BOOLEAN
    /\ requested \in BOOLEAN /\ owed \in BOOLEAN /\ spoken \in BOOLEAN
    /\ link \in BOOLEAN /\ told \in BOOLEAN
    /\ wire \in Seq(Message)

\* Every variable holds a value of its C++ type, and the bounds are kept.
TypeOK == ControlType /\ DataType /\ TimeType /\ ConnectionType

\* Frames from the layer 2 network reach the APC in order and at most once,
\* whatever the clients do: the m_in slot and L2Msg are a mailbox.
Down == INSTANCE Mailbox
          WITH Max <- MaxFrames, offered <- frames, delivered <- down.last,
               deliveries <- down.count
RelaysToApc == Down!Spec

\* The same for AVDECC_FROM_APC messages on their way to the layer 2 network.
Up == INSTANCE Mailbox
        WITH Max <- MaxPdus, offered <- pdus, delivered <- up.last,
             deliveries <- up.count
RelaysToL2 == Up!Spec

\* The time of the last message to the client, or of a frame lost after it.
LastTurn == IF lostAt = Never THEN sentAt ELSE lostAt

\* When run() returns in WAITING, the APC was sent something at most
\* NopInterval seconds ago, or a frame too large to send took the place of a
\* message since then: forwarding a PDU to layer 2 and events that come in a
\* burst do not delay the NOP, but every lost frame does.
KeepAlive ==
    [][Do("WAITING") /\ ~running' => currentTime <= LastTurn + NopInterval]_vars

\* The last link status the client was told is the current one unless a
\* change is still to be reported, also when it changed during the handshake.
LinkStatusTold ==
    cs = "WAITING" => "linkStatusChanged" \in flags \/ told = ("linkStatus" \in flags)

\* On every connection the HTTP response is sent once, before anything else.
ResponseComesFirst ==
    [][\A i \in Len(wire) + 1 .. Len(wire') :
         wire'[i].type = "HTTP_200" <=> ~spoken /\ i = Len(wire) + 1]_vars

\* A client is answered only if its own request was accepted.
AnswersRequests == [][Do("ACCEPT") /\ cs' = "START_TRANSFER" => requested]_vars

\* The machine closes a connection only to finish or after the client did.
ClosesOnlyToFinish ==
    [][running /\ tcp = "open" /\ tcp' # "open" => "finished" \in flags]_vars

\* run() always returns: no cycle of state procedures feeds itself.
RunReturns == running ~> ~running

\* A connection that its client closed during the transfer makes room for
\* the next one, unless the machine is finished.
ServesAgain ==
    (cs = "WAITING" /\ "incomingTcpClosed" \in flags) ~> cs \in {"WAIT_FOR_CONNECT", "NONE"}
=============================================================================
