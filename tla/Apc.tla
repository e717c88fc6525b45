--------------------------------- MODULE Apc ---------------------------------
(***************************************************************************)
(* The AVDECC Proxy Client state machine, ApcStateMachine (Apc.cpp).  It   *)
(* connects to one APS, asks for an entity id, relays frames of its own    *)
(* network to the APS and hands what the APS sends to the application.  It *)
(* serves a single connection: after the FINISH state run() does nothing.  *)
(* As in Aps, events only set variables and run() does the work; but the   *)
(* transitions to RECEIVE_MSG, SEND_MSG, ENTITY_ID_ASSIGNED and SEND_NOP   *)
(* leave m_current_state in WAITING, so each of them ends the run() call.  *)
(*                                                                         *)
(* The names differ from those of Aps so that Proxy can join both.         *)
(***************************************************************************)
EXTENDS Integers, Sequences

CONSTANTS
    NopInterval,    \* seconds of silence before a NOP is sent; 10 in the code
    MaxTime,        \* bound: seconds that pass
    MaxFrames,      \* bound: AVDECC_FROM_APS messages received
    MaxPdus,        \* bound: frames of the client's network
    MaxWire         \* bound: unread messages to the APS when run() is called

ASSUME ApcAssumption ==
    /\ NopInterval \in Nat /\ MaxTime \in Nat /\ MaxFrames \in Nat
    /\ MaxPdus \in Nat /\ MaxWire \in Nat

VARIABLES
    state,          \* ApcStates::m_current_state, "NONE" for the null pointer
    active,         \* run() is on the stack
    \* ApcStateVariables
    raised,         \* its Boolean members that are true, see Signals
    apcMsg, apsMsg, \* the number of the frame in the slot
    linkMsg,        \* the type of the message in the slot
    nopDue,         \* m_nopTimeout
    now,            \* m_currentTime
    http,           \* ApcStateEvents::m_in_http
    \* the connection
    socket,         \* "none", "connecting", "open" or "closed"
    uplink,         \* messages sent to the APS that it has not read yet
    captured,       \* number of the newest frame of the client's network
    heard,          \* number of the newest AVDECC_FROM_APS message
    \* what the machine has done
    processed, sent,    \* the last frame handed on, and how many there were
    linkSeen,       \* the link status the application was told last
    available       \* the application was told that the proxy is available

machineVars == <<state, active>>
messageVars == <<apcMsg, apsMsg, linkMsg>>
nopVars     == <<nopDue, now>>
socketVars  == <<http, socket>>
inputVars   == <<captured, heard>>
doneVars    == <<processed, sent, linkSeen, available>>
apcVars == <<machineVars, raised, messageVars, nopVars, socketVars, uplink, inputVars, doneVars>>

States == {"BEGIN", "INITIALIZE", "WAIT_FOR_CONNECT", "CONNECTED", "START_TRANSFER",
           "WAITING", "LINK_STATUS", "CLOSED", "FINISH", "NONE"}

\* m_responseReceived and m_responseValid are always set and reset together.
Signals == {"finished", "tcpConnected", "incomingTcpClosed", "responseReceived",
            "linkStatusMsg", "apsMsgIn", "apcMsgOut", "idAssigned"}

\* A message to the APS: n is the frame's number, 0 when there is none.
Request == [type : {"HTTP_REQUEST", "ENTITY_ID_REQUEST", "AVDECC_FROM_APC", "NOP"}, n : Nat]
Req(t) == [type |-> t, n |-> 0]

\* The state after setup().
Init ==
    /\ state = "BEGIN" /\ active = FALSE /\ raised = {}
    /\ apcMsg = 0 /\ apsMsg = 0 /\ linkMsg = "none"
    /\ nopDue = 0 /\ now = 0
    /\ http = TRUE /\ socket = "none" /\ uplink = <<>>
    /\ captured = 0 /\ heard = 0
    /\ processed = [last |-> 0, count |-> 0]
    /\ sent = [last |-> 0, count |-> 0]
    /\ linkSeen = "none" /\ available = FALSE

-----------------------------------------------------------------------------
(* run() and the state procedures, each with the transition it takes.       *)

Run ==
    /\ ~active
    /\ state # "NONE"
    /\ Len(uplink) <= MaxWire
    /\ active' = TRUE
    /\ UNCHANGED <<state, raised, messageVars, nopVars, socketVars, uplink, inputVars, doneVars>>

Do(s) == active /\ state = s

GoTo(s) == state' = s /\ active' = (s \notin {state, "NONE"})

\* goToInitialize resets every flag, then connects: connectToProxy may have
\* opened the connection, and called onIncomingTcpConnection, when it returns.
DoBegin(connected) ==
    /\ Do("BEGIN")
    /\ GoTo("INITIALIZE")
    /\ raised' = IF connected THEN {"tcpConnected"} ELSE {}
    /\ socket' = IF connected THEN "open" ELSE "connecting"
    /\ UNCHANGED <<messageVars, nopVars, http, uplink, inputVars, doneVars>>

DoInitialize ==
    /\ Do("INITIALIZE")
    /\ GoTo("WAIT_FOR_CONNECT")
    /\ UNCHANGED <<raised, messageVars, nopVars, socketVars, uplink, inputVars, doneVars>>

\* Octets written to a connection that is not open go nowhere.
Send(msg) == uplink' = IF socket = "open" THEN Append(uplink, msg) ELSE uplink

CloseTcpConnection == socket' = IF socket \in {"open", "connecting"} THEN "closed" ELSE socket

\* Mutant: the interval is subtracted.
RearmNop_Past == nopDue' = now - NopInterval - 1

RearmNop == nopDue' = now + NopInterval

\* Mutant: the request is not sent.
GoToConnected_NoRequest ==
    /\ GoTo("CONNECTED")
    /\ raised' = raised \ {"responseReceived"}
    /\ UNCHANGED <<socket, uplink>>

GoToConnected ==
    /\ GoTo("CONNECTED")
    /\ raised' = raised \ {"responseReceived"}
    /\ Send(Req("HTTP_REQUEST"))
    /\ UNCHANGED socket

DoWaitForConnect ==
    /\ Do("WAIT_FOR_CONNECT")
    /\ \/ /\ "finished" \in raised
          /\ GoTo("FINISH")
          /\ CloseTcpConnection
          /\ UNCHANGED <<raised, uplink>>
       \/ /\ "finished" \notin raised /\ "tcpConnected" \in raised
          /\ GoToConnected
       \/ /\ "finished" \notin raised /\ "tcpConnected" \notin raised
          /\ GoTo(state)
          /\ UNCHANGED <<raised, socket, uplink>>
    /\ UNCHANGED <<messageVars, nopVars, http, inputVars, doneVars>>

\* Only the response is awaited, neither a close nor finished.  A response
\* other than 200 leaves no trace, so the transition to CLOSED is dead code.
DoConnected ==
    /\ Do("CONNECTED")
    /\ IF "responseReceived" \in raised
       THEN GoTo("START_TRANSFER") /\ Send(Req("ENTITY_ID_REQUEST")) /\ RearmNop
       ELSE GoTo(state) /\ UNCHANGED <<uplink, nopDue>>
    /\ UNCHANGED <<raised, messageVars, now, socketVars, inputVars, doneVars>>

DoReturnToWaiting ==
    /\ active
    /\ state \in {"START_TRANSFER", "LINK_STATUS"}
    /\ GoTo("WAITING")
    /\ UNCHANGED <<raised, messageVars, nopVars, socketVars, uplink, inputVars, doneVars>>

\* Mutant: the end of the connection is not noticed.
WaitingChoice_IgnoresClosed ==
    IF "finished" \in raised THEN "CLOSED"
    ELSE IF "linkStatusMsg" \in raised THEN "LINK_STATUS"
    ELSE IF "apsMsgIn" \in raised THEN "RECEIVE_MSG"
    ELSE IF "apcMsgOut" \in raised THEN "SEND_MSG"
    ELSE IF "idAssigned" \in raised THEN "ENTITY_ID_ASSIGNED"
    ELSE IF nopDue < now THEN "SEND_NOP"
    ELSE "WAITING"

\* doWaiting: the first condition that holds decides.
WaitingChoice ==
    IF raised \cap {"incomingTcpClosed", "finished"} # {} THEN "CLOSED"
    ELSE IF "linkStatusMsg" \in raised THEN "LINK_STATUS"
    ELSE IF "apsMsgIn" \in raised THEN "RECEIVE_MSG"
    ELSE IF "apcMsgOut" \in raised THEN "SEND_MSG"
    ELSE IF "idAssigned" \in raised THEN "ENTITY_ID_ASSIGNED"
    ELSE IF nopDue < now THEN "SEND_NOP"
    ELSE "WAITING"

\* Every transition out of WAITING leaves these alone.
DoWaiting(s) ==
    /\ Do("WAITING")
    /\ WaitingChoice = s
    /\ GoTo(IF s \in States THEN s ELSE "WAITING")
    /\ UNCHANGED <<messageVars, now, socketVars, inputVars>>

Stay ==
    /\ DoWaiting("WAITING")
    /\ UNCHANGED <<raised, nopDue, uplink, doneVars>>

\* Mutant: the application is not told.
GoToClosed_Silent ==
    /\ DoWaiting("CLOSED")
    /\ UNCHANGED <<raised, nopDue, uplink, doneVars>>

GoToClosed ==
    /\ DoWaiting("CLOSED")
    /\ available' = FALSE
    /\ UNCHANGED <<raised, nopDue, uplink, processed, sent, linkSeen>>

\* Mutant: linkStatusMsg is left set.
GoToLinkStatus_KeepsFlag ==
    /\ DoWaiting("LINK_STATUS")
    /\ linkSeen' = linkMsg
    /\ RearmNop
    /\ UNCHANGED <<raised, uplink, processed, sent, available>>

GoToLinkStatus ==
    /\ DoWaiting("LINK_STATUS")
    /\ linkSeen' = linkMsg
    /\ RearmNop
    /\ raised' = raised \ {"linkStatusMsg"}
    /\ UNCHANGED <<uplink, processed, sent, available>>

\* Mutant: apsMsgIn is left set.
GoToReceiveMsg_KeepsFlag ==
    /\ DoWaiting("RECEIVE_MSG")
    /\ processed' = [last |-> apsMsg, count |-> processed.count + 1]
    /\ UNCHANGED <<raised, nopDue, uplink, sent, linkSeen, available>>

GoToReceiveMsg ==
    /\ DoWaiting("RECEIVE_MSG")
    /\ processed' = [last |-> apsMsg, count |-> processed.count + 1]
    /\ raised' = raised \ {"apsMsgIn"}
    /\ UNCHANGED <<nopDue, uplink, sent, linkSeen, available>>

\* sendMsgToAps: a frame whose APP message does not fit its buffer of 1500
\* octets is not sent, and nobody is told.
SendFrame ==
    \/ /\ Send([type |-> "AVDECC_FROM_APC", n |-> apcMsg])
       /\ sent' = [last |-> apcMsg, count |-> sent.count + 1]
    \/ UNCHANGED <<uplink, sent>>

\* Mutant: apcMsgOut is left set.
GoToSendMsg_KeepsFlag ==
    /\ DoWaiting("SEND_MSG")
    /\ SendFrame
    /\ RearmNop
    /\ UNCHANGED <<raised, processed, linkSeen, available>>

GoToSendMsg ==
    /\ DoWaiting("SEND_MSG")
    /\ SendFrame
    /\ RearmNop
    /\ raised' = raised \ {"apcMsgOut"}
    /\ UNCHANGED <<processed, linkSeen, available>>

GoToEntityIdAssigned ==
    /\ DoWaiting("ENTITY_ID_ASSIGNED")
    /\ available' = TRUE
    /\ RearmNop
    /\ raised' = raised \ {"idAssigned"}
    /\ UNCHANGED <<uplink, processed, sent, linkSeen>>

GoToSendNop ==
    /\ DoWaiting("SEND_NOP")
    /\ Send(Req("NOP"))
    /\ RearmNop
    /\ UNCHANGED <<raised, doneVars>>

\* goToFinish closes the connection.
DoClosed ==
    /\ Do("CLOSED")
    /\ GoTo("FINISH")
    /\ CloseTcpConnection
    /\ UNCHANGED <<raised, messageVars, nopVars, http, uplink, inputVars, doneVars>>

DoFinish ==
    /\ Do("FINISH")
    /\ GoTo("NONE")
    /\ UNCHANGED <<raised, messageVars, nopVars, socketVars, uplink, inputVars, doneVars>>

StepConnected ==
    \/ DoInitialize \/ DoWaitForConnect \/ DoConnected \/ DoReturnToWaiting
    \/ Stay \/ GoToClosed \/ GoToLinkStatus \/ GoToReceiveMsg \/ GoToSendMsg
    \/ GoToEntityIdAssigned \/ GoToSendNop \/ DoClosed \/ DoFinish

Step == StepConnected \/ \E connected \in BOOLEAN : DoBegin(connected)

-----------------------------------------------------------------------------
(* The events.                                                              *)

OnIncomingTcpConnection ==
    /\ ~active
    /\ socket = "connecting"
    /\ socket' = "open"
    /\ http' = TRUE
    /\ raised' = raised \cup {"tcpConnected"}
    /\ UNCHANGED <<machineVars, messageVars, nopVars, uplink, inputVars, doneVars>>

\* The APS closed the connection, or refused it.  Both parsers are cleared.
OnTcpConnectionClosed ==
    /\ ~active
    /\ socket \in {"open", "connecting"}
    /\ socket' = "closed"
    /\ http' = TRUE
    /\ raised' = raised \cup {"incomingTcpClosed"}
    /\ UNCHANGED <<machineVars, messageVars, nopVars, uplink, inputVars, doneVars>>

\* The response 200; another one changes nothing.
OnHttpResponse ==
    /\ ~active
    /\ socket = "open" /\ http
    /\ http' = FALSE
    /\ raised' = raised \cup {"responseReceived"}
    /\ UNCHANGED <<machineVars, messageVars, nopVars, socket, uplink, inputVars, doneVars>>

\* An APP message from the APS.  The messages of one TCP segment are handled
\* one after the other without a call of run(): each has a single slot.
OnAppMessage(type, n) ==
    /\ ~active
    /\ socket = "open" /\ ~http
    /\ \/ /\ type \in {"LINK_UP", "LINK_DOWN"}
          /\ linkMsg' = type
          /\ raised' = raised \cup {"linkStatusMsg"}
          /\ UNCHANGED <<apsMsg, heard>>
       \/ /\ type = "AVDECC_FROM_APS"
          /\ n <= MaxFrames
          /\ apsMsg' = n
          /\ heard' = n
          /\ raised' = raised \cup {"apsMsgIn"}
          /\ UNCHANGED linkMsg
       \/ /\ type = "ENTITY_ID_RESPONSE"
          /\ raised' = raised \cup {"idAssigned"}
          /\ UNCHANGED <<apsMsg, linkMsg, heard>>
       \/ /\ type = "NOP"
          /\ UNCHANGED <<raised, apsMsg, linkMsg, heard>>
    /\ UNCHANGED <<machineVars, apcMsg, nopVars, socketVars, uplink, captured, doneVars>>

\* One slot: a frame that was not yet forwarded is overwritten.
OnNetAvdeccMessageReceived ==
    /\ ~active
    /\ captured < MaxPdus
    /\ captured' = captured + 1
    /\ apcMsg' = captured + 1
    /\ raised' = raised \cup {"apcMsgOut"}
    /\ UNCHANGED <<machineVars, apsMsg, linkMsg, nopVars, socketVars, uplink, heard, doneVars>>

OnTimeTick ==
    /\ ~active
    /\ now < MaxTime
    /\ now' = now + 1
    /\ UNCHANGED <<machineVars, raised, messageVars, nopDue, socketVars, uplink, inputVars,
                   doneVars>>

\* The integrator sets m_finished through getVariables().
RequestFinish ==
    /\ ~active
    /\ "finished" \notin raised
    /\ raised' = raised \cup {"finished"}
    /\ UNCHANGED <<machineVars, messageVars, nopVars, socketVars, uplink, inputVars, doneVars>>

\* The APS reads all that the machine sent.
ServerReads ==
    /\ ~active
    /\ uplink # <<>>
    /\ uplink' = <<>>
    /\ UNCHANGED <<machineVars, raised, messageVars, nopVars, socketVars, inputVars, doneVars>>

\* An APS answers a request it was sent.
Event ==
    \/ OnIncomingTcpConnection \/ OnTcpConnectionClosed
    \/ state = "CONNECTED" /\ OnHttpResponse
    \/ \E type \in {"LINK_UP", "LINK_DOWN", "ENTITY_ID_RESPONSE", "NOP", "AVDECC_FROM_APS"} :
         OnAppMessage(type, heard + 1)
    \/ OnNetAvdeccMessageReceived \/ OnTimeTick \/ RequestFinish

Next == Run \/ Step \/ Event \/ ServerReads

Spec == Init /\ [][Next]_apcVars

\* The integrator's loop calls run() for ever and a call goes on until it
\* returns; the APS reads what it is sent.
FairSpec == Spec /\ WF_apcVars(Run) /\ WF_apcVars(Step) /\ WF_apcVars(ServerReads)

-----------------------------------------------------------------------------
(* Properties.                                                              *)

ControlType ==
    /\ state \in States /\ active \in BOOLEAN /\ raised \in SUBSET Signals
    /\ http \in BOOLEAN /\ socket \in {"none", "connecting", "open", "closed"}
    /\ available \in BOOLEAN

DataType ==
    /\ apcMsg \in 0..MaxPdus /\ captured \in 0..MaxPdus
    /\ apsMsg \in 0..MaxFrames /\ heard \in 0..MaxFrames
    /\ processed \in [last : 0..MaxFrames, count : Nat]
    /\ sent \in [last : 0..MaxPdus, count : Nat]
    /\ linkMsg \in {"none", "LINK_UP", "LINK_DOWN"}
    /\ linkSeen \in {"none", "LINK_UP", "LINK_DOWN"}

TimeType == now \in 0..MaxTime /\ nopDue \in 0 .. MaxTime + NopInterval

UplinkType == uplink \in Seq(Request)

\* Every variable holds a value of its C++ type, and the bounds are kept.
TypeOK == ControlType /\ DataType /\ TimeType /\ UplinkType

\* What the APS sends is handed to the application in order and at most once.
In == INSTANCE Mailbox
        WITH Max <- MaxFrames, offered <- heard, delivered <- processed.last,
             deliveries <- processed.count
HandsOn == In!Spec

\* Frames of the client's network are sent in order and at most once.
Out == INSTANCE Mailbox
         WITH Max <- MaxPdus, offered <- captured, delivered <- sent.last,
              deliveries <- sent.count
Forwards == Out!Spec

\* The application that was told the proxy is available is told when it is
\* gone: on no path does the machine stop in silence, and once stopped it
\* does not announce the proxy again.
NeverLeftAvailable == state \in {"CLOSED", "FINISH", "NONE"} => ~available

\* In the transfer, the end of the connection or a request to finish stops
\* the machine.
TransferEnds ==
    (state = "WAITING" /\ raised \cap {"incomingTcpClosed", "finished"} # {}) ~> state = "NONE"

\* What the APS sends is handled, although a call of run() hands on one frame
\* only.  The two flags of lower priority have no such guarantee: frames from
\* the APS that keep coming put off apcMsgOut and idAssigned for ever.
Handled ==
    \A s \in {"linkStatusMsg", "apsMsgIn"} :
        (state = "WAITING" /\ s \in raised) ~> (s \notin raised \/ state = "NONE")
=============================================================================
