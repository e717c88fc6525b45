----------------------------- MODULE ProxyProofs -----------------------------
(***************************************************************************)
(* Proofs about the APS alone, for every value of the constants, and then  *)
(* about an APS and an APC joined by a connection, for any number of       *)
(* frames and PDUs, any length of the queues and any clock.                *)
(*                                                                         *)
(* The proofs about the APS alone carry over where its step is one of      *)
(* Aps!Next; in Proxy it also takes messages from a queue, with the        *)
(* numbers the APC gave them.  The APC's part is proved anew.              *)
(***************************************************************************)
EXTENDS Proxy, SequenceTheorems, TLAPS

-----------------------------------------------------------------------------
(* PART I.  The APS alone.                                                  *)

-----------------------------------------------------------------------------
(* Types, one group of variables at a time.                                 *)

LEMMA InitType == Init => TypeOK
<1> SUFFICES ASSUME Init PROVE TypeOK
    OBVIOUS
<1>1. ControlType
    BY DEF Init, ControlType, States, Flags
<1>2. DataType
    BY ApsAssumption DEF Init, DataType, Garbage
<1>3. TimeType
    BY ApsAssumption DEF Init, TimeType, Never
<1>4. ConnectionType
  <2>1. wire \in Seq(Message)
      BY DEF Init
  <2>2. QED
      BY <2>1, Zenon DEF Init, ConnectionType, HttpInput
<1>5. QED
    BY <1>1, <1>2, <1>3, <1>4 DEF TypeOK

LEMMA WaitingChoiceType == WaitingChoice \in States
BY DEF WaitingChoice, States

LEMMA StepControlType == ControlType /\ Step => ControlType'
<1> SUFFICES ASSUME ControlType, Step PROVE ControlType'
    OBVIOUS
<1> USE DEF ControlType
<1>1. cs' \in States /\ running' \in BOOLEAN
  <2>1. CASE DoBegin \/ DoInitialize \/ DoWaitForConnect \/ DoAccept \/ DoReturnToWaiting
      BY <2>1 DEF DoBegin, DoInitialize, GoToWaitForConnect, DoWaitForConnect, DoAccept,
                  DoReturnToWaiting, Do, GoTo, States
  <2>2. CASE DoClosed \/ DoCloseAndFinish \/ DoFinish
      BY <2>2 DEF DoClosed, GoToWaitForConnect, DoCloseAndFinish, DoFinish, Do, GoTo, States
  <2>3. ASSUME NEW s, DoWaiting(s) PROVE cs' \in States /\ running' \in BOOLEAN
      BY <2>3, WaitingChoiceType DEF DoWaiting, GoTo
  <2>4. QED
      BY <2>1, <2>2, <2>3 DEF Step, GoToClosedOrStay, GoToLinkStatus, GoToTransferToL2,
         GoToTransferToApc, GoToAssignEntityId, GoToSendNop, GoToCloseAndFinish
<1>2. flags' \in SUBSET Flags
    BY DEF Step, DoBegin, DoInitialize, GoToWaitForConnect, DoWaitForConnect, DoAccept,
       DoReturnToWaiting, GoToClosedOrStay, GoToLinkStatus, GoToTransferToL2,
       GoToTransferToApc, GoToAssignEntityId, GoToSendNop, GoToCloseAndFinish, DoClosed,
       DoCloseAndFinish, DoFinish, Flags
<1>3. requestValid' \in {-1, 200}
    BY DEF Step, DoBegin, DoInitialize, GoToWaitForConnect, DoWaitForConnect, GoToAccept,
       DoAccept, DoReturnToWaiting, GoToClosedOrStay, GoToLinkStatus, GoToTransferToL2,
       GoToTransferToApc, GoToAssignEntityId, GoToSendNop, GoToCloseAndFinish, DoClosed,
       DoCloseAndFinish, DoFinish, DoWaiting
<1>4. QED
    BY <1>1, <1>2, <1>3

LEMMA StepTimeType == TimeType /\ Step => TimeType'
<1> SUFFICES ASSUME TimeType, Step PROVE TimeType'
    OBVIOUS
<1> USE ApsAssumption DEF TimeType, Never, worldVars, logVars, timerVars
<1>1. CASE DoBegin
    BY <1>1 DEF DoBegin
<1>2. CASE DoInitialize \/ DoClosed \/ DoReturnToWaiting
    BY <1>2 DEF DoInitialize, DoClosed, GoToWaitForConnect, DoReturnToWaiting
<1>3. CASE DoWaitForConnect \/ DoCloseAndFinish \/ DoFinish
    BY <1>3 DEF DoWaitForConnect, DoCloseAndFinish, DoFinish
<1>4. CASE DoAccept
    BY <1>4 DEF DoAccept, Send, RearmNop
<1>5. CASE GoToLinkStatus \/ GoToTransferToApc \/ GoToAssignEntityId \/ GoToSendNop
    BY <1>5 DEF GoToLinkStatus, GoToTransferToApc, GoToAssignEntityId, GoToSendNop,
                SendFrame, DoWaiting, Send, RearmNop
<1>6. CASE GoToClosedOrStay \/ GoToTransferToL2 \/ GoToCloseAndFinish
    BY <1>6 DEF GoToClosedOrStay, GoToTransferToL2, GoToCloseAndFinish, DoWaiting
<1>7. QED
    BY <1>1, <1>2, <1>3, <1>4, <1>5, <1>6 DEF Step

LEMMA StepDataType == DataType /\ Step => DataType'
<1> SUFFICES ASSUME DataType, Step PROVE DataType'
    OBVIOUS
<1> USE ApsAssumption DEF DataType, worldVars, logVars, slotVars
<1>1. CASE GoToTransferToL2
    BY <1>1 DEF GoToTransferToL2, DoWaiting
<1>2. CASE GoToTransferToApc
    BY <1>2 DEF GoToTransferToApc, SendFrame, DoWaiting
<1>3. CASE UNCHANGED <<slotVars, frames, pdus, down, up>>
    BY <1>3
<1>4. QED
    BY <1>1, <1>2, <1>3 DEF Step, DoBegin, DoInitialize, GoToWaitForConnect, DoWaitForConnect,
       DoAccept, DoReturnToWaiting, GoToClosedOrStay, GoToLinkStatus, GoToAssignEntityId,
       GoToSendNop, GoToCloseAndFinish, DoClosed, DoCloseAndFinish, DoFinish, DoWaiting

\* The messages the machine forms are messages.
LEMMA MessageTypes ==
    ASSUME DataType
    PROVE  /\ <<LinkMessage>> \in Seq(Message)
           /\ Greeting \in Seq(Message)
           /\ <<Msg("ENTITY_ID_RESPONSE")>> \in Seq(Message)
           /\ <<Msg("NOP")>> \in Seq(Message)
           /\ <<[type |-> "AVDECC_FROM_APS", n |-> in]>> \in Seq(Message)
<1>1. in \in Nat
    BY ApsAssumption DEF DataType
<1>2. /\ LinkMessage \in Message
      /\ Msg("HTTP_200") \in Message
      /\ Msg("ENTITY_ID_RESPONSE") \in Message
      /\ Msg("NOP") \in Message
      /\ [type |-> "AVDECC_FROM_APS", n |-> in] \in Message
    BY <1>1 DEF LinkMessage, Msg, Message
<1>3. QED
    BY <1>2 DEF Greeting

\* Sending keeps the unread messages of the connection a sequence of messages.
LEMMA SendType ==
    ASSUME wire \in Seq(Message), NEW msgs \in Seq(Message), Send(msgs)
    PROVE  wire' \in Seq(Message)
BY DEF Send

LEMMA StepConnectionType == DataType /\ ConnectionType /\ Step => ConnectionType'
<1> SUFFICES ASSUME DataType, ConnectionType, Step PROVE ConnectionType'
    OBVIOUS
<1>1. wire \in Seq(Message)
    BY DEF ConnectionType
<1>2. wire' \in Seq(Message)
  <2>1. CASE DoAccept
      BY <1>1, <2>1, MessageTypes, SendType DEF DoAccept
  <2>2. CASE GoToLinkStatus
      BY <1>1, <2>2, MessageTypes, SendType DEF GoToLinkStatus
  <2>3. CASE GoToTransferToApc
      BY <1>1, <2>3, MessageTypes, SendType DEF GoToTransferToApc, SendFrame
  <2>4. CASE GoToAssignEntityId
      BY <1>1, <2>4, MessageTypes, SendType DEF GoToAssignEntityId
  <2>5. CASE GoToSendNop
      BY <1>1, <2>5, MessageTypes, SendType DEF GoToSendNop
  <2>6. CASE UNCHANGED wire
      BY <1>1, <2>6
  <2>7. QED
      BY <2>1, <2>2, <2>3, <2>4, <2>5, <2>6 DEF Step, DoBegin, DoInitialize,
         GoToWaitForConnect, DoWaitForConnect, DoReturnToWaiting, GoToClosedOrStay,
         GoToTransferToL2, GoToCloseAndFinish, DoClosed, DoCloseAndFinish, DoFinish
<1>3. UNCHANGED <<inHttp, parser, requested, owed, link>>
    BY DEF Step, DoBegin, DoInitialize, GoToWaitForConnect, DoWaitForConnect, DoAccept,
       DoReturnToWaiting, GoToClosedOrStay, GoToLinkStatus, GoToTransferToL2,
       GoToTransferToApc, GoToAssignEntityId, GoToSendNop, GoToCloseAndFinish, DoClosed,
       DoCloseAndFinish, DoFinish, DoWaiting, eventsVars, tcpVars, worldVars
<1>4. tcp' \in {tcp, "closing", "none"}
    BY DEF Step, DoBegin, DoInitialize, GoToWaitForConnect, DoWaitForConnect, DoAccept,
       DoReturnToWaiting, GoToClosedOrStay, GoToLinkStatus, GoToTransferToL2,
       GoToTransferToApc, GoToAssignEntityId, GoToSendNop, GoToCloseAndFinish, DoClosed,
       DoCloseAndFinish, DoFinish, CloseTcpConnection, tcpVars
<1>5. server' \in BOOLEAN
  <2>1. CASE DoWaitForConnect
      BY <2>1, Zenon DEF ConnectionType, DoWaitForConnect
  <2>2. CASE DoCloseAndFinish
      BY <2>2 DEF DoCloseAndFinish
  <2>3. CASE UNCHANGED server
      BY <2>3 DEF ConnectionType
  <2>4. QED
      BY <2>1, <2>2, <2>3 DEF Step, DoBegin, DoInitialize, DoAccept, DoReturnToWaiting,
         GoToClosedOrStay, GoToLinkStatus, GoToTransferToL2, GoToTransferToApc,
         GoToAssignEntityId, GoToSendNop, GoToCloseAndFinish, DoClosed, DoFinish, DoWaiting,
         tcpVars
<1>6. spoken' \in BOOLEAN
  <2>1. CASE DoAccept
      BY <2>1, Zenon DEF ConnectionType, DoAccept
  <2>2. CASE UNCHANGED spoken
      BY <2>2 DEF ConnectionType
  <2>3. QED
      BY <2>1, <2>2 DEF Step, DoBegin, DoInitialize, DoWaitForConnect, DoReturnToWaiting,
         GoToClosedOrStay, GoToLinkStatus, GoToTransferToL2, GoToTransferToApc,
         GoToAssignEntityId, GoToSendNop, GoToCloseAndFinish, DoClosed, DoCloseAndFinish,
         DoFinish, DoWaiting, tcpVars
<1>7. told' \in BOOLEAN
  <2>0. ("linkStatus" \in flags) \in BOOLEAN
      OBVIOUS
  <2>1. CASE DoAccept
      BY <2>0, <2>1, Zenon DEF ConnectionType, DoAccept
  <2>2. CASE GoToLinkStatus
      BY <2>0, <2>2, Zenon DEF GoToLinkStatus
  <2>3. CASE UNCHANGED told
      BY <2>3 DEF ConnectionType
  <2>4. QED
      BY <2>1, <2>2, <2>3 DEF Step, DoBegin, DoInitialize, GoToWaitForConnect, DoWaitForConnect,
         DoReturnToWaiting, GoToClosedOrStay, GoToTransferToL2, GoToTransferToApc,
         GoToAssignEntityId, GoToSendNop, GoToCloseAndFinish, DoClosed, DoCloseAndFinish,
         DoFinish, logVars
<1>8. QED
    BY <1>2, <1>3, <1>4, <1>5, <1>6, <1>7 DEF ConnectionType

LEMMA EventControlType == ControlType /\ Event => ControlType'
<1> SUFFICES ASSUME ControlType, Event PROVE ControlType'
    OBVIOUS
<1>1. UNCHANGED stateVars
    BY DEF Event, OnIncomingTcpConnection, OnIncomingTcpHttpData, OnAppPrefix, OnAppMessage,
       OnGarbledMessage, OnIncomingTcpData, OnTcpConnectionClosed, OnNetLinkStatusUpdated,
       OnNetAvdeccMessageReceived, OnTimeTick, RequestFinish
<1>2. requestValid' \in {-1, 200}
    BY DEF ControlType, Event, OnIncomingTcpConnection, OnIncomingTcpHttpData, OnAppPrefix,
       OnAppMessage, OnGarbledMessage, OnTcpConnectionClosed, OnNetLinkStatusUpdated,
       OnNetAvdeccMessageReceived, OnTimeTick, RequestFinish
<1>3. flags' \in SUBSET Flags
    BY DEF ControlType, Event, OnIncomingTcpConnection, OnIncomingTcpHttpData, OnAppPrefix,
       OnAppMessage, OnGarbledMessage, OnTcpConnectionClosed, OnNetLinkStatusUpdated,
       OnNetAvdeccMessageReceived, OnTimeTick, RequestFinish, LinkFlags, Flags
<1>4. QED
    BY <1>1, <1>2, <1>3 DEF ControlType, stateVars

LEMMA EventDataType == DataType /\ Event => DataType'
<1> SUFFICES ASSUME DataType, Event PROVE DataType'
    OBVIOUS
<1> USE ApsAssumption DEF DataType, worldVars, logVars, slotVars
<1>1. CASE OnNetAvdeccMessageReceived
    BY <1>1 DEF OnNetAvdeccMessageReceived
<1>2. ASSUME NEW kind \in Kinds, OnAppMessage(kind, pdus + 1) PROVE DataType'
    BY <1>2 DEF OnAppMessage, OnIncomingTcpData
<1>3. CASE OnGarbledMessage
    BY <1>3 DEF OnGarbledMessage, OnIncomingTcpData, Garbage
<1>4. CASE UNCHANGED <<slotVars, frames, pdus, down, up>>
    BY <1>4
<1>5. QED
    BY <1>1, <1>2, <1>3, <1>4 DEF Event, OnIncomingTcpConnection, OnIncomingTcpHttpData,
       OnAppPrefix, OnIncomingTcpData, OnTcpConnectionClosed, OnNetLinkStatusUpdated, OnTimeTick,
       RequestFinish

LEMMA EventTimeType == TimeType /\ Event => TimeType'
BY ApsAssumption DEF TimeType, Event, OnIncomingTcpConnection, OnIncomingTcpHttpData, OnAppPrefix,
   OnAppMessage, OnGarbledMessage, OnIncomingTcpData, OnTcpConnectionClosed,
   OnNetLinkStatusUpdated, OnNetAvdeccMessageReceived, OnTimeTick, RequestFinish,
   worldVars, logVars, timerVars

LEMMA EventConnectionType == ConnectionType /\ Event => ConnectionType'
<1> SUFFICES ASSUME ConnectionType, Event PROVE ConnectionType'
    OBVIOUS
<1>1. wire' \in Seq(Message)
  <2>1. wire' = wire \/ wire' = <<>>
      BY DEF Event, OnIncomingTcpConnection, OnIncomingTcpHttpData, OnAppPrefix,
         OnAppMessage, OnGarbledMessage, OnIncomingTcpData, OnTcpConnectionClosed,
         OnNetLinkStatusUpdated, OnNetAvdeccMessageReceived, OnTimeTick, RequestFinish
  <2>2. <<>> \in Seq(Message) /\ wire \in Seq(Message)
      BY DEF ConnectionType
  <2>3. QED
      BY <2>1, <2>2, Zenon
<1>2. parser' \in {"idle", "partial", "garbled", "dead"} /\ tcp' \in {"none", "open", "closing"}
    BY DEF ConnectionType, Event, OnIncomingTcpConnection, OnIncomingTcpHttpData, OnAppPrefix,
       OnAppMessage, OnGarbledMessage, OnIncomingTcpData, OnTcpConnectionClosed,
       OnNetLinkStatusUpdated, OnNetAvdeccMessageReceived, OnTimeTick, RequestFinish,
       eventsVars, tcpVars
<1>3. inHttp' \in HttpInput
    BY Zenon DEF ConnectionType, HttpInput, Event, OnIncomingTcpConnection, OnIncomingTcpHttpData,
       OnAppPrefix, OnAppMessage, OnGarbledMessage, OnTcpConnectionClosed,
       OnNetLinkStatusUpdated, OnNetAvdeccMessageReceived, OnTimeTick, RequestFinish,
       eventsVars
<1>4. requested' \in BOOLEAN /\ owed' \in BOOLEAN
    BY Zenon DEF ConnectionType, Event, OnIncomingTcpConnection, OnIncomingTcpHttpData, OnAppPrefix,
       OnAppMessage, OnGarbledMessage, OnTcpConnectionClosed,
       OnNetLinkStatusUpdated, OnNetAvdeccMessageReceived, OnTimeTick, RequestFinish,
       tcpVars
<1>5. server' \in BOOLEAN /\ spoken' \in BOOLEAN
    BY Zenon DEF ConnectionType, Event, OnIncomingTcpConnection, OnIncomingTcpHttpData, OnAppPrefix,
       OnAppMessage, OnGarbledMessage, OnIncomingTcpData, OnTcpConnectionClosed,
       OnNetLinkStatusUpdated, OnNetAvdeccMessageReceived, OnTimeTick, RequestFinish,
       tcpVars
<1>6. link' \in BOOLEAN /\ told' \in BOOLEAN
    BY Zenon DEF ConnectionType, Event, OnIncomingTcpConnection, OnIncomingTcpHttpData, OnAppPrefix,
       OnAppMessage, OnGarbledMessage, OnIncomingTcpData, OnTcpConnectionClosed,
       OnNetLinkStatusUpdated, OnNetAvdeccMessageReceived, OnTimeTick, RequestFinish,
       worldVars, logVars
<1>7. QED
    BY <1>1, <1>2, <1>3, <1>4, <1>5, <1>6 DEF ConnectionType

LEMMA OtherType ==
    ASSUME TypeOK, Run \/ ClientReads \/ UNCHANGED vars
    PROVE  TypeOK'
<1>1. ControlType' /\ DataType'
  <2>1. UNCHANGED <<cs, flags, requestValid, out, in, frames, pdus, down, up>>
      BY DEF Run, ClientReads, vars, stateVars, slotVars, worldVars, logVars
  <2>2. running' \in {running, TRUE}
      BY DEF Run, ClientReads, vars, stateVars
  <2>3. QED
      BY <2>1, <2>2 DEF TypeOK, ControlType, DataType
<1>2. TimeType'
    BY Zenon DEF TypeOK, TimeType, Run, ClientReads, vars, timerVars, worldVars, logVars
<1>3. ConnectionType'
  <2>1. wire' = wire \/ wire' = <<>>
      BY DEF Run, ClientReads, vars
  <2>2. <<>> \in Seq(Message) /\ wire \in Seq(Message)
      BY DEF TypeOK, ConnectionType
  <2>3. UNCHANGED <<inHttp, parser, tcp, server, requested, owed, spoken, link, told>>
      BY DEF Run, ClientReads, vars, eventsVars, tcpVars, worldVars, logVars
  <2>4. QED
      BY <2>1, <2>2, <2>3, Zenon DEF TypeOK, ConnectionType
<1>4. QED
    BY <1>1, <1>2, <1>3 DEF TypeOK

LEMMA NextType == TypeOK /\ [Next]_vars => TypeOK'
<1> SUFFICES ASSUME TypeOK, [Next]_vars PROVE TypeOK'
    OBVIOUS
<1>1. CASE Step
    BY <1>1, StepControlType, StepDataType, StepTimeType, StepConnectionType DEF TypeOK
<1>2. CASE Event
    BY <1>2, EventControlType, EventDataType, EventTimeType, EventConnectionType DEF TypeOK
<1>3. CASE Run \/ ClientReads \/ UNCHANGED vars
    BY <1>3, OtherType
<1>4. QED
    BY <1>1, <1>2, <1>3 DEF Next

\* Every variable keeps a value of its C++ type, and no bound is passed,
\* whatever the clients, the network and the integrator do.
THEOREM TypeCorrect == Spec => []TypeOK
<1>1. Init => TypeOK
    BY InitType
<1>2. QED
    BY <1>1, NextType, PTL DEF Spec

-----------------------------------------------------------------------------
(* The transfer: while a client is served, the NOP timer is the time of the *)
(* last message, or of a frame lost after it, plus the interval, and the    *)
(* link status it was told is the current one or a change is pending.       *)

Serving == {"START_TRANSFER", "WAITING", "LINK_STATUS", "TRANSFER_TO_L2",
            "TRANSFER_TO_APC", "ASSIGN_ENTITY_ID", "SEND_NOP"}

TimerArmed == cs \in Serving => nopTimeout = LastTurn + NopInterval

LinkKnown ==
    cs \in Serving => "linkStatusChanged" \in flags \/ (told <=> "linkStatus" \in flags)

LEMMA TimerArmedStep == TypeOK /\ TimerArmed /\ [Next]_vars => TimerArmed'
<1> SUFFICES ASSUME TypeOK, TimerArmed, [Next]_vars PROVE TimerArmed'
    OBVIOUS
<1> USE DEF TimerArmed, Serving, LastTurn
<1>1. CASE DoAccept
    BY <1>1 DEF DoAccept, Do, GoTo, Send, RearmNop, logVars
<1>2. CASE GoToLinkStatus \/ GoToAssignEntityId \/ GoToSendNop
    BY <1>2 DEF GoToLinkStatus, GoToAssignEntityId, GoToSendNop, DoWaiting, Send, RearmNop
<1>3. CASE GoToTransferToApc
  <2>1. currentTime # Never /\ UNCHANGED currentTime /\ RearmNop
      BY <1>3 DEF GoToTransferToApc, DoWaiting, TypeOK, TimeType, Never
  <2>2. CASE lostAt' = Never /\ sentAt' = currentTime
      BY <2>1, <2>2 DEF RearmNop
  <2>3. CASE lostAt' = currentTime
      BY <2>1, <2>3 DEF RearmNop
  <2>4. QED
      BY <1>3, <2>2, <2>3 DEF GoToTransferToApc, SendFrame, Send
<1>4. CASE GoToClosedOrStay \/ GoToTransferToL2 \/ GoToCloseAndFinish
    BY <1>4 DEF GoToClosedOrStay, GoToTransferToL2, GoToCloseAndFinish, DoWaiting, Do, GoTo,
                logVars
<1>5. CASE DoBegin \/ DoInitialize \/ DoWaitForConnect
    BY <1>5 DEF DoBegin, DoInitialize, DoWaitForConnect, GoToWaitForConnect, Do, GoTo
<1>6. CASE DoClosed \/ DoCloseAndFinish \/ DoFinish
    BY <1>6 DEF DoClosed, DoCloseAndFinish, DoFinish, GoToWaitForConnect, Do, GoTo
<1>7. CASE DoReturnToWaiting
    BY <1>7 DEF DoReturnToWaiting, timerVars, logVars
<1>8. CASE Run \/ Event \/ ClientReads \/ UNCHANGED vars
    BY <1>8 DEF Run, Event, ClientReads, OnIncomingTcpConnection, OnIncomingTcpHttpData,
       OnAppPrefix, OnAppMessage, OnGarbledMessage, OnIncomingTcpData, OnTcpConnectionClosed,
       OnNetLinkStatusUpdated, OnNetAvdeccMessageReceived, OnTimeTick, RequestFinish,
       vars, stateVars, timerVars, logVars
<1>9. QED
    BY <1>1, <1>2, <1>4, <1>5, <1>6, <1>7, <1>8, <1>3 DEF Next, Step

\* The APC hears from the server at least every NopInterval seconds, counted
\* from the last message or from a frame too large to send that took the
\* place of one: run() does not return in WAITING any later.
THEOREM KeepAliveHolds == Spec => KeepAlive
<1>1. Init => TimerArmed
    BY DEF Init, TimerArmed, Serving
<1>2. TypeOK /\ TimerArmed /\ [Next]_vars
        => [Do("WAITING") /\ ~running' => currentTime <= LastTurn + NopInterval]_vars
  <2> SUFFICES ASSUME TypeOK, TimerArmed, [Next]_vars, Do("WAITING"), ~running', vars' # vars
               PROVE  currentTime <= LastTurn + NopInterval
      OBVIOUS
  <2>1. DoWaiting("WAITING")
      BY DEF Next, Run, Step, Event, ClientReads, DoBegin, DoInitialize, DoWaitForConnect,
         DoAccept, DoReturnToWaiting, GoToClosedOrStay, GoToLinkStatus, GoToTransferToL2,
         GoToTransferToApc, GoToAssignEntityId, GoToSendNop, GoToCloseAndFinish, DoClosed,
         DoCloseAndFinish, DoFinish, DoWaiting, Do, GoTo, OnIncomingTcpConnection,
         OnIncomingTcpHttpData, OnAppPrefix, OnAppMessage, OnGarbledMessage, OnIncomingTcpData,
         OnTcpConnectionClosed, OnNetLinkStatusUpdated, OnNetAvdeccMessageReceived,
         OnTimeTick, RequestFinish
  <2>2. ~(nopTimeout < currentTime)
      BY <2>1 DEF DoWaiting, WaitingChoice
  <2>3. QED
      BY <2>2, ApsAssumption DEF TypeOK, TimeType, TimerArmed, Serving, LastTurn, Do
<1>3. QED
    BY <1>1, <1>2, TypeCorrect, TimerArmedStep, PTL DEF Spec, KeepAlive

\* What the events do to the flags about the link and to L2Msg.
LEMMA EventFlags ==
    ASSUME Event, NEW f \in {"linkStatus", "linkStatusChanged", "L2Msg"},
           f \in flags' <=> f \notin flags
    PROVE  IF f = "L2Msg" THEN OnNetAvdeccMessageReceived ELSE OnNetLinkStatusUpdated(~link)
<1>1. ASSUME OnGarbledMessage PROVE FALSE
    BY <1>1 DEF OnGarbledMessage
<1>2. ASSUME NEW kind \in Kinds, OnAppMessage(kind, pdus + 1) PROVE FALSE
    BY <1>2 DEF OnAppMessage
<1>3. ASSUME NEW result \in HttpInput, OnIncomingTcpHttpData(result) PROVE FALSE
    BY <1>3 DEF OnIncomingTcpHttpData
<1>4. ASSUME \/ OnIncomingTcpConnection \/ OnAppPrefix \/ OnTcpConnectionClosed
             \/ OnTimeTick \/ RequestFinish
      PROVE  FALSE
    BY <1>4 DEF OnIncomingTcpConnection, OnAppPrefix, OnTcpConnectionClosed, OnTimeTick,
                RequestFinish
<1>5. CASE OnNetAvdeccMessageReceived
    BY <1>5 DEF OnNetAvdeccMessageReceived
<1>6. CASE OnNetLinkStatusUpdated(~link)
    BY <1>6 DEF OnNetLinkStatusUpdated, LinkFlags
<1>7. QED
    BY <1>1, <1>2, <1>3, <1>4, <1>5, <1>6 DEF Event

LEMMA LinkKnownStep == ConnectionType /\ LinkKnown /\ [Next]_vars => LinkKnown'
<1> SUFFICES ASSUME ConnectionType, LinkKnown, [Next]_vars PROVE LinkKnown'
    OBVIOUS
<1> USE DEF LinkKnown, Serving
<1>1. CASE DoAccept
    BY <1>1 DEF DoAccept, Do, GoTo
<1>2. CASE GoToLinkStatus
    BY <1>2 DEF GoToLinkStatus
<1>3. CASE \/ GoToTransferToApc \/ GoToAssignEntityId \/ GoToSendNop
           \/ GoToClosedOrStay \/ GoToTransferToL2 \/ GoToCloseAndFinish
  <2>1. cs = "WAITING" /\ told' = told
      BY <1>3 DEF GoToTransferToApc, GoToAssignEntityId, GoToSendNop, GoToClosedOrStay,
                  GoToTransferToL2, GoToCloseAndFinish, DoWaiting, Do, logVars
  <2>2. /\ "linkStatus" \in flags' <=> "linkStatus" \in flags
        /\ "linkStatusChanged" \in flags' <=> "linkStatusChanged" \in flags
      BY <1>3 DEF GoToTransferToApc, GoToAssignEntityId, GoToSendNop, GoToClosedOrStay,
                  GoToTransferToL2, GoToCloseAndFinish
  <2>3. QED
      BY <2>1, <2>2
<1>4. CASE DoBegin \/ DoInitialize \/ DoWaitForConnect
    BY <1>4 DEF DoBegin, DoInitialize, DoWaitForConnect, GoToWaitForConnect, Do, GoTo
<1>5. CASE DoClosed \/ DoCloseAndFinish \/ DoFinish
    BY <1>5 DEF DoClosed, DoCloseAndFinish, DoFinish, GoToWaitForConnect, Do, GoTo
<1>6. CASE DoReturnToWaiting \/ Run \/ ClientReads \/ UNCHANGED vars
    BY <1>6 DEF DoReturnToWaiting, Run, ClientReads, vars, stateVars, logVars
<1>7. CASE Event
  <2>1. UNCHANGED <<cs, told>>
      BY <1>7 DEF Event, OnIncomingTcpConnection, OnIncomingTcpHttpData, OnAppPrefix, OnAppMessage,
         OnGarbledMessage, OnIncomingTcpData, OnTcpConnectionClosed, OnNetLinkStatusUpdated,
         OnNetAvdeccMessageReceived, OnTimeTick, RequestFinish, stateVars, logVars
  <2>2. \/ "linkStatusChanged" \in flags'
        \/ /\ "linkStatus" \in flags' <=> "linkStatus" \in flags
           /\ "linkStatusChanged" \in flags' <=> "linkStatusChanged" \in flags
    <3>1. CASE OnNetLinkStatusUpdated(~link)
        BY <3>1 DEF OnNetLinkStatusUpdated, LinkFlags
    <3>2. CASE ~OnNetLinkStatusUpdated(~link)
        BY <1>7, <3>2, EventFlags
    <3>3. QED
        BY <3>1, <3>2
  <2>3. QED
      BY <2>1, <2>2
<1>8. QED
    BY <1>1, <1>2, <1>3, <1>4, <1>5, <1>6, <1>7 DEF Next, Step

\* In WAITING the client knows the link status, or a change is still to be
\* reported to it, whenever the status changed, during the handshake too.
THEOREM LinkStatusToldHolds == Spec => []LinkStatusTold
<1>1. Init => LinkKnown
    BY DEF Init, LinkKnown, Serving
<1>2. TypeOK /\ LinkKnown => LinkStatusTold
  <2> SUFFICES ASSUME TypeOK, LinkKnown, cs = "WAITING", "linkStatusChanged" \notin flags
               PROVE  told = ("linkStatus" \in flags)
      BY DEF LinkStatusTold
  <2>1. told <=> "linkStatus" \in flags
      BY DEF LinkKnown, Serving
  <2>2. told \in BOOLEAN /\ ("linkStatus" \in flags) \in BOOLEAN
      BY DEF TypeOK, ConnectionType
  <2>3. QED
      BY <2>1, <2>2, Zenon
<1>3. TypeOK => ConnectionType
    BY DEF TypeOK
<1>4. QED
    BY <1>1, <1>2, <1>3, TypeCorrect, LinkKnownStep, PTL DEF Spec

-----------------------------------------------------------------------------
(* The slot m_in with its flag L2Msg is a mailbox: it holds the newest      *)
(* frame, and while the flag is set that frame was not handed on.           *)

DownSlot ==
    /\ in = frames
    /\ down.last <= frames
    /\ "L2Msg" \in flags => down.last < frames

\* A step hands the frame in the slot on, loses it, stores a new one, or does
\* none of that.
LEMMA DownSlotStep ==
    ASSUME DataType, DownSlot, [Next]_vars
    PROVE  DownSlot' /\ [Down!Next]_<<frames, down.last, down.count>>
<1> USE ApsAssumption DEF DataType, DownSlot, Down!Next, Down!Offer, Down!Deliver
<1>1. CASE GoToTransferToApc
  <2>1. "L2Msg" \in flags /\ UNCHANGED <<in, frames>>
      BY <1>1 DEF GoToTransferToApc, DoWaiting, WaitingChoice, slotVars, worldVars
  <2>2. /\ down' = [last |-> in, count |-> down.count + 1] \/ UNCHANGED down
        /\ "L2Msg" \notin flags'
      BY <1>1 DEF GoToTransferToApc, SendFrame
  <2>3. QED
      BY <2>1, <2>2
<1>2. CASE OnNetAvdeccMessageReceived
    BY <1>2 DEF OnNetAvdeccMessageReceived, logVars
<1>3. CASE UNCHANGED <<in, frames, down>> /\ ("L2Msg" \in flags' => "L2Msg" \in flags)
    BY <1>3
<1>4. CASE Step /\ ~GoToTransferToApc
    BY <1>3, <1>4 DEF Step, DoBegin, DoInitialize, GoToWaitForConnect, DoWaitForConnect,
       DoAccept, DoReturnToWaiting, GoToClosedOrStay, GoToLinkStatus, GoToTransferToL2,
       GoToAssignEntityId, GoToSendNop, GoToCloseAndFinish, DoClosed, DoCloseAndFinish,
       DoFinish, DoWaiting, slotVars, worldVars, logVars
<1>5. CASE Event /\ ~OnNetAvdeccMessageReceived
  <2>1. UNCHANGED <<in, frames, down>>
      BY <1>5 DEF Event, OnIncomingTcpConnection, OnIncomingTcpHttpData, OnAppPrefix,
         OnAppMessage, OnGarbledMessage, OnIncomingTcpData, OnTcpConnectionClosed,
         OnNetLinkStatusUpdated, OnTimeTick, RequestFinish, slotVars, worldVars, logVars
  <2>2. "L2Msg" \in flags' => "L2Msg" \in flags
      BY <1>5, EventFlags
  <2>3. QED
      BY <1>3, <2>1, <2>2
<1>6. CASE Run \/ ClientReads \/ UNCHANGED vars
    BY <1>3, <1>6 DEF Run, ClientReads, vars, slotVars, worldVars, logVars
<1>7. QED
    BY <1>1, <1>2, <1>4, <1>5, <1>6 DEF Next

\* Frames reach the APC in order, each at most once, the newest first: the
\* machine implements the mailbox.
THEOREM RelaysToApcHolds == Spec => RelaysToApc
<1>1. Init => DownSlot /\ Down!Init
    BY DEF Init, DownSlot, Down!Init
<1>2. TypeOK => DataType
    BY DEF TypeOK
<1>3. QED
    BY <1>1, <1>2, TypeCorrect, DownSlotStep, PTL DEF Spec, RelaysToApc, Down!Spec

-----------------------------------------------------------------------------
(* The slot m_out with its flag apcMsg is a mailbox too, although octets    *)
(* that a torn connection left behind may overwrite a PDU with garbage.     *)

UpSlot ==
    /\ up.last <= pdus
    /\ "apcMsg" \in flags /\ out # Garbage => out = pdus /\ up.last < pdus

UpStep == UpSlot' /\ [Up!Next]_<<pdus, up.last, up.count>>

\* An event stores a PDU that is handed on later, garbage, or nothing.
LEMMA EventUpStep == ASSUME DataType, UpSlot, Event PROVE UpStep
<1> USE ApsAssumption DEF DataType, UpSlot, UpStep, Up!Next, Up!Offer, Up!Deliver, Garbage
<1>1. ASSUME NEW kind \in Kinds, OnAppMessage(kind, pdus + 1) PROVE UpStep
  <2>1. UNCHANGED up
      BY <1>1 DEF OnAppMessage, OnIncomingTcpData, logVars
  <2>2. CASE kind = "AVDECC_FROM_APC"
      BY <1>1, <2>1, <2>2 DEF OnAppMessage
  <2>3. CASE kind # "AVDECC_FROM_APC"
    <3>1. UNCHANGED <<pdus, out>> /\ ("apcMsg" \in flags' => "apcMsg" \in flags)
        BY <1>1, <2>3 DEF OnAppMessage
    <3>2. QED
        BY <2>1, <3>1
  <2>4. QED
      BY <2>2, <2>3
<1>2. CASE OnGarbledMessage
  <2>1. UNCHANGED <<pdus, up>>
      BY <1>2 DEF OnGarbledMessage, OnIncomingTcpData, logVars
  <2>2. out' = Garbage \/ (out' = out /\ ("apcMsg" \in flags' => "apcMsg" \in flags))
      BY <1>2 DEF OnGarbledMessage
  <2>3. QED
      BY <2>1, <2>2
<1>3. CASE UNCHANGED <<pdus, out, up>> /\ ("apcMsg" \in flags' => "apcMsg" \in flags)
    BY <1>3
<1>4. CASE OnNetLinkStatusUpdated(~link)
    BY <1>3, <1>4 DEF OnNetLinkStatusUpdated, LinkFlags, slotVars, logVars
<1>5. ASSUME NEW result \in HttpInput, OnIncomingTcpHttpData(result) PROVE UpStep
    BY <1>3, <1>5 DEF OnIncomingTcpHttpData, OnIncomingTcpData, logVars
<1>6. CASE \/ OnIncomingTcpConnection \/ OnAppPrefix \/ OnTcpConnectionClosed
           \/ OnNetAvdeccMessageReceived \/ OnTimeTick \/ RequestFinish
    BY <1>3, <1>6 DEF OnIncomingTcpConnection, OnAppPrefix, OnIncomingTcpData,
       OnTcpConnectionClosed, OnNetAvdeccMessageReceived, OnTimeTick, RequestFinish,
       slotVars, worldVars, logVars
<1>7. QED
    BY <1>1, <1>2, <1>4, <1>5, <1>6 DEF Event

LEMMA UpSlotStep == ASSUME DataType, UpSlot, [Next]_vars PROVE UpStep
<1> USE ApsAssumption DEF DataType, UpSlot, UpStep, Up!Next, Up!Offer, Up!Deliver
<1>1. CASE GoToTransferToL2
  <2>1. "apcMsg" \in flags /\ "apcMsg" \notin flags' /\ UNCHANGED pdus
      BY <1>1 DEF GoToTransferToL2, DoWaiting, WaitingChoice, worldVars
  <2>2. up' = IF out = Garbage THEN up ELSE [last |-> out, count |-> up.count + 1]
      BY <1>1 DEF GoToTransferToL2
  <2>3. QED
      BY <2>1, <2>2
<1>2. CASE UNCHANGED <<pdus, out, up>> /\ ("apcMsg" \in flags' => "apcMsg" \in flags)
    BY <1>2
<1>3. CASE Step /\ ~GoToTransferToL2
    BY <1>2, <1>3 DEF Step, DoBegin, DoInitialize, GoToWaitForConnect, DoWaitForConnect,
       DoAccept, DoReturnToWaiting, GoToClosedOrStay, GoToLinkStatus, GoToTransferToApc,
       GoToAssignEntityId, GoToSendNop, GoToCloseAndFinish, DoClosed, DoCloseAndFinish,
       DoFinish, DoWaiting, slotVars, worldVars, logVars
<1>4. CASE Run \/ ClientReads \/ UNCHANGED vars
    BY <1>2, <1>4 DEF Run, ClientReads, vars, slotVars, worldVars, logVars
<1>5. QED
    BY <1>1, <1>3, <1>4, EventUpStep DEF Next

\* PDUs of the APC reach layer 2 in order and each at most once, whatever
\* connections do in the middle of a message.
THEOREM RelaysToL2Holds == Spec => RelaysToL2
<1>1. Init => UpSlot /\ Up!Init
    BY DEF Init, UpSlot, Up!Init
<1>2. TypeOK => DataType
    BY DEF TypeOK
<1>3. QED
    BY <1>1, <1>2, TypeCorrect, UpSlotStep, PTL DEF Spec, RelaysToL2, Up!Spec, UpStep

-----------------------------------------------------------------------------
(* In ACCEPT a request that was found valid is the one of the client that   *)
(* is connected, if clients are accepted one after the other.               *)

OwnRequest ==
    /\ requested <=> inHttp = "done"
    /\ cs = "ACCEPT" /\ requestValid = 200 => requested

LEMMA OwnRequestStep ==
    ASSUME ~EagerAccept, ConnectionType, OwnRequest, [Next]_vars
    PROVE  OwnRequest'
<1> USE DEF ConnectionType, OwnRequest
<1>1. CASE DoWaitForConnect
    BY <1>1 DEF DoWaitForConnect, GoToAccept, GoTo, Do, eventsVars
<1>2. CASE OnIncomingTcpConnection
    BY <1>2 DEF OnIncomingTcpConnection, stateVars
<1>3. ASSUME NEW result \in HttpInput, OnIncomingTcpHttpData(result) PROVE OwnRequest'
    BY <1>3 DEF OnIncomingTcpHttpData, OnIncomingTcpData, stateVars
<1>4. CASE UNCHANGED <<inHttp, requested, requestValid>> /\ (cs' = "ACCEPT" => cs = "ACCEPT")
    BY <1>4
<1>5. CASE Step /\ ~DoWaitForConnect
    BY <1>4, <1>5 DEF Step, DoBegin, DoInitialize, GoToWaitForConnect, DoAccept,
       DoReturnToWaiting, GoToClosedOrStay, GoToLinkStatus, GoToTransferToL2, GoToTransferToApc,
       GoToAssignEntityId, GoToSendNop, GoToCloseAndFinish, DoClosed, DoCloseAndFinish,
       DoFinish, DoWaiting, Do, GoTo, eventsVars, tcpVars
<1>6. ASSUME NEW kind \in Kinds, OnAppMessage(kind, pdus + 1) PROVE OwnRequest'
    BY <1>4, <1>6 DEF OnAppMessage, OnIncomingTcpData, stateVars
<1>7. CASE OnAppPrefix \/ OnGarbledMessage
    BY <1>4, <1>7 DEF OnAppPrefix, OnGarbledMessage, OnIncomingTcpData, stateVars
<1>8. CASE \/ OnTcpConnectionClosed \/ OnNetLinkStatusUpdated(~link)
           \/ OnNetAvdeccMessageReceived \/ OnTimeTick \/ RequestFinish
    BY <1>4, <1>8 DEF OnTcpConnectionClosed, OnNetLinkStatusUpdated,
       OnNetAvdeccMessageReceived, OnTimeTick, RequestFinish, stateVars, eventsVars, tcpVars
<1>9. CASE Run \/ ClientReads \/ UNCHANGED vars
    BY <1>4, <1>9 DEF Run, ClientReads, vars, stateVars, eventsVars, tcpVars
<1>10. QED
    BY <1>1, <1>2, <1>3, <1>5, <1>6, <1>7, <1>8, <1>9 DEF Next, Event

\* While run() is on the stack, no event is handled.
LEMMA EventsWait == Event => ~running
    BY DEF Event, OnIncomingTcpConnection, OnIncomingTcpHttpData, OnAppPrefix, OnAppMessage,
       OnGarbledMessage, OnIncomingTcpData, OnTcpConnectionClosed, OnNetLinkStatusUpdated,
       OnNetAvdeccMessageReceived, OnTimeTick, RequestFinish

\* A client is answered only on its own request, if the server accepts
\* clients one after the other.
THEOREM AnswersRequestsHolds == ASSUME ~EagerAccept PROVE Spec => AnswersRequests
<1>1. Init => OwnRequest
    BY DEF Init, OwnRequest
<1>2. TypeOK /\ OwnRequest /\ [Next]_vars => OwnRequest'
    BY OwnRequestStep DEF TypeOK
<1>3. OwnRequest /\ [Next]_vars
          => [Do("ACCEPT") /\ cs' = "START_TRANSFER" => requested]_vars
  <2> SUFFICES ASSUME OwnRequest, Next, Do("ACCEPT"), cs' = "START_TRANSFER"
               PROVE  requested
      OBVIOUS
  <2>1. ~Run /\ ~Event /\ ~ClientReads
      BY EventsWait DEF Do, Run, ClientReads
  <2>2. DoAccept
      BY <2>1 DEF Next, Step, DoBegin, DoInitialize, DoWaitForConnect, DoReturnToWaiting,
         GoToClosedOrStay, GoToLinkStatus, GoToTransferToL2, GoToTransferToApc,
         GoToAssignEntityId, GoToSendNop, GoToCloseAndFinish, DoClosed, DoCloseAndFinish,
         DoFinish, DoWaiting, Do
  <2>3. requestValid = 200
      BY <2>2 DEF DoAccept, GoTo
  <2>4. QED
      BY <2>3 DEF OwnRequest, Do
<1>4. QED
    BY <1>1, <1>2, <1>3, TypeCorrect, PTL DEF Spec, AnswersRequests

-----------------------------------------------------------------------------
(* Whatever the order of events, the machine serves a connection only after *)
(* it has sent the response on it, and before that it has sent nothing.     *)

Introduced ==
    /\ cs \in {"BEGIN", "INITIALIZE", "WAIT_FOR_CONNECT", "ACCEPT"} /\ tcp = "open" => ~spoken
    /\ cs \in Serving /\ tcp = "open" => spoken \/ "incomingTcpClosed" \in flags

\* A connection that ended unnoticed is flagged until the machine waits for
\* the next one.
EndFlagged ==
    /\ cs \in Serving \cup {"ACCEPT"} => "tcpConnected" \in flags
    /\ cs \notin {"CLOSE_AND_FINISH", "FINISH", "NONE"} /\ "tcpConnected" \in flags
         => tcp = "open" \/ "incomingTcpClosed" \in flags

\* Events raise these flags and never lower them.
LEMMA EventKeepsFlags ==
    ASSUME Event, NEW f \in {"tcpConnected", "incomingTcpClosed"}, f \in flags
    PROVE  f \in flags'
<1>1. ASSUME NEW kind \in Kinds, OnAppMessage(kind, pdus + 1) PROVE f \in flags'
    BY <1>1 DEF OnAppMessage
<1>2. ASSUME NEW result \in HttpInput, OnIncomingTcpHttpData(result) PROVE f \in flags'
    BY <1>2 DEF OnIncomingTcpHttpData
<1>3. CASE OnNetLinkStatusUpdated(~link)
    BY <1>3 DEF OnNetLinkStatusUpdated, LinkFlags
<1>4. CASE OnIncomingTcpConnection \/ OnAppPrefix \/ OnGarbledMessage \/ OnTcpConnectionClosed
           \/ OnNetAvdeccMessageReceived \/ OnTimeTick \/ RequestFinish
    BY <1>4 DEF OnIncomingTcpConnection, OnAppPrefix, OnGarbledMessage, OnTcpConnectionClosed,
       OnNetAvdeccMessageReceived, OnTimeTick, RequestFinish
<1>5. QED
    BY <1>1, <1>2, <1>3, <1>4 DEF Event

LEMMA EventIntroduced ==
    ASSUME ControlType, Introduced, EndFlagged, Event
    PROVE  Introduced' /\ EndFlagged'
<1> USE DEF Introduced, EndFlagged, Serving
<1>1. cs' = cs
    BY DEF Event, OnIncomingTcpConnection, OnIncomingTcpHttpData, OnAppPrefix, OnAppMessage,
       OnGarbledMessage, OnIncomingTcpData, OnTcpConnectionClosed, OnNetLinkStatusUpdated,
       OnNetAvdeccMessageReceived, OnTimeTick, RequestFinish, stateVars
<1>2. \A f \in {"tcpConnected", "incomingTcpClosed"} : f \in flags => f \in flags'
    BY EventKeepsFlags
<1>3. CASE OnIncomingTcpConnection
    BY <1>1, <1>2, <1>3 DEF OnIncomingTcpConnection
<1>4. CASE OnTcpConnectionClosed
    BY <1>1, <1>2, <1>4 DEF OnTcpConnectionClosed
<1>5. CASE UNCHANGED <<tcp, spoken>> /\ tcp = "open"
    BY <1>1, <1>2, <1>5
<1>6. CASE UNCHANGED <<tcp, spoken>> /\ ("tcpConnected" \in flags' => "tcpConnected" \in flags)
    BY <1>1, <1>2, <1>6
<1>7. ASSUME NEW result \in HttpInput, OnIncomingTcpHttpData(result)
      PROVE  Introduced' /\ EndFlagged'
    BY <1>5, <1>7 DEF OnIncomingTcpHttpData, OnIncomingTcpData
<1>8. ASSUME NEW kind \in Kinds, OnAppMessage(kind, pdus + 1)
      PROVE  Introduced' /\ EndFlagged'
    BY <1>5, <1>8 DEF OnAppMessage, OnIncomingTcpData
<1>9. CASE OnAppPrefix \/ OnGarbledMessage
    BY <1>5, <1>9 DEF OnAppPrefix, OnGarbledMessage, OnIncomingTcpData
<1>10. CASE OnNetLinkStatusUpdated(~link)
    BY <1>6, <1>10 DEF OnNetLinkStatusUpdated, LinkFlags, tcpVars
<1>11. CASE OnNetAvdeccMessageReceived \/ OnTimeTick \/ RequestFinish
    BY <1>6, <1>11 DEF OnNetAvdeccMessageReceived, OnTimeTick, RequestFinish, tcpVars
<1>12. QED
    BY <1>3, <1>4, <1>7, <1>8, <1>9, <1>10, <1>11 DEF Event

LEMMA StepIntroduced ==
    ASSUME ControlType, Introduced, EndFlagged, Step
    PROVE  Introduced' /\ EndFlagged'
<1> USE DEF Introduced, EndFlagged, Serving, Do, GoTo
<1>1. CASE DoBegin \/ DoInitialize
    BY <1>1 DEF DoBegin, DoInitialize, GoToWaitForConnect, tcpVars
<1>2. CASE DoWaitForConnect
    BY <1>2 DEF DoWaitForConnect
<1>3. CASE DoAccept
  <2>1. CASE cs' = "START_TRANSFER"
    <3>1. spoken' <=> tcp = "open"
        BY <1>3, <2>1, Zenon DEF DoAccept
    <3>2. UNCHANGED <<flags, tcp>> /\ cs = "ACCEPT"
        BY <1>3 DEF DoAccept
    <3>3. QED
        BY <2>1, <3>1, <3>2
  <2>2. CASE cs' # "START_TRANSFER"
      BY <1>3, <2>2 DEF DoAccept
  <2>3. QED
      BY <2>1, <2>2
<1>4. CASE DoReturnToWaiting
    BY <1>4 DEF DoReturnToWaiting, tcpVars
<1>5. CASE GoToClosedOrStay
    BY <1>5 DEF GoToClosedOrStay, DoWaiting
<1>6. CASE GoToLinkStatus \/ GoToTransferToL2 \/ GoToTransferToApc
    BY <1>6 DEF GoToLinkStatus, GoToTransferToL2, GoToTransferToApc, DoWaiting
<1>7. CASE GoToAssignEntityId \/ GoToSendNop
    BY <1>7 DEF GoToAssignEntityId, GoToSendNop, DoWaiting
<1>8. CASE GoToCloseAndFinish
    BY <1>8 DEF GoToCloseAndFinish, DoWaiting
<1>9. CASE DoClosed
    BY <1>9 DEF DoClosed, CloseTcpConnection, GoToWaitForConnect
<1>10. CASE DoCloseAndFinish \/ DoFinish
    BY <1>10 DEF DoCloseAndFinish, DoFinish
<1>11. QED
    BY <1>1, <1>2, <1>3, <1>4, <1>5, <1>6, <1>7, <1>8, <1>9, <1>10 DEF Step

LEMMA IntroducedStep ==
    ASSUME ControlType, Introduced, EndFlagged, [Next]_vars
    PROVE  Introduced' /\ EndFlagged'
<1>1. CASE Run \/ ClientReads \/ UNCHANGED vars
    BY <1>1 DEF Run, ClientReads, vars, stateVars, tcpVars, Introduced, EndFlagged
<1>2. QED
    BY <1>1, StepIntroduced, EventIntroduced DEF Next

\* What a send adds to the queue, and that it adds nothing to one that ended.
LEMMA SendAdds ==
    ASSUME wire \in Seq(Message), NEW msgs \in Seq(Message), Send(msgs),
           NEW i \in Len(wire) + 1 .. Len(wire')
    PROVE  /\ tcp = "open"
           /\ i - Len(wire) \in 1 .. Len(msgs)
           /\ wire'[i] = msgs[i - Len(wire)]
<1>1. CASE tcp = "open"
    BY <1>1 DEF Send
<1>2. CASE tcp # "open"
    BY <1>2 DEF Send
<1>3. QED
    BY <1>1, <1>2

ResponseFirstIn(i) == wire'[i].type = "HTTP_200" <=> ~spoken /\ i = Len(wire) + 1

\* A step that sends one message in the transfer.
LEMMA SendInTransfer ==
    ASSUME wire \in Seq(Message), Introduced, cs = "WAITING", "incomingTcpClosed" \notin flags,
           NEW msg \in Message, msg.type # "HTTP_200", Send(<<msg>>),
           NEW i \in Len(wire) + 1 .. Len(wire')
    PROVE  ResponseFirstIn(i)
<1>1. tcp = "open" /\ i - Len(wire) \in 1 .. 1 /\ wire'[i] = <<msg>>[i - Len(wire)]
  <2> DEFINE msgs == <<msg>>
  <2>1. msgs \in Seq(Message) /\ Len(msgs) = 1 /\ Send(msgs)
      OBVIOUS
  <2> HIDE DEF msgs
  <2>2. tcp = "open" /\ i - Len(wire) \in 1 .. 1 /\ wire'[i] = msgs[i - Len(wire)]
      BY <2>1, SendAdds
  <2>3. QED
      BY <2>2 DEF msgs
<1>2. wire'[i] = msg
    BY <1>1
<1>3. spoken
    BY <1>1 DEF Introduced, Serving
<1>4. QED
    BY <1>2, <1>3 DEF ResponseFirstIn

LEMMA ResponseFirstStep ==
    ASSUME TypeOK, Introduced, Next, NEW i \in Len(wire) + 1 .. Len(wire')
    PROVE  ResponseFirstIn(i)
<1> USE DEF Do, ResponseFirstIn
<1>0. wire \in Seq(Message) /\ DataType
    BY DEF TypeOK, ConnectionType
<1>1. wire' # wire /\ wire' # <<>>
    BY <1>0
<1>2. CASE DoAccept
  <2>1. Send(Greeting)
      BY <1>1, <1>2 DEF DoAccept
  <2>2. Greeting \in Seq(Message) /\ Len(Greeting) = 2
      BY <1>0, MessageTypes DEF Greeting
  <2>3. /\ tcp = "open" /\ i - Len(wire) \in 1 .. 2
        /\ wire'[i] = Greeting[i - Len(wire)]
      BY <1>0, <2>1, <2>2, SendAdds
  <2>4. ~spoken
      BY <1>2, <2>3 DEF DoAccept, Introduced
  <2>5. Greeting[1].type = "HTTP_200" /\ Greeting[2].type # "HTTP_200"
      BY DEF Greeting, LinkMessage, Msg
  <2>6. QED
      BY <1>0, <2>3, <2>4, <2>5
<1>3. ASSUME NEW s, DoWaiting(s), s # "CLOSED", s # "WAITING"
      PROVE  cs = "WAITING" /\ "incomingTcpClosed" \notin flags
    BY <1>3 DEF DoWaiting, WaitingChoice
<1>4. CASE GoToLinkStatus
  <2>1. LinkMessage \in Message /\ LinkMessage.type # "HTTP_200"
      BY DEF LinkMessage, Msg, Message
  <2>2. QED
      BY <1>0, <1>3, <1>4, <2>1, SendInTransfer DEF GoToLinkStatus
<1>5. CASE GoToTransferToApc
  <2> DEFINE msg == [type |-> "AVDECC_FROM_APS", n |-> in]
  <2>1. msg \in Message /\ msg.type # "HTTP_200"
      BY <1>0 DEF DataType, Message
  <2>2. QED
      BY <1>0, <1>1, <1>3, <1>5, <2>1, SendInTransfer DEF GoToTransferToApc, SendFrame
<1>6. CASE GoToAssignEntityId
  <2>1. Msg("ENTITY_ID_RESPONSE") \in Message /\ Msg("ENTITY_ID_RESPONSE").type # "HTTP_200"
      BY DEF Msg, Message
  <2>2. QED
      BY <1>0, <1>3, <1>6, <2>1, SendInTransfer DEF GoToAssignEntityId
<1>7. CASE GoToSendNop
  <2>1. Msg("NOP") \in Message /\ Msg("NOP").type # "HTTP_200"
      BY DEF Msg, Message
  <2>2. QED
      BY <1>0, <1>3, <1>7, <2>1, SendInTransfer DEF GoToSendNop
<1>8. ~Event /\ ~Run /\ ~ClientReads
    BY <1>1 DEF Event, Run, ClientReads, OnIncomingTcpConnection, OnIncomingTcpHttpData,
       OnAppPrefix, OnAppMessage, OnGarbledMessage, OnIncomingTcpData, OnTcpConnectionClosed,
       OnNetLinkStatusUpdated, OnNetAvdeccMessageReceived, OnTimeTick, RequestFinish
<1>9. QED
    BY <1>1, <1>2, <1>4, <1>5, <1>6, <1>7, <1>8 DEF Next, Step, DoBegin, DoInitialize,
       GoToWaitForConnect, DoWaitForConnect, DoReturnToWaiting, GoToClosedOrStay,
       GoToTransferToL2, GoToCloseAndFinish, DoClosed, DoCloseAndFinish, DoFinish

\* On every connection the response is the first message and is sent once,
\* whatever the integrator and the clients do.
THEOREM ResponseComesFirstHolds == Spec => ResponseComesFirst
<1>1. Init => Introduced /\ EndFlagged
    BY DEF Init, Introduced, EndFlagged, Serving
<1>2. TypeOK /\ Introduced /\ EndFlagged /\ [Next]_vars => Introduced' /\ EndFlagged'
    BY IntroducedStep DEF TypeOK
<1>3. TypeOK /\ Introduced /\ [Next]_vars
          => [\A i \in Len(wire) + 1 .. Len(wire') :
                wire'[i].type = "HTTP_200" <=> ~spoken /\ i = Len(wire) + 1]_vars
    BY ResponseFirstStep DEF ResponseFirstIn
<1>4. QED
    BY <1>1, <1>2, <1>3, TypeCorrect, PTL DEF Spec, ResponseComesFirst
-----------------------------------------------------------------------------
(* The end of a connection is reported in its turn: when the machine acts   *)
(* on it in CLOSED, no newer connection is open that it would close.  This  *)
(* needs a server that accepts clients one after the other; ends that are   *)
(* reported late and messages that are torn make no difference.             *)

Stopping == {"CLOSE_AND_FINISH", "FINISH", "NONE"}

EndIsOwn ==
    cs \notin Stopping =>
        /\ tcp # "closing"
        /\ "incomingTcpClosed" \in flags => tcp = "none"
        /\ cs \in {"BEGIN", "INITIALIZE"} => tcp = "none"
        /\ cs = "WAIT_FOR_CONNECT" /\ "tcpConnected" \notin flags
             => tcp = "none" /\ "incomingTcpClosed" \notin flags
        /\ cs = "CLOSED" => "incomingTcpClosed" \in flags

LEMMA EventEndIsOwn ==
    ASSUME ~EagerAccept, ControlType, ConnectionType, EndIsOwn, Event
    PROVE  EndIsOwn'
<1> USE DEF EndIsOwn, Stopping
<1>1. cs' = cs
    BY DEF Event, OnIncomingTcpConnection, OnIncomingTcpHttpData, OnAppPrefix, OnAppMessage,
       OnGarbledMessage, OnIncomingTcpData, OnTcpConnectionClosed, OnNetLinkStatusUpdated,
       OnNetAvdeccMessageReceived, OnTimeTick, RequestFinish, stateVars
<1>2. \A f \in {"tcpConnected", "incomingTcpClosed"} : f \in flags => f \in flags'
    BY EventKeepsFlags
<1>3. CASE OnIncomingTcpConnection
    BY <1>1, <1>3 DEF OnIncomingTcpConnection
<1>4. CASE OnTcpConnectionClosed
    BY <1>1, <1>2, <1>4 DEF OnTcpConnectionClosed
<1>5. CASE UNCHANGED tcp /\ ("incomingTcpClosed" \in flags' => "incomingTcpClosed" \in flags)
    BY <1>1, <1>2, <1>5
<1>6. ASSUME NEW result \in HttpInput, OnIncomingTcpHttpData(result) PROVE EndIsOwn'
    BY <1>5, <1>6 DEF OnIncomingTcpHttpData, OnIncomingTcpData
<1>7. ASSUME NEW kind \in Kinds, OnAppMessage(kind, pdus + 1) PROVE EndIsOwn'
    BY <1>5, <1>7 DEF OnAppMessage, OnIncomingTcpData
<1>8. CASE OnAppPrefix \/ OnGarbledMessage
    BY <1>5, <1>8 DEF OnAppPrefix, OnGarbledMessage, OnIncomingTcpData
<1>9. CASE OnNetLinkStatusUpdated(~link)
    BY <1>5, <1>9 DEF OnNetLinkStatusUpdated, LinkFlags, tcpVars
<1>10. CASE OnNetAvdeccMessageReceived \/ OnTimeTick \/ RequestFinish
    BY <1>5, <1>10 DEF OnNetAvdeccMessageReceived, OnTimeTick, RequestFinish, tcpVars
<1>11. QED
    BY <1>3, <1>4, <1>6, <1>7, <1>8, <1>9, <1>10 DEF Event

LEMMA StepEndIsOwn ==
    ASSUME ControlType, ConnectionType, EndIsOwn, Step
    PROVE  EndIsOwn'
<1> USE DEF EndIsOwn, Stopping, Do, GoTo
<1>1. CASE DoBegin \/ DoInitialize
    BY <1>1 DEF DoBegin, DoInitialize, GoToWaitForConnect, tcpVars
<1>2. CASE DoWaitForConnect
    BY <1>2 DEF DoWaitForConnect
<1>3. CASE DoAccept
    BY <1>3 DEF DoAccept
<1>4. CASE DoReturnToWaiting
    BY <1>4 DEF DoReturnToWaiting, tcpVars
<1>5. CASE GoToClosedOrStay
    BY <1>5 DEF GoToClosedOrStay, DoWaiting, WaitingChoice
<1>6. CASE GoToLinkStatus \/ GoToTransferToL2 \/ GoToTransferToApc
    BY <1>6 DEF GoToLinkStatus, GoToTransferToL2, GoToTransferToApc, DoWaiting
<1>7. CASE GoToAssignEntityId \/ GoToSendNop
    BY <1>7 DEF GoToAssignEntityId, GoToSendNop, DoWaiting
<1>8. CASE GoToCloseAndFinish
    BY <1>8 DEF GoToCloseAndFinish, DoWaiting
<1>9. CASE DoClosed
    BY <1>9 DEF DoClosed, CloseTcpConnection, GoToWaitForConnect
<1>10. CASE DoCloseAndFinish \/ DoFinish
    BY <1>10 DEF DoCloseAndFinish, DoFinish
<1>11. QED
    BY <1>1, <1>2, <1>3, <1>4, <1>5, <1>6, <1>7, <1>8, <1>9, <1>10 DEF Step

\* The machine closes an open connection only to finish: after a client has
\* left, the next one is not turned away in its place.
THEOREM ClosesOnlyToFinishHolds == ASSUME ~EagerAccept PROVE Spec => ClosesOnlyToFinish
<1>1. Init => EndIsOwn
    BY DEF Init, EndIsOwn, Stopping
<1>2. TypeOK /\ EndIsOwn /\ [Next]_vars => EndIsOwn'
  <2> SUFFICES ASSUME TypeOK, EndIsOwn, [Next]_vars PROVE EndIsOwn'
      OBVIOUS
  <2>1. CASE Run \/ ClientReads \/ UNCHANGED vars
      BY <2>1 DEF Run, ClientReads, vars, stateVars, tcpVars, EndIsOwn
  <2>2. QED
      BY <2>1, StepEndIsOwn, EventEndIsOwn DEF Next, TypeOK
<1>3. EndIsOwn /\ [Next]_vars
          => [running /\ tcp = "open" /\ tcp' # "open" => "finished" \in flags]_vars
  <2> SUFFICES ASSUME EndIsOwn, Next, running, tcp = "open", tcp' # "open"
               PROVE  "finished" \in flags
      OBVIOUS
  <2>1. ~Run /\ ~Event /\ ~ClientReads
      BY EventsWait DEF Run, ClientReads
  <2>2. GoToCloseAndFinish \/ DoClosed
      BY <2>1 DEF Next, Step, DoBegin, DoInitialize, DoWaitForConnect, DoAccept,
         DoReturnToWaiting, GoToClosedOrStay, GoToLinkStatus, GoToTransferToL2,
         GoToTransferToApc, GoToAssignEntityId, GoToSendNop, DoCloseAndFinish, DoFinish, tcpVars
  <2>3. ~DoClosed
      BY DEF DoClosed, Do, EndIsOwn, Stopping
  <2>4. QED
      BY <2>2, <2>3 DEF GoToCloseAndFinish, DoWaiting, WaitingChoice
<1>4. QED
    BY <1>1, <1>2, <1>3, TypeCorrect, PTL DEF Spec, ClosesOnlyToFinish

-----------------------------------------------------------------------------
(* PART II.  An APS and an APC, joined.                                     *)

-----------------------------------------------------------------------------
(* The APC's types, for its own steps.                                      *)

LEMMA ClientSendType ==
    ASSUME uplink \in Seq(Client!Request), NEW msg \in Client!Request, Client!Send(msg)
    PROVE  uplink' \in Seq(Client!Request)
BY DEF Client!Send

\* The requests the machine forms are requests.
LEMMA RequestTypes ==
    /\ \A t \in {"HTTP_REQUEST", "ENTITY_ID_REQUEST", "NOP"} : Client!Req(t) \in Client!Request
    /\ \A n \in Nat : [type |-> "AVDECC_FROM_APC", n |-> n] \in Client!Request
    BY DEF Client!Req, Client!Request

LEMMA ClientStepControlType == Client!ControlType /\ Client!Step => Client!ControlType'
<1> SUFFICES ASSUME Client!ControlType, Client!Step PROVE Client!ControlType'
    OBVIOUS
<1> USE DEF Client!ControlType, Client!States, Client!Signals, Client!Do, Client!GoTo,
       Client!CloseTcpConnection, Client!socketVars, Client!doneVars
<1>1. ASSUME NEW connected \in BOOLEAN, Client!DoBegin(connected) PROVE Client!ControlType'
    BY <1>1 DEF Client!DoBegin
<1>2. CASE Client!DoInitialize \/ Client!DoReturnToWaiting \/ Client!DoFinish
    BY <1>2 DEF Client!DoInitialize, Client!DoReturnToWaiting, Client!DoFinish
<1>3. CASE Client!DoWaitForConnect
    BY <1>3 DEF Client!DoWaitForConnect, Client!GoToConnected
<1>4. CASE Client!DoConnected \/ Client!DoClosed
    BY <1>4 DEF Client!DoConnected, Client!DoClosed
<1>5. CASE Client!Stay \/ Client!GoToClosed
    BY <1>5 DEF Client!Stay, Client!GoToClosed, Client!DoWaiting
<1>6. CASE Client!GoToLinkStatus \/ Client!GoToReceiveMsg \/ Client!GoToEntityIdAssigned
    BY <1>6 DEF Client!GoToLinkStatus, Client!GoToReceiveMsg, Client!GoToEntityIdAssigned,
       Client!DoWaiting
<1>7. CASE Client!GoToSendMsg \/ Client!GoToSendNop
    BY <1>7 DEF Client!GoToSendMsg, Client!SendFrame, Client!GoToSendNop, Client!DoWaiting
<1>8. QED
    BY <1>1, <1>2, <1>3, <1>4, <1>5, <1>6, <1>7 DEF Client!Step, Client!StepConnected

LEMMA ClientStepDataType == Client!DataType /\ Client!Step => Client!DataType'
<1> SUFFICES ASSUME Client!DataType, Client!Step PROVE Client!DataType'
    OBVIOUS
<1> USE ApsAssumption DEF Client!DataType, Client!messageVars, Client!inputVars,
       Client!doneVars
<1>1. CASE Client!GoToLinkStatus
    BY <1>1 DEF Client!GoToLinkStatus, Client!DoWaiting
<1>2. CASE Client!GoToReceiveMsg
    BY <1>2 DEF Client!GoToReceiveMsg, Client!DoWaiting
<1>3. CASE Client!GoToSendMsg
    BY <1>3 DEF Client!GoToSendMsg, Client!SendFrame, Client!DoWaiting
<1>4. CASE UNCHANGED <<Client!messageVars, Client!inputVars, processed, sent, linkSeen>>
    BY <1>4
<1>5. QED
    BY <1>1, <1>2, <1>3, <1>4 DEF Client!Step, Client!StepConnected, Client!DoBegin,
       Client!DoInitialize, Client!DoWaitForConnect,
       Client!DoConnected, Client!DoReturnToWaiting, Client!Stay, Client!GoToClosed,
       Client!GoToEntityIdAssigned, Client!GoToSendNop,
       Client!DoWaiting, Client!DoClosed, Client!DoFinish

LEMMA ClientStepTimeType == Client!TimeType /\ Client!Step => Client!TimeType'
<1> SUFFICES ASSUME Client!TimeType, Client!Step PROVE Client!TimeType'
    OBVIOUS
<1>1. now' = now /\ (Client!RearmNop \/ UNCHANGED nopDue)
    BY DEF Client!Step, Client!StepConnected, Client!DoBegin, Client!DoInitialize,
       Client!DoWaitForConnect, Client!DoConnected,
       Client!DoReturnToWaiting, Client!Stay, Client!GoToClosed, Client!GoToLinkStatus,
       Client!GoToReceiveMsg, Client!GoToSendMsg,
       Client!GoToEntityIdAssigned, Client!GoToSendNop, Client!DoWaiting, Client!DoClosed,
       Client!DoFinish, Client!nopVars
<1>2. QED
    BY <1>1, ApsAssumption DEF Client!TimeType, Client!RearmNop

LEMMA ClientStepUplinkType ==
    Client!DataType /\ Client!UplinkType /\ Client!Step => Client!UplinkType'
<1> SUFFICES ASSUME Client!DataType, Client!UplinkType, Client!Step PROVE Client!UplinkType'
    OBVIOUS
<1> USE RequestTypes, ClientSendType DEF Client!UplinkType
<1>1. CASE Client!DoWaitForConnect
    BY <1>1 DEF Client!DoWaitForConnect, Client!GoToConnected
<1>2. CASE Client!DoConnected
    BY <1>2 DEF Client!DoConnected
<1>3. CASE Client!GoToSendMsg
  <2>1. apcMsg \in Nat
      BY ApsAssumption DEF Client!DataType
  <2>2. QED
      BY <1>3, <2>1 DEF Client!GoToSendMsg, Client!SendFrame
<1>4. CASE Client!GoToSendNop
    BY <1>4 DEF Client!GoToSendNop
<1>5. CASE UNCHANGED uplink
    BY <1>5
<1>6. QED
    BY <1>1, <1>2, <1>3, <1>4, <1>5 DEF Client!Step, Client!StepConnected, Client!DoBegin,
       Client!DoInitialize,
       Client!DoReturnToWaiting, Client!Stay, Client!GoToClosed, Client!GoToLinkStatus,
       Client!GoToReceiveMsg,
       Client!GoToEntityIdAssigned, Client!DoClosed, Client!DoFinish

-----------------------------------------------------------------------------
(* The types of both machines, whatever the two queues deliver.             *)

ProxyTypeOK == TypeOK /\ Client!TypeOK /\ backlog \in BOOLEAN

\* A message from the APC leaves the APS with values of their types.
LEMMA AppMessageType ==
    ASSUME TypeOK, NEW kind, NEW n \in Nat, OnAppMessage(kind, n)
    PROVE  TypeOK'
<1> USE DEF TypeOK, OnAppMessage, OnIncomingTcpData, stateVars, timerVars, logVars
<1>1. ControlType'
    BY DEF ControlType, Flags
<1>2. DataType'
    BY ApsAssumption DEF DataType
<1>3. TimeType'
    BY DEF TimeType
<1>4. ConnectionType'
    BY Zenon DEF ConnectionType
<1>5. QED
    BY <1>1, <1>2, <1>3, <1>4

\* The same for a message from the APS and the APC.
LEMMA ClientMessageType ==
    ASSUME Client!TypeOK, NEW type, NEW n \in Nat, Client!OnAppMessage(type, n)
    PROVE  Client!TypeOK'
<1> USE DEF Client!TypeOK, Client!OnAppMessage
<1>1. Client!ControlType'
    BY DEF Client!ControlType, Client!Signals, Client!machineVars, Client!socketVars,
       Client!doneVars
<1>2. Client!DataType'
    BY ApsAssumption DEF Client!DataType, Client!doneVars
<1>3. Client!TimeType' /\ Client!UplinkType'
    BY DEF Client!TimeType, Client!UplinkType, Client!nopVars
<1>4. QED
    BY <1>1, <1>2, <1>3

\* The other events of the APC.
ClientEvent ==
    \/ Client!Run \/ Client!OnIncomingTcpConnection \/ Client!OnTcpConnectionClosed
    \/ Client!OnHttpResponse \/ Client!OnNetAvdeccMessageReceived \/ Client!RequestFinish

LEMMA ClientEventType ==
    ASSUME Client!TypeOK, ClientEvent
    PROVE  Client!TypeOK'
<1> USE DEF Client!TypeOK, ClientEvent, Client!Run, Client!OnIncomingTcpConnection,
       Client!OnTcpConnectionClosed, Client!OnHttpResponse, Client!OnNetAvdeccMessageReceived,
       Client!RequestFinish
<1>1. Client!ControlType'
    BY DEF Client!ControlType, Client!Signals, Client!machineVars, Client!socketVars,
       Client!doneVars
<1>2. Client!DataType'
  <2> USE ApsAssumption DEF Client!DataType
  <2>1. CASE Client!OnNetAvdeccMessageReceived
      BY <2>1 DEF Client!doneVars
  <2>2. CASE UNCHANGED <<Client!messageVars, Client!inputVars, Client!doneVars>>
      BY <2>2 DEF Client!messageVars, Client!inputVars, Client!doneVars
  <2>3. QED
      BY <2>1, <2>2
<1>3. Client!TimeType' /\ Client!UplinkType'
    BY DEF Client!TimeType, Client!UplinkType, Client!nopVars
<1>4. QED
    BY <1>1, <1>2, <1>3

LEMMA ClientStepType == Client!TypeOK /\ Client!Step => Client!TypeOK'
BY ClientStepControlType, ClientStepDataType, ClientStepTimeType, ClientStepUplinkType
   DEF Client!TypeOK

LEMMA ClientRest == Client!TypeOK /\ UNCHANGED clientVars => Client!TypeOK'
BY DEF clientVars, Client!TypeOK, Client!ControlType, Client!DataType, Client!TimeType,
   Client!UplinkType

\* The APC reads from its queue, or it is emptied.
LEMMA WireType ==
    ASSUME TypeOK, wire' \in {<<>>, Tail(wire)}, wire # <<>>,
           UNCHANGED <<stateVars, flags, requestValid, slotVars, timerVars, eventsVars, tcpVars,
                       worldVars, logVars>>
    PROVE  TypeOK'
<1>1. wire' \in Seq(Message)
  <2>1. wire \in Seq(Message)
      BY DEF TypeOK, ConnectionType
  <2>2. Tail(wire) \in Seq(Message) /\ <<>> \in Seq(Message)
      BY <2>1, HeadTailProperties
  <2>3. QED
      BY <2>2
<1>2. ControlType' /\ DataType'
    BY DEF TypeOK, ControlType, DataType, stateVars, slotVars, worldVars, logVars
<1>3. TimeType'
    BY DEF TypeOK, TimeType, timerVars, worldVars, logVars
<1>4. ConnectionType'
    BY <1>1, Zenon DEF TypeOK, ConnectionType, eventsVars, tcpVars, worldVars, logVars
<1>5. QED
    BY <1>2, <1>3, <1>4 DEF TypeOK

\* The next message for the server is a request.
LEMMA NextRequest ==
    ASSUME Client!TypeOK, uplink # <<>>
    PROVE  /\ Head(uplink) \in Client!Request /\ Head(uplink).n \in Nat
           /\ Tail(uplink) \in Seq(Client!Request)
<1>1. uplink \in Seq(Client!Request)
    BY DEF Client!TypeOK, Client!UplinkType
<1>2. Head(uplink) \in Client!Request /\ Tail(uplink) \in Seq(Client!Request)
    BY <1>1, HeadTailProperties
<1>3. QED
    BY <1>2 DEF Client!Request

\* The next message for the client is a message.
LEMMA NextMessage ==
    ASSUME TypeOK, wire # <<>>
    PROVE  /\ Head(wire) \in Message /\ Head(wire).n \in Nat
           /\ Tail(wire) \in Seq(Message)
<1>1. wire \in Seq(Message)
    BY DEF TypeOK, ConnectionType
<1>2. Head(wire) \in Message /\ Tail(wire) \in Seq(Message)
    BY <1>1, HeadTailProperties
<1>3. QED
    BY <1>2 DEF Message

LEMMA ProxyNextType == ProxyTypeOK /\ [ProxyNext]_proxyVars => ProxyTypeOK'
<1> SUFFICES ASSUME ProxyTypeOK, [ProxyNext]_proxyVars PROVE ProxyTypeOK'
    OBVIOUS
<1>0. TypeOK /\ Client!TypeOK /\ backlog \in BOOLEAN
    BY DEF ProxyTypeOK
<1> USE DEF ProxyTypeOK
<1>1. CASE ServerRuns \/ ServerAlone \/ ServerSeesClose
    BY <1>0, <1>1, NextType, ClientRest DEF ServerRuns, ServerAlone, ServerSeesClose, Next, Event
<1>2. CASE ClientRuns
    BY <1>0, <1>2, NextType, ClientStepType, ClientEventType DEF ClientRuns, Client!Step,
       ClientEvent
<1>3. CASE Connect
  <2>1. UNCHANGED vars /\ Client!Step /\ backlog' = TRUE
      BY <1>3 DEF Connect, Client!Step
  <2>2. QED
      BY <1>0, <2>1, NextType, ClientStepType
<1>4. CASE ClientAlone \/ ClientConnected
    BY <1>0, <1>4, NextType, ClientEventType DEF ClientAlone, ClientConnected, ClientEvent
<1>5. CASE ClientSeesClose
    BY <1>0, <1>5, NextType, ClientEventType DEF ClientSeesClose, ClientEvent
<1>6. CASE Accept
    BY <1>0, <1>6, NextType, ClientRest DEF Accept, Next, Event
<1>7. CASE ServerReads
  <2>1. /\ uplink # <<>> /\ uplink' = Tail(uplink)
        /\ UNCHANGED <<state, active, raised, apcMsg, apsMsg, linkMsg, nopDue, now, http, socket,
                       captured, heard, processed, sent, linkSeen, available, backlog>>
        /\ \/ OnIncomingTcpHttpData("done")
           \/ OnAppMessage(Head(uplink).type, Head(uplink).n)
      BY <1>7 DEF ServerReads
  <2>2. TypeOK'
      BY <1>0, <2>1, NextRequest, NextType, AppMessageType DEF Next, Event, HttpInput
  <2>3. Client!UplinkType'
      BY <1>0, <2>1, NextRequest DEF Client!UplinkType
  <2>4. Client!ControlType' /\ Client!DataType' /\ Client!TimeType' /\ backlog' = backlog
      BY <1>0, <2>1 DEF Client!TypeOK, Client!ControlType, Client!DataType, Client!TimeType
  <2>5. QED
      BY <1>0, <2>2, <2>3, <2>4 DEF Client!TypeOK
<1>8. CASE ClientReadsNext
  <2>1. /\ wire # <<>> /\ wire' = Tail(wire)
        /\ UNCHANGED <<stateVars, flags, requestValid, slotVars, timerVars, eventsVars, tcpVars,
                       worldVars, logVars, backlog>>
        /\ \/ Client!OnHttpResponse
           \/ Client!OnAppMessage(Head(wire).type, Head(wire).n)
      BY <1>8 DEF ClientReadsNext
  <2>2. TypeOK'
      BY <1>0, <2>1, WireType
  <2>3. Client!TypeOK'
      BY <1>0, <2>1, NextMessage, ClientEventType, ClientMessageType DEF ClientEvent
  <2>4. QED
      BY <1>0, <2>1, <2>2, <2>3
<1>9. CASE Lost
  <2>1. CASE socket = "closed" /\ ClientReads /\ UNCHANGED <<clientVars, backlog>>
      BY <1>0, <2>1, NextType, ClientRest DEF Next
  <2>2. CASE ~backlog /\ tcp # "open" /\ Client!ServerReads /\ UNCHANGED <<vars, backlog>>
    <3>1. Client!UplinkType'
        BY <2>2 DEF Client!ServerReads, Client!UplinkType
    <3>2. Client!ControlType' /\ Client!DataType' /\ Client!TimeType'
        BY <1>0, <2>2 DEF Client!ServerReads, Client!TypeOK, Client!ControlType, Client!DataType,
           Client!TimeType, Client!machineVars, Client!messageVars, Client!nopVars,
           Client!socketVars, Client!inputVars, Client!doneVars
    <3>3. QED
        BY <1>0, <2>2, <3>1, <3>2, NextType DEF Client!TypeOK
  <2>3. QED
      BY <1>9, <2>1, <2>2 DEF Lost
<1>10. CASE UNCHANGED proxyVars
    BY <1>0, <1>10, NextType, ClientRest DEF proxyVars
<1>11. QED
    BY <1>1, <1>2, <1>3, <1>4, <1>5, <1>6, <1>7, <1>8, <1>9, <1>10 DEF ProxyNext

LEMMA ProxyInitType == ProxyInit => ProxyTypeOK
<1> SUFFICES ASSUME ProxyInit PROVE ProxyTypeOK
    OBVIOUS
<1>1. TypeOK
    BY InitType DEF ProxyInit
<1>2. Client!ControlType
    BY DEF ProxyInit, Client!Init, Client!ControlType, Client!States, Client!Signals
<1>3. Client!UplinkType
    BY DEF ProxyInit, Client!Init, Client!UplinkType
<1>4. Client!DataType /\ Client!TimeType
    BY ApsAssumption DEF ProxyInit, Client!Init, Client!DataType, Client!TimeType
<1>5. QED
    BY <1>1, <1>2, <1>3, <1>4 DEF ProxyInit, ProxyTypeOK, Client!TypeOK

\* Joined, the machines keep the types and bounds each of them has alone: in
\* particular the queues hold messages that the other end knows.
THEOREM ProxyTypeCorrect == ProxySpec => []ProxyTypeOK
BY ProxyInitType, ProxyNextType, PTL DEF ProxySpec
-----------------------------------------------------------------------------
(* The queues.  The numbers of the messages of one type are between two     *)
(* bounds and grow from the head of the queue to its end.                   *)

Ordered(q, t, low, high) ==
    /\ \A i \in 1 .. Len(q) : q[i].type = t => low < q[i].n /\ q[i].n <= high
    /\ \A i, j \in 1 .. Len(q) :
           i < j /\ q[i].type = t /\ q[j].type = t => q[i].n < q[j].n

LEMMA OrderedEmpty == ASSUME NEW t, NEW low, NEW high PROVE Ordered(<<>>, t, low, high)
BY DEF Ordered

\* What is behind the head stays in order, and above the number at the head.
LEMMA OrderedTail ==
    ASSUME NEW S, \A m \in S : m.n \in Nat, NEW q \in Seq(S), q # <<>>, NEW t,
           NEW low \in Nat, NEW high \in Nat, Ordered(q, t, low, high)
    PROVE  /\ Ordered(Tail(q), t, low, high)
           /\ Head(q).type = t => /\ low < Head(q).n /\ Head(q).n <= high
                                  /\ Ordered(Tail(q), t, Head(q).n, high)
<1>1. /\ Len(q) \in Nat /\ Len(q) > 0 /\ Tail(q) \in Seq(S) /\ Len(Tail(q)) = Len(q) - 1
      /\ \A i \in 1 .. Len(Tail(q)) : Tail(q)[i] = q[i + 1]
    BY HeadTailProperties, EmptySeq
<1>2. Head(q) = q[1]
    BY <1>1
<1>3. \A i \in 1 .. Len(Tail(q)) : i + 1 \in 1 .. Len(q) /\ 1 < i + 1
    BY <1>1
<1>4. Ordered(Tail(q), t, low, high)
    BY <1>1, <1>3 DEF Ordered
<1>5. ASSUME Head(q).type = t
      PROVE  low < Head(q).n /\ Head(q).n <= high /\ Ordered(Tail(q), t, Head(q).n, high)
    BY <1>1, <1>2, <1>3, <1>4, <1>5 DEF Ordered
<1>6. QED
    BY <1>4, <1>5

\* Messages of other types do not matter.
LEMMA OrderedConcat ==
    ASSUME NEW S, NEW q \in Seq(S), NEW msgs \in Seq(S), NEW t, NEW low, NEW high,
           \A k \in 1 .. Len(msgs) : msgs[k].type # t, Ordered(q, t, low, high)
    PROVE  Ordered(q \o msgs, t, low, high)
<1>1. /\ Len(q) \in Nat /\ Len(msgs) \in Nat /\ Len(q \o msgs) = Len(q) + Len(msgs)
      /\ \A i \in 1 .. Len(q) + Len(msgs) :
             (q \o msgs)[i] = IF i <= Len(q) THEN q[i] ELSE msgs[i - Len(q)]
    BY ConcatProperties, LenProperties
<1>2. \A i \in 1 .. Len(q) + Len(msgs) :
          (q \o msgs)[i].type = t => i \in 1 .. Len(q) /\ (q \o msgs)[i] = q[i]
  <2> TAKE i \in 1 .. Len(q) + Len(msgs)
  <2>1. CASE i <= Len(q)
      BY <1>1, <2>1
  <2>2. CASE ~(i <= Len(q))
    <3>1. i - Len(q) \in 1 .. Len(msgs)
        BY <1>1, <2>2
    <3>2. (q \o msgs)[i] = msgs[i - Len(q)]
        BY <1>1, <2>2
    <3>3. QED
        BY <3>1, <3>2
  <2>3. QED
      BY <2>1, <2>2
<1>3. QED
    BY <1>1, <1>2 DEF Ordered

\* A newer number goes to the end, or nowhere.
LEMMA OrderedAppend ==
    ASSUME NEW S, \A m \in S : m.n \in Nat, NEW q \in Seq(S), NEW msg \in S, NEW t,
           NEW low \in Nat, NEW high \in Nat, Ordered(q, t, low, high),
           low <= high, high < msg.n
    PROVE  /\ Ordered(Append(q, msg), t, low, msg.n)
           /\ Ordered(q, t, low, msg.n)
<1>1. /\ Len(q) \in Nat /\ Len(Append(q, msg)) = Len(q) + 1
      /\ \A i \in 1 .. Len(q) : Append(q, msg)[i] = q[i]
      /\ Append(q, msg)[Len(q) + 1] = msg
    BY AppendProperties, LenProperties
<1>2. \A i \in 1 .. Len(q) : q[i].n \in Nat
    BY ElementOfSeq
<1>3. 1 .. Len(q) + 1 = (1 .. Len(q)) \cup {Len(q) + 1} /\ msg.n \in Nat
    BY <1>1
<1>4. Ordered(q, t, low, msg.n)
    BY <1>2, <1>3 DEF Ordered
<1>5. \A i \in 1 .. Len(q) + 1 : Append(q, msg)[i].type = t
          => low < Append(q, msg)[i].n /\ Append(q, msg)[i].n <= msg.n
    BY <1>1, <1>3, <1>4 DEF Ordered
<1>6. ASSUME NEW i \in 1 .. Len(q) + 1, NEW j \in 1 .. Len(q) + 1, i < j,
             Append(q, msg)[i].type = t, Append(q, msg)[j].type = t
      PROVE  Append(q, msg)[i].n < Append(q, msg)[j].n
  <2>1. i \in 1 .. Len(q) /\ Append(q, msg)[i] = q[i]
      BY <1>1, <1>6
  <2>2. CASE j \in 1 .. Len(q)
      BY <1>1, <1>6, <2>1, <2>2 DEF Ordered
  <2>3. CASE j = Len(q) + 1
      BY <1>1, <1>2, <1>3, <1>6, <2>1, <2>3 DEF Ordered
  <2>4. QED
      BY <1>3, <2>2, <2>3
<1>7. QED
    BY <1>1, <1>4, <1>5, <1>6 DEF Ordered

-----------------------------------------------------------------------------
(* What the steps of each machine leave alone.                              *)

FromAps == "AVDECC_FROM_APS"
FromApc == "AVDECC_FROM_APC"

\* A step of the APS adds to the queue only what it says itself, unless it
\* hands a frame on.
LEMMA StepWire ==
    ASSUME TypeOK, Step
    PROVE  \/ GoToTransferToApc
           \/ /\ UNCHANGED down
              /\ \E msgs \in Seq(Message) :
                     /\ wire' = wire \o msgs
                     /\ \A k \in 1 .. Len(msgs) : msgs[k].type # FromAps
<1> USE DEF FromAps
<1>0. wire \in Seq(Message) /\ DataType
    BY DEF TypeOK, ConnectionType
<1>1. CASE UNCHANGED <<wire, down>>
  <2>1. <<>> \in Seq(Message) /\ wire = wire \o <<>> /\ Len(<<>>) = 0
      BY <1>0, ConcatEmptySeq, EmptySeq
  <2>2. \A k \in 1 .. Len(<<>>) : <<>>[k].type # FromAps
      BY <2>1
  <2>3. \E msgs \in Seq(Message) :
            wire' = wire \o msgs /\ \A k \in 1 .. Len(msgs) : msgs[k].type # FromAps
      BY <1>1, <2>1, <2>2, Zenon
  <2>4. QED
      BY <1>1, <2>3
<1>2. ASSUME NEW msgs \in Seq(Message), Send(msgs), UNCHANGED down,
             \A k \in 1 .. Len(msgs) : msgs[k].type # FromAps
      PROVE  \/ UNCHANGED <<wire, down>>
             \/ /\ UNCHANGED down
                /\ \E ms \in Seq(Message) :
                       /\ wire' = wire \o ms
                       /\ \A k \in 1 .. Len(ms) : ms[k].type # FromAps
    BY <1>2 DEF Send
<1>3. /\ \A k \in 1 .. Len(Greeting) : Greeting[k].type # FromAps
      /\ \A k \in 1 .. Len(<<LinkMessage>>) : <<LinkMessage>>[k].type # FromAps
      /\ \A k \in 1 .. Len(<<Msg("ENTITY_ID_RESPONSE")>>) :
             <<Msg("ENTITY_ID_RESPONSE")>>[k].type # FromAps
      /\ \A k \in 1 .. Len(<<Msg("NOP")>>) : <<Msg("NOP")>>[k].type # FromAps
    BY DEF Greeting, LinkMessage, Msg
<1>4. CASE DoAccept
    BY <1>0, <1>1, <1>2, <1>3, <1>4, MessageTypes DEF DoAccept
<1>5. CASE GoToLinkStatus
    BY <1>0, <1>1, <1>2, <1>3, <1>5, MessageTypes DEF GoToLinkStatus
<1>6. CASE GoToAssignEntityId
    BY <1>0, <1>1, <1>2, <1>3, <1>6, MessageTypes DEF GoToAssignEntityId
<1>7. CASE GoToSendNop
    BY <1>0, <1>1, <1>2, <1>3, <1>7, MessageTypes DEF GoToSendNop
<1>8. QED
    BY <1>1, <1>4, <1>5, <1>6, <1>7 DEF Step, DoBegin, DoInitialize, GoToWaitForConnect,
       DoWaitForConnect, DoReturnToWaiting, GoToClosedOrStay, GoToTransferToL2,
       GoToCloseAndFinish, DoClosed, DoCloseAndFinish, DoFinish, logVars

\* A step of the APC takes a message from a slot only where it hands it on.
LEMMA ClientStepView ==
    ASSUME Client!Step
    PROVE  /\ UNCHANGED <<apcMsg, apsMsg, linkMsg, captured, heard>>
           /\ raised' \subseteq raised \cup {"tcpConnected"}
           /\ Client!GoToReceiveMsg \/ UNCHANGED processed
           /\ Client!GoToSendMsg \/ UNCHANGED sent
<1> USE DEF Client!messageVars, Client!inputVars, Client!doneVars
<1>1. UNCHANGED <<apcMsg, apsMsg, linkMsg, captured, heard>>
    BY DEF Client!Step, Client!StepConnected, Client!DoBegin, Client!DoInitialize,
       Client!DoWaitForConnect, Client!DoConnected, Client!DoReturnToWaiting, Client!Stay,
       Client!GoToClosed, Client!GoToLinkStatus, Client!GoToReceiveMsg, Client!GoToSendMsg,
       Client!GoToEntityIdAssigned, Client!GoToSendNop, Client!DoClosed, Client!DoFinish,
       Client!DoWaiting
<1>2. raised' \subseteq raised \cup {"tcpConnected"}
    BY DEF Client!Step, Client!StepConnected, Client!DoBegin, Client!DoInitialize,
       Client!DoWaitForConnect, Client!GoToConnected, Client!DoConnected,
       Client!DoReturnToWaiting, Client!Stay, Client!GoToClosed, Client!GoToLinkStatus,
       Client!GoToReceiveMsg, Client!GoToSendMsg, Client!GoToEntityIdAssigned,
       Client!GoToSendNop, Client!DoClosed, Client!DoFinish
<1>3. Client!GoToReceiveMsg \/ UNCHANGED processed
    BY DEF Client!Step, Client!StepConnected, Client!DoBegin, Client!DoInitialize,
       Client!DoWaitForConnect, Client!DoConnected, Client!DoReturnToWaiting, Client!Stay,
       Client!GoToClosed, Client!GoToLinkStatus, Client!GoToSendMsg,
       Client!GoToEntityIdAssigned, Client!GoToSendNop, Client!DoClosed, Client!DoFinish
<1>4. Client!GoToSendMsg \/ UNCHANGED sent
    BY DEF Client!Step, Client!StepConnected, Client!DoBegin, Client!DoInitialize,
       Client!DoWaitForConnect, Client!DoConnected, Client!DoReturnToWaiting, Client!Stay,
       Client!GoToClosed, Client!GoToLinkStatus, Client!GoToReceiveMsg,
       Client!GoToEntityIdAssigned, Client!GoToSendNop, Client!DoClosed, Client!DoFinish
<1>5. QED
    BY <1>1, <1>2, <1>3, <1>4

\* Its events leave alone what it has received, sent and handed on.
LEMMA ClientEventView ==
    ASSUME ClientEvent
    PROVE  /\ UNCHANGED <<apsMsg, linkMsg, heard, processed, sent, linkSeen, uplink, state>>
           /\ raised \subseteq raised'
           /\ \A s \in {"apsMsgIn", "linkStatusMsg"} : s \in raised' => s \in raised
           /\ \/ Client!OnNetAvdeccMessageReceived
              \/ /\ UNCHANGED <<apcMsg, captured>>
                 /\ "apcMsgOut" \in raised' => "apcMsgOut" \in raised
<1> USE DEF Client!machineVars, Client!messageVars, Client!inputVars, Client!doneVars
<1>1. CASE Client!Run \/ Client!OnIncomingTcpConnection \/ Client!OnTcpConnectionClosed
    BY <1>1 DEF Client!Run, Client!OnIncomingTcpConnection, Client!OnTcpConnectionClosed
<1>2. CASE Client!OnHttpResponse \/ Client!RequestFinish
    BY <1>2 DEF Client!OnHttpResponse, Client!RequestFinish
<1>3. CASE Client!OnNetAvdeccMessageReceived
    BY <1>3 DEF Client!OnNetAvdeccMessageReceived
<1>4. QED
    BY <1>1, <1>2, <1>3 DEF ClientEvent
-----------------------------------------------------------------------------
(* The steps, sorted by the machine that takes them.                        *)

LEMMA ProxySteps ==
    ASSUME [ProxyNext]_proxyVars
    PROVE  \/ ServerRuns \/ ServerAlone \/ ServerSeesClose \/ Accept
           \/ socket = "closed" /\ ClientReads /\ UNCHANGED <<clientVars, backlog>>
           \/ Client!Step /\ UNCHANGED vars
           \/ ClientEvent /\ UNCHANGED vars
           \/ ServerReads \/ ClientReadsNext
           \/ Client!ServerReads /\ UNCHANGED vars
           \/ UNCHANGED proxyVars
<1>1. ClientRuns \/ Connect => UNCHANGED vars /\ (ClientEvent \/ Client!Step)
    BY DEF ClientRuns, Connect, ClientEvent, Client!Step
<1>2. ClientAlone \/ ClientConnected \/ ClientSeesClose => UNCHANGED vars /\ ClientEvent
    BY DEF ClientAlone, ClientConnected, ClientSeesClose, ClientEvent
<1>3. Lost => \/ socket = "closed" /\ ClientReads /\ UNCHANGED <<clientVars, backlog>>
              \/ Client!ServerReads /\ UNCHANGED vars
    BY DEF Lost
<1>4. QED
    BY <1>1, <1>2, <1>3 DEF ProxyNext

-----------------------------------------------------------------------------
(* Frames on their way from the APS's network to the APC's application.     *)

\* The APC's slot holds the newest frame that arrived, and while the flag is
\* set that frame was not handed on.
ClientSlot ==
    /\ apsMsg = heard
    /\ processed.last <= heard
    /\ "apsMsgIn" \in raised => processed.last < heard

\* What is in the queue was handed to it later than what has arrived.
FramesTravel ==
    /\ heard <= down.last
    /\ Ordered(wire, FromAps, heard, down.last)

FramesInv == DownSlot /\ ClientSlot /\ FramesTravel

FramesStep == FramesInv' /\ [ToClient!Next]_<<frames, processed.last, processed.count>>

LEMMA FramesTravelPrime ==
    FramesTravel' <=> heard' <= down'.last /\ Ordered(wire', FromAps, heard', down'.last)
BY DEF FramesTravel, Ordered, FromAps

LEMMA FrameTypes ==
    ASSUME ProxyTypeOK
    PROVE  /\ in \in Nat /\ frames \in Nat /\ down.last \in Nat
           /\ heard \in Nat /\ apsMsg \in Nat /\ processed.last \in Nat
           /\ wire \in Seq(Message) /\ \A m \in Message : m.n \in Nat
BY ApsAssumption DEF ProxyTypeOK, TypeOK, DataType, ConnectionType, Client!TypeOK,
   Client!DataType, Message

\* A step of the APS appends the frame it hands on, which is newer than all
\* that it handed on before, or it loses it.
LEMMA ServerFramesTravel ==
    ASSUME ProxyTypeOK, DownSlot, FramesTravel, Step, heard' = heard
    PROVE  FramesTravel'
<1>0. heard <= down.last /\ Ordered(wire, FromAps, heard, down.last)
    BY DEF FramesTravel
<1>1. CASE GoToTransferToApc /\ UNCHANGED <<wire, down>>
    BY <1>0, <1>1, FramesTravelPrime
<1>2. CASE GoToTransferToApc /\ ~UNCHANGED <<wire, down>>
  <2> DEFINE msg == [type |-> FromAps, n |-> in]
  <2>1. /\ wire' = IF tcp = "open" THEN wire \o <<msg>> ELSE wire
        /\ down'.last = in
        /\ "L2Msg" \in flags
      BY <1>2 DEF GoToTransferToApc, SendFrame, Send, FromAps, DoWaiting, WaitingChoice
  <2>2. msg \in Message /\ down.last < msg.n /\ msg.n = in
      BY <2>1, FrameTypes DEF DownSlot, Message, FromAps
  <2>3. Ordered(Append(wire, msg), FromAps, heard, in) /\ Ordered(wire, FromAps, heard, in)
      BY <1>0, <2>2, FrameTypes, OrderedAppend
  <2>4. wire \o <<msg>> = Append(wire, msg)
      BY <2>2, FrameTypes, AppendIsConcat
  <2>5. wire' \in {wire, Append(wire, msg)}
      BY <2>1, <2>4
  <2>6. Ordered(wire', FromAps, heard, in)
      BY <2>3, <2>5
  <2>7. heard <= in
      BY <1>0, <2>2, FrameTypes
  <2>8. QED
      BY <2>1, <2>6, <2>7, FramesTravelPrime
<1>3. CASE ~GoToTransferToApc
  <2>1. PICK msgs \in Seq(Message) :
            /\ UNCHANGED down
            /\ wire' = wire \o msgs
            /\ \A k \in 1 .. Len(msgs) : msgs[k].type # FromAps
      BY <1>3, StepWire DEF ProxyTypeOK
  <2>2. QED
      BY <1>0, <2>1, FrameTypes, FramesTravelPrime, OrderedConcat
<1>4. QED
    BY <1>2, <1>3, <1>1

\* What the APC receives of a frame; the rest of its events concern others.
LEMMA FramesReceived ==
    ASSUME ProxyTypeOK, ClientSlot, FramesTravel, ClientReadsNext
    PROVE  ClientSlot' /\ FramesTravel' /\ UNCHANGED <<frames, processed>>
<1>0. heard <= down.last /\ Ordered(wire, FromAps, heard, down.last)
    BY DEF FramesTravel
<1>1. wire # <<>> /\ wire' = Tail(wire) /\ UNCHANGED <<frames, down>>
    BY DEF ClientReadsNext, worldVars, logVars
<1>2. /\ Ordered(Tail(wire), FromAps, heard, down.last)
      /\ Head(wire).type = FromAps =>
             /\ heard < Head(wire).n /\ Head(wire).n <= down.last
             /\ Ordered(Tail(wire), FromAps, Head(wire).n, down.last)
    BY <1>0, <1>1, FrameTypes, OrderedTail
<1>3. CASE Client!OnHttpResponse
  <2>1. UNCHANGED <<apsMsg, heard,
       processed>> /\ ("apsMsgIn" \in raised' => "apsMsgIn" \in raised)
      BY <1>3 DEF Client!OnHttpResponse, Client!messageVars, Client!inputVars, Client!doneVars
  <2>2. QED
      BY <1>0, <1>1, <1>2, <2>1, FramesTravelPrime DEF ClientSlot
<1>4. CASE Client!OnAppMessage(Head(wire).type, Head(wire).n)
  <2>1. UNCHANGED processed
      BY <1>4 DEF Client!OnAppMessage, Client!doneVars
  <2>2. CASE Head(wire).type = FromAps
    <3>1. apsMsg' = Head(wire).n /\ heard' = Head(wire).n
        BY <1>4, <2>2 DEF Client!OnAppMessage, FromAps
    <3>2. Head(wire).n \in Nat
        BY <1>1, NextMessage DEF ProxyTypeOK
    <3>3. QED
        BY <1>0, <1>1, <1>2, <2>1, <2>2, <3>1, <3>2, FrameTypes, FramesTravelPrime DEF ClientSlot
  <2>3. CASE Head(wire).type # FromAps
    <3>1. UNCHANGED <<apsMsg, heard>> /\ ("apsMsgIn" \in raised' => "apsMsgIn" \in raised)
        BY <1>4, <2>3 DEF Client!OnAppMessage, FromAps
    <3>2. QED
        BY <1>0, <1>1, <1>2, <2>1, <3>1, FramesTravelPrime DEF ClientSlot
  <2>4. QED
      BY <2>2, <2>3
<1>5. QED
    BY <1>3, <1>4 DEF ClientReadsNext

\* The APC hands on what is in its slot, and leaves the flag down.
LEMMA ClientFrames ==
    ASSUME ProxyTypeOK, FramesInv, Client!Step, UNCHANGED vars
    PROVE  /\ ClientSlot' /\ UNCHANGED heard
           /\ [ToClient!Next]_<<frames, processed.last, processed.count>>
<1>0. /\ in = frames /\ down.last <= frames /\ heard <= down.last
      /\ UNCHANGED <<apsMsg, heard, frames>>
      /\ raised' \subseteq raised \cup {"tcpConnected"}
    BY ClientStepView DEF FramesInv, DownSlot, FramesTravel, vars, worldVars
<1>1. CASE Client!GoToReceiveMsg
  <2>1. "apsMsgIn" \in raised /\ "apsMsgIn" \notin raised'
      BY <1>1 DEF Client!GoToReceiveMsg, Client!DoWaiting, Client!WaitingChoice
  <2>2. processed' = [last |-> apsMsg, count |-> processed.count + 1]
      BY <1>1 DEF Client!GoToReceiveMsg
  <2>3. processed.last < apsMsg /\ apsMsg <= frames /\ apsMsg = heard
      BY <1>0, <2>1, FrameTypes DEF FramesInv, ClientSlot
  <2>4. ClientSlot'
      BY <1>0, <2>1, <2>2, <2>3, FrameTypes DEF ClientSlot
  <2>5. processed'.last \in processed.last + 1 .. frames
      BY <2>2, <2>3, FrameTypes
  <2>6. QED
      BY <1>0, <2>2, <2>4, <2>5 DEF ToClient!Next, ToClient!Deliver
<1>2. CASE UNCHANGED processed
    BY <1>0, <1>2 DEF FramesInv, ClientSlot
<1>3. QED
    BY <1>1, <1>2, ClientStepView

LEMMA FramesInvStep ==
    ASSUME ProxyTypeOK, FramesInv, [ProxyNext]_proxyVars
    PROVE  FramesStep
<1>0. DownSlot /\ ClientSlot /\ FramesTravel /\ DataType /\ TypeOK
    BY DEF FramesInv, ProxyTypeOK, TypeOK
<1> USE DEF FramesInv, FramesStep
<1>1. ASSUME [Next]_vars, UNCHANGED <<apsMsg, heard, processed, raised>>
      PROVE  DownSlot' /\ ClientSlot'
             /\ [ToClient!Next]_<<frames, processed.last, processed.count>>
  <2>1. DownSlot' /\ [Down!Next]_<<frames, down.last, down.count>>
      BY <1>0, <1>1, DownSlotStep
  <2>2. frames' = frames + 1 \/ frames' = frames
      BY <2>1 DEF Down!Next, Down!Offer, Down!Deliver
  <2>3. ClientSlot'
      BY <1>0, <1>1 DEF ClientSlot
  <2>4. QED
      BY <1>1, <2>1, <2>2, <2>3 DEF ToClient!Next, ToClient!Offer
<1>2. ASSUME UNCHANGED <<in, frames, down, flags, wire, heard>>
      PROVE  DownSlot' /\ FramesTravel'
    BY <1>0, <1>2, FramesTravelPrime DEF DownSlot, FramesTravel
<1>3. CASE ServerRuns
  <2>1. UNCHANGED <<apsMsg, heard, processed, raised>> /\ (Run \/ Step)
      BY <1>3 DEF ServerRuns, clientVars
  <2>2. FramesTravel'
    <3>1. CASE Run
        BY <1>0, <2>1, <3>1, FramesTravelPrime DEF Run, logVars, FramesTravel
    <3>2. CASE Step
        BY <1>0, <2>1, <3>2, ServerFramesTravel
    <3>3. QED
        BY <2>1, <3>1, <3>2
  <2>3. QED
      BY <1>1, <2>1, <2>2 DEF Next
<1>4. CASE ServerAlone \/ ServerSeesClose \/ Accept
  <2>1. UNCHANGED <<apsMsg, heard, processed, raised>> /\ [Next]_vars
      BY <1>4 DEF ServerAlone, ServerSeesClose, Accept, clientVars, Next, Event
  <2>2. UNCHANGED down /\ wire' \in {<<>>, wire}
      BY <1>4 DEF ServerAlone, ServerSeesClose, Accept, OnNetLinkStatusUpdated,
         OnNetAvdeccMessageReceived, RequestFinish, OnTcpConnectionClosed,
         OnIncomingTcpConnection, logVars
  <2>3. FramesTravel'
      BY <1>0, <2>1, <2>2, OrderedEmpty, FramesTravelPrime DEF FramesTravel
  <2>4. QED
      BY <1>1, <2>1, <2>3
<1>5. CASE socket = "closed" /\ ClientReads /\ UNCHANGED <<clientVars, backlog>>
  <2>1. UNCHANGED <<apsMsg, heard, processed, raised>> /\ [Next]_vars
      BY <1>5 DEF clientVars, Next
  <2>2. UNCHANGED down /\ wire' = <<>>
      BY <1>5 DEF ClientReads, logVars
  <2>3. FramesTravel'
      BY <1>0, <2>1, <2>2, OrderedEmpty, FramesTravelPrime DEF FramesTravel
  <2>4. QED
      BY <1>1, <2>1, <2>3
<1>6. CASE Client!Step /\ UNCHANGED vars
  <2>1. UNCHANGED <<in, frames, down, flags, wire>>
      BY <1>6 DEF vars, slotVars, worldVars, logVars
  <2>2. QED
      BY <1>0, <1>2, <1>6, <2>1, ClientFrames
<1>7. CASE ClientEvent /\ UNCHANGED vars
  <2>1. UNCHANGED <<in, frames, down, flags, wire>>
      BY <1>7 DEF vars, slotVars, worldVars, logVars
  <2>2. /\ UNCHANGED <<apsMsg, heard, processed>>
        /\ "apsMsgIn" \in raised' => "apsMsgIn" \in raised
      BY <1>7, ClientEventView
  <2>3. ClientSlot'
      BY <1>0, <2>2 DEF ClientSlot
  <2>4. QED
      BY <1>2, <2>1, <2>2, <2>3
<1>8. CASE ServerReads
  <2>1. UNCHANGED <<apsMsg, heard, processed, raised>>
      BY <1>8 DEF ServerReads
  <2>2. /\ UNCHANGED <<in, frames, down, wire>>
        /\ "L2Msg" \in flags' => "L2Msg" \in flags
      BY <1>8 DEF ServerReads, OnIncomingTcpHttpData, OnAppMessage, OnIncomingTcpData, logVars
  <2>3. DownSlot' /\ ClientSlot' /\ FramesTravel'
      BY <1>0, <2>1, <2>2, FramesTravelPrime DEF DownSlot, ClientSlot, FramesTravel
  <2>4. QED
      BY <2>1, <2>2, <2>3
<1>9. CASE ClientReadsNext
  <2>1. UNCHANGED <<in, frames, down, flags>>
      BY <1>9 DEF ClientReadsNext, slotVars, worldVars, logVars
  <2>2. ClientSlot' /\ FramesTravel' /\ UNCHANGED <<frames, processed>>
      BY <1>0, <1>9, FramesReceived
  <2>3. DownSlot'
      BY <1>0, <2>1 DEF DownSlot
  <2>4. QED
      BY <2>2, <2>3
<1>10. CASE (Client!ServerReads /\ UNCHANGED vars) \/ UNCHANGED proxyVars
  <2>1. UNCHANGED <<in, frames, down, flags, wire, apsMsg, heard, processed, raised>>
      BY <1>10 DEF Client!ServerReads, Client!messageVars, Client!inputVars, Client!doneVars,
         proxyVars, clientVars, vars, slotVars, worldVars, logVars
  <2>2. ClientSlot'
      BY <1>0, <2>1 DEF ClientSlot
  <2>3. QED
      BY <1>2, <2>1, <2>2
<1>11. QED
    BY <1>3, <1>4, <1>5, <1>6, <1>7, <1>8, <1>9, <1>10, ProxySteps

\* Through two slots and the queue between them, a frame reaches the
\* application at most once and in order: the invariant orders the last frame
\* handed on, the slot of the APC, what is in flight, and the slot of the APS.
THEOREM RelaysFramesHolds == ProxySpec => RelaysFrames
<1>1. ProxyInit => FramesInv /\ ToClient!Init
    BY OrderedEmpty DEF ProxyInit, Init, Client!Init, FramesInv, DownSlot, ClientSlot,
       FramesTravel, ToClient!Init
<1>2. QED
    BY <1>1, ProxyTypeCorrect, FramesInvStep, PTL DEF ProxySpec, RelaysFrames, ToClient!Spec,
       FramesStep
-----------------------------------------------------------------------------
(* PDUs on their way from the APC's network to the APS's.                   *)

ClientOut ==
    /\ apcMsg = captured
    /\ sent.last <= captured
    /\ "apcMsgOut" \in raised => sent.last < captured

\* The connection tears no message apart, so that the slot holds no garbage.
ServerOut ==
    /\ out = pdus
    /\ up.last <= pdus
    /\ "apcMsg" \in flags => up.last < pdus

PdusTravel ==
    /\ pdus <= sent.last
    /\ Ordered(uplink, FromApc, pdus, sent.last)

PdusInv == ClientOut /\ ServerOut /\ PdusTravel

PdusStep == PdusInv' /\ [ToNetwork!Next]_<<captured, up.last, up.count>>

LEMMA PdusTravelPrime ==
    PdusTravel' <=> pdus' <= sent'.last /\ Ordered(uplink', FromApc, pdus', sent'.last)
BY DEF PdusTravel, Ordered, FromApc

LEMMA PduTypes ==
    ASSUME ProxyTypeOK
    PROVE  /\ out \in Nat /\ pdus \in Nat /\ up.last \in Nat
           /\ captured \in Nat /\ apcMsg \in Nat /\ sent.last \in Nat
           /\ uplink \in Seq(Client!Request) /\ \A m \in Client!Request : m.n \in Nat
BY ApsAssumption DEF ProxyTypeOK, TypeOK, DataType, Client!TypeOK, Client!DataType,
   Client!UplinkType, Client!Request

\* A message of another type at the end does not matter.
LEMMA OrderedOther ==
    ASSUME NEW S, NEW q \in Seq(S), NEW msg \in S, NEW t, NEW low, NEW high,
           msg.type # t, Ordered(q, t, low, high)
    PROVE  Ordered(Append(q, msg), t, low, high)
<1>1. <<msg>> \in Seq(S) /\ \A k \in 1 .. Len(<<msg>>) : <<msg>>[k].type # t
    OBVIOUS
<1>2. Ordered(q \o <<msg>>, t, low, high)
    BY <1>1, OrderedConcat
<1>3. QED
    BY <1>2, AppendIsConcat

\* A step of the APC adds to its queue only a message of its own, unless it
\* sends a PDU.
LEMMA ClientStepUplink ==
    ASSUME Client!Step
    PROVE  \/ Client!GoToSendMsg
           \/ /\ UNCHANGED sent
              /\ \/ UNCHANGED uplink
                 \/ \E msg \in Client!Request :
                        msg.type # FromApc /\ uplink' = Append(uplink, msg)
<1>1. \A t \in {"HTTP_REQUEST", "ENTITY_ID_REQUEST", "NOP"} :
          Client!Req(t) \in Client!Request /\ Client!Req(t).type # FromApc
    BY DEF Client!Req, Client!Request, FromApc
<1>2. CASE Client!DoWaitForConnect
    BY <1>1, <1>2 DEF Client!DoWaitForConnect, Client!GoToConnected, Client!Send, Client!doneVars
<1>3. CASE Client!DoConnected
    BY <1>1, <1>3 DEF Client!DoConnected, Client!Send, Client!doneVars
<1>4. CASE Client!GoToSendNop
    BY <1>1, <1>4 DEF Client!GoToSendNop, Client!Send, Client!doneVars
<1>5. CASE UNCHANGED <<uplink, sent>>
    BY <1>5
<1>6. QED
    BY <1>2, <1>3, <1>4, <1>5 DEF Client!Step, Client!StepConnected, Client!DoBegin,
       Client!DoInitialize, Client!DoReturnToWaiting, Client!Stay, Client!GoToClosed,
       Client!GoToLinkStatus, Client!GoToReceiveMsg, Client!GoToEntityIdAssigned,
       Client!DoClosed, Client!DoFinish, Client!doneVars

\* The APC appends the PDU it sends, which is newer than all it sent before.
LEMMA ClientPdus ==
    ASSUME ProxyTypeOK, PdusInv, Client!Step, UNCHANGED vars
    PROVE  ClientOut' /\ PdusTravel' /\ UNCHANGED captured
<1>0. /\ apcMsg = captured /\ sent.last <= captured
      /\ pdus <= sent.last /\ Ordered(uplink, FromApc, pdus, sent.last)
      /\ UNCHANGED <<apcMsg, captured, pdus>>
      /\ raised' \subseteq raised \cup {"tcpConnected"}
    BY ClientStepView DEF PdusInv, ClientOut, PdusTravel, vars, worldVars
<1>1. CASE Client!GoToSendMsg /\ UNCHANGED <<uplink, sent>>
  <2>1. PdusTravel'
      BY <1>0, <1>1, PdusTravelPrime
  <2>2. "apcMsgOut" \notin raised'
      BY <1>1 DEF Client!GoToSendMsg
  <2>3. ClientOut'
      BY <1>0, <1>1, <2>2 DEF ClientOut
  <2>4. QED
      BY <1>0, <2>1, <2>3
<1>2. CASE Client!GoToSendMsg /\ ~UNCHANGED <<uplink, sent>>
  <2> DEFINE msg == [type |-> FromApc, n |-> apcMsg]
  <2>1. /\ "apcMsgOut" \in raised /\ "apcMsgOut" \notin raised'
        /\ uplink' \in {uplink, Append(uplink, msg)}
        /\ sent'.last = apcMsg
      BY <1>2 DEF Client!GoToSendMsg, Client!SendFrame, Client!DoWaiting, Client!WaitingChoice,
                  Client!Send, FromApc
  <2>2. sent.last < apcMsg
      BY <1>0, <2>1 DEF PdusInv, ClientOut
  <2>3. msg \in Client!Request /\ sent.last < msg.n /\ msg.n = apcMsg
      BY <2>2, PduTypes DEF Client!Request, FromApc
  <2>4. /\ Ordered(Append(uplink, msg), FromApc, pdus, apcMsg)
        /\ Ordered(uplink, FromApc, pdus, apcMsg)
      BY <1>0, <2>3, PduTypes, OrderedAppend
  <2>5. Ordered(uplink', FromApc, pdus, apcMsg)
      BY <2>1, <2>4
  <2>6. pdus <= apcMsg
      BY <1>0, <2>2, PduTypes
  <2>7. PdusTravel'
      BY <1>0, <2>1, <2>5, <2>6, PdusTravelPrime
  <2>8. ClientOut'
      BY <1>0, <2>1, PduTypes DEF ClientOut
  <2>9. QED
      BY <1>0, <2>7, <2>8
<1>3. CASE ~Client!GoToSendMsg
  <2>1. UNCHANGED sent
      BY <1>3, ClientStepUplink
  <2>2. Ordered(uplink', FromApc, pdus, sent.last)
    <3>1. CASE UNCHANGED uplink
        BY <1>0, <3>1
    <3>2. CASE ~UNCHANGED uplink
      <4>1. PICK msg \in Client!Request :
                msg.type # FromApc /\ uplink' = Append(uplink, msg)
          BY <1>3, <3>2, ClientStepUplink
      <4>2. QED
          BY <1>0, <4>1, PduTypes, OrderedOther
    <3>3. QED
        BY <3>1, <3>2
  <2>3. PdusTravel'
      BY <1>0, <2>1, <2>2, PdusTravelPrime
  <2>4. ClientOut'
      BY <1>0, <2>1 DEF PdusInv, ClientOut
  <2>5. QED
      BY <1>0, <2>3, <2>4
<1>4. QED
    BY <1>2, <1>3, <1>1

\* The APS hands on what is in its slot.
LEMMA ServerPdus ==
    ASSUME ProxyTypeOK, PdusInv, Step, UNCHANGED captured
    PROVE  ServerOut' /\ UNCHANGED pdus /\ [ToNetwork!Next]_<<captured, up.last, up.count>>
<1>0. /\ out = pdus /\ up.last <= pdus /\ pdus <= captured
      /\ "apcMsg" \in flags => up.last < pdus
    BY PduTypes DEF PdusInv, ServerOut, ClientOut, PdusTravel
<1>1. CASE GoToTransferToL2
  <2>1. "apcMsg" \in flags /\ "apcMsg" \notin flags' /\ UNCHANGED <<pdus, out>>
      BY <1>1 DEF GoToTransferToL2, DoWaiting, WaitingChoice, worldVars, slotVars
  <2>2. out # Garbage /\ up.last < pdus
      BY <1>0, <2>1, PduTypes DEF Garbage
  <2>3. up' = [last |-> out, count |-> up.count + 1]
      BY <1>1, <2>2 DEF GoToTransferToL2
  <2>4. up'.last \in up.last + 1 .. captured /\ up'.count = up.count + 1
      BY <1>0, <2>2, <2>3, PduTypes
  <2>5. ServerOut'
      BY <1>0, <2>1, <2>3, PduTypes DEF ServerOut
  <2>6. QED
      BY <2>1, <2>4, <2>5 DEF ToNetwork!Next, ToNetwork!Deliver
<1>2. CASE ~GoToTransferToL2
  <2>1. UNCHANGED <<pdus, out, up>> /\ ("apcMsg" \in flags' => "apcMsg" \in flags)
      BY <1>2 DEF Step, DoBegin, DoInitialize, GoToWaitForConnect, DoWaitForConnect,
         DoAccept, DoReturnToWaiting, GoToClosedOrStay, GoToLinkStatus, GoToTransferToApc,
         GoToAssignEntityId, GoToSendNop, GoToCloseAndFinish, DoClosed, DoCloseAndFinish,
         DoFinish, DoWaiting, slotVars, worldVars, logVars
  <2>2. QED
      BY <1>0, <2>1 DEF ServerOut
<1>3. QED
    BY <1>1, <1>2

\* What the APS reads is newer than what it has read.
LEMMA PdusReceived ==
    ASSUME ProxyTypeOK, ServerOut, PdusTravel, ServerReads
    PROVE  ServerOut' /\ PdusTravel' /\ UNCHANGED <<apcMsg, captured, sent, raised, up>>
<1>0. pdus <= sent.last /\ Ordered(uplink, FromApc, pdus, sent.last)
    BY DEF PdusTravel
<1>1. /\ uplink # <<>> /\ uplink' = Tail(uplink)
      /\ UNCHANGED <<apcMsg, captured, sent, raised>>
    BY DEF ServerReads
<1>2. /\ Ordered(Tail(uplink), FromApc, pdus, sent.last)
      /\ Head(uplink).type = FromApc =>
             /\ pdus < Head(uplink).n /\ Head(uplink).n <= sent.last
             /\ Ordered(Tail(uplink), FromApc, Head(uplink).n, sent.last)
    BY <1>0, <1>1, PduTypes, OrderedTail
<1>3. ASSUME UNCHANGED <<pdus, out, up>>, "apcMsg" \in flags' => "apcMsg" \in flags
      PROVE  ServerOut' /\ PdusTravel' /\ UNCHANGED up
    BY <1>0, <1>1, <1>2, <1>3, PdusTravelPrime DEF ServerOut
<1>4. CASE OnIncomingTcpHttpData("done")
    BY <1>1, <1>3, <1>4 DEF OnIncomingTcpHttpData, OnIncomingTcpData, logVars
<1>5. CASE OnAppMessage(Head(uplink).type, Head(uplink).n)
  <2>1. UNCHANGED up
      BY <1>5 DEF OnAppMessage, OnIncomingTcpData, logVars
  <2>2. CASE Head(uplink).type = FromApc
    <3>1. pdus' = Head(uplink).n /\ out' = Head(uplink).n
        BY <1>5, <2>2 DEF OnAppMessage, FromApc
    <3>2. Head(uplink).n \in Nat
        BY <1>1, NextRequest DEF ProxyTypeOK
    <3>3. up.last < Head(uplink).n
        BY <1>2, <2>2, <3>2, PduTypes DEF ServerOut
    <3>4. ServerOut'
        BY <2>1, <3>1, <3>2, <3>3, PduTypes DEF ServerOut
    <3>5. QED
        BY <1>1, <1>2, <2>1, <2>2, <3>1, <3>4, PdusTravelPrime
  <2>3. CASE Head(uplink).type # FromApc
    <3>1. UNCHANGED <<pdus, out>> /\ ("apcMsg" \in flags' => "apcMsg" \in flags)
        BY <1>5, <2>3 DEF OnAppMessage, FromApc
    <3>2. QED
        BY <1>1, <1>3, <2>1, <3>1
  <2>4. QED
      BY <2>2, <2>3
<1>6. QED
    BY <1>1, <1>3, <1>4, <1>5 DEF ServerReads

LEMMA PdusInvStep ==
    ASSUME ProxyTypeOK, PdusInv, [ProxyNext]_proxyVars
    PROVE  PdusStep
<1>0. ClientOut /\ ServerOut /\ PdusTravel
    BY DEF PdusInv
<1> USE DEF PdusInv, PdusStep
<1>1. ASSUME UNCHANGED <<out, pdus, up, uplink, apcMsg, captured, sent, raised>>,
             "apcMsg" \in flags' => "apcMsg" \in flags
      PROVE  PdusStep
    BY <1>0, <1>1, PdusTravelPrime DEF ServerOut, ClientOut, PdusTravel
<1>2. CASE ServerRuns
  <2>1. UNCHANGED <<uplink, apcMsg, captured, sent, raised>> /\ (Run \/ Step)
      BY <1>2 DEF ServerRuns, clientVars
  <2>2. CASE Run
      BY <1>1, <2>1, <2>2 DEF Run, slotVars, worldVars, logVars
  <2>3. CASE Step
    <3>1. ServerOut' /\ UNCHANGED pdus /\ [ToNetwork!Next]_<<captured, up.last, up.count>>
        BY <2>1, <2>3, ServerPdus
    <3>2. ClientOut' /\ PdusTravel'
        BY <1>0, <2>1, <3>1, PdusTravelPrime DEF ClientOut, PdusTravel
    <3>3. QED
        BY <3>1, <3>2
  <2>4. QED
      BY <2>1, <2>2, <2>3
<1>3. CASE ServerAlone \/ ServerSeesClose \/ Accept
  <2>1. UNCHANGED <<uplink, apcMsg, captured, sent, raised>>
      BY <1>3 DEF ServerAlone, ServerSeesClose, Accept, clientVars
  <2>2. UNCHANGED <<out, pdus, up>> /\ ("apcMsg" \in flags' => "apcMsg" \in flags)
      BY <1>3 DEF ServerAlone, ServerSeesClose, Accept, OnNetLinkStatusUpdated, LinkFlags,
         OnNetAvdeccMessageReceived, RequestFinish, OnTcpConnectionClosed,
         OnIncomingTcpConnection, slotVars, worldVars, logVars
  <2>3. QED
      BY <1>1, <2>1, <2>2
<1>4. CASE socket = "closed" /\ ClientReads /\ UNCHANGED <<clientVars, backlog>>
    BY <1>1, <1>4 DEF ClientReads, clientVars, slotVars, worldVars, logVars
<1>5. CASE Client!Step /\ UNCHANGED vars
  <2>1. UNCHANGED <<up, pdus>> /\ ServerOut'
      BY <1>0, <1>5 DEF ServerOut, vars, slotVars, worldVars, logVars
  <2>2. QED
      BY <1>5, <2>1, ClientPdus
<1>6. CASE ClientEvent /\ UNCHANGED vars
  <2>1. UNCHANGED <<up, pdus>> /\ ServerOut'
      BY <1>0, <1>6 DEF ServerOut, vars, slotVars, worldVars, logVars
  <2>2. UNCHANGED <<sent, uplink>>
      BY <1>6, ClientEventView
  <2>3. PdusTravel'
      BY <1>0, <2>1, <2>2, PdusTravelPrime DEF PdusTravel
  <2>4. CASE Client!OnNetAvdeccMessageReceived
    <3>1. captured' = captured + 1 /\ apcMsg' = captured + 1
        BY <2>4 DEF Client!OnNetAvdeccMessageReceived
    <3>2. ClientOut'
        BY <1>0, <2>2, <3>1, PduTypes DEF ClientOut
    <3>3. QED
        BY <2>1, <2>3, <3>1, <3>2 DEF ToNetwork!Next, ToNetwork!Offer
  <2>5. CASE ~Client!OnNetAvdeccMessageReceived
    <3>1. UNCHANGED <<apcMsg, captured>> /\ ("apcMsgOut" \in raised' => "apcMsgOut" \in raised)
        BY <1>6, <2>5, ClientEventView
    <3>2. ClientOut'
        BY <1>0, <2>2, <3>1 DEF ClientOut
    <3>3. QED
        BY <2>1, <2>3, <3>1, <3>2
  <2>6. QED
      BY <2>4, <2>5
<1>7. CASE ServerReads
  <2>1. ServerOut' /\ PdusTravel' /\ UNCHANGED <<apcMsg, captured, sent, raised, up>>
      BY <1>0, <1>7, PdusReceived
  <2>2. QED
      BY <1>0, <2>1 DEF ClientOut
<1>8. CASE ClientReadsNext
  <2>1. UNCHANGED <<out, pdus, up, flags>>
      BY <1>8 DEF ClientReadsNext, slotVars, worldVars, logVars
  <2>2. UNCHANGED <<uplink, apcMsg, captured, sent>>
        /\ ("apcMsgOut" \in raised' => "apcMsgOut" \in raised)
      BY <1>8 DEF ClientReadsNext, Client!OnHttpResponse, Client!OnAppMessage,
         Client!messageVars, Client!inputVars, Client!doneVars
  <2>3. ServerOut' /\ ClientOut' /\ PdusTravel'
      BY <1>0, <2>1, <2>2, PdusTravelPrime DEF ServerOut, ClientOut, PdusTravel
  <2>4. QED
      BY <2>1, <2>2, <2>3
<1>9. CASE Client!ServerReads /\ UNCHANGED vars
  <2>1. UNCHANGED <<up, pdus>> /\ ServerOut'
      BY <1>0, <1>9 DEF ServerOut, vars, slotVars, worldVars, logVars
  <2>2. UNCHANGED <<apcMsg, captured, sent, raised>> /\ uplink' = <<>>
      BY <1>9 DEF Client!ServerReads, Client!messageVars, Client!inputVars, Client!doneVars
  <2>3. ClientOut' /\ PdusTravel'
      BY <1>0, <2>1, <2>2, OrderedEmpty, PdusTravelPrime DEF ClientOut, PdusTravel
  <2>4. QED
      BY <2>1, <2>2, <2>3
<1>10. CASE UNCHANGED proxyVars
    BY <1>1, <1>10 DEF proxyVars, clientVars, vars, slotVars, worldVars, logVars
<1>11. QED
    BY <1>2, <1>3, <1>4, <1>5, <1>6, <1>7, <1>8, <1>9, <1>10, ProxySteps

\* The same for a PDU of the APC: it reaches the layer 2 network at most once
\* and in order, although one run() of the APC may overtake several of the APS.
THEOREM RelaysPdusHolds == ProxySpec => RelaysPdus
<1>1. ProxyInit => PdusInv /\ ToNetwork!Init
    BY OrderedEmpty DEF ProxyInit, Init, Client!Init, PdusInv, ClientOut, ServerOut,
       PdusTravel, ToNetwork!Init, Garbage
<1>2. QED
    BY <1>1, ProxyTypeCorrect, PdusInvStep, PTL DEF ProxySpec, RelaysPdus, ToNetwork!Spec,
       PdusStep
-----------------------------------------------------------------------------
(* The APC makes one connection in its life: what the APS knows of a        *)
(* connection comes after the APC has made it, and no second one waits.     *)

Opened ==
    \/ "tcpConnected" \in flags
    \/ tcp # "none"
    \/ cs \notin {"BEGIN", "INITIALIZE", "WAIT_FOR_CONNECT", "FINISH", "NONE"}

OneConnection ==
    /\ Opened => ~backlog
    /\ Opened \/ backlog => state # "BEGIN"
    /\ socket = "none" <=> state = "BEGIN"
    /\ socket = "connecting" =>
           state \in {"INITIALIZE", "WAIT_FOR_CONNECT"} /\ "tcpConnected" \notin raised

LEMMA StepOpened == Step /\ Opened' => Opened
<1> SUFFICES ASSUME Step, Opened' PROVE Opened
    OBVIOUS
<1> USE DEF Opened, Do, GoTo
<1>1. CASE DoBegin \/ DoInitialize
    BY <1>1 DEF DoBegin, DoInitialize, GoToWaitForConnect, tcpVars
<1>2. CASE DoWaitForConnect
    BY <1>2 DEF DoWaitForConnect
<1>3. CASE DoFinish
    BY <1>3 DEF DoFinish, tcpVars
<1>4. CASE DoAccept \/ DoReturnToWaiting \/ DoClosed \/ DoCloseAndFinish \/ cs = "WAITING"
    BY <1>4 DEF DoAccept, DoReturnToWaiting, DoClosed, DoCloseAndFinish
<1>5. QED
    BY <1>1, <1>2, <1>3, <1>4 DEF Step, DoWaiting, GoToClosedOrStay, GoToLinkStatus,
       GoToTransferToL2, GoToTransferToApc, GoToAssignEntityId, GoToSendNop,
       GoToCloseAndFinish

\* How a step of the APC changes its end of the connection.
LEMMA ClientStepSocket ==
    ASSUME Client!Step
    PROVE  \/ state = "BEGIN" /\ state' = "INITIALIZE" /\ socket' \in {"open", "connecting"}
              /\ (socket' = "connecting" => raised' = {})
           \/ /\ state # "BEGIN" /\ state' # "BEGIN"
              /\ raised' \subseteq raised
              /\ state \in {"INITIALIZE", "WAIT_FOR_CONNECT"} =>
                     \/ state' \in {"INITIALIZE", "WAIT_FOR_CONNECT"}
                     \/ "tcpConnected" \in raised
                     \/ socket' \notin {"open", "connecting"}
              /\ \/ UNCHANGED socket
                 \/ socket' = "closed" /\ state' = "FINISH"
<1> USE DEF Client!Do, Client!GoTo, Client!CloseTcpConnection, Client!States
<1>1. CASE \E connected \in BOOLEAN : Client!DoBegin(connected)
    BY <1>1 DEF Client!DoBegin
<1>2. CASE Client!DoInitialize \/ Client!DoConnected \/ Client!DoReturnToWaiting
    BY <1>2 DEF Client!DoInitialize, Client!DoConnected, Client!DoReturnToWaiting,
       Client!socketVars
<1>3. CASE Client!DoWaitForConnect
    BY <1>3 DEF Client!DoWaitForConnect, Client!GoToConnected
<1>4. CASE Client!DoClosed \/ Client!DoFinish
    BY <1>4 DEF Client!DoClosed, Client!DoFinish, Client!socketVars
<1>5. CASE Client!Stay \/ Client!GoToClosed \/ Client!GoToLinkStatus \/ Client!GoToReceiveMsg
    BY <1>5 DEF Client!DoWaiting, Client!Stay, Client!GoToClosed, Client!GoToLinkStatus,
       Client!GoToReceiveMsg, Client!WaitingChoice, Client!socketVars
<1>6. CASE Client!GoToSendMsg \/ Client!GoToEntityIdAssigned \/ Client!GoToSendNop
    BY <1>6 DEF Client!DoWaiting, Client!GoToSendMsg, Client!GoToEntityIdAssigned,
       Client!GoToSendNop, Client!WaitingChoice, Client!socketVars
<1>7. QED
    BY <1>1, <1>2, <1>3, <1>4, <1>5, <1>6 DEF Client!Step, Client!StepConnected

\* How an event changes it.
LEMMA ClientEventSocket ==
    ASSUME ClientEvent
    PROVE  /\ UNCHANGED state
           /\ \/ UNCHANGED socket /\ ("tcpConnected" \in raised' => "tcpConnected" \in raised)
              \/ socket = "connecting" /\ socket' = "open"
              \/ socket \in {"open", "connecting"} /\ socket' = "closed"
<1> USE DEF Client!machineVars, Client!socketVars
<1>1. CASE Client!Run \/ Client!OnIncomingTcpConnection \/ Client!OnTcpConnectionClosed
    BY <1>1 DEF Client!Run, Client!OnIncomingTcpConnection, Client!OnTcpConnectionClosed
<1>2. CASE \/ Client!OnHttpResponse \/ Client!RequestFinish
           \/ Client!OnNetAvdeccMessageReceived
    BY <1>2 DEF Client!OnHttpResponse, Client!RequestFinish, Client!OnNetAvdeccMessageReceived
<1>3. QED
    BY <1>1, <1>2 DEF ClientEvent

\* Nothing but a new connection tells the APS of one.
LEMMA ServerEventOpened ==
    ASSUME ServerAlone \/ ServerSeesClose, Opened'
    PROVE  Opened /\ (tcp' = "open" => tcp = "open") /\ UNCHANGED <<cs, requestValid, backlog>>
BY DEF ServerAlone, ServerSeesClose, Opened, OnNetLinkStatusUpdated, LinkFlags,
   OnNetAvdeccMessageReceived, RequestFinish, OnTcpConnectionClosed, stateVars, tcpVars

LEMMA OneConnectionStep ==
    ASSUME OneConnection, ProxyNext \/ UNCHANGED proxyVars
    PROVE  OneConnection'
<1> USE DEF OneConnection
<1>1. ASSUME Opened' => Opened, UNCHANGED <<clientVars, backlog>> PROVE OneConnection'
    BY <1>1 DEF clientVars
<1>2. ASSUME UNCHANGED <<flags, tcp, cs>> PROVE Opened' <=> Opened
    BY <1>2 DEF Opened
<1>3. CASE ServerRuns
  <2>1. Run => UNCHANGED <<flags, tcp, cs>>
      BY DEF Run, tcpVars
  <2>2. QED
      BY <1>1, <1>2, <1>3, <2>1, StepOpened DEF ServerRuns
<1>4. CASE ServerAlone \/ ServerSeesClose
    BY <1>1, <1>4, ServerEventOpened DEF ServerAlone, ServerSeesClose
<1>5. CASE Accept
    BY <1>5 DEF Accept, clientVars
<1>6. CASE ClientRuns
  <2>1. /\ UNCHANGED backlog /\ (Opened' <=> Opened)
        /\ Client!Step \/ Client!Run
      BY <1>2, <1>6 DEF ClientRuns, vars, stateVars, tcpVars, Client!Step
  <2>2. CASE Client!Step
      BY <2>1, <2>2, ClientStepSocket
  <2>3. CASE Client!Run
      BY <2>1, <2>3, ClientEventSocket DEF ClientEvent
  <2>4. QED
      BY <2>1, <2>2, <2>3
<1>7. CASE Connect
  <2>1. Client!Step /\ state = "BEGIN" /\ backlog' = TRUE /\ (Opened' <=> Opened)
      BY <1>2, <1>7 DEF Connect, Client!Step, Client!DoBegin, Client!Do, vars, stateVars,
         tcpVars
  <2>2. QED
      BY <2>1, ClientStepSocket
<1>8. CASE ClientAlone \/ ClientConnected \/ ClientSeesClose
  <2>1. ClientEvent /\ (Opened' <=> Opened) /\ (backlog' => backlog)
      BY <1>2, <1>8 DEF ClientAlone, ClientConnected, ClientSeesClose, ClientEvent, vars,
         stateVars, tcpVars
  <2>2. QED
      BY <2>1, ClientEventSocket
<1>9. CASE ServerReads
  <2>1. tcp = "open" /\ UNCHANGED <<state, socket, raised, backlog>>
      BY <1>9 DEF ServerReads, OnIncomingTcpHttpData, OnAppMessage, OnIncomingTcpData
  <2>2. QED
      BY <2>1 DEF Opened
<1>10. CASE ClientReadsNext
  <2>1. UNCHANGED <<state, socket, backlog>> /\ (Opened' <=> Opened)
        /\ ("tcpConnected" \in raised' => "tcpConnected" \in raised)
      BY <1>2, <1>10 DEF ClientReadsNext, Client!OnHttpResponse, Client!OnAppMessage,
         Client!machineVars, Client!socketVars, stateVars, tcpVars
  <2>2. QED
      BY <2>1
<1>11. CASE Lost \/ UNCHANGED proxyVars
  <2>1. UNCHANGED <<state, socket, raised, backlog>> /\ (Opened' <=> Opened)
      BY <1>2, <1>11 DEF Lost, ClientReads, Client!ServerReads, Client!machineVars,
         Client!socketVars, proxyVars, clientVars, vars, stateVars, tcpVars
  <2>2. QED
      BY <2>1
<1>12. QED
    BY <1>3, <1>4, <1>5, <1>6, <1>7, <1>8, <1>9, <1>10, <1>11 DEF ProxyNext
LEMMA OneConnectionInit == ProxyInit => OneConnection
BY DEF ProxyInit, Init, Client!Init, OneConnection, Opened

-----------------------------------------------------------------------------
(* While the APC waits for the answer and the APS has not read the request, *)
(* the request is on its way.                                               *)

HasRequest(q) == \E i \in 1 .. Len(q) : q[i].type = "HTTP_REQUEST"

LEMMA RequestStays ==
    ASSUME NEW S, NEW q \in Seq(S), NEW msg \in S
    PROVE  HasRequest(q) \/ msg.type = "HTTP_REQUEST" => HasRequest(Append(q, msg))
<1>1. /\ Len(q) \in Nat /\ Len(Append(q, msg)) = Len(q) + 1
      /\ \A i \in 1 .. Len(q) : Append(q, msg)[i] = q[i]
      /\ Append(q, msg)[Len(q) + 1] = msg
    BY AppendProperties, LenProperties
<1>2. HasRequest(q) => HasRequest(Append(q, msg))
    BY <1>1 DEF HasRequest
<1>3. ASSUME msg.type = "HTTP_REQUEST" PROVE HasRequest(Append(q, msg))
  <2>1. Len(q) + 1 \in 1 .. Len(Append(q, msg))
      BY <1>1
  <2>2. QED
      BY <1>1, <1>3, <2>1 DEF HasRequest
<1>4. QED
    BY <1>2, <1>3

LEMMA RequestBehind ==
    ASSUME NEW S, NEW q \in Seq(S), q # <<>>, HasRequest(q), Head(q).type # "HTTP_REQUEST"
    PROVE  HasRequest(Tail(q))
<1>1. /\ Len(q) \in Nat /\ Len(q) > 0 /\ Len(Tail(q)) = Len(q) - 1
      /\ \A i \in 1 .. Len(Tail(q)) : Tail(q)[i] = q[i + 1]
    BY HeadTailProperties, EmptySeq
<1>2. Head(q) = q[1]
    BY <1>1
<1>3. PICK i \in 1 .. Len(q) : q[i].type = "HTTP_REQUEST"
    BY DEF HasRequest
<1>4. i - 1 \in 1 .. Len(Tail(q)) /\ (i - 1) + 1 = i
    BY <1>1, <1>2, <1>3
<1>5. Tail(q)[i - 1].type = "HTTP_REQUEST"
    BY <1>1, <1>3, <1>4
<1>6. QED
    BY <1>4, <1>5 DEF HasRequest

\* The APS has not accepted the request of the connection it has.
Unasked ==
    /\ tcp = "open" \/ backlog
    /\ cs \in {"BEGIN", "INITIALIZE", "WAIT_FOR_CONNECT", "ACCEPT"}
    /\ ~(cs = "ACCEPT" /\ requestValid = 200)

\* The APC waits for the answer.
Asking == socket = "open" /\ state = "CONNECTED"

Asked == Unasked /\ Asking => HasRequest(uplink)

\* A state procedure of the APS asks for a request only when a connection is
\* new: the close of the old one has taken its connection away.
LEMMA StepUnasked ==
    ASSUME Step, OneConnection, UNCHANGED backlog, Unasked'
    PROVE  Unasked
<1> USE DEF Unasked, Do, GoTo
<1>1. CASE DoBegin \/ DoInitialize
    BY <1>1 DEF DoBegin, DoInitialize, GoToWaitForConnect, tcpVars
<1>2. CASE DoWaitForConnect
    BY <1>2 DEF DoWaitForConnect
<1>3. CASE DoAccept
    BY <1>3 DEF DoAccept
<1>4. CASE DoClosed
  <2>1. ~backlog
      BY <1>4 DEF DoClosed, OneConnection, Opened
  <2>2. QED
      BY <1>4, <2>1 DEF DoClosed, CloseTcpConnection
<1>5. CASE DoReturnToWaiting \/ DoCloseAndFinish \/ DoFinish
    BY <1>5 DEF DoReturnToWaiting, DoCloseAndFinish, DoFinish
<1>6. CASE cs = "WAITING"
  <2>1. cs' \in {"WAITING", "CLOSED", "LINK_STATUS", "TRANSFER_TO_L2", "TRANSFER_TO_APC",
                 "ASSIGN_ENTITY_ID", "SEND_NOP", "CLOSE_AND_FINISH"}
      BY <1>6 DEF Step, DoBegin, DoInitialize, DoWaitForConnect, DoAccept, DoReturnToWaiting,
         GoToClosedOrStay, GoToLinkStatus, GoToTransferToL2, GoToTransferToApc,
         GoToAssignEntityId, GoToSendNop, GoToCloseAndFinish, DoClosed, DoCloseAndFinish,
         DoFinish, DoWaiting
  <2>2. QED
      BY <2>1
<1>7. QED
    BY <1>1, <1>2, <1>3, <1>4, <1>5, <1>6 DEF Step, DoWaiting, GoToClosedOrStay,
       GoToLinkStatus, GoToTransferToL2, GoToTransferToApc, GoToAssignEntityId, GoToSendNop,
       GoToCloseAndFinish

\* A step of the APC that begins to wait sends the request.
LEMMA ClientStepAsked ==
    ASSUME ProxyTypeOK, Client!Step, Asking'
    PROVE  /\ Asking \/ HasRequest(uplink')
           /\ HasRequest(uplink) => HasRequest(uplink')
<1>0. uplink \in Seq(Client!Request) /\ apcMsg \in Nat
    BY PduTypes
<1>1. state' = "CONNECTED" /\ socket' = "open"
    BY DEF Asking
<1> USE DEF Client!Do, Client!GoTo
<1>2. Client!DoWaitForConnect \/ Client!DoConnected
    BY <1>1 DEF Client!Step, Client!StepConnected, Client!DoBegin, Client!DoInitialize,
       Client!DoReturnToWaiting, Client!Stay, Client!GoToClosed, Client!GoToLinkStatus,
       Client!GoToReceiveMsg, Client!GoToSendMsg, Client!GoToEntityIdAssigned,
       Client!GoToSendNop, Client!DoClosed, Client!DoFinish, Client!DoWaiting, Client!States,
       Client!WaitingChoice
<1>3. CASE Client!DoWaitForConnect
  <2>1. UNCHANGED socket /\ Client!Send(Client!Req("HTTP_REQUEST"))
      BY <1>1, <1>3 DEF Client!DoWaitForConnect, Client!GoToConnected
  <2>2. uplink' = Append(uplink, Client!Req("HTTP_REQUEST"))
      BY <1>1, <2>1 DEF Client!Send
  <2>3. /\ Client!Req("HTTP_REQUEST") \in Client!Request
        /\ Client!Req("HTTP_REQUEST").type = "HTTP_REQUEST"
      BY DEF Client!Req, Client!Request
  <2>4. QED
      BY <1>0, <2>2, <2>3, RequestStays
<1>4. CASE Client!DoConnected
  <2>1. UNCHANGED <<state, socket, uplink>>
      BY <1>1, <1>4 DEF Client!DoConnected, Client!socketVars
  <2>2. QED
      BY <1>1, <2>1 DEF Asking
<1>5. QED
    BY <1>2, <1>3, <1>4

LEMMA AskedStep ==
    ASSUME ~EagerRequest, ProxyTypeOK, OneConnection, Asked, ProxyNext \/ UNCHANGED proxyVars
    PROVE  Asked'
<1> SUFFICES ASSUME Unasked', Asking'
             PROVE  HasRequest(uplink')
    BY DEF Asked, HasRequest
<1>1. ASSUME Unasked, Asking, UNCHANGED uplink PROVE HasRequest(uplink')
    BY <1>1 DEF Asked
<1>2. ASSUME UNCHANGED vars, UNCHANGED backlog PROVE Unasked
    BY <1>2 DEF Unasked, vars, stateVars, tcpVars
<1>3. CASE ServerRuns
  <2>1. UNCHANGED <<uplink, backlog>> /\ Asking
      BY <1>3 DEF ServerRuns, clientVars, Asking
  <2>2. CASE Run
      BY <1>1, <2>1, <2>2 DEF Run, tcpVars, Unasked
  <2>3. CASE Step
      BY <1>1, <2>1, <2>3, StepUnasked
  <2>4. QED
      BY <1>3, <2>2, <2>3 DEF ServerRuns
<1>4. CASE ServerAlone \/ ServerSeesClose \/ Accept
  <2>1. UNCHANGED uplink /\ Asking
      BY <1>4 DEF ServerAlone, ServerSeesClose, Accept, clientVars, Asking
  <2>2. Unasked
      BY <1>4 DEF ServerAlone, ServerSeesClose, Accept, OnNetLinkStatusUpdated,
         OnNetAvdeccMessageReceived, RequestFinish, OnTcpConnectionClosed,
         OnIncomingTcpConnection, stateVars, tcpVars, Unasked
  <2>3. QED
      BY <1>1, <2>1, <2>2
<1>5. CASE ClientRuns
  <2>1. UNCHANGED vars /\ UNCHANGED backlog /\ (Client!Step \/ Client!Run)
      BY <1>5 DEF ClientRuns, Client!Step
  <2>2. Unasked
      BY <1>2, <2>1
  <2>3. CASE Client!Step
      BY <2>2, <2>3, ClientStepAsked DEF Asked
  <2>4. CASE Client!Run
      BY <1>1, <2>2, <2>4 DEF Client!Run, Client!socketVars, Asking
  <2>5. QED
      BY <2>1, <2>3, <2>4
<1>6. CASE Connect
    BY <1>6 DEF Connect, Client!DoBegin, Client!GoTo, Asking
<1>7. CASE ClientAlone \/ ClientConnected \/ ClientSeesClose
  <2>1. ClientEvent /\ UNCHANGED vars
      BY <1>7 DEF ClientAlone, ClientConnected, ClientSeesClose, ClientEvent
  <2>2. UNCHANGED <<state, uplink>>
      BY <2>1, ClientEventView
  <2>3. UNCHANGED socket
      BY <2>1, <2>2, ClientEventSocket DEF Asking, OneConnection
  <2>4. Asking /\ UNCHANGED backlog
      BY <1>7, <2>2, <2>3 DEF Asking, ClientAlone, ClientConnected, ClientSeesClose,
         Client!OnTcpConnectionClosed
  <2>5. QED
      BY <1>1, <1>2, <2>1, <2>2, <2>4
<1>8. CASE ServerReads
  <2>1. /\ uplink # <<>> /\ uplink' = Tail(uplink) /\ Asking /\ UNCHANGED backlog
        /\ IF Head(uplink).type = "HTTP_REQUEST"
           THEN cs = "ACCEPT" /\ OnIncomingTcpHttpData("done")
           ELSE OnAppMessage(Head(uplink).type, Head(uplink).n)
      BY <1>8 DEF ServerReads, Asking
  <2>2. Head(uplink).type # "HTTP_REQUEST"
      BY <2>1 DEF OnIncomingTcpHttpData, OnIncomingTcpData, stateVars, Unasked
  <2>3. Unasked
      BY <2>1, <2>2 DEF OnAppMessage, OnIncomingTcpData, stateVars, Unasked
  <2>4. HasRequest(uplink)
      BY <2>1, <2>3 DEF Asked
  <2>5. QED
      BY <2>1, <2>2, <2>4, PduTypes, RequestBehind
<1>9. CASE ClientReadsNext
  <2>1. Asking /\ UNCHANGED uplink
      BY <1>9 DEF ClientReadsNext, Client!OnHttpResponse, Client!OnAppMessage,
         Client!machineVars, Client!socketVars, Asking
  <2>2. Unasked
      BY <1>9 DEF ClientReadsNext, stateVars, tcpVars, Unasked
  <2>3. QED
      BY <1>1, <2>1, <2>2
<1>10. CASE Lost
  <2>1. UNCHANGED <<clientVars, backlog>> /\ ClientReads
      BY <1>10 DEF Lost, vars, tcpVars, Unasked
  <2>2. Unasked /\ Asking /\ UNCHANGED uplink
      BY <2>1 DEF ClientReads, clientVars, stateVars, tcpVars, Unasked, Asking
  <2>3. QED
      BY <1>1, <2>2
<1>11. CASE UNCHANGED proxyVars
  <2>1. Asking /\ UNCHANGED uplink
      BY <1>11 DEF proxyVars, clientVars, Asking
  <2>2. QED
      BY <1>1, <1>2, <1>11, <2>1 DEF proxyVars
<1>12. QED
    BY <1>3, <1>4, <1>5, <1>6, <1>7, <1>8, <1>9, <1>10, <1>11 DEF ProxyNext

\* If the APS's run() reaches ACCEPT before the request is read, the machines
\* never wait for each other.  The assumption is needed: a request that is
\* read earlier is forgotten, which the run proxy_eager shows.
THEOREM NeverBothWaitHolds == ASSUME ~EagerRequest PROVE ProxySpec => []NeverBothWait
<1>1. ProxyInit => Asked
    BY DEF ProxyInit, Init, Client!Init, Asked, Asking
<1>2. ProxyTypeOK /\ Asked => NeverBothWait
  <2> SUFFICES ASSUME ProxyTypeOK, Asked, Asking, cs = "ACCEPT", requestValid = -1, tcp = "open"
               PROVE  uplink # <<>>
      BY DEF NeverBothWait, Asking
  <2>1. HasRequest(uplink)
      BY DEF Asked, Unasked
  <2>2. QED
      BY <2>1 DEF HasRequest
<1>3. ProxyTypeOK /\ OneConnection /\ Asked /\ [ProxyNext]_proxyVars => OneConnection' /\ Asked'
    BY OneConnectionStep, AskedStep
<1>4. QED
    BY <1>1, <1>2, <1>3, OneConnectionInit, ProxyTypeCorrect, PTL DEF ProxySpec
-----------------------------------------------------------------------------
(* The newest word about the link, in flight or received.                   *)

LinkWords == {"LINK_UP", "LINK_DOWN"}

NoWord(q) == \A j \in 1 .. Len(q) : q[j].type \notin LinkWords

NewestIn(q, w) ==
    \E i \in 1 .. Len(q) :
        /\ q[i].type = w
        /\ \A j \in 1 .. Len(q) : q[j].type \in LinkWords => j <= i

NewestWord(q, received, w) == NewestIn(q, w) \/ (NoWord(q) /\ w = received)

LEMMA NewestConcat ==
    ASSUME NEW S, NEW q \in Seq(S), NEW msgs \in Seq(S), NEW w
    PROVE  /\ NewestIn(msgs, w) => NewestIn(q \o msgs, w)
           /\ NoWord(msgs) /\ NewestIn(q, w) => NewestIn(q \o msgs, w)
           /\ NoWord(msgs) /\ NoWord(q) => NoWord(q \o msgs)
<1>1. /\ Len(q) \in Nat /\ Len(msgs) \in Nat /\ Len(q \o msgs) = Len(q) + Len(msgs)
      /\ \A i \in 1 .. Len(q) + Len(msgs) :
             (q \o msgs)[i] = IF i <= Len(q) THEN q[i] ELSE msgs[i - Len(q)]
    BY ConcatProperties, LenProperties
<1>2. \A i \in 1 .. Len(q) : i \in 1 .. Len(q \o msgs) /\ (q \o msgs)[i] = q[i]
    BY <1>1
<1>3. \A j \in 1 .. Len(q \o msgs) :
          \/ j \in 1 .. Len(q) /\ (q \o msgs)[j] = q[j]
          \/ j - Len(q) \in 1 .. Len(msgs) /\ (q \o msgs)[j] = msgs[j - Len(q)]
    BY <1>1
<1>4. ASSUME NewestIn(msgs, w) PROVE NewestIn(q \o msgs, w)
  <2>1. PICK i \in 1 .. Len(msgs) :
            /\ msgs[i].type = w
            /\ \A j \in 1 .. Len(msgs) : msgs[j].type \in LinkWords => j <= i
      BY <1>4 DEF NewestIn
  <2>2. Len(q) + i \in 1 .. Len(q \o msgs) /\ (q \o msgs)[Len(q) + i] = msgs[i]
    <3>1. /\ Len(q) + i \in 1 .. Len(q) + Len(msgs) /\ ~(Len(q) + i <= Len(q))
          /\ (Len(q) + i) - Len(q) = i
        BY <1>1
    <3>2. QED
        BY <1>1, <3>1
  <2>3. ASSUME NEW j \in 1 .. Len(q \o msgs), (q \o msgs)[j].type \in LinkWords
        PROVE  j <= Len(q) + i
    <3>1. CASE j \in 1 .. Len(q)
        BY <1>1, <3>1
    <3>2. CASE j - Len(q) \in 1 .. Len(msgs) /\ (q \o msgs)[j] = msgs[j - Len(q)]
      <4>1. j - Len(q) <= i
          BY <2>1, <2>3, <3>2
      <4>2. QED
          BY <1>1, <4>1
    <3>3. QED
        BY <1>3, <3>1, <3>2
  <2>4. QED
      BY <2>1, <2>2, <2>3 DEF NewestIn
<1>5. ASSUME NoWord(msgs), NewestIn(q, w) PROVE NewestIn(q \o msgs, w)
  <2>1. PICK i \in 1 .. Len(q) :
            q[i].type = w /\ \A j \in 1 .. Len(q) : q[j].type \in LinkWords => j <= i
      BY <1>5 DEF NewestIn
  <2>2. \A j \in 1 .. Len(q \o msgs) : (q \o msgs)[j].type \in LinkWords => j <= i
      BY <1>3, <1>5, <2>1 DEF NoWord
  <2>3. QED
      BY <1>2, <2>1, <2>2 DEF NewestIn
<1>6. ASSUME NoWord(msgs), NoWord(q) PROVE NoWord(q \o msgs)
    BY <1>3, <1>6 DEF NoWord
<1>7. QED
    BY <1>4, <1>5, <1>6

LEMMA NewestTail ==
    ASSUME NEW S, NEW q \in Seq(S), q # <<>>, NEW w
    PROVE  /\ NoWord(q) => NoWord(Tail(q)) /\ Head(q).type \notin LinkWords
           /\ NewestIn(q, w) => \/ NewestIn(Tail(q), w)
                                \/ Head(q).type = w /\ NoWord(Tail(q))
<1>1. /\ Len(q) \in Nat /\ Len(q) > 0 /\ Len(Tail(q)) = Len(q) - 1
      /\ \A i \in 1 .. Len(Tail(q)) : Tail(q)[i] = q[i + 1]
    BY HeadTailProperties, EmptySeq
<1>2. Head(q) = q[1] /\ 1 \in 1 .. Len(q)
    BY <1>1
<1>3. \A i \in 1 .. Len(Tail(q)) : i + 1 \in 1 .. Len(q) /\ 1 < i + 1
    BY <1>1
<1>4. NoWord(q) => NoWord(Tail(q)) /\ Head(q).type \notin LinkWords
    BY <1>1, <1>2, <1>3 DEF NoWord
<1>5. ASSUME NewestIn(q, w)
      PROVE  NewestIn(Tail(q), w) \/ (Head(q).type = w /\ NoWord(Tail(q)))
  <2>1. PICK i \in 1 .. Len(q) :
            q[i].type = w /\ \A j \in 1 .. Len(q) : q[j].type \in LinkWords => j <= i
      BY <1>5 DEF NewestIn
  <2>2. CASE i = 1
    <3>1. NoWord(Tail(q))
        BY <1>1, <1>3, <2>1, <2>2 DEF NoWord
    <3>2. QED
        BY <1>2, <2>1, <2>2, <3>1
  <2>3. CASE i # 1
    <3>1. i - 1 \in 1 .. Len(Tail(q)) /\ (i - 1) + 1 = i
        BY <1>1, <2>3
    <3>2. Tail(q)[i - 1].type = w
        BY <1>1, <2>1, <3>1
    <3>3. ASSUME NEW j \in 1 .. Len(Tail(q)), Tail(q)[j].type \in LinkWords PROVE j <= i - 1
      <4>1. j + 1 <= i
          BY <1>1, <1>3, <2>1, <3>3
      <4>2. QED
          BY <1>1, <4>1
    <3>4. QED
        BY <3>1, <3>2, <3>3 DEF NewestIn
  <2>4. QED
      BY <2>2, <2>3
<1>6. QED
    BY <1>4, <1>5
-----------------------------------------------------------------------------
(* The APC is told of every change of the link: the newest word, wherever   *)
(* it is, is the status of the APS until a change is to be reported.        *)

Status == IF "linkStatus" \in flags THEN "LINK_UP" ELSE "LINK_DOWN"

\* What the APC has of the words that it has read.
Received == IF "linkStatusMsg" \in raised THEN linkMsg ELSE linkSeen

Served ==
    /\ cs \in Serving /\ tcp = "open"
    /\ socket # "closed"
    /\ "linkStatusChanged" \notin flags

LinkInv == Served => NewestWord(wire, Received, Status)

LEMMA LinkInvPrime == LinkInv' <=> (Served' => NewestWord(wire', Received', Status'))
BY DEF LinkInv, NewestWord, NewestIn, NoWord, LinkWords

\* A word that the APS adds is the newest, and other messages do not matter.
LEMMA LinkSent ==
    ASSUME TypeOK, LinkInv, Served', UNCHANGED clientVars, NEW msgs \in Seq(Message),
           wire' = wire \o msgs,
           NewestIn(msgs, Status') \/ (Served /\ NoWord(msgs) /\ UNCHANGED Status)
    PROVE  LinkInv'
<1>1. wire \in Seq(Message) /\ UNCHANGED Received
    BY DEF TypeOK, ConnectionType, clientVars, Received
<1>2. CASE NewestIn(msgs, Status')
    BY <1>1, <1>2, NewestConcat, LinkInvPrime DEF NewestWord
<1>3. CASE Served /\ NoWord(msgs) /\ UNCHANGED Status
  <2>1. NewestWord(wire, Received, Status)
      BY <1>3 DEF LinkInv
  <2>2. NewestWord(wire', Received, Status)
      BY <1>1, <1>3, <2>1, NewestConcat DEF NewestWord
  <2>3. QED
      BY <1>1, <1>3, <2>2, LinkInvPrime
<1>4. QED
    BY <1>2, <1>3

\* Nothing that matters changes.
LEMMA LinkStays ==
    ASSUME LinkInv, UNCHANGED <<wire, Received>>, Served' => Served /\ UNCHANGED Status
    PROVE  LinkInv'
BY LinkInvPrime DEF LinkInv

LEMMA ServerLink ==
    ASSUME TypeOK, LinkInv, Step, UNCHANGED clientVars
    PROVE  LinkInv'
<1>0. SUFFICES ASSUME Served' PROVE LinkInv'
    BY LinkInvPrime
<1>1. cs' \in Serving /\ tcp' = "open" /\ socket # "closed" /\ "linkStatusChanged" \notin flags'
    BY <1>0 DEF Served, clientVars
<1>2. UNCHANGED Received
    BY DEF clientVars, Received
<1>3. CASE DoAccept
  <2>1. wire' = wire \o Greeting /\ UNCHANGED flags
      BY <1>1, <1>3 DEF DoAccept, Send, GoTo, Serving
  <2>2. Greeting \in Seq(Message)
      BY MessageTypes DEF TypeOK
  <2>3. NewestIn(Greeting, Status')
      BY <2>1 DEF NewestIn, Greeting, LinkMessage, Msg, Status, LinkWords
  <2>4. QED
      BY <1>0, <2>1, <2>2, <2>3, LinkSent
<1>4. CASE GoToLinkStatus
  <2>1. wire' = wire \o <<LinkMessage>> /\ flags' = flags \ {"linkStatusChanged"}
      BY <1>1, <1>4 DEF GoToLinkStatus, Send
  <2>2. <<LinkMessage>> \in Seq(Message)
      BY MessageTypes DEF TypeOK
  <2>3. NewestIn(<<LinkMessage>>, Status')
      BY <2>1 DEF NewestIn, LinkMessage, Msg, Status, LinkWords
  <2>4. QED
      BY <1>0, <2>1, <2>2, <2>3, LinkSent
<1>5. CASE GoToTransferToApc /\ UNCHANGED wire
  <2>1. Served /\ UNCHANGED <<wire, Status>>
      BY <1>1, <1>5 DEF GoToTransferToApc, DoWaiting, Do, Serving, Served, Status
  <2>2. QED
      BY <1>2, <2>1, LinkStays
<1>6. CASE (GoToTransferToApc /\ ~UNCHANGED wire) \/ GoToAssignEntityId \/ GoToSendNop
  <2> DEFINE frame == [type |-> "AVDECC_FROM_APS", n |-> in]
  <2>1. Served /\ UNCHANGED Status
      BY <1>1, <1>6 DEF GoToTransferToApc, GoToAssignEntityId, GoToSendNop, DoWaiting, Do,
         Serving, Served, Status
  <2>2. PICK m \in {frame, Msg("ENTITY_ID_RESPONSE"), Msg("NOP")} : wire' = wire \o <<m>>
      BY <1>1, <1>6 DEF GoToTransferToApc, SendFrame, GoToAssignEntityId, GoToSendNop, Send
  <2>3. m \in Message /\ m.type \notin LinkWords
    <3>1. in \in Nat
        BY ApsAssumption DEF TypeOK, DataType
    <3>2. QED
        BY <2>2, <3>1 DEF Message, Msg, LinkWords
  <2>4. <<m>> \in Seq(Message) /\ NoWord(<<m>>)
      BY <2>3 DEF NoWord
  <2>5. QED
      BY <1>0, <2>1, <2>2, <2>4, LinkSent
<1>7. CASE DoReturnToWaiting \/ GoToClosedOrStay \/ GoToTransferToL2
  <2>1. Served /\ UNCHANGED <<wire, Status>>
      BY <1>1, <1>7 DEF DoReturnToWaiting, GoToClosedOrStay, GoToTransferToL2, DoWaiting, Do,
         Serving, Served, Status, tcpVars
  <2>2. QED
      BY <1>2, <2>1, LinkStays
<1>8. CASE \/ DoBegin \/ DoInitialize \/ DoWaitForConnect \/ GoToCloseAndFinish \/ DoClosed
           \/ DoCloseAndFinish \/ DoFinish
    BY <1>1, <1>8 DEF DoBegin, DoInitialize, DoWaitForConnect, GoToCloseAndFinish, DoClosed,
       DoCloseAndFinish, DoFinish, DoWaiting, Do, GoTo, GoToWaitForConnect, Serving
<1>9. QED
    BY <1>3, <1>4, <1>6, <1>7, <1>8, <1>5 DEF Step

\* What the APC has of the words changes only when it reads one.
LEMMA ClientStepReceived ==
    ASSUME Client!Step, state # "BEGIN"
    PROVE  UNCHANGED Received
<1> USE DEF Received, Client!messageVars, Client!doneVars
<1>1. CASE Client!GoToLinkStatus
  <2>1. "linkStatusMsg" \in raised
      BY <1>1 DEF Client!GoToLinkStatus, Client!DoWaiting, Client!WaitingChoice
  <2>2. QED
      BY <1>1, <2>1 DEF Client!GoToLinkStatus, Client!DoWaiting
<1>2. CASE UNCHANGED <<linkMsg, linkSeen>>
           /\ ("linkStatusMsg" \in raised' <=> "linkStatusMsg" \in raised)
    BY <1>2
<1>3. CASE ~Client!GoToLinkStatus
    BY <1>2, <1>3 DEF Client!Step, Client!StepConnected, Client!DoBegin, Client!DoInitialize,
       Client!DoWaitForConnect, Client!GoToConnected, Client!DoConnected,
       Client!DoReturnToWaiting, Client!Stay, Client!GoToClosed, Client!GoToReceiveMsg,
       Client!GoToSendMsg, Client!GoToEntityIdAssigned, Client!GoToSendNop, Client!DoWaiting,
       Client!DoClosed, Client!DoFinish, Client!Do
<1>4. QED
    BY <1>1, <1>3

\* The APC reads the newest word, an older one, or something else.
LEMMA LinkRead ==
    ASSUME ProxyTypeOK, LinkInv, ClientReadsNext
    PROVE  LinkInv'
<1>1. /\ wire # <<>> /\ wire' = Tail(wire) /\ wire \in Seq(Message)
      /\ UNCHANGED <<flags, cs, tcp, socket>>
    BY DEF ClientReadsNext, Client!OnHttpResponse, Client!OnAppMessage, Client!socketVars,
       stateVars, tcpVars, ProxyTypeOK, TypeOK, ConnectionType
<1>2. Served' <=> Served
    BY <1>1 DEF Served
<1>3. UNCHANGED Status
    BY <1>1 DEF Status
<1>4. SUFFICES ASSUME NewestWord(wire, Received, Status)
               PROVE  NewestWord(Tail(wire), Received', Status)
    BY <1>1, <1>2, <1>3, LinkInvPrime DEF LinkInv
<1>5. CASE Head(wire).type \in LinkWords
  <2>1. Received' = Head(wire).type
      BY <1>5 DEF ClientReadsNext, Client!OnAppMessage, LinkWords, Received
  <2>2. NewestIn(wire, Status)
      BY <1>1, <1>4, <1>5, NewestTail DEF NewestWord
  <2>3. QED
      BY <1>1, <2>1, <2>2, NewestTail DEF NewestWord
<1>6. CASE Head(wire).type \notin LinkWords
  <2>1. UNCHANGED Received
      BY <1>6 DEF ClientReadsNext, Client!OnAppMessage, Client!OnHttpResponse, LinkWords,
         Received, Client!messageVars, Client!doneVars
  <2>2. Status \in LinkWords
      BY DEF Status, LinkWords
  <2>3. QED
      BY <1>1, <1>4, <1>6, <2>1, <2>2, NewestTail DEF NewestWord
<1>7. QED
    BY <1>5, <1>6

LEMMA LinkInvStep ==
    ASSUME ProxyTypeOK, OneConnection, LinkInv, [ProxyNext]_proxyVars
    PROVE  LinkInv'
<1>0. TypeOK
    BY DEF ProxyTypeOK
<1>1. ASSUME UNCHANGED vars PROVE UNCHANGED <<wire, Status, cs, tcp, flags>>
    BY <1>1 DEF vars, stateVars, tcpVars, Status
<1>2. ASSUME UNCHANGED clientVars PROVE UNCHANGED <<Received, socket>>
    BY <1>2 DEF clientVars, Received
<1>3. CASE ServerRuns
  <2>1. UNCHANGED clientVars /\ (Run \/ Step)
      BY <1>3 DEF ServerRuns
  <2>2. CASE Run
    <3>1. UNCHANGED <<wire, flags, tcp, cs, socket, Received>>
        BY <1>2, <2>1, <2>2 DEF Run, tcpVars
    <3>2. (Served' <=> Served) /\ UNCHANGED Status
        BY <3>1 DEF Served, Status
    <3>3. QED
        BY <3>1, <3>2, LinkStays
  <2>3. QED
      BY <1>0, <2>1, <2>2, ServerLink
<1>4. CASE ServerAlone \/ ServerSeesClose
  <2>1. UNCHANGED clientVars /\ UNCHANGED <<wire, cs>>
      BY <1>4 DEF ServerAlone, ServerSeesClose, OnNetLinkStatusUpdated,
         OnNetAvdeccMessageReceived, RequestFinish, OnTcpConnectionClosed, stateVars
  <2>2. Served' => Served /\ UNCHANGED Status
      BY <1>2, <1>4, <2>1 DEF ServerAlone, ServerSeesClose, OnNetLinkStatusUpdated, LinkFlags,
         OnNetAvdeccMessageReceived, RequestFinish, OnTcpConnectionClosed, tcpVars, Served,
         Status
  <2>3. QED
      BY <1>2, <2>1, <2>2, LinkStays
<1>5. CASE Accept
  <2>1. ~Opened /\ UNCHANGED cs
      BY <1>5 DEF Accept, OneConnection, OnIncomingTcpConnection, stateVars
  <2>2. ~Served'
      BY <2>1 DEF Opened, Served, Serving
  <2>3. QED
      BY <2>2, LinkInvPrime
<1>6. CASE socket = "closed" /\ ClientReads /\ UNCHANGED <<clientVars, backlog>>
  <2>1. ~Served'
      BY <1>6 DEF Served, clientVars
  <2>2. QED
      BY <2>1, LinkInvPrime
<1>7. CASE Client!Step /\ UNCHANGED vars
  <2>1. CASE cs \in Serving
    <3>1. state # "BEGIN"
        BY <2>1 DEF OneConnection, Opened, Serving
    <3>2. UNCHANGED Received /\ (socket' = "closed" \/ UNCHANGED socket)
        BY <1>7, <3>1, ClientStepReceived, ClientStepSocket
    <3>3. Served' => Served
        BY <1>1, <1>7, <3>2 DEF Served
    <3>4. QED
        BY <1>1, <1>7, <3>2, <3>3, LinkStays
  <2>2. CASE cs \notin Serving
    <3>1. ~Served'
        BY <1>1, <1>7, <2>2 DEF Served
    <3>2. QED
        BY <3>1, LinkInvPrime
  <2>3. QED
      BY <2>1, <2>2
<1>8. CASE ClientEvent /\ UNCHANGED vars
  <2>1. UNCHANGED Received
      BY <1>8, ClientEventView DEF Received
  <2>2. socket' # "closed" => socket # "closed"
      BY <1>8, ClientEventSocket
  <2>3. Served' => Served
      BY <1>1, <1>8, <2>2 DEF Served
  <2>4. QED
      BY <1>1, <1>8, <2>1, <2>3, LinkStays
<1>9. CASE ServerReads
  <2>1. UNCHANGED <<wire, cs, tcp, socket, linkMsg, linkSeen, raised>>
      BY <1>9 DEF ServerReads, OnIncomingTcpHttpData, OnAppMessage, OnIncomingTcpData, stateVars
  <2>2. \A f \in {"linkStatus", "linkStatusChanged"} : f \in flags' <=> f \in flags
      BY <1>9 DEF ServerReads, OnIncomingTcpHttpData, OnAppMessage
  <2>3. UNCHANGED <<Received, Status>>
      BY <2>1, <2>2 DEF Received, Status
  <2>4. Served' <=> Served
      BY <2>1, <2>2 DEF Served
  <2>5. QED
      BY <2>1, <2>3, <2>4, LinkStays
<1>10. CASE ClientReadsNext
    BY <1>10, LinkRead
<1>11. CASE Client!ServerReads /\ UNCHANGED vars
  <2>1. UNCHANGED <<Received, socket>>
      BY <1>11 DEF Client!ServerReads, Client!messageVars, Client!doneVars, Client!socketVars,
         Received
  <2>2. Served' <=> Served
      BY <1>1, <1>11, <2>1 DEF Served
  <2>3. QED
      BY <1>1, <1>11, <2>1, <2>2, LinkStays
<1>12. CASE UNCHANGED proxyVars
  <2>1. UNCHANGED <<wire, Status, cs, tcp, flags, Received, socket>>
      BY <1>1, <1>2, <1>12 DEF proxyVars
  <2>2. Served' <=> Served
      BY <2>1 DEF Served
  <2>3. QED
      BY <2>1, <2>2, LinkStays
<1>13. QED
    BY <1>3, <1>4, <1>5, <1>6, <1>7, <1>8, <1>9, <1>10, <1>11, <1>12, ProxySteps

\* In the transfer both machines agree on the link, wherever the newest word
\* about it is, or the APS still has a change to report: the words keep their
\* order in the queue, the slot and the application, and none is left over
\* from another connection.
THEOREM LinkAgreementHolds == ProxySpec => []LinkAgreement
<1>1. ProxyInit => LinkInv
    BY DEF ProxyInit, Init, LinkInv, Served
<1>2. ProxyTypeOK /\ LinkInv => LinkAgreement
  <2> SUFFICES ASSUME ProxyTypeOK, LinkInv, InTransfer, tcp = "open", socket = "open",
                      "linkStatusChanged" \notin flags
               PROVE  LinkWord = Status
      BY DEF LinkAgreement, Status
  <2>1. NewestWord(wire, Received, Status) /\ Status \in LinkWords
      BY DEF LinkInv, Served, InTransfer, Serving, Status, LinkWords
  <2>2. Len(wire) \in Nat
      BY LenProperties DEF ProxyTypeOK, TypeOK, ConnectionType
  <2>3. CASE NewestIn(wire, Status)
    <3>1. PICK i \in 1 .. Len(wire) :
              /\ wire[i].type = Status
              /\ \A j \in 1 .. Len(wire) : wire[j].type \in LinkWords => j <= i
        BY <2>3 DEF NewestIn
    <3>2. i \in Words /\ \A j \in Words : j <= i
        BY <2>1, <3>1 DEF Words, LinkWords
    <3>3. ASSUME NEW k \in Words, \A j \in Words : j <= k PROVE k = i
        BY <2>2, <3>2, <3>3 DEF Words
    <3>4. (CHOOSE k \in Words : \A j \in Words : j <= k) = i
        BY <3>2, <3>3
    <3>5. QED
        BY <3>1, <3>2, <3>4 DEF LinkWord
  <2>4. CASE NoWord(wire) /\ Status = Received
    <3>1. Words = {}
        BY <2>4 DEF NoWord, Words, LinkWords
    <3>2. QED
        BY <2>4, <3>1 DEF LinkWord, Received
  <2>5. QED
      BY <2>1, <2>3, <2>4 DEF NewestWord
<1>3. ProxyTypeOK /\ OneConnection /\ LinkInv /\ [ProxyNext]_proxyVars
          => OneConnection' /\ LinkInv'
    BY OneConnectionStep, LinkInvStep
<1>4. QED
    BY <1>1, <1>2, <1>3, OneConnectionInit, ProxyTypeCorrect, PTL DEF ProxySpec
=============================================================================
