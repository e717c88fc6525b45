------------------------------ MODULE ApcProofs ------------------------------
(***************************************************************************)
(* Proofs about Apc: its types, that the application is never left with a  *)
(* proxy that is gone, and that each of its two slots is a mailbox.        *)
(***************************************************************************)
EXTENDS Apc, TLAPS

LEMMA WaitingChoiceType ==
    WaitingChoice \in {"CLOSED", "LINK_STATUS", "RECEIVE_MSG", "SEND_MSG",
                       "ENTITY_ID_ASSIGNED", "SEND_NOP", "WAITING"}
    BY DEF WaitingChoice

LEMMA SendType ==
    ASSUME uplink \in Seq(Request), NEW msg \in Request, Send(msg)
    PROVE  uplink' \in Seq(Request)
BY DEF Send

\* The requests the machine forms are requests.
LEMMA RequestTypes ==
    /\ \A t \in {"HTTP_REQUEST", "ENTITY_ID_REQUEST", "NOP"} : Req(t) \in Request
    /\ \A n \in Nat : [type |-> "AVDECC_FROM_APC", n |-> n] \in Request
    BY DEF Req, Request

LEMMA StepControlType == ControlType /\ Step => ControlType'
<1> SUFFICES ASSUME ControlType, Step PROVE ControlType'
    OBVIOUS
<1> USE DEF ControlType, States, Signals, Do, GoTo, CloseTcpConnection, socketVars, doneVars
<1>1. ASSUME NEW connected \in BOOLEAN, DoBegin(connected) PROVE ControlType'
    BY <1>1 DEF DoBegin
<1>2. CASE DoInitialize \/ DoReturnToWaiting \/ DoFinish
    BY <1>2 DEF DoInitialize, DoReturnToWaiting, DoFinish
<1>3. CASE DoWaitForConnect
    BY <1>3 DEF DoWaitForConnect, GoToConnected
<1>4. CASE DoConnected \/ DoClosed
    BY <1>4 DEF DoConnected, DoClosed
<1>5. CASE Stay \/ GoToClosed
    BY <1>5 DEF Stay, GoToClosed, DoWaiting
<1>6. CASE GoToLinkStatus \/ GoToReceiveMsg \/ GoToEntityIdAssigned
    BY <1>6 DEF GoToLinkStatus, GoToReceiveMsg, GoToEntityIdAssigned, DoWaiting
<1>7. CASE GoToSendMsg \/ GoToSendNop
    BY <1>7 DEF GoToSendMsg, SendFrame, GoToSendNop, DoWaiting
<1>8. QED
    BY <1>1, <1>2, <1>3, <1>4, <1>5, <1>6, <1>7 DEF Step, StepConnected

LEMMA StepDataType == DataType /\ Step => DataType'
<1> SUFFICES ASSUME DataType, Step PROVE DataType'
    OBVIOUS
<1> USE ApcAssumption DEF DataType, messageVars, inputVars, doneVars
<1>1. CASE GoToLinkStatus
    BY <1>1 DEF GoToLinkStatus, DoWaiting
<1>2. CASE GoToReceiveMsg
    BY <1>2 DEF GoToReceiveMsg, DoWaiting
<1>3. CASE GoToSendMsg
    BY <1>3 DEF GoToSendMsg, SendFrame, DoWaiting
<1>4. CASE UNCHANGED <<messageVars, inputVars, processed, sent, linkSeen>>
    BY <1>4
<1>5. QED
    BY <1>1, <1>2, <1>3, <1>4 DEF Step, StepConnected, DoBegin, DoInitialize, DoWaitForConnect,
       DoConnected, DoReturnToWaiting, Stay, GoToClosed, GoToEntityIdAssigned, GoToSendNop,
       DoWaiting, DoClosed, DoFinish

LEMMA StepTimeType == TimeType /\ Step => TimeType'
<1> SUFFICES ASSUME TimeType, Step PROVE TimeType'
    OBVIOUS
<1>1. now' = now /\ (RearmNop \/ UNCHANGED nopDue)
    BY DEF Step, StepConnected, DoBegin, DoInitialize, DoWaitForConnect, DoConnected,
       DoReturnToWaiting, Stay, GoToClosed, GoToLinkStatus, GoToReceiveMsg, GoToSendMsg,
       GoToEntityIdAssigned, GoToSendNop, DoWaiting, DoClosed, DoFinish, nopVars
<1>2. QED
    BY <1>1, ApcAssumption DEF TimeType, RearmNop

LEMMA StepUplinkType == DataType /\ UplinkType /\ Step => UplinkType'
<1> SUFFICES ASSUME DataType, UplinkType, Step PROVE UplinkType'
    OBVIOUS
<1> USE RequestTypes, SendType DEF UplinkType
<1>1. CASE DoWaitForConnect
    BY <1>1 DEF DoWaitForConnect, GoToConnected
<1>2. CASE DoConnected
    BY <1>2 DEF DoConnected
<1>3. CASE GoToSendMsg
  <2>1. apcMsg \in Nat
      BY ApcAssumption DEF DataType
  <2>2. QED
      BY <1>3, <2>1 DEF GoToSendMsg, SendFrame
<1>4. CASE GoToSendNop
    BY <1>4 DEF GoToSendNop
<1>5. CASE UNCHANGED uplink
    BY <1>5
<1>6. QED
    BY <1>1, <1>2, <1>3, <1>4, <1>5 DEF Step, StepConnected, DoBegin, DoInitialize,
       DoReturnToWaiting, Stay, GoToClosed, GoToLinkStatus, GoToReceiveMsg,
       GoToEntityIdAssigned, DoClosed, DoFinish

AppTypes == {"LINK_UP", "LINK_DOWN", "ENTITY_ID_RESPONSE", "NOP", "AVDECC_FROM_APS"}

LEMMA EventType == TypeOK /\ Event => TypeOK'
<1> SUFFICES ASSUME TypeOK, Event PROVE TypeOK'
    OBVIOUS
<1> USE ApcAssumption DEF TypeOK, ControlType, DataType, TimeType, UplinkType, States, Signals
<1>1. CASE OnIncomingTcpConnection \/ OnTcpConnectionClosed \/ OnHttpResponse
    BY <1>1 DEF OnIncomingTcpConnection, OnTcpConnectionClosed, OnHttpResponse, machineVars,
       messageVars, nopVars, inputVars, doneVars
<1>2. ASSUME NEW type \in AppTypes, OnAppMessage(type, heard + 1) PROVE TypeOK'
  <2>1. ControlType' /\ TimeType' /\ UplinkType'
      BY <1>2 DEF OnAppMessage, machineVars, nopVars, socketVars, doneVars
  <2>2. DataType'
      BY <1>2 DEF OnAppMessage, inputVars, doneVars
  <2>3. QED
      BY <2>1, <2>2
<1>3. CASE OnNetAvdeccMessageReceived
  <2>1. ControlType' /\ TimeType' /\ UplinkType'
      BY <1>3 DEF OnNetAvdeccMessageReceived, machineVars, nopVars, socketVars, doneVars
  <2>2. DataType'
      BY <1>3 DEF OnNetAvdeccMessageReceived, doneVars
  <2>3. QED
      BY <2>1, <2>2
<1>4. CASE OnTimeTick
    BY <1>4 DEF OnTimeTick, machineVars, messageVars, socketVars, inputVars, doneVars
<1>5. CASE RequestFinish
    BY <1>5 DEF RequestFinish, machineVars, messageVars, nopVars, socketVars, inputVars,
       doneVars
<1>6. QED
    BY <1>1, <1>2, <1>3, <1>4, <1>5 DEF Event, AppTypes

\* Every variable of the APC keeps its type.
THEOREM ApcTypeCorrect == Spec => []TypeOK
<1>1. Init => TypeOK
  <2> SUFFICES ASSUME Init PROVE TypeOK
      OBVIOUS
  <2>1. ControlType
      BY DEF Init, ControlType, States, Signals
  <2>2. UplinkType
      BY DEF Init, UplinkType
  <2>3. DataType
      BY ApcAssumption DEF Init, DataType
  <2>4. TimeType
      BY ApcAssumption DEF Init, TimeType
  <2>5. QED
      BY <2>1, <2>2, <2>3, <2>4 DEF TypeOK
<1>2. TypeOK /\ [Next]_apcVars => TypeOK'
  <2> SUFFICES ASSUME TypeOK, [Next]_apcVars PROVE TypeOK'
      OBVIOUS
  <2>1. CASE Step
      BY <2>1, StepControlType, StepDataType, StepTimeType, StepUplinkType DEF TypeOK
  <2> USE DEF TypeOK, ControlType, DataType, TimeType, UplinkType
  <2>2. CASE Run
      BY <2>2 DEF Run, messageVars, nopVars, socketVars, inputVars, doneVars
  <2>3. CASE ServerReads
      BY <2>3 DEF ServerReads, machineVars, messageVars, nopVars, socketVars, inputVars,
         doneVars
  <2>4. CASE UNCHANGED apcVars
      BY <2>4 DEF apcVars, machineVars, messageVars, nopVars, socketVars, inputVars, doneVars
  <2>5. QED
      BY <2>1, <2>2, <2>3, <2>4, EventType DEF Next
<1>3. QED
    BY <1>1, <1>2, PTL DEF Spec

-----------------------------------------------------------------------------
(* The proxy is announced only inside the transfer, and every path out of   *)
(* the transfer goes through goToClosed.                                    *)

Announced == available => state \in {"WAITING", "LINK_STATUS"}

\* The machine never stops with the application believing the proxy available.
THEOREM NeverLeftAvailableHolds == Spec => []NeverLeftAvailable
<1>1. Init => Announced
    BY DEF Init, Announced
<1>2. Announced /\ [Next]_apcVars => Announced'
  <2> SUFFICES ASSUME Announced, [Next]_apcVars PROVE Announced'
      OBVIOUS
  <2> USE DEF Announced
  <2>1. CASE UNCHANGED <<state, available>>
      BY <2>1
  <2>2. CASE Run \/ Event \/ ServerReads \/ UNCHANGED apcVars
      BY <2>1, <2>2 DEF Run, Event, ServerReads, OnIncomingTcpConnection, OnHttpResponse,
         OnTcpConnectionClosed, OnAppMessage, OnNetAvdeccMessageReceived, OnTimeTick,
         RequestFinish, apcVars, machineVars, doneVars
  <2>3. CASE \E connected \in BOOLEAN : DoBegin(connected)
      BY <2>3 DEF DoBegin, Do, doneVars
  <2>4. CASE DoInitialize \/ DoWaitForConnect \/ DoConnected \/ DoReturnToWaiting
      BY <2>4 DEF DoInitialize, DoWaitForConnect, DoConnected, DoReturnToWaiting, Do, GoTo,
         doneVars
  <2>5. CASE GoToClosed
      BY <2>5 DEF GoToClosed
  <2>6. CASE \/ Stay \/ GoToLinkStatus \/ GoToReceiveMsg \/ GoToSendMsg
             \/ GoToEntityIdAssigned \/ GoToSendNop
    <3>1. state' \in {"WAITING", "LINK_STATUS"}
        BY <2>6 DEF Stay, GoToLinkStatus, GoToReceiveMsg, GoToSendMsg, GoToEntityIdAssigned,
           GoToSendNop, DoWaiting, GoTo, States
    <3>2. QED
        BY <3>1
  <2>7. CASE DoClosed \/ DoFinish
      BY <2>7 DEF DoClosed, DoFinish, Do, doneVars
  <2>8. QED
      BY <2>2, <2>3, <2>4, <2>5, <2>6, <2>7 DEF Next, Step, StepConnected
<1>3. Announced => NeverLeftAvailable
    BY DEF Announced, NeverLeftAvailable
<1>4. QED
    BY <1>1, <1>2, <1>3, PTL DEF Spec

-----------------------------------------------------------------------------
(* Each slot with its flag is a mailbox: it holds the newest frame, and     *)
(* while the flag is raised that frame was not handed on.                   *)

InSlot ==
    /\ apsMsg = heard
    /\ processed.last <= heard
    /\ "apsMsgIn" \in raised => processed.last < heard

InStep == InSlot' /\ [In!Next]_<<heard, processed.last, processed.count>>

OutSlot ==
    /\ apcMsg = captured
    /\ sent.last <= captured
    /\ "apcMsgOut" \in raised => sent.last < captured

OutStep == OutSlot' /\ [Out!Next]_<<captured, sent.last, sent.count>>

\* What the steps that neither fill nor empty a slot leave alone.
LEMMA OtherSteps ==
    ASSUME Run \/ Step \/ Event \/ ServerReads \/ UNCHANGED apcVars
    PROVE  /\ GoToReceiveMsg \/ (UNCHANGED processed /\ ("apsMsgIn" \in raised'
                => "apsMsgIn" \in raised \/ OnAppMessage("AVDECC_FROM_APS", heard + 1)))
           /\ GoToSendMsg \/ (UNCHANGED sent /\ ("apcMsgOut" \in raised'
                => "apcMsgOut" \in raised \/ OnNetAvdeccMessageReceived))
           /\ OnAppMessage("AVDECC_FROM_APS", heard + 1) \/ UNCHANGED <<apsMsg, heard>>
           /\ OnNetAvdeccMessageReceived \/ UNCHANGED <<apcMsg, captured>>
<1>1. CASE Step
    BY <1>1 DEF Step, StepConnected, DoBegin, DoInitialize, DoWaitForConnect, GoToConnected,
       DoConnected, DoReturnToWaiting, Stay, GoToClosed, GoToLinkStatus, GoToReceiveMsg,
       GoToSendMsg, GoToEntityIdAssigned, GoToSendNop, DoClosed, DoFinish, DoWaiting,
       messageVars, inputVars, doneVars
<1>2. ASSUME NEW type \in AppTypes, OnAppMessage(type, heard + 1)
      PROVE  /\ UNCHANGED <<processed, sent, apcMsg, captured>>
             /\ "apcMsgOut" \in raised' => "apcMsgOut" \in raised
             /\ \/ type = "AVDECC_FROM_APS"
                \/ /\ UNCHANGED <<apsMsg, heard>>
                   /\ "apsMsgIn" \in raised' => "apsMsgIn" \in raised
    BY <1>2 DEF OnAppMessage, AppTypes, doneVars
<1>3. CASE OnIncomingTcpConnection \/ OnTcpConnectionClosed \/ OnHttpResponse
           \/ OnNetAvdeccMessageReceived \/ OnTimeTick \/ RequestFinish
    BY <1>3 DEF OnIncomingTcpConnection, OnTcpConnectionClosed, OnHttpResponse,
       OnNetAvdeccMessageReceived, OnTimeTick, RequestFinish, messageVars, inputVars, doneVars
<1>4. CASE Run \/ ServerReads \/ UNCHANGED apcVars
    BY <1>4 DEF Run, ServerReads, apcVars, messageVars, inputVars, doneVars
<1>5. QED
    BY <1>1, <1>2, <1>3, <1>4 DEF Event, AppTypes

LEMMA InSlotStep == ASSUME TypeOK, InSlot, [Next]_apcVars PROVE InStep
<1> USE ApcAssumption DEF TypeOK, DataType, InSlot, InStep, In!Next, In!Offer, In!Deliver
<1>1. CASE GoToReceiveMsg
  <2>1. "apsMsgIn" \in raised /\ UNCHANGED <<apsMsg, heard>>
      BY <1>1 DEF GoToReceiveMsg, DoWaiting, WaitingChoice, messageVars, inputVars
  <2>2. processed' = [last |-> apsMsg, count |-> processed.count + 1]
        /\ "apsMsgIn" \notin raised'
      BY <1>1 DEF GoToReceiveMsg
  <2>3. QED
      BY <2>1, <2>2
<1>2. CASE OnAppMessage("AVDECC_FROM_APS", heard + 1)
    BY <1>2 DEF OnAppMessage, doneVars
<1>3. CASE ~GoToReceiveMsg /\ ~OnAppMessage("AVDECC_FROM_APS", heard + 1)
  <2>1. UNCHANGED <<processed, apsMsg, heard>> /\ ("apsMsgIn" \in raised' => "apsMsgIn" \in raised)
      BY <1>3, OtherSteps DEF Next
  <2>2. QED
      BY <2>1
<1>4. QED
    BY <1>1, <1>2, <1>3

LEMMA OutSlotStep == ASSUME TypeOK, OutSlot, [Next]_apcVars PROVE OutStep
<1> USE ApcAssumption DEF TypeOK, DataType, OutSlot, OutStep, Out!Next, Out!Offer, Out!Deliver
<1>1. CASE GoToSendMsg
  <2>1. "apcMsgOut" \in raised /\ UNCHANGED <<apcMsg, captured>>
      BY <1>1 DEF GoToSendMsg, DoWaiting, WaitingChoice, messageVars, inputVars
  <2>2. /\ sent' = [last |-> apcMsg, count |-> sent.count + 1] \/ UNCHANGED sent
        /\ "apcMsgOut" \notin raised'
      BY <1>1 DEF GoToSendMsg, SendFrame
  <2>3. QED
      BY <2>1, <2>2
<1>2. CASE OnNetAvdeccMessageReceived
    BY <1>2 DEF OnNetAvdeccMessageReceived, doneVars
<1>3. CASE ~GoToSendMsg /\ ~OnNetAvdeccMessageReceived
  <2>1. UNCHANGED <<sent, apcMsg, captured>> /\ ("apcMsgOut" \in raised' => "apcMsgOut" \in raised)
      BY <1>3, OtherSteps DEF Next
  <2>2. QED
      BY <2>1
<1>4. QED
    BY <1>1, <1>2, <1>3

\* What the APS sends reaches the application in order and at most once.
THEOREM HandsOnHolds == Spec => HandsOn
<1>1. Init => InSlot /\ In!Init
    BY DEF Init, InSlot, In!Init
<1>2. QED
    BY <1>1, ApcTypeCorrect, InSlotStep, PTL DEF Spec, HandsOn, In!Spec, InStep

\* Frames of the client's network are sent in order and at most once.
THEOREM ForwardsHolds == Spec => Forwards
<1>1. Init => OutSlot /\ Out!Init
    BY DEF Init, OutSlot, Out!Init
<1>2. QED
    BY <1>1, ApcTypeCorrect, OutSlotStep, PTL DEF Spec, Forwards, Out!Spec, OutStep
=============================================================================
