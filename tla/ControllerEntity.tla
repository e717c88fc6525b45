-------------------------- MODULE ControllerEntity --------------------------
(***************************************************************************)
(* How a ControllerEntity sends AECP AEM commands and recognises their      *)
(* responses (Entity::sendCommand and tick, ControllerEntity::             *)
(* receivedAEMResponse, ControlSender::sendSetControl).  It remembers one  *)
(* command, the one it sent last with track_for_ack; a timer gives it up.  *)
(*                                                                         *)
(* Responses travel on Ethernet: they can be lost, overtake each other or  *)
(* arrive twice.  One older than SeqCount - 1 later commands has arrived   *)
(* or is lost.  The acquire and lock members that tick also looks at are   *)
(* never set by the library, so they are left out.                         *)
(***************************************************************************)
EXTENDS Clock

CONSTANTS
    Targets,        \* the entities that commands are sent to
    Types,          \* the AEM command types that are sent
    SeqCount,       \* sequence ids wrap around at this number; 2^16 in the code
    Timeout         \* JDKSAVDECC_AEM_TIMEOUT_IN_MS; 250 in the code

SetControl == "SET_CONTROL"
ControllerAvailable == "CONTROLLER_AVAILABLE"

\* Where the age of the last command is cut off.
ElapsedBound == Timeout + MaxLag + 1

ASSUME ControllerAssumption ==
    /\ SeqCount \in Nat \ {0} /\ Timeout \in Nat /\ ElapsedBound + MaxLag < ClockSize
    /\ SetControl \in Types /\ "EXPANSION" \notin Types /\ "NOBODY" \notin Targets

VARIABLES
    seq,            \* m_outgoing_sequence_id
    sentType,       \* m_last_sent_command_type, "EXPANSION" when there is none
    sentTarget,     \* m_last_sent_command_target_entity_id, "NOBODY" when cleared
    elapsed,        \* age of m_last_sent_command_time
    lag,            \* age of the time that the loop read last
    due,            \* the loop read the clock and has not called tick yet
    responses,      \* responses that may still arrive
    fate            \* what became of the tracked command

commandVars == <<sentType, sentTarget, elapsed, fate>>
clockVars == <<lag, due>>
vars == <<seq, responses, commandVars, clockVars>>

\* age: how many sequence ids were used after the one the response carries.
Response == [target : Targets, type : Types, seq : 0 .. SeqCount - 1, age : 0 .. SeqCount - 1]

Init ==
    /\ seq = 0
    /\ sentType = "EXPANSION" /\ sentTarget = "NOBODY" /\ elapsed = 0
    /\ responses = {}
    /\ fate = "none"
    /\ lag = 0 /\ due = FALSE

\* Mutant: the sequence id is wider than its field in the PDU.
NextSeq_NoWrap == seq + 1

NextSeq == (seq + 1) % SeqCount

Aged(rs) ==
    {[r EXCEPT !.age = @ + 1] : r \in {q \in rs : q.age < SeqCount - 1}}

\* sendCommand; what it sends may reach the target and be answered.
Send(target, type, trackForAck) ==
    /\ seq' = NextSeq
    /\ responses' = Aged(responses)
                    \cup {[target |-> target, type |-> type, seq |-> NextSeq, age |-> 0]}
    /\ IF trackForAck
       THEN /\ sentType' = type
            /\ sentTarget' = target
            /\ elapsed' = 0
            /\ fate' = "pending"
       ELSE UNCHANGED commandVars
    /\ UNCHANGED clockVars

\* The sendX of ControllerEntity: none asks canSendCommand first.
SendCommand(target, type) == Send(target, type, TRUE)

CanSendCommand == sentType # "EXPANSION"

\* ControlSender::sendSetControl; its tick calls it with wait_for_ack FALSE.
SendSetControl(target, waitForAck) ==
    /\ waitForAck => CanSendCommand
    /\ Send(target, SetControl, waitForAck)

\* A notification takes a sequence id too, and is not answered.
SendUnsolicitedResponses ==
    /\ seq' = NextSeq
    /\ responses' = Aged(responses)
    /\ UNCHANGED <<commandVars, clockVars>>

\* Mutant: the sequence id is not compared.
Expected_AnySeq(r) == r.target = sentTarget /\ r.type = sentType

Expected(r) == r.target = sentTarget /\ r.type = sentType /\ r.seq = seq

\* Mutant: the answered command is not forgotten.
Forget_Keeps == UNCHANGED sentTarget

\* Only the target is cleared: the type stays until the time-out.
Forget == sentTarget' = "NOBODY"

\* receivedAEMResponse for a solicited response; the response may come again.
ReceivedAEMResponse(r) ==
    /\ responses' \in {responses, responses \ {r}}
    /\ IF Expected(r)
       THEN Forget /\ fate' = "answered"
       ELSE UNCHANGED <<sentTarget, fate>>
    /\ UNCHANGED <<seq, sentType, elapsed, clockVars>>

Lose(r) ==
    /\ responses' = responses \ {r}
    /\ UNCHANGED <<seq, commandVars, clockVars>>

ReadClock ==
    /\ ~due
    /\ due' = TRUE /\ lag' = 0
    /\ UNCHANGED <<seq, responses, commandVars>>

\* Mutant: an answered command is never given up.
TimedOut_TargetSet == sentTarget # "NOBODY" /\ WasTimeOutHit(elapsed, lag, Timeout)

\* For a command that was sent after the loop read the clock the difference
\* wraps, and it has timed out at once.
TimedOut == sentType # "EXPANSION" /\ WasTimeOutHit(elapsed, lag, Timeout)

\* The time-out of CONTROLLER_AVAILABLE ends the acquisition, that of any
\* other command calls commandTimedOut, which clears the target.
GiveUp ==
    /\ sentType' = "EXPANSION"
    /\ sentTarget' = IF sentType = ControllerAvailable THEN sentTarget ELSE "NOBODY"
    /\ fate' = "expired"
    /\ UNCHANGED elapsed

\* Entity::tick, called with the loop's time.
Tick ==
    /\ due
    /\ due' = FALSE
    /\ IF TimedOut THEN GiveUp ELSE UNCHANGED commandVars
    /\ UNCHANGED <<seq, responses, lag>>

TimePasses ==
    /\ lag < MaxLag
    /\ lag' = lag + 1
    /\ elapsed' = Older(elapsed, ElapsedBound)
    /\ UNCHANGED <<seq, sentType, sentTarget, responses, fate, due>>

Next ==
    \/ \E target \in Targets, type \in Types : SendCommand(target, type)
    \/ \E target \in Targets, waitForAck \in BOOLEAN : SendSetControl(target, waitForAck)
    \/ SendUnsolicitedResponses
    \/ \E r \in responses : ReceivedAEMResponse(r)
    \/ \E r \in responses : Lose(r)
    \/ ReadClock
    \/ Tick
    \/ TimePasses

Spec == Init /\ [][Next]_vars

\* The integrator's loop reads the clock and calls tick for ever, and time
\* goes on.
FairSpec == Spec /\ WF_vars(ReadClock) /\ WF_vars(Tick) /\ WF_vars(TimePasses)

-----------------------------------------------------------------------------
(* Properties.                                                              *)

\* Every variable holds a value of its C++ type.
TypeOK ==
    /\ seq \in 0 .. SeqCount - 1
    /\ sentType \in Types \cup {"EXPANSION"}
    /\ sentTarget \in Targets \cup {"NOBODY"}
    /\ elapsed \in 0 .. ElapsedBound
    /\ lag \in 0 .. MaxLag /\ due \in BOOLEAN
    /\ responses \in SUBSET Response
    /\ fate \in {"none", "pending", "answered", "expired"}

Accepts == \E r \in responses : ReceivedAEMResponse(r) /\ Expected(r)

\* A tracked command is answered at most once, and never after it was given
\* up, although responses come late and twice and untracked commands and
\* notifications use the same sequence ids in between.
AnsweredOnce == [][Accepts => fate = "pending"]_vars

\* The response that is accepted answers the last command that was sent,
\* although sequence ids are used again and old responses are still around.
AcceptsLatest ==
    [][\A r \in responses : ReceivedAEMResponse(r) /\ Expected(r) => r.age = 0]_vars

\* A command that is tracked is given up in the end, or replaced by another
\* one; answered or not, it does not stay in flight for ever.  It may be given
\* up before Timeout, see TimedOut, or although it was answered.
GivesUp ==
    (sentType # "EXPANSION" /\ elapsed > 0) ~> (sentType = "EXPANSION" \/ elapsed = 0)
=============================================================================
