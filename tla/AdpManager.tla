----------------------------- MODULE AdpManager -----------------------------
(***************************************************************************)
(* How an entity advertises itself: class ADPManager, and a listener that  *)
(* believes an entity gone when the advertised validity is over.           *)
(*                                                                         *)
(* Three causes race for one timer: the period, a new grandmaster, which   *)
(* is to be told a second later, and discover messages.  The loop          *)
(* reads the clock, then calls tick; everything else may happen between.   *)
(*                                                                         *)
(* receivedPDU does not look at the subtype of a PDU, so "a discover" is   *)
(* any AVTP control PDU whose message type has that value.  Its empty      *)
(* virtual handlers and the contents of an advertisement other than        *)
(* validity and grandmaster are left out.                                  *)
(***************************************************************************)
EXTENDS Clock

CONSTANTS
    QuarterSecond,  \* 250 in the code, which counts milliseconds
    ValidTime,      \* m_valid_time_in_seconds
    GrandMasters,   \* values of m_gptp_grandmaster_id
    MaxLost         \* advertisements the network loses in a row

VARIABLES
    sinceSend,      \* age of m_last_send_time_in_millis, cut off at SendBound
    trigger,        \* m_trigger_send
    sinceTrigger,   \* age of m_trigger_send_time, 0 while there is none
    gm,             \* m_gptp_grandmaster_id
    lag,            \* age of the time that tick works with
    due,            \* the loop has read the clock and has not called tick yet
    advertised,     \* the grandmaster of the last advertisement
    aired,          \* time since the last advertisement
    untold,         \* time since advertised is out of date
    asked,          \* time since the first discover without an answer
    unheard,        \* time since the listener heard an advertisement
    lost            \* advertisements it missed since then

timerVars == <<sinceSend, trigger, sinceTrigger>>
clockVars == <<lag, due>>
netVars == <<advertised, aired, unheard, lost>>
vars == <<timerVars, gm, clockVars, netVars, untold, asked>>

\* Time from one advertisement to the next, in tick.
Period == ValidTime * QuarterSecond

\* A second.
TriggerDelay == 4 * QuarterSecond

\* The octet sendADP writes is (seconds / 2) << 3: five bits in steps of two
\* seconds, zero for one second and for 64.
Validity == 8 * QuarterSecond * ((ValidTime \div 2) % 32)

\* No advertisement comes later than this after the one before.
Gap == Period + 2 * MaxLag

SendBound == Gap + 1

ASSUME AdpAssumption ==
    /\ QuarterSecond \in Nat \ {0} /\ ValidTime \in Nat /\ MaxLost \in Nat
    /\ SendBound + MaxLag < ClockSize
    /\ TriggerDelay + 3 * MaxLag < ClockSize

\* ValidTime is sane: the listener can lose MaxLost advertisements.
ASSUME ValidityAssumption == (MaxLost + 1) * Gap <= Validity

NotAsked == -1

\* The time of the last send is 0 at first: as old as the clock is.
Init ==
    /\ sinceSend \in 0 .. SendBound
    /\ trigger = FALSE /\ sinceTrigger = 0
    /\ gm \in GrandMasters /\ advertised = gm
    /\ lag = 0 /\ due = FALSE
    /\ aired = 0 /\ untold = 0 /\ asked = NotAsked
    /\ unheard = 0 /\ lost = 0

-----------------------------------------------------------------------------

\* sendADP, on a network that loses some.
Advertise ==
    /\ advertised' = gm
    /\ aired' = 0 /\ untold' = 0 /\ asked' = NotAsked
    /\ \/ unheard' = 0 /\ lost' = 0
       \/ lost < MaxLost /\ lost' = lost + 1 /\ unheard' = unheard

\* Mutant: each change starts the second again.
TriggerSend_Restarts == trigger' = TRUE /\ sinceTrigger' = 0

TriggerSend ==
    IF trigger
    THEN UNCHANGED <<trigger, sinceTrigger>>
    ELSE trigger' = TRUE /\ sinceTrigger' = 0

SetGPTPGrandMasterID(new) ==
    /\ IF gm # new
       THEN gm' = new /\ TriggerSend
       ELSE UNCHANGED <<gm, trigger, sinceTrigger>>
    /\ untold' = IF new = advertised THEN 0 ELSE untold
    /\ UNCHANGED <<sinceSend, clockVars, netVars, asked>>

\* Mutant: seconds are not converted to milliseconds.
Discovered_Seconds ==
    IF sinceSend + ValidTime < SendBound THEN sinceSend + ValidTime ELSE SendBound

\* Mutant: the time is moved forward.
Discovered_Forward == sinceSend - Period

\* The time of the last send is moved back by a period.
Discovered == IF sinceSend + Period < SendBound THEN sinceSend + Period ELSE SendBound

\* receivedPDU, ENTITY_DISCOVER for this entity or for all.
ReceivedDiscover ==
    /\ sinceSend' = Discovered
    /\ asked' = IF asked = NotAsked THEN 0 ELSE asked
    /\ UNCHANGED <<trigger, sinceTrigger, gm, clockVars, netVars, untold>>

ReadClock ==
    /\ ~due
    /\ due' = TRUE /\ lag' = 0
    /\ UNCHANGED <<timerVars, gm, netVars, untold, asked>>

\* Mutant: advertises once in the valid time.
TimeOutHit_Once == WasTimeOutHit(sinceSend, lag, 4 * Period)

TimeOutHit == WasTimeOutHit(sinceSend, lag, Period)

\* A trigger set after the loop read the clock is hit at once.
Triggered == trigger /\ WasTimeOutHit(sinceTrigger, lag, TriggerDelay)

Tick ==
    /\ due
    /\ due' = FALSE
    /\ IF Triggered \/ TimeOutHit
       THEN /\ trigger' = FALSE /\ sinceTrigger' = 0
            /\ Advertise
            /\ sinceSend' = lag
       ELSE UNCHANGED <<timerVars, netVars, untold, asked>>
    /\ UNCHANGED <<gm, lag>>

TimePasses ==
    /\ lag < MaxLag
    /\ lag' = lag + 1
    /\ sinceSend' = Older(sinceSend, SendBound)
    /\ sinceTrigger' = IF trigger THEN Older(sinceTrigger, TriggerDelay + 2 * MaxLag + 1) ELSE 0
    /\ aired' = Older(aired, Gap + 1)
    /\ untold' = IF advertised = gm THEN 0 ELSE Older(untold, TriggerDelay + 2 * MaxLag + 1)
    /\ asked' = IF asked = NotAsked THEN NotAsked ELSE Older(asked, 2 * MaxLag + 1)
    /\ unheard' = Older(unheard, Validity + 1)
    /\ UNCHANGED <<trigger, gm, due, advertised, lost>>

Next ==
    \/ \E new \in GrandMasters : SetGPTPGrandMasterID(new)
    \/ ReceivedDiscover
    \/ ReadClock
    \/ Tick
    \/ TimePasses

Spec == Init /\ [][Next]_vars

-----------------------------------------------------------------------------
(* Properties.                                                              *)

\* Every variable holds a value of its C++ type, and the age of the last
\* send is never less than that of the loop's time: this difference, unlike
\* the trigger's, does not wrap.
TypeOK ==
    /\ sinceSend \in 0 .. SendBound /\ lag <= sinceSend
    /\ trigger \in BOOLEAN
    /\ sinceTrigger \in 0 .. TriggerDelay + 2 * MaxLag + 1
    /\ gm \in GrandMasters /\ advertised \in GrandMasters
    /\ lag \in 0 .. MaxLag /\ due \in BOOLEAN
    /\ aired \in 0 .. Gap + 1
    /\ untold \in 0 .. TriggerDelay + 2 * MaxLag + 1
    /\ asked \in {NotAsked} \cup 0 .. 2 * MaxLag + 1
    /\ unheard \in 0 .. Validity + 1 /\ lost \in 0 .. MaxLost

\* A listener that misses at most MaxLost advertisements in a row never
\* believes the entity gone, whatever triggers and discover messages do to
\* the timer.
StaysKnown == unheard <= Validity

\* The network is told of a new grandmaster in a second and two turns of the
\* loop, however often it changes meanwhile and whatever else was sent.
NewsTold == advertised # gm => trigger /\ untold <= TriggerDelay + 2 * MaxLag

\* A discover message is answered in two turns of the loop, also right after
\* an advertisement.
DiscoverAnswered == asked <= 2 * MaxLag
=============================================================================
