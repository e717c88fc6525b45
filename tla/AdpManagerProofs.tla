-------------------------- MODULE AdpManagerProofs --------------------------
(***************************************************************************)
(* Proofs about the advertisement timer, for any period, width of the      *)
(* clock, turn of the main loop and number of grandmasters.                *)
(*                                                                         *)
(* Each promise is a bound on an age.  It is inductive together with the   *)
(* age of a stamp of the manager that it runs behind, and with what that   *)
(* age is at most before and after the loop has read the clock: a tick     *)
(* that does not send has seen that the stamp is young.                    *)
(***************************************************************************)
EXTENDS AdpManager, TLAPS

\* A stamp that wasTimeOutHit does not judge hit is at most timeout older than
\* the loop's time, for any clock that is wide enough; it may be younger.
LEMMA NotHit ==
    ASSUME NEW age \in Nat, NEW loop \in Nat, NEW timeout \in Nat,
           age - loop < ClockSize, ~WasTimeOutHit(age, loop, timeout)
    PROVE  age <= timeout + loop
<1>1. CASE loop <= age
  <2> DEFINE d == age - loop
  <2>1. d \in 0 .. ClockSize - 1
      BY <1>1, ClockAssumption
  <2>2. d % ClockSize = d
      BY <2>1, ClockAssumption
  <2>3. QED
      BY <2>2 DEF WasTimeOutHit
<1>2. CASE age < loop
    BY <1>2
<1>3. QED
    BY <1>1, <1>2

\* A discover message moved the time of the last send back by a period, so
\* the next tick answers it.
AskedInv ==
    /\ asked # NotAsked => Period + asked <= sinceSend
    /\ ~due => asked <= lag
    /\ due => asked <= MaxLag + lag

\* While the network has an old grandmaster a trigger is set, and it is as
\* old as the news.
NewsInv ==
    /\ ~trigger => sinceTrigger = 0
    /\ advertised = gm => untold = 0
    /\ advertised # gm => trigger /\ untold <= sinceTrigger
    /\ ~due => sinceTrigger <= TriggerDelay + lag
    /\ due => sinceTrigger <= TriggerDelay + MaxLag + lag

\* The timer is never younger than the last advertisement, and the listener
\* missed no more than those that were lost.
AiredInv ==
    /\ aired <= sinceSend
    /\ ~due => aired <= Period + lag
    /\ due => aired <= Period + MaxLag + lag
    /\ unheard <= lost * Gap + aired

IInv == TypeOK /\ AskedInv /\ NewsInv /\ AiredInv

-----------------------------------------------------------------------------

LEMMA PeriodType ==
    /\ Period \in Nat /\ TriggerDelay \in Nat
    /\ Gap \in Nat /\ Gap = Period + 2 * MaxLag
    /\ SendBound = Period + 2 * MaxLag + 1
    /\ MaxLag \in Nat /\ MaxLag >= 1 /\ ClockSize \in Nat
BY AdpAssumption, ClockAssumption DEF Period, TriggerDelay, Gap, SendBound

LEMMA ValidityType == Validity \in Nat
BY AdpAssumption, SMT DEF Validity

\* An advertisement more that is lost leaves another gap.
LEMMA OneGapMore == ASSUME NEW n \in Nat PROVE (n + 1) * Gap = n * Gap + Gap
BY PeriodType, SMT

LEMMA GapsGrow == ASSUME NEW n \in Nat, NEW k \in Nat, n <= k PROVE n * Gap <= k * Gap
BY PeriodType, SMT

LEMMA GapsType == ASSUME NEW n \in Nat PROVE n * Gap \in Nat
BY PeriodType, SMT

\* The listener has room for every advertisement that may be lost.
LEMMA HeardInTime == TypeOK /\ AiredInv => unheard <= Validity
<1> SUFFICES ASSUME TypeOK, AiredInv PROVE unheard <= Validity
    OBVIOUS
<1>1. aired <= Gap
    BY PeriodType DEF TypeOK, AiredInv
<1>2. MaxLost \in Nat /\ (MaxLost + 1) * Gap = MaxLost * Gap + Gap
    BY OneGapMore, AdpAssumption
<1>3. lost * Gap <= MaxLost * Gap
    BY GapsGrow, AdpAssumption DEF TypeOK
<1>4. lost * Gap \in Nat /\ MaxLost * Gap \in Nat
    BY GapsType, AdpAssumption DEF TypeOK
<1>5. unheard \in Nat /\ aired \in Nat
    BY ValidityType, PeriodType DEF TypeOK
<1>6. QED
    BY <1>1, <1>2, <1>3, <1>4, <1>5, PeriodType, ValidityType, ValidityAssumption DEF AiredInv

LEMMA InitInv == Init => IInv
<1> SUFFICES ASSUME Init PROVE IInv
    OBVIOUS
<1>1. TypeOK
  <2>1. sinceSend \in 0 .. SendBound /\ lag = 0 /\ asked = NotAsked
      BY DEF Init
  <2>2. /\ sinceTrigger = 0 /\ aired = 0 /\ untold = 0 /\ unheard = 0 /\ lost = 0
        /\ trigger = FALSE /\ due = FALSE
        /\ gm \in GrandMasters /\ advertised \in GrandMasters
      BY DEF Init
  <2>3. /\ sinceTrigger \in 0 .. TriggerDelay + 2 * MaxLag + 1
        /\ untold \in 0 .. TriggerDelay + 2 * MaxLag + 1
        /\ aired \in 0 .. Gap + 1 /\ lag \in 0 .. MaxLag /\ lag <= sinceSend
        /\ unheard \in 0 .. Validity + 1 /\ lost \in 0 .. MaxLost
      BY <2>1, <2>2, PeriodType, ValidityType, AdpAssumption
  <2>4. trigger \in BOOLEAN /\ due \in BOOLEAN
      BY <2>2
  <2>5. QED
      BY <2>1, <2>2, <2>3, <2>4 DEF TypeOK
<1>2. AskedInv /\ NewsInv
    BY PeriodType DEF Init, AskedInv, NewsInv, NotAsked
<1>3. AiredInv
  <2>1. 0 * Gap = 0
      BY PeriodType, SMT
  <2>2. QED
      BY <2>1, PeriodType DEF Init, AiredInv
<1>4. QED
    BY <1>1, <1>2, <1>3 DEF IInv

-----------------------------------------------------------------------------
(* One lemma for each action; tick has two cases.                          *)

LEMMA SetGrandMasterInv ==
    ASSUME IInv, NEW new \in GrandMasters, SetGPTPGrandMasterID(new)
    PROVE  IInv'
<1>1. TypeOK'
  <2>1. /\ sinceTrigger' \in 0 .. TriggerDelay + 2 * MaxLag + 1
        /\ untold' \in 0 .. TriggerDelay + 2 * MaxLag + 1
      BY PeriodType DEF IInv, TypeOK, SetGPTPGrandMasterID, TriggerSend
  <2>2. trigger' \in BOOLEAN /\ gm' \in GrandMasters
      BY DEF IInv, TypeOK, SetGPTPGrandMasterID, TriggerSend
  <2>3. UNCHANGED <<sinceSend, lag, due, advertised, aired, asked, unheard, lost>>
      BY DEF SetGPTPGrandMasterID, clockVars, netVars
  <2>4. QED
      BY <2>1, <2>2, <2>3 DEF IInv, TypeOK
<1>2. NewsInv'
    BY PeriodType
    DEF IInv, TypeOK, NewsInv, SetGPTPGrandMasterID, TriggerSend, clockVars, netVars
<1>3. AskedInv' /\ AiredInv'
    BY DEF IInv, AskedInv, AiredInv, SetGPTPGrandMasterID, clockVars, netVars
<1>4. QED
    BY <1>1, <1>2, <1>3 DEF IInv

\* The time of the last send goes back, at least by a period or to its bound.
LEMMA DiscoverInv == ASSUME IInv, ReceivedDiscover PROVE IInv'
<1>1. /\ sinceSend' \in 0 .. SendBound /\ sinceSend <= sinceSend'
      /\ asked = NotAsked => Period <= sinceSend'
    BY PeriodType DEF IInv, TypeOK, ReceivedDiscover, Discovered
<1>2. UNCHANGED <<trigger, sinceTrigger, gm, lag, due, advertised, aired, untold, unheard, lost>>
    BY DEF ReceivedDiscover, clockVars, netVars
<1>3. asked' = IF asked = NotAsked THEN 0 ELSE asked
    BY DEF ReceivedDiscover
<1>4. TypeOK'
    BY <1>1, <1>2, <1>3, PeriodType DEF IInv, TypeOK
<1>5. AskedInv'
    BY <1>1, <1>2, <1>3, PeriodType DEF IInv, TypeOK, AskedInv, NotAsked
<1>6. NewsInv' /\ AiredInv'
    BY <1>1, <1>2, PeriodType DEF IInv, TypeOK, NewsInv, AiredInv
<1>7. QED
    BY <1>4, <1>5, <1>6 DEF IInv

\* What was bounded by the age of the loop's time is bounded by MaxLag more
\* than the age of the time it has read now.
LEMMA ReadClockInv == ASSUME IInv, ReadClock PROVE IInv'
<1>1. UNCHANGED <<sinceSend, trigger, sinceTrigger, gm, advertised, aired, untold, asked,
                  unheard, lost>>
    BY DEF ReadClock, timerVars, netVars
<1>2. ~due /\ due' = TRUE /\ lag' = 0 /\ lag \in 0 .. MaxLag
    BY DEF ReadClock, IInv, TypeOK
<1>3. TypeOK'
    BY <1>1, <1>2, PeriodType DEF IInv, TypeOK
<1>4. AskedInv'
    BY <1>1, <1>2, PeriodType DEF IInv, TypeOK, AskedInv, NotAsked
<1>5. NewsInv' /\ AiredInv'
    BY <1>1, <1>2, PeriodType DEF IInv, TypeOK, NewsInv, AiredInv
<1>6. QED
    BY <1>3, <1>4, <1>5 DEF IInv

\* A tick that sends starts everything again.
LEMMA SendInv == ASSUME IInv, Tick, Triggered \/ TimeOutHit PROVE IInv'
<1>1. /\ trigger' = FALSE /\ sinceTrigger' = 0 /\ sinceSend' = lag /\ lag' = lag
      /\ due' = FALSE /\ gm' = gm /\ advertised' = gm
      /\ aired' = 0 /\ untold' = 0 /\ asked' = NotAsked
    BY DEF Tick, Advertise
<1>2. /\ lost' \in 0 .. MaxLost
      /\ unheard' \in 0 .. Validity + 1
      /\ \/ unheard' = 0 /\ lost' = 0
         \/ unheard' = unheard /\ lost' = lost + 1
  <2>1. \/ unheard' = 0 /\ lost' = 0
        \/ unheard' = unheard /\ lost' = lost + 1 /\ lost < MaxLost
      BY DEF Tick, Advertise
  <2>2. lost \in 0 .. MaxLost /\ unheard \in 0 .. Validity + 1 /\ MaxLost \in Nat
      BY AdpAssumption DEF IInv, TypeOK
  <2>3. QED
      BY <2>1, <2>2, ValidityType
<1>3. TypeOK'
  <2>1. trigger' \in BOOLEAN /\ due' \in BOOLEAN
      BY <1>1
  <2>2. /\ sinceTrigger' \in 0 .. TriggerDelay + 2 * MaxLag + 1
        /\ untold' \in 0 .. TriggerDelay + 2 * MaxLag + 1
        /\ aired' \in 0 .. Gap + 1
        /\ sinceSend' \in 0 .. SendBound /\ lag' <= sinceSend'
      BY <1>1, PeriodType DEF IInv, TypeOK
  <2>3. QED
      BY <1>1, <1>2, <2>1, <2>2 DEF IInv, TypeOK
<1>4. AskedInv' /\ NewsInv'
    BY <1>1, PeriodType DEF IInv, TypeOK, AskedInv, NewsInv, NotAsked
<1>5. unheard' <= lost' * Gap + aired'
  <2>1. CASE unheard' = 0 /\ lost' = 0
      BY <1>1, <2>1, GapsType
  <2>2. CASE unheard' = unheard /\ lost' = lost + 1
    <3>1. lost \in Nat /\ (lost + 1) * Gap = lost * Gap + Gap /\ lost * Gap \in Nat
        BY OneGapMore, GapsType, AdpAssumption DEF IInv, TypeOK
    <3>2. unheard <= lost * Gap + aired /\ aired <= Gap /\ aired \in Nat
        BY PeriodType DEF IInv, TypeOK, AiredInv
    <3>3. unheard \in Nat
        BY ValidityType DEF IInv, TypeOK
    <3>4. lost' * Gap + aired' = lost * Gap + Gap
        BY <1>1, <2>2, <3>1, PeriodType
    <3>5. QED
        BY <2>2, <3>1, <3>2, <3>3, <3>4, PeriodType
  <2>3. QED
      BY <1>2, <2>1, <2>2
<1>6. AiredInv'
    BY <1>1, <1>5, PeriodType DEF IInv, TypeOK, AiredInv
<1>7. QED
    BY <1>3, <1>4, <1>6 DEF IInv

\* A tick that does not send has seen that both stamps are young.
LEMMA NoSendInv == ASSUME IInv, Tick, ~(Triggered \/ TimeOutHit) PROVE IInv'
<1>1. /\ due' = FALSE
      /\ UNCHANGED <<sinceSend, trigger, sinceTrigger, gm, lag, advertised, aired, untold, asked,
                     unheard, lost>>
    BY DEF Tick, timerVars, netVars
<1>2. sinceSend <= Period + lag
  <2>1. ~WasTimeOutHit(sinceSend, lag, Period)
      BY DEF TimeOutHit
  <2>2. sinceSend \in Nat /\ lag \in Nat /\ sinceSend - lag < ClockSize
      BY PeriodType, AdpAssumption DEF IInv, TypeOK
  <2>3. QED
      BY <2>1, <2>2, NotHit, PeriodType
<1>3. trigger => sinceTrigger <= TriggerDelay + lag
  <2>1. sinceTrigger \in Nat /\ lag \in Nat /\ sinceTrigger - lag < ClockSize
      BY PeriodType, AdpAssumption DEF IInv, TypeOK
  <2>2. QED
      BY <2>1, NotHit, PeriodType DEF Triggered
<1>4. TypeOK'
    BY <1>1 DEF IInv, TypeOK
<1>5. AskedInv'
    BY <1>1, <1>2, PeriodType DEF IInv, TypeOK, AskedInv, NotAsked
<1>6. NewsInv'
    BY <1>1, <1>3, PeriodType DEF IInv, TypeOK, NewsInv
<1>7. AiredInv'
    BY <1>1, <1>2, PeriodType DEF IInv, TypeOK, AiredInv
<1>8. QED
    BY <1>4, <1>5, <1>6, <1>7 DEF IInv

\* Time takes all ages on together; none of those that are compared is at
\* its bound.
LEMMA TimePassesInv == ASSUME IInv, TimePasses PROVE IInv'
<1>1. /\ UNCHANGED <<trigger, gm, due, advertised, lost>>
      /\ lag < MaxLag /\ lag' = lag + 1
    BY DEF TimePasses
<1>2. /\ sinceSend' \in 0 .. SendBound
      /\ sinceSend' = IF sinceSend < SendBound THEN sinceSend + 1 ELSE SendBound
    BY PeriodType DEF IInv, TypeOK, TimePasses, Older
<1>3. /\ sinceTrigger' \in 0 .. TriggerDelay + 2 * MaxLag + 1
      /\ trigger => sinceTrigger' = sinceTrigger + 1
      /\ ~trigger => sinceTrigger' = 0
    BY PeriodType DEF IInv, TypeOK, NewsInv, TimePasses, Older
<1>4. aired' = aired + 1 /\ aired' \in 0 .. Gap + 1 /\ aired' <= SendBound
    BY PeriodType DEF IInv, TypeOK, AiredInv, TimePasses, Older
<1>5. /\ untold' \in 0 .. TriggerDelay + 2 * MaxLag + 1
      /\ advertised = gm => untold' = 0
      /\ advertised # gm => untold' <= untold + 1
    BY PeriodType DEF IInv, TypeOK, TimePasses, Older
<1>6. /\ asked' \in {NotAsked} \cup 0 .. 2 * MaxLag + 1
      /\ asked = NotAsked => asked' = NotAsked
      /\ asked # NotAsked => asked' \in 0 .. 2 * MaxLag + 1 /\ asked' <= asked + 1
    BY PeriodType DEF IInv, TypeOK, TimePasses, Older, NotAsked
<1>7. unheard' \in 0 .. Validity + 1 /\ unheard' <= unheard + 1
    BY ValidityType DEF IInv, TypeOK, TimePasses, Older
<1>8. TypeOK'
  <2>1. lag' \in 0 .. MaxLag /\ lag' <= sinceSend'
      BY <1>1, <1>2, PeriodType DEF IInv, TypeOK
  <2>2. trigger' \in BOOLEAN /\ due' \in BOOLEAN /\ lost' \in 0 .. MaxLost
      BY <1>1 DEF IInv, TypeOK
  <2>3. gm' \in GrandMasters /\ advertised' \in GrandMasters
      BY <1>1 DEF IInv, TypeOK
  <2>4. /\ sinceSend' \in 0 .. SendBound
        /\ sinceTrigger' \in 0 .. TriggerDelay + 2 * MaxLag + 1
        /\ aired' \in 0 .. Gap + 1
        /\ untold' \in 0 .. TriggerDelay + 2 * MaxLag + 1
        /\ asked' \in {NotAsked} \cup 0 .. 2 * MaxLag + 1
        /\ unheard' \in 0 .. Validity + 1
      BY <1>2, <1>3, <1>4, <1>5, <1>6, <1>7
  <2>5. QED
      BY <2>1, <2>2, <2>3, <2>4 DEF TypeOK
<1>9. AskedInv'
  <2>1. CASE asked = NotAsked
    <3>1. asked' = -1 /\ lag \in Nat /\ lag' = lag + 1
        BY <1>1, <1>6, <2>1, PeriodType DEF IInv, TypeOK, NotAsked
    <3>2. asked' <= lag' /\ asked' <= MaxLag + lag'
        BY <3>1, PeriodType
    <3>3. QED
        BY <3>1, <3>2 DEF AskedInv, NotAsked
  <2>2. CASE asked # NotAsked
    <3>1. asked \in 0 .. 2 * MaxLag + 1 /\ lag \in Nat /\ sinceSend \in 0 .. SendBound
        BY <2>2, PeriodType DEF IInv, TypeOK
    <3>2. asked' = IF asked < 2 * MaxLag + 1 THEN asked + 1 ELSE asked
        BY <2>2 DEF TimePasses, Older
    <3>3. /\ Period + asked <= sinceSend
          /\ (~due => asked <= lag) /\ (due => asked <= MaxLag + lag)
        BY <2>2 DEF IInv, AskedInv
    <3>4. Period + asked' <= sinceSend'
        BY <1>2, <3>1, <3>2, <3>3, PeriodType
    <3>5. (~due' => asked' <= lag') /\ (due' => asked' <= MaxLag + lag')
        BY <1>1, <3>1, <3>2, <3>3, PeriodType
    <3>6. QED
        BY <3>4, <3>5 DEF AskedInv
  <2>3. QED
      BY <2>1, <2>2
<1>10. NewsInv'
    BY <1>1, <1>3, <1>5, PeriodType DEF IInv, TypeOK, NewsInv
<1>11. AiredInv'
  <2>1. unheard' <= lost' * Gap + aired'
    <3>1. lost * Gap \in Nat /\ unheard \in Nat /\ aired \in Nat
        BY GapsType, ValidityType, PeriodType, AdpAssumption DEF IInv, TypeOK
    <3>2. QED
        BY <1>1, <1>4, <1>7, <3>1, ValidityType DEF IInv, AiredInv
  <2>2. QED
      BY <1>1, <1>2, <1>4, <2>1, PeriodType DEF IInv, TypeOK, AiredInv
<1>12. QED
    BY <1>8, <1>9, <1>10, <1>11 DEF IInv

LEMMA StutterInv == ASSUME IInv, UNCHANGED vars PROVE IInv'
BY DEF vars, timerVars, clockVars, netVars, IInv, TypeOK, AskedInv, NewsInv, AiredInv

\* The bounds on ages are kept by every action.
LEMMA InvHolds == Spec => []IInv
<1>1. IInv /\ [Next]_vars => IInv'
    BY SetGrandMasterInv, DiscoverInv, ReadClockInv, SendInv, NoSendInv, TimePassesInv,
       StutterInv DEF Next
<1>2. QED
    BY InitInv, <1>1, PTL DEF Spec

-----------------------------------------------------------------------------

\* The manager's members keep their types, and the age of the last send is
\* never less than that of the loop's time: the unsigned difference that
\* decides about periodic advertisements does not wrap.
THEOREM AdpTypeCorrect == Spec => []TypeOK
BY InvHolds, PTL DEF IInv

\* A listener that loses at most MaxLost advertisements in a row never takes
\* the entity for gone, whatever triggers and discover messages come.
THEOREM StaysKnownHolds == Spec => []StaysKnown
<1>1. IInv => StaysKnown
    BY HeardInTime DEF IInv, StaysKnown
<1>2. QED
    BY InvHolds, <1>1, PTL

\* A new grandmaster is told in a second and two turns of the loop.
THEOREM NewsToldHolds == Spec => []NewsTold
<1>1. IInv => NewsTold
    BY PeriodType DEF IInv, TypeOK, NewsInv, NewsTold
<1>2. QED
    BY InvHolds, <1>1, PTL

\* A discover message is answered in two turns of the loop.
THEOREM DiscoverAnsweredHolds == Spec => []DiscoverAnswered
<1>1. IInv => DiscoverAnswered
    BY PeriodType DEF IInv, TypeOK, AskedInv, DiscoverAnswered, NotAsked
<1>2. QED
    BY InvHolds, <1>1, PTL
=============================================================================
