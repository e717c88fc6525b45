------------------------ MODULE ControllerEntityProofs ------------------------
(***************************************************************************)
(* Proofs about the controller entity's commands, for any targets, command *)
(* types, width of the sequence id and time-out.                           *)
(***************************************************************************)
EXTENDS ControllerEntity, TLAPS

LEMMA NextSeqType == TypeOK => NextSeq \in 0 .. SeqCount - 1
BY ControllerAssumption DEF TypeOK, NextSeq

LEMMA AgedType == TypeOK => Aged(responses) \in SUBSET Response
BY ControllerAssumption DEF TypeOK, Aged, Response

\* What sendCommand does keeps the types.
LEMMA SendType ==
    ASSUME TypeOK, NEW target \in Targets, NEW type \in Types, NEW track \in BOOLEAN,
           Send(target, type, track)
    PROVE  TypeOK'
<1>1. responses' \in SUBSET Response
    BY NextSeqType, AgedType, ControllerAssumption DEF Send, Response
<1>2. seq' \in 0 .. SeqCount - 1
    BY NextSeqType DEF Send
<1>3. /\ sentType' \in Types \cup {"EXPANSION"} /\ sentTarget' \in Targets \cup {"NOBODY"}
      /\ elapsed' \in 0 .. ElapsedBound
    BY ControllerAssumption, ClockAssumption DEF Send, TypeOK, commandVars, ElapsedBound
<1>4. fate' \in {"none", "pending", "answered", "expired"} /\ UNCHANGED <<lag, due>>
    BY DEF Send, TypeOK, commandVars, clockVars
<1>5. QED
    BY <1>1, <1>2, <1>3, <1>4 DEF TypeOK

\* The members and the responses in transit keep their types.
THEOREM ControllerTypeCorrect == Spec => []TypeOK
<1>1. Init => TypeOK
  <2> SUFFICES ASSUME Init PROVE TypeOK
      OBVIOUS
  <2>1. seq \in 0 .. SeqCount - 1 /\ elapsed \in 0 .. ElapsedBound /\ lag \in 0 .. MaxLag
      BY ControllerAssumption, ClockAssumption DEF Init, ElapsedBound
  <2>2. QED
      BY <2>1 DEF Init, TypeOK
<1>2. TypeOK /\ [Next]_vars => TypeOK'
  <2> SUFFICES ASSUME TypeOK, [Next]_vars PROVE TypeOK'
      OBVIOUS
  <2>1. ASSUME NEW target \in Targets, NEW type \in Types, SendCommand(target, type)
        PROVE  TypeOK'
      BY <2>1, SendType DEF SendCommand
  <2>2. ASSUME NEW target \in Targets, NEW wait \in BOOLEAN, SendSetControl(target, wait)
        PROVE  TypeOK'
      BY <2>2, SendType, ControllerAssumption DEF SendSetControl
  <2>3. CASE SendUnsolicitedResponses
      BY <2>3, NextSeqType, AgedType DEF SendUnsolicitedResponses, commandVars, clockVars, TypeOK
  <2>4. ASSUME NEW r \in responses, ReceivedAEMResponse(r) PROVE TypeOK'
      BY <2>4 DEF ReceivedAEMResponse, Forget, clockVars, TypeOK
  <2>5. ASSUME NEW r \in responses, Lose(r) PROVE TypeOK'
      BY <2>5 DEF Lose, commandVars, clockVars, TypeOK
  <2>6. CASE ReadClock
      BY <2>6, ClockAssumption DEF ReadClock, commandVars, TypeOK
  <2>7. CASE Tick
      BY <2>7 DEF Tick, GiveUp, commandVars, TypeOK
  <2>8. CASE TimePasses
    <3>1. elapsed' \in 0 .. ElapsedBound /\ lag' \in 0 .. MaxLag
        BY <2>8, ControllerAssumption, ClockAssumption
        DEF TimePasses, Older, ElapsedBound, TypeOK
    <3>2. QED
        BY <2>8, <3>1 DEF TimePasses, TypeOK
  <2>9. CASE UNCHANGED vars
      BY <2>9 DEF vars, commandVars, clockVars, TypeOK
  <2>10. QED
      BY <2>1, <2>2, <2>3, <2>4, <2>5, <2>6, <2>7, <2>8, <2>9 DEF Next
<1>3. QED
    BY <1>1, <1>2, PTL DEF Spec

-----------------------------------------------------------------------------
(* A response is expected only while the tracked command is pending: the   *)
(* time-out clears the type, an accepted response clears the target.       *)

ExpectedPending ==
    sentType \in Types /\ sentTarget \in Targets => fate = "pending"

\* A tracked command is answered at most once, and never after its time-out.
THEOREM AnsweredOnceHolds == Spec => AnsweredOnce
<1>1. Init => ExpectedPending
    BY ControllerAssumption DEF Init, ExpectedPending
<1>2. ExpectedPending /\ [Next]_vars => ExpectedPending'
  <2> SUFFICES ASSUME ExpectedPending, [Next]_vars PROVE ExpectedPending'
      OBVIOUS
  <2> USE ControllerAssumption DEF ExpectedPending
  <2>1. ASSUME NEW target \in Targets, NEW type \in Types, SendCommand(target, type)
        PROVE  ExpectedPending'
      BY <2>1 DEF SendCommand, Send, commandVars
  <2>2. ASSUME NEW target \in Targets, NEW wait \in BOOLEAN, SendSetControl(target, wait)
        PROVE  ExpectedPending'
      BY <2>2 DEF SendSetControl, Send, commandVars
  <2>3. CASE SendUnsolicitedResponses
      BY <2>3 DEF SendUnsolicitedResponses, commandVars
  <2>4. ASSUME NEW r \in responses, ReceivedAEMResponse(r) PROVE ExpectedPending'
      BY <2>4 DEF ReceivedAEMResponse, Forget
  <2>5. ASSUME NEW r \in responses, Lose(r) PROVE ExpectedPending'
      BY <2>5 DEF Lose, commandVars
  <2>6. CASE Tick
      BY <2>6 DEF Tick, GiveUp, commandVars
  <2>7. CASE ReadClock \/ TimePasses
      BY <2>7 DEF ReadClock, TimePasses, commandVars
  <2>8. CASE UNCHANGED vars
      BY <2>8 DEF vars, commandVars
  <2>9. QED
      BY <2>1, <2>2, <2>3, <2>4, <2>5, <2>6, <2>7, <2>8 DEF Next
<1>3. TypeOK /\ ExpectedPending /\ [Next]_vars => [Accepts => fate = "pending"]_vars
    BY DEF TypeOK, ExpectedPending, Accepts, Expected, Response
<1>4. QED
    BY <1>1, <1>2, <1>3, ControllerTypeCorrect, PTL DEF Spec, AnsweredOnce

-----------------------------------------------------------------------------
(* A response's sequence id and its age add up to the current sequence id,  *)
(* or to that plus one turn of the counter.  As the age is less than a      *)
(* turn, the id of an older response is not the current one.                *)

LEMMA NextSeqValue ==
    ASSUME TypeOK
    PROVE  NextSeq = IF seq + 1 = SeqCount THEN 0 ELSE seq + 1
<1>1. CASE seq + 1 = SeqCount
    BY <1>1, ControllerAssumption DEF TypeOK, NextSeq
<1>2. CASE seq + 1 # SeqCount
  <2>1. seq + 1 \in 0 .. SeqCount - 1
      BY <1>2, ControllerAssumption DEF TypeOK
  <2>2. QED
      BY <1>2, <2>1, ControllerAssumption DEF NextSeq
<1>3. QED
    BY <1>1, <1>2

SeqAge == \A r \in responses : r.seq + r.age \in {seq, seq + SeqCount}

\* Using up a sequence id makes every response one older.
LEMMA AgedSeqAge ==
    ASSUME TypeOK, SeqAge, NEW r \in Aged(responses)
    PROVE  r.seq + r.age \in {NextSeq, NextSeq + SeqCount}
<1>1. PICK q \in responses : q.age < SeqCount - 1 /\ r = [q EXCEPT !.age = @ + 1]
    BY DEF Aged
<1>2. q \in Response
    BY DEF TypeOK
<1>3. r.seq = q.seq /\ r.age = q.age + 1
    BY <1>1, <1>2 DEF Response
<1>4. q.seq \in 0 .. SeqCount - 1 /\ q.age \in 0 .. SeqCount - 1 /\ seq \in 0 .. SeqCount - 1
    BY <1>2 DEF Response, TypeOK
<1>5. q.seq + q.age = seq \/ q.seq + q.age = seq + SeqCount
    BY DEF SeqAge
<1>6. QED
    BY <1>1, <1>3, <1>4, <1>5, NextSeqValue, ControllerAssumption

LEMMA SendSeqAge ==
    ASSUME TypeOK, SeqAge, NEW target \in Targets, NEW type \in Types,
           NEW track \in BOOLEAN, Send(target, type, track)
    PROVE  SeqAge'
<1>1. SUFFICES ASSUME NEW r \in responses'
               PROVE  r.seq + r.age \in {NextSeq, NextSeq + SeqCount}
    BY DEF Send, SeqAge
<1>2. CASE r \in Aged(responses)
    BY <1>2, AgedSeqAge
<1>3. CASE r = [target |-> target, type |-> type, seq |-> NextSeq, age |-> 0]
    BY <1>3, NextSeqType
<1>4. QED
    BY <1>2, <1>3 DEF Send

\* The response that is accepted answers the command that was sent last.
THEOREM AcceptsLatestHolds == Spec => AcceptsLatest
<1>1. Init => SeqAge
    BY DEF Init, SeqAge
<1>2. TypeOK /\ SeqAge /\ [Next]_vars => SeqAge'
  <2> SUFFICES ASSUME TypeOK, SeqAge, [Next]_vars PROVE SeqAge'
      OBVIOUS
  <2>1. ASSUME NEW target \in Targets, NEW type \in Types, SendCommand(target, type)
        PROVE  SeqAge'
      BY <2>1, SendSeqAge DEF SendCommand
  <2>2. ASSUME NEW target \in Targets, NEW wait \in BOOLEAN, SendSetControl(target, wait)
        PROVE  SeqAge'
      BY <2>2, SendSeqAge, ControllerAssumption DEF SendSetControl
  <2>3. CASE SendUnsolicitedResponses
      BY <2>3, AgedSeqAge DEF SendUnsolicitedResponses, SeqAge
  <2>4. ASSUME NEW r \in responses, ReceivedAEMResponse(r) PROVE SeqAge'
      BY <2>4 DEF ReceivedAEMResponse, SeqAge
  <2>5. ASSUME NEW r \in responses, Lose(r) PROVE SeqAge'
      BY <2>5 DEF Lose, SeqAge
  <2>6. CASE ReadClock \/ Tick \/ TimePasses \/ UNCHANGED vars
      BY <2>6 DEF ReadClock, Tick, TimePasses, vars, SeqAge
  <2>7. QED
      BY <2>1, <2>2, <2>3, <2>4, <2>5, <2>6 DEF Next
<1>3. TypeOK /\ SeqAge =>
        (\A r \in responses : ReceivedAEMResponse(r) /\ Expected(r) => r.age = 0)
  <2> SUFFICES ASSUME TypeOK, SeqAge, NEW r \in responses, Expected(r) PROVE r.age = 0
      OBVIOUS
  <2>1. r.age \in 0 .. SeqCount - 1 /\ seq \in 0 .. SeqCount - 1 /\ r.seq = seq
      BY DEF TypeOK, Response, Expected
  <2>2. r.seq + r.age = seq \/ r.seq + r.age = seq + SeqCount
      BY DEF SeqAge
  <2>3. QED
      BY <2>1, <2>2, ControllerAssumption
<1>4. QED
    BY <1>1, <1>2, <1>3, ControllerTypeCorrect, PTL DEF Spec, AcceptsLatest
=============================================================================
