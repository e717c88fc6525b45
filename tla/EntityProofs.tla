---------------------------- MODULE EntityProofs ----------------------------
(***************************************************************************)
(* Proofs about ownership, locks and notifications, for any controllers,   *)
(* room in the list, time-outs, width of the clock and turn of the main    *)
(* loop.                                                                   *)
(*                                                                         *)
(* Ownership and the list need each a relation between what the entity     *)
(* keeps and what it has told the controllers; the time-outs need what an  *)
(* age is at most before and after the loop has read the clock.            *)
(***************************************************************************)
EXTENDS Entity, TLAPS

-----------------------------------------------------------------------------
(* What wasTimeOutHit decides, for any width of the clock that is wide      *)
(* enough for the ages that occur.                                          *)

\* A stamp that is not younger than the loop's time is judged by the time
\* between the two.
LEMMA NotYounger ==
    ASSUME NEW age \in Nat, NEW loop \in Nat, NEW timeout \in Nat,
           loop <= age, age - loop < ClockSize
    PROVE  WasTimeOutHit(age, loop, timeout) <=> age > timeout + loop
<1>1. (age - loop) % ClockSize = age - loop
    BY ClockAssumption, SMT
<1>2. QED
    BY <1>1 DEF WasTimeOutHit

\* A stamp that is not hit is at most timeout older than the loop's time; it
\* may be younger.
LEMMA NotHit ==
    ASSUME NEW age \in Nat, NEW loop \in Nat, NEW timeout \in Nat,
           age - loop < ClockSize, ~WasTimeOutHit(age, loop, timeout)
    PROVE  age <= timeout + loop
<1>1. CASE loop <= age
    BY <1>1, NotYounger
<1>2. CASE age < loop
    BY <1>2
<1>3. QED
    BY <1>1, <1>2

-----------------------------------------------------------------------------
(* The list.                                                                *)

Distinct(l) == \A i, j \in 1 .. l.count : l.slots[i] = l.slots[j] => i = j

\* A controller is added once, and only if there is room; a list that does
\* not count stays as long as it is.
LEMMA AddKeeps ==
    ASSUME NEW l \in List, NEW c \in Controllers, NEW counts \in BOOLEAN, Distinct(l),
           NEW m, m = AddController(l, c, counts)
    PROVE  /\ m \in List
           /\ counts => /\ Distinct(m)
                        /\ Listed(m) = IF AddControllerAnswer(l, c)
                                       THEN Listed(l) \cup {c} ELSE Listed(l)
           /\ ~counts => m.count = l.count
<1>1. /\ l.count \in 0 .. MaxControllers /\ MaxControllers \in Nat
      /\ l.slots \in [1 .. MaxControllers -> Controllers \cup {Nobody}]
    BY ListAssumption DEF List
<1>2. CASE FindController(l, c) \/ ~HasRoom(l)
  <2>1. m = l
      BY <1>2 DEF AddController
  <2>2. c \in Listed(l) \/ ~AddControllerAnswer(l, c)
      BY <1>2 DEF AddControllerAnswer, FindController
  <2>3. QED
      BY <2>1, <2>2 DEF AddControllerAnswer, FindController
<1>3. CASE ~FindController(l, c) /\ HasRoom(l)
  <2> DEFINE n == l.count + 1
             s == [l.slots EXCEPT ![n] = c]
  <2>1. n \in 1 .. MaxControllers
      BY <1>1, <1>3 DEF HasRoom
  <2>2. /\ s \in [1 .. MaxControllers -> Controllers \cup {Nobody}]
        /\ s[n] = c /\ \A i \in 1 .. l.count : s[i] = l.slots[i]
      BY <1>1, <2>1
  <2>3. m = [l EXCEPT !.slots[n] = c, !.count = IF counts THEN @ + 1 ELSE @]
      BY <1>3 DEF AddController
  <2>4. m = [count |-> IF counts THEN n ELSE l.count, slots |-> s]
      BY <2>3 DEF List
  <2>5. m \in List
      BY <1>1, <2>1, <2>2, <2>4 DEF List
  <2>6. ASSUME counts PROVE Distinct(m) /\ Listed(m) = Listed(l) \cup {c}
    <3>1. m.count = n /\ m.slots = s
        BY <2>4, <2>6
    <3>2. 1 .. n = (1 .. l.count) \cup {n}
        BY <1>1
    <3>3. \A i \in 1 .. l.count : s[i] = l.slots[i] /\ s[i] # c
        BY <1>3, <2>2 DEF FindController, Listed
    <3>4. Distinct(m)
        BY <2>2, <3>1, <3>2, <3>3 DEF Distinct
    <3>5. Listed(m) = Listed(l) \cup {c}
        BY <2>2, <3>1, <3>2, <3>3 DEF Listed
    <3>6. QED
        BY <3>4, <3>5
  <2>7. ~counts => m.count = l.count
      BY <2>4
  <2>8. AddControllerAnswer(l, c)
      BY <1>3 DEF AddControllerAnswer
  <2>9. QED
      BY <2>5, <2>6, <2>7, <2>8
<1>4. QED
    BY <1>2, <1>3

\* A controller that is removed is gone, all others are still listed.
LEMMA RemoveKeeps ==
    ASSUME NEW l \in List, NEW c \in Controllers, Distinct(l),
           NEW m, m = RemoveController(l, c)
    PROVE  /\ m \in List /\ Distinct(m)
           /\ Listed(m) = Listed(l) \ {c}
           /\ m.count <= l.count
<1>1. /\ l.count \in 0 .. MaxControllers /\ MaxControllers \in Nat
      /\ l.slots \in [1 .. MaxControllers -> Controllers \cup {Nobody}]
    BY ListAssumption DEF List
<1>2. CASE ~FindController(l, c)
    BY <1>1, <1>2 DEF RemoveController, FindController
<1>3. CASE FindController(l, c)
  <2> DEFINE First(j) == l.slots[j] = c /\ \A k \in 1 .. j - 1 : l.slots[k] # c
             i == CHOOSE j \in 1 .. l.count : First(j)
  <2>1. PICK j \in 1 .. l.count : l.slots[j] = c
      BY <1>3 DEF FindController, Listed
  <2>2. First(j)
    <3>1. \A k \in 1 .. j - 1 : k \in 1 .. l.count /\ k # j
        BY <1>1, <2>1
    <3>2. QED
        BY <2>1, <3>1 DEF Distinct
  <2>3. i \in 1 .. l.count /\ First(i)
      BY <2>1, <2>2
  <2> HIDE DEF i
  <2> DEFINE n == l.count
             s == IF i = n THEN [l.slots EXCEPT ![i] = Nobody]
                  ELSE [l.slots EXCEPT ![i] = l.slots[n], ![n] = c]
  <2>4. m = [count |-> n - 1, slots |-> s]
      BY <1>3 DEF RemoveController, i
  <2>5. n \in 1 .. MaxControllers /\ i \in 1 .. MaxControllers /\ i <= n
      BY <1>1, <2>3
  <2>6. l.slots[i] = c /\ \A k \in 1 .. n : k # i => l.slots[k] # c
      BY <2>3 DEF Distinct
  <2>7. /\ s \in [1 .. MaxControllers -> Controllers \cup {Nobody}]
        /\ \A k \in 1 .. n - 1 : s[k] = IF k = i THEN l.slots[n] ELSE l.slots[k]
      BY <1>1, <2>5
  <2> HIDE DEF s
  <2>8. m \in List
      BY <1>1, <2>4, <2>5, <2>7 DEF List
  <2>9. Distinct(m)
    <3> SUFFICES ASSUME NEW a \in 1 .. n - 1, NEW b \in 1 .. n - 1, s[a] = s[b]
                 PROVE  a = b
        BY <2>4 DEF Distinct
    <3>1. a \in 1 .. n /\ b \in 1 .. n /\ n \in 1 .. n /\ a # n /\ b # n
        BY <2>5
    <3>2. CASE a = i
        BY <2>7, <3>1, <3>2 DEF Distinct
    <3>3. CASE a # i
        BY <2>7, <3>1, <3>3 DEF Distinct
    <3>4. QED
        BY <3>2, <3>3
  <2>10. Listed(m) = Listed(l) \ {c}
    <3>1. Listed(m) = {s[k] : k \in 1 .. n - 1}
        BY <2>4 DEF Listed
    <3>2. ASSUME NEW k \in 1 .. n - 1 PROVE s[k] \in Listed(l) \ {c}
      <4>1. k \in 1 .. n /\ n \in 1 .. n /\ k # n
          BY <2>5
      <4>2. CASE k = i
          BY <2>6, <2>7, <4>1, <4>2 DEF Listed
      <4>3. CASE k # i
          BY <2>6, <2>7, <4>1, <4>3 DEF Listed
      <4>4. QED
          BY <4>2, <4>3
    <3>3. ASSUME NEW d \in Listed(l) \ {c} PROVE \E k \in 1 .. n - 1 : s[k] = d
      <4>1. PICK k \in 1 .. n : l.slots[k] = d
          BY DEF Listed
      <4>2. k # i
          BY <2>6, <4>1
      <4>3. CASE k = n
        <5>1. i \in 1 .. n - 1
            BY <2>3, <2>5, <4>2, <4>3
        <5>2. QED
            BY <2>7, <4>1, <4>3, <5>1
      <4>4. CASE k # n
        <5>1. k \in 1 .. n - 1
            BY <2>5, <4>4
        <5>2. QED
            BY <2>7, <4>1, <4>2, <5>1
      <4>5. QED
          BY <4>3, <4>4
    <3>4. QED
        BY <3>1, <3>2, <3>3
  <2>11. QED
      BY <2>4, <2>5, <2>8, <2>9, <2>10
<1>4. QED
    BY <1>2, <1>3

-----------------------------------------------------------------------------
(* The invariant.                                                           *)

\* An age is kept only while there is something to time out.  A tick that
\* has left it has seen that it is young; until the next tick comes, the
\* loop's time gets older and is read again once.
AgesInv ==
    /\ locked = Nobody => lockAge = 0
    /\ tracked = "EXPANSION" => trackedAge = 0
    /\ ~due => lockAge <= LockTimeout + lag /\ trackedAge <= CommandTimeout + lag
    /\ due => /\ lockAge <= LockTimeout + MaxLag + lag
              /\ trackedAge <= CommandTimeout + MaxLag + lag

\* A list that counts holds those that were told they are registered, once
\* each; one that does not count stays empty.
ListInv ==
    /\ Distinct(list)
    /\ counting => subscribers = Listed(list)
    /\ ~counting => list.count = 0

IInv == TypeOK /\ OneOwner /\ AgesInv /\ ListInv

LEMMA NobodyIsNoController == Nobody \notin Controllers
BY ListAssumption DEF Nobody

LEMMA BoundsType ==
    /\ LockTimeout \in Nat /\ CommandTimeout \in Nat
    /\ MaxLag \in Nat /\ MaxLag >= 1 /\ ClockSize \in Nat
    /\ LockBound = LockTimeout + 2 * MaxLag /\ CommandBound = CommandTimeout + 2 * MaxLag
    /\ LockBound + MaxLag < ClockSize /\ CommandBound + MaxLag < ClockSize
    /\ Lists \subseteq BOOLEAN
BY EntityAssumption, ClockAssumption DEF LockBound, CommandBound

LEMMA ToldType ==
    /\ NoneTold \in [Controllers -> 0 .. 2]
    /\ \A b \in BOOLEAN : [c \in Controllers |-> Copies(c, b)] \in [Controllers -> 0 .. 2]
BY DEF NoneTold, Copies

\* An age that no tick has found to be over its time-out.
LEMMA AgesBelow ==
    ASSUME TypeOK
    PROVE  /\ ~WasTimeOutHit(lockAge, lag, LockTimeout) => lockAge <= LockTimeout + lag
           /\ ~WasTimeOutHit(trackedAge, lag, CommandTimeout) =>
                  trackedAge <= CommandTimeout + lag
<1>1. /\ lockAge \in Nat /\ lag \in Nat /\ lockAge - lag < ClockSize
      /\ trackedAge \in Nat /\ trackedAge - lag < ClockSize
    BY BoundsType DEF TypeOK
<1>2. QED
    BY <1>1, NotHit, BoundsType

LEMMA InitInv == Init => IInv
<1> SUFFICES ASSUME Init PROVE IInv
    OBVIOUS
<1>1. EmptyList \in List /\ EmptyList.count = 0
    BY ListAssumption DEF EmptyList, List
<1>2. TypeOK
  <2>1. /\ lockAge \in 0 .. LockBound + 1 /\ trackedAge \in 0 .. CommandBound + 1
        /\ lag \in 0 .. MaxLag
      BY BoundsType DEF Init
  <2>2. told \in [Controllers -> 0 .. 2]
      BY ToldType DEF Init
  <2>3. QED
      BY <1>1, <2>1, <2>2 DEF Init, TypeOK
<1>3. OneOwner
    BY DEF Init, OneOwner
<1>4. AgesInv
    BY BoundsType DEF Init, AgesInv
<1>5. ListInv
  <2>1. list.count = 0 /\ subscribers = {}
      BY <1>1 DEF Init
  <2>2. Distinct(list) /\ Listed(list) = {}
      BY <2>1 DEF Distinct, Listed
  <2>3. QED
      BY <2>1, <2>2 DEF ListInv
<1>6. QED
    BY <1>2, <1>3, <1>4, <1>5 DEF IInv

-----------------------------------------------------------------------------
(* One lemma for each group of actions that change the same variables.     *)

\* Commands and events that change nothing but who is told.
LEMMA TellingInv ==
    ASSUME IInv, told' \in [Controllers -> 0 .. 2],
           UNCHANGED <<heldVars, commandVars, listVars, clockVars, setup>>
    PROVE  IInv'
BY DEF heldVars, commandVars, listVars, clockVars, setup, IInv, TypeOK, OneOwner, AgesInv, ListInv

\* The tracked command starts with no age.
LEMMA TrackInv ==
    ASSUME IInv, NEW type \in {"CONTROLLER_AVAILABLE", "OTHER"}, Track(type),
           told' \in [Controllers -> 0 .. 2],
           UNCHANGED <<heldVars, listVars, clockVars, setup>>
    PROVE  IInv'
<1>1. tracked' = type /\ trackedAge' = 0
    BY DEF Track
<1>2. UNCHANGED <<acquired, owners, locked, lockAge, list, subscribers, lag, due, derived,
                  counting>>
    BY DEF heldVars, listVars, clockVars, setup
<1>3. TypeOK'
    BY <1>1, <1>2, BoundsType DEF IInv, TypeOK
<1>4. OneOwner' /\ ListInv'
    BY <1>2 DEF IInv, OneOwner, ListInv
<1>5. AgesInv'
    BY <1>1, <1>2, BoundsType DEF IInv, TypeOK, AgesInv
<1>6. QED
    BY <1>3, <1>4, <1>5 DEF IInv

\* An owner comes or goes.
LEMMA OwnerInv ==
    ASSUME IInv, NEW c \in Controllers, GrantAcquire(c) \/ ReceiveReleaseCommand(c),
           told' \in [Controllers -> 0 .. 2],
           UNCHANGED <<locked, lockAge, commandVars, listVars, clockVars, setup>>
    PROVE  IInv'
<1>1. UNCHANGED <<locked, lockAge, tracked, trackedAge, list, subscribers, lag, due, derived,
                  counting>>
    BY DEF commandVars, listVars, clockVars, setup
<1>2. acquired' \in Controllers \cup {Nobody} /\ owners' \subseteq Controllers
    BY DEF IInv, TypeOK, GrantAcquire, ReceiveReleaseCommand
<1>3. OneOwner'
  <2>1. CASE GrantAcquire(c)
      BY <1>1, <2>1, NobodyIsNoController DEF IInv, TypeOK, OneOwner, GrantAcquire
  <2>2. CASE ReceiveReleaseCommand(c)
      BY <1>1, <2>2, NobodyIsNoController
      DEF IInv, TypeOK, OneOwner, ReceiveReleaseCommand, MayRelease
  <2>3. QED
      BY <2>1, <2>2
<1>4. TypeOK' /\ AgesInv' /\ ListInv'
    BY <1>1, <1>2 DEF IInv, TypeOK, AgesInv, ListInv
<1>5. QED
    BY <1>3, <1>4 DEF IInv

LEMMA AcquireInv ==
    ASSUME IInv, NEW c \in Controllers, ReceiveAcquireEntityCommand(c) PROVE IInv'
<1>1. /\ told' \in [Controllers -> 0 .. 2]
      /\ UNCHANGED <<locked, lockAge, listVars, clockVars, setup>>
    BY ToldType DEF ReceiveAcquireEntityCommand, OnlyReply
<1>2. CASE GrantAcquire(c)
    BY <1>1, <1>2, OwnerInv DEF GrantAcquire
<1>3. CASE ContestAcquire(c)
  <2>1. Track("CONTROLLER_AVAILABLE") /\ UNCHANGED heldVars
      BY <1>1, <1>3 DEF ContestAcquire, heldVars
  <2>2. QED
      BY <1>1, <2>1, TrackInv
<1>4. QED
    BY <1>2, <1>3 DEF ReceiveAcquireEntityCommand

LEMMA ReleaseInv == ASSUME IInv, NEW c \in Controllers, ReceiveReleaseCommand(c) PROVE IInv'
BY OwnerInv, ToldType DEF ReceiveReleaseCommand, OnlyReply

\* A lock starts with no age or is left alone; an unlocked entity has none.
LEMMA LockInv ==
    ASSUME IInv, NEW c \in Controllers,
           ReceiveLockEntityCommand(c) \/ ReceiveUnlockEntityCommand(c)
    PROVE  IInv'
<1>1. /\ UNCHANGED <<acquired, owners, tracked, trackedAge, list, subscribers, lag, due, derived,
                     counting>>
      /\ told' \in [Controllers -> 0 .. 2]
    BY ToldType DEF ReceiveLockEntityCommand, ReceiveUnlockEntityCommand, OnlyReply, commandVars,
                    listVars, clockVars, setup
<1>2. /\ locked' \in Controllers \cup {Nobody}
      /\ lockAge' = lockAge \/ lockAge' = 0
      /\ locked' = Nobody => lockAge' = 0
    BY NobodyIsNoController DEF IInv, AgesInv, ReceiveLockEntityCommand, ReceiveUnlockEntityCommand
<1>3. TypeOK'
    BY <1>1, <1>2, BoundsType DEF IInv, TypeOK
<1>4. OneOwner' /\ ListInv'
    BY <1>1 DEF IInv, OneOwner, ListInv
<1>5. AgesInv'
  <2>1. CASE lockAge' = lockAge
      BY <1>1, <1>2, <2>1 DEF IInv, AgesInv
  <2>2. CASE lockAge' = 0
      BY <1>1, <1>2, <2>2, BoundsType DEF IInv, TypeOK, AgesInv
  <2>3. QED
      BY <1>2, <2>1, <2>2
<1>6. QED
    BY <1>3, <1>4, <1>5 DEF IInv

\* The list follows what the controllers are told.
LEMMA RegisterInv ==
    ASSUME IInv, NEW c \in Controllers,
           ReceiveRegisterCommand(c) \/ ReceiveDeRegisterCommand(c)
    PROVE  IInv'
<1>1. /\ UNCHANGED <<acquired, owners, locked, lockAge, tracked, trackedAge, lag, due, derived,
                     counting>>
      /\ told' \in [Controllers -> 0 .. 2]
    BY ToldType DEF ReceiveRegisterCommand, ReceiveDeRegisterCommand, OnlyReply, heldVars,
                    commandVars, clockVars, setup
<1>2. /\ list \in List /\ subscribers \subseteq Controllers /\ counting \in BOOLEAN
      /\ Distinct(list)
    BY BoundsType DEF IInv, TypeOK, ListInv
<1>3. list' \in List /\ subscribers' \subseteq Controllers /\ ListInv'
  <2>1. CASE ReceiveRegisterCommand(c)
    <3>1. /\ list' = AddController(list, c, counting)
          /\ subscribers' = IF AddControllerAnswer(list, c) THEN subscribers \cup {c}
                            ELSE subscribers
        BY <2>1 DEF ReceiveRegisterCommand
    <3>2. /\ list' \in List
          /\ counting => /\ Distinct(list')
                         /\ Listed(list') = IF AddControllerAnswer(list, c)
                                            THEN Listed(list) \cup {c} ELSE Listed(list)
          /\ ~counting => list'.count = list.count
        BY <1>2, <3>1, AddKeeps
    <3>3. list'.count = 0 => Distinct(list')
        BY DEF Distinct
    <3>4. subscribers' \subseteq Controllers
        BY <1>2, <3>1
    <3>5. QED
        BY <1>1, <3>1, <3>2, <3>3, <3>4 DEF IInv, ListInv, Distinct, Listed
  <2>2. CASE ReceiveDeRegisterCommand(c)
    <3>1. list' = RemoveController(list, c) /\ subscribers' = subscribers \ {c}
        BY <2>2 DEF ReceiveDeRegisterCommand
    <3>2. /\ list' \in List /\ Distinct(list')
          /\ Listed(list') = Listed(list) \ {c} /\ list'.count <= list.count
        BY <1>2, <3>1, RemoveKeeps
    <3>3. list.count = 0 => list'.count = 0
        BY <1>2, <3>2, ListAssumption DEF List
    <3>4. QED
        BY <1>1, <1>2, <3>1, <3>2, <3>3 DEF IInv, ListInv, Distinct, Listed
  <2>3. QED
      BY <2>1, <2>2
<1>4. TypeOK' /\ OneOwner' /\ AgesInv'
    BY <1>1, <1>3 DEF IInv, TypeOK, OneOwner, AgesInv
<1>5. QED
    BY <1>3, <1>4 DEF IInv

LEMMA ReadClockInv == ASSUME IInv, ReadClock PROVE IInv'
<1>1. UNCHANGED <<acquired, owners, locked, lockAge, tracked, trackedAge, list, subscribers, told,
                  derived, counting>>
    BY DEF ReadClock, heldVars, commandVars, listVars, setup
<1>2. ~due /\ due' = TRUE /\ lag' = 0 /\ lag \in 0 .. MaxLag
    BY DEF ReadClock, IInv, TypeOK
<1>3. TypeOK' /\ OneOwner' /\ ListInv'
    BY <1>1, <1>2, BoundsType DEF IInv, TypeOK, OneOwner, ListInv
<1>4. AgesInv'
    BY <1>1, <1>2, BoundsType DEF IInv, TypeOK, AgesInv
<1>5. QED
    BY <1>3, <1>4 DEF IInv

\* A tick ends what has timed out and has seen that the rest is young.
LEMMA TickInv == ASSUME IInv, Tick PROVE IInv'
<1>1. /\ due' = FALSE
      /\ UNCHANGED <<list, subscribers, lag, derived, counting>>
      /\ told' \in [Controllers -> 0 .. 2]
    BY ToldType DEF Tick, listVars, setup
<1>2. \/ acquired' = Nobody /\ owners' = {}
      \/ UNCHANGED <<acquired, owners>>
    BY DEF Tick
<1>3. /\ \/ locked' = Nobody /\ lockAge' = 0
         \/ UNCHANGED <<locked, lockAge>>
      /\ lockAge' <= LockTimeout + lag
  <2>1. CASE OwnerTimedOut \/ LockTimedOut
      BY <2>1, BoundsType DEF Tick, IInv, TypeOK
  <2>2. CASE ~(OwnerTimedOut \/ LockTimedOut)
    <3>1. UNCHANGED <<locked, lockAge>>
        BY <2>2 DEF Tick
    <3>2. CASE locked = Nobody
        BY <3>1, <3>2, BoundsType DEF IInv, TypeOK, AgesInv
    <3>3. CASE locked # Nobody
        BY <2>2, <3>1, <3>3, AgesBelow DEF IInv, LockTimedOut
    <3>4. QED
        BY <3>1, <3>2, <3>3
  <2>3. QED
      BY <2>1, <2>2
<1>4. /\ \/ tracked' = "EXPANSION" /\ trackedAge' = 0
         \/ UNCHANGED <<tracked, trackedAge>>
      /\ trackedAge' <= CommandTimeout + lag
  <2>1. CASE CommandTimedOut
      BY <2>1, BoundsType DEF Tick, IInv, TypeOK
  <2>2. CASE ~CommandTimedOut
    <3>1. UNCHANGED <<tracked, trackedAge>>
        BY <2>2 DEF Tick, commandVars
    <3>2. CASE tracked = "EXPANSION"
        BY <3>1, <3>2, BoundsType DEF IInv, TypeOK, AgesInv
    <3>3. CASE tracked # "EXPANSION"
        BY <2>2, <3>1, <3>3, AgesBelow DEF IInv, CommandTimedOut
    <3>4. QED
        BY <3>1, <3>2, <3>3
  <2>3. QED
      BY <2>1, <2>2
<1>5. TypeOK'
  <2>1. acquired' \in Controllers \cup {Nobody} /\ owners' \subseteq Controllers
      BY <1>2 DEF IInv, TypeOK
  <2>2. locked' \in Controllers \cup {Nobody} /\ lockAge' \in 0 .. LockBound + 1
      BY <1>3, BoundsType DEF IInv, TypeOK
  <2>3. /\ tracked' \in {"EXPANSION", "CONTROLLER_AVAILABLE", "OTHER"}
        /\ trackedAge' \in 0 .. CommandBound + 1
      BY <1>4, BoundsType DEF IInv, TypeOK
  <2>4. QED
      BY <1>1, <2>1, <2>2, <2>3 DEF IInv, TypeOK
<1>6. OneOwner'
    BY <1>1, <1>2 DEF IInv, OneOwner
<1>7. AgesInv'
  <2>1. /\ locked' = Nobody => lockAge' = 0
        /\ tracked' = "EXPANSION" => trackedAge' = 0
      BY <1>3, <1>4 DEF IInv, AgesInv
  <2>2. QED
      BY <1>1, <1>3, <1>4, <2>1 DEF AgesInv
<1>8. ListInv'
    BY <1>1 DEF IInv, ListInv
<1>9. QED
    BY <1>5, <1>6, <1>7, <1>8 DEF IInv

\* Time takes all ages on together; none of them is at its bound.
LEMMA TimePassesInv == ASSUME IInv, TimePasses PROVE IInv'
<1>1. /\ UNCHANGED <<acquired, owners, locked, tracked, list, subscribers, told, due, derived,
                     counting>>
      /\ lag < MaxLag /\ lag' = lag + 1
    BY DEF TimePasses, listVars, setup
<1>2. /\ lockAge' \in 0 .. LockBound + 1
      /\ lockAge' = 0 \/ lockAge' = lockAge + 1
      /\ locked = Nobody => lockAge' = 0
    BY BoundsType DEF IInv, TypeOK, AgesInv, TimePasses, Older
<1>3. /\ trackedAge' \in 0 .. CommandBound + 1
      /\ trackedAge' = 0 \/ trackedAge' = trackedAge + 1
      /\ tracked = "EXPANSION" => trackedAge' = 0
    BY BoundsType DEF IInv, TypeOK, AgesInv, TimePasses, Older
<1>4. lag' \in 0 .. MaxLag /\ lag \in Nat
    BY <1>1, BoundsType DEF IInv, TypeOK
<1>5. TypeOK'
    BY <1>1, <1>2, <1>3, <1>4 DEF IInv, TypeOK
<1>6. OneOwner' /\ ListInv'
    BY <1>1 DEF IInv, OneOwner, ListInv
<1>7. AgesInv'
  <2>1. /\ ~due => lockAge' <= LockTimeout + lag'
        /\ due => lockAge' <= LockTimeout + MaxLag + lag'
      BY <1>1, <1>2, <1>4, BoundsType DEF IInv, TypeOK, AgesInv
  <2>2. /\ ~due => trackedAge' <= CommandTimeout + lag'
        /\ due => trackedAge' <= CommandTimeout + MaxLag + lag'
      BY <1>1, <1>3, <1>4, BoundsType DEF IInv, TypeOK, AgesInv
  <2>3. QED
      BY <1>1, <1>2, <1>3, <2>1, <2>2 DEF AgesInv
<1>8. QED
    BY <1>5, <1>6, <1>7 DEF IInv

LEMMA StutterInv == ASSUME IInv, UNCHANGED vars PROVE IInv'
BY DEF vars, heldVars, commandVars, listVars, clockVars, setup, IInv, TypeOK, OneOwner, AgesInv,
       ListInv

LEMMA NextInv == ASSUME IInv, [Next]_vars PROVE IInv'
<1>1. ASSUME NEW c \in Controllers, NEW done \in BOOLEAN, ReceivedSetCommand(c, done) PROVE IInv'
    BY <1>1, TellingInv, ToldType DEF ReceivedSetCommand, Notify, OnlyReply
<1>2. CASE ReceivedQuery
    BY <1>2, TellingInv, ToldType DEF ReceivedQuery, OnlyReply
<1>3. CASE SendCommand
    BY <1>3, TrackInv, ToldType DEF SendCommand
<1>4. CASE SendUnsolicitedResponses
    BY <1>4, TellingInv, ToldType DEF SendUnsolicitedResponses, Notify
<1>5. QED
    BY <1>1, <1>2, <1>3, <1>4, AcquireInv, ReleaseInv, LockInv, RegisterInv, ReadClockInv, TickInv,
       TimePassesInv, StutterInv DEF Next

\* The relations are kept by every action.
LEMMA InvHolds == Spec => []IInv
BY InitInv, NextInv, PTL DEF Spec

-----------------------------------------------------------------------------

\* The entity's members keep their types; the list never writes beyond its
\* room and never counts below zero.
THEOREM EntityTypeCorrect == Spec => []TypeOK
BY InvHolds, PTL DEF IInv

\* No two controllers own the entity by what they were told, if a derived
\* class stores what was granted.
THEOREM OneOwnerHolds == Spec => []OneOwner
BY InvHolds, PTL DEF IInv

\* A lock and a contested acquisition end in their time-out and two turns of
\* the loop.
THEOREM LockEndsHolds == Spec => []LockEnds
<1>1. IInv => LockEnds
    BY BoundsType DEF IInv, TypeOK, AgesInv, LockEnds
<1>2. QED
    BY InvHolds, <1>1, PTL

\* Nobody is released or unlocked by another controller, nor by a tick
\* before the time-out, unless the stamp is younger than the loop's time.
THEOREM KeptUntilTimeoutHolds == Spec => KeptUntilTimeout
<1> DEFINE OwnerKept == acquired # Nobody /\ acquired' # acquired =>
                            \/ ReceiveReleaseCommand(acquired)
                            \/ Tick /\ tracked = "CONTROLLER_AVAILABLE"
                                    /\ (trackedAge > CommandTimeout \/ trackedAge < lag)
           LockKept == locked # Nobody /\ locked' # locked =>
                            \/ ReceiveUnlockEntityCommand(locked)
                            \/ ReceiveLockEntityCommand(locked')
                            \/ Tick /\ (lockAge > LockTimeout \/ lockAge < lag \/ OwnerTimedOut)
<1>1. ASSUME IInv, [Next]_vars, acquired # Nobody, acquired' # acquired PROVE OwnerKept
  <2>1. (\E c \in Controllers : ReceiveReleaseCommand(c)) \/ Tick
      BY <1>1 DEF Next, vars, heldVars, ReceivedSetCommand, ReceivedQuery,
                  ReceiveAcquireEntityCommand, GrantAcquire, ContestAcquire,
                  ReceiveLockEntityCommand, ReceiveUnlockEntityCommand, ReceiveRegisterCommand,
                  ReceiveDeRegisterCommand, SendCommand, SendUnsolicitedResponses, ReadClock,
                  TimePasses
  <2>2. ASSUME NEW c \in Controllers, ReceiveReleaseCommand(c) PROVE OwnerKept
      BY <1>1, <2>2 DEF ReceiveReleaseCommand, MayRelease
  <2>3. CASE Tick
    <3>1. OwnerTimedOut
        BY <1>1, <2>3 DEF Tick
    <3>2. trackedAge \in Nat /\ lag \in Nat /\ trackedAge - lag < ClockSize
        BY <1>1, BoundsType DEF IInv, TypeOK
    <3>3. trackedAge > CommandTimeout \/ trackedAge < lag
        BY <3>1, <3>2, NotYounger, BoundsType DEF OwnerTimedOut, CommandTimedOut
    <3>4. QED
        BY <2>3, <3>1, <3>3 DEF OwnerTimedOut
  <2>4. QED
      BY <2>1, <2>2, <2>3
<1>2. ASSUME IInv, [Next]_vars, locked # Nobody, locked' # locked PROVE LockKept
  <2>1. \/ \E c \in Controllers : ReceiveLockEntityCommand(c)
        \/ \E c \in Controllers : ReceiveUnlockEntityCommand(c)
        \/ Tick
      BY <1>2 DEF Next, vars, heldVars, ReceivedSetCommand, ReceivedQuery,
                  ReceiveAcquireEntityCommand, ReceiveReleaseCommand, ReceiveRegisterCommand,
                  ReceiveDeRegisterCommand, SendCommand, SendUnsolicitedResponses, ReadClock,
                  TimePasses
  <2>2. ASSUME NEW c \in Controllers, ReceiveLockEntityCommand(c) PROVE LockKept
    <3>1. locked' = c
        BY <2>2 DEF ReceiveLockEntityCommand
    <3>2. ReceiveLockEntityCommand(locked')
        BY <2>2, <3>1
    <3>3. QED
        BY <3>2
  <2>3. ASSUME NEW c \in Controllers, ReceiveUnlockEntityCommand(c) PROVE LockKept
    <3>1. locked = c
        BY <2>3 DEF ReceiveUnlockEntityCommand
    <3>2. QED
        BY <2>3, <3>1
  <2>4. CASE Tick
    <3>1. OwnerTimedOut \/ LockTimedOut
        BY <1>2, <2>4 DEF Tick
    <3>2. lockAge \in Nat /\ lag \in Nat /\ lockAge - lag < ClockSize
        BY <1>2, BoundsType DEF IInv, TypeOK
    <3>3. lockAge > LockTimeout \/ lockAge < lag \/ OwnerTimedOut
        BY <3>1, <3>2, NotYounger, BoundsType DEF LockTimedOut
    <3>4. QED
        BY <2>4, <3>3
  <2>5. QED
      BY <2>1, <2>2, <2>3, <2>4
<1>3. IInv /\ [Next]_vars => [OwnerKept /\ LockKept]_vars
    BY <1>1, <1>2
<1>4. QED
    BY InvHolds, <1>3, PTL DEF Spec, KeptUntilTimeout

\* With a list that counts, every controller that was told it is registered
\* is told of a change, and only once.
THEOREM ToldOnceHolds == Spec => ToldOnce
<1> DEFINE SetTold == \A c \in Controllers : ReceivedSetCommand(c, TRUE) /\ Permitted(c) =>
                          \A d \in Controllers \ {c} :
                              told'[d] = IF d \in subscribers THEN 1 ELSE 0
           OwnTold == SendUnsolicitedResponses =>
                          \A d \in Controllers :
                              told'[d] = IF d \in subscribers \/ d = acquired THEN 1 ELSE 0
<1>1. ASSUME IInv, counting, NEW c \in Controllers, ReceivedSetCommand(c, TRUE), Permitted(c),
             NEW d \in Controllers \ {c}
      PROVE  told'[d] = IF d \in subscribers THEN 1 ELSE 0
  <2>1. told'[d] = Copies(d, FALSE)
      BY <1>1 DEF ReceivedSetCommand, Notify
  <2>2. d # acquired
      BY <1>1, NobodyIsNoController DEF Permitted
  <2>3. FindController(list, d) <=> d \in subscribers
      BY <1>1 DEF IInv, ListInv, FindController
  <2>4. QED
      BY <2>1, <2>2, <2>3 DEF Copies
<1>2. ASSUME IInv, counting, SendUnsolicitedResponses, NEW d \in Controllers
      PROVE  told'[d] = IF d \in subscribers \/ d = acquired THEN 1 ELSE 0
  <2>1. told'[d] = Copies(d, TRUE)
      BY <1>2 DEF SendUnsolicitedResponses, Notify
  <2>2. FindController(list, d) <=> d \in subscribers
      BY <1>2 DEF IInv, ListInv, FindController
  <2>3. QED
      BY <2>1, <2>2 DEF Copies
<1>3. IInv /\ counting => SetTold /\ OwnTold
    BY <1>1, <1>2
<1>4. IInv => [counting => SetTold /\ OwnTold]_vars
    BY <1>3
<1>5. QED
    BY InvHolds, <1>4, PTL DEF ToldOnce
=============================================================================
