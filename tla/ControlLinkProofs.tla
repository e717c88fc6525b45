------------------------- MODULE ControlLinkProofs -------------------------
(***************************************************************************)
(* Proofs about the knob and the control it turns, for any number of items *)
(* and values, any width of the sequence ids and any disorder of the       *)
(* network.                                                                *)
(***************************************************************************)
EXTENDS ControlLink, TLAPS

-----------------------------------------------------------------------------
(* The holder's operations.                                                 *)

\* An item that is set is in the holder, and a holder that is not dirty
\* afterwards was not dirty and has not changed.
LEMMA SetValueItemKeeps ==
    ASSUME NEW h \in Holder, NEW i \in 1 .. Items, NEW v \in Values
    PROVE  /\ SetValueItem(h, i, v) \in Holder
           /\ SetValueItem(h, i, v).items[i] = v
           /\ SetValueItem(h, i, v) = h \/ SetValueItem(h, i, v).dirty
<1>1. CASE h.items[i] = v
    BY <1>1 DEF SetValueItem
<1>2. CASE h.items[i] # v
  <2>1. SetValueItem(h, i, v) = [items |-> [h.items EXCEPT ![i] = v], dirty |-> TRUE]
      BY <1>2 DEF SetValueItem
  <2>2. h.items \in ValueSeq
      BY DEF Holder
  <2>3. [h.items EXCEPT ![i] = v] \in ValueSeq /\ [h.items EXCEPT ![i] = v][i] = v
      BY <2>2 DEF ValueSeq
  <2>4. QED
      BY <2>1, <2>3 DEF Holder
<1>3. QED
    BY <1>1, <1>2

\* All items together are taken only if the first one changes: that one is
\* always taken.
LEMMA SetValueKeeps ==
    ASSUME NEW h \in Holder, NEW w \in ValueSeq
    PROVE  /\ SetValue(h, w) \in Holder
           /\ SetValue(h, w).items[1] = w[1]
           /\ SetValue(h, w) = h \/ SetValue(h, w).dirty
BY DEF SetValue, Holder

LEMMA ClearDirtyKeeps ==
    ASSUME NEW h \in Holder
    PROVE  ClearDirty(h) \in Holder /\ ClearDirty(h).items = h.items /\ ~ClearDirty(h).dirty
BY DEF ClearDirty, Holder

\* A command more on the network: the older ones age, the oldest are gone.
LEMMA SendCommandType ==
    ASSUME seq \in 0 .. SeqCount - 1, commands \subseteq Command,
           NEW items \in ValueSeq \cup {NoValues}, SendCommand(items)
    PROVE  seq' \in 0 .. SeqCount - 1 /\ commands' \subseteq Command
<1>1. NextSeq \in 0 .. SeqCount - 1
    BY LinkAssumption, SMT DEF NextSeq
<1>2. ASSUME NEW c \in commands, c.age < MaxAge
      PROVE  [c EXCEPT !.age = @ + 1] \in Command
    BY <1>2, LinkAssumption DEF Command
<1>3. [seq |-> NextSeq, age |-> 0, items |-> items] \in Command
    BY <1>1, LinkAssumption DEF Command
<1>4. QED
    BY <1>1, <1>2, <1>3 DEF SendCommand

-----------------------------------------------------------------------------

IInv == TypeOK /\ ChangesAreFlagged

LEMMA InitInv == Init => IInv
<1> SUFFICES ASSUME Init PROVE IInv
    OBVIOUS
<1>1. NewHolder \in Holder /\ NewHolder.items \in ValueSeq
    BY LinkAssumption DEF NewHolder, Holder, ValueSeq
<1>2. TypeOK
  <2>1. holder \in Holder /\ received \in Holder /\ sent \in ValueSeq /\ seen \in ValueSeq
      BY <1>1 DEF Init
  <2>2. since \in 0 .. UpdateRate + 1 /\ others \in 0 .. MaxOthers
      BY LinkAssumption DEF Init
  <2>3. seq \in 0 .. SeqCount - 1 /\ lastSeq \in 0 .. SeqCount - 1
      BY LinkAssumption DEF Init
  <2>4. unflagged \in BOOLEAN /\ heard \in Values /\ commands \subseteq Command
      BY LinkAssumption DEF Init
  <2>5. QED
      BY <2>1, <2>2, <2>3, <2>4 DEF TypeOK
<1>3. NewHolder.items[1] = 0
  <2>1. 1 \in 1 .. Items /\ NewHolder.items = [i \in 1 .. Items |-> 0]
      BY LinkAssumption DEF NewHolder
  <2>2. QED
      BY <2>1
<1>4. ChangesAreFlagged
    BY <1>3 DEF Init, ChangesAreFlagged
<1>5. QED
    BY <1>2, <1>4 DEF IInv

LEMMA ChangeValueInv ==
    ASSUME IInv, NEW i \in 1 .. Items, NEW v \in Values, ChangeValue(i, v)
    PROVE  IInv'
<1>1. holder \in Holder /\ holder' = SetValueItem(holder, i, v)
    BY DEF IInv, TypeOK, ChangeValue
<1>2. holder' \in Holder /\ (holder' = holder \/ holder'.dirty)
    BY <1>1, SetValueItemKeeps
<1>3. UNCHANGED <<unflagged, since, seq, others, commands, sent, lastSeq, received, heard, seen>>
    BY DEF ChangeValue, receiverVars
<1>4. QED
    BY <1>2, <1>3 DEF IInv, TypeOK, ChangesAreFlagged

LEMMA ChangeDirectlyInv == ASSUME IInv, NEW w \in ValueSeq, ChangeDirectly(w) PROVE IInv'
<1>1. holder' = [holder EXCEPT !.items = w] /\ unflagged'
    BY DEF ChangeDirectly
<1>2. holder' \in Holder
    BY <1>1 DEF IInv, TypeOK, Holder
<1>3. UNCHANGED <<since, seq, others, commands, sent, lastSeq, received, heard, seen>>
    BY DEF ChangeDirectly, receiverVars
<1>4. unflagged' \in BOOLEAN
    BY DEF ChangeDirectly
<1>5. QED
    BY <1>1, <1>2, <1>3, <1>4 DEF IInv, TypeOK, ChangesAreFlagged

LEMMA SenderTickInv == ASSUME IInv, SenderTick PROVE IInv'
<1>1. UNCHANGED <<lastSeq, received, heard, seen>>
    BY DEF SenderTick, receiverVars
<1>2. CASE SendNow
  <2>1. /\ SendCommand(holder.items) /\ holder' = ClearDirty(holder) /\ sent' = holder.items
        /\ unflagged' = FALSE /\ since' = 0 /\ others' = 0
      BY <1>2 DEF SenderTick
  <2>2. holder \in Holder /\ holder.items \in ValueSeq
      BY DEF IInv, TypeOK, Holder
  <2>3. holder' \in Holder /\ holder'.items = sent'
      BY <2>1, <2>2, ClearDirtyKeeps
  <2>4. seq' \in 0 .. SeqCount - 1 /\ commands' \subseteq Command
      BY <2>1, <2>2, SendCommandType DEF IInv, TypeOK
  <2>5. since' \in 0 .. UpdateRate + 1 /\ others' \in 0 .. MaxOthers
      BY <2>1, LinkAssumption
  <2>6. TypeOK'
      BY <1>1, <2>1, <2>2, <2>3, <2>4, <2>5 DEF IInv, TypeOK
  <2>7. ChangesAreFlagged'
      BY <1>1, <2>3 DEF IInv, ChangesAreFlagged
  <2>8. QED
      BY <2>6, <2>7 DEF IInv
<1>3. CASE ~SendNow
  <2>1. since' = since + 1 /\ UNCHANGED <<holder, unflagged, seq, others, commands, sent>>
      BY <1>3 DEF SenderTick
  <2>2. since' \in 0 .. UpdateRate + 1
      BY <1>3, <2>1, LinkAssumption DEF IInv, TypeOK, SendNow
  <2>3. QED
      BY <1>1, <2>1, <2>2 DEF IInv, TypeOK, ChangesAreFlagged
<1>4. QED
    BY <1>2, <1>3

LEMMA OtherCommandInv == ASSUME IInv, OtherCommand PROVE IInv'
<1>1. /\ others' = others + 1 /\ others < MaxOthers /\ SendCommand(NoValues)
      /\ UNCHANGED <<holder, unflagged, since, sent, lastSeq, received, heard, seen>>
    BY DEF OtherCommand, receiverVars
<1>2. seq' \in 0 .. SeqCount - 1 /\ commands' \subseteq Command
    BY <1>1, SendCommandType DEF IInv, TypeOK
<1>3. others' \in 0 .. MaxOthers
    BY <1>1, LinkAssumption DEF IInv, TypeOK
<1>4. QED
    BY <1>1, <1>2, <1>3 DEF IInv, TypeOK, ChangesAreFlagged

LEMMA ReceivedPDUInv == ASSUME IInv, NEW c \in commands, ReceivedPDU(c) PROVE IInv'
<1>1. /\ lastSeq' = c.seq
      /\ IF c.items = NoValues
         THEN UNCHANGED <<received, heard>>
         ELSE received' = SetValue(received, c.items) /\ heard' = c.items[1]
      /\ UNCHANGED <<holder, unflagged, since, others, sent, seq, commands, seen>>
    BY DEF ReceivedPDU, senderVars
<1>2. received \in Holder /\ c \in Command
    BY DEF IInv, TypeOK
<1>3. c.seq \in 0 .. SeqCount - 1 /\ c.items \in ValueSeq \cup {NoValues}
    BY <1>2 DEF Command
<1>4. CASE c.items = NoValues
    BY <1>1, <1>3, <1>4 DEF IInv, TypeOK, ChangesAreFlagged
<1>5. CASE c.items # NoValues
  <2>1. c.items \in ValueSeq /\ received' = SetValue(received, c.items) /\ heard' = c.items[1]
      BY <1>1, <1>3, <1>5
  <2>2. /\ received' \in Holder /\ received'.items[1] = heard'
        /\ received' = received \/ received'.dirty
      BY <1>2, <2>1, SetValueKeeps
  <2>3. heard' \in Values
      BY <2>1, LinkAssumption DEF ValueSeq
  <2>4. QED
      BY <1>1, <1>3, <2>2, <2>3 DEF IInv, TypeOK, ChangesAreFlagged
<1>6. QED
    BY <1>4, <1>5

LEMMA ApplicationReadsInv == ASSUME IInv, ApplicationReads PROVE IInv'
<1>1. /\ seen' = received.items /\ received' = ClearDirty(received)
      /\ UNCHANGED <<holder, unflagged, since, others, sent, seq, commands, lastSeq, heard>>
    BY DEF ApplicationReads, senderVars
<1>2. received' \in Holder /\ received'.items = received.items /\ seen' \in ValueSeq
    BY <1>1, ClearDirtyKeeps DEF IInv, TypeOK, Holder
<1>3. QED
    BY <1>1, <1>2 DEF IInv, TypeOK, ChangesAreFlagged

LEMMA StutterInv == ASSUME IInv, UNCHANGED vars PROVE IInv'
BY DEF vars, senderVars, receiverVars, IInv, TypeOK, ChangesAreFlagged

LEMMA InvHolds == Spec => []IInv
<1>1. IInv /\ [Next]_vars => IInv'
    BY ChangeValueInv, ChangeDirectlyInv, SenderTickInv, OtherCommandInv, ReceivedPDUInv,
       ApplicationReadsInv, StutterInv DEF Next
<1>2. QED
    BY InitInv, <1>1, PTL DEF Spec

-----------------------------------------------------------------------------

\* Both holders, the sequence ids and the time of the last send keep their
\* types.
THEOREM LinkTypeCorrect == Spec => []TypeOK
BY InvHolds, PTL DEF IInv

\* Whatever is lost, repeated or overtaken: the values of the knob are those
\* that were sent last, unless a dirty flag says that there is work to do or
\* they were written past the flag since; the receiver holds the first item of
\* the last SET_CONTROL it took, and what it holds was seen or its flag is up.
THEOREM ChangesAreFlaggedHolds == Spec => []ChangesAreFlagged
BY InvHolds, PTL DEF IInv
=============================================================================
