---------------------------- MODULE ControlLink ----------------------------
(***************************************************************************)
(* A knob and the control it turns: ControlSender sends the values of its  *)
(* holder with SET_CONTROL, unacknowledged; ControlReceiver on another     *)
(* node puts them into a holder of its own that an application watches.    *)
(*                                                                         *)
(* Ethernet loses, repeats and overtakes: a command may be delivered any   *)
(* number of times while its sequence id is among the last MaxAge + 1.     *)
(* Each tick sees a new time, so the age of the last send is counted in    *)
(* ticks' times.  Only the descriptor the two share is modelled, and one   *)
(* sender: the README says what a second one can do.                        *)
(***************************************************************************)
EXTENDS Integers

CONSTANTS
    Items,          \* m_num_items of both holders
    Values,         \* values of an item; memset makes 0 of all at first
    UpdateRate,     \* m_update_rate_in_millis
    SeqCount,       \* sequence ids wrap around at this number; 2^16 in the code
    MaxAge,         \* later commands that may overtake one
    MaxOthers       \* other commands of the controller between two SET_CONTROL

ASSUME LinkAssumption ==
    /\ Items \in Nat \ {0} /\ 0 \in Values /\ UpdateRate \in Nat
    /\ SeqCount \in Nat \ {0} /\ MaxAge \in Nat /\ MaxOthers \in Nat
    /\ MaxAge + 1 < SeqCount /\ MaxOthers + 1 < SeqCount

VARIABLES
    holder,         \* the sender's ControlValueHolder
    unflagged,      \* it was written past its flag since the last SET_CONTROL
    since,          \* age of m_last_send_time_in_millis, cut off
    seq,            \* m_outgoing_sequence_id
    others,         \* other commands since the last SET_CONTROL
    commands,       \* commands that may still arrive
    sent,           \* the values of the last SET_CONTROL
    lastSeq,        \* ControlReceiver::m_last_sequence_id
    received,       \* the receiver's ControlValueHolder
    heard,          \* the first item of the last SET_CONTROL it took
    seen            \* the values the application read from it

senderVars == <<holder, unflagged, since, others, sent>>
receiverVars == <<lastSeq, received, heard, seen>>
vars == <<senderVars, seq, commands, receiverVars>>

ValueSeq == [1 .. Items -> Values]
Holder == [items : ValueSeq, dirty : BOOLEAN]

\* GET_CONTROL and READ_DESCRIPTOR carry no values.
NoValues == <<>>
Command == [seq : 0 .. SeqCount - 1, age : 0 .. MaxAge, items : ValueSeq \cup {NoValues}]

NewHolder == [items |-> [i \in 1 .. Items |-> 0], dirty |-> TRUE]

Init ==
    /\ holder = NewHolder /\ received = NewHolder
    /\ unflagged = FALSE /\ heard = 0
    /\ since = UpdateRate + 1
    /\ seq = 0 /\ others = 0
    /\ commands = {}
    /\ sent = NewHolder.items /\ seen = NewHolder.items
    /\ lastSeq = SeqCount - 1

-----------------------------------------------------------------------------
(* ControlValueHolder.                                                      *)

\* Mutant: like setValue, only the first item makes it dirty.
SetValueItem_First(h, i, v) ==
    [items |-> [h.items EXCEPT ![i] = v], dirty |-> h.dirty \/ (i = 1 /\ h.items[i] # v)]

\* setValueOctet, setValueDoublet, setValueQuadlet.
SetValueItem(h, i, v) ==
    IF h.items[i] = v THEN h ELSE [items |-> [h.items EXCEPT ![i] = v], dirty |-> TRUE]

\* setValue compares m_value_length octets, one item, and copies them all:
\* a change of another item alone is not taken.
SetValue(h, w) == IF h.items[1] = w[1] THEN h ELSE [items |-> w, dirty |-> TRUE]

ClearDirty(h) == [h EXCEPT !.dirty = FALSE]

-----------------------------------------------------------------------------
(* ControlSender.                                                           *)

ChangeValue(i, v) ==
    /\ holder' = SetValueItem(holder, i, v)
    /\ UNCHANGED <<unflagged, since, seq, others, commands, sent, receiverVars>>

\* setOctet, setDoublet and setQuadlet, which the holder inherits from
\* FixedBuffer and the knobs of the examples are set with, write octets of any
\* items and know nothing of the flag.
ChangeDirectly(w) ==
    /\ holder' = [holder EXCEPT !.items = w]
    /\ unflagged' = TRUE
    /\ UNCHANGED <<since, seq, others, commands, sent, receiverVars>>

NextSeq == (seq + 1) % SeqCount

SendCommand(items) ==
    /\ seq' = NextSeq
    /\ commands' =
           {[c EXCEPT !.age = @ + 1] : c \in {d \in commands : d.age < MaxAge}}
           \cup {[seq |-> NextSeq, age |-> 0, items |-> items]}

SendNow == holder.dirty \/ since > UpdateRate

\* tick, and the millisecond to the next one; sendSetControl, clearDirty.
SenderTick ==
    /\ IF SendNow
       THEN /\ SendCommand(holder.items)
            /\ holder' = ClearDirty(holder)
            /\ unflagged' = FALSE
            /\ sent' = holder.items
            /\ since' = 0 /\ others' = 0
       ELSE /\ since' = since + 1
            /\ UNCHANGED <<holder, unflagged, seq, others, commands, sent>>
    /\ UNCHANGED receiverVars

\* The controller sends another command to the entity.
OtherCommand ==
    /\ others < MaxOthers
    /\ others' = others + 1
    /\ SendCommand(NoValues)
    /\ UNCHANGED <<holder, unflagged, since, sent, receiverVars>>

-----------------------------------------------------------------------------
(* ControlReceiver and its application.                                     *)

\* Mutant: sequence ids have to grow.
Fresh_Growing(c) == c.seq > lastSeq

\* A command with the sequence id of the last one is taken for a repetition.
Fresh(c) == c.seq # lastSeq

\* receivedPDU; receivedGetControlCommand and receivedReadDescriptorCommand
\* change nothing.
ReceivedPDU(c) ==
    /\ Fresh(c)
    /\ lastSeq' = c.seq
    /\ IF c.items = NoValues
       THEN UNCHANGED <<received, heard>>
       ELSE received' = SetValue(received, c.items) /\ heard' = c.items[1]
    /\ UNCHANGED <<senderVars, seq, commands, seen>>

ApplicationReads ==
    /\ received.dirty
    /\ seen' = received.items
    /\ received' = ClearDirty(received)
    /\ UNCHANGED <<senderVars, seq, commands, lastSeq, heard>>

Next ==
    \/ \E i \in 1 .. Items, v \in Values : ChangeValue(i, v)
    \/ \E w \in ValueSeq : ChangeDirectly(w)
    \/ SenderTick
    \/ OtherCommand
    \/ \E c \in commands : ReceivedPDU(c)
    \/ ApplicationReads

Spec == Init /\ [][Next]_vars

\* The main loops run, and the network does not lose every command.
FairSpec ==
    /\ Spec
    /\ WF_vars(SenderTick) /\ WF_vars(ApplicationReads)
    /\ SF_vars(\E c \in commands : c.items # NoValues /\ ReceivedPDU(c))

-----------------------------------------------------------------------------
(* Properties.                                                              *)

\* Every variable holds a value of its C++ type.
TypeOK ==
    /\ holder \in Holder /\ received \in Holder
    /\ since \in 0 .. UpdateRate + 1
    /\ seq \in 0 .. SeqCount - 1 /\ lastSeq \in 0 .. SeqCount - 1
    /\ others \in 0 .. MaxOthers
    /\ commands \subseteq Command
    /\ sent \in ValueSeq /\ seen \in ValueSeq
    /\ unflagged \in BOOLEAN /\ heard \in Values

\* Where a change is still to be passed on, a dirty flag says so, with two
\* exceptions.  The values of the knob are those that were sent last, or its
\* holder is dirty, or it was written past its flag and only the next periodic
\* SET_CONTROL takes that along.  The application has seen what its holder
\* holds, with the first item of the last SET_CONTROL that arrived, or the
\* holder is dirty: what setValue drops unflagged is in other items only.
ChangesAreFlagged ==
    /\ sent = holder.items \/ holder.dirty \/ unflagged
    /\ received.items[1] = heard
    /\ seen = received.items \/ received.dirty

\* When the knob is left alone the application of the control comes to see
\* its first item and goes on seeing it, whatever was lost, repeated or
\* overtaken.  Of the other items this is not true, see SetValue.
Converges ==
    \A v \in Values : <>[](holder.items[1] = v) => <>[](seen[1] = v)
=============================================================================
