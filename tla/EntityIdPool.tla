----------------------------- MODULE EntityIdPool -----------------------------
(***************************************************************************)
(* The entity ids that the APS machines of one server assign to their      *)
(* clients.  Every ApsStateMachine refers to the same counter and the same *)
(* set of ids in use, and remembers one id of its own: m_assigned_count,   *)
(* which no constructor and no clear() initialises.  The server runs in    *)
(* one thread, so each operation is a step; the two events only set a flag *)
(* of their machine, on which run() acts later, in the transfer.           *)
(***************************************************************************)
EXTENDS Integers, FiniteSets

CONSTANTS
    Machines,   \* the APS state machines
    IdCount     \* the ids of a counter; 65536 in the code

ASSUME PoolAssumption == IsFiniteSet(Machines) /\ IdCount \in Nat /\ IdCount > 0

VARIABLES
    count,          \* m_active_entity_id_count, shared
    inUse,          \* m_active_connections, shared
    assignedCount,  \* m_assigned_count of each machine
    requests,       \* the machines whose m_assignEntityIdRequest is set
    closing,        \* the machines whose m_incomingTcpClosed is set
    serving,        \* the machines with a client in the transfer
    held,           \* the ids that the client of each machine was given
    hung,           \* assignEntityId is in its loop for ever
    past            \* what happened on connections so far, see Past

poolVars == <<count, inUse, assignedCount>>
vars == <<poolVars, requests, closing, serving, held, hung, past>>

Ids == 0 .. IdCount - 1

\* A connection may end without an id, or have one when it is assigned another.
Past == {"unassigned", "reassigned"}

Init ==
    /\ count = 0
    /\ inUse = {}
    /\ assignedCount \in [Machines -> Ids]      \* whatever the memory holds
    /\ requests = {} /\ closing = {} /\ serving = {}
    /\ held = [m \in Machines |-> {}]
    /\ hung = FALSE
    /\ past = {}

\* onAppEntityIdRequest, perhaps in one burst with what comes before and after.
OnAppEntityIdRequest(m) ==
    /\ ~hung
    /\ requests' = requests \cup {m}
    /\ UNCHANGED <<poolVars, closing, serving, held, hung, past>>

\* onTcpConnectionClosed, perhaps before the transfer began.
OnTcpConnectionClosed(m) ==
    /\ ~hung
    /\ closing' = closing \cup {m}
    /\ UNCHANGED <<poolVars, requests, serving, held, hung, past>>

\* goToStartTransfer.  A request that the previous client left is still set.
StartTransfer(m) ==
    /\ ~hung
    /\ m \notin serving
    /\ serving' = serving \cup {m}
    /\ UNCHANGED <<poolVars, requests, closing, held, hung, past>>

\* Mutant: the counter does not wrap.
Following_NoWrap(c, n) == c + n

\* The id n after c, of a counter that wraps.
Following(c, n) == (c + n) % IdCount

\* Mutant: the counter is not checked against the ids in use.
Free_Unchecked(n) == Following(count, n) \in Ids

\* The loop stops after n increments.
Free(n) == Following(count, n) \notin inUse

\* goToAssignEntityId, which doWaiting chooses only if the connection did not
\* end.  With every id in use the loop of assignEntityId does not end.
AssignEntityId(m) ==
    /\ ~hung
    /\ m \in serving /\ m \in requests /\ m \notin closing
    /\ past' = IF held[m] = {} THEN past ELSE past \cup {"reassigned"}
    /\ IF inUse = Ids
       THEN hung' = TRUE /\ UNCHANGED <<poolVars, requests, held>>
       ELSE \E n \in 1 .. IdCount :
              /\ Free(n) /\ \A k \in 1 .. n - 1 : ~Free(k)
              /\ count' = Following(count, n)
              /\ assignedCount' = [assignedCount EXCEPT ![m] = count']
              /\ inUse' = inUse \cup {count'}
              /\ held' = [held EXCEPT ![m] = @ \cup {count'}]
              /\ requests' = requests \ {m}
              /\ UNCHANGED hung
    /\ UNCHANGED <<closing, serving>>

\* doClosed, up to what closeTcpConnection does to the ids, for a client that
\* left the transfer or one that was rejected before.  goToWaitForConnect
\* forgets that a connection ended, and keeps a request.
DoClosed(m) ==
    /\ ~hung
    /\ m \in serving => m \in closing
    /\ closing' = closing \ {m}
    /\ serving' = serving \ {m}
    /\ held' = [held EXCEPT ![m] = {}]
    /\ past' = IF held[m] = {} THEN past \cup {"unassigned"} ELSE past
    /\ UNCHANGED <<requests, count, assignedCount, hung>>

\* Mutant: the id stays in the set.
CloseTcpConnection_KeepsId(m) ==
    /\ DoClosed(m)
    /\ UNCHANGED inUse

\* closeTcpConnection erases the machine's id, also when this client was
\* given none: then it is the id of an earlier client, or garbage.  Of
\* several ids only the last is erased.
CloseTcpConnection(m) ==
    /\ DoClosed(m)
    /\ inUse' = inUse \ {assignedCount[m]}

Next ==
    \E m \in Machines :
        \/ OnAppEntityIdRequest(m) \/ OnTcpConnectionClosed(m)
        \/ StartTransfer(m) \/ AssignEntityId(m) \/ CloseTcpConnection(m)

Spec == Init /\ [][Next]_vars

-----------------------------------------------------------------------------
(* Properties.                                                              *)

TypeOK ==
    /\ count \in Ids /\ inUse \in SUBSET Ids
    /\ assignedCount \in [Machines -> Ids]
    /\ requests \in SUBSET Machines /\ closing \in SUBSET Machines
    /\ serving \in SUBSET Machines
    /\ held \in [Machines -> SUBSET Ids]
    /\ hung \in BOOLEAN /\ past \in SUBSET Past

\* No two clients are given the same id.
UniqueIds ==
    \A m1, m2 \in Machines : m1 # m2 => held[m1] \cap held[m2] = {}

\* Ids are unique as long as every connection that ends was given one, however
\* many it was given and however often the counter wraps.  A client that asks
\* and leaves in one burst is given none although it asked.
UniqueIfAssigned == "unassigned" \in past \/ UniqueIds

\* assignEntityId returns as long as no connection that has an id is assigned
\* another, if there are enough ids, whatever else happens.  That needs no
\* client that asks twice: the one before it may have left its request behind.
HangsOnlyIfLeaked == hung => "reassigned" \in past \/ IdCount < Cardinality(Machines)
=============================================================================
