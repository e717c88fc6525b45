-------------------------- MODULE EntityIdPoolProofs --------------------------
(***************************************************************************)
(* Proofs about the entity id pool, for any number of machines and ids.    *)
(***************************************************************************)
EXTENDS EntityIdPool, FiniteSetTheorems, TLAPS

LEMMA FollowingType == \A c \in Ids, n \in Nat : Following(c, n) \in Ids
BY PoolAssumption DEF Following, Ids

\* Counters, sets and machines' ids stay in range.
THEOREM PoolTypeCorrect == Spec => []TypeOK
<1>1. Init => TypeOK
  <2>1. 0 \in Ids
      BY PoolAssumption DEF Ids
  <2>2. QED
      BY <2>1 DEF Init, TypeOK
<1>2. TypeOK /\ [Next]_vars => TypeOK'
  <2> SUFFICES ASSUME TypeOK, [Next]_vars PROVE TypeOK'
      OBVIOUS
  <2> USE DEF TypeOK, poolVars
  <2>1. ASSUME NEW m \in Machines,
               OnAppEntityIdRequest(m) \/ OnTcpConnectionClosed(m) \/ StartTransfer(m)
        PROVE  TypeOK'
      BY <2>1 DEF OnAppEntityIdRequest, OnTcpConnectionClosed, StartTransfer
  <2>2. ASSUME NEW m \in Machines, AssignEntityId(m) PROVE TypeOK'
    <3>1. /\ past' \in SUBSET Past /\ serving' \in SUBSET Machines /\ hung' \in BOOLEAN
          /\ requests' \in SUBSET Machines /\ closing' \in SUBSET Machines
        BY <2>2 DEF AssignEntityId, Past
    <3>2. CASE inUse = Ids
        BY <2>2, <3>1, <3>2 DEF AssignEntityId
    <3>3. CASE inUse # Ids
      <4>1. PICK n \in 1 .. IdCount : /\ count' = Following(count, n)
                                      /\ assignedCount' = [assignedCount EXCEPT ![m] = count']
                                      /\ inUse' = inUse \cup {count'}
                                      /\ held' = [held EXCEPT ![m] = @ \cup {count'}]
          BY <2>2, <3>3 DEF AssignEntityId
      <4>2. count' \in Ids
          BY <4>1, FollowingType, PoolAssumption
      <4>3. QED
          BY <3>1, <4>1, <4>2
    <3>4. QED
        BY <3>2, <3>3
  <2>3. ASSUME NEW m \in Machines, CloseTcpConnection(m) PROVE TypeOK'
      BY <2>3 DEF CloseTcpConnection, DoClosed, Past
  <2>4. CASE UNCHANGED vars
      BY <2>4 DEF vars
  <2>5. QED
      BY <2>1, <2>2, <2>3, <2>4 DEF Next
<1>3. QED
    BY <1>1, <1>2, PTL DEF Spec

-----------------------------------------------------------------------------
(* Uniqueness.  A new id is not in use; so it is enough that every id a     *)
(* client holds is in use.  Closing erases the id the machine assigned      *)
(* last, which is one of its own client's if that client was given one.     *)

HeldInUse == \A m \in Machines : held[m] \subseteq inUse

OwnLast == \A m \in Machines : held[m] # {} => assignedCount[m] \in held[m]

PoolInv == "unassigned" \in past \/ (UniqueIds /\ HeldInUse /\ OwnLast)

\* Ids are unique as long as no connection ended without having been given
\* one: closeTcpConnection then erases only ids of the client that left.
THEOREM UniqueIfAssignedHolds == Spec => []UniqueIfAssigned
<1>1. Init => PoolInv
    BY DEF Init, PoolInv, UniqueIds, HeldInUse, OwnLast
<1>2. TypeOK /\ PoolInv /\ [Next]_vars => PoolInv'
  <2> SUFFICES ASSUME TypeOK, PoolInv, [Next]_vars, "unassigned" \notin past'
               PROVE  (UniqueIds /\ HeldInUse /\ OwnLast)'
      BY DEF PoolInv
  <2>1. "unassigned" \notin past
      BY DEF Next, OnAppEntityIdRequest, OnTcpConnectionClosed, StartTransfer, AssignEntityId,
         CloseTcpConnection, DoClosed, vars
  <2>2. UniqueIds /\ HeldInUse /\ OwnLast
      BY <2>1 DEF PoolInv
  <2> USE DEF TypeOK, UniqueIds, HeldInUse, OwnLast, poolVars
  <2>3. ASSUME NEW m \in Machines,
               OnAppEntityIdRequest(m) \/ OnTcpConnectionClosed(m) \/ StartTransfer(m)
        PROVE  (UniqueIds /\ HeldInUse /\ OwnLast)'
      BY <2>2, <2>3 DEF OnAppEntityIdRequest, OnTcpConnectionClosed, StartTransfer
  <2>4. ASSUME NEW m \in Machines, AssignEntityId(m) PROVE (UniqueIds /\ HeldInUse /\ OwnLast)'
    <3>1. CASE inUse = Ids
        BY <2>2, <2>4, <3>1 DEF AssignEntityId
    <3>2. CASE inUse # Ids
      <4>1. /\ count' \notin inUse
            /\ assignedCount' = [assignedCount EXCEPT ![m] = count']
            /\ inUse' = inUse \cup {count'}
            /\ held' = [held EXCEPT ![m] = @ \cup {count'}]
          BY <2>4, <3>2 DEF AssignEntityId, Free
      <4>2. QED
          BY <2>2, <4>1
    <3>3. QED
        BY <3>1, <3>2
  <2>5. ASSUME NEW m \in Machines, CloseTcpConnection(m)
        PROVE  (UniqueIds /\ HeldInUse /\ OwnLast)'
    <3>1. /\ assignedCount[m] \in held[m]
          /\ inUse' = inUse \ {assignedCount[m]}
          /\ held' = [held EXCEPT ![m] = {}]
          /\ UNCHANGED assignedCount
        BY <2>2, <2>5 DEF CloseTcpConnection, DoClosed
    <3>2. \A k \in Machines : k # m => assignedCount[m] \notin held[k]
        BY <2>2, <3>1
    <3>3. QED
        BY <2>2, <3>1, <3>2
  <2>6. CASE UNCHANGED vars
      BY <2>2, <2>6 DEF vars
  <2>7. QED
      BY <2>3, <2>4, <2>5, <2>6 DEF Next
<1>3. PoolInv => UniqueIfAssigned
    BY DEF PoolInv, UniqueIfAssigned
<1>4. QED
    BY <1>1, <1>2, <1>3, PoolTypeCorrect, PTL DEF Spec

-----------------------------------------------------------------------------
(* As long as no connection that has an id is assigned another, every id in *)
(* use is the one that some machine remembers for the client it serves, so  *)
(* it will be released.                                                     *)

Remembered ==
    \A i \in inUse : \E m \in Machines : held[m] # {} /\ assignedCount[m] = i

NoLeak == "reassigned" \in past \/ Remembered

\* With every id remembered by a machine other than m, ids are scarce.
LEMMA AllRemembered ==
    ASSUME TypeOK, Remembered, inUse = Ids, NEW m \in Machines, held[m] = {}
    PROVE  IdCount < Cardinality(Machines)
<1> DEFINE Others == Machines \ {m}
           f == [x \in Others |-> assignedCount[x]]
<1>1. IsFiniteSet(Others) /\ Cardinality(Others) = Cardinality(Machines) - 1
    BY PoolAssumption, FS_RemoveElement
<1>2. f \in Surjection(Others, Ids)
  <2>1. f \in [Others -> Ids]
      BY DEF TypeOK
  <2>2. \A i \in Ids : \E x \in Others : f[x] = i
      BY DEF Remembered
  <2>3. QED
      BY <2>1, <2>2 DEF Surjection
<1>3. Cardinality(Ids) <= Cardinality(Others)
    BY <1>1, <1>2, FS_Surjection
<1>4. Cardinality(Ids) = IdCount
    BY PoolAssumption, FS_Interval DEF Ids
<1>5. Cardinality(Machines) \in Nat
    BY PoolAssumption, FS_CardinalityType
<1>6. QED
    BY <1>1, <1>3, <1>4, <1>5, PoolAssumption

\* assignEntityId returns as long as no connection that has an id is assigned
\* another, and there are enough ids.
THEOREM HangsOnlyIfLeakedHolds == Spec => []HangsOnlyIfLeaked
<1>1. Init => NoLeak /\ HangsOnlyIfLeaked
    BY DEF Init, NoLeak, Remembered, HangsOnlyIfLeaked
<1>2. TypeOK /\ NoLeak /\ HangsOnlyIfLeaked /\ [Next]_vars => (NoLeak /\ HangsOnlyIfLeaked)'
  <2> SUFFICES ASSUME TypeOK, NoLeak, HangsOnlyIfLeaked, [Next]_vars
               PROVE  (NoLeak /\ HangsOnlyIfLeaked)'
      OBVIOUS
  <2>1. CASE "reassigned" \in past
      BY <2>1 DEF Next, OnAppEntityIdRequest, OnTcpConnectionClosed, StartTransfer,
         AssignEntityId, CloseTcpConnection, DoClosed, vars, NoLeak, HangsOnlyIfLeaked
  <2>2. CASE "reassigned" \notin past
    <3> USE <2>2 DEF TypeOK, NoLeak, Remembered, HangsOnlyIfLeaked, poolVars
    <3>1. ASSUME NEW m \in Machines,
                 OnAppEntityIdRequest(m) \/ OnTcpConnectionClosed(m) \/ StartTransfer(m)
          PROVE  (NoLeak /\ HangsOnlyIfLeaked)'
        BY <3>1 DEF OnAppEntityIdRequest, OnTcpConnectionClosed, StartTransfer
    <3>2. ASSUME NEW m \in Machines, AssignEntityId(m) PROVE (NoLeak /\ HangsOnlyIfLeaked)'
      <4>1. CASE held[m] # {}
          BY <3>2, <4>1 DEF AssignEntityId
      <4>2. CASE held[m] = {} /\ inUse = Ids
        <5>1. IdCount < Cardinality(Machines)
            BY <4>2, AllRemembered
        <5>2. UNCHANGED <<inUse, held, assignedCount>>
            BY <3>2, <4>2 DEF AssignEntityId
        <5>3. QED
            BY <5>1, <5>2
      <4>3. CASE held[m] = {} /\ inUse # Ids
        <5>1. /\ assignedCount' = [assignedCount EXCEPT ![m] = count']
              /\ inUse' = inUse \cup {count'}
              /\ held' = [held EXCEPT ![m] = @ \cup {count'}]
              /\ UNCHANGED hung
            BY <3>2, <4>3 DEF AssignEntityId
        <5>2. ~hung
            BY <3>2 DEF AssignEntityId
        <5>3. QED
            BY <4>3, <5>1, <5>2
      <4>4. QED
          BY <4>1, <4>2, <4>3
    <3>3. ASSUME NEW m \in Machines, CloseTcpConnection(m) PROVE (NoLeak /\ HangsOnlyIfLeaked)'
      <4>1. /\ inUse' = inUse \ {assignedCount[m]}
            /\ held' = [held EXCEPT ![m] = {}]
            /\ UNCHANGED <<assignedCount, hung>> /\ ~hung
          BY <3>3 DEF CloseTcpConnection, DoClosed
      <4>2. QED
          BY <4>1
    <3>4. CASE UNCHANGED vars
        BY <3>4 DEF vars
    <3>5. QED
        BY <3>1, <3>2, <3>3, <3>4 DEF Next
  <2>3. QED
      BY <2>1, <2>2
<1>3. QED
    BY <1>1, <1>2, PoolTypeCorrect, PTL DEF Spec
=============================================================================
