------------------------ MODULE RegisteredControllers ------------------------
(***************************************************************************)
(* The list of controllers that asked for unsolicited notifications: the   *)
(* interface RegisteredControllers and its one implementation in the       *)
(* library, RegisteredControllersStorage.  A list has a count and          *)
(* MaxControllers slots; the entries beyond the count are left over.       *)
(*                                                                         *)
(* RegisteredControllersStorage::addController does not count what it      *)
(* adds.  The interface is abstract, so an integrator may bring a list     *)
(* that does; both are modelled, see AddController.                        *)
(***************************************************************************)
EXTENDS Integers

CONSTANTS
    Controllers,    \* entity ids of controllers
    MaxControllers  \* template parameter of RegisteredControllersStorage

ASSUME ListAssumption == MaxControllers \in Nat /\ "NOBODY" \notin Controllers

\* An entity id that is not set.
Nobody == "NOBODY"

List == [count : 0 .. MaxControllers,
         slots : [1 .. MaxControllers -> Controllers \cup {Nobody}]]

EmptyList == [count |-> 0, slots |-> [i \in 1 .. MaxControllers |-> Nobody]]

Listed(list) == {list.slots[i] : i \in 1 .. list.count}

FindController(list, c) == c \in Listed(list)

HasRoom(list) == list.count < MaxControllers

\* What addController answers; TRUE also for a controller it knows.
AddControllerAnswer(list, c) == FindController(list, c) \/ HasRoom(list)

\* Mutant: the list is not asked whether it has room.
AddController_NoRoomCheck(list, c, counting) ==
    IF FindController(list, c) THEN list
    ELSE [list EXCEPT !.slots[list.count + 1] = c,
                      !.count = IF counting THEN @ + 1 ELSE @]

\* counting: FALSE for RegisteredControllersStorage, TRUE for a list that
\* counts its entries.
AddController(list, c, counting) ==
    IF FindController(list, c) \/ ~HasRoom(list) THEN list
    ELSE [list EXCEPT !.slots[list.count + 1] = c,
                      !.count = IF counting THEN @ + 1 ELSE @]

\* Mutant: the last entry is not moved to the place that becomes free.
RemoveController_NoSwap(list, c) ==
    IF ~FindController(list, c) THEN list
    ELSE [list EXCEPT !.count = @ - 1]

\* The entry changes places with the last one, which is then cut off; only
\* an entry that was last is erased.
RemoveController(list, c) ==
    IF ~FindController(list, c) THEN list
    ELSE LET i == CHOOSE j \in 1 .. list.count :
                      list.slots[j] = c /\ \A k \in 1 .. j - 1 : list.slots[k] # c
         IN  [count |-> list.count - 1,
              slots |-> IF i = list.count
                        THEN [list.slots EXCEPT ![i] = Nobody]
                        ELSE [list.slots EXCEPT ![i] = list.slots[list.count],
                                                ![list.count] = c]]
=============================================================================
