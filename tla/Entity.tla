------------------------------- MODULE Entity -------------------------------
(***************************************************************************)
(* An AVDECC Entity that controllers send AEM commands to: who owns it,    *)
(* who has locked it, who is told of changes (class Entity).               *)
(*                                                                         *)
(* The library leaves two things to a derived class: it never stores the   *)
(* owner it grants ACQUIRE_ENTITY to (the members are protected), and      *)
(* receiveLockEntityCommand is virtual and not implemented.  derived tells *)
(* whether there is such a class; without it only base behaviour is left.  *)
(* m_acquire_in_progress_by_controller_entity_id is set by nobody and left *)
(* out, so a contested acquisition ends without an owner.                  *)
(*                                                                         *)
(* Commands the entity sends are in ControllerEntity; here only the record *)
(* of the tracked one is kept, which tick looks at.                        *)
(***************************************************************************)
EXTENDS RegisteredControllers, Clock

CONSTANTS
    LockTimeout,    \* JDKSAVDECC_AEM_LOCK_TIMEOUT_MS
    CommandTimeout, \* JDKSAVDECC_AEM_TIMEOUT_IN_MS
    Lists           \* lists that are looked at: TRUE for one that counts

VARIABLES
    acquired,       \* m_acquired_by_controller_entity_id
    locked,         \* m_locked_by_controller_entity_id
    lockAge,        \* age of m_locked_time
    tracked,        \* m_last_sent_command_type
    trackedAge,     \* age of m_last_sent_command_time
    list,           \* m_registered_controllers
    told,           \* unsolicited responses each controller got in the last step
    lag,            \* age of the time the loop's ticks work with
    due,            \* the loop has read the clock and has not called tick yet
    derived,        \* there is a derived class that stores owner and lock
    counting,       \* the list counts its entries
    owners,         \* controllers that were told they own the entity
    subscribers     \* controllers that were told they are registered

heldVars == <<acquired, owners, locked, lockAge>>
commandVars == <<tracked, trackedAge>>
listVars == <<list, subscribers>>
clockVars == <<lag, due>>
setup == <<derived, counting>>
vars == <<heldVars, commandVars, listVars, told, clockVars, setup>>

LockBound == LockTimeout + 2 * MaxLag
CommandBound == CommandTimeout + 2 * MaxLag

ASSUME EntityAssumption ==
    /\ LockTimeout \in Nat /\ CommandTimeout \in Nat
    /\ Lists \subseteq BOOLEAN
    /\ LockBound + MaxLag < ClockSize /\ CommandBound + MaxLag < ClockSize

NoneTold == [c \in Controllers |-> 0]

Init ==
    /\ acquired = Nobody /\ owners = {}
    /\ locked = Nobody /\ lockAge = 0
    /\ tracked = "EXPANSION" /\ trackedAge = 0
    /\ list = EmptyList /\ subscribers = {}
    /\ told = NoneTold
    /\ lag = 0 /\ due = FALSE
    /\ derived \in BOOLEAN /\ counting \in Lists

-----------------------------------------------------------------------------
(* Answers and notifications.                                               *)

\* sendResponses to registered controllers: all but the owner, who is told
\* of what happens inside the entity and not of its own commands.
\* original_controller_id is never filled in, so nobody else is left out.
Copies(c, internallyGenerated) ==
    (IF FindController(list, c) /\ c # acquired THEN 1 ELSE 0)
    + (IF internallyGenerated /\ c = acquired THEN 1 ELSE 0)

Notify(internallyGenerated) ==
    told' = [c \in Controllers |-> Copies(c, internallyGenerated)]

\* sendResponses to the controller that asked, and to nobody else.
OnlyReply == told' = NoneTold

\* validatePermissions: the owner decides; the lock counts if there is none.
Permitted(c) ==
    \/ acquired = c
    \/ acquired = Nobody /\ locked \in {c, Nobody}

-----------------------------------------------------------------------------
(* AEM commands, receivedAEMCommand.                                        *)

\* SET_CONFIGURATION, SET_NAME, SET_CONTROL; done is what the EntityState
\* answers, always TRUE when there is no EntityState.
ReceivedSetCommand(c, done) ==
    /\ IF Permitted(c) /\ done THEN Notify(FALSE) ELSE OnlyReply
    /\ UNCHANGED <<heldVars, commandVars, listVars, clockVars, setup>>

\* The commands that only read, ADDRESS_ACCESS commands, and commands with
\* bad arguments: they are answered whoever asks.
ReceivedQuery ==
    /\ OnlyReply
    /\ UNCHANGED <<heldVars, commandVars, listVars, clockVars, setup>>

\* ACQUIRE_ENTITY is granted: SUCCESS for the owner, or if there is none.
\* The base class does not store it.
GrantAcquire(c) ==
    /\ acquired \in {c, Nobody}
    /\ owners' = owners \cup {c}
    /\ acquired' = IF derived THEN c ELSE acquired
    /\ UNCHANGED commandVars

\* sendCommand with track_for_ack.
Track(type) == tracked' = type /\ trackedAge' = 0

\* It is contested: the owner is asked, the new controller has to wait.
ContestAcquire(c) ==
    /\ acquired \notin {c, Nobody}
    /\ Track("CONTROLLER_AVAILABLE")
    /\ UNCHANGED <<acquired, owners>>

ReceiveAcquireEntityCommand(c) ==
    /\ GrantAcquire(c) \/ ContestAcquire(c)
    /\ OnlyReply
    /\ UNCHANGED <<locked, lockAge, listVars, clockVars, setup>>

\* Mutant: anyone may release.
MayRelease_Any(c) == TRUE

MayRelease(c) == acquired \in {c, Nobody}

\* ACQUIRE_ENTITY with the release flag.
ReceiveReleaseCommand(c) ==
    /\ IF MayRelease(c)
       THEN acquired' = Nobody /\ owners' = owners \ {c}
       ELSE UNCHANGED <<acquired, owners>>
    /\ OnlyReply
    /\ UNCHANGED <<locked, lockAge, commandVars, listVars, clockVars, setup>>

\* LOCK_ENTITY in a derived class that goes by validatePermissions;
\* m_locked_time is "when the lock first occurred".
ReceiveLockEntityCommand(c) ==
    /\ derived /\ Permitted(c)
    /\ locked' = c
    /\ lockAge' = IF locked = c THEN lockAge ELSE 0
    /\ OnlyReply
    /\ UNCHANGED <<acquired, owners, commandVars, listVars, clockVars, setup>>

ReceiveUnlockEntityCommand(c) ==
    /\ derived /\ locked = c
    /\ locked' = Nobody /\ lockAge' = 0
    /\ OnlyReply
    /\ UNCHANGED <<acquired, owners, commandVars, listVars, clockVars, setup>>

ReceiveRegisterCommand(c) ==
    /\ list' = AddController(list, c, counting)
    /\ subscribers' = IF AddControllerAnswer(list, c) THEN subscribers \cup {c} ELSE subscribers
    /\ OnlyReply
    /\ UNCHANGED <<heldVars, commandVars, clockVars, setup>>

ReceiveDeRegisterCommand(c) ==
    /\ list' = RemoveController(list, c)
    /\ subscribers' = subscribers \ {c}
    /\ OnlyReply
    /\ UNCHANGED <<heldVars, commandVars, clockVars, setup>>

-----------------------------------------------------------------------------
(* What the application and the loop do.                                    *)

\* sendCommand to another entity, for which a response is awaited.
SendCommand ==
    /\ Track("OTHER")
    /\ told' = NoneTold
    /\ UNCHANGED <<heldVars, listVars, clockVars, setup>>

\* sendUnsolicitedResponses: something changed inside the entity.
SendUnsolicitedResponses ==
    /\ Notify(TRUE)
    /\ UNCHANGED <<heldVars, commandVars, listVars, clockVars, setup>>

ReadClock ==
    /\ ~due
    /\ due' = TRUE /\ lag' = 0
    /\ UNCHANGED <<heldVars, commandVars, listVars, told, setup>>

\* Mutant: the lock is looked at only while nobody owns the entity.
LockTimedOut_Unowned ==
    locked # Nobody /\ acquired = Nobody /\ WasTimeOutHit(lockAge, lag, LockTimeout)

LockTimedOut == locked # Nobody /\ WasTimeOutHit(lockAge, lag, LockTimeout)

CommandTimedOut == tracked # "EXPANSION" /\ WasTimeOutHit(trackedAge, lag, CommandTimeout)

\* CONTROLLER_AVAILABLE to the owner; an answer would not have stopped the
\* time-out, since nothing but this clears m_last_sent_command_type.
OwnerTimedOut == CommandTimedOut /\ tracked = "CONTROLLER_AVAILABLE"

Tick ==
    /\ due
    /\ due' = FALSE
    /\ IF OwnerTimedOut
       THEN acquired' = Nobody /\ owners' = {}
       ELSE UNCHANGED <<acquired, owners>>
    /\ IF OwnerTimedOut \/ LockTimedOut
       THEN locked' = Nobody /\ lockAge' = 0
       ELSE UNCHANGED <<locked, lockAge>>
    /\ IF CommandTimedOut
       THEN tracked' = "EXPANSION" /\ trackedAge' = 0
       ELSE UNCHANGED commandVars
    /\ told' = NoneTold
    /\ UNCHANGED <<listVars, lag, setup>>

TimePasses ==
    /\ lag < MaxLag
    /\ lag' = lag + 1
    /\ lockAge' = IF locked = Nobody THEN 0 ELSE Older(lockAge, LockBound + 1)
    /\ trackedAge' = IF tracked = "EXPANSION" THEN 0 ELSE Older(trackedAge, CommandBound + 1)
    /\ UNCHANGED <<acquired, owners, locked, tracked, listVars, told, due, setup>>

Next ==
    \/ \E c \in Controllers, done \in BOOLEAN : ReceivedSetCommand(c, done)
    \/ ReceivedQuery
    \/ \E c \in Controllers : ReceiveAcquireEntityCommand(c)
    \/ \E c \in Controllers : ReceiveReleaseCommand(c)
    \/ \E c \in Controllers : ReceiveLockEntityCommand(c)
    \/ \E c \in Controllers : ReceiveUnlockEntityCommand(c)
    \/ \E c \in Controllers : ReceiveRegisterCommand(c)
    \/ \E c \in Controllers : ReceiveDeRegisterCommand(c)
    \/ SendCommand
    \/ SendUnsolicitedResponses
    \/ ReadClock
    \/ Tick
    \/ TimePasses

Spec == Init /\ [][Next]_vars

-----------------------------------------------------------------------------
(* Properties.                                                              *)

\* Every variable holds a value of its C++ type.
TypeOK ==
    /\ acquired \in Controllers \cup {Nobody} /\ owners \subseteq Controllers
    /\ locked \in Controllers \cup {Nobody} /\ lockAge \in 0 .. LockBound + 1
    /\ tracked \in {"EXPANSION", "CONTROLLER_AVAILABLE", "OTHER"}
    /\ trackedAge \in 0 .. CommandBound + 1
    /\ list \in List /\ subscribers \subseteq Controllers
    /\ told \in [Controllers -> 0 .. 2]
    /\ lag \in 0 .. MaxLag /\ due \in BOOLEAN
    /\ derived \in BOOLEAN /\ counting \in Lists

\* With a derived class that stores what was granted, at most one controller
\* at a time was told that it owns the entity and has neither released it
\* nor lost it by a time-out; the base class never has an owner.
OneOwner == IF derived THEN owners \subseteq {acquired} ELSE acquired = Nobody

\* The owner loses the entity only by its own release, or CommandTimeout
\* after another controller contested it, answer or no answer -- or when the
\* contest came after the loop read the clock: then the difference wraps and
\* the owner is gone at once.  A lock ends only by its holder's unlock, with
\* the owner's time-out, or in the same way after LockTimeout.
KeptUntilTimeout ==
    [][/\ acquired # Nobody /\ acquired' # acquired =>
            \/ ReceiveReleaseCommand(acquired)
            \/ Tick /\ tracked = "CONTROLLER_AVAILABLE"
                    /\ (trackedAge > CommandTimeout \/ trackedAge < lag)
       /\ locked # Nobody /\ locked' # locked =>
            \/ ReceiveUnlockEntityCommand(locked)
            \/ ReceiveLockEntityCommand(locked')
            \/ Tick /\ (lockAge > LockTimeout \/ lockAge < lag \/ OwnerTimedOut)]_vars

\* No lock outlives its time-out by more than two turns of the loop, and no
\* contested acquisition waits longer for an answer.
LockEnds ==
    /\ lockAge <= LockBound
    /\ trackedAge <= CommandBound

\* A change is told once to every registered controller: if a controller's
\* command made it, to each of the others; if the entity made it, to each of
\* them and to the owner, registered or not.  RegisteredControllersStorage
\* is left out, see RegisteredIsTold.
ToldOnce ==
    [][counting =>
        /\ \A c \in Controllers : ReceivedSetCommand(c, TRUE) /\ Permitted(c) =>
            \A d \in Controllers \ {c} : told'[d] = IF d \in subscribers THEN 1 ELSE 0
        /\ SendUnsolicitedResponses =>
            \A d \in Controllers :
                told'[d] = IF d \in subscribers \/ d = acquired THEN 1 ELSE 0]_vars

\* A controller that was told it is registered is told of a change that
\* another controller's command makes.
RegisteredIsTold ==
    [][\A c \in Controllers : ReceivedSetCommand(c, TRUE) /\ Permitted(c) =>
        \A d \in subscribers \ {c} : told'[d] > 0]_vars
=============================================================================
