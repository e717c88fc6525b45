# jdksavdecc-mcu in TLA+

jdksavdecc-mcu is a C++ library for IEEE 1722.1 (AVDECC) entities on small
machines. This directory holds TLA+ models of its stateful parts, TLC runs that
check them on small instances, and proofs, checked by TLAPS, of the main results
for every value of the constants. Paths below are relative to the repository;
its own code is in `src/` (5.8k lines) and `include/JDKSAvdeccMCU/`.

    tlc -workers 2 -config MCAps.cfg MCAps.tla      # a run
    tlapm ApcProofs.tla                             # a proof module

## The system

The library has one thread and never blocks. An integrator's loop feeds it
events (octets from sockets, frames, link changes, the time) and calls `run()`
or `tick()` on each object. What is hard is therefore not preemption but the
order in which a loop delivers events between two calls, state that outlives the
connection it belongs to, single message slots, one timer shared by several
causes, and two such machines with a network between them.

| Component | State | Operations | Talks to |
|---|---|---|---|
| APS state machine (`src/Aps.cpp`) | state pointer, 8 flags, two message slots, NOP timer, HTTP and APP parsers | 14 state procedures under `run()`, event handlers | its TCP client, the layer 2 network, the shared id pool |
| Entity id pool (`ApsStateMachine::assignEntityId`, `closeTcpConnection`) | a 16 bit counter and a set of ids, shared by all machines; one id per machine | assign, release | all APS machines |
| APC state machine (`src/Apc.cpp`) | state pointer, 9 flags, three message slots, NOP timer, parsers | 9 state procedures, event handlers | one APS, its own network, the application |
| APP message parser (`src/AppMessageParser.cpp`) | octets of a partial message, header state | parse, validate, dispatch | APS, APC |
| HTTP parsers (`src/Http.cpp`) | parse state, request or response | parse, clear | APS, APC |
| Controller entity (`src/Entity.cpp`, `src/ControllerEntity.cpp`) | last command sent, its target and time, sequence id | send, time out, recognise a response | remote entities |
| Entity (`src/Entity.cpp`) | acquiring and locking controller, registered controllers | acquire, lock, permission check, dispatch | controllers |
| Registered controllers (`RegisteredController.hpp`) | table and count | add, remove, find | Entity |
| ADP manager (`src/ADPManager.cpp`) | time of the last send, trigger flag and time, available index | tick, trigger, discover | the network |
| Controls (`ControlSender`, `ControlReceiver`, `ControlValueHolder`) | values, dirty flags, time of the last send, last sequence id | tick, change a value, receive, read | controller entity, an application on either side |
| Handler groups, ACMP, EntityState | tables of pointers, or nothing | dispatch, stubs | |
| Raw sockets, pcap files, frames, EUIs | I/O and data | | |

What makes them correct, in one line each: the APS relays each frame once and
in order, keeps its client informed and alive, comes back for the next client
and stops when told; ids are unique while every client that leaves had one; the APC tells its application the truth
about the proxy; joined, the two relay end to end, agree on the link and never
wait for each other; a command is answered once, by its own response, or times
out; the ADP manager advertises often enough and not too often; where a derived class
stores who acquired the entity, one controller owns it; locks and grants end, and whoever is
registered is told of changes once; the first value of a knob that was turned is what the
control shows in the end; what a stream of octets is taken for does not depend on its segments.

`PROJECT.json` lists 40 hazards, each at the line where it bites, with the
properties that watch it; a hazard without a property says why.

## Modules

| Module | Models | Used with |
|---|---|---|
| `Aps` | one APS with its TCP connection, network and clock | `MCAps`, `ProxyProofs` |
| `Mailbox` | abstract: what a relay with one slot promises | refined by `Aps` (twice), `Apc` (twice) |
| `EntityIdPool` | the ids that several APS machines assign | `MCEntityIdPool`, `EntityIdPoolProofs` |
| `Apc` | one APC with its connection and network | `MCApc`, `ApcProofs` |
| `Proxy` | an APS and an APC joined by queues of messages | `MCProxy`, `ProxyProofs` |
| `Relay` | abstract: what a chain of slots promises | refined by `Proxy` (twice) |
| `ControllerEntity` | a command in flight, its time-out, responses on Ethernet | `MCControllerEntity`, `ControllerEntityProofs` |
| `Clock` | time as a tick of the main loop sees it, in unsigned arithmetic | extended by `Entity`, `AdpManager`, `ControllerEntity` |
| `RegisteredControllers` | the list of controllers to notify | extended by `Entity` |
| `Entity` | owner, lock, notifications and time-outs of an entity | `MCEntity`, `EntityProofs` |
| `AdpManager` | the advertisement timer and a listener | `MCAdpManager`, `AdpManagerProofs` |
| `ControlLink` | a knob, a control and the network between them | `MCControlLink`, `ControlLinkProofs` |
| `AppMessageParser` | the parser of APP messages, an octet at a time | extended by `TcpInput` |
| `HttpParser` | both HTTP parsers with their handlers, an octet at a time | extended by `TcpInput` |
| `TcpInput` | what comes in on the TCP connections of an APS or APC | `MCTcpInput`, `TcpInputProofs` |

### How a model corresponds to the code

**Aps.** `cs` is the member function pointer `m_current_state`. An action is a
state procedure `doX` together with the `goToY` it calls, with everything that
`goToY` sends or assigns. `running` says that `run()` is on the stack: it loops
while the state changes, so an action that changes the state leaves `running`
true and one that does not ends the call. Events need `~running`, since nothing
else executes during `run()`; the set `flags` holds the Boolean members of
`ApsStateVariables` that are true. Frames are numbered in the order they arrive;
`in` and `out` are the slots `m_in` and `m_out`. `parser` says where
`m_app_parser` stands relative to the message boundaries of its client and
`owed` whether that client has sent only a part of a message; from the two
follows whether octets are read as they were meant. `inHttp` is `m_in_http`
joined with what the HTTP parser still can accept: after a request for another
path the server parser takes the next one for header lines of the first.
`tcp`, `server`, `wire`, `link`, `clock` are the environment; `down`, `up`,
`told`, `sentAt`, `lostAt`, `spoken`, `requested` record what happened and influence
nothing. A frame may be too large: `sendMsgToApc` stores header and payload in 1500 octets and
sends nothing when they do not fit, which payloads of 1489 to 1500 octets do not
(`src/Aps.cpp:321`). `SendFrame` makes it a choice, with the time of the loss in `lostAt`.

Things the code does that the model keeps: `doWaitForConnect` and `doAccept`
have two ifs where one might expect an else; `goToWaitForConnect` resets two
flags only; `initialize()` sets `linkStatus` to FALSE after `setLinkMac()` has
stored TRUE; ACCEPT looks at neither `finished` nor `incomingTcpClosed`; any
octets set `tcpConnected` again; forwarding to layer 2 does not move the NOP
timer; the parser's dead state survives into later connections.

**Apc.** As `Aps`, but four of the `goToY` leave the state pointer in WAITING,
so each ends the call of `run()`. `connectToProxy` may call back before it
returns (`DoBegin(connected)`). Large frames are lost as in `Aps` (`src/Apc.cpp:293`).

**EntityIdPool.** `count`, `inUse`, `assignedCount` are the two references and
the member of `ApsStateMachine`. `m_assigned_count` is read before it was ever
written when a connection closes without an id: `Init` lets it be any id.
The two events, a request for an id and the end of the connection, only set a flag
(`requests`, `closing`), in any order and at any time; in the transfer `run()`
looks at the end first, and forgets that flag when it waits for the next client but not
the request. So a client may ask and leave and be given nothing, and the next is given an
id that it did not ask for. A rejected client is closed, and releases an id, like any other;
a machine that finishes does what one does whose client leaves and that no client
comes to any more. `past` records which of the two unusual things happened on any connection:
one ended without an id (`unassigned`), or had one when it was assigned another
(`reassigned`). `hung` stands for the loop that finds no free id.

**Proxy.** Extends `Aps` and instantiates `Apc`. The test application joins the
machines by direct calls; here the octets are in flight, each end learns of the
connection and of its end on its own, and either machine runs at any time. Time
stands still: the NOP timers belong to the single machines.

**ControllerEntity.** `responses` is the network: a response may be lost, come
late or twice. `age` counts the sequence ids used since, and a response is
taken to be gone after `SeqCount - 1` later ones, that is 65535 messages.
`elapsed` is the age of its stamp, judged against the loop's time as `Clock` says: a command
that is sent between the reading of the clock and the tick times out at once.
`fate` records what became of it.

**Clock.** The loop reads the clock and passes the time to the tick of one
handler after the other; stamps are taken from the clock itself. A stamp is kept
as its age and the loop's time as its age `lag`; what both are counted from
cancels out, also at a wrap of the counter. The difference that `wasTimeOutHit`
takes is then `(age - lag) % ClockSize`: a stamp made between the reading and
the tick is younger than the loop's time, the difference is negative, wraps, and
the time-out is hit at once. `due` says that the loop is between the two, and
`MaxLag` is the longest time between two readings. The word of a 1 ms clock is
`ClockSize` wide.

**Entity.** `acquired`, `locked`, `tracked` are the three members, the ages the
two stamps. One action per kind of AEM command: those that write go through
`Permitted` (`validatePermissions`), those that read change nothing, whatever
they are. The library grants ACQUIRE_ENTITY without storing the owner, and its
LOCK_ENTITY handler is a virtual stub; a derived class is expected to fill both.
`derived` chooses between the base class and a derived class that stores what
was granted and locks by `validatePermissions`; only the latter is an
assumption about code that is not in the repository. `list` is the table with
its count. `RegisteredControllersStorage::addController` does not count what
it adds; it implements an abstract interface, so `counting` chooses between it
and a list that counts. `told` counts the notifications each controller got in
the last step. `owners` and `subscribers` record what controllers were told and
influence nothing.

**AdpManager.** `sinceSend`, `trigger`, `sinceTrigger`, `gm` are the members.
A discover message moves the time of the last send back by a period, which is
`sinceSend + Period`. The listener takes an entity for gone when the validity is
over that `sendADP` wrote, `(seconds / 2) << 3` in an octet: `Validity` keeps
the truncation. `aired`, `untold`, `asked`, `unheard` record ages of promises.
Ages are cut off where nothing looks at a difference any more. One thing this
hides: discover messages add up, and with the default period 2^32 / 15000 of them
between two ticks would bring the difference back to a small one on a 32 bit
clock.

**ControlLink.** `holder` and `received` are the two `ControlValueHolder`s, with
the dirty flag that `setValue*` sets, `ControlSender::tick` clears after it sent
and the application clears after it read. `commands` is the network: a command
may be delivered any number of times, late and out of order, until `MaxAge`
later ones are under way. `ChangeDirectly` is the setters that a holder inherits
from `FixedBuffer`, which write octets and know nothing of the flag; the knobs of
`examples/JDKSAvdeccMCU_KnobsAndButtons.cpp:114` are set with them. `unflagged` records that it
happened since the last SET_CONTROL, `heard` the first item of the last one received. `others` lets sequence ids go by without a value,
since they belong to all commands of the controller.

**AppMessageParser, HttpParser, TcpInput.** An action is an octet. Types of
messages with the same rule for their length are one type and the fixed fields
of the header are part of the type; words of HTTP come as pieces, of which one
alone is the word expected in that place. Three variables are history: `head` and
`fed` record the octets that the parsers took, `head` without the carriage returns,
which both HTTP parsers skip wherever they come, and `ends` where in `fed` each
message was dispatched. Segments are modelled by `SegmentEnds`: where one ends
matters only after a refusal, because `onIncomingTcpHttpData` gives up the rest
of it.

### Liberties that are parameters

Some sequences of calls depend on the integrator. `Aps` takes them as constants
so that each run says under which it holds: `EagerAccept` (a client may connect
before the machine is back in WAIT_FOR_CONNECT), `LateClose` (the machine's own
close is reported to it as an event, later), `TornMessages` (a connection may
end inside an APP message). `Proxy` adds `EagerRequest` (the request may be read
before `run()` has entered ACCEPT).

## Runs

| Run | Shows |
|---|---|
| `aps_any` | With every liberty: types; the link status told is right or a change is flagged (`LinkStatusTold`); frames reach the client once and in order (`RelaysToApc`, refinement of `Mailbox`); whenever `run()` returns in WAITING the client was sent something within the interval, or a frame too large to send was lost within it (`KeepAlive`); the HTTP response comes first and once on each connection (`ResponseComesFirst`). |
| `aps_polite` | With an integrator that takes none of them: PDUs reach layer 2 once and in order (`RelaysToL2`); a client is answered only on its own request (`AnswersRequests`); the machine hangs up only to finish (`ClosesOnlyToFinish`); `run()` returns (`RunReturns`); after a client left, the next can connect (`ServesAgain`). |
| `apc` | The APC relays both ways once and in order (`HandsOn`, `Forwards`); it never stops with the application believing the proxy available (`NeverLeftAvailable`); a close ends the transfer (`TransferEnds`); what the APS sends is handled (`Handled`). |
| `proxy` | End to end, both directions refine `Relay` (`RelaysFrames`, `RelaysPdus`); the newest word about the link, wherever it is, is right (`LinkAgreement`); the ends never wait for each other (`NeverBothWait`). |
| `pool` | Ids are unique if every connection that ended was assigned one (`UniqueIfAssigned`); `assignEntityId` returns unless a connection was assigned a second id or there are too few ids (`HangsOnlyIfLeaked`). With requests and closes in any order, and requests left behind for the next client. |
| `controller` | A command is answered at most once (`AnsweredOnce`), by its own response (`AcceptsLatest`), and does not stay in flight (`GivesUp`), also when a time-out comes early. |
| `entity` | With a derived class that stores the owner, at most one controller has been told that it owns the entity and has neither released nor lost it, and the base class never records one (`OneOwner`); owner and lock are lost only by their holder's command or by a time-out, or by a stamp younger than the loop's time (`KeptUntilTimeout`); they do end (`LockEnds`); a change is told once to every registered controller and the owner (`ToldOnce`). With and without a derived class, with both lists. |
| `adp` | A listener that loses two advertisements in a row never takes the entity for gone (`StaysKnown`); a new grandmaster is told in a second (`NewsTold`) and a discover message is answered (`DiscoverAnswered`) within two turns of the loop, however the causes interleave. |
| `control` | What is still to be passed on has its dirty flag up, except values written past the flag, which wait for the periodic SET_CONTROL, and items behind the first, which the receiver drops (`ChangesAreFlagged`); when the knob rests, the control comes to show its first item (`Converges`), although commands are lost, repeated and overtaken and sequence ids wrap. |
| `streams` | The handshake is over exactly when the octets that were not given up form a CONNECT request for the path, or a response with status 200, and the octet that completes one is never refused (`HeadIsRecognised`, against a definition that looks at the whole head); the stream is the messages dispatched, one behind the other, and a rest that does not begin with a message (`MessagesSplit`, against an encoding). |

Two runs end in a counterexample, because the documentation promises what the
code does not do:

| Run | Property | What happens |
|---|---|---|
| `proxy_eager` | `NeverBothWait` | The request is read together with the connection; `goToAccept` forgets it; both machines wait for ever. |
| `entity_notify` | `RegisteredIsTold` | `RegisteredControllersStorage::addController` answers that the controller is registered, without counting it; `getControllerCount` stays 0 and nobody is ever notified. |

### What else the models say about the code

These follow from the models, or were met while writing them; no run claims the
opposite.

- *APS.* `finished` and a new connection before the same `run()`: `goToFinish`
  closes the server, `goToAccept` overrides the state, and the client is served
  (`src/Aps.cpp:453`). `onIncomingTcpConnection` does not clear `m_app_parser`,
  so a message torn by a close is completed with octets of the next client
  (`src/Aps.cpp:143`); `TornMessages` is that case. A client that leaves without
  an id releases an old or uninitialised one, which another may hold
  (`src/Aps.cpp:73`); `UniqueIfAssigned` excludes it by name. That client may have
  asked: if it asks and leaves before the next `run()`, `doWaiting` sees the end first. Its
  request then stays set (`src/Aps.cpp:440`), and the next client is assigned an id
  unasked, and another one when it asks; of the two only the last is released, and
  with 65536 leaked `assignEntityId` never returns, although every client asked once.
  A frame that does not fit in 1500 octets with its header is not sent, and still moves the NOP
  timer: each such frame costs the client a message, and if they come more often than
  every ten seconds it hears nothing at all (`src/Aps.cpp:321`, `src/Apc.cpp:293`). A client that leaves
  before its request was read blocks ACCEPT until some request comes; an APC
  whose connection ends in CONNECTED is stuck.
- *Controller entity.* An answered command still times out, since only its
  target is cleared (`src/ControllerEntity.cpp:91`); so does the owner that did
  answer CONTROLLER_AVAILABLE, and loses the entity. `canSendCommand` is TRUE
  exactly while a command is in flight (`include/JDKSAvdeccMCU/Entity.hpp:104`). A command
  that is sent after the loop read the clock has a younger stamp than the tick's time, and
  the unsigned difference gives it up at once (`include/JDKSAvdeccMCU/Helpers.hpp:43`).
- *Entity.* The base class answers SUCCESS to every controller that acquires, and
  records none (`src/Entity.cpp:680`). Nobody sets `m_acquire_in_progress_by_controller_entity_id`, so a
  contender waits for nothing; its repeat of the command starts the time-out
  anew. ACQUIRE_ENTITY does not look at the lock. ADDRESS_ACCESS writes are not
  subject to `validatePermissions`. `SET_*` without an `EntityState` answers
  SUCCESS. `original_controller_id` is never set (`src/Entity.cpp:468`), so a
  registered controller gets the unsolicited copy of what it asked for itself,
  behind the reply.
- *ADP manager.* `receivedPDU` does not look at the subtype
  (`src/ADPManager.cpp:143`): what is in a `HandlerGroup` behind an ADP manager
  does not get the messages it takes. A valid time of 1 s or 64 s is written as
  zero; `ValidityAssumption` excludes both.
- *Controls.* `setValue` compares the first item only, so a change of another
  item alone is dropped by the receiver, and no flag says so
  (`include/JDKSAvdeccMCU/ControlValueHolder.hpp:154`); `Converges` is about the first item.
  `setOctet`, `setDoublet` and `setQuadlet` change a holder without its flag, so the knobs of
  the example are sent with the next periodic SET_CONTROL and not at once.
  The sequence filter of `ControlReceiver` is one for all controllers and starts
  at 0xffff: two senders whose ids meet hide each other's commands.
- *Streams.* A refusal in `src/Http.cpp` sets the result to -1, which the loop
  increments to 0: no error is reported, the rest of the segment is lost, the
  parser goes on from where it was. A message of variable length without payload
  leaves the APP parser deaf until it is cleared, in the APS for ever.
- *Handler groups.* `HandlerGroup::tick` is empty, with a TODO (`src/HandlerGroup.cpp:55`).
  The loops of the examples tick their group and nothing else, so none of their handlers
  ever advertises, sends or times out: an integrator has to tick each handler itself.

### Bounds

| Bound | Value | Why it is enough |
|---|---|---|
| `NopInterval` | 0 (10 in the code) | with `MaxTime` 1 a tick makes the NOP due; the code compares, adds and nothing else, and `KeepAlive` is proved for every interval |
| `MaxTime` | 1 | one tick before, during and after every state; 0 in `Proxy`, whose properties have no time |
| `MaxFrames`, `MaxPdus` | up to 2 | two messages are what a slot can lose, repeat or reorder; each run bounds the direction it does not ask about lower |
| `MaxWire` | 0 or 1 | messages the peer has not read when `run()` is called; one call may append more. In `Aps` and `Apc` nothing reads its own queue; in `Proxy` 1 lets messages queue in both directions |
| Connections, link changes | unbounded | the state space is finite without a bound |
| `Machines`, `IdCount` | 3, 3 | the counter wraps with all, some and no ids in use; machines are symmetric |
| `SeqCount` | 3 (2^16) | the id wraps while older responses are around; proved for every width |
| `Timeout` | 1 (250) | before, at and after the strict comparison; `ClockSize` 8 is wide enough for the difference |
| `Targets`, `Types` | 2, 2 | same and other target; `CONTROLLER_AVAILABLE`, which times out differently, and another |
| `MaxLag`, `ClockSize` | 2, 32 | stamps younger than, as old as and older than the loop's time; wide enough that only negative differences wrap; proved for every value |
| `Controllers`, `MaxControllers` | 3, 2 | owner, contender and a third; the list is empty, partly full, full and refuses, and removes its first entry and its last; controllers are symmetric |
| `LockTimeout`, `CommandTimeout` | 3, 2 (60000, 250) | longer than a turn of the loop, and different, so that each may end first; proved for every value |
| `QuarterSecond`, `ValidTime`, `MaxLost` | 2, 6, 2 (250, 60 by default) | a second is longer than a turn and shorter than a period; three gaps are the most that fit in the validity, here and with the default |
| `GrandMasters` | 3, symmetric | a change before the last one is told, back and to another |
| `Items`, `Values`, `UpdateRate` | 2, 2, 1 | first and other item, equal and different values, a resend with and without a change |
| `SeqCount`, `MaxAge`, `MaxOthers` (`ControlLink`) | 3, 1, 1 | ids wrap while an older command is under way, and the filter sees an id it took a turn ago; the invariant is proved for every value |
| `MaxHead`, `MaxFed`, `MaxConnections`, `AnyHeads` | 9, 5, 2, 1 | heads of both roles with at least two octets more than the shortest; two messages and the beginning of a third; state left over for a second connection, whose head is plain; proved for every value |

`CHECK_DEADLOCK FALSE` is set where the system really stops: a machine in
FINISH whose clock and inputs are used up, and a server hung in
`assignEntityId`, and `streams`, whose octets are used up. All others check for
deadlock.

### Fairness

Weak fairness only. Of `Run` and `Step`: the integrator's loop calls `run()` for
ever, as `tick` of `tests/avdecc_test_app.cpp` does each time, and a
call proceeds. Of `ClientReads` and `ServerReads`: the peer reads its socket. Of
`ReadClock`, `Tick` and `TimePasses` in `ControllerEntity`: the loop reads the clock and ticks
the entity, and clocks advance. No event is fair: no
client has to connect, send or close. `Handled` stops at the two flags of highest
priority because the code gives no more: a steady stream from the APS puts off
`apcMsgOut` and `idAssigned`.

`ControlLink` adds weak fairness of the sender's `tick` and of the application
that reads the control. Both belong to the integrator's loop. That a loop ticks its handlers is
the integrator's duty, and no loop in the repository does it: those of the examples tick a
`HandlerGroup`, whose `tick` is empty (see above). `GivesUp`, `Converges` and the deadlines of
`Entity` and `AdpManager` are promises to an integrator who does. Delivery of SET_CONTROL is strongly
fair: a network that is given a command again and again does not lose all of
them, though it may deliver old ones first. Without the resend at `UpdateRate`,
which does happen for ever, this would give nothing. `Entity` and `AdpManager`
need no fairness: their promises have a deadline and are invariants over ages.
That time does not pass without the loop is the guard `lag < MaxLag`.

## Proofs

Each theorem is about the unbounded specification: every value of the constants
that the `ASSUME` of the module admits. The proofs about `Aps` alone are the first part of
`ProxyProofs`, since the second builds on their lemmas.

| Theorem | Says | Argument |
|---|---|---|
| `TypeCorrect` (`ProxyProofs`, first part) | `Spec => []TypeOK` | inductive by itself, proved in four parts (control, data, time, connection), because most steps touch one of them |
| `KeepAliveHolds` | `Spec => KeepAlive` | `TimerArmed`: in the states of a transfer `nopTimeout` is `NopInterval` after the last message, or after the last frame lost since, because both move the timer; staying in WAITING then means that it is not past |
| `LinkStatusToldHolds` | `Spec => []LinkStatusTold` | `LinkKnown`: the same claim in all states between START_TRANSFER and SEND_NOP; an event changes `linkStatus` only together with `linkStatusChanged` |
| `RelaysToApcHolds` | `Spec => RelaysToApc` | `DownSlot`: the slot holds the newest frame, and with `L2Msg` set that frame was not delivered yet. Then every step is an offer, a delivery or a stutter of `Mailbox` |
| `RelaysToL2Holds` | `Spec => RelaysToL2` | `UpSlot`: as `DownSlot`, unless the slot holds garbage, which delivers no PDU |
| `AnswersRequestsHolds` | with `~EagerAccept`, `Spec => AnswersRequests` | `OwnRequest`: in ACCEPT a valid request is the connected client's; `goToAccept` forgets an older one, and no client is accepted between ACCEPT and the answer |
| `ResponseComesFirstHolds` | `Spec => ResponseComesFirst` | `Introduced` and `EndFlagged`: before the transfer nothing was said on an open connection; in it, an open connection had its response or is a new one whose predecessor's end is still flagged, and then the machine goes to CLOSED before it sends anything |
| `ClosesOnlyToFinishHolds` | with `~EagerAccept`, `Spec => ClosesOnlyToFinish` | `EndIsOwn`: unless the machine is stopping, a flagged end means that no connection is open, since the next one is accepted only in WAIT_FOR_CONNECT, which clears the flag. `CLOSED` therefore has nothing to close |
| `ApcTypeCorrect` (`ApcProofs`) | `Spec => []TypeOK` | inductive, in four parts |
| `NeverLeftAvailableHolds` | `Spec => []NeverLeftAvailable` | `Announced`: the proxy is available only in WAITING and LINK_STATUS, and the only way out is `goToClosed` |
| `HandsOnHolds`, `ForwardsHolds` | `Spec => HandsOn`, `Spec => Forwards` | `InSlot`, `OutSlot`: as `DownSlot` |
| `ProxyTypeCorrect` (`ProxyProofs`, second part) | `ProxySpec => []ProxyTypeOK` | inductive; the queues hold messages of the types and numbers that the other end may read |
| `RelaysFramesHolds` | `ProxySpec => RelaysFrames` | `FramesInv`: a chain of bounds. What was handed on is not newer than the APC's slot, that is older than all in flight, which grows from head to end, and that is not newer than what the APS sent last; `DownSlot` covers the APS. Every step is then an offer, a delivery or a stutter of `Relay` |
| `RelaysPdusHolds` | `ProxySpec => RelaysPdus` | `PdusInv`: the same chain the other way; it includes that the slot `m_out` holds no garbage, since messages arrive whole |
| `NeverBothWaitHolds` | with `~EagerRequest`, `ProxySpec => []NeverBothWait` | `Asked`: while the APC waits for the answer and the APS has not accepted a request of this connection, the request is in the queue. `OneConnection` is needed for the APS that comes back from an old connection: no second one of this APC can be waiting |
| `LinkAgreementHolds` | `ProxySpec => []LinkAgreement` | `LinkInv`: from the greeting on, the newest word in the queue, or what the APC received if there is none, is the status. A word joins at the end (`NewestConcat`) and leaves at the head (`NewestTail`); the slot of the APC holds the last one that left. `OneConnection` keeps words of another connection out |
| `PoolTypeCorrect` (`EntityIdPoolProofs`) | `Spec => []TypeOK` | inductive |
| `UniqueIfAssignedHolds` | `Spec => []UniqueIfAssigned` | `PoolInv`: until a connection ends without an id, what is held is in use, held ids are disjoint, and a machine that was given an id remembers one it holds, so that it erases its own |
| `HangsOnlyIfLeakedHolds` | `Spec => []HangsOnlyIfLeaked` | `NoLeak`: until a connection with an id is assigned another, every id in use is remembered by a machine with a client; with all ids in use these machines, without the one that is to be assigned an id, map onto the ids, so there are fewer ids than machines |
| `ControllerTypeCorrect` (`ControllerEntityProofs`) | `Spec => []TypeOK` | inductive |
| `AnsweredOnceHolds` | `Spec => AnsweredOnce` | `ExpectedPending`: a response that would be accepted means the command is pending. Clearing the target excludes a second one; after the time-out of CONTROLLER_AVAILABLE, which leaves the target, the type excludes it |
| `AcceptsLatestHolds` | `Spec => AcceptsLatest` | `SeqAge`: a response's id is the current one minus its age, modulo `SeqCount`, and ages are below `SeqCount` |
| `AdpTypeCorrect` (`AdpManagerProofs`) | `Spec => []TypeOK` | with `lag <= sinceSend`: this difference does not wrap |
| `StaysKnownHolds` | `Spec => []StaysKnown` | `AiredInv`: an advertisement is never older than the timer, and a tick that does not send has seen that the timer is young; each lost advertisement leaves one `Gap`, and `ValidityAssumption` has room for `MaxLost + 1` |
| `NewsToldHolds` | `Spec => []NewsTold` | `NewsInv`: while the network has an old grandmaster the trigger is set and as old as the news |
| `DiscoverAnsweredHolds` | `Spec => []DiscoverAnswered` | `AskedInv`: since the message the timer is a period ahead of it |
| `EntityTypeCorrect` (`EntityProofs`) | `Spec => []TypeOK` | with lemmas on the list: it keeps in its room, `AddKeeps` and `RemoveKeeps` |
| `OneOwnerHolds` | `Spec => []OneOwner` | about a derived class that stores the owner, inductive: a grant needs no owner or the same one, and every end of an ownership clears the record |
| `LockEndsHolds` | `Spec => []LockEnds` | `AgesInv`: an age is at most its time-out and `lag`, and `MaxLag` more while the loop has a new time and has not ticked |
| `KeptUntilTimeoutHolds` | `Spec => KeptUntilTimeout` | `NotYounger`: a stamp that is not younger than the loop's time is judged by the time between them |
| `ToldOnceHolds` | `Spec => ToldOnce` | `ListInv`: a list that counts holds those that were told they are registered, once each; in `RemoveController` the entry that is moved keeps its place among the others |
| `LinkTypeCorrect` (`ControlLinkProofs`) | `Spec => []TypeOK` | inductive |
| `ChangesAreFlaggedHolds` | `Spec => []ChangesAreFlagged` | inductive, from `SetValueItemKeeps` and `SetValueKeeps`: an operation that knows the flag leaves a holder as it is or makes it dirty, and `setValue` always takes the first item |
| `HeadIsRecognisedHolds` (`TcpInputProofs`) | `Spec => []HeadIsRecognised` | `HeadInv`: what the state of the parser says of all octets it took (`ServerKnows`, `ClientKnows`: in which word of the first line it is and whether that was the expected one, or whether the last line is empty so far). One octet moves the knowledge on, whatever came before (`ServerReads`, `ClientReads`), so that no induction over the head is needed |
| `MessagesSplitHolds` | `Spec => []MessagesSplit` | `SplitInv`: what was dispatched divides the stream, and the parser knows the rest of it: it is a piece of a header, a header with a piece of its payload, or begins with a header that the parser refused or that announces no payload (`Between`, `Within`, `Deaf`). An octet completes a message and empties the rest, or the rest grows (`AppReads`, `RestGrows`, `RestDispatched`) |

They rest on the named assumptions `ApsAssumption`, `ApcAssumption`,
`PoolAssumption`, `ControllerAssumption`, `ListAssumption`,
`ClockAssumption`, `LinkAssumption`, `AppAssumption`, which only give the constants their
types (ids have at least one octet), on `EntityAssumption` and `AdpAssumption`, which also
say that the clock's word is wider than the time-outs, and on `ValidityAssumption`.
`AcceptsLatest` holds because a response does not outlive a turn of the sequence
id, which is part of the model of the network; with 65536 ids this is generous.

`ClosesOnlyToFinish` and `AnswersRequests` need `~EagerAccept`, and
`NeverBothWait` needs `~EagerRequest`, because the code does break them without: the
run `proxy_eager` shows it for the last one. No other theorem excludes a liberty.

Model-checked for good: the liveness properties (`RunReturns`, `ServesAgain`,
`TransferEnds`, `Handled`, `GivesUp`, `Converges`), since the prover does
not handle fairness with ENABLED. Every invariant, every action property and every
refinement that a passing run checks is a theorem. What a stream must look like is
stated without recursion for that: `MessagesSplit` names the piece of each message by
`ends` instead of concatenating encodings.
No module uses RECURSIVE operators.

## Not modelled

- `jdksavdecc-c`: accessors of protocol fields, most of them generated. Its three
  largest headers are two thirds of the lines under `src/`. An accessor is one
  load or store at an offset, has no state and no case distinction, and nothing
  a model could add to its text.
- ACMP handlers, `EntityState`, `ControlIdentify`: interfaces and stubs that
  return NOT_IMPLEMENTED and keep no state.
- Handler groups: a table tried in order, `tick` is empty.
- `RangedValue`, `Control`: sequential arithmetic over templates, unused.
- Raw sockets, pcap files: platform and file I/O. Frames, buffers, EUIs: data.
- EEPROM storage, MDNS: declarations. Examples: sketches for boards.
- Of modelled classes: what is collected of HTTP header lines and contents, the
  contents of advertisements and descriptors, the answers of an `EntityState`
  (a choice in `ReceivedSetCommand`).

## Plan

Done: the APS, the id pool, the APC, the proxy connection, commands of a
controller, the entity, the ADP manager, the controls and the parsers, with the
proofs above. Left, most important first:

1. Two senders for one control in `ControlLink`, with the sequence filter they
   share, and what still converges.
2. `ControllerEntity` joined with `Entity`: the owner that answers
   CONTROLLER_AVAILABLE as a second node.
