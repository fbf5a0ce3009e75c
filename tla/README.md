# Verification of ruststream-rumqttc

TLA+ models of `crates/ruststream-rumqttc` (an MQTT 5 broker for the ruststream
framework, over the `rumqttc` client), checked with TLC and proved with TLAPS.
Paths below are relative to the repository root; the crate's sources are under
`crates/ruststream-rumqttc/src/`.

## The system

One service holds one MQTT connection. Everything the service does goes over
it, from many tasks at once, and one task, the connection task, polls the
client's event loop.

| Component | State it keeps | Operations | What makes it correct |
|---|---|---|---|
| **Registry** (`registry.rs`) | `wires`: the filters subscribed, their members, identifiers, turns; `next_member` | `join`, `leave`, `identified`, `resubscribing`, `route`, `holds`, `claims` | a filter is on the server once and until its last member goes; overlapping filters are told apart; a packet reaches the filters it was sent for and no other |
| **Shared / open and close** (`conn.rs`, `subscriber.rs`) | the registry, the SUBACK records (`pending`), packets held for a filter not open yet (`held`), flags | `open`, `send_subscribe`, `release`, `leave`, `forget`, `hold`, `end_filter`, `end` | what the server holds is what the registry holds; a packet held is handed over before live ones; every open returns |
| **Connection task** (`conn.rs`) | the event loop, `parked`, `first_connack`, the policy | `run`, `handle`, `handle_incoming`, `demultiplex`, `lost`, `park`, `unpark`, `connected` | an answer reaches the subscribe it answers; an accepted publish is sent; a lost session is restored |
| **Reconnection** (`reconnect.rs`) | pause, attempts, the recovery under way | `recover`, `Recovery::connect`, `restore`, `restore_all`, `finish` | the mode's bounds, the filters back in order, shutdown ends a recovery |
| **Broker lifecycle** (`broker.rs`) | typestates, the shared `closed` and `exited` flags, two `Notify` | `connect`, `shutdown`, pairing of publishers, `publish` policies | no wake-up is lost; nothing succeeds silently after a shutdown |
| **Publisher** (`publisher.rs`) | nothing but a link | `publish` and its policies | an error or a queued packet |
| **Messages** (`message.rs`) | a delivery and its acknowledgement | `ack`, `nack`, retry copies | one acknowledgement per packet |
| **Filters** (`filter.rs`, `registry.rs`) | none | validation, overlap, matching | overlap says whether one topic can match both |
| **In-process transport** (`in_process.rs`) | the test server's subscriptions, retained messages and log | `subscribe`, `unsubscribe`, `receive`, `release` | it behaves as the wire does |
| `context.rs`, `asyncapi.rs`, `error.rs`, `prelude.rs`, benches, examples, website, scripts | none | | data and tooling; not modelled |

How they interact:

* Tasks of the service call `open`, drop subscribers and publish. `open` joins
  the registry under its mutex, then queues subscribes *after* it released
  the mutex, and waits on a oneshot for the SUBACK.
* The connection task takes the registry mutex for each PUBLISH and for the
  SUBACKs, and sends deliveries into each subscription's unbounded channel.
* The client's request queue (64 entries) is the only way to the server; it is
  FIFO, shared, and refuses when it is full.
* The server echoes the subscription identifiers of the filters a copy of a
  message was sent for. That is all there is to tell overlapping filters apart.

The behaviours that are hard: requests of concurrent opens interleave in the
queue; packets sent before the server saw a change arrive after the client
decided it; subscriptions close, or their callers give up, while their answers
are on the way; a resumed session brings messages, and identifiers, of a
process that is gone; the queue and the hold buffer fill up; a lost connection
leaves records and requests behind; shutdown races everything. PROJECT.json
lists each at its line under `hazards`.

## What is modelled

### `Registry.tla`: the table

`wires` is a sequence of records because its order is state: `swap_remove`
moves the last wire, and the first wire a packet is handed to carries its
acknowledgement. One action per method, each a whole critical section:

| Action | Code |
|---|---|
| `Join` | `Registry::join`: refusal, member and quality of service, identifiers |
| `Leave` | `Registry::leave`, with `swap_remove` when the last member goes |
| `Identified` | a SUBACK of a refresh |
| `Resubscribing` | a CONNACK of a new session |
| `Route` | `Registry::route`: the turns; `Targets`, `Taker` and `CarriesAck` are what it hands to whom |
| `EndFilter`, `End` | the wires `Shared::end_filter` and `Shared::end` take out |

Two functions of text are constants: `Matching`, which filters match a topic,
and `Derived`, the identifier a filter's FNV-1a hash gives. `Overlap` is *some
topic matches both*, which is what `filters_overlap` decides level by level.
`SubscriptionIdentifier`s are `1..MaxIdentifier`; `0` stands for `None`.
`free_identifier`'s loop is the relation `FreeIdentifier` (the probe's first
free step), and the loop of `join` that gives identifiers out one after another
is the relation `Given`: each probe sees those given before it. Counters wrap
as they do in the code (`turn` at `TurnRange`, the probe at `MaxIdentifier`).

`RegistryNext` lets any caller call any method at any time: what holds here
holds whatever the rest of the crate does.

### `Connection.tla`: subscriptions on a connection that is up

It extends `Registry` with the code that calls it and with the two ends of the
wire. Each `o \in Opens` is one call of `open` by a task of its own:

| State `pc[o]` | The call is |
|---|---|
| `idle` | not made |
| `sending` | past the join, with requests in `todo[o]` to queue |
| `waiting` | at the oneshot |
| `open`, `closed` | returned `Ok`; its subscriber is dropped |
| `failed`, `cancelled` | returned `Err`; dropped by its caller |

| Action | Code |
|---|---|
| `OpenJoin` | the critical section of `open`: join, and the packets held for the filter |
| `OpenSend` | one turn of the loop over the requests, with `send_subscribe`; a moot refresh is skipped, a full queue waits |
| `OpenCancel` | the caller drops the future at one of its two awaits |
| `Drop` | `WireSubscriber::drop`: `release`, or `leave` for one the app opened (`Keeps`) |
| `ReceiveSuback` | the SUBACK arm of `handle_incoming` |
| `ReceivePublish`, `Reap` | the PUBLISH arm: `demultiplex`, `hold`, then the members whose stream was gone are released one by one before anything else comes in |
| `ServerTake`, `ServerPublish` | the server (external): FIFO; a subscribe replaces what it held on the filter; one copy of a message per filter, or one for all |

Opens interleave as the code lets them: `join` computes an open's requests under the
registry's lock, and they are queued one by one without it (`conn.rs:267`).

Some state exists for the properties only: `for` in a packet (the filters the
server sent it for), `since` in the server's table (what was published
before it held the filter), and two histories that grow and are read by no action.
`overtaken` collects the filters about which an earlier join had still a request to
queue (`Delayed`) when a later one's was queued about the same filter or one that
meets it; `reopened` those that were opened anew while a refresh of their wire before
was unanswered. What such filters lose is in *Findings*; a property with `InTurn`
as its hypothesis says what holds of a connection while both are empty, and one
with `FilterOf[o] \notin overtaken` what holds of each other filter all the time.

Not in this module: a connection that is lost. A SUBACK here always reaches
the record of the subscribe it answers.

### `Session.tla`: a connection that is lost and recovered

It extends `Registry` too, and takes the other half of the crate's core: the
records, the requests and the publishes, and what becomes of them when the
connection goes. Deliveries change none of these and are left out.

| State | Code |
|---|---|
| `pending` | `Shared::pending`, the SUBACK records with their packet ids |
| `channel`, `setAside`, `unconfirmed`, `lastPkid` | the client: its request queue, `EventLoop::pending`, what it wrote and has not seen confirmed, its counter of packet ids |
| `parked` | `Conn::parked` |
| `task` | where `run` is: `up` (polling), `down` (in `recover`), `ending` (in `Shared::end`, between the streams and the records), `stopping`, `exited` (the flag is set), `gone` (dropped, and the request queue with it) |
| `closed`, `offered` | `Shared::closed`, `Shared::identifiers` |
| `pc`, `publishing`, `shutdown` | how far each caller of `open`, `send` and `shutdown` is |
| `incoming`, `severed`, `server`, `unreleased` | the wire and the server |

| Action | Code |
|---|---|
| `OpenCheck`, `OpenJoin`, `OpenSend`, `Drop` | `open`, step by step: `ensure_open`, the join, one turn of the loop over the requests; the drop of a subscriber |
| `PublishCheck`, `PublishQueue` | `send` in `publisher.rs`: `ensure_open`, then a place in the queue |
| `Shutdown`, `ShutdownQueue` | `shutdown` and its `disconnect` |
| `Write...` | the client writes the next request and yields the event; `WriteSubscribe` gives the packet id to the oldest record without one, `WriteDisconnect` stops the task |
| `ReceiveSuback`, `ReceiveConfirmation` | the SUBACK arm of `handle_incoming`; the confirmations the client handles itself |
| `Sever`, `Lose`, `DialFails`, `Closing` | nothing passes any more; a poll fails (`closed`, a fatal reason, or `lost` and the mode); a dial of `automatic` fails; a shutdown ends the recovery |
| `Connack` | the CONNACK arm: `unpark`, then `connected` with `resubscribing` and the subscribes of a new session |
| `EndRecords`, `Exit` | the second half of `Shared::end`; the end of `run` |

The server reads what is written at once, or, once the connection is `severed`,
not at all: a request the client wrote and the server never read is one written
after `Sever`. Its answers wait in `incoming`, and are lost with the connection.
`answers` in a record (whose subscribe got its packet id), `received` (how often
the server was given a publish) and `renewed` (a new session has begun) exist for
the properties only.

### `Outbox.tla`: what a publish promises

`MqttPublisher` documents that `Ok` means the session owns the message. The
module says that and no more: an accepted publish is received any number of times,
and is let go of only after it was received once, unless the task is over.
`Session` implements it (`KeepsPublishes`): a publish is `accepted` while the
queue, the client or `parked` still has it, whichever of them moves it where.

### `Recovery.tla`: a custom reconnection

It extends `Session` with what a `Reconnector` of the service does between the
CONNACK its dial reached and its return (`task = "restoring"`). The one here
decides about every subscription that is open, in the order `subscriptions`
lists them: it restores it or ends it, may give up at any time, and dials again
when a restore loses the connection.

| Action | Code |
|---|---|
| `Connect` | `Recovery::connect`: the CONNACK, without `connected`'s own resubscribing |
| `Restore`, `RestoreQueue`, `RestoreSuback` | `restore`: the request is computed, enters the queue once it has room, and its answer is waited for; each wait polls (`Polls`), and nothing else does |
| `EndSubscription` | `Recovery::end`, by choice or for a refused filter |
| `Resume`, `Surrender` | what `custom` makes of the reconnector's `Ok` and `Err` |
| `LoseAgain`, `AbandonRestores` | a poll within a restore fails: fatal, or `lost`, `abandon_restores` and another dial |

The tasks of `Session` (opens, drops, publishes, a shutdown) go on meanwhile and
compete for the queue that only the recovery drains.

### `Lifecycle.tla`: connect and shutdown

The clones of one `MqttBroker` share a cell; each initialization of it spawns a
task of its own. One record of state per caller and per task, with each step of
the two flag-and-notify protocols (`Shared::close` against `closing`, the end of
`run` against `stopped`) an action of its own.

| State | Code |
|---|---|
| `pc[c]` | where a caller is: `get_or_try_init` (`calling`, `waiting`), the timeout's branch (`late`, `late_marked`, `late_told`), `shutdown` (`marked` ... `awaiting`) and its ends (`shut`, or `overdue` after the five seconds) |
| `cell` | `MqttBroker::cell` |
| `task[t]`, `watch[t]` | where `run` is, and where the `closing` beside its recovery is |
| `first[t]` | the oneshot of the first CONNACK |
| `queue[t]` | the request queue: acknowledgements and a DISCONNECT |
| `woken` | who `stopped.notify_waiters` woke |

| Action | Code |
|---|---|
| `Initialize`, `Share`, `Established`, `Rejected`, `TimeOut`, `Late...` | `connect` |
| `Shutdown`, `ShutdownNotify`, `ShutdownQueue`, `Stopped...`, `FlushTimeOut` | `shutdown`, `Link::disconnect`, `Shared::stopped` |
| `Ack` | `Link::ack` |
| `DialFails`, `DialRefused`, `PauseEnds`, `Connack` | `run` before and at a CONNACK |
| `Write`, `Stall`, `Lose`, `RecoveryEnds`, `Closing...`, `Exit...` | `run` after it |

A recovery is one phase here: it dials, and is won, given up or closed.

### `Settlement.tla`: deliveries and their acknowledgements

One subscription over several connections, sessions and processes, and a server
that sends at most `Window` messages it has no acknowledgement of, under packet
ids that start again with each session.

| Action | Code |
|---|---|
| `Receive` | `MqttMessage::new`: the delivery keeps its packet to acknowledge by |
| `Settle`, `Refuse` | `ack` and `nack(false)`; `nack(true)`, which sends nothing |
| `WriteAck` | the client writes an acknowledgement; the server takes it for what it sent last under that packet id |
| `Lose`, `DialFails`, `Park` | the acknowledgements still queued are set aside (any of them: the client keeps some) and parked |
| `Connack`, `Unpark` | given back to a session that was kept, dropped with one that was not; the server sends again what it has no acknowledgement of |
| `Crash` | the process dies and starts again with nothing |

The requests in the queue are a set: nothing here depends on their order.

### `TopicFilter.tla` and `InProcess.tla`: the test transport

`TopicFilter` reads topics and filters as sequences of levels: `filters_overlap`
turn by turn (`Verdict`), the match of the client library (external) and the
in-process server's, which treats `$` apart, and share groups on the wire. It
compares them with definitions: what the protocol delivers, and *some topic
matches both*, on which `Overlap` of `Registry` rests. These are pure functions:
its only variable is the pair of filters `asked` about, and nothing follows.

`InProcess` extends `Registry` with the server of `in_process.rs` and the
in-process half of `Shared::open`. An action is what one thread does under one
lock, the server's taken before the registry's:

| Action | Code |
|---|---|
| `OpenJoin`, `RefreshCheck`, `RefreshSubscribe`, `RefreshIdentified`, `Opened` | `Shared::open` over `Link::InProcess` |
| `Subscribe`, `HandRetained` | `Bus::subscribe`, which holds the server's lock (`ServerFree`) until the retained messages are handed over |
| `Drop` | `Bus::release`, or `leave`; the deliveries in the stream go with it |
| `Receive`, `Send` | `Bus::receive`: the packets of a message are made up under the lock, and sent one by one without it |
| `HandOver`, `Hold` | `Bus::hand_over`, `demultiplex`, `Shared::hold` |
| `Settle` | a delivery is dropped, settled or not, and counted out |
| `NextTakers`, `Routes` | `Shared::next_takers` and `ConnectedMqttBroker::routes` |

`routes` is asked with the app's list of subscriptions by name. The list is the app's,
so it is modelled as what the code says of it: those opened under the name, in the
order they were opened, that of their members (`Listed`). It keeps those that closed,
since nothing in the crate takes one out. `NextTakers` are ranks among the members that
sit at the wires *now*, and `Routes` takes them for places in that list, as the code
does. `overtaken` is the history of `Connection`. `Bus::close` is left out: nothing
opens or is published after it, which any behaviour may choose, and that an
acknowledgement then reports an error is in none of the properties.

### Runs

| Run | Question | Bounds, and why they are enough |
|---|---|---|
| `registry` | does the table keep its structure, under every order of calls and every answer? | three filters, of which `both` meets the two others; `left` and `both` derive the same identifier and `right` the last one, so that the probe collides and wraps; three members, so that one leaves from the middle of three wires and two share one; turns wrap at 2 |
| `connection` | does the server hold what the registry does, as each stream needs it? is each message delivered to each filter once, while no request is overtaken? is what a stream gets in order and acknowledged once, and each copy routed to the filter it is for? | two filters that meet, one of them opened twice at different qualities of service, side by side, with callers that give up and a subscription the app opened; two messages, sent one per filter or merged; servers that offer identifiers and that do not; a hold buffer of two; the request queue has room. A session with nothing in it at first: one that holds a filter without an identifier delivers to an overlapping one twice (*Findings*) |
| `opens_return` | does every open return? do messages of a session left by a previous process find their filters? | a queue of one entry, every answer, an open on each filter, given up at either wait; no session, or one that holds both filters with their identifiers; two messages, a packet for each filter |
| `session` | is a publish kept until the server has it? do packet ids meet their records? does an open subscription come back? is what was accepted sent in the end? | two filters that meet, an open on each, a publish at each level, any two of these four calls made (`MaxCalls`), two losses, so that what was given back is lost again; sessions kept and new; both modes; a shutdown at any point, opens under way or not, as other handles of the broker may make them; one dial may fail, which then gives up: a failed dial before the last changes nothing but the count |
| `recovery` | is what a custom recovery did not end on the server? does the recovery end? | two filters that do not meet, an open on each and a publish, two of these calls made; a queue of one entry, which two requests fill; two losses, the second within a recovery (`MayLose`); new sessions, so that nothing is on the server unless it was restored. The two properties hold with `Sessions = {TRUE}` too; both kinds at once are too many states for a run, and `RecoveryRestores` proves the first of both |
| `lifecycle` | is a wake-up lost? do connects and shutdowns return? does a failed connect leave a task behind? is an acknowledgement overtaken by the DISCONNECT? | two clones, so that one initializes after the other failed and both shut down at once; one acknowledgement; a queue of two, which an acknowledgement and a DISCONNECT fill |
| `in_process` | does the in-process server behave as one while subscriptions come and go? does `routes` name whose turn it is? does a stream read a retained message after a newer one of the same thread? do the filter rules agree with the topics they match? | a plain filter opened twice and a share group on the same topic, side by side, so that a wire has two members, two wires meet, and one name has two wires; one kept at its drop, one whose deliveries are settled; two threads and two messages, of which one thread may clear what the other retained; a hold buffer of one; both filters derive one identifier. Beside them, in states of their own, every pair of filters of up to three levels, over two plain levels, one with `$` and both wildcards: the rules look at one level after another and treat the first one and the last one apart |
| `settlement` | is a message acknowledged without being settled? does the server keep one for ever? does what was not acknowledged come back? | three messages, a window and a queue of two, two losses or crashes: what was parked is lost again, and a third message needs a place in the window |
| `opens_race`, `resubscribe_lost`, `routes_after_close`, `stale_ack` | see *Findings* | the smallest instance that shows it |

Deadlock is not checked in the runs of the modules with an environment: once
every subscription is closed and every message delivered, or the task is gone,
the system has nothing to do. `registry` never stops, since a packet can always
come in.

`MaxMember`, `MaxPublishes`, `MaxMessages`, `MaxCalls`, `MaxLosses` and the sets of
opens, messages and callers bound the runs. The registry's rules compare filters and
members pairwise, so that a third of each shows what a pair cannot.

**Fairness** (`FairSpec`): the connection task polls without end
(`ReceiveSuback`, `ReceivePublish`, `Reap`), an open that joined retries every
10 ms (`OpenSend`), and a server that is up takes what it is sent
(`ServerTake`). Nothing makes a caller open, drop or give up, nor anyone
publish. Weak fairness is enough for `OpenSend` in a queue of one because each
open queues finitely many requests: in the end nobody competes for the place.

In `Session` the task polls without end (`Write`, `ReceiveSuback`,
`ReceiveConfirmation`), the keep-alive finds a connection nothing passes through
(`severed /\ Lose`), and a server that can be dialed is dialed in the end
(`Connack`; without it no recovery ends, whatever the code does). Callers and the
network owe nothing. `PublishesArrive` therefore excepts a task that is over.
`Recovery` adds that the reconnector goes on, and that one which dials again
reaches the server in the end.

In `Lifecycle` callers and tasks go on and the timeout of 30 seconds runs out.
Nobody has to call, shut down or acknowledge; the server may leave a dial
unanswered and stop reading, and a recovery may dial for ever. The five seconds
of a shutdown (`FlushTimeOut`) are not fair: `ShutdownsReturn` holds without
them, unless the server stopped reading.

In `Settlement` a dial gets through, what is sent arrives, queued requests are
written, and for each message and connection handlers end: the runtime polls
every handler it started. Neither losses nor crashes are fair, and `MaxLosses`
ends them.

### Assumptions on the environment

* The server is FIFO in both directions, applies a subscribe when it takes it,
  and names the identifiers it holds (MQTT 5). `rumqttc` keeps its queue's order.
* In `Connection` a SUBACK reaches its record. `conn.rs` pairs them by packet
  id, handed out in order: `RecordsInOrder` of `Session` is that pairing, and
  holds as long as the server keeps the session.
* In `Session` the client keeps unconfirmed publishes and releases, and not the
  subscribes it wrote; a failed poll moves what it keeps, and the queue, to
  `EventLoop::pending`. A server that kept the session takes a level 2 publish
  under a packet id it has not released for the one it was already given.
  Packet ids do not wrap. `session` lets the server grant every subscribe:
  a refused resubscribe is only warned about, and its filter is not restored.
* In `Lifecycle` a `Notify` wakes every waiter that registered before
  `notify_waiters`, and no later one; `get_or_try_init` runs one initialization
  at a time, and the next one when it failed. No future is cancelled.
* In `Settlement` a server takes packet ids in turn from 1 in a new session, as
  the common ones do, and a subscription is there throughout. The client keeps any part of
  the acknowledgements queued at a loss.
* In `InProcess` and `TopicFilter` the client's match refuses topics that start
  with `$`, as `rumqttc`'s does, and no filter is written with `$share` by hand.
* `MCConnection` fixes `Derived` to two different identifiers. `registry`, `in_process`
  and the proofs cover collisions.

## What is proved

`RegistryProofs.tla`, checked by TLAPS for every value of the constants: any
set of filters, any topics and any way they overlap, any derivation of
identifiers, any number of members. The only assumption is
`RegistryAssumption` (the types of the constants, and at least one identifier
and one turn).

| Theorem | Property |
|---|---|
| `TypeCorrect` | `RegistryTypeOK` |
| `WireUnique`, `SeatUnique`, `QosHighest`, `IdentifiersDistinct` | `OneWirePerFilter`, `OneSeatPerMember`, `QosOfMembers`, `DistinctIdentifiers` |
| `MeetingWiresIdentified`, `UnnamedOnce`, `CopiesRoutedHome` | `MeetingIdentified`, `OneUnnamed`, `RoutedHome`, on a server that offers identifiers and grants them (`Offers = {TRUE}`, `Answers = {TRUE}`) |

The argument has two layers.

1. `Structure` is the conjunction of the type invariant and the four structural
   properties. Each needs another one: the quality of service of a wire is one
   of its members' only while no wire is empty, a joining member's id is new
   only while every id handed out is below the counter. `StepCases` reduces the
   methods to four kinds of step (a join, a change in place, a member leaving
   others behind, a wire taken out), and one lemma for each kind says what it
   makes of the table (`JoinProperties`, `RetellingProperties`,
   `PartingProperties`, `SwapRemoveProperties`) and another that it keeps
   `Structure`.
2. `Apart` adds `MeetingIdentified` and `OneUnnamed`. Neither is inductive
   without the other parts: a join marks the wires that gain an identifier as
   unnamed, and two of those can never meet *because* wires that met were
   identified before; `OneWirePerFilter` is what makes the joining filter's own
   wire the only one that does not count. `ApartRoutes` derives `RoutedHome`
   from `Apart` alone: it is the reason the identifiers exist.

`ConnectionProofs.tla` carries these over to a connection: `CallsTheRegistry` says
that `Connection`'s `Spec` implements `RegistrySpec`, for any number of opens,
messages and overlapping filters, as long as the filters are finitely many (a
server sends one message once for each). Every step is shown to call one method
of the table at most, with what that method expects: a member that was seated
once, an answer the server gave, identifiers of a packet the server sent. That
last needs what is on its way in: `IncomingSent`, kept by every append and every
read, is the invariant beside `Structure`. `MeetingFiltersIdentified` and
`PacketsRoutedHome` then say `MeetingIdentified` and `RoutedHome` of the
connection.

It goes on to the queues of the connection, for any opens, messages and finite
set of filters, and any size of the request queue and the hold buffer:

| Theorem | Property |
|---|---|
| `ConnectionTyped` | `TypeOK` |
| `DeliveriesInOrder` | `InOrder`: a stream never gets an older message after a newer one |
| `NeverAckedTwice` | no two deliveries of one packet acknowledge it, whoever drops an `open` |
| `AckedByOne` | `AckedOnce`: one delivery of each packet does, as long as no caller gave up an `open` (`NoneGivenUp`) |
| `StreamsServed` | `QosServedInTurn` |
| `ServerAgrees` | `IdentifiersAgree`, on a server that grants every refresh (`Answers = {TRUE}`) |
| `HeldWhileNeeded` | `ServerHoldsWires`, on a server that grants what it is asked, while the request queue has room |

* The order (`OrderInv`) is that of three places at once (`InLine`): what is on
  the wire is in order, what is in the buffer is, and comes before what is on the
  wire, and so does what a stream holds, where no packet is that is still in the
  buffer. The last part makes a join safe: what it hands over is older than
  what comes in later, although the buffer dropped its oldest packet when it was
  full, and the stream that takes it was empty. `TypeOK` and `Shape` give the
  form of the queues, `Known` bounds the messages.
* What the rest is built on (`SeatedInv`) is who sits where and who waits for
  what, for any opens, given up or not: each stream that exists keeps its member's
  seat on its filter's wire (`Placed`), because a member is taken out only by its
  own drop, by the refusal of its own subscribe (`Answering`: one request or answer
  on its way for each open that waits or was given up) or by the connection task,
  which found its stream gone (`Reaped`).
* For the acknowledgements, `AckInv` adds that an open's member is its own
  (`Numbered`) and that no two deliveries of one packet acknowledge (`OneAck`).
  That a delivery does (`SomeAck`) needs whoever sits at the table to be an open
  that still reads its stream (`Seats`), which an `open` given up breaks: the
  hypothesis of `AckedOnce`, and the finding about it (see below).
* `StreamsServed` and `ServerAgrees` follow what is asked for from the join to the
  table of the server (`AskedInv`), with opens that interleave in any way, are refused,
  given up and dropped. What the server holds, or is asked for, *suits* a stream
  (`Suits`) when it has the stream's quality of service or above and the
  identifier of its wire, or none while the wire is marked. For each stream that
  exists and has queued its own subscribe (`Upheld`), either the server's
  subscription suits it, and so does whatever is queued about its filter; or its
  own subscribe is in the queue, and suits it with all that follows; or the refusal is
  on its way to the open.

  What makes that inductive is what the opens have still to queue (`DueFits`): a
  request suits every stream that joined before it was computed, and where one that
  joined *after* has queued its own already, the filter is overtaken. So a request
  that is queued late can only spoil a filter that `overtaken` has by then, and no
  step needs to know in which order the opens go. The identifier needs more, because
  the answer to a refresh takes the mark off the wire: a refresh that is due, queued
  or answered names the identifier the wire keeps (`Attaching`), and whatever is
  queued about its filter behind it names that one too (`RefreshFits`, `Carries`), as
  long as the filter was not overtaken, nor released and opened anew with a
  refresh unanswered (`Firm`, `Steady`). *Findings* has what happens to the filters
  that are left out.
* `HeldWhileNeeded` is about all filters, whatever overtook what. Of all that is
  queued about a filter only the last request counts, and its kind, not its contents
  (`EndsUp`): it is a subscribe while the table holds the filter, or an open on it
  has its own still to queue, and an unsubscribe once the last of its streams was
  dropped (`LastAsked`). The two places
  where this is delicate are the steps that read the table and queue: a refresh is
  dropped when its filter is no longer held (`Moot`), and a release queues its
  unsubscribe in the critical section that takes the wire out. The hypotheses are a
  server that grants what it is asked and a queue with room, since a full one drops
  the unsubscribe; *Findings* has both.

`SessionProofs.tla`, for any filters, opens, publishes, losses and dials, kept and
new sessions, and any capacity:

| Theorem | Property |
|---|---|
| `LevelTwoOnce` | `ExactlyOnce` |
| `OutboxImplemented` | `KeepsPublishes`: `Session` implements `Outbox` |
| `RecordsMatched` | `RecordsInOrder` |
| `RestoredAfterFirstLoss` | `FirstLossRestored`, where subscribes are granted, no mode is custom and a new session finds room in the queue |

`ExactlyOnce` is about one counter and rests on where every packet is. What is
ahead of the client's write (`Ahead`: parked, set aside, queued, in this order) and
what it wrote and has not seen confirmed are the two sequences of the proof; park
and unpark are shown to move traffic between the parts of the first and to drop
none of it, so most steps are `Quiet`. `Ledger` then says that a message is at one
place at most (`Placed`), that a packet id is one message's and none is ahead of
the counter (`Numbered`), that the server answers only what it was given, and an
answered publish is not written again (`PkidsKnown`), and that a level 2 publish
which was given once is still known to the server under its packet id, as long as
the session is kept (`Known`). The refinement maps each step to one of `Outbox` or
to a stutter: a record that leaves both sequences was received. `RecordsMatched`
compares two sequences that `conn.rs` keeps apart: whom the subscribes in the
queue are sent for, and who waits in `pending` without a packet id (`RInv`): a write
takes the first of both, a loss parks the subscribes in their order, and an answer
takes out a record that has its packet id.

`RestoredAfterFirstLoss` is about the table of `registry.rs`, the queues of the
client and the server's session at once, while opens join, wait, are given up and
are closed on either side of the loss. Its invariant (`FInv`, beside `SInv`,
`RInv` and the registry's `Structure`) speaks of what is *asked*: the subscribes and
unsubscribes ahead of the client's write, in order (`Asked`). Until the loss, and
after it if the session was kept, the server holds the filter of each open
subscription, and no unsubscribe of it is on its way (`Firm`, `Upheld`); the same is
true from the moment a SUBACK for it is under way, which is where a subscription
becomes an open one. That needs the queue to be in the right order: an unsubscribe that a
release queued comes before the subscribe of the open that joined afterwards, in
`parked` as well as in `channel` (`Behind`). After a new session, `unpark` has
dropped what asked for the old one, `connected` asks for every filter of the
table, and from there each filter an open waits for or has is on the server or about
to be, each unsubscribe of it with a subscribe behind it (`Coming`,
`Restored`). `Members` ties the opens to the table: who waits or is open sits at
the wire of its filter, so that `connected`, which reads only the table, reaches
it. `Course` is the path the first loss takes through the task's states.

Its hypotheses: a server that grants what it is asked (a refusal closes the open, and
may leave a filter to nobody: *Findings*); no custom mode, which restores what
it chooses (`RecoveryProofs.tla`); and `RoomToRenew`, that the queue has room for the
table's subscribes in the step that begins a new session, since `connected` drops
those that do not fit with a warning (`conn.rs:445`). It is said of that step
alone and of no other use of the queue. TLC agrees on both sides: with
`Capacity = 2` the property fails, and holds again under that hypothesis.

`RecoveryProofs.tla`, for any filters, opens, publishes and dials, kept and new
sessions, any answers of the server, any capacity, and every choice of the
reconnector:

| Theorem | Property |
|---|---|
| `RecoveryRestores` | `FirstRecoveryRestores` |

The invariant (`VInv`) is about the time up to the second loss, while the task is at
work and no CONNACK found a record whose subscribe is gone; beside `SInv` and the
records in step it has three parts.

* `Stage` is how far the recovery is: only a recovery has filters that are not
  decided about (`left`), and the restore under way is of the first of them.
* `Table` is the registry's `Structure`, with each open at a place of its own on the
  wire of its filter, if it sits at all (`Seats`): `Recovery::end` takes whole wires
  out, and another open may hold the same filter again. That is why
  `FirstRecoveryRestores` asks for the open's own place (`Lives`), not for its filter.
* `Holding` has `Upholding`, which carries the property: the filter of whoever is
  subscribed is on the server or in `left`, and no unsubscribe of it is on its
  way. A filter leaves `left` when its wire was taken out, when nobody sits at it, or
  when its restore was granted. So a granted restore, while its SUBACK is on the
  wire, must be of a filter the server has (`RestoresGranted`); and the SUBACK must
  find the record of that restore, which needs one record for each open and each
  restore, of an open that waits or the restore that does (`Recording`). A
  subscription that is new after the loss rests on the same arguments as for
  `RestoredAfterFirstLoss`: `Entered` stands for `Behind`, `OpensGranted` for
  `Upheld`.

It has no hypotheses: a refused restore ends its subscription or the recovery, a
refused open leaves, and a full queue makes a restore wait and no more. An
unsubscribe may go out between two restores, and only of a filter nobody sits at
(`HoldingDropped`).

`InProcessProofs.tla`, for any subscriptions and threads, any messages and a
finite set of topics:

| Theorem | Property |
|---|---|
| `ReadInOrder` | `NeverOlder` |
| `HarnessCounts` | `InFlightCounts` |
| `OpensServed` | `OpenIsServed` |
| `HarnessTold` | `RoutesToldLastClosed`, where the server matches topics as the registry does (`ServerMatching = Matching`: all but those that start with `$`) |

* `NeverOlder` holds of the streams because of two facts about what has not
  reached them yet (`Sources`): every packet about to be handed over, sent by a
  thread or retained, is of the last message with its key (`Latest`), which needs
  the server's lock (`ServerFree`) for the retained ones and one message under way
  per thread for the others; and the buffer is in order too (`Older`), as it is
  handed to a stream at a join.
* The count is that of the places in the streams nobody is done with (`Waiting`). A
  handover counts one for each wire it is for. It adds one place for each, in
  streams that are read, because a wire's turn is one member's, a member is one
  subscription's (`Numbered`), and who sits at the table was not dropped (`Seats`):
  `CountedHanded` counts by that bijection.
* `OpenIsServed` has the argument of `Connection` with an open's own steps in the place of
  the queue (`Asked`): a request still to be made suits every stream that joined before it
  (`DueFits`), and where a later one has been served already the filter is overtaken;
  a refresh that is due, or was made and not yet recorded (`attached`), names the
  identifier the wire keeps (`Attaching`). A drop in the middle of that takes the wire out, and
  another open may bring it back with an identifier of its own, which the answer of
  the old refresh finds recorded already (`Told`): that is why nothing here needs
  `reopened`. Opens interleave in any way, and there is no hypothesis but a finite set of
  topics.
* `RoutesToldLastClosed` compares two orders. A message's copies go to the members whose turn it
  is, one for each wire of the topic, since at rest the server has each wire
  (`SettledServes`, from `OpenIsServed`) and wires are told apart (`ApartRoutes`); so
  `Takes` are the takers (`TakesTurns`). `Routes` names a place in the app's list by
  a rank among the members that are left. The two agree when everyone in the list that joined
  before a member that is left is left too (`PlacesTold`), ranks being injective
  (`RankApart`). That those closed under a name joined last is the property's hypothesis, and
  cannot be left out: `routes_after_close`.

`RegistryProofs.tla` also holds what these proofs share: a sequence is a `Vector`
whatever it is of, and `Select`, which stands for `SelectSeq` and `retain`, keeps
the places that pass in their order. `Vectors.tla` defines it by the places it
keeps, counted off by `Rank`, and not by recursion, so that its facts (that it
distributes over concatenation, what it drops, that it keeps the order) need no
induction.

`LifecycleProofs.tla`, for any number of clones and acknowledgements and any
capacity of the queue (`LifecycleAssumption`: the types of the constants):

| Theorem | Property |
|---|---|
| `TypeCorrect` | `TypeOK` |
| `OneTaskRuns` | `OneTask` |
| `ReasonAlwaysGiven` | `ReasonGiven` |
| `WakeUpsAlwaysReach` | `WakeUpsReach` |
| `AcksAlwaysFlushed` | `AcksFlushed` |

None of these is inductive. `IInv` adds whose task is whose (`Owned`: a task that
neither the cell nor a waiting caller has is closed; one caller initializes at a
time), that what a task said agrees with where it is (`Answered`), that whoever
is past its `close` set the flag (`Told`), that a woken shutdown finds its task
past the exit (`Woken`), and for `AcksFlushed` the contents of the queues: an
acknowledgement is queued once, in the queue of the cell's task, and every early
one before any DISCONNECT (`Queues`), so that the task cannot leave its loop by a
DISCONNECT while one is queued (`Early`). One lemma per part of `IInv`, and in it a
step per action or group of actions.

`SettlementProofs.tla`: `AcksFindTheirMessages`, for any number of messages and
losses, any window and queue. As long as no session is lost while handlers hold
its deliveries (`~Overtakes`), `AckedMeansSettled` holds. The invariant is that
every delivery, and every acknowledgement queued or parked, names a message by
the packet id the server knows it under in this session. `stale_ack` is what the
hypothesis keeps out.

`TopicFilterProofs.tla`, for any levels, and filters and topics of any length
(`TopicFilterAssumption`):

| Theorem | Property |
|---|---|
| `ServerFollowsProtocol` | `ServerDelivers` |
| `OverlapDecides` | `OverlapIsMeeting`, over all topics (`EveryTopic`), with a level that has no `$` and none that has two (`SingleDollar`) |

No induction is needed: both matches are brought to one statement about a topic
and a filter (`Agrees`), and the turn that decides is named outright: the first
`#` of either filter, or one past the end of both (`MeetingSeen`). The other way,
`MeetingTopic` builds the topic from the two filters.

Only model-checked are the liveness properties, which need fairness, and three about
packets on their way while the table changes under them: `DeliveredOnceInTurn`,
`PacketHome` and `PacketReaches`. Every other invariant and action property of a
passing run is stated by a theorem.

## Findings

Each of these is a run that TLC shows violated; PROJECT.json quotes the lines.

* `opens_race`: two overlapping filters are opened **at the same time**. Both joins
  run first, then the second open queues the refresh that attaches an identifier to
  the first filter, and only then the first open queues its own subscribe, computed
  when it had none. The server drops the identifier again, the registry believes it
  is attached, and a message on both filters is delivered twice to a subscription
  (`docs/components/subscriptions/overlaps.md:12`). `DeliveredOnceInTurn` and
  `IdentifiersAgree` are what holds. The runtime opens an app's subscriptions one after
  another at startup, which rules this out; those opened by hand need not be.
* `routes_after_close`: of two subscriptions under one name the first is dropped. `routes`
  takes a rank among the members that are left for a place in the app's list and names the
  one that closed (`broker.rs:1008`). `RoutesToldLastClosed` is what holds.
* `stale_ack`: a handler still has a delivery when the session is lost. `unpark`
  drops the acknowledgements parked until the CONNACK, but the handler's own
  comes later, and the old packet id it carries is that of another message in
  the new session. The server takes that message for acknowledged before any
  handler settled it: a crash, or a `retry`, then loses it.
* `resubscribe_lost`: the connection is lost again while the subscribes of a new
  session are on the wire. The next CONNACK reports that session as present,
  nothing is subscribed again, and an open subscription stays silent.
  `FirstLossRestored` is what holds.

The others were met while modelling. The properties named here are in the
modules, fail in the runs the sentences describe, and no run checks them.

Opens and records:

* Two subscriptions on one filter are opened at the same time at different qualities of
  service. The request of the lower one, computed before the other joined, reaches the
  server last and stays (`registry.rs:127`; `QosServed` of `Connection`).
  `QosServedInTurn` is what holds.
* A filter is released and opened anew while the refresh of its wire before is on its
  way. The answer to that refresh takes the mark off the new wire (`registry.rs:225`),
  whose own refresh is still to be taken, so packets that name no identifier are no
  longer expected on it (`NamedOnceAnswered` of `Connection`, with each of two filters
  opened twice and one of them in the session).
* The server grants a filter to one member and refuses it to a second; if the
  first has left by then, the refused one is the filter's last member, and
  `forget` leaves the filter on the server for nobody (`registry.rs:5`).
* An open has queued its subscribe when the connection is lost, and the server
  lost the session. `unpark` drops the subscribe and keeps the record, so
  `connected`'s subscribes answer the records one place off: an open is told
  what the server said of another filter, and the last record waits on and takes
  the next open's answer (`SubacksReachTheirRecords` of `Session`). With a
  custom recovery the restore that should get that answer may wait for ever:
  `RecoveriesEnd` assumes records that match.
* An open queues its subscribe after `end` failed the records and before the task
  drops the event loop. It waits for ever (`EndFailsEveryOpen` of `Session`).

Recoveries:

* `restore` computes its request and queues it later under no lock, so a
  subscription closed in between is put back on the server for nobody
  (`reconnect.rs:469`).
* `abandon_restores` forgets restores nobody waits for; the one that calls it is
  still there, so its own record stays and takes a packet id of the next dial
  (`NoStaleRestore`).
* `swap_remove` breaks "in the order they were opened" (`reconnect.rs:442`,
  `conn.rs:451`) once a wire before the last one left.

Lifecycle:

* An acknowledgement made after a shutdown returned is accepted while the task
  has not dropped its event loop yet, and never written (`LateAcksRefused`;
  `docs/components/broker/shutdown.md:26`).
* The wait for a place in the request queue (`broker.rs:103`) is outside the five
  seconds, so a shutdown beside a full queue and a server that stopped reading
  does not return. A `connect` future that is dropped leaves its task running.

Settlement:

* Each resumed session delivers again what a slow subscription still has in its
  stream, so up to a window more waits there after each reconnect
  (`StreamBounded`; `docs/architecture/mqtt/qos.md:59`).

In process:

* `RefreshCheck` and the subscribe after it are not one step (`conn.rs:245`): a
  drop in between leaves the filter on the server for nobody
  (`ServerHoldsOnly`; `in_process.rs:254` promises one step).
* A packet made up before a refresh and sent after it names no identifier and
  falls to both of two filters that meet. Two publishing threads can hand a
  stream their messages in the other order than the server took them.
* A packet that was made up may miss its filter (`PacketReaches`) where a drop left a
  plain filter on the server and another subscription opens it again beside one it
  meets (`Keeps = {first}`): it names no identifier, and goes to the wire that has
  just gained one. The same may happen where two filters derive one identifier and
  a filter stays on the server with the one it was given next: opened again under its
  own, it does not claim a packet that names the old one. The filters of `in_process`
  do derive one identifier, and its three opens are too few for that.
* A message on a topic that starts with `$` is sent for the filters that name it
  and the client's match refuses it (`DemultiplexTakes`;
  `docs/guides/topics.md:79`).

Seen while modelling, and not runs of their own:

* A full request queue makes `release` drop its unsubscribe with a warning
  (`ServerHoldsWires` fails with a small `Capacity`), and `connected` the subscribes
  that do not fit.
* A session that holds a filter without an identifier (from a process, or an app's
  subscription, that opened fewer filters) delivers to an overlapping one twice. One
  that holds a filter with its identifier does too, when that filter is opened again
  beside a plain one that is dropped while its copy of a message is on its way
  (`DeliveredOnceInTurn` with `Resumable <- OwnSessions`). So does a filter the app kept at
  its drop and opens again, which is why `DeliveredOnceInTurn` excepts those.
* Where two filters derive one identifier, a packet held under the one that was
  dropped is claimed by the next subscription on the other, whose filter had its own
  copy (`registry.rs:218`; `DeliveredOnceInTurn` with a `Derived` that is not injective).
* An open its caller gave up leaves a member that takes one delivery, with its
  acknowledgement, before it is noticed. An open whose SUBACK is lost with the
  connection waits until its caller gives up, since nothing fails its record.

## Plan

Done: all modules above. What could follow: subscriptions that open while
`Settlement` loses connections, and two that share a packet.

## Not modelled, and why

TLS, sockets and the MQTT codec (the client library); the builder of the broker
(`broker.rs` up to `connect`: URL, login, TLS and limits become client options);
message formatting, headers and user properties (`message.rs`'s conversions, no
state), with the size of a packet; the checks of characters in topics; the
publish policies, each a quality of service and a retain flag; `context.rs`,
`asyncapi.rs` and `error.rs` (data); the website, scripts, benches and examples.
Most of the lines of the sources are documentation comments with their
examples, tests of their own, and these.
The 10 ms retry and the reconnection pauses have no duration in
the models: any order the pauses allow is a behaviour.

## Running

    tlc -workers 2 -config MCConnection.cfg MCConnection
    tlc -workers 2 -config MCOpensReturn.cfg MCConnection
    tlc -workers 2 -config MCSession.cfg MCSession
    tlc -workers 2 -config MCRecovery.cfg MCRecovery
    tlc -workers 2 -config MCLifecycle.cfg MCLifecycle
    tlc -workers 2 -config MCInProcess.cfg MCInProcess
    tlc -workers 2 -config MCSettlement.cfg MCSettlement
    tlapm RegistryProofs.tla
    tlapm ConnectionProofs.tla
    tlapm SessionProofs.tla
    tlapm RecoveryProofs.tla
    tlapm InProcessProofs.tla
    tlapm LifecycleProofs.tla
    tlapm SettlementProofs.tla
    tlapm TopicFilterProofs.tla
