# TLA+ verification of MQTT.js

MQTT.js (`src/`) is an MQTT 3.1/3.1.1/5 client for Node.js and browsers.  This
directory holds TLA+ models of its client library, the TLC runs that check them
and theorems checked by TLAPS.  Every model is translated from the TypeScript
source; `PROJECT.json` maps each definition to the lines it stands for.

## Inventory

One `MqttClient` object (`src/src/lib/client.ts`) does the work.  JavaScript runs
one task to completion, so nothing is preempted: what interleaves is user calls,
the events of a stream (data, `drain`, `close`), timers, `nextTick` callbacks and
the user's asynchronous handlers.

| Component | State it keeps | Operations | Makes it correct | Module |
|---|---|---|---|---|
| Outgoing session (`client.ts`, `handlers/ack.ts`, `store.ts`) | `outgoing` (identifier -> callback), `outgoingStore`, `queue`, `_storeProcessingQueue`, `_resubscribeTopics`, `messageIdToTopic`, drain listeners | publish, subscribe, unsubscribe, removeOutgoingMessage, acks, replay, resubscribe, flushes | a callback runs once; store and table agree; identifiers do not collide; calls begin in order; waiting calls are released | `OutgoingSession` |
| Identifier providers (`default-` and `unique-message-id-provider.ts`) | `nextId`, or a set of free intervals | allocate, register, deallocate, clear | no identifier in flight is handed out | `OutgoingSession` |
| Path of a publish (client, connection, broker) | the broker's session | | QoS 2 is delivered once, QoS 1 at least once, the callback tells the truth | `PublishFlow`, `DeliveryContract` |
| Connection life cycle (`client.ts`, `handlers/connack.ts`) | `connected`, `reconnecting`, `disconnecting`, `disconnected`, `_deferredReconnect`, `reconnectTimer`, `connackTimer`, the stream | connect, end, reconnect, connack, close, timers | one live stream; a lost connection is retried; `end` finishes and calls back; nothing connects after it | `Lifecycle` |
| Incoming messages (`handlers/index.ts`, `publish.ts`, `pubrel.ts`) | each connection's `packets` and pending `done`, `incomingStore`, `topicAliasRecv` | PUBLISH, PUBREL, handleMessage, customHandleAcks | order kept, QoS 2 emitted once and under its topic, every message answered | `Incoming` |
| Topic aliases (`topic-alias-send.ts`, `topic-alias-recv.ts`) | two maps, LRU cache, allocator | put, getTopicByAlias, getLruAlias, clear | both ends map an alias to the same topic | `TopicAliases`, `Incoming` |
| Keepalive (`KeepaliveManager.ts`) | counter, timer, interval | setKeepalive, reschedule, destroy | a dead connection times out, a live one does not | `Keepalive` |
| Buffered duplex and WebSocket (`BufferedDuplex.ts`, `connect/ws.ts`) | write queue, open flag, the proxy's throttle | write, socketReady, end, destroy, socket events | writes kept in order until the socket opens, and whole at `end()` | `WebSocketStream` |
| SOCKS proxy (`connect/socks.ts`) | the socket, `_flowing`, corked writes | _start, _write, _read, _destroy | the same, backpressure, no socket left behind | `SocksStream` |
| Stream builders (`connect/`) | server index | connect, connectAsync | each attempt uses the next server | - |
| Validation (`validations.ts`), authentication (`handlers/auth.ts`), timers (`get-timer.ts`), command line (`src/bin`) | none or little | | | - |

They interact through calls and shared fields of the client: the stream's `close`
makes the life cycle flush the outgoing session; a CONNACK makes it replay the
store; the outgoing session writes to the stream the life cycle made; acks come
in through the incoming side's work queue; received answers reschedule the
keepalive, whose timeout closes the stream.

The behaviours that are hard: a connection lost in the middle of the replay of
the store, calls made during it, acks handled after the close, identifiers freed
and taken again at each connection, several holders of one callback, timers
racing a late `close`, `end` and `reconnect` in any order, a slow `handleMessage`
over two connections, aliases that outlive the connection they were made for,
writes made before a socket opens.  `PROJECT.json` "hazards" lists them with their
lines.

## Modules

| Module | Composes or proves | Runs |
|---|---|---|
| `OutgoingSession`, `MCOutgoingSession` | the outgoing half of the client against an unconstrained broker | `session_unique`, `session_default`, `unique_id_stolen` |
| `PublishFlow`, `MCPublishFlow` | `OutgoingSession` with a connection and a broker; implements `DeliveryContract` | `publish_flow` |
| `Lifecycle`, `MCLifecycle` | connect, CONNACK, close, timers, `end`, `reconnect` | `lifecycle_retry`, `lifecycle_drain` |
| `Incoming`, `MCIncoming` | received messages, with a broker that sends again | `incoming`, `empty_topic` |
| `TopicAliases`, `MCTopicAliases` | aliases of publishes, with the broker's table | `topic_alias`, `alias_after_disconnect` |
| `Keepalive`, `MCKeepalive` | the keepalive timer in discrete time | `keepalive` |
| `WebSocketStream`, `SocksStream`, `MCStreams` | the streams; both implement `OrderedStream` | `streams` |
| `OutgoingSession_proofs`, `CallOrder_proofs`, `Lifecycle_proofs`, `TopicAliases_proofs`, `Incoming_proofs`, `Keepalive_proofs`, `Streams_proofs`, `PublishFlow_proofs` | theorems | |

`OutgoingSession` is used unchanged by `PublishFlow`: the broker that was free to
acknowledge anything becomes one that answers what it gets.

The plan has left: `subscribe` in batches, and the composition of `Lifecycle` with
`OutgoingSession`.

## OutgoingSession

One action per operation.  A loop of the code (the replay, the release of
waiting calls, delivery of the offline queue, the flushes) is a chain of steps,
one per iteration; the variable `task` names the loop and disables everything
else until it ends, because JavaScript would not run anything else.

| Variable | Code |
|---|---|
| `connected`, `reconnectTimer`, `connackPacket`, `firstConnection` | the client's fields of these names (of `connackPacket`, whether there was one and its `sessionPresent`); `reconnectTimer /\ connected` is a stream destroyed by the keepalive whose `close` is still to come |
| `outgoing` | `client.outgoing`; `volatile` as in the code, `replay` says that the entry's callback is the one `storeDeliver` wrapped |
| `store`, `queue`, `spq` | `outgoingStore` (a Map keeps insertion order), `queue`, `_storeProcessingQueue` |
| `used`, `nextId` | the state of the two identifier providers |
| `stream`, `rest`, `storeProcessing` | the store's read stream and its snapshot, `_storeProcessing` |
| `resub`, `topicsOf` | `_resubscribeTopics`, `messageIdToTopic` |
| `parked` | callbacks attached with `stream.once('drain', cb)` |
| `written` | the packets the step wrote |
| `issued`, `called`, `succeeded`, `drops` | history variables for the properties and the bound |

The user calls `Call` and `RemoveOutgoingMessage`; `Connack`, `Drain`,
`KeepaliveTimeout`, `Close` and the acks are the environment; the rest are loops.

### Runs

| Run | Asks | Bounds |
|---|---|---|
| `session_unique` | callbacks have one holder and run at most once; the store has no ownerless message; calls begin in order; nothing interrupts a replay | four publishes of QoS 1, 2, 1 and 0, two identifiers with the unique provider so that calls wait, backpressure, one close |
| `session_default` | what is in flight is stored, no pending call is forgotten, calls made during a replay begin when it ends | a subscribe, its unsubscribe and a QoS 2 publish, sequential identifiers, two closes (three connections, of which the second resubscribes), and acks handled after the close while the queue has less than two packets |
| `unique_id_stolen` | finding: an identifier in flight is handed to another request | publishes only, one close |

Two closes are needed for the interesting crash, one while the replay after the
first is under way.  Two identifiers for four calls make calls wait, begin and
wait again.  Deadlock is not checked: the calls and closes are bounded, so the
model stops when they are used up.  Liveness is asked of `PublishFlow`, which has a
broker that answers.

`InFlightIsStored`, `PendingIsHeld` and `WaitingIsReleased` hold for sequential
identifiers and are not expected of every setting.  `session_default` has as many
identifiers as allocations, so no identifier is given twice in it; that one is given
again, while others are in flight, is met by `session_unique` and `publish_flow` with two
identifiers, and `IdIsNotStolen` is asked of `publish_flow`.  With the unique provider it
is false beyond what that module allows the user (`unique_id_stolen`), and
`InFlightIsStored` with it.
`WaitingIsReleased` is false with one unique identifier (`WaitingStalled.cfg`, kept for
the reader): each ack begins one waiting call (client.ts:2384), and if that is a
QoS 0 publish no further ack follows, so the calls behind it wait though nothing
is in flight.

`unique_id_stolen`: `_onConnect` frees every identifier (client.ts:2274) and the
replay registers them again one at a time.  If the connection closes before
the replay is over, a publish made offline gets the smallest free identifier:
that of a stored message not replayed yet, whose store entry and callback it
replaces.  The README says the unique provider gives "non conflict messageId".

### Proofs (`OutgoingSession_proofs`, `CallOrder_proofs`)

The first five hold for every set of calls, every bound and both providers, from
the assumption `Parameters` alone; the others name what else they assume.

* `TypeCorrect`: `TypeOK` is inductive.  `Packet` says that only a publish has no
  identifier; that a stored packet has one is what the store's `put` needs.
* `OneHolderAlways`: `OneHolder` is inductive relative to `TypeOK`.  It says more
  than that a callback runs at most once: a call whose callback has not run has
  one holder among the waiting calls, the table, the queue and the drain
  listeners, and a call whose callback has run has none.  `RightKinds` (a QoS 0
  call is never in the table, other calls never in `parked`) keeps those places
  disjoint.  The steps are of two sorts: a step that begins a call (`BeginsOnly`)
  and a step in which a holder lets go (`LetsGo`); a lemma for each sort carries
  the invariant, and each action is shown to be of one sort.
* `CallbackOnce` follows.
* `BeginInOrder`: calls begin in the order they were made.  That no call has begun
  over a waiting one (`NoneOvertakes`) is not inductive: it takes that the waiting
  calls stand in that order (`WaitInOrder`) and that what has begun or waits was
  made (`HeldWasIssued`).  Most steps begin nothing new; a call begins at once only
  when nobody waits, and `Invoke` begins the first that waits.
* `ReplayUninterrupted`: the action property `ReplayIsNotInterrupted`.  Its invariant
  says that while the store's stream is open the loops that begin waiting calls
  and deliver the queue do not run, nor wait for `drain` to go on (`ReplayIsAlone`),
  that loops that write run online (`LoopsAreOnline`), and that only the flushes
  run offline (`OfflineIsQuiet`).

The rest is about identifiers, and is not true of every behaviour.  Each theorem
states what it takes, and nothing else is assumed:

| theorem | property | assumes |
| --- | --- | --- |
| `PendingHeld` | `PendingIsHeld` | `IdIsNotStolen` |
| `StoredInFlight` | `StoredIsInFlight` | no late ack; no (un)subscribe is given a message's identifier |
| `PublishedInFlight` | `StoredIsInFlight` | no late ack; the calls are publishes |
| `InFlightStored` | `InFlightIsStored` | default provider, `OnlyFreeGiven` |
| `NextIdPendingHeld` | `PendingIsHeld` | default provider, `OnlyFreeGiven` |
| `NextIdStoredInFlight` | `StoredIsInFlight` | default provider, `OnlyFreeGiven`, no late ack |
| `WaitingReleased` | `WaitingIsReleased` | default provider |

* `OnlyFreeGiven` restricts the behaviours, not the model: whenever `nextId` moves on, the
  identifier it gives is borne by nothing in the table, the store, a replay or the queue.  `nextId`
  may go through its wrap any number of times.  The default provider does not look at what is in
  flight (default-message-id-provider.ts:60), so a round later it may give an identifier
  that is still in use: that is the hazard listed there, which no theorem excludes.  That it then
  steals nothing is close to the hypothesis and only a lemma (`FreeIdsKept`); what the theorems say
  is what else has to be right: that the store keeps what is in flight over acks, late
  acks, queued packets and replays, and that no call is forgotten.  They also take `MaxId > 1`:
  with one identifier `nextId` never moves, and the hypothesis says nothing.
* `TableInv` is inductive in such behaviours: what is stored or being replayed
  finds a message in the table or nothing (`OfMessages`), a queued pubrel finds its own
  message (`PubrelsOwned`), and a message in the table is in the store
  (`MessagesKept`).  It holds with late acks.
* `AllHeld` (for `PendingHeld`): a call leaves the table or the waiting calls only when
  its callback runs or when it goes from one to the other.  A stolen identifier
  breaks it, so it is assumed away; for the default provider `FreeIdsKept` reduces the
  assumption to `OnlyFreeGiven`; for the unique one `unique_id_stolen` shows that it is needed;
  for a client that only publishes, and makes no call that takes an identifier while a stored
  message has no registered one, `UniqueIdsNotStolen` (in `PublishFlow_proofs`) removes it too.
* `StoredInv` (for `StoredIsInFlight`): stored identifiers are distinct, each has the
  entry of its message, and no pubrel is queued.  A pubrel is queued when a pubrec
  is handled after the connection closed (`LateAcks`), and `deliver` stores it
  (client.ts:669) when its entry may be gone.  `PublishedInFlight` needs nothing of
  the provider: a publish that takes the identifier of a stored message takes its
  place in the store too.
* `WaitingReleased`: with the default provider a call waits only for the end of a
  replay (`NoneWaits`), which begins all that wait; the close fails them.

### Abstractions

* A subscribe has one chunk (`subscribeBatchSize` unset) and is granted or
  refused as a whole.  All subscriptions have one QoS: a topic already held is not sent
  again, as it would be with a higher QoS (client.ts:1175).
* Resubscription sends one SUBSCRIBE, as with MQTT 3.  The MQTT 5 branch sends one for each
  topic (client.ts:2231); the runs have a single topic, where the two are the same.
* There is a `reconnectPeriod`: without one, the forced `_cleanUp` of a clean client flushes
  every callback at once (client.ts:1833).
* An ack handled offline comes from an earlier connection, the first or a later one (`LateAcks`).
* Packets carry a type, an identifier and the request they belong to.
* User callbacks do not call the client again in the same run, and `publish`
  etc. are called with valid arguments.
* The broker is unconstrained: it may acknowledge anything in flight, so the
  safety properties do not depend on its behaviour.

## PublishFlow and DeliveryContract

`DeliveryContract` is what `publish()` promises (`src/README.md`, "About QoS"), with
messages, deliveries, refusals and callbacks only: QoS 0 and 2 are delivered at
most once; QoS 1 and 2 never after their callback, and the first time in the order
of the calls that are still pending; a callback without an error means a
delivery, and one with an error that there was none or that the broker refused.

`PublishFlow` puts the client of `OutgoingSession`, definition by definition, behind a
connection that keeps the order and loses what is under way when it breaks, and
a broker that keeps the client's session.

| Variable | Stands for |
|---|---|
| `toBroker`, `toClient` | packets under way; `toBroker` grows by the client's `written` |
| `session`, `received` | the broker's session, and its QoS 2 identifiers not yet released |
| `delivered`, `refused` | history |

The refinement mapping (`Contract`): `published` is `issued`, `answered` is `called`,
`accepted` is `succeeded`.

`publish_flow` checks the refinement, that the broker never holds back an identifier
the client has no QoS 2 publish in flight under (or the next message would be
dropped as a duplicate), that no identifier passes from one call in flight to another
(`IdIsNotStolen`), and that every QoS 1 and 2 publish is answered, or is stuck in the one way the
code has: `PublishIsAnswered` ends in `called[r] > 0` or in `Stalled(r)`, the call waiting
on an idle connection with nothing in flight because the ack that freed its
identifier began a QoS 0 publish (client.ts:2384).  With two identifiers the run does not get
there; `PublishFlowOne.cfg`, by hand, is the same run with one identifier, where it does, and
all four properties hold.  Bounds:
two QoS 2 publishes, one of QoS 1 and one of QoS 0, two unique identifiers,
backpressure, refusals, one loss at any point.  Two identifiers for three calls
make an identifier serve two messages; one loss makes every packet a replay.

Fairness: the event loop runs what it has begun and reads the socket, a drained
stream emits `drain`, a destroyed stream closes, a lost connection is made again
(the subject of `Lifecycle`), and the broker handles what it gets.  None is asked
of the user, and losses are bounded.

`ClientCalls` keeps the finding `unique_id_stolen` out and no more: while a stored message has
no registered identifier (`Exposed`) a call that would take an identifier at once
(`TakesId`) is not made.  Calls that wait for the replay, and QoS 0 publishes, are.

### Proofs (`PublishFlow_proofs`)

For any number of publishes, identifiers, refusals and lost connections.  All take
`OnlyPublishes` (no call is a subscribe or unsubscribe, which is what the module is
about) and `LateAcks = 0` (`ClientHandlesAck` handles no ack offline).

| theorem | property | assumes further |
| --- | --- | --- |
| `FlowImplementsContract` | `ImplementsContract` | `IdIsNotStolen` |
| `BrokerHoldsInFlight` | `ReceivedIsInFlight` | `IdIsNotStolen` |
| `UniqueIdsNotStolen` | `IdIsNotStolen` | unique provider |
| `UniqueImplementsContract` | both | unique provider |
| `NextIdImplementsContract` | both | default provider, `MaxId > 1`, `OnlyFreeGiven` |

With the unique provider nothing is assumed of the behaviour beyond `FlowSpec`, whose guard in
`ClientCalls` is the one exception; the default provider, for which there is no run, needs
`OnlyFreeGiven` as above.

* The client of the path is that of `OutgoingSession` (`FlowIsClient`), so its invariants are used
  as they are: `StoredInv`, `OneHolder`, `OrderInv`, `ReplayInv`, `AllHeld`.  `ClientInv` adds that
  only QoS 0 publishes are queued, each call is made once, and a flush ends before
  the next connection.
* `FlowInv` joins the three parties.  The store holds exactly what is in flight (`StoreHolds`); one
  thing at most is under way of each identifier, the packet or its answer, and the packet
  is the stored one (`UnderWay`); what is left to replay is not under way
  (`RestHolds`, `RestWaits`); an ack under way answers the stored packet and
  says what the broker did with it (`AcksAnswer`); and the broker's `received` and
  `delivered` say of a stored QoS 2 message the same as its place in the handshake
  (`BrokerKnows`).  None of these is inductive alone: that a pubcomp tells the truth takes that no PUBLISH of
  its identifier is behind it, and that takes that replay never sends what is under way.
* `SendInv` is for the order.  The store and the rest of the replay are in the order
  of the calls; nothing is sent before it begins (`Fresh`); a stored message the broker has not
  settled is under way or to be replayed (`NoneForgotten`), and under way before every
  later one (`SentInOrder`).
* Each action has one of nine effects (`Effects`): it sends nothing, sends a QoS 0
  publish, stores a message, replays one, releases one, removes one, or is a connection made,
  a connection lost or a step of the broker.  `FlowEffects` shows this action by action; each effect keeps both
  invariants (`FlowKept`, `SendKept`).
* For the refinement each step is a step of the contract or a stutter (`StepContract`).
  The broker passes a message on (`PassStep`): an earlier one, pending, neither delivered nor refused,
  would be held by the client (`AllHeld`); it does not wait (`NoneOvertakes`), so it is
  stored, still as a publish, and under way before the first packet under way, which is
  absurd (`TakesInOrder`).  A callback's error or success is what `AckOf` says
  (`AckContract`).
* For the unique provider: on a connection every stored identifier is taken or is still to be
  replayed (`UsedCovers`); calls that take an identifier begin when nothing is left to replay, or
  offline and not `Exposed`, and take an identifier that is not taken (`BeginCovers`).

## Lifecycle

The life of the client's connections, for every order of the user's calls, the
broker's answers, the losses of a stream and the timers.  A stream is live until
its `close` is emitted: it may be open, ended by the client, or destroyed.  The
session behind it is reduced to one publish of QoS 1, which is enough for what
`end` waits for and what the stores hold.

| Variable | Code |
|---|---|
| `connected`, `disconnecting`, `disconnected`, `reconnecting`, `deferred` | the client's fields (`_deferredReconnect` for the last) |
| `reconnectTimer`, `connackTimer`, `keepalive` | whether the timer is pending |
| `stream`, `state`, `answer` | `client.stream`; each stream and the CONNACK it got |
| `onClose`, `ending` | the listeners that `_cleanUp(done)` attaches to a stream, and how far each `end` call is: waiting for `outgoingEmpty`, in its 10 ms delay, waiting for `close`, on its `nextTick`, done |
| `busy`, `sent`, `store`, `queued`, `announce`, `immediate` | an entry of `outgoing`, whether its packet was written on this connection, `outgoingStore`, the DISCONNECT in `queue`, the `connect` event to come after the replay, `setImmediate(stream.end)` |
| `run` | what is left of the running task: nothing else happens until it is empty |
| `wanted`, `calls`, `faults` | history: was the user's last call `end`?  The bounds |

Actions: the user's `UserEnd`, `UserConnect`, `UserReconnect`, `Publish`; the rest
of a task `RunConnect`, `RunReconnect`, `RunDeferred`, `CloseStores`, `Announce`,
`EndStream`; the timers `ReconnectTimeout`, `ConnackTimeout`, `KeepaliveTimeout`,
`FinishDelayed`; the network `Accept`, `Refuse`, `Acknowledge`, `Close`.

The order of the event loop is kept: a task, then `nextTick` callbacks, then I/O,
and a destroyed TCP or TLS stream closes before any timer fires.  `SlowClose`
drops the last point, for streams whose `close` waits for the platform
(`connect/wx.ts`).  `Polite` restricts the user, who then calls `reconnect()` only
when no stream is left or while the `end` of a connected client is under way,
`connect()` only on a client that is not `reconnecting`, and no `end()` over a
`reconnect()` that waits.

### Runs

| Run | Asks | Bounds |
|---|---|---|
| `lifecycle_retry` | one connection at a time, and `connected` means an accepted, live stream; no timer behind a connection; a client that is wanted is never abandoned and in the end stays connected; `end` calls back, its streams closed, and nothing connects after it | a polite user with two forced ends and three connects or reconnects, three live streams, three faults, `reconnectOnConnackError` |
| `lifecycle_drain` | types; the timer against the flags; callbacks at most once; an unforced `end` cuts nothing short; a loss while it waits starts no reconnection | one forced and one unforced end, three faults, no `reconnectOnConnackError` |

A fault is a stream lost, a CONNACK refused or late, or pings lost.  Three of them
allow a failure of the connection, of its retry, and of the retry of that; three
streams, a destroyed one and its replacement with one to spare.  Deadlock is not
checked: calls and faults are bounded, and an ended client rightly does nothing.

Fairness: the event loop runs what is due (`Run`, `ReconnectTimeout`,
`FinishDelayed`); a stream that was ended, destroyed or refused closes; the broker
answers a CONNECT and acknowledges a publish.  No fairness is asked of the user
or of the faults, so liveness says what happens once the faults are over.  `Reconnects` is
asked of a client with `reconnectOnConnackError` only: over a refused CONNACK the
README promises a retry to no other (`src/README.md:279-284`).

### What it does not promise

The properties are about a polite user, forced ends and streams that close at once.  Nothing in
the documentation asks for these (`src/README.md:739` sets no restriction on `reconnect()`).  Beyond that the same model violates them; the settings that show it are kept as `.cfg` files of
`MCLifecycle`, to be run by hand.

* `RefusedRetried.cfg`: after a refused CONNACK the broker closes the stream, and the
  `close` handler sets the reconnect timer whatever `reconnectOnConnackError`
  says.  The README (`src/README.md:279-284`) says refused connections are not retried
  by default.  TLC finds it in 22 states.
* `StoreLost.cfg`: `reconnect()` without options makes new stores, and a publish in
  flight stays in `outgoing` without being stored.  The comment (client.ts:1646)
  says that the current stores are used.
* `EndUnanswered.cfg`: an unforced `end()` in the middle of a reconnection waits for an
  ack that cannot come, because the client does not replay the store while it is
  ending.  The callback never runs and the connection stays up.
* `TimerBehind.cfg`: `end(true)` while connecting and `reconnect()` right after: the
  first stream's late `close` is taken for the second's.  It clears the connack
  timer and sets the reconnect timer, which later ends the good connection.  A
  test (`src/test/node/abstract_client.ts:3258`) asserts that no timer exists on
  `connect`.
* `LifecycleAny.cfg` passes: what is proved below, for any user and slow closes.

Also violated in settings not kept: `EndedIsClosed` for an unforced end while
connecting (the DISCONNECT is queued, the callback runs, the stream stays open);
`EndedStaysDown` with `manualConnect` and a `reconnectPeriod` (`closeStores` frees the
client before the destroyed stream's `close`), and for an `end()` over a deferred
`reconnect()`; `DrainedFirst` when the client is used again after an end made
offline, whose queued DISCONNECT the next connection sends; `Reconnects` with
`SlowClose`.

### Proofs (`Lifecycle_proofs`)

From `Parameters` alone, so for every option, any user and late closes, and for every
number of streams, calls and faults:

* `TypeCorrect`: `TypeOK` is inductive.  It includes `Attached`: a listener on a
  stream's `close` belongs to one `end` that waits for that stream alone.
* `EndsOnce`: the callback of an `end` runs at most once.  It follows from
  `Attached`: the only event that moves an `end` on behind its back is a `close`,
  and that finds only calls that are waiting.
* `TimerIsWantedAlways`: the reconnect timer runs only for a client that may
  reconnect and is not ending, and an ended client is not connected.  The second
  half needs `TickIsDown`: when the stores are about to be closed no stream counts
  as connected, since CONNACK cannot come between `close` and the `nextTick`.

The others hold for a restricted use of the client, which they name in their hypotheses;
no documentation states it.  They assume `Regular`: the user is `Polite`, a destroyed stream closes
at once (not `SlowClose`), and a client that reconnects was not made with `manualConnect`.  TLC
refutes each property without `Polite` (`DrainedFirst` apart), and each with `SlowClose`
(`TimerBehind.cfg` is one); `manualConnect` with a `reconnectPeriod` refutes `EndedStaysDown` and
`EndedIsClosed`, though neither `OneConnection` nor `NoTimerWhenConnected` on small instances.

* `OneConnectionCorrect`, `NoTimerWhenConnectedCorrect` are lemmas for the others, for forced and
  draining `end`s alike, since `Regular` leaves out the ways they fail (a late `close`, client.ts:1771).
  The invariant is `OneInv`.  `StreamsInv`: no stream but the current one is live at all;
  it is accepted if the client is connected, and destroyed or closed if the
  reconnect timer runs.  That survives a reconnection because of `TaskInv`: a task
  that is about to connect finds no stream left.  Such a task comes from the timer
  (`StreamsInv`), from the user, or from a `reconnect()` that waited for an `end`; for the
  last, `DeferredInv`: while it waits the client is connected or has no stream, and
  when the stores close it is not connected.  And `OneEnd`: one `end` at a time goes
  on, and while it does the client is ending and has not ended; without it the
  late `finish` of an `end` would set the timer up again.
* `StaysDown`: the action property `EndedStaysDown`, for forced and draining `end`s.  Of all
  steps only `connect()` opens a stream (`OnlyConnectOpens`), and a client that the
  user has ended has neither a timer nor a deferred `reconnect()` nor a task that leads
  to one (`StopInv`).
* `EndedIsClosedCorrect`, with every `end` forced (`ByForce`): by `ForceInv`, a client that is
  not wanted has given its stream up.  A second `end` returns at once, so it takes
  that while the client is wanted it ends only for a `reconnect()` that waits, over
  which a polite user makes no `end`.
* `NotAbandonedCorrect`, with every `end` forced: by `WantInv`.  When the last stream closes the
  timer is set, unless the client is ending; then an `end` is under way, and the
  `reconnect()` that waits for it is not lost between `closeStores` and its own task.
* `DrainedFirstCorrect`: until the user's first `connect()` or `reconnect()` (`calls = 0`), for forced
  and draining `end`s.  By `DrainInv`, the DISCONNECT is queued or the stream about to be
  ended only when nothing is in flight and the client is ending, so that no
  publish and no replay comes after it, or when the client has ended for good.

Liveness, and these properties beyond `Regular`, are model-checked only.

### Abstractions

* `options.keepalive` is not zero; the AUTH step and CONNACK's properties are left
  out; user callbacks do not call the client in the same run.
* Two replays are never under way at once (two CONNACKs that overlap share the
  variable `announce`).

## Incoming

The parser's work queue of a connection and the handlers of PUBLISH and PUBREL.
`connect()` makes the work queue in a closure: what the client had parsed when the
connection closed is handled after it, beside the packets of the next one, so
`packets` and `handling` are functions of the connection.

| Variable | Code |
|---|---|
| `packets`, `handling` | the closure's `packets`, and where the packet being handled is: with `handleMessage`, waiting in `queue` to be sent, or stuck because `done` is never called |
| `incomingStore`, `aliases` | the store, `topicAliasRecv.aliasToTopic` |
| `queue` | acks made offline, with the `done` they carry |
| `toClient`, `toBroker`, `table`, `state`, `sent` | external: the connection, the aliases the broker registered, what it knows of each message and has sent on this connection |
| `emitted`, `leftOver`, `failed` | history: the topics a message was emitted with; identifiers left over by a close; the messages `customHandleAcks` or `handleMessage` did not take |

`Work` handles one packet, with any answer of `customHandleAcks` (no reason code, 16,
128, or an error); `MessageHandled` is the callback of `handleMessage`; `Receive(n)` parses
a chunk of `n` packets; `Deliver` sends the queued acks after the next CONNACK.

An ack made offline is queued, whatever `queueQoSZero` says: `_storePacket` drops QoS 0
publishes only, and an ack is no publish (client.ts:2139).

`incoming`: five messages, two of QoS 0, one of QoS 1 and two of QoS 2, of which three use
the same identifier one after the other; an alias for those that are not QoS 2, which the
broker gives first to one topic and then to the other; all four answers, a
`handleMessage` that may take long or fail, two connections.  It shows that an
acknowledged message was emitted, a QoS 2 message once, every message under its
topic, that the store forgets what is finished, and that every message is
answered.  One identifier for three messages is what makes a forgotten or stale
store entry visible; two topics make a stale alias visible; two connections make every
packet come twice.  The order in which the broker sends them is fixed in part
(`MCAfter`), to keep the run small: the QoS 2 message `b` first, then the three with the
alias in turn, the topic changing between the first and the second.

`SentIsAnswered` exempts a message the user did not take, one disturbed by left-over packets, and
what waits behind a work queue that is stuck on the last connection, which the bound
keeps open (`LastIsStuck`).  With one identifier for all, a message behind a stuck queue is hardly
met; `IncomingStuck.cfg`, by hand, gives each its own: the queue blocked by a
`customHandleAcks` error (publish.ts:109) is closed by the keepalive and what waited behind it
is answered on the next connection, in any order of sending.

`Undisturbed` leaves out what `leftOver` and `failed` hold.  It must: with a
`handleMessage` that calls back after the close, a QoS 2 message that was left over is
emitted again on the next connection.  The README asks for a `handleMessage` that
calls back (`src/README.md:749`) and promises exactly once (`:898`), but no document says
which comes first.

`empty_topic` is a finding: a QoS 2 publish is stored as it came and emitted at its
PUBREL; when the broker named the topic by alias only, the topic is empty.

Fairness: the event loop, the broker, a `handleMessage` that calls back, a lost
connection that is made again, and a close of a connection whose work queue is
stuck, which the keepalive brings about (no PINGRESP is handled any more).

### Proofs (`Incoming_proofs`)

For any messages, with any identifiers shared among them, any answers of the user's
handlers and any number of connections: `TypeCorrect`, `AckedIsEmittedCorrect`,
`ExactlyOnceCorrect` and `StoredIsInProgressCorrect`, from one inductive invariant, `IInv`:

* `OldIsLeftOver`: what a connection that is over still has to handle, and every ack made
  offline, has an identifier in `leftOver`; so an identifier outside it has all
  that is under way on the connection in use.
* `OneInProgress`: the broker works on one message of an identifier at a time.
* `Handshakes`, for each identifier outside `leftOver` whose messages did not all fail
  (`Clean`): at most one packet or ack of it is under way (`AtMostOne`); it fits what
  the broker knows of the message and has sent of it (`UnderWay`: a good pubrec
  means that the message is stored, a pubcomp that it was emitted once and is
  stored no more); and what was emitted and is stored of each message agrees with
  the broker's state of it (`Life`).

None of the three is inductive alone: that a PUBREL finds the right message in the
store needs that no older packet of the identifier is still on its way, which
needs that the broker sends the next one only when the last has been answered.
Most steps leave an identifier alone (`QuietKeeps`); of the others there is one
lemma for each action.

`EmittedTopicCorrect` has one hypothesis and needs it: QoS 2 messages use no alias (otherwise
`empty_topic`).  Besides, `EmittedTopic` leaves out, in its statement, the aliases that left-over
packets may have registered (`AliasUndisturbed`): with an asynchronous
`handleMessage`, a packet left in an earlier connection's work queue registers its alias in the table
of the next connection, `client.topicAliasRecv` being one for all, and a later publish of
that connection that names its topic by the alias gets the wrong one.  No document
speaks of it.  The invariant is kept for each alias apart (`TablesAgree` in the proof
module): what is under way to the client, read in order, makes its entry for the alias
agree with the broker's (`Agrees`, by lemmas on the head and the end of a sequence).  It asks
nothing of the client's table at a new connection, whose broker starts without
aliases and names each topic before it uses one; so clearing the table at the close matters
only for a broker that does otherwise, which the model does not have.

Left out: `customHandleAcks` that answers later; acks that wait for `drain`; an ack in
`queue` that is dropped because `deliver` cannot register its identifier with the
client's own provider; an alias of the broker that is out of range; commands
without a handler; the maximum packet size.

## TopicAliases

| Variable | Code |
|---|---|
| `max`, `aliasToTopic`, `topicToAlias` | `topicAliasSend`: its limit, the LRU cache and the other map |
| `queue`, `store`, `rest`, `replaying` | QoS 0 publishes made offline, the outgoing store, what the replay has yet to read, the replayed packet that waits for its ack; for the properties a packet also says which topic its caller means and which connection's replay put its alias in it (`since`, 0 for none) |
| `wire`, `table`, `heard` | external: packets under way, the broker's table, the publishes it has understood |

`ApplyTopicAlias(p, q)` says what `_applyTopicAlias` makes of a packet (three
alternatives and the tables they leave), `Recover` what
`_removeTopicAliasAndRecoverTopicName` stores, which `StoreAndSend` does online (client.ts:1901)
and `StorePacket` offline.  Which alias `getLruAlias` returns from a
full table is left open: nothing here depends on the order of the cache.

`topic_alias`: two topics, limits of 0 to 2 for each of three connections, four
publishes with any topic and alias, both options on.  Two topics with limit 1 make
the table full; three connections let an alias survive two of them.
`alias_after_disconnect` is a finding: the replay hands the stored packet object
itself to `_sendPacket`, which puts an alias in it; if the connection is lost again
before the ack, the next one sends an alias its broker never saw.
`FreshAliasResolves` says that this is the only case: every packet is understood, but one that
bears the alias an earlier connection's replay put in it.  So does `StoredBearsTopic`:
of what waits, in the queue or in the store, only a packet into which a replay has put an
alias (`since # 0`) bears one.  A message stored with its alias when it is first sent, or
while the client is offline, violates it.

### Proofs (`TopicAliases_proofs`)

For every set of topics, every limit, both options either way, and any number of
publishes and connections, from the module's assumptions: `TablesAgreeAlways`, `FreshAliasResolvesAlways` and
`StoredBearsTopicAlways`, all from one inductive invariant, `AliasInv`.  `TablesAgree`
speaks of the end of the wire, but an alias already on it must be read under the
topic it had when it was written, although a later packet may give it to another
topic.  So the invariant carries `Understood` for every packet whose alias is not
of an earlier connection, and the lemmas `Knows...` say how what the broker will know changes when a
packet is appended (`KnowsRegistered`, `KnowsStill`) or read (`KnowsMoves`), `StoreBears` says of a stored packet with an alias that a
replay put it there (which needs `AutoAssign`), and `Numbered` that one yet to be replayed got it from an
earlier connection.

## Keepalive

Time is discrete.  `Tick` lets it pass for the interval, the packets under way and the
handler at once, and is not possible while something is due: a timer that has
fired, a packet that has arrived or that waits to be handled runs first.

| Variable | Code |
|---|---|
| `left`, `counter` | the interval timer and `KeepaliveManager.counter` |
| `inFlight` | external: packets under way to the client and the time each takes |
| `packets`, `busy` | the work queue, and how long `handleMessage` still runs |
| `dead` | a half-open connection |
| `sinceHeard`, `sinceSent`, `sinceDead`, `gaveUp` | history |

`Half` is the interval, half the keepalive; an answer takes at most `MaxDelay`,
`handleMessage` at most `MaxBusy`.  A PINGRESP always reschedules, an ack or a PUBREL
only with `reschedulePings`, a PUBLISH never; a PUBLISH and a PUBREL run `handleMessage`.  AUTH, whose
handler the user writes, is left out.  (`src/README.md:418` says that pings are rescheduled
"after sending packets"; the code does it on receipt.)

`keepalive`: interval 8, delay 1, handlers of 2, two packets under way, so that
`Quick` holds (an answer arrives and is handled within one interval: 1 + 6 < 8) with
little to spare.  The history counters of time stay
bounded because the properties hold.  Deadlock is checked: the model never stops.

### Proofs (`Keepalive_proofs`)

For every interval, delay, handling time and number of packets, with and without
`reschedulePings`, from `TimesAssumption`: `DeadIsFoundAlways`, `AnsweredIsKeptAlways`,
`BrokerHearsAlways`.  The inductive invariant `KeepInv` measures everything from the
same clock:

* `SilenceMeasured`: the interval and its counter measure the silence exactly;
* `PingInTime`: after the PINGREQ, its answer is under way and arrives within
  `MaxDelay` of it, or waits to be handled and will be within `MaxDelay + Backlog`.
  Packets arrive in order, so a bound on one is a bound on all before it (`Arrives`);
* `AnswersInTime`: the same for every answer, measured from the client's last packet,
  which is why an ack that puts the PINGREQ off cannot put it off for long;
* `Fits`: the packets that run `handleMessage` (publishes and pubrels), received and under
  way, are at most `MaxInFlight`, so that the work
  before any packet is at most `Backlog` (`WorkIsBounded`).  It rests on lemmas that
  count these before a place of a sequence, and `RoomFits` on the room a new one takes.

When the interval fires a third time, `PingInTime` and `Quick` contradict each other unless
the connection is dead.

## Streams

What the client needs of its stream, whatever the transport, is `OrderedStream`: the
peer gets a prefix of what was written, the client a prefix of what the peer
sent, and nothing moves once the stream is destroyed.  Chunks are numbers.

`WebSocketStream` is the browser's stream: the duplex of `BufferedDuplex.ts` (`busy`,
`waiting`, `writeQueue`, `isSocketOpen`), the proxy Transform that holds a write back while
the socket has too much buffered (`proxyWriting`, `proxyWaiting`), and the socket
(`readyState`).  Node's Writable, one write at a time and the waiting ones joined, is
external, and so is whether a buffer is full, which is left open.  The socket is made
connecting: one that a `createWebsocket` of the user returns already open (ws.ts:188), for which the
proxy is the stream, is left out.

`SocksStream` is the stream of a SOCKS proxy: it is given to the client before there
is a socket (`phase`), corked (`waiting`), and carries Node's backpressure to the socket
(`paused`, `flowing`, `reading`, `buffered`).

`MCStreams` runs either one (`which`).  `streams`: four chunks each way, a readable buffer
of two, every order of opening, throttling, `end`, `destroy`, failure and close.  Four
chunks over a buffer of two fill and empty it twice; two chunks before the socket
opens and two after it meet every queue.  It checks the order, that the socket is
closed by `end()` only when everything was sent, that a stream destroyed during the
lookup leaves no socket, backpressure, the refinement, and that what is written
is sent and what arrives is read.

Fairness (`GoesOn`): the lookup and the negotiation answer, a socket takes what it is
given, a timer finds room in its buffer, Node and the browser deliver events, and
the client reads.  None for its calls, nor for failures.

### Proofs (`Streams_proofs`)

For any number of chunks and any buffer: `SocksWritesInOrder`, `SocksLeavesNoSocket`,
`SocksBackpressure` (inductive with `FlowsWithRoom`: `flowing` means that there is room in
the buffer, and a socket that is not paused means `flowing`), and `SocksIsOrdered`: the initial states of `SocksStream` are initial
states of `OrderedStream` and each step is one of its steps, by the lemmas on
prefixes (`ExtendsFacts`, `ExtendsTransitive`).

`WebSocketOrdered` is the property `WebSocketKeepsOrder` of the run, for any number of
chunks.  What is sent, held back, kept and waiting is all that was written
(`HeldInOrder`), and that is inductive with `Layers`: an open duplex has nothing
in its write queue; nothing waits in the proxy behind nothing; once `_final` has
ended the proxy no write is under way; a socket that is closing by `end()` has
nothing left to take; and a destroyed stream has no open socket, so that the
throttle timer, which is not cleared, sends nothing.  The actions that write are
reduced to one fact on what the proxy takes (`ProxyTakes`), the others write nothing
(`WsQuiet`).  For the refinement, a step that sends ends with an open socket, so
that `HeldInOrder` makes what was sent a prefix; what is received is all that
arrived until the client ends (`WsPrefixes`).

## Only model-checked

All liveness (`PublishIsAnswered`, `EndIsAnswered`, `Reconnects`, `SentIsAnswered`,
`DataGoesThrough`): it rests on fairness, which is beyond the prover.  Of
`OutgoingSession`, `StoredIsInFlight` with late acks is not claimed, and the properties
of the default provider are proved of behaviours in which the identifiers it gives are free.
`Lifecycle`'s properties are proved for a `Regular` user only, some of them for forced
`end`s only; the settings beyond that are covered by the configurations that show
what goes wrong there.

The configurations to be run by hand: `WaitingStalled`, `RefusedRetried`, `StoreLost`, `EndUnanswered` and
`TimerBehind` end in the violation described above; `PublishFlowOne`, `LifecycleAny` and `IncomingStuck` pass.

## Not modelled

* Enhanced authentication: a call of a user function and one packet, without state.
* Validation: a pure predicate on topic filters.
* Stream builders and `connect/index.ts` (options, the rotation over `servers`,
  `connectAsync`), the command line: options and I/O.
* WeChat and Alipay streams: adapters of platform sockets around the
  `BufferedDuplex` that `WebSocketStream` models; the platforms are not in the
  repository.  Blob messages and Node's `ws` stream are left out of `WebSocketStream`.
* Timers (`get-timer.ts`): a choice between two implementations of `setInterval`.
* Subscribe in batches; mqtt-packet's encoding.  `nextId` wraps at `MaxId`, a small number in the runs and
  any in the proofs.
