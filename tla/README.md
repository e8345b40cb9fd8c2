# TLA+ model of nestjs-jetstream

A NestJS microservice transport over NATS JetStream. The library sits between a
broker that delivers at least once and handlers that may be slow, fail or hang, so
what makes it correct is what happens between the calls: redeliveries that overtake
settlements, slots and timers shared by many messages, several pods changing the same
stream, and processes that end in the middle.

Paths below are relative to the repository (`src/`); the library is in `src/src/`.

## 1. Inventory

| Component | State | Operations | Interacts with | Hard about it | Correct when |
|---|---|---|---|---|---|
| Concurrency gate (`server/routing/concurrency-gate.ts`) | slot counter, FIFO backlog, park timers | push, completion, drain, dispose | every router, extension pool | completions interleave with arrivals; disposal with work in flight | slots exact, work conserving, FIFO, nothing left behind |
| Event pipeline, settlement (`event-pipeline.ts`, `settlement.ts`, `event.router.ts`) | per message: handler running, extension | route, settle success/failure | gate, capture, broker | sync and async paths, settlement that throws, redelivery while working | no message lost, one handler per message at a time |
| Dead-letter capture (`dead-letter-capture.ts`) | threshold per stream, attempts | is-final, publish with retry, callback, fallback | broker, DLQ stream, user callback | partial failure, thresholds read once | the last delivery is captured, never naked |
| Ack-extension pool (`utils/ack-extension.ts`) | entries with deadlines and budgets, one timer | schedule, cancel, tick | pipeline, gate | budget runs out under a running handler | an entry lives as long as its delivery |
| Stream migration (`server/infrastructure/stream-migration.ts`) | two streams on the server, locals of each pod | migrate, recover, restore, roll back, wait for a peer | stream and consumer provider, server-side sourcing | crash between any two calls, several pods, lost replies | acknowledged messages survive, restored once, the stream comes back |
| Stream provisioning (`stream.provider.ts`, `stream-config-diff.ts`) | server streams | ensure, update, migrate, DLQ stream | migration, consumer provider | ownership conflicts, immutable changes | the stream ends with the desired config or startup fails |
| Consumer provider (`consumer.provider.ts`) | server consumers | ensure, recover, create | migration, message provider | recovery races a migration | a consumer exists when it may |
| Message provider (`message.provider.ts`) | iterators, retry counters, ready promise | start, heal, ordered consume, destroy | consumer provider, routers | destroy between awaits, backoff, heartbeats | consumption always comes back, ends after destroy |
| RPC client (`client/jetstream.client.ts`, `rpc-reply-inbox.ts`) | pending callbacks, timers, inbox | publish, reply, timeout, discard, disconnect | RPC router, connection | late replies against timeouts | one answer per request |
| RPC router (`rpc.router.ts`, `core-rpc.server.ts`) | settled flag, timer per request | route, reply, time out | gate, broker | handler against timeout | one reply, one settlement |
| Strategy (`server/strategy.ts`) | listening, retry timer, started parts | listen, background retry, close | everything above | close during awaits, retry after a partial start | nothing runs on after close, no subject without a subscriber |
| Connection (`connection/`) | connection promise, cached managers, status | get connection, status events, shutdown; options to scopes | all | shutdown while connecting, shared promise | one connection, none escapes the shutdown |
| Naming (`pattern-registry.ts`, `name-resolver.ts`) | handlers by subject | register, build names and subjects | client, provisioning, routers | three paths must arrive at one subject | what is published reaches the handler |
| Binder (`infrastructure-binder.ts`, `management.ts`) | none | compare what exists with the options | provisioning | an operator's stream that nearly fits | a pod that is up is wired |
| Event bus, metrics (`hooks/`, `metrics/`) | listeners; counters, gauge, poll timer | emit; observe, poll | client, routers, connection | hooks that throw, events before the first listener | meters agree with what happened |
| Tracing (`otel/`) | open spans | begin, end with a status | client, routers | ends on every path | a span ends with its work |
| Health (`health/`) | probes | check | connections | a silent server | every check answers |
| Nest module (`jetstream.module.ts`, `bootstrap/`) | registry of scopes | forRoot, bootstrap checks | all | order of init and start, several connections | started means wired |
| Shutdown (`shutdown/`) | one promise | close strategies, drain scopes | strategy, connection | a drain that hangs | it ends, connections closed |

`PROJECT.json` lists every component, those that are not modelled too, and under
`hazards` each place in the code where one of these difficulties bites.

## 2. Modules

**ConcurrencyGate** is the gate alone. A job is parked, in flight, finished or handed
back; `push()` is three actions (it parks, it routes and the route is asynchronous, it
routes and the route ends in the call), `onAsyncDone()` is `RouteDone`, the loop of
`drainBacklog()` takes one step per iteration under the flag `draining`, which keeps
every other action out because the code runs it in one turn of the event loop.
`dispose()` is `Dispose`.

**EventDelivery** extends the gate with one durable consumer. A job is a delivery
`<<m, k>>`, the k-th delivery of m. Broker actions (`Deliver`, `AckWaitExpires`,
`UpdateConsumer`) surround the pod's: `Push` and `Drain` conjoin a gate action with
what `route()` does; `HandlerReturns`, `HandlerFails`, `DlqPublish*`,
`NotifyDeadLetterCallback`, `FallbackToOnDeadLetterCallback` and `Finish` are the
asynchronous half of the pipeline; `Close`, `Exit` and `Start` the life of the pod. The
option record `setup` says whether there is a DLQ stream, an `onDeadLetter` callback
and ack extension, whether its interval is not below ack_wait (`slow`: the floor of 500 ms,
or a fixed interval), and whether the connection may lose settlements. A delivery that comes
out of the backlog is `handed` until the first working() of its new entry. `AckWaitExpires`
may run for a delivery whose extension is gone, `handed` or `slow`: an entry alone does not
keep the server waiting. `evidence`, `cause` and `lapsed` are history variables: what became
of a message, what stranded it, whether ack extension let go of it (a spent budget, or
ack_wait that ran out while a delivery was `handed`).

**StreamMigration** has one step per JetStream API call of a pod (`pc[p]` names the
next one), so that calls of two pods interleave and a pod may die between any two. A
stream is its log, the positions it still holds, its subjects (open or not) and its
source with the position reached. `Recover`, `Restore`, `Migrate`, `Ensure` and `Heal`
group the calls as the code's methods do. Faults (`Crash`, `CallFails`, slow copies)
are bounded by `MaxFaults`.

**RpcClient** is the caller's side of JetStream-mode RPC: `JetstreamClient` with its
`RpcReplyInbox`. The code between two awaits is one action and `leg[c]` is the await
call `c` is at: `Connect`, `Publish` (headers, register, deadline), `Resume` after an
in-publish `connect()`, `PublishAcked`, `PublishFails`. `Route`, `TimeoutFires`,
`Unsubscribe`, `Disconnect` and `Close` may come at any of them. Inboxes are numbered, so
that a reply-to header can be compared with the inbox there is.

**RpcServer** extends the gate with `RpcRouter`; a job is a command. `Deliver` and
`Drain` conjoin a gate action with `handleSafe()`, which ends in the call or leaves the
handler (`HandlerEnds`) to race its deadline (`HandlerTimesOut`). `Destroy` and `Replace`
end a pod and start the next one with a gate of its own. `settles` and `replies` are
history variables.

**RpcCall** composes the two with the command stream and the replies between them
(`Submit`, `Store`, `Acknowledged`, `Arrive`).

**RpcContract** is the abstract specification: what a caller was told and what became of
the handler, with no inbox, stream or gate. `RpcCall!Promise` instantiates it,
`EffectOf` maps the handler's state.

**ConnectionProvider** is one memoised connection: `Request` is the synchronous part of
`getConnection()`, `Establish` and `EstablishFails` the answer of the client library,
`Disconnect` and `Reconnect` its status events, `ShutdownStarts`, `ShutdownAwaited` and
`Drained` the three parts of `shutdown()` between its awaits.

**MessageProvider** is self-healing consumption: a flow is one subscription to
defer/catchError/repeat, with the call it awaits in `flow[f].at`. `DestroyFlows`
unsubscribes a flow wherever it is; its Promise runs on and nobody listens.

**StrategyLifecycle** extends both. `pc` is the await of `doListen()`, every exit is
`Succeeds` or `Aborts` (an error, or `abortIfClosed()` after `close()`), `Retry` is the
timer of a non-critical connection. A client shares the connection; `Shutdown` and
`DrainEnds` are the shutdown manager for this scope. A Promise that is settled resumes
before the event loop takes another answer, status event or timer (`Resumable`): the
interleavings are those of JavaScript, not of threads. `late` is history: close() came
after the boot chain had looked at `closed` for the last time (`PastLastLook`).

**Subjects, Naming, Provisioning** are operators: subjects as token sequences with the
coverage test of `subject-utils.ts`, names and subjects from options and handlers as the
server and the client build them, and what provisioning wants and decides (stream
config, diff and its classes, ownership, filters, the checks of the binder).

**Deployment** runs them: `ensureStreams` and `ensureConsumers` of two pods, one step
per API call, kinds in parallel, against a server that refuses overlapping subjects,
immutable changes and filters that overlap. A scenario (MCDeployment) gives the options
of both and what the cluster holds before: two versions of a service, different services
sharing broadcasts, two connections of one service, leftovers of an earlier version,
streams of an operator, custom prefixes and schedules. Migration is one step here.

**AckExtension** is the pool in discrete time: `entries` with their deadlines, the timer
(`armed`, `handleFireAt`), `Tick`, and `EnsureWake` as `ensureWake()`. Callbacks run up
to `MaxLag` late. `alive[m]` is when the server last heard of a delivery.

**ConnectionOptions, Metrics, CoreRpc, Health** are the parts of **Application**: options
to connections (`given` tells an empty list that was written from one left out) and which of
them hosts a handler; event bus, meters, gauge and poll
cycle; core-mode RPC on both sides with the spans around it; concurrent probes.
`Application` adds the module's bootstrap and shutdown over several scopes. A link there
abstracts ConnectionProvider, a chain the boot chain of StrategyLifecycle. `misled` is
history: the metrics began to observe while the connection was lost.

**MC\*** modules give constants to TLC, **\*Proofs** hold the theorems.

### What is external

The broker and the server are modelled from how the code relies on them.

* A delivered message is pending until acked, termed, naked or expired, and is
  redelivered until its count reaches `max_deliver`; after that it stays in the stream.
  Whether an ack or term that arrives later still removes it is left open.
* Sourcing copies what its origin still holds, in order, remembers its position and
  leaves the origin alone; it is dead once its origin was deleted. `streams.update`
  changes what it is given and rejects an immutable change. The server refuses a backup
  that would source in a circle.
* A migration that is still running is younger than `ACTIVE_MIGRATION_GRACE_MS`
  (90 s). The code assumes it; a copy that takes longer is not explored.
* The command stream stores a publish late, never, or after the client gave up on it, and
  delivers each command at most once (`max_deliver: 1`, `jetstream.constants.ts:201`; a
  user who overrides it is outside the model). A reply is a core NATS message: lost, or
  received by the inbox its header names while the client is subscribed to it.
* Nest's `ClientProxy.send()` awaits `connect()`, then subscribes `publish()`; it runs the
  teardown when the caller unsubscribes. Nest runs bootstrap hooks one after the other in
  some order, and `startAllMicroservices()` before or after `init()`, as the application
  wrote.
* The NATS client reconnects by itself for ever (`maxReconnectAttempts: -1`,
  `connection.provider.ts:33`); that a user bounds it, so that the connection closes for
  good and the memoised promise keeps returning it (`connection.provider.ts:98`), is
  outside the model.
* `streams.update` replaces the config it is given, refuses subjects another stream has,
  and refuses a change of an immutable property.

## 3. Runs

| Run | Bounds | Shows |
|---|---|---|
| EventDelivery | 2 messages (one may be unroutable), 1 slot, 2 deliveries, 3 option sets (one with `slow`), 2 incarnations, `max_deliver` 2 or unlimited | `NoLoss`, `NoSilentExhaustion`, `SingleFlight`, `PipelineMatchesGate`, `SlotsExact`, `NoIdleSlot`, `JobsPartitioned`, `NoOvertaking`, `TypeOK` |
| EventFlaky | 1 message, 3 deliveries, 1 slot, settlements lost or not, fair | `EventuallyResolved`, `ParkedIsServed` |
| MigrationPeers | 1 pod serving and consuming, 1 deployed, 2 messages, up to 2 of them stored before, 3 faults, writes of the pods do not overlap | `AckedSurvives`, `RestoresOnce` |
| MigrationLiveness | as before without consumption, up to 2 messages stored before, 3 faults | `StreamComesBack`, `ConsumptionResumes` |
| RpcCall | 2 calls, 1 slot, 2 inboxes, 2 pods | `RegistryMatchesCallers`, `AnsweredOnce`, `NoStaleInbox`, `SettledOnce`, `ReplyMatchesSettlement` |
| RpcPromise | 2 calls, 1 slot, 2 inboxes, 1 pod | `KeepsContract`: RpcCall implements RpcContract, its liveness included |
| Lifecycle | 4 configurations, 2 faults, 2 connections, 3 attempts | `NoDroppedBacklog`, `ClosedIsQuiet`, `NoEscapedConnection`, `ListenAnswers`, `SelfHeals` |
| Deployment | 2 pods, the scenarios above, 1 fault, each pod may start twice | `UpIsWired`, `SchedulesWait`, `OneOwner`, `NeverRejected`, `NothingClobbered` |
| Application | 12 applications, 2 scopes, 2 servers, 2 calls, 1 fault | `OneReply`, `TelemetryAgrees`, `StartedIsWired`, `PollIsQuiet`, `BootEnds`, `EveryoneIsAnswered`, `ShutdownEnds` |
| AckExtension | 2 deliveries, 5 options, budget 5, lag 1, 11 ticks | `KeptAlive`, `ExtensionEnds` |
| MigrationRace, LifecycleRetry | see below | violations |

Why the bounds are enough: two messages for one slot park, drain and hand back; two
deliveries make a first, a final and an overlapping one; a third is only needed when
settlements are lost. Three faults let a pod die in the migration, again in the recovery
and again in the recovery of that, or leave the last one to the other pod. Two calls for
one slot park, are handed back and are rejected together; a second inbox makes the first
one stale; a second pod finds what the first was delivered. Two faults fail a boot and
then its retry, or a connection and then a flow; a second connection can only be one that
should not have been opened. Two pods that start twice meet what the other and they
themselves left half done. Eleven ticks are two budgets and every interval several times:
one entry is due, expires, is cancelled or leaves the backlog while the other sets the
timer.

The type invariants of the modules that no configuration lists (`RpcCall!TypeOK`,
`AckExtension!TypeOK`, `Deployment!TypeOK`, ...) document the state; those of RpcCall,
StrategyLifecycle, Application and Deployment are theorems.

`Exclusive` in the migration configurations leaves out states in which two pods are
between two writes at once. `Move` refuses such a step, and every order in
which pods follow one another is explored. Without it `AckedSurvives` fails
(MigrationRace): the restriction is the code's missing lock, not a convenience.
`SharedExclusive` in Deployment does the same for the stream that services share: one pod
at a time is between its read and its update of it. Every other stream is raced for.
`NothingClobbered` speaks of the metadata keys that no options name (`OwnKeys`): the
others are the transport's to write. `OneOwner` speaks of contested streams that are new or
carry a stamp of the service (`StampedWhereContested`, which TLC evaluates for the
scenarios of two connections, one of them with such a stream). `UpIsWired` is promised to
pods that agree (`PodsAgree`: pods of one service build the same subjects, and for their
durable consumers the same filters) and to operators who provide what is theirs
(`OperatorProvides`: a manually managed stream is there and covers the handlers' subjects,
which `bindStream()` does not look at); TLC evaluates both and they hold of every scenario.
Two versions of a service with different handlers and exact filters (a custom prefix, or
broadcasts) do not agree: they share the durable consumer, which has the filters of the
last to write it, and the handler that only the other version has gets nothing.
`NeverRejected` is promised where pods of one service ask for the same of what an update
cannot change (`ConfigsAgree`: the storage, whether schedules are on, destructive
migration), and where what a pod sends overlaps with no subject another stream may come to
have (`SubjectsApart`: the server refuses overlapping subjects whatever the transport does).
TLC evaluates both for every scenario. A rollout that turns schedules on, or off again, does
not agree: each pod decides on the stream as it saw it, and an update decided before the
other version's may be refused, so that the start of that pod fails.
`SchedulesWait` is promised where pods of one service ask for the same subjects
(`SubjectsAgree`), where no event is taken for a broadcast when the publisher looks for the
namespace of its schedule (`NamespacesApart`: a service name ends in `__microservice`, and
a custom broadcast prefix does not start an event's subject), and where no handler is for a
subject among the schedules and no consumer of somebody else filters one
(`SchedulesApart`; a consumer that the binder refuses because it covers the schedules may).
TLC evaluates the three for every scenario. Without the first the promise fails: a version
with schedules off that starts after one with schedules on takes `<service>._sch.>` from
the stream, and what the other pod schedules is no longer stored.

`StartedIsWired` says that critical connections were reached where there are several, since
the module checks nothing when there is one; that an attached critical strategy serves; and,
when microservices are started before `init()`, that no strategy was forgotten and the
handlers are hosted by one that was started (`HandlersHosted`). Two cases are excepted by
name, and both are among the twelve applications: nothing is attached, as in an application
that only publishes, and a handler that names no connection where the default one only
publishes. With `init()` first the checks run before anything is attached.
`TelemetryAgrees` says of the gauge that a link that is up is shown, with one connection,
since a disconnect of one of several zeroes all servers; and that what is shown is up, unless
the metrics were `misled`. `KeptAlive` leaves out deliveries whose working() was lost or whose
budget ran out. `SingleFlight` speaks of intervals below ack_wait over a connection that works
(`ExtensionHolds`) and of messages that ack extension did not let go of (`lapsed`).
`StreamComesBack` speaks of starts that find a backup older than the 90 s, and of the config
of streams that are not `Entangled`. `ClosedIsQuiet` excepts core RPC and the heartbeat when
close() was `late`.

Of `resolveEvent()` the catch of an unexpected error (`event-pipeline.ts:111-124`) is left
out: it terms a message even with a capture configured, but only if the library's own
lookups throw.

`CHECK_DEADLOCK FALSE` is used throughout: a disposed gate, a drained stream, a
stopped application and a finished deploy have nothing left to do.

### Disagreements between code and documentation

Two are runs that TLC must find violated; `findings` in `PROJECT.json` quotes the line.

| Run | What the code does |
|---|---|
| MigrationRace | two pods start together: the one that loses the race for the backup deletes the winner's |
| LifecycleRetry | a boot chain that failed at `startOrdered()` is retried with the routers still subscribed: each message is routed twice |

The models also reach states that the following lines rule out; no run is kept for them.

* Closing naks a parked final delivery, which strands it (`concurrency-gate.ts:74`; cause
  "handback" in EventDelivery), against the comment at 64-67 there.
* A consumer at work during a restore puts the count that `waitForSourceDrained()` awaits
  out of reach, and every start times out (`stream-migration.ts:236`; `Consuming = TRUE`
  under `FairSpec`), against `docs/guides/stream-migration.md:119`.
* A crash between backup and delete leads recovery to source the backup into the original
  (`stream-migration.ts:183`; `early`), against the comment at 178-179.
* Two services with broadcast prefixes of their own that provision the shared stream at
  once: the later update drops the earlier one's subject (`stream.provider.ts:308`;
  `SharedExclusive = FALSE`), against "services can no longer clobber the shared broadcast
  stream" (`docs/reference/release-notes.md`).
* Two connections of one service that meet a stream of an earlier version, which has no
  stamp yet, both look before either writes: the second update replaces the first one's
  stamp and both are up (`stream.provider.ts:606`; a scenario in which
  `StampedWhereContested` is false), against "It catches two connections that reach the same
  cluster" (`docs/guides/migration.md:176`).
* A delivery that leaves the backlog starts a full interval, so that with the automatic
  interval the server may redeliver it to a second handler (`concurrency-gate.ts:117`;
  `handed` in AckExtension and EventDelivery), against "so the extension fires well before the
  deadline" (`ack-extension.ts:35`).
* The floor of 500 ms may exceed the ack_wait (`ack-extension.ts:39`; `slow` in
  EventDelivery).
* A drain that times out is logged as "closing anyway" and nothing closes the connection
  (`shutdown.manager.ts:106`; `leaked` in Application).
* A close() that comes while core RPC subscribes, or later in the chain, leaves the core RPC
  subscription or the metadata heartbeat running behind the closed strategy
  (`strategy.ts:297`; `late` in StrategyLifecycle), against "Stop all consumers, routers,
  subscriptions, and metadata heartbeat" (`strategy.ts:87`). The shutdown's own close(), or
  the drain of the connection, ends them.
* Metrics that begin to observe while the connection is lost show its last server as up,
  and after a reconnect to another server both, until the next disconnect
  (`metrics.service.ts:124`; `misled` in Application), against "so `connection_up` reflects
  reality the moment metrics come online" (`metrics.service.ts:121`).
* A handler that names no connection, in an application whose default connection only
  publishes, is kept by no strategy and nothing reports it (`strategy.ts:226`; the exception
  of `HandlersHosted`).
* When `app.init()` runs before `startAllMicroservices()`, polling never starts
  (`metrics.service.ts:136`).
* The `max_deliver` threshold is stale after a peer lowers it
  (`event.router.ts:108`, against `docs/patterns/events.md:169`).
* An unroutable message is captured without ack extension, so twice at once
  (`event-pipeline.ts:151`, against the comment at 186-190).
* A restart within 90 s does not restore: the pod takes its own backup for a peer's, and the
  messages wait in it until a later start (`stream-migration.ts:141`, against
  `docs/guides/stream-migration.md:117`).
* A crash before the original is deleted, and another one between the two last calls of the
  recovery, leave a stream that names the deleted backup as its source, and no later migration
  of it succeeds (`stream-migration.ts:211`; `Entangled`).
* Publishes are accepted while the restore runs (`stream-migration.ts:99`, against
  `docs/guides/stream-migration.md:84`).
* A starting pod creates the consumer during a restore (`consumer.provider.ts:118`,
  against `docs/guides/stream-migration.md:102`).
* A call whose `publish()` runs between a disconnect and the reconnect is sent with an
  empty reply-to header and can only time out (`jetstream.client.ts:465`, although
  `connect()` at 521 makes an inbox before the command is published).
* `dispose()` naks parked RPC commands (`concurrency-gate.ts:74`, against "Nak is never
  used for RPC", `rpc.router.ts:64`); since they are delivered once, the nak strands them.
* Commands a pod was delivered and did not handle before it ended are not delivered again
  (against "commands survive a brief server restart", `docs/patterns/rpc.md:175`); commands
  still in the stream do survive.
* A reply that cannot be encoded is replaced by an error reply (`rpc.router.ts:169`, against
  `docs/patterns/rpc.md:157`, which says that the client times out).

### Fairness

`EventDelivery!FairSpec`: the broker delivers what is ready and times out what nobody
extends; the event loop runs what is due; handlers, DLQ publishes (they have a request
timeout) and callbacks end; a pod that is down is started again, one that is closing
exits (the shutdown manager bounds the wait). Handlers that never end are outside this
assumption: nothing in the code bounds them.

`StreamMigration!FairSpec`: a pod makes its next call and is restarted after a failure
(the strategy's background retry or the orchestrator); a wait ends; the server copies;
time passes; self-healing keeps trying. The faults are bounded, not fair.

`RpcCall!FairSpec`: timers fire, `getConnection()` settles and resumed code of the client
runs. Nothing is assumed of the stream, the pod, its handlers or the replies: the answer
that `KeepsContract` promises every caller comes from the deadline alone if need be.

`StrategyLifecycle!FairSpec`: settled Promises resume, timers fire, connect() and API
calls answer, the client library reconnects. Faults are bounded; close() is up to the
user. `Application!FairSpec`: the bootstrap goes on, connect() answers one way or the
other, request timeouts, probe timers and drain budgets fire. Nothing is assumed of a lost
server coming back, of replies or of handlers: that everyone is answered comes from the
timers.

## 4. Proofs

Proved by TLAPS for every value of the constants that satisfies the named assumptions
(`MaxActiveAssumption`, `DeliveryAssumption`, `InboxAssumption`, `ServerAssumption`,
`SameCalls`: both sides speak of the same calls; `PoolAssumption`, `ConnAssumption`,
`LifecycleAssumption`, `ApplicationAssumption`, `MigrationAssumption`,
`DeploymentAssumption`). TLC evaluates each
of them, and checked each inductive invariant on a run's instance before it was proved.

**ConcurrencyGateProofs.** The inductive invariant `GateInv` joins the type, exact
slots, work conservation, the partition of jobs, and timers only for parked jobs.
`SlotsExact` needs the partition (a job that is not in flight adds one to the
cardinality), `NoIdleSlot` needs the slots and the phase of the drain loop. From it:
`GateSlotsExact`, `GateNoIdleSlot`, `GateJobsPartitioned`, and the action property
`GateNoOvertaking`.

**EventDeliveryProofs.** The invariant `Inv` joins `GateInv`, the types, `NoLoss` and
`NoSilentExhaustion` with `NotifyingIsStored` (a delivery reaches the stage
"notifying", where the message is termed without a further look, only after the DLQ
stream stored it) and `DownIsRestarted` (a pod that is down has an incarnation left).
`GateInv` is needed for the head of the backlog. A step that removes a message then has
evidence at hand, and a nak that strands one answers an older delivery or meets a
broker limit that differs from the pod's. From it: `DeliveryTyped`, `DeliveryNoLoss`,
`DeliveryNoSilentExhaustion`. `MatchInv` (a delivery is at a stage of the pipeline just
while it holds a slot) gives `GateAgrees`. `OneHandlerAtATime` needs `FlightInv`: no
delivery is ahead of the broker's count, what is on the wire is not in the gate yet,
every delivery in the gate is extended until its message has lapsed, and so, under
`ExtensionHolds`, a delivery that is held is the latest of a message the broker still
counts as pending (`HeldIsLatest`); two held deliveries of a message are then one.
`PodGateCorrect` and `PodNoOvertaking` carry the gate's own theorems into the pipeline,
with settlements, restarts and a second gate around it.

**RpcCallProofs.** `ClientInv` is inductive for the client alone: the
types, `RegistryMatchesCallers`, `AnsweredOnce`, `NoStaleInbox`, and what they need: where
a call's code is while its caller is idle, and that an inbox number is left when there is no
inbox. Every answer in the code is guarded by membership in
`pending`; that a pending call's caller waits and was not answered before (`PendingWaits`)
is what carries `AnsweredOnce` through each of them. `Inv` of the composition joins
`ClientInv`, `GateInv` and an invariant that relates each command's place, its handler,
its settlement and its reply, and a reply under way to a handler that succeeded. From it:
`CallTyped`, `CallRegistry`, `CallAnsweredOnce`, `CallNoStaleInbox`, `CallSettledOnce`,
`CallReplyMatchesSettlement`. `CallKeepsContract` is the refinement without fairness: each
step of RpcCall is one step of RpcContract or a stutter; the liveness half of the contract
is model-checked by RpcPromise.

**AckExtensionProofs.** From `PoolAssumption`. The inductive invariant `PoolInv` joins
the types with `WokenInTime` (the timer is set while there are entries, no later than any
of them is due, and is not overdue), `EntriesAreHeld` (a parked delivery has its entry)
and `PlannedInTime` (the next working() is planned within an interval of the last sign of
life, or within two after the backlog). Neither property is inductive alone: that a
delivery is heard of in time follows from when its entry is due and from the timer, which
the other entries share. From it: `PoolKeepsAlive`, `PoolExtensionEnds`.

**LifecycleProofs.** `IInv` is built in layers. `TypeInv` joins the types with a bound on
the router subscriptions a boot chain has behind it, without which a retried chain might
leave the range of the counter. `ClosedInv` says what close() leaves, at every await it can
interrupt, and that the shutdown manager closes the strategy before it drains; `RoutedInv`
that routers are subscribed before the flows of their kinds start, which is
`NoDroppedBacklog` (`BacklogIsRouted`). `ConnInv` ties the memoised promise to the one
connection that is open or being established. `NoEscapedConnection` (`OneConnection`) does
not follow from the provider alone: once the drain is done somebody could ask for a
connection again, and that nobody does is `ClosedInv`: no retry, no flow. `LateInv` says
that a strategy closed in time has neither core RPC nor a heartbeat and no chain that would
start them. `ReadyInv` is
about the one await of the chain after which a connection is still expected. From it also
`CloseIsFinal`.

**MigrationProofs.** For any pods, messages, logs and faults, under the hypothesis
`Exclusive`: no two pods are about to write at a time. It is the condition of the promise,
not an assumption about the code: the run MigrationRace shows `AckedSurvives` fail without
it. `CopiesInv` says how far each of the two copies got: a backup that is filled has what
the stream held up to its position (`BackupInv`), a stream that is restored has, or had,
what the backup holds up to its own (`RestoreInv`). `PodsInv` says of each location what
the pod there relies on, and that it still holds after every step of another pod, of the
server, of publishers and consumers: before each of the four calls that delete something,
that the other copy, or the consumers, have it all. For the delete of the original that
rests on the subjects being dropped since the count; for the delete of the backup on the
lag of the source; for an empty or a rolled-back backup on the original being untouched
(`Kept`). From it `NothingAckedIsLost`. `RestoredOnce` needs `OnceInv`: while a backup
copies, the pod that fills it is there, so nobody detaches it half-filled; what it holds it
copied from positions the stream has; and detached, it shares with the stream only what
the stream copied back. Induction over the log is not needed: a store appends one message,
the least position not yet copied comes from the library's theorem on minimal elements.
`MigrationTypeInvariant` needs no hypothesis.

**ApplicationProofs.** Four layers. The types, with the registry and the poll, give
`PollStops`. `RpcInv` follows a call from request to outcome, whichever hooks throw:
`CallsAnsweredOnce`. `MetersInv` counts: each step of a call moves it from one set of the
meters' equations to another and increments the meters to match; the number of possible calls
may be infinite, those made are finite by induction. `WiredInv` relates the plan of Nest,
the hooks that ran and the links, and `ChainsInv` says of the attached strategies
that they accepted the handlers and that no critical one's chain is open once Nest goes on:
`StartedApplicationIsWired`. With `UpIsShown` and `ShownIsUp` the layers give
`TelemetryIsTrue`. `ApplicationAssumption` says that connection names are finitely
many, contain the default one and those of the options, and that an application is
initialised, with its microservices started before or not.

**DeploymentProofs.** For any pods, options, and streams and consumers left by others.
`DeploymentAssumption` says of the scenarios what every cluster and every option object
satisfies: a handler per subject, streams with finitely many subjects, subjects and prefixes
made of strings, patterns of at least one token, consumers of streams that exist. The
invariants say what a pod's look at a
stream (`seen`) still says when its write follows. `SeenInv`: the stream is there.
`StampInv`, of streams that two connections of a service contend for: its stamp is what was
seen, whoever wrote meanwhile, since `assertOwnership()` lets another connection through
only where there is no stamp of the service; so who is through with a kind is its owner, and
two that are up cannot both be (`OneOwnerHolds`). It starts from `StampedWhereContested`:
without it the property fails, as section 3 says. `NotesInv`: the keys that no options name
are as they were seen; whatever the order of the writes they survive (`NotesKeptHolds`, no
hypothesis). `SharedInv`: the subjects of the shared stream are as the one pod that
is at it saw them, and finitely many. `NothingClobberedHolds` then follows from
`MergeCovers`, a lemma about `subject-utils.ts`: among finitely many subjects each is
covered by one that nothing covers, because `subjectCovers()` is transitive and
antisymmetric (`CoversTransitive`, `CoversAntisymmetric`); without the second, equal
subjects would drop each other. Its hypothesis `SharedExclusive` is the condition of the
promise: the code has no such lock.

`UpIsWiredHolds` follows a published subject through the chain, under `SharedExclusive`,
`PodsAgree` and `OperatorProvides`. `ProvidedInv`: a stream that a pod is through with, or
that its operator provides, has a subject that covers the filter subject of the kind
(`Stores`), and a stream that was seen does so or still has the subjects it was seen with.
Hence a pod that decides to write nothing is right, and one that writes puts in what all
pods of the service need (`WriteProvides`) or, on the shared stream, a merge that covers
what the others needed (`MergeCovers`). `ConsumersInv`: a consumer that a pod is through
with, or that appeared after the pod found none and is therefore used as it is, has the
pod's filters or is one that the binder accepts (`Fits`): consumers are written with nothing
but the filters of a pod whose consumer they are (`OnlyFilters`); these take the subject of
each of its handlers (`FiltersServe`), and so does what the binder accepts
(`CoveredServes`). Neither invariant is inductive without its second half, what a look still
says. The rest is about tokens: a pattern that covers `prefix.>` matches `prefix.pattern`
(`WildcardMatches`), a client's subject is the one the pod registered (`ClientsAgree`), and
the registry has one handler for it (`OneHandler`).

`NeverRejectedHolds` says of every stream and consumer a pod sends that the server takes it,
under `SharedExclusive`, `PodsAgree`, `ConfigsAgree`, `OperatorProvides` and
`SubjectsApart`. A refusal has one of three grounds. An update may change what cannot be
changed: `SentClasses` says what the classes of `stream-config-diff.ts` let a pod send,
measured against what it saw, and `CompatibleInv` that what it saw still says what an update
may not change, or that the pod is about to migrate and gives the stream up. Without it
the classes prove nothing, since another pod of the service may have updated or migrated the
stream meanwhile; that it would have sent the same is where `ConfigsAgree` is needed.
The subjects may overlap with another stream's: `HoldsInv` keeps each stream to what it was
left with and what pods give it (`MayHold`). A consumer may name subjects that its stream
does not have: `ProvidedInv` says it does, and `FiltersFit` that filters are within it.

No installed prover knows that a literal is a string, so the proofs speak of `Token`, the
strings and the two literals the operators add.

`SchedulesWaitHolds` needs `SharedExclusive`, `PodsAgree`, `OperatorProvides` and the three
conditions above. That a schedule is stored is `ProvidedInv` again, which speaks of all that
the handlers require (`Required`): the kind's filter subject and, for events without a
custom prefix, the namespace of their schedules beside it. `ScheduledByClient` derives the
holder's subject along the publisher's path, `HolderMatched` that what covers the namespace
matches it. That nobody takes it is new: `OriginInv` says that every consumer is as it was
before the first start, or has the filters of a pod whose consumer it is. The filters of a
pod do not match (`FiltersMiss`: an exact filter is a handler's subject, which is not among
the schedules; `<service>.ev.>` differs in its second token), those of others do not by
hypothesis, and a pod's own consumer that an operator wrote has been through the binder
(`Fits`).

Only model-checked:

* The liveness properties of EventFlaky, MigrationLiveness, RpcPromise, Lifecycle and
  Application: liveness under fairness is out of this prover's reach.

## 5. Plan

Every safety property that a run checks has a theorem; what TLC alone answers for is
liveness. What is left is to ask less of the deployments that the theorems speak of:

1. `PodsAgree`, `ConfigsAgree` and `SubjectsAgree` compare all pods of a service; pods that
   share neither a stream nor a consumer need not agree.
2. `SharedExclusive` for the promises about stamps and classes, which may hold without it.

## 6. Not modelled

* The ordered pipeline (`createOrderedPipeline()`): it settles nothing and runs one
  message at a time; ordered consumption itself is in MessageProvider.
* Codecs, records and headers: pure conversions. That they may fail is modelled where
  they are called.
* The budget check, the provisioning summary and warnings, log lines: they report.
* Histograms, label values, span attributes and propagation: wording and numbers no
  property is about.
* The delays of retries and naks: time is abstracted but in AckExtension.
* Metadata entries: the provider is a step of the boot chain, with its heartbeat on or off. A
  publish that resumes after `destroy()` restarts the heartbeat (`metadata.provider.ts:58`),
  which is the `late` case above.
* Dependency wiring, decorators, option interfaces, examples and the website.
