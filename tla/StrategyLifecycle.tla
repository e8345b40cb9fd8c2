---------------------------- MODULE StrategyLifecycle ----------------------------
(***************************************************************************)
(* The life of one connection scope, from listen() to the end of the       *)
(* shutdown: the boot chain of src/src/server/strategy.ts, the retries of  *)
(* a non-critical connection, close(), and the drain by the shutdown       *)
(* manager (src/src/shutdown/shutdown.manager.ts), over ConnectionProvider *)
(* and MessageProvider, with a client that shares the connection.          *)
(*                                                                         *)
(* The location pc is what the boot chain awaits; whatever runs between    *)
(* two awaits is one step.  Provisioning is one call that works or fails   *)
(* (Deployment and StreamMigration look inside).  Faults are failed calls, *)
(* lost consumers, closed iterators and disconnects.                       *)
(***************************************************************************)
EXTENDS ConnectionProvider, MessageProvider

CONSTANTS
  Setups,     \* the configurations explored: [kinds, core, meta, critical]
  MaxFaults   \* bound: faults explored

ASSUME LifecycleAssumption ==
  /\ MaxAttempts \in Nat \ {0}
  /\ MaxFaults \in Nat
  /\ \A s \in Setups : /\ s.kinds \subseteq Kinds
                       /\ {s.core, s.meta, s.critical} \subseteq BOOLEAN

VARIABLES
  setup,      \* the configuration
  pc,         \* what doListen() awaits
  answer,     \* the callback of listen(): none, pending, ok or error
  closed,     \* the field
  late,       \* history: the last close() came after the last look at closed
  retryTimer, \* a retry is scheduled
  attempt,    \* runs of the boot chain
  subs,       \* router subscriptions to the current subject of each kind
  coreSub,    \* coreRpcServer.subscription is set
  heartbeat,  \* the metadata heartbeat runs
  client,     \* a JetstreamClient: idle, waiting for the connection, or ready
  manager,    \* ShutdownManager: no, draining or complete
  faults      \* faults so far

strategyVars == <<setup, pc, answer, closed, late, retryTimer, attempt, subs,
                  coreSub, heartbeat, client, manager, faults>>
vars == <<connVars, providerVars, strategyVars>>

Kind == setup.kinds
Durable == Kind \ {"ordered"}
Evented == Kind \ {"command"}

TypeOK ==
  /\ ConnTypeOK
  /\ ProviderTypeOK
  /\ setup \in Setups
  /\ pc \in {"idle", "streams", "consumers", "rpcRouter", "ordered", "core", "meta"}
  /\ answer \in {"none", "pending", "ok", "error"}
  /\ {closed, late, retryTimer, coreSub, heartbeat} \subseteq BOOLEAN
  /\ attempt \in 0 .. MaxAttempts
  /\ subs \in [Kinds -> 0 .. MaxAttempts]
  /\ client \in {"idle", "waiting", "ready"}
  /\ manager \in {"no", "draining", "complete"}
  /\ faults \in 0 .. MaxFaults

Init ==
  /\ ConnInit
  /\ ProviderInit
  /\ setup \in Setups
  /\ pc = "idle"
  /\ answer = "none"
  /\ closed = FALSE
  /\ late = FALSE
  /\ retryTimer = FALSE
  /\ attempt = 0
  /\ subs = [k \in Kinds |-> 0]
  /\ coreSub = FALSE
  /\ heartbeat = FALSE
  /\ client = "idle"
  /\ manager = "no"
  /\ faults = 0

Fault == faults < MaxFaults /\ faults' = faults + 1
NoFault == faults' = faults

\* A call fails: by a fault, or because its connection is closed.
Fails == IF Usable THEN Fault ELSE NoFault

\* Some code waits for a Promise that is settled.  It resumes before the event loop
\* takes the next answer, status event or timer.
Resumable ==
  \/ pc = "ordered" /\ ready # "pending"
  \/ pc \in {"rpcRouter", "core"} /\ Answered
  \/ client = "waiting" /\ Answered
  \/ draining = "awaiting" /\ promise # Pending

NextTurn == ~Resumable

--------------------------------------------------------------------------------
(***************************************************************************)
(* The boot chain.  Awaits(p) leaves the chain waiting at p and makes the  *)
(* call it waits for; every exit of doListen() is Succeeds or Aborts.      *)
(***************************************************************************)
Awaits(p) ==
  /\ pc' = p
  /\ IF p \in {"streams", "rpcRouter", "core"} THEN Request ELSE UNCHANGED <<promise, connecting>>
  /\ UNCHANGED <<answer, retryTimer>>

\* doListen() returned: the callback of a critical listen() runs.
Succeeds ==
  /\ pc' = "idle"
  /\ answer' = IF answer = "pending" THEN "ok" ELSE answer
  /\ UNCHANGED <<promise, connecting, retryTimer>>

\* Mutant: a retry is scheduled although the strategy was closed.
AbortsAndRetries ==
  /\ pc' = "idle"
  /\ answer' = IF answer = "pending" THEN "error" ELSE answer
  /\ retryTimer' = ~setup.critical
  /\ UNCHANGED <<promise, connecting>>

\* doListen() threw: a critical connection answers with the error, another one
\* schedules a retry unless it was closed.
Aborts ==
  /\ pc' = "idle"
  /\ answer' = IF answer = "pending" THEN "error" ELSE answer
  /\ retryTimer' = (~setup.critical /\ ~closed)
  /\ UNCHANGED <<promise, connecting>>

\* The tail of doListen(): core RPC, then metadata, then the callback.
AfterCore == IF setup.meta THEN Awaits("meta") ELSE Succeeds
AfterConsumption == IF setup.core THEN Awaits("core") ELSE AfterCore

\* doListen() up to its first await.
Begin ==
  /\ attempt < MaxAttempts
  /\ attempt' = attempt + 1
  /\ pc' = IF Kind # {} THEN "streams" ELSE IF setup.core THEN "core"
           ELSE IF setup.meta THEN "meta" ELSE "idle"
  /\ IF pc' \in {"streams", "core"} THEN Request ELSE UNCHANGED <<promise, connecting>>

booting == <<closed, late, subs, coreSub, heartbeat, client, manager>>

\* listen(): a critical connection answers when the chain ends, another one at once.
Listen ==
  /\ answer = "none"
  /\ ~closed
  /\ Begin
  /\ answer' = IF setup.critical /\ pc' # "idle" THEN "pending" ELSE "ok"
  /\ NoFault
  /\ UNCHANGED <<nats, connection, jsm, jsClient, draining, providerVars, setup,
                 retryTimer, booting>>

\* The retry timer runs attemptBackgroundStart().
Retry ==
  /\ NextTurn
  /\ retryTimer
  /\ retryTimer' = FALSE
  /\ Begin
  /\ NoFault
  /\ UNCHANGED <<nats, connection, jsm, jsClient, draining, providerVars, setup,
                 answer, booting>>

\* A call that the chain awaits fails.
BootFails ==
  /\ \/ pc \in {"streams", "consumers"} /\ Answered /\ NextTurn
     \/ pc = "core" /\ Answered /\ ~Usable
  /\ Fails
  /\ Aborts
  /\ UNCHANGED <<nats, connection, jsm, jsClient, draining, providerVars, setup,
                 attempt, booting>>

\* startRouters() and startConsumption() once the RPC router, if there is one, has
\* its connection.
Consumption ==
  /\ StartFlows(Kind, attempt)
  /\ IF "ordered" \in Kind THEN Awaits("ordered") ELSE AfterConsumption

\* eventRouter.start(): one more subscription for each kind of event.
EventRouterStarts ==
  subs' = [k \in Kinds |-> IF k \in Evented THEN subs[k] + 1 ELSE subs[k]]

\* Mutant: consumption is started before the routers are subscribed.
RoutersStartLate ==
  IF closed THEN Aborts /\ UNCHANGED <<subs, providerVars>>
  ELSE IF "command" \in Kind
       THEN Awaits("rpcRouter") /\ StartFlows(Kind \ {"ordered"}, attempt)
            /\ UNCHANGED subs
       ELSE EventRouterStarts /\ Consumption

\* Provisioning is done.  A strategy that was closed meanwhile aborts here, before
\* any router is subscribed.
RoutersStart ==
  IF closed THEN Aborts /\ UNCHANGED <<subs, providerVars>>
  ELSE /\ EventRouterStarts
       /\ IF "command" \in Kind THEN Awaits("rpcRouter") /\ UNCHANGED providerVars
          ELSE Consumption

\* ensureStreams() worked.
StreamsEnsured ==
  /\ NextTurn
  /\ pc = "streams"
  /\ Up
  /\ CacheManager
  /\ IF Durable # {} THEN Awaits("consumers") /\ UNCHANGED <<subs, providerVars>>
     ELSE RoutersStart
  /\ NoFault
  /\ UNCHANGED <<nats, connection, jsClient, draining, setup, attempt, closed, late,
                 coreSub, heartbeat, client, manager>>

\* ensureConsumers() worked.
ConsumersEnsured ==
  /\ NextTurn
  /\ pc = "consumers"
  /\ Up
  /\ RoutersStart
  /\ NoFault
  /\ UNCHANGED <<nats, connection, jsm, jsClient, draining, setup, attempt, closed, late,
                 coreSub, heartbeat, client, manager>>

\* Mutant: the routers that subscribed after close() are left.
RpcRouterStartsAnyway ==
  /\ pc = "rpcRouter"
  /\ Answered
  /\ subs' = [subs EXCEPT !["command"] = @ + 1]
  /\ IF closed THEN Aborts /\ UNCHANGED providerVars ELSE Consumption
  /\ NoFault
  /\ UNCHANGED <<nats, connection, jsm, jsClient, draining, setup, attempt, closed, late,
                 coreSub, heartbeat, client, manager>>

\* rpcRouter.start() has its connection and subscribes.  When close() ran meanwhile,
\* the routers are destroyed again and the chain aborts.
RpcRouterStarts ==
  /\ pc = "rpcRouter"
  /\ Answered
  /\ IF closed
     THEN /\ subs' = [k \in Kinds |-> 0]
          /\ Aborts
          /\ UNCHANGED providerVars
     ELSE /\ subs' = [subs EXCEPT !["command"] = @ + 1]
          /\ Consumption
  /\ NoFault
  /\ UNCHANGED <<nats, connection, jsm, jsClient, draining, setup, attempt, closed, late,
                 coreSub, heartbeat, client, manager>>

\* startOrdered() settled.
OrderedReady ==
  /\ pc = "ordered"
  /\ ready \in {"ok", "failed"}
  /\ IF ready = "ok" THEN AfterConsumption ELSE Aborts
  /\ NoFault
  /\ UNCHANGED <<nats, connection, jsm, jsClient, draining, providerVars, setup,
                 attempt, booting>>

\* coreRpcServer.start() has its connection and subscribes.
CoreRpcStarts ==
  /\ pc = "core"
  /\ Usable
  /\ coreSub' = TRUE
  /\ AfterCore
  /\ NoFault
  /\ UNCHANGED <<nats, connection, jsm, jsClient, draining, providerVars, setup,
                 attempt, closed, late, subs, heartbeat, client, manager>>

\* metadataProvider.publish(): entries that cannot be written are logged, so the
\* heartbeat starts once the bucket was opened; a bucket that cannot be opened is
\* logged too.
MetadataPublished ==
  /\ NextTurn
  /\ pc = "meta"
  /\ \/ Up /\ heartbeat' = TRUE /\ NoFault
     \/ Fails /\ UNCHANGED heartbeat
  /\ Succeeds
  /\ UNCHANGED <<nats, connection, jsm, jsClient, draining, providerVars, setup,
                 attempt, closed, late, subs, coreSub, client, manager>>

--------------------------------------------------------------------------------
\* doListen() looks at closed for the last time before it starts consumption: what it
\* does after that does not know of a close().
PastLastLook == pc \in {"core", "meta"} \/ (pc = "ordered" /\ ready = "ok")

\* Mutant: the heartbeat is not stopped.
CloseKeepsHeartbeat ==
  /\ closed' = TRUE
  /\ late' = PastLastLook
  /\ retryTimer' = FALSE
  /\ subs' = [k \in Kinds |-> 0]
  /\ coreSub' = FALSE
  /\ UNCHANGED heartbeat
  /\ DestroyFlows

\* close(): the retry timer, the heartbeat, the routers, core RPC and consumption.
CloseStrategy ==
  /\ closed' = TRUE
  /\ late' = PastLastLook
  /\ retryTimer' = FALSE
  /\ heartbeat' = FALSE
  /\ subs' = [k \in Kinds |-> 0]
  /\ coreSub' = FALSE
  /\ DestroyFlows

\* Nest closes its microservices before it runs the shutdown hooks.
AppCloses ==
  /\ ~closed
  /\ CloseStrategy
  /\ NoFault
  /\ UNCHANGED <<connVars, setup, pc, answer, attempt, client, manager>>

\* onApplicationShutdown(): every strategy is closed, then every scope drained.  A
\* second call gets the same Promise.
Shutdown ==
  /\ manager = "no"
  /\ manager' = "draining"
  /\ CloseStrategy
  /\ ShutdownStarts
  /\ NoFault
  /\ UNCHANGED <<nats, connection, promise, connecting, jsm, jsClient, setup, pc, answer, attempt,
                 client>>

\* drainScope(): shutdown() of the connection won, or its budget ran out.
DrainEnds ==
  /\ NextTurn
  /\ manager = "draining"
  /\ IF draining = "done" THEN NoFault ELSE Fault
  /\ manager' = "complete"
  /\ UNCHANGED <<connVars, providerVars, setup, pc, answer, closed, late, retryTimer,
                 attempt,                  subs, coreSub, heartbeat, client>>

--------------------------------------------------------------------------------
\* What the flows may do, given the connection.
FlowCalls(f) ==
  \/ Up /\ (Gets(f) \/ Recovers(f) \/ Consumes(f)) /\ NoFault
  \/ Up /\ NotFound(f) /\ Fault
  \/ CallFails(f) /\ Fails
  \/ IteratorCloses(f) /\ Fails
  \/ Usable /\ Repeats(f) /\ NoFault

FlowStep ==
  /\ NextTurn
  /\ \E f \in Flows : FlowCalls(f)
  /\ CacheClient
  /\ UNCHANGED <<nats, connection, promise, connecting, jsm, draining, setup, pc, answer, closed,
                 late, retryTimer, attempt, subs, coreSub, heartbeat, client, manager>>

lifeVars == <<providerVars, setup, answer, closed, late, retryTimer, attempt, subs,
              coreSub, heartbeat, manager>>

\* A JetstreamClient connects on first use; clients stop when the shutdown begins.
ClientConnects ==
  /\ client = "idle"
  /\ manager = "no"
  /\ Request
  /\ client' = "waiting"
  /\ NoFault
  /\ UNCHANGED <<nats, connection, jsm, jsClient, draining, lifeVars, pc>>

ClientConnected ==
  /\ client = "waiting"
  /\ Answered
  /\ client' = "ready"
  /\ NoFault
  /\ UNCHANGED <<connVars, lifeVars, pc>>

\* connect() failed: everyone who shared the promise sees the error.
ConnectFails ==
  /\ NextTurn
  /\ EstablishFails
  /\ Fault
  /\ client' = IF client = "waiting" THEN "idle" ELSE client
  /\ IF pc \in {"streams", "rpcRouter", "core"}
     THEN /\ pc' = "idle"
          /\ answer' = IF answer = "pending" THEN "error" ELSE answer
          /\ retryTimer' = (~setup.critical /\ ~closed)
     ELSE UNCHANGED <<pc, answer, retryTimer>>
  /\ UNCHANGED <<providerVars, setup, closed, late, attempt, subs, coreSub, heartbeat,
                 manager>>

ConnectionStep ==
  /\ \/ ShutdownAwaited /\ NoFault
     \/ NextTurn /\ (Establish \/ Reconnect \/ Drained) /\ NoFault
     \/ NextTurn /\ Disconnect /\ Fault
  /\ UNCHANGED <<lifeVars, pc, client>>

\* What runs in the same turn of the event loop.
Resume == RpcRouterStarts \/ OrderedReady \/ CoreRpcStarts \/ ClientConnected

\* Calls of Nest and of the application.
Call == Listen \/ AppCloses \/ Shutdown \/ ClientConnects

\* What the event loop takes next.
Receive ==
  \/ Retry \/ StreamsEnsured \/ ConsumersEnsured \/ MetadataPublished
  \/ FlowStep \/ ConnectFails \/ DrainEnds

Next ==
  \/ Call
  \/ Resume
  \/ BootFails
  \/ ConnectionStep
  \/ Receive

Spec == Init /\ [][Next]_vars

(***************************************************************************)
(* The server answers, timers fire, and the library reconnects; nothing is *)
(* assumed of Nest, of clients or of a drain.                              *)
(***************************************************************************)
FairSpec ==
  /\ Spec
  /\ WF_vars(Resume)
  /\ WF_vars(BootFails /\ NoFault)
  /\ WF_vars(ConnectionStep /\ NoFault)
  /\ WF_vars(Retry \/ StreamsEnsured \/ ConsumersEnsured \/ MetadataPublished)
  /\ \A f \in Flows : WF_vars(FlowStep /\ FlowCalls(f) /\ NoFault)

--------------------------------------------------------------------------------
\* A message is never taken from the server for a subject nobody listens to: while
\* the strategy is not closed, the kind of every open iterator has a router
\* subscribed to its subject (routers subscribe before consumption starts).
NoDroppedBacklog ==
  \A f \in Iterators :
    flow[f].alive /\ ~closed => subs[KindOf(f)] > 0

\* Behind a closed strategy whose boot chain is over, no retry is scheduled, no router
\* is subscribed and no flow will consume again, whatever close() interrupted; and the
\* core RPC subscription and the heartbeat are stopped, unless close() came after
\* doListen() had looked at closed for the last time.  Then the chain goes on and leaves
\* them running, although close() is to stop them: nothing looks at closed again.
ClosedIsQuiet ==
  closed /\ pc = "idle" =>
    /\ ~retryTimer
    /\ \A k \in Kinds : subs[k] = 0
    /\ \A f \in Flows : ~flow[f].alive
    /\ coreSub \/ heartbeat => late

\* The boot chain, its retries, the client and the flows share one connection, two
\* are never open at once; and none escapes the shutdown, not even one that was
\* being established when it began, nor does a cached manager or client.
NoEscapedConnection ==
  /\ Cardinality(Open) <= 1
  /\ draining = "done" => Open = {} /\ connecting = 0 /\ ~jsm /\ ~jsClient

\* A retried boot chain leaves one subscription for each kind: a message is routed
\* to one gate, its handler runs once for a delivery.
RoutedOnce == \A k \in Kinds : subs[k] <= 1

\* listen() of a critical connection always answers, also when the strategy is closed
\* while an ordered consumer is connecting.
ListenAnswers == answer = "pending" ~> answer \in {"ok", "error"}

\* Every configured kind is consumed by a live iterator with a router behind it.
Serving ==
  /\ \A k \in Kind : /\ subs[k] > 0
                     /\ \E f \in Iterators : KindOf(f) = k /\ flow[f].alive
  /\ setup.core => coreSub

\* When faults end, a strategy that was started and not closed serves for good: a
\* non-critical one by retrying its start, every one by its self-healing flows.
SelfHeals == <>[](answer \in {"none", "error"} \/ closed \/ Serving)
================================================================================
