------------------------------ MODULE Application ------------------------------
(***************************************************************************)
(* A Nest application over several connections: forRoot() and the scopes   *)
(* it builds, connectJetstreamMicroservices(), the bootstrap hooks of      *)
(* src/src/jetstream.module.ts, core RPC over the connection that hosts    *)
(* the handlers, metrics and health while connections come and go, and the *)
(* shutdown of all scopes.                                                 *)
(*                                                                         *)
(* A link abstracts ConnectionProvider and a chain the boot chain of       *)
(* StrategyLifecycle.  Nest (external) runs startAllMicroservices() and    *)
(* the bootstrap hooks in the order the application wrote, the hooks one   *)
(* after the other in some order; close() destroys modules, disposes of    *)
(* the microservices, then runs the shutdown hooks.                        *)
(***************************************************************************)
EXTENDS ConnectionOptions, CoreRpc, Health, Sequences

CONSTANTS
  Setups,     \* the applications explored
  Hosts,      \* the servers of a cluster
  MaxFaults   \* bound: faults explored

\* An application is initialised at some point: without it no bootstrap hook runs.
ASSUME ApplicationAssumption ==
  /\ MaxFaults \in Nat
  /\ IsFiniteSet(Names) /\ DefaultConnectionName \in Names
  /\ \A s \in Setups :
       /\ s.attach \subseteq Names /\ s.dead \subseteq Names
       /\ DOMAIN s.options.connections \subseteq Names
       /\ s.order \in Seq({"start", "init"}) /\ \E i \in DOMAIN s.order : s.order[i] = "init"

VARIABLES
  setup,     \* the application: its options, bootstrap order, handlers, ...
  registry,  \* the connection registry
  app,       \* where Nest is
  plan,      \* what the bootstrap has yet to do
  hooks,     \* the bootstrap hooks yet to run
  link,      \* the connection of each scope
  at,        \* the server it is connected to
  attached,  \* the strategies whose listen() was called
  chain,     \* the boot chain of each strategy
  drained,   \* scopes that were drained, or whose budget ran out
  leaked,    \* scopes whose budget ran out
  misled,    \* history: the metrics began to observe while the default connection was
             \* lost, and no disconnect was seen since
  faults     \* faults so far

appVars == <<setup, registry, app, plan, hooks, link, at, attached, chain, drained,
             leaked, misled, faults>>
vars == <<appVars, metricsVars, rpcVars, healthVars>>

Scopes == DOMAIN registry.scopes
Several == Cardinality(Scopes) > 1

\* The connection that hosts the handlers and that the calls use.
Home == IF setup.bound = Unset THEN registry.default ELSE setup.bound

LinkUp == {n \in Scopes : link[n] = "up"}
LinkOpen == {n \in Scopes : link[n] \in {"up", "down"}}
ServerOf(n) == <<n, at[n]>>

AppTypeOK ==
  /\ setup \in Setups
  /\ app \in {"new", "created", "starting", "booting", "checking", "started", "failed",
              "destroying", "draining", "stopped"}
  /\ hooks \subseteq {"metrics", "module"}
  /\ link \in [Names -> {"none", "connecting", "up", "down", "closed"}]
  /\ at \in [Names -> Hosts]
  /\ chain \in [Names -> {"none", "running", "serving", "retrying", "closed"}]
  /\ attached \subseteq Scopes
  /\ leaked \subseteq drained
  /\ drained \subseteq Scopes
  /\ misled \in BOOLEAN
  /\ faults \in 0 .. MaxFaults

TypeOK == MetricsTypeOK /\ RpcTypeOK /\ HealthTypeOK(Names) /\ AppTypeOK

Init ==
  /\ MetricsInit
  /\ RpcInit
  /\ HealthInit(Names)
  /\ setup \in Setups
  /\ hookThrows = setup.hookThrows
  /\ registry = Rejected
  /\ app = "new"
  /\ plan = setup.order
  /\ hooks = {"metrics", "module"}
  /\ link = [n \in Names |-> "none"]
  /\ at \in {[n \in Names |-> h] : h \in Hosts}
  /\ attached = {}
  /\ chain = [n \in Names |-> "none"]
  /\ drained = {}
  /\ leaked = {}
  /\ misled = FALSE
  /\ faults = 0

Fault == faults < MaxFaults /\ faults' = faults + 1
NoFault == faults' = faults

Alive == app \notin {"new", "failed", "stopped"}

--------------------------------------------------------------------------------
\* getConnection() by the scopes in ns: those without a connection begin to connect.
Request(ns) ==
  link' = [n \in Names |-> IF n \in ns /\ link[n] = "none" THEN "connecting" ELSE link[n]]

booted == <<setup, registry, at, drained, leaked, misled, metricsVars, rpcVars, healthVars>>

\* The module is created: options are normalised and every scope is built, or the
\* application fails.
Create ==
  /\ app = "new"
  /\ registry' = NormalizeOptions(setup.options)
  /\ app' = IF registry' = Rejected THEN "failed" ELSE "created"
  /\ NoFault
  /\ UNCHANGED <<setup, plan, hooks, link, at, attached, chain, drained, leaked,
                 misled, metricsVars, rpcVars, healthVars>>

\* The strategies of a microservice bootstrap: every one of
\* connectJetstreamMicroservices(), or the ones the application attached itself.
Attaching == Consumers(registry) \cap setup.attach

\* A strategy has handlers, so that its chain connects.
HasHandlers(n) == AcceptsConnection(registry, n, setup.bound)

\* connectMicroservice() registers the handlers, then startAllMicroservices() calls
\* listen() on all: a strategy without handlers has nothing to wait for.
StartMicroservices ==
  /\ app = "created"
  /\ plan # <<>>
  /\ Head(plan) = "start"
  /\ IF Attaching # {} /\ HandlerRefused(registry, setup.bound)
     THEN app' = "failed" /\ UNCHANGED <<attached, chain, link>>
     ELSE /\ app' = "starting"
          /\ attached' = Attaching
          /\ chain' = [n \in Names |-> IF n \notin Attaching THEN chain[n]
                                       ELSE IF HasHandlers(n) THEN "running" ELSE "serving"]
          /\ Request({n \in Attaching : HasHandlers(n)})
  /\ NoFault
  /\ UNCHANGED <<plan, hooks, booted>>

\* Mutant: listen() of every connection is waited for.
AwaitedAll(n) == TRUE

\* listen() answers when the chain is done only for a critical connection.
Awaited(n) == n \in Critical(registry)

\* Where Nest is when the first item of the plan is done.
Advance ==
  /\ plan' = Tail(plan)
  /\ app' = IF plan' = <<>> THEN "started" ELSE "created"

\* startAllMicroservices() resolved.
MicroservicesStarted ==
  /\ app = "starting"
  /\ \A n \in attached : Awaited(n) => chain[n] = "serving"
  /\ Advance
  /\ NoFault
  /\ UNCHANGED <<hooks, link, attached, chain, booted>>

\* The chain of connection n ran to its end.
ChainDone(n) ==
  /\ Alive
  /\ chain[n] = "running"
  /\ n \in LinkUp
  /\ chain' = [chain EXCEPT ![n] = "serving"]
  /\ NoFault
  /\ UNCHANGED <<app, plan, hooks, link, attached, booted>>

\* What becomes of the chains in ns that failed.
ChainsAfter(ns) ==
  [n \in Names |-> IF n \in ns /\ chain[n] = "running"
                   THEN IF n \in Critical(registry) THEN "none" ELSE "retrying"
                   ELSE chain[n]]

\* A critical connection's chain is among those in ns that failed.
StartFails(ns) == app = "starting" /\ \E n \in ns \cap Critical(registry) : chain[n] = "running"

\* Provisioning fails, or its requests time out on a connection that is down.
ChainFails(n) ==
  /\ Alive
  /\ chain[n] = "running"
  /\ n \in LinkOpen
  /\ IF n \in LinkUp THEN Fault ELSE NoFault
  /\ chain' = ChainsAfter({n})
  /\ app' = IF StartFails({n}) THEN "failed" ELSE app
  /\ UNCHANGED <<plan, hooks, link, attached, booted>>

\* The retry timer of a non-critical connection.
Retry(n) ==
  /\ Alive
  /\ chain[n] = "retrying"
  /\ chain' = [chain EXCEPT ![n] = "running"]
  /\ Request({n})
  /\ NoFault
  /\ UNCHANGED <<app, plan, hooks, attached, booted>>

--------------------------------------------------------------------------------
\* init() begins to run the bootstrap hooks.
Bootstrap ==
  /\ app = "created"
  /\ plan # <<>>
  /\ Head(plan) = "init"
  /\ app' = "booting"
  /\ NoFault
  /\ UNCHANGED <<plan, hooks, link, attached, chain, booted>>

\* The kinds the poll asks about: those of the default connection's handlers, known
\* once its chain has begun.  Core mode has no stream of commands.
PollTargets ==
  IF chain[registry.default] # "none" /\ HasHandlers(registry.default)
  THEN setup.kinds \cap {"event", "broadcast"} ELSE {}

\* onApplicationBootstrap() of the metrics service.
MetricsHook ==
  /\ app = "booting"
  /\ "metrics" \in hooks
  /\ hooks' = hooks \ {"metrics"}
  /\ IF setup.metrics
     THEN /\ BootstrapMetrics({ServerOf(n) : n \in {registry.default} \cap LinkOpen}, PollTargets)
          /\ misled' = (link[registry.default] = "down")
     ELSE UNCHANGED <<observed, counters, gauge, pollVars, misled>>
  /\ NoFault
  /\ UNCHANGED <<setup, registry, app, plan, link, at, attached, chain, drained, leaked,
                 hookThrows, rpcVars, healthVars>>

\* Mutant: a connection that was forgotten goes unnoticed.
AllConnectionsStartedAnyway == TRUE

\* assertAllConnectionsStarted(): with several consumers, all or none are attached.
AllConnectionsStarted ==
  \/ Cardinality(Consumers(registry)) < 2
  \/ attached = {}
  \/ Consumers(registry) \subseteq attached

\* onApplicationBootstrap() of the module, up to its await: with several connections
\* the critical ones are opened.
ModuleHook ==
  /\ app = "booting"
  /\ "module" \in hooks
  /\ hooks' = hooks \ {"module"}
  /\ app' = IF AllConnectionsStarted THEN "checking" ELSE "failed"
  /\ IF AllConnectionsStarted /\ Several THEN Request(Critical(registry)) ELSE UNCHANGED link
  /\ NoFault
  /\ UNCHANGED <<plan, attached, chain, booted>>

\* Mutant: critical connections are not waited for.
CriticalLiveAnyway == TRUE

\* ensureCriticalConnectionsLive() resolved.
CriticalLive == Several => \A n \in Critical(registry) : link[n] \in {"up", "down"}

ModuleHookDone ==
  /\ app = "checking"
  /\ CriticalLive
  /\ app' = "booting"
  /\ NoFault
  /\ UNCHANGED <<plan, hooks, link, attached, chain, booted>>

Bootstrapped ==
  /\ app = "booting"
  /\ hooks = {}
  /\ Advance
  /\ NoFault
  /\ UNCHANGED <<hooks, link, attached, chain, booted>>

--------------------------------------------------------------------------------
lifeVars == <<setup, registry, plan, hooks, attached, drained, leaked, observed, hookThrows,
              serverVars, reply, healthVars>>

\* connect() worked: the Connect event.
Establish(n) ==
  /\ Alive
  /\ link[n] = "connecting"
  /\ n \notin setup.dead
  /\ link' = [link EXCEPT ![n] = "up"]
  /\ ShowUp(ServerOf(n))
  /\ NoFault
  /\ UNCHANGED <<app, chain, at, misled, counters, pollVars, callerVars, lifeVars>>

\* Calls that await this connection.
Opening(n) == {c \in Calls : call[c] = "opening" /\ n = Home}

\* connect() failed: everyone who shared the promise fails, the chain, the module
\* hook, a poll cycle and calls.
ConnectFails(n) ==
  /\ Alive
  /\ link[n] = "connecting"
  /\ IF n \in setup.dead THEN NoFault ELSE Fault
  /\ link' = [link EXCEPT ![n] = "none"]
  /\ chain' = ChainsAfter({n})
  /\ app' = IF \/ StartFails({n})
               \/ app = "checking" /\ Several /\ n \in Critical(registry)
            THEN "failed" ELSE app
  /\ IF tickAt = "manager" /\ n = registry.default THEN TickEnds ELSE UNCHANGED pollVars
  /\ call' = [c \in Calls |-> IF c \in Opening(n) THEN "done" ELSE call[c]]
  /\ outcome' = [c \in Calls |-> IF c \in Opening(n) THEN "internal" ELSE outcome[c]]
  /\ callbacks' = [c \in Calls |-> IF c \in Opening(n) THEN callbacks[c] + 1 ELSE callbacks[c]]
  /\ UNCHANGED <<at, misled, gauge, counters, clientSpan, lifeVars>>

\* Status event "disconnect".
Disconnect(n) ==
  /\ Alive
  /\ n \in LinkUp
  /\ Fault
  /\ link' = [link EXCEPT ![n] = "down"]
  /\ ShowDown
  /\ misled' = FALSE
  /\ UNCHANGED <<app, chain, at, counters, pollVars, callerVars, lifeVars>>

\* Status event "reconnect", to any server of the cluster.
Reconnect(n) ==
  /\ Alive
  /\ link[n] = "down"
  /\ link' = [link EXCEPT ![n] = "up"]
  /\ \E h \in Hosts : at' = [at EXCEPT ![n] = h] /\ ShowUp(<<n, h>>)
  /\ NoFault
  /\ UNCHANGED <<app, chain, misled, counters, pollVars, callerVars, lifeVars>>

--------------------------------------------------------------------------------
idle == <<setup, registry, app, plan, hooks, at, attached, chain, drained, leaked,
          misled, observed, gauge, hookThrows>>

Poll ==
  /\ Alive
  /\ \/ /\ MayTick /\ TickStarts
        /\ Request({registry.default})
     \/ /\ registry.default \in LinkOpen /\ TickAsks
        /\ UNCHANGED link
     \/ /\ tickAt = "info" /\ TickEnds
        /\ UNCHANGED link
  /\ NoFault
  /\ UNCHANGED <<idle, counters, rpcVars, healthVars>>

Check ==
  /\ setup.checks
  /\ Alive
  /\ \/ app = "started" /\ CheckStarts(Scopes, LinkOpen)
     \/ \E n \in Scopes : ProbeEnds(n, n \in LinkUp)
     \/ CheckEnds(Critical(registry))
  /\ NoFault
  /\ UNCHANGED <<idle, link, counters, pollVars, rpcVars>>

\* The metrics know the handlers of the default connection only.
Known == Home = registry.default

\* The core RPC server of the home connection is subscribed.
Subscribed == chain[Home] = "serving"

Open == Home \in LinkOpen

Call(c) ==
  /\ Alive
  /\ UNCHANGED <<idle, pollVars, healthVars>>
  /\ \/ /\ app = "started" /\ setup.calls
        /\ Opens(c) /\ Request({Home}) /\ NoFault
     \/ /\ UNCHANGED link
        /\ \/ Open /\ Publishes(c, setup.traced) /\ NoFault
           \/ Open /\ NotPublished(c) /\ Fault
           \/ request[c] = "queued" /\ ~Subscribed /\ Settles(c, "failed") /\ NoFault
           \/ ~Open /\ Settles(c, "failed") /\ NoFault
           \/ TimesOut(c) /\ NoFault
           \/ Home \in LinkUp /\ Replied(c, TRUE) /\ NoFault
           \/ Home \in LinkUp /\ Replied(c, FALSE) /\ Fault

Serve(c) ==
  /\ Alive
  /\ UNCHANGED <<idle, link, pollVars, healthVars>>
  /\ \/ Home \in LinkUp /\ Subscribed /\ Handles(c, "plain", Known, setup.traced) /\ NoFault
     \/ /\ Home \in LinkUp /\ Subscribed /\ Fault
        /\ \E s \in {"unknown", "undecodable"} : Handles(c, s, Known, setup.traced)
     \/ HandlerEnds(c, "value", TRUE, Open) /\ NoFault
     \/ /\ Fault
        /\ \/ \E r \in {"expected", "unexpected"} : HandlerEnds(c, r, TRUE, Open)
           \/ HandlerEnds(c, "value", FALSE, Open)
     \/ link[Home] = "down" /\ Lost(c) /\ NoFault

--------------------------------------------------------------------------------
\* app.close(): onModuleDestroy() stops the poll.
Close ==
  /\ app = "started"
  /\ app' = "destroying"
  /\ StopTimer
  /\ NoFault
  /\ UNCHANGED <<setup, registry, plan, hooks, link, at, attached, chain, drained, leaked,
                 misled, observed, counters, gauge, hookThrows, rpcVars, healthVars>>

\* The poll has stopped.  The microservices are closed and doShutdown() closes every
\* strategy, then drains every scope at once.
Shutdown ==
  /\ app = "destroying"
  /\ StopAwaited
  /\ app' = "draining"
  /\ chain' = [n \in Names |-> IF chain[n] = "none" THEN "none" ELSE "closed"]
  /\ NoFault
  /\ UNCHANGED <<plan, hooks, link, attached, booted>>

\* drainScope(): the connection is drained and closed, or there was none; or the
\* budget ran out and the connection stays as it is.
Drain(n) ==
  /\ app = "draining"
  /\ n \in Scopes \ drained
  /\ drained' = drained \cup {n}
  /\ \/ /\ link[n] # "connecting"
        /\ Opening(n) = {}
        /\ link' = [link EXCEPT ![n] = IF @ = "none" THEN @ ELSE "closed"]
        /\ NoFault
        /\ UNCHANGED leaked
     \/ /\ Fault
        /\ leaked' = leaked \cup {n}
        /\ UNCHANGED link
  /\ UNCHANGED <<setup, registry, app, plan, hooks, at, attached, chain, misled,
                 metricsVars, rpcVars, healthVars>>

\* Mutant: the first scope that is done ends the shutdown.
AllDrainedAny == drained # {}

\* Mutant: every connection has to close.
AllClosed == \A n \in Scopes : link[n] = "closed"

\* allSettled(): each drain ended, one way or the other.
AllDrained == drained = Scopes

ShutdownDone ==
  /\ app = "draining"
  /\ AllDrained
  /\ app' = "stopped"
  /\ NoFault
  /\ UNCHANGED <<plan, hooks, link, attached, chain, booted>>

--------------------------------------------------------------------------------
Boot ==
  \/ Create \/ StartMicroservices \/ MicroservicesStarted \/ Bootstrap \/ MetricsHook
  \/ ModuleHook \/ ModuleHookDone \/ Bootstrapped

Chain(n) == ChainDone(n) \/ Retry(n) \/ ChainFails(n)
Connection(n) == Establish(n) \/ ConnectFails(n)
Stop == Shutdown \/ (\E n \in Names : Drain(n)) \/ ShutdownDone

Next ==
  \/ Boot
  \/ \E n \in Names : Chain(n)
  \/ \E n \in Names : Connection(n) \/ Disconnect(n) \/ Reconnect(n)
  \/ Poll
  \/ Check
  \/ \E c \in Calls : Call(c) \/ Serve(c)
  \/ Close
  \/ Stop

Spec == Init /\ [][Next]_vars

(***************************************************************************)
(* Promises settle, connect() answers one way or the other, timers fire.   *)
(* Nothing is assumed of a lost server coming back, of handlers, of users  *)
(* or of drains except that their budget ends.                             *)
(***************************************************************************)
FairSpec ==
  /\ Spec
  /\ WF_vars(Boot)
  /\ \A n \in Names : WF_vars(Chain(n) /\ NoFault) /\ WF_vars(Connection(n) /\ NoFault)
  /\ WF_vars(Poll)
  /\ WF_vars(Check)
  /\ \A c \in Calls : WF_vars(Call(c) /\ NoFault)
  /\ WF_vars(Stop /\ NoFault)

--------------------------------------------------------------------------------
\* The strategy that keeps the handlers was started.  An application may attach none, as
\* one that only publishes does; and a handler that names no connection, in an application
\* whose default connection only publishes, is kept by no strategy, which nothing reports.
HandlersHosted ==
  \/ attached = {}
  \/ setup.bound = Unset /\ registry.default \notin Consumers(registry)
  \/ Home \in attached /\ chain[Home] \in {"running", "serving", "retrying"}

\* What an application that says it has started can rely on: with several connections,
\* each critical one was reached; each critical strategy that was attached serves; and
\* when microservices were started before init(), an application that attached a strategy
\* forgot none, and the handlers are hosted.
StartedIsWired ==
  app = "started" =>
    /\ Several => \A n \in Critical(registry) : link[n] \in {"up", "down"}
    /\ \A n \in attached \cap Critical(registry) : chain[n] = "serving"
    /\ setup.order = <<"start", "init">> =>
         /\ attached # {} => Consumers(registry) \subseteq attached
         /\ HandlersHosted

\* The bootstrap ends, whatever becomes of connections that are not critical.
BootEnds == app = "new" ~> app \in {"started", "failed"}

\* With one connection, the server the application is connected to is shown as up
\* once the metrics observe, whenever they began to.  With several, a disconnect of one
\* shows every server as down.
UpIsShown ==
  observed /\ ~Several =>
    \A n \in LinkUp : ServerOf(n) \in DOMAIN gauge /\ gauge[ServerOf(n)] = 1

\* A server that is shown as up is one that a connection is up on, or was when the
\* shutdown closed it; unless the metrics began to observe while the connection was lost:
\* syncInitialConnectionState() shows its last server as up, until the next disconnect.
ShownIsUp ==
  observed /\ ~misled =>
    \A s \in DOMAIN gauge :
      gauge[s] = 1 => \E n \in Names : s = ServerOf(n) /\ link[n] \in {"up", "closed"}

\* What an operator sees, in the meters and the spans, is what happened, whatever a hook
\* of the user does; and the gauge of connections shows what is up, in both directions,
\* but for the two exceptions that UpIsShown and ShownIsUp name.
TelemetryAgrees == MetersAddUp /\ SpansAgree /\ UpIsShown /\ ShownIsUp

\* Poll cycles never overlap, and none runs once the modules were destroyed: no
\* request of the poll is out when the connections are drained.
PollIsQuiet ==
  /\ ticks <= 1
  /\ app \in {"draining", "stopped"} => ticks = 0 /\ ~pollTimer

HealthAnswers == Checking ~> ~Checking \/ ~Alive
CallsSettle == \A c \in Calls : call[c] \in {"opening", "waiting"} ~> call[c] = "done" \/ ~Alive

\* Whoever waits is answered: a readiness check while a server is silent, and every
\* caller, through lost messages, lost connections and the shutdown.
EveryoneIsAnswered == HealthAnswers /\ CallsSettle

\* The shutdown ends and leaves no connection open but one whose own drain hung.
ShutdownEnds ==
  app = "destroying" ~>
    app = "stopped" /\ \A n \in Scopes \ leaked : link[n] \in {"none", "closed"}
================================================================================
