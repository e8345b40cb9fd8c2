---------------------------- MODULE ApplicationProofs ----------------------------
(***************************************************************************)
(* The invariants of Application, for any names, hosts, calls, setups and  *)
(* bounds.                                                                 *)
(*                                                                         *)
(* Four layers: the types with the registry of scopes and the poll; the    *)
(* life of a call, which gives OneReply and SpansAgree; the meters, which  *)
(* count the calls in each stage of that life; and the bootstrap with the  *)
(* gauge of connections.                                                   *)
(***************************************************************************)
EXTENDS Application, TLAPS, FiniteSetTheorems

\* The registry: every scope has a name, the default one is a scope, and before the
\* module exists nothing does.
RegistryInv ==
  /\ Scopes \subseteq Names
  /\ registry = Rejected \/ registry.default \in Scopes
  /\ registry = Rejected => app \in {"new", "failed"}
  /\ app = "new" => registry = Rejected /\ \A n \in Names : link[n] = "none"
  /\ attached \subseteq Consumers(registry)

\* The poll: a cycle under way awaits something, and the bootstrap hooks of a module
\* that is being destroyed do not start the timer again.
PollInv ==
  /\ ticks = (IF tickAt = "none" THEN 0 ELSE 1)
  /\ app \in {"destroying", "draining", "stopped"} => ~pollTimer
  /\ app \in {"draining", "stopped"} => ticks = 0

TypeInv == TypeOK /\ RegistryInv /\ PollInv

\* The life of a call: the request, its handling, the reply and the outcome come one
\* after the other.
CallsInv ==
  \A c \in Calls :
    /\ call[c] \in {"idle", "opening"} => request[c] = "none"
    /\ call[c] # "done" => outcome[c] = "none"
    /\ request[c] \in {"none", "queued"} => consumeSpan[c] = "none"
    /\ request[c] \in {"none", "queued", "handling", "lost"} => replies[c] = 0 /\ reply[c] = "none"
    /\ request[c] # "served" => handled[c] = "none"
    /\ "ok" \in {reply[c], outcome[c]} => handled[c] = "success"

RpcInv == CallsInv /\ OneReply /\ SpansAgree

\* Calls begin when the application has started, with the meters at 0 unless the
\* metrics observe.
Early == {"new", "created", "starting", "booting", "checking", "failed"}
Called == {c \in Calls : call[c] # "idle"}

MetersInv ==
  /\ IsFiniteSet(Called)
  /\ app \in Early => Called = {}
  /\ ~observed => \A m \in Meters : counters[m] = 0
  /\ MetersAddUp

\* The bootstrap: the plan tells where Nest is, the module's hook has run by the time
\* the plan is done, and what it checked stays true.
BootInv ==
  /\ app = "new" => "module" \in hooks
  /\ app = "starting" => plan # <<>> /\ Head(plan) = "start"
  /\ app \in {"booting", "checking"} => plan # <<>> /\ Head(plan) = "init"
  /\ app \in {"started", "destroying"} => plan = <<>>
  /\ plan \in Seq({"start", "init"})
  /\ hooks # {} => \E i \in DOMAIN plan : plan[i] = "init"

CriticalInv ==
  "module" \notin hooks /\ Several /\ app \in {"created", "starting", "booting", "started"} =>
    \A n \in Critical(registry) : link[n] \in {"up", "down"}

AttachInv ==
  setup.order = <<"start", "init">> =>
    /\ plan \in {<<"start", "init">>, <<"init">>, <<>>}
    /\ "module" \notin hooks /\ app # "failed" => plan # <<"start", "init">> /\ AllConnectionsStarted

\* The strategies that are attached: their handlers were accepted, and the chain of a
\* critical one is done before anything else is; the others run, serve or retry.
ChainsInv ==
  /\ app = "new" => attached = {}
  /\ attached # {} => ~HandlerRefused(registry, setup.bound)
  /\ app \in {"created", "starting", "booting", "checking", "started"} =>
       \A n \in attached :
         /\ chain[n] \in {"running", "serving", "retrying"}
         /\ n \in Critical(registry) =>
              chain[n] = "serving" \/ (app = "starting" /\ chain[n] = "running")

WiredInv == BootInv /\ CriticalInv /\ AttachInv /\ ChainsInv

IInv == TypeInv /\ RpcInv /\ MetersInv /\ WiredInv /\ UpIsShown /\ ShownIsUp

--------------------------------------------------------------------------------
(***************************************************************************)
(* The registry.                                                           *)
(***************************************************************************)
\* The default connection of options that are accepted is one of the connections.
LEMMA DefaultIsDeclared ==
  ASSUME NEW names, NEW requested, ResolveDefaultName(names, requested) # Unset
  PROVE  ResolveDefaultName(names, requested) \in names
<1>1. CASE requested # Unset
  BY <1>1 DEF ResolveDefaultName
<1>2. CASE requested = Unset /\ Cardinality(names) = 1
  <2>1. names # {}
    BY <1>2, FS_EmptySet
  <2> QED BY <1>2, <2>1 DEF ResolveDefaultName
<1>3. CASE requested = Unset /\ Cardinality(names) # 1
  BY <1>3 DEF ResolveDefaultName
<1> QED BY <1>1, <1>2, <1>3

\* What normalizeOptions() answers: nothing, or scopes for the declared names with the
\* default one among them.
LEMMA NormalizedScopes ==
  ASSUME NEW options, NEW r, r = NormalizeOptions(options), r # Rejected
  PROVE  /\ DOMAIN r.scopes \subseteq DOMAIN options.connections \cup {DefaultConnectionName}
         /\ r.default \in DOMAIN r.scopes
<1> DEFINE declared == IF "connections" \in options.given THEN options.connections
                       ELSE [n \in {DefaultConnectionName} |->
                              [servers |-> options.servers, critical |-> Unset,
                               consumer |-> Unset]]
           scopes == [n \in DOMAIN declared |-> MergeConnection(options, declared[n])]
           default == ResolveDefaultName(DOMAIN declared, options.default)
<1>1. r = [scopes |-> scopes, default |-> default] /\ default # Unset
  BY DEF NormalizeOptions
<1>2. DOMAIN declared \subseteq DOMAIN options.connections \cup {DefaultConnectionName}
  OBVIOUS
<1>3. DOMAIN scopes = DOMAIN declared
  OBVIOUS
<1> HIDE DEF declared, scopes
<1>4. default \in DOMAIN declared
  BY <1>1, DefaultIsDeclared
<1> QED BY <1>1, <1>2, <1>3, <1>4

--------------------------------------------------------------------------------
(***************************************************************************)
(* Types.                                                                  *)
(***************************************************************************)
\* The actions that have no part in calls.
Surroundings ==
  \/ Boot \/ Poll \/ Check \/ Close \/ Stop
  \/ \E n \in Names : Chain(n) \/ Establish(n) \/ Disconnect(n) \/ Reconnect(n)

LEMMA NextByPart ==
  ASSUME [Next]_vars
  PROVE  \/ Surroundings \/ UNCHANGED vars
         \/ \E n \in Names : ConnectFails(n)
         \/ \E c \in Calls : Call(c) \/ Serve(c)
BY DEF Next, Connection, Surroundings

\* They leave calls and meters alone.
LEMMA SurroundingsKeepCalls ==
  ASSUME Surroundings \/ UNCHANGED vars
  PROVE  UNCHANGED <<rpcVars, counters>>
<1> USE DEF rpcVars, callerVars, serverVars, metricsVars, booted
<1>1. CASE Boot
  <2>1. ASSUME MetricsHook PROVE UNCHANGED <<rpcVars, counters>>
    BY <2>1 DEF MetricsHook, BootstrapMetrics
  <2>2. ASSUME ~MetricsHook PROVE UNCHANGED <<rpcVars, counters>>
    BY <1>1, <2>2 DEF Boot, Create, StartMicroservices, MicroservicesStarted, Bootstrap, ModuleHook,
                      ModuleHookDone, Bootstrapped
  <2> QED BY <2>1, <2>2
<1>2. CASE Poll
  BY <1>2 DEF Poll
<1>3. CASE Check
  BY <1>3 DEF Check, idle
<1>4. CASE Close \/ Stop
  BY <1>4 DEF Close, Stop, Shutdown, Drain, ShutdownDone
<1>5. ASSUME NEW n \in Names, Chain(n) PROVE UNCHANGED <<rpcVars, counters>>
  BY <1>5 DEF Chain, ChainDone, Retry, ChainFails
<1>6. ASSUME NEW n \in Names, Establish(n) \/ Disconnect(n) \/ Reconnect(n)
      PROVE  UNCHANGED <<rpcVars, counters>>
  BY <1>6 DEF Establish, Disconnect, Reconnect, lifeVars
<1>7. CASE UNCHANGED vars
  BY <1>7 DEF vars
<1> QED BY <1>1, <1>2, <1>3, <1>4, <1>5, <1>6, <1>7 DEF Surroundings

LEMMA Init_TypeInv == Init => TypeInv
<1> SUFFICES ASSUME Init PROVE TypeInv
  OBVIOUS
<1> USE ApplicationAssumption DEF Init
<1>1. MetricsTypeOK
  <2>1. DOMAIN gauge = {}
    BY DEF MetricsInit
  <2>2. observed \in BOOLEAN /\ pollTimer \in BOOLEAN
    BY DEF MetricsInit
  <2>3. counters \in [Meters -> Nat] /\ ticks \in Nat /\ tickAt \in {"none", "manager", "info"}
    BY DEF MetricsInit
  <2> QED BY <2>1, <2>2, <2>3 DEF MetricsTypeOK
<1>2. RpcTypeOK
  BY DEF RpcInit, RpcTypeOK
<1>3. HealthTypeOK(Names)
  BY DEF HealthInit, HealthTypeOK
<1>4. RegistryInv /\ PollInv
  BY DEF RegistryInv, PollInv, MetricsInit, Scopes, Rejected, Consumers
<1>5. at \in [Names -> Hosts]
  OBVIOUS
<1>6. misled \in BOOLEAN
  OBVIOUS
<1> QED BY <1>1, <1>2, <1>3, <1>4, <1>5, <1>6 DEF TypeInv, TypeOK, AppTypeOK

\* What one step of a call does to the meters.
LEMMA EmitType ==
  ASSUME MetricsTypeOK, NEW S, Emit(S), UNCHANGED <<observed, gauge, pollVars>>
  PROVE  MetricsTypeOK'
BY DEF MetricsTypeOK, Emit, pollVars

LEMMA RpcTypeStep ==
  ASSUME RpcTypeOK, [Next]_vars
  PROVE  RpcTypeOK'
<1>1. CASE Surroundings \/ UNCHANGED vars
  BY <1>1, SurroundingsKeepCalls DEF RpcTypeOK, rpcVars, callerVars, serverVars
<1>2. ASSUME NEW n \in Names, ConnectFails(n) PROVE RpcTypeOK'
  <2>1. UNCHANGED <<request, replies, handled, consumeSpan, clientSpan, reply>>
    BY <1>2 DEF ConnectFails, lifeVars, serverVars
  <2> QED BY <1>2, <2>1 DEF ConnectFails, RpcTypeOK
<1>3. ASSUME NEW c \in Calls, Call(c) PROVE RpcTypeOK'
  <2> USE DEF RpcTypeOK, rpcVars, callerVars, serverVars, Tell
  <2>1. ASSUME NEW how \in {"ok", "error", "timeout", "failed"}, Settles(c, how) PROVE RpcTypeOK'
    BY <2>1 DEF Settles, ClientSpanStatus
  <2>2. CASE Opens(c)
    BY <2>2 DEF Opens
  <2>3. CASE Publishes(c, setup.traced)
    BY <2>3 DEF Publishes
  <2>4. CASE NotPublished(c)
    BY <2>4 DEF NotPublished
  <2>5. CASE TimesOut(c) \/ Replied(c, TRUE) \/ Replied(c, FALSE)
    BY <2>5, <2>1 DEF TimesOut, Replied
  <2> QED BY <1>3, <2>1, <2>2, <2>3, <2>4, <2>5 DEF Call
<1>4. ASSUME NEW c \in Calls, Serve(c) PROVE RpcTypeOK'
  <2> USE DEF RpcTypeOK, rpcVars, callerVars, serverVars
  <2>1. ASSUME NEW sort \in {"plain", "unknown", "undecodable"}, Handles(c, sort, Known, setup.traced)
        PROVE  RpcTypeOK'
    BY <2>1 DEF Handles, Responds
  <2>2. ASSUME NEW result, NEW encodable, NEW open, HandlerEnds(c, result, encodable, open)
        PROVE  RpcTypeOK'
    BY <2>2 DEF HandlerEnds, Responds
  <2>3. CASE Lost(c)
    BY <2>3 DEF Lost
  <2> QED BY <1>4, <2>1, <2>2, <2>3 DEF Serve
<1> QED BY <1>1, <1>2, <1>3, <1>4, NextByPart

\* The poll and the gauge: what each action that touches them leaves.
LEMMA MetricsTypeStep ==
  ASSUME TypeInv, [Next]_vars
  PROVE  (MetricsTypeOK /\ PollInv)'
<1> USE DEF TypeInv, TypeOK, AppTypeOK, MetricsTypeOK, PollInv, pollVars
<1>1. CASE Boot
  <2>1. CASE MetricsHook
    <3>1. CASE setup.metrics
      <4>1. gauge' = [s \in {ServerOf(n) : n \in {registry.default} \cap LinkOpen} |-> 1]
            /\ observed' = TRUE /\ pollTimer' = (PollTargets # {})
            /\ UNCHANGED <<counters, ticks, tickAt>> /\ app = "booting" /\ app' = app
        BY <2>1, <3>1 DEF MetricsHook, BootstrapMetrics, SyncInitialConnectionState
      <4>2. {observed', pollTimer'} \subseteq BOOLEAN
        BY <4>1
      <4>3. \A s \in DOMAIN gauge' : gauge'[s] \in {0, 1}
        BY <4>1
      <4> QED BY <4>1, <4>2, <4>3
    <3>2. CASE ~setup.metrics
      BY <2>1, <3>2 DEF MetricsHook
    <3> QED BY <3>1, <3>2
  <2>2. ASSUME Boot, ~MetricsHook
        PROVE  /\ UNCHANGED <<observed, counters, gauge, pollTimer, ticks, tickAt>>
               /\ app' \notin {"destroying", "draining", "stopped"}
    BY <2>2 DEF Boot, Create, StartMicroservices, MicroservicesStarted, Bootstrap, ModuleHook,
                      ModuleHookDone, Bootstrapped, Advance, booted, metricsVars
  <2> QED BY <1>1, <2>1, <2>2
<1>2. CASE Poll
  BY <1>2 DEF Poll, idle, MayTick, TickStarts, TickAsks, TickEnds
<1>3. CASE Check
  BY <1>3 DEF Check, idle
<1>4. CASE Close \/ Stop
  <2>1. ASSUME Close PROVE (MetricsTypeOK /\ PollInv)'
    BY <2>1 DEF Close, StopTimer
  <2>2. ASSUME Stop
        PROVE  /\ UNCHANGED <<observed, counters, gauge, pollTimer, ticks, tickAt>>
               /\ \/ app = "destroying" /\ app' = "draining" /\ StopAwaited
                  \/ app = "draining" /\ app' \in {"draining", "stopped"}
    BY <2>2 DEF Stop, Shutdown, Drain, ShutdownDone, booted, metricsVars
  <2> QED BY <1>4, <2>1, <2>2 DEF StopAwaited
<1>5. ASSUME NEW n \in Names, Chain(n) PROVE (MetricsTypeOK /\ PollInv)'
  BY <1>5 DEF Chain, ChainDone, Retry, ChainFails, StartFails, booted, metricsVars
<1>6. ASSUME NEW n \in Names, Establish(n) \/ Disconnect(n) \/ Reconnect(n)
      PROVE  (MetricsTypeOK /\ PollInv)'
  <2>1. UNCHANGED <<app, observed, counters, pollTimer, ticks, tickAt>>
    BY <1>6 DEF Establish, Disconnect, Reconnect, lifeVars
  <2>2. ASSUME NEW server, ShowUp(server) PROVE \A s \in DOMAIN gauge' : gauge'[s] \in {0, 1}
    BY <2>2 DEF ShowUp
  <2>3. ASSUME ShowDown PROVE \A s \in DOMAIN gauge' : gauge'[s] \in {0, 1}
    BY <2>3 DEF ShowDown
  <2>4. \A s \in DOMAIN gauge' : gauge'[s] \in {0, 1}
    BY <1>6, <2>2, <2>3 DEF Establish, Disconnect, Reconnect
  <2> QED BY <2>1, <2>4
<1>7. ASSUME NEW n \in Names, ConnectFails(n) PROVE (MetricsTypeOK /\ PollInv)'
  <2>1. UNCHANGED <<observed, counters, gauge>>
        /\ (app' = app \/ app' = "failed")
        /\ (UNCHANGED pollVars \/ (tickAt = "manager" /\ TickEnds))
    BY <1>7 DEF ConnectFails, lifeVars
  <2> QED BY <2>1 DEF TickEnds
<1>8. ASSUME NEW c \in Calls, Call(c) \/ Serve(c) PROVE (MetricsTypeOK /\ PollInv)'
  <2>1. UNCHANGED <<app, observed, gauge, pollVars>>
    BY <1>8 DEF Call, Serve, idle
  <2>2. UNCHANGED counters \/ \E S : Emit(S)
    BY <1>8 DEF Call, Serve, Opens, NotPublished, Publishes, Settles, TimesOut, Replied, Handles,
                HandlerEnds, Lost
  <2> QED BY <2>1, <2>2, EmitType
<1>9. CASE UNCHANGED vars
  BY <1>9 DEF vars, appVars, metricsVars
<1> QED BY <1>1, <1>2, <1>3, <1>4, <1>5, <1>6, <1>7, <1>8, <1>9 DEF Next, Connection

LEMMA HealthTypeStep ==
  ASSUME HealthTypeOK(Names), [Next]_vars
  PROVE  HealthTypeOK(Names)'
<1>1. CASE Check
  BY <1>1 DEF Check, HealthTypeOK, CheckStarts, ProbeEnds, CheckEnds, Verdict
<1>2. CASE ~Check
  <2>1. UNCHANGED healthVars
    BY <1>2 DEF Next, Boot, Create, StartMicroservices, MicroservicesStarted, Bootstrap, MetricsHook,
                ModuleHook, ModuleHookDone, Bootstrapped, booted, Chain, ChainDone, Retry, ChainFails,
                Connection, Establish, ConnectFails, Disconnect, Reconnect, lifeVars, Poll, Call,
                Serve, Close, Stop, Shutdown, Drain, ShutdownDone, vars
  <2> QED BY <2>1 DEF HealthTypeOK, healthVars
<1> QED BY <1>1, <1>2

\* Faults stay within their bound.
LEMMA FaultType ==
  ASSUME faults \in 0 .. MaxFaults, Fault \/ NoFault
  PROVE  faults' \in 0 .. MaxFaults
BY ApplicationAssumption DEF Fault, NoFault

\* The connections, whatever happens to them, stay typed.
LEMMA AppTypeStep ==
  ASSUME TypeInv, [Next]_vars
  PROVE  (AppTypeOK /\ RegistryInv)'
<1> USE DEF TypeInv, TypeOK, AppTypeOK, RegistryInv, Scopes
<1> DEFINE Goal == AppTypeOK /\ RegistryInv
<1> USE FaultType DEF NoFault, booted
<1>1. CASE Create
  <2>1. registry' # Rejected => /\ DOMAIN registry'.scopes \subseteq Names
                                /\ registry'.default \in DOMAIN registry'.scopes
    BY <1>1, NormalizedScopes, ApplicationAssumption DEF Create
  <2>2. registry' = Rejected => DOMAIN registry'.scopes = {}
    BY DEF Rejected
  <2>3. attached = {} /\ drained = {} /\ leaked = {}
    BY <1>1 DEF Create, Consumers, Rejected
  <2> QED BY <1>1, <2>1, <2>2, <2>3 DEF Create, Consumers
<1>2. CASE StartMicroservices
  <2>1. attached' \subseteq Consumers(registry)
    BY <1>2 DEF StartMicroservices, Attaching
  <2>2. Consumers(registry) \subseteq Scopes
    BY DEF Consumers
  <2> QED BY <1>2, <2>1, <2>2 DEF StartMicroservices, Request, Consumers
<1>3. CASE MicroservicesStarted \/ Bootstrap \/ ModuleHookDone \/ Bootstrapped
  BY <1>3 DEF MicroservicesStarted, Bootstrap, ModuleHookDone, Bootstrapped, Advance, Consumers
<1>4. CASE MetricsHook
  <2>1. misled' \in BOOLEAN
    BY <1>4 DEF MetricsHook
  <2> QED BY <1>4, <2>1 DEF MetricsHook, Consumers
<1>5. CASE ModuleHook
  BY <1>5 DEF ModuleHook, Request, Consumers
<1>6. ASSUME NEW n \in Names, Chain(n) PROVE Goal'
  <2>1. /\ chain' \in [Names -> {"none", "running", "serving", "retrying", "closed"}]
        /\ link' \in [Names -> {"none", "connecting", "up", "down", "closed"}]
        /\ app # "new" /\ app' \in {app, "failed"} /\ (Fault \/ NoFault)
    BY <1>6 DEF Chain, ChainDone, Retry, ChainFails, ChainsAfter, Request, Alive
  <2>2. UNCHANGED <<setup, registry, hooks, at, attached, drained, leaked, misled>>
    BY <1>6 DEF Chain, ChainDone, Retry, ChainFails
  <2> QED BY <2>1, <2>2 DEF Consumers
<1>7. ASSUME NEW n \in Names, Establish(n) \/ Disconnect(n) \/ Reconnect(n) PROVE Goal'
  <2>1. /\ link' \in [Names -> {"none", "connecting", "up", "down", "closed"}]
        /\ app # "new" /\ app' = app /\ (Fault \/ NoFault)
    BY <1>7 DEF Establish, Disconnect, Reconnect, Alive
  <2>3. at' \in [Names -> Hosts]
    BY <1>7 DEF Establish, Disconnect, Reconnect
  <2>2. UNCHANGED <<setup, registry, hooks, chain, attached, drained, leaked>>
    BY <1>7 DEF Establish, Disconnect, Reconnect, lifeVars
  <2>4. misled' \in BOOLEAN
    BY <1>7 DEF Establish, Disconnect, Reconnect
  <2> QED BY <2>1, <2>2, <2>3, <2>4 DEF Consumers
<1>8. ASSUME NEW n \in Names, ConnectFails(n) PROVE Goal'
  <2>1. /\ link' \in [Names -> {"none", "connecting", "up", "down", "closed"}]
        /\ chain' \in [Names -> {"none", "running", "serving", "retrying", "closed"}]
        /\ app # "new" /\ app' \in {app, "failed"} /\ (Fault \/ NoFault)
    BY <1>8 DEF ConnectFails, ChainsAfter, Alive
  <2>2. UNCHANGED <<setup, registry, hooks, at, attached, drained, leaked, misled>>
    BY <1>8 DEF ConnectFails, lifeVars
  <2> QED BY <2>1, <2>2 DEF Consumers
<1>9. CASE Poll \/ Check \/ \E c \in Calls : Call(c) \/ Serve(c)
  <2>1. /\ link' \in [Names -> {"none", "connecting", "up", "down", "closed"}]
        /\ app # "new" /\ (Fault \/ NoFault)
    BY <1>9 DEF Poll, Check, Call, Serve, Request, Alive
  <2>2. UNCHANGED <<app, setup, registry, hooks, at, chain, attached, drained, leaked, misled>>
    BY <1>9 DEF Poll, Check, Call, Serve, idle
  <2> QED BY <2>1, <2>2 DEF Consumers
<1>10. CASE Close \/ Shutdown \/ ShutdownDone
  BY <1>10 DEF Close, Shutdown, ShutdownDone, Consumers
<1>11. ASSUME NEW n \in Names, Drain(n) PROVE Goal'
  BY <1>11 DEF Drain, Consumers
<1>12. CASE UNCHANGED vars
  BY <1>12 DEF vars, appVars, Consumers
<1> QED BY <1>1, <1>2, <1>3, <1>4, <1>5, <1>6, <1>7, <1>8, <1>9, <1>10, <1>11, <1>12
        DEF Next, Boot, Connection, Stop

LEMMA TypeStep == TypeInv /\ [Next]_vars => TypeInv'
BY RpcTypeStep, MetricsTypeStep, HealthTypeStep, AppTypeStep DEF TypeInv, TypeOK

--------------------------------------------------------------------------------
(***************************************************************************)
(* The life of a call.                                                     *)
(***************************************************************************)
\* A reply that settles a call is one of two sorts.
LEMMA RepliedHow ==
  ASSUME RpcTypeOK, NEW c \in Calls, NEW decodable, Replied(c, decodable)
  PROVE  \/ Settles(c, "failed")
         \/ Settles(c, "error") /\ reply[c] = "error"
         \/ Settles(c, "ok") /\ reply[c] = "ok"
BY DEF Replied, RpcTypeOK

LEMMA SettlesKeepsRpc ==
  ASSUME RpcTypeOK, RpcInv, NEW c \in Calls, NEW how \in {"ok", "error", "timeout", "failed"},
         Settles(c, how), how = "ok" => reply[c] = "ok"
  PROVE  RpcInv'
<1> USE DEF RpcTypeOK, RpcInv, serverVars
<1>1. /\ call[c] = "waiting" /\ call' = [call EXCEPT ![c] = "done"]
      /\ outcome' = [outcome EXCEPT ![c] = how]
      /\ callbacks' = [callbacks EXCEPT ![c] = @ + 1]
      /\ reply' = [reply EXCEPT ![c] = "none"]
      /\ UNCHANGED serverVars
  BY DEF Settles, Tell, Throws
<1>2. CallsInv'
  BY <1>1 DEF CallsInv
<1>3. OneReply'
  BY <1>1 DEF OneReply
<1>4. SpansAgree'
  <2>1. clientSpan' = [clientSpan EXCEPT ![c] = IF @ = "open" THEN ClientSpanStatus(how) ELSE @]
    BY DEF Settles
  <2>2. clientSpan[c] \in {"open", "none"}
    BY <1>1 DEF SpansAgree
  <2> QED BY <1>1, <2>1, <2>2 DEF SpansAgree, ClientSpanStatus
<1> QED BY <1>2, <1>3, <1>4

LEMMA CallKeepsRpc ==
  ASSUME RpcTypeOK, RpcInv, NEW c \in Calls, Call(c)
  PROVE  RpcInv'
<1> USE DEF RpcTypeOK, RpcInv, CallsInv, OneReply, SpansAgree, serverVars, callerVars
<1>1. CASE Opens(c)
  BY <1>1 DEF Opens
<1>2. CASE Publishes(c, setup.traced)
  BY <1>2 DEF Publishes
<1>3. CASE NotPublished(c)
  BY <1>3 DEF NotPublished, Tell
<1>4. CASE Settles(c, "failed") \/ TimesOut(c)
  BY <1>4, SettlesKeepsRpc DEF TimesOut
<1>5. CASE Replied(c, TRUE) \/ Replied(c, FALSE)
  BY <1>5, SettlesKeepsRpc, RepliedHow
<1> QED BY <1>1, <1>2, <1>3, <1>4, <1>5 DEF Call

LEMMA ServeKeepsRpc ==
  ASSUME RpcTypeOK, RpcInv, NEW c \in Calls, Serve(c)
  PROVE  RpcInv'
<1> USE DEF RpcTypeOK, RpcInv, serverVars, callerVars
<1>1. ASSUME NEW sort \in {"plain", "unknown", "undecodable"}, Handles(c, sort, Known, setup.traced)
      PROVE  RpcInv'
  BY <1>1 DEF Handles, Responds, CallsInv, OneReply, SpansAgree
<1>2. ASSUME NEW result, NEW encodable, NEW open, HandlerEnds(c, result, encodable, open)
      PROVE  RpcInv'
  <2> DEFINE ok == result = "value" /\ encodable /\ open
             times == IF ~open THEN 0 ELSE 1
  <2>1. /\ request[c] = "handling" /\ request' = [request EXCEPT ![c] = "served"]
        /\ replies' = [replies EXCEPT ![c] = @ + times]
        /\ reply' = [reply EXCEPT ![c] = IF times > 0 /\ call[c] = "waiting"
                                         THEN IF ok THEN "ok" ELSE "error" ELSE @]
        /\ handled' = [handled EXCEPT ![c] = IF ok THEN "success" ELSE "error"]
        /\ consumeSpan' = [consumeSpan EXCEPT ![c] =
             IF @ = "open" THEN IF result = "unexpected" THEN "ERROR" ELSE "OK" ELSE @]
        /\ UNCHANGED callerVars
    BY <1>2 DEF HandlerEnds, Responds, Throws
  <2>2. times \in {0, 1}
    OBVIOUS
  <2>3. result = "unexpected" => ~ok
    OBVIOUS
  <2>4. ok => times = 1
    OBVIOUS
  <2> HIDE DEF ok, times
  <2>5. CallsInv'
    BY <2>1, <2>2, <2>4 DEF CallsInv
  <2>6. OneReply'
    BY <2>1, <2>2 DEF OneReply, CallsInv
  <2>7. SpansAgree'
    BY <2>1, <2>3 DEF SpansAgree, CallsInv
  <2> QED BY <2>5, <2>6, <2>7
<1>3. CASE Lost(c)
  BY <1>3 DEF Lost, CallsInv, OneReply, SpansAgree
<1> QED BY <1>1, <1>2, <1>3 DEF Serve

LEMMA RpcStep ==
  ASSUME TypeInv, RpcInv, [Next]_vars
  PROVE  RpcInv'
<1>0. RpcTypeOK
  BY DEF TypeInv, TypeOK
<1>1. CASE Surroundings \/ UNCHANGED vars
  BY <1>1, SurroundingsKeepCalls
     DEF RpcInv, CallsInv, OneReply, SpansAgree, rpcVars, callerVars, serverVars
<1>2. ASSUME NEW n \in Names, ConnectFails(n) PROVE RpcInv'
  BY <1>0, <1>2 DEF ConnectFails, Opening, lifeVars, serverVars, RpcTypeOK, RpcInv, CallsInv, OneReply,
                    SpansAgree
<1>3. ASSUME NEW c \in Calls, Call(c) \/ Serve(c) PROVE RpcInv'
  BY <1>0, <1>3, CallKeepsRpc, ServeKeepsRpc
<1> QED BY <1>1, <1>2, <1>3, NextByPart

LEMMA Init_RpcInv == Init => RpcInv
BY DEF Init, RpcInit, RpcInv, CallsInv, OneReply, SpansAgree

--------------------------------------------------------------------------------
(***************************************************************************)
(* The meters.                                                             *)
(***************************************************************************)
LEMMA CountEmpty == Count({}) = 0
BY FS_EmptySet DEF Count

LEMMA CountAdds ==
  ASSUME NEW S, NEW T, NEW c, IsFiniteSet(S), c \notin S, T = S \cup {c}
  PROVE  Count(S) \in Nat /\ Count(T) = Count(S) + 1
BY FS_AddElement, FS_CardinalityType DEF Count

\* What is counted is a part of the calls that were made.
Settled == {c \in Calls : call[c] = "done"} \ Told("internal")
Successes == {c \in Calls : handled[c] = "success"}
Taken == {c \in Calls : request[c] \in {"handling", "undecodable"}}

LEMMA CountedAreFinite ==
  ASSUME CallsInv, IsFiniteSet(Called)
  PROVE  IsFiniteSet(Settled) /\ IsFiniteSet(Successes) /\ IsFiniteSet(Taken)
<1>1. Settled \subseteq Called /\ Successes \subseteq Called /\ Taken \subseteq Called
  BY DEF CallsInv, Settled, Successes, Taken, Called
<1> QED BY <1>1, FS_Subset

\* Nothing is counted while there are no calls.
LEMMA NothingCounted ==
  ASSUME CallsInv, Called = {}
  PROVE  Settled = {} /\ Successes = {} /\ Taken = {} /\ Told("ok") = {}
BY DEF CallsInv, Settled, Successes, Taken, Told, Called

\* The meters of both sides, with names for what they count.
Balance ==
  /\ counters["rpc.success"] + counters["rpc.error"] + counters["rpc.timeout"] = Count(Settled)
  /\ counters["rpc.timeout"] = counters["timeout"]
  /\ Told("ok") \subseteq Successes
  /\ counters["handled.success"] = Count(Successes)
  /\ counters["routed"] + counters["unhandled"]
       = counters["handled.success"] + counters["handled.error"] + Count(Taken)

LEMMA BalanceIsMetersAddUp == MetersAddUp <=> (observed => Balance)
BY DEF MetersAddUp, Balance, Settled, Successes, Taken

\* Once the application is beyond its bootstrap it does not return to it.
LEMMA NeverEarlyAgain ==
  ASSUME [Next]_vars, app \notin Early
  PROVE  app' \notin Early
<1> USE DEF Early
<1>1. CASE Boot
  BY <1>1 DEF Boot, Create, StartMicroservices, MicroservicesStarted, Bootstrap, MetricsHook,
              ModuleHook, ModuleHookDone, Bootstrapped
<1>2. ASSUME NEW n \in Names, Chain(n) \/ Connection(n) \/ Disconnect(n) \/ Reconnect(n)
      PROVE  app' \notin Early
  BY <1>2 DEF Chain, ChainDone, Retry, ChainFails, StartFails, Connection, Establish, ConnectFails,
              Disconnect, Reconnect
<1>3. CASE Poll \/ Check \/ \E c \in Calls : Call(c) \/ Serve(c)
  BY <1>3 DEF Poll, Check, Call, Serve, idle
<1>4. CASE Close \/ Stop
  BY <1>4 DEF Close, Stop, Shutdown, Drain, ShutdownDone
<1>5. CASE UNCHANGED vars
  BY <1>5 DEF vars, appVars
<1> QED BY <1>1, <1>2, <1>3, <1>4, <1>5 DEF Next

\* What is made of a call that was not made is another call.
LEMMA UncalledIsIdle ==
  ASSUME RpcTypeOK, CallsInv, NEW c \in Calls, c \notin Called, Call(c) \/ Serve(c)
  PROVE  Opens(c) /\ app = "started"
<1> USE DEF CallsInv, Called
<1>1. call[c] = "idle" /\ request[c] = "none" /\ reply[c] = "none"
  OBVIOUS
<1>2. ~Serve(c)
  BY <1>1 DEF Serve, Handles, HandlerEnds, Lost
<1>3. Call(c) => Opens(c) /\ app = "started"
  BY <1>1 DEF Call, Publishes, NotPublished, Settles, TimesOut, Replied
<1> QED BY <1>2, <1>3

\* The calls made grow by one at most, and only in an application that has started.
LEMMA CalledStep ==
  ASSUME TypeInv, CallsInv, [Next]_vars, IsFiniteSet(Called), app \in Early => Called = {}
  PROVE  IsFiniteSet(Called)' /\ (app' \in Early => Called' = {})
<1>0. RpcTypeOK
  BY DEF TypeInv, TypeOK
<1>1. CASE Surroundings \/ UNCHANGED vars
  BY <1>1, SurroundingsKeepCalls, NeverEarlyAgain DEF Called, rpcVars, callerVars
<1>2. ASSUME NEW n \in Names, ConnectFails(n)
      PROVE  IsFiniteSet(Called)' /\ (app' \in Early => Called' = {})
  <2>1. Called' = Called
    BY <1>2 DEF ConnectFails, Opening, Called
  <2> QED BY <2>1, NeverEarlyAgain
<1>3. ASSUME NEW c \in Calls, Call(c) \/ Serve(c)
      PROVE  IsFiniteSet(Called)' /\ (app' \in Early => Called' = {})
  <2>1. Called' \subseteq Called \cup {c}
    BY <1>0, <1>3 DEF RpcTypeOK, Call, Serve, Opens, Publishes, NotPublished, Tell, Settles, TimesOut,
                      Replied, Handles, HandlerEnds, Lost, callerVars, Called
  <2>2. IsFiniteSet(Called')
    BY <2>1, FS_Singleton, FS_Union, FS_Subset
  <2>3. app' = app
    BY <1>3 DEF Call, Serve, idle
  <2>4. app \in Early => FALSE
    BY <1>0, <1>3, UncalledIsIdle DEF Early
  <2> QED BY <2>2, <2>3, <2>4
<1> QED BY <1>1, <1>2, <1>3, NextByPart

\* Nothing that is counted changes, nor a meter.
LEMMA BalanceKept ==
  ASSUME Balance, UNCHANGED <<Settled, Successes, Taken, Told("ok"), counters>>
  PROVE  Balance'
BY DEF Balance, Count

\* A call settles: one more of the RPC outcomes.
LEMMA SettlesKeepsBalance ==
  ASSUME TypeInv, RpcInv, IsFiniteSet(Called), observed, Balance,
         NEW c \in Calls, NEW how \in {"ok", "error", "timeout", "failed"}, Settles(c, how),
         how = "ok" => reply[c] = "ok"
  PROVE  Balance'
<1> USE DEF TypeInv, TypeOK, RpcTypeOK, RpcInv
<1>1. /\ call[c] = "waiting" /\ call' = [call EXCEPT ![c] = "done"]
      /\ outcome' = [outcome EXCEPT ![c] = how]
      /\ UNCHANGED <<request, handled>>
      /\ Emit(OutcomeEvents(how))
  BY DEF Settles, Tell, Throws, serverVars
<1>2. /\ Settled' = Settled \cup {c} /\ c \notin Settled
      /\ Successes' = Successes /\ Taken' = Taken
  BY <1>1 DEF Settled, Successes, Taken, Told
<1>3. Count(Settled) \in Nat /\ Count(Settled') = Count(Settled) + 1
  BY <1>2, CountedAreFinite, CountAdds
<1>4. Told("ok")' \subseteq Successes'
  BY <1>1, <1>2 DEF Balance, CallsInv, Told, Successes
<1>5. counters \in [Meters -> Nat]
  BY DEF MetricsTypeOK
<1>6. counters' = [m \in Meters |-> IF m \in OutcomeEvents(how) THEN counters[m] + 1 ELSE counters[m]]
  BY <1>1 DEF Emit
<1>7. /\ counters'["rpc.success"] + counters'["rpc.error"] + counters'["rpc.timeout"]
           = counters["rpc.success"] + counters["rpc.error"] + counters["rpc.timeout"] + 1
      /\ counters["rpc.timeout"] = counters["timeout"] => counters'["rpc.timeout"] = counters'["timeout"]
      /\ \A m \in {"handled.success", "handled.error", "routed", "unhandled"} :
           counters'[m] = counters[m]
  BY <1>5, <1>6 DEF OutcomeEvents, Meters
<1> HIDE DEF TypeInv, TypeOK, RpcTypeOK, RpcInv
<1>8. /\ Count(Successes)' = Count(Successes) /\ Count(Taken)' = Count(Taken)
      /\ Count(Settled)' = Count(Settled')
  BY <1>2 DEF Count
<1> QED BY <1>3, <1>4, <1>7, <1>8, <1>5 DEF Balance, Meters

\* A request is taken: one more that was routed, or had no metadata.
LEMMA HandlesKeepsBalance ==
  ASSUME TypeInv, RpcInv, IsFiniteSet(Called), observed, Balance,
         NEW c \in Calls, NEW sort \in {"plain", "unknown", "undecodable"},
         Handles(c, sort, Known, setup.traced)
  PROVE  Balance'
<1> USE DEF TypeInv, TypeOK, RpcTypeOK, RpcInv
<1>1. UNCHANGED <<call, outcome, handled>> /\ request[c] = "queued"
  BY DEF Handles, callerVars
<1>2. UNCHANGED <<Settled, Successes, Told("ok")>>
  BY <1>1 DEF Settled, Successes, Told
<1>3. counters \in [Meters -> Nat]
  BY DEF MetricsTypeOK
<1>4. CASE sort = "unknown"
  <2>1. request' = [request EXCEPT ![c] = "served"] /\ Emit({})
    BY <1>4 DEF Handles
  <2>2. Taken' = Taken
    BY <1>1, <2>1 DEF Taken
  <2>3. counters' = counters
    BY <1>3, <2>1 DEF Emit
  <2> QED BY <1>2, <2>2, <2>3, BalanceKept
<1>5. CASE sort # "unknown"
  <2>1. /\ request' = [request EXCEPT ![c] = IF sort = "plain" THEN "handling" ELSE "undecodable"]
        /\ Emit(IF Known THEN {"routed"} ELSE {"unhandled"})
    BY <1>5 DEF Handles
  <2>2. Taken' = Taken \cup {c} /\ c \notin Taken
    BY <1>1, <2>1 DEF Taken
  <2>3. Count(Taken) \in Nat /\ Count(Taken') = Count(Taken) + 1
    BY <2>2, CountedAreFinite, CountAdds
  <2>4. /\ counters'["routed"] + counters'["unhandled"]
             = counters["routed"] + counters["unhandled"] + 1
        /\ \A m \in {"rpc.success", "rpc.error", "rpc.timeout", "timeout", "handled.success",
                     "handled.error"} : counters'[m] = counters[m]
    BY <1>3, <2>1 DEF Emit, Meters
  <2>5. /\ Count(Successes)' = Count(Successes) /\ Count(Taken)' = Count(Taken')
        /\ Count(Settled)' = Count(Settled)
    BY <1>2 DEF Count
  <2> HIDE DEF TypeInv, TypeOK, RpcTypeOK, RpcInv
  <2> QED BY <1>2, <1>3, <2>3, <2>4, <2>5 DEF Balance, Meters
<1> QED BY <1>4, <1>5

\* A handler settled: one request fewer in its handler, one more that was processed.
LEMMA HandlerEndsKeepsBalance ==
  ASSUME TypeInv, RpcInv, IsFiniteSet(Called), observed, Balance,
         NEW c \in Calls, NEW result, NEW encodable, NEW open,
         HandlerEnds(c, result, encodable, open)
  PROVE  Balance'
<1> DEFINE ok == result = "value" /\ encodable /\ open
<1> USE DEF TypeInv, TypeOK, RpcTypeOK, RpcInv
<1>1. /\ UNCHANGED <<call, outcome>>
      /\ request[c] = "handling" /\ request' = [request EXCEPT ![c] = "served"]
      /\ handled' = [handled EXCEPT ![c] = IF ok THEN "success" ELSE "error"]
  BY DEF HandlerEnds, callerVars
<1>2. Emit({IF ok THEN "handled.success" ELSE "handled.error"} \cup IF ok THEN {} ELSE {"error"})
  BY DEF HandlerEnds, HandlerStatus
<1> HIDE DEF ok
<1>3. UNCHANGED <<Settled, Told("ok")>>
  BY <1>1 DEF Settled, Told
<1>4. handled[c] = "none"
  BY <1>1 DEF CallsInv
<1>5. Taken = Taken' \cup {c} /\ c \notin Taken'
  BY <1>1 DEF Taken
<1>6. /\ ok => Successes' = Successes \cup {c} /\ c \notin Successes
      /\ ~ok => Successes' = Successes
  BY <1>1, <1>4 DEF Successes
<1>7. counters \in [Meters -> Nat]
  BY DEF MetricsTypeOK
<1>8. /\ counters'["handled.success"] = counters["handled.success"] + (IF ok THEN 1 ELSE 0)
      /\ counters'["handled.error"] = counters["handled.error"] + (IF ok THEN 0 ELSE 1)
      /\ \A m \in {"rpc.success", "rpc.error", "rpc.timeout", "timeout", "routed", "unhandled"} :
           counters'[m] = counters[m]
  BY <1>2, <1>7 DEF Emit, Meters
<1>9. IsFiniteSet(Taken') /\ IsFiniteSet(Successes)
  BY <1>5, CountedAreFinite, FS_Subset
<1>10. Count(Taken') \in Nat /\ Count(Taken) = Count(Taken') + 1
  BY <1>5, <1>9, CountAdds
<1>11. Count(Successes) \in Nat /\ Count(Successes') = Count(Successes) + (IF ok THEN 1 ELSE 0)
  BY <1>6, <1>9, CountAdds, FS_CardinalityType DEF Count
<1>12. /\ Count(Successes)' = Count(Successes') /\ Count(Taken)' = Count(Taken')
       /\ Count(Settled)' = Count(Settled)
  BY <1>3 DEF Count
<1> HIDE DEF TypeInv, TypeOK, RpcTypeOK, RpcInv
<1>13. Told("ok")' \subseteq Successes'
  BY <1>3, <1>6 DEF Balance
<1> QED BY <1>7, <1>8, <1>10, <1>11, <1>12, <1>13 DEF Balance, Meters

\* Only the hook of the metrics makes them observe, before there are calls.
LEMMA ObservesEarly ==
  ASSUME [Next]_vars, observed' # observed
  PROVE  MetricsHook
<1>1. CASE Boot
  BY <1>1 DEF Boot, Create, StartMicroservices, MicroservicesStarted, Bootstrap, ModuleHook,
              ModuleHookDone, Bootstrapped, booted, metricsVars
<1>2. ASSUME NEW n \in Names, Chain(n) \/ Connection(n) \/ Disconnect(n) \/ Reconnect(n) PROVE FALSE
  BY <1>2 DEF Chain, ChainDone, Retry, ChainFails, Connection, Establish, ConnectFails, Disconnect,
              Reconnect, lifeVars, booted, metricsVars
<1>3. CASE Poll \/ Check \/ \E c \in Calls : Call(c) \/ Serve(c)
  BY <1>3 DEF Poll, Check, Call, Serve, idle
<1>4. CASE Close \/ Stop
  BY <1>4 DEF Close, Stop, Shutdown, Drain, ShutdownDone, booted, metricsVars
<1>5. CASE UNCHANGED vars
  BY <1>5 DEF vars, metricsVars
<1> QED BY <1>1, <1>2, <1>3, <1>4, <1>5 DEF Next

\* With the metrics on, every step keeps the balance.
LEMMA BalanceStep ==
  ASSUME TypeInv, RpcInv, MetersInv, [Next]_vars, observed
  PROVE  Balance'
<1> USE DEF MetersInv
<1>0. RpcTypeOK /\ Balance /\ CallsInv
  BY BalanceIsMetersAddUp DEF TypeInv, TypeOK, RpcInv
<1>1. CASE Surroundings \/ UNCHANGED vars
  <2>1. UNCHANGED <<call, outcome, request, handled, counters>>
    BY <1>1, SurroundingsKeepCalls DEF rpcVars, callerVars, serverVars
  <2>2. UNCHANGED <<Settled, Successes, Taken, Told("ok")>>
    BY <2>1 DEF Settled, Successes, Taken, Told
  <2> QED BY <1>0, <2>1, <2>2, BalanceKept
<1>2. ASSUME NEW n \in Names, ConnectFails(n) PROVE Balance'
  <2>1. UNCHANGED <<request, handled, counters>>
    BY <1>2 DEF ConnectFails, lifeVars, serverVars
  <2>2. UNCHANGED <<Successes, Taken>>
    BY <2>1 DEF Successes, Taken
  <2>3. UNCHANGED <<Settled, Told("ok")>>
    BY <1>0, <1>2 DEF ConnectFails, Opening, Settled, Told, CallsInv, RpcTypeOK
  <2> QED BY <1>0, <2>1, <2>2, <2>3, BalanceKept
<1>3. ASSUME NEW c \in Calls, Call(c) PROVE Balance'
  <2> USE <1>0 DEF RpcTypeOK
  <2>1. CASE Opens(c) \/ Publishes(c, setup.traced) \/ NotPublished(c)
    <3>1. UNCHANGED <<Settled, Told("ok"), Successes, Taken, counters>>
      BY <2>1 DEF Opens, Publishes, NotPublished, Tell, serverVars, callerVars, CallsInv, Settled, Told,
                  Successes, Taken
    <3> QED BY <3>1, BalanceKept
  <2>2. CASE Settles(c, "failed") \/ TimesOut(c)
    BY <2>2, SettlesKeepsBalance DEF TimesOut
  <2>3. CASE Replied(c, TRUE) \/ Replied(c, FALSE)
    BY <2>3, SettlesKeepsBalance, RepliedHow
  <2> QED BY <1>3, <2>1, <2>2, <2>3 DEF Call
<1>4. ASSUME NEW c \in Calls, Serve(c) PROVE Balance'
  <2>1. CASE Lost(c)
    <3>1. UNCHANGED <<Settled, Told("ok"), Successes, Taken, counters>>
      BY <1>0, <2>1 DEF RpcTypeOK, Lost, callerVars, Settled, Told, Successes, Taken
    <3> QED BY <1>0, <3>1, BalanceKept
  <2>2. ASSUME NEW sort \in {"plain", "unknown", "undecodable"},
               Handles(c, sort, Known, setup.traced)
        PROVE  Balance'
    BY <1>0, <2>2, HandlesKeepsBalance
  <2>3. ASSUME NEW result, NEW encodable, NEW open, HandlerEnds(c, result, encodable, open)
        PROVE  Balance'
    BY <1>0, <2>3, HandlerEndsKeepsBalance
  <2> QED BY <1>4, <2>1, <2>2, <2>3 DEF Serve
<1> QED BY <1>1, <1>2, <1>3, <1>4, NextByPart

LEMMA MetersStep ==
  ASSUME TypeInv, RpcInv, RpcInv', MetersInv, [Next]_vars
  PROVE  MetersInv'
<1> USE DEF MetersInv
<1>1. IsFiniteSet(Called)' /\ (app' \in Early => Called' = {})
  BY CalledStep DEF RpcInv
<1>2. CASE observed
  <2>1. observed'
    BY <1>2, ObservesEarly DEF MetricsHook, BootstrapMetrics, TypeInv, TypeOK, MetricsTypeOK
  <2> QED BY <1>1, <1>2, <2>1, BalanceStep DEF MetersAddUp, Balance, Settled, Successes, Taken
<1>3. CASE ~observed
  <2>1. counters' = counters
    <3>1. counters' = counters \/ \E S : Emit(S)
      <4>1. CASE Surroundings \/ UNCHANGED vars
        BY <4>1, SurroundingsKeepCalls
      <4>2. CASE \E n \in Names : ConnectFails(n)
        BY <4>2 DEF ConnectFails
      <4>3. CASE \E c \in Calls : Call(c) \/ Serve(c)
        BY <4>3 DEF Call, Serve, Opens, NotPublished, Publishes, Settles, TimesOut, Replied, Handles,
                    HandlerEnds, Lost
      <4> QED BY <4>1, <4>2, <4>3, NextByPart
    <3> QED BY <1>3, <3>1 DEF Emit, TypeInv, TypeOK, MetricsTypeOK
  <2>2. CASE observed' = observed
    BY <1>1, <1>3, <2>1, <2>2 DEF MetersAddUp
  <2>3. CASE observed' # observed
    <3>1. Called = {} /\ UNCHANGED rpcVars
      BY <2>3, ObservesEarly DEF MetricsHook, Early
    <3>2. Called' = {} /\ CallsInv'
      BY <3>1 DEF Called, RpcInv, rpcVars, callerVars
    <3>3. (Settled = {} /\ Successes = {} /\ Taken = {} /\ Told("ok") = {})'
      BY <3>2 DEF CallsInv, Settled, Successes, Taken, Told, Called
    <3>4. \A m \in Meters : counters'[m] = 0
      BY <1>3, <2>1
    <3>5. Balance'
      BY <3>3, <3>4, CountEmpty DEF Balance, Meters, Count
    <3>6. MetersAddUp'
      BY <3>5 DEF MetersAddUp, Balance, Settled, Successes, Taken
    <3>7. observed'
      BY <1>3, <2>3, ObservesEarly DEF MetricsHook, BootstrapMetrics
    <3> QED BY <1>1, <3>6, <3>7
  <2> QED BY <2>2, <2>3
<1> QED BY <1>2, <1>3

LEMMA Init_MetersInv == Init => MetersInv
<1> SUFFICES ASSUME Init PROVE MetersInv
  OBVIOUS
<1>1. Called = {}
  BY DEF Init, RpcInit, Called
<1>2. ~observed /\ \A m \in Meters : counters[m] = 0
  BY DEF Init, MetricsInit
<1> QED BY <1>1, <1>2, FS_EmptySet DEF MetersInv, MetersAddUp

--------------------------------------------------------------------------------
(***************************************************************************)
(* The bootstrap and the gauge.                                            *)
(***************************************************************************)
\* The plan, the hooks and what was attached change only while Nest boots.
BootSteps ==
  \/ Create \/ StartMicroservices \/ MicroservicesStarted \/ Bootstrap
  \/ MetricsHook \/ ModuleHook \/ ModuleHookDone \/ Bootstrapped

LEMMA BootsOnly ==
  ASSUME [Next]_vars, ~BootSteps
  PROVE  /\ UNCHANGED <<setup, registry, plan, hooks, attached>>
         /\ app' = app \/ app' \in {"failed", "destroying", "draining", "stopped"}
         /\ app' = "destroying" => app \in {"started", "destroying"}
<1>1. ~Boot
  BY DEF Boot, BootSteps
<1>2. ASSUME NEW n \in Names, Chain(n) \/ Connection(n) \/ Disconnect(n) \/ Reconnect(n)
      PROVE  UNCHANGED <<setup, registry, plan, hooks, attached>> /\ (app' = app \/ app' = "failed")
  BY <1>2 DEF Chain, ChainDone, Retry, ChainFails, StartFails, Connection, Establish, ConnectFails,
              Disconnect, Reconnect, lifeVars, booted
<1>3. CASE Poll \/ Check \/ \E c \in Calls : Call(c) \/ Serve(c)
  BY <1>3 DEF Poll, Check, Call, Serve, idle
<1>4. CASE Close \/ Stop
  BY <1>4 DEF Close, Stop, Shutdown, Drain, ShutdownDone, booted
<1>5. CASE UNCHANGED vars
  BY <1>5 DEF vars, appVars
<1> QED BY <1>1, <1>2, <1>3, <1>4, <1>5 DEF Next

LEMMA TailOfPlan ==
  ASSUME NEW p \in Seq({"start", "init"}), p # <<>>
  PROVE  /\ Tail(p) \in Seq({"start", "init"})
         /\ Head(p) = "start" /\ (\E i \in DOMAIN p : p[i] = "init")
              => \E i \in DOMAIN Tail(p) : Tail(p)[i] = "init"
<1>1. Tail(p) \in Seq({"start", "init"})
  OBVIOUS
<1>2. ASSUME Head(p) = "start", NEW i \in DOMAIN p, p[i] = "init"
      PROVE  \E j \in DOMAIN Tail(p) : Tail(p)[j] = "init"
  <2>1. i \in 1 .. Len(p) /\ i # 1
    BY <1>2
  <2>2. i - 1 \in 1 .. Len(Tail(p)) /\ Tail(p)[i - 1] = p[i]
    BY <2>1
  <2> QED BY <1>2, <2>2
<1> QED BY <1>1, <1>2

LEMMA BootStep ==
  ASSUME TypeInv, BootInv, [Next]_vars
  PROVE  BootInv'
<1> USE DEF BootInv
<1>1. CASE Create \/ StartMicroservices \/ Bootstrap
  <2>1. UNCHANGED <<plan, hooks>>
    BY <1>1 DEF Create, StartMicroservices, Bootstrap
  <2>2. /\ app' \in {"failed", "created", "starting", "booting"}
        /\ app' = "starting" => plan # <<>> /\ Head(plan) = "start"
        /\ app' = "booting" => plan # <<>> /\ Head(plan) = "init"
    BY <1>1 DEF Create, StartMicroservices, Bootstrap
  <2> QED BY <2>1, <2>2
<1>2. CASE MicroservicesStarted
  <2>1. app = "starting" /\ plan' = Tail(plan) /\ UNCHANGED hooks /\ app' \in {"started", "created"}
        /\ (app' = "started" => plan' = <<>>)
    BY <1>2 DEF MicroservicesStarted, Advance
  <2>2. plan \in Seq({"start", "init"}) /\ plan # <<>> /\ Head(plan) = "start"
    BY <2>1
  <2> QED BY <2>1, <2>2, TailOfPlan
<1>3. CASE Bootstrapped
  <2>1. app = "booting" /\ plan' = Tail(plan) /\ hooks' = {} /\ app' \in {"started", "created"}
        /\ (app' = "started" => plan' = <<>>)
    BY <1>3 DEF Bootstrapped, Advance
  <2>2. plan \in Seq({"start", "init"}) /\ plan # <<>>
    BY <2>1
  <2> QED BY <2>1, <2>2, TailOfPlan
<1>4. CASE MetricsHook \/ ModuleHook \/ ModuleHookDone
  <2>1. UNCHANGED plan /\ hooks' \subseteq hooks /\ app \in {"booting", "checking"}
        /\ app' \in {"booting", "checking", "failed"}
    BY <1>4 DEF MetricsHook, ModuleHook, ModuleHookDone
  <2> QED BY <2>1
<1>5. CASE ~BootSteps
  BY <1>5, BootsOnly
<1> QED BY <1>1, <1>2, <1>3, <1>4, <1>5 DEF BootSteps

\* A connection that is open stays so until it is drained.
LEMMA OpenStaysOpen ==
  ASSUME TypeInv, [Next]_vars, NEW n \in Names, link[n] \in {"up", "down"}, app # "draining"
  PROVE  link'[n] \in {"up", "down"}
<1> USE DEF TypeInv, TypeOK, AppTypeOK, Request
<1>1. CASE BootSteps
  BY <1>1 DEF BootSteps, Create, StartMicroservices, MicroservicesStarted, Bootstrap, MetricsHook,
              ModuleHook, ModuleHookDone, Bootstrapped
<1>2. ASSUME NEW m \in Names, Chain(m) \/ Connection(m) \/ Disconnect(m) \/ Reconnect(m)
      PROVE  link'[n] \in {"up", "down"}
  BY <1>2 DEF Chain, ChainDone, Retry, ChainFails, Connection, Establish, ConnectFails, Disconnect,
              Reconnect
<1>3. CASE Poll \/ Check \/ \E c \in Calls : Call(c) \/ Serve(c)
  BY <1>3 DEF Poll, Check, Call, Serve
<1>4. CASE Close \/ Stop
  BY <1>4 DEF Close, Stop, Shutdown, Drain, ShutdownDone
<1>5. CASE UNCHANGED vars
  BY <1>5 DEF vars, appVars
<1> QED BY <1>1, <1>2, <1>3, <1>4, <1>5 DEF Next, Boot, BootSteps

LEMMA CriticalStep ==
  ASSUME TypeInv, BootInv, CriticalInv, [Next]_vars
  PROVE  CriticalInv'
<1> DEFINE live == {"created", "starting", "booting", "started"}
<1> SUFFICES ASSUME "module" \notin hooks', Several', app' \in live,
                    NEW n \in Critical(registry')
             PROVE  link'[n] \in {"up", "down"}
  BY DEF CriticalInv
<1>1. CASE Create
  BY <1>1 DEF Create, BootInv
<1>2. CASE ~Create
  <2>1. UNCHANGED registry
    BY <1>2, BootsOnly DEF BootSteps, StartMicroservices, MicroservicesStarted, Bootstrap, MetricsHook,
                           ModuleHook, ModuleHookDone, Bootstrapped, booted
  <2>2. Several /\ n \in Critical(registry) /\ n \in Names
    BY <2>1 DEF Several, Scopes, Critical, TypeInv, RegistryInv
  <2>3. app # "draining" /\ (link[n] \in {"up", "down"} => link'[n] \in {"up", "down"})
    BY <2>2, BootsOnly, OpenStaysOpen
       DEF BootSteps, Create, StartMicroservices, MicroservicesStarted, Bootstrap, MetricsHook,
           ModuleHook, ModuleHookDone, Bootstrapped
  <2>4. CASE ModuleHookDone
    BY <2>2, <2>3, <2>4 DEF ModuleHookDone, CriticalLive
  <2>5. CASE ModuleHook
    BY <2>5 DEF ModuleHook
  <2>6. CASE ~ModuleHookDone /\ ~ModuleHook
    <3>1. "module" \notin hooks /\ app \in live
      BY <1>2, <2>6, BootsOnly
         DEF BootSteps, StartMicroservices, MicroservicesStarted, Bootstrap, MetricsHook, Bootstrapped
    <3> QED BY <2>2, <2>3, <3>1 DEF CriticalInv
  <2> QED BY <2>4, <2>5, <2>6
<1> QED BY <1>1, <1>2

\* A microservice set is attached once the plan says so; its strategies are consumers.
LEMMA AttachedStep ==
  ASSUME TypeInv, BootInv, AttachInv, [Next]_vars
  PROVE  AttachInv'
<1> SUFFICES ASSUME setup' = setup, setup.order = <<"start", "init">>
             PROVE  /\ plan' \in {<<"start", "init">>, <<"init">>, <<>>}
                    /\ "module" \notin hooks' /\ app' # "failed" =>
                         plan' # <<"start", "init">> /\ AllConnectionsStarted'
  <2>1. setup' = setup
    BY BootsOnly DEF BootSteps, Create, StartMicroservices, MicroservicesStarted, Bootstrap, MetricsHook,
                     ModuleHook, ModuleHookDone, Bootstrapped, booted
  <2> QED BY <2>1 DEF AttachInv
<1> USE DEF AttachInv
<1>0. /\ Head(<<"start", "init">>) = "start" /\ Tail(<<"start", "init">>) = <<"init">>
      /\ Head(<<"init">>) = "init" /\ Tail(<<"init">>) = <<>>
      /\ <<"start", "init">> # <<"init">> /\ <<"start", "init">> # <<>> /\ <<"init">> # <<>>
  OBVIOUS
<1>1. CASE Create
  BY <1>1 DEF Create, BootInv
<1>2. CASE StartMicroservices
  <2>1. plan = <<"start", "init">> /\ plan' = plan /\ hooks' = hooks /\ app = "created"
    BY <1>0, <1>2 DEF StartMicroservices
  <2> QED BY <2>1
<1>3. CASE MicroservicesStarted \/ Bootstrapped
  <2>1. plan # <<>> /\ plan' = Tail(plan) /\ app # "failed" /\ UNCHANGED <<hooks, registry, attached>>
    BY <1>3 DEF MicroservicesStarted, Bootstrapped, Advance, booted, BootInv
  <2>2. plan' \in {<<"init">>, <<>>}
    BY <1>0, <2>1
  <2> QED BY <1>0, <2>1, <2>2 DEF AllConnectionsStarted
<1>4. CASE ModuleHook
  <2>1. UNCHANGED <<registry, attached, plan>> /\ (app' # "failed" => AllConnectionsStarted)
        /\ Head(plan) = "init" /\ plan # <<>>
    BY <1>4 DEF ModuleHook, booted, BootInv
  <2> QED BY <1>0, <2>1 DEF AllConnectionsStarted
<1>5. CASE Bootstrap \/ MetricsHook \/ ModuleHookDone
  <2>1. UNCHANGED <<registry, attached, plan>> /\ app # "failed" /\ ("module" \in hooks => "module" \in hooks')
    BY <1>5 DEF Bootstrap, MetricsHook, ModuleHookDone, booted
  <2> QED BY <2>1 DEF AllConnectionsStarted
<1>6. CASE ~BootSteps
  <2>1. UNCHANGED <<registry, plan, hooks, attached>> /\ (app = "failed" => app' = "failed")
    <3>1. app = "failed" => app' = "failed"
      <4> SUFFICES ASSUME app = "failed", Next \/ UNCHANGED vars PROVE app' = "failed"
        OBVIOUS
      <4>1. ~Boot
        BY <1>6 DEF Boot, BootSteps
      <4> QED BY <4>1 DEF Alive, Next, Chain, ChainDone, Retry, ChainFails, Connection, Establish,
                          ConnectFails, Disconnect, Reconnect, Poll, Check, Call, Serve, Close, Stop,
                          Shutdown, Drain, ShutdownDone, vars, appVars
    <3> QED BY <1>6, <3>1, BootsOnly
  <2> QED BY <2>1 DEF AllConnectionsStarted
<1> QED BY <1>1, <1>2, <1>3, <1>4, <1>5, <1>6 DEF BootSteps

\* Attached strategies keep going while the application boots and runs.
LEMMA ChainsStep ==
  ASSUME TypeInv, BootInv, ChainsInv, [Next]_vars
  PROVE  ChainsInv'
<1> DEFINE life == {"created", "starting", "booting", "checking", "started"}
           Going(n) == /\ chain[n] \in {"running", "serving", "retrying"}
                       /\ n \in Critical(registry) =>
                            chain[n] = "serving" \/ (app = "starting" /\ chain[n] = "running")
<1>0. chain \in [Names -> {"none", "running", "serving", "retrying", "closed"}]
      /\ attached \subseteq Names
  BY DEF TypeInv, TypeOK, AppTypeOK, RegistryInv
<1>1. CASE Create
  <2>1. attached' = {} /\ app' \in {"created", "failed"}
    BY <1>1 DEF Create, ChainsInv
  <2> QED BY <2>1 DEF ChainsInv
<1>2. CASE StartMicroservices
  <2>1. CASE app' = "failed"
    BY <1>2, <2>1 DEF StartMicroservices, booted, ChainsInv
  <2>2. CASE app' # "failed"
    <3>1. /\ app' = "starting" /\ attached' = Attaching /\ UNCHANGED <<registry, setup>>
          /\ Attaching = {} \/ ~HandlerRefused(registry, setup.bound)
          /\ \A n \in Attaching \cap Names : chain'[n] \in {"running", "serving"}
      BY <1>2, <2>2 DEF StartMicroservices, booted
    <3>2. Attaching \subseteq Names
      BY DEF Attaching, Consumers, TypeInv, RegistryInv, Scopes
    <3> QED BY <3>1, <3>2 DEF ChainsInv, HandlerRefused, Consumers
  <2> QED BY <2>1, <2>2
<1>3. CASE MicroservicesStarted
  <2>1. /\ app = "starting" /\ UNCHANGED <<registry, setup, attached, chain>>
        /\ \A n \in attached : n \in Critical(registry) => chain[n] = "serving"
        /\ app' \in {"started", "created"}
    BY <1>3 DEF MicroservicesStarted, Awaited, Advance, booted
  <2> QED BY <2>1 DEF ChainsInv, HandlerRefused, Consumers, Critical
<1>4. CASE Bootstrap \/ MetricsHook \/ ModuleHook \/ ModuleHookDone \/ Bootstrapped
  <2>1. /\ app \in life \ {"starting"} /\ UNCHANGED <<registry, setup, attached, chain>>
        /\ app' \in (life \ {"starting"}) \cup {"failed"}
    BY <1>4 DEF Bootstrap, MetricsHook, ModuleHook, ModuleHookDone, Bootstrapped, Advance, booted
  <2> QED BY <2>1 DEF ChainsInv, HandlerRefused, Consumers, Critical
<1>5. CASE ~BootSteps
  <2>1. UNCHANGED <<setup, registry, attached>>
    BY <1>5, BootsOnly
  <2>2. app' = app \/ app' \notin life \cup {"new"}
    BY <1>5, BootsOnly
  <2>3. ASSUME app' = app, app \in life, NEW n \in attached, Going(n)
        PROVE  Going(n)'
    <3>0. n \in Names /\ Critical(registry)' = Critical(registry)
      BY <1>0, <2>1 DEF Critical
    <3>1. ASSUME NEW m \in Names, ChainDone(m) \/ Retry(m) PROVE Going(n)'
      BY <1>0, <2>3, <3>0, <3>1 DEF ChainDone, Retry
    <3>2. ASSUME NEW m \in Names, ChainFails(m) \/ ConnectFails(m) PROVE Going(n)'
      <4>1. chain' = ChainsAfter({m}) /\ ~StartFails({m})
        BY <2>3, <3>2 DEF ChainFails, ConnectFails
      <4>2. CASE n = m /\ chain[n] = "running"
        <5>1. n \notin Critical(registry)
          BY <2>3, <4>1, <4>2 DEF StartFails
        <5> QED BY <1>0, <3>0, <4>1, <4>2, <5>1 DEF ChainsAfter
      <4>3. CASE ~(n = m /\ chain[n] = "running")
        <5>1. chain'[n] = chain[n]
          BY <1>0, <3>0, <4>1, <4>3 DEF ChainsAfter
        <5> QED BY <2>3, <3>0, <5>1
      <4> QED BY <4>2, <4>3
    <3>3. ASSUME UNCHANGED chain PROVE Going(n)'
      BY <2>3, <3>0, <3>3
    <3>4. ASSUME NEW m \in Names, Establish(m) \/ Disconnect(m) \/ Reconnect(m) PROVE UNCHANGED chain
      BY <3>4 DEF Establish, Disconnect, Reconnect
    <3>5. CASE Poll \/ Check \/ (\E c \in Calls : Call(c) \/ Serve(c)) \/ Close
      BY <3>3, <3>5 DEF Poll, Check, Call, Serve, Close, idle
    <3>6. CASE Stop
      BY <2>3, <3>6 DEF Stop, Shutdown, Drain, ShutdownDone
    <3>7. CASE UNCHANGED vars
      BY <3>3, <3>7 DEF vars, appVars
    <3> QED BY <1>5, <3>1, <3>2, <3>3, <3>4, <3>5, <3>6, <3>7
            DEF Next, Boot, BootSteps, Chain, Connection
  <2>4. app' = "new" => app = "new"
    BY <2>2
  <2>5. HandlerRefused(registry, setup.bound)' = HandlerRefused(registry, setup.bound)
    BY <2>1 DEF HandlerRefused, Consumers
  <2> QED BY <2>1, <2>2, <2>3, <2>4, <2>5 DEF ChainsInv
<1> QED BY <1>1, <1>2, <1>3, <1>4, <1>5 DEF BootSteps

\* A set of fewer than two elements.
LEMMA TwoElements ==
  ASSUME NEW S, IsFiniteSet(S), ~(Cardinality(S) > 1), NEW a \in S, NEW b \in S
  PROVE  a = b
<1>1. Cardinality({a}) = 1 /\ Cardinality(S) \in Nat
  BY FS_Singleton, FS_CardinalityType
<1>2. {a} \in SUBSET S
  OBVIOUS
<1>3. /\ Cardinality({a}) <= Cardinality(S)
      /\ Cardinality(S) = Cardinality({a}) => S = {a}
  BY <1>2, FS_Subset
<1> QED BY <1>1, <1>3

\* One connection at most: it is the default one.
LEMMA OnlyScopeIsDefault ==
  ASSUME TypeInv, ~Several
  PROVE  Scopes \subseteq {registry.default}
<1> SUFFICES ASSUME NEW n \in Scopes PROVE n = registry.default
  OBVIOUS
<1>1. registry.default \in Scopes
  BY DEF TypeInv, RegistryInv, Scopes, Rejected
<1>2. IsFiniteSet(Scopes)
  BY FS_Subset, ApplicationAssumption DEF TypeInv, RegistryInv
<1> QED BY <1>1, <1>2, TwoElements DEF Several

\* The gauge shows the connection that is there when the metrics begin to observe, and
\* follows it from then on.
LEMMA GaugeStep ==
  ASSUME TypeInv, UpIsShown, [Next]_vars
  PROVE  UpIsShown'
<1> USE DEF UpIsShown, LinkUp, ServerOf, Scopes, Several
<1>0. link \in [Names -> {"none", "connecting", "up", "down", "closed"}] /\ Scopes \subseteq Names
      /\ at \in [Names -> Hosts]
  BY DEF TypeInv, TypeOK, AppTypeOK, RegistryInv
<1>1. CASE Create
  <2>1. link' = link /\ \A n \in Names : link[n] = "none"
    BY <1>1 DEF Create, TypeInv, RegistryInv
  <2>2. Scopes' \subseteq Names
    BY TypeStep DEF TypeInv, RegistryInv
  <2> QED BY <2>1, <2>2
<1>2. CASE MetricsHook
  <2>0. UNCHANGED <<registry, link, at>>
    BY <1>2 DEF MetricsHook
  <2>1. CASE setup.metrics
    <3>1. gauge' = [s \in {ServerOf(n) : n \in {registry.default} \cap LinkOpen} |-> 1]
      BY <1>2, <2>1 DEF MetricsHook, BootstrapMetrics, SyncInitialConnectionState
    <3>2. ~Several => LinkUp \subseteq {registry.default} \cap LinkOpen
      BY OnlyScopeIsDefault DEF LinkOpen
    <3> QED BY <2>0, <3>1, <3>2
  <2>2. CASE ~setup.metrics
    BY <1>2, <2>0, <2>2 DEF MetricsHook
  <2> QED BY <2>1, <2>2
<1>3. CASE StartMicroservices \/ MicroservicesStarted \/ Bootstrap \/ ModuleHook \/ ModuleHookDone
           \/ Bootstrapped
  <2>1. UNCHANGED <<registry, at, gauge, observed>>
    BY <1>3 DEF StartMicroservices, MicroservicesStarted, Bootstrap, ModuleHook, ModuleHookDone,
                Bootstrapped, booted, metricsVars
  <2>2. \A n \in Names : link'[n] = "up" => link[n] = "up"
    BY <1>0, <1>3 DEF StartMicroservices, MicroservicesStarted, Bootstrap, ModuleHook, ModuleHookDone,
                      Bootstrapped, Request
  <2> QED BY <1>0, <2>1, <2>2
<1>4. ASSUME NEW n \in Names, Chain(n) \/ ConnectFails(n) PROVE UpIsShown'
  <2>1. UNCHANGED <<registry, at, gauge, observed>>
    BY <1>4 DEF Chain, ChainDone, Retry, ChainFails, ConnectFails, lifeVars, booted, metricsVars
  <2>2. \A m \in Names : link'[m] = "up" => link[m] = "up"
    BY <1>0, <1>4 DEF Chain, ChainDone, Retry, ChainFails, ConnectFails, Request
  <2> QED BY <1>0, <2>1, <2>2
<1>5. ASSUME NEW n \in Names, Establish(n) \/ Reconnect(n) PROVE UpIsShown'
  <2>1. UNCHANGED <<registry, observed>> /\ link' = [link EXCEPT ![n] = "up"]
        /\ \A m \in Names \ {n} : at'[m] = at[m]
    BY <1>0, <1>5 DEF Establish, Reconnect, lifeVars
  <2>2. ShowUp(<<n, at'[n]>>)
    BY <1>0, <1>5 DEF Establish, Reconnect
  <2> QED BY <1>0, <2>1, <2>2 DEF ShowUp
<1>6. ASSUME NEW n \in Names, Disconnect(n) PROVE UpIsShown'
  <2>1. n \in Scopes /\ UNCHANGED <<registry, observed>> /\ link' = [link EXCEPT ![n] = "down"]
    BY <1>6 DEF Disconnect, lifeVars
  <2>2. ~Several => LinkUp' = {}
    BY <1>0, <2>1, OnlyScopeIsDefault
  <2> QED BY <2>1, <2>2
<1>7. CASE Poll \/ Check \/ \E c \in Calls : Call(c) \/ Serve(c)
  <2>1. UNCHANGED <<registry, at, gauge, observed>>
    BY <1>7 DEF Poll, Check, Call, Serve, idle
  <2>2. \A n \in Names : link'[n] = "up" => link[n] = "up"
    BY <1>0, <1>7 DEF Poll, Check, Call, Serve, Request
  <2> QED BY <1>0, <2>1, <2>2
<1>8. CASE Close \/ Stop
  <2>1. UNCHANGED <<registry, at, gauge, observed>>
    BY <1>8 DEF Close, Stop, Shutdown, Drain, ShutdownDone, booted, metricsVars
  <2>2. \A n \in Names : link'[n] = "up" => link[n] = "up"
    BY <1>0, <1>8 DEF Close, Stop, Shutdown, Drain, ShutdownDone
  <2> QED BY <1>0, <2>1, <2>2
<1>9. CASE UNCHANGED vars
  BY <1>9 DEF vars, appVars, metricsVars
<1> QED BY <1>1, <1>2, <1>3, <1>4, <1>5, <1>6, <1>7, <1>8, <1>9 DEF Next, Boot, Connection

\* Nothing is shown as up that is not: what is shown was up when it was shown, a disconnect
\* hides it, and a connection that was up is closed only by the shutdown.
LEMMA ShownStep ==
  ASSUME TypeInv, ShownIsUp, [Next]_vars
  PROVE  ShownIsUp'
<1> USE DEF ShownIsUp
<1>0. link \in [Names -> {"none", "connecting", "up", "down", "closed"}] /\ Scopes \subseteq Names
      /\ at \in [Names -> Hosts]
  BY DEF TypeInv, TypeOK, AppTypeOK, RegistryInv
<1> DEFINE good == {"up", "closed"}
<1>a. ASSUME UNCHANGED <<registry, at, gauge, observed, misled>>,
             \A n \in Names : link[n] \in good => link'[n] \in good
      PROVE  ShownIsUp'
  BY <1>0, <1>a DEF ServerOf
<1>1. CASE Create
  <2>1. app = "new" /\ UNCHANGED <<gauge, observed, misled>>
    BY <1>1 DEF Create, metricsVars
  <2>2. ~\E n \in Names : link[n] \in good
    BY <1>0, <2>1 DEF TypeInv, RegistryInv
  <2> QED BY <2>1, <2>2
<1>2. CASE MetricsHook
  <2>0. UNCHANGED <<registry, link, at>>
    BY <1>2 DEF MetricsHook
  <2>1. CASE setup.metrics
    <3>1. /\ gauge' = [s \in {ServerOf(n) : n \in {registry.default} \cap LinkOpen} |-> 1]
          /\ misled' = (link[registry.default] = "down")
      BY <1>2, <2>1 DEF MetricsHook, BootstrapMetrics, SyncInitialConnectionState
    <3>2. ~misled' => \A n \in {registry.default} \cap LinkOpen : n \in Names /\ link[n] = "up"
      BY <1>0, <3>1 DEF LinkOpen
    <3> QED BY <2>0, <3>1, <3>2 DEF ServerOf
  <2>2. CASE ~setup.metrics
    <3>1. UNCHANGED <<gauge, observed, misled>>
      BY <1>2, <2>2 DEF MetricsHook
    <3> QED BY <1>a, <2>0, <3>1
  <2> QED BY <2>1, <2>2
<1>3. CASE StartMicroservices \/ MicroservicesStarted \/ Bootstrap \/ ModuleHook \/ ModuleHookDone
           \/ Bootstrapped
  <2>1. UNCHANGED <<registry, at, gauge, observed, misled>>
    BY <1>3 DEF StartMicroservices, MicroservicesStarted, Bootstrap, ModuleHook, ModuleHookDone,
                Bootstrapped, booted, metricsVars
  <2>2. \A n \in Names : link[n] \in good => link'[n] \in good
    BY <1>0, <1>3 DEF StartMicroservices, MicroservicesStarted, Bootstrap, ModuleHook, ModuleHookDone,
                      Bootstrapped, Request
  <2> QED BY <1>a, <2>1, <2>2
<1>4. ASSUME NEW n \in Names, Chain(n) \/ ConnectFails(n) PROVE ShownIsUp'
  <2>1. UNCHANGED <<registry, at, gauge, observed, misled>>
    BY <1>4 DEF Chain, ChainDone, Retry, ChainFails, ConnectFails, lifeVars, booted, metricsVars
  <2>2. \A m \in Names : link[m] \in good => link'[m] \in good
    BY <1>0, <1>4 DEF Chain, ChainDone, Retry, ChainFails, ConnectFails, Request
  <2> QED BY <1>a, <2>1, <2>2
<1>5. ASSUME NEW n \in Names, Establish(n) \/ Reconnect(n) PROVE ShownIsUp'
  <2>1. /\ UNCHANGED <<registry, observed, misled>> /\ link' = [link EXCEPT ![n] = "up"]
        /\ link[n] \notin good /\ \A m \in Names \ {n} : at'[m] = at[m]
    BY <1>0, <1>5 DEF Establish, Reconnect, lifeVars
  <2>2. ShowUp(<<n, at'[n]>>)
    BY <1>0, <1>5 DEF Establish, Reconnect, ServerOf
  <2> QED BY <1>0, <2>1, <2>2 DEF ShowUp, ServerOf
<1>6. ASSUME NEW n \in Names, Disconnect(n) PROVE ShownIsUp'
  <2>1. observed' => \A s \in DOMAIN gauge' : gauge'[s] = 0
    BY <1>6 DEF Disconnect, lifeVars, ShowDown
  <2> QED BY <2>1
<1>7. CASE Poll \/ Check \/ \E c \in Calls : Call(c) \/ Serve(c)
  <2>1. UNCHANGED <<registry, at, gauge, observed, misled>>
    BY <1>7 DEF Poll, Check, Call, Serve, idle
  <2>2. \A n \in Names : link[n] \in good => link'[n] \in good
    BY <1>0, <1>7 DEF Poll, Check, Call, Serve, Request
  <2> QED BY <1>a, <2>1, <2>2
<1>8. CASE Close \/ Stop
  <2>1. UNCHANGED <<registry, at, gauge, observed, misled>>
    BY <1>8 DEF Close, Stop, Shutdown, Drain, ShutdownDone, booted, metricsVars
  <2>2. \A n \in Names : link[n] \in good => link'[n] \in good
    BY <1>0, <1>8 DEF Close, Stop, Shutdown, Drain, ShutdownDone
  <2> QED BY <1>a, <2>1, <2>2
<1>9. CASE UNCHANGED vars
  BY <1>9, <1>a DEF vars, appVars, metricsVars
<1> QED BY <1>1, <1>2, <1>3, <1>4, <1>5, <1>6, <1>7, <1>8, <1>9 DEF Next, Boot, Connection

--------------------------------------------------------------------------------
LEMMA Init_WiredInv == Init => WiredInv /\ UpIsShown /\ ShownIsUp
<1> SUFFICES ASSUME Init PROVE WiredInv /\ UpIsShown /\ ShownIsUp
  OBVIOUS
<1> USE DEF Init
<1>1. BootInv
  BY ApplicationAssumption DEF BootInv
<1>2. CriticalInv /\ AttachInv
  BY DEF CriticalInv, AttachInv
<1>3. UpIsShown /\ ShownIsUp
  BY DEF MetricsInit, UpIsShown, ShownIsUp
<1>4. ChainsInv
  BY DEF ChainsInv
<1> QED BY <1>1, <1>2, <1>3, <1>4 DEF WiredInv

\* Every reachable state satisfies the invariant.
THEOREM ApplicationInvariant == Spec => []IInv
<1>1. Init => IInv
  BY Init_TypeInv, Init_RpcInv, Init_MetersInv, Init_WiredInv DEF IInv
<1>2. IInv /\ [Next]_vars => IInv'
  BY TypeStep, RpcStep, MetersStep, BootStep, CriticalStep, AttachedStep, ChainsStep,
     GaugeStep, ShownStep DEF IInv, WiredInv
<1> QED BY <1>1, <1>2, PTL DEF Spec

\* Types: metrics, calls, health and connections stay in their ranges, and what is
\* attached, drained or leaked is a scope of the registry.
THEOREM ApplicationTypeCorrect == Spec => []TypeOK
<1>1. IInv => TypeOK
  BY DEF IInv, TypeInv
<1> QED BY <1>1, ApplicationInvariant, PTL

\* Every request is answered at most once and every caller told exactly once, whatever
\* is lost, late, undecodable or thrown by a hook.
THEOREM CallsAnsweredOnce == Spec => []OneReply
<1>1. IInv => OneReply
  BY DEF IInv, RpcInv
<1> QED BY <1>1, ApplicationInvariant, PTL

\* The meters of both sides add up, spans end with the work they cover, and the gauge
\* shows an only connection while it is up, and nothing as up that is not, unless the
\* metrics began to observe while the connection was lost.
THEOREM TelemetryIsTrue == Spec => []TelemetryAgrees
<1>1. IInv => TelemetryAgrees
  BY DEF IInv, RpcInv, MetersInv, TelemetryAgrees
<1> QED BY <1>1, ApplicationInvariant, PTL

\* Poll cycles do not overlap, and none is under way once the connections are drained.
THEOREM PollStops == Spec => []PollIsQuiet
<1>1. IInv => PollIsQuiet
  BY DEF IInv, TypeInv, PollInv, PollIsQuiet
<1> QED BY <1>1, ApplicationInvariant, PTL

\* An application that says it has started reached its critical connections when there are
\* several, its attached critical strategies serve, and when microservices were started
\* first none was forgotten and a strategy hosts the handlers: unless it attached none, or
\* its handlers name no connection and its default connection only publishes.
THEOREM StartedApplicationIsWired == Spec => []StartedIsWired
<1>1. IInv => StartedIsWired
  <2> SUFFICES ASSUME IInv, app = "started" PROVE StartedIsWired
    BY DEF StartedIsWired
  <2> USE DEF IInv, WiredInv
  <2>1. "module" \notin hooks
    BY DEF BootInv
  <2>2. Several => \A n \in Critical(registry) : link[n] \in {"up", "down"}
    BY <2>1 DEF CriticalInv
  <2>3. ASSUME setup.order = <<"start", "init">>, attached # {}, Cardinality(Consumers(registry)) < 2,
               NEW n \in Consumers(registry)
        PROVE  n \in attached
    <3>1. PICK m \in attached : TRUE
      BY <2>3
    <3>2. m \in Consumers(registry)
      BY <3>1 DEF TypeInv, RegistryInv
    <3>3. IsFiniteSet(Consumers(registry))
      BY FS_Subset, ApplicationAssumption DEF TypeInv, RegistryInv, Consumers, Scopes
    <3>4. Cardinality(Consumers(registry)) \in Nat
      BY <3>3, FS_CardinalityType
    <3>5. ~(Cardinality(Consumers(registry)) > 1)
      BY <2>3, <3>4
    <3>6. m = n
      BY <3>2, <3>3, <3>5, TwoElements
    <3> QED BY <3>1, <3>6
  <2>4. setup.order = <<"start", "init">> /\ attached # {} => Consumers(registry) \subseteq attached
    BY <2>1, <2>3 DEF AttachInv, AllConnectionsStarted
  <2>5. \A n \in attached : /\ chain[n] \in {"running", "serving", "retrying"}
                            /\ n \in Critical(registry) => chain[n] = "serving"
    BY DEF ChainsInv
  <2>6. ASSUME setup.order = <<"start", "init">>, attached # {},
               setup.bound # Unset \/ registry.default \in Consumers(registry)
        PROVE  Home \in attached
    <3>1. Home \in Consumers(registry)
      BY <2>6 DEF ChainsInv, HandlerRefused, Home
    <3> QED BY <2>4, <2>6, <3>1
  <2>7. setup.order = <<"start", "init">> => HandlersHosted
    BY <2>5, <2>6 DEF HandlersHosted
  <2> QED BY <2>2, <2>4, <2>5, <2>7 DEF StartedIsWired
<1> QED BY <1>1, ApplicationInvariant, PTL

================================================================================
