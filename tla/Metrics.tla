-------------------------------- MODULE Metrics --------------------------------
(***************************************************************************)
(* The event bus (src/src/hooks/event-bus.ts), the Prometheus metrics that *)
(* subscribe to it and the runner that polls the gauges                    *)
(* (src/src/metrics).                                                      *)
(*                                                                         *)
(* A meter is a counter with its status label.  The bus of a connection is *)
(* a view that adds the connection's name to what it emits; the metrics    *)
(* ignore the name, so the views are one bus here.                         *)
(***************************************************************************)
EXTENDS Integers, FiniteSets

VARIABLES
  observed,   \* the metrics have subscribed to the bus
  counters,   \* the meters
  gauge,      \* connection_up, by server; its domain is activeServers
  pollTimer,  \* PollRunner.timer is set
  ticks,      \* poll cycles under way
  tickAt,     \* what the cycle awaits: nothing, the manager or the infos
  hookThrows  \* the event whose user hook throws

metricsVars == <<observed, counters, gauge, pollTimer, ticks, tickAt, hookThrows>>

Meters == {"routed", "unhandled", "handled.success", "handled.error", "published.success",
           "published.error", "rpc.success", "rpc.error", "rpc.timeout", "timeout", "error"}

MetricsTypeOK ==
  /\ observed \in BOOLEAN
  /\ counters \in [Meters -> Nat]
  /\ \A s \in DOMAIN gauge : gauge[s] \in {0, 1}
  /\ pollTimer \in BOOLEAN
  /\ ticks \in Nat
  /\ tickAt \in {"none", "manager", "info"}

MetricsInit ==
  /\ observed = FALSE
  /\ counters = [m \in Meters |-> 0]
  /\ gauge = <<>>
  /\ pollTimer = FALSE
  /\ ticks = 0
  /\ tickAt = "none"

pollVars == <<pollTimer, ticks, tickAt>>

--------------------------------------------------------------------------------
\* Mutant: the exception of a hook reaches the code that emits.
ThrowsOfHook(event) == event = hookThrows

\* emit() throws.  callHook() catches what a subscriber or a hook throws.
Throws(event) == FALSE

\* Events counted by the metrics, once each.
Emit(meters) ==
  counters' = [m \in Meters |-> IF observed /\ m \in meters THEN counters[m] + 1 ELSE counters[m]]

\* onConnect and onReconnect.
ShowUp(server) ==
  gauge' = IF observed
           THEN [s \in DOMAIN gauge \cup {server} |-> IF s = server THEN 1 ELSE gauge[s]]
           ELSE gauge

\* Mutant: a disconnect is not shown.
ShowDownNever == gauge' = gauge

\* onDisconnect knows no server: every server goes to 0.
ShowDown == gauge' = IF observed THEN [s \in DOMAIN gauge |-> 0] ELSE gauge

\* Mutant: the connection made before the bootstrap is not looked at.
SyncNothing(servers) == gauge' = gauge

\* syncInitialConnectionState(): the Connect event of the default connection came
\* before the subscription.  Servers is empty when there is no connection.
SyncInitialConnectionState(servers) == gauge' = [s \in servers |-> 1]

\* onApplicationBootstrap() with metrics on: subscribe, look at the connection, and
\* poll the consumers of the handlers that are registered by now.
BootstrapMetrics(servers, targets) ==
  /\ observed' = TRUE
  /\ SyncInitialConnectionState(servers)
  /\ pollTimer' = (targets # {})
  /\ UNCHANGED <<counters, ticks, tickAt>>

--------------------------------------------------------------------------------
\* Mutant: a cycle starts although the one before has not ended.
MayTickAlways == pollTimer /\ ticks < 2

\* The interval fires; it is skipped while a cycle is in flight.
MayTick == pollTimer /\ ticks = 0

\* tick() asks for the manager.
TickStarts ==
  /\ ticks' = ticks + 1
  /\ tickAt' = "manager"
  /\ UNCHANGED pollTimer

\* The manager is there: consumers and streams are asked, each failure is counted
\* and skips its target only.
TickAsks ==
  /\ tickAt = "manager"
  /\ tickAt' = "info"
  /\ UNCHANGED <<pollTimer, ticks>>

\* The cycle is over, with or without errors.
TickEnds ==
  /\ ticks' = ticks - 1
  /\ tickAt' = "none"
  /\ UNCHANGED pollTimer

\* stop(): the timer is cleared.
StopTimer == pollTimer' = FALSE /\ UNCHANGED <<ticks, tickAt>>

\* Mutant: stop() does not wait.
StopNotAwaited == TRUE

\* stop() returns when the cycle in flight has ended.
StopAwaited == ticks = 0
================================================================================
