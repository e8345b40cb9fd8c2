----------------------------- MODULE LifecycleProofs -----------------------------
(***************************************************************************)
(* The invariants of StrategyLifecycle, for any kinds, setups and bounds:  *)
(* its types, what close() leaves behind, and the one connection that the  *)
(* shutdown leaves nothing of.                                             *)
(*                                                                         *)
(* Each layer of the invariant rests on the ones before it: the types with *)
(* the count of router subscriptions, then what a closed strategy still    *)
(* has, then the connection, whose callers ask for none once it is closed. *)
(***************************************************************************)
EXTENDS StrategyLifecycle, TLAPS, FiniteSetTheorems

\* A boot chain that has not subscribed its routers yet has fewer subscriptions behind
\* it than there were runs of the chain.
SubsInv ==
  /\ \A k \in Kinds : subs[k] <= attempt
  /\ pc \in {"streams", "consumers"} => \A k \in Kinds : subs[k] < attempt
  /\ pc = "rpcRouter" /\ "command" \in Kinds => subs["command"] < attempt

TypeInv == TypeOK /\ SubsInv

\* A closed strategy has no retry, no router, no flow that goes on and no promise that
\* its boot chain could wait for; the shutdown manager closes it before it drains.
ClosedInv ==
  /\ draining # "no" => manager # "no"
  /\ manager # "no" => closed
  /\ closed => /\ ~retryTimer
               /\ ready # "pending"
               /\ \A k \in Kinds : subs[k] = 0
               /\ \A f \in Flows : ~flow[f].alive

\* What close() left running began after the chain's last look at closed: a chain that was
\* closed before that look does not get past it.
LateInv == closed /\ ~late => ~coreSub /\ ~heartbeat /\ ~PastLastLook

\* Routers are subscribed before the flows of their kinds are started.
RoutedInv ==
  /\ pc = "rpcRouter" /\ ~closed => \A k \in Evented : subs[k] > 0
  /\ \A f \in Flows : flow[f].alive /\ ~closed => subs[KindOf(f)] > 0

\* The connection that is open, if any, is the cached one, and at most one is being
\* established, with none open meanwhile; what is cached belongs to an open connection.
ConnInv ==
  /\ \A c \in Conns : nats[c] \in {"up", "down"} <=> c = connection
  /\ promise = IF connecting = 0 THEN connection ELSE Pending
  /\ connecting # 0 => connecting = 1 /\ connection = None
  /\ connection = None => ~jsm /\ ~jsClient
  /\ draining = "draining" => connection # None
  /\ draining = "done" => connection = None /\ connecting = 0

\* A boot chain whose ordered consumer is up resumes before its connection can go.
ReadyInv == pc = "ordered" /\ ready = "ok" => connection # None

IInv == TypeInv /\ ClosedInv /\ LateInv /\ RoutedInv /\ ConnInv /\ ReadyInv

--------------------------------------------------------------------------------
\* The invariant holds when the application is built.
LEMMA InitInv == Init => IInv
<1> SUFFICES ASSUME Init PROVE IInv
  OBVIOUS
<1> USE ConnAssumption, LifecycleAssumption DEF Init, ConnInit, ProviderInit
<1>1. TypeOK
  <2>1. ConnTypeOK
    BY DEF ConnTypeOK
  <2>2. ProviderTypeOK
    BY DEF ProviderTypeOK, Unused
  <2>3. subs \in [Kinds -> 0 .. MaxAttempts] /\ attempt \in 0 .. MaxAttempts
    OBVIOUS
  <2>4. {closed, late, retryTimer, coreSub, heartbeat} \subseteq BOOLEAN
    BY Zenon
  <2>5. faults \in 0 .. MaxFaults /\ setup \in Setups
    OBVIOUS
  <2> QED BY <2>1, <2>2, <2>3, <2>4, <2>5 DEF TypeOK
<1>2. SubsInv
  BY DEF SubsInv
<1>3. ClosedInv
  BY DEF ClosedInv, Unused
<1>4. RoutedInv
  BY DEF RoutedInv, Unused
<1>5. ConnInv
  BY DEF ConnInv, Conns, None
<1>6. ReadyInv
  BY DEF ReadyInv
<1>7. LateInv
  BY DEF LateInv
<1> QED BY <1>1, <1>2, <1>3, <1>4, <1>5, <1>6, <1>7 DEF IInv, TypeInv

--------------------------------------------------------------------------------
(***************************************************************************)
(* Types.  ChainTypeOK is what the exits of the boot chain may change.     *)
(***************************************************************************)
ChainTypeOK ==
  /\ promise \in Conns \cup {None, Pending}
  /\ connecting \in Nat
  /\ pc \in {"idle", "streams", "consumers", "rpcRouter", "ordered", "core", "meta"}
  /\ answer \in {"none", "pending", "ok", "error"}
  /\ retryTimer \in BOOLEAN

\* A caller that waits for the connection, or starts to establish it.
LEMMA RequestType ==
  ASSUME TypeOK, Request
  PROVE  promise' \in Conns \cup {None, Pending} /\ connecting' \in Nat
BY DEF TypeOK, ConnTypeOK, Request

\* The boot chain goes on to another call.
LEMMA AwaitsType ==
  ASSUME TypeOK, NEW p \in {"consumers", "rpcRouter", "ordered", "core", "meta"}, Awaits(p)
  PROVE  ChainTypeOK' /\ pc' = p
<1>1. promise' \in Conns \cup {None, Pending} /\ connecting' \in Nat
  BY RequestType DEF Awaits, TypeOK, ConnTypeOK
<1>2. pc' = p /\ answer' = answer /\ retryTimer' = retryTimer
  BY DEF Awaits
<1> QED BY <1>1, <1>2 DEF ChainTypeOK, TypeOK

\* The boot chain ends.
LEMMA EndsType ==
  ASSUME TypeOK, Succeeds \/ Aborts
  PROVE  ChainTypeOK' /\ pc' = "idle"
<1>1. promise' = promise /\ connecting' = connecting /\ pc' = "idle"
  BY DEF Succeeds, Aborts
<1>2. answer' \in {"none", "pending", "ok", "error"}
  BY DEF Succeeds, Aborts, TypeOK
<1>3. setup.critical \in BOOLEAN /\ closed \in BOOLEAN /\ retryTimer \in BOOLEAN
  BY LifecycleAssumption DEF TypeOK
<1>4. retryTimer' \in BOOLEAN
  BY <1>3 DEF Succeeds, Aborts
<1> QED BY <1>1, <1>2, <1>4 DEF ChainTypeOK, TypeOK, ConnTypeOK

\* What follows core RPC, and what follows consumption.
LEMMA AfterType ==
  ASSUME TypeOK, AfterCore \/ AfterConsumption
  PROVE  ChainTypeOK' /\ pc' \in {"idle", "core", "meta"}
BY AwaitsType, EndsType DEF AfterCore, AfterConsumption

\* Consumption starts, and the chain goes on to what follows.
LEMMA ConsumptionType ==
  ASSUME TypeOK, Consumption
  PROVE  ChainTypeOK' /\ ProviderTypeOK' /\ pc' \in {"idle", "ordered", "core", "meta"}
<1>1. ProviderTypeOK'
  BY DEF Consumption, StartFlows, TypeOK, ProviderTypeOK
<1>2. ChainTypeOK' /\ pc' \in {"idle", "ordered", "core", "meta"}
  BY AwaitsType, AfterType DEF Consumption
<1> QED BY <1>1, <1>2

\* A run of the boot chain begins, which is one more attempt.
LEMMA BeginType ==
  ASSUME TypeOK, Begin
  PROVE  /\ promise' \in Conns \cup {None, Pending} /\ connecting' \in Nat
         /\ pc' \in {"idle", "streams", "core", "meta"}
         /\ attempt' = attempt + 1 /\ attempt' \in 0 .. MaxAttempts
<1>1. promise' \in Conns \cup {None, Pending} /\ connecting' \in Nat
  BY RequestType DEF Begin, TypeOK, ConnTypeOK
<1>2. attempt' = attempt + 1 /\ attempt' \in 0 .. MaxAttempts
  BY LifecycleAssumption DEF Begin, TypeOK
<1>3. pc' \in {"idle", "streams", "core", "meta"}
  BY DEF Begin
<1> QED BY <1>1, <1>2, <1>3

\* A new run of the chain starts above every count of subscriptions.
LEMMA BeginSubs ==
  ASSUME TypeInv, Begin, UNCHANGED subs
  PROVE  SubsInv'
<1>1. attempt \in Nat /\ attempt' = attempt + 1 /\ pc' \in {"idle", "streams", "core", "meta"}
  BY BeginType, LifecycleAssumption DEF TypeInv, TypeOK
<1>2. \A k \in Kinds : subs[k] \in Nat /\ subs[k] <= attempt
  BY DEF TypeInv, TypeOK, SubsInv
<1>3. \A k \in Kinds : subs'[k] < attempt'
  BY <1>1, <1>2
<1>4. \A k \in Kinds : subs'[k] <= attempt'
  BY <1>1, <1>2
<1> QED BY <1>1, <1>3, <1>4 DEF SubsInv

\* A step of a flow keeps the types of the flows, and which of them go on.
LEMMA FlowType ==
  ASSUME ProviderTypeOK, NEW f \in Flows, FlowCalls(f)
  PROVE  /\ ProviderTypeOK'
         /\ \A g \in Flows : flow'[g].alive = flow[g].alive
         /\ ready' # ready => ready = "pending" /\ (ready' = "ok" => Up)
<1> USE DEF ProviderTypeOK, Goes
<1>1. CASE Gets(f) \/ Repeats(f) \/ NotFound(f) \/ Recovers(f)
  BY <1>1 DEF Gets, Repeats, NotFound, Recovers
<1>2. CASE Up /\ Consumes(f)
  BY <1>2 DEF Consumes
<1>3. CASE CallFails(f)
  BY <1>3 DEF CallFails, Errs, EndOf
<1>4. CASE IteratorCloses(f)
  BY <1>4 DEF IteratorCloses, EndOf
<1> QED BY <1>1, <1>2, <1>3, <1>4 DEF FlowCalls

\* close() ends every flow and rejects the promise of startOrdered().
LEMMA DestroyType ==
  ASSUME ProviderTypeOK, DestroyFlows
  PROVE  /\ ProviderTypeOK'
         /\ ready' # "pending"
         /\ \A f \in Flows : ~flow'[f].alive
BY DEF ProviderTypeOK, DestroyFlows

\* No step counts more faults than are explored.
LEMMA FaultType ==
  ASSUME TypeOK, Fault \/ NoFault \/ Fails
  PROVE  faults' \in 0 .. MaxFaults
BY LifecycleAssumption DEF TypeOK, Fault, NoFault, Fails

--------------------------------------------------------------------------------
\* Provisioning is done: the routers of events subscribe, or the closed chain ends.
LEMMA RoutersStartType ==
  ASSUME TypeInv, RoutersStart, pc \in {"streams", "consumers"},
         UNCHANGED <<setup, attempt, closed>>
  PROVE  /\ ChainTypeOK' /\ ProviderTypeOK' /\ SubsInv'
         /\ subs' \in [Kinds -> 0 .. MaxAttempts]
<1> USE DEF TypeInv
<1>1. CASE closed
  <2>1. Aborts /\ UNCHANGED <<subs, providerVars>>
    BY <1>1 DEF RoutersStart
  <2>2. ChainTypeOK' /\ pc' = "idle"
    BY <2>1, EndsType
  <2> QED BY <2>1, <2>2 DEF TypeOK, ProviderTypeOK, providerVars, SubsInv
<1>2. CASE ~closed
  <2>1. subs' = [k \in Kinds |-> IF k \in Evented THEN subs[k] + 1 ELSE subs[k]]
    BY <1>2 DEF RoutersStart, EventRouterStarts
  <2>2. \A k \in Kinds : subs[k] \in 0 .. MaxAttempts /\ subs[k] < attempt
    BY DEF SubsInv, TypeOK
  <2>3. attempt \in 0 .. MaxAttempts /\ attempt' = attempt /\ MaxAttempts \in Nat
    BY LifecycleAssumption DEF TypeOK
  <2>4. subs' \in [Kinds -> 0 .. MaxAttempts] /\ \A k \in Kinds : subs'[k] <= attempt'
    BY <2>1, <2>2, <2>3
  <2>5. CASE "command" \in Kind
    <3>1. Awaits("rpcRouter") /\ UNCHANGED providerVars
      BY <1>2, <2>5 DEF RoutersStart
    <3>2. ChainTypeOK' /\ pc' = "rpcRouter"
      BY <3>1, AwaitsType
    <3>3. "command" \in Kinds => subs'["command"] < attempt'
      BY <2>1, <2>2, <2>3 DEF Evented
    <3> QED BY <2>4, <3>1, <3>2, <3>3 DEF TypeOK, ProviderTypeOK, providerVars, SubsInv
  <2>6. CASE "command" \notin Kind
    <3>1. Consumption
      BY <1>2, <2>6 DEF RoutersStart
    <3>2. ChainTypeOK' /\ ProviderTypeOK' /\ pc' \in {"idle", "ordered", "core", "meta"}
      BY <3>1, ConsumptionType
    <3> QED BY <2>4, <3>2 DEF SubsInv
  <2> QED BY <2>5, <2>6
<1> QED BY <1>1, <1>2

\* close() leaves no subscription behind.
LEMMA CloseType ==
  ASSUME TypeInv, CloseStrategy, UNCHANGED <<pc, attempt>>
  PROVE  /\ ProviderTypeOK' /\ SubsInv'
         /\ closed' = TRUE /\ retryTimer' = FALSE /\ heartbeat' = FALSE /\ coreSub' = FALSE
         /\ {closed, late, retryTimer, coreSub, heartbeat}' \subseteq BOOLEAN
         /\ subs' \in [Kinds -> 0 .. MaxAttempts]
<1>1. ProviderTypeOK'
  BY DestroyType DEF CloseStrategy, TypeInv, TypeOK
<1>2. MaxAttempts \in Nat /\ attempt \in Nat /\ \A k \in Kinds : subs[k] \in Nat
  BY LifecycleAssumption DEF TypeInv, TypeOK
<1>3. subs' = [k \in Kinds |-> 0] /\ attempt' = attempt /\ pc' = pc
  BY DEF CloseStrategy
<1>4. SubsInv'
  BY <1>2, <1>3 DEF SubsInv, TypeInv
<1>5. closed' = TRUE /\ retryTimer' = FALSE /\ heartbeat' = FALSE /\ coreSub' = FALSE
  BY DEF CloseStrategy
<1>6. late' \in BOOLEAN
  BY DEF CloseStrategy, PastLastLook
<1>7. {closed, late, retryTimer, coreSub, heartbeat}' \subseteq BOOLEAN
  BY <1>5, <1>6, Zenon
<1>8. subs' \in [Kinds -> 0 .. MaxAttempts]
  BY <1>2, <1>3
<1> QED BY <1>1, <1>4, <1>5, <1>7, <1>8

\* What the connection does by itself.
LEMMA ConnType ==
  ASSUME ConnTypeOK,
         \/ ShutdownAwaited \/ Establish \/ EstablishFails \/ Reconnect \/ Drained
         \/ Disconnect
  PROVE  ConnTypeOK'
<1> USE ConnAssumption DEF ConnTypeOK
<1>1. CASE ShutdownAwaited
  BY <1>1 DEF ShutdownAwaited
<1>2. CASE Establish
  BY <1>2 DEF Establish
<1>3. CASE EstablishFails
  BY <1>3 DEF EstablishFails
<1>4. CASE Reconnect
  BY <1>4 DEF Reconnect
<1>5. CASE Drained
  BY <1>5 DEF Drained
<1>6. CASE Disconnect
  BY <1>6 DEF Disconnect
<1> QED BY <1>1, <1>2, <1>3, <1>4, <1>5, <1>6

\* Every step keeps the types and the count of subscriptions.
LEMMA TypeStep == TypeInv /\ [Next]_vars => TypeInv'
<1> SUFFICES ASSUME TypeInv, [Next]_vars PROVE TypeInv'
  OBVIOUS
<1> TypeOK /\ SubsInv /\ ConnTypeOK /\ ProviderTypeOK
  BY DEF TypeInv, TypeOK
<1> USE DEF booting, lifeVars, connVars, providerVars
<1>1. CASE Listen
  <2>1. Begin /\ NoFault
    BY <1>1 DEF Listen
  <2>2. answer' \in {"pending", "ok"}
    BY <1>1 DEF Listen
  <2>3. UNCHANGED <<nats, connection, jsm, jsClient, draining, flow, ready, setup,
                    retryTimer, closed, late, subs, coreSub, heartbeat, client, manager>>
    BY <1>1 DEF Listen
  <2> QED BY <2>1, <2>2, <2>3, BeginType, BeginSubs, FaultType
             DEF TypeInv, TypeOK, ConnTypeOK, ProviderTypeOK
<1>2. CASE Retry
  <2>1. Begin /\ NoFault
    BY <1>2 DEF Retry
  <2>2. UNCHANGED <<nats, connection, jsm, jsClient, draining, flow, ready, setup,
                    answer, closed, late, subs, coreSub, heartbeat, client, manager>>
    BY <1>2 DEF Retry
  <2>3. {closed, late, retryTimer, coreSub, heartbeat}' \subseteq BOOLEAN
    BY <1>2, <2>2 DEF Retry, TypeOK
  <2> QED BY <2>1, <2>2, <2>3, BeginType, BeginSubs, FaultType
             DEF TypeInv, TypeOK, ConnTypeOK, ProviderTypeOK
<1>3. CASE AppCloses
  <2>1. CloseStrategy /\ NoFault
        /\ UNCHANGED <<nats, connection, promise, connecting, jsm, jsClient, draining, setup, pc,
                       answer, attempt, client, manager>>
    BY <1>3 DEF AppCloses
  <2>2. {closed, late, retryTimer, coreSub, heartbeat}' \subseteq BOOLEAN
    BY <2>1, CloseType
  <2>3. ConnTypeOK'
    BY <2>1 DEF ConnTypeOK
  <2> QED BY <2>1, <2>2, <2>3, CloseType, FaultType DEF TypeInv, TypeOK
<1>4. CASE Shutdown
  <2>1. CloseStrategy /\ NoFault /\ manager' = "draining"
        /\ UNCHANGED <<nats, connection, promise, connecting, jsm, jsClient, setup, pc,
                       answer, attempt, client>>
    BY <1>4 DEF Shutdown
  <2>2. draining' \in {"awaiting", "done"}
    BY <1>4 DEF Shutdown, ShutdownStarts
  <2>3. {closed, late, retryTimer, coreSub, heartbeat}' \subseteq BOOLEAN
    BY <2>1, CloseType
  <2> QED BY <2>1, <2>2, <2>3, CloseType, FaultType DEF TypeInv, TypeOK, ConnTypeOK
<1>5. CASE ClientConnects
  <2>1. Request /\ NoFault /\ client' = "waiting"
        /\ UNCHANGED <<nats, connection, jsm, jsClient, draining, flow, ready, setup, answer,
                       closed, late, retryTimer, attempt, subs, coreSub, heartbeat, manager, pc>>
    BY <1>5 DEF ClientConnects
  <2> QED BY <2>1, RequestType, FaultType DEF TypeInv, TypeOK, ConnTypeOK, ProviderTypeOK, SubsInv
<1>6. CASE RpcRouterStarts
  <2>1. NoFault /\ pc = "rpcRouter"
        /\ UNCHANGED <<nats, connection, jsm, jsClient, draining, setup, attempt, closed, late,
                       coreSub, heartbeat, client, manager>>
    BY <1>6 DEF RpcRouterStarts
  <2>2. ChainTypeOK' /\ ProviderTypeOK' /\ pc' \in {"idle", "ordered", "core", "meta"}
    <3>1. CASE closed
      BY <1>6, <3>1, EndsType DEF RpcRouterStarts, ProviderTypeOK
    <3>2. CASE ~closed
      BY <1>6, <3>2, ConsumptionType DEF RpcRouterStarts
    <3> QED BY <3>1, <3>2
  <2>3. subs' = [k \in Kinds |-> 0] \/ subs' = [subs EXCEPT !["command"] = @ + 1]
    BY <1>6 DEF RpcRouterStarts
  <2>4. attempt \in 0 .. MaxAttempts /\ attempt' = attempt /\ MaxAttempts \in Nat
    BY <2>1, LifecycleAssumption DEF TypeOK
  <2>5. subs' \in [Kinds -> 0 .. MaxAttempts] /\ \A k \in Kinds : subs'[k] <= attempt'
    BY <2>1, <2>3, <2>4 DEF TypeOK, SubsInv
  <2>6. SubsInv'
    BY <2>2, <2>5 DEF SubsInv
  <2> QED BY <2>1, <2>2, <2>5, <2>6, FaultType DEF TypeInv, TypeOK, ConnTypeOK, ChainTypeOK
<1>7. CASE OrderedReady
  <2>1. NoFault
        /\ UNCHANGED <<nats, connection, jsm, jsClient, draining, flow, ready, setup,
                       attempt, closed, late, subs, coreSub, heartbeat, client, manager>>
    BY <1>7 DEF OrderedReady
  <2>2. ChainTypeOK' /\ pc' \in {"idle", "core", "meta"}
    BY <1>7, AfterType, EndsType DEF OrderedReady
  <2> QED BY <2>1, <2>2, FaultType DEF TypeInv, TypeOK, ConnTypeOK, ProviderTypeOK, ChainTypeOK, SubsInv
<1>8. CASE CoreRpcStarts
  <2>1. NoFault /\ coreSub' = TRUE
        /\ UNCHANGED <<nats, connection, jsm, jsClient, draining, flow, ready, setup,
                       attempt, closed, late, subs, heartbeat, client, manager>>
    BY <1>8 DEF CoreRpcStarts
  <2>2. ChainTypeOK' /\ pc' \in {"idle", "core", "meta"}
    BY <1>8, AfterType DEF CoreRpcStarts
  <2> QED BY <2>1, <2>2, FaultType DEF TypeInv, TypeOK, ConnTypeOK, ProviderTypeOK, ChainTypeOK, SubsInv
<1>9. CASE ClientConnected
  BY <1>9, FaultType DEF ClientConnected, TypeInv, TypeOK, ConnTypeOK, ProviderTypeOK, SubsInv
<1>10. CASE BootFails
  <2>1. Fails /\ Aborts
        /\ UNCHANGED <<nats, connection, jsm, jsClient, draining, flow, ready, setup,
                       attempt, closed, late, subs, coreSub, heartbeat, client, manager>>
    BY <1>10 DEF BootFails
  <2> QED BY <2>1, EndsType, FaultType DEF TypeInv, TypeOK, ConnTypeOK, ProviderTypeOK, ChainTypeOK, SubsInv
<1>11. CASE ConnectionStep
  <2>1. ConnTypeOK'
    BY <1>11, ConnType DEF ConnectionStep
  <2>2. Fault \/ NoFault
    BY <1>11 DEF ConnectionStep
  <2>3. UNCHANGED <<flow, ready, setup, answer, closed, late, retryTimer, attempt, subs,
                    coreSub, heartbeat, manager, pc, client>>
    BY <1>11 DEF ConnectionStep
  <2> QED BY <2>1, <2>2, <2>3, FaultType DEF TypeInv, TypeOK, ProviderTypeOK, SubsInv
<1>12. CASE StreamsEnsured
  <2>1. NoFault /\ pc = "streams" /\ jsm' = TRUE
        /\ UNCHANGED <<nats, connection, jsClient, draining, setup, attempt, closed, late,
                       coreSub, heartbeat, client, manager>>
    BY <1>12 DEF StreamsEnsured, CacheManager
  <2>2. CASE Awaits("consumers") /\ UNCHANGED <<subs, providerVars>>
    BY <2>1, <2>2, AwaitsType, FaultType
       DEF TypeInv, TypeOK, ConnTypeOK, ProviderTypeOK, ChainTypeOK, SubsInv
  <2>3. CASE RoutersStart
    BY <2>1, <2>3, RoutersStartType, FaultType DEF TypeInv, TypeOK, ConnTypeOK, ChainTypeOK
  <2> QED BY <1>12, <2>2, <2>3 DEF StreamsEnsured
<1>13. CASE ConsumersEnsured
  <2>1. NoFault /\ pc = "consumers" /\ RoutersStart
        /\ UNCHANGED <<nats, connection, jsm, jsClient, draining, setup, attempt, closed, late,
                       coreSub, heartbeat, client, manager>>
    BY <1>13 DEF ConsumersEnsured
  <2> QED BY <2>1, RoutersStartType, FaultType DEF TypeInv, TypeOK, ConnTypeOK, ChainTypeOK
<1>14. CASE MetadataPublished
  <2>1. Succeeds /\ (NoFault \/ Fails)
        /\ UNCHANGED <<nats, connection, jsm, jsClient, draining, flow, ready, setup,
                       attempt, closed, late, subs, coreSub, client, manager>>
    BY <1>14 DEF MetadataPublished
  <2>2. heartbeat' \in BOOLEAN
    BY <1>14 DEF MetadataPublished, TypeOK
  <2> QED BY <2>1, <2>2, EndsType, FaultType DEF TypeInv, TypeOK, ConnTypeOK, ProviderTypeOK, ChainTypeOK, SubsInv
<1>15. CASE FlowStep
  <2>1. PICK f \in Flows : FlowCalls(f)
    BY <1>15 DEF FlowStep
  <2>2. UNCHANGED <<nats, connection, promise, connecting, jsm, draining, setup, pc, answer, closed,
                    late, retryTimer, attempt, subs, coreSub, heartbeat, client, manager>>
    BY <1>15 DEF FlowStep
  <2>3. jsClient' \in BOOLEAN
    BY <1>15 DEF FlowStep, CacheClient, Usable, ConnTypeOK
  <2>4. Fault \/ NoFault \/ Fails
    BY <2>1 DEF FlowCalls
  <2> QED BY <2>1, <2>2, <2>3, <2>4, FlowType, FaultType DEF TypeInv, TypeOK, ConnTypeOK, SubsInv
<1>16. CASE ConnectFails
  <2>1. EstablishFails /\ Fault
        /\ UNCHANGED <<flow, ready, setup, closed, late, attempt, subs, coreSub, heartbeat, manager>>
    BY <1>16 DEF ConnectFails
  <2>2. client' \in {"idle", client} /\ pc' \in {"idle", pc} /\ answer' \in {answer, "error"}
    BY <1>16 DEF ConnectFails
  <2>3. setup.critical \in BOOLEAN /\ closed \in BOOLEAN /\ retryTimer \in BOOLEAN
    BY LifecycleAssumption DEF TypeOK
  <2>4. retryTimer' \in BOOLEAN
    BY <1>16, <2>3 DEF ConnectFails
  <2> QED BY <2>1, <2>2, <2>4, ConnType, FaultType DEF TypeInv, TypeOK, ProviderTypeOK, SubsInv
<1>17. CASE DrainEnds
  BY <1>17, FaultType DEF DrainEnds, TypeInv, TypeOK, ConnTypeOK, ProviderTypeOK, SubsInv
<1>18. CASE UNCHANGED vars
  BY <1>18 DEF vars, strategyVars, TypeInv, TypeOK, ConnTypeOK, ProviderTypeOK, SubsInv
<1> QED BY <1>1, <1>2, <1>3, <1>4, <1>5, <1>6, <1>7, <1>8, <1>9, <1>10, <1>11, <1>12, <1>13,
           <1>14, <1>15, <1>16, <1>17, <1>18 DEF Next, Call, Resume, Receive

--------------------------------------------------------------------------------
(***************************************************************************)
(* What close() leaves, and routers before flows.                          *)
(***************************************************************************)
\* Starting consumption keeps routers before flows, when every kind of the setup is
\* subscribed and no subscription went away.
LEMMA ConsumptionRouted ==
  ASSUME TypeOK, TypeOK', RoutedInv, ~closed, ~closed', Consumption,
         \A k \in Kinds : subs'[k] >= subs[k],
         \A k \in Kind : subs'[k] > 0
  PROVE  RoutedInv'
<1>1. \A f \in Flows : flow'[f].alive => f[1] \in Kind \/ flow[f].alive
  BY DEF Consumption, StartFlows
<1>2. \A k \in Kinds : subs[k] \in Nat /\ subs'[k] \in Nat
  BY LifecycleAssumption DEF TypeOK
<1>3. \A f \in Flows : flow'[f].alive => subs'[KindOf(f)] > 0
  BY <1>1, <1>2 DEF RoutedInv, KindOf, Flows
<1>4. pc' # "rpcRouter"
  BY ConsumptionType
<1> QED BY <1>3, <1>4 DEF RoutedInv

\* A step that leaves the flows, the subscriptions and the strategy alone, and does not
\* take the chain to the RPC router, keeps routers before flows.
LEMMA RoutedKept ==
  ASSUME RoutedInv, UNCHANGED <<flow, closed, subs, setup>>, pc' # "rpcRouter" \/ pc' = pc
  PROVE  RoutedInv'
BY DEF RoutedInv, Evented, Kind

\* The routers of events subscribe before the chain waits for the RPC router or starts
\* the flows; a chain that was closed subscribes and starts nothing.
LEMMA RoutersStartRouted ==
  ASSUME TypeInv, TypeInv', ClosedInv, RoutedInv, RoutersStart, pc \in {"streams", "consumers"},
         UNCHANGED <<setup, closed, draining, manager>>
  PROVE  ClosedInv' /\ RoutedInv'
<1> USE DEF TypeInv, providerVars
<1>1. CASE closed
  <2>1. Aborts /\ UNCHANGED <<subs, flow, ready>> /\ ~retryTimer' /\ pc' # "rpcRouter"
    BY <1>1 DEF RoutersStart, Aborts
  <2> QED BY <2>1, <1>1, RoutedKept DEF ClosedInv
<1>2. CASE ~closed
  <2>1. subs' = [k \in Kinds |-> IF k \in Evented THEN subs[k] + 1 ELSE subs[k]]
    BY <1>2 DEF RoutersStart, EventRouterStarts
  <2>2. \A k \in Kinds : subs[k] \in Nat
    BY LifecycleAssumption DEF TypeOK
  <2>3. Kind \subseteq Kinds
    BY LifecycleAssumption DEF TypeOK, Kind
  <2>4. \A k \in Kinds : subs'[k] >= subs[k]
    BY <2>1, <2>2
  <2>5. \A k \in Evented : subs'[k] > 0
    BY <2>1, <2>2, <2>3 DEF Evented
  <2>6. ClosedInv'
    BY <1>2 DEF ClosedInv
  <2>7. CASE "command" \in Kind
    <3>1. Awaits("rpcRouter") /\ UNCHANGED <<flow, ready>>
      BY <1>2, <2>7 DEF RoutersStart
    <3>2. \A f \in Flows : flow'[f].alive => subs'[KindOf(f)] > 0
      <4>1. \A f \in Flows : KindOf(f) \in Kinds
        BY DEF Flows, KindOf
      <4>2. \A f \in Flows : flow[f].alive => subs[KindOf(f)] > 0
        BY <1>2 DEF RoutedInv
      <4>3. flow' = flow /\ \A k \in Kinds : subs'[k] \in Nat
        BY <3>1, LifecycleAssumption DEF TypeOK
      <4> QED BY <2>2, <2>4, <4>1, <4>2, <4>3
    <3>3. Evented' = Evented
      BY DEF Evented, Kind
    <3> QED BY <2>5, <2>6, <3>2, <3>3 DEF RoutedInv
  <2>8. CASE "command" \notin Kind
    <3>1. Consumption /\ \A k \in Kind : subs'[k] > 0
      BY <1>2, <2>5, <2>8 DEF RoutersStart, Evented
    <3> QED BY <1>2, <2>4, <2>6, <3>1, ConsumptionRouted
  <2> QED BY <2>7, <2>8
<1> QED BY <1>1, <1>2

\* close() leaves a closed strategy quiet.
LEMMA CloseQuiet ==
  ASSUME ProviderTypeOK, CloseStrategy, draining' # "no" => manager' # "no"
  PROVE  ClosedInv' /\ RoutedInv'
<1>1. ready' # "pending" /\ \A f \in Flows : ~flow'[f].alive
  BY DestroyType DEF CloseStrategy
<1>2. closed' /\ ~retryTimer' /\ \A k \in Kinds : subs'[k] = 0
  BY DEF CloseStrategy
<1> QED BY <1>1, <1>2 DEF ClosedInv, RoutedInv

\* A boot chain that ends schedules a retry only for a strategy that is not closed.
LEMMA EndsQuiet ==
  ASSUME Succeeds \/ Aborts, closed, ~retryTimer
  PROVE  ~retryTimer' /\ pc' = "idle"
<1>1. CASE Succeeds
  BY <1>1 DEF Succeeds
<1>2. CASE Aborts
  <2>1. pc' = "idle"
    BY <1>2 DEF Aborts
  <2>2. (~setup.critical /\ ~closed) = FALSE
    OBVIOUS
  <2>3. retryTimer' = FALSE
    BY <1>2, <2>2, Zenon DEF Aborts
  <2> QED BY <2>1, <2>3
<1> QED BY <1>1, <1>2

\* What follows core RPC or consumption schedules nothing.
LEMMA AfterQuiet ==
  ASSUME TypeOK, AfterCore \/ AfterConsumption, closed, ~retryTimer
  PROVE  ~retryTimer' /\ pc' # "rpcRouter"
<1>1. UNCHANGED retryTimer
  BY DEF AfterCore, AfterConsumption, Awaits, Succeeds
<1> QED BY <1>1, AfterType

\* Every step keeps a closed strategy quiet, and routers before flows.
LEMMA ClosedStep ==
  TypeInv /\ TypeInv' /\ ClosedInv /\ RoutedInv /\ [Next]_vars => ClosedInv' /\ RoutedInv'
<1> SUFFICES ASSUME TypeInv, TypeInv', ClosedInv, RoutedInv, [Next]_vars
             PROVE  ClosedInv' /\ RoutedInv'
  OBVIOUS
<1> TypeOK /\ TypeOK' /\ SubsInv /\ ConnTypeOK /\ ProviderTypeOK
  BY DEF TypeInv, TypeOK
<1> USE DEF booting, lifeVars, connVars, providerVars
<1>1. CASE Listen
  <2>1. Begin /\ ~closed
        /\ UNCHANGED <<draining, flow, ready, setup, closed, subs, manager>>
    BY <1>1 DEF Listen
  <2> QED BY <2>1, BeginType, RoutedKept DEF ClosedInv
<1>2. CASE Retry
  <2>1. Begin /\ retryTimer
        /\ UNCHANGED <<draining, flow, ready, setup, closed, subs, manager>>
    BY <1>2 DEF Retry
  <2> QED BY <2>1, BeginType, RoutedKept DEF ClosedInv
<1>3. CASE AppCloses
  BY <1>3, CloseQuiet DEF AppCloses, ClosedInv
<1>4. CASE Shutdown
  BY <1>4, CloseQuiet DEF Shutdown
<1>5. CASE ClientConnects
  BY <1>5, RoutedKept DEF ClientConnects, ClosedInv
<1>6. CASE RpcRouterStarts
  <2>1. pc = "rpcRouter" /\ UNCHANGED <<draining, setup, closed, manager>>
    BY <1>6 DEF RpcRouterStarts
  <2>2. CASE closed
    <3>1. subs' = [k \in Kinds |-> 0] /\ Aborts /\ UNCHANGED <<flow, ready>>
      BY <1>6, <2>2 DEF RpcRouterStarts
    <3> QED BY <2>1, <2>2, <3>1, EndsQuiet DEF ClosedInv, RoutedInv
  <2>3. CASE ~closed
    <3>1. subs' = [subs EXCEPT !["command"] = @ + 1] /\ Consumption
      BY <1>6, <2>3 DEF RpcRouterStarts
    <3>2. \A k \in Kinds : subs[k] \in Nat
      BY LifecycleAssumption DEF TypeOK
    <3>3. Kind \subseteq Kinds /\ subs \in [Kinds -> 0 .. MaxAttempts]
      BY LifecycleAssumption DEF TypeOK, Kind
    <3>4. \A k \in Kinds : subs'[k] >= subs[k]
      BY <3>1, <3>2, <3>3
    <3>5. \A k \in Kind : k \in Evented => subs[k] > 0
      BY <2>1, <2>3 DEF RoutedInv
    <3>6. \A k \in Kind : subs'[k] > 0
      BY <3>1, <3>2, <3>3, <3>5 DEF Evented
    <3>7. RoutedInv'
      BY <2>1, <2>3, <3>1, <3>4, <3>6, ConsumptionRouted
    <3> QED BY <2>1, <2>3, <3>7 DEF ClosedInv
  <2> QED BY <2>2, <2>3
<1>7. CASE OrderedReady
  <2>1. UNCHANGED <<draining, flow, ready, setup, closed, subs, manager>>
    BY <1>7 DEF OrderedReady
  <2>2. pc' # "rpcRouter" /\ (closed /\ ~retryTimer => ~retryTimer')
    BY <1>7, AfterType, EndsType, AfterQuiet, EndsQuiet DEF OrderedReady
  <2> QED BY <2>1, <2>2, RoutedKept DEF ClosedInv
<1>8. CASE CoreRpcStarts
  <2>1. UNCHANGED <<draining, flow, ready, setup, closed, subs, manager>>
    BY <1>8 DEF CoreRpcStarts
  <2>2. pc' # "rpcRouter" /\ (closed /\ ~retryTimer => ~retryTimer')
    BY <1>8, AfterType, AfterQuiet DEF CoreRpcStarts
  <2> QED BY <2>1, <2>2, RoutedKept DEF ClosedInv
<1>9. CASE ClientConnected
  BY <1>9, RoutedKept DEF ClientConnected, ClosedInv
<1>10. CASE BootFails
  <2>1. Aborts /\ UNCHANGED <<draining, flow, ready, setup, closed, subs, manager>>
    BY <1>10 DEF BootFails
  <2> QED BY <2>1, EndsType, EndsQuiet, RoutedKept DEF ClosedInv
<1>11. CASE ConnectionStep
  <2>1. UNCHANGED <<flow, ready, setup, closed, retryTimer, subs, manager, pc>>
    BY <1>11 DEF ConnectionStep
  <2>2. draining' # "no" => draining # "no"
    BY <1>11 DEF ConnectionStep, ShutdownAwaited, Establish, Reconnect, Drained, Disconnect
  <2> QED BY <2>1, <2>2, RoutedKept DEF ClosedInv
<1>12. CASE StreamsEnsured
  <2>1. pc = "streams" /\ UNCHANGED <<setup, closed, draining, manager>>
    BY <1>12 DEF StreamsEnsured
  <2>2. CASE Awaits("consumers") /\ UNCHANGED <<subs, providerVars>>
    <3>1. pc' = "consumers" /\ UNCHANGED retryTimer
      BY <2>2 DEF Awaits
    <3> QED BY <2>1, <2>2, <3>1, RoutedKept DEF ClosedInv
  <2>3. CASE RoutersStart
    BY <2>1, <2>3, RoutersStartRouted
  <2> QED BY <1>12, <2>2, <2>3 DEF StreamsEnsured
<1>13. CASE ConsumersEnsured
  BY <1>13, RoutersStartRouted DEF ConsumersEnsured
<1>14. CASE MetadataPublished
  <2>1. Succeeds /\ UNCHANGED <<draining, flow, ready, setup, closed, subs, manager>>
    BY <1>14 DEF MetadataPublished
  <2> QED BY <2>1, EndsType, EndsQuiet, RoutedKept DEF ClosedInv
<1>15. CASE FlowStep
  <2>1. PICK f \in Flows : FlowCalls(f)
    BY <1>15 DEF FlowStep
  <2>2. UNCHANGED <<draining, setup, pc, closed, retryTimer, subs, manager>>
    BY <1>15 DEF FlowStep
  <2>3. \A g \in Flows : flow'[g].alive = flow[g].alive
    BY <2>1, FlowType
  <2>4. ready' = "pending" => ready = "pending"
    BY <2>1, FlowType
  <2> QED BY <2>2, <2>3, <2>4 DEF ClosedInv, RoutedInv, Evented, Kind
<1>16. CASE ConnectFails
  <2>1. UNCHANGED <<flow, ready, setup, closed, subs, manager, draining>>
    BY <1>16 DEF ConnectFails, EstablishFails
  <2>2. (pc' = "idle" \/ pc' = pc) /\ (closed /\ ~retryTimer => ~retryTimer')
    BY <1>16 DEF ConnectFails
  <2> QED BY <2>1, <2>2, RoutedKept DEF ClosedInv
<1>17. CASE DrainEnds
  <2>1. manager # "no" /\ UNCHANGED <<draining, flow, ready, setup, closed, retryTimer, subs, pc>>
    BY <1>17 DEF DrainEnds
  <2>2. manager' # "no"
    BY <1>17 DEF DrainEnds
  <2> QED BY <2>1, <2>2, RoutedKept DEF ClosedInv
<1>18. CASE UNCHANGED vars
  BY <1>18, RoutedKept DEF vars, strategyVars, ClosedInv
<1> QED BY <1>1, <1>2, <1>3, <1>4, <1>5, <1>6, <1>7, <1>8, <1>9, <1>10, <1>11, <1>12, <1>13,
           <1>14, <1>15, <1>16, <1>17, <1>18 DEF Next, Call, Resume, Receive

\* A step that leaves alone what close() stops, or stops it, and does not take the chain
\* past its last look keeps what a closed strategy has left.
LEMMA LateKept ==
  ASSUME LateInv, UNCHANGED <<closed, late, coreSub, heartbeat>>,
         PastLastLook' => PastLastLook \/ ~closed
  PROVE  LateInv'
BY DEF LateInv

\* Only a close() that came after the last look leaves core RPC or the heartbeat behind.
LEMMA LateStep ==
  TypeInv /\ ClosedInv /\ LateInv /\ [Next]_vars => LateInv'
<1> SUFFICES ASSUME TypeInv, ClosedInv, LateInv, [Next]_vars PROVE LateInv'
  OBVIOUS
<1> TypeOK /\ ConnTypeOK /\ ProviderTypeOK
  BY DEF TypeInv, TypeOK
<1> USE DEF booting, lifeVars, connVars, providerVars
<1>1. CASE Listen
  <2>1. ~closed /\ UNCHANGED <<closed, late, coreSub, heartbeat>>
    BY <1>1 DEF Listen
  <2> QED BY <2>1, LateKept
<1>2. CASE Retry
  <2>1. ~closed /\ UNCHANGED <<closed, late, coreSub, heartbeat>>
    BY <1>2 DEF Retry, ClosedInv
  <2> QED BY <2>1, LateKept
<1>3. CASE AppCloses \/ Shutdown
  <2>1. CloseStrategy /\ UNCHANGED pc
    BY <1>3 DEF AppCloses, Shutdown
  <2>2. late' = PastLastLook /\ ~coreSub' /\ ~heartbeat' /\ (ready' = "ok" => ready = "ok")
    BY <2>1 DEF CloseStrategy, DestroyFlows
  <2> QED BY <2>1, <2>2 DEF LateInv, PastLastLook
<1>4. CASE ClientConnects \/ ClientConnected \/ ConnectionStep \/ DrainEnds
  <2>1. UNCHANGED <<closed, late, coreSub, heartbeat, pc, ready>>
    BY <1>4 DEF ClientConnects, ClientConnected, ConnectionStep, DrainEnds
  <2> QED BY <2>1, LateKept DEF PastLastLook
<1>5. CASE RpcRouterStarts
  <2>1. UNCHANGED <<closed, late, coreSub, heartbeat>>
    BY <1>5 DEF RpcRouterStarts
  <2>2. closed => pc' = "idle"
    BY <1>5 DEF RpcRouterStarts, Aborts
  <2> QED BY <2>1, <2>2, LateKept DEF PastLastLook
<1>6. CASE OrderedReady
  <2>1. UNCHANGED <<closed, late, coreSub, heartbeat>>
    BY <1>6 DEF OrderedReady
  <2>2. ready # "ok" => pc' = "idle"
    BY <1>6 DEF OrderedReady, Aborts
  <2>3. ready = "ok" => PastLastLook
    BY <1>6 DEF OrderedReady, PastLastLook
  <2> QED BY <2>1, <2>2, <2>3, LateKept DEF PastLastLook
<1>7. CASE CoreRpcStarts
  <2>1. PastLastLook /\ UNCHANGED <<closed, late>>
    BY <1>7 DEF CoreRpcStarts, PastLastLook
  <2> QED BY <2>1 DEF LateInv
<1>8. CASE MetadataPublished
  <2>1. PastLastLook /\ UNCHANGED <<closed, late>>
    BY <1>8 DEF MetadataPublished, PastLastLook
  <2> QED BY <2>1 DEF LateInv
<1>9. CASE BootFails
  <2>1. pc' = "idle" /\ UNCHANGED <<closed, late, coreSub, heartbeat>>
    BY <1>9 DEF BootFails, Aborts
  <2> QED BY <2>1, LateKept DEF PastLastLook
<1>10. CASE StreamsEnsured \/ ConsumersEnsured
  <2>1. UNCHANGED <<closed, late, coreSub, heartbeat>>
    BY <1>10 DEF StreamsEnsured, ConsumersEnsured
  <2>2. closed => pc' \in {"consumers", "idle"}
    BY <1>10 DEF StreamsEnsured, ConsumersEnsured, RoutersStart, Awaits, Aborts
  <2> QED BY <2>1, <2>2, LateKept DEF PastLastLook
<1>11. CASE FlowStep
  <2>1. UNCHANGED <<closed, late, coreSub, heartbeat, pc>>
    BY <1>11 DEF FlowStep
  <2>2. closed => ready' = ready
    BY <1>11, FlowType DEF FlowStep, ClosedInv
  <2> QED BY <2>1, <2>2, LateKept DEF PastLastLook
<1>12. CASE ConnectFails
  <2>1. (pc' = "idle" \/ pc' = pc) /\ UNCHANGED <<closed, late, coreSub, heartbeat, ready>>
    BY <1>12 DEF ConnectFails
  <2> QED BY <2>1, LateKept DEF PastLastLook
<1>13. CASE UNCHANGED vars
  BY <1>13, LateKept DEF vars, strategyVars, PastLastLook
<1> QED BY <1>1, <1>2, <1>3, <1>4, <1>5, <1>6, <1>7, <1>8, <1>9, <1>10, <1>11, <1>12, <1>13
           DEF Next, Call, Resume, Receive

--------------------------------------------------------------------------------
(***************************************************************************)
(* The connection.                                                         *)
(***************************************************************************)
\* A connection is usable exactly while it is cached.
LEMMA UsableCached ==
  ASSUME ConnTypeOK, ConnInv
  PROVE  Usable <=> connection # None
BY ConnAssumption DEF ConnTypeOK, ConnInv, Usable, Open, Conns, None

\* A caller that asks for the connection starts at most one, and none once the shutdown
\* is done; the manager is cached only while there is a connection.
LEMMA RequestConn ==
  ASSUME ConnTypeOK, ConnInv,
         Request \/ UNCHANGED <<promise, connecting>>,
         UNCHANGED <<nats, connection, jsClient, draining>>,
         jsm' = jsm \/ connection # None,
         connection # None \/ draining # "done"
  PROVE  ConnInv'
<1>1. CASE UNCHANGED <<promise, connecting>>
  BY <1>1 DEF ConnInv
<1>2. CASE Request /\ ~UNCHANGED <<promise, connecting>>
  <2>1. ~Usable /\ promise = None /\ promise' = Pending /\ connecting' = connecting + 1
    BY <1>2 DEF Request
  <2>2. connection = None
    BY <2>1, UsableCached
  <2>3. connecting = 0
    BY <2>1 DEF ConnInv, None, Pending
  <2> QED BY <2>1, <2>2, <2>3 DEF ConnInv
<1> QED BY <1>1, <1>2

\* Where the boot chain goes on, it asks for the connection or leaves it alone; before it
\* waits for the ordered consumer there is a new promise.
LEMMA ChainRequests ==
  ASSUME TypeOK,
         \/ \E p \in {"consumers", "rpcRouter", "core", "meta"} : Awaits(p)
         \/ Succeeds \/ Aborts \/ AfterCore \/ AfterConsumption \/ Consumption
  PROVE  /\ Request \/ UNCHANGED <<promise, connecting>>
         /\ pc' = "ordered" => Consumption /\ ready' = "pending"
<1>1. ASSUME Succeeds \/ Aborts
      PROVE  UNCHANGED <<promise, connecting>> /\ pc' # "ordered"
  BY <1>1 DEF Succeeds, Aborts
<1>2. ASSUME NEW p \in {"consumers", "rpcRouter", "core", "meta"}, Awaits(p)
      PROVE  (Request \/ UNCHANGED <<promise, connecting>>) /\ pc' # "ordered"
  BY <1>2 DEF Awaits
<1>3. ASSUME AfterCore \/ AfterConsumption
      PROVE  (Request \/ UNCHANGED <<promise, connecting>>) /\ pc' # "ordered"
  BY <1>1, <1>2, <1>3 DEF AfterCore, AfterConsumption
<1>4. ASSUME Consumption
      PROVE  /\ Request \/ UNCHANGED <<promise, connecting>>
             /\ pc' = "ordered" => ready' = "pending"
  BY <1>3, <1>4 DEF Consumption, StartFlows, Awaits
<1> QED BY <1>1, <1>2, <1>3, <1>4

\* Provisioning is done while there is a connection.
LEMMA RoutersStartConn ==
  ASSUME TypeOK, ConnInv, Up, RoutersStart, pc \in {"streams", "consumers"},
         UNCHANGED <<nats, connection, jsClient, draining>>
  PROVE  ConnInv' /\ ReadyInv'
<1>1. connection # None
  BY DEF Up
<1>2. Request \/ UNCHANGED <<promise, connecting>>
  BY ChainRequests DEF RoutersStart
<1>3. ConnTypeOK
  BY DEF TypeOK
<1>4. ConnInv'
  BY <1>1, <1>2, <1>3, RequestConn
<1> QED BY <1>1, <1>4 DEF ReadyInv

\* The connection is closed, lost or established by itself.
LEMMA ConnectionConn ==
  ASSUME ConnTypeOK, ConnInv,
         \/ ShutdownAwaited \/ Establish \/ EstablishFails \/ Reconnect \/ Drained
         \/ Disconnect
  PROVE  ConnInv'
<1> USE ConnAssumption DEF ConnTypeOK
<1>1. CASE ShutdownAwaited
  <2>1. promise # Pending /\ connecting = 0
    BY <1>1 DEF ShutdownAwaited, ConnInv
  <2> QED BY <1>1, <2>1, UsableCached DEF ShutdownAwaited, ConnInv
<1>2. CASE Establish
  <2>1. connecting = 1 /\ connection = None /\ connecting' = 0
    BY <1>2 DEF Establish, ConnInv
  <2>2. PICK c \in Conns : /\ nats' = [nats EXCEPT ![c] = "up"]
                           /\ connection' = c /\ promise' = c
    BY <1>2 DEF Establish
  <2>3. \A d \in Conns : nats[d] \notin {"up", "down"}
    BY <2>1 DEF ConnInv, Conns, None
  <2>4. \A d \in Conns : nats'[d] \in {"up", "down"} <=> d = connection'
    BY <2>2, <2>3
  <2>5. connection' # None /\ UNCHANGED <<jsm, jsClient, draining>>
    BY <1>2, <2>2 DEF Establish, Conns, None
  <2> QED BY <2>1, <2>2, <2>4, <2>5 DEF ConnInv
<1>3. CASE EstablishFails
  BY <1>3 DEF EstablishFails, ConnInv
<1>4. CASE Reconnect
  BY <1>4, UsableCached DEF Reconnect, ConnInv
<1>5. CASE Drained
  <2>1. connection # None /\ connecting = 0
    BY <1>5 DEF Drained, ConnInv
  <2>2. \A d \in Conns : nats'[d] \notin {"up", "down"}
    BY <1>5, <2>1 DEF Drained, ConnInv
  <2> QED BY <1>5, <2>1, <2>2 DEF Drained, ConnInv, Conns, None
<1>6. CASE Disconnect
  BY <1>6 DEF Disconnect, Up, ConnInv
<1> QED BY <1>1, <1>2, <1>3, <1>4, <1>5, <1>6

\* Every step keeps one connection for all, and lets none escape the shutdown.
LEMMA ConnStep ==
  TypeInv /\ TypeInv' /\ ClosedInv /\ ConnInv /\ ReadyInv /\ [Next]_vars
    => ConnInv' /\ ReadyInv'
<1> SUFFICES ASSUME TypeInv, TypeInv', ClosedInv, ConnInv, ReadyInv, [Next]_vars
             PROVE  ConnInv' /\ ReadyInv'
  OBVIOUS
<1> TypeOK /\ TypeOK' /\ ConnTypeOK /\ ProviderTypeOK
  BY DEF TypeInv, TypeOK
<1> USE DEF booting, lifeVars, connVars, providerVars
<1>a. ~closed => draining = "no"
  BY DEF ClosedInv
<1>b. ASSUME UNCHANGED connVars
      PROVE  ConnInv'
  BY <1>b DEF ConnInv
<1>1. CASE Listen
  <2>1. Begin /\ ~closed /\ UNCHANGED <<nats, connection, jsm, jsClient, draining>>
    BY <1>1 DEF Listen
  <2>2. (Request \/ UNCHANGED <<promise, connecting>>) /\ pc' # "ordered"
    BY <2>1, BeginType DEF Begin
  <2> QED BY <1>a, <2>1, <2>2, RequestConn DEF ReadyInv
<1>2. CASE Retry
  <2>1. Begin /\ ~closed /\ UNCHANGED <<nats, connection, jsm, jsClient, draining>>
    BY <1>2 DEF Retry, ClosedInv
  <2>2. (Request \/ UNCHANGED <<promise, connecting>>) /\ pc' # "ordered"
    BY <2>1, BeginType DEF Begin
  <2> QED BY <1>a, <2>1, <2>2, RequestConn DEF ReadyInv
<1>3. CASE AppCloses
  <2>1. UNCHANGED connVars /\ UNCHANGED pc
    BY <1>3 DEF AppCloses
  <2>2. ready' = "ok" => ready = "ok"
    BY <1>3 DEF AppCloses, CloseStrategy, DestroyFlows
  <2> QED BY <1>b, <2>1, <2>2 DEF ReadyInv
<1>4. CASE Shutdown
  <2>1. UNCHANGED <<nats, connection, promise, connecting, jsm, jsClient, pc>>
    BY <1>4 DEF Shutdown
  <2>2. draining' = IF promise = None /\ ~Usable THEN "done" ELSE "awaiting"
    BY <1>4 DEF Shutdown, ShutdownStarts
  <2>3. promise = None => connecting = 0
    BY DEF ConnInv, None, Pending
  <2>4. ready' = "ok" => ready = "ok"
    BY <1>4 DEF Shutdown, CloseStrategy, DestroyFlows
  <2> QED BY <2>1, <2>2, <2>3, <2>4, UsableCached DEF ConnInv, ReadyInv
<1>5. CASE ClientConnects
  <2>1. draining = "no"
    BY <1>5 DEF ClientConnects, ClosedInv
  <2> QED BY <1>5, <2>1, RequestConn DEF ClientConnects, ReadyInv
<1>6. CASE RpcRouterStarts
  <2>1. UNCHANGED <<nats, connection, jsm, jsClient, draining>>
    BY <1>6 DEF RpcRouterStarts
  <2>2. CASE closed
    <3>1. Aborts
      BY <1>6, <2>2 DEF RpcRouterStarts
    <3>2. UNCHANGED <<promise, connecting>> /\ pc' = "idle"
      BY <3>1 DEF Aborts
    <3> QED BY <1>b, <2>1, <3>2 DEF ReadyInv
  <2>3. CASE ~closed
    <3>1. Consumption
      BY <1>6, <2>3 DEF RpcRouterStarts
    <3> QED BY <1>a, <2>1, <2>3, <3>1, ChainRequests, RequestConn DEF ReadyInv
  <2> QED BY <2>2, <2>3
<1>7. CASE OrderedReady
  <2>1. pc = "ordered" /\ UNCHANGED <<nats, connection, jsm, jsClient, draining>>
    BY <1>7 DEF OrderedReady
  <2>2. CASE ready = "ok" /\ AfterConsumption
    <3>1. connection # None
      BY <2>1, <2>2 DEF ReadyInv
    <3> QED BY <2>1, <2>2, <3>1, ChainRequests, RequestConn DEF ReadyInv
  <2>3. CASE Aborts
    <3>1. UNCHANGED <<promise, connecting>> /\ pc' = "idle"
      BY <2>3 DEF Aborts
    <3> QED BY <1>b, <2>1, <3>1 DEF ReadyInv
  <2> QED BY <1>7, <2>2, <2>3 DEF OrderedReady
<1>8. CASE CoreRpcStarts
  <2>1. Usable /\ AfterCore /\ UNCHANGED <<nats, connection, jsm, jsClient, draining>>
    BY <1>8 DEF CoreRpcStarts
  <2> QED BY <2>1, UsableCached, ChainRequests, RequestConn DEF ReadyInv
<1>9. CASE ClientConnected
  BY <1>9, <1>b DEF ClientConnected, ReadyInv
<1>10. CASE BootFails
  <2>1. Aborts /\ UNCHANGED <<nats, connection, jsm, jsClient, draining>>
    BY <1>10 DEF BootFails
  <2>2. UNCHANGED <<promise, connecting>> /\ pc' = "idle"
    BY <2>1 DEF Aborts
  <2> QED BY <1>b, <2>1, <2>2 DEF ReadyInv
<1>11. CASE ConnectionStep
  <2>1. ConnInv' /\ UNCHANGED <<pc, ready>>
    BY <1>11, ConnectionConn DEF ConnectionStep
  <2>2. ASSUME pc = "ordered", ready = "ok"
        PROVE  connection' # None
    <3>1. Resumable
      BY <2>2 DEF Resumable
    <3>2. ~Drained
      BY <1>11, <3>1 DEF ConnectionStep, NextTurn, ShutdownAwaited, Drained
    <3>3. connection' = connection \/ connection' \in Conns
      BY <1>11, <3>2
         DEF ConnectionStep, ShutdownAwaited, Establish, Reconnect, Disconnect
    <3> QED BY <2>2, <3>3 DEF ReadyInv, Conns, None
  <2> QED BY <2>1, <2>2 DEF ReadyInv
<1>12. CASE StreamsEnsured
  <2>1. /\ pc = "streams" /\ Up
        /\ UNCHANGED <<nats, connection, jsClient, draining>>
    BY <1>12 DEF StreamsEnsured
  <2>2. CASE Awaits("consumers")
    <3>1. UNCHANGED <<promise, connecting>> /\ pc' = "consumers"
      BY <2>2 DEF Awaits
    <3> QED BY <2>1, <3>1, RequestConn DEF Up, ReadyInv
  <2>3. CASE RoutersStart
    BY <2>1, <2>3, RoutersStartConn
  <2> QED BY <1>12, <2>2, <2>3 DEF StreamsEnsured
<1>13. CASE ConsumersEnsured
  BY <1>13, RoutersStartConn DEF ConsumersEnsured
<1>14. CASE MetadataPublished
  <2>1. Succeeds /\ UNCHANGED <<nats, connection, jsm, jsClient, draining>>
    BY <1>14 DEF MetadataPublished
  <2>2. UNCHANGED <<promise, connecting>> /\ pc' = "idle"
    BY <2>1 DEF Succeeds
  <2> QED BY <1>b, <2>1, <2>2 DEF ReadyInv
<1>15. CASE FlowStep
  <2>1. PICK f \in Flows : FlowCalls(f)
    BY <1>15 DEF FlowStep
  <2>2. UNCHANGED <<nats, connection, promise, connecting, jsm, draining, pc>>
    BY <1>15 DEF FlowStep
  <2>3. jsClient' = (jsClient \/ Usable)
    BY <1>15 DEF FlowStep, CacheClient
  <2>4. connection = None => ~jsClient'
    BY <2>3, UsableCached DEF ConnInv
  <2>5. ready' = "ok" => ready = "ok" \/ connection # None
    BY <2>1, FlowType DEF Up
  <2> QED BY <2>2, <2>4, <2>5 DEF ConnInv, ReadyInv
<1>16. CASE ConnectFails
  <2>1. EstablishFails /\ UNCHANGED ready /\ (pc' = "ordered" => pc = "ordered")
    BY <1>16 DEF ConnectFails
  <2> QED BY <2>1, ConnectionConn DEF EstablishFails, ReadyInv
<1>17. CASE DrainEnds
  BY <1>17, <1>b DEF DrainEnds, ReadyInv
<1>18. CASE UNCHANGED vars
  BY <1>18, <1>b DEF vars, strategyVars, ReadyInv
<1> QED BY <1>1, <1>2, <1>3, <1>4, <1>5, <1>6, <1>7, <1>8, <1>9, <1>10, <1>11, <1>12, <1>13,
           <1>14, <1>15, <1>16, <1>17, <1>18 DEF Next, Call, Resume, Receive

--------------------------------------------------------------------------------
\* Every reachable state satisfies the invariant.
THEOREM LifecycleInvariant == Spec => []IInv
<1>1. IInv /\ [Next]_vars => IInv'
  BY TypeStep, ClosedStep, LateStep, ConnStep DEF IInv
<1> QED BY InitInv, <1>1, PTL DEF Spec

\* Types: no field of a strategy, its connection or its flows leaves its range, in
\* particular a boot chain never subscribes a kind more often than it ran.
THEOREM TypeCorrect == Spec => []TypeOK
<1>1. IInv => TypeOK
  BY DEF IInv, TypeInv
<1> QED BY <1>1, LifecycleInvariant, PTL

\* Routers subscribe before consumption starts, whatever close(), failures and retries
\* came between: no open iterator of a running strategy lacks its router.
THEOREM BacklogIsRouted == Spec => []NoDroppedBacklog
<1>1. IInv => NoDroppedBacklog
  BY DEF IInv, RoutedInv, NoDroppedBacklog, Iterators
<1> QED BY <1>1, LifecycleInvariant, PTL

\* close() leaves no retry, no router and no flow that goes on, wherever it interrupted the
\* boot chain; and no core RPC subscription and no heartbeat, unless it came after the
\* chain had looked at closed for the last time.
THEOREM CloseIsFinal == Spec => []ClosedIsQuiet
<1>1. IInv => ClosedIsQuiet
  BY DEF IInv, ClosedInv, LateInv, ClosedIsQuiet
<1> QED BY <1>1, LifecycleInvariant, PTL

\* However many callers, retries, failures and disconnects there are, one connection is
\* open at most, and none is open, under way or cached when the shutdown is done.
THEOREM OneConnection == Spec => []NoEscapedConnection
<1>1. IInv => NoEscapedConnection
  <2> SUFFICES ASSUME IInv PROVE NoEscapedConnection
    OBVIOUS
  <2>1. Open \subseteq {connection}
    BY DEF IInv, ConnInv, Open
  <2>2. Cardinality({connection}) = 1 /\ IsFiniteSet({connection})
    BY FS_Singleton
  <2>3. Cardinality(Open) <= 1
    BY <2>1, <2>2, FS_Subset
  <2>4. draining = "done" => Open = {} /\ connecting = 0 /\ ~jsm /\ ~jsClient
    BY DEF IInv, ConnInv, Open, Conns, None
  <2> QED BY <2>3, <2>4 DEF NoEscapedConnection
<1> QED BY <1>1, LifecycleInvariant, PTL

================================================================================
