----------------------------- MODULE EventDelivery -----------------------------
(***************************************************************************)
(* One durable workqueue or broadcast consumer and the pod that serves it: *)
(* the broker's delivery and redelivery of messages, the event pipeline    *)
(* behind the concurrency gate, settlement, ack extension, dead-letter     *)
(* capture, shutdown, crash and restart.                                   *)
(*                                                                         *)
(* A job of the gate is a delivery <<m, k>>: the k-th delivery of message  *)
(* m.  The gate's actions are conjoined with the pipeline's: what route()  *)
(* does with a delivery is RouteAsync or RouteSync below.                  *)
(*                                                                         *)
(* The broker (NATS JetStream) is external and modelled from how the code  *)
(* relies on it: a delivered message is pending until it is acked, termed, *)
(* naked or its ack_wait expires; it is redelivered until its delivery     *)
(* count reaches max_deliver, after which it stays in the stream and       *)
(* nobody receives it again ("stranded").                                  *)
(***************************************************************************)
EXTENDS ConcurrencyGate

CONSTANTS
  Msgs,             \* the messages of the stream
  Strays,           \* those without a handler or with an undecodable payload
  MaxCount,         \* bound: deliveries of one message that are explored
  MaxDelivers,      \* values of the consumer's max_deliver; 0 is unlimited
  PublishAttempts,  \* DLQ_PUBLISH_ATTEMPTS
  MaxStarts,        \* bound: incarnations of the pod
  Setups            \* module options to explore

ASSUME DeliveryAssumption ==
  /\ MaxCount \in Nat \ {0}
  /\ Jobs = Msgs \X (1 .. MaxCount)
  /\ Strays \subseteq Msgs
  /\ MaxDelivers \subseteq Nat
  /\ PublishAttempts \in Nat \ {0}
  /\ MaxStarts \in Nat \ {0}
  /\ Setups \subseteq [dlq : BOOLEAN, callback : BOOLEAN, ext : BOOLEAN, slow : BOOLEAN,
                flaky : BOOLEAN, strays : BOOLEAN]

VARIABLES
  bstate,     \* broker: where each message is
  count,      \* broker: deliveries of each message so far
  brokerMax,  \* broker: the consumer's max_deliver
  wire,       \* deliveries the broker sent and the pod has not pushed yet
  setup,      \* options: dlq, onDeadLetter callback, ackExtension, with an interval
              \* that is not below ack_wait (slow); and whether the connection may
              \* degrade and lose settlements (flaky)
  pod,        \* "running", "closing" (close() has run) or "down"
  starts,     \* incarnations so far
  podMax,     \* maxDeliverByStream as read when this incarnation started
  stage,      \* how far the pipeline is with each delivery
  tries,      \* failed DLQ publishes of the current capture
  extending,  \* deliveries with a live ack-extension entry of the pipeline
  handed,     \* those of extending that came out of the backlog and whose new
              \* entry has not called working() yet
  evidence,   \* history: what became of each message
  cause,      \* history: what stranded each message
  lapsed      \* history: messages that ack extension let go of: a budget ran out,
              \* or ack_wait did before the first working() of a new entry

brokerVars == <<bstate, count, brokerMax>>
podVars    == <<setup, pod, starts, podMax>>
pipeVars   == <<stage, tries, extending, handed>>
history    == <<evidence, cause, lapsed>>
vars       == <<gateVars, brokerVars, wire, podVars, pipeVars, history>>

BrokerStates == {"ready", "pending", "stranded", "removed"}
Stages   == {"idle", "handling", "publishing", "notifying", "fallback", "settled"}
Evidence == {"handled", "discarded", "dlq", "told", "refused"}
Causes   == {"none", "settlement", "threshold", "late", "uncaptured",
             "handback", "expiry", "reconfigured"}

DeliveryTypeOK ==
  /\ bstate \in [Msgs -> BrokerStates]
  /\ count \in [Msgs -> 0 .. MaxCount]
  /\ brokerMax \in MaxDelivers
  /\ wire \subseteq Jobs
  /\ setup \in Setups
  /\ pod \in {"running", "closing", "down"}
  /\ starts \in 1 .. MaxStarts
  /\ podMax \in MaxDelivers
  /\ stage \in [Jobs -> Stages]
  /\ tries \in [Jobs -> 0 .. PublishAttempts]
  /\ extending \subseteq Jobs
  /\ handed \subseteq Jobs
  /\ evidence \in [Msgs -> SUBSET Evidence]
  /\ cause \in [Msgs -> Causes]
  /\ lapsed \subseteq Msgs

TypeOK == GateTypeOK /\ DeliveryTypeOK

\* createEventResolver() finds no handler, or cannot decode the payload: when the
\* setup has strays.
Unroutable == IF setup.strays THEN Strays ELSE {}

\* A capture exists when options.dlq or onDeadLetter is given.
CaptureOn == setup.dlq \/ setup.callback

\* Mutant: off by one.
IsFinalDeliveryLate(d) == podMax > 0 /\ d[2] > podMax

\* DeadLetterCapture.isFinalDelivery(): a missing or non-positive threshold means
\* the delivery is never the final one.
IsFinalDelivery(d) == podMax > 0 /\ d[2] >= podMax

\* capture() begins with a DLQ publish when options.dlq is set and goes straight
\* to the callback otherwise.
CaptureStage == IF setup.dlq THEN "publishing" ELSE "fallback"

Init ==
  /\ GateInit
  /\ bstate = [m \in Msgs |-> "ready"]
  /\ count = [m \in Msgs |-> 0]
  /\ brokerMax \in MaxDelivers
  /\ wire = {}
  /\ setup \in Setups
  /\ pod = "running"
  /\ starts = 1
  /\ podMax = brokerMax
  /\ stage = [d \in Jobs |-> "idle"]
  /\ tries = [d \in Jobs |-> 0]
  /\ extending = {}
  /\ handed = {}
  /\ evidence = [m \in Msgs |-> {}]
  /\ cause = [m \in Msgs |-> "none"]
  /\ lapsed = {}

--------------------------------------------------------------------------------
(***************************************************************************)
(* The broker.                                                             *)
(***************************************************************************)
CanRedeliver(m) == brokerMax = 0 \/ count[m] < brokerMax

\* Where a pending message goes when its delivery failed.
Requeued(m) == IF CanRedeliver(m) THEN "ready" ELSE "stranded"

\* A settlement that is sent is applied to the message, whichever delivery it
\* answers; one that settleQuietly() swallowed or the network lost changes nothing.
Lost == setup.flaky /\ UNCHANGED <<bstate, cause>>

\* ack() and term() remove the message.  Whether that still works on a message
\* past max_deliver is the broker's business.
Discharge(m) ==
  /\ bstate' \in {[bstate EXCEPT ![m] = s] :
                    s \in IF bstate[m] = "stranded" THEN {"removed", "stranded"} ELSE {"removed"}}
  /\ UNCHANGED cause

\* nak() puts a pending message back, or strands it.
Return(d, why) ==
  LET m == d[1]
      stranding == bstate[m] = "pending" /\ ~CanRedeliver(m)
  IN  /\ bstate' = IF bstate[m] = "pending" THEN [bstate EXCEPT ![m] = Requeued(m)] ELSE bstate
      /\ cause' = IF stranding THEN [cause EXCEPT ![m] = why] ELSE cause

Nak(d, why) == Return(d, why) \/ Lost
AckOrTerm(m) == Discharge(m) \/ Lost

\* Why a nak sent by settleSuccess() or settleFailure() strands the message: the
\* message was delivered again meanwhile, the pod's threshold is out of date, or
\* (never, with capture on) the pipeline naked the final delivery.
SettlementCause(d) ==
  IF d[2] < count[d[1]] THEN "late"
  ELSE IF podMax # brokerMax THEN "threshold"
  ELSE "settlement"

Deliver(m) ==
  /\ pod # "down"
  /\ bstate[m] = "ready"
  /\ count[m] < MaxCount
  /\ bstate' = [bstate EXCEPT ![m] = "pending"]
  /\ count' = [count EXCEPT ![m] = @ + 1]
  /\ wire' = wire \cup {<<m, count[m] + 1>>}
  /\ UNCHANGED <<gateVars, brokerMax, podVars, pipeVars, history>>

\* The pod keeps m's ack_wait from running out: msg.working() is being called for
\* a delivery of m in time, or one has just reached a pod that pushes it at once.
\* An interval that is not below ack_wait (a configured number, or the 500 ms
\* floor of resolveAckExtensionInterval()) is never in time.  The entry of a
\* delivery that leaves the backlog waits a whole interval again, counted from
\* then and not from the last working() of the parked one: until it has called
\* working() itself, ack_wait may run out.
Covered(m) ==
  \/ ~setup.slow /\ \E d \in (extending \cup timers) \ handed : d[1] = m
  \/ pod = "running" /\ \E d \in wire : d[1] = m

AckWaitExpires(m) ==
  /\ bstate[m] = "pending"
  /\ Covered(m) => setup.flaky
  /\ bstate' = [bstate EXCEPT ![m] = Requeued(m)]
  /\ cause' = IF CanRedeliver(m) THEN cause ELSE [cause EXCEPT ![m] = "expiry"]
  /\ lapsed' = IF \E d \in handed : d[1] = m THEN lapsed \cup {m} ELSE lapsed
  /\ UNCHANGED <<gateVars, count, brokerMax, wire, podVars, pipeVars, evidence>>

\* Another pod, rolled out with other options, updates the durable consumer.  A
\* message waiting for redelivery past the new limit is not delivered again.
UpdateConsumer(n) ==
  LET cut == {m \in Msgs : bstate[m] = "ready" /\ n > 0 /\ count[m] >= n}
  IN  /\ n # brokerMax
      /\ brokerMax' = n
      /\ bstate' = [m \in Msgs |-> IF m \in cut THEN "stranded" ELSE bstate[m]]
      /\ cause' = [m \in Msgs |-> IF m \in cut THEN "reconfigured" ELSE cause[m]]
      /\ UNCHANGED <<gateVars, count, wire, podVars, pipeVars, evidence, lapsed>>

--------------------------------------------------------------------------------
(***************************************************************************)
(* route(): what the workqueue pipeline does with a delivery before it     *)
(* returns to the gate.                                                    *)
(***************************************************************************)
Record(m, what) == evidence' = [evidence EXCEPT ![m] = @ \cup {what}]

\* Mutant: no ack extension is started.
EnterPipelineUnextended(d, s) ==
  /\ stage' = [stage EXCEPT ![d] = s]
  /\ tries' = [tries EXCEPT ![d] = 0]
  /\ UNCHANGED <<extending, handed>>

\* The stage of a delivery whose route() returned a Promise.  The pipeline starts
\* an ack extension for every routable message, none for an unroutable one.
EnterPipeline(d, s) ==
  LET started == IF setup.ext /\ d[1] \notin Unroutable THEN {d} ELSE {}
  IN  /\ stage' = [stage EXCEPT ![d] = s]
      /\ tries' = [tries EXCEPT ![d] = 0]
      /\ extending' = extending \cup started
      /\ handed' = handed \cup (started \cap Parked)

\* The handler threw, or asked for retry(), on a delivery that is not the final one.
MayNak(d) == ~(CaptureOn /\ IsFinalDelivery(d))

RouteAsync(d) ==
  \/ /\ d[1] \in Unroutable
     /\ CaptureOn
     /\ EnterPipeline(d, CaptureStage)
     /\ UNCHANGED <<bstate, evidence, cause>>
  \/ /\ d[1] \notin Unroutable
     /\ \/ EnterPipeline(d, "handling")                 \* the handler is asynchronous
        \/ ~MayNak(d) /\ EnterPipeline(d, CaptureStage) \* it threw or asked for a retry
     /\ UNCHANGED <<bstate, evidence, cause>>
  \/ /\ d[1] \notin Unroutable                          \* it threw, and settleFailure() naks
     /\ MayNak(d)
     /\ EnterPipeline(d, "settled")
     /\ Nak(d, SettlementCause(d))
     /\ UNCHANGED evidence

\* The route ends in the call.  resolveEvent()'s own catch, which terms the message
\* without a capture, is left out: only an error of the library's lookups reaches it.
RouteSync(d) ==
  /\ UNCHANGED pipeVars
  /\ \/ /\ d[1] \in Unroutable
        /\ ~CaptureOn
        /\ Record(d[1], "refused")
        /\ AckOrTerm(d[1])
     \/ /\ d[1] \notin Unroutable                       \* returned, or called terminate()
        /\ \E what \in {"handled", "discarded"} : Record(d[1], what)
        /\ AckOrTerm(d[1])
     \/ /\ d[1] \notin Unroutable                       \* called retry()
        /\ MayNak(d)
        /\ Nak(d, SettlementCause(d))
        /\ UNCHANGED evidence

\* The messages subject hands a delivery to gate.push().
Push(d) ==
  /\ pod = "running"
  /\ d \in wire
  /\ wire' = wire \ {d}
  /\ \/ PushParks(d, setup.ext) /\ UNCHANGED <<bstate, pipeVars, evidence, cause>>
     \/ PushRoutesAsync(d) /\ RouteAsync(d)
     \/ PushRoutesSync(d) /\ RouteSync(d)
  /\ UNCHANGED <<count, brokerMax, podVars, lapsed>>

Drain ==
  /\ \/ DrainsAsync /\ RouteAsync(Head(backlog))
     \/ DrainsSync /\ RouteSync(Head(backlog))
     \/ DrainEnds /\ UNCHANGED <<bstate, pipeVars, evidence, cause>>
  /\ UNCHANGED <<count, brokerMax, wire, podVars, lapsed>>

--------------------------------------------------------------------------------
(***************************************************************************)
(* The asynchronous half of the pipeline.                                  *)
(***************************************************************************)
\* Delivery d is at stage s, between two turns of the event loop, and goes to t.
Advance(d, s, t) ==
  /\ ~draining
  /\ stage[d] = s
  /\ stage' = [stage EXCEPT ![d] = t]
  /\ UNCHANGED <<gateVars, count, brokerMax, wire, podVars, extending, handed, lapsed>>

\* The handler's Promise resolved; settleSuccess() acks, or terms after terminate().
HandlerReturns(d) ==
  /\ Advance(d, "handling", "settled")
  /\ \E what \in {"handled", "discarded"} : Record(d[1], what)
  /\ AckOrTerm(d[1])
  /\ UNCHANGED tries

\* The handler's Promise rejected, or it called retry(): nak, unless this delivery
\* is the final one, which is captured.
HandlerFails(d) ==
  \/ /\ MayNak(d)
     /\ Advance(d, "handling", "settled")
     /\ Nak(d, SettlementCause(d))
     /\ UNCHANGED <<tries, evidence>>
  \/ /\ ~MayNak(d)
     /\ Advance(d, "handling", CaptureStage)
     /\ UNCHANGED <<bstate, tries, evidence, cause>>

\* The DLQ stream acknowledged the publish.
DlqPublishSucceeds(d) ==
  /\ Advance(d, "publishing", "notifying")
  /\ Record(d[1], "dlq")
  /\ UNCHANGED <<bstate, tries, cause>>

\* Mutant: one attempt too many.
DlqPublishFailsOnceMore(d) ==
  /\ tries' = [tries EXCEPT ![d] = @ + 1]
  /\ Advance(d, "publishing", IF tries[d] = PublishAttempts THEN "fallback" ELSE "publishing")
  /\ Record(d[1], "dlq") \/ UNCHANGED evidence
  /\ UNCHANGED <<bstate, cause>>

\* A publish attempt failed (though the DLQ stream may have stored it); after the
\* last one publishToDlq() falls back to the callback.
DlqPublishFails(d) ==
  /\ tries[d] < PublishAttempts
  /\ tries' = [tries EXCEPT ![d] = @ + 1]
  /\ Advance(d, "publishing", IF tries[d] + 1 = PublishAttempts THEN "fallback" ELSE "publishing")
  /\ Record(d[1], "dlq") \/ UNCHANGED evidence
  /\ UNCHANGED <<bstate, cause>>

\* notifyDeadLetterCallback(): whatever the callback does, the message is termed.
NotifyDeadLetterCallback(d) ==
  /\ Advance(d, "notifying", "settled")
  /\ (setup.callback /\ Record(d[1], "told")) \/ UNCHANGED evidence
  /\ AckOrTerm(d[1])
  /\ UNCHANGED tries

\* Mutant: the message is termed although nobody accepted it.
FallbackAlwaysTerms(d) ==
  /\ Advance(d, "fallback", "settled")
  /\ (setup.callback /\ Record(d[1], "told")) \/ UNCHANGED evidence
  /\ AckOrTerm(d[1])
  /\ UNCHANGED tries

\* fallbackToOnDeadLetterCallback(): term when the callback succeeded, nak when it
\* threw or there is none.
FallbackToOnDeadLetterCallback(d) ==
  /\ Advance(d, "fallback", "settled")
  /\ \/ /\ setup.callback
        /\ Record(d[1], "told")
        /\ AckOrTerm(d[1])
     \/ /\ Nak(d, IF d[2] < count[d[1]] THEN "late" ELSE "uncaptured")
        /\ UNCHANGED evidence
  /\ UNCHANGED tries

\* Mutant: the ack extension is never stopped.
FinishKeepsExtension(d) ==
  /\ stage[d] = "settled"
  /\ RouteDone(d)
  /\ stage' = [stage EXCEPT ![d] = "idle"]
  /\ UNCHANGED <<brokerVars, wire, podVars, tries, extending, handed, history>>

\* The pipeline's Promise settled: its ack extension stops and the slot is freed.
Finish(d) ==
  /\ stage[d] = "settled"
  /\ RouteDone(d)
  /\ stage' = [stage EXCEPT ![d] = "idle"]
  /\ extending' = extending \ {d}
  /\ handed' = handed \ {d}
  /\ UNCHANGED <<brokerVars, wire, podVars, tries, history>>

\* AckExtensionPool.tick() calls working() on the new entry of a delivery that came
\* out of the backlog.
FirstWorking(d) ==
  /\ ~draining
  /\ d \in handed
  /\ handed' = handed \ {d}
  /\ UNCHANGED <<gateVars, brokerVars, wire, podVars, stage, tries, extending, history>>

\* AckExtensionPool.tick() drops an entry that reached DEFAULT_MAX_ACK_EXTENSION_MS.
BudgetElapses(d) ==
  /\ \/ /\ ParkTimerLapses(d)
        /\ UNCHANGED <<extending, handed>>
     \/ /\ d \in extending
        /\ ~draining
        /\ extending' = extending \ {d}
        /\ handed' = handed \ {d}
        /\ UNCHANGED gateVars
  /\ lapsed' = lapsed \cup {d[1]}
  /\ UNCHANGED <<brokerVars, wire, podVars, stage, tries, evidence, cause>>

--------------------------------------------------------------------------------
(***************************************************************************)
(* The life of the pod.                                                    *)
(***************************************************************************)
\* close() destroys the router, which disposes of the gate: every parked message
\* is naked, as far as the connection still carries it.  Handlers keep running.
Close ==
  /\ pod = "running"
  /\ starts < MaxStarts
  /\ pod' = "closing"
  /\ Dispose
  /\ \E silent \in SUBSET Parked :
       LET back == {m \in Msgs : \E d \in Parked \ silent : d[1] = m /\ bstate[m] = "pending"}
       IN  /\ silent # {} => setup.flaky
           /\ bstate' = [m \in Msgs |-> IF m \in back THEN Requeued(m) ELSE bstate[m]]
           /\ cause' = [m \in Msgs |->
                          IF m \in back /\ ~CanRedeliver(m) THEN "handback" ELSE cause[m]]
  /\ UNCHANGED <<count, brokerMax, wire, setup, starts, podMax, pipeVars, evidence, lapsed>>

\* The process ends: the connection was shut down after close(), or it crashed.
Exit ==
  /\ pod # "down"
  /\ starts < MaxStarts
  /\ pod' = "down"
  /\ active' = 0
  /\ backlog' = <<>>
  /\ inflight' = {}
  /\ timers' = {}
  /\ draining' = FALSE
  /\ open' = FALSE
  /\ wire' = {}
  /\ stage' = [d \in Jobs |-> "idle"]
  /\ tries' = [d \in Jobs |-> 0]
  /\ extending' = {}
  /\ handed' = {}
  /\ UNCHANGED <<finished, handedBack, brokerVars, setup, starts, podMax, history>>

\* doListen(): consumers are ensured, their max_deliver is read, the router
\* subscribes with a new gate, consumption starts.
Start ==
  /\ pod = "down"
  /\ pod' = "running"
  /\ starts' = starts + 1
  /\ podMax' = brokerMax
  /\ open' = TRUE
  /\ UNCHANGED <<active, backlog, inflight, finished, handedBack, timers, draining>>
  /\ UNCHANGED <<brokerVars, wire, setup, pipeVars, history>>

--------------------------------------------------------------------------------
Broker(m) == Deliver(m) \/ AckWaitExpires(m)

Pipeline(d) ==
  \/ HandlerReturns(d)
  \/ HandlerFails(d)
  \/ DlqPublishSucceeds(d)
  \/ DlqPublishFails(d)
  \/ NotifyDeadLetterCallback(d)
  \/ FallbackToOnDeadLetterCallback(d)
  \/ Finish(d)

Next ==
  \/ \E m \in Msgs : Broker(m)
  \/ \E n \in MaxDelivers : UpdateConsumer(n)
  \/ \E d \in Jobs : Push(d) \/ Pipeline(d) \/ FirstWorking(d) \/ BudgetElapses(d)
  \/ Drain
  \/ Close
  \/ Exit
  \/ Start

Spec == Init /\ [][Next]_vars

\* Fairness: the broker delivers what is ready and times out what is not covered;
\* the event loop runs what is due; handlers, DLQ publishes (which have a request
\* timeout) and callbacks end; a pod that went down is started again; a closing
\* pod exits (the shutdown manager bounds the wait).
Fairness ==
  /\ \A m \in Msgs : WF_vars(Deliver(m)) /\ WF_vars(AckWaitExpires(m))
  /\ \A d \in Jobs : WF_vars(Push(d)) /\ WF_vars(Pipeline(d))
  /\ WF_vars(Drain)
  /\ WF_vars(pod = "closing" /\ Exit)
  /\ WF_vars(Start)

FairSpec == Spec /\ Fairness

--------------------------------------------------------------------------------
\* A message leaves the stream only after somebody took responsibility for it: a
\* handler returned or called terminate(), the DLQ stream stored it or the
\* onDeadLetter callback accepted it.  Only without any capture may an unroutable
\* message be termed ("avoid silent loss", dead-letter-capture.ts).
NoLoss ==
  \A m \in Msgs : bstate[m] = "removed" =>
    /\ evidence[m] # {}
    /\ CaptureOn => evidence[m] # {"refused"}

\* With a capture configured, a failed handler never strands its message: the nak
\* of the pipeline always leaves a delivery to come, whatever redeliveries,
\* restarts and timeouts came before.
NoSilentExhaustion ==
  CaptureOn => \A m \in Msgs : cause[m] # "settlement"

\* Ack extension is on, with an interval below ack_wait, over a connection that works.
ExtensionHolds == setup.ext /\ ~setup.slow /\ ~setup.flaky

\* Ack extension keeps a message with one handler ("keeping NATS from redelivering
\* before the handler finishes", ack-extension.ts), with two exceptions and no more:
\* a second delivery of a routable message is in the gate together with an unsettled
\* first one only if an extension budget ran out, or ack_wait did between the backlog
\* and the first working() of the entry that the pipeline started anew.
SingleFlight ==
  ExtensionHolds =>
    \A m \in Msgs \ (Unroutable \cup lapsed) :
      \A c, d \in Parked \cup inflight :
        c[1] = m /\ d[1] = m /\ stage[c] # "settled" /\ stage[d] # "settled" => c = d

\* The gate, the pipeline and the extension pool agree on what is running: a slot
\* is held exactly while the pipeline works on a delivery, and an ack extension
\* never outlives it ("every schedule() must be paired with a cancel()",
\* ack-extension.ts).
PipelineMatchesGate ==
  /\ \A d \in Jobs : stage[d] # "idle" <=> d \in inflight
  /\ extending \subseteq inflight
  /\ NoTimerLeak

\* Every message is settled for good: it leaves the stream or, past max_deliver,
\* stays there for manual recovery.
EventuallyResolved ==
  \A m \in Msgs : <>(bstate[m] \in {"removed", "stranded"})

\* A parked delivery does not wait for ever: it is routed, handed back or lost
\* with its pod.
ParkedIsServed ==
  \A d \in Jobs : d \in Parked ~> d \notin Parked

================================================================================
