-------------------------- MODULE EventDeliveryProofs --------------------------
(***************************************************************************)
(* Proofs about EventDelivery for any messages, options, limits and number *)
(* of restarts: the state is well typed, no message is lost, with a        *)
(* capture configured no failed handler strands its message, the gate and  *)
(* the pipeline agree, and a message that is extended has one handler.     *)
(*                                                                         *)
(* NoLoss is not inductive by itself: notifyDeadLetterCallback() terms the *)
(* message without looking, so the proof needs that a delivery reaches     *)
(* that stage only after the DLQ stream stored the message.  The gate's    *)
(* invariant is needed for the job at the head of the backlog.             *)
(* SingleFlight follows from what holds of a delivery in the gate: while   *)
(* its message is extended and the connection works it is the latest one   *)
(* (HeldIsLatest), so there is no second.                                  *)
(***************************************************************************)
EXTENDS EventDelivery, ConcurrencyGateProofs

\* A delivery is notifying only after its message is in the DLQ stream.
NotifyingIsStored ==
  \A d \in Jobs : stage[d] = "notifying" => "dlq" \in evidence[d[1]]

\* A pod that went down is started again.
DownIsRestarted == pod = "down" => starts < MaxStarts

DeliveryInv ==
  /\ DeliveryTypeOK
  /\ DownIsRestarted
  /\ NotifyingIsStored
  /\ NoLoss
  /\ NoSilentExhaustion

Inv == GateInv /\ DeliveryInv

\* DeliveryInv in two halves: what routing and settling a delivery may change, and
\* what the broker's bookkeeping and the pod's life change.
PipelineInv ==
  /\ bstate \in [Msgs -> BrokerStates]
  /\ stage \in [Jobs -> Stages]
  /\ tries \in [Jobs -> 0 .. PublishAttempts]
  /\ extending \subseteq Jobs
  /\ handed \subseteq Jobs
  /\ evidence \in [Msgs -> SUBSET Evidence]
  /\ cause \in [Msgs -> Causes]
  /\ NotifyingIsStored
  /\ NoLoss
  /\ NoSilentExhaustion

PodInv ==
  /\ count \in [Msgs -> 0 .. MaxCount]
  /\ brokerMax \in MaxDelivers
  /\ wire \subseteq Jobs
  /\ setup \in Setups
  /\ pod \in {"running", "closing", "down"}
  /\ starts \in 1 .. MaxStarts
  /\ podMax \in MaxDelivers
  /\ lapsed \subseteq Msgs
  /\ DownIsRestarted

--------------------------------------------------------------------------------
(***************************************************************************)
(* Deliveries and settlements.                                             *)
(***************************************************************************)
\* A delivery is a message and a delivery count.
LEMMA DeliveryParts ==
  ASSUME NEW d \in Jobs
  PROVE  d[1] \in Msgs /\ d[2] \in 1 .. MaxCount /\ d[2] \in Nat
BY DeliveryAssumption

\* Options do not change, so neither does the presence of a capture.
LEMMA CaptureFixed == ASSUME setup' = setup PROVE CaptureOn' = CaptureOn
BY DEF CaptureOn

\* The extension option is a Boolean.
LEMMA SetupTyped == ASSUME DeliveryInv PROVE setup.ext \in BOOLEAN
BY DeliveryAssumption DEF DeliveryInv, DeliveryTypeOK

\* Evidence only grows, and a recorded fact stays recorded.
LEMMA RecordGrows ==
  ASSUME DeliveryInv, NEW m \in Msgs, NEW what \in Evidence, Record(m, what)
  PROVE  /\ evidence' \in [Msgs -> SUBSET Evidence]
         /\ what \in evidence'[m]
         /\ \A n \in Msgs : evidence[n] \subseteq evidence'[n]
BY DEF DeliveryInv, DeliveryTypeOK, Record

\* An ack or a term is safe once its message is accounted for.
LEMMA AckOrTermSafe ==
  ASSUME DeliveryInv, setup' = setup, NEW m \in Msgs, AckOrTerm(m),
         evidence' \in [Msgs -> SUBSET Evidence],
         \A n \in Msgs : evidence[n] \subseteq evidence'[n],
         evidence'[m] # {},
         CaptureOn => evidence'[m] # {"refused"}
  PROVE  /\ bstate' \in [Msgs -> BrokerStates]
         /\ cause' = cause
         /\ NoLoss'
<1>1. cause' = cause
  BY DEF AckOrTerm, Discharge, Lost
<1>2. PICK s \in BrokerStates : bstate' = [bstate EXCEPT ![m] = s] \/ bstate' = bstate
  BY DEF AckOrTerm, Discharge, Lost, BrokerStates
<1>3. bstate' \in [Msgs -> BrokerStates]
  BY <1>2 DEF DeliveryInv, DeliveryTypeOK
<1>4. ASSUME NEW n \in Msgs, bstate'[n] = "removed"
      PROVE  evidence'[n] # {} /\ (CaptureOn => evidence'[n] # {"refused"})
  <2>1. CASE n = m
    BY <2>1
  <2>2. CASE n # m
    <3>1. bstate[n] = "removed"
      BY <1>2, <1>4, <2>2 DEF DeliveryInv, DeliveryTypeOK
    <3>2. QED
      BY <3>1 DEF DeliveryInv, NoLoss
  <2>3. QED
    BY <2>1, <2>2
<1>5. NoLoss'
  BY <1>4, CaptureFixed DEF NoLoss
<1>6. QED
  BY <1>1, <1>3, <1>5

\* A nak removes nothing; it strands a message only where no redelivery is left.
LEMMA NakSafe ==
  ASSUME DeliveryInv, setup' = setup, evidence' = evidence,
         NEW d \in Jobs, NEW why \in Causes, Nak(d, why),
         CaptureOn /\ ~CanRedeliver(d[1]) => why # "settlement"
  PROVE  /\ bstate' \in [Msgs -> BrokerStates]
         /\ cause' \in [Msgs -> Causes]
         /\ NoLoss'
         /\ NoSilentExhaustion'
<1> DEFINE m == d[1]
<1>1. m \in Msgs
  BY DeliveryParts
<1>2. \/ bstate' = bstate
      \/ bstate' = [bstate EXCEPT ![m] = "ready"]
      \/ bstate' = [bstate EXCEPT ![m] = "stranded"]
  BY DEF Nak, Return, Lost, Requeued
<1>3. \/ cause' = cause
      \/ cause' = [cause EXCEPT ![m] = why] /\ ~CanRedeliver(m)
  BY DEF Nak, Return, Lost
<1>4. bstate' \in [Msgs -> BrokerStates]
  BY <1>1, <1>2 DEF DeliveryInv, DeliveryTypeOK, BrokerStates
<1>5. cause' \in [Msgs -> Causes]
  BY <1>1, <1>3 DEF DeliveryInv, DeliveryTypeOK
<1>6. \A n \in Msgs : bstate'[n] = "removed" => bstate[n] = "removed"
  BY <1>1, <1>2 DEF DeliveryInv, DeliveryTypeOK
<1>7. NoLoss'
  BY <1>6, CaptureFixed DEF DeliveryInv, NoLoss
<1>8. NoSilentExhaustion'
  <2>1. ASSUME CaptureOn, NEW n \in Msgs PROVE cause'[n] # "settlement"
    BY <1>1, <1>3, <2>1 DEF DeliveryInv, DeliveryTypeOK, NoSilentExhaustion
  <2>2. QED
    BY <2>1, CaptureFixed DEF NoSilentExhaustion
<1>9. QED
  BY <1>4, <1>5, <1>7, <1>8

\* isFinalDelivery() is exact: with an up-to-date threshold, a delivery that the
\* pipeline may nak is never the last one of its message.
LEMMA SettlementNak ==
  ASSUME DeliveryInv, NEW d \in Jobs, MayNak(d)
  PROVE  /\ SettlementCause(d) \in Causes
         /\ CaptureOn /\ ~CanRedeliver(d[1]) => SettlementCause(d) # "settlement"
<1>1. /\ d[1] \in Msgs /\ d[2] \in Nat
      /\ count[d[1]] \in Nat /\ brokerMax \in Nat /\ podMax \in Nat
  BY DeliveryParts, DeliveryAssumption DEF DeliveryInv, DeliveryTypeOK
<1>2. SettlementCause(d) \in {"late", "threshold", "settlement"}
  BY <1>1 DEF SettlementCause
<1>3. ASSUME CaptureOn, ~CanRedeliver(d[1]), SettlementCause(d) = "settlement" PROVE FALSE
  <2>1. ~(d[2] < count[d[1]]) /\ podMax = brokerMax
    BY <1>1, <1>3 DEF SettlementCause
  <2>2. brokerMax > 0 /\ count[d[1]] >= brokerMax
    BY <1>1, <1>3 DEF CanRedeliver
  <2>3. IsFinalDelivery(d)
    BY <1>1, <2>1, <2>2 DEF IsFinalDelivery
  <2>4. QED
    BY <1>3, <2>3 DEF MayNak
<1>4. QED
  BY <1>2, <1>3 DEF Causes
--------------------------------------------------------------------------------
(***************************************************************************)
(* route() and the asynchronous half of the pipeline.                      *)
(***************************************************************************)
\* DeliveryInv is the conjunction of its halves.
LEMMA Halves == DeliveryInv <=> PipelineInv /\ PodInv
BY DEF DeliveryInv, DeliveryTypeOK, PipelineInv, PodInv

\* DeliveryInv is the conjunction of its halves in the next state.
LEMMA HalvesNext == DeliveryInv' <=> PipelineInv' /\ PodInv'
BY DEF DeliveryInv, DeliveryTypeOK, PipelineInv, PodInv

\* A step that lets no new delivery notify keeps every notifying one stored.
LEMMA NotifyingKept ==
  ASSUME DeliveryInv,
         \A d \in Jobs : stage'[d] = "notifying" => stage[d] = "notifying",
         \A m \in Msgs : evidence[m] \subseteq evidence'[m]
  PROVE  NotifyingIsStored'
BY DeliveryParts DEF DeliveryInv, NotifyingIsStored

\* A step that leaves the settlements alone keeps what is said about them.
LEMMA NothingSettled ==
  ASSUME DeliveryInv, setup' = setup, bstate' = bstate, cause' = cause,
         evidence' \in [Msgs -> SUBSET Evidence],
         \A m \in Msgs : evidence[m] \subseteq evidence'[m]
  PROVE  NoLoss' /\ NoSilentExhaustion'
<1>1. NoLoss'
  <2>1. ASSUME NEW m \in Msgs, bstate[m] = "removed"
        PROVE  evidence'[m] # {} /\ (CaptureOn => evidence'[m] # {"refused"})
    BY <2>1 DEF DeliveryInv, NoLoss
  <2>2. QED
    BY <2>1, CaptureFixed DEF NoLoss
<1>2. NoSilentExhaustion'
  BY CaptureFixed DEF DeliveryInv, NoSilentExhaustion
<1>3. QED
  BY <1>1, <1>2

\* Entering the pipeline is well typed.
LEMMA EnterTyped ==
  ASSUME DeliveryInv, NEW d \in Jobs, NEW s \in Stages \ {"notifying"}, EnterPipeline(d, s)
  PROVE  /\ stage' \in [Jobs -> Stages]
         /\ tries' \in [Jobs -> 0 .. PublishAttempts]
         /\ extending' \subseteq Jobs /\ handed' \subseteq Jobs
         /\ \A c \in Jobs : stage'[c] = "notifying" => stage[c] = "notifying"
BY DeliveryAssumption DEF DeliveryInv, DeliveryTypeOK, EnterPipeline

\* The first stage of a capture is not its last.
LEMMA CaptureStageTyped == CaptureStage \in {"publishing", "fallback"}
BY DEF CaptureStage

\* A handler that returned or terminated leaves evidence that is not a refusal.
LEMMA HandlerEvidence ==
  ASSUME DeliveryInv, setup' = setup, NEW m \in Msgs,
         \E what \in {"handled", "discarded"} : Record(m, what),
         AckOrTerm(m)
  PROVE  /\ bstate' \in [Msgs -> BrokerStates]
         /\ evidence' \in [Msgs -> SUBSET Evidence]
         /\ \A n \in Msgs : evidence[n] \subseteq evidence'[n]
         /\ cause' = cause
         /\ NoLoss'
<1>1. PICK what \in {"handled", "discarded"} : Record(m, what)
  OBVIOUS
<1>2. what \in Evidence /\ what # "refused"
  BY <1>1 DEF Evidence
<1>3. /\ evidence' \in [Msgs -> SUBSET Evidence]
      /\ what \in evidence'[m]
      /\ \A n \in Msgs : evidence[n] \subseteq evidence'[n]
  BY <1>1, <1>2, RecordGrows
<1>4. evidence'[m] # {} /\ evidence'[m] # {"refused"}
  BY <1>2, <1>3
<1>5. QED
  BY <1>3, <1>4, AckOrTermSafe

\* Routing a delivery to a Promise is safe.
LEMMA RouteAsyncSafe ==
  ASSUME DeliveryInv, setup' = setup, NEW d \in Jobs, RouteAsync(d)
  PROVE  PipelineInv'
<1>1. CASE \E s \in {"handling", "publishing", "fallback"} :
             EnterPipeline(d, s) /\ UNCHANGED <<bstate, evidence, cause>>
  <2>1. PICK s \in Stages \ {"notifying"} : EnterPipeline(d, s)
    BY <1>1 DEF Stages
  <2>2. NotifyingIsStored'
    BY <1>1, <2>1, EnterTyped, NotifyingKept
  <2>3. NoLoss' /\ NoSilentExhaustion'
    BY <1>1, NothingSettled DEF DeliveryInv, DeliveryTypeOK
  <2>4. QED
    BY <1>1, <2>1, <2>2, <2>3, EnterTyped DEF PipelineInv, DeliveryInv, DeliveryTypeOK
<1>2. CASE /\ MayNak(d)
           /\ EnterPipeline(d, "settled")
           /\ Nak(d, SettlementCause(d))
           /\ UNCHANGED evidence
  <2>1. "settled" \in Stages \ {"notifying"}
    BY DEF Stages
  <2>2. NotifyingIsStored'
    BY <1>2, <2>1, EnterTyped, NotifyingKept
  <2>3. /\ bstate' \in [Msgs -> BrokerStates]
        /\ cause' \in [Msgs -> Causes]
        /\ NoLoss' /\ NoSilentExhaustion'
    BY <1>2, SettlementNak, NakSafe
  <2>4. QED
    BY <1>2, <2>1, <2>2, <2>3, EnterTyped DEF PipelineInv, DeliveryInv, DeliveryTypeOK
<1>3. QED
  BY <1>1, <1>2, CaptureStageTyped DEF RouteAsync

\* Routing a delivery to completion is safe.
LEMMA RouteSyncSafe ==
  ASSUME DeliveryInv, setup' = setup, NEW d \in Jobs, RouteSync(d)
  PROVE  PipelineInv'
<1> DEFINE m == d[1]
<1>0. m \in Msgs /\ UNCHANGED pipeVars
  BY DeliveryParts DEF RouteSync
<1>1. CASE ~CaptureOn /\ Record(m, "refused") /\ AckOrTerm(m)
  <2>1. /\ evidence' \in [Msgs -> SUBSET Evidence]
        /\ "refused" \in evidence'[m]
        /\ \A n \in Msgs : evidence[n] \subseteq evidence'[n]
    BY <1>0, <1>1, RecordGrows DEF Evidence
  <2>2. bstate' \in [Msgs -> BrokerStates] /\ cause' = cause /\ NoLoss'
    BY <1>0, <1>1, <2>1, AckOrTermSafe
  <2>3. NotifyingIsStored'
    BY <1>0, <2>1, NotifyingKept DEF pipeVars
  <2>4. NoSilentExhaustion'
    BY <2>2, CaptureFixed DEF DeliveryInv, NoSilentExhaustion
  <2>5. QED
    BY <1>0, <2>1, <2>2, <2>3, <2>4 DEF PipelineInv, DeliveryInv, DeliveryTypeOK, pipeVars
<1>2. CASE (\E what \in {"handled", "discarded"} : Record(m, what)) /\ AckOrTerm(m)
  <2>1. /\ bstate' \in [Msgs -> BrokerStates]
        /\ evidence' \in [Msgs -> SUBSET Evidence]
        /\ \A n \in Msgs : evidence[n] \subseteq evidence'[n]
        /\ cause' = cause
        /\ NoLoss'
    BY <1>0, <1>2, HandlerEvidence
  <2>2. NotifyingIsStored'
    BY <1>0, <2>1, NotifyingKept DEF pipeVars
  <2>3. NoSilentExhaustion'
    BY <2>1, CaptureFixed DEF DeliveryInv, NoSilentExhaustion
  <2>4. QED
    BY <1>0, <2>1, <2>2, <2>3 DEF PipelineInv, DeliveryInv, DeliveryTypeOK, pipeVars
<1>3. CASE MayNak(d) /\ Nak(d, SettlementCause(d)) /\ UNCHANGED evidence
  <2>1. /\ bstate' \in [Msgs -> BrokerStates]
        /\ cause' \in [Msgs -> Causes]
        /\ NoLoss' /\ NoSilentExhaustion'
    BY <1>3, SettlementNak, NakSafe
  <2>2. NotifyingIsStored'
    BY <1>0, <1>3, NotifyingKept DEF pipeVars
  <2>3. QED
    BY <1>0, <1>3, <2>1, <2>2 DEF PipelineInv, DeliveryInv, DeliveryTypeOK, pipeVars
<1>4. QED
  BY <1>1, <1>2, <1>3 DEF RouteSync

\* A pipeline step moves one delivery between stages and leaves the pod alone.
LEMMA AdvanceTyped ==
  ASSUME DeliveryInv, NEW d \in Jobs, NEW s, NEW t \in Stages, Advance(d, s, t)
  PROVE  /\ stage' \in [Jobs -> Stages]
         /\ extending' = extending /\ handed' = handed
         /\ setup' = setup
         /\ PodInv'
         /\ \A c \in Jobs : stage'[c] = "notifying" => stage[c] = "notifying" \/ (c = d /\ t = "notifying")
<1>1. PodInv
  BY Halves
<1>2. PodInv'
  BY <1>1 DEF PodInv, Advance, podVars, DownIsRestarted
<1>3. QED
  BY <1>2 DEF DeliveryInv, DeliveryTypeOK, Advance, podVars

\* settleSuccess() after the handler's Promise resolved is safe.
LEMMA HandlerReturnsSafe ==
  ASSUME DeliveryInv, NEW d \in Jobs, HandlerReturns(d)
  PROVE  DeliveryInv'
<1>1. /\ Advance(d, "handling", "settled")
      /\ \E what \in {"handled", "discarded"} : Record(d[1], what)
      /\ AckOrTerm(d[1])
      /\ UNCHANGED tries
  BY DEF HandlerReturns
<1>2. /\ stage' \in [Jobs -> Stages]
      /\ extending' = extending /\ handed' = handed
      /\ setup' = setup
      /\ PodInv'
      /\ \A c \in Jobs : stage'[c] = "notifying" => stage[c] = "notifying"
  BY <1>1, AdvanceTyped DEF Stages
<1>3. /\ bstate' \in [Msgs -> BrokerStates]
      /\ evidence' \in [Msgs -> SUBSET Evidence]
      /\ \A n \in Msgs : evidence[n] \subseteq evidence'[n]
      /\ cause' = cause
      /\ NoLoss'
  BY <1>1, <1>2, HandlerEvidence, DeliveryParts
<1>4. NotifyingIsStored'
  BY <1>2, <1>3, NotifyingKept
<1>5. NoSilentExhaustion'
  BY <1>2, <1>3, CaptureFixed DEF DeliveryInv, NoSilentExhaustion
<1>6. PipelineInv'
  BY <1>1, <1>2, <1>3, <1>4, <1>5 DEF PipelineInv, DeliveryInv, DeliveryTypeOK
<1>7. QED
  BY <1>2, <1>6, HalvesNext

\* A failed handler naks or begins a capture, and strands nothing.
LEMMA HandlerFailsSafe ==
  ASSUME DeliveryInv, NEW d \in Jobs, HandlerFails(d)
  PROVE  DeliveryInv'
<1>1. CASE /\ MayNak(d)
           /\ Advance(d, "handling", "settled")
           /\ Nak(d, SettlementCause(d))
           /\ UNCHANGED <<tries, evidence>>
  <2>1. /\ stage' \in [Jobs -> Stages]
        /\ extending' = extending /\ handed' = handed
        /\ setup' = setup
        /\ PodInv'
        /\ \A c \in Jobs : stage'[c] = "notifying" => stage[c] = "notifying"
    BY <1>1, AdvanceTyped DEF Stages
  <2>2. /\ bstate' \in [Msgs -> BrokerStates]
        /\ cause' \in [Msgs -> Causes]
        /\ NoLoss' /\ NoSilentExhaustion'
    BY <1>1, <2>1, SettlementNak, NakSafe
  <2>3. NotifyingIsStored'
    BY <1>1, <2>1, NotifyingKept
  <2>4. PipelineInv'
    BY <1>1, <2>1, <2>2, <2>3 DEF PipelineInv, DeliveryInv, DeliveryTypeOK
  <2>5. QED
    BY <2>1, <2>4, HalvesNext
<1>2. CASE /\ Advance(d, "handling", CaptureStage)
           /\ UNCHANGED <<bstate, tries, evidence, cause>>
  <2>1. /\ stage' \in [Jobs -> Stages]
        /\ extending' = extending /\ handed' = handed
        /\ setup' = setup
        /\ PodInv'
        /\ \A c \in Jobs : stage'[c] = "notifying" => stage[c] = "notifying"
    BY <1>2, AdvanceTyped, CaptureStageTyped DEF Stages
  <2>2. NotifyingIsStored' /\ NoLoss' /\ NoSilentExhaustion'
    BY <1>2, <2>1, NotifyingKept, NothingSettled DEF DeliveryInv, DeliveryTypeOK
  <2>3. PipelineInv'
    BY <1>2, <2>1, <2>2 DEF PipelineInv, DeliveryInv, DeliveryTypeOK
  <2>4. QED
    BY <2>1, <2>3, HalvesNext
<1>3. QED
  BY <1>1, <1>2 DEF HandlerFails

\* A DLQ publish that succeeded makes the message stored before it is termed.
LEMMA DlqPublishSucceedsSafe ==
  ASSUME DeliveryInv, NEW d \in Jobs, DlqPublishSucceeds(d)
  PROVE  DeliveryInv'
<1>1. /\ Advance(d, "publishing", "notifying")
      /\ Record(d[1], "dlq")
      /\ UNCHANGED <<bstate, tries, cause>>
  BY DEF DlqPublishSucceeds
<1>2. /\ stage' \in [Jobs -> Stages]
      /\ extending' = extending /\ handed' = handed
      /\ setup' = setup
      /\ PodInv'
      /\ \A c \in Jobs : stage'[c] = "notifying" => stage[c] = "notifying" \/ c = d
  BY <1>1, AdvanceTyped DEF Stages
<1>3. /\ evidence' \in [Msgs -> SUBSET Evidence]
      /\ "dlq" \in evidence'[d[1]]
      /\ \A n \in Msgs : evidence[n] \subseteq evidence'[n]
  BY <1>1, RecordGrows, DeliveryParts DEF Evidence
<1>4. NotifyingIsStored'
  BY <1>2, <1>3, DeliveryParts DEF DeliveryInv, NotifyingIsStored
<1>5. NoLoss' /\ NoSilentExhaustion'
  BY <1>1, <1>2, <1>3, NothingSettled
<1>6. PipelineInv'
  BY <1>1, <1>2, <1>3, <1>4, <1>5 DEF PipelineInv, DeliveryInv, DeliveryTypeOK
<1>7. QED
  BY <1>2, <1>6, HalvesNext

\* A failed DLQ publish settles nothing.
LEMMA DlqPublishFailsSafe ==
  ASSUME DeliveryInv, NEW d \in Jobs, DlqPublishFails(d)
  PROVE  DeliveryInv'
<1>1. /\ tries[d] < PublishAttempts
      /\ tries' = [tries EXCEPT ![d] = @ + 1]
      /\ \E t \in {"fallback", "publishing"} : Advance(d, "publishing", t)
      /\ Record(d[1], "dlq") \/ UNCHANGED evidence
      /\ UNCHANGED <<bstate, cause>>
  BY DEF DlqPublishFails
<1>2. /\ stage' \in [Jobs -> Stages]
      /\ extending' = extending /\ handed' = handed
      /\ setup' = setup
      /\ PodInv'
      /\ \A c \in Jobs : stage'[c] = "notifying" => stage[c] = "notifying"
  BY <1>1, AdvanceTyped DEF Stages
<1>3. tries' \in [Jobs -> 0 .. PublishAttempts]
  BY <1>1, DeliveryAssumption DEF DeliveryInv, DeliveryTypeOK
<1>4. /\ evidence' \in [Msgs -> SUBSET Evidence]
      /\ \A n \in Msgs : evidence[n] \subseteq evidence'[n]
  BY <1>1, RecordGrows, DeliveryParts DEF Evidence, DeliveryInv, DeliveryTypeOK
<1>5. NotifyingIsStored' /\ NoLoss' /\ NoSilentExhaustion'
  BY <1>1, <1>2, <1>4, NotifyingKept, NothingSettled
<1>6. PipelineInv'
  BY <1>1, <1>2, <1>3, <1>4, <1>5 DEF PipelineInv, DeliveryInv, DeliveryTypeOK
<1>7. QED
  BY <1>2, <1>6, HalvesNext

\* The term after a successful DLQ publish removes a stored message.
LEMMA NotifySafe ==
  ASSUME DeliveryInv, NEW d \in Jobs, NotifyDeadLetterCallback(d)
  PROVE  DeliveryInv'
<1>1. /\ Advance(d, "notifying", "settled")
      /\ Record(d[1], "told") \/ UNCHANGED evidence
      /\ AckOrTerm(d[1])
      /\ UNCHANGED tries
  BY DEF NotifyDeadLetterCallback
<1>2. /\ stage' \in [Jobs -> Stages]
      /\ extending' = extending /\ handed' = handed
      /\ setup' = setup
      /\ PodInv'
      /\ \A c \in Jobs : stage'[c] = "notifying" => stage[c] = "notifying"
  BY <1>1, AdvanceTyped DEF Stages
<1>3. /\ evidence' \in [Msgs -> SUBSET Evidence]
      /\ \A n \in Msgs : evidence[n] \subseteq evidence'[n]
  BY <1>1, RecordGrows, DeliveryParts DEF Evidence, DeliveryInv, DeliveryTypeOK
<1>4. stage[d] = "notifying"
  BY <1>1 DEF Advance
<1>5. "dlq" \in evidence'[d[1]]
  BY <1>3, <1>4, DeliveryParts DEF DeliveryInv, NotifyingIsStored
<1>6. evidence'[d[1]] # {} /\ evidence'[d[1]] # {"refused"}
  BY <1>5
<1>7. bstate' \in [Msgs -> BrokerStates] /\ cause' = cause /\ NoLoss'
  BY <1>1, <1>2, <1>3, <1>6, AckOrTermSafe, DeliveryParts
<1>8. NotifyingIsStored'
  BY <1>2, <1>3, NotifyingKept
<1>9. NoSilentExhaustion'
  BY <1>2, <1>7, CaptureFixed DEF DeliveryInv, NoSilentExhaustion
<1>10. PipelineInv'
  BY <1>1, <1>2, <1>3, <1>7, <1>8, <1>9 DEF PipelineInv, DeliveryInv, DeliveryTypeOK
<1>11. QED
  BY <1>2, <1>10, HalvesNext

\* The fallback terms what the callback accepted and naks the rest.
LEMMA FallbackSafe ==
  ASSUME DeliveryInv, NEW d \in Jobs, FallbackToOnDeadLetterCallback(d)
  PROVE  DeliveryInv'
<1>1. Advance(d, "fallback", "settled") /\ UNCHANGED tries
  BY DEF FallbackToOnDeadLetterCallback
<1>2. /\ stage' \in [Jobs -> Stages]
      /\ extending' = extending /\ handed' = handed
      /\ setup' = setup
      /\ PodInv'
      /\ \A c \in Jobs : stage'[c] = "notifying" => stage[c] = "notifying"
  BY <1>1, AdvanceTyped DEF Stages
<1>3. /\ bstate' \in [Msgs -> BrokerStates]
      /\ evidence' \in [Msgs -> SUBSET Evidence]
      /\ cause' \in [Msgs -> Causes]
      /\ \A n \in Msgs : evidence[n] \subseteq evidence'[n]
      /\ NoLoss'
      /\ NoSilentExhaustion'
  <2>1. CASE Record(d[1], "told") /\ AckOrTerm(d[1])
    <3>1. /\ evidence' \in [Msgs -> SUBSET Evidence]
          /\ "told" \in evidence'[d[1]]
          /\ \A n \in Msgs : evidence[n] \subseteq evidence'[n]
      BY <2>1, RecordGrows, DeliveryParts DEF Evidence
    <3>2. evidence'[d[1]] # {} /\ evidence'[d[1]] # {"refused"}
      BY <3>1
    <3>3. bstate' \in [Msgs -> BrokerStates] /\ cause' = cause /\ NoLoss'
      BY <1>2, <2>1, <3>1, <3>2, AckOrTermSafe, DeliveryParts
    <3>4. NoSilentExhaustion'
      BY <1>2, <3>3, CaptureFixed DEF DeliveryInv, NoSilentExhaustion
    <3>5. QED
      BY <3>1, <3>3, <3>4 DEF DeliveryInv, DeliveryTypeOK
  <2>2. CASE \E why \in {"late", "uncaptured"} : Nak(d, why) /\ UNCHANGED evidence
    <3>1. PICK why \in {"late", "uncaptured"} : Nak(d, why) /\ UNCHANGED evidence
      BY <2>2
    <3>2. why \in Causes /\ why # "settlement"
      BY <3>1 DEF Causes
    <3>3. QED
      BY <1>2, <3>1, <3>2, NakSafe DEF DeliveryInv, DeliveryTypeOK
  <2>3. QED
    BY <2>1, <2>2 DEF FallbackToOnDeadLetterCallback
<1>4. NotifyingIsStored'
  BY <1>2, <1>3, NotifyingKept
<1>5. PipelineInv'
  BY <1>1, <1>2, <1>3, <1>4 DEF PipelineInv, DeliveryInv, DeliveryTypeOK
<1>6. QED
  BY <1>2, <1>5, HalvesNext

\* Ending a route, extending and losing an extension settle nothing.
LEMMA FinishSafe ==
  ASSUME DeliveryInv, NEW d \in Jobs, Finish(d) \/ FirstWorking(d) \/ BudgetElapses(d)
  PROVE  DeliveryInv'
<1>1. /\ UNCHANGED <<brokerVars, wire, podVars, tries, evidence, cause>>
      /\ \/ stage' = stage
         \/ stage' = [stage EXCEPT ![d] = "idle"]
      /\ extending' \in {extending, extending \ {d}} /\ handed' \in {handed, handed \ {d}}
      /\ lapsed' = lapsed \/ lapsed' = lapsed \cup {d[1]}
  BY DEF Finish, FirstWorking, BudgetElapses, history
<1>2. /\ stage' \in [Jobs -> Stages]
      /\ \A c \in Jobs : stage'[c] = "notifying" => stage[c] = "notifying"
  BY <1>1 DEF DeliveryInv, DeliveryTypeOK, Stages
<1>3. NotifyingIsStored' /\ NoLoss' /\ NoSilentExhaustion'
  BY <1>1, <1>2, NotifyingKept, NothingSettled
  DEF DeliveryInv, DeliveryTypeOK, brokerVars, podVars
<1>4. PipelineInv'
  BY <1>1, <1>2, <1>3 DEF PipelineInv, DeliveryInv, DeliveryTypeOK, brokerVars
<1>5. PodInv'
  BY <1>1, Halves, DeliveryParts DEF PodInv, DownIsRestarted, brokerVars, podVars
<1>6. QED
  BY <1>4, <1>5, HalvesNext

--------------------------------------------------------------------------------
(***************************************************************************)
(* The broker, and the gate's calls of route().                            *)
(***************************************************************************)
\* A step that changes neither the pipeline nor the evidence, removes nothing and
\* strands nothing by settlement.
LEMMA BrokerSafe ==
  ASSUME DeliveryInv, setup' = setup, UNCHANGED <<pipeVars, evidence>>,
         bstate' \in [Msgs -> BrokerStates],
         cause' \in [Msgs -> Causes],
         \A m \in Msgs : bstate'[m] = "removed" => bstate[m] = "removed",
         \A m \in Msgs : cause'[m] = "settlement" => cause[m] = "settlement"
  PROVE  PipelineInv'
<1>1. NotifyingIsStored'
  BY NotifyingKept DEF pipeVars
<1>2. NoLoss' /\ NoSilentExhaustion'
  BY CaptureFixed DEF DeliveryInv, NoLoss, NoSilentExhaustion
<1>3. QED
  BY <1>1, <1>2 DEF PipelineInv, DeliveryInv, DeliveryTypeOK, pipeVars

\* A delivery adds one to the count and a job to the wire.
LEMMA DeliverSafe ==
  ASSUME DeliveryInv, NEW m \in Msgs, Deliver(m)
  PROVE  DeliveryInv'
<1>1. /\ bstate' = [bstate EXCEPT ![m] = "pending"]
      /\ count[m] < MaxCount
      /\ count' = [count EXCEPT ![m] = @ + 1]
      /\ wire' = wire \cup {<<m, count[m] + 1>>}
      /\ UNCHANGED <<brokerMax, podVars, pipeVars, history>>
  BY DEF Deliver
<1>2. count' \in [Msgs -> 0 .. MaxCount] /\ count[m] + 1 \in 1 .. MaxCount
  BY <1>1, DeliveryAssumption DEF DeliveryInv, DeliveryTypeOK
<1>3. wire' \subseteq Jobs
  BY <1>1, <1>2, DeliveryAssumption DEF DeliveryInv, DeliveryTypeOK
<1>4. /\ bstate' \in [Msgs -> BrokerStates]
      /\ \A n \in Msgs : bstate'[n] = "removed" => bstate[n] = "removed"
  BY <1>1 DEF DeliveryInv, DeliveryTypeOK, BrokerStates
<1>5. PipelineInv'
  BY <1>1, <1>4, BrokerSafe DEF history, podVars, DeliveryInv, DeliveryTypeOK
<1>6. PodInv'
  BY <1>1, <1>2, <1>3, Halves DEF PodInv, DownIsRestarted, podVars, history
<1>7. QED
  BY <1>5, <1>6, HalvesNext

\* An expired ack_wait requeues or strands the message, and removes nothing.
LEMMA AckWaitExpiresSafe ==
  ASSUME DeliveryInv, NEW m \in Msgs, AckWaitExpires(m)
  PROVE  DeliveryInv'
<1>1. /\ \/ bstate' = [bstate EXCEPT ![m] = "ready"]
         \/ bstate' = [bstate EXCEPT ![m] = "stranded"]
      /\ cause' = cause \/ cause' = [cause EXCEPT ![m] = "expiry"]
      /\ lapsed' = lapsed \/ lapsed' = lapsed \cup {m}
      /\ UNCHANGED <<count, brokerMax, wire, podVars, pipeVars, evidence>>
  BY DEF AckWaitExpires, Requeued
<1>2. /\ bstate' \in [Msgs -> BrokerStates]
      /\ \A n \in Msgs : bstate'[n] = "removed" => bstate[n] = "removed"
  BY <1>1 DEF DeliveryInv, DeliveryTypeOK, BrokerStates
<1>3. /\ cause' \in [Msgs -> Causes]
      /\ \A n \in Msgs : cause'[n] = "settlement" => cause[n] = "settlement"
  BY <1>1 DEF DeliveryInv, DeliveryTypeOK, Causes
<1>4. PipelineInv'
  BY <1>1, <1>2, <1>3, BrokerSafe DEF podVars
<1>5. PodInv'
  BY <1>1, Halves DEF PodInv, DownIsRestarted, podVars
<1>6. QED
  BY <1>4, <1>5, HalvesNext

\* A new max_deliver strands only messages that wait past it.
LEMMA UpdateConsumerSafe ==
  ASSUME DeliveryInv, NEW n \in MaxDelivers, UpdateConsumer(n)
  PROVE  DeliveryInv'
<1> DEFINE cut == {m \in Msgs : bstate[m] = "ready" /\ n > 0 /\ count[m] >= n}
<1>1. /\ brokerMax' = n
      /\ bstate' = [m \in Msgs |-> IF m \in cut THEN "stranded" ELSE bstate[m]]
      /\ cause' = [m \in Msgs |-> IF m \in cut THEN "reconfigured" ELSE cause[m]]
      /\ UNCHANGED <<count, wire, podVars, pipeVars, evidence, lapsed>>
  BY DEF UpdateConsumer
<1> HIDE DEF cut
<1>2. /\ bstate' \in [Msgs -> BrokerStates]
      /\ \A m \in Msgs : bstate'[m] = "removed" => bstate[m] = "removed"
  BY <1>1 DEF DeliveryInv, DeliveryTypeOK, BrokerStates
<1>3. /\ cause' \in [Msgs -> Causes]
      /\ \A m \in Msgs : cause'[m] = "settlement" => cause[m] = "settlement"
  BY <1>1 DEF DeliveryInv, DeliveryTypeOK, Causes
<1>4. PipelineInv'
  BY <1>1, <1>2, <1>3, BrokerSafe DEF podVars
<1>5. PodInv'
  BY <1>1, Halves DEF PodInv, DownIsRestarted, podVars
<1>6. QED
  BY <1>4, <1>5, HalvesNext

\* A parked delivery changes only the gate.
LEMMA ParkSafe ==
  ASSUME DeliveryInv, setup' = setup, UNCHANGED <<bstate, pipeVars, evidence, cause>>
  PROVE  PipelineInv'
BY BrokerSafe DEF DeliveryInv, DeliveryTypeOK

\* push() keeps both invariants.
LEMMA PushSafe ==
  ASSUME Inv, NEW d \in Jobs, Push(d)
  PROVE  Inv'
<1>1. DeliveryInv /\ GateInv /\ setup' = setup
  BY DEF Inv, Push, podVars
<1>2. GateInv'
  BY <1>1, PushParksInv, PushRoutesAsyncInv, PushRoutesSyncInv, SetupTyped DEF Push
<1>3. PipelineInv'
  BY <1>1, ParkSafe, RouteAsyncSafe, RouteSyncSafe DEF Push
<1>4. PodInv'
  BY <1>1, Halves DEF Push, PodInv, DownIsRestarted, podVars
<1>5. QED
  BY <1>2, <1>3, <1>4, HalvesNext DEF Inv

\* drainBacklog() keeps both invariants.
LEMMA DrainSafe ==
  ASSUME Inv, Drain
  PROVE  Inv'
<1>1. DeliveryInv /\ GateInv /\ setup' = setup
  BY DEF Inv, Drain, podVars
<1>2. GateInv'
  BY <1>1, DrainsInv, DrainEndsInv DEF Drain
<1>3. PipelineInv'
  <2>1. CASE DrainEnds /\ UNCHANGED <<bstate, pipeVars, evidence, cause>>
    BY <1>1, <2>1, ParkSafe
  <2>2. CASE \/ DrainsAsync /\ RouteAsync(Head(backlog))
             \/ DrainsSync /\ RouteSync(Head(backlog))
    <3>1. Head(backlog) \in Jobs
      BY <1>1, <2>2, TailShifts
      DEF DrainsAsync, DrainsSync, DrainHead, GateInv, GateTypeOK, JobsPartitioned
    <3>2. QED
      BY <1>1, <2>2, <3>1, RouteAsyncSafe, RouteSyncSafe
  <2>3. QED
    BY <2>1, <2>2 DEF Drain
<1>4. PodInv'
  BY <1>1, Halves DEF Drain, PodInv, DownIsRestarted, podVars
<1>5. QED
  BY <1>2, <1>3, <1>4, HalvesNext DEF Inv

--------------------------------------------------------------------------------
(***************************************************************************)
(* The life of the pod.                                                    *)
(***************************************************************************)
\* close() naks the backlog and removes nothing.
LEMMA CloseSafe ==
  ASSUME Inv, Close
  PROVE  Inv'
<1>1. DeliveryInv /\ GateInv /\ setup' = setup
  BY DEF Inv, Close
<1>2. GateInv'
  BY <1>1, DisposeInv DEF Close
<1>3. PICK back \in SUBSET Msgs :
        /\ bstate' = [m \in Msgs |-> IF m \in back THEN Requeued(m) ELSE bstate[m]]
        /\ cause' = [m \in Msgs |->
                       IF m \in back /\ ~CanRedeliver(m) THEN "handback" ELSE cause[m]]
  BY DEF Close
<1>4. /\ bstate' \in [Msgs -> BrokerStates]
      /\ \A m \in Msgs : bstate'[m] = "removed" => bstate[m] = "removed"
  BY <1>1, <1>3 DEF DeliveryInv, DeliveryTypeOK, BrokerStates, Requeued
<1>5. /\ cause' \in [Msgs -> Causes]
      /\ \A m \in Msgs : cause'[m] = "settlement" => cause[m] = "settlement"
  BY <1>1, <1>3 DEF DeliveryInv, DeliveryTypeOK, Causes
<1>6. PipelineInv'
  BY <1>1, <1>4, <1>5, BrokerSafe DEF Close
<1>7. PodInv'
  BY <1>1, Halves DEF Close, PodInv, DownIsRestarted
<1>8. QED
  BY <1>2, <1>6, <1>7, HalvesNext DEF Inv

\* The end of the process clears what was in memory and settles nothing.
LEMMA ExitSafe ==
  ASSUME Inv, Exit
  PROVE  Inv'
<1>1. DeliveryInv /\ GateInv /\ setup' = setup
  BY DEF Inv, Exit
<1>2. GateInv'
  <2>1. IsFiniteSet({}) /\ Cardinality({}) = 0
    BY FS_EmptySet
  <2>2. Parked' = {} /\ IsInjective(backlog') /\ backlog' \in Seq(Jobs)
    BY EmptyBacklog DEF Exit, Parked
  <2>3. active' = 0 /\ inflight' = {} /\ timers' = {} /\ backlog' = <<>> /\ draining' = FALSE
        /\ open' = FALSE /\ finished' = finished /\ handedBack' = handedBack
    BY DEF Exit
  <2>4. active' \in 0 .. MaxActive
    BY <2>3, MaxActiveAssumption
  <2>5. draining' \in BOOLEAN /\ open' \in BOOLEAN
    BY <2>3
  <2>6. GateTypeOK'
    BY <1>1, <2>2, <2>3, <2>4, <2>5 DEF GateInv, GateTypeOK
  <2>7. SlotsExact'
    BY <2>1, <2>3, MaxActiveAssumption DEF SlotsExact
  <2>8. NoIdleSlot' /\ NoTimerLeak' /\ ClosedIsEmpty'
    BY <2>3 DEF NoIdleSlot, NoTimerLeak, ClosedIsEmpty
  <2>9. JobsPartitioned'
    BY <1>1, <2>2, <2>3 DEF GateInv, JobsPartitioned
  <2>10. QED
    BY <2>6, <2>7, <2>8, <2>9 DEF GateInv
<1>3. /\ stage' = [d \in Jobs |-> "idle"]
      /\ tries' = [d \in Jobs |-> 0]
      /\ extending' = {} /\ handed' = {}
      /\ UNCHANGED <<brokerVars, history>>
  BY DEF Exit
<1>4. NotifyingIsStored'
  BY <1>3 DEF NotifyingIsStored
<1>5. NoLoss' /\ NoSilentExhaustion'
  BY <1>1, <1>3, NothingSettled DEF DeliveryInv, DeliveryTypeOK, brokerVars, history
<1>6. stage' \in [Jobs -> Stages] /\ tries' \in [Jobs -> 0 .. PublishAttempts]
  BY <1>3, DeliveryAssumption DEF Stages
<1>7. PipelineInv'
  BY <1>1, <1>3, <1>4, <1>5, <1>6
  DEF PipelineInv, DeliveryInv, DeliveryTypeOK, brokerVars, history
<1>8. PodInv'
  BY <1>1, Halves DEF Exit, PodInv, DownIsRestarted, brokerVars, history
<1>9. QED
  BY <1>2, <1>7, <1>8, HalvesNext DEF Inv

\* A new incarnation opens an empty gate.
LEMMA StartSafe ==
  ASSUME Inv, Start
  PROVE  Inv'
<1>1. DeliveryInv /\ GateInv /\ setup' = setup
  BY DEF Inv, Start
<1>2. GateInv'
  BY <1>1
  DEF Start, GateInv, GateTypeOK, SlotsExact, NoIdleSlot, JobsPartitioned, NoTimerLeak,
      ClosedIsEmpty, Parked
<1>3. PipelineInv'
  BY <1>1, ParkSafe DEF Start, brokerVars, history
<1>4. PodInv'
  BY <1>1, Halves, DeliveryAssumption DEF Start, PodInv, DownIsRestarted, brokerVars, history
<1>5. QED
  BY <1>2, <1>3, <1>4, HalvesNext DEF Inv

--------------------------------------------------------------------------------
\* The initial states satisfy the invariant.
LEMMA InitInv == Init => Inv
<1>1. SUFFICES ASSUME Init PROVE Inv
  OBVIOUS
<1>2. GateInv
  BY <1>1, GateInitInv DEF Init
<1>3. DeliveryTypeOK
  BY <1>1, DeliveryAssumption DEF Init, DeliveryTypeOK, BrokerStates, Stages, Evidence, Causes
<1>4. DownIsRestarted /\ NotifyingIsStored /\ NoLoss /\ NoSilentExhaustion
  BY <1>1 DEF Init, DownIsRestarted, NotifyingIsStored, NoLoss, NoSilentExhaustion
<1>5. QED
  BY <1>2, <1>3, <1>4 DEF Inv, DeliveryInv

\* Every pipeline step keeps both invariants.
LEMMA PipelineSafe ==
  ASSUME Inv, NEW d \in Jobs, Pipeline(d) \/ FirstWorking(d) \/ BudgetElapses(d)
  PROVE  Inv'
<1>1. DeliveryInv /\ GateInv
  BY DEF Inv
<1>2. DeliveryInv'
  BY <1>1, HandlerReturnsSafe, HandlerFailsSafe, DlqPublishSucceedsSafe, DlqPublishFailsSafe,
     NotifySafe, FallbackSafe, FinishSafe
  DEF Pipeline
<1>3. GateInv'
  <2>1. RouteDone(d) \/ ParkTimerLapses(d) \/ UNCHANGED gateVars
    BY DEF Pipeline, FirstWorking, BudgetElapses, HandlerReturns, HandlerFails, DlqPublishSucceeds,
           DlqPublishFails, NotifyDeadLetterCallback, FallbackToOnDeadLetterCallback, Finish, Advance
  <2>2. QED
    BY <1>1, <2>1, RouteDoneInv, ParkTimerLapsesInv, GateNextInv
<1>4. QED
  BY <1>2, <1>3 DEF Inv

\* Every step of the system keeps the invariant.
LEMMA NextInv == Inv /\ [Next]_vars => Inv'
<1>1. SUFFICES ASSUME Inv, [Next]_vars PROVE Inv'
  OBVIOUS
<1>2. DeliveryInv /\ GateInv
  BY <1>1 DEF Inv
<1>3. CASE UNCHANGED vars
  <2>1. UNCHANGED gateVars /\ UNCHANGED <<brokerVars, wire, podVars, pipeVars, history>>
    BY <1>3 DEF vars
  <2>2. GateInv'
    BY <1>2, <2>1, GateNextInv
  <2>3. PipelineInv'
    BY <1>2, <2>1, ParkSafe DEF brokerVars, podVars, history
  <2>4. PodInv'
    BY <1>2, <2>1, Halves DEF PodInv, DownIsRestarted, brokerVars, podVars, history
  <2>5. QED
    BY <2>2, <2>3, <2>4, HalvesNext DEF Inv
<1>4. ASSUME NEW m \in Msgs, Deliver(m) \/ AckWaitExpires(m) PROVE Inv'
  <2>1. UNCHANGED gateVars
    BY <1>4 DEF Deliver, AckWaitExpires
  <2>2. GateInv'
    BY <1>2, <2>1, GateNextInv
  <2>3. QED
    BY <1>2, <1>4, <2>2, DeliverSafe, AckWaitExpiresSafe DEF Inv
<1>5. ASSUME NEW n \in MaxDelivers, UpdateConsumer(n) PROVE Inv'
  <2>1. UNCHANGED gateVars
    BY <1>5 DEF UpdateConsumer
  <2>2. GateInv'
    BY <1>2, <2>1, GateNextInv
  <2>3. QED
    BY <1>2, <1>5, <2>2, UpdateConsumerSafe DEF Inv
<1>6. ASSUME NEW d \in Jobs, Push(d) \/ Pipeline(d) \/ FirstWorking(d) \/ BudgetElapses(d) PROVE Inv'
  BY <1>1, <1>6, PushSafe, PipelineSafe
<1>7. QED
  BY <1>1, <1>3, <1>4, <1>5, <1>6, DrainSafe, CloseSafe, ExitSafe, StartSafe DEF Next, Broker

--------------------------------------------------------------------------------
\* The inductive invariant holds in every reachable state.
THEOREM DeliveryCorrect == Spec => []Inv
BY InitInv, NextInv, PTL DEF Spec

\* The state of broker, pod, gate and pipeline is always well typed.
THEOREM DeliveryTyped == Spec => []TypeOK
<1>1. Inv => TypeOK
  BY DEF Inv, GateInv, DeliveryInv, TypeOK
<1>2. QED
  BY <1>1, DeliveryCorrect, PTL

\* No acknowledged loss: whatever the options and the failures, a message leaves
\* the stream only after a handler, the DLQ stream or the callback took it.
THEOREM DeliveryNoLoss == Spec => []NoLoss
<1>1. Inv => NoLoss
  BY DEF Inv, DeliveryInv
<1>2. QED
  BY <1>1, DeliveryCorrect, PTL

\* With a capture configured, settleSuccess() and settleFailure() never nak the last
\* delivery of a message (while the pod's threshold is the consumer's).
THEOREM DeliveryNoSilentExhaustion == Spec => []NoSilentExhaustion
<1>1. Inv => NoSilentExhaustion
  BY DEF Inv, DeliveryInv
<1>2. QED
  BY <1>1, DeliveryCorrect, PTL

--------------------------------------------------------------------------------
(***************************************************************************)
(* Gate, pipeline and extension pool agree.                                *)
(***************************************************************************)
\* PipelineMatchesGate without the timers, which GateInv has.
MatchInv ==
  /\ \A d \in Jobs : stage[d] # "idle" <=> d \in inflight
  /\ extending \subseteq inflight

\* Routing a delivery to a Promise gives it a stage and, when it is routable, an
\* extension; nothing is settled unless that is the end of it.
LEMMA RouteAsyncEnters ==
  ASSUME NEW d \in Jobs, RouteAsync(d)
  PROVE  \E s \in {"handling", "publishing", "fallback", "settled"} :
           /\ stage' = [stage EXCEPT ![d] = s]
           /\ extending' = IF setup.ext /\ d[1] \notin Unroutable
                           THEN extending \cup {d} ELSE extending
           /\ s = "settled" \/ bstate' = bstate
<1>1. CaptureStage \in {"publishing", "fallback"}
  BY CaptureStageTyped
<1>2. ASSUME NEW s \in {"handling", "publishing", "fallback"}, EnterPipeline(d, s), bstate' = bstate
      PROVE  /\ stage' = [stage EXCEPT ![d] = s]
             /\ extending' = IF setup.ext /\ d[1] \notin Unroutable
                             THEN extending \cup {d} ELSE extending
  BY <1>2 DEF EnterPipeline
<1>3. ASSUME EnterPipeline(d, "settled")
      PROVE  /\ stage' = [stage EXCEPT ![d] = "settled"]
             /\ extending' = IF setup.ext /\ d[1] \notin Unroutable
                             THEN extending \cup {d} ELSE extending
  BY <1>3 DEF EnterPipeline
<1>4. \/ \E s \in {"handling", "publishing", "fallback"} : EnterPipeline(d, s) /\ bstate' = bstate
      \/ EnterPipeline(d, "settled")
  BY <1>1 DEF RouteAsync
<1> QED BY <1>2, <1>3, <1>4

\* The pipeline's own steps move a delivery that is in the gate, and keep it there.
LEMMA PipelineAdvances ==
  ASSUME NEW d \in Jobs, Pipeline(d), ~Finish(d)
  PROVE  \E s, t \in Stages \ {"idle"} :
           /\ Advance(d, s, t)
           /\ s # "settled"
           /\ t = "settled" \/ bstate' = bstate
<1> USE DEF Stages
<1>1. CASE HandlerReturns(d)
  BY <1>1 DEF HandlerReturns
<1>2. CASE HandlerFails(d)
  BY <1>2, CaptureStageTyped DEF HandlerFails
<1>3. CASE DlqPublishSucceeds(d)
  BY <1>3 DEF DlqPublishSucceeds
<1>4. CASE DlqPublishFails(d)
  BY <1>4 DEF DlqPublishFails
<1>5. CASE NotifyDeadLetterCallback(d)
  BY <1>5 DEF NotifyDeadLetterCallback
<1>6. CASE FallbackToOnDeadLetterCallback(d)
  BY <1>6 DEF FallbackToOnDeadLetterCallback
<1> QED BY <1>1, <1>2, <1>3, <1>4, <1>5, <1>6 DEF Pipeline

\* A parked delivery that the drain loop routes is a delivery of the gate.
LEMMA HeadIsParked ==
  ASSUME GateInv, DrainsAsync \/ DrainsSync
  PROVE  /\ Head(backlog) \in Jobs
         /\ Head(backlog) \in Parked
         /\ Parked' = Parked \ {Head(backlog)}
BY TailShifts DEF GateInv, GateTypeOK, JobsPartitioned, DrainsAsync, DrainsSync, DrainHead, Parked

\* Every step keeps gate, pipeline and extension pool in agreement.
LEMMA MatchStep == Inv /\ MatchInv /\ [Next]_vars => MatchInv'
<1> SUFFICES ASSUME Inv, MatchInv, [Next]_vars PROVE MatchInv'
  OBVIOUS
<1> GateInv /\ DeliveryInv /\ stage \in [Jobs -> Stages]
  BY DEF Inv, DeliveryInv, DeliveryTypeOK
<1>1. ASSUME UNCHANGED <<stage, extending, inflight>>
      PROVE  MatchInv'
  BY <1>1 DEF MatchInv
<1>2. ASSUME NEW d \in Jobs, RouteAsync(d), inflight' = inflight \cup {d}
      PROVE  MatchInv'
  BY <1>2, RouteAsyncEnters DEF MatchInv
<1>3. ASSUME NEW m \in Msgs, Broker(m)
      PROVE  MatchInv'
  BY <1>1, <1>3 DEF Broker, Deliver, AckWaitExpires, gateVars, pipeVars
<1>4. ASSUME NEW n \in MaxDelivers, UpdateConsumer(n)
      PROVE  MatchInv'
  BY <1>1, <1>4 DEF UpdateConsumer, gateVars, pipeVars
<1>5. ASSUME NEW d \in Jobs, Push(d)
      PROVE  MatchInv'
  BY <1>1, <1>2, <1>5
     DEF Push, PushParks, PushRoutesAsync, PushRoutesSync, RouteSync, pipeVars
<1>6. ASSUME NEW d \in Jobs, Pipeline(d)
      PROVE  MatchInv'
  <2>1. CASE Finish(d)
    BY <2>1 DEF Finish, RouteDone, MatchInv
  <2>2. CASE ~Finish(d)
    <3>1. PICK s, t \in Stages \ {"idle"} : Advance(d, s, t)
      BY <1>6, <2>2, PipelineAdvances
    <3> QED BY <3>1 DEF Advance, gateVars, MatchInv
  <2> QED BY <2>1, <2>2
<1>7. ASSUME NEW d \in Jobs, FirstWorking(d) \/ BudgetElapses(d)
      PROVE  MatchInv'
  BY <1>7 DEF FirstWorking, BudgetElapses, ParkTimerLapses, gateVars, MatchInv
<1>8. CASE Drain
  BY <1>1, <1>2, <1>8, HeadIsParked
     DEF Drain, DrainsAsync, DrainsSync, DrainEnds, RouteSync, pipeVars
<1>9. CASE Close
  BY <1>1, <1>9 DEF Close, Dispose, pipeVars
<1>10. CASE Exit
  BY <1>10 DEF Exit, MatchInv
<1>11. CASE Start
  BY <1>1, <1>11 DEF Start, pipeVars
<1>12. CASE UNCHANGED vars
  BY <1>1, <1>12 DEF vars, gateVars, pipeVars
<1> QED BY <1>3, <1>4, <1>5, <1>6, <1>7, <1>8, <1>9, <1>10, <1>11, <1>12 DEF Next

\* A slot is held exactly while the pipeline works on a delivery, and no ack extension
\* outlives its delivery's place in the gate, whatever ended it.
THEOREM GateAgrees == Spec => []PipelineMatchesGate
<1>1. Init => MatchInv
  BY DEF Init, GateInit, MatchInv
<1>2. Inv /\ MatchInv => PipelineMatchesGate
  BY DEF Inv, GateInv, MatchInv, PipelineMatchesGate
<1> QED BY <1>1, <1>2, MatchStep, DeliveryCorrect, PTL DEF Spec

--------------------------------------------------------------------------------
(***************************************************************************)
(* One handler for a message at a time.                                    *)
(*                                                                         *)
(* A delivery is held while the broker may not count on anything but this  *)
(* pod for its message: it is on the wire of a pod that pushes, parked, or *)
(* in the pipeline and unsettled.  As long as the connection works, the    *)
(* interval is below ack_wait and ack extension has not let go of it, the  *)
(* message of a held delivery is pending, and the delivery is its latest.  *)
(***************************************************************************)
Held ==
  {d \in wire \cup Parked \cup inflight :
     /\ d \in wire => pod = "running"
     /\ d \in inflight => stage[d] # "settled"}

\* Messages that ack extension is not responsible for, or not any more.
Exempt == Unroutable \cup lapsed

\* No delivery is ahead of the broker's count.
CountBound == \A d \in wire \cup Parked \cup inflight : d[2] <= count[d[1]]

\* What is on the wire has not been pushed, and nothing is sent to a pod that is down.
WireFresh ==
  /\ wire \cap (Parked \cup inflight) = {}
  /\ pod = "down" => wire = {}

\* Every delivery in the gate is extended until its budget runs out.
AllExtended ==
  setup.ext => /\ \A d \in Parked : d[1] \in lapsed \/ d \in timers
               /\ \A d \in inflight : d[1] \in Exempt \/ d \in extending

HeldIsLatest ==
  ExtensionHolds =>
    \A d \in Held : d[1] \in Exempt \/ (bstate[d[1]] = "pending" /\ d[2] = count[d[1]])

FlightInv == CountBound /\ WireFresh /\ AllExtended /\ HeldIsLatest

FullInv == Inv /\ MatchInv /\ FlightInv

\* The gate and the wire hold deliveries.
LEMMA HeldTyped ==
  ASSUME Inv
  PROVE  /\ wire \subseteq Jobs /\ Parked \subseteq Jobs /\ inflight \subseteq Jobs
         /\ \A d \in Jobs : count[d[1]] \in Nat /\ d[2] \in Nat
<1>1. Parked \subseteq Jobs
  <2>1. backlog \in [1 .. Len(backlog) -> Jobs]
    BY DEF Inv, GateInv, GateTypeOK
  <2> QED BY <2>1 DEF Parked, Range
<1>2. wire \subseteq Jobs /\ inflight \subseteq Jobs /\ count \in [Msgs -> 0 .. MaxCount]
  BY DEF Inv, GateInv, GateTypeOK, DeliveryInv, DeliveryTypeOK
<1>3. \A d \in Jobs : count[d[1]] \in Nat /\ d[2] \in Nat
  BY <1>2, DeliveryParts, DeliveryAssumption
<1> QED BY <1>1, <1>2, <1>3

\* Two held deliveries of a message that ack extension takes care of are the same.
LEMMA HeldUnique ==
  ASSUME Inv, FlightInv, ExtensionHolds,
         NEW c \in Held, NEW d \in Held, c[1] = d[1], d[1] \notin Exempt
  PROVE  c = d
<1>1. c[2] = count[c[1]] /\ d[2] = count[d[1]]
  BY DEF FlightInv, HeldIsLatest
<1>2. c \in Jobs /\ d \in Jobs
  BY HeldTyped DEF Held
<1>3. c = <<c[1], c[2]>> /\ d = <<d[1], d[2]>>
  BY <1>2, DeliveryAssumption
<1> QED BY <1>1, <1>3

\* A step that lets go of deliveries at most, and leaves the broker's messages alone
\* but for exempt ones and those without a held delivery, keeps the latest held.
LEMMA HeldShrinks ==
  ASSUME Inv, FlightInv, setup' = setup, count' = count, lapsed \subseteq lapsed',
         Held' \subseteq Held,
         ExtensionHolds =>
           \A d \in Held' : d[1] \in Exempt \/ bstate'[d[1]] = bstate[d[1]]
  PROVE  HeldIsLatest'
<1>1. Exempt \subseteq Exempt'
  BY DEF Exempt, Unroutable
<1> SUFFICES ASSUME ExtensionHolds, NEW d \in Held'
             PROVE  d[1] \in Exempt' \/ (bstate'[d[1]] = "pending" /\ d[2] = count'[d[1]])
  BY DEF HeldIsLatest, ExtensionHolds
<1>2. d[1] \in Exempt \/ (bstate[d[1]] = "pending" /\ d[2] = count[d[1]])
  BY DEF FlightInv, HeldIsLatest
<1> QED BY <1>1, <1>2

\* A delivery that is settled lets go of its message: no other held one is affected.
LEMMA HeldSettles ==
  ASSUME Inv, FlightInv, setup' = setup, count' = count, lapsed \subseteq lapsed',
         NEW d \in Held, Held' \subseteq Held \ {d},
         \A m \in Msgs \ {d[1]} : bstate'[m] = bstate[m]
  PROVE  HeldIsLatest'
<1>1. ASSUME ExtensionHolds, NEW c \in Held', c[1] \notin Exempt
      PROVE  bstate'[c[1]] = bstate[c[1]]
  <2>1. c \in Held /\ c # d
    OBVIOUS
  <2>2. c[1] # d[1]
    BY <1>1, <2>1, HeldUnique
  <2>3. c \in Jobs
    BY <2>1, HeldTyped DEF Held
  <2> QED BY <2>2, <2>3, DeliveryParts
<1> QED BY <1>1, HeldShrinks

\* A settlement concerns one message.
LEMMA SettlesOne ==
  ASSUME DeliveryInv, NEW d \in Jobs, NEW why, Nak(d, why) \/ AckOrTerm(d[1])
  PROVE  \A m \in Msgs \ {d[1]} : bstate'[m] = bstate[m]
<1>1. bstate \in [Msgs -> BrokerStates]
  BY DEF DeliveryInv, DeliveryTypeOK
<1>2. bstate' = bstate \/ \E t : bstate' = [bstate EXCEPT ![d[1]] = t]
  BY DEF Nak, AckOrTerm, Return, Discharge, Lost
<1> QED BY <1>1, <1>2

\* What routing and the pipeline do to the other messages: nothing.
LEMMA RouteSettlesOne ==
  ASSUME DeliveryInv, NEW d \in Jobs, RouteAsync(d) \/ RouteSync(d) \/ (Pipeline(d) /\ ~Finish(d))
  PROVE  \A m \in Msgs \ {d[1]} : bstate'[m] = bstate[m]
<1>1. CASE RouteAsync(d)
  BY <1>1, SettlesOne DEF RouteAsync
<1>2. CASE RouteSync(d)
  BY <1>2, SettlesOne DEF RouteSync
<1>3. CASE Pipeline(d) /\ ~Finish(d)
  BY <1>3, SettlesOne
     DEF Pipeline, HandlerReturns, HandlerFails, DlqPublishSucceeds, DlqPublishFails,
         NotifyDeadLetterCallback, FallbackToOnDeadLetterCallback
<1> QED BY <1>1, <1>2, <1>3

\* A delivery that push() or the drain loop takes is held, and is nowhere else.
LEMMA TakenHeld ==
  ASSUME FullInv, NEW d \in Jobs,
         \/ pod = "running" /\ d \in wire /\ d \in Fresh
         \/ d \in Parked
  PROVE  d \in Held /\ d \notin inflight
<1>1. d \notin inflight
  BY DEF FullInv, Inv, GateInv, JobsPartitioned, Fresh
<1>2. d \in Parked => d \notin wire
  BY DEF FullInv, FlightInv, WireFresh
<1> QED BY <1>1, <1>2 DEF Held

\* route(): the delivery d leaves the wire or the backlog, and its pipeline starts or
\* is over at once.
LEMMA RouteFlight ==
  ASSUME FullInv, NEW d \in Held, d \in Jobs, d \notin inflight,
         UNCHANGED <<count, podVars, lapsed>>,
         wire' = wire \ {d}, Parked' = Parked \ {d}, timers' \in {timers, timers \ {d}},
         \/ RouteAsync(d) /\ inflight' = inflight \cup {d}
         \/ RouteSync(d) /\ inflight' = inflight
  PROVE  FlightInv'
<1> Inv /\ MatchInv /\ FlightInv /\ DeliveryInv /\ stage \in [Jobs -> Stages]
  BY DEF FullInv, Inv, DeliveryInv, DeliveryTypeOK
<1>0. setup' = setup /\ pod' = pod /\ count' = count /\ lapsed' = lapsed
  BY DEF podVars
<1>1. CountBound'
  BY <1>0 DEF FlightInv, CountBound, Held
<1>2. WireFresh'
  BY <1>0 DEF FlightInv, WireFresh
<1>3. Unroutable' = Unroutable /\ Exempt' = Exempt
  BY <1>0 DEF Unroutable, Exempt
<1>4. CASE RouteAsync(d) /\ inflight' = inflight \cup {d}
  <2>1. PICK s \in {"handling", "publishing", "fallback", "settled"} :
          /\ stage' = [stage EXCEPT ![d] = s]
          /\ extending' = IF setup.ext /\ d[1] \notin Unroutable
                          THEN extending \cup {d} ELSE extending
          /\ s = "settled" \/ bstate' = bstate
    BY <1>4, RouteAsyncEnters
  <2>2. AllExtended'
    BY <1>0, <1>3, <1>4, <2>1 DEF FlightInv, AllExtended, Exempt
  <2>3. Held' \subseteq Held
    BY <1>0, <1>4, <2>1, HeldTyped DEF Held
  <2>4. CASE s = "settled"
    <3>1. Held' \subseteq Held \ {d}
      BY <1>4, <2>1, <2>3, <2>4 DEF Held
    <3>2. HeldIsLatest'
      BY <1>0, <1>4, <3>1, RouteSettlesOne, HeldSettles
    <3> QED BY <1>1, <1>2, <2>2, <3>2 DEF FlightInv
  <2>5. CASE bstate' = bstate
    <3>1. HeldIsLatest'
      BY <1>0, <2>3, <2>5, HeldShrinks
    <3> QED BY <1>1, <1>2, <2>2, <3>1 DEF FlightInv
  <2> QED BY <2>1, <2>4, <2>5
<1>5. CASE RouteSync(d) /\ inflight' = inflight
  <2>1. stage' = stage /\ extending' = extending
    BY <1>5 DEF RouteSync, pipeVars
  <2>2. AllExtended'
    BY <1>0, <1>3, <1>5, <2>1 DEF FlightInv, AllExtended
  <2>3. Held' \subseteq Held \ {d}
    BY <1>0, <1>5, <2>1 DEF Held
  <2>4. HeldIsLatest'
    BY <1>0, <1>5, <2>3, RouteSettlesOne, HeldSettles
  <2> QED BY <1>1, <1>2, <2>2, <2>4 DEF FlightInv
<1> QED BY <1>4, <1>5

\* push() parks a delivery with its extension, or routes it.
LEMMA PushFlight ==
  ASSUME FullInv, NEW d \in Jobs, Push(d)
  PROVE  FlightInv'
<1> Inv /\ MatchInv /\ FlightInv /\ GateInv
  BY DEF FullInv, Inv
<1>1. /\ pod = "running" /\ d \in wire /\ wire' = wire \ {d} /\ d \in Fresh
      /\ UNCHANGED <<count, podVars, lapsed>>
  BY DEF Push, PushParks, PushRoutesAsync, PushRoutesSync
<1>2. d \in Held /\ d \notin inflight /\ d \notin Parked
  BY <1>1, TakenHeld DEF Fresh
<1>3. CASE PushParks(d, setup.ext) /\ UNCHANGED <<bstate, pipeVars, evidence, cause>>
  <2>1. setup' = setup /\ pod' = pod /\ count' = count /\ lapsed' = lapsed /\ inflight' = inflight
        /\ stage' = stage /\ extending' = extending /\ bstate' = bstate
    BY <1>1, <1>3 DEF podVars, pipeVars, PushParks
  <2>2. Parked' = Parked \cup {d}
    BY <1>3, AppendParks DEF PushParks, GateInv, GateTypeOK, Parked
  <2>3. timers' = IF setup.ext THEN timers \cup {d} ELSE timers
    BY <1>3 DEF PushParks
  <2>4. CountBound' /\ WireFresh'
    BY <1>1, <1>2, <2>1, <2>2 DEF FlightInv, CountBound, WireFresh
  <2>5. Exempt' = Exempt
    BY <2>1 DEF Exempt, Unroutable
  <2>6. AllExtended'
    BY <2>1, <2>2, <2>3, <2>5 DEF FlightInv, AllExtended
  <2>7. Held' \subseteq Held
    BY <1>1, <1>2, <2>1, <2>2 DEF Held
  <2>8. HeldIsLatest'
    BY <2>1, <2>7, HeldShrinks
  <2> QED BY <2>4, <2>6, <2>8 DEF FlightInv
<1>4. CASE \/ PushRoutesAsync(d) /\ RouteAsync(d)
           \/ PushRoutesSync(d) /\ RouteSync(d)
  <2>1. /\ Parked' = Parked \ {d} /\ timers' = timers
        /\ \/ RouteAsync(d) /\ inflight' = inflight \cup {d}
           \/ RouteSync(d) /\ inflight' = inflight
    BY <1>2, <1>4 DEF PushRoutesAsync, PushRoutesSync, Parked
  <2> QED BY <1>1, <1>2, <2>1, RouteFlight
<1> QED BY <1>3, <1>4 DEF Push

\* The drain loop routes the oldest parked delivery.
LEMMA DrainFlight ==
  ASSUME FullInv, Drain
  PROVE  FlightInv'
<1> Inv /\ MatchInv /\ FlightInv /\ GateInv
  BY DEF FullInv, Inv
<1>1. UNCHANGED <<count, podVars, lapsed>> /\ wire' = wire
  BY DEF Drain
<1>2. CASE DrainEnds /\ UNCHANGED <<bstate, pipeVars, evidence, cause>>
  <2>1. UNCHANGED <<count, setup, pod, lapsed, wire, inflight, timers, backlog, bstate, stage,
                    extending>>
    BY <1>1, <1>2 DEF podVars, pipeVars, DrainEnds
  <2> QED BY <2>1
      DEF FlightInv, CountBound, WireFresh, AllExtended, HeldIsLatest, Held, Exempt, ExtensionHolds, Unroutable,
          Parked
<1>3. CASE \/ DrainsAsync /\ RouteAsync(Head(backlog))
           \/ DrainsSync /\ RouteSync(Head(backlog))
  <2> DEFINE d == Head(backlog)
  <2>1. d \in Jobs /\ d \in Parked /\ Parked' = Parked \ {d}
    BY <1>3, HeadIsParked
  <2>2. d \in Held /\ d \notin inflight /\ d \notin wire
    BY <2>1, TakenHeld DEF FlightInv, WireFresh
  <2>3. /\ timers' = timers \ {d}
        /\ \/ RouteAsync(d) /\ inflight' = inflight \cup {d}
           \/ RouteSync(d) /\ inflight' = inflight
    BY <1>3 DEF DrainsAsync, DrainsSync, DrainHead
  <2>4. wire' = wire \ {d}
    BY <1>1, <2>2
  <2> HIDE DEF d
  <2> QED BY <1>1, <2>1, <2>2, <2>3, <2>4, RouteFlight
<1> QED BY <1>2, <1>3 DEF Drain

\* The pipeline moves a delivery on, settles it, or is done with it.
LEMMA PipelineFlight ==
  ASSUME FullInv, NEW d \in Jobs, Pipeline(d)
  PROVE  FlightInv'
<1> Inv /\ MatchInv /\ FlightInv /\ GateInv /\ DeliveryInv /\ stage \in [Jobs -> Stages]
  BY DEF FullInv, Inv, DeliveryInv, DeliveryTypeOK
<1>1. CASE Finish(d)
  <2>1. /\ stage' = [stage EXCEPT ![d] = "idle"] /\ extending' = extending \ {d}
        /\ d \in inflight /\ inflight' = inflight \ {d}
        /\ UNCHANGED <<count, setup, pod, lapsed, wire, timers, backlog, bstate>>
    BY <1>1 DEF Finish, RouteDone, brokerVars, podVars, history
  <2>2. Parked' = Parked /\ Exempt' = Exempt
    BY <2>1 DEF Parked, Exempt, Unroutable
  <2>3. CountBound' /\ WireFresh' /\ AllExtended'
    BY <2>1, <2>2 DEF FlightInv, CountBound, WireFresh, AllExtended
  <2>4. d \notin wire /\ d \notin Parked
    BY <2>1 DEF FlightInv, WireFresh, GateInv, JobsPartitioned
  <2>5. Held' \subseteq Held
    BY <2>1, <2>2, <2>4, HeldTyped DEF Held
  <2>6. HeldIsLatest'
    BY <2>1, <2>5, HeldShrinks
  <2> QED BY <2>3, <2>6 DEF FlightInv
<1>2. CASE ~Finish(d)
  <2>1. PICK s, t \in Stages \ {"idle"} :
          Advance(d, s, t) /\ s # "settled" /\ (t = "settled" \/ bstate' = bstate)
    BY <1>2, PipelineAdvances
  <2>2. /\ stage[d] = s /\ stage' = [stage EXCEPT ![d] = t]
        /\ UNCHANGED <<count, setup, pod, lapsed, wire, timers, backlog, inflight, extending>>
    BY <2>1 DEF Advance, gateVars, podVars
  <2>3. d \in inflight
    BY <2>2 DEF MatchInv
  <2>4. Parked' = Parked /\ Exempt' = Exempt
    BY <2>2 DEF Parked, Exempt, Unroutable
  <2>5. CountBound' /\ WireFresh' /\ AllExtended'
    BY <2>2, <2>4 DEF FlightInv, CountBound, WireFresh, AllExtended
  <2>6. d \in Held /\ Held' \subseteq Held
    BY <2>1, <2>2, <2>3, <2>4, HeldTyped DEF Held, FlightInv, WireFresh
  <2>7. HeldIsLatest'
    <3>1. CASE t = "settled"
      <4>1. Held' \subseteq Held \ {d}
        BY <2>2, <2>3, <2>6, <3>1 DEF Held
      <4> QED BY <1>2, <2>2, <2>6, <4>1, RouteSettlesOne, HeldSettles
    <3>2. CASE bstate' = bstate
      BY <2>2, <2>6, <3>2, HeldShrinks
    <3> QED BY <2>1, <3>1, <3>2
  <2> QED BY <2>5, <2>7 DEF FlightInv
<1> QED BY <1>1, <1>2

\* An extension whose budget runs out makes its message exempt.
LEMMA BudgetFlight ==
  ASSUME FullInv, NEW d \in Jobs, BudgetElapses(d)
  PROVE  FlightInv'
<1> Inv /\ FlightInv
  BY DEF FullInv
<1>1. /\ lapsed' = lapsed \cup {d[1]}
      /\ timers' \in {timers, timers \ {d}} /\ extending' \in {extending, extending \ {d}}
      /\ UNCHANGED <<count, setup, pod, wire, backlog, inflight, stage, bstate>>
  BY DEF BudgetElapses, ParkTimerLapses, gateVars, brokerVars, podVars
<1>2. Parked' = Parked /\ Held' = Held /\ Unroutable' = Unroutable
  BY <1>1 DEF Parked, Held, Unroutable
<1>3. CountBound' /\ WireFresh'
  BY <1>1, <1>2 DEF FlightInv, CountBound, WireFresh
<1>4. AllExtended'
  BY <1>1, <1>2 DEF FlightInv, AllExtended, Exempt
<1>5. HeldIsLatest'
  BY <1>1, <1>2, HeldShrinks
<1> QED BY <1>3, <1>4, <1>5 DEF FlightInv

\* The first working() of an entry changes nothing a held delivery depends on.
LEMMA WorkingFlight ==
  ASSUME FullInv, NEW d \in Jobs, FirstWorking(d)
  PROVE  FlightInv'
<1>1. UNCHANGED <<count, setup, pod, lapsed, wire, inflight, timers, backlog, bstate, stage,
                  extending>>
  BY DEF FirstWorking, gateVars, brokerVars, podVars, history
<1> QED BY <1>1
    DEF FullInv, FlightInv, CountBound, WireFresh, AllExtended, HeldIsLatest, Held, Exempt,
        ExtensionHolds, Unroutable, Parked

\* The broker sends a message only while no delivery of it is held.
LEMMA DeliverFlight ==
  ASSUME FullInv, NEW m \in Msgs, Deliver(m)
  PROVE  FlightInv'
<1> Inv /\ FlightInv /\ DeliveryInv
  BY DEF FullInv, Inv
<1> DEFINE e == <<m, count[m] + 1>>
<1>1. /\ bstate[m] = "ready" /\ bstate' = [bstate EXCEPT ![m] = "pending"]
      /\ count' = [count EXCEPT ![m] = @ + 1] /\ wire' = wire \cup {e} /\ pod # "down"
      /\ UNCHANGED <<setup, pod, lapsed, timers, backlog, inflight, stage, extending>>
  BY DEF Deliver, gateVars, podVars, pipeVars, history
<1>2. bstate \in [Msgs -> BrokerStates] /\ count \in [Msgs -> Nat]
  BY DeliveryAssumption DEF DeliveryInv, DeliveryTypeOK
<1>3. Parked' = Parked /\ Exempt' = Exempt /\ e[1] = m /\ e[2] = count[m] + 1
  BY <1>1 DEF Parked, Exempt, Unroutable
<1>4. e \notin wire /\ e \notin Parked /\ e \notin inflight
  BY <1>2, <1>3 DEF FlightInv, CountBound
<1>5. count'[m] = count[m] + 1 /\ \A n \in Msgs \ {m} : count'[n] = count[n]
  BY <1>1, <1>2
<1> HIDE DEF e
<1>6. CountBound'
  <2> SUFFICES ASSUME NEW c \in wire' \cup Parked' \cup inflight'
               PROVE  c[2] <= count'[c[1]]
    BY DEF CountBound
  <2>1. CASE c = e
    BY <1>2, <1>3, <1>5, <2>1
  <2>2. CASE c # e
    <3>1. c \in Jobs /\ c[2] <= count[c[1]] /\ c[2] \in Nat /\ c[1] \in Msgs
      BY <1>1, <1>3, <2>2, HeldTyped, DeliveryParts DEF FlightInv, CountBound
    <3> QED BY <1>2, <1>5, <3>1
  <2> QED BY <2>1, <2>2
<1>7. WireFresh'
  BY <1>1, <1>3, <1>4 DEF FlightInv, WireFresh
<1>8. AllExtended'
  BY <1>1, <1>3 DEF FlightInv, AllExtended
<1>9. HeldIsLatest'
  <2> SUFFICES ASSUME ExtensionHolds, NEW c \in Held', c[1] \notin Exempt
               PROVE  bstate'[c[1]] = "pending" /\ c[2] = count'[c[1]]
    BY <1>1, <1>3 DEF HeldIsLatest, ExtensionHolds
  <2>1. CASE c = e
    BY <1>1, <1>2, <1>3, <1>5, <2>1
  <2>2. CASE c # e
    <3>1. c \in Held /\ c \in Jobs
      BY <1>1, <1>3, <2>2, HeldTyped DEF Held
    <3>2. bstate[c[1]] = "pending" /\ c[2] = count[c[1]]
      BY <3>1 DEF FlightInv, HeldIsLatest
    <3>3. c[1] # m /\ c[1] \in Msgs
      BY <1>1, <3>1, <3>2, DeliveryParts
    <3> QED BY <1>1, <1>2, <1>5, <3>2, <3>3
  <2> QED BY <2>1, <2>2
<1> QED BY <1>6, <1>7, <1>8, <1>9 DEF FlightInv

\* ack_wait runs out under a held delivery only between the backlog and the first
\* working() of its new entry, which makes its message exempt.
LEMMA ExpiryFlight ==
  ASSUME FullInv, NEW m \in Msgs, AckWaitExpires(m)
  PROVE  FlightInv'
<1> Inv /\ FlightInv /\ DeliveryInv
  BY DEF FullInv, Inv
<1>1. /\ Covered(m) => setup.flaky
      /\ bstate' = [bstate EXCEPT ![m] = Requeued(m)]
      /\ lapsed \subseteq lapsed'
      /\ (\E d \in handed : d[1] = m) => m \in lapsed'
      /\ UNCHANGED <<count, setup, pod, wire, timers, backlog, inflight, stage, extending>>
  BY DEF AckWaitExpires, gateVars, podVars, pipeVars
<1>2. Parked' = Parked /\ Held' = Held /\ Exempt \subseteq Exempt'
  BY <1>1 DEF Parked, Held, Exempt, Unroutable
<1>3. CountBound' /\ WireFresh' /\ AllExtended'
  BY <1>1, <1>2 DEF FlightInv, CountBound, WireFresh, AllExtended, Exempt
<1>4. ASSUME ExtensionHolds, NEW d \in Held, d[1] \notin Exempt'
      PROVE  bstate'[d[1]] = bstate[d[1]]
  <2>1. d \in Jobs /\ d[1] \in Msgs
    BY HeldTyped, DeliveryParts DEF Held
  <2>2. \/ pod = "running" /\ d \in wire
        \/ d \in extending \cup timers
    BY <1>2, <1>4 DEF Held, FlightInv, AllExtended, Exempt, ExtensionHolds
  <2>3. d[1] = m => d \notin handed
    BY <1>1, <1>4 DEF Exempt
  <2>4. d[1] # m
    BY <1>1, <1>4, <2>2, <2>3 DEF Covered, ExtensionHolds
  <2> QED BY <1>1, <2>1, <2>4 DEF DeliveryInv, DeliveryTypeOK
<1>5. HeldIsLatest'
  <2> SUFFICES ASSUME ExtensionHolds, NEW d \in Held, d[1] \notin Exempt'
               PROVE  bstate'[d[1]] = "pending" /\ d[2] = count'[d[1]]
    BY <1>1, <1>2 DEF HeldIsLatest, ExtensionHolds
  <2> QED BY <1>1, <1>2, <1>4 DEF FlightInv, HeldIsLatest
<1> QED BY <1>3, <1>5 DEF FlightInv

\* A new max_deliver concerns only messages that wait.
LEMMA UpdateFlight ==
  ASSUME FullInv, NEW n \in MaxDelivers, UpdateConsumer(n)
  PROVE  FlightInv'
<1> Inv /\ FlightInv
  BY DEF FullInv
<1>1. UNCHANGED <<count, setup, pod, lapsed, wire, timers, backlog, inflight, stage, extending>>
  BY DEF UpdateConsumer, gateVars, podVars, pipeVars
<1>2. \A m \in Msgs : bstate[m] = "pending" => bstate'[m] = bstate[m]
  BY DEF UpdateConsumer
<1>3. Parked' = Parked /\ Held' = Held /\ Exempt' = Exempt
  BY <1>1 DEF Parked, Held, Exempt, Unroutable
<1>4. CountBound' /\ WireFresh' /\ AllExtended'
  BY <1>1, <1>3 DEF FlightInv, CountBound, WireFresh, AllExtended
<1>5. ASSUME ExtensionHolds, NEW d \in Held, d[1] \notin Exempt
      PROVE  bstate'[d[1]] = bstate[d[1]]
  <2>1. d[1] \in Msgs
    BY HeldTyped, DeliveryParts DEF Held
  <2> QED BY <1>2, <1>5, <2>1 DEF FlightInv, HeldIsLatest
<1>6. HeldIsLatest'
  BY <1>1, <1>3, <1>5, HeldShrinks
<1> QED BY <1>4, <1>6 DEF FlightInv

\* close() gives back only messages whose held delivery is parked.
LEMMA CloseFlight ==
  ASSUME FullInv, Close
  PROVE  FlightInv'
<1> Inv /\ FlightInv /\ GateInv
  BY DEF FullInv, Inv
<1>1. /\ pod = "running" /\ pod' = "closing" /\ backlog' = <<>>
      /\ UNCHANGED <<count, setup, lapsed, wire, inflight, stage, extending>>
  BY DEF Close, Dispose, pipeVars
<1>2. Parked' = {} /\ Exempt' = Exempt
  BY <1>1, EmptyBacklog DEF Parked, Exempt, Unroutable
<1>3. \A m \in Msgs : bstate'[m] = bstate[m] \/ \E d \in Parked : d[1] = m
  <2>1. PICK silent \in SUBSET Parked :
          bstate' = [m \in Msgs |->
            IF m \in {n \in Msgs : \E d \in Parked \ silent : d[1] = n /\ bstate[n] = "pending"}
            THEN Requeued(m) ELSE bstate[m]]
    BY DEF Close
  <2> QED BY <2>1
<1>4. CountBound' /\ WireFresh' /\ AllExtended'
  BY <1>1, <1>2 DEF FlightInv, CountBound, WireFresh, AllExtended
<1>5. Held' \subseteq Held
  BY <1>1, <1>2 DEF Held
<1>6. ASSUME ExtensionHolds, NEW d \in Held', d[1] \notin Exempt
      PROVE  bstate'[d[1]] = bstate[d[1]]
  <2>1. d \in Held /\ d \in inflight /\ d[1] \in Msgs
    BY <1>1, <1>2, <1>5, HeldTyped, DeliveryParts DEF Held
  <2>2. ASSUME NEW c \in Parked, c[1] = d[1]
        PROVE  FALSE
    <3>1. c \in Held /\ c \notin inflight
      BY HeldTyped, TakenHeld
    <3> QED BY <1>6, <2>1, <2>2, <3>1, HeldUnique
  <2> QED BY <1>3, <2>1, <2>2
<1>7. HeldIsLatest'
  BY <1>1, <1>5, <1>6, HeldShrinks
<1> QED BY <1>4, <1>7 DEF FlightInv

\* A process that ended holds nothing, and a new one starts with nothing.
LEMMA RestartFlight ==
  ASSUME FullInv, Exit \/ Start
  PROVE  FlightInv'
<1> FlightInv
  BY DEF FullInv
<1>1. CASE Exit
  <2>1. wire' = {} /\ inflight' = {} /\ Parked' = {}
    BY <1>1, EmptyBacklog DEF Exit, Parked
  <2>2. Held' = {}
    BY <2>1 DEF Held
  <2> QED BY <2>1, <2>2 DEF FlightInv, CountBound, WireFresh, AllExtended, HeldIsLatest
<1>2. CASE Start
  <2>1. /\ pod = "down" /\ pod' = "running"
        /\ UNCHANGED <<count, setup, lapsed, wire, timers, backlog, inflight, stage, extending,
                       bstate>>
    BY <1>2 DEF Start, brokerVars, pipeVars, history
  <2>2. wire' = {} /\ wire = {}
    BY <2>1 DEF FlightInv, WireFresh
  <2>3. Parked' = Parked /\ Exempt' = Exempt /\ Held' = Held
    BY <2>1, <2>2 DEF Parked, Exempt, Unroutable, Held
  <2> QED BY <2>1, <2>2, <2>3 DEF FlightInv, CountBound, WireFresh, AllExtended, HeldIsLatest, ExtensionHolds
<1> QED BY <1>1, <1>2

\* Every step keeps what is said about held deliveries.
LEMMA FlightStep == FullInv /\ [Next]_vars => FlightInv'
<1> SUFFICES ASSUME FullInv, [Next]_vars PROVE FlightInv'
  OBVIOUS
<1>1. CASE UNCHANGED vars
  <2>1. UNCHANGED <<count, setup, pod, lapsed, wire, inflight, timers, backlog, bstate, stage,
                    extending>>
    BY <1>1 DEF vars, gateVars, brokerVars, podVars, pipeVars, history
  <2> QED BY <2>1
      DEF FullInv, FlightInv, CountBound, WireFresh, AllExtended, HeldIsLatest, Held, Exempt,
          ExtensionHolds, Unroutable, Parked
<1>2. ASSUME NEW m \in Msgs, Broker(m)
      PROVE  FlightInv'
  BY <1>2, DeliverFlight, ExpiryFlight DEF Broker
<1>3. ASSUME NEW n \in MaxDelivers, UpdateConsumer(n)
      PROVE  FlightInv'
  BY <1>3, UpdateFlight
<1>4. ASSUME NEW d \in Jobs, Push(d) \/ Pipeline(d) \/ FirstWorking(d) \/ BudgetElapses(d)
      PROVE  FlightInv'
  BY <1>4, PushFlight, PipelineFlight, BudgetFlight, WorkingFlight
<1> QED BY <1>1, <1>2, <1>3, <1>4, DrainFlight, CloseFlight, RestartFlight DEF Next

\* Ack extension keeps a message with one handler, through any timeouts, redeliveries,
\* restarts and changes of max_deliver: two unsettled deliveries of a message are never
\* in the gate together while the connection works, the interval is below ack_wait, no
\* budget ran out, and no ack_wait did before the first working() of a new entry.
THEOREM OneHandlerAtATime == Spec => []SingleFlight
<1>1. Init => FlightInv
  <2> SUFFICES ASSUME Init PROVE FlightInv
    OBVIOUS
  <2>1. wire = {} /\ inflight = {} /\ Parked = {}
    BY EmptyBacklog DEF Init, GateInit, Parked
  <2>2. Held = {}
    BY <2>1 DEF Held
  <2> QED BY <2>1, <2>2 DEF FlightInv, CountBound, WireFresh, AllExtended, HeldIsLatest
<1>2. Init => MatchInv
  BY DEF Init, GateInit, MatchInv
<1>3. FullInv /\ [Next]_vars => FullInv'
  BY NextInv, MatchStep, FlightStep DEF FullInv
<1>4. FullInv => SingleFlight
  <2> SUFFICES ASSUME FullInv, ExtensionHolds,
                      NEW m \in Msgs \ (Unroutable \cup lapsed),
                      NEW c \in Parked \cup inflight, NEW d \in Parked \cup inflight,
                      c[1] = m, d[1] = m, stage[c] # "settled", stage[d] # "settled"
               PROVE  c = d
    BY DEF SingleFlight
  <2>1. c \in Held /\ d \in Held
    BY DEF FullInv, FlightInv, WireFresh, Held
  <2> QED BY <2>1, HeldUnique DEF FullInv, Exempt
<1> QED BY InitInv, <1>1, <1>2, <1>3, <1>4, PTL DEF Spec, FullInv

--------------------------------------------------------------------------------
(***************************************************************************)
(* The gate inside the pod: its properties survive close(), crash and      *)
(* restart, which GateSpec does not have.                                  *)
(***************************************************************************)
\* Slots are exact, nothing waits for a free slot and no delivery is in two places, in
\* the gate of a pod that may crash and restart.
THEOREM PodGateCorrect == Spec => [](SlotsExact /\ NoIdleSlot /\ JobsPartitioned)
<1>1. Inv => SlotsExact /\ NoIdleSlot /\ JobsPartitioned
  BY DEF Inv, GateInv
<1> QED BY <1>1, DeliveryCorrect, PTL

\* Every step of the pod is a step of the gate, or starts no delivery.
LEMMA PodStepsGate ==
  ASSUME Inv, Next
  PROVE  [GateNext]_gateVars \/ StartedBy = {}
<1>1. ASSUME NEW m \in Msgs, Broker(m)
      PROVE  UNCHANGED gateVars
  BY <1>1 DEF Broker, Deliver, AckWaitExpires
<1>2. ASSUME NEW n \in MaxDelivers, UpdateConsumer(n)
      PROVE  UNCHANGED gateVars
  BY <1>2 DEF UpdateConsumer
<1>3. ASSUME NEW d \in Jobs, Push(d)
      PROVE  GateNext
  BY <1>3, SetupTyped DEF Push, GateNext, Inv
<1>4. ASSUME NEW d \in Jobs, Pipeline(d)
      PROVE  [GateNext]_gateVars
  <2>1. CASE Finish(d)
    BY <2>1 DEF Finish, GateNext
  <2>2. CASE ~Finish(d)
    BY <1>4, <2>2, PipelineAdvances DEF Advance
  <2> QED BY <2>1, <2>2
<1>5. ASSUME NEW d \in Jobs, FirstWorking(d) \/ BudgetElapses(d)
      PROVE  [GateNext]_gateVars
  BY <1>5 DEF FirstWorking, BudgetElapses, GateNext
<1>6. Drain \/ Close => GateNext
  BY DEF Drain, Close, GateNext
<1>7. Exit \/ Start => StartedBy = {}
  BY DEF Exit, Start, StartedBy
<1> QED BY <1>1, <1>2, <1>3, <1>4, <1>5, <1>6, <1>7 DEF Next

\* Deliveries start in the order in which they were parked, also around a restart.
THEOREM PodNoOvertaking == Spec => NoOvertaking
<1> DEFINE InOrder == StartedBy # {} => (backlog = <<>> \/ StartedBy = {Head(backlog)})
<1>1. ASSUME Inv, [Next]_vars
      PROVE  [InOrder]_gateVars
  <2>1. CASE UNCHANGED vars
    BY <2>1 DEF vars
  <2>2. CASE Next
    BY <1>1, <2>2, PodStepsGate, GateStepInOrder DEF Inv
  <2> QED BY <1>1, <2>1, <2>2
<1> QED BY <1>1, DeliveryCorrect, PTL DEF Spec, NoOvertaking

================================================================================
