---------------------------- MODULE ConcurrencyGate ----------------------------
(***************************************************************************)
(* The concurrency limiter every router puts in front of its pipeline      *)
(* (src/src/server/routing/concurrency-gate.ts).  Up to MaxActive jobs are *)
(* routed in parallel; a job that arrives when all slots are taken is      *)
(* parked in a FIFO backlog, with an ack-extension timer when the router   *)
(* configured one, and the backlog is drained each time a slot is freed.   *)
(*                                                                         *)
(* Routing a job either completes inside the call (route() returned        *)
(* undefined) or later (it returned a Promise); which one happens is the   *)
(* pipeline's choice, so it is nondeterministic here and decided by the    *)
(* modules that compose this one (EventDelivery, RpcServer).               *)
(*                                                                         *)
(* drainBacklog() is a loop that runs to completion in one turn of the     *)
(* JavaScript event loop.  The model takes one step per iteration and the  *)
(* flag `draining` keeps everything else out until the loop ends.          *)
(***************************************************************************)
EXTENDS Naturals, Sequences, FiniteSets, Functions

CONSTANTS Jobs,       \* the messages that may be pushed, each at most once
          MaxActive   \* the number of slots

ASSUME MaxActiveAssumption == MaxActive \in Nat \ {0}

VARIABLES
  active,      \* the slot counter
  backlog,     \* the parked jobs, oldest first
  inflight,    \* jobs whose route() returned a Promise that has not settled
  finished,    \* jobs routed to completion
  handedBack,  \* jobs that dispose() gave back to the server
  timers,      \* parked jobs whose ack-extension timer was not stopped
  draining,    \* inside drainBacklog()
  open         \* subscribed to the message subject

gateVars == <<active, backlog, inflight, finished, handedBack, timers, draining, open>>

Parked == Range(backlog)

\* Jobs that have never been pushed into this gate.
Fresh == Jobs \ (Parked \cup inflight \cup finished \cup handedBack)

GateTypeOK ==
  /\ active \in 0 .. MaxActive
  /\ backlog \in Seq(Jobs)
  /\ inflight \subseteq Jobs
  /\ finished \subseteq Jobs
  /\ handedBack \subseteq Jobs
  /\ timers \subseteq Jobs
  /\ draining \in BOOLEAN
  /\ open \in BOOLEAN

--------------------------------------------------------------------------------
\* subscribeToStream() builds a gate with every field at its initial value.
GateInit ==
  /\ active = 0
  /\ backlog = <<>>
  /\ inflight = {}
  /\ finished = {}
  /\ handedBack = {}
  /\ timers = {}
  /\ draining = FALSE
  /\ open = TRUE

\* push(msg) with every slot taken: park the job, start its timer if there is one.
PushParks(j, parkTimer) ==
  /\ open
  /\ ~draining
  /\ j \in Fresh
  /\ active >= MaxActive
  /\ backlog' = Append(backlog, j)
  /\ timers' = IF parkTimer THEN timers \cup {j} ELSE timers
  /\ UNCHANGED <<active, inflight, finished, handedBack, draining, open>>

\* Mutant: the slot check is forgotten.
PushRoutesUnchecked(j) ==
  /\ open
  /\ ~draining
  /\ j \in Fresh
  /\ active' = active + 1
  /\ inflight' = inflight \cup {j}
  /\ UNCHANGED <<backlog, finished, handedBack, timers, draining, open>>

\* push(msg) with a free slot; route() returns a Promise.
PushRoutesAsync(j) ==
  /\ open
  /\ ~draining
  /\ j \in Fresh
  /\ active < MaxActive
  /\ active' = active + 1
  /\ inflight' = inflight \cup {j}
  /\ UNCHANGED <<backlog, finished, handedBack, timers, draining, open>>

\* push(msg) with a free slot; route() completes (or throws) inside the call.
PushRoutesSync(j) ==
  /\ open
  /\ ~draining
  /\ j \in Fresh
  /\ active < MaxActive
  /\ finished' = finished \cup {j}
  /\ draining' = (backlog # <<>>)
  /\ UNCHANGED <<active, backlog, inflight, handedBack, timers, open>>

\* Mutant: the slot is not given back.
RouteDoneLeaksSlot(j) ==
  /\ ~draining
  /\ j \in inflight
  /\ inflight' = inflight \ {j}
  /\ finished' = finished \cup {j}
  /\ draining' = TRUE
  /\ UNCHANGED <<active, backlog, handedBack, timers, open>>

\* Mutant: the slot is given back and nobody drains the backlog.
RouteDoneWithoutDrain(j) ==
  /\ ~draining
  /\ j \in inflight
  /\ inflight' = inflight \ {j}
  /\ finished' = finished \cup {j}
  /\ active' = active - 1
  /\ UNCHANGED <<backlog, handedBack, timers, draining, open>>

\* onAsyncDone(): the Promise of an in-flight job settled.
RouteDone(j) ==
  /\ ~draining
  /\ j \in inflight
  /\ inflight' = inflight \ {j}
  /\ finished' = finished \cup {j}
  /\ active' = active - 1
  /\ draining' = TRUE
  /\ UNCHANGED <<backlog, handedBack, timers, open>>

\* Mutant: the loop reads the head of the backlog without shifting it out.
DrainHeadPeeks ==
  /\ draining
  /\ active < MaxActive
  /\ backlog # <<>>
  /\ timers' = timers \ {Head(backlog)}
  /\ UNCHANGED backlog

\* Mutant: the parked job's timer is not stopped.
DrainHeadKeepsTimer ==
  /\ draining
  /\ active < MaxActive
  /\ backlog # <<>>
  /\ backlog' = Tail(backlog)
  /\ UNCHANGED timers

\* One turn of the loop in drainBacklog(): stop the parked job's timer and route it.
DrainHead ==
  /\ draining
  /\ active < MaxActive
  /\ backlog # <<>>
  /\ backlog' = Tail(backlog)
  /\ timers' = timers \ {Head(backlog)}

DrainsAsync ==
  /\ DrainHead
  /\ active' = active + 1
  /\ inflight' = inflight \cup {Head(backlog)}
  /\ UNCHANGED <<finished, handedBack, draining, open>>

DrainsSync ==
  /\ DrainHead
  /\ finished' = finished \cup {Head(backlog)}
  /\ UNCHANGED <<active, inflight, handedBack, draining, open>>

\* The loop ends when no slot is free or nothing is parked.
DrainEnds ==
  /\ draining
  /\ active >= MaxActive \/ backlog = <<>>
  /\ draining' = FALSE
  /\ UNCHANGED <<active, backlog, inflight, finished, handedBack, timers, open>>

\* The extension pool dropped a parked job's entry because its budget ran out
\* (AckExtensionPool.tick); the job itself stays parked.
ParkTimerLapses(j) ==
  /\ ~draining
  /\ j \in timers
  /\ timers' = timers \ {j}
  /\ UNCHANGED <<active, backlog, inflight, finished, handedBack, draining, open>>

\* Mutant: the backlog is naked but not emptied, so a later drain routes it.
DisposeKeepsBacklog ==
  /\ open
  /\ ~draining
  /\ open' = FALSE
  /\ handedBack' = handedBack \cup Parked
  /\ timers' = timers \ Parked
  /\ UNCHANGED <<active, backlog, inflight, finished, draining>>

\* dispose(), run by the unsubscribe teardown: stop every parked timer and nak
\* every parked job.  In-flight jobs are left running.
Dispose ==
  /\ open
  /\ ~draining
  /\ open' = FALSE
  /\ handedBack' = handedBack \cup Parked
  /\ timers' = timers \ Parked
  /\ backlog' = <<>>
  /\ UNCHANGED <<active, inflight, finished, draining>>

GateNext ==
  \/ \E j \in Jobs :
       \/ \E parkTimer \in BOOLEAN : PushParks(j, parkTimer)
       \/ PushRoutesAsync(j)
       \/ PushRoutesSync(j)
       \/ RouteDone(j)
       \/ ParkTimerLapses(j)
  \/ DrainsAsync
  \/ DrainsSync
  \/ DrainEnds
  \/ Dispose

GateSpec == GateInit /\ [][GateNext]_gateVars

--------------------------------------------------------------------------------
\* The slot counter is the number of unsettled routes: routeSafely() and the
\* .finally() of trackAsync() neither leak a slot nor free one twice.
SlotsExact ==
  /\ IsFiniteSet(inflight)
  /\ active = Cardinality(inflight)
  /\ active <= MaxActive

\* Work conservation: outside the drain loop nothing waits while a slot is free,
\* so the push() and onAsyncDone() paths cannot strand a parked job.
NoIdleSlot ==
  (backlog # <<>> /\ ~draining) => active = MaxActive

\* Every job is in one place only: it is never routed twice, nor routed and
\* handed back to the server.
JobsPartitioned ==
  /\ IsInjective(backlog)
  /\ Parked \cap inflight = {}
  /\ Parked \cap finished = {}
  /\ Parked \cap handedBack = {}
  /\ inflight \cap finished = {}
  /\ inflight \cap handedBack = {}
  /\ finished \cap handedBack = {}

\* A park timer runs only for a job that is still parked: routing the job and
\* disposing of the gate both stop it, so no timer outlives its place in the backlog.
NoTimerLeak == timers \subseteq Parked

\* A closed gate holds nothing back.
ClosedIsEmpty == ~open => backlog = <<>>

\* Jobs start in arrival order: a step that starts a job starts the oldest parked
\* one, unless nothing is parked (push() never overtakes the backlog).
StartedBy == (inflight' \cup finished') \ (inflight \cup finished)

NoOvertaking ==
  [][StartedBy # {} => (backlog = <<>> \/ StartedBy = {Head(backlog)})]_gateVars

================================================================================
