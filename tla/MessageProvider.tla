----------------------------- MODULE MessageProvider -----------------------------
(***************************************************************************)
(* Self-healing consumption of one scope                                   *)
(* (src/src/server/infrastructure/message.provider.ts).  A flow is one     *)
(* defer/catchError/repeat loop, created by start() for a durable kind or  *)
(* by startOrdered(); one iteration gets the consumer (recreating it when  *)
(* it is gone), opens the iterator, and stays live until it closes.        *)
(*                                                                         *)
(* A flow that destroy() unsubscribed in the middle of an iteration is     *)
(* not interrupted: its Promise runs on, but nothing repeats it and its    *)
(* errors reach nobody.  Backoff delays are abstracted: a flow that waits  *)
(* for its timer takes any time.                                           *)
(***************************************************************************)
EXTENDS Integers, FiniteSets

CONSTANTS
  Kinds,        \* stream kinds, "ordered" among them
  MaxAttempts   \* bound: how often consumption is started

VARIABLES
  flow,   \* each flow's place in its loop
  ready   \* the Promise of startOrdered(), while destroy() could reject it: none
          \* or pending, and how it ended

providerVars == <<flow, ready>>

Flows == Kinds \X (1 .. MaxAttempts)
KindOf(f) == f[1]

Unused == [at |-> "unused", alive |-> FALSE, erred |-> FALSE]

ProviderTypeOK ==
  /\ flow \in [Flows -> [at : {"unused", "getting", "recovering", "consuming",
                               "live", "waiting", "gone"},
                         alive : BOOLEAN, erred : BOOLEAN]]
  /\ ready \in {"none", "pending", "ok", "failed"}

ProviderInit ==
  /\ flow = [f \in Flows |-> Unused]
  /\ ready = "none"

Iterators == {f \in Flows : flow[f].at = "live"}

--------------------------------------------------------------------------------
\* start(consumers) and startOrdered(): a flow for each kind, subscribed at once, so
\* that each is on its first consumers.get(); the ordered one with a ready Promise.
StartFlows(kinds, attempt) ==
  /\ flow' = [f \in Flows |->
                IF f[1] \in kinds /\ f[2] = attempt
                THEN [at |-> "getting", alive |-> TRUE, erred |-> FALSE]
                ELSE flow[f]]
  /\ ready' = IF "ordered" \in kinds THEN "pending" ELSE ready

\* Mutant: the ready Promise is left to the flow.
DestroyFlowsKeepsReady ==
  /\ ready' = ready
  /\ flow' = [f \in Flows |->
                [flow[f] EXCEPT !.alive = FALSE,
                                !.at = IF @ \in {"live", "waiting"} THEN "gone" ELSE @]]

\* destroy(): rejects a pending ready Promise, ends every loop, stops every iterator.
DestroyFlows ==
  /\ ready' = IF ready = "pending" THEN "failed" ELSE ready
  /\ flow' = [f \in Flows |->
                [flow[f] EXCEPT !.alive = FALSE,
                                !.at = IF @ \in {"live", "waiting"} THEN "gone" ELSE @]]

--------------------------------------------------------------------------------
\* Mutant: the flow completes instead of repeating.
EndOfForGood(r) == [r EXCEPT !.at = "gone"]

\* The end of an iteration: repeat() arms the timer unless the flow was destroyed.
EndOf(r) == [r EXCEPT !.at = IF r.alive THEN "waiting" ELSE "gone"]

\* catchError: the first error of an ordered flow rejects startOrdered(); later ones
\* only repeat.  An error of a destroyed flow is seen by nobody.
Errs(f) ==
  /\ flow' = [flow EXCEPT ![f] = [EndOf(@) EXCEPT !.erred = @ \/ flow[f].alive]]
  /\ ready' = IF /\ KindOf(f) = "ordered"
                 /\ flow[f].alive
                 /\ ~flow[f].erred
                 /\ ready = "pending"
              THEN "failed" ELSE ready

Goes(f, from, to) ==
  /\ flow[f].at = from
  /\ flow' = [flow EXCEPT ![f].at = to]

\* consumers.get() found the consumer.
Gets(f) == Goes(f, "getting", "consuming") /\ UNCHANGED ready

\* consumers.get() says "consumer not found": a durable kind calls consumerRecoveryFn.
NotFound(f) ==
  /\ KindOf(f) # "ordered"
  /\ Goes(f, "getting", "recovering")
  /\ UNCHANGED ready

\* The consumer was recreated and found.
Recovers(f) == Goes(f, "recovering", "consuming") /\ UNCHANGED ready

\* consume() opened the iterator.  A destroyed flow gets here too.
Consumes(f) ==
  /\ Goes(f, "consuming", "live")
  /\ ready' = IF KindOf(f) = "ordered" /\ ready = "pending" THEN "ok" ELSE ready

\* A call of the iteration failed.
CallFails(f) ==
  /\ flow[f].at \in {"getting", "recovering", "consuming"}
  /\ Errs(f)

\* The iterator closed: the server ended it, or the health monitor stopped it after
\* two missed heartbeats in a row.
IteratorCloses(f) ==
  /\ flow[f].at = "live"
  /\ flow' = [flow EXCEPT ![f] = EndOf(@)]
  /\ UNCHANGED ready

\* The backoff timer starts the next iteration.
Repeats(f) == Goes(f, "waiting", "getting") /\ UNCHANGED ready
================================================================================
