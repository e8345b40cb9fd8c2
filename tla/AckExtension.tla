------------------------------ MODULE AckExtension ------------------------------
(***************************************************************************)
(* The ack-extension pool (src/src/utils/ack-extension.ts): one timer for  *)
(* every delivery that is parked at a concurrency gate or in a handler.    *)
(* Each entry has a deadline of its own for the next msg.working() and for *)
(* the end of its budget; the timer is set for the earliest of them all.   *)
(*                                                                         *)
(* Time is discrete.  A callback runs at the time it was set for or up to  *)
(* MaxLag later, because the event loop is busy.  A delivery that leaves   *)
(* the backlog gives up the entry it had there and gets another one from   *)
(* the pipeline.  What the server sees of a delivery is when it last heard *)
(* of it.                                                                  *)
(***************************************************************************)
EXTENDS Integers, FiniteSets

CONSTANTS
  Msgs,             \* the deliveries
  Options,          \* pairs of an ackExtension option and a consumer's ack_wait
  MinInterval,      \* MIN_ACK_EXTENSION_INTERVAL
  DefaultInterval,  \* DEFAULT_ACK_EXTENSION_INTERVAL
  Budget,           \* DEFAULT_MAX_ACK_EXTENSION_MS
  MaxLag,           \* how late a callback may run
  MaxTime           \* bound: the end of time

\* mode is "off", "auto" (true) or "fixed" (a number of milliseconds, ms); an
\* ack_wait of 0 is one that is not known.
ASSUME PoolAssumption ==
  /\ Options \subseteq [mode : {"off", "auto", "fixed"}, ms : Nat \ {0}, ackWait : Nat]
  /\ {MinInterval, DefaultInterval, Budget} \subseteq Nat \ {0}
  /\ MaxLag \in Nat
  /\ MaxTime \in Nat

VARIABLES
  now,          \* Date.now()
  option,       \* the option and the ack_wait each delivery comes under
  held,         \* where the pod is with each delivery
  entries,      \* the pool's entries, by delivery
  armed,        \* the pool's timer is set
  handleFireAt, \* for when it is set, 0 when it is not
  alive,        \* server: when it last heard of each unsettled delivery
  handed,       \* history: left the backlog, no working() since
  missed        \* history: a budget ran out, or a working() was lost

timerVars == <<armed, handleFireAt>>
vars == <<now, option, held, entries, timerVars, alive, handed, missed>>

\* resolveAckExtensionInterval(), 0 when there is no extension.
ResolveInterval(o) ==
  CASE o.mode = "off"   -> 0
    [] o.mode = "fixed" -> o.ms
    [] o.mode = "auto"  -> IF o.ackWait = 0 THEN DefaultInterval
                           ELSE IF o.ackWait \div 2 < MinInterval THEN MinInterval
                           ELSE o.ackWait \div 2

Interval(m) == ResolveInterval(option[m])

extended == DOMAIN entries

Lesser(a, b) == IF a <= b THEN a ELSE b

\* Mutant: the end of the budget does not wake the pool.
DueAtNext(e) == e.nextFireAt

\* When an entry wants the pool to wake up.
DueAt(e) == Lesser(e.nextFireAt, e.expiresAt)

TypeOK ==
  /\ now \in Nat
  /\ option \in [Msgs -> Options]
  /\ held \in [Msgs -> {"none", "parked", "routed", "settled"}]
  /\ {extended, handed, missed} \subseteq SUBSET Msgs
  /\ entries \in [extended -> [nextFireAt : Nat, expiresAt : Nat]]
  /\ armed \in BOOLEAN
  /\ handleFireAt \in Nat
  /\ alive \in [Msgs -> Nat]

Init ==
  /\ now = 0
  /\ option \in [Msgs -> Options]
  /\ held = [m \in Msgs |-> "none"]
  /\ entries = [m \in {} |-> <<>>]
  /\ armed = FALSE
  /\ handleFireAt = 0
  /\ alive = [m \in Msgs |-> 0]
  /\ handed = {}
  /\ missed = {}

--------------------------------------------------------------------------------
\* Mutant: a timer that is set is never brought forward.
EnsureWakeLater(set, dueAt) ==
  /\ armed' = TRUE
  /\ handleFireAt' = IF set THEN handleFireAt ELSE dueAt

\* ensureWake(): the timer, when it is set at all, fires no later than dueAt.
EnsureWake(set, dueAt) ==
  /\ armed' = TRUE
  /\ handleFireAt' = IF set /\ handleFireAt <= dueAt THEN handleFireAt ELSE dueAt

\* The timer after cancel() of m: cleared with the last entry.
ArmedWithout(m) == armed /\ extended # {m}

NewEntry(m) == [nextFireAt |-> now + Interval(m), expiresAt |-> now + Budget]

\* startAckExtensionTimer(), the entry that m had before being cancelled.
Schedule(m) ==
  IF Interval(m) = 0 THEN UNCHANGED <<entries, timerVars>>
  ELSE /\ entries' = [n \in extended \cup {m} |-> IF n = m THEN NewEntry(m) ELSE entries[n]]
       /\ EnsureWake(ArmedWithout(m), DueAt(NewEntry(m)))

\* A delivery arrives and is parked, or routed at once.
Arrive(m) ==
  /\ held[m] = "none"
  /\ held' \in {[held EXCEPT ![m] = h] : h \in {"parked", "routed"}}
  /\ alive' = [alive EXCEPT ![m] = now]
  /\ Schedule(m)
  /\ UNCHANGED <<now, option, handed, missed>>

\* drainBacklog() stops the timer of a parked delivery and routes it.
LeaveBacklog(m) ==
  /\ held[m] = "parked"
  /\ held' = [held EXCEPT ![m] = "routed"]
  /\ handed' = handed \cup {m}
  /\ Schedule(m)
  /\ UNCHANGED <<now, option, alive, missed>>

\* Settled by its pipeline, or handed back by dispose(): cancel().
Settle(m) ==
  /\ held[m] \in {"parked", "routed"}
  /\ held' = [held EXCEPT ![m] = "settled"]
  /\ entries' = [n \in extended \ {m} |-> entries[n]]
  /\ armed' = ArmedWithout(m)
  /\ handleFireAt' = IF armed' THEN handleFireAt ELSE 0
  /\ alive' = [alive EXCEPT ![m] = 0]
  /\ UNCHANGED <<now, option, handed, missed>>

\* The entries whose budget has ended, and those that are due for a working().
Expired == {m \in extended : entries[m].expiresAt <= now}
Firing  == {m \in extended \ Expired : entries[m].nextFireAt <= now}

\* An entry after its working().
Renewed(m) == [entries[m] EXCEPT !.nextFireAt = now + Interval(m)]

\* tick(): expired entries go, working() is called for the due ones, and the timer
\* is set for the earliest that is left.  A working() on a degraded connection may
\* be lost.
Tick ==
  /\ armed
  /\ handleFireAt <= now
  /\ entries' = [m \in extended \ Expired |-> IF m \in Firing THEN Renewed(m) ELSE entries[m]]
  /\ armed' = (extended' # {})
  /\ IF extended' = {} THEN handleFireAt' = 0
     ELSE /\ \E m \in extended' : handleFireAt' = DueAt(entries'[m])
          /\ \A m \in extended' : handleFireAt' <= DueAt(entries'[m])
  /\ \E lost \in SUBSET Firing :
       /\ alive' = [m \in Msgs |-> IF m \in Firing \ lost THEN now ELSE alive[m]]
       /\ handed' = handed \ (Firing \ lost)
       /\ missed' = missed \cup Expired \cup lost
  /\ UNCHANGED <<now, option, held>>

\* Time passes while no callback is later than it may be.
Pass ==
  /\ now < MaxTime
  /\ armed => now < handleFireAt + MaxLag
  /\ now' = now + 1
  /\ UNCHANGED <<option, held, entries, timerVars, alive, handed, missed>>

Next ==
  \/ \E m \in Msgs : Arrive(m) \/ LeaveBacklog(m) \/ Settle(m)
  \/ Tick
  \/ Pass

Spec == Init /\ [][Next]_vars

--------------------------------------------------------------------------------
\* The timer is set while there are entries, for no later than any of them is due,
\* and it is not overdue.
WokenInTime ==
  /\ armed <=> extended # {}
  /\ armed => now <= handleFireAt + MaxLag
  /\ \A m \in extended : handleFireAt <= DueAt(entries[m])

\* How long the server may hear nothing of a delivery: an interval, and the lag of a
\* callback.  A delivery that left the backlog begins a new interval there.
Silence(m) == (IF m \in handed THEN 2 ELSE 1) * (Interval(m) + MaxLag)

\* "keeping NATS from redelivering before the handler finishes" (ack-extension.ts):
\* whatever other entries do to the shared timer, the server hears of an extended
\* delivery in time, up to the end of its budget.  With half of an ack_wait for an
\* interval that prevents a redelivery unless the delivery was parked.
KeptAlive == \A m \in extended \ missed : now - alive[m] <= Silence(m)

\* "past this point the extension stops and the server redelivers": no entry outlives
\* its budget or its delivery, and no timer its entries, whatever the interval.
ExtensionEnds ==
  /\ \A m \in extended : now <= entries[m].expiresAt + MaxLag /\ held[m] # "settled"
  /\ armed => extended # {}
================================================================================
