------------------------------- MODULE RpcServer -------------------------------
(***************************************************************************)
(* The serving side of JetStream-mode RPC: RpcRouter behind its            *)
(* concurrency gate (src/src/server/routing/rpc.router.ts).  A job of the  *)
(* gate is a command; the consumer's max_deliver is 1, so the broker       *)
(* delivers each at most once and a nak, a crash or a lost settlement      *)
(* leaves it in the stream for good.                                       *)
(*                                                                         *)
(* handleSafe() completes inside the call when the command cannot be       *)
(* resolved or the handler is synchronous; otherwise the handler races the *)
(* deadline timer, and the gate's slot is held until the handler's Promise *)
(* settles, past the deadline too.                                         *)
(***************************************************************************)
EXTENDS ConcurrencyGate

CONSTANTS ParkTimer,  \* whether parked commands get an ack-extension timer
          MaxPods     \* bound: incarnations of the serving pod

ASSUME ServerAssumption == ParkTimer \in BOOLEAN /\ MaxPods \in Nat \ {0}

VARIABLES
  cmd,      \* broker: where each command is
  run,      \* the handler of each command
  mail,     \* replies on their way, by command
  settles,  \* history: settlements tried for each command (a term() that throws in
            \* resolveCommand() and is repeated is one)
  replies,  \* history: replies published for each command
  pods      \* incarnations so far

serverVars == <<gateVars, cmd, run, mail, settles, replies, pods>>

Commands == {"absent", "sent", "lost", "stored", "delivered", "acked", "termed", "naked"}
Runs     == {"none", "handling", "late", "ok", "failed", "died"}

ServerTypeOK ==
  /\ GateTypeOK
  /\ cmd \in [Jobs -> Commands]
  /\ run \in [Jobs -> Runs]
  /\ mail \in [Jobs -> {"none", "ok", "error"}]
  /\ settles \in [Jobs -> Nat]
  /\ replies \in [Jobs -> Nat]
  /\ pods \in 1 .. MaxPods

ServerInit ==
  /\ GateInit
  /\ cmd = [j \in Jobs |-> "absent"]
  /\ run = [j \in Jobs |-> "none"]
  /\ mail = [j \in Jobs |-> "none"]
  /\ settles = [j \in Jobs |-> 0]
  /\ replies = [j \in Jobs |-> 0]
  /\ pods = 1

--------------------------------------------------------------------------------
\* ack() or term() through settleQuietly(): on a degraded connection it has no effect.
Settle(j, how) ==
  /\ cmd' \in {[cmd EXCEPT ![j] = how], [cmd EXCEPT ![j] = "delivered"]}
  /\ settles' = [settles EXCEPT ![j] = @ + 1]

NoReply == UNCHANGED <<mail, replies>>

\* publishReply() and publishErrorReply(): when the value cannot be encoded or sent an
\* error is tried, and when that fails too nothing is sent.
Reply(j, hows) ==
  \/ \E how \in hows :
       /\ mail' = [mail EXCEPT ![j] = how]
       /\ replies' = [replies EXCEPT ![j] = @ + 1]
  \/ NoReply

Ends(j, how) == run' = [run EXCEPT ![j] = how]

\* resolveCommand() refuses: no handler, no reply address, or an undecodable payload.
Refuse(j) == Settle(j, "termed") /\ NoReply /\ UNCHANGED run

Succeed(j) == Ends(j, "ok") /\ Settle(j, "acked") /\ Reply(j, {"ok", "error"})

\* reportHandlerError().
Fail(j) == Ends(j, "failed") /\ Reply(j, {"error"}) /\ Settle(j, "termed")

\* handleSafe() returned undefined.
HandleSync(j, addressed) == Refuse(j) \/ (addressed /\ (Succeed(j) \/ Fail(j)))

\* handleSafe() returned the handler's Promise, with the deadline armed.
HandleAsync(j, addressed) ==
  /\ addressed
  /\ Ends(j, "handling")
  /\ cmd' = [cmd EXCEPT ![j] = "delivered"]
  /\ NoReply
  /\ UNCHANGED settles

\* The broker delivers a stored command and commands$ hands it to gate.push().
Deliver(j, addressed) ==
  /\ cmd[j] = "stored"
  /\ \/ PushRoutesSync(j) /\ HandleSync(j, addressed)
     \/ PushRoutesAsync(j) /\ HandleAsync(j, addressed)
     \/ /\ PushParks(j, ParkTimer)
        /\ cmd' = [cmd EXCEPT ![j] = "delivered"]
        /\ UNCHANGED <<run, mail, settles, replies>>
  /\ UNCHANGED pods

\* drainBacklog() routes parked command j, the oldest.
Drain(j, addressed) ==
  /\ backlog # <<>> /\ j = Head(backlog)
  /\ \/ DrainsSync /\ HandleSync(j, addressed)
     \/ DrainsAsync /\ HandleAsync(j, addressed)
  /\ UNCHANGED pods

DrainStops == DrainEnds /\ UNCHANGED <<cmd, run, mail, settles, replies, pods>>

\* Mutant: the settled flag is not looked at.
HandlerEndsAnyway(j) ==
  /\ run[j] \in {"handling", "late"}
  /\ RouteDone(j)
  /\ Succeed(j) \/ Fail(j)
  /\ UNCHANGED pods

\* The handler's Promise settles; after the deadline its outcome is ignored.
HandlerEnds(j) ==
  /\ RouteDone(j)
  /\ \/ run[j] = "handling" /\ (Succeed(j) \/ Fail(j))
     \/ /\ run[j] = "late"
        /\ \E how \in {"ok", "failed"} : Ends(j, how)
        /\ NoReply
        /\ UNCHANGED <<cmd, settles>>
  /\ UNCHANGED pods

\* Mutant: the caller is told about the deadline and the handler may still answer.
HandlerTimesOutUnsettled(j) ==
  /\ run[j] = "handling" /\ ~draining
  /\ Settle(j, "termed")
  /\ Reply(j, {"error"})
  /\ UNCHANGED <<gateVars, run, pods>>

\* The deadline: term the command, reply nothing.  The slot stays taken.
HandlerTimesOut(j) ==
  /\ run[j] = "handling" /\ ~draining
  /\ Ends(j, "late")
  /\ Settle(j, "termed")
  /\ NoReply
  /\ UNCHANGED <<gateVars, pods>>

LapseParked(j) == ParkTimerLapses(j) /\ UNCHANGED <<cmd, run, mail, settles, replies, pods>>

\* destroy(): unsubscribe, and dispose() naks what is parked.
Destroy ==
  /\ Dispose
  /\ cmd' = [j \in Jobs |-> IF j \in Parked THEN "naked" ELSE cmd[j]]
  /\ settles' = [j \in Jobs |-> IF j \in Parked THEN settles[j] + 1 ELSE settles[j]]
  /\ UNCHANGED <<run, mail, replies, pods>>

\* The pod ends, after destroy() or by a crash, and another one starts with a gate of
\* its own; what was delivered to the old one is not delivered again.
Replace ==
  /\ pods < MaxPods
  /\ pods' = pods + 1
  /\ run' = [j \in Jobs |-> IF run[j] \in {"handling", "late"} THEN "died" ELSE run[j]]
  /\ active' = 0 /\ backlog' = <<>> /\ inflight' = {} /\ finished' = {}
  /\ handedBack' = {} /\ timers' = {} /\ draining' = FALSE /\ open' = TRUE
  /\ UNCHANGED <<cmd, mail, settles, replies>>

ServerNext(addressed(_)) ==
  \/ \E j \in Jobs :
       \/ Deliver(j, addressed(j)) \/ Drain(j, addressed(j))
       \/ HandlerEnds(j) \/ HandlerTimesOut(j) \/ LapseParked(j)
  \/ DrainStops
  \/ Destroy
  \/ Replace

--------------------------------------------------------------------------------
\* Every command is settled at most once and replied to at most once, however its
\* handler, its deadline, destroy() and a new pod interleave (the `settled` flag).
SettledOnce == \A j \in Jobs : settles[j] <= 1 /\ replies[j] <= 1

\* Only a handler that beat its deadline replies, and the stream is told the same story:
\* acked if it succeeded (even when its result could not be encoded and an error was
\* sent instead), termed if it failed, unless that settlement was lost.
ReplyMatchesSettlement ==
  \A j \in Jobs :
    replies[j] > 0 =>
      \/ run[j] = "ok" /\ cmd[j] \in {"acked", "delivered"}
      \/ run[j] = "failed" /\ cmd[j] \in {"termed", "delivered"} /\ mail[j] # "ok"

================================================================================
