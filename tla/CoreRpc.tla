-------------------------------- MODULE CoreRpc --------------------------------
(***************************************************************************)
(* RPC in core mode: publishCoreRpc() of src/src/client/jetstream.client.ts *)
(* and src/src/server/core-rpc.server.ts, each with its span and its       *)
(* events.  A service calls itself over one connection.                    *)
(*                                                                         *)
(* Core NATS (external) delivers a request or a reply at most once, and    *)
(* answers at once when nobody subscribes.  The code between two awaits is *)
(* one action.                                                             *)
(***************************************************************************)
EXTENDS Metrics

CONSTANTS Calls   \* the calls

VARIABLES
  call,       \* where each call is: idle, opening, waiting, done
  outcome,    \* what the caller was told
  callbacks,  \* history: how often the caller was told
  request,    \* where the request is: none, queued, handling, undecodable, served, lost
  reply,      \* the reply on its way
  replies,    \* history: replies sent
  handled,    \* the status the server reported
  clientSpan, \* none, open, or the status it ended with
  consumeSpan \* none, open, or the status it ended with

callerVars == <<call, outcome, callbacks, clientSpan>>
serverVars == <<request, replies, handled, consumeSpan>>
rpcVars == <<callerVars, serverVars, reply>>

RpcTypeOK ==
  /\ call \in [Calls -> {"idle", "opening", "waiting", "done"}]
  /\ outcome \in [Calls -> {"none", "ok", "error", "timeout", "failed", "internal"}]
  /\ {callbacks, replies} \subseteq [Calls -> Nat]
  /\ request \in [Calls -> {"none", "queued", "handling", "undecodable", "served", "lost"}]
  /\ reply \in [Calls -> {"none", "ok", "error"}]
  /\ handled \in [Calls -> {"none", "success", "error"}]
  /\ {clientSpan, consumeSpan} \subseteq [Calls -> {"none", "open", "OK", "ERROR"}]

RpcInit ==
  /\ call = [c \in Calls |-> "idle"]
  /\ outcome = [c \in Calls |-> "none"]
  /\ callbacks = [c \in Calls |-> 0]
  /\ request = [c \in Calls |-> "none"]
  /\ reply = [c \in Calls |-> "none"]
  /\ replies = [c \in Calls |-> 0]
  /\ handled = [c \in Calls |-> "none"]
  /\ clientSpan = [c \in Calls |-> "none"]
  /\ consumeSpan = [c \in Calls |-> "none"]

--------------------------------------------------------------------------------
\* send() connects before it publishes.
Opens(c) ==
  /\ call[c] = "idle"
  /\ call' = [call EXCEPT ![c] = "opening"]
  /\ UNCHANGED <<outcome, callbacks, clientSpan, serverVars, reply, counters>>

\* The callback runs.
Tell(c, how) ==
  /\ call' = [call EXCEPT ![c] = "done"]
  /\ outcome' = [outcome EXCEPT ![c] = how]
  /\ callbacks' = [callbacks EXCEPT ![c] = @ + 1]

\* connect() rejected, which send() reports by itself; or the payload could not be
\* encoded, which publish() answers from onUnhandled.  Neither has a span yet.
NotPublished(c) ==
  /\ call[c] = "opening"
  /\ Tell(c, "internal")
  /\ UNCHANGED <<clientSpan, serverVars, reply, counters>>

\* publishCoreRpc() up to nc.request().
Publishes(c, traced) ==
  /\ call[c] = "opening"
  /\ call' = [call EXCEPT ![c] = "waiting"]
  /\ request' = [request EXCEPT ![c] = "queued"]
  /\ clientSpan' = [clientSpan EXCEPT ![c] = IF traced THEN "open" ELSE "none"]
  /\ UNCHANGED <<outcome, callbacks, replies, handled, consumeSpan, reply, counters>>

\* Mutant: an error reply marks the span as failed.
ClientSpanStatusOfError(how) == IF how = "ok" THEN "OK" ELSE "ERROR"

\* finish() of the client span: an error reply is an expected outcome.
ClientSpanStatus(how) == IF how \in {"ok", "error"} THEN "OK" ELSE "ERROR"

\* The events of an outcome: a reply of either sort and a timeout mean that the
\* request was published.
OutcomeEvents(how) ==
  CASE how = "ok"      -> {"published.success", "rpc.success"}
    [] how = "error"   -> {"published.success", "rpc.error"}
    [] how = "timeout" -> {"timeout", "published.success", "rpc.timeout"}
    [] how = "failed"  -> {"error", "published.error", "rpc.error"}

\* publishCoreRpc() past nc.request(): the span, the events, the callback.  An
\* emission that threw would end in onUnhandled.
Settles(c, how) ==
  /\ call[c] = "waiting"
  /\ Tell(c, IF Throws("RpcCompleted") THEN "internal" ELSE how)
  /\ clientSpan' = [clientSpan EXCEPT ![c] = IF @ = "open" THEN ClientSpanStatus(how) ELSE @]
  /\ reply' = [reply EXCEPT ![c] = "none"]
  /\ Emit(OutcomeEvents(how))
  /\ UNCHANGED serverVars

\* Mutant: the request has no deadline.
NeverTimesOut(c) == FALSE /\ Settles(c, "timeout")

\* nc.request() rejects with a TimeoutError.
TimesOut(c) == Settles(c, "timeout")

\* The reply arrives.  One that cannot be decoded is a transport error.
Replied(c, decodable) ==
  /\ reply[c] # "none"
  /\ Settles(c, IF decodable THEN reply[c] ELSE "failed")

--------------------------------------------------------------------------------
\* A reply leaves the server; a caller that gave up does not see it.
Responds(c, how, times) ==
  /\ replies' = [replies EXCEPT ![c] = @ + times]
  /\ reply' = [reply EXCEPT ![c] = IF times > 0 /\ call[c] = "waiting" THEN how ELSE @]

\* handleRequest() up to the handler, or to its error reply when there is no handler
\* or the payload cannot be decoded.  MessageRouted is emitted before the payload is
\* decoded.
Handles(c, sort, known, traced) ==
  /\ request[c] = "queued"
  /\ request' = [request EXCEPT ![c] = CASE sort = "plain" -> "handling"
                                         [] sort = "undecodable" -> "undecodable"
                                         [] sort = "unknown" -> "served"]
  /\ Responds(c, "error", IF sort = "plain" THEN 0 ELSE 1)
  /\ consumeSpan' = [consumeSpan EXCEPT ![c] = IF sort = "plain" /\ traced THEN "open" ELSE @]
  /\ Emit(IF sort = "unknown" THEN {} ELSE IF known THEN {"routed"} ELSE {"unhandled"})
  /\ UNCHANGED <<callerVars, handled>>

\* Mutant: a handler's failure is reported as a success.
StatusAlwaysSuccess(ok) == "success"

\* The status that reportHandlerCompleted() is given.
HandlerStatus(ok) == IF ok THEN "success" ELSE "error"

\* withConsumeSpan() and the rest of handleRequest(): the handler settled.  A result
\* that cannot be encoded or sent is an error although the span ended well; an
\* emission that threw after the reply would send a second one.
HandlerEnds(c, result, encodable, open) ==
  LET ok == result = "value" /\ encodable /\ open
  IN /\ request[c] = "handling"
     /\ request' = [request EXCEPT ![c] = "served"]
     /\ consumeSpan' = [consumeSpan EXCEPT ![c] =
          IF @ = "open" THEN IF result = "unexpected" THEN "ERROR" ELSE "OK" ELSE @]
     /\ Responds(c, IF ok THEN "ok" ELSE "error",
                 IF ~open THEN 0 ELSE IF ok /\ Throws("HandlerCompleted") THEN 2 ELSE 1)
     /\ handled' = [handled EXCEPT ![c] = IF ok THEN "success" ELSE "error"]
     /\ Emit({IF HandlerStatus(ok) = "success" THEN "handled.success" ELSE "handled.error"}
             \cup IF ok THEN {} ELSE {"error"})
     /\ UNCHANGED callerVars

\* A request or a reply is lost with its connection.
Lost(c) ==
  /\ \/ /\ request[c] = "queued"
        /\ request' = [request EXCEPT ![c] = "lost"]
        /\ UNCHANGED reply
     \/ /\ reply[c] # "none"
        /\ reply' = [reply EXCEPT ![c] = "none"]
        /\ UNCHANGED request
  /\ UNCHANGED <<callerVars, replies, handled, consumeSpan, counters>>

--------------------------------------------------------------------------------
Count(S) == Cardinality(S)
Told(how) == {c \in Calls : outcome[c] = how}

\* A request is answered at most once and a caller is told exactly once, also when a
\* hook of the user throws on the way.
OneReply ==
  \A c \in Calls : /\ replies[c] <= 1
                   /\ callbacks[c] = (IF call[c] = "done" THEN 1 ELSE 0)

\* The meters of both sides add up: every call that was published and settled is in
\* one RPC outcome, a caller's success is a handler's success, and a routed message
\* is processed, in its handler, or was undecodable.
MetersAddUp ==
  observed =>
    /\ counters["rpc.success"] + counters["rpc.error"] + counters["rpc.timeout"]
         = Count({c \in Calls : call[c] = "done"} \ Told("internal"))
    /\ counters["rpc.timeout"] = counters["timeout"]
    /\ Told("ok") \subseteq {c \in Calls : handled[c] = "success"}
    /\ counters["handled.success"] = Count({c \in Calls : handled[c] = "success"})
    /\ counters["routed"] + counters["unhandled"]
         = counters["handled.success"] + counters["handled.error"]
           + Count({c \in Calls : request[c] \in {"handling", "undecodable"}})

\* A span ends with the work it covers, and its status says who failed: the caller's
\* is an error only if no reply came, the handler's only if the handler threw.
SpansAgree ==
  \A c \in Calls :
    /\ clientSpan[c] = "open" <=> call[c] = "waiting" /\ clientSpan[c] # "none"
    /\ outcome[c] \in {"ok", "error"} => clientSpan[c] # "ERROR"
    /\ consumeSpan[c] = "ERROR" => handled[c] = "error"
    /\ consumeSpan[c] = "open" => request[c] = "handling"
================================================================================
