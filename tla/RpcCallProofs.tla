----------------------------- MODULE RpcCallProofs -----------------------------
(***************************************************************************)
(* Proofs about RpcCall, for any set of calls, any number of slots, inboxes *)
(* and pods.  Every step of the composition is a step of the client or     *)
(* leaves it alone, so the client's invariant carries over; the gate's     *)
(* invariant carries over likewise, except that a new pod starts with a    *)
(* new gate.  What ties them together is, for each call, how far its       *)
(* command has come (CommandInv).                                          *)
(***************************************************************************)
EXTENDS RpcCall, ConcurrencyGateProofs, TLAPS

--------------------------------------------------------------------------------
(***************************************************************************)
(* The client's invariant: the registry agrees with the callers, nobody is *)
(* answered twice, and no pending call waits at a replaced inbox.          *)
(***************************************************************************)
\* What the client's safety rests on: an inbox can still be created when there is none,
\* and a call that has not been made has no answer coming.
ClientInv ==
  /\ ClientTypeOK
  /\ inbox = 0 => made < MaxInboxes
  /\ \A c \in Calls : caller[c] = "idle" <=> leg[c] = "idle"
  /\ RegistryMatchesCallers
  /\ AnsweredOnce
  /\ NoStaleInbox

\* The client's invariant holds when the client is created.
LEMMA ClientInitInv == ClientInit => ClientInv
<1> SUFFICES ASSUME ClientInit PROVE ClientInv
  OBVIOUS
<1>1. ClientTypeOK /\ (inbox = 0 => made < MaxInboxes)
  <2>1. /\ made \in 0 .. MaxInboxes /\ inbox \in {0, made} /\ made < MaxInboxes
        /\ replyTo \in [Calls -> 0 .. MaxInboxes] /\ answers \in [Calls -> Nat]
    BY InboxAssumption DEF ClientInit
  <2>2. /\ leg \in [Calls -> Legs]
        /\ caller \in [Calls -> {"idle", "waiting", "gone"} \cup Answers]
    BY DEF ClientInit, Legs
  <2>3. conn \in {"none", "up", "down"} /\ ready \in BOOLEAN /\ watching \in BOOLEAN
    BY Zenon DEF ClientInit
  <2>4. pending \subseteq Calls /\ deadlines \subseteq Calls
    BY DEF ClientInit
  <2> QED BY <2>1, <2>2, <2>3, <2>4 DEF ClientTypeOK
<1>2. \A c \in Calls : caller[c] = "idle" /\ leg[c] = "idle" /\ answers[c] = 0
  BY DEF ClientInit
<1>3. RegistryMatchesCallers
  BY <1>2 DEF ClientInit, RegistryMatchesCallers
<1>4. AnsweredOnce /\ NoStaleInbox
  BY <1>2 DEF ClientInit, AnsweredOnce, NoStaleInbox
<1> QED BY <1>1, <1>2, <1>3, <1>4 DEF ClientInv

\* A call in the registry has a caller that waits and has heard nothing.
LEMMA PendingWaits ==
  ASSUME ClientInv, NEW c \in pending
  PROVE  c \in Calls /\ caller[c] = "waiting" /\ leg[c] \in Registered /\ answers[c] = 0
BY DEF ClientInv, ClientTypeOK, RegistryMatchesCallers, AnsweredOnce, Answers

\* Answering calls of the registry and forgetting them preserves the client's invariant
\* (publish failure, deadline and reply; the call's code may also reach its end).
LEMMA AnswerPending ==
  ASSUME ClientInv,
         NEW cs \in SUBSET Calls,
         NEW how \in Answers,
         Answer(cs \cap pending, how),
         Forget(cs),
         leg' \in [Calls -> Legs],
         \A c \in Calls : leg'[c] = leg[c] \/ {leg[c], leg'[c]} \subseteq Registered,
         UNCHANGED <<linkVars, inboxVars, replyTo>>
  PROVE  ClientInv'
<1>1. /\ conn' = conn /\ ready' = ready /\ watching' = watching
      /\ inbox' = inbox /\ made' = made /\ replyTo' = replyTo
  BY DEF linkVars, inboxVars
<1>2. ClientTypeOK'
  BY <1>1 DEF ClientInv, ClientTypeOK, Answer, Forget
<1>3. \A c \in Calls : caller'[c] = IF c \in cs /\ c \in pending THEN how ELSE caller[c]
  BY DEF Answer
<1>4. \A c \in Calls : answers'[c] = IF c \in cs /\ c \in pending
                                       THEN answers[c] + 1 ELSE answers[c]
  BY DEF Answer
<1>5. how \notin {"idle", "waiting", "gone"}
  BY DEF Answers
<1>6. (\A c \in Calls : caller[c] = "idle" <=> leg[c] = "idle")'
  BY <1>3, <1>5, PendingWaits DEF ClientInv, Registered
<1>7. RegistryMatchesCallers'
  <2>1. \A c \in Calls : c \in pending <=> (caller[c] = "waiting" /\ leg[c] \in Registered)
    BY DEF ClientInv, RegistryMatchesCallers
  <2>2. \A c \in Calls : c \in pending' <=> (caller'[c] = "waiting" /\ leg'[c] \in Registered)
    BY <1>3, <1>5, <2>1 DEF Forget
  <2>3. pending' \subseteq Calls
    BY <1>2 DEF ClientTypeOK
  <2>4. pending' = {c \in Calls : caller'[c] = "waiting" /\ leg'[c] \in Registered}
    BY <2>2, <2>3
  <2>5. deadlines' = pending'
    BY DEF Forget, ClientInv, RegistryMatchesCallers
  <2> QED BY <2>4, <2>5 DEF RegistryMatchesCallers
<1>8. AnsweredOnce'
  <2> SUFFICES ASSUME NEW c \in Calls
               PROVE  answers'[c] <= 1 /\ (caller'[c] \notin Answers => answers'[c] = 0)
    BY DEF AnsweredOnce
  <2>1. CASE c \in cs /\ c \in pending
    BY <1>3, <1>4, <2>1, PendingWaits
  <2>2. CASE ~(c \in cs /\ c \in pending)
    BY <1>3, <1>4, <2>2 DEF ClientInv, AnsweredOnce
  <2> QED BY <2>1, <2>2
<1>9. NoStaleInbox'
  BY <1>1 DEF Forget, ClientInv, NoStaleInbox
<1> QED BY <1>1, <1>2, <1>6, <1>7, <1>8, <1>9 DEF ClientInv

\* A step that only moves calls forward keeps the registry as it is: the callers that
\* change are not in it, or start to wait before they enter it.
LEMMA RegistryUntouched ==
  ASSUME ClientInv,
         UNCHANGED registry,
         \A c \in Calls :
           \/ caller'[c] = caller[c] /\ (leg'[c] = leg[c] \/ {leg[c], leg'[c]} \subseteq Registered)
           \/ leg[c] \notin Registered /\ (leg'[c] \notin Registered \/ caller'[c] # "waiting")
  PROVE  RegistryMatchesCallers'
<1>1. \A c \in Calls : c \in pending <=> (caller[c] = "waiting" /\ leg[c] \in Registered)
  BY DEF ClientInv, RegistryMatchesCallers
<1>2. pending' = pending /\ deadlines' = deadlines /\ deadlines = pending /\ pending \subseteq Calls
  BY DEF registry, ClientInv, RegistryMatchesCallers, ClientTypeOK
<1>3. \A c \in Calls : c \in pending' <=> (caller'[c] = "waiting" /\ leg'[c] \in Registered)
  BY <1>1, <1>2
<1> QED BY <1>2, <1>3 DEF RegistryMatchesCallers

\* Every step of the client preserves its invariant.
LEMMA ClientStep ==
  ASSUME ClientInv, ClientNext
  PROVE  ClientInv'
<1> USE DEF linkVars, inboxVars, callerVars
<1> ClientTypeOK
  BY DEF ClientInv
<1>1. ASSUME NEW c \in Calls, Send(c)
      PROVE  ClientInv'
  <2>1. /\ leg[c] = "idle" /\ leg' = [leg EXCEPT ![c] = "opening"]
        /\ caller' = [caller EXCEPT ![c] = "waiting"]
        /\ UNCHANGED <<conn, ready, watching, inbox, made, pending, deadlines, replyTo, answers>>
    BY <1>1 DEF Send, At, registry
  <2>2. ClientTypeOK'
    BY <2>1 DEF ClientTypeOK, Legs
  <2>3. caller[c] = "idle" /\ answers[c] = 0 /\ answers[c] <= 1
    BY <2>1 DEF ClientInv, AnsweredOnce, Answers
  <2>4. (\A d \in Calls : caller[d] = "idle" <=> leg[d] = "idle")'
    BY <2>1 DEF ClientInv, ClientTypeOK
  <2>5. RegistryMatchesCallers'
    BY <2>1, RegistryUntouched DEF ClientTypeOK, Registered, registry
  <2>6. AnsweredOnce'
    BY <2>1, <2>3 DEF ClientInv, AnsweredOnce, ClientTypeOK
  <2> QED BY <2>1, <2>2, <2>4, <2>5, <2>6 DEF ClientInv, NoStaleInbox
<1>2. ASSUME NEW c \in Calls, Connect(c)
      PROVE  ClientInv'
  <2>1. PICK from \in {"opening", "connecting"}, to \in {"opened", "connected"} :
          /\ leg[c] = from /\ leg' = [leg EXCEPT ![c] = to]
          /\ from = "opening" <=> to = "opened"
    BY <1>2 DEF Connect, At
  <2>2. UNCHANGED <<conn, pending, deadlines, replyTo, caller, answers>>
    BY <1>2 DEF Connect, registry
  <2>3. /\ made' \in 0 .. MaxInboxes /\ inbox' \in {0, made'} /\ inbox' # 0
        /\ inbox # 0 => inbox' = inbox
    BY <1>2, InboxAssumption DEF Connect, ClientInv, ClientTypeOK
  <2>4. ready' \in BOOLEAN /\ watching' \in BOOLEAN
    BY <1>2, Zenon DEF Connect
  <2>5. ClientTypeOK'
    BY <2>1, <2>2, <2>3, <2>4 DEF ClientTypeOK, Legs
  <2>6. (\A d \in Calls : caller[d] = "idle" <=> leg[d] = "idle")'
    BY <2>1, <2>2 DEF ClientInv, ClientTypeOK
  <2>7. RegistryMatchesCallers'
    BY <2>1, <2>2, RegistryUntouched DEF ClientTypeOK, Registered, registry
  <2>8. NoStaleInbox'
    BY <2>2, <2>3 DEF ClientInv, NoStaleInbox
  <2> QED BY <2>2, <2>3, <2>5, <2>6, <2>7, <2>8 DEF ClientInv, AnsweredOnce
<1>3. ASSUME NEW c \in Calls,
             leg[c] \in {"opening", "opened"},
             leg' = [leg EXCEPT ![c] = "done"],
             Answer({x \in {c} : caller[x] = "waiting"}, "error"),
             UNCHANGED <<linkVars, inboxVars, registry, replyTo>>
      PROVE  ClientInv'
  <2>1. UNCHANGED <<conn, ready, watching, inbox, made, pending, deadlines, replyTo>>
    BY <1>3 DEF registry
  <2>2. \A d \in Calls :
          /\ caller'[d] = IF d = c /\ caller[d] = "waiting" THEN "error" ELSE caller[d]
          /\ answers'[d] = IF d = c /\ caller[d] = "waiting" THEN answers[d] + 1 ELSE answers[d]
    BY <1>3 DEF Answer
  <2>3. ClientTypeOK'
    BY <1>3, <2>1 DEF ClientTypeOK, Legs, Answer, Answers
  <2>4. (\A d \in Calls : caller[d] = "idle" <=> leg[d] = "idle")'
    BY <1>3, <2>2 DEF ClientInv, ClientTypeOK
  <2>5. RegistryMatchesCallers'
    <3>1. \A d \in Calls \ {c} : caller'[d] = caller[d] /\ leg'[d] = leg[d]
      BY <1>3, <2>2 DEF ClientTypeOK
    <3>2. leg[c] \notin Registered /\ caller'[c] # "waiting"
      BY <1>3, <2>2 DEF Registered
    <3> QED BY <1>3, <3>1, <3>2, RegistryUntouched
  <2>6. AnsweredOnce'
    BY <2>2 DEF ClientInv, AnsweredOnce, ClientTypeOK, Answers
  <2> QED BY <2>1, <2>3, <2>4, <2>5, <2>6 DEF ClientInv, NoStaleInbox
<1>4. ASSUME NEW c \in Calls, ConnectFails(c)
      PROVE  ClientInv'
  BY <1>3, <1>4 DEF ConnectFails, At
<1>5. ASSUME NEW c \in Calls, Publish(c)
      PROVE  ClientInv'
  <2>1. PICK to \in {"publishing", "connecting"} :
          leg[c] = "opened" /\ leg' = [leg EXCEPT ![c] = to]
    BY <1>5 DEF Publish, At
  <2>2. /\ caller[c] = "waiting"
        /\ replyTo' = [replyTo EXCEPT ![c] = inbox]
        /\ pending' = pending \cup {c} /\ deadlines' = deadlines \cup {c}
        /\ UNCHANGED <<conn, ready, watching, inbox, made, caller, answers>>
    BY <1>5 DEF Publish
  <2>3. ClientTypeOK'
    <3>1. inbox \in 0 .. MaxInboxes
      BY InboxAssumption DEF ClientTypeOK
    <3> QED BY <2>1, <2>2, <3>1 DEF ClientTypeOK, Legs
  <2>4. (\A d \in Calls : caller[d] = "idle" <=> leg[d] = "idle")'
    BY <2>1, <2>2 DEF ClientInv, ClientTypeOK
  <2>5. RegistryMatchesCallers'
    <3>1. \A d \in Calls : d \in pending <=> (caller[d] = "waiting" /\ leg[d] \in Registered)
      BY DEF ClientInv, RegistryMatchesCallers
    <3>2. \A d \in Calls : leg'[d] = IF d = c THEN to ELSE leg[d]
      BY <2>1 DEF ClientTypeOK
    <3>3. \A d \in Calls : d \in pending' <=> (caller'[d] = "waiting" /\ leg'[d] \in Registered)
      BY <2>2, <3>1, <3>2 DEF Registered
    <3>4. pending' \subseteq Calls /\ deadlines' = pending'
      BY <2>2 DEF ClientTypeOK, ClientInv, RegistryMatchesCallers
    <3> QED BY <3>3, <3>4 DEF RegistryMatchesCallers
  <2>6. NoStaleInbox'
    BY <2>2 DEF ClientInv, NoStaleInbox, ClientTypeOK
  <2> QED BY <2>2, <2>3, <2>4, <2>5, <2>6 DEF ClientInv, AnsweredOnce
<1>6. ASSUME NEW c \in Calls, EncodeFails(c)
      PROVE  ClientInv'
  <2>1. {x \in {c} : caller[x] = "waiting"} = {c}
    BY <1>6 DEF EncodeFails
  <2> QED BY <1>3, <1>6, <2>1 DEF EncodeFails, At
<1>7. ASSUME NEW c \in Calls, Resume(c) \/ PublishAcked(c)
      PROVE  ClientInv'
  <2>1. PICK to \in {"publishing", "done"} :
          /\ leg[c] \in {"connected", "publishing"}
          /\ leg' = [leg EXCEPT ![c] = to]
    BY <1>7 DEF Resume, PublishAcked, At
  <2>2. UNCHANGED <<conn, ready, watching, inbox, made, pending, deadlines, replyTo, caller, answers>>
    BY <1>7 DEF Resume, PublishAcked, registry
  <2>3. ClientTypeOK'
    BY <2>1, <2>2 DEF ClientTypeOK, Legs
  <2>4. (\A d \in Calls : caller[d] = "idle" <=> leg[d] = "idle")'
    BY <2>1, <2>2 DEF ClientInv, ClientTypeOK
  <2>5. RegistryMatchesCallers'
    BY <2>1, <2>2, RegistryUntouched DEF ClientTypeOK, Registered, registry
  <2> QED BY <2>2, <2>3, <2>4, <2>5 DEF ClientInv, AnsweredOnce, NoStaleInbox
<1>8. ASSUME NEW c \in Calls, PublishFails(c)
      PROVE  ClientInv'
  <2>1. leg[c] = "publishing" /\ leg' = [leg EXCEPT ![c] = "done"]
    BY <1>8 DEF PublishFails, At
  <2>2. leg' \in [Calls -> Legs]
    BY <2>1 DEF ClientTypeOK, Legs
  <2>3. \A d \in Calls : leg'[d] = leg[d] \/ {leg[d], leg'[d]} \subseteq Registered
    BY <2>1 DEF ClientTypeOK, Registered
  <2> QED BY <1>8, <2>2, <2>3, AnswerPending DEF PublishFails, Answers
<1>9. ASSUME NEW c \in Calls, TimeoutFires(c)
      PROVE  ClientInv'
  <2>1. {c} \cap pending = {c}
    BY <1>9 DEF TimeoutFires
  <2> QED BY <1>9, <2>1, AnswerPending DEF TimeoutFires, Answers, ClientTypeOK
<1>10. ASSUME NEW c \in Calls, NEW to, NEW how \in {"ok", "error"}, Route(c, to, how)
       PROVE  ClientInv'
  BY <1>10, AnswerPending DEF Route, Answers, ClientTypeOK
<1>11. ASSUME NEW c \in Calls, Unsubscribe(c)
       PROVE  ClientInv'
  <2>1. /\ caller[c] = "waiting" /\ caller' = [caller EXCEPT ![c] = "gone"]
        /\ pending' = pending \ {c} /\ deadlines' = deadlines \ {c}
        /\ UNCHANGED <<conn, ready, watching, inbox, made, leg, replyTo, answers>>
    BY <1>11 DEF Unsubscribe, Forget
  <2>2. ClientTypeOK'
    BY <2>1 DEF ClientTypeOK
  <2>3. \A d \in Calls : caller'[d] = IF d = c THEN "gone" ELSE caller[d]
    BY <2>1 DEF ClientTypeOK
  <2>4. RegistryMatchesCallers'
    <3>1. \A d \in Calls : d \in pending <=> (caller[d] = "waiting" /\ leg[d] \in Registered)
      BY DEF ClientInv, RegistryMatchesCallers
    <3>2. \A d \in Calls : d \in pending' <=> (caller'[d] = "waiting" /\ leg'[d] \in Registered)
      BY <2>1, <2>3, <3>1
    <3>3. pending' \subseteq Calls /\ deadlines' = pending'
      BY <2>1 DEF ClientTypeOK, ClientInv, RegistryMatchesCallers
    <3> QED BY <3>2, <3>3 DEF RegistryMatchesCallers
  <2>5. AnsweredOnce'
    BY <2>1, <2>3 DEF ClientInv, AnsweredOnce, Answers
  <2> QED BY <2>1, <2>2, <2>3, <2>4, <2>5 DEF ClientInv, NoStaleInbox
<1>12. ASSUME ConnectionUp
       PROVE  ClientInv'
  <2>1. /\ conn' = "up"
        /\ UNCHANGED <<ready, watching, inbox, made, pending, deadlines, leg, replyTo, caller, answers>>
    BY <1>12 DEF ConnectionUp, registry
  <2> QED BY <2>1 DEF ClientInv, ClientTypeOK, RegistryMatchesCallers, AnsweredOnce, NoStaleInbox
<1>13. ASSUME RejectAll, made < MaxInboxes,
              conn' \in {"none", "up", "down"}, ready' \in BOOLEAN, watching' \in BOOLEAN,
              UNCHANGED <<leg, replyTo>>
       PROVE  ClientInv'
  <2>1. made' = made /\ inbox' = 0 /\ pending' = {} /\ deadlines' = {}
    BY <1>13 DEF RejectAll, Forget
  <2>2. \A d \in Calls : caller'[d] = IF d \in pending THEN "lost" ELSE caller[d]
    BY <1>13 DEF RejectAll, Answer
  <2>3. \A d \in Calls : answers'[d] = IF d \in pending THEN answers[d] + 1 ELSE answers[d]
    BY <1>13 DEF RejectAll, Answer
  <2>4. ClientTypeOK'
    BY <1>13, <2>1 DEF ClientTypeOK, RejectAll, Answer, Answers
  <2>5. (\A d \in Calls : caller[d] = "idle" <=> leg[d] = "idle")'
    BY <1>13, <2>2, PendingWaits DEF ClientInv, Registered
  <2>6. RegistryMatchesCallers'
    BY <1>13, <2>1, <2>2 DEF ClientInv, RegistryMatchesCallers
  <2>7. AnsweredOnce'
    <3> SUFFICES ASSUME NEW d \in Calls
                 PROVE  answers'[d] <= 1 /\ (caller'[d] \notin Answers => answers'[d] = 0)
      BY DEF AnsweredOnce
    <3>1. CASE d \in pending
      BY <2>2, <2>3, <3>1, PendingWaits DEF Answers
    <3>2. CASE d \notin pending
      BY <2>2, <2>3, <3>2 DEF ClientInv, AnsweredOnce
    <3> QED BY <3>1, <3>2
  <2> QED BY <1>13, <2>1, <2>4, <2>5, <2>6, <2>7 DEF ClientInv, NoStaleInbox
<1>14. ASSUME Disconnect
       PROVE  ClientInv'
  <2>1. CASE watching
    <3>1. RejectAll /\ ready' \in BOOLEAN
      BY <1>14, <2>1, Zenon DEF Disconnect
    <3>2. watching' \in BOOLEAN
      BY <1>14 DEF Disconnect, ClientTypeOK
    <3> QED BY <1>13, <1>14, <3>1, <3>2 DEF Disconnect
  <2>2. CASE ~watching
    <3>1. /\ conn' = "down"
          /\ UNCHANGED <<ready, watching, inbox, made, pending, deadlines, leg, replyTo, caller, answers>>
      BY <1>14, <2>2 DEF Disconnect, registry
    <3> QED BY <3>1 DEF ClientInv, ClientTypeOK, RegistryMatchesCallers, AnsweredOnce, NoStaleInbox
  <2> QED BY <2>1, <2>2
<1>15. ASSUME Close
       PROVE  ClientInv'
  <2>1. ready' \in BOOLEAN /\ watching' \in BOOLEAN
    BY <1>15, Zenon DEF Close
  <2>2. conn' \in {"none", "up", "down"}
    BY <1>15 DEF Close, ClientTypeOK
  <2> QED BY <1>13, <1>15, <2>1, <2>2 DEF Close
<1> QED BY <1>1, <1>2, <1>4, <1>5, <1>6, <1>7, <1>8, <1>9, <1>10, <1>11, <1>12, <1>14, <1>15
        DEF ClientNext

--------------------------------------------------------------------------------
(***************************************************************************)
(* The composition.                                                        *)
(***************************************************************************)

\* Nothing was settled or replied for j.
Untold(j) == settles[j] = 0 /\ replies[j] = 0 /\ mail[j] = "none"

\* Where the command of call j is, who holds it, and what has been told about it.
CommandInv(j) ==
  /\ leg[j] \notin {"publishing", "done"} => cmd[j] = "absent"
  /\ cmd[j] \in {"absent", "sent", "lost", "stored"} =>
       run[j] = "none" /\ Untold(j) /\ j \notin Parked \cup inflight
  /\ j \in Parked => cmd[j] = "delivered" /\ run[j] = "none" /\ Untold(j)
  /\ j \in inflight => run[j] \in {"handling", "late"}
  /\ run[j] = "handling" => cmd[j] = "delivered" /\ Untold(j)
  /\ run[j] \in {"none", "late", "died"} => replies[j] = 0 /\ mail[j] = "none"
  /\ settles[j] <= 1 /\ replies[j] <= 1
  /\ mail[j] = "ok" => run[j] = "ok"
  /\ replies[j] > 0 =>
       \/ run[j] = "ok" /\ cmd[j] \in {"acked", "delivered"}
       \/ run[j] = "failed" /\ cmd[j] \in {"termed", "delivered"} /\ mail[j] # "ok"

ServerTyped ==
  /\ cmd \in [Jobs -> Commands]
  /\ run \in [Jobs -> Runs]
  /\ mail \in [Jobs -> {"none", "ok", "error"}]
  /\ settles \in [Jobs -> Nat]
  /\ replies \in [Jobs -> Nat]
  /\ pods \in 1 .. MaxPods

CommandsInv == ServerTyped /\ \A j \in Jobs : CommandInv(j)

Inv == ClientInv /\ GateInv /\ CommandsInv

--------------------------------------------------------------------------------
(***************************************************************************)
(* The client's and the gate's parts.                                      *)
(***************************************************************************)
\* A step of the composition is a step of the client or leaves the client alone.
LEMMA ClientSteps ==
  ASSUME Inv, [Next]_vars
  PROVE  [ClientNext]_clientVars
<1>1. ASSUME NEW c \in Calls, Local(c) \/ Submit(c) \/ Acknowledged(c)
      PROVE  ClientNext
  BY <1>1 DEF Local, Submit, Acknowledged, ClientNext
<1>2. ASSUME NEW c \in Calls, Arrive(c)
      PROVE  [ClientNext]_clientVars
  <2>1. CASE UNCHANGED clientVars
    BY <2>1
  <2>2. CASE \E how \in {mail[c], "error"} : Route(c, replyTo[c], how)
    <3>1. mail[c] \in {"ok", "error"}
      BY <1>2, SameCalls DEF Arrive, Inv, CommandsInv, ServerTyped
    <3>2. PICK how \in {"ok", "error"} : Route(c, replyTo[c], how)
      BY <2>2, <3>1
    <3>3. replyTo[c] \in 1 .. MaxInboxes
      BY <3>2, InboxAssumption DEF Route, Inv, ClientInv, ClientTypeOK
    <3> QED BY <3>2, <3>3 DEF ClientNext
  <2> QED BY <1>2, <2>1, <2>2 DEF Arrive
<1>3. ASSUME NEW c \in Calls, Store(c)
      PROVE  UNCHANGED clientVars
  BY <1>3 DEF Store
<1>4. ASSUME Link
      PROVE  ClientNext
  BY <1>4 DEF Link, ClientNext
<1>5. ASSUME Serve \/ UNCHANGED vars
      PROVE  UNCHANGED clientVars
  BY <1>5 DEF Serve, vars
<1> QED BY <1>1, <1>2, <1>3, <1>4, <1>5 DEF Next

\* The client's invariant is preserved by the composition.
LEMMA ClientKept ==
  ASSUME Inv, [Next]_vars
  PROVE  ClientInv'
<1>1. CASE ClientNext
  BY <1>1, ClientStep DEF Inv
<1>2. CASE UNCHANGED clientVars
  BY <1>2 DEF Inv, ClientInv, ClientTypeOK, RegistryMatchesCallers, AnsweredOnce,
              NoStaleInbox, clientVars, linkVars, inboxVars, registry, callerVars
<1> QED BY <1>1, <1>2, ClientSteps

\* A new gate.
LEMMA NewGate ==
  ASSUME Replace
  PROVE  GateInv' /\ Parked' = {} /\ inflight' = {}
<1>1. IsFiniteSet({}) /\ Cardinality({}) = 0
  BY FS_EmptySet
<1>2. Parked' = {} /\ IsInjective(backlog') /\ backlog' \in Seq(Jobs)
  BY EmptyBacklog DEF Replace, Parked
<1>3. /\ active' = 0 /\ inflight' = {} /\ timers' = {} /\ backlog' = <<>> /\ draining' = FALSE
      /\ open' = TRUE /\ finished' = {} /\ handedBack' = {}
  BY DEF Replace
<1>4. active' \in 0 .. MaxActive
  BY <1>3, MaxActiveAssumption
<1>5. draining' \in BOOLEAN /\ open' \in BOOLEAN
  BY <1>3
<1>6. GateTypeOK'
  BY <1>2, <1>3, <1>4, <1>5 DEF GateTypeOK
<1>7. SlotsExact'
  BY <1>1, <1>3, MaxActiveAssumption DEF SlotsExact
<1>8. NoIdleSlot' /\ NoTimerLeak' /\ ClosedIsEmpty'
  BY <1>3 DEF NoIdleSlot, NoTimerLeak, ClosedIsEmpty
<1>9. JobsPartitioned'
  BY <1>2, <1>3 DEF JobsPartitioned
<1> QED BY <1>2, <1>3, <1>6, <1>7, <1>8, <1>9 DEF GateInv

\* A step of the composition is a step of the gate, leaves it alone, or replaces it.
LEMMA GateKept ==
  ASSUME Inv, [Next]_vars
  PROVE  GateInv'
<1>1. CASE \/ \E c \in Calls : Local(c) \/ Submit(c) \/ Store(c) \/ Acknowledged(c) \/ Arrive(c)
           \/ Link
           \/ UNCHANGED vars
  <2>1. UNCHANGED gateVars
    BY <1>1 DEF Local, Submit, Store, Acknowledged, Arrive, Link, vars, serverVars
  <2> QED BY <2>1, GateNextInv DEF Inv
<1>2. CASE Serve
  <2>1. CASE Replace
    BY <2>1, NewGate
  <2>3. CASE GateNext
    BY <2>3, GateNextInv DEF Inv
  <2>4. ASSUME NEW j \in Jobs,
               \/ Deliver(j, Addressed(j)) \/ Drain(j, Addressed(j))
               \/ HandlerEnds(j) \/ LapseParked(j)
        PROVE  GateNext
    BY <2>4, ServerAssumption DEF Deliver, Drain, HandlerEnds, LapseParked, GateNext
  <2>5. ASSUME DrainStops \/ Destroy
        PROVE  GateNext
    BY <2>5 DEF DrainStops, Destroy, GateNext
  <2>6. ASSUME NEW j \in Jobs, HandlerTimesOut(j)
        PROVE  GateInv'
    BY <2>6, GateNextInv DEF Inv, HandlerTimesOut
  <2> QED BY <1>2, <2>1, <2>3, <2>4, <2>5, <2>6 DEF Serve, ServerNext
<1> QED BY <1>1, <1>2 DEF Next

--------------------------------------------------------------------------------
(***************************************************************************)
(* The commands, one lemma per kind of step.                               *)
(***************************************************************************)
\* A step that tells nothing about command d.
SameCommand(d) ==
  /\ cmd'[d] = cmd[d] /\ run'[d] = run[d] /\ mail'[d] = mail[d]
  /\ settles'[d] = settles[d] /\ replies'[d] = replies[d]

\* The invariant of a command survives a step that tells nothing about it and puts it
\* nowhere new.
LEMMA CommandFrame ==
  ASSUME NEW d \in Jobs, CommandInv(d), SameCommand(d),
         leg[d] \in {"publishing", "done"} => leg'[d] \in {"publishing", "done"},
         d \in Parked' => d \in Parked,
         d \in inflight' => d \in inflight
  PROVE  CommandInv(d)'
BY DEF CommandInv, SameCommand, Untold

\* A command that was delivered and not told about yet gets its one outcome: refused,
\* acked with a reply, or termed with an error.
LEMMA Told ==
  ASSUME ServerTyped,
         NEW j \in Jobs, CommandInv(j), Untold(j),
         cmd[j] \in {"stored", "delivered"},
         (run[j] = "none" /\ Refuse(j)) \/ Succeed(j) \/ Fail(j),
         leg' = leg, j \notin Parked', j \notin inflight', pods' = pods
  PROVE  ServerTyped' /\ CommandInv(j)' /\ \A d \in Jobs \ {j} : SameCommand(d)
<1>1. leg[j] \in {"publishing", "done"}
  BY DEF CommandInv
<1>2. ASSUME NEW how \in {"acked", "termed"}, Settle(j, how)
      PROVE  /\ cmd' \in [Jobs -> Commands] /\ settles' \in [Jobs -> Nat]
             /\ cmd'[j] \in {how, "delivered"} /\ settles'[j] = 1
             /\ \A d \in Jobs \ {j} : cmd'[d] = cmd[d] /\ settles'[d] = settles[d]
  BY <1>2 DEF Settle, ServerTyped, Commands, Untold
<1>3. ASSUME NEW hows \in SUBSET {"ok", "error"}, Reply(j, hows)
      PROVE  /\ mail' \in [Jobs -> {"none", "ok", "error"}] /\ replies' \in [Jobs -> Nat]
             /\ mail'[j] \in hows \cup {"none"} /\ replies'[j] \in {0, 1}
             /\ replies'[j] = 0 => mail'[j] = "none"
             /\ \A d \in Jobs \ {j} : mail'[d] = mail[d] /\ replies'[d] = replies[d]
  <2>1. CASE NoReply
    BY <2>1 DEF NoReply, ServerTyped, Untold
  <2>2. ASSUME NEW how \in hows,
               mail' = [mail EXCEPT ![j] = how], replies' = [replies EXCEPT ![j] = @ + 1]
        PROVE  /\ mail' \in [Jobs -> {"none", "ok", "error"}] /\ replies' \in [Jobs -> Nat]
               /\ mail'[j] = how /\ replies'[j] = 1
               /\ \A d \in Jobs \ {j} : mail'[d] = mail[d] /\ replies'[d] = replies[d]
    BY <2>2 DEF ServerTyped, Untold
  <2> QED BY <1>3, <2>1, <2>2 DEF Reply
<1>4. ASSUME NEW how \in {"ok", "failed"}, Ends(j, how)
      PROVE  /\ run' \in [Jobs -> Runs] /\ run'[j] = how
             /\ \A d \in Jobs \ {j} : run'[d] = run[d]
  BY <1>4 DEF Ends, ServerTyped, Runs
<1>5. CASE run[j] = "none" /\ Refuse(j)
  <2>1. /\ Settle(j, "termed") /\ mail' = mail /\ replies' = replies /\ run' = run
    BY <1>5 DEF Refuse, NoReply
  <2> QED BY <1>1, <1>2, <1>5, <2>1 DEF ServerTyped, CommandInv, SameCommand, Untold
<1>6. CASE Succeed(j)
  <2>1. Ends(j, "ok") /\ Settle(j, "acked") /\ Reply(j, {"ok", "error"})
    BY <1>6 DEF Succeed
  <2>2. ServerTyped' /\ \A d \in Jobs \ {j} : SameCommand(d)
    BY <1>2, <1>3, <1>4, <2>1 DEF ServerTyped, SameCommand
  <2>3. /\ run'[j] = "ok" /\ cmd'[j] \in {"acked", "delivered"} /\ settles'[j] = 1
        /\ replies'[j] \in {0, 1}
    BY <1>2, <1>3, <1>4, <2>1
  <2> QED BY <1>1, <2>2, <2>3 DEF CommandInv, Untold
<1>7. CASE Fail(j)
  <2>1. Ends(j, "failed") /\ Settle(j, "termed") /\ Reply(j, {"error"})
    BY <1>7 DEF Fail
  <2>2. ServerTyped' /\ \A d \in Jobs \ {j} : SameCommand(d)
    BY <1>2, <1>3, <1>4, <2>1 DEF ServerTyped, SameCommand
  <2>3. /\ run'[j] = "failed" /\ cmd'[j] \in {"termed", "delivered"} /\ settles'[j] = 1
        /\ replies'[j] \in {0, 1} /\ mail'[j] # "ok"
    BY <1>2, <1>3, <1>4, <2>1
  <2> QED BY <1>1, <2>2, <2>3 DEF CommandInv, Untold
<1> QED BY <1>5, <1>6, <1>7

\* A handler that starts is the first one of its command.
LEMMA Begun ==
  ASSUME ServerTyped,
         NEW j \in Jobs, CommandInv(j), Untold(j),
         cmd[j] \in {"stored", "delivered"},
         NEW addressed, HandleAsync(j, addressed),
         leg' = leg, j \notin Parked', pods' = pods
  PROVE  ServerTyped' /\ CommandInv(j)' /\ \A d \in Jobs \ {j} : SameCommand(d)
<1>1. /\ run' = [run EXCEPT ![j] = "handling"] /\ cmd' = [cmd EXCEPT ![j] = "delivered"]
      /\ mail' = mail /\ replies' = replies /\ settles' = settles
  BY DEF HandleAsync, Ends, NoReply
<1>2. ServerTyped' /\ \A d \in Jobs \ {j} : SameCommand(d)
  BY <1>1 DEF ServerTyped, SameCommand, Commands, Runs
<1>3. run'[j] = "handling" /\ cmd'[j] = "delivered" /\ Untold(j)'
  BY <1>1 DEF ServerTyped, Untold
<1>4. leg'[j] \in {"publishing", "done"}
  BY DEF CommandInv
<1> QED BY <1>2, <1>3, <1>4 DEF CommandInv, Untold

\* Together: a step about command j alone.
LEMMA OneCommand ==
  ASSUME CommandsInv, leg' = leg,
         NEW j \in Jobs,
         ServerTyped', CommandInv(j)', \A d \in Jobs \ {j} : SameCommand(d),
         Parked' \subseteq Parked \cup {j}, inflight' \subseteq inflight \cup {j}
  PROVE  CommandsInv'
<1>1. ASSUME NEW d \in Jobs, d # j PROVE CommandInv(d)'
  BY <1>1, CommandFrame DEF CommandsInv
<1> QED BY <1>1 DEF CommandsInv

\* The client's own steps never take a call back to before its publish.
LEMMA LegsForward ==
  ASSUME ClientTypeOK,
         UNCHANGED leg \/ \E c \in Calls : Local(c) \/ Acknowledged(c),
         NEW d \in Calls, leg[d] \in {"publishing", "done"}
  PROVE  leg'[d] \in {"publishing", "done"}
BY DEF Local, Acknowledged, Send, Connect, ConnectFails, EncodeFails, PublishFails, TimeoutFires,
       Unsubscribe, PublishAcked, At, ClientTypeOK

\* A step of the client alone.
LEMMA LocalKept ==
  ASSUME Inv, UNCHANGED serverVars,
         UNCHANGED leg \/ \E c \in Calls : Local(c) \/ Acknowledged(c)
  PROVE  CommandsInv'
<1>1. /\ UNCHANGED <<cmd, run, mail, settles, replies, pods>> /\ Parked' = Parked
      /\ inflight' = inflight
  BY DEF serverVars, gateVars, Parked
<1>2. ServerTyped'
  BY <1>1 DEF Inv, CommandsInv, ServerTyped
<1>3. ASSUME NEW d \in Jobs PROVE CommandInv(d)'
  BY <1>1, <1>3, LegsForward, CommandFrame, SameCalls DEF Inv, ClientInv, CommandsInv, SameCommand
<1> QED BY <1>2, <1>3 DEF CommandsInv

\* A command is sent once: the call had sent none before.
LEMMA SubmitKept ==
  ASSUME Inv, NEW c \in Calls, Submit(c)
  PROVE  CommandsInv'
<1>1. /\ UNCHANGED <<run, mail, settles, replies, pods>> /\ Parked' = Parked
      /\ inflight' = inflight
  BY DEF Submit, gateVars, Parked
<1>2. PICK to \in {"publishing", "connecting", "done"} :
        leg[c] \in {"opened", "connected"} /\ leg' = [leg EXCEPT ![c] = to]
  BY DEF Submit, Publish, Resume, At
<1>3. CommandInv(c) /\ c \in Jobs /\ cmd[c] = "absent"
  BY <1>2, SameCalls DEF Inv, CommandsInv, CommandInv
<1>4. leg'[c] = to /\ \A d \in Calls \ {c} : leg'[d] = leg[d]
  BY <1>2 DEF Inv, ClientInv, ClientTypeOK
<1>5. cmd' \in [Jobs -> Commands] /\ \A d \in Jobs \ {c} : cmd'[d] = cmd[d]
  BY <1>3 DEF Submit, Inv, CommandsInv, ServerTyped, Commands
<1>6. cmd'[c] = IF to = "publishing" THEN "sent" ELSE "absent"
  BY <1>3, <1>4 DEF Submit, Inv, CommandsInv, ServerTyped
<1>7. CommandInv(c)'
  BY <1>1, <1>3, <1>4, <1>6 DEF CommandInv, Untold
<1>8. ASSUME NEW d \in Jobs, d # c PROVE CommandInv(d)'
  <2>1. SameCommand(d) /\ leg'[d] = leg[d]
    BY <1>1, <1>4, <1>5, <1>8, SameCalls DEF SameCommand
  <2> QED BY <1>1, <2>1, CommandFrame DEF Inv, CommandsInv
<1> QED BY <1>1, <1>5, <1>7, <1>8 DEF CommandsInv, ServerTyped, Inv

\* The stream stores or loses a command.
LEMMA StoreKept ==
  ASSUME Inv, NEW c \in Calls, Store(c)
  PROVE  CommandsInv'
<1>1. /\ UNCHANGED <<run, mail, settles, replies, pods, leg>> /\ Parked' = Parked
      /\ inflight' = inflight
  BY DEF Store, gateVars, Parked, clientVars
<1>2. PICK to \in {"stored", "lost"} : cmd[c] = "sent" /\ cmd' = [cmd EXCEPT ![c] = to]
  BY DEF Store
<1>3. CommandInv(c) /\ c \in Jobs
  BY SameCalls DEF Inv, CommandsInv
<1>4. ServerTyped' /\ cmd'[c] = to /\ \A d \in Jobs \ {c} : SameCommand(d)
  BY <1>1, <1>2, <1>3 DEF Inv, CommandsInv, ServerTyped, Commands, SameCommand
<1>5. CommandInv(c)'
  BY <1>1, <1>2, <1>3, <1>4 DEF CommandInv, Untold
<1> QED BY <1>1, <1>3, <1>4, <1>5, OneCommand DEF Inv

\* A reply leaves the wire.
LEMMA ArriveKept ==
  ASSUME Inv, NEW c \in Calls, Arrive(c)
  PROVE  CommandsInv'
<1>1. /\ UNCHANGED <<cmd, run, settles, replies, pods>> /\ Parked' = Parked
      /\ inflight' = inflight /\ leg' = leg
  BY DEF Arrive, Route, gateVars, Parked, clientVars
<1>2. CommandInv(c) /\ c \in Jobs
  BY SameCalls DEF Inv, CommandsInv
<1>3. mail' = [mail EXCEPT ![c] = "none"]
  BY DEF Arrive
<1>4. ServerTyped' /\ mail'[c] = "none" /\ \A d \in Jobs \ {c} : SameCommand(d)
  BY <1>1, <1>2, <1>3 DEF Inv, CommandsInv, ServerTyped, SameCommand
<1>5. CommandInv(c)'
  BY <1>1, <1>2, <1>4 DEF CommandInv, Untold
<1> QED BY <1>1, <1>2, <1>4, <1>5, OneCommand DEF Inv

\* push(): the command was only stored, so nothing has been told about it.
LEMMA DeliverKept ==
  ASSUME Inv, NEW j \in Jobs, NEW addressed, Deliver(j, addressed), leg' = leg
  PROVE  CommandsInv'
<1>1. /\ ServerTyped /\ CommandsInv /\ CommandInv(j) /\ cmd[j] = "stored" /\ pods' = pods
      /\ backlog \in Seq(Jobs)
  BY DEF Inv, CommandsInv, Deliver, GateInv, GateTypeOK
<1>2. run[j] = "none" /\ Untold(j) /\ j \notin Parked \cup inflight
  BY <1>1 DEF CommandInv
<1>3. CASE PushRoutesSync(j) /\ HandleSync(j, addressed)
  <2>1. Parked' = Parked /\ inflight' = inflight
    BY <1>3 DEF PushRoutesSync, Parked
  <2>2. Refuse(j) \/ Succeed(j) \/ Fail(j)
    BY <1>3 DEF HandleSync
  <2>3. ServerTyped' /\ CommandInv(j)' /\ \A d \in Jobs \ {j} : SameCommand(d)
    BY <1>1, <1>2, <2>1, <2>2, Told
  <2> QED BY <1>1, <2>1, <2>3, OneCommand
<1>4. CASE PushRoutesAsync(j) /\ HandleAsync(j, addressed)
  <2>1. Parked' = Parked /\ inflight' = inflight \cup {j}
    BY <1>4 DEF PushRoutesAsync, Parked
  <2>2. ServerTyped' /\ CommandInv(j)' /\ \A d \in Jobs \ {j} : SameCommand(d)
    BY <1>1, <1>2, <1>4, <2>1, Begun
  <2> QED BY <1>1, <2>1, <2>2, OneCommand
<1>5. CASE /\ PushParks(j, ParkTimer)
           /\ cmd' = [cmd EXCEPT ![j] = "delivered"]
           /\ UNCHANGED <<run, mail, settles, replies>>
  <2>1. Parked' = Parked \cup {j} /\ inflight' = inflight
    BY <1>1, <1>5, AppendParks DEF PushParks, Parked
  <2>2. ServerTyped' /\ cmd'[j] = "delivered" /\ \A d \in Jobs \ {j} : SameCommand(d)
    BY <1>1, <1>5 DEF ServerTyped, Commands, SameCommand
  <2>3. CommandInv(j)'
    BY <1>1, <1>2, <1>5, <2>1, <2>2 DEF CommandInv, Untold
  <2> QED BY <1>1, <2>1, <2>2, <2>3, OneCommand
<1> QED BY <1>3, <1>4, <1>5 DEF Deliver

\* drainBacklog(): a parked command has not been told about, and it is parked once.
LEMMA DrainKept ==
  ASSUME Inv, NEW j \in Jobs, NEW addressed, Drain(j, addressed), leg' = leg
  PROVE  CommandsInv'
<1>1. /\ ServerTyped /\ CommandsInv /\ CommandInv(j) /\ pods' = pods
      /\ backlog \in Seq(Jobs) /\ IsInjective(backlog) /\ backlog # <<>> /\ j = Head(backlog)
      /\ Parked \cap inflight = {}
  BY DEF Inv, CommandsInv, Drain, GateInv, GateTypeOK, JobsPartitioned
<1>2. j \in Parked /\ Range(Tail(backlog)) = Parked \ {j}
  BY <1>1, TailShifts DEF Parked
<1>3. run[j] = "none" /\ Untold(j) /\ cmd[j] = "delivered" /\ j \notin inflight
  BY <1>1, <1>2 DEF CommandInv
<1>4. CASE DrainsSync /\ HandleSync(j, addressed)
  <2>1. Parked' = Parked \ {j} /\ inflight' = inflight
    BY <1>2, <1>4 DEF DrainsSync, DrainHead, Parked
  <2>2. Refuse(j) \/ Succeed(j) \/ Fail(j)
    BY <1>4 DEF HandleSync
  <2>3. ServerTyped' /\ CommandInv(j)' /\ \A d \in Jobs \ {j} : SameCommand(d)
    BY <1>1, <1>3, <2>1, <2>2, Told
  <2> QED BY <1>1, <2>1, <2>3, OneCommand
<1>5. CASE DrainsAsync /\ HandleAsync(j, addressed)
  <2>1. Parked' = Parked \ {j} /\ inflight' = inflight \cup {j}
    BY <1>1, <1>2, <1>5 DEF DrainsAsync, DrainHead, Parked
  <2>2. ServerTyped' /\ CommandInv(j)' /\ \A d \in Jobs \ {j} : SameCommand(d)
    BY <1>1, <1>3, <1>5, <2>1, Begun
  <2> QED BY <1>1, <2>1, <2>2, OneCommand
<1> QED BY <1>4, <1>5 DEF Drain

\* The handler's Promise settles, before the deadline or after it.
LEMMA HandlerEndsKept ==
  ASSUME Inv, NEW j \in Jobs, HandlerEnds(j), leg' = leg
  PROVE  CommandsInv'
<1>1. /\ ServerTyped /\ CommandsInv /\ CommandInv(j) /\ pods' = pods
      /\ Parked' = Parked /\ inflight' = inflight \ {j} /\ j \in inflight
      /\ Parked \cap inflight = {}
  BY DEF Inv, CommandsInv, HandlerEnds, RouteDone, Parked, GateInv, JobsPartitioned
<1>2. CASE run[j] = "handling" /\ (Succeed(j) \/ Fail(j))
  <2>1. Untold(j) /\ cmd[j] = "delivered"
    BY <1>1, <1>2 DEF CommandInv
  <2>2. ServerTyped' /\ CommandInv(j)' /\ \A d \in Jobs \ {j} : SameCommand(d)
    BY <1>1, <1>2, <2>1, Told
  <2> QED BY <1>1, <2>2, OneCommand
<1>3. CASE /\ run[j] = "late"
           /\ \E how \in {"ok", "failed"} : Ends(j, how)
           /\ NoReply
           /\ UNCHANGED <<cmd, settles>>
  <2>1. PICK how \in {"ok", "failed"} : run' = [run EXCEPT ![j] = how]
    BY <1>3 DEF Ends
  <2>2. UNCHANGED <<cmd, settles, mail, replies>>
    BY <1>3 DEF NoReply
  <2>3. ServerTyped' /\ run'[j] = how /\ \A d \in Jobs \ {j} : SameCommand(d)
    BY <1>1, <2>1, <2>2 DEF ServerTyped, Runs, SameCommand
  <2>4. CommandInv(j)'
    BY <1>1, <1>3, <2>2, <2>3 DEF CommandInv, Untold
  <2> QED BY <1>1, <2>3, <2>4, OneCommand
<1> QED BY <1>2, <1>3 DEF HandlerEnds

\* The deadline of a handler that is still running is the first thing told.
LEMMA HandlerTimesOutKept ==
  ASSUME Inv, NEW j \in Jobs, HandlerTimesOut(j), leg' = leg
  PROVE  CommandsInv'
<1>1. /\ ServerTyped /\ CommandsInv /\ CommandInv(j) /\ pods' = pods
      /\ Parked' = Parked /\ inflight' = inflight /\ run[j] = "handling"
  BY DEF Inv, CommandsInv, HandlerTimesOut, gateVars, Parked
<1>2. Untold(j) /\ cmd[j] = "delivered"
  BY <1>1 DEF CommandInv
<1>3. /\ run' = [run EXCEPT ![j] = "late"] /\ mail' = mail /\ replies' = replies
      /\ settles' = [settles EXCEPT ![j] = @ + 1]
      /\ cmd' \in {[cmd EXCEPT ![j] = "termed"], [cmd EXCEPT ![j] = "delivered"]}
  BY DEF HandlerTimesOut, Ends, Settle, NoReply
<1>4. ServerTyped'
  BY <1>1, <1>3 DEF ServerTyped, Runs, Commands
<1>5. /\ run'[j] = "late" /\ cmd'[j] \in {"termed", "delivered"} /\ settles'[j] = 1
      /\ \A d \in Jobs \ {j} : SameCommand(d)
  BY <1>1, <1>2, <1>3 DEF ServerTyped, SameCommand, Untold
<1>6. CommandInv(j)'
  BY <1>1, <1>2, <1>3, <1>5 DEF CommandInv, Untold
<1> QED BY <1>1, <1>4, <1>5, <1>6, OneCommand

\* destroy() naks what is parked, which nothing was told about.
LEMMA DestroyKept ==
  ASSUME Inv, Destroy, leg' = leg
  PROVE  CommandsInv'
<1>1. /\ ServerTyped /\ CommandsInv /\ Parked' = {} /\ inflight' = inflight
      /\ Parked \cap inflight = {}
      /\ UNCHANGED <<run, mail, replies, pods>>
  BY EmptyBacklog DEF Inv, CommandsInv, Destroy, Dispose, Parked, GateInv, JobsPartitioned
<1>2. /\ cmd' = [j \in Jobs |-> IF j \in Parked THEN "naked" ELSE cmd[j]]
      /\ settles' = [j \in Jobs |-> IF j \in Parked THEN settles[j] + 1 ELSE settles[j]]
  BY DEF Destroy
<1>3. ServerTyped'
  BY <1>1, <1>2 DEF ServerTyped, Commands
<1>4. ASSUME NEW d \in Jobs PROVE CommandInv(d)'
  <2>1. CommandInv(d)
    BY <1>1 DEF CommandsInv
  <2>2. CASE d \in Parked
    <3>1. Untold(d) /\ run[d] = "none" /\ cmd[d] = "delivered" /\ d \notin inflight
      BY <1>1, <2>1, <2>2 DEF CommandInv
    <3>2. cmd'[d] = "naked" /\ settles'[d] = 1
      BY <1>2, <2>2, <3>1 DEF Untold
    <3> QED BY <1>1, <2>1, <3>1, <3>2 DEF CommandInv, Untold
  <2>3. CASE d \notin Parked
    <3>1. SameCommand(d)
      BY <1>1, <1>2, <2>3 DEF SameCommand
    <3> QED BY <1>1, <2>1, <3>1, CommandFrame
  <2> QED BY <2>2, <2>3
<1> QED BY <1>3, <1>4 DEF CommandsInv

\* A new pod knows none of the commands delivered to the old one.
LEMMA ReplaceKept ==
  ASSUME Inv, Replace, leg' = leg
  PROVE  CommandsInv'
<1>1. /\ ServerTyped /\ CommandsInv /\ Parked' = {} /\ inflight' = {}
      /\ UNCHANGED <<cmd, mail, settles, replies>>
  BY NewGate DEF Inv, CommandsInv, Replace
<1>2. run' = [j \in Jobs |-> IF run[j] \in {"handling", "late"} THEN "died" ELSE run[j]]
  BY DEF Replace
<1>3. pods' \in 1 .. MaxPods
  BY <1>1, ServerAssumption DEF Replace, ServerTyped
<1>4. ServerTyped'
  BY <1>1, <1>2, <1>3 DEF ServerTyped, Runs
<1>5. ASSUME NEW d \in Jobs PROVE CommandInv(d)'
  <2>1. CommandInv(d)
    BY <1>1 DEF CommandsInv
  <2>2. run'[d] = IF run[d] \in {"handling", "late"} THEN "died" ELSE run[d]
    BY <1>2
  <2> QED BY <1>1, <2>1, <2>2 DEF CommandInv, Untold
<1> QED BY <1>4, <1>5 DEF CommandsInv

\* Steps of the gate alone.
LEMMA GateOnlyKept ==
  ASSUME Inv, leg' = leg, DrainStops \/ \E j \in Jobs : LapseParked(j)
  PROVE  CommandsInv'
<1>1. /\ CommandsInv /\ Parked' = Parked /\ inflight' = inflight
      /\ UNCHANGED <<cmd, run, mail, settles, replies, pods>>
  BY DEF Inv, DrainStops, LapseParked, DrainEnds, ParkTimerLapses, Parked
<1>2. ServerTyped'
  BY <1>1 DEF CommandsInv, ServerTyped
<1>3. ASSUME NEW d \in Jobs PROVE CommandInv(d)'
  BY <1>1, <1>3, CommandFrame DEF CommandsInv, SameCommand
<1> QED BY <1>2, <1>3 DEF CommandsInv

--------------------------------------------------------------------------------
(***************************************************************************)
(* The theorems.                                                           *)
(***************************************************************************)
\* The invariant holds before any call.
LEMMA InitInv == Init => Inv
<1> SUFFICES ASSUME Init PROVE Inv
  OBVIOUS
<1>1. ClientInv /\ GateInv
  BY ClientInitInv, GateInitInv DEF Init, ServerInit
<1>2. ServerTyped
  BY ServerAssumption DEF Init, ServerInit, ServerTyped, Commands, Runs
<1>3. Parked = {} /\ inflight = {}
  BY EmptyBacklog DEF Init, ServerInit, GateInit, Parked
<1>4. ASSUME NEW j \in Jobs PROVE CommandInv(j)
  BY <1>3 DEF Init, ServerInit, CommandInv, Untold
<1> QED BY <1>1, <1>2, <1>4 DEF Inv, CommandsInv

\* Every step of client, stream, wire and serving pod preserves it.
LEMMA NextInv == Inv /\ [Next]_vars => Inv'
<1> SUFFICES ASSUME Inv, [Next]_vars PROVE CommandsInv'
  BY ClientKept, GateKept DEF Inv
<1>1. ASSUME NEW c \in Calls, Local(c) \/ Acknowledged(c)
      PROVE  CommandsInv'
  BY <1>1, LocalKept DEF Local, Acknowledged
<1>2. ASSUME Link
      PROVE  CommandsInv'
  <2>1. UNCHANGED leg /\ UNCHANGED serverVars
    BY <1>2 DEF Link, ConnectionUp, Disconnect, Close
  <2> QED BY <2>1, LocalKept
<1>3. CASE UNCHANGED vars
  BY <1>3, LocalKept DEF vars, clientVars
<1>4. CASE Serve
  <2>1. leg' = leg
    BY <1>4 DEF Serve, clientVars
  <2> QED BY <1>4, <2>1, DeliverKept, DrainKept, HandlerEndsKept, HandlerTimesOutKept,
             DestroyKept, ReplaceKept, GateOnlyKept DEF Serve, ServerNext
<1> QED BY <1>1, <1>2, <1>3, <1>4, SubmitKept, StoreKept, ArriveKept DEF Next

\* The inductive invariant holds in every reachable state.
THEOREM CallCorrect == Spec => []Inv
BY InitInv, NextInv, PTL DEF Spec

\* The state of client, stream, gate and handlers is always well typed.
THEOREM CallTyped == Spec => []TypeOK
<1>1. Inv => TypeOK
  BY DEF Inv, ClientInv, GateInv, CommandsInv, ServerTyped, ServerTypeOK, TypeOK
<1> QED BY <1>1, CallCorrect, PTL

\* rpc-reply-inbox.ts: the registry holds exactly the published calls whose callers
\* wait, each with its deadline.
THEOREM CallRegistry == Spec => []RegistryMatchesCallers
<1>1. Inv => RegistryMatchesCallers
  BY DEF Inv, ClientInv
<1> QED BY <1>1, CallCorrect, PTL

\* jetstream.client.ts: no caller is answered twice, or after it left.
THEOREM CallAnsweredOnce == Spec => []AnsweredOnce
<1>1. Inv => AnsweredOnce
  BY DEF Inv, ClientInv
<1> QED BY <1>1, CallCorrect, PTL

\* No pending call waits at an inbox that was replaced.
THEOREM CallNoStaleInbox == Spec => []NoStaleInbox
<1>1. Inv => NoStaleInbox
  BY DEF Inv, ClientInv
<1> QED BY <1>1, CallCorrect, PTL

\* rpc.router.ts: handler, deadline, destroy() and new pods settle a command at most
\* once and reply to it at most once.
THEOREM CallSettledOnce == Spec => []SettledOnce
<1>1. Inv => SettledOnce
  BY DEF Inv, CommandsInv, CommandInv, SettledOnce
<1> QED BY <1>1, CallCorrect, PTL

\* What the caller is sent and what the stream is told agree.
THEOREM CallReplyMatchesSettlement == Spec => []ReplyMatchesSettlement
<1>1. Inv => ReplyMatchesSettlement
  BY DEF Inv, CommandsInv, CommandInv, ReplyMatchesSettlement
<1> QED BY <1>1, CallCorrect, PTL

--------------------------------------------------------------------------------
(***************************************************************************)
(* The refinement: every step is a step of the contract or invisible to it. *)
(***************************************************************************)
\* A step that changes neither a caller nor a handler is invisible.
LEMMA Invisible ==
  ASSUME caller' = caller, \A c \in Calls : EffectOf(c)' = EffectOf(c)
  PROVE  UNCHANGED Promise!contractVars
BY DEF Promise!contractVars

\* Answering callers that wait is a step of the contract, with "ok" only after the
\* handler succeeded.
LEMMA Tells ==
  ASSUME NEW cs \in SUBSET Calls, \A c \in cs : caller[c] = "waiting",
         NEW how \in Answers, how = "ok" => \A c \in cs : run[c] = "ok",
         caller \in [Calls -> {"idle", "waiting", "gone"} \cup Answers],
         caller' = [c \in Calls |-> IF c \in cs THEN how ELSE caller[c]],
         run' = run
  PROVE  [Promise!ContractNext]_(Promise!contractVars)
<1>1. [c \in Calls |-> EffectOf(c)'] = [c \in Calls |-> EffectOf(c)]
  BY DEF EffectOf
<1>2. CASE cs = {}
  <2>1. caller' = caller
    BY <1>2
  <2> QED BY <1>1, <2>1 DEF Promise!contractVars
<1>3. CASE cs # {}
  <2>1. how = "ok" => \A c \in cs : [d \in Calls |-> EffectOf(d)][c] = "done"
    BY DEF EffectOf
  <2>2. Promise!Tell(cs)
    BY <1>1, <2>1 DEF Promise!Tell, Promise!Outcomes, Answers
  <2> QED BY <1>3, <2>2 DEF Promise!ContractNext
<1> QED BY <1>2, <1>3

\* What a step may do to the handler of one call that was made.
LEMMA HandlerMoves ==
  ASSUME NEW j \in Calls, caller' = caller, caller[j] # "idle",
         \/ run[j] = "none" /\ run'[j] \in {"none", "handling", "ok", "failed"}
         \/ run[j] \in {"handling", "late"} /\ run'[j] \in {"late", "ok", "failed"},
         \A c \in Calls \ {j} : run'[c] = run[c]
  PROVE  [Promise!ContractNext]_(Promise!contractVars)
<1> DEFINE eff == [c \in Calls |-> EffectOf(c)]
<1>1. \A c \in Calls \ {j} : EffectOf(c)' = EffectOf(c)
  BY DEF EffectOf
<1>2. CASE EffectOf(j)' = EffectOf(j)
  BY <1>1, <1>2, Invisible
<1>3. CASE EffectOf(j)' # EffectOf(j)
  <2>1. eff' = [eff EXCEPT ![j] = EffectOf(j)']
    BY <1>1
  <2>2. CASE run[j] = "none"
    <3>1. eff[j] = "none" /\ EffectOf(j)' \in {"begun", "done", "failed"}
      BY <1>3, <2>2 DEF EffectOf
    <3>2. Promise!Begin(j)
      BY <2>1, <3>1 DEF Promise!Begin, Promise!Effect
    <3> QED BY <3>2 DEF Promise!ContractNext
  <2>3. CASE run[j] \in {"handling", "late"}
    <3>1. eff[j] = "begun" /\ EffectOf(j)' \in {"done", "failed"}
      BY <1>3, <2>3 DEF EffectOf
    <3>2. Promise!End(j)
      BY <2>1, <3>1 DEF Promise!End, Promise!Effect
    <3> QED BY <3>2 DEF Promise!ContractNext
  <2> QED BY <2>2, <2>3
<1> QED BY <1>2, <1>3

\* The client's steps: a call is made, left, or answered with something else than "ok".
LEMMA ClientPromise ==
  ASSUME Inv, run' = run,
         \/ Link
         \/ \E c \in Calls : Local(c) \/ Submit(c) \/ Acknowledged(c)
  PROVE  [Promise!ContractNext]_(Promise!contractVars)
<1> ClientTypeOK /\ caller \in [Calls -> {"idle", "waiting", "gone"} \cup Answers]
  BY DEF Inv, ClientInv, ClientTypeOK
<1>1. \A c \in Calls : EffectOf(c)' = EffectOf(c)
  BY DEF EffectOf
<1>2. [c \in Calls |-> EffectOf(c)'] = [c \in Calls |-> EffectOf(c)]
  BY <1>1
<1>3. \A c \in pending : caller[c] = "waiting" /\ c \in Calls
  BY PendingWaits DEF Inv
<1>4. CASE caller' = caller
  BY <1>1, <1>4, Invisible
<1>5. ASSUME NEW c \in Calls, Send(c) PROVE Promise!ContractNext
  <2>1. caller[c] = "idle" /\ caller' = [caller EXCEPT ![c] = "waiting"]
    BY <1>5 DEF Send, At, Inv, ClientInv
  <2>2. Promise!Ask(c)
    BY <1>2, <2>1 DEF Promise!Ask, Promise!Becomes
  <2> QED BY <2>2 DEF Promise!ContractNext
<1>6. ASSUME NEW c \in Calls, Unsubscribe(c) PROVE Promise!ContractNext
  <2>1. Promise!Leave(c)
    BY <1>2, <1>6 DEF Unsubscribe, Promise!Leave, Promise!Becomes
  <2> QED BY <2>1 DEF Promise!ContractNext
<1>7. ASSUME NEW cs \in SUBSET Calls, NEW how \in {"error", "timeout", "lost"}, Answer(cs, how),
             \A c \in cs : caller[c] = "waiting"
      PROVE  [Promise!ContractNext]_(Promise!contractVars)
  BY <1>7, Tells DEF Answer, Answers
<1>8. ASSUME NEW c \in Calls, ConnectFails(c) \/ EncodeFails(c) \/ PublishFails(c) \/ TimeoutFires(c)
      PROVE  [Promise!ContractNext]_(Promise!contractVars)
  <2>1. CASE ConnectFails(c)
    <3>1. Answer({x \in {c} : caller[x] = "waiting"}, "error")
      BY <2>1 DEF ConnectFails
    <3> QED BY <1>7, <3>1
  <2>2. CASE EncodeFails(c)
    <3>1. Answer({c}, "error") /\ caller[c] = "waiting"
      BY <2>2 DEF EncodeFails
    <3> QED BY <1>7, <3>1
  <2>3. CASE PublishFails(c)
    <3>1. Answer({c} \cap pending, "error")
      BY <2>3 DEF PublishFails
    <3> QED BY <1>3, <1>7, <3>1
  <2>4. CASE TimeoutFires(c)
    <3>1. Answer({c}, "timeout") /\ c \in pending
      BY <2>4 DEF TimeoutFires
    <3> QED BY <1>3, <1>7, <3>1
  <2> QED BY <1>8, <2>1, <2>2, <2>3, <2>4
<1>9. ASSUME RejectAll PROVE [Promise!ContractNext]_(Promise!contractVars)
  <2>1. Answer(pending, "lost")
    BY <1>9 DEF RejectAll
  <2> QED BY <1>3, <1>7, <2>1
<1>10. ASSUME Link PROVE RejectAll \/ caller' = caller
  BY <1>10 DEF Link, ConnectionUp, Disconnect, Close, callerVars
<1>11. ASSUME NEW c \in Calls, Connect(c) \/ Submit(c) \/ Acknowledged(c) PROVE caller' = caller
  BY <1>11 DEF Connect, Submit, Publish, Resume, Acknowledged, PublishAcked, callerVars
<1>12. ASSUME NEW c \in Calls, Local(c)
       PROVE  [Promise!ContractNext]_(Promise!contractVars)
  BY <1>4, <1>5, <1>6, <1>8, <1>11, <1>12 DEF Local
<1> QED BY <1>4, <1>9, <1>10, <1>11, <1>12

\* A reply reaches its caller: "ok" was sent by a handler that succeeded.
LEMMA ArrivePromise ==
  ASSUME Inv, NEW c \in Calls, Arrive(c)
  PROVE  [Promise!ContractNext]_(Promise!contractVars)
<1>1. run' = run /\ CommandInv(c) /\ mail[c] \in {"ok", "error"}
  BY SameCalls DEF Arrive, Inv, CommandsInv, ServerTyped
<1>2. CASE UNCHANGED clientVars
  <2>1. caller' = caller
    BY <1>2 DEF clientVars, callerVars
  <2> QED BY <1>1, <2>1, Invisible DEF EffectOf
<1>3. CASE \E how \in {mail[c], "error"} : Route(c, replyTo[c], how)
  <2>1. PICK how \in {"ok", "error"} :
          Answer({c} \cap pending, how) /\ (how = "ok" => mail[c] = "ok")
    BY <1>1, <1>3 DEF Route
  <2>2. how = "ok" => run[c] = "ok"
    BY <1>1, <2>1 DEF CommandInv
  <2>3. \A d \in {c} \cap pending : caller[d] = "waiting"
    BY PendingWaits DEF Inv
  <2> QED BY <1>1, <2>1, <2>2, <2>3, Tells DEF Answer, Answers, Inv, ClientInv, ClientTypeOK
<1> QED BY <1>2, <1>3 DEF Arrive

\* The serving side begins and ends handlers of calls that were made.
LEMMA ServePromise ==
  ASSUME Inv, Serve
  PROVE  [Promise!ContractNext]_(Promise!contractVars)
<1>1. caller' = caller
  BY DEF Serve, clientVars, callerVars
<1>2. ASSUME NEW j \in Jobs, cmd[j] # "absent" PROVE caller[j] # "idle" /\ j \in Calls
  BY <1>2, SameCalls DEF Inv, ClientInv, CommandsInv, CommandInv
<1>3. run \in [Jobs -> Runs] /\ \A j \in Jobs : CommandInv(j)
  BY DEF Inv, CommandsInv, ServerTyped
<1>4. ASSUME NEW j \in Jobs, NEW how, Ends(j, how)
      PROVE  run'[j] = how /\ \A c \in Calls \ {j} : run'[c] = run[c]
  BY <1>3, <1>4, SameCalls DEF Ends
<1>5. ASSUME NEW j \in Jobs, NEW addressed, HandleSync(j, addressed) \/ HandleAsync(j, addressed)
      PROVE  /\ run'[j] \in {run[j], "handling", "ok", "failed"}
             /\ \A c \in Calls \ {j} : run'[c] = run[c]
  BY <1>4, <1>5 DEF HandleSync, HandleAsync, Refuse, Succeed, Fail
<1>6. ASSUME NEW j \in Jobs, Deliver(j, Addressed(j))
      PROVE  [Promise!ContractNext]_(Promise!contractVars)
  <2>1. run[j] = "none" /\ caller[j] # "idle" /\ j \in Calls
    BY <1>2, <1>3, <1>6 DEF Deliver, CommandInv
  <2>2. run' = run \/ (HandleSync(j, Addressed(j)) \/ HandleAsync(j, Addressed(j)))
    BY <1>6 DEF Deliver
  <2> QED BY <1>1, <1>5, <2>1, <2>2, HandlerMoves
<1>7. ASSUME NEW j \in Jobs, Drain(j, Addressed(j))
      PROVE  [Promise!ContractNext]_(Promise!contractVars)
  <2>1. j \in Parked
    BY <1>7, TailShifts DEF Drain, Parked, Inv, GateInv, GateTypeOK, JobsPartitioned
  <2>2. run[j] = "none" /\ caller[j] # "idle" /\ j \in Calls
    BY <1>2, <1>3, <2>1 DEF CommandInv
  <2>3. HandleSync(j, Addressed(j)) \/ HandleAsync(j, Addressed(j))
    BY <1>7 DEF Drain
  <2> QED BY <1>1, <1>5, <2>2, <2>3, HandlerMoves
<1>8. ASSUME NEW j \in Jobs, HandlerEnds(j) \/ HandlerTimesOut(j)
      PROVE  [Promise!ContractNext]_(Promise!contractVars)
  <2>1. run[j] \in {"handling", "late"}
    BY <1>8 DEF HandlerEnds, HandlerTimesOut
  <2>2. cmd[j] # "absent"
    BY <1>3, <2>1 DEF CommandInv
  <2>3. \E how \in {"late", "ok", "failed"} : Ends(j, how)
    BY <1>8 DEF HandlerEnds, HandlerTimesOut, Succeed, Fail
  <2> QED BY <1>1, <1>2, <1>4, <2>1, <2>2, <2>3, HandlerMoves
<1>9. ASSUME DrainStops \/ Destroy \/ \E j \in Jobs : LapseParked(j)
      PROVE  [Promise!ContractNext]_(Promise!contractVars)
  <2>1. run' = run
    BY <1>9 DEF DrainStops, Destroy, LapseParked
  <2> QED BY <1>1, <2>1, Invisible DEF EffectOf
<1>10. ASSUME Replace
       PROVE  [Promise!ContractNext]_(Promise!contractVars)
  <2>1. \A c \in Calls : EffectOf(c)' = EffectOf(c)
    BY <1>3, <1>10, SameCalls DEF Replace, EffectOf, Runs
  <2> QED BY <1>1, <2>1, Invisible
<1> QED BY <1>6, <1>7, <1>8, <1>9, <1>10 DEF Serve, ServerNext

\* RpcCall implements the safety half of RpcContract: whatever is lost, delayed, closed
\* or restarted, a call has one outcome, its handler runs at most once and only if the
\* call was made, and success is reported only when the handler succeeded.
THEOREM CallKeepsContract == Spec => Promise!ContractSafety
<1>1. Init => Promise!ContractInit
  <2> SUFFICES ASSUME Init PROVE Promise!ContractInit
    OBVIOUS
  <2>1. [c \in Calls |-> EffectOf(c)] = [c \in Calls |-> "none"]
    BY SameCalls DEF Init, ServerInit, EffectOf
  <2> QED BY <2>1 DEF Init, ClientInit, Promise!ContractInit
<1>2. Inv /\ [Next]_vars => [Promise!ContractNext]_(Promise!contractVars)
  <2> SUFFICES ASSUME Inv, [Next]_vars
               PROVE  [Promise!ContractNext]_(Promise!contractVars)
    OBVIOUS
  <2>1. CASE UNCHANGED vars \/ \E c \in Calls : Store(c)
    <3>1. caller' = caller /\ run' = run
      BY <2>1 DEF vars, clientVars, serverVars, callerVars, Store
    <3> QED BY <3>1, Invisible DEF EffectOf
  <2>2. CASE Link \/ \E c \in Calls : Local(c) \/ Submit(c) \/ Acknowledged(c)
    <3>1. run' = run
      BY <2>2 DEF Link, Local, Submit, Acknowledged, serverVars
    <3> QED BY <2>2, <3>1, ClientPromise
  <2> QED BY <2>1, <2>2, ArrivePromise, ServePromise DEF Next
<1> QED BY <1>1, <1>2, CallCorrect, PTL DEF Spec, Promise!ContractSafety

================================================================================
