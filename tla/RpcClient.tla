------------------------------- MODULE RpcClient -------------------------------
(***************************************************************************)
(* The caller's side of JetStream-mode RPC: JetstreamClient with its       *)
(* RpcReplyInbox (src/src/client).  A call is registered in the inbox,     *)
(* given a deadline, published, and answered by whichever comes first: a   *)
(* reply, the deadline, a failed publish, a lost connection or close();    *)
(* or its caller unsubscribes.                                             *)
(*                                                                         *)
(* The code between two awaits is one action: leg[c] is the await that     *)
(* call c is at.  Nest's ClientProxy.send() (external) awaits connect()    *)
(* before it calls publish().                                              *)
(***************************************************************************)
EXTENDS Naturals

CONSTANTS Calls,      \* the calls, one correlation id each
          MaxInboxes  \* bound: inboxes created, the first and those after a loss

ASSUME InboxAssumption == MaxInboxes \in Nat \ {0}

VARIABLES
  conn,       \* the connection: "none" yet, "up", or "down" and reconnecting
  ready,      \* readyForPublish
  watching,   \* statusSubscription is there
  inbox,      \* the inbox's number, 0 when there is none
  made,       \* inboxes created so far
  leg,        \* where each call's code is
  pending,    \* RpcReplyInbox.pending
  deadlines,  \* RpcReplyInbox.timeouts
  replyTo,    \* the inbox in each call's reply-to header, 0 when it is empty
  caller,     \* what each caller knows
  answers     \* history: how often each caller was answered

registry   == <<pending, deadlines>>
inboxVars  == <<inbox, made>>
linkVars   == <<conn, ready, watching>>
callerVars == <<caller, answers>>
clientVars == <<linkVars, inboxVars, registry, leg, replyTo, callerVars>>

Legs == {"idle", "opening", "opened", "connecting", "connected", "publishing", "done"}

\* publish() has run: the call was registered.
Registered == {"connecting", "connected", "publishing", "done"}

Answers == {"ok", "error", "timeout", "lost"}

ClientTypeOK ==
  /\ conn \in {"none", "up", "down"}
  /\ ready \in BOOLEAN
  /\ watching \in BOOLEAN
  /\ made \in 0 .. MaxInboxes
  /\ inbox \in {0, made}
  /\ leg \in [Calls -> Legs]
  /\ pending \subseteq Calls
  /\ deadlines \subseteq Calls
  /\ replyTo \in [Calls -> 0 .. MaxInboxes]
  /\ caller \in [Calls -> {"idle", "waiting", "gone"} \cup Answers]
  /\ answers \in [Calls -> Nat]

ClientInit ==
  /\ conn = "none"
  /\ ready = FALSE
  /\ watching = FALSE
  /\ inbox = 0
  /\ made = 0
  /\ leg = [c \in Calls |-> "idle"]
  /\ pending = {}
  /\ deadlines = {}
  /\ replyTo = [c \in Calls |-> 0]
  /\ caller = [c \in Calls |-> "idle"]
  /\ answers = [c \in Calls |-> 0]

--------------------------------------------------------------------------------
At(c, from, to) == leg[c] = from /\ leg' = [leg EXCEPT ![c] = to]

\* The callbacks of the calls cs run.
Answer(cs, how) ==
  /\ caller' = [c \in Calls |-> IF c \in cs THEN how ELSE caller[c]]
  /\ answers' = [c \in Calls |-> IF c \in cs THEN answers[c] + 1 ELSE answers[c]]

\* Mutant: the deadline is not cleared.
ForgetKeepsDeadlines(cs) == pending' = pending \ cs /\ UNCHANGED deadlines

\* discard(): the entries of the calls cs leave the registry, deadlines cleared.
Forget(cs) == pending' = pending \ cs /\ deadlines' = deadlines \ cs

\* A caller subscribes; ClientProxy.send() awaits connect().
Send(c) ==
  /\ At(c, "idle", "opening")
  /\ caller' = [caller EXCEPT ![c] = "waiting"]
  /\ UNCHANGED <<linkVars, inboxVars, registry, replyTo, answers>>

\* connect(), once getConnection() has returned: create the inbox unless there is
\* one, watch the status, allow publishing.
Connect(c) ==
  /\ conn # "none"
  /\ At(c, "opening", "opened") \/ At(c, "connecting", "connected")
  /\ made' = IF inbox = 0 THEN made + 1 ELSE made
  /\ inbox' = IF inbox = 0 THEN made + 1 ELSE inbox
  /\ watching' = TRUE
  /\ ready' = TRUE
  /\ UNCHANGED <<conn, registry, replyTo, callerVars>>

\* The first connection is refused: getConnection() rejects, and send() with it.
ConnectFails(c) ==
  /\ conn = "none"
  /\ At(c, "opening", "done")
  /\ Answer({x \in {c} : caller[x] = "waiting"}, "error")
  /\ UNCHANGED <<linkVars, inboxVars, registry, replyTo>>

\* publish() for a caller that is still subscribed: build the headers with the inbox
\* there is, register, arm the deadline, go on to the JetStream publish or to connect().
Publish(c) ==
  /\ caller[c] = "waiting"
  /\ At(c, "opened", IF ready THEN "publishing" ELSE "connecting")
  /\ replyTo' = [replyTo EXCEPT ![c] = inbox]
  /\ pending' = pending \cup {c}
  /\ deadlines' = deadlines \cup {c}
  /\ UNCHANGED <<linkVars, inboxVars, callerVars>>

\* publish() with data the codec cannot encode: onUnhandled() answers, nothing is
\* registered.
EncodeFails(c) ==
  /\ caller[c] = "waiting"
  /\ At(c, "opened", "done")
  /\ Answer({c}, "error")
  /\ UNCHANGED <<linkVars, inboxVars, registry, replyTo>>

\* After connect(): bail out if the call was settled or discarded meanwhile.  (The
\* branch for a missing inbox cannot be reached: losing it settles every call.)
Resume(c) ==
  /\ At(c, "connected", IF c \in pending THEN "publishing" ELSE "done")
  /\ UNCHANGED <<linkVars, inboxVars, registry, replyTo, callerVars>>

\* The stream acknowledged the publish.
PublishAcked(c) ==
  /\ At(c, "publishing", "done")
  /\ UNCHANGED <<linkVars, inboxVars, registry, replyTo, callerVars>>

\* Mutant: the caller is told whether or not the call is still pending.
PublishFailsAlways(c) ==
  /\ At(c, "publishing", "done")
  /\ Forget({c})
  /\ Answer({c}, "error")
  /\ UNCHANGED <<linkVars, inboxVars, replyTo>>

\* The publish was rejected, or acknowledged as a duplicate: answer, unless the call
\* has been settled or discarded.
PublishFails(c) ==
  /\ At(c, "publishing", "done")
  /\ Forget({c})
  /\ Answer({c} \cap pending, "error")
  /\ UNCHANGED <<linkVars, inboxVars, replyTo>>

\* The timer of armTimeout().
TimeoutFires(c) ==
  /\ c \in deadlines
  /\ c \in pending
  /\ Forget({c})
  /\ Answer({c}, "timeout")
  /\ UNCHANGED <<linkVars, inboxVars, leg, replyTo>>

\* Mutant: the error header is not looked at.
RouteIgnoresErrorHeader(c, to, how) ==
  /\ to = inbox
  /\ inbox # 0
  /\ Forget({c})
  /\ Answer({c} \cap pending, "ok")
  /\ UNCHANGED <<linkVars, inboxVars, leg, replyTo>>

\* route(): a reply to c reaches inbox number `to`; nobody waiting for it, it is
\* ignored.
Route(c, to, how) ==
  /\ to = inbox
  /\ inbox # 0
  /\ Forget({c})
  /\ Answer({c} \cap pending, how)
  /\ UNCHANGED <<linkVars, inboxVars, leg, replyTo>>

\* The caller unsubscribes: the teardown of publish() discards the call; a publish()
\* that has not run yet never will.
Unsubscribe(c) ==
  /\ caller[c] = "waiting"
  /\ caller' = [caller EXCEPT ![c] = "gone"]
  /\ Forget({c})
  /\ UNCHANGED <<linkVars, inboxVars, leg, replyTo, answers>>

--------------------------------------------------------------------------------
\* Mutant: the inbox is torn down and its calls are left to their deadlines.
RejectAllKeepsPending == inbox' = 0 /\ UNCHANGED <<made, registry, callerVars>>

\* rejectAll(): answer every pending call, clear the registry, drop the inbox.
RejectAll ==
  /\ Answer(pending, "lost")
  /\ Forget(pending \cup deadlines)
  /\ inbox' = 0
  /\ UNCHANGED made

\* getConnection() succeeds for the first time, or the connection is restored.
ConnectionUp ==
  /\ conn # "up"
  /\ conn' = "up"
  /\ UNCHANGED <<ready, watching, inboxVars, registry, leg, replyTo, callerVars>>

\* The connection is lost; handleDisconnect() runs if the client watches the status.
Disconnect ==
  /\ conn = "up"
  /\ made < MaxInboxes
  /\ conn' = "down"
  /\ \/ watching /\ RejectAll /\ ready' = FALSE
     \/ ~watching /\ UNCHANGED <<inboxVars, registry, ready, callerVars>>
  /\ UNCHANGED <<watching, leg, replyTo>>

\* close(); a later send() connects again.
Close ==
  /\ made < MaxInboxes
  /\ watching' = FALSE
  /\ ready' = FALSE
  /\ RejectAll
  /\ UNCHANGED <<conn, leg, replyTo>>

ClientNext ==
  \/ \E c \in Calls :
       \/ Send(c) \/ Connect(c) \/ ConnectFails(c)
       \/ Publish(c) \/ EncodeFails(c) \/ Resume(c)
       \/ PublishAcked(c) \/ PublishFails(c)
       \/ TimeoutFires(c)
       \/ \E to \in 1 .. MaxInboxes, how \in {"ok", "error"} : Route(c, to, how)
       \/ Unsubscribe(c)
  \/ ConnectionUp
  \/ Disconnect
  \/ Close

ClientSpec == ClientInit /\ [][ClientNext]_clientVars

--------------------------------------------------------------------------------
\* The registry and the callers agree: a published call is pending, with its deadline
\* armed, exactly while its caller waits.  Nobody is forgotten by a disconnect, by
\* close(), a late reply or a failing publish, and no timer outlives its call.
RegistryMatchesCallers ==
  /\ pending = {c \in Calls : caller[c] = "waiting" /\ leg[c] \in Registered}
  /\ deadlines = pending

\* A caller is answered at most once, and never after it unsubscribed, whatever the
\* order of reply, deadline, publish failure, disconnect and close().
AnsweredOnce ==
  \A c \in Calls :
    /\ answers[c] <= 1
    /\ caller[c] \notin Answers => answers[c] = 0

\* No pending call waits for a reply at an inbox that was replaced: its reply-to
\* header is the current inbox, or empty when the inbox was lost between connect()
\* and publish() (such a call can only fail or time out).
NoStaleInbox == \A c \in pending : replyTo[c] \in {0, inbox}

================================================================================
