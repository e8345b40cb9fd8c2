-------------------------------- MODULE RpcCall --------------------------------
(***************************************************************************)
(* JetStream-mode RPC end to end: the client and the serving pod, with the *)
(* command stream and the core-NATS replies between them.  A published     *)
(* command may be stored late, after the client gave up on its publish, or *)
(* lost; a reply may be lost, and reaches the inbox that its command's     *)
(* reply-to header names only while the client is subscribed to it.        *)
(***************************************************************************)
EXTENDS RpcClient, RpcServer

ASSUME SameCalls == Jobs = Calls

vars == <<clientVars, serverVars>>

TypeOK == ClientTypeOK /\ ServerTypeOK

Init == ClientInit /\ ServerInit

--------------------------------------------------------------------------------
\* Client steps the stream does not see.
Local(c) ==
  /\ \/ Send(c) \/ Connect(c) \/ ConnectFails(c) \/ EncodeFails(c)
     \/ PublishFails(c) \/ TimeoutFires(c) \/ Unsubscribe(c)
  /\ UNCHANGED serverVars

\* The command is on its way once the call reaches the JetStream publish.
Submit(c) ==
  /\ Publish(c) \/ Resume(c)
  /\ cmd' = IF leg'[c] = "publishing" THEN [cmd EXCEPT ![c] = "sent"] ELSE cmd
  /\ UNCHANGED <<gateVars, run, mail, settles, replies, pods>>

\* The stream stores a command, or it is lost on the way.
Store(c) ==
  /\ cmd[c] = "sent"
  /\ \E to \in {"stored", "lost"} : cmd' = [cmd EXCEPT ![c] = to]
  /\ UNCHANGED <<clientVars, gateVars, run, mail, settles, replies, pods>>

\* Only a stored command is acknowledged.
Acknowledged(c) ==
  /\ cmd[c] \notin {"sent", "lost"}
  /\ PublishAcked(c)
  /\ UNCHANGED serverVars

\* A reply leaves the wire: it reaches the inbox, where it may turn out undecodable,
\* or it is lost, as is every reply to an inbox that is gone.
Arrive(c) ==
  /\ mail[c] # "none"
  /\ mail' = [mail EXCEPT ![c] = "none"]
  /\ \/ \E how \in {mail[c], "error"} : Route(c, replyTo[c], how)
     \/ UNCHANGED clientVars
  /\ UNCHANGED <<gateVars, cmd, run, settles, replies, pods>>

Link == (ConnectionUp \/ Disconnect \/ Close) /\ UNCHANGED serverVars

Addressed(c) == replyTo[c] # 0

Serve == ServerNext(Addressed) /\ UNCHANGED clientVars

Next ==
  \/ \E c \in Calls : Local(c) \/ Submit(c) \/ Store(c) \/ Acknowledged(c) \/ Arrive(c)
  \/ Link
  \/ Serve

Spec == Init /\ [][Next]_vars

\* Timers fire, getConnection() settles (the first connect is refused or succeeds;
\* later it returns the connection it has) and code that was resumed runs.  Nothing is
\* assumed of the stream, the serving pod, its handlers or the replies.
Fairness ==
  /\ \A c \in Calls :
       /\ WF_vars(TimeoutFires(c) /\ UNCHANGED serverVars)
       /\ WF_vars((Connect(c) \/ ConnectFails(c) \/ EncodeFails(c)) /\ UNCHANGED serverVars)
       /\ WF_vars(Submit(c))

FairSpec == Spec /\ Fairness

--------------------------------------------------------------------------------
\* What the serving side did about each call.
EffectOf(c) ==
  CASE run[c] \in {"handling", "late", "died"} -> "begun"
    [] run[c] = "ok" -> "done"
    [] OTHER -> run[c]

Promise == INSTANCE RpcContract WITH effect <- [c \in Calls |-> EffectOf(c)]

\* The detailed system keeps the contract: one outcome per call, at most one run of its
\* handler through disconnects, shutdowns and new pods, success only for a handler that
\* succeeded, and an answer for every caller that stays, even if nobody serves it.
KeepsContract == Promise!Contract

================================================================================
