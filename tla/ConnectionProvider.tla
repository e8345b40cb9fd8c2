--------------------------- MODULE ConnectionProvider ---------------------------
(***************************************************************************)
(* The memoised NATS connection of one scope                               *)
(* (src/src/connection/connection.provider.ts): getConnection(), the       *)
(* establish() behind it, the status events of the client library and      *)
(* shutdown().  The callers that wait for a connection are in              *)
(* StrategyLifecycle.                                                      *)
(*                                                                         *)
(* The client library is external: a connection is up, down while it       *)
(* reconnects on its own (maxReconnectAttempts is -1), or closed for good. *)
(***************************************************************************)
EXTENDS Integers, FiniteSets

CONSTANTS MaxConns   \* bound: connections that connect() may return

ASSUME ConnAssumption == MaxConns \in Nat \ {0}

VARIABLES
  nats,        \* the state of each connection the library ever returned
  connection,  \* the field: None, or the connection established last
  promise,     \* connectionPromise: None, Pending, or what it resolved to
  connecting,  \* calls of connect() under way
  jsm,         \* the manager is cached
  jsClient,    \* the client is cached
  draining     \* where shutdown() is

connVars == <<nats, connection, promise, connecting, jsm, jsClient, draining>>

Conns == 1 .. MaxConns
None == 0
Pending == -1

ConnTypeOK ==
  /\ nats \in [Conns -> {"unused", "up", "down", "closed"}]
  /\ connection \in Conns \cup {None}
  /\ promise \in Conns \cup {None, Pending}
  /\ connecting \in Nat
  /\ {jsm, jsClient} \subseteq BOOLEAN
  /\ draining \in {"no", "awaiting", "draining", "done"}

ConnInit ==
  /\ nats = [c \in Conns |-> "unused"]
  /\ connection = None
  /\ promise = None
  /\ connecting = 0
  /\ jsm = FALSE
  /\ jsClient = FALSE
  /\ draining = "no"

Open == {c \in Conns : nats[c] \in {"up", "down"}}

\* The cached connection is there and not closed.
Usable == connection \in Open

\* Requests of this connection are answered.
Up == connection # None /\ nats[connection] = "up"

--------------------------------------------------------------------------------
\* Mutant: every caller without a usable connection starts establish() anew.
RequestUnshared ==
  IF Usable THEN UNCHANGED <<promise, connecting>>
  ELSE promise' = Pending /\ connecting' = connecting + 1

\* getConnection(): the caller waits unless the cached connection is usable.  The
\* first caller starts establish() and the ones after it share its promise.
Request ==
  IF Usable \/ promise # None THEN UNCHANGED <<promise, connecting>>
  ELSE promise' = Pending /\ connecting' = connecting + 1

\* A waiting caller may go on: the connection it waited for is established.
Answered == Usable \/ promise # Pending

\* establish(): connect() answered.
Establish ==
  /\ connecting > 0
  /\ connecting' = connecting - 1
  /\ \E c \in Conns :
       /\ nats[c] = "unused"
       /\ \A d \in 1 .. c - 1 : nats[d] # "unused"
       /\ nats' = [nats EXCEPT ![c] = "up"]
       /\ connection' = c
       /\ promise' = c
  /\ UNCHANGED <<jsm, jsClient, draining>>

\* establish() threw: the promise is forgotten, so the next caller tries again.
EstablishFails ==
  /\ connecting > 0
  /\ connecting' = connecting - 1
  /\ promise' = None
  /\ UNCHANGED <<nats, connection, jsm, jsClient, draining>>

\* getJetStreamManager() caches the manager of the connection it waited for.
CacheManager == jsm' = TRUE

\* getJetStreamClient() refuses without a usable connection.
CacheClient == jsClient' = (jsClient \/ Usable)

\* Status event "disconnect": hooks only; the library starts to reconnect.
Disconnect ==
  /\ Up
  /\ nats' = [nats EXCEPT ![connection] = "down"]
  /\ UNCHANGED <<connection, promise, connecting, jsm, jsClient, draining>>

\* Status event "reconnect" drops the cached client and manager.
Reconnect ==
  /\ Usable
  /\ nats[connection] = "down"
  /\ nats' = [nats EXCEPT ![connection] = "up"]
  /\ jsm' = FALSE
  /\ jsClient' = FALSE
  /\ UNCHANGED <<connection, promise, connecting, draining>>

--------------------------------------------------------------------------------
\* Mutant: a connection under way is not waited for.
ShutdownStartsAtOnce == draining' = IF Usable THEN "awaiting" ELSE "done"

\* shutdown() called: it first waits for a connection under way.
ShutdownStarts == draining' = IF promise = None /\ ~Usable THEN "done" ELSE "awaiting"

\* The wait is over: nothing to shut down, or drain() begins.
ShutdownAwaited ==
  /\ draining = "awaiting"
  /\ promise # Pending
  /\ draining' = IF Usable THEN "draining" ELSE "done"
  /\ UNCHANGED <<nats, connection, promise, connecting, jsm, jsClient>>

\* drain() and closed() resolved, or failed and close() ended it: every field is
\* reset.
Drained ==
  /\ draining = "draining"
  /\ draining' = "done"
  /\ nats' = [c \in Conns |-> IF c = connection THEN "closed" ELSE nats[c]]
  /\ connection' = None
  /\ promise' = None
  /\ jsm' = FALSE
  /\ jsClient' = FALSE
  /\ UNCHANGED connecting
================================================================================
