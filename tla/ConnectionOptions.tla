--------------------------- MODULE ConnectionOptions ---------------------------
(***************************************************************************)
(* forRoot() options rewritten into named connections                      *)
(* (src/src/connection/connection-options.ts), the registry of their       *)
(* scopes, and which connection hosts a handler                            *)
(* (src/src/server/strategy.ts, acceptsConnection()).                      *)
(*                                                                         *)
(* Raw options are [given, servers, connections, default, consumer], where *)
(* given tells which of servers and connections were written, empty or     *)
(* not; a connection is [servers, critical, consumer] with "yes", "no" or  *)
(* Unset.  A server is [host, port, spelling], port 0 when there is none:  *)
(* the spelling stands for what does not identify it, its scheme and       *)
(* letter case.                                                            *)
(***************************************************************************)
EXTENDS Integers, FiniteSets

CONSTANTS Names,     \* every connection name a configuration may use
          BadNames   \* those that are empty or have blanks around them

Unset == "unset"
DefaultConnectionName == "default"
DefaultNatsPort == 4222

\* What normalizeOptions() gives when it throws.
Rejected == [scopes |-> <<>>, default |-> Unset]

CanonicalizeServer(s) ==
  [host |-> s.host, port |-> IF s.port = 0 THEN DefaultNatsPort ELSE s.port]

ServerSetKey(servers) == {CanonicalizeServer(s) : s \in servers}

\* What a connection declares replaces the root's option; `critical` is its own.
MergeConnection(root, c) ==
  [servers  |-> c.servers,
   critical |-> c.critical # "no",
   consumer |-> (IF c.consumer # Unset THEN c.consumer ELSE root.consumer) # "no"]

\* The default connection, Unset when none can be told.
ResolveDefaultName(names, requested) ==
  IF requested # Unset THEN IF requested \in names THEN requested ELSE Unset
  ELSE IF DefaultConnectionName \in names THEN DefaultConnectionName
  ELSE IF Cardinality(names) = 1 THEN CHOOSE n \in names : TRUE
  ELSE Unset

\* Connections that provision do so on distinct server sets.
DistinctClusters(scopes) ==
  \A a, b \in DOMAIN scopes :
    /\ a # b
    /\ scopes[a].consumer
    /\ scopes[b].consumer
    => ServerSetKey(scopes[a].servers) # ServerSetKey(scopes[b].servers)

NormalizeOptions(options) ==
  LET declared == IF "connections" \in options.given THEN options.connections
                  ELSE [n \in {DefaultConnectionName} |->
                          [servers |-> options.servers, critical |-> Unset, consumer |-> Unset]]
      scopes  == [n \in DOMAIN declared |-> MergeConnection(options, declared[n])]
      default == ResolveDefaultName(DOMAIN declared, options.default)
      valid   == /\ options.given \in {{"servers"}, {"connections"}}
                 /\ DOMAIN declared # {}
                 /\ \A n \in DOMAIN declared : n \notin BadNames /\ declared[n].servers # {}
                 /\ DistinctClusters(scopes)
                 /\ default # Unset
  IN IF valid THEN [scopes |-> scopes, default |-> default] ELSE Rejected

--------------------------------------------------------------------------------
\* The connections that a strategy is built for; the others only publish.
Consumers(registry) == {n \in DOMAIN registry.scopes : registry.scopes[n].consumer}

Critical(registry) == {n \in DOMAIN registry.scopes : registry.scopes[n].critical}

\* Mutant: only an unknown connection is refused.
UnknownRefused(registry, requested) ==
  requested # Unset /\ requested \notin DOMAIN registry.scopes

\* addHandler() of every strategy throws when the handler names a connection that
\* is unknown or only publishes.
HandlerRefused(registry, requested) ==
  requested # Unset /\ requested \notin Consumers(registry)

\* The strategy of connection n keeps the handler.
AcceptsConnection(registry, n, requested) ==
  n = IF requested = Unset THEN registry.default ELSE requested
================================================================================
