------------------------------ MODULE MCDeployment ------------------------------
(***************************************************************************)
(* Deployment for TLC: two pods, and scenarios that each aim at one way in *)
(* which applications and what they find in the cluster can disagree.      *)
(***************************************************************************)
EXTENDS Deployment, TLC

On(k, pattern) == [kind |-> k, pattern |-> <<pattern>>]

\* Options of an application; `with` replaces some of the defaults.
App(svc, handlers, with) ==
  with @@ [svc |-> svc, conn |-> "default", handlers |-> handlers, rpc |-> "core",
           prefix |-> Nothing, stream |-> Nothing, global |-> "unset", own |-> Nothing,
           dlq |-> "unset", destructive |-> FALSE]

Schedules == "ev" :> ("allow_msg_schedules" :> TRUE)
NoDlq == [dlq |-> "off"]

Config(o, k, with) == with @@ BuildConfig(o, k)
Scenario(one, two, strs, cons) ==
  [opts |-> [p \in Pods |-> IF p = 1 THEN one ELSE two], streams |-> strs, consumers |-> cons]

Idle == App("z", {}, NoDlq)

\* Two versions of a service, the second with one more handler, on a fresh cluster.
Versions ==
  LET with == [rpc |-> "jetstream", stream |-> Schedules]
  IN Scenario(App("a", {On("ev", "x"), On("cmd", "c")}, with),
              App("a", {On("ev", "x"), On("ev", "y"), On("cmd", "c")}, with), Nothing, Nothing)

\* Services with different names for broadcasts.
Services ==
  LET wide == [prefix |-> "broadcast" :> <<"corp">>, dlq |-> "off",
               stream |-> "broadcast" :> ("allow_msg_schedules" :> TRUE)]
      narrow == [prefix |-> "broadcast" :> <<"corp", "eu">>, dlq |-> "off"]
  IN {Scenario(App("a", {On("broadcast", "n")}, wide), App("b", {On("broadcast", "n")}, with2),
               Nothing, Nothing) : with2 \in {narrow, NoDlq}}

\* Two more services with names of their own, and the stream that the others share.
Newcomers ==
  LET with(prefix) == [prefix |-> "broadcast" :> prefix, dlq |-> "off"]
      first == App("c", {On("broadcast", "n")}, NoDlq)
  IN Scenario(App("a", {On("broadcast", "n")}, with(<<"corp">>)),
              App("b", {On("broadcast", "n")}, with(<<"dept">>)),
              StreamName(first, "broadcast") :> BuildConfig(first, "broadcast"),
              <<StreamName(first, "broadcast"), ConsumerName(first, "broadcast")>> :>
                Filters(first, "broadcast"))

\* Two connections of one service, on a fresh cluster or after one of them.
Connections ==
  LET first(d) == App("a", {On("ev", "x")}, [dlq |-> d])
      stream(o) == StreamName(o, "ev") :> BuildConfig(o, "ev")
  IN {Scenario(first(d), App("a", {On(k, "x")}, [conn |-> "backup", dlq |-> d]), strs, Nothing)
        : k \in {"ev", "ordered"}, d \in {"off", "unset"}, strs \in {Nothing, stream(first("off"))}}

\* A stream that an earlier version left: other limits, storage, retention or
\* schedules, with a note that an operator has put on it; the options may have a note too.
Legacy ==
  LET app(d, t) == App("a", {On("ev", "x"), On("ordered", "o")},
                       [stream |-> "ev" :> ("allow_msg_schedules" :> FALSE @@ t),
                        destructive |-> d])
      note == "metadata" :> ("note" :> "kept" @@ "owner" :> <<"a", "default">>)
  IN {Scenario(app(d, t), Idle,
               StreamName(app(d, t), "ev") :> Config(app(d, t), "ev", w @@ note),
               <<StreamName(app(d, t), "ev"), ConsumerName(app(d, t), "ev")>> :>
                 {<<"a", "ev", ">">>})
        : d \in BOOLEAN, t \in {Nothing, "metadata" :> ("team" :> "core")},
          w \in {"storage" :> "memory", "retention" :> "limits", "max_age" :> "short",
                 "allow_msg_schedules" :> TRUE @@ "max_age" :> "short"}}

\* The shared stream in memory: nobody may recreate it.
SharedLegacy ==
  LET app == App("a", {On("broadcast", "n")}, [dlq |-> "off", destructive |-> TRUE])
  IN Scenario(app, Idle, StreamName(app, "broadcast") :> Config(app, "broadcast", "storage" :> "memory"),
              Nothing)

\* Streams and consumers of an operator, right and wrong ones, some beside a managed
\* stream.
External ==
  LET app(o) == App("a", {On("ev", "x")},
                    [global |-> "manual", own |-> o, dlq |-> "on", stream |-> Schedules])
      managed == <<"ev", "stream">> :> "auto"
      ev == <<"a", "ev", "stream">>
      Stream(subjects) == "subjects" :> subjects @@ Defaults("ev")
  IN {Scenario(app(o), Idle,
               ev :> Stream(subjects) @@ DlqStreamName(app(o)) :> Stream({dlq}),
               <<ev, ConsumerName(app(o), "ev")>> :> filters)
        : o \in {Nothing, managed},
          subjects \in {{<<"a", ">">>}, {<<"a", "ev", ">">>}},
          dlq \in {<<"a", "dlq", "*">>, <<"a", "dlq", "stream", ">">>},
          filters \in {{}, {<<"a", "ev", "*">>}, {<<"a", "ev", "y">>}, {<<"a", ">">>}}}

\* Custom prefixes of everything, and schedules.
Prefixed ==
  Scenario(App("a", {On("ev", "x"), On("ev", "y"), On("cmd", "c"), On("ordered", "o")},
               [rpc |-> "jetstream", stream |-> Schedules,
                prefix |-> "ev" :> <<"shop", "ev">> @@ "cmd" :> <<"shop", "rpc">>]),
           App("b", {On("cmd", "c")}, NoDlq), Nothing, Nothing)

\* Options that are refused.
Refused ==
  {Scenario(App("a", {On("both", "x")}, NoDlq), Idle, Nothing, Nothing),
   Scenario(App("a", {On("ev", "x")}, [prefix |-> "ev" :> <<"a", ">">>]), Idle, Nothing, Nothing)}

AllScenarios ==
  {Versions, Newcomers, SharedLegacy, Prefixed} \cup Services \cup Connections \cup Legacy
    \cup External \cup Refused

\* Hypotheses of the proofs that these scenarios satisfy.
ASSUME ConnectionsAreStamped == StampedWhereContested
ASSUME ServicesAgree == PodsAgree /\ OperatorProvides /\ ConfigsAgree
ASSUME StreamsAreApart == SubjectsApart
ASSUME SchedulesAreApart == SubjectsAgree /\ NamespacesApart /\ SchedulesApart
================================================================================
