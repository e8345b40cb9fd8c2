----------------------------- MODULE MCApplication -----------------------------
(***************************************************************************)
(* Application for TLC: a handful of applications that differ in their     *)
(* connections, their bootstrap and what is done with them.                *)
(***************************************************************************)
EXTENDS Application

Server(host, port, spelling) == [host |-> host, port |-> port, spelling |-> spelling]

One(host) == {Server(host, 0, "plain")}
Scope(host, critical, consumer) ==
  [servers |-> One(host), critical |-> critical, consumer |-> consumer]

Options(connections) ==
  [given |-> {"connections"}, servers |-> {}, connections |-> connections, default |-> Unset, consumer |-> Unset]

\* forRoot({ servers }), everything on, microservices started first.
Plain ==
  [options |-> [given |-> {"servers"}, servers |-> One("a"), connections |-> <<>>,
                default |-> Unset, consumer |-> Unset],
   order |-> <<"start", "init">>, attach |-> Names, bound |-> Unset, kinds |-> {"event"},
   dead |-> {}, metrics |-> TRUE, traced |-> TRUE, hookThrows |-> "HandlerCompleted",
   calls |-> FALSE, checks |-> FALSE]

Two(first, second) == Options([default |-> first, second |-> second])

Secondary == Two(Scope("a", Unset, Unset), Scope("b", "no", Unset))

Traffic ==
  {[Plain EXCEPT !.calls = TRUE],
   [Plain EXCEPT !.calls = TRUE, !.options = Two(Scope("a", Unset, "no"), Scope("b", Unset, Unset)),
                 !.bound = "second", !.traced = FALSE, !.hookThrows = "RpcCompleted"]}

Boots ==
  {[Plain EXCEPT !.checks = TRUE, !.order = <<"init", "start">>],
   [Plain EXCEPT !.checks = TRUE, !.options = Secondary],
   [Plain EXCEPT !.checks = TRUE, !.options = Secondary, !.dead = {"second"}, !.bound = "second"],
   [Plain EXCEPT !.options = Two(Scope("a", Unset, Unset), Scope("b", Unset, Unset)),
                 !.metrics = FALSE],
   [Plain EXCEPT !.options = Secondary, !.attach = {"default"}],
   \* no strategy is attached; the handler names no connection and the default only publishes
   [Plain EXCEPT !.options = Secondary, !.attach = {}],
   [Plain EXCEPT !.options = Two(Scope("a", Unset, "no"), Scope("b", Unset, Unset))],
   \* connections next to a list of servers that is empty
   [Plain EXCEPT !.options = [Secondary EXCEPT !.given = {"servers", "connections"}]],
   \* the same cluster twice, a handler on a connection that only publishes
   [Plain EXCEPT !.options = Two(Scope("a", Unset, Unset),
                   [servers |-> {Server("a", 4222, "upper")}, critical |-> "no", consumer |-> Unset])],
   [Plain EXCEPT !.options = Two(Scope("a", Unset, Unset), Scope("b", Unset, "no")),
                 !.bound = "second"]}

AllSetups == Traffic \cup Boots
================================================================================
