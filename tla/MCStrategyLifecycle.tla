--------------------------- MODULE MCStrategyLifecycle ---------------------------
(***************************************************************************)
(* StrategyLifecycle for TLC.  A setup names the kinds consumed and the    *)
(* options that are on.                                                    *)
(***************************************************************************)
EXTENDS StrategyLifecycle

Setup(kinds, on) == [kinds |-> kinds, core |-> "core" \in on,
                     meta |-> "meta" \in on, critical |-> "critical" \in on]

\* Handlers of each sort, with and without retries.
MixedSetups ==
  {Setup({"event", "command"}, {}),
   Setup({"event", "ordered"}, {"critical", "core"}),
   Setup({}, {"core", "meta"}),
   Setup({"event", "command", "ordered"}, {"critical", "meta"})}

\* A secondary connection with events and ordered events.
OrderedSecondary == {Setup({"event", "ordered"}, {})}
================================================================================
