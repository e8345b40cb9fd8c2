------------------------------ MODULE RpcContract ------------------------------
(***************************************************************************)
(* What JetStream-mode RPC promises its callers, with no inbox, registry,  *)
(* stream or gate: a call has one outcome, a handler runs for it at most   *)
(* once and only after it was made, success is reported only when the      *)
(* handler succeeded, and every caller that stays hears something.         *)
(***************************************************************************)
CONSTANT Calls

VARIABLES caller,  \* what each caller knows
          effect   \* what the serving side did

contractVars == <<caller, effect>>

Outcomes == {"ok", "error", "timeout", "lost"}

ContractInit ==
  /\ caller = [c \in Calls |-> "idle"]
  /\ effect = [c \in Calls |-> "none"]

Becomes(c, from, to) == caller[c] = from /\ caller' = [caller EXCEPT ![c] = to]

Ask(c) == Becomes(c, "idle", "waiting") /\ UNCHANGED effect

Leave(c) == Becomes(c, "waiting", "gone") /\ UNCHANGED effect

\* Callers that wait together may be answered together (a lost connection).
Tell(cs) ==
  /\ \A c \in cs : caller[c] = "waiting"
  /\ \E how \in Outcomes :
       /\ how = "ok" => \A c \in cs : effect[c] = "done"
       /\ caller' = [c \in Calls |-> IF c \in cs THEN how ELSE caller[c]]
  /\ UNCHANGED effect

\* A handler begins for a call that was made, and ends; it may do both at once.
Effect(c, from, to) == effect[c] = from /\ effect' = [effect EXCEPT ![c] = to]

Begin(c) ==
  /\ caller[c] # "idle"
  /\ \E to \in {"begun", "done", "failed"} : Effect(c, "none", to)
  /\ UNCHANGED caller

End(c) ==
  /\ \E to \in {"done", "failed"} : Effect(c, "begun", to)
  /\ UNCHANGED caller

ContractNext ==
  \/ \E c \in Calls : Ask(c) \/ Leave(c) \/ Begin(c) \/ End(c)
  \/ \E cs \in SUBSET Calls : cs # {} /\ Tell(cs)

ContractSafety == ContractInit /\ [][ContractNext]_contractVars

\* Every call that keeps waiting is answered, one way or another.
Contract ==
  /\ ContractSafety
  /\ \A c \in Calls : WF_contractVars(Tell({c}))

================================================================================
