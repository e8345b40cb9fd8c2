---------------------------- MODULE MCEventDelivery ----------------------------
(***************************************************************************)
(* EventDelivery for TLC.  Jobs is the set of deliveries; a setup names    *)
(* the options it switches on.                                             *)
(***************************************************************************)
EXTENDS EventDelivery, TLC

CONSTANTS m1, m2

MCJobs == Msgs \X (1 .. MaxCount)

Setup(on) == [o \in {"dlq", "callback", "ext", "slow", "flaky", "strays"} |-> o \in on]

\* The richest capture on a flaky connection, with and without ack extension, and
\* on one that works.
FlakySetups ==
  {Setup({"dlq", "callback"} \cup s) : s \in {{"flaky"}, {"ext", "flaky"}, {"ext"}}}

\* No capture and an extension interval that is too long, the callback alone, and the
\* DLQ stream; in the first and the last a message has no handler.
MixedSetups ==
  {Setup(on) : on \in {{"ext", "slow", "strays"}, {"callback"}, {"dlq", "ext", "strays"}}}
================================================================================
