--------------------------- MODULE MCStreamMigration ---------------------------
(***************************************************************************)
(* StreamMigration for TLC: up to two pods, a stream that holds up to two  *)
(* messages when the deploy begins, and at least one still to publish.     *)
(***************************************************************************)
EXTENDS StreamMigration

CONSTANTS p1, p2, m1, m2, m3

SmallLogs == {<<>>, <<m1>>}
Logs      == {<<>>, <<m1>>, <<m1, m2>>}
================================================================================
