----------------------------- MODULE MCAckExtension -----------------------------
(***************************************************************************)
(* AckExtension for TLC: consumers whose intervals differ and one whose    *)
(* interval is longer than the budget share the pool.                      *)
(***************************************************************************)
EXTENDS AckExtension

Auto(ackWait) == [mode |-> "auto", ms |-> 1, ackWait |-> ackWait]
Fixed(ms, ackWait) == [mode |-> "fixed", ms |-> ms, ackWait |-> ackWait]
Off == [mode |-> "off", ms |-> 1, ackWait |-> 6]

\* Half of 6, the floor for 3, the default, longer than the budget, none.
MixedOptions == {Auto(6), Auto(3), Auto(0), Fixed(9, 6), Off}
================================================================================
