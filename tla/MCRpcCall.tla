------------------------------- MODULE MCRpcCall -------------------------------
(***************************************************************************)
(* RpcCall for TLC: calls are interchangeable model values (the symmetry   *)
(* is for the run without liveness).                                       *)
(***************************************************************************)
EXTENDS RpcCall, TLC

CallSymmetry == Permutations(Calls)
================================================================================
