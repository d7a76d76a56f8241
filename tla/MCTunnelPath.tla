----------------------------- MODULE MCTunnelPath -----------------------------
(***************************************************************************)
(* TunnelPath for TLC: loads are interchangeable, so safety runs use them  *)
(* as a symmetry set.                                                      *)
(***************************************************************************)
EXTENDS TunnelPath, TLC

AnyLoadOrder == Permutations(Loads)
================================================================================
