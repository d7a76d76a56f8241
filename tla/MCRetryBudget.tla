----------------------------- MODULE MCRetryBudget -----------------------------
(* RetryBudget for TLC: loads are interchangeable.                            *)
EXTENDS RetryBudget, TLC

AnyLoadOrder == Permutations(Loads)
================================================================================
