--------------------------- MODULE TunnelReplacement ---------------------------
(***************************************************************************)
(* What a run may rely on about the tunnel it rides, whichever loads asked *)
(* for it and in whatever order they were scheduled: a tunnel is replaced  *)
(* only after it was lost, by one replacement at a time, at most once per  *)
(* replacement, and a run pays for at most Limit replacements.             *)
(* TunnelPath (the tracker over the probe's path) implements it.           *)
(***************************************************************************)
EXTENDS Naturals

CONSTANT Limit   \* a natural number

VARIABLES
  generation,  \* which tunnel is current: 0 is the probe's first
  dead,        \* whether the current tunnel is lost
  replacing,   \* "no"; "opening" before the swap; "swapped" after it
  spent        \* replacements begun, the failed ones included

vars == <<generation, dead, replacing, spent>>

Init ==
  /\ generation = 0
  /\ dead = FALSE
  /\ replacing = "no"
  /\ spent = 0

\* The provider went away.
Die ==
  /\ dead' = TRUE
  /\ UNCHANGED <<generation, replacing, spent>>

Begin ==
  /\ replacing = "no"
  /\ dead
  /\ spent < Limit
  /\ replacing' = "opening"
  /\ spent' = spent + 1
  /\ UNCHANGED <<generation, dead>>

Swap ==
  /\ replacing = "opening"
  /\ replacing' = "swapped"
  /\ generation' = generation + 1
  /\ dead' \in BOOLEAN
  /\ UNCHANGED spent

\* Ends a replacement, whether it swapped or failed.
End ==
  /\ replacing # "no"
  /\ replacing' = "no"
  /\ UNCHANGED <<generation, dead, spent>>

Next == Die \/ Begin \/ Swap \/ End

Spec == Init /\ [][Next]_vars
================================================================================
