------------------------------ MODULE Confinement ------------------------------
(***************************************************************************)
(* The confinement self-check: Addresses and Verify                        *)
(* (confinement/confinement.go) as checkConfinement runs them              *)
(* (cmd/egress-prober/main.go).                                            *)
(*                                                                         *)
(* Hosts are looked up one after another under one budget, and every       *)
(* address found is dialed. A record that cannot be the host's public      *)
(* address is no record here. What the host can reach directly is the      *)
(* network's, and the process may be told to stop at any moment.           *)
(***************************************************************************)
CONSTANTS
  Hosts,      \* probe hosts
  Addresses   \* public addresses they may resolve to

VARIABLES
  ended,        \* the process's context is done
  reachable,    \* the network: addresses that accept a direct connection in time
  lookups,      \* hosts not looked up yet
  resolveOver,  \* the resolution budget is spent
  addrs,        \* addresses to dial
  dialed,       \* addresses whose dial failed for the network's reason
  verdict       \* "skipped", "resolving", "dialing", or how the check ended

confinementVars == <<reachable, lookups, resolveOver, addrs, dialed, verdict>>

--------------------------------------------------------------------------------
\* Addresses, one host; the context is looked at after each.
LookUp(host) ==
  /\ verdict = "resolving"
  /\ host \in lookups
  /\ lookups' = lookups \ {host}
  /\ \E found \in SUBSET Addresses : addrs' = addrs \cup found
  /\ verdict' = IF resolveOver \/ ended THEN "interrupted" ELSE "resolving"
  /\ UNCHANGED <<ended, reachable, resolveOver, dialed>>

Resolved ==
  /\ verdict = "resolving"
  /\ lookups = {}
  /\ verdict' = IF addrs # {} THEN "dialing" ELSE "noEvidence"
  /\ UNCHANGED <<ended, reachable, lookups, resolveOver, addrs, dialed>>

SpendResolveBudget ==
  /\ verdict = "resolving" /\ ~ resolveOver
  /\ resolveOver' = TRUE
  /\ UNCHANGED <<ended, reachable, lookups, addrs, dialed, verdict>>

\* Verify, one address. A dial the process's context cut is not a refusal. Here and
\* below, a definition that nothing uses states a plausible mistake in the one after
\* it.
CutIsRefused(addr)     == addr \notin reachable \/ ended
RefusedByNetwork(addr) == addr \notin reachable

Dial(addr) ==
  /\ verdict = "dialing"
  /\ addr \in addrs \ dialed
  /\ \/ /\ addr \in reachable /\ ~ ended
        /\ verdict' = "notConfined"
        /\ UNCHANGED dialed
     \/ /\ RefusedByNetwork(addr)
        /\ dialed' = dialed \cup {addr}
        /\ UNCHANGED verdict
     \/ /\ ended
        /\ verdict' = "interrupted"
        /\ UNCHANGED dialed
  /\ UNCHANGED <<ended, reachable, lookups, resolveOver, addrs>>

Verified ==
  /\ verdict = "dialing"
  /\ dialed = addrs
  /\ verdict' = "passed"
  /\ UNCHANGED <<ended, reachable, lookups, resolveOver, addrs, dialed>>

\* Addresses given with -confinement-address are dialed as they are; with
\* -skip-confinement-check nothing is.
ConfinementInit ==
  /\ ended = FALSE /\ resolveOver = FALSE /\ dialed = {}
  /\ \/ verdict = "resolving" /\ lookups = Hosts /\ addrs = {} /\ reachable \in SUBSET Addresses
     \/ verdict = "dialing" /\ lookups = {} /\ addrs \in (SUBSET Addresses) \ {{}}
        /\ reachable \in SUBSET Addresses
     \/ verdict = "skipped" /\ lookups = {} /\ addrs = {} /\ reachable = {}

CheckStep ==
  \/ Resolved \/ Verified
  \/ \E host \in Hosts : LookUp(host)
  \/ \E addr \in Addresses : Dial(addr)
================================================================================
