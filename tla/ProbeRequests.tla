----------------------------- MODULE ProbeRequests -----------------------------
(***************************************************************************)
(* A probe or a check over the client of its tunnel: the pool and the pins *)
(* it is opened with and the destinations it draws (DestinationPool), and  *)
(* one request at a time for a destination or the echo (RequestOwner).     *)
(*                                                                         *)
(* The pool source and the probe are not in step: the source may be        *)
(* refreshed between the opening of a tunnel and the run over it.          *)
(***************************************************************************)
EXTENDS DestinationPool, RequestOwner

vars == <<poolVars, requestVars>>

--------------------------------------------------------------------------------
\* A served pin for a host the probe does not dial is dropped, or it would widen the
\* allowlist. Here and below, a definition that nothing uses states a plausible
\* mistake in the one after it.
restrictPins(pins, hosts) ==
  LET dialed == {k \in DOMAIN pins : \E h \in hosts : normalizeHost(k) = normalizeHost(h)} IN
    [k \in dialed |-> pins[k]]

\* Open: the allowlist and the pins of the tunnel, from the pool captured with it.
OpenProbe ==
  /\ stage = "idle"
  /\ CapturePool
  /\ LET hosts == DialHosts(pool', lane') IN OpenClient(restrictPins(servedPins, hosts), hosts)
  /\ UNCHANGED <<target, stage, reqDone, closed, cancelled, lock, pc, cut, chain>>

\* A request of the run: the warm-up's to the echo, or a load's.
Load ==
  /\ phase = "drawn"
  /\ \E host \in HostsOf(loads) \cup {EchoHost} : Start(host)
  /\ UNCHANGED poolVars

RideOn == RequestStep /\ UNCHANGED poolVars

DrawLoads == Draw /\ UNCHANGED requestVars

ReportLoads == stage = "idle" /\ Judge /\ UNCHANGED requestVars

CloseProbe ==
  /\ EndProbe
  /\ client' = NoClient
  /\ UNCHANGED <<target, stage, reqDone, closed, cancelled, lock, pc, cut, chain>>

Init == PoolInit /\ RequestInit

Next == OpenProbe \/ DrawLoads \/ Load \/ RideOn \/ ReportLoads \/ CloseProbe

Spec == Init /\ [][Next]_vars /\ RequestFairness

--------------------------------------------------------------------------------
\* What the server's pins ask of a chain presented for the target, whatever the
\* spelling they are served under.
Pinned == {k \in DOMAIN servedPins : normalizeHost(k) = normalizeHost(target)}
Vouched(keys) == Pinned # {} => \E k \in Pinned : keys \cap servedPins[k] # {}

\* A site fails for what it or its provider does and never for how the prober is set
\* up: every destination drawn is on the allowlist of the tunnel it is loaded over,
\* though the pool may have changed since; and a chain is refused, or accepted, as
\* the pins served for its host say.
SitesFailOnTheirOwn ==
  \A d \in Dials :
    /\ pc[d] # "policy"
    /\ pc[d] = "pin" => ~ Vouched(chain[d])
    /\ pc[d] \in {"handed", "claimed"} => Vouched(chain[d])
================================================================================
