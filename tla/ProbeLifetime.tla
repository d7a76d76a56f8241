----------------------------- MODULE ProbeLifetime -----------------------------
(***************************************************************************)
(* Which context a tunnel lives under, through one full probe: ProbeOne    *)
(* (prober/prober.go) with the hooks NewFullProber wires                   *)
(* (fleetprobe/full.go), the health run's budget context                   *)
(* (egresshealth.check), probePath's re-opens and retirements              *)
(* (fleetprobe/path.go) and the two contexts providertunnel.Open derives   *)
(* from its caller's.                                                      *)
(*                                                                         *)
(* The first tunnel is opened with the probe's context, every later one    *)
(* with the run's, which check cancels when it returns. How loads share    *)
(* the tunnel is TunnelPath's; here the run re-opens it whenever it is     *)
(* lost. The bandwidth sample at the end is Bandwidth's, over the tunnel   *)
(* that is current by then.                                                *)
(***************************************************************************)
EXTENDS Bandwidth

CONSTANT ReopenLimit   \* Options.TunnelRecreateAttempts

ASSUME LifetimeAssumption == ReopenLimit \in Nat

Tunnels == 0..ReopenLimit

VARIABLES
  stage,         \* where ProbeOne is
  runCtx,        \* check's context: "none", "live" or "done"
  opened,        \* tunnels that came up
  tunnel,        \* tunnel -> "none", "open", "retiring" or "closed"
  lost,          \* tunnels whose provider left
  current,       \* probePath.tunnel
  deregistered,  \* tunnels whose final remove-client request could be made
  riding         \* the tunnel whose client the sample was given

pathVars  == <<opened, tunnel, lost, current, deregistered>>
probeVars == <<stage, runCtx, pathVars, riding>>
vars == <<sampleVars, probeVars>>

ProbeStages == {"open", "health", "run", "submit", "bandwidth", "close", "joining", "done"}

--------------------------------------------------------------------------------
\* The context a tunnel was opened with is done: the probe's for the first, the
\* run's, a child of the probe's, for one the run opened. Its data path and its
\* control plane are children of it.
CallerDone(t) == ctxDone \/ (t > 0 /\ runCtx # "live")

\* The tunnel carries traffic.
Up(t) == tunnel[t] = "open" /\ t \notin lost /\ ~ CallerDone(t)

\* Tunnel.Close: the generator's last request rides the lifecycle context, which
\* Close itself cancels only after it.
Deregister(t)     == deregistered' = IF CallerDone(t) THEN deregistered ELSE deregistered \cup {t}

--------------------------------------------------------------------------------
\* Open: the first tunnel comes up, or the probe is over.
OpenPath ==
  /\ stage = "open"
  /\ \/ /\ stage' = "health"
        /\ opened' = 1
        /\ tunnel' = [tunnel EXCEPT ![0] = "open"]
     \/ stage' = "done" /\ UNCHANGED <<opened, tunnel>>
  /\ UNCHANGED <<sampleVars, runCtx, lost, current, deregistered, riding>>

\* A probe whose context is done runs nothing; check derives the run's context.
StartRun ==
  /\ stage = "health"
  /\ \/ ctxDone /\ stage' = "close" /\ UNCHANGED runCtx
     \/ ~ ctxDone /\ stage' = "run" /\ runCtx' = "live"
  /\ UNCHANGED <<sampleVars, pathVars, riding>>

\* A load finds the tunnel lost and re-opens it with the context it has, the run's.
Reopen ==
  /\ stage = "run" /\ runCtx = "live"
  /\ current \in lost
  /\ opened <= ReopenLimit
  /\ opened' = opened + 1
  /\ current' = opened
  /\ tunnel' = [tunnel EXCEPT ![opened] = "open", ![current] = "retiring"]
  /\ UNCHANGED <<sampleVars, stage, runCtx, lost, deregistered, riding>>

\* The run's budget is spent.
SpendBudget ==
  /\ stage = "run" /\ runCtx = "live"
  /\ runCtx' = "done"
  /\ UNCHANGED <<sampleVars, stage, pathVars, riding>>

\* check returns, cancelling its context as it does: with a run that gave an exit,
\* or with nothing to submit. Here and below, a definition that nothing uses states
\* a plausible mistake in the one after it.
RunReturns ==
  /\ stage = "run"
  /\ runCtx' = "done"
  /\ stage' \in {"submit", "close"}
  /\ UNCHANGED <<sampleVars, pathVars, riding>>

SubmitExit ==
  /\ stage = "submit"
  /\ stage' \in {"bandwidth", "close"}
  /\ UNCHANGED <<sampleVars, runCtx, pathVars, riding>>

\* The Bandwidth hook: the sample gets the client that is current now.
StartSample ==
  /\ stage = "bandwidth" /\ sampler = "idle"
  /\ riding' = current
  /\ sampler' = "check"
  /\ UNCHANGED <<ctxDone, results, reserved, measureVars, stage, runCtx, pathVars>>

Sample ==
  /\ stage = "bandwidth"
  /\ SampleStep(Up(riding))
  /\ UNCHANGED probeVars

EndSample ==
  /\ stage = "bandwidth" /\ sampler = "done"
  /\ stage' = "close"
  /\ UNCHANGED <<sampleVars, runCtx, pathVars, riding>>

--------------------------------------------------------------------------------
\* A replaced tunnel closes in the background.
RetireClose(t) ==
  /\ tunnel[t] = "retiring"
  /\ tunnel' = [tunnel EXCEPT ![t] = "closed"]
  /\ Deregister(t)
  /\ UNCHANGED <<sampleVars, stage, runCtx, opened, lost, current, riding>>

\* probePath.Close: the current tunnel, then whatever still retires.
CloseCurrent ==
  /\ stage = "close"
  /\ stage' = "joining"
  /\ tunnel' = [tunnel EXCEPT ![current] = "closed"]
  /\ Deregister(current)
  /\ UNCHANGED <<sampleVars, runCtx, opened, lost, current, riding>>

NotJoined == stage = "joining"
Joined    == stage = "joining" /\ \A t \in Tunnels : tunnel[t] # "retiring"

CloseReturns ==
  /\ Joined
  /\ stage' = "done"
  /\ UNCHANGED <<sampleVars, runCtx, pathVars, riding>>

--------------------------------------------------------------------------------
\* The provider leaves.
Lose(t) ==
  /\ tunnel[t] = "open" /\ t \notin lost
  /\ lost' = lost \cup {t}
  /\ UNCHANGED <<sampleVars, stage, runCtx, opened, tunnel, current, deregistered, riding>>

Cancel == stage # "done" /\ CancelSample /\ UNCHANGED probeVars

CapPasses == TimeOut /\ UNCHANGED probeVars

Init ==
  /\ SampleInit
  /\ stage = "open" /\ runCtx = "none" /\ opened = 0
  /\ tunnel = [t \in Tunnels |-> "none"]
  /\ lost = {} /\ current = 0 /\ deregistered = {} /\ riding = 0

Probe ==
  \/ OpenPath \/ StartRun \/ RunReturns \/ SubmitExit
  \/ StartSample \/ EndSample \/ CloseCurrent \/ CloseReturns

Next ==
  \/ Probe \/ Sample \/ Reopen \/ SpendBudget \/ Cancel \/ CapPasses
  \/ \E t \in Tunnels : RetireClose(t) \/ Lose(t)

Spec == Init /\ [][Next]_vars

\* Every call of the probe is bounded by a timeout, and every read by the
\* measurement's context.
FairSpec ==
  /\ Spec
  /\ WF_vars(Probe) /\ WF_vars(Sample)
  /\ \A t \in Tunnels : WF_vars(RetireClose(t))

--------------------------------------------------------------------------------
\* Every variable keeps its type.
TypeOK ==
  /\ SampleTypeOK
  /\ stage \in ProbeStages
  /\ runCtx \in {"none", "live", "done"}
  /\ opened \in 0..(ReopenLimit + 1)
  /\ tunnel \in [Tunnels -> {"none", "open", "retiring", "closed"}]
  /\ lost \subseteq Tunnels /\ deregistered \subseteq Tunnels
  /\ current \in Tunnels /\ riding \in Tunnels

\* A probe that is done holds no tunnel and no response body, and the tunnel it
\* opened itself was deregistered from the control plane unless the probe was
\* cancelled: its last request found its context live.
ProbeLeavesNothing ==
  stage = "done" =>
    /\ \A t \in Tunnels : tunnel[t] \in {"none", "closed"}
    /\ bodies = {}
    /\ ~ ctxDone /\ opened > 0 => 0 \in deregistered

\* Every probe returns, whichever stream of the sample fails to open or to read.
ProbeReturns == <>(stage = "done")

\* The sample rides a tunnel that is up: one that a probe nobody cancelled and a
\* provider that has not left leave standing (full.go:223-224).
SampleRidesALiveTunnel ==
  stage = "bandwidth" /\ sampler # "idle" /\ ~ ctxDone /\ riding \notin lost => Up(riding)
================================================================================
