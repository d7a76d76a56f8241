--------------------------- MODULE ProbeLifetimeProofs ---------------------------
(***************************************************************************)
(* What a full probe leaves behind, for any number of re-opens, targets    *)
(* and streams, and wherever it fails, loses its tunnel or is cancelled.   *)
(*                                                                         *)
(* A response body is open only while a stream of a measurement has it,    *)
(* and a measurement is judged once its streams are gone (BodyInv). A      *)
(* tunnel is the current one, or on its way out (TunnelInv). The probe's   *)
(* own tunnel lives under the probe's context alone, so unless that ends   *)
(* its last request is made (FirstInv).                                    *)
(***************************************************************************)
EXTENDS ProbeLifetime, FiniteSetTheorems, TLAPS

Types ==
  /\ ctxDone \in BOOLEAN
  /\ stage \in ProbeStages /\ sampler \in SamplerStages
  /\ opened \in 0..(ReopenLimit + 1) /\ current \in Tunnels
  /\ tunnel \in [Tunnels -> {"none", "open", "retiring", "closed"}]
  /\ stream \in [Streams -> StreamStages] /\ bodies \subseteq Streams

BodyInv ==
  /\ \A s \in bodies : stream[s] \in {"ready", "reading", "closing"}
  /\ sampler \notin {"setup", "read"} => bodies = {}
  /\ stage # "bandwidth" => sampler \in {"idle", "done"}

TunnelInv ==
  /\ \A t \in Tunnels : opened <= t => tunnel[t] = "none"
  /\ \A t \in Tunnels : tunnel[t] = "open" => t = current
  /\ opened > 0 => tunnel[0] # "none"
  /\ stage \notin {"open", "done"} => current < opened
  /\ stage = "open" => opened = 0 /\ current = 0
  /\ stage = "joining" => \A t \in Tunnels : tunnel[t] # "open"
  /\ stage = "done" => \A t \in Tunnels : tunnel[t] \in {"none", "closed"}

FirstInv == ~ ctxDone /\ tunnel[0] = "closed" => 0 \in deregistered

IInv == Types /\ BodyInv /\ TunnelInv /\ FirstInv

--------------------------------------------------------------------------------
LEMMA FirstTunnel == 0 \in Tunnels
  BY LifetimeAssumption DEF Tunnels

\* What a step of the sample does to its bodies.
LEMMA SampleKeeps ==
  ASSUME Types, BodyInv, stage = "bandwidth", NEW up, SampleStep(up)
  PROVE  /\ sampler' \in SamplerStages /\ stream' \in [Streams -> StreamStages]
         /\ bodies' \subseteq Streams /\ ctxDone' = ctxDone
         /\ \A s \in bodies' : stream'[s] \in {"ready", "reading", "closing"}
         /\ sampler' \notin {"setup", "read"} => bodies' = {}
<1> USE DEF Types, BodyInv
<1>1. CASE CheckTime \/ ReserveFails \/ SubmitFigure
  BY <1>1 DEF CheckTime, ReserveFails, SubmitFigure, Record, measureVars, SamplerStages
<1>2. CASE Reserve
  BY <1>2 DEF Reserve, SamplerStages, StreamStages
<1>3. CASE FireGun
  BY <1>3 DEF FireGun, SamplerStages
<1>4. CASE JudgeSample
  BY <1>4 DEF JudgeSample, Record, measureVars, SamplerStages
<1>5. ASSUME NEW s \in Streams, OpenStream(s, up) PROVE
         /\ stream' = [stream EXCEPT ![s] = "ready"] /\ bodies' \in {bodies, bodies \cup {s}}
         /\ UNCHANGED <<sampler, ctxDone>> /\ sampler \in {"setup", "read"}
  BY <1>5 DEF OpenStream, Goto, Measuring
<1>6. ASSUME NEW s \in Streams, Release(s) PROVE
         /\ \E to \in {"reading", "closing"} :
              stream' = [stream EXCEPT ![s] = IF s \in bodies THEN to ELSE "gone"]
         /\ UNCHANGED <<sampler, ctxDone, bodies>>
  BY <1>6 DEF Release
<1>7. ASSUME NEW s \in Streams, Read(s, up) \/ ReadNothing(s) \/ ReadFails(s) PROVE
         /\ \E to \in {"reading", "closing"} : stream' = [stream EXCEPT ![s] = to]
         /\ UNCHANGED <<sampler, ctxDone, bodies>>
  BY <1>7 DEF Read, ReadNothing, ReadFails, Goto
<1>8. ASSUME NEW s \in Streams, EndStream(s) PROVE
         /\ stream' = [stream EXCEPT ![s] = "gone"] /\ bodies' = bodies \ {s}
         /\ UNCHANGED <<sampler, ctxDone>>
  BY <1>8 DEF EndStream, CloseBody, Goto
<1>9. ASSUME NEW s \in Streams,
             \/ OpenStream(s, up) \/ Release(s) \/ Read(s, up) \/ ReadNothing(s) \/ ReadFails(s)
             \/ EndStream(s)
      PROVE  /\ sampler' \in SamplerStages /\ stream' \in [Streams -> StreamStages]
             /\ bodies' \subseteq Streams /\ ctxDone' = ctxDone
             /\ \A b \in bodies' : stream'[b] \in {"ready", "reading", "closing"}
             /\ sampler' \notin {"setup", "read"} => bodies' = {}
  <2>1. CASE OpenStream(s, up)
    BY <1>5, <2>1 DEF StreamStages
  <2>2. CASE Release(s)
    BY <1>6, <2>2 DEF StreamStages
  <2>3. CASE Read(s, up) \/ ReadNothing(s) \/ ReadFails(s)
    BY <1>7, <2>3 DEF StreamStages
  <2>4. CASE EndStream(s)
    BY <1>8, <2>4 DEF StreamStages
  <2> QED BY <1>9, <2>1, <2>2, <2>3, <2>4
<1> QED BY <1>1, <1>2, <1>3, <1>4, <1>9 DEF SampleStep

\* Steps of the probe that touch no tunnel, no stream and no context of the probe.
LEMMA StageKeeps ==
  ASSUME IInv, UNCHANGED <<ctxDone, opened, tunnel, current, deregistered, stream, bodies>>,
         stage' \in ProbeStages, sampler' \in SamplerStages,
         stage' = stage \/ (stage \notin {"open", "done"} /\ stage' \notin {"open", "joining", "done"}),
         sampler' = sampler \/ (sampler = "idle" /\ sampler' = "check" /\ stage = "bandwidth"),
         stage' = stage \/ (stage' # "bandwidth" => sampler' \in {"idle", "done"})
  PROVE  IInv'
  BY DEF IInv, Types, BodyInv, TunnelInv, FirstInv, SamplerStages

LEMMA ProbeKeeps ==
  ASSUME IInv, Probe
  PROVE  IInv'
<1>1. CASE OpenPath
  <2>1. /\ stage = "open" /\ opened = 0 /\ \A t \in Tunnels : tunnel[t] = "none"
        /\ current = 0 /\ 0 \in Tunnels
        /\ UNCHANGED <<ctxDone, sampler, stream, bodies, current, deregistered>>
    BY <1>1, LifetimeAssumption DEF OpenPath, IInv, Types, TunnelInv, sampleVars, measureVars, Tunnels
  <2>2. CASE stage' = "done" /\ UNCHANGED <<opened, tunnel>>
    BY <2>1, <2>2 DEF IInv, Types, BodyInv, TunnelInv, FirstInv, ProbeStages
  <2>3. CASE /\ stage' = "health" /\ opened' = 1
             /\ tunnel' = [tunnel EXCEPT ![0] = "open"]
    <3>1. /\ tunnel' \in [Tunnels -> {"none", "open", "retiring", "closed"}] /\ tunnel'[0] = "open"
          /\ \A t \in Tunnels \ {0} : tunnel'[t] = "none"
      BY <2>1, <2>3 DEF IInv, Types
    <3>2. opened' \in 0..(ReopenLimit + 1) /\ \A t \in Tunnels : opened' <= t => t # 0
      BY <2>3, LifetimeAssumption DEF Tunnels
    <3> QED BY <2>1, <2>3, <3>1, <3>2 DEF IInv, Types, BodyInv, TunnelInv, FirstInv, ProbeStages
  <2> QED BY <1>1, <2>2, <2>3 DEF OpenPath
<1>2. CASE StartRun \/ RunReturns \/ SubmitExit \/ StartSample \/ EndSample
  BY <1>2, StageKeeps DEF StartRun, RunReturns, SubmitExit, StartSample, EndSample, IInv, Types, BodyInv,
     sampleVars, measureVars, pathVars, ProbeStages, SamplerStages
<1>3. CASE CloseCurrent
  <2>1. /\ stage' = "joining" /\ tunnel' = [tunnel EXCEPT ![current] = "closed"] /\ stage = "close"
        /\ deregistered' = IF CallerDone(current) THEN deregistered ELSE deregistered \cup {current}
        /\ UNCHANGED <<ctxDone, sampler, stream, bodies, opened, current>>
    BY <1>3 DEF CloseCurrent, Deregister, sampleVars, measureVars
  <2>2. /\ tunnel'[current] = "closed" /\ \A t \in Tunnels \ {current} : tunnel'[t] = tunnel[t]
        /\ current \in Tunnels /\ tunnel' \in [Tunnels -> {"none", "open", "retiring", "closed"}]
    BY <2>1 DEF IInv, Types
  <2>3. opened > current /\ \A t \in Tunnels : opened <= t => t # current
    BY <2>1 DEF IInv, Types, TunnelInv, Tunnels
  <2>4. FirstInv'
    BY <2>1, <2>2 DEF IInv, Types, FirstInv, CallerDone, Tunnels
  <2>5. TunnelInv'
    BY <2>1, <2>2, <2>3, FirstTunnel DEF IInv, TunnelInv
  <2>6. Types' /\ BodyInv'
    BY <2>1, <2>2 DEF IInv, Types, BodyInv, ProbeStages
  <2> QED BY <2>4, <2>5, <2>6 DEF IInv
<1>4. CASE CloseReturns
  BY <1>4 DEF CloseReturns, Joined, IInv, Types, BodyInv, TunnelInv, FirstInv, ProbeStages, sampleVars,
     measureVars, pathVars
<1> QED BY <1>1, <1>2, <1>3, <1>4 DEF Probe

\* A re-open brings up the next tunnel, and the one it replaces is on its way out.
LEMMA ReopenKeeps ==
  ASSUME IInv, Reopen
  PROVE  IInv'
<1>1. /\ stage = "run" /\ opened <= ReopenLimit /\ opened' = opened + 1 /\ current' = opened
      /\ tunnel' = [tunnel EXCEPT ![opened] = "open", ![current] = "retiring"]
      /\ UNCHANGED <<stage, ctxDone, sampler, stream, bodies, deregistered>>
  BY DEF Reopen, sampleVars, measureVars
<1>2. opened \in Tunnels /\ current \in Tunnels /\ current < opened /\ opened \in Nat /\ current \in Nat
  BY <1>1, LifetimeAssumption DEF IInv, Types, TunnelInv, Tunnels
<1>3. /\ tunnel'[opened] = "open" /\ tunnel'[current] = "retiring"
      /\ \A t \in Tunnels \ {opened, current} : tunnel'[t] = tunnel[t]
      /\ tunnel' \in [Tunnels -> {"none", "open", "retiring", "closed"}]
  BY <1>1, <1>2 DEF IInv, Types
<1>4. \A t \in Tunnels : opened' <= t => t # opened /\ t # current /\ opened <= t
  BY <1>1, <1>2 DEF Tunnels
<1>5. opened' \in 0..(ReopenLimit + 1) /\ current' < opened'
  BY <1>1, <1>2, LifetimeAssumption
<1>6. TunnelInv'
  BY <1>1, <1>2, <1>3, <1>4, <1>5, FirstTunnel DEF IInv, TunnelInv
<1>7. FirstInv'
  BY <1>1, <1>2, <1>3, FirstTunnel DEF IInv, FirstInv
<1> QED BY <1>1, <1>2, <1>3, <1>5, <1>6, <1>7 DEF IInv, Types, BodyInv

LEMMA RetireKeeps ==
  ASSUME IInv, NEW t \in Tunnels, RetireClose(t)
  PROVE  IInv'
<1>1. /\ tunnel[t] = "retiring" /\ tunnel' = [tunnel EXCEPT ![t] = "closed"]
      /\ deregistered' = IF CallerDone(t) THEN deregistered ELSE deregistered \cup {t}
      /\ UNCHANGED <<stage, ctxDone, sampler, stream, bodies, opened, current>>
  BY DEF RetireClose, Deregister, sampleVars, measureVars
<1>2. /\ tunnel'[t] = "closed" /\ \A u \in Tunnels \ {t} : tunnel'[u] = tunnel[u]
      /\ tunnel' \in [Tunnels -> {"none", "open", "retiring", "closed"}]
  BY <1>1 DEF IInv, Types
<1>3. FirstInv'
  BY <1>1, <1>2 DEF IInv, FirstInv, CallerDone, Tunnels
<1>4. TunnelInv'
  <2>1. \A u \in Tunnels : opened <= u => u # t
    BY <1>1 DEF IInv, TunnelInv
  <2> QED BY <1>1, <1>2, <2>1, FirstTunnel DEF IInv, TunnelInv
<1> QED BY <1>1, <1>2, <1>3, <1>4 DEF IInv, Types, BodyInv

LEMMA Inductive ==
  /\ Init => IInv
  /\ IInv /\ [Next]_vars => IInv'
<1>1. ASSUME Init PROVE IInv
  <2>1. Types
    <3>1. 0 \in 0..(ReopenLimit + 1)
      BY LifetimeAssumption
    <3>2. tunnel \in [Tunnels -> {"none", "open", "retiring", "closed"}]
      BY <1>1 DEF Init
    <3>3. stream \in [Streams -> StreamStages] /\ sampler \in SamplerStages /\ bodies = {}
          /\ ctxDone \in BOOLEAN
      BY <1>1 DEF Init, SampleInit, StreamStages, SamplerStages
    <3> QED BY <1>1, <3>1, <3>2, <3>3, FirstTunnel DEF Init, Types, ProbeStages
  <2>2. BodyInv /\ TunnelInv /\ FirstInv
    BY <1>1, FirstTunnel DEF Init, SampleInit, BodyInv, TunnelInv, FirstInv
  <2> QED BY <2>1, <2>2 DEF IInv
<1>2. ASSUME IInv, [Next]_vars PROVE IInv'
  <2>1. CASE Sample
    <3>1. /\ UNCHANGED <<stage, opened, tunnel, current, deregistered>> /\ stage = "bandwidth"
          /\ SampleStep(Up(riding))
      BY <2>1 DEF Sample, probeVars, pathVars
    <3>2. /\ sampler' \in SamplerStages /\ stream' \in [Streams -> StreamStages]
          /\ bodies' \subseteq Streams /\ ctxDone' = ctxDone
          /\ \A s \in bodies' : stream'[s] \in {"ready", "reading", "closing"}
          /\ sampler' \notin {"setup", "read"} => bodies' = {}
      BY <1>2, <3>1, SampleKeeps DEF IInv
    <3> QED BY <1>2, <3>1, <3>2 DEF IInv, Types, BodyInv, TunnelInv, FirstInv
  <2>2. CASE SpendBudget \/ CapPasses \/ UNCHANGED vars \/ (\E t \in Tunnels : Lose(t))
    <3>1. UNCHANGED <<ctxDone, opened, tunnel, current, deregistered, stream, bodies, stage, sampler>>
      BY <2>2 DEF SpendBudget, CapPasses, TimeOut, Lose, vars, sampleVars, measureVars, probeVars, pathVars
    <3> QED BY <1>2, <3>1, StageKeeps DEF IInv, Types
  <2>3. CASE Cancel
    <3>1. UNCHANGED <<opened, tunnel, current, deregistered, stream, bodies, stage, sampler>> /\ ctxDone'
      BY <2>3 DEF Cancel, CancelSample, probeVars, pathVars
    <3>2. ctxDone' \in BOOLEAN
      BY <2>3 DEF Cancel, CancelSample
    <3> QED BY <1>2, <3>1, <3>2 DEF IInv, Types, BodyInv, TunnelInv, FirstInv
  <2> QED BY <1>2, <2>1, <2>2, <2>3, ProbeKeeps, ReopenKeeps, RetireKeeps DEF Next
<1> QED BY <1>1, <1>2

\* Every probe that is done has closed its tunnels and its response bodies, and one
\* that nobody cancelled made the last request of its own tunnel
\* (path.go:172-198, tunnel.go:481-497).
THEOREM ProbesLeaveNothing == Spec => []ProbeLeavesNothing
<1>1. IInv => ProbeLeavesNothing
  <2>1. SUFFICES ASSUME IInv, stage = "done" PROVE
           /\ \A t \in Tunnels : tunnel[t] \in {"none", "closed"}
           /\ bodies = {}
           /\ ~ ctxDone /\ opened > 0 => 0 \in deregistered
    BY DEF ProbeLeavesNothing
  <2>2. \A t \in Tunnels : tunnel[t] \in {"none", "closed"}
    BY <2>1 DEF IInv, TunnelInv
  <2>3. bodies = {}
    BY <2>1 DEF IInv, BodyInv
  <2> QED BY <2>1, <2>2, <2>3, FirstTunnel DEF IInv, TunnelInv, FirstInv
<1> QED BY <1>1, Inductive, PTL DEF Spec

--------------------------------------------------------------------------------
\* A stream reads within its allowance, and one that has read to its end either got
\* there as it should or has failed the measurement; a figure is submitted after all.
StreamInv(s) ==
  /\ total[s] \in 0..StreamBytes
  /\ stream[s] \in {"none", "opening", "ready"} => total[s] = 0
  /\ stream[s] = "reading" => total[s] < StreamBytes
  /\ stream[s] \in {"closing", "gone"} =>
       endedBy[s] \in {"eof", "allowance", "ownCap"} \/ failed # {}
  /\ stream[s] = "ready" => s \in bodies \/ failed # {}

SampleInv ==
  /\ stream \in [Streams -> StreamStages]
  /\ total \in [Streams -> 0..StreamBytes] /\ endedBy \in [Streams -> Endings]
  /\ \A s \in Streams : StreamInv(s)
  /\ abort => failed # {}
  /\ sampler = "submit" =>
       /\ failed = {} /\ TotalBytes > 0
       /\ \A s \in Streams : stream[s] = "gone"

\* One stream moves, and keeps its part of the invariant.
LEMMA OneStreamMoves ==
  ASSUME SampleInv, NEW s \in Streams, NEW to \in StreamStages, NEW n \in 0..StreamBytes,
         NEW why \in Endings, stream[s] # "gone",
         stream' = [stream EXCEPT ![s] = to],
         total' = [total EXCEPT ![s] = n], endedBy' = [endedBy EXCEPT ![s] = why],
         failed \subseteq failed', \A t \in Streams \ {s} : t \in bodies => t \in bodies',
         UNCHANGED <<sampler, abort>>,
         to \in {"none", "opening", "ready"} => n = 0,
         to = "reading" => n < StreamBytes,
         to \in {"closing", "gone"} => why \in {"eof", "allowance", "ownCap"} \/ failed' # {},
         to = "ready" => s \in bodies' \/ failed' # {}
  PROVE  SampleInv'
<1>1. /\ stream' \in [Streams -> StreamStages] /\ total' \in [Streams -> 0..StreamBytes]
      /\ endedBy' \in [Streams -> Endings]
      /\ stream'[s] = to /\ total'[s] = n /\ endedBy'[s] = why
      /\ \A t \in Streams \ {s} :
           stream'[t] = stream[t] /\ total'[t] = total[t] /\ endedBy'[t] = endedBy[t]
  BY DEF SampleInv
<1>2. sampler # "submit"
  BY DEF SampleInv
<1>3. \A t \in Streams : StreamInv(t)'
  BY <1>1 DEF SampleInv, StreamInv
<1> QED BY <1>1, <1>2, <1>3 DEF SampleInv

LEMMA StreamMoves ==
  ASSUME SampleInv, NEW s \in Streams, NEW up,
         OpenStream(s, up) \/ Release(s) \/ EndStream(s)
  PROVE  SampleInv'
<1>1. /\ total' = [total EXCEPT ![s] = total[s]] /\ endedBy' = [endedBy EXCEPT ![s] = endedBy[s]]
      /\ UNCHANGED <<sampler, abort>> /\ total[s] \in 0..StreamBytes /\ endedBy[s] \in Endings
  BY DEF OpenStream, Release, EndStream, SampleInv
<1>2. CASE OpenStream(s, up)
  <2>1. /\ stream[s] = "opening" /\ total[s] = 0 /\ stream' = [stream EXCEPT ![s] = "ready"]
        /\ failed \subseteq failed' /\ bodies \subseteq bodies'
        /\ (s \in bodies' \/ failed' # {}) /\ "ready" \in StreamStages
    BY <1>2 DEF OpenStream, Goto, StreamStages, SampleInv, StreamInv
  <2> QED BY <1>1, <2>1, OneStreamMoves
<1>3. CASE Release(s)
  <2>1. /\ stream[s] = "ready" /\ total[s] = 0 /\ UNCHANGED <<bodies, failed>>
        /\ s \in bodies \/ failed # {}
        /\ abort => failed # {}
    BY <1>3 DEF Release, SampleInv, StreamInv
  <2>2. PICK to \in {"gone", "closing", "reading"} :
          stream' = [stream EXCEPT ![s] = to] /\ (to = "reading" \/ failed # {})
    BY <1>3, <2>1 DEF Release
  <2>3. to \in StreamStages /\ 0 < StreamBytes
    BY BandwidthAssumption DEF StreamStages
  <2> QED BY <1>1, <2>1, <2>2, <2>3, OneStreamMoves
<1>4. CASE EndStream(s)
  BY <1>1, <1>4, OneStreamMoves DEF EndStream, CloseBody, Goto, StreamStages, SampleInv, StreamInv
<1> QED BY <1>2, <1>3, <1>4

LEMMA StreamReads ==
  ASSUME SampleInv, NEW s \in Streams, NEW up, Read(s, up) \/ ReadNothing(s) \/ ReadFails(s)
  PROVE  SampleInv'
<1>1. /\ stream[s] = "reading" /\ total[s] \in 0..(StreamBytes - 1)
      /\ UNCHANGED <<sampler, abort, bodies>> /\ failed \subseteq failed'
  BY BandwidthAssumption DEF Read, ReadNothing, ReadFails, Goto, SampleInv, StreamInv
<1>2. CASE Read(s, up)
  <2>1. PICK why \in Stops(s) :
          /\ endedBy' = [endedBy EXCEPT ![s] = why]
          /\ stream' = [stream EXCEPT ![s] = IF why = "none" THEN "reading" ELSE "closing"]
    BY <1>2 DEF Read
  <2>2. total' = [total EXCEPT ![s] = total[s] + 1] /\ total[s] + 1 \in 0..StreamBytes
    BY <1>1, <1>2, BandwidthAssumption DEF Read
  <2>3. /\ why \in {"none", "eof", "allowance", "ownCap"}
        /\ why = "none" => total[s] + 1 < StreamBytes
    BY <1>1, <2>2, BandwidthAssumption DEF Stops
  <2>4. (IF why = "none" THEN "reading" ELSE "closing") \in StreamStages /\ why \in Endings
    BY <2>3 DEF StreamStages, Endings
  <2> QED BY <1>1, <2>1, <2>2, <2>3, <2>4, OneStreamMoves
<1>3. CASE ReadNothing(s) \/ ReadFails(s)
  <2>1. /\ stream' = [stream EXCEPT ![s] = "closing"]
        /\ total' = [total EXCEPT ![s] = total[s]] /\ total[s] \in 0..StreamBytes
        /\ "closing" \in StreamStages
    BY <1>1, <1>3, BandwidthAssumption DEF ReadNothing, ReadFails, Goto, SampleInv, StreamStages
  <2>2. PICK why \in {"eof", "ownCap", "error"} :
          endedBy' = [endedBy EXCEPT ![s] = why] /\ (why = "error" => failed' # {})
    BY <1>3 DEF ReadNothing, ReadFails, DesignedStop
  <2>3. why \in Endings
    BY DEF Endings
  <2> QED BY <1>1, <2>1, <2>2, <2>3, OneStreamMoves
<1> QED BY <1>2, <1>3

LEMMA SampleInductive ==
  /\ Init => SampleInv
  /\ SampleInv /\ [Next]_vars => SampleInv'
<1>1. ASSUME Init PROVE SampleInv
  BY <1>1, BandwidthAssumption DEF Init, SampleInit, SampleInv, StreamInv, StreamStages, Endings
<1>2. ASSUME SampleInv, [Next]_vars PROVE SampleInv'
  <2>1. CASE UNCHANGED <<sampler, abort, stream, bodies, failed, total, endedBy>>
    BY <1>2, <2>1 DEF SampleInv, StreamInv, TotalBytes, BytesRead
  <2>2. CASE Sample
    <3>1. PICK up : SampleStep(up)
      BY <2>2 DEF Sample
    <3>2. CASE CheckTime \/ ReserveFails \/ SubmitFigure \/ FireGun
      <4>1. UNCHANGED <<stream, bodies, failed, total, endedBy>> /\ sampler' # "submit"
        BY <3>2 DEF CheckTime, ReserveFails, SubmitFigure, FireGun, Record, measureVars
      <4>2. CASE FireGun
        <5>1. abort' => failed # {}
          BY <4>2, Zenon DEF FireGun
        <5> QED BY <1>2, <4>1, <5>1 DEF SampleInv, StreamInv
      <4>3. CASE UNCHANGED abort
        BY <1>2, <4>1, <4>3 DEF SampleInv, StreamInv
      <4> QED BY <3>2, <4>2, <4>3 DEF CheckTime, ReserveFails, SubmitFigure, measureVars
    <3>3. CASE Reserve
      BY <3>3, BandwidthAssumption DEF Reserve, SampleInv, StreamInv, StreamStages, Endings
    <3>4. CASE JudgeSample
      <4>1. UNCHANGED <<stream, bodies, failed, total, endedBy, abort>> /\ UNCHANGED TotalBytes
        BY <3>4 DEF JudgeSample, measureVars, TotalBytes, BytesRead
      <4>2. \/ sampler' = "check"
            \/ failed = {} /\ TotalBytes > 0 /\ \A s \in Streams : stream[s] = "gone"
        BY <3>4 DEF JudgeSample, Record
      <4> QED BY <1>2, <4>1, <4>2 DEF SampleInv, StreamInv
    <3> QED BY <1>2, <3>1, <3>2, <3>3, <3>4, StreamMoves, StreamReads DEF SampleStep
  <2>3. CASE StartSample
    <3>1. sampler' # "submit" /\ UNCHANGED <<abort, stream, bodies, failed, total, endedBy>>
      BY <2>3 DEF StartSample, measureVars
    <3> QED BY <1>2, <3>1 DEF SampleInv, StreamInv
  <2>4. CASE Probe /\ ~ StartSample
    BY <1>2, <2>1, <2>4 DEF Probe, OpenPath, StartRun, RunReturns, SubmitExit, EndSample, CloseCurrent,
       CloseReturns, sampleVars, measureVars
  <2>5. CASE Reopen \/ SpendBudget \/ Cancel \/ CapPasses \/ UNCHANGED vars
    BY <1>2, <2>1, <2>5 DEF Reopen, SpendBudget, Cancel, CancelSample, CapPasses, TimeOut, vars, sampleVars,
       measureVars
  <2>6. CASE \E t \in Tunnels : RetireClose(t) \/ Lose(t)
    BY <1>2, <2>1, <2>6 DEF RetireClose, Lose, sampleVars, measureVars
  <2> QED BY <1>2, <2>2, <2>3, <2>4, <2>5, <2>6 DEF Next
<1> QED BY <1>1, <1>2

\* What the streams have read fits in what was reserved for them.
LEMMA ReadsFitTheReserve ==
  ASSUME SampleInv
  PROVE  TotalBytes \in 0..MaxSampleBytes
<1> DEFINE Reserved == Streams \X (1..StreamBytes)
<1>1. /\ IsFiniteSet(Streams) /\ Cardinality(Streams) = StreamCount
      /\ IsFiniteSet(1..StreamBytes) /\ Cardinality(1..StreamBytes) = StreamBytes
  <2>1. StreamCount \in Nat \ {0} /\ StreamBytes \in Nat \ {0}
    BY BandwidthAssumption
  <2>2. \A n \in Nat \ {0} : IsFiniteSet(1..n) /\ Cardinality(1..n) = n
    BY FS_Interval
  <2> QED BY <2>1, <2>2 DEF Streams
<1>2. IsFiniteSet(Reserved) /\ Cardinality(Reserved) = MaxSampleBytes
  BY <1>1, FS_Product DEF MaxSampleBytes
<1>3. BytesRead \subseteq Reserved
  BY BandwidthAssumption DEF BytesRead, SampleInv
<1>4. Cardinality(BytesRead) <= MaxSampleBytes /\ IsFiniteSet(BytesRead)
  BY <1>2, <1>3, FS_Subset
<1>5. Cardinality(BytesRead) \in Nat /\ MaxSampleBytes \in Nat
  BY <1>2, <1>4, FS_CardinalityType
<1> QED BY <1>4, <1>5 DEF TotalBytes

\* A figure that is submitted is the provider's link at work: every stream of it read
\* to the end of its body, its allowance or the measurement's own cap, and together
\* they moved something and no more than was reserved (bandwidth.go:542-556, 615-626).
THEOREM SamplesAreHonest == Spec => []SampleIsHonest
<1>1. SampleInv => SampleIsHonest
  <2>1. SUFFICES ASSUME SampleInv, sampler = "submit"
                 PROVE  /\ \A s \in Streams : endedBy[s] \in {"eof", "allowance", "ownCap"}
                        /\ TotalBytes \in 1..MaxSampleBytes
    BY DEF SampleIsHonest
  <2>2. \A s \in Streams : endedBy[s] \in {"eof", "allowance", "ownCap"}
    BY <2>1 DEF SampleInv, StreamInv
  <2> QED BY <2>1, <2>2, ReadsFitTheReserve DEF SampleInv
<1> QED BY <1>1, SampleInductive, PTL DEF Spec

--------------------------------------------------------------------------------
\* The byte budget of a probe, and types.

\* The targets a figure was submitted for.
Measured == {i \in 1..Len(results) : results[i] = "measured"}
\* The sample that was reserved and has no outcome yet.
UnderWay == IF sampler \in {"setup", "read", "submit"} THEN 1 ELSE 0

\* What the server was asked to reserve is a whole number of samples, at least one for
\* every figure submitted and one for the sample under way, and at most one per target
\* looked at, of which there are no more than configured (the loop of Sample,
\* bandwidth/bandwidth.go:784-841): a budget charged without a figure is possible, a
\* figure without a charge is not.
FiguresAreReserved ==
  \E taken \in Nat :
    /\ reserved = taken * MaxSampleBytes
    /\ Cardinality(Measured) + UnderWay <= taken
    /\ taken <= Len(results) + UnderWay
    /\ Len(results) + UnderWay <= Targets

\* With what else the steps need: the loop reserves only for a target it has.
ReserveInv ==
  /\ results \in Seq(Outcomes)
  /\ FiguresAreReserved
  /\ sampler = "reserve" => Len(results) < Targets

\* An outcome adds one to the outcomes, and to the figures if it is one.
LEMMA MeasuredCounts ==
  ASSUME results \in Seq(Outcomes), NEW outcome \in Outcomes, results' = Append(results, outcome)
  PROVE  /\ results' \in Seq(Outcomes) /\ Len(results') = Len(results) + 1
         /\ IsFiniteSet(Measured) /\ Cardinality(Measured) \in Nat
         /\ Cardinality(Measured') = Cardinality(Measured) + (IF outcome = "measured" THEN 1 ELSE 0)
<1>1. Len(results) \in Nat /\ results' \in Seq(Outcomes) /\ Len(results') = Len(results) + 1
  OBVIOUS
<1>2. IsFiniteSet(1..Len(results))
  BY <1>1, FS_Interval
<1>3. Measured \subseteq 1..Len(results)
  BY DEF Measured
<1>4. IsFiniteSet(Measured)
  BY <1>2, <1>3, FS_Subset
<1>5. Cardinality(Measured) \in Nat
  BY <1>4, FS_CardinalityType
<1>6. \A i \in 1..Len(results) : results'[i] = results[i]
  OBVIOUS
<1>7. results'[Len(results) + 1] = outcome
  OBVIOUS
<1>8. Len(results) + 1 \notin Measured
  BY <1>1, <1>3
<1>9. CASE outcome = "measured"
  <2>1. Measured' = Measured \cup {Len(results) + 1}
    BY <1>1, <1>6, <1>7, <1>9 DEF Measured
  <2>2. Cardinality(Measured') = Cardinality(Measured) + 1
    BY <1>4, <1>8, <2>1, FS_AddElement
  <2> QED
    BY <1>1, <1>4, <1>5, <1>9, <2>2
<1>10. CASE outcome # "measured"
  <2>1. Measured' = Measured
    BY <1>1, <1>6, <1>7, <1>10 DEF Measured
  <2> QED
    BY <1>1, <1>4, <1>5, <1>10, <2>1
<1> QED
  BY <1>9, <1>10

\* The size of a sample, and the products the counts make with it.
LEMMA SampleBytes == MaxSampleBytes \in Nat \ {0} /\ \A n \in Nat : (n + 1) * MaxSampleBytes = n * MaxSampleBytes + MaxSampleBytes
<1>1. MaxSampleBytes \in Nat \ {0}
  BY BandwidthAssumption DEF MaxSampleBytes
<1> QED
  BY <1>1

\* A target is left behind with its outcome, and with what was reserved for it.
LEMMA Recorded ==
  ASSUME ReserveInv, NEW outcome \in Outcomes, Record(outcome),
         NEW more \in {0, 1}, reserved' = reserved + more * MaxSampleBytes,
         more = 1 => UnderWay = 0,
         outcome = "measured" => UnderWay = 1,
         Len(results) < Targets \/ UnderWay = 1
  PROVE  ReserveInv'
<1>1. PICK taken \in Nat :
        /\ reserved = taken * MaxSampleBytes
        /\ Cardinality(Measured) + UnderWay <= taken
        /\ taken <= Len(results) + UnderWay
        /\ Len(results) + UnderWay <= Targets
  BY DEF ReserveInv, FiguresAreReserved
<1>2. /\ results' \in Seq(Outcomes) /\ Len(results') = Len(results) + 1 /\ Len(results) \in Nat
      /\ Cardinality(Measured) \in Nat
      /\ Cardinality(Measured') = Cardinality(Measured) + (IF outcome = "measured" THEN 1 ELSE 0)
  BY MeasuredCounts DEF Record, ReserveInv
<1>3. sampler' = "check" /\ UnderWay' = 0 /\ UnderWay \in {0, 1}
  BY DEF Record, UnderWay
<1>4. taken + more \in Nat /\ reserved' = (taken + more) * MaxSampleBytes
  <2>1. CASE more = 0
    BY <1>1, <2>1, SampleBytes
  <2>2. CASE more = 1
    BY <1>1, <2>2, SampleBytes
  <2> QED
    BY <2>1, <2>2
<1>5. Targets \in Nat
  BY BandwidthAssumption
<1>6. /\ Cardinality(Measured') + 0 <= taken + more
      /\ taken + more <= Len(results') + 0
      /\ Len(results') + 0 <= Targets
  BY <1>1, <1>2, <1>3, <1>5
<1> QED
  BY <1>2, <1>3, <1>4, <1>6 DEF ReserveInv, FiguresAreReserved

\* What touches neither the outcomes nor the reservation keeps the invariant.
LEMMA ReserveKept ==
  ASSUME ReserveInv, UNCHANGED <<results, reserved>>, UnderWay' = UnderWay,
         sampler' = "reserve" => Len(results) < Targets
  PROVE  ReserveInv'
BY DEF ReserveInv, FiguresAreReserved, Measured

\* Every step of the sample keeps the account.
LEMMA ReserveStep == ReserveInv /\ [Next]_vars => ReserveInv'
<1> SUFFICES ASSUME ReserveInv, [Next]_vars PROVE ReserveInv'
  OBVIOUS
<1>0. UnderWay \in {0, 1} /\ 0 * MaxSampleBytes = 0 /\ 1 * MaxSampleBytes = MaxSampleBytes
  BY SampleBytes DEF UnderWay
<1>9. reserved \in Nat
  BY SampleBytes DEF ReserveInv, FiguresAreReserved
<1>1. CASE CheckTime
  <2>1. CASE Record("noTime") /\ Len(results) < Targets
    <3>1. reserved' = reserved + 0 * MaxSampleBytes /\ "noTime" \in Outcomes
      BY <1>0, <1>1, <1>9 DEF CheckTime, Outcomes
    <3> QED
      BY <2>1, <3>1, Recorded
  <2>2. CASE /\ UNCHANGED results /\ sampler' \in {"done", "reserve"}
             /\ sampler' = "reserve" => Len(results) < Targets
    <3>1. UnderWay' = UnderWay /\ UNCHANGED <<results, reserved>>
      BY <1>1, <2>2 DEF CheckTime, UnderWay
    <3> QED
      BY <2>2, <3>1, ReserveKept
  <2> QED
    BY <1>1, <2>1, <2>2 DEF CheckTime
<1>2. CASE ReserveFails
  <2>1. PICK outcome \in {"noBudget", "unsupported", "reserveError"} :
          /\ Record(outcome)
          /\ reserved' \in {reserved} \cup
                           (IF outcome = "reserveError" THEN {reserved + MaxSampleBytes} ELSE {})
    BY <1>2 DEF ReserveFails
  <2>2. \E more \in {0, 1} : reserved' = reserved + more * MaxSampleBytes
    BY <1>0, <1>9, <2>1
  <2>3. outcome \in Outcomes /\ outcome # "measured"
    BY DEF Outcomes
  <2>4. UnderWay = 0 /\ Len(results) < Targets
    BY <1>2 DEF ReserveFails, UnderWay, ReserveInv
  <2> QED
    BY <2>1, <2>2, <2>3, <2>4, Recorded
<1>3. CASE Reserve
  <2>1. PICK taken \in Nat :
          /\ reserved = taken * MaxSampleBytes
          /\ Cardinality(Measured) + UnderWay <= taken
          /\ taken <= Len(results) + UnderWay
          /\ Len(results) + UnderWay <= Targets
    BY DEF ReserveInv, FiguresAreReserved
  <2>2. /\ UnderWay = 0 /\ UnderWay' = 1 /\ Len(results) < Targets /\ sampler' # "reserve"
        /\ results' = results /\ reserved' = reserved + MaxSampleBytes
    BY <1>3 DEF Reserve, UnderWay, ReserveInv
  <2>3. reserved' = (taken + 1) * MaxSampleBytes /\ taken + 1 \in Nat
    BY <2>1, <2>2, SampleBytes
  <2>4. Len(results) \in Nat /\ Targets \in Nat /\ Cardinality(Measured) \in Int /\ Measured' = Measured
    <3>1. Len(results) \in Nat /\ IsFiniteSet(1..Len(results)) /\ Measured \subseteq 1..Len(results)
      BY FS_Interval DEF ReserveInv, Measured
    <3>2. Cardinality(Measured) \in Nat
      BY <3>1, FS_Subset, FS_CardinalityType
    <3> QED
      BY <2>2, <3>1, <3>2, BandwidthAssumption DEF Measured
  <2>5. /\ Cardinality(Measured') + UnderWay' <= taken + 1
        /\ taken + 1 <= Len(results') + UnderWay'
        /\ Len(results') + UnderWay' <= Targets
    BY <2>1, <2>2, <2>4
  <2> QED
    BY <2>2, <2>3, <2>5 DEF ReserveInv, FiguresAreReserved
<1>4. CASE JudgeSample
  <2>1. CASE Record("measureError")
    <3>1. /\ reserved' = reserved + 0 * MaxSampleBytes /\ "measureError" \in Outcomes
          /\ UnderWay = 1
      BY <1>0, <1>4, <1>9 DEF JudgeSample, Outcomes, UnderWay
    <3> QED
      BY <2>1, <3>1, Recorded
  <2>2. CASE sampler' = "submit" /\ UNCHANGED results
    <3>1. UnderWay' = UnderWay /\ UNCHANGED <<results, reserved>>
      BY <1>4, <2>2 DEF JudgeSample, UnderWay
    <3> QED
      BY <2>2, <3>1, ReserveKept
  <2> QED
    BY <1>4, <2>1, <2>2 DEF JudgeSample
<1>5. CASE SubmitFigure
  <2>1. PICK outcome \in {"measured", "submitError"} : Record(outcome)
    BY <1>5 DEF SubmitFigure
  <2>2. reserved' = reserved + 0 * MaxSampleBytes /\ outcome \in Outcomes /\ UnderWay = 1
    BY <1>0, <1>5, <1>9 DEF SubmitFigure, Outcomes, UnderWay
  <2> QED
    BY <2>1, <2>2, Recorded
<1>6. CASE UNCHANGED <<results, reserved, sampler>>
  <2>1. UnderWay' = UnderWay
    BY <1>6 DEF UnderWay
  <2> QED
    BY <1>6, <2>1, ReserveKept DEF ReserveInv
<1>7. CASE FireGun
  <2>1. UnderWay' = UnderWay /\ sampler' # "reserve" /\ UNCHANGED <<results, reserved>>
    BY <1>7 DEF FireGun, UnderWay
  <2> QED
    BY <2>1, ReserveKept
<1>8. CASE Sample
  BY <1>1, <1>2, <1>3, <1>4, <1>5, <1>6, <1>7, <1>8 DEF Sample, SampleStep, OpenStream, Release, Read,
     ReadNothing, ReadFails, EndStream
<1>10. CASE StartSample
  <2>1. UnderWay' = UnderWay /\ sampler' # "reserve" /\ UNCHANGED <<results, reserved>>
    BY <1>10 DEF StartSample, UnderWay
  <2> QED
    BY <2>1, ReserveKept
<1>11. CASE Next /\ ~ Sample /\ ~ StartSample
  <2>1. UNCHANGED <<results, reserved, sampler>>
    BY <1>11 DEF Next, Probe, OpenPath, StartRun, RunReturns, SubmitExit, EndSample, CloseCurrent,
       CloseReturns, Reopen, SpendBudget, Cancel, CancelSample, CapPasses, TimeOut, RetireClose,
       Lose, sampleVars
  <2> QED
    BY <1>6, <2>1
<1>12. CASE UNCHANGED vars
  BY <1>6, <1>12 DEF vars, sampleVars
<1> QED
  BY <1>8, <1>10, <1>11, <1>12

\* The types that no other proof needed.
RestInv ==
  /\ mctx \in {"live", "ownCap", "caller"}
  /\ capped \in BOOLEAN /\ abort \in BOOLEAN /\ failed \subseteq Streams
  /\ runCtx \in {"none", "live", "done"}
  /\ lost \subseteq Tunnels /\ deregistered \subseteq Tunnels /\ riding \in Tunnels

\* They are preserved.
LEMMA RestStep == IInv /\ RestInv /\ [Next]_vars => RestInv'
<1> SUFFICES ASSUME IInv, RestInv, [Next]_vars PROVE RestInv'
  OBVIOUS
<1>a. current \in Tunnels
  BY DEF IInv, Types
<1> USE DEF RestInv
<1>1. CASE Sample
  <2>1. CASE CheckTime \/ ReserveFails \/ Reserve \/ JudgeSample \/ SubmitFigure
    BY <1>1, <2>1 DEF Sample, CheckTime, ReserveFails, Reserve, JudgeSample, SubmitFigure,
       measureVars, probeVars, pathVars
  <2>2. CASE FireGun
    <3>1. UNCHANGED <<mctx, capped, failed, runCtx, lost, deregistered, riding>>
      BY <1>1, <2>2 DEF Sample, FireGun, probeVars, pathVars
    <3>2. abort' \in BOOLEAN
      BY <2>2 DEF FireGun
    <3> QED
      BY <3>1, <3>2
  <2>3. ASSUME NEW s \in Streams, NEW up,
               OpenStream(s, up) \/ Release(s) \/ Read(s, up) \/ ReadNothing(s) \/ ReadFails(s)
               \/ EndStream(s)
        PROVE  RestInv'
    BY <1>1, <2>3 DEF Sample, OpenStream, Release, Read, ReadNothing, ReadFails, EndStream,
       probeVars, pathVars
  <2> QED
    BY <1>1, <2>1, <2>2, <2>3 DEF Sample, SampleStep
<1>2. CASE Probe
  BY <1>a, <1>2 DEF Probe, OpenPath, StartRun, RunReturns, SubmitExit, StartSample, EndSample,
     CloseCurrent, CloseReturns, Deregister, pathVars, sampleVars, measureVars
<1>3. CASE Reopen \/ SpendBudget \/ Cancel \/ CapPasses
  BY <1>3 DEF Reopen, SpendBudget, Cancel, CancelSample, CapPasses, TimeOut, probeVars, pathVars,
     sampleVars, measureVars
<1>4. ASSUME NEW t \in Tunnels, RetireClose(t) \/ Lose(t) PROVE RestInv'
  BY <1>4 DEF RetireClose, Lose, Deregister, sampleVars, measureVars
<1>5. CASE UNCHANGED vars
  BY <1>5 DEF vars, probeVars, pathVars, sampleVars, measureVars
<1> QED
  BY <1>1, <1>2, <1>3, <1>4, <1>5 DEF Next

\* A part of the samples is a part of the bytes.
LEMMA Bytes == ASSUME NEW n \in Nat, NEW k \in Nat, n <= k, NEW c \in Nat PROVE n * c \in 0..(k * c)
<1>1. k = n + (k - n) /\ k - n \in Nat
  OBVIOUS
<1>2. k * c = n * c + (k - n) * c
  BY <1>1
<1>3. n * c \in Nat /\ (k - n) * c \in Nat
  BY <1>1
<1> QED
  BY <1>2, <1>3

\* The account is right in every state.
LEMMA ReserveInductive == Spec => []ReserveInv
<1>1. Init => ReserveInv
  <2> SUFFICES ASSUME Init PROVE ReserveInv
    OBVIOUS
  <2>1. results = <<>> /\ reserved = 0 /\ sampler = "idle"
    BY DEF Init, SampleInit
  <2>2. Measured = {} /\ Len(results) = 0 /\ UnderWay = 0 /\ results \in Seq(Outcomes)
    BY <2>1 DEF Measured, UnderWay
  <2>3. Cardinality(Measured) = 0 /\ 0 * MaxSampleBytes = 0 /\ 0 <= Targets
    BY <2>2, SampleBytes, BandwidthAssumption, FS_EmptySet
  <2> QED
    BY <2>1, <2>2, <2>3 DEF ReserveInv, FiguresAreReserved
<1> QED
  BY <1>1, ReserveStep, PTL DEF Spec

\* The fleet's byte budget is charged for every figure a probe submits, wherever it
\* is cancelled, capped, refused or fails, and for no more samples than it has
\* targets.
THEOREM NoFigureIsUnreserved == Spec => []FiguresAreReserved
<1>1. ReserveInv => FiguresAreReserved
  BY DEF ReserveInv
<1> QED
  BY <1>1, ReserveInductive, PTL

\* TypeOK holds of a probe with its sampler.
THEOREM ProbeTypeCorrect == Spec => []TypeOK
<1>1. Init => RestInv
  BY FirstTunnel DEF Init, SampleInit, RestInv
<1>2. IInv /\ RestInv /\ SampleInv /\ ReserveInv => TypeOK
  <2> SUFFICES ASSUME IInv, RestInv, SampleInv, ReserveInv PROVE TypeOK
    OBVIOUS
  <2>1. PICK taken \in Nat :
          /\ reserved = taken * MaxSampleBytes
          /\ taken <= Len(results) + UnderWay
          /\ Len(results) + UnderWay <= Targets
    BY DEF ReserveInv, FiguresAreReserved
  <2>2. Len(results) \in Nat /\ UnderWay \in {0, 1} /\ Targets \in Nat
    BY BandwidthAssumption DEF ReserveInv, UnderWay
  <2>3. taken <= Targets /\ Len(results) <= Targets
    BY <2>1, <2>2
  <2>4. reserved \in 0..(Targets * MaxSampleBytes)
    BY <2>1, <2>2, <2>3, SampleBytes, Bytes
  <2>5. SampleTypeOK
    BY <2>3, <2>4 DEF IInv, Types, RestInv, SampleInv, ReserveInv, SampleTypeOK
  <2> QED
    BY <2>5 DEF IInv, Types, RestInv, TypeOK
<1> QED
  BY <1>1, <1>2, Inductive, SampleInductive, RestStep, ReserveInductive, PTL DEF Spec
================================================================================
