------------------------------- MODULE Bandwidth -------------------------------
(***************************************************************************)
(* The bandwidth sample that rides a probe: Sampler.Sample and measure     *)
(* (bandwidth/bandwidth.go).                                               *)
(*                                                                         *)
(* Sample is one process and each stream of a measurement another, with    *)
(* the start barrier between them. Bytes are counted in reads; the         *)
(* measurement's time cap is a moment that comes, not a time, and which    *)
(* part of the window the rate is taken over is left out. A step of a      *)
(* stream takes whether its tunnel carries traffic as a parameter, for the *)
(* module that has the tunnel.                                             *)
(***************************************************************************)
EXTENDS Integers, Sequences, FiniteSets

CONSTANTS
  Targets,      \* number of targets measured, in order
  StreamCount,  \* parallel connections per measurement
  StreamBytes   \* what one stream may read, in reads

ASSUME BandwidthAssumption == {Targets, StreamCount, StreamBytes} \subseteq Nat \ {0}

Streams == 1..StreamCount
MaxSampleBytes == StreamCount * StreamBytes

VARIABLES
  ctxDone,   \* the probe's context is done
  sampler,   \* where Sample is
  results,   \* outcomes so far, in target order
  reserved,  \* bytes the server has taken from its budget for the probe
  mctx,      \* the measurement's context: "live", or what ended it first
  capped,    \* the measurement's time cap has passed
  abort,     \* measure's local abort
  stream,    \* stream -> where it is
  bodies,    \* streams whose response body is open
  failed,    \* streams whose err is set
  total,     \* stream -> bytes read
  endedBy    \* history: stream -> what ended its reading

measureVars == <<mctx, capped, abort, stream, bodies, failed, total, endedBy>>
sampleVars  == <<ctxDone, sampler, results, reserved, measureVars>>

SamplerStages == {"idle", "check", "reserve", "setup", "read", "submit", "done"}
StreamStages  == {"none", "opening", "ready", "reading", "closing", "gone"}
Outcomes == {"measured", "noTime", "noBudget", "unsupported", "reserveError", "measureError",
             "submitError"}
Endings  == {"none", "eof", "allowance", "ownCap", "caller", "error"}

--------------------------------------------------------------------------------
\* One target's Result; the next target is looked at.
Record(outcome) ==
  /\ results' = Append(results, outcome)
  /\ sampler' = "check"

\* hasTimeBudget, and the end of the list of targets. The probe's context carries
\* no deadline in the wiring that is modelled: time is left until it is done.
CheckTime ==
  /\ sampler = "check"
  /\ \/ Len(results) = Targets /\ sampler' = "done" /\ UNCHANGED results
     \/ Len(results) < Targets /\ ctxDone /\ Record("noTime")
     \/ Len(results) < Targets /\ ~ ctxDone /\ sampler' = "reserve" /\ UNCHANGED results
  /\ UNCHANGED <<ctxDone, reserved, measureVars>>

\* ReserveBandwidth: refused, or not known to be granted, and nothing is measured.
ReserveFails ==
  /\ sampler = "reserve"
  /\ \E outcome \in {"noBudget", "unsupported", "reserveError"} :
       /\ Record(outcome)
       /\ reserved' \in {reserved} \cup
                        (IF outcome = "reserveError" THEN {reserved + MaxSampleBytes} ELSE {})
  /\ UNCHANGED <<ctxDone, measureVars>>

\* Granted: measure starts its streams.
Reserve ==
  /\ sampler = "reserve" /\ ~ ctxDone
  /\ reserved' = reserved + MaxSampleBytes
  /\ sampler' = "setup"
  /\ mctx' = "live" /\ capped' = FALSE /\ abort' = FALSE
  /\ stream' = [s \in Streams |-> "opening"]
  /\ bodies' = {} /\ failed' = {}
  /\ total' = [s \in Streams |-> 0]
  /\ endedBy' = [s \in Streams |-> "none"]
  /\ UNCHANGED <<ctxDone, results>>

--------------------------------------------------------------------------------
Goto(s, from, to) == stream[s] = from /\ stream' = [stream EXCEPT ![s] = to]

\* measure is running.
Measuring == sampler \in {"setup", "read"}

\* openStream, up to setup.Done: the response is in, its body unread, or the stream
\* has failed and its body is closed.
OpenStream(s, up) ==
  /\ Measuring
  /\ Goto(s, "opening", "ready")
  /\ \/ up /\ mctx = "live" /\ bodies' = bodies \cup {s} /\ UNCHANGED failed
     \/ failed' = failed \cup {s} /\ UNCHANGED bodies
  /\ UNCHANGED <<ctxDone, sampler, results, reserved, mctx, capped, abort, total, endedBy>>

\* setup.Wait, then the barrier opens; any stream that failed aborts the rest. Here
\* and below, a definition that nothing uses states a plausible mistake in the one
\* after it.
AllOpened == \A s \in Streams : s \in bodies
AllSetUp  == \A s \in Streams : stream[s] = "ready"

FireGun ==
  /\ sampler = "setup"
  /\ AllSetUp
  /\ sampler' = "read"
  /\ abort' = (failed # {})
  /\ UNCHANGED <<ctxDone, results, reserved, mctx, capped, stream, bodies, failed, total,
                 endedBy>>

\* A stream past the barrier.
Release(s) ==
  /\ sampler = "read"
  /\ stream[s] = "ready"
  /\ stream' = [stream EXCEPT ![s] = IF s \notin bodies THEN "gone"
                                     ELSE IF abort THEN "closing" ELSE "reading"]
  /\ UNCHANGED <<ctxDone, sampler, results, reserved, mctx, capped, abort, bodies, failed, total, endedBy>>

\* One Body.Read that moved bytes: the loop goes on, or stops at the allowance, at the
\* end of the body, or past the cap.
Stops(s) ==
  IF total[s] + 1 = StreamBytes THEN {"allowance"}
  ELSE {"eof"} \cup (IF capped THEN {"ownCap"} ELSE {"none"})

Read(s, up) ==
  /\ sampler = "read" /\ stream[s] = "reading" /\ up
  /\ total' = [total EXCEPT ![s] = @ + 1]
  /\ \E why \in Stops(s) :
       /\ endedBy' = [endedBy EXCEPT ![s] = why]
       /\ stream' = [stream EXCEPT ![s] = IF why = "none" THEN "reading" ELSE "closing"]
  /\ UNCHANGED <<ctxDone, sampler, results, reserved, mctx, capped, abort, bodies, failed>>

\* The body ends with nothing more read.
ReadNothing(s) ==
  /\ sampler = "read"
  /\ Goto(s, "reading", "closing")
  /\ endedBy' = [endedBy EXCEPT ![s] = "eof"]
  /\ UNCHANGED <<ctxDone, sampler, results, reserved, mctx, capped, abort, bodies, failed, total>>

\* A read fails. The measurement's own cap is the designed stop, while the probe's
\* context stands; anything else is an error.
AnyDeadline  == mctx # "live"
DesignedStop == mctx = "ownCap" /\ ~ ctxDone

ReadFails(s) ==
  /\ sampler = "read"
  /\ Goto(s, "reading", "closing")
  /\ \/ DesignedStop /\ endedBy' = [endedBy EXCEPT ![s] = mctx] /\ UNCHANGED failed
     \/ endedBy' = [endedBy EXCEPT ![s] = "error"] /\ failed' = failed \cup {s}
  /\ UNCHANGED <<ctxDone, sampler, results, reserved, mctx, capped, abort, bodies, total>>

\* The deferred Body.Close and done.Done.
CloseBody(s) == Goto(s, "closing", "gone") /\ bodies' = bodies \ {s}

EndStream(s) ==
  /\ CloseBody(s)
  /\ UNCHANGED <<ctxDone, sampler, results, reserved, mctx, capped, abort, failed, total,
                 endedBy>>

--------------------------------------------------------------------------------
\* The sum of the streams' bytes, as the number of their reads.
BytesRead  == UNION {{s} \X (1..total[s]) : s \in Streams}
TotalBytes == Cardinality(BytesRead)

\* done.Wait: one failed stream fails the measurement, and one that moved nothing,
\* or (at any time) took no measurable time, is none.
JudgeSample ==
  /\ sampler = "read"
  /\ \A s \in Streams : stream[s] = "gone"
  /\ \/ Record("measureError")
     \/ failed = {} /\ TotalBytes > 0 /\ sampler' = "submit" /\ UNCHANGED results
  /\ UNCHANGED <<ctxDone, reserved, measureVars>>

SubmitFigure ==
  /\ sampler = "submit"
  /\ \E outcome \in {"measured", "submitError"} :
       (outcome = "measured" => ~ ctxDone) /\ Record(outcome)
  /\ UNCHANGED <<ctxDone, reserved, measureVars>>

--------------------------------------------------------------------------------
\* The time cap passes; the measurement's context ends with it, unless the probe's
\* did before.
TimeOut ==
  /\ Measuring /\ ~ capped
  /\ capped' = TRUE
  /\ mctx' = IF mctx = "live" THEN "ownCap" ELSE mctx
  /\ UNCHANGED <<ctxDone, sampler, results, reserved, abort, stream, bodies, failed, total, endedBy>>

\* The probe's context ends, and the measurement's with it.
CancelSample ==
  /\ ~ ctxDone
  /\ ctxDone' = TRUE
  /\ mctx' = IF mctx = "live" THEN "caller" ELSE mctx
  /\ UNCHANGED <<sampler, results, reserved, capped, abort, stream, bodies, failed, total, endedBy>>

SampleInit ==
  /\ ctxDone = FALSE /\ sampler = "idle" /\ results = <<>> /\ reserved = 0
  /\ mctx = "live" /\ capped = FALSE /\ abort = FALSE
  /\ stream = [s \in Streams |-> "none"]
  /\ bodies = {} /\ failed = {}
  /\ total = [s \in Streams |-> 0]
  /\ endedBy = [s \in Streams |-> "none"]

\* What Sample and its streams do; TimeOut and CancelSample come from outside.
SampleStep(up) ==
  \/ CheckTime \/ ReserveFails \/ Reserve \/ FireGun \/ JudgeSample \/ SubmitFigure
  \/ \E s \in Streams :
       OpenStream(s, up) \/ Release(s) \/ Read(s, up) \/ ReadNothing(s) \/ ReadFails(s) \/ EndStream(s)

--------------------------------------------------------------------------------
\* Every variable of the sample keeps its type.
SampleTypeOK ==
  /\ ctxDone \in BOOLEAN
  /\ sampler \in SamplerStages
  /\ results \in Seq(Outcomes) /\ Len(results) <= Targets
  /\ reserved \in 0..(Targets * MaxSampleBytes)
  /\ mctx \in {"live", "ownCap", "caller"}
  /\ capped \in BOOLEAN /\ abort \in BOOLEAN
  /\ stream \in [Streams -> StreamStages]
  /\ bodies \subseteq Streams /\ failed \subseteq Streams
  /\ total \in [Streams -> 0..StreamBytes]
  /\ endedBy \in [Streams -> Endings]

\* A figure describes the provider's link or is not one: every stream of it ran from
\* the barrier to the end of its body, its allowance or the measurement's own cap --
\* none was cut by the link, or by the probe's context -- and together they moved
\* something, and no more than was reserved (bandwidth.go:542-556, 615-626).
SampleIsHonest ==
  sampler = "submit" =>
    /\ \A s \in Streams : endedBy[s] \in {"eof", "allowance", "ownCap"}
    /\ TotalBytes \in 1..MaxSampleBytes
================================================================================
