------------------------------- MODULE ProbePass -------------------------------
(***************************************************************************)
(* Passes of full probes: Scheduler.Run (prober/schedule.go) launching     *)
(* Prober.ProbeOne (prober/prober.go) over the tunnels and the registry    *)
(* that NewFullProber wires (fleetprobe/full.go).                          *)
(*                                                                         *)
(* Run's loop is one process and every probe another; a pass may be        *)
(* cancelled at any moment. A batch is whatever the server sent,           *)
(* duplicates included, so probes are named by their place in it. The      *)
(* server is what the submitters tell it; any of their calls may fail, and *)
(* a call that failed may still have been carried out.                     *)
(***************************************************************************)
EXTENDS Integers, Sequences, FiniteSets

CONSTANTS
  Providers,     \* provider client ids
  MaxBatch,      \* bound: providers per batch
  Concurrencies, \* the Scheduler.Concurrency passes may have
  CacheTtl,      \* Scheduler.CacheTtl
  MaxPasses,     \* bound: passes
  MaxNow         \* bound: the scheduler's clock

ASSUME PassAssumption ==
  /\ IsFiniteSet(Providers)
  /\ {MaxBatch, MaxPasses} \cup Concurrencies \subseteq Nat \ {0}
  /\ {CacheTtl, MaxNow} \subseteq Nat

Slots == 1..MaxBatch
Never == -1

VARIABLES
  concurrency, \* Scheduler.Concurrency
  now,        \* Scheduler.now
  passes,     \* passes started
  cancelled,  \* the pass's context is done
  probed,     \* Scheduler.probed: when each provider was last probed, or Never
  batch,      \* the pass's providers
  at,         \* the loop's index
  loop,       \* where Run is
  seen,       \* Run's duplicates filter
  sem,        \* tokens in the semaphore
  wg,         \* the wait group's counter
  sum,        \* the pass's Summary
  probe,      \* place -> where its probe is
  failure,    \* place -> failure class so far; "ok" while there is none
  exitIp,     \* places whose run saw an exit address
  tunnels,    \* places with a tunnel open
  registry,   \* places in the probe registry
  located,    \* places whose exit the server stored
  reports,    \* place -> the attempt the server recorded; "none" before the call,
              \* "lost" when it failed and recorded nothing
  succeeded,  \* history: provider -> when a probe of it last succeeded
  late        \* history: places launched though the pass's context was done

passVars   == <<batch, at, loop, seen, sem, wg, sum>>
probeVars  == <<probe, failure, exitIp>>
tunnelVars == <<tunnels, registry>>
serverVars == <<located, reports>>
vars == <<concurrency, now, passes, cancelled, probed, passVars, probeVars, tunnelVars, serverVars,
          succeeded, late>>

Failures == {"tunnel_failed", "health_not_run", "run_not_measured", "no_exit_ip", "submit_failed"}
Stages   == {"none", "attempt", "open", "health", "submitHealth", "submit", "bandwidth",
             "close", "report", "tally", "mark", "release", "leave", "done"}
NoSummary == [attempted |-> 0, submitted |-> 0, failed |-> 0, skipped |-> 0, notMeasured |-> 0]

--------------------------------------------------------------------------------
\* recentlyProbed and prune, on either side of the same age. Here and below, a
\* definition that nothing uses states a plausible mistake in the one after it.
Fresh(id)      == probed[id] # Never /\ now - probed[id] < CacheTtl
EvictYoung(id) == now - probed[id] < CacheTtl
Evicted(id)    == probed[id] # Never /\ CacheTtl <= now - probed[id]
Pruned         == [id \in Providers |-> IF Evicted(id) THEN Never ELSE probed[id]]

\* Run's opening, on whatever batch came.
StartPass ==
  /\ loop = "idle" /\ passes < MaxPasses
  /\ passes' = passes + 1
  /\ probed' = Pruned
  /\ \E n \in Slots : batch' \in [1..n -> Providers]
  /\ loop' = "loop" /\ at' = 1 /\ seen' = {} /\ sem' = 0 /\ wg' = 0 /\ sum' = NoSummary
  /\ cancelled' = FALSE
  /\ probe' = [k \in Slots |-> "none"] /\ failure' = [k \in Slots |-> "ok"] /\ exitIp' = {}
  /\ located' = {} /\ reports' = [k \in Slots |-> "none"]
  /\ late' = {}
  /\ UNCHANGED <<concurrency, now, tunnelVars, succeeded>>

--------------------------------------------------------------------------------
\* What one turn of Run's loop finds, in its order.
SeenInAnyBatch == {}
SeenBefore     == seen
Duplicate      == at <= Len(batch) /\ batch[at] \in SeenBefore
GiveUp         == cancelled

Skip(n) == sum' = [sum EXCEPT !.skipped = @ + n]
StayAt(to) == loop' = to /\ UNCHANGED at
Advance == loop' = "loop" /\ at' = at + 1

SkipDuplicate ==
  /\ loop = "loop" /\ Duplicate
  /\ Skip(1)
  /\ Advance
  /\ UNCHANGED <<concurrency, now, passes, cancelled, probed, batch, seen, sem, wg, probeVars,
                 tunnelVars, serverVars, succeeded, late>>

\* A dead context skips everything that is left, this provider included.
StopPass ==
  /\ \/ loop = "loop" /\ at <= Len(batch) /\ ~ Duplicate /\ GiveUp
     \/ loop = "select" /\ cancelled
  /\ seen' = seen \cup {batch[at]}
  /\ Skip(Len(batch) - at + 1)
  /\ StayAt("wait")
  /\ UNCHANGED <<concurrency, now, passes, cancelled, probed, batch, sem, wg, probeVars,
                 tunnelVars, serverVars, succeeded, late>>

SkipFresh ==
  /\ loop = "loop" /\ at <= Len(batch) /\ ~ Duplicate /\ ~ GiveUp
  /\ Fresh(batch[at])
  /\ seen' = seen \cup {batch[at]}
  /\ Skip(1)
  /\ Advance
  /\ UNCHANGED <<concurrency, now, passes, cancelled, probed, batch, sem, wg, probeVars,
                 tunnelVars, serverVars, succeeded, late>>

AskForSlot ==
  /\ loop = "loop" /\ at <= Len(batch) /\ ~ Duplicate /\ ~ GiveUp
  /\ ~ Fresh(batch[at])
  /\ seen' = seen \cup {batch[at]}
  /\ StayAt("select")
  /\ UNCHANGED <<concurrency, now, passes, cancelled, probed, batch, sem, wg, sum, probeVars,
                 tunnelVars, serverVars, succeeded, late>>

\* The semaphore has room: the probe is a goroutine of its own from here. select
\* may choose this though the context is done as well.
Room        == sem < concurrency

Launch ==
  /\ loop = "select"
  /\ Room
  /\ sem' = sem + 1
  /\ wg' = wg + 1
  /\ probe' = [probe EXCEPT ![at] = "attempt"]
  /\ late' = IF cancelled THEN late \cup {at} ELSE late
  /\ Advance
  /\ UNCHANGED <<concurrency, now, passes, cancelled, probed, batch, seen, sum, failure, exitIp,
                 tunnelVars, serverVars, succeeded>>

EndOfBatch ==
  /\ loop = "loop" /\ at > Len(batch)
  /\ StayAt("wait")
  /\ UNCHANGED <<concurrency, now, passes, cancelled, probed, batch, seen, sem, wg, sum,
                 probeVars, tunnelVars, serverVars, succeeded, late>>

\* wg.Wait; the Summary is returned.
AllDone    == wg = 0
EndPass ==
  /\ loop = "wait" /\ AllDone
  /\ StayAt("idle")
  /\ UNCHANGED <<concurrency, now, passes, cancelled, probed, batch, seen, sem, wg, sum,
                 probeVars, tunnelVars, serverVars, succeeded, late>>

Run == SkipDuplicate \/ StopPass \/ SkipFresh \/ AskForSlot \/ Launch \/ EndOfBatch \/ EndPass

--------------------------------------------------------------------------------
Go(k, from, to) == probe[k] = from /\ probe' = [probe EXCEPT ![k] = to]

Fail(k, from, to, class) ==
  /\ Go(k, from, to)
  /\ failure' = [failure EXCEPT ![k] = class]

CountAttempt(k) ==
  /\ Go(k, "attempt", "open")
  /\ sum' = [sum EXCEPT !.attempted = @ + 1]
  /\ UNCHANGED <<concurrency, now, passes, cancelled, probed, batch, at, loop, seen, sem, wg,
                 failure, exitIp, tunnelVars, serverVars, succeeded, late>>

\* Open, and what NewFullProber does about it: the probe is registered under the
\* client of its tunnel.
Open(k) ==
  /\ \/ /\ Go(k, "open", "health")
        /\ tunnels' = tunnels \cup {k}
        /\ registry' = registry \cup {k}
        /\ UNCHANGED failure
     \/ Fail(k, "open", "report", "tunnel_failed") /\ UNCHANGED tunnelVars
  /\ UNCHANGED <<concurrency, now, passes, cancelled, probed, passVars, exitIp, serverVars,
                 succeeded, late>>

\* checkEgressHealth up to its verdict. A run the context ended under is an error
\* of Check's.
Health(k) ==
  /\ \/ /\ Fail(k, "health", "close", "health_not_run")
        /\ UNCHANGED exitIp
     \/ /\ ~ cancelled
        /\ Fail(k, "health", "close", "run_not_measured")
        /\ UNCHANGED exitIp
     \/ /\ ~ cancelled
        /\ Go(k, "health", "submitHealth")
        /\ exitIp' \in {exitIp, exitIp \cup {k}}
        /\ UNCHANGED failure
  /\ UNCHANGED <<concurrency, now, passes, cancelled, probed, passVars, tunnelVars, serverVars,
                 succeeded, late>>

\* reportEgressHealth fails nothing and its submission is not followed up; without
\* an exit there is nothing more to send.
SubmitHealth(k) ==
  /\ \/ k \in exitIp /\ Go(k, "submitHealth", "submit") /\ UNCHANGED failure
     \/ k \notin exitIp /\ Fail(k, "submitHealth", "close", "no_exit_ip")
  /\ UNCHANGED <<concurrency, now, passes, cancelled, probed, passVars, exitIp, tunnelVars,
                 serverVars, succeeded, late>>

\* The submitter fails, with or without the server having stored the exit.
SubmitExit(k) ==
  \/ /\ located' = located \cup {k}
     /\ Go(k, "submit", "bandwidth")
     /\ UNCHANGED failure
  \/ /\ located' \in {located, located \cup {k}}
     /\ Fail(k, "submit", "close", "submit_failed")

Submit(k) ==
  /\ SubmitExit(k)
  /\ UNCHANGED <<concurrency, now, passes, cancelled, probed, passVars, exitIp, tunnelVars,
                 reports, succeeded, late>>

\* The bandwidth sample, which changes nothing here.
Bandwidth(k) ==
  /\ Go(k, "bandwidth", "close")
  /\ UNCHANGED <<concurrency, now, passes, cancelled, probed, passVars, failure, exitIp,
                 tunnelVars, serverVars, succeeded, late>>

\* The deferred closeTunnel: forgotten first, then closed.
CloseOnSuccess(k) ==
  /\ tunnels' = IF failure[k] = "ok" THEN tunnels \ {k} ELSE tunnels
  /\ registry' = registry \ {k}
CloseTunnel(k) ==
  /\ tunnels' = tunnels \ {k}
  /\ registry' = registry \ {k}

Close(k) ==
  /\ Go(k, "close", "report")
  /\ CloseTunnel(k)
  /\ UNCHANGED <<concurrency, now, passes, cancelled, probed, passVars, failure, exitIp,
                 serverVars, succeeded, late>>

\* ReportAttempt goes out on the probe's context, so once that is done it records
\* nothing; and any call may fail, which is only logged.
ReportOf(k, class) ==
  \/ reports' = [reports EXCEPT ![k] = "lost"]
  \/ ~ cancelled /\ reports' = [reports EXCEPT ![k] = class]

\* reportAttempt, whatever happened.
ReportSuccess(k) == IF failure[k] = "ok" THEN ReportOf(k, "ok") ELSE UNCHANGED reports
ReportAttempt(k) == ReportOf(k, failure[k])

Report(k) ==
  /\ Go(k, "report", "tally")
  /\ ReportAttempt(k)
  /\ UNCHANGED <<concurrency, now, passes, cancelled, probed, passVars, failure, exitIp,
                 tunnelVars, located, succeeded, late>>

\* The tallies, in one locked scope.
Counted(k) ==
  IF failure[k] = "ok" THEN [sum EXCEPT !.submitted = @ + 1]
  ELSE [sum EXCEPT !.failed = @ + 1,
                   !.notMeasured = IF failure[k] = "run_not_measured" THEN @ + 1 ELSE @]

Tally(k) ==
  /\ Go(k, "tally", IF failure[k] = "ok" THEN "mark" ELSE "release")
  /\ sum' = Counted(k)
  /\ succeeded' = IF failure[k] = "ok" THEN [succeeded EXCEPT ![batch[k]] = now] ELSE succeeded
  /\ UNCHANGED <<concurrency, now, passes, cancelled, probed, batch, at, loop, seen, sem, wg,
                 failure, exitIp, tunnelVars, serverVars, late>>

MarkProbed(k) ==
  /\ Go(k, "mark", "release")
  /\ probed' = [probed EXCEPT ![batch[k]] = now]
  /\ UNCHANGED <<concurrency, now, passes, cancelled, passVars, failure, exitIp, tunnelVars,
                 serverVars, succeeded, late>>

\* The deferred receive and wg.Done.
KeepToken   == UNCHANGED sem
ReturnToken == sem' = sem - 1

Release(k) ==
  /\ Go(k, "release", "leave")
  /\ ReturnToken
  /\ UNCHANGED <<concurrency, now, passes, cancelled, probed, batch, at, loop, seen, wg, sum,
                 failure, exitIp, tunnelVars, serverVars, succeeded, late>>

Leave(k) ==
  /\ Go(k, "leave", "done")
  /\ wg' = wg - 1
  /\ UNCHANGED <<concurrency, now, passes, cancelled, probed, batch, at, loop, seen, sem, sum,
                 failure, exitIp, tunnelVars, serverVars, succeeded, late>>

ProbeOne(k) ==
  \/ CountAttempt(k) \/ Open(k) \/ Health(k) \/ SubmitHealth(k) \/ Submit(k) \/ Bandwidth(k)
  \/ Close(k) \/ Report(k) \/ Tally(k) \/ MarkProbed(k) \/ Release(k) \/ Leave(k)

--------------------------------------------------------------------------------
Cancel ==
  /\ loop # "idle" /\ ~ cancelled
  /\ cancelled' = TRUE
  /\ UNCHANGED <<concurrency, now, passes, probed, passVars, probeVars, tunnelVars, serverVars,
                 succeeded, late>>

Tick ==
  /\ now < MaxNow
  /\ now' = now + 1
  /\ UNCHANGED <<concurrency, passes, cancelled, probed, passVars, probeVars, tunnelVars,
                 serverVars, succeeded, late>>

Init ==
  /\ concurrency \in Concurrencies
  /\ now = 0 /\ passes = 0 /\ cancelled = FALSE
  /\ probed = [id \in Providers |-> Never]
  /\ batch = <<>> /\ at = 1 /\ loop = "idle" /\ seen = {} /\ sem = 0 /\ wg = 0
  /\ sum = NoSummary
  /\ probe = [k \in Slots |-> "none"] /\ failure = [k \in Slots |-> "ok"] /\ exitIp = {}
  /\ tunnels = {} /\ registry = {}
  /\ located = {} /\ reports = [k \in Slots |-> "none"]
  /\ succeeded = [id \in Providers |-> Never] /\ late = {}

Next == StartPass \/ Run \/ (\E k \in Slots : ProbeOne(k)) \/ Cancel \/ Tick

Spec == Init /\ [][Next]_vars

\* Some goroutine of the pass that can move does: every call of a probe is bounded
\* by a timeout.
FairSpec == Spec /\ WF_vars(Run \/ \E k \in Slots : ProbeOne(k))

--------------------------------------------------------------------------------
\* Every variable keeps its type.
TypeOK ==
  /\ now \in 0..MaxNow /\ passes \in 0..MaxPasses /\ cancelled \in BOOLEAN
  /\ probed \in [Providers -> 0..MaxNow \cup {Never}]
  /\ batch \in Seq(Providers) /\ Len(batch) <= MaxBatch
  /\ at \in 1..(MaxBatch + 1)
  /\ loop \in {"idle", "loop", "select", "wait"}
  /\ seen \subseteq Providers
  /\ concurrency \in Concurrencies /\ sem \in 0..concurrency /\ wg \in 0..MaxBatch
  /\ \A f \in DOMAIN NoSummary : sum[f] \in 0..MaxBatch
  /\ probe \in [Slots -> Stages]
  /\ failure \in [Slots -> Failures \cup {"ok"}]
  /\ {exitIp, tunnels, registry, located, late} \subseteq SUBSET Slots
  /\ reports \in [Slots -> Failures \cup {"ok", "lost", "none"}]
  /\ succeeded \in [Providers -> 0..MaxNow \cup {Never}]

Returned == loop = "idle" /\ passes > 0

\* No provider ever has two tunnels of a pass, though the server may list it twice
\* (schedule.go:144-148).
OneTunnelPerProvider ==
  \A j, k \in tunnels : batch[j] = batch[k] => j = k

\* A returned pass holds nothing -- no tunnel, no registry entry, no slot -- and its
\* tallies account for every provider of its batch, probed, skipped or cut off. Of
\* what is left of a batch when the pass is cut one provider at most is still
\* probed: the one whose turn of the loop had asked for its slot before
\* (schedule.go:160-172).
PassLeavesNothing ==
  Returned =>
    /\ tunnels = {} /\ registry = {} /\ sem = 0
    /\ sum.attempted + sum.skipped = Len(batch)
    /\ sum.submitted + sum.failed = sum.attempted
    /\ \A j, k \in late : j = k

\* The report of every probe made is sent, failed ones included, and only when its
\* tunnel is closed: in the probe's class, as a success only with its exit stored.
\* The server has no record only of a probe whose call failed, or came after the
\* pass was cut; that provider stays at the head of the due queue, as the log of
\* prober.go:452 says, and no way out of a probe forgets one (prober.go:260-269).
EveryAttemptIsReported ==
  \A k \in Slots :
    IF probe[k] \in {"tally", "mark", "release", "leave", "done"}
    THEN /\ k \notin tunnels
         /\ reports[k] \in {failure[k], "lost"}
         /\ reports[k] = "ok" => k \in located
    ELSE reports[k] = "none"

\* A provider that was probed with success within CacheTtl is not probed again,
\* and pruning never forgets one that young.
CacheHolds ==
  [][\A k \in Slots :
       probe[k] = "none" /\ probe'[k] = "attempt" /\ passes' = passes =>
         \/ succeeded[batch[k]] = Never
         \/ now - succeeded[batch[k]] >= CacheTtl]_vars

\* Every pass that starts returns.
PassReturns == loop # "idle" ~> loop = "idle"
================================================================================
