----------------------------- MODULE BlackholePool -----------------------------
(***************************************************************************)
(* Batches of blackhole checks over one worker pool: RunBlackhole          *)
(* (fleetprobe/blackhole.go) and BlackholeWorkerPool                       *)
(* (fleetprobe/blackhole_worker_pool.go).                                  *)
(*                                                                         *)
(* Each batch is a process that hands its providers, in order, to workers  *)
(* over an unbuffered channel, then joins what was accepted. A batch's     *)
(* context, its admission (either of the two edges) and the pool may each  *)
(* end at any moment; the first MinimumAdmission providers are handed over *)
(* whatever admission says. A check itself is one external call.           *)
(***************************************************************************)
EXTENDS Integers, FiniteSets

CONSTANTS
  Batches,            \* the RunBlackhole calls sharing the pool
  Workers,            \* the pool's goroutines
  ProviderCount,      \* providers per batch
  MinimumAdmission    \* BlackholeOptions.MinimumAdmission

ASSUME PoolAssumption ==
  /\ IsFiniteSet(Batches) /\ IsFiniteSet(Workers) /\ Workers # {}
  /\ ProviderCount \in Nat \ {0}
  /\ MinimumAdmission \in Nat

VARIABLES
  ctxDone,        \* batches whose context is done
  admissionDone,  \* batches for which an admission edge is closed
  poolDone,       \* the pool's context is done
  closed,         \* CloseAndWait has returned
  stage,          \* batch -> where RunBlackhole is
  index,          \* batch -> the provider it is at
  wg,             \* batch -> its waitGroup's counter
  progress,       \* batch -> provider -> last event observed
  results,        \* batch -> provider -> what results holds
  err,            \* batch -> the error returned
  worker,         \* worker -> where it is
  job,            \* worker -> the <<batch, provider>> it accepted
  late            \* history: checks that ended after their context did

batchVars  == <<stage, index, wg, err>>
checkVars  == <<progress, results, late>>
workerVars == <<worker, job>>
vars == <<ctxDone, admissionDone, poolDone, closed, batchVars, checkVars, workerVars>>

Providers == 1..ProviderCount
Jobs      == Batches \X Providers
NoJob     == <<>>

BatchStages  == {"loop", "submit", "select", "join", "summary", "returned"}
WorkerStages == {"loop", "select", "job", "checking", "recording", "done", "gone"}

--------------------------------------------------------------------------------
Move(b, to)  == stage' = [stage EXCEPT ![b] = to]
Become(w, s) == worker' = [worker EXCEPT ![w] = s]

\* Admission does not stop the first MinimumAdmission providers. Here and below, a
\* definition that nothing uses states a plausible mistake in the one after it.
NeverReserved(b, i)  == b \notin Batches /\ i \in Providers
Reserved(b, i)       == b \in Batches /\ i <= MinimumAdmission
Stopped(b, i)        == b \in admissionDone /\ ~ Reserved(b, i)

PastTheEnd(b)    == index[b] > ProviderCount

\* RunBlackhole, the head of its loop.
StopLoop(b) ==
  /\ stage[b] = "loop"
  /\ PastTheEnd(b) \/ b \in ctxDone \/ Stopped(b, index[b])
  /\ Move(b, "join")
  /\ UNCHANGED <<ctxDone, admissionDone, poolDone, closed, index, wg, err, checkVars,
                 workerVars>>

AddJob(b) ==
  /\ stage[b] = "loop"
  /\ ~ PastTheEnd(b) /\ b \notin ctxDone /\ ~ Stopped(b, index[b])
  /\ wg' = [wg EXCEPT ![b] = @ + 1]
  /\ Move(b, "submit")
  /\ UNCHANGED <<ctxDone, admissionDone, poolDone, closed, index, err, checkVars, workerVars>>

\* submit: what refuses a job, before its select and in it.
Refused(b) == b \in ctxDone \/ poolDone \/ Stopped(b, index[b])

\* The refused job's wait-group entry is given back.
KeepEntry(b)   == UNCHANGED wg
ReturnEntry(b) == wg' = [wg EXCEPT ![b] = @ - 1]

Refuse(b) ==
  /\ stage[b] \in {"submit", "select"}
  /\ Refused(b)
  /\ ReturnEntry(b)
  /\ Move(b, "join")
  /\ UNCHANGED <<ctxDone, admissionDone, poolDone, closed, index, err, checkVars, workerVars>>

EnterSelect(b) ==
  /\ stage[b] = "submit"
  /\ ~ Refused(b)
  /\ Move(b, "select")
  /\ UNCHANGED <<ctxDone, admissionDone, poolDone, closed, index, wg, err, checkVars,
                 workerVars>>

\* jobs <- job meets a worker's receive; select may choose it though a refusal
\* became ready at the same time.
Accept(b, w) ==
  /\ stage[b] = "select"
  /\ worker[w] = "select"
  /\ Become(w, "job")
  /\ job' = [job EXCEPT ![w] = <<b, index[b]>>]
  /\ index' = [index EXCEPT ![b] = @ + 1]
  /\ Move(b, "loop")
  /\ UNCHANGED <<ctxDone, admissionDone, poolDone, closed, wg, err, checkVars>>

\* waitGroup.Wait.
ReadAtOnce(b) == stage[b] = "join"
Joined(b)     == stage[b] = "join" /\ wg[b] = 0

Join(b) ==
  /\ Joined(b)
  /\ Move(b, "summary")
  /\ UNCHANGED <<ctxDone, admissionDone, poolDone, closed, index, wg, err, checkVars,
                 workerVars>>

\* The summary is built from results; a pool that died under a live context is
\* an error.
PoolFailureUnseen(b) == b \notin Batches
PoolFailed(b)        == poolDone /\ b \notin ctxDone

Return(b) ==
  /\ stage[b] = "summary"
  /\ err' = [err EXCEPT ![b] = IF PoolFailed(b) THEN "pool closed" ELSE "nil"]
  /\ Move(b, "returned")
  /\ UNCHANGED <<ctxDone, admissionDone, poolDone, closed, index, wg, checkVars, workerVars>>

--------------------------------------------------------------------------------
\* A pool worker between jobs.
Loop(w) ==
  /\ worker[w] = "loop"
  /\ Become(w, IF poolDone THEN "gone" ELSE "select")
  /\ UNCHANGED <<ctxDone, admissionDone, poolDone, closed, batchVars, checkVars, job>>

Leave(w) ==
  /\ worker[w] = "select"
  /\ poolDone
  /\ Become(w, "gone")
  /\ UNCHANGED <<ctxDone, admissionDone, poolDone, closed, batchVars, checkVars, job>>

\* The job checks again before it opens a tunnel: both boundaries may have been
\* crossed while it was handed over.
CutOff(b, i) == b \in ctxDone \/ Stopped(b, i)

SkipJob(w) ==
  /\ worker[w] = "job"
  /\ CutOff(job[w][1], job[w][2])
  /\ Become(w, "done")
  /\ UNCHANGED <<ctxDone, admissionDone, poolDone, closed, batchVars, checkVars, job>>

StartCheck(w) ==
  LET b == job[w][1]
      i == job[w][2]
  IN
  /\ worker[w] = "job"
  /\ ~ CutOff(b, i)
  /\ progress' = [progress EXCEPT ![b][i] = "started"]
  /\ Become(w, "checking")
  /\ UNCHANGED <<ctxDone, admissionDone, poolDone, closed, batchVars, results, late, job>>

\* checkOne returns.
CheckReturns(w) ==
  /\ worker[w] = "checking"
  /\ Become(w, "recording")
  /\ late' = IF job[w][1] \in ctxDone THEN late \cup {job[w]} ELSE late
  /\ UNCHANGED <<ctxDone, admissionDone, poolDone, closed, batchVars, progress, results, job>>

\* The result is kept unless the context ended first; one without a client id is
\* left out of the summary.
KeepAnyway(w) ==
  LET b == job[w][1]
      i == job[w][2]
  IN \E kept \in {"completed", "discarded"} :
       /\ results' = [results EXCEPT ![b][i] = kept]
       /\ progress' = [progress EXCEPT ![b][i] = kept]
KeepUnlessCanceled(w) ==
  LET b == job[w][1]
      i == job[w][2]
  IN \/ /\ b \in ctxDone
        /\ progress' = [progress EXCEPT ![b][i] = "canceled"]
        /\ UNCHANGED results
     \/ /\ b \notin ctxDone
        /\ \E kept \in {"completed", "discarded"} :
             /\ results' = [results EXCEPT ![b][i] = kept]
             /\ progress' = [progress EXCEPT ![b][i] = kept]

Record(w) ==
  /\ worker[w] = "recording"
  /\ KeepUnlessCanceled(w)
  /\ Become(w, "done")
  /\ UNCHANGED <<ctxDone, admissionDone, poolDone, closed, batchVars, late, job>>

\* The deferred waitGroup.Done.
FinishJob(w) ==
  /\ worker[w] = "done"
  /\ wg' = [wg EXCEPT ![job[w][1]] = @ - 1]
  /\ job' = [job EXCEPT ![w] = NoJob]
  /\ Become(w, "loop")
  /\ UNCHANGED <<ctxDone, admissionDone, poolDone, closed, stage, index, err, checkVars>>

--------------------------------------------------------------------------------
\* The caller gives up on a batch, or its admission closes.
Cancel(b) ==
  /\ b \notin ctxDone
  /\ ctxDone' = ctxDone \cup {b}
  /\ UNCHANGED <<admissionDone, poolDone, closed, batchVars, checkVars, workerVars>>

CloseAdmission(b) ==
  /\ b \notin admissionDone
  /\ admissionDone' = admissionDone \cup {b}
  /\ UNCHANGED <<ctxDone, poolDone, closed, batchVars, checkVars, workerVars>>

\* The context the pool was made with ends, under batches still running or not.
PoolContextEnds ==
  /\ ~ poolDone
  /\ poolDone' = TRUE
  /\ UNCHANGED <<ctxDone, admissionDone, closed, batchVars, checkVars, workerVars>>

\* CloseAndWait by the pool's owner, once its batches have joined (RunBlackhole's
\* own defer when it made the pool).
ClosePool ==
  /\ \A b \in Batches : stage[b] = "returned"
  /\ ~ poolDone
  /\ poolDone' = TRUE
  /\ UNCHANGED <<ctxDone, admissionDone, closed, batchVars, checkVars, workerVars>>

PoolClosed ==
  /\ ~ closed /\ poolDone
  /\ \A b \in Batches : stage[b] = "returned"
  /\ \A w \in Workers : worker[w] = "gone"
  /\ closed' = TRUE
  /\ UNCHANGED <<ctxDone, admissionDone, poolDone, batchVars, checkVars, workerVars>>

Init ==
  /\ ctxDone = {} /\ admissionDone = {} /\ poolDone = FALSE /\ closed = FALSE
  /\ stage = [b \in Batches |-> "loop"]
  /\ index = [b \in Batches |-> 1]
  /\ wg = [b \in Batches |-> 0]
  /\ err = [b \in Batches |-> "none"]
  /\ progress = [b \in Batches |-> [i \in Providers |-> "none"]]
  /\ results = [b \in Batches |-> [i \in Providers |-> "none"]]
  /\ worker = [w \in Workers |-> "loop"]
  /\ job = [w \in Workers |-> NoJob]
  /\ late = {}

BatchStep(b) ==
  \/ StopLoop(b) \/ AddJob(b) \/ Refuse(b) \/ EnterSelect(b) \/ Join(b) \/ Return(b)
  \/ \E w \in Workers : Accept(b, w)

WorkerStep(w) ==
  Loop(w) \/ Leave(w) \/ SkipJob(w) \/ StartCheck(w) \/ CheckReturns(w) \/ Record(w) \/ FinishJob(w)

Next ==
  \/ \E b \in Batches : BatchStep(b) \/ Cancel(b) \/ CloseAdmission(b)
  \/ \E w \in Workers : WorkerStep(w)
  \/ PoolContextEnds \/ ClosePool \/ PoolClosed

Spec == Init /\ [][Next]_vars

\* Goroutines are scheduled and a check is bounded by its own timeouts; the owner
\* closes its pool. Nothing has to be cancelled.
FairSpec ==
  /\ Spec
  /\ \A b \in Batches : WF_vars(BatchStep(b))
  /\ \A w \in Workers : WF_vars(WorkerStep(w))
  /\ WF_vars(ClosePool \/ PoolClosed)

--------------------------------------------------------------------------------
\* Every variable keeps its type.
TypeOK ==
  /\ ctxDone \in SUBSET Batches /\ admissionDone \in SUBSET Batches
  /\ poolDone \in BOOLEAN /\ closed \in BOOLEAN
  /\ stage \in [Batches -> BatchStages]
  /\ index \in [Batches -> 1..(ProviderCount + 1)]
  /\ wg \in [Batches -> Int]
  /\ err \in [Batches -> {"none", "nil", "pool closed"}]
  /\ progress \in [Batches -> [Providers ->
                    {"none", "started", "completed", "discarded", "canceled"}]]
  /\ results \in [Batches -> [Providers -> {"none", "completed", "discarded"}]]
  /\ worker \in [Workers -> WorkerStages]
  /\ job \in [Workers -> Jobs \cup {NoJob}]
  /\ late \in SUBSET Jobs

Busy(w) == worker[w] \in {"job", "checking", "recording", "done"}

\* The wait group counts exactly the jobs workers hold and the one being handed
\* over, so RunBlackhole never reads results a worker may still write, and never
\* waits for a job nobody has -- though accepting and refusing race.
EntriesMatchJobs ==
  \A b \in Batches :
    wg[b] = Cardinality({w \in Workers : Busy(w) /\ job[w][1] = b})
            + (IF stage[b] \in {"submit", "select"} THEN 1 ELSE 0)

\* Once RunBlackhole has read its results no check of it runs or is observed any
\* more: every start was followed by its end (blackhole.go:79, "callbacks finish
\* before RunBlackhole returns").
NothingOutlivesTheBatch ==
  \A b \in Batches : stage[b] \in {"summary", "returned"} =>
    /\ \A w \in Workers : Busy(w) => job[w][1] # b
    /\ \A i \in Providers : progress[b][i] # "started"

\* A check that ended after its batch was cancelled is never a verdict on its
\* provider.
CanceledIsNoVerdict ==
  \A c \in late : results[c[1]][c[2]] = "none"

\* The reserved checks were made in every batch that returns without error and
\* was not cancelled, though admission closed before the first of them
\* (blackhole.go:65-66).
ReservedChecksAreMade ==
  \A b \in Batches : err[b] = "nil" /\ b \notin ctxDone =>
    \A i \in Providers : i <= MinimumAdmission => results[b][i] # "none"

\* A batch returns fewer checks than it was given only with an error, or after
\* its context or its admission ended: no provider is dropped unnoticed when the
\* shared pool goes away.
NoProviderDroppedUnnoticed ==
  \A b \in Batches : err[b] = "nil" /\ b \notin ctxDone \cup admissionDone =>
    \A i \in Providers : results[b][i] # "none"

\* Every batch returns, whichever of its edges close and whatever its siblings do.
BatchesReturn == \A b \in Batches : <>(stage[b] = "returned")
================================================================================
