-------------------------- MODULE BlackholePoolProofs --------------------------
(***************************************************************************)
(* What the batches of BlackholePool guarantee for any number of batches,  *)
(* of workers and of providers per batch, and any reservation.             *)
(*                                                                         *)
(* A batch reads results that workers write without a lock: the argument   *)
(* is that a provider is in the hands of at most one worker (OneHolder),   *)
(* that the wait group counts those hands (EntriesMatchJobs), and that     *)
(* what was handed over and is in nobody's hands any more has left its     *)
(* trace (Traced).                                                         *)
(***************************************************************************)
EXTENDS BlackholePool, FiniteSetTheorems, TLAPS

\* The workers that hold a job of a batch.
Holders(b) == {w \in Workers : Busy(w) /\ job[w][1] = b}

\* A busy worker holds a job its batch handed over, and no two the same.
OneHolder ==
  /\ \A w \in Workers : Busy(w) => job[w] \in Jobs /\ job[w][2] < index[job[w][1]]
  /\ \A v, w \in Workers : Busy(v) /\ Busy(w) /\ job[v] = job[w] => v = w

\* A provider not handed over yet has left no trace; one that shows as started is
\* being checked, and has no result before the check is recorded.
Untouched ==
  /\ \A b \in Batches, i \in Providers : i >= index[b] => results[b][i] = "none" /\ progress[b][i] = "none"
  /\ \A b \in Batches, i \in Providers : progress[b][i] = "started" =>
       \E w \in Workers : worker[w] \in {"checking", "recording"} /\ job[w] = <<b, i>>
  /\ \A w \in Workers : worker[w] \in {"job", "checking", "recording"} =>
       results[job[w][1]][job[w][2]] = "none"

\* A check that ended late ended after its batch's context.
LateIsCut == \A c \in late : c[1] \in ctxDone

\* In a batch that goes on, a provider that was handed over, and that admission may
\* not stop, has its result or is in a worker's hands.
Traced ==
  \A b \in Batches, i \in Providers :
    i < index[b] /\ b \notin ctxDone /\ ~ Stopped(b, i) =>
      \/ results[b][i] # "none"
      \/ \E w \in Workers : worker[w] \in {"job", "checking", "recording"} /\ job[w] = <<b, i>>

\* A batch stops handing over for a reason.
StopsForAReason ==
  \A b \in Batches :
    /\ stage[b] \in {"join", "summary"} =>
         poolDone \/ b \in ctxDone \/ PastTheEnd(b) \/ Stopped(b, index[b])
    /\ stage[b] \in {"submit", "select"} => ~ PastTheEnd(b)
    /\ err[b] = "nil" => stage[b] = "returned"

\* Nobody holds a job of a batch that has joined.
Joins == \A b \in Batches : stage[b] \in {"summary", "returned"} => Holders(b) = {}

IInv == TypeOK /\ OneHolder /\ EntriesMatchJobs /\ Untouched /\ LateIsCut /\ Traced /\ StopsForAReason
        /\ Joins /\ CanceledIsNoVerdict /\ ReservedChecksAreMade /\ NoProviderDroppedUnnoticed

--------------------------------------------------------------------------------
LEMMA InitIInv == Init => IInv
<1> SUFFICES ASSUME Init PROVE IInv
  OBVIOUS
<1> USE PoolAssumption DEF Init, Providers
<1>1. TypeOK
  <2>1. progress \in [Batches -> [Providers -> {"none", "started", "completed", "discarded", "canceled"}]]
    OBVIOUS
  <2>2. results \in [Batches -> [Providers -> {"none", "completed", "discarded"}]]
    OBVIOUS
  <2>3. index \in [Batches -> 1..(ProviderCount + 1)] /\ wg \in [Batches -> Int]
    OBVIOUS
  <2> QED
    BY <2>1, <2>2, <2>3 DEF TypeOK, BatchStages, WorkerStages, NoJob
<1>2. \A w \in Workers : ~ Busy(w)
  BY DEF Busy
<1>3. EntriesMatchJobs
  <2> SUFFICES ASSUME NEW b \in Batches
      PROVE  wg[b] = Cardinality({w \in Workers : Busy(w) /\ job[w][1] = b})
                     + (IF stage[b] \in {"submit", "select"} THEN 1 ELSE 0)
    BY DEF EntriesMatchJobs
  <2>1. {w \in Workers : Busy(w) /\ job[w][1] = b} = {}
    BY <1>2
  <2>2. Cardinality({w \in Workers : Busy(w) /\ job[w][1] = b}) = 0
    BY <2>1, FS_EmptySet
  <2>3. wg[b] = 0 /\ stage[b] = "loop"
    OBVIOUS
  <2> QED
    BY <2>2, <2>3
<1>4. OneHolder /\ Untouched /\ LateIsCut /\ StopsForAReason
  BY <1>2 DEF OneHolder, Untouched, LateIsCut, StopsForAReason
<1>5. Traced
  BY DEF Traced
<1>6. Joins /\ CanceledIsNoVerdict /\ ReservedChecksAreMade /\ NoProviderDroppedUnnoticed
  BY <1>2 DEF Joins, Holders, CanceledIsNoVerdict, ReservedChecksAreMade, NoProviderDroppedUnnoticed
<1> QED
  BY <1>1, <1>3, <1>4, <1>5, <1>6 DEF IInv

\* Positions are integers.
LEMMA IndexInt == ASSUME TypeOK PROVE \A b \in Batches : index[b] \in Int
<1>1. index \in [Batches -> 1..(ProviderCount + 1)]
  BY DEF TypeOK
<1> QED
  BY <1>1, PoolAssumption

\* A recorded check: what the job's result and progress become, and nobody else's.
LEMMA RecordWrites ==
  ASSUME TypeOK, NEW w \in Workers, Record(w), job[w] \in Jobs
  PROVE  /\ results' \in [Batches -> [Providers -> {"none", "completed", "discarded"}]]
         /\ progress' \in [Batches -> [Providers -> {"none", "started", "completed", "discarded", "canceled"}]]
         /\ \A b \in Batches, i \in Providers : job[w] # <<b, i>> =>
              results'[b][i] = results[b][i] /\ progress'[b][i] = progress[b][i]
         /\ progress'[job[w][1]][job[w][2]] # "started"
         /\ IF job[w][1] \in ctxDone THEN results' = results
            ELSE results'[job[w][1]][job[w][2]] # "none"
<1>1. PICK b \in Batches, i \in Providers : job[w] = <<b, i>>
  BY DEF Jobs
<1>2. results \in [Batches -> [Providers -> {"none", "completed", "discarded"}]]
  BY DEF TypeOK
<1>3. progress \in [Batches -> [Providers -> {"none", "started", "completed", "discarded", "canceled"}]]
  BY DEF TypeOK
<1>4. CASE b \in ctxDone
  <2>1. progress' = [progress EXCEPT ![b][i] = "canceled"] /\ results' = results
    BY <1>1, <1>4 DEF Record, KeepUnlessCanceled
  <2> QED
    BY <1>1, <1>2, <1>3, <1>4, <2>1
<1>5. CASE b \notin ctxDone
  <2>1. PICK kept \in {"completed", "discarded"} :
          results' = [results EXCEPT ![b][i] = kept] /\ progress' = [progress EXCEPT ![b][i] = kept]
    BY <1>1, <1>5 DEF Record, KeepUnlessCanceled
  <2> QED
    BY <1>1, <1>2, <1>3, <1>5, <2>1
<1> QED
  BY <1>4, <1>5

\* Each step keeps the types.
LEMMA TypeStep == IInv /\ [Next]_vars => TypeOK'
<1> SUFFICES ASSUME IInv, [Next]_vars PROVE TypeOK'
  OBVIOUS
<1>a. TypeOK /\ OneHolder /\ StopsForAReason
  BY DEF IInv
<1> USE PoolAssumption DEF BatchStages, WorkerStages, batchVars, checkVars, workerVars, Move, Become
<1>1. ASSUME NEW b \in Batches, BatchStep(b) PROVE TypeOK'
  <2>1. CASE StopLoop(b) \/ EnterSelect(b) \/ Join(b) \/ Return(b)
    BY <1>a, <2>1 DEF TypeOK, StopLoop, EnterSelect, Join, Return
  <2>2. CASE AddJob(b) \/ Refuse(b)
    <3>1. wg' \in [Batches -> Int]
      <4>1. wg \in [Batches -> Int]
        BY <1>a DEF TypeOK
      <4>2. PICK n \in {wg[b] + 1, wg[b] - 1} : wg' = [wg EXCEPT ![b] = n]
        BY <2>2 DEF AddJob, Refuse, ReturnEntry
      <4>3. n \in Int
        BY <4>1, <4>2
      <4> QED
        BY <4>1, <4>2, <4>3
    <3>2. stage' \in [Batches -> BatchStages]
      <4>1. stage \in [Batches -> BatchStages]
        BY <1>a DEF TypeOK
      <4>2. PICK to \in BatchStages : stage' = [stage EXCEPT ![b] = to]
        BY <2>2 DEF AddJob, Refuse
      <4> QED
        BY <4>1, <4>2
    <3> QED
      BY <1>a, <2>2, <3>1, <3>2 DEF TypeOK, AddJob, Refuse
  <2>3. ASSUME NEW w \in Workers, Accept(b, w) PROVE TypeOK'
    <3>1. index[b] \in 1..ProviderCount
      <4>1. index[b] \in 1..(ProviderCount + 1)
        BY <1>a DEF TypeOK
      <4>2. ~ (index[b] > ProviderCount)
        BY <1>a, <2>3 DEF Accept, StopsForAReason, PastTheEnd
      <4> QED
        BY <4>1, <4>2
    <3>2. index' \in [Batches -> 1..(ProviderCount + 1)]
      <4>1. index \in [Batches -> 1..(ProviderCount + 1)]
        BY <1>a DEF TypeOK
      <4>2. index[b] + 1 \in 1..(ProviderCount + 1) /\ index' = [index EXCEPT ![b] = index[b] + 1]
        BY <2>3, <3>1 DEF Accept
      <4> QED
        BY <4>1, <4>2
    <3>3. job' \in [Workers -> Jobs \cup {NoJob}]
      BY <1>a, <2>3, <3>1 DEF TypeOK, Accept, Jobs, Providers
    <3>4. stage' \in [Batches -> BatchStages] /\ worker' \in [Workers -> WorkerStages]
      BY <1>a, <2>3 DEF TypeOK, Accept
    <3> QED
      BY <1>a, <2>3, <3>2, <3>3, <3>4 DEF TypeOK, Accept
  <2> QED
    BY <1>1, <2>1, <2>2, <2>3 DEF BatchStep
<1>2. ASSUME NEW w \in Workers, WorkerStep(w) PROVE TypeOK'
  <2>1. CASE Loop(w) \/ Leave(w) \/ SkipJob(w)
    BY <1>a, <2>1 DEF TypeOK, Loop, Leave, SkipJob
  <2>2. CASE StartCheck(w)
    <3>1. progress' \in [Batches -> [Providers -> {"none", "started", "completed", "discarded", "canceled"}]]
      BY <1>a, <2>2 DEF TypeOK, StartCheck
    <3>2. worker' \in [Workers -> WorkerStages]
      BY <1>a, <2>2 DEF TypeOK, StartCheck
    <3> QED
      BY <1>a, <2>2, <3>1, <3>2 DEF TypeOK, StartCheck
  <2>3. CASE CheckReturns(w)
    BY <1>a, <2>3 DEF TypeOK, CheckReturns, OneHolder, Busy
  <2>4. CASE Record(w)
    <3>1. job[w] \in Jobs
      BY <1>a, <2>4 DEF Record, OneHolder, Busy
    <3>2. worker' \in [Workers -> WorkerStages]
      BY <1>a, <2>4 DEF TypeOK, Record
    <3> QED
      BY <1>a, <2>4, <3>1, <3>2, RecordWrites DEF TypeOK, Record
  <2>5. CASE FinishJob(w)
    <3>1. wg' \in [Batches -> Int]
      <4>1. wg \in [Batches -> Int] /\ job[w][1] \in Batches
        BY <1>a, <2>5 DEF TypeOK, FinishJob, OneHolder, Busy, Jobs
      <4>2. wg[job[w][1]] - 1 \in Int /\ wg' = [wg EXCEPT ![job[w][1]] = wg[job[w][1]] - 1]
        BY <2>5, <4>1 DEF FinishJob
      <4> QED
        BY <4>1, <4>2
    <3>2. worker' \in [Workers -> WorkerStages] /\ job' \in [Workers -> Jobs \cup {NoJob}]
      BY <1>a, <2>5 DEF TypeOK, FinishJob
    <3> QED
      BY <1>a, <2>5, <3>1, <3>2 DEF TypeOK, FinishJob
  <2> QED
    BY <1>2, <2>1, <2>2, <2>3, <2>4, <2>5 DEF WorkerStep
<1>3. ASSUME NEW b \in Batches, Cancel(b) \/ CloseAdmission(b) PROVE TypeOK'
  BY <1>a, <1>3 DEF TypeOK, Cancel, CloseAdmission
<1>4. CASE PoolContextEnds \/ ClosePool \/ PoolClosed \/ UNCHANGED vars
  BY <1>a, <1>4 DEF TypeOK, PoolContextEnds, ClosePool, PoolClosed, vars
<1> QED
  BY <1>1, <1>2, <1>3, <1>4 DEF Next

--------------------------------------------------------------------------------
(***************************************************************************)
(* Who holds what. Only Accept puts a job into a worker's hands, only      *)
(* FinishJob takes it out.                                                 *)
(***************************************************************************)

\* Every other step leaves all hands as they are.
LEMMA HandsKept ==
  ASSUME [Next]_vars,
         \A b \in Batches, w \in Workers : ~ Accept(b, w),
         \A w \in Workers : ~ FinishJob(w)
  PROVE  /\ UNCHANGED <<job, index>>
         /\ TypeOK => \A w \in Workers : Busy(w)' <=> Busy(w)
<1> USE DEF batchVars, checkVars, workerVars, Become, Busy
<1>1. ASSUME NEW b \in Batches, BatchStep(b) PROVE UNCHANGED <<job, index, worker>>
  BY <1>1 DEF BatchStep, StopLoop, AddJob, Refuse, EnterSelect, Join, Return
<1>2. ASSUME NEW w \in Workers, WorkerStep(w)
      PROVE  /\ UNCHANGED <<job, index>>
             /\ TypeOK => \A v \in Workers : Busy(v)' <=> Busy(v)
  <2>1. UNCHANGED <<job, index>>
    BY <1>2 DEF WorkerStep, Loop, Leave, SkipJob, StartCheck, CheckReturns, Record
  <2>2. \E s \in WorkerStages :
          /\ worker' = [worker EXCEPT ![w] = s]
          /\ s \in {"job", "checking", "recording", "done"} <=> Busy(w)
    BY <1>2 DEF WorkerStep, Loop, Leave, SkipJob, StartCheck, CheckReturns, Record, WorkerStages
  <2> QED
    BY <2>1, <2>2 DEF TypeOK
<1>3. ASSUME NEW b \in Batches, Cancel(b) \/ CloseAdmission(b) PROVE UNCHANGED <<job, index, worker>>
  BY <1>3 DEF Cancel, CloseAdmission
<1>4. CASE PoolContextEnds \/ ClosePool \/ PoolClosed \/ UNCHANGED vars
  BY <1>4 DEF PoolContextEnds, ClosePool, PoolClosed, vars
<1> QED
  BY <1>1, <1>2, <1>3, <1>4 DEF Next

\* A hand-over: the worker, and what it holds now.
LEMMA HandOver ==
  ASSUME IInv, NEW b \in Batches, NEW w \in Workers, Accept(b, w)
  PROVE  /\ index[b] \in Providers /\ job'[w] = <<b, index[b]>>
         /\ ~ Busy(w) /\ Busy(w)' /\ worker'[w] = "job"
         /\ \A v \in Workers \ {w} : job'[v] = job[v] /\ worker'[v] = worker[v]
         /\ index'[b] = index[b] + 1 /\ \A c \in Batches \ {b} : index'[c] = index[c]
         /\ stage[b] = "select" /\ stage'[b] = "loop"
         /\ \A c \in Batches \ {b} : stage'[c] = stage[c]
         /\ UNCHANGED <<ctxDone, admissionDone, poolDone, wg, err, results, progress, late>>
<1>1. TypeOK /\ StopsForAReason
  BY DEF IInv
<1>2. index[b] \in Providers
  <2>1. index[b] \in 1..(ProviderCount + 1) /\ ProviderCount \in Nat
    BY <1>1, PoolAssumption DEF TypeOK
  <2>2. ~ (index[b] > ProviderCount)
    BY <1>1 DEF Accept, StopsForAReason, PastTheEnd
  <2> QED
    BY <2>1, <2>2 DEF Providers
<1>3. job'[w] = <<b, index[b]>> /\ \A v \in Workers \ {w} : job'[v] = job[v]
  BY <1>1 DEF TypeOK, Accept
<1>4. worker[w] = "select" /\ worker'[w] = "job" /\ \A v \in Workers \ {w} : worker'[v] = worker[v]
  BY <1>1 DEF TypeOK, Accept, Become
<1>5. index'[b] = index[b] + 1 /\ \A c \in Batches \ {b} : index'[c] = index[c]
  BY <1>1 DEF TypeOK, Accept
<1>6. stage[b] = "select" /\ stage'[b] = "loop" /\ \A c \in Batches \ {b} : stage'[c] = stage[c]
  BY <1>1 DEF TypeOK, Accept, Move
<1>7. UNCHANGED <<ctxDone, admissionDone, poolDone, wg, err, results, progress, late>>
  BY DEF Accept, checkVars
<1> QED
  BY <1>2, <1>3, <1>4, <1>5, <1>6, <1>7 DEF Busy

\* A worker that is done with its job.
LEMMA LettingGo ==
  ASSUME IInv, NEW w \in Workers, FinishJob(w)
  PROVE  /\ job[w][1] \in Batches
         /\ Busy(w) /\ worker[w] = "done" /\ ~ Busy(w)' /\ worker'[w] = "loop"
         /\ \A v \in Workers \ {w} : job'[v] = job[v] /\ worker'[v] = worker[v]
         /\ wg'[job[w][1]] = wg[job[w][1]] - 1
         /\ \A c \in Batches \ {job[w][1]} : wg'[c] = wg[c]
         /\ UNCHANGED <<ctxDone, admissionDone, poolDone, stage, index, err, results, progress, late>>
<1>1. TypeOK /\ OneHolder
  BY DEF IInv
<1>2. worker[w] = "done" /\ worker'[w] = "loop" /\ \A v \in Workers \ {w} : worker'[v] = worker[v]
  BY <1>1 DEF TypeOK, FinishJob, Become
<1>3. job[w][1] \in Batches
  BY <1>1, <1>2 DEF OneHolder, Busy, Jobs
<1>4. \A v \in Workers \ {w} : job'[v] = job[v]
  BY <1>1 DEF TypeOK, FinishJob
<1>5. wg'[job[w][1]] = wg[job[w][1]] - 1 /\ \A c \in Batches \ {job[w][1]} : wg'[c] = wg[c]
  BY <1>1, <1>3 DEF TypeOK, FinishJob
<1> QED
  BY <1>2, <1>3, <1>4, <1>5 DEF Busy, FinishJob, checkVars

\* No two workers hold the same job: what is handed over next is new.
LEMMA OneHolderStep == IInv /\ [Next]_vars => OneHolder'
<1> SUFFICES ASSUME IInv, [Next]_vars PROVE OneHolder'
  OBVIOUS
<1>a. TypeOK /\ OneHolder
  BY DEF IInv
<1>1. ASSUME NEW b \in Batches, NEW w \in Workers, Accept(b, w) PROVE OneHolder'
  <2>1. \A v \in Workers \ {w} : Busy(v)' <=> Busy(v)
    BY <1>1, HandOver DEF Busy
  <2>2. \A c \in Batches : index[c] \in Int /\ index'[c] \in Int /\ index[c] <= index'[c]
    <3>1. \A c \in Batches : index[c] \in Int
      BY <1>a, IndexInt
    <3>2. index'[b] = index[b] + 1 /\ \A c \in Batches \ {b} : index'[c] = index[c]
      BY <1>1, HandOver
    <3> QED
      BY <3>1, <3>2
  <2>3. job'[w] \in Jobs /\ job'[w][1] = b /\ job'[w][2] = index[b] /\ index'[b] = index[b] + 1
    <3>1. index[b] \in Providers /\ job'[w] = <<b, index[b]>> /\ index'[b] = index[b] + 1
      BY <1>1, HandOver
    <3> QED
      BY <3>1 DEF Jobs
  <2>4. \A v \in Workers \ {w} : Busy(v) =>
          /\ job'[v] = job[v] /\ job[v] \in Jobs /\ job[v][2] < index[job[v][1]]
          /\ job[v][1] \in Batches /\ job[v][2] \in Int
    BY <1>a, <1>1, HandOver DEF OneHolder, Jobs, Providers
  <2>5. \A v \in Workers : Busy(v)' => job'[v] \in Jobs /\ job'[v][2] < index'[job'[v][1]]
    BY <2>1, <2>2, <2>3, <2>4
  <2>6. \A v \in Workers \ {w} : Busy(v)' => job'[v] # job'[w]
    BY <2>1, <2>2, <2>3, <2>4
  <2>7. \A u, v \in Workers \ {w} : Busy(u)' /\ Busy(v)' /\ job'[u] = job'[v] => u = v
    BY <1>a, <2>1, <2>4 DEF OneHolder
  <2> QED
    BY <2>5, <2>6, <2>7 DEF OneHolder
<1>2. ASSUME NEW w \in Workers, FinishJob(w) PROVE OneHolder'
  BY <1>a, <1>2, LettingGo DEF OneHolder, Busy
<1>3. CASE /\ \A b \in Batches, w \in Workers : ~ Accept(b, w)
           /\ \A w \in Workers : ~ FinishJob(w)
  BY <1>a, <1>3, HandsKept DEF OneHolder
<1> QED
  BY <1>1, <1>2, <1>3

\* The wait group counts the hands, and the batch's own while it hands over.
LEMMA EntriesStep == IInv /\ [Next]_vars => EntriesMatchJobs'
<1> SUFFICES ASSUME IInv, [Next]_vars PROVE EntriesMatchJobs'
  OBVIOUS
<1>a. TypeOK /\ OneHolder
  BY DEF IInv
<1>b. \A b \in Batches : /\ Holders(b) \subseteq Workers /\ IsFiniteSet(Holders(b))
                         /\ Cardinality(Holders(b)) \in Nat
  BY PoolAssumption, FS_Subset, FS_CardinalityType DEF Holders
<1>c. \A b \in Batches :
        wg[b] = Cardinality(Holders(b)) + (IF stage[b] \in {"submit", "select"} THEN 1 ELSE 0)
  BY DEF IInv, EntriesMatchJobs, Holders
<1>d. SUFFICES ASSUME NEW c \in Batches
      PROVE  wg'[c] = Cardinality(Holders(c)')
                      + (IF stage'[c] \in {"submit", "select"} THEN 1 ELSE 0)
  BY DEF EntriesMatchJobs, Holders
<1>1. ASSUME NEW b \in Batches, NEW w \in Workers, Accept(b, w)
      PROVE  wg'[c] = Cardinality(Holders(c)')
                      + (IF stage'[c] \in {"submit", "select"} THEN 1 ELSE 0)
  <2>1. \A v \in Workers \ {w} : (Busy(v)' <=> Busy(v)) /\ job'[v] = job[v]
    BY <1>1, HandOver DEF Busy
  <2>2. ~ Busy(w) /\ Busy(w)' /\ job'[w][1] = b
    BY <1>1, HandOver
  <2>3. CASE c = b
    <3>1. Holders(c)' = Holders(c) \cup {w} /\ w \notin Holders(c)
      BY <2>1, <2>2, <2>3 DEF Holders
    <3>2. Cardinality(Holders(c)') = Cardinality(Holders(c)) + 1
      BY <1>b, <3>1, FS_AddElement
    <3>3. stage[c] = "select" /\ stage'[c] = "loop" /\ wg' = wg
      BY <1>1, <2>3, HandOver
    <3> QED
      BY <1>b, <1>c, <3>2, <3>3
  <2>4. CASE c # b
    <3>1. Holders(c)' = Holders(c)
      BY <2>1, <2>2, <2>4 DEF Holders
    <3>2. stage'[c] = stage[c] /\ wg' = wg
      BY <1>1, <2>4, HandOver
    <3> QED
      BY <1>c, <3>1, <3>2
  <2> QED
    BY <2>3, <2>4
<1>2. ASSUME NEW w \in Workers, FinishJob(w)
      PROVE  wg'[c] = Cardinality(Holders(c)')
                      + (IF stage'[c] \in {"submit", "select"} THEN 1 ELSE 0)
  <2>1. \A v \in Workers \ {w} : (Busy(v)' <=> Busy(v)) /\ job'[v] = job[v]
    BY <1>2, LettingGo DEF Busy
  <2>2. Busy(w) /\ ~ Busy(w)' /\ stage' = stage
    BY <1>2, LettingGo
  <2>3. CASE job[w][1] = c
    <3>1. Holders(c)' = Holders(c) \ {w} /\ w \in Holders(c)
      BY <2>1, <2>2, <2>3 DEF Holders
    <3>2. Cardinality(Holders(c)') = Cardinality(Holders(c)) - 1
      BY <1>b, <3>1, FS_RemoveElement
    <3>3. wg'[c] = wg[c] - 1
      BY <1>2, <2>3, LettingGo
    <3> QED
      BY <1>b, <1>c, <2>2, <3>2, <3>3
  <2>4. CASE job[w][1] # c
    <3>1. Holders(c)' = Holders(c)
      BY <2>1, <2>2, <2>4 DEF Holders
    <3>2. wg'[c] = wg[c]
      BY <1>2, <2>4, LettingGo
    <3> QED
      BY <1>c, <2>2, <3>1, <3>2
  <2> QED
    BY <2>3, <2>4
<1>3. CASE /\ \A b \in Batches, w \in Workers : ~ Accept(b, w)
           /\ \A w \in Workers : ~ FinishJob(w)
  <2>1. Holders(c)' = Holders(c)
    BY <1>a, <1>3, HandsKept DEF Holders
  <2> DEFINE Counted ==
        wg'[c] = wg[c] + (IF stage'[c] \in {"submit", "select"} THEN 1 ELSE 0)
                       - (IF stage[c] \in {"submit", "select"} THEN 1 ELSE 0)
  <2>2. Counted
    <3>1. wg \in [Batches -> Int] /\ stage \in [Batches -> BatchStages]
      BY <1>a DEF TypeOK
    <3> USE DEF Move, batchVars, checkVars, workerVars
    <3>2. ASSUME NEW b \in Batches, AddJob(b) PROVE Counted
      BY <3>1, <3>2 DEF AddJob
    <3>3. ASSUME NEW b \in Batches, Refuse(b) PROVE Counted
      BY <3>1, <3>3 DEF Refuse, ReturnEntry
    <3>4. ASSUME NEW b \in Batches, StopLoop(b) \/ EnterSelect(b) \/ Join(b) \/ Return(b) PROVE Counted
      <4>1. wg' = wg
        BY <3>4 DEF StopLoop, EnterSelect, Join, Return
      <4>2. PICK to \in BatchStages :
              /\ stage' = [stage EXCEPT ![b] = to]
              /\ to \in {"submit", "select"} <=> stage[b] \in {"submit", "select"}
        BY <3>4 DEF StopLoop, EnterSelect, Join, Joined, Return, BatchStages
      <4> QED
        BY <3>1, <4>1, <4>2
    <3>5. ASSUME NEW w \in Workers, WorkerStep(w) PROVE Counted
      BY <1>3, <3>1, <3>5 DEF WorkerStep, Loop, Leave, SkipJob, StartCheck, CheckReturns, Record
    <3>6. ASSUME NEW b \in Batches, Cancel(b) \/ CloseAdmission(b) PROVE Counted
      BY <3>1, <3>6 DEF Cancel, CloseAdmission
    <3>7. CASE PoolContextEnds \/ ClosePool \/ PoolClosed \/ UNCHANGED vars
      BY <3>1, <3>7 DEF PoolContextEnds, ClosePool, PoolClosed, vars
    <3> QED
      BY <1>3, <3>2, <3>3, <3>4, <3>5, <3>6, <3>7 DEF Next, BatchStep
  <2>3. wg[c] \in Int /\ wg'[c] \in Int
    BY <1>a, TypeStep DEF TypeOK
  <2> QED
    BY <1>b, <1>c, <2>1, <2>2, <2>3
<1> QED
  BY <1>1, <1>2, <1>3

--------------------------------------------------------------------------------
(***************************************************************************)
(* What the checks leave behind.                                           *)
(***************************************************************************)
Marks == Untouched /\ Traced /\ LateIsCut /\ CanceledIsNoVerdict

\* A hand-over: what is handed over is untouched, and in the worker's hands now.
LEMMA MarksAccept ==
  ASSUME IInv, NEW b \in Batches, NEW w \in Workers, Accept(b, w)
  PROVE  Marks'
<1>1. TypeOK /\ OneHolder /\ Untouched /\ Traced /\ LateIsCut /\ CanceledIsNoVerdict
  BY DEF IInv
<1>2. \A c \in Batches : index[c] \in Int /\ index'[c] \in Int /\ index[c] <= index'[c]
  <2>1. \A c \in Batches : index[c] \in Int
    BY <1>1, IndexInt
  <2>2. index'[b] = index[b] + 1 /\ \A c \in Batches \ {b} : index'[c] = index[c]
    BY HandOver
  <2> QED
    BY <2>1, <2>2
<1>3. UNCHANGED <<ctxDone, admissionDone, results, progress, late>>
  BY HandOver
<1>4. \A v \in Workers \ {w} : job'[v] = job[v] /\ worker'[v] = worker[v]
  BY HandOver
<1>5. index[b] \in Providers /\ job'[w] = <<b, index[b]>> /\ worker'[w] = "job" /\ worker[w] = "select"
  BY HandOver DEF Accept
<1>6. \A c \in Batches, i \in Providers : i < index'[c] => i < index[c] \/ (c = b /\ i = index[b])
  BY <1>2, <1>5, HandOver DEF Providers
<1>7. Untouched'
  <2>1. \A c \in Batches, i \in Providers : i >= index'[c] => i >= index[c]
    BY <1>2 DEF Providers
  <2>2. results[b][index[b]] = "none"
    BY <1>1, <1>2, <1>5 DEF Untouched
  <2>3. \A c \in Batches, i \in Providers :
          i >= index'[c] => results'[c][i] = "none" /\ progress'[c][i] = "none"
    BY <1>1, <1>3, <2>1 DEF Untouched
  <2>4. ASSUME NEW c \in Batches, NEW i \in Providers, progress'[c][i] = "started"
        PROVE  \E v \in Workers : worker'[v] \in {"checking", "recording"} /\ job'[v] = <<c, i>>
    <3>1. PICK v \in Workers : worker[v] \in {"checking", "recording"} /\ job[v] = <<c, i>>
      BY <1>1, <1>3, <2>4 DEF Untouched
    <3> QED
      BY <1>4, <1>5, <3>1
  <2>5. ASSUME NEW v \in Workers, worker'[v] \in {"job", "checking", "recording"}
        PROVE  results'[job'[v][1]][job'[v][2]] = "none"
    <3>1. CASE v = w
      BY <1>3, <1>5, <2>2, <3>1
    <3>2. CASE v # w
      BY <1>1, <1>3, <1>4, <2>5, <3>2 DEF Untouched
    <3> QED
      BY <3>1, <3>2
  <2> QED
    BY <2>3, <2>4, <2>5 DEF Untouched
<1>8. Traced'
  BY <1>1, <1>3, <1>4, <1>5, <1>6 DEF Traced, Stopped, Reserved
<1>9. LateIsCut' /\ CanceledIsNoVerdict'
  BY <1>1, <1>3 DEF LateIsCut, CanceledIsNoVerdict
<1> QED
  BY <1>7, <1>8, <1>9 DEF Marks

\* A worker's step.
LEMMA MarksWorker ==
  ASSUME IInv, NEW w \in Workers, WorkerStep(w)
  PROVE  Marks'
<1>1. TypeOK /\ OneHolder /\ Untouched /\ Traced /\ LateIsCut /\ CanceledIsNoVerdict
  BY DEF IInv
<1>2. CASE FinishJob(w)
  <2>1. /\ UNCHANGED <<ctxDone, admissionDone, index, results, progress, late>>
        /\ worker[w] = "done" /\ worker'[w] = "loop"
        /\ \A v \in Workers \ {w} : job'[v] = job[v] /\ worker'[v] = worker[v]
    BY <1>2, LettingGo
  <2>2. Untouched'
    <3>1. \A c \in Batches, j \in Providers : j >= index'[c] => results'[c][j] = "none" /\ progress'[c][j] = "none"
      BY <1>1, <2>1 DEF Untouched
    <3>2. ASSUME NEW c \in Batches, NEW j \in Providers, progress'[c][j] = "started"
          PROVE  \E v \in Workers : worker'[v] \in {"checking", "recording"} /\ job'[v] = <<c, j>>
      <4>1. PICK v \in Workers : worker[v] \in {"checking", "recording"} /\ job[v] = <<c, j>>
        BY <1>1, <2>1, <3>2 DEF Untouched
      <4> QED
        BY <2>1, <4>1
    <3>3. ASSUME NEW v \in Workers, worker'[v] \in {"job", "checking", "recording"}
          PROVE  results'[job'[v][1]][job'[v][2]] = "none"
      BY <1>1, <2>1, <3>3 DEF Untouched
    <3> QED
      BY <3>1, <3>2, <3>3 DEF Untouched
  <2>3. Traced'
    BY <1>1, <2>1 DEF Traced, Stopped, Reserved
  <2>4. LateIsCut' /\ CanceledIsNoVerdict'
    BY <1>1, <2>1 DEF LateIsCut, CanceledIsNoVerdict
  <2> QED
    BY <2>2, <2>3, <2>4 DEF Marks
<1>3. CASE StartCheck(w)
  <2>1. PICK b \in Batches, i \in Providers : job[w] = <<b, i>> /\ i < index[b]
    BY <1>1, <1>3 DEF StartCheck, OneHolder, Busy, Jobs
  <2>2. /\ UNCHANGED <<ctxDone, admissionDone, index, results, late, job>>
        /\ worker[w] = "job" /\ worker'[w] = "checking"
        /\ \A v \in Workers \ {w} : worker'[v] = worker[v]
    BY <1>1, <1>3 DEF TypeOK, StartCheck, Become, batchVars
  <2>3. \A c \in Batches, j \in Providers : <<c, j>> # <<b, i>> => progress'[c][j] = progress[c][j]
    <3>1. progress' = [progress EXCEPT ![b][i] = "started"]
      BY <1>3, <2>1 DEF StartCheck
    <3>2. progress \in [Batches -> [Providers -> {"none", "started", "completed", "discarded", "canceled"}]]
      BY <1>1 DEF TypeOK
    <3> QED
      BY <3>1, <3>2
  <2>4. Untouched'
    <3>1. \A c \in Batches, j \in Providers : j >= index[c] => <<c, j>> # <<b, i>>
      BY <1>1, <2>1, IndexInt DEF Providers
    <3>2. \A c \in Batches, j \in Providers : j >= index'[c] => results'[c][j] = "none" /\ progress'[c][j] = "none"
      BY <1>1, <2>2, <2>3, <3>1 DEF Untouched
    <3>3. \A c \in Batches, j \in Providers : progress'[c][j] = "started" =>
            \E v \in Workers : worker'[v] \in {"checking", "recording"} /\ job'[v] = <<c, j>>
      <4> SUFFICES ASSUME NEW c \in Batches, NEW j \in Providers, progress'[c][j] = "started",
                          <<c, j>> # <<b, i>>
          PROVE  \E v \in Workers : worker'[v] \in {"checking", "recording"} /\ job'[v] = <<c, j>>
        BY <2>1, <2>2, <2>3
      <4>0. progress[c][j] = "started"
        BY <2>3
      <4>1. PICK v \in Workers : worker[v] \in {"checking", "recording"} /\ job[v] = <<c, j>>
        BY <1>1, <4>0 DEF Untouched
      <4>2. v # w
        BY <2>1, <4>1
      <4> QED
        BY <2>2, <4>1, <4>2
    <3>4. \A v \in Workers : worker'[v] \in {"job", "checking", "recording"} =>
            results'[job'[v][1]][job'[v][2]] = "none"
      BY <1>1, <2>2 DEF Untouched
    <3> QED
      BY <3>2, <3>3, <3>4 DEF Untouched
  <2>5. Traced'
    BY <1>1, <2>2 DEF Traced, Stopped, Reserved
  <2>6. LateIsCut' /\ CanceledIsNoVerdict'
    BY <1>1, <2>2 DEF LateIsCut, CanceledIsNoVerdict
  <2> QED
    BY <2>4, <2>5, <2>6 DEF Marks
<1>4. CASE Record(w)
  <2>1. PICK b \in Batches, i \in Providers : job[w] = <<b, i>> /\ i < index[b]
    BY <1>1, <1>4 DEF Record, OneHolder, Busy, Jobs
  <2>2. /\ UNCHANGED <<ctxDone, admissionDone, index, late, job>>
        /\ worker[w] = "recording" /\ worker'[w] = "done"
        /\ \A v \in Workers \ {w} : worker'[v] = worker[v]
    BY <1>1, <1>4 DEF TypeOK, Record, Become, batchVars
  <2>3. /\ \A c \in Batches, j \in Providers : <<c, j>> # <<b, i>> =>
             results'[c][j] = results[c][j] /\ progress'[c][j] = progress[c][j]
        /\ progress'[b][i] # "started"
        /\ b \in ctxDone => results' = results
        /\ b \notin ctxDone => results'[b][i] # "none"
    <3>1. job[w] \in Jobs /\ job[w][1] = b /\ job[w][2] = i
      BY <2>1 DEF Jobs
    <3> QED
      BY <1>1, <1>4, <2>1, <3>1, RecordWrites
  <2>4. \A v \in Workers \ {w} : worker[v] \in {"job", "checking", "recording"} =>
          job[v] # <<b, i>> /\ job[v] \in Jobs
    BY <1>1, <2>1, <2>2 DEF OneHolder, Busy
  <2>5. Untouched'
    <3>1. \A c \in Batches, j \in Providers : j >= index[c] => <<c, j>> # <<b, i>>
      BY <1>1, <2>1, IndexInt DEF Providers
    <3>2. \A c \in Batches, j \in Providers : j >= index'[c] => results'[c][j] = "none" /\ progress'[c][j] = "none"
      BY <1>1, <2>2, <2>3, <3>1 DEF Untouched
    <3>3. \A c \in Batches, j \in Providers : progress'[c][j] = "started" =>
            \E v \in Workers : worker'[v] \in {"checking", "recording"} /\ job'[v] = <<c, j>>
      <4> SUFFICES ASSUME NEW c \in Batches, NEW j \in Providers, progress'[c][j] = "started",
                          <<c, j>> # <<b, i>>
          PROVE  \E v \in Workers : worker'[v] \in {"checking", "recording"} /\ job'[v] = <<c, j>>
        BY <2>1, <2>2, <2>3
      <4>0. progress[c][j] = "started"
        BY <2>3
      <4>1. PICK v \in Workers : worker[v] \in {"checking", "recording"} /\ job[v] = <<c, j>>
        BY <1>1, <4>0 DEF Untouched
      <4>2. v # w
        BY <2>1, <4>1
      <4> QED
        BY <2>2, <4>1, <4>2
    <3>4. \A v \in Workers : worker'[v] \in {"job", "checking", "recording"} =>
            results'[job'[v][1]][job'[v][2]] = "none"
      <4> SUFFICES ASSUME NEW v \in Workers, worker'[v] \in {"job", "checking", "recording"}
          PROVE  results'[job[v][1]][job[v][2]] = "none"
        BY <2>2
      <4>1. v # w /\ worker[v] \in {"job", "checking", "recording"}
        BY <2>2
      <4>2. PICK c \in Batches, j \in Providers : job[v] = <<c, j>> /\ <<c, j>> # <<b, i>>
        BY <2>4, <4>1 DEF Jobs
      <4>3. results[c][j] = "none"
        BY <1>1, <4>1, <4>2 DEF Untouched
      <4> QED
        BY <2>3, <4>2, <4>3
    <3> QED
      BY <3>2, <3>3, <3>4 DEF Untouched
  <2>6. Traced'
    BY <1>1, <2>1, <2>2, <2>3 DEF Traced, Stopped, Reserved
  <2>7. LateIsCut' /\ CanceledIsNoVerdict'
    <3>1. ASSUME NEW c \in late PROVE results'[c[1]][c[2]] = "none"
      <4>1. c[1] \in ctxDone /\ results[c[1]][c[2]] = "none"
        BY <1>1 DEF LateIsCut, CanceledIsNoVerdict
      <4>0. c \in Jobs
        BY <1>1 DEF TypeOK
      <4>2. PICK d \in Batches, j \in Providers : c = <<d, j>>
        BY <4>0 DEF Jobs
      <4>3. d \in ctxDone /\ results[d][j] = "none"
        BY <4>1, <4>2
      <4>4. results'[d][j] = "none"
        BY <2>3, <4>3
      <4> QED
        BY <4>2, <4>4
    <3> QED
      BY <1>1, <2>2, <3>1 DEF LateIsCut, CanceledIsNoVerdict
  <2> QED
    BY <2>5, <2>6, <2>7 DEF Marks
<1>5. CASE CheckReturns(w)
  <2>1. /\ UNCHANGED <<ctxDone, admissionDone, index, results, progress, job>>
        /\ worker[w] = "checking" /\ worker'[w] = "recording"
        /\ \A v \in Workers \ {w} : worker'[v] = worker[v]
        /\ late' = IF job[w][1] \in ctxDone THEN late \cup {job[w]} ELSE late
    BY <1>1, <1>5 DEF TypeOK, CheckReturns, Become, batchVars
  <2>2. results[job[w][1]][job[w][2]] = "none"
    BY <1>1, <2>1 DEF Untouched
  <2>3. Untouched'
    <3>1. \A c \in Batches, j \in Providers : j >= index'[c] => results'[c][j] = "none" /\ progress'[c][j] = "none"
      BY <1>1, <2>1 DEF Untouched
    <3>2. ASSUME NEW c \in Batches, NEW j \in Providers, progress'[c][j] = "started"
          PROVE  \E v \in Workers : worker'[v] \in {"checking", "recording"} /\ job'[v] = <<c, j>>
      <4>1. PICK v \in Workers : worker[v] \in {"checking", "recording"} /\ job[v] = <<c, j>>
        BY <1>1, <2>1, <3>2 DEF Untouched
      <4> QED
        BY <2>1, <4>1
    <3>3. ASSUME NEW v \in Workers, worker'[v] \in {"job", "checking", "recording"}
          PROVE  results'[job'[v][1]][job'[v][2]] = "none"
      BY <1>1, <2>1, <3>3 DEF Untouched
    <3> QED
      BY <3>1, <3>2, <3>3 DEF Untouched
  <2>4. Traced'
    BY <1>1, <2>1 DEF Traced, Stopped, Reserved
  <2>5. LateIsCut' /\ CanceledIsNoVerdict'
    BY <1>1, <2>1, <2>2 DEF LateIsCut, CanceledIsNoVerdict
  <2> QED
    BY <2>3, <2>4, <2>5 DEF Marks
<1>6. CASE Loop(w) \/ Leave(w) \/ SkipJob(w)
  <2>1. /\ UNCHANGED <<ctxDone, admissionDone, index, results, progress, late, job>>
        /\ worker'[w] \notin {"job", "checking", "recording"}
        /\ worker[w] \notin {"checking", "recording"}
        /\ worker[w] = "job" => CutOff(job[w][1], job[w][2])
        /\ \A v \in Workers \ {w} : worker'[v] = worker[v]
    BY <1>1, <1>6 DEF TypeOK, Loop, Leave, SkipJob, Become, batchVars, checkVars
  <2>2. Untouched'
    BY <1>1, <2>1 DEF Untouched
  <2>3. Traced'
    BY <1>1, <2>1 DEF Traced, Stopped, Reserved, CutOff
  <2>4. LateIsCut' /\ CanceledIsNoVerdict'
    BY <1>1, <2>1 DEF LateIsCut, CanceledIsNoVerdict
  <2> QED
    BY <2>2, <2>3, <2>4 DEF Marks
<1> QED
  BY <1>2, <1>3, <1>4, <1>5, <1>6 DEF WorkerStep

\* What the other steps leave alone; contexts and admissions only ever end.
LEMMA EdgesOnlyEnd ==
  ASSUME [Next]_vars
  PROVE  ctxDone \subseteq ctxDone' /\ admissionDone \subseteq admissionDone' /\ (poolDone => poolDone')
<1> USE DEF batchVars, checkVars, workerVars
<1>1. ASSUME NEW b \in Batches, BatchStep(b) PROVE UNCHANGED <<ctxDone, admissionDone, poolDone>>
  BY <1>1 DEF BatchStep, StopLoop, AddJob, Refuse, EnterSelect, Join, Return, Accept
<1>2. ASSUME NEW w \in Workers, WorkerStep(w) PROVE UNCHANGED <<ctxDone, admissionDone, poolDone>>
  BY <1>2 DEF WorkerStep, Loop, Leave, SkipJob, StartCheck, CheckReturns, Record, FinishJob
<1>3. ASSUME NEW b \in Batches, Cancel(b) \/ CloseAdmission(b)
      PROVE  ctxDone \subseteq ctxDone' /\ admissionDone \subseteq admissionDone' /\ UNCHANGED poolDone
  BY <1>3 DEF Cancel, CloseAdmission
<1>4. CASE PoolContextEnds \/ ClosePool \/ PoolClosed \/ UNCHANGED vars
  BY <1>4 DEF PoolContextEnds, ClosePool, PoolClosed, vars
<1> QED
  BY <1>1, <1>2, <1>3, <1>4 DEF Next

LEMMA MarksStep == IInv /\ [Next]_vars => Marks'
<1> SUFFICES ASSUME IInv, [Next]_vars PROVE Marks'
  OBVIOUS
<1>1. CASE UNCHANGED <<index, checkVars, workerVars>>
  <2>1. Untouched /\ Traced /\ LateIsCut /\ CanceledIsNoVerdict
    BY DEF IInv
  <2>2. UNCHANGED <<index, results, progress, late, worker, job>>
    BY <1>1 DEF checkVars, workerVars
  <2>3. ctxDone \subseteq ctxDone' /\ admissionDone \subseteq admissionDone'
    BY EdgesOnlyEnd
  <2>4. Untouched'
    BY <2>1, <2>2 DEF Untouched
  <2>5. Traced'
    BY <2>1, <2>2, <2>3 DEF Traced, Stopped, Reserved
  <2>6. LateIsCut' /\ CanceledIsNoVerdict'
    BY <2>1, <2>2, <2>3 DEF LateIsCut, CanceledIsNoVerdict
  <2> QED
    BY <2>4, <2>5, <2>6 DEF Marks
<1>2. ASSUME NEW b \in Batches, BatchStep(b), \A w \in Workers : ~ Accept(b, w)
      PROVE  UNCHANGED <<index, checkVars, workerVars>>
  BY <1>2 DEF BatchStep, StopLoop, AddJob, Refuse, EnterSelect, Join, Return
<1>3. ASSUME NEW b \in Batches, Cancel(b) \/ CloseAdmission(b)
      PROVE  UNCHANGED <<index, checkVars, workerVars>>
  BY <1>3 DEF Cancel, CloseAdmission, batchVars
<1>4. ASSUME PoolContextEnds \/ ClosePool \/ PoolClosed \/ UNCHANGED vars
      PROVE  UNCHANGED <<index, checkVars, workerVars>>
  BY <1>4 DEF PoolContextEnds, ClosePool, PoolClosed, vars, batchVars
<1> QED
  BY <1>1, <1>2, <1>3, <1>4, MarksAccept, MarksWorker DEF Next

--------------------------------------------------------------------------------
(***************************************************************************)
(* What a batch may read and return.                                       *)
(***************************************************************************)
Returns == StopsForAReason /\ Joins /\ ReservedChecksAreMade /\ NoProviderDroppedUnnoticed

\* A result is never taken back.
LEMMA ResultsStay ==
  IInv /\ [Next]_vars =>
    \A b \in Batches, i \in Providers : results[b][i] # "none" => results'[b][i] # "none"
<1> SUFFICES ASSUME IInv, [Next]_vars, NEW b \in Batches, NEW i \in Providers, results[b][i] # "none"
    PROVE  results'[b][i] # "none"
  OBVIOUS
<1> USE DEF checkVars, workerVars, batchVars
<1>1. ASSUME NEW w \in Workers, Record(w) PROVE results'[b][i] # "none"
  <2>1. TypeOK /\ job[w] \in Jobs
    BY <1>1 DEF IInv, OneHolder, Busy, Record
  <2>2. PICK c \in Batches, j \in Providers : job[w] = <<c, j>>
    BY <2>1 DEF Jobs
  <2>3. CASE <<c, j>> = <<b, i>>
    BY <1>1, <2>1, <2>2, <2>3, RecordWrites
  <2>4. CASE <<c, j>> # <<b, i>>
    BY <1>1, <2>1, <2>2, <2>4, RecordWrites
  <2> QED
    BY <2>3, <2>4
<1>2. ASSUME NEW w \in Workers, WorkerStep(w), ~ Record(w) PROVE UNCHANGED results
  BY <1>2 DEF WorkerStep, Loop, Leave, SkipJob, StartCheck, CheckReturns, FinishJob
<1>3. ASSUME NEW c \in Batches, BatchStep(c) PROVE UNCHANGED results
  BY <1>3 DEF BatchStep, StopLoop, AddJob, Refuse, EnterSelect, Join, Return, Accept
<1>4. ASSUME NEW c \in Batches, Cancel(c) \/ CloseAdmission(c) PROVE UNCHANGED results
  BY <1>4 DEF Cancel, CloseAdmission
<1>5. CASE PoolContextEnds \/ ClosePool \/ PoolClosed \/ UNCHANGED vars
  BY <1>5 DEF PoolContextEnds, ClosePool, PoolClosed, vars
<1> QED
  BY <1>1, <1>2, <1>3, <1>4, <1>5 DEF Next

\* A batch that joined and whose pool and context are live has everything that it
\* handed over, and stopped only at its end or where admission stopped it.
LEMMA ReadIsComplete ==
  ASSUME IInv, NEW b \in Batches, stage[b] = "summary", ~ poolDone, b \notin ctxDone,
         NEW i \in Providers, i <= MinimumAdmission \/ b \notin admissionDone
  PROVE  results[b][i] # "none"
<1>1. TypeOK /\ StopsForAReason /\ Joins /\ Traced
  BY DEF IInv
<1>2. index[b] \in Int /\ i \in Int /\ i <= ProviderCount /\ ProviderCount \in Int /\ MinimumAdmission \in Int
  BY <1>1, IndexInt, PoolAssumption DEF Providers
<1>3. ~ Stopped(b, i)
  BY DEF Stopped, Reserved
<1>4. i < index[b]
  BY <1>1, <1>2 DEF StopsForAReason, PastTheEnd, Stopped, Reserved
<1>5. ~ \E w \in Workers : worker[w] \in {"job", "checking", "recording"} /\ job[w] = <<b, i>>
  BY <1>1 DEF Joins, Holders, Busy
<1> QED
  BY <1>1, <1>3, <1>4, <1>5 DEF Traced

LEMMA ReturnsStep == IInv /\ [Next]_vars => Returns'
<1> SUFFICES ASSUME IInv, [Next]_vars PROVE Returns'
  OBVIOUS
<1>a. TypeOK /\ StopsForAReason /\ Joins /\ ReservedChecksAreMade /\ NoProviderDroppedUnnoticed
  BY DEF IInv
<1>b. \A b \in Batches, i \in Providers : results[b][i] # "none" => results'[b][i] # "none"
  BY ResultsStay
<1>c. ctxDone \subseteq ctxDone' /\ admissionDone \subseteq admissionDone' /\ (poolDone => poolDone')
  BY EdgesOnlyEnd
<1>1. ASSUME UNCHANGED <<stage, index, err>>,
             \A b \in Batches : Holders(b)' \subseteq Holders(b)
      PROVE  Returns'
  <2>1. StopsForAReason'
    BY <1>a, <1>c, <1>1 DEF StopsForAReason, PastTheEnd, Stopped, Reserved
  <2>2. Joins'
    BY <1>a, <1>1 DEF Joins
  <2>3. ReservedChecksAreMade' /\ NoProviderDroppedUnnoticed'
    BY <1>a, <1>b, <1>c, <1>1 DEF ReservedChecksAreMade, NoProviderDroppedUnnoticed
  <2> QED
    BY <2>1, <2>2, <2>3 DEF Returns
<1>2. ASSUME NEW b \in Batches, NEW w \in Workers, Accept(b, w) PROVE Returns'
  <2>1. /\ stage[b] = "select" /\ stage'[b] = "loop" /\ err' = err
        /\ \A c \in Batches \ {b} : stage'[c] = stage[c] /\ index'[c] = index[c]
    BY <1>2, HandOver
  <2>2. \A c \in Batches \ {b} : Holders(c)' = Holders(c)
    BY <1>2, HandOver DEF Holders, Busy
  <2>3. StopsForAReason'
    BY <1>a, <1>c, <2>1 DEF StopsForAReason, PastTheEnd, Stopped, Reserved
  <2>4. Joins'
    BY <1>a, <2>1, <2>2 DEF Joins
  <2>5. ReservedChecksAreMade' /\ NoProviderDroppedUnnoticed'
    BY <1>a, <1>b, <1>c, <2>1 DEF ReservedChecksAreMade, NoProviderDroppedUnnoticed
  <2> QED
    BY <2>3, <2>4, <2>5 DEF Returns
<1>3. ASSUME NEW b \in Batches, StopLoop(b) \/ AddJob(b) \/ Refuse(b) \/ EnterSelect(b) \/ Join(b)
      PROVE  Returns'
  <2> USE DEF Move, workerVars, checkVars
  <2>1. UNCHANGED <<ctxDone, admissionDone, poolDone, index, err, worker, job>>
    BY <1>3 DEF StopLoop, AddJob, Refuse, EnterSelect, Join
  <2>2. \A c \in Batches \ {b} : stage'[c] = stage[c]
    BY <1>a, <1>3 DEF TypeOK, StopLoop, AddJob, Refuse, EnterSelect, Join
  <2>3. \A c \in Batches : Holders(c)' = Holders(c)
    BY <2>1 DEF Holders, Busy
  <2>4. stage[b] # "returned" /\ stage'[b] # "returned"
    BY <1>a, <1>3 DEF TypeOK, StopLoop, AddJob, Refuse, EnterSelect, Join, Joined
  <2>5. StopsForAReason'
    <3>1. stage'[b] \in {"join", "summary"} =>
            poolDone \/ b \in ctxDone \/ PastTheEnd(b) \/ Stopped(b, index[b])
      BY <1>a, <1>3 DEF TypeOK, StopsForAReason, StopLoop, AddJob, Refuse, Refused, EnterSelect, Join, Joined
    <3>2. stage'[b] \in {"submit", "select"} => ~ PastTheEnd(b)
      BY <1>a, <1>3 DEF TypeOK, StopsForAReason, StopLoop, AddJob, Refuse, EnterSelect, Join
    <3> QED
      BY <1>a, <2>1, <2>2, <2>4, <3>1, <3>2 DEF StopsForAReason, PastTheEnd, Stopped, Reserved
  <2>6. Joins'
    <3>1. stage'[b] = "summary" => Holders(b) = {}
      <4> SUFFICES ASSUME stage'[b] = "summary" PROVE Holders(b) = {}
        OBVIOUS
      <4>1. wg[b] = 0 /\ stage[b] = "join"
        BY <1>a, <1>3 DEF TypeOK, StopLoop, AddJob, Refuse, EnterSelect, Join, Joined
      <4>2. Cardinality(Holders(b)) = 0
        <5>1. Cardinality(Holders(b)) \in Nat
          BY PoolAssumption, FS_Subset, FS_CardinalityType DEF Holders
        <5>2. wg[b] = Cardinality(Holders(b))
                      + (IF stage[b] \in {"submit", "select"} THEN 1 ELSE 0)
          BY DEF IInv, EntriesMatchJobs, Holders
        <5> QED
          BY <4>1, <5>1, <5>2
      <4> QED
        BY <4>2, PoolAssumption, FS_Subset, FS_EmptySet DEF Holders
    <3> QED
      BY <1>a, <2>2, <2>3, <2>4, <3>1 DEF Joins
  <2>7. ReservedChecksAreMade' /\ NoProviderDroppedUnnoticed'
    BY <1>a, <1>b, <1>c, <2>1 DEF ReservedChecksAreMade, NoProviderDroppedUnnoticed
  <2> QED
    BY <2>5, <2>6, <2>7 DEF Returns
<1>4. ASSUME NEW b \in Batches, Return(b) PROVE Returns'
  <2> USE DEF Move, workerVars, checkVars
  <2>1. UNCHANGED <<ctxDone, admissionDone, poolDone, index, results, worker, job>>
    BY <1>4 DEF Return
  <2>2. /\ stage[b] = "summary" /\ stage'[b] = "returned"
        /\ \A c \in Batches \ {b} : stage'[c] = stage[c] /\ err'[c] = err[c]
    BY <1>a, <1>4 DEF TypeOK, Return
  <2>3. err'[b] = "nil" /\ b \notin ctxDone => ~ poolDone
    BY <1>a, <1>4 DEF TypeOK, Return, PoolFailed
  <2>4. StopsForAReason'
    BY <1>a, <2>1, <2>2 DEF StopsForAReason, PastTheEnd, Stopped, Reserved
  <2>5. Joins'
    BY <1>a, <2>1, <2>2 DEF Joins, Holders, Busy
  <2>6. ReservedChecksAreMade' /\ NoProviderDroppedUnnoticed'
    <3>1. \A i \in Providers : err'[b] = "nil" /\ b \notin ctxDone /\ i <= MinimumAdmission =>
            results[b][i] # "none"
      BY <2>2, <2>3, ReadIsComplete
    <3>2. \A i \in Providers : err'[b] = "nil" /\ b \notin ctxDone \cup admissionDone =>
            results[b][i] # "none"
      BY <2>2, <2>3, ReadIsComplete
    <3> QED
      BY <1>a, <2>1, <2>2, <3>1, <3>2 DEF ReservedChecksAreMade, NoProviderDroppedUnnoticed
  <2> QED
    BY <2>4, <2>5, <2>6 DEF Returns
<1>5. ASSUME NEW w \in Workers, FinishJob(w) PROVE Returns'
  <2>1. UNCHANGED <<stage, index, err>>
    BY <1>5, LettingGo
  <2>2. \A b \in Batches : Holders(b)' \subseteq Holders(b)
    BY <1>5, LettingGo DEF Holders, Busy
  <2> QED
    BY <1>1, <2>1, <2>2
<1>6. CASE UNCHANGED <<stage, index, err>> /\ \A w \in Workers : ~ FinishJob(w)
  <2>1. \A b \in Batches, w \in Workers : ~ Accept(b, w)
    <3>1. ASSUME NEW b \in Batches, NEW w \in Workers, Accept(b, w) PROVE FALSE
      BY <1>6, <3>1, HandOver
    <3> QED
      BY <3>1
  <2>2. \A b \in Batches : Holders(b)' = Holders(b)
    BY <1>a, <1>6, <2>1, HandsKept DEF Holders
  <2> QED
    BY <1>1, <1>6, <2>2
<1>7. ASSUME NEW w \in Workers, WorkerStep(w) PROVE UNCHANGED <<stage, index, err>>
  BY <1>7 DEF WorkerStep, Loop, Leave, SkipJob, StartCheck, CheckReturns, Record, FinishJob, batchVars
<1>8. ASSUME NEW b \in Batches, Cancel(b) \/ CloseAdmission(b) PROVE UNCHANGED <<stage, index, err>>
  BY <1>8 DEF Cancel, CloseAdmission, batchVars
<1>9. ASSUME PoolContextEnds \/ ClosePool \/ PoolClosed \/ UNCHANGED vars
      PROVE  UNCHANGED <<stage, index, err>>
  BY <1>9 DEF PoolContextEnds, ClosePool, PoolClosed, vars, batchVars
<1> QED
  BY <1>2, <1>3, <1>4, <1>5, <1>6, <1>7, <1>8, <1>9 DEF Next, BatchStep

THEOREM Invariance == Spec => []IInv
<1>1. IInv /\ [Next]_vars => IInv'
  BY TypeStep, OneHolderStep, EntriesStep, MarksStep, ReturnsStep DEF IInv, Marks, Returns
<1> QED
  BY InitIInv, <1>1, PTL DEF Spec

--------------------------------------------------------------------------------
(***************************************************************************)
(* What it is for.                                                         *)
(***************************************************************************)

\* However many batches share the pool, a batch's wait group counts exactly its jobs
\* in workers' hands and the one it is handing over (blackhole.go:300-305).
THEOREM TheWaitGroupCounts == Spec => []EntriesMatchJobs
BY Invariance, PTL DEF IInv

\* Once a batch reads its results, no worker runs, observes or records a check of it
\* any more (blackhole.go:79).
THEOREM BatchesAreJoined == Spec => []NothingOutlivesTheBatch
<1>1. IInv => NothingOutlivesTheBatch
  <2> SUFFICES ASSUME IInv, NEW b \in Batches, stage[b] \in {"summary", "returned"}
      PROVE  /\ \A w \in Workers : Busy(w) => job[w][1] # b
             /\ \A i \in Providers : progress[b][i] # "started"
    BY DEF NothingOutlivesTheBatch
  <2>1. \A w \in Workers : Busy(w) => job[w][1] # b
    BY DEF IInv, Joins, Holders
  <2>2. ASSUME NEW i \in Providers, progress[b][i] = "started" PROVE FALSE
    <3>1. PICK w \in Workers : worker[w] \in {"checking", "recording"} /\ job[w] = <<b, i>>
      BY <2>2 DEF IInv, Untouched
    <3> QED
      BY <2>1, <3>1 DEF Busy
  <2> QED
    BY <2>1, <2>2
<1> QED
  BY Invariance, <1>1, PTL

\* A check that ended after its batch was cancelled is never recorded as a verdict.
THEOREM CutChecksAreNoVerdicts == Spec => []CanceledIsNoVerdict
BY Invariance, PTL DEF IInv

\* The reserved checks were made in every batch that returns without error and was
\* not cancelled, whenever admission closed (blackhole.go:65-66).
THEOREM ReservationsAreKept == Spec => []ReservedChecksAreMade
BY Invariance, PTL DEF IInv

\* A batch that returns without error, and that nobody cut or stopped, has a result
\* for every provider, though the shared pool may have ended at any moment.
THEOREM NobodyIsDropped == Spec => []NoProviderDroppedUnnoticed
BY Invariance, PTL DEF IInv

--------------------------------------------------------------------------------
\* Progress events, and the waits of batches.

\* What an observer of a check was last told (fleetprobe/blackhole.go:279-300).
Events == {"none", "started", "completed", "discarded", "canceled"}

\* A job in hand is untold until its check begins, and told started from then on.
EventsInHand ==
  \A w \in Workers :
    /\ worker[w] = "job" => progress[job[w][1]][job[w][2]] = "none"
    /\ worker[w] \in {"checking", "recording"} => progress[job[w][1]][job[w][2]] = "started"

\* The last event of a check is its result: completed or discarded when one was
\* written, and any other when none was (fleetprobe/blackhole.go:284-300).
EventsTellResults ==
  \A b \in Batches, i \in Providers :
    results[b][i] = IF progress[b][i] \in {"completed", "discarded"} THEN progress[b][i] ELSE "none"

\* A worker leaves only a pool whose context has ended.
WorkersStay == \A w \in Workers : worker[w] = "gone" => poolDone

Told == EventsInHand /\ EventsTellResults /\ WorkersStay

\* A check is told of once as started, then once as completed, discarded or
\* canceled, and nothing after (fleetprobe/blackhole.go:279-300).
EventStep ==
  \A b \in Batches, i \in Providers :
    \/ progress'[b][i] = progress[b][i]
    \/ progress[b][i] = "none" /\ progress'[b][i] = "started"
    \/ progress[b][i] = "started" /\ progress'[b][i] \in {"completed", "discarded", "canceled"}

\* Nobody waits for nobody (the submission and the Wait of RunBlackhole): a batch that
\* joins has a worker on a job of its own, and one that hands over has a worker that
\* has not left, or an edge that refuses the job.
WaitsAreServed ==
  \A b \in Batches :
    /\ stage[b] = "join" /\ wg[b] > 0 => \E w \in Workers : Busy(w) /\ job[w][1] = b
    /\ stage[b] = "select" => Refused(b) \/ \E w \in Workers : worker[w] # "gone"

LEMMA InitTold == Init => Told
BY DEF Init, Told, EventsInHand, EventsTellResults, WorkersStay

\* Only the worker that has a provider in its hands tells of it.
LEMMA ToldStep == IInv /\ Told /\ [Next]_vars => Told' /\ EventStep
<1> SUFFICES ASSUME IInv, Told, [Next]_vars PROVE Told' /\ EventStep
  OBVIOUS
<1>a. TypeOK /\ OneHolder /\ Untouched
  BY DEF IInv
<1>b. EventsInHand /\ EventsTellResults /\ WorkersStay
  BY DEF Told
<1>c. poolDone => poolDone'
  BY EdgesOnlyEnd
<1>d. /\ progress \in [Batches -> [Providers -> Events]]
      /\ worker \in [Workers -> WorkerStages]
      /\ job \in [Workers -> Jobs \cup {NoJob}]
  BY <1>a DEF TypeOK, Events
<1>e. \A w \in Workers : Busy(w) => \E b \in Batches, i \in Providers : job[w] = <<b, i>>
  BY <1>a DEF OneHolder, Jobs
<1> USE DEF batchVars, checkVars, workerVars, Become
<1>1. CASE UNCHANGED <<checkVars, workerVars>>
  BY <1>b, <1>c, <1>1 DEF Told, EventsInHand, EventsTellResults, WorkersStay, EventStep
<1>2. ASSUME NEW b \in Batches, NEW w \in Workers, Accept(b, w) PROVE Told' /\ EventStep
  <2>1. /\ index[b] \in Providers /\ job'[w] = <<b, index[b]>> /\ worker'[w] = "job"
        /\ \A v \in Workers \ {w} : job'[v] = job[v] /\ worker'[v] = worker[v]
        /\ UNCHANGED <<poolDone, results, progress>>
    BY <1>2, HandOver
  <2>2. progress[b][index[b]] = "none"
    <3>1. index[b] \in Int
      BY <1>a, IndexInt
    <3> QED
      BY <1>a, <2>1, <3>1 DEF Untouched
  <2>3. EventsInHand'
    BY <1>b, <2>1, <2>2 DEF EventsInHand
  <2>4. EventsTellResults' /\ WorkersStay' /\ EventStep
    BY <1>b, <2>1 DEF EventsTellResults, WorkersStay, EventStep
  <2> QED
    BY <2>3, <2>4 DEF Told
<1>3. ASSUME NEW w \in Workers,
             Loop(w) \/ Leave(w) \/ SkipJob(w) \/ CheckReturns(w) \/ FinishJob(w)
      PROVE  Told' /\ EventStep
  <2>1. /\ UNCHANGED <<poolDone, results, progress>>
        /\ \A v \in Workers \ {w} : job'[v] = job[v] /\ worker'[v] = worker[v]
    BY <1>d, <1>3 DEF Loop, Leave, SkipJob, CheckReturns, FinishJob
  <2>2. /\ worker'[w] # "job"
        /\ worker'[w] \in {"checking", "recording"} =>
             worker[w] \in {"checking", "recording"} /\ job'[w] = job[w]
        /\ worker'[w] = "gone" => poolDone
    BY <1>d, <1>3 DEF Loop, Leave, SkipJob, CheckReturns, FinishJob
  <2>3. EventsInHand'
    BY <1>b, <2>1, <2>2 DEF EventsInHand
  <2>4. EventsTellResults' /\ WorkersStay' /\ EventStep
    BY <1>b, <2>1, <2>2 DEF EventsTellResults, WorkersStay, EventStep
  <2> QED
    BY <2>3, <2>4 DEF Told
<1>4. ASSUME NEW w \in Workers, StartCheck(w) PROVE Told' /\ EventStep
  <2>1. PICK b \in Batches, i \in Providers : job[w] = <<b, i>>
    BY <1>e, <1>4 DEF StartCheck, Busy
  <2>2. /\ progress' = [progress EXCEPT ![b][i] = "started"]
        /\ UNCHANGED <<poolDone, results, job>>
        /\ worker[w] = "job" /\ worker'[w] = "checking"
        /\ \A v \in Workers \ {w} : worker'[v] = worker[v]
    BY <1>d, <1>4, <2>1 DEF StartCheck
  <2>3. progress[b][i] = "none" /\ progress'[b][i] = "started"
    BY <1>b, <1>d, <2>1, <2>2 DEF EventsInHand
  <2>4. \A c \in Batches, j \in Providers : <<c, j>> # <<b, i>> => progress'[c][j] = progress[c][j]
    BY <1>d, <2>2
  <2>5. \A v \in Workers \ {w} : Busy(v) =>
          progress'[job[v][1]][job[v][2]] = progress[job[v][1]][job[v][2]]
    <3> SUFFICES ASSUME NEW v \in Workers \ {w}, Busy(v)
        PROVE  progress'[job[v][1]][job[v][2]] = progress[job[v][1]][job[v][2]]
      OBVIOUS
    <3>1. PICK c \in Batches, j \in Providers : job[v] = <<c, j>>
      BY <1>e
    <3>2. <<c, j>> # <<b, i>>
      BY <1>a, <2>1, <2>2, <3>1 DEF OneHolder, Busy
    <3> QED
      BY <2>4, <3>1, <3>2
  <2>6. EventsInHand'
    BY <1>b, <2>1, <2>2, <2>3, <2>5 DEF EventsInHand, Busy
  <2>7. EventsTellResults'
    BY <1>b, <2>2, <2>3, <2>4 DEF EventsTellResults
  <2>8. WorkersStay' /\ EventStep
    BY <1>b, <2>2, <2>3, <2>4 DEF WorkersStay, EventStep
  <2> QED
    BY <2>6, <2>7, <2>8 DEF Told
<1>5. ASSUME NEW w \in Workers, Record(w) PROVE Told' /\ EventStep
  <2>1. PICK b \in Batches, i \in Providers : job[w] = <<b, i>>
    BY <1>e, <1>5 DEF Record, Busy
  <2>2. /\ UNCHANGED <<poolDone, job>>
        /\ worker[w] = "recording" /\ worker'[w] = "done"
        /\ \A v \in Workers \ {w} : worker'[v] = worker[v]
    BY <1>d, <1>5 DEF Record
  <2>3. progress[b][i] = "started" /\ results[b][i] = "none"
    BY <1>b, <2>1, <2>2 DEF EventsInHand, EventsTellResults
  <2>4. \A c \in Batches, j \in Providers : <<c, j>> # <<b, i>> =>
          progress'[c][j] = progress[c][j] /\ results'[c][j] = results[c][j]
    <3>1. job[w] \in Jobs
      BY <2>1 DEF Jobs
    <3>2. \A c \in Batches, j \in Providers : job[w] # <<c, j>> =>
            results'[c][j] = results[c][j] /\ progress'[c][j] = progress[c][j]
      BY <1>a, <1>5, <3>1, RecordWrites
    <3> QED
      BY <2>1, <3>2
  <2>5. \/ progress'[b][i] = "canceled" /\ results'[b][i] = "none"
        \/ progress'[b][i] \in {"completed", "discarded"} /\ results'[b][i] = progress'[b][i]
    <3>1. results \in [Batches -> [Providers -> {"none", "completed", "discarded"}]]
      BY <1>a DEF TypeOK
    <3>2. CASE b \in ctxDone
      <4>1. progress' = [progress EXCEPT ![b][i] = "canceled"] /\ results' = results
        BY <1>5, <2>1, <3>2 DEF Record, KeepUnlessCanceled
      <4> QED
        BY <1>d, <2>3, <4>1
    <3>3. CASE b \notin ctxDone
      <4>1. PICK kept \in {"completed", "discarded"} :
              progress' = [progress EXCEPT ![b][i] = kept] /\ results' = [results EXCEPT ![b][i] = kept]
        BY <1>5, <2>1, <3>3 DEF Record, KeepUnlessCanceled
      <4> QED
        BY <1>d, <3>1, <4>1
    <3> QED
      BY <3>2, <3>3
  <2>6. \A v \in Workers \ {w} : Busy(v) =>
          progress'[job[v][1]][job[v][2]] = progress[job[v][1]][job[v][2]]
    <3> SUFFICES ASSUME NEW v \in Workers \ {w}, Busy(v)
        PROVE  progress'[job[v][1]][job[v][2]] = progress[job[v][1]][job[v][2]]
      OBVIOUS
    <3>1. PICK c \in Batches, j \in Providers : job[v] = <<c, j>>
      BY <1>e
    <3>2. <<c, j>> # <<b, i>>
      BY <1>a, <2>1, <2>2, <3>1 DEF OneHolder, Busy
    <3> QED
      BY <2>4, <3>1, <3>2
  <2>7. EventsInHand'
    BY <1>b, <2>2, <2>6 DEF EventsInHand, Busy
  <2>8. EventsTellResults'
    BY <1>b, <2>4, <2>5 DEF EventsTellResults
  <2>9. WorkersStay' /\ EventStep
    BY <1>b, <2>2, <2>3, <2>4, <2>5 DEF WorkersStay, EventStep
  <2> QED
    BY <2>7, <2>8, <2>9 DEF Told
<1>6. ASSUME NEW b \in Batches, BatchStep(b), \A w \in Workers : ~ Accept(b, w)
      PROVE  UNCHANGED <<checkVars, workerVars>>
  BY <1>6 DEF BatchStep, StopLoop, AddJob, Refuse, EnterSelect, Join, Return
<1>7. ASSUME NEW b \in Batches, Cancel(b) \/ CloseAdmission(b)
      PROVE  UNCHANGED <<checkVars, workerVars>>
  BY <1>7 DEF Cancel, CloseAdmission
<1>8. ASSUME PoolContextEnds \/ ClosePool \/ PoolClosed \/ UNCHANGED vars
      PROVE  UNCHANGED <<checkVars, workerVars>>
  BY <1>8 DEF PoolContextEnds, ClosePool, PoolClosed, vars
<1>9. ASSUME NEW w \in Workers, WorkerStep(w) PROVE Told' /\ EventStep
  BY <1>3, <1>4, <1>5, <1>9 DEF WorkerStep
<1> QED
  BY <1>1, <1>2, <1>6, <1>7, <1>8, <1>9 DEF Next

\* TypeOK holds of any number of batches and workers.
THEOREM TypeCorrect == Spec => []TypeOK
BY Invariance, PTL DEF IInv

\* Both invariants hold.
LEMMA Telling == Spec => [](IInv /\ Told)
<1>1. Init => IInv /\ Told
  BY InitIInv, InitTold
<1>2. IInv /\ Told /\ [Next]_vars => (IInv /\ Told)'
  BY ToldStep, TypeStep, OneHolderStep, EntriesStep, MarksStep, ReturnsStep DEF IInv, Marks, Returns
<1> QED
  BY <1>1, <1>2, PTL DEF Spec

\* An observer of a batch is told of every check in order, at most once, and the
\* truth: what it was told last is what the batch will report.
THEOREM EveryCheckIsToldOnce == Spec => []EventsTellResults /\ [][EventStep]_vars
<1>1. IInv /\ Told => EventsTellResults
  BY DEF Told
<1>2. IInv /\ Told /\ [Next]_vars => [EventStep]_vars
  BY ToldStep
<1> QED
  BY Telling, <1>1, <1>2, PTL DEF Spec

\* Batches and workers cannot deadlock: what a batch waits for is in the hands of
\* somebody, however many batches share the workers.
THEOREM NobodyWaitsInVain == Spec => []WaitsAreServed
<1>1. IInv /\ Told => WaitsAreServed
  <2> SUFFICES ASSUME IInv, Told, NEW b \in Batches
      PROVE  /\ stage[b] = "join" /\ wg[b] > 0 => \E w \in Workers : Busy(w) /\ job[w][1] = b
             /\ stage[b] = "select" => Refused(b) \/ \E w \in Workers : worker[w] # "gone"
    BY DEF WaitsAreServed
  <2>1. ASSUME stage[b] = "join", wg[b] > 0 PROVE \E w \in Workers : Busy(w) /\ job[w][1] = b
    <3>1. wg[b] = Cardinality(Holders(b)) + 0
      BY <2>1 DEF IInv, EntriesMatchJobs, Holders
    <3>2. Cardinality({}) = 0
      BY FS_EmptySet
    <3>3. Holders(b) # {}
      BY <2>1, <3>1, <3>2
    <3> QED
      BY <3>3 DEF Holders
  <2>2. poolDone \/ \E w \in Workers : worker[w] # "gone"
    BY PoolAssumption DEF Told, WorkersStay
  <2> QED
    BY <2>1, <2>2 DEF Refused
<1> QED
  BY Telling, <1>1, PTL
================================================================================
