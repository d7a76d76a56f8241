----------------------------- MODULE ProbePassProofs -----------------------------
(***************************************************************************)
(* The safety of passes of probes for any batch, with duplicates, and any  *)
(* number of slots and passes.                                             *)
(*                                                                         *)
(* The counters of a pass are tied to where its probes are: the wait group *)
(* to those that have not left, the semaphore to those that hold a token,  *)
(* and each tally to the probes that reached it.  So when the wait group   *)
(* is empty every probe is done, and the tallies add up to the batch.  A   *)
(* success too young to be probed again is in the cache, or about to be.   *)
(***************************************************************************)
EXTENDS ProbePass, FiniteSetTheorems, TLAPS

Ended == {"mark", "release", "leave", "done"}
Riding == {"health", "submitHealth", "submit", "bandwidth", "close"}

Types ==
  /\ probe \in [Slots -> Stages]
  /\ failure \in [Slots -> Failures \cup {"ok"}]
  /\ reports \in [Slots -> Failures \cup {"ok", "lost", "none"}]
  /\ batch \in Seq(Providers) /\ Len(batch) \in 0..MaxBatch
  /\ at \in 1..(Len(batch) + 1)
  /\ loop \in {"idle", "loop", "select", "wait"}
  /\ seen \subseteq Providers
  /\ sum \in [attempted : Nat, submitted : Nat, failed : Nat, skipped : Nat, notMeasured : Nat]

\* Where the probes of the pass are.
Launched == {k \in Slots : probe[k] # "none"}
Live     == {k \in Slots : probe[k] \notin {"none", "done"}}
Holding  == {k \in Slots : probe[k] \notin {"none", "leave", "done"}}
Begun    == {k \in Slots : probe[k] \notin {"none", "attempt"}}
Won      == {k \in Slots : probe[k] \in Ended /\ failure[k] = "ok"}
Gone     == {k \in Slots : probe[k] \in Ended /\ failure[k] # "ok"}

CountInv ==
  /\ wg = Cardinality(Live) /\ sem = Cardinality(Holding)
  /\ sum.attempted = Cardinality(Begun)
  /\ sum.submitted = Cardinality(Won) /\ sum.failed = Cardinality(Gone)

\* What the loop has made of the batch so far.
LoopInv ==
  /\ Launched \subseteq 1..(at - 1)
  /\ Cardinality(Launched) + sum.skipped =
       (IF loop \in {"loop", "select"} THEN at - 1 ELSE Len(batch))
  /\ loop = "select" =>
       at <= Len(batch) /\ batch[at] \in seen /\ \A k \in Launched : batch[k] # batch[at]
  /\ \A k \in Launched : batch[k] \in seen
  /\ \A j, k \in Launched : batch[j] = batch[k] => j = k
  /\ loop = "idle" => wg = 0

TunnelInv ==
  /\ \A k \in tunnels : k \in Slots /\ probe[k] \in Riding
  /\ \A k \in registry : k \in Slots /\ probe[k] \in Riding

ReportInv ==
  \A k \in Slots :
    /\ probe[k] \in {"tally"} \cup Ended => reports[k] \in {failure[k], "lost"}
    /\ probe[k] \notin {"tally"} \cup Ended => reports[k] = "none"
    /\ probe[k] \in {"bandwidth", "close", "report", "tally"} \cup Ended /\ failure[k] = "ok" =>
         k \in located

\* The probe of a cut pass: once there is one the loop asks for no slot again.
LateInv ==
  /\ \A j, k \in late : j = k
  /\ late # {} => cancelled /\ loop # "select"

IInv == Types /\ CountInv /\ LoopInv /\ TunnelInv /\ ReportInv

--------------------------------------------------------------------------------
LEMMA SlotSets ==
  ASSUME NEW S, S \subseteq Slots
  PROVE  /\ IsFiniteSet(S) /\ Cardinality(S) \in Nat
         /\ \A k : k \notin S => Cardinality(S \cup {k}) = Cardinality(S) + 1
         /\ \A k \in S : Cardinality(S \ {k}) = Cardinality(S) - 1
<1>1. IsFiniteSet(Slots)
  <2>1. MaxBatch \in Nat
    BY PassAssumption
  <2> QED BY <2>1, FS_Interval DEF Slots
<1>2. IsFiniteSet(S) /\ Cardinality(S) \in Nat
  BY <1>1, FS_Subset, FS_CardinalityType
<1>3. \A k : k \notin S => Cardinality(S \cup {k}) = Cardinality(S) + 1
  BY <1>2, FS_AddElement
<1>4. \A k \in S : Cardinality(S \ {k}) = Cardinality(S) - 1
  BY <1>2, FS_RemoveElement
<1> QED BY <1>2, <1>3, <1>4

LEMMA GoMoves ==
  ASSUME Types, NEW k \in Slots, NEW from, NEW to \in Stages, Go(k, from, to)
  PROVE  /\ probe[k] = from /\ probe'[k] = to /\ probe' \in [Slots -> Stages]
         /\ \A j \in Slots \ {k} : probe'[j] = probe[j]
  BY DEF Types, Go

\* A probe moves on from where it was launched, and fails with a class that stays.
LEMMA ProbeMoves ==
  ASSUME Types, NEW k \in Slots, ProbeOne(k)
  PROVE  /\ probe[k] \notin {"none", "done"} /\ probe'[k] \in Stages \ {"none"}
         /\ probe' \in [Slots -> Stages]
         /\ \A j \in Slots \ {k} : probe'[j] = probe[j] /\ failure'[j] = failure[j]
         /\ failure' \in [Slots -> Failures \cup {"ok"}]
         /\ UNCHANGED <<passes, batch, at, loop, seen>>
<1>0. Stages = {"none", "attempt", "open", "health", "submitHealth", "submit", "bandwidth",
                "close", "report", "tally", "mark", "release", "leave", "done"}
  BY DEF Stages
<1>1. CASE CountAttempt(k)
  BY <1>0, <1>1, GoMoves DEF CountAttempt, Types
<1>2. CASE Open(k)
  BY <1>0, <1>2, GoMoves DEF Open, Fail, Types, Failures, passVars
<1>3. CASE Health(k)
  BY <1>0, <1>3, GoMoves DEF Health, Fail, Types, Failures, passVars
<1>4. CASE SubmitHealth(k)
  BY <1>0, <1>4, GoMoves DEF SubmitHealth, Fail, Types, Failures, passVars
<1>5. CASE Submit(k)
  <2>1. UNCHANGED <<passes, batch, at, loop, seen>>
    BY <1>5 DEF Submit, passVars
  <2>2. CASE Go(k, "submit", "bandwidth") /\ UNCHANGED failure
    BY <1>0, <2>1, <2>2, GoMoves DEF Types
  <2>3. CASE Fail(k, "submit", "close", "submit_failed")
    BY <1>0, <2>1, <2>3, GoMoves DEF Fail, Types, Failures
  <2> QED BY <1>5, <2>2, <2>3 DEF Submit, SubmitExit
<1>6. CASE Bandwidth(k)
  BY <1>0, <1>6, GoMoves DEF Bandwidth, Types, passVars
<1>7. CASE Close(k)
  BY <1>0, <1>7, GoMoves DEF Close, Types, passVars
<1>8. CASE Report(k)
  BY <1>0, <1>8, GoMoves DEF Report, Types, passVars
<1>9. CASE Tally(k)
  BY <1>0, <1>9, GoMoves DEF Tally, Types
<1>10. CASE MarkProbed(k)
  BY <1>0, <1>10, GoMoves DEF MarkProbed, Types, passVars
<1>11. CASE Release(k)
  BY <1>0, <1>11, GoMoves DEF Release, Types
<1>12. CASE Leave(k)
  BY <1>0, <1>12, GoMoves DEF Leave, Types
<1> QED
  BY <1>1, <1>2, <1>3, <1>4, <1>5, <1>6, <1>7, <1>8, <1>9, <1>10, <1>11, <1>12 DEF ProbeOne

\* Between the attempt and the tally, where no counter moves.
Middle == {"open", "health", "submitHealth", "submit", "bandwidth", "close", "report", "tally"}

LEMMA MiddleMoves ==
  ASSUME Types, NEW k \in Slots, ProbeOne(k),
         ~ CountAttempt(k), ~ Tally(k), ~ MarkProbed(k), ~ Release(k), ~ Leave(k)
  PROVE  probe[k] \in Middle /\ probe'[k] \in Middle /\ UNCHANGED <<sem, wg, sum>>
<1>0. Middle \subseteq Stages
  BY DEF Middle, Stages
<1>1. PICK from \in Middle, to \in Middle : Go(k, from, to)
  BY DEF ProbeOne, Open, Health, SubmitHealth, Submit, SubmitExit, Bandwidth, Close, Report, Fail,
     Middle
<1>2. UNCHANGED <<sem, wg, sum>>
  BY DEF ProbeOne, Open, Health, SubmitHealth, Submit, Bandwidth, Close, Report, passVars
<1> QED BY <1>0, <1>1, <1>2, GoMoves

LEMMA ProbeCounts ==
  ASSUME Types, CountInv, NEW k \in Slots, ProbeOne(k)
  PROVE  CountInv' /\ sum' \in [attempted : Nat, submitted : Nat, failed : Nat, skipped : Nat,
                                notMeasured : Nat]
         /\ sum'.skipped = sum.skipped /\ Launched' = Launched
<1> DEFINE Sums == [attempted : Nat, submitted : Nat, failed : Nat, skipped : Nat, notMeasured : Nat]
<1>1. /\ probe[k] \notin {"none", "done"} /\ probe'[k] # "none"
      /\ \A j \in Slots \ {k} : probe'[j] = probe[j] /\ failure'[j] = failure[j]
  BY ProbeMoves
<1>2. Launched' = Launched
  BY <1>1 DEF Launched
<1>3. sum \in Sums /\ k \in Live
  BY <1>1 DEF Types, Live
<1>4. /\ Live \subseteq Slots /\ Holding \subseteq Slots /\ Begun \subseteq Slots
      /\ Won \subseteq Slots /\ Gone \subseteq Slots
  BY DEF Live, Holding, Begun, Won, Gone
<1>5. CASE CountAttempt(k)
  <2>1. probe[k] = "attempt" /\ probe'[k] = "open"
    BY <1>5 DEF CountAttempt, Go, Types
  <2>2. failure' = failure /\ UNCHANGED <<sem, wg>>
    BY <1>5 DEF CountAttempt
  <2>3. k \notin Begun /\ Begun' = Begun \cup {k}
    BY <1>1, <2>1 DEF Begun
  <2>4. Live' = Live /\ Holding' = Holding /\ Won' = Won /\ Gone' = Gone
    BY <1>1, <2>1 DEF Live, Holding, Won, Gone, Ended
  <2>5. Cardinality(Begun') = Cardinality(Begun) + 1
    BY <1>4, <2>3, SlotSets
  <2>6. /\ sum' \in Sums /\ sum'.attempted = sum.attempted + 1
        /\ sum'.submitted = sum.submitted /\ sum'.failed = sum.failed /\ sum'.skipped = sum.skipped
    BY <1>3, <1>5 DEF CountAttempt
  <2> QED BY <1>2, <2>2, <2>4, <2>5, <2>6 DEF CountInv
<1>6. CASE Tally(k)
  <2>1. probe[k] = "tally" /\ probe'[k] = (IF failure[k] = "ok" THEN "mark" ELSE "release")
    BY <1>6 DEF Tally, Go, Types
  <2>2. failure' = failure /\ UNCHANGED <<sem, wg>>
    BY <1>6 DEF Tally
  <2>3. Live' = Live /\ Holding' = Holding /\ Begun' = Begun
    BY <1>1, <2>1 DEF Live, Holding, Begun
  <2>4. CASE failure[k] = "ok"
    <3>1. k \notin Won /\ Won' = Won \cup {k} /\ Gone' = Gone
      BY <1>1, <2>1, <2>2, <2>4 DEF Won, Gone, Ended
    <3>2. Cardinality(Won') = Cardinality(Won) + 1
      BY <1>4, <3>1, SlotSets
    <3>3. /\ sum' \in Sums /\ sum'.submitted = sum.submitted + 1
          /\ sum'.attempted = sum.attempted /\ sum'.failed = sum.failed /\ sum'.skipped = sum.skipped
      BY <1>3, <1>6, <2>4 DEF Tally, Counted
    <3> QED BY <1>2, <2>2, <2>3, <3>1, <3>2, <3>3 DEF CountInv
  <2>5. CASE failure[k] # "ok"
    <3>1. k \notin Gone /\ Gone' = Gone \cup {k} /\ Won' = Won
      BY <1>1, <2>1, <2>2, <2>5 DEF Won, Gone, Ended
    <3>2. Cardinality(Gone') = Cardinality(Gone) + 1
      BY <1>4, <3>1, SlotSets
    <3>3. /\ sum' \in Sums /\ sum'.failed = sum.failed + 1
          /\ sum'.attempted = sum.attempted /\ sum'.submitted = sum.submitted
          /\ sum'.skipped = sum.skipped
      <4> DEFINE n == IF failure[k] = "run_not_measured" THEN sum.notMeasured + 1
                      ELSE sum.notMeasured
      <4>1. n \in Nat
        BY <1>3
      <4>2. sum' = [sum EXCEPT !.failed = sum.failed + 1, !.notMeasured = n]
        BY <1>3, <1>6, <2>5 DEF Tally, Counted
      <4> HIDE DEF n
      <4>3. sum = [attempted |-> sum.attempted, submitted |-> sum.submitted, failed |-> sum.failed,
                   skipped |-> sum.skipped, notMeasured |-> sum.notMeasured]
        BY <1>3
      <4>4. sum' = [attempted |-> sum.attempted, submitted |-> sum.submitted,
                    failed |-> sum.failed + 1, skipped |-> sum.skipped, notMeasured |-> n]
        BY <4>2, <4>3
      <4>5. sum.failed + 1 \in Nat /\ sum.attempted \in Nat /\ sum.submitted \in Nat
            /\ sum.skipped \in Nat
        BY <1>3
      <4> QED BY <4>1, <4>4, <4>5
    <3> QED BY <1>2, <2>2, <2>3, <3>1, <3>2, <3>3 DEF CountInv
  <2> QED BY <2>4, <2>5
<1>7. CASE MarkProbed(k)
  <2>1. probe[k] = "mark" /\ probe'[k] = "release" /\ failure' = failure
    BY <1>7 DEF MarkProbed, Go, Types
  <2>2. Live' = Live /\ Holding' = Holding /\ Begun' = Begun /\ Won' = Won /\ Gone' = Gone
    BY <1>1, <2>1 DEF Live, Holding, Begun, Won, Gone, Ended
  <2> QED BY <1>2, <1>3, <1>7, <2>2 DEF MarkProbed, passVars, CountInv
<1>8. CASE Release(k)
  <2>1. probe[k] = "release" /\ probe'[k] = "leave" /\ failure' = failure
    BY <1>8 DEF Release, Go, Types
  <2>2. Live' = Live /\ Begun' = Begun /\ Won' = Won /\ Gone' = Gone
    BY <1>1, <2>1 DEF Live, Begun, Won, Gone, Ended
  <2>3. k \in Holding /\ Holding' = Holding \ {k}
    BY <1>1, <2>1 DEF Holding
  <2>4. Cardinality(Holding') = Cardinality(Holding) - 1
    BY <1>4, <2>3, SlotSets
  <2> QED BY <1>2, <1>3, <1>8, <2>2, <2>4 DEF Release, ReturnToken, CountInv
<1>9. CASE Leave(k)
  <2>1. probe[k] = "leave" /\ probe'[k] = "done" /\ failure' = failure
    BY <1>9 DEF Leave, Go, Types, Stages
  <2>2. Holding' = Holding /\ Begun' = Begun /\ Won' = Won /\ Gone' = Gone
    BY <1>1, <2>1 DEF Holding, Begun, Won, Gone, Ended
  <2>3. k \in Live /\ Live' = Live \ {k}
    BY <1>1, <2>1 DEF Live
  <2>4. Cardinality(Live') = Cardinality(Live) - 1
    BY <1>4, <2>3, SlotSets
  <2> QED BY <1>2, <1>3, <1>9, <2>2, <2>4 DEF Leave, CountInv
<1>10. CASE ~ CountAttempt(k) /\ ~ Tally(k) /\ ~ MarkProbed(k) /\ ~ Release(k) /\ ~ Leave(k)
  <2>1. probe[k] \in Middle /\ probe'[k] \in Middle /\ UNCHANGED <<sem, wg, sum>>
    BY <1>10, MiddleMoves
  <2>2. Live' = Live /\ Holding' = Holding /\ Begun' = Begun /\ Won' = Won /\ Gone' = Gone
    BY <1>1, <2>1 DEF Live, Holding, Begun, Won, Gone, Ended, Middle
  <2> QED BY <1>2, <1>3, <2>1, <2>2 DEF CountInv
<1> QED BY <1>5, <1>6, <1>7, <1>8, <1>9, <1>10

\* A tunnel and its registry entry are a probe's that rides it.
LEMMA ProbeTunnels ==
  ASSUME Types, TunnelInv, NEW k \in Slots, ProbeOne(k)
  PROVE  TunnelInv'
<1>1. /\ probe[k] \notin {"none", "done"} /\ probe'[k] # "none"
      /\ \A j \in Slots \ {k} : probe'[j] = probe[j]
  BY ProbeMoves
<1>2. CASE Open(k)
  <2>1. \/ probe'[k] = "health"
        \/ UNCHANGED tunnelVars /\ probe[k] = "open"
    BY <1>2 DEF Open, Fail, Go, Types
  <2>2. tunnels' \subseteq tunnels \cup {k} /\ registry' \subseteq registry \cup {k}
    BY <1>2 DEF Open, tunnelVars
  <2> QED BY <1>1, <2>1, <2>2 DEF TunnelInv, tunnelVars, Riding
<1>3. CASE Close(k)
  BY <1>1, <1>3 DEF Close, CloseTunnel, TunnelInv
<1>4. CASE ~ Open(k) /\ ~ Close(k)
  <2>1. UNCHANGED tunnelVars
    BY <1>4 DEF ProbeOne, CountAttempt, Health, SubmitHealth, Submit, Bandwidth, Report, Tally,
       MarkProbed, Release, Leave
  <2>2. probe[k] \in Riding => probe'[k] \in Riding
    BY <1>4 DEF ProbeOne, CountAttempt, Health, SubmitHealth, Submit, SubmitExit, Bandwidth, Report,
       Tally, MarkProbed, Release, Leave, Fail, Go, Riding, Types
  <2> QED BY <1>1, <2>1, <2>2 DEF TunnelInv, tunnelVars
<1> QED BY <1>2, <1>3, <1>4

\* A probe that has no failure has its exit stored, and its report says what it came to.
LEMMA ProbeReports ==
  ASSUME Types, ReportInv, NEW k \in Slots, ProbeOne(k)
  PROVE  ReportInv' /\ reports' \in [Slots -> Failures \cup {"ok", "lost", "none"}]
<1> DEFINE Past == {"bandwidth", "close", "report", "tally"} \cup Ended
<1>1. \A j \in Slots \ {k} : probe'[j] = probe[j] /\ failure'[j] = failure[j]
  BY ProbeMoves
<1>2. /\ \A j \in Slots \ {k} : reports'[j] = reports[j]
      /\ reports' \in [Slots -> Failures \cup {"ok", "lost", "none"}]
      /\ located \subseteq located'
  <2>1. CASE Report(k)
    BY <2>1 DEF Report, ReportAttempt, ReportOf, Types
  <2>2. CASE Submit(k)
    BY <2>2 DEF Submit, SubmitExit, Types
  <2>3. CASE UNCHANGED serverVars
    BY <2>3 DEF serverVars, Types
  <2> QED
    BY <2>1, <2>2, <2>3 DEF ProbeOne, CountAttempt, Open, Health, SubmitHealth, Bandwidth, Close,
       Tally, MarkProbed, Release, Leave
<1>3. probe'[k] \in Past /\ failure'[k] = "ok" => k \in located'
  <2>1. CASE Submit(k)
    BY <2>1 DEF Submit, SubmitExit, Fail, Go, Types, Failures
  <2>2. CASE Open(k) \/ Health(k) \/ SubmitHealth(k) \/ CountAttempt(k)
    BY <2>2 DEF Open, Health, SubmitHealth, CountAttempt, Fail, Go, Types, Failures, Ended
  <2>3. CASE Bandwidth(k) \/ Close(k) \/ Report(k) \/ Tally(k) \/ MarkProbed(k) \/ Release(k)
             \/ Leave(k)
    <3>1. probe[k] \in Past /\ failure' = failure
      BY <2>3 DEF Bandwidth, Close, Report, Tally, MarkProbed, Release, Leave, Go, Ended
    <3> QED BY <1>2, <3>1 DEF ReportInv
  <2> QED BY <2>1, <2>2, <2>3 DEF ProbeOne
<1>4. /\ probe'[k] \in {"tally"} \cup Ended => reports'[k] \in {failure'[k], "lost"}
      /\ probe'[k] \notin {"tally"} \cup Ended => reports'[k] = "none"
  <2>1. CASE Report(k)
    <3>1. reports'[k] \in {failure[k], "lost"} /\ failure' = failure
      BY <2>1 DEF Report, ReportAttempt, ReportOf, Types
    <3>2. probe'[k] = "tally"
      BY <2>1 DEF Report, Go, Types
    <3> QED BY <3>1, <3>2
  <2>2. CASE Tally(k) \/ MarkProbed(k) \/ Release(k) \/ Leave(k)
    <3>1. /\ probe[k] \in {"tally"} \cup Ended /\ probe'[k] \in {"tally"} \cup Ended
          /\ failure' = failure /\ reports' = reports
      BY <2>2 DEF Tally, MarkProbed, Release, Leave, Go, Ended, serverVars, Types
    <3> QED BY <3>1 DEF ReportInv
  <2>3. CASE ~ Report(k) /\ ~ Tally(k) /\ ~ MarkProbed(k) /\ ~ Release(k) /\ ~ Leave(k)
    <3>1. reports' = reports
      BY <2>3 DEF ProbeOne, CountAttempt, Open, Health, SubmitHealth, Submit, Bandwidth, Close,
         serverVars
    <3>2. probe[k] \notin {"tally"} \cup Ended /\ probe'[k] \notin {"tally"} \cup Ended
      BY <2>3 DEF ProbeOne, CountAttempt, Open, Health, SubmitHealth, Submit, SubmitExit, Bandwidth,
         Close, Fail, Go, Types, Ended
    <3> QED BY <3>1, <3>2 DEF ReportInv
  <2> QED BY <2>1, <2>2, <2>3
<1> QED BY <1>1, <1>2, <1>3, <1>4 DEF ReportInv

\* The loop has let a probe go, and no probe of it is there again.
LEMMA ProbeLoop ==
  ASSUME Types, CountInv, LoopInv, ReportInv, NEW k \in Slots, ProbeOne(k)
  PROVE  LoopInv' /\ Types'
<1>1. /\ probe[k] \notin {"none", "done"} /\ UNCHANGED <<batch, at, loop, seen>>
      /\ probe' \in [Slots -> Stages] /\ failure' \in [Slots -> Failures \cup {"ok"}]
  BY ProbeMoves
<1>2. /\ Launched' = Launched /\ sum'.skipped = sum.skipped
      /\ sum' \in [attempted : Nat, submitted : Nat, failed : Nat, skipped : Nat, notMeasured : Nat]
  BY ProbeCounts
<1>3. loop # "idle"
  <2>1. k \in Live /\ Live \subseteq Slots
    BY <1>1 DEF Live
  <2>2. Cardinality(Live) # 0
    <3>1. Cardinality(Live \ {k}) = Cardinality(Live) - 1 /\ Cardinality(Live \ {k}) \in Nat
      BY <2>1, SlotSets
    <3>2. Cardinality(Live) \in Nat
      BY <2>1, SlotSets
    <3> QED BY <3>1, <3>2
  <2> QED BY <2>2 DEF CountInv, LoopInv
<1>4. reports' \in [Slots -> Failures \cup {"ok", "lost", "none"}]
  BY ProbeReports
<1>5. Types'
  BY <1>1, <1>2, <1>4 DEF Types
<1>6. LoopInv'
  BY <1>1, <1>2, <1>3 DEF LoopInv
<1> QED BY <1>5, <1>6


\* Once the wait group is empty no probe is under way and nothing is open.
LEMMA Empty ==
  ASSUME Types, CountInv, TunnelInv, wg = 0
  PROVE  Live = {} /\ Holding = {} /\ sem = 0 /\ tunnels = {} /\ registry = {}
<1>1. Live \subseteq Slots /\ Holding \subseteq Live
  BY DEF Live, Holding
<1>2. Live = {}
  <2>1. IsFiniteSet(Live) /\ Cardinality(Live) = 0
    BY <1>1, SlotSets DEF CountInv
  <2> QED BY <2>1, FS_EmptySet
<1>3. Holding = {} /\ sem = 0
  <2>1. Holding = {}
    BY <1>1, <1>2
  <2> QED BY <2>1, FS_EmptySet DEF CountInv
<1>4. tunnels = {} /\ registry = {}
  BY <1>2 DEF TunnelInv, Live, Riding
<1> QED BY <1>2, <1>3, <1>4

LEMMA StartKeeps ==
  ASSUME IInv, StartPass
  PROVE  IInv'
<1>1. tunnels = {} /\ registry = {}
  BY Empty DEF IInv, LoopInv, StartPass
<1>2. /\ loop' = "loop" /\ at' = 1 /\ seen' = {} /\ sem' = 0 /\ wg' = 0 /\ sum' = NoSummary
      /\ probe' = [k \in Slots |-> "none"] /\ failure' = [k \in Slots |-> "ok"]
      /\ reports' = [k \in Slots |-> "none"] /\ tunnels' = {} /\ registry' = {}
  BY <1>1 DEF StartPass, tunnelVars
<1>3. batch' \in Seq(Providers) /\ Len(batch') \in 1..MaxBatch
  <2>1. PICK n \in Slots : batch' \in [1..n -> Providers]
    BY DEF StartPass
  <2> QED BY <2>1, PassAssumption DEF Slots
<1>4. Types'
  BY <1>2, <1>3, PassAssumption DEF Types, Stages, NoSummary
<1>5. /\ Live' = {} /\ Holding' = {} /\ Begun' = {} /\ Won' = {} /\ Gone' = {} /\ Launched' = {}
  BY <1>2 DEF Live, Holding, Begun, Won, Gone, Launched, Ended
<1>6. CountInv'
  BY <1>2, <1>5, FS_EmptySet DEF CountInv, NoSummary
<1>7. LoopInv'
  BY <1>2, <1>5, FS_EmptySet DEF LoopInv, NoSummary
<1>8. TunnelInv'
  BY <1>2 DEF TunnelInv
<1>9. ReportInv'
  BY <1>2 DEF ReportInv, Ended
<1> QED BY <1>4, <1>6, <1>7, <1>8, <1>9 DEF IInv

LEMMA LaunchKeeps ==
  ASSUME IInv, Launch
  PROVE  IInv'
<1>1. /\ loop = "select" /\ loop' = "loop" /\ sem' = sem + 1 /\ wg' = wg + 1 /\ at' = at + 1
      /\ probe' = [probe EXCEPT ![at] = "attempt"]
      /\ UNCHANGED <<batch, seen, sum, failure, tunnels, registry, located, reports>>
  BY DEF Launch, Advance, tunnelVars, serverVars
<1>2. /\ at \in Slots /\ at <= Len(batch) /\ \A k \in Launched : batch[k] # batch[at]
      /\ Launched \subseteq 1..(at - 1)
  <2>1. Launched \subseteq 1..(at - 1) /\ at <= Len(batch)
        /\ \A k \in Launched : batch[k] # batch[at]
    BY <1>1 DEF IInv, LoopInv
  <2>2. at \in Slots
    <3>1. at \in Nat \ {0} /\ Len(batch) \in 0..MaxBatch /\ MaxBatch \in Nat
      BY PassAssumption DEF IInv, Types
    <3> QED BY <2>1, <3>1 DEF Slots
  <2> QED BY <2>1, <2>2
<1>3. /\ probe[at] = "none" /\ probe'[at] = "attempt" /\ at \notin Launched
      /\ \A k \in Slots \ {at} : probe'[k] = probe[k]
  <2>1. at \notin Launched
    BY <1>2 DEF IInv, Types
  <2>2. probe \in [Slots -> Stages]
    BY DEF IInv, Types
  <2> QED BY <1>1, <1>2, <2>1, <2>2 DEF Launched
<1>4. batch[at] \in seen
  BY <1>1 DEF IInv, LoopInv
<1>5. Types'
  <2>1. at' \in 1..(Len(batch') + 1)
    BY <1>1, <1>2 DEF IInv, Types
  <2>2. probe' \in [Slots -> Stages]
    BY <1>1 DEF IInv, Types, Stages
  <2> QED BY <1>1, <2>1, <2>2 DEF IInv, Types
<1>6. /\ Launched' = Launched \cup {at} /\ Live' = Live \cup {at} /\ Holding' = Holding \cup {at}
      /\ at \notin Live /\ at \notin Holding
      /\ Begun' = Begun /\ Won' = Won /\ Gone' = Gone
  BY <1>1, <1>2, <1>3 DEF Launched, Live, Holding, Begun, Won, Gone, Ended
<1>7. /\ Cardinality(Launched') = Cardinality(Launched) + 1
      /\ Cardinality(Live') = Cardinality(Live) + 1
      /\ Cardinality(Holding') = Cardinality(Holding) + 1
  <2>1. Launched \subseteq Slots /\ Live \subseteq Slots /\ Holding \subseteq Slots
    BY DEF Launched, Live, Holding
  <2> QED BY <1>3, <1>6, <2>1, SlotSets
<1>8. CountInv'
  BY <1>1, <1>6, <1>7 DEF IInv, CountInv
<1>9. LoopInv'
  <2>1. Launched' \subseteq 1..(at' - 1)
    BY <1>1, <1>2, <1>6 DEF IInv, Types
  <2>2. Cardinality(Launched') + sum'.skipped = at' - 1
    <3>1. Cardinality(Launched) + sum.skipped = at - 1 /\ Cardinality(Launched) \in Nat
      <4>1. Launched \subseteq Slots
        BY DEF Launched
      <4> QED BY <1>1, <4>1, SlotSets DEF IInv, LoopInv
    <3>2. sum.skipped \in Nat /\ at \in Nat
      BY DEF IInv, Types
    <3> QED BY <1>1, <1>7, <3>1, <3>2
  <2>3. /\ \A k \in Launched' : batch'[k] \in seen'
        /\ \A j, k \in Launched' : batch'[j] = batch'[k] => j = k
    BY <1>1, <1>2, <1>4, <1>6 DEF IInv, LoopInv
  <2> QED BY <1>1, <2>1, <2>2, <2>3 DEF LoopInv
<1>10. TunnelInv'
  BY <1>1, <1>3 DEF IInv, TunnelInv, Riding
<1>11. ReportInv'
  BY <1>1, <1>3 DEF IInv, ReportInv, Ended
<1> QED BY <1>5, <1>8, <1>9, <1>10, <1>11 DEF IInv

\* The turns that launch nothing.
LEMMA TurnKeeps ==
  ASSUME IInv, SkipDuplicate \/ StopPass \/ SkipFresh \/ AskForSlot \/ EndOfBatch \/ EndPass
  PROVE  IInv'
<1> DEFINE Sums == [attempted : Nat, submitted : Nat, failed : Nat, skipped : Nat, notMeasured : Nat]
<1>1. UNCHANGED <<batch, sem, wg, probe, failure, exitIp, tunnels, registry, located, reports>>
  BY DEF SkipDuplicate, StopPass, SkipFresh, AskForSlot, EndOfBatch, EndPass, probeVars, tunnelVars,
     serverVars
<1>2. /\ Launched' = Launched /\ Live' = Live /\ Holding' = Holding /\ Begun' = Begun
      /\ Won' = Won /\ Gone' = Gone
  BY <1>1 DEF Launched, Live, Holding, Begun, Won, Gone
<1>3. TunnelInv' /\ ReportInv'
  BY <1>1 DEF IInv, TunnelInv, ReportInv
<1>4. Launched \subseteq Slots /\ Cardinality(Launched) \in Nat
  BY SlotSets DEF Launched
<1>5. /\ batch \in Seq(Providers) /\ Len(batch) \in Nat /\ at \in 1..(Len(batch) + 1) /\ sum \in Sums
      /\ seen \subseteq Providers /\ Launched \subseteq 1..(at - 1)
      /\ \A j, k \in Launched : batch[j] = batch[k] => j = k
      /\ \A k \in Launched : batch[k] \in seen
  BY DEF IInv, Types, LoopInv
<1>6. loop \in {"loop", "select"} => Cardinality(Launched) + sum.skipped = at - 1
  BY DEF IInv, LoopInv
<1>7. at <= Len(batch) => batch[at] \in Providers
  BY <1>5
<1>8. ASSUME NEW n \in Nat, Skip(n)
      PROVE  /\ sum' \in Sums /\ sum'.skipped = sum.skipped + n /\ sum'.attempted = sum.attempted
             /\ sum'.submitted = sum.submitted /\ sum'.failed = sum.failed
  <2>1. sum' = [sum EXCEPT !.skipped = sum.skipped + n] /\ sum.skipped + n \in Nat
    BY <1>5, <1>8 DEF Skip
  <2> QED BY <1>5, <2>1
<1>9. CASE SkipDuplicate
  <2>1. /\ loop = "loop" /\ at <= Len(batch) /\ loop' = "loop" /\ at' = at + 1 /\ seen' = seen /\ Skip(1)
    BY <1>9 DEF SkipDuplicate, Duplicate, Advance
  <2>2. at' \in 1..(Len(batch') + 1) /\ Launched \subseteq 1..(at' - 1)
    BY <1>1, <1>5, <2>1
  <2>3. Types' /\ CountInv'
    BY <1>1, <1>2, <1>8, <2>1, <2>2 DEF IInv, Types, CountInv
  <2>4. Cardinality(Launched') + sum'.skipped = at' - 1
    <3>1. sum'.skipped = sum.skipped + 1 /\ sum.skipped \in Nat
      BY <1>5, <1>8, <2>1
    <3>2. Cardinality(Launched) + sum.skipped = at - 1 /\ at \in Nat /\ at' = at + 1
      BY <1>5, <1>6, <2>1
    <3>3. Cardinality(Launched') = Cardinality(Launched) /\ Cardinality(Launched) \in Nat
      BY <1>2, <1>4
    <3> QED BY <3>1, <3>2, <3>3
  <2>5. LoopInv'
    BY <1>1, <1>2, <1>5, <2>1, <2>2, <2>4 DEF LoopInv
  <2> QED BY <1>3, <2>3, <2>5 DEF IInv
<1>10. CASE SkipFresh
  <2>1. /\ loop = "loop" /\ at <= Len(batch) /\ loop' = "loop" /\ at' = at + 1 /\ Skip(1)
        /\ seen' = seen \cup {batch[at]}
    BY <1>10 DEF SkipFresh, Advance
  <2>2. at' \in 1..(Len(batch') + 1) /\ Launched \subseteq 1..(at' - 1) /\ seen' \subseteq Providers
    BY <1>1, <1>5, <1>7, <2>1
  <2>3. Types' /\ CountInv'
    BY <1>1, <1>2, <1>8, <2>1, <2>2 DEF IInv, Types, CountInv
  <2>4. Cardinality(Launched') + sum'.skipped = at' - 1
    <3>1. sum'.skipped = sum.skipped + 1 /\ sum.skipped \in Nat
      BY <1>5, <1>8, <2>1
    <3>2. Cardinality(Launched) + sum.skipped = at - 1 /\ at \in Nat /\ at' = at + 1
      BY <1>5, <1>6, <2>1
    <3>3. Cardinality(Launched') = Cardinality(Launched) /\ Cardinality(Launched) \in Nat
      BY <1>2, <1>4
    <3> QED BY <3>1, <3>2, <3>3
  <2>5. LoopInv'
    BY <1>1, <1>2, <1>5, <2>1, <2>2, <2>4 DEF LoopInv
  <2> QED BY <1>3, <2>3, <2>5 DEF IInv
<1>11. CASE StopPass
  <2>1. /\ loop \in {"loop", "select"} /\ at <= Len(batch) /\ loop' = "wait" /\ at' = at
        /\ Skip(Len(batch) - at + 1) /\ seen' = seen \cup {batch[at]}
    BY <1>11 DEF IInv, LoopInv, StopPass, StayAt
  <2>2. Len(batch) - at + 1 \in Nat /\ seen' \subseteq Providers
    BY <1>5, <1>7, <2>1
  <2>3. Types' /\ CountInv'
    BY <1>1, <1>2, <1>8, <2>1, <2>2 DEF IInv, Types, CountInv
  <2>4. Cardinality(Launched') + sum'.skipped = Len(batch')
    <3>1. sum'.skipped = sum.skipped + (Len(batch) - at + 1)
      BY <1>8, <2>1, <2>2
    <3>2. sum.skipped \in Nat
      BY <1>5
    <3> QED BY <1>1, <1>2, <1>4, <1>5, <1>6, <2>1, <3>1, <3>2
  <2>5. LoopInv'
    BY <1>1, <1>2, <1>5, <2>1, <2>4 DEF LoopInv
  <2> QED BY <1>3, <2>3, <2>5 DEF IInv
<1>12. CASE AskForSlot
  <2>1. /\ loop = "loop" /\ at <= Len(batch) /\ batch[at] \notin seen /\ loop' = "select" /\ at' = at
        /\ sum' = sum /\ seen' = seen \cup {batch[at]}
    BY <1>12 DEF AskForSlot, StayAt, Duplicate, SeenBefore
  <2>2. seen' \subseteq Providers
    BY <1>5, <1>7, <2>1
  <2>3. Types' /\ CountInv'
    BY <1>1, <1>2, <2>1, <2>2 DEF IInv, Types, CountInv
  <2>4. LoopInv'
    BY <1>1, <1>2, <1>4, <1>5, <1>6, <2>1 DEF LoopInv
  <2> QED BY <1>3, <2>3, <2>4 DEF IInv
<1>13. CASE EndOfBatch
  <2>1. loop = "loop" /\ at > Len(batch) /\ loop' = "wait" /\ at' = at /\ sum' = sum /\ seen' = seen
    BY <1>13 DEF EndOfBatch, StayAt
  <2>2. Types' /\ CountInv'
    BY <1>1, <1>2, <2>1 DEF IInv, Types, CountInv
  <2>3. at - 1 = Len(batch)
    BY <1>5, <2>1
  <2>4. LoopInv'
    BY <1>1, <1>2, <1>4, <1>5, <1>6, <2>1, <2>3 DEF LoopInv
  <2> QED BY <1>3, <2>2, <2>4 DEF IInv
<1>14. CASE EndPass
  <2>1. loop = "wait" /\ wg = 0 /\ loop' = "idle" /\ at' = at /\ sum' = sum /\ seen' = seen
    BY <1>14 DEF EndPass, StayAt, AllDone
  <2>2. Types' /\ CountInv'
    BY <1>1, <1>2, <2>1 DEF IInv, Types, CountInv
  <2>3. Cardinality(Launched) + sum.skipped = Len(batch)
    BY <2>1 DEF IInv, LoopInv
  <2>4. LoopInv'
    BY <1>1, <1>2, <1>4, <1>5, <2>1, <2>3 DEF LoopInv
  <2> QED BY <1>3, <2>2, <2>4 DEF IInv
<1> QED BY <1>9, <1>10, <1>11, <1>12, <1>13, <1>14

LEMMA Inductive ==
  /\ Init => IInv
  /\ IInv /\ [Next]_vars => IInv'
<1>1. ASSUME Init PROVE IInv
  <2>1. Types
    BY <1>1, PassAssumption DEF Init, Types, Stages, NoSummary
  <2>2. Live = {} /\ Holding = {} /\ Begun = {} /\ Won = {} /\ Gone = {} /\ Launched = {}
    BY <1>1 DEF Init, Live, Holding, Begun, Won, Gone, Launched, Ended
  <2>3. CountInv
    BY <1>1, <2>2, FS_EmptySet DEF Init, CountInv, NoSummary
  <2>4. LoopInv
    BY <1>1, <2>2, FS_EmptySet DEF Init, LoopInv, NoSummary
  <2>5. TunnelInv /\ ReportInv
    BY <1>1 DEF Init, TunnelInv, ReportInv, Ended
  <2> QED BY <2>1, <2>3, <2>4, <2>5 DEF IInv
<1>2. ASSUME IInv, [Next]_vars PROVE IInv'
  <2>1. CASE StartPass
    BY <1>2, <2>1, StartKeeps
  <2>2. CASE Run
    BY <1>2, <2>2, LaunchKeeps, TurnKeeps DEF Run
  <2>3. ASSUME NEW k \in Slots, ProbeOne(k) PROVE IInv'
    BY <1>2, <2>3, ProbeLoop, ProbeCounts, ProbeTunnels, ProbeReports DEF IInv
  <2>4. CASE Cancel \/ Tick \/ UNCHANGED vars
    <3>1. UNCHANGED <<passVars, probeVars, tunnelVars, serverVars>>
      BY <2>4 DEF Cancel, Tick, vars
    <3>2. UNCHANGED <<batch, at, loop, seen, sem, wg, sum, probe, failure, tunnels, registry,
                      located, reports>>
      BY <3>1 DEF passVars, probeVars, tunnelVars, serverVars
    <3>3. /\ Launched' = Launched /\ Live' = Live /\ Holding' = Holding /\ Begun' = Begun
          /\ Won' = Won /\ Gone' = Gone
      BY <3>2 DEF Launched, Live, Holding, Begun, Won, Gone
    <3> QED BY <1>2, <3>2, <3>3 DEF IInv, Types, CountInv, LoopInv, TunnelInv, ReportInv
  <2> QED BY <1>2, <2>1, <2>2, <2>3, <2>4 DEF Next
<1> QED BY <1>1, <1>2

LEMMA Invariance == Spec => []IInv
  BY Inductive, PTL DEF Spec

\* No provider has two tunnels of a pass, whatever duplicates its batch holds
\* (schedule.go:144-148).
THEOREM DuplicatesAreSkipped == Spec => []OneTunnelPerProvider
<1>1. IInv => OneTunnelPerProvider
  <2>1. SUFFICES ASSUME IInv PROVE OneTunnelPerProvider
    OBVIOUS
  <2>2. tunnels \subseteq Launched
    BY <2>1 DEF IInv, TunnelInv, Launched, Riding
  <2> QED BY <2>1, <2>2 DEF IInv, LoopInv, OneTunnelPerProvider
<1> QED BY <1>1, Invariance, PTL

\* Every way out of a probe sends its report, after its tunnel is closed and in its
\* class, as a success only with its exit stored: only a call that failed leaves a
\* provider without a record (prober.go:260-269, 440-454).
THEOREM AttemptsAreReported == Spec => []EveryAttemptIsReported
<1>1. ASSUME IInv PROVE EveryAttemptIsReported
  <2>1. SUFFICES ASSUME NEW k \in Slots
                 PROVE  IF probe[k] \in {"tally"} \cup Ended
                        THEN /\ k \notin tunnels
                             /\ reports[k] \in {failure[k], "lost"}
                             /\ reports[k] = "ok" => k \in located
                        ELSE reports[k] = "none"
    BY DEF EveryAttemptIsReported, Ended
  <2>2. CASE probe[k] \in {"tally"} \cup Ended
    <3>1. k \notin tunnels
      BY <1>1, <2>2 DEF IInv, TunnelInv, Ended, Riding
    <3>2. reports[k] \in {failure[k], "lost"} /\ (failure[k] = "ok" => k \in located)
      BY <1>1, <2>2 DEF IInv, ReportInv
    <3> QED BY <2>2, <3>1, <3>2
  <2>3. CASE probe[k] \notin {"tally"} \cup Ended
    BY <1>1, <2>3 DEF IInv, ReportInv
  <2> QED BY <2>2, <2>3
<1> QED BY <1>1, Invariance, PTL

\* The loop reads the context before it asks for a slot, so a cut finds it asking
\* for one slot at most.
LEMMA LateStep ==
  ASSUME LateInv, [Next]_vars
  PROVE  LateInv'
<1>1. CASE Launch
  <2>1. loop = "select" /\ loop' = "loop" /\ cancelled' = cancelled
    BY <1>1 DEF Launch, Advance
  <2>2. late = {}
    BY <2>1 DEF LateInv
  <2>3. late' = IF cancelled THEN {at} ELSE {}
    BY <1>1, <2>2 DEF Launch
  <2> QED BY <2>1, <2>3 DEF LateInv
<1>2. CASE StartPass
  BY <1>2 DEF StartPass, LateInv
<1>3. CASE AskForSlot
  BY <1>3 DEF AskForSlot, GiveUp, LateInv
<1>4. CASE SkipDuplicate \/ StopPass \/ SkipFresh \/ EndOfBatch \/ EndPass
  BY <1>4 DEF SkipDuplicate, StopPass, SkipFresh, EndOfBatch, EndPass, StayAt, Advance, LateInv
<1>5. ASSUME NEW k \in Slots, ProbeOne(k) PROVE LateInv'
  <2>1. UNCHANGED <<late, cancelled, loop>>
    BY <1>5 DEF ProbeOne, CountAttempt, Open, Health, SubmitHealth, Submit, Bandwidth, Close, Report,
       Tally, MarkProbed, Release, Leave, passVars
  <2> QED BY <2>1 DEF LateInv
<1>6. CASE Cancel \/ Tick \/ UNCHANGED vars
  BY <1>6 DEF Cancel, Tick, vars, passVars, LateInv
<1> QED BY <1>1, <1>2, <1>3, <1>4, <1>5, <1>6 DEF Next, Run

LEMMA LateInvariant == Spec => []LateInv
<1>1. Init => LateInv
  BY DEF Init, LateInv
<1> QED BY <1>1, LateStep, PTL DEF Spec

\* A returned pass holds nothing, and its summary adds up to its batch, however
\* many probes ran at once and wherever the pass was cut off; and one probe at most
\* begins after the cut (schedule.go:132-230).
THEOREM PassesEndClean == Spec => []PassLeavesNothing
<1>1. ASSUME IInv, LateInv, Returned PROVE PassLeavesNothing
  <2>1. wg = 0 /\ loop = "idle"
    BY <1>1 DEF Returned, IInv, LoopInv
  <2>2. Live = {} /\ sem = 0 /\ tunnels = {} /\ registry = {}
    BY <1>1, <2>1, Empty DEF IInv
  <2>3. Begun = Launched /\ Won \cup Gone = Begun /\ Won \cap Gone = {}
    BY <2>2 DEF Live, Begun, Launched, Won, Gone, Ended
  <2>4. IsFiniteSet(Won) /\ IsFiniteSet(Gone)
    BY SlotSets DEF Won, Gone
  <2>5. Cardinality(Won \cup Gone) = Cardinality(Won) + Cardinality(Gone)
    <3>1. Cardinality(Won \cap Gone) = 0 /\ Cardinality(Won) \in Nat /\ Cardinality(Gone) \in Nat
      BY <2>3, <2>4, FS_EmptySet, FS_CardinalityType
    <3>2. Cardinality(Won \cup Gone)
            = Cardinality(Won) + Cardinality(Gone) - Cardinality(Won \cap Gone)
      BY <2>4, FS_Union
    <3> QED BY <3>1, <3>2
  <2>6. sum.submitted + sum.failed = sum.attempted
    BY <1>1, <2>3, <2>5 DEF IInv, CountInv
  <2>7. sum.attempted + sum.skipped = Len(batch)
    BY <1>1, <2>1, <2>3 DEF IInv, CountInv, LoopInv
  <2> QED BY <1>1, <2>2, <2>6, <2>7 DEF PassLeavesNothing, LateInv
<1>2. IInv /\ LateInv => PassLeavesNothing
  BY <1>1 DEF PassLeavesNothing
<1> QED BY <1>2, Invariance, LateInvariant, PTL

--------------------------------------------------------------------------------
\* A provider whose success is young, and so may not be probed.
Young(id) == succeeded[id] # Never /\ now - succeeded[id] < CacheTtl
Marking(id) == \E k \in Slots : probe[k] = "mark" /\ batch[k] = id

\* The cache knows of every young success, but for one about to be marked; and a
\* provider the loop waits to launch has none.
CacheInv ==
  /\ now \in Nat
  /\ \A id \in Providers :
       /\ succeeded[id] \in Nat \cup {Never} /\ probed[id] \in Nat \cup {Never}
       /\ succeeded[id] <= now
       /\ Young(id) /\ ~ Marking(id) => probed[id] # Never /\ probed[id] >= succeeded[id]
  /\ succeeded \in [Providers -> Nat \cup {Never}] /\ probed \in [Providers -> Nat \cup {Never}]
  /\ loop = "select" => ~ Young(batch[at])

LEMMA CacheStep ==
  ASSUME IInv, CacheInv, [Next]_vars
  PROVE  CacheInv'
<1> USE PassAssumption DEF Never
<1>1. CASE StartPass
  <2>1. \A k \in Slots : probe[k] # "mark"
    BY <1>1, Empty DEF IInv, LoopInv, StartPass, Live
  <2>2. \A id \in Providers : ~ Marking(id) /\ ~ Marking(id)'
    BY <1>1, <2>1 DEF StartPass, Marking
  <2>3. /\ now' = now /\ succeeded' = succeeded /\ loop' = "loop"
        /\ probed' = [id \in Providers |-> IF Evicted(id) THEN Never ELSE probed[id]]
    BY <1>1 DEF StartPass, Pruned
  <2>4. \A id \in Providers : Young(id) => ~ Evicted(id)
    BY <2>2 DEF CacheInv, Young, Evicted
  <2> QED BY <2>2, <2>3, <2>4 DEF CacheInv, Young
<1>2. CASE Run
  <2>1. UNCHANGED <<now, succeeded, probed, batch>>
    BY <1>2 DEF Run, SkipDuplicate, StopPass, SkipFresh, AskForSlot, Launch, EndOfBatch, EndPass
  <2>2. \A k \in Slots : probe'[k] = "mark" <=> probe[k] = "mark"
    <3>1. CASE Launch
      <4>1. probe' = [probe EXCEPT ![at] = "attempt"] /\ probe \in [Slots -> Stages]
        BY <3>1 DEF Launch, IInv, Types
      <4>2. at \in Slots => probe[at] = "none"
        BY DEF IInv, Types, LoopInv, Launched
      <4> QED BY <4>1, <4>2
    <3>2. CASE UNCHANGED probe
      BY <3>2
    <3> QED BY <1>2, <3>1, <3>2 DEF Run, SkipDuplicate, StopPass, SkipFresh, AskForSlot, EndOfBatch,
         EndPass, probeVars
  <2>3. loop' = "select" => ~ Young(batch[at])' /\ at' = at
    <3>1. SUFFICES ASSUME loop' = "select" PROVE ~ Young(batch[at]) /\ at' = at
      BY <2>1 DEF Young
    <3>2. AskForSlot
      BY <1>2, <3>1 DEF Run, SkipDuplicate, StopPass, SkipFresh, Launch, EndOfBatch, EndPass, Advance, StayAt
    <3>3. /\ at' = at /\ at <= Len(batch) /\ batch[at] \notin seen /\ ~ Fresh(batch[at])
      BY <3>2 DEF AskForSlot, StayAt, Duplicate, SeenBefore
    <3>4. batch[at] \in Providers
      BY <3>3 DEF IInv, Types
    <3>5. ~ Marking(batch[at])
      BY <3>3 DEF Marking, IInv, LoopInv, Launched
    <3> QED BY <3>3, <3>4, <3>5 DEF CacheInv, Young, Fresh
  <2>4. \A id \in Providers : (Young(id)' <=> Young(id)) /\ (Marking(id)' <=> Marking(id))
    BY <2>1, <2>2 DEF Young, Marking
  <2> QED BY <2>1, <2>3, <2>4 DEF CacheInv
<1>3. ASSUME NEW k \in Slots, ProbeOne(k) PROVE CacheInv'
  <2>1. UNCHANGED <<batch, at, loop>> /\ probe[k] # "none"
        /\ \A j \in Slots \ {k} : probe'[j] = probe[j]
    BY <1>3, ProbeMoves DEF IInv
  <2>2. batch[k] \in Providers
    BY <2>1 DEF IInv, Types, LoopInv, Launched
  <2>3. loop = "select" => batch[at] # batch[k] /\ batch[at] \in Providers
    BY <2>1 DEF IInv, Types, LoopInv, Launched
  <2>4. CASE Tally(k) /\ failure[k] = "ok"
    <3>1. /\ succeeded' = [succeeded EXCEPT ![batch[k]] = now] /\ UNCHANGED <<now, probed>>
          /\ probe'[k] = "mark"
      BY <2>4 DEF Tally, Go, IInv, Types
    <3>2. Marking(batch[k])'
      BY <2>1, <3>1 DEF Marking
    <3>3. \A id \in Providers \ {batch[k]} :
            succeeded'[id] = succeeded[id] /\ (Marking(id) => Marking(id)')
      BY <2>1, <3>1 DEF Marking, CacheInv
    <3>4. succeeded'[batch[k]] = now
      BY <2>2, <3>1 DEF CacheInv
    <3>5. \A id \in Providers : succeeded'[id] \in Nat \cup {Never} /\ succeeded'[id] <= now
      BY <3>3, <3>4 DEF CacheInv
    <3>6. \A id \in Providers : Young(id)' /\ ~ Marking(id)' =>
            probed[id] # Never /\ probed[id] >= succeeded'[id]
      <4>1. SUFFICES ASSUME NEW id \in Providers, Young(id)', ~ Marking(id)'
                     PROVE  probed[id] # Never /\ probed[id] >= succeeded'[id]
        OBVIOUS
      <4>2. id # batch[k]
        BY <2>1, <3>1, <4>1 DEF Marking
      <4>3. succeeded'[id] = succeeded[id] /\ ~ Marking(id)
        BY <3>3, <4>1, <4>2
      <4>4. Young(id)
        BY <3>1, <4>1, <4>3 DEF Young
      <4>5. probed[id] # Never /\ probed[id] >= succeeded[id]
        BY <4>1, <4>3, <4>4 DEF CacheInv
      <4> QED BY <4>3, <4>5
    <3>7. loop = "select" => ~ Young(batch[at])'
      BY <2>1, <2>3, <3>1, <3>3 DEF CacheInv, Young
    <3>8. succeeded' \in [Providers -> Nat \cup {Never}]
      BY <3>1 DEF CacheInv
    <3> QED BY <2>1, <3>1, <3>5, <3>6, <3>7, <3>8 DEF CacheInv
  <2>5. CASE MarkProbed(k)
    <3>1. /\ probed' = [probed EXCEPT ![batch[k]] = now] /\ UNCHANGED <<now, succeeded>>
          /\ probe[k] = "mark"
      BY <2>5 DEF MarkProbed, Go
    <3>2. probed'[batch[k]] = now /\ \A id \in Providers \ {batch[k]} : probed'[id] = probed[id]
      BY <2>2, <3>1 DEF CacheInv
    <3>3. \A id \in Providers \ {batch[k]} : Marking(id) => Marking(id)'
      BY <2>1 DEF Marking
    <3>4. \A id \in Providers : Young(id)' <=> Young(id)
      BY <3>1 DEF Young
    <3>5. \A id \in Providers : probed'[id] \in Nat \cup {Never} /\
            (Young(id)' /\ ~ Marking(id)' => probed'[id] # Never /\ probed'[id] >= succeeded[id])
      <4>1. SUFFICES ASSUME NEW id \in Providers
                     PROVE  /\ probed'[id] \in Nat \cup {Never}
                            /\ Young(id)' /\ ~ Marking(id)' =>
                                 probed'[id] # Never /\ probed'[id] >= succeeded[id]
        OBVIOUS
      <4>2. CASE id = batch[k]
        BY <3>2, <4>2 DEF CacheInv
      <4>3. CASE id # batch[k]
        BY <3>2, <3>3, <3>4, <4>3 DEF CacheInv
      <4> QED BY <4>2, <4>3
    <3>6. probed' \in [Providers -> Nat \cup {Never}]
      BY <3>1 DEF CacheInv
    <3>7. loop = "select" => ~ Young(batch[at])'
      BY <2>1, <2>3, <3>1 DEF CacheInv, Young
    <3> QED BY <2>1, <3>1, <3>5, <3>6, <3>7 DEF CacheInv
  <2>6. CASE ~ MarkProbed(k) /\ ~ (Tally(k) /\ failure[k] = "ok")
    <3>1. UNCHANGED <<now, succeeded, probed>>
      BY <1>3, <2>6 DEF ProbeOne, CountAttempt, Open, Health, SubmitHealth, Submit, Bandwidth, Close,
         Report, Tally, Release, Leave
    <3>2. probe[k] # "mark"
      BY <1>3, <2>6 DEF ProbeOne, CountAttempt, Open, Health, SubmitHealth, Submit, SubmitExit, Bandwidth,
         Close, Report, Tally, Release, Leave, Fail, Go
    <3>3. \A id \in Providers : Marking(id) => Marking(id)'
      BY <2>1, <3>2 DEF Marking
    <3>4. \A id \in Providers : Young(id)' <=> Young(id)
      BY <3>1 DEF Young
    <3> QED BY <2>1, <2>3, <3>1, <3>3, <3>4 DEF CacheInv
  <2> QED BY <2>4, <2>5, <2>6
<1>4. CASE Cancel \/ Tick \/ UNCHANGED vars
  <2>1. UNCHANGED <<succeeded, probed, batch, at, loop, probe>> /\ now' \in {now, now + 1}
    BY <1>4 DEF Cancel, Tick, vars, passVars, probeVars
  <2>2. \A id \in Providers : (Young(id)' => Young(id)) /\ (Marking(id)' <=> Marking(id))
    BY <2>1 DEF Young, Marking, CacheInv
  <2>3. loop = "select" => batch[at] \in Providers
    BY DEF IInv, Types, LoopInv
  <2> QED BY <2>1, <2>2, <2>3 DEF CacheInv
<1> QED BY <1>1, <1>2, <1>3, <1>4 DEF Next

\* A provider is probed again only once its last success is as old as the cache
\* says, however the clock runs while probes of the pass are under way
\* (schedule.go:91-104, 160-190).
THEOREM TheCacheHolds == Spec => CacheHolds
<1>1. ASSUME IInv, CacheInv, [Next]_vars
      PROVE  [\A k \in Slots :
                probe[k] = "none" /\ probe'[k] = "attempt" /\ passes' = passes =>
                  \/ succeeded[batch[k]] = Never
                  \/ now - succeeded[batch[k]] >= CacheTtl]_vars
  <2>1. SUFFICES ASSUME NEW k \in Slots, probe[k] = "none", probe'[k] = "attempt"
                 PROVE  \/ succeeded[batch[k]] = Never
                        \/ now - succeeded[batch[k]] >= CacheTtl
    OBVIOUS
  <2>2. \A j \in Slots : ~ ProbeOne(j)
    <3>1. SUFFICES ASSUME NEW j \in Slots, ProbeOne(j) PROVE FALSE
      OBVIOUS
    <3>2. probe[j] # "none" /\ \A i \in Slots \ {j} : probe'[i] = probe[i]
      BY <1>1, <3>1, ProbeMoves DEF IInv
    <3> QED BY <2>1, <3>2
  <2>3. Launch /\ k = at
    BY <1>1, <2>1, <2>2 DEF Next, StartPass, Run, SkipDuplicate, StopPass, SkipFresh, AskForSlot, Launch,
       EndOfBatch, EndPass, Cancel, Tick, vars, probeVars, IInv, Types
  <2>4. ~ Young(batch[at]) /\ batch[at] \in Providers
    BY <1>1, <2>3 DEF Launch, CacheInv, IInv, Types, LoopInv
  <2>5. succeeded[batch[at]] \in Nat \cup {Never} /\ now \in Nat /\ CacheTtl \in Nat
    BY <1>1, <2>4, PassAssumption DEF CacheInv
  <2> QED BY <2>3, <2>4, <2>5 DEF Young, Never
<1>2. Init => CacheInv
  BY DEF Init, CacheInv, Young, Never
<1> QED BY <1>1, <1>2, CacheStep, Inductive, PTL DEF Spec, CacheHolds

--------------------------------------------------------------------------------
\* The limits of a pass, and its waits.

\* The bounds of a pass: no more tokens than slots, and what the clock and the caps allow.
BoundInv ==
  /\ concurrency \in Concurrencies /\ sem <= concurrency
  /\ now \in 0..MaxNow /\ passes \in 0..MaxPasses /\ cancelled \in BOOLEAN
  /\ exitIp \subseteq Slots /\ located \subseteq Slots /\ late \subseteq Slots
  /\ probed \in [Providers -> 0..MaxNow \cup {Never}]
  /\ succeeded \in [Providers -> 0..MaxNow \cup {Never}]
  /\ sum.notMeasured <= sum.failed

\* A pass has as many tunnels as slots at most, whatever the batch: a probe has its
\* token until its tunnel is closed (the semaphore of prober/schedule.go:141-192).
TunnelsFitTheSlots == Cardinality(tunnels) <= concurrency

\* Nobody waits for nobody (the select of prober/schedule.go:176 and the Wait at 241):
\* while there is no slot a probe has one to give back, and while the wait group counts
\* a probe there is one to leave it.
WaitsAreServed ==
  /\ loop = "select" => Room \/ \E k \in Slots : probe[k] \notin {"none", "leave", "done"}
  /\ loop = "wait" => AllDone \/ \E k \in Slots : probe[k] \notin {"none", "done"}

\* A probe gives its token back and takes none.
LEMMA ProbeBounds ==
  ASSUME IInv, BoundInv, NEW k \in Slots, ProbeOne(k)
  PROVE  BoundInv'
<1>0. /\ concurrency' = concurrency /\ now' = now /\ passes' = passes /\ cancelled' = cancelled
      /\ exitIp' \subseteq exitIp \cup {k} /\ located' \subseteq located \cup {k}
      /\ late' = late
  BY DEF ProbeOne, CountAttempt, Open, Health, SubmitHealth, Submit, SubmitExit, Bandwidth, Close,
     Report, Tally, MarkProbed, Release, Leave, serverVars
<1>1. sem' <= sem
  <2>1. sem \in Int
    BY SlotSets DEF IInv, CountInv, Holding
  <2>2. sem' = sem \/ sem' = sem - 1
    BY DEF ProbeOne, CountAttempt, Open, Health, SubmitHealth, Submit, Bandwidth, Close,
       Report, Tally, MarkProbed, Release, Leave, ReturnToken, passVars
  <2> QED BY <2>1, <2>2
<1>2. probed' \in [Providers -> 0..MaxNow \cup {Never}]
  <2>1. probed' = probed \/ probed' = [probed EXCEPT ![batch[k]] = now]
    BY DEF ProbeOne, CountAttempt, Open, Health, SubmitHealth, Submit, Bandwidth, Close,
       Report, Tally, MarkProbed, Release, Leave
  <2> QED BY <2>1 DEF BoundInv
<1>3. succeeded' \in [Providers -> 0..MaxNow \cup {Never}]
  <2>1. succeeded' = succeeded \/ succeeded' = [succeeded EXCEPT ![batch[k]] = now]
    BY DEF ProbeOne, CountAttempt, Open, Health, SubmitHealth, Submit, Bandwidth, Close,
       Report, Tally, MarkProbed, Release, Leave
  <2> QED BY <2>1 DEF BoundInv
<1>4. sum'.notMeasured <= sum'.failed
  <2>1. sum \in [attempted : Nat, submitted : Nat, failed : Nat, skipped : Nat, notMeasured : Nat]
    BY DEF IInv, Types
  <2>2. CASE Tally(k)
    BY <2>1, <2>2 DEF Tally, Counted, BoundInv
  <2>3. CASE CountAttempt(k)
    BY <2>1, <2>3 DEF CountAttempt, BoundInv
  <2>4. CASE sum' = sum
    BY <2>4 DEF BoundInv
  <2> QED
    BY <2>2, <2>3, <2>4 DEF ProbeOne, Open, Health, SubmitHealth, Submit, Bandwidth, Close,
       Report, MarkProbed, Release, Leave, passVars
<1>5. concurrency \in Int /\ sem' \in Int /\ sem \in Int
  <2>1. concurrency \in Int
    BY PassAssumption DEF BoundInv
  <2>2. sem \in Int
    BY SlotSets DEF IInv, CountInv, Holding
  <2>3. sem' = sem \/ sem' = sem - 1
    BY DEF ProbeOne, CountAttempt, Open, Health, SubmitHealth, Submit, Bandwidth, Close,
       Report, Tally, MarkProbed, Release, Leave, ReturnToken, passVars
  <2> QED BY <2>1, <2>2, <2>3
<1> QED BY <1>0, <1>1, <1>2, <1>3, <1>4, <1>5 DEF BoundInv

\* The loop takes a token only where there is room.
LEMMA TurnBounds ==
  ASSUME IInv, BoundInv, Run
  PROVE  BoundInv'
<1>0. UNCHANGED <<concurrency, now, passes, cancelled, probed, exitIp, located, succeeded>>
  BY DEF Run, SkipDuplicate, StopPass, SkipFresh, AskForSlot, Launch, EndOfBatch, EndPass,
     probeVars, serverVars
<1>1. sem' <= concurrency
  <2>1. CASE Launch
    <3>1. concurrency \in Int
      BY PassAssumption DEF BoundInv
    <3>2. sem \in Int
      BY SlotSets DEF IInv, CountInv, Holding
    <3> QED BY <2>1, <3>1, <3>2 DEF Launch, Room
  <2>2. CASE sem' = sem
    BY <2>2 DEF BoundInv
  <2> QED BY <2>1, <2>2 DEF Run, SkipDuplicate, StopPass, SkipFresh, AskForSlot, EndOfBatch, EndPass
<1>2. sum'.notMeasured <= sum'.failed
  <2>1. sum \in [attempted : Nat, submitted : Nat, failed : Nat, skipped : Nat, notMeasured : Nat]
    BY DEF IInv, Types
  <2>2. sum' = sum \/ \E n : sum' = [sum EXCEPT !.skipped = @ + n]
    BY DEF Run, SkipDuplicate, StopPass, SkipFresh, AskForSlot, Launch, EndOfBatch, EndPass, Skip
  <2> QED BY <2>1, <2>2 DEF BoundInv
<1>3. late' \subseteq Slots
  <2>1. CASE Launch
    <3>1. at \in Slots
      <4>1. /\ at \in Nat \ {0} /\ at <= Len(batch) /\ Len(batch) \in 0..MaxBatch
            /\ MaxBatch \in Nat
        BY <2>1, PassAssumption DEF Launch, IInv, Types, LoopInv
      <4> QED BY <4>1 DEF Slots
    <3> QED BY <2>1, <3>1 DEF Launch, BoundInv
  <2>2. CASE late' = late
    BY <2>2 DEF BoundInv
  <2> QED BY <2>1, <2>2 DEF Run, SkipDuplicate, StopPass, SkipFresh, AskForSlot, EndOfBatch, EndPass
<1> QED BY <1>0, <1>1, <1>2, <1>3 DEF BoundInv

\* A pass begins with no token taken.
LEMMA StartBounds ==
  ASSUME IInv, BoundInv, StartPass
  PROVE  BoundInv'
<1>1. /\ concurrency' = concurrency /\ now' = now /\ cancelled' = FALSE /\ passes' = passes + 1
      /\ passes < MaxPasses /\ sem' = 0 /\ exitIp' = {} /\ located' = {} /\ late' = {}
      /\ sum' = NoSummary
      /\ probed' = [id \in Providers |-> IF Evicted(id) THEN Never ELSE probed[id]]
      /\ succeeded' = succeeded
  BY DEF StartPass, Pruned
<1>2. concurrency \in Nat /\ passes' \in 0..MaxPasses
  BY <1>1, PassAssumption DEF BoundInv
<1>3. probed' \in [Providers -> 0..MaxNow \cup {Never}]
  BY <1>1 DEF BoundInv
<1>4. sum'.notMeasured <= sum'.failed
  BY <1>1 DEF NoSummary
<1>5. concurrency' \in Concurrencies /\ now' \in 0..MaxNow /\ succeeded' \in [Providers -> 0..MaxNow \cup {Never}]
  BY <1>1 DEF BoundInv
<1>6. sem' <= concurrency'
  BY <1>1, <1>2
<1>7. cancelled' \in BOOLEAN /\ {exitIp', located', late'} \subseteq SUBSET Slots
  BY <1>1
<1> QED BY <1>2, <1>3, <1>4, <1>5, <1>6, <1>7 DEF BoundInv

LEMMA BoundStep == IInv /\ BoundInv /\ [Next]_vars => BoundInv'
<1> SUFFICES ASSUME IInv, BoundInv, [Next]_vars PROVE BoundInv'
  OBVIOUS
<1>1. CASE Cancel \/ UNCHANGED vars
  BY <1>1 DEF Cancel, vars, BoundInv, passVars, probeVars, serverVars
<1>2. CASE Tick
  <2>1. now + 1 \in 0..MaxNow
    BY <1>2, PassAssumption DEF Tick, BoundInv
  <2> QED BY <1>2, <2>1 DEF Tick, BoundInv, passVars, probeVars, serverVars
<1> QED BY <1>1, <1>2, ProbeBounds, TurnBounds, StartBounds DEF Next

LEMMA BoundInvariant == Spec => []BoundInv
<1>1. Init => BoundInv
  <2>1. SUFFICES ASSUME Init PROVE BoundInv
    OBVIOUS
  <2>2. concurrency \in Nat
    BY <2>1, PassAssumption DEF Init
  <2>3. concurrency \in Concurrencies /\ sem <= concurrency
    BY <2>1, <2>2 DEF Init
  <2>7. cancelled \in BOOLEAN /\ {exitIp, located, late} \subseteq SUBSET Slots
    BY <2>1 DEF Init
  <2>4. now \in 0..MaxNow /\ passes \in 0..MaxPasses
    BY <2>1, PassAssumption DEF Init
  <2>5. /\ probed \in [Providers -> 0..MaxNow \cup {Never}]
        /\ succeeded \in [Providers -> 0..MaxNow \cup {Never}]
    BY <2>1 DEF Init
  <2>6. sum.notMeasured <= sum.failed
    BY <2>1 DEF Init, NoSummary
  <2> QED BY <2>3, <2>4, <2>5, <2>6, <2>7 DEF BoundInv
<1> QED BY <1>1, BoundStep, Invariance, PTL DEF Spec

\* The probes counted by a tally are probes of the pass.
LEMMA Bounded ==
  ASSUME NEW S, S \subseteq Slots PROVE Cardinality(S) \in 0..MaxBatch
<1>1. MaxBatch \in Nat
  BY PassAssumption
<1>2. IsFiniteSet(Slots) /\ Cardinality(Slots) = MaxBatch
  <2>1. 1 \in Int /\ MaxBatch \in Int
    BY <1>1
  <2>2. IsFiniteSet(1..MaxBatch) /\ Cardinality(1..MaxBatch) = IF 1 > MaxBatch THEN 0 ELSE MaxBatch - 1 + 1
    BY <2>1, FS_Interval
  <2> QED BY <1>1, <2>2 DEF Slots
<1>3. Cardinality(S) <= Cardinality(Slots)
  BY <1>2, FS_Subset
<1> QED BY <1>1, <1>2, <1>3, SlotSets

\* TypeOK holds of every pass: the counters stay within the slots and the batch.
THEOREM TypeCorrect == Spec => []TypeOK
<1>1. IInv /\ BoundInv => TypeOK
  <2>1. SUFFICES ASSUME IInv, BoundInv PROVE TypeOK
    OBVIOUS
  <2>2. MaxBatch \in Nat
    BY PassAssumption
  <2>3. Len(batch) \in 0..MaxBatch /\ at \in 1..(Len(batch) + 1)
    BY <2>1 DEF IInv, Types
  <2>4. sem \in 0..concurrency /\ wg \in 0..MaxBatch
    <3>1. sem = Cardinality(Holding) /\ wg = Cardinality(Live)
      BY <2>1 DEF IInv, CountInv
    <3>2. Cardinality(Holding) \in 0..MaxBatch /\ Cardinality(Live) \in 0..MaxBatch
      BY Bounded DEF Holding, Live
    <3>3. concurrency \in Nat /\ sem <= concurrency
      BY <2>1, PassAssumption DEF BoundInv
    <3> QED BY <3>1, <3>2, <3>3
  <2>5. sum \in [attempted : Nat, submitted : Nat, failed : Nat, skipped : Nat, notMeasured : Nat]
    BY <2>1 DEF IInv, Types
  <2>6. sum.attempted \in 0..MaxBatch /\ sum.submitted \in 0..MaxBatch /\ sum.failed \in 0..MaxBatch
    BY <2>1, Bounded DEF IInv, CountInv, Begun, Won, Gone
  <2>7. sum.notMeasured \in 0..MaxBatch
    BY <2>1, <2>2, <2>5, <2>6 DEF BoundInv
  <2>8. sum.skipped \in 0..MaxBatch
    <3>1. Cardinality(Launched) \in Nat
      BY SlotSets DEF Launched
    <3>2. Cardinality(Launched) + sum.skipped <= Len(batch)
      BY <2>1, <2>3 DEF IInv, LoopInv
    <3>3. sum.skipped \in Nat
      BY <2>5
    <3> QED BY <2>2, <2>3, <3>1, <3>2, <3>3
  <2>9. \A f \in DOMAIN NoSummary : sum[f] \in 0..MaxBatch
    BY <2>6, <2>7, <2>8 DEF NoSummary
  <2>10. {exitIp, tunnels, registry, located, late} \subseteq SUBSET Slots
    BY <2>1 DEF IInv, TunnelInv, BoundInv
  <2>11. at \in 1..(MaxBatch + 1) /\ Len(batch) <= MaxBatch
    BY <2>2, <2>3
  <2> QED
    BY <2>1, <2>4, <2>9, <2>10, <2>11 DEF TypeOK, IInv, Types, BoundInv
<1> QED BY <1>1, Invariance, BoundInvariant, PTL

\* The concurrency the operator asked for bounds the tunnels a pass has open at once.
THEOREM NeverMoreTunnelsThanSlots == Spec => []TunnelsFitTheSlots
<1>1. IInv /\ BoundInv => TunnelsFitTheSlots
  <2>1. SUFFICES ASSUME IInv, BoundInv PROVE Cardinality(tunnels) <= concurrency
    BY DEF TunnelsFitTheSlots
  <2>2. tunnels \subseteq Holding
    BY <2>1 DEF IInv, TunnelInv, Holding, Riding
  <2>3. IsFiniteSet(Holding) /\ Cardinality(Holding) \in Nat
    BY SlotSets DEF Holding
  <2>4. Cardinality(tunnels) <= Cardinality(Holding) /\ Cardinality(tunnels) \in Nat
    BY <2>2, <2>3, FS_Subset, FS_CardinalityType
  <2>5. sem = Cardinality(Holding) /\ sem <= concurrency /\ concurrency \in Nat
    BY <2>1, PassAssumption DEF IInv, CountInv, BoundInv
  <2> QED BY <2>3, <2>4, <2>5
<1> QED BY <1>1, Invariance, BoundInvariant, PTL

\* Neither the loop of a pass nor its end can deadlock with the probes.
THEOREM NobodyWaitsInVain == Spec => []WaitsAreServed
<1>1. IInv /\ BoundInv => WaitsAreServed
  <2>1. SUFFICES ASSUME IInv, BoundInv PROVE WaitsAreServed
    OBVIOUS
  <2>2. concurrency >= 1 /\ concurrency \in Nat
    BY <2>1, PassAssumption DEF BoundInv
  <2>4. Live = {} => wg = 0
    BY <2>1, FS_EmptySet DEF IInv, CountInv
  <2>5. Holding = {} => sem = 0
    BY <2>1, FS_EmptySet DEF IInv, CountInv
  <2> QED BY <2>2, <2>4, <2>5 DEF WaitsAreServed, Room, AllDone, Live, Holding
<1> QED BY <1>1, Invariance, BoundInvariant, PTL
================================================================================
