----------------------------- MODULE HealthRunProofs -----------------------------
(***************************************************************************)
(* The safety of a run of loads for any number of loads, attempts, slots   *)
(* and re-opens.                                                           *)
(*                                                                         *)
(* What makes the charges right is that a loss is never taken back: a      *)
(* tunnel that was lost stays lost, since replacing it makes it an older   *)
(* one than the current.  So a load that judges its fetch later than the   *)
(* loss still sees it.  What makes the reports right is that nothing moves *)
(* once every chain is done, and that a failed authentication ends its     *)
(* chain and is never overwritten.                                         *)
(***************************************************************************)
EXTENDS HealthRun, FiniteSetTheorems, TLAPS

TunnelInv ==
  /\ generation \in Nat /\ spent \in 0..ReopenLimit
  /\ replacing \in {"no", "opening", "swapped"}
  /\ generation <= spent
  /\ replacing = "opening" => generation < spent

FlagTypes ==
  /\ dead \in BOOLEAN /\ cancelled \in BOOLEAN
  /\ exitIp \in BOOLEAN /\ exitErr \in BOOLEAN /\ exitTls \in BOOLEAN
  /\ tlsSeen \in BOOLEAN

LoadTypes ==
  /\ pc \in [Loads -> Stages]
  /\ attempt \in [Loads -> 1..LoadAttempts]
  /\ told \in [Loads -> {"nothing", "reopened", "failed"}]
  /\ attempts \in [Loads -> 0..LoadAttempts]
  /\ outcome \in [Loads -> {"none", "noTunnel", "passed", "failed", "tls"}]
  /\ tunnelGone \subseteq Loads /\ lostUnder \subseteq Loads /\ cutShort \subseteq Loads
  /\ room \in {"ample", "short", "over"}

SlotInv == slots \in Nat /\ slots + Cardinality(Holding) \in Concurrencies

\* A load is handed a tunnel there is; between its fetch and its judgement a loss it
\* saw is still to be seen, and at any other time it has been judged.
Charged(l) ==
  /\ handed[l] <= generation
  /\ pc[l] = "judge" => outcome[l] = "failed"
  /\ pc[l] = "judge" /\ l \in lostUnder => Lost(handed[l])
  /\ outcome[l] = "noTunnel" => l \in tunnelGone
  /\ pc[l] # "judge" /\ outcome[l] = "failed" /\ l \notin tunnelGone => l \notin lostUnder

ChargeInv ==
  /\ handed \in [Loads -> 0..ReopenLimit]
  /\ \A l \in Loads : Charged(l)

\* A failed authentication is on record, in the exit record or in a chain it ended.
TlsInv ==
  /\ \A l \in Loads : outcome[l] = "tls" => pc[l] = "done"
  /\ tlsSeen => exitTls \/ AnyTls

CutInv == cutShort # {} => cancelled

\* Nothing moves once there is a report.
ReportInv ==
  /\ report.kind \in {"none", "interrupted", "health", "blackhole"}
  /\ report # Unreported => \A l \in Loads : pc[l] = "done"
  /\ VerdictsAreMeasured
  /\ TlsFailureIsReported

IInv == TunnelInv /\ FlagTypes /\ LoadTypes /\ SlotInv /\ ChargeInv /\ TlsInv /\ CutInv /\ ReportInv

--------------------------------------------------------------------------------
LEMMA GotoMoves ==
  ASSUME LoadTypes, NEW l \in Loads, NEW to \in Stages, Goto(l, to)
  PROVE  /\ pc' \in [Loads -> Stages] /\ pc'[l] = to
         /\ \A m \in Loads \ {l} : pc'[m] = pc[m]
  BY DEF LoadTypes, Goto

LEMMA HoldingFinite ==
  ASSUME LoadTypes PROVE IsFiniteSet(Holding) /\ Cardinality(Holding) \in Nat
  BY RunAssumption, FS_Subset, FS_CardinalityType DEF Holding

\* A move within the loads that hold a slot, or within the others.
LEMMA SlotsStay ==
  ASSUME LoadTypes, SlotInv, NEW l \in Loads, NEW to \in Stages, Goto(l, to),
         pc[l] \in Using <=> to \in Using, slots' = slots
  PROVE  SlotInv'
<1>1. Holding' = Holding
  BY GotoMoves DEF Holding
<1> QED BY <1>1 DEF SlotInv

LEMMA SlotIsTaken ==
  ASSUME LoadTypes, SlotInv, NEW l \in Loads, NEW to \in Using, Goto(l, to),
         pc[l] \notin Using, slots > 0, slots' = slots - 1
  PROVE  SlotInv'
<1>1. Using \subseteq Stages
  BY DEF Using, Stages
<1>2. Holding' = Holding \cup {l} /\ l \notin Holding
  BY <1>1, GotoMoves DEF Holding
<1>3. Cardinality(Holding') = Cardinality(Holding) + 1
  BY <1>2, HoldingFinite, FS_AddElement
<1> QED BY <1>3, HoldingFinite, RunAssumption DEF SlotInv

LEMMA SlotIsGiven ==
  ASSUME LoadTypes, SlotInv, NEW l \in Loads, NEW to \in Stages \ Using, Goto(l, to),
         pc[l] \in Using, slots' = slots + 1
  PROVE  SlotInv'
<1>1. Holding' = Holding \ {l} /\ l \in Holding
  BY GotoMoves DEF Holding
<1>2. Cardinality(Holding') = Cardinality(Holding) - 1
  BY <1>1, HoldingFinite, FS_RemoveElement
<1> QED BY <1>2, HoldingFinite, RunAssumption DEF SlotInv

--------------------------------------------------------------------------------
LEMMA StopMoves ==
  ASSUME LoadTypes, NEW l \in Loads, Stop(l)
  PROVE  Goto(l, "done") /\ cutShort' \subseteq Loads
  BY DEF Stop, LoadTypes

LEMMA NextAttemptMoves ==
  ASSUME LoadTypes, NEW l \in Loads, NextAttempt(l)
  PROVE  /\ \E to \in {"done", "wait"} : Goto(l, to)
         /\ attempt' \in [Loads -> 1..LoadAttempts]
<1>1. CASE LastAttempt(l)
  BY <1>1 DEF NextAttempt, LoadTypes
<1>2. CASE ~ LastAttempt(l)
  <2>1. attempt[l] + 1 \in 1..LoadAttempts
    BY <1>2, RunAssumption DEF LastAttempt, LoadTypes
  <2>2. PICK n \in 1..LoadAttempts : attempt' = [attempt EXCEPT ![l] = n]
    BY <1>2, <2>1 DEF NextAttempt
  <2> QED BY <1>2, <2>2 DEF NextAttempt, LoadTypes
<1> QED BY <1>1, <1>2

\* Where each step takes its chain, and what it does with the slot.
LEMMA StepTypes ==
  ASSUME LoadTypes, SlotInv, NEW l \in Loads, Step(l)
  PROVE  LoadTypes' /\ SlotInv'
<1>0. /\ "start" \in Stages /\ "queue" \in Stages /\ "live" \in Stages /\ "reopening" \in Stages
      /\ "noTunnel" \in Stages /\ "fetch" \in Stages /\ "judge" \in Stages
      /\ "wait" \in Stages /\ "done" \in Stages
      /\ "live" \in Using /\ "reopening" \in Using /\ "noTunnel" \in Using /\ "fetch" \in Using
      /\ "start" \notin Using /\ "queue" \notin Using /\ "judge" \notin Using
      /\ "wait" \notin Using /\ "done" \notin Using
  BY DEF Stages, Using
<1>1. CASE CheckContext(l)
  <2>1. PICK to \in {"done", "queue"} : Goto(l, to)
    BY <1>1, StopMoves DEF CheckContext
  <2>2. cutShort' \subseteq Loads
    BY <1>1, StopMoves DEF CheckContext, LoadTypes
  <2>3. LoadTypes'
    BY <1>0, <1>1, <2>1, <2>2, GotoMoves DEF CheckContext, resultVars, LoadTypes
  <2>4. SlotInv'
    BY <1>0, <1>1, <2>1, SlotsStay DEF CheckContext
  <2> QED BY <2>3, <2>4
<1>2. CASE TakeSlot(l)
  <2>1. LoadTypes'
    BY <1>0, <1>2, GotoMoves DEF TakeSlot, resultVars, history, LoadTypes
  <2>2. SlotInv'
    BY <1>0, <1>2, SlotIsTaken DEF TakeSlot
  <2> QED BY <2>1, <2>2
<1>3. CASE LeaveQueue(l)
  <2>1. LoadTypes'
    BY <1>0, <1>3, StopMoves, GotoMoves DEF LeaveQueue, resultVars, LoadTypes
  <2>2. SlotInv'
    BY <1>0, <1>3, StopMoves, SlotsStay DEF LeaveQueue
  <2> QED BY <2>1, <2>2
<1>4. CASE LiveTunnel(l)
  <2>1. LoadTypes'
    BY <1>0, <1>4, GotoMoves DEF LiveTunnel, Forget, resultVars, history, LoadTypes
  <2>2. SlotInv'
    BY <1>0, <1>4, SlotsStay DEF LiveTunnel
  <2> QED BY <2>1, <2>2
<1>5. CASE StartReopen(l)
  <2>1. LoadTypes'
    BY <1>0, <1>5, GotoMoves DEF StartReopen, resultVars, history, LoadTypes
  <2>2. SlotInv'
    BY <1>0, <1>5, SlotsStay DEF StartReopen
  <2> QED BY <2>1, <2>2
<1>6. CASE Reopened(l)
  <2>1. LoadTypes'
    BY <1>6 DEF Reopened, resultVars, LoadTypes
  <2>2. Holding' = Holding
    BY <1>6 DEF Reopened, Holding
  <2> QED BY <1>6, <2>1, <2>2 DEF Reopened, SlotInv
<1>7. CASE EndReopen(l)
  <2>1. PICK to \in {"live", "noTunnel"} : Goto(l, to)
    BY <1>7 DEF EndReopen
  <2>2. told' \in [Loads -> {"nothing", "reopened", "failed"}]
    BY <1>7 DEF EndReopen, LoadTypes
  <2>3. LoadTypes'
    BY <1>0, <1>7, <2>1, <2>2, GotoMoves DEF EndReopen, resultVars, history, LoadTypes
  <2>4. SlotInv'
    BY <1>0, <1>7, <2>1, SlotsStay DEF EndReopen
  <2> QED BY <2>3, <2>4
<1>8. CASE NoLiveTunnel(l)
  <2>1. LoadTypes'
    BY <1>0, <1>8, GotoMoves DEF NoLiveTunnel, Forget, resultVars, history, LoadTypes
  <2>2. SlotInv'
    BY <1>0, <1>8, SlotsStay DEF NoLiveTunnel
  <2> QED BY <2>1, <2>2
<1>9. CASE SpendAttempt(l)
  <2>1. /\ \E to \in {"done", "wait"} : Goto(l, to)
        /\ attempt' \in [Loads -> 1..LoadAttempts]
        /\ cutShort' \subseteq Loads
    <3>1. CASE Stop(l) /\ UNCHANGED <<attempt, resultVars>>
      BY <3>1, StopMoves DEF LoadTypes
    <3>2. CASE NextAttempt(l) /\ UNCHANGED cutShort
      BY <3>2, NextAttemptMoves DEF LoadTypes
    <3> QED BY <1>9, <3>1, <3>2 DEF SpendAttempt
  <2>2. /\ attempts' \in [Loads -> 0..LoadAttempts]
        /\ outcome' \in [Loads -> {"none", "noTunnel", "passed", "failed", "tls"}]
        /\ tunnelGone' \subseteq Loads
    <3>1. CASE UNCHANGED resultVars
      BY <3>1 DEF resultVars, LoadTypes
    <3>2. CASE /\ attempts' = [attempts EXCEPT ![l] = attempt[l]]
               /\ outcome' = [outcome EXCEPT ![l] = "noTunnel"]
               /\ tunnelGone' = tunnelGone \cup {l}
      <4>1. attempt[l] \in 0..LoadAttempts
        BY RunAssumption DEF LoadTypes
      <4> QED BY <3>2, <4>1 DEF LoadTypes
    <3> QED BY <1>9, <3>1, <3>2 DEF SpendAttempt
  <2>3. PICK to \in {"done", "wait"} : Goto(l, to)
    BY <2>1
  <2>4. LoadTypes'
    BY <1>0, <1>9, <2>1, <2>2, <2>3, GotoMoves DEF SpendAttempt, LoadTypes
  <2>5. SlotInv'
    BY <1>0, <1>9, <2>3, SlotIsGiven DEF SpendAttempt, ReleaseSlot
  <2> QED BY <2>4, <2>5
<1>10. CASE EndFetch(l)
  <2>1. PICK to \in {"done", "judge"} : Goto(l, to)
    BY <1>10 DEF EndFetch
  <2>2. PICK kind \in Verdicts : outcome' = [outcome EXCEPT ![l] = kind]
    BY <1>10 DEF EndFetch
  <2>3. /\ attempts' \in [Loads -> 0..LoadAttempts]
        /\ outcome' \in [Loads -> {"none", "noTunnel", "passed", "failed", "tls"}]
        /\ tunnelGone' \subseteq Loads /\ lostUnder' \subseteq Loads
    <3>1. attempt[l] \in 0..LoadAttempts
      BY RunAssumption DEF LoadTypes
    <3>2. attempts' \in [Loads -> 0..LoadAttempts]
      BY <1>10, <3>1 DEF EndFetch, LoadTypes
    <3>3. outcome' \in [Loads -> {"none", "noTunnel", "passed", "failed", "tls"}]
      BY <2>2 DEF Verdicts, LoadTypes
    <3>4. tunnelGone' \subseteq Loads /\ lostUnder' \subseteq Loads
      BY <1>10 DEF EndFetch, LoadTypes
    <3> QED BY <3>2, <3>3, <3>4
  <2>4. LoadTypes'
    BY <1>0, <1>10, <2>1, <2>3, GotoMoves DEF EndFetch, LoadTypes
  <2>5. SlotInv'
    BY <1>0, <1>10, <2>1, SlotIsGiven DEF EndFetch, ReleaseSlot
  <2> QED BY <2>4, <2>5
<1>11. CASE Judge(l)
  <2>1. PICK to \in {"done", "wait"} : Goto(l, to)
    BY <1>11, NextAttemptMoves DEF Judge
  <2>2. tunnelGone' \subseteq Loads
    BY <1>11 DEF Judge, LoadTypes
  <2>3. LoadTypes'
    BY <1>0, <1>11, <2>1, <2>2, NextAttemptMoves, GotoMoves DEF Judge, history, LoadTypes
  <2>4. SlotInv'
    BY <1>0, <1>11, <2>1, SlotsStay DEF Judge
  <2> QED BY <2>3, <2>4
<1>12. CASE Wake(l)
  <2>1. LoadTypes'
    BY <1>0, <1>12, GotoMoves DEF Wake, resultVars, history, LoadTypes
  <2>2. SlotInv'
    BY <1>0, <1>12, SlotsStay DEF Wake
  <2> QED BY <2>1, <2>2
<1>13. CASE GiveUpRetry(l)
  <2>1. LoadTypes'
    BY <1>0, <1>13, StopMoves, GotoMoves DEF GiveUpRetry, resultVars, LoadTypes
  <2>2. SlotInv'
    BY <1>0, <1>13, StopMoves, SlotsStay DEF GiveUpRetry
  <2> QED BY <2>1, <2>2
<1> QED
  BY <1>1, <1>2, <1>3, <1>4, <1>5, <1>6, <1>7, <1>8, <1>9, <1>10, <1>11, <1>12, <1>13
  DEF Step

--------------------------------------------------------------------------------
\* Only a re-open moves the tunnel, and what was lost stays lost.
LEMMA TunnelSteps ==
  ASSUME TunnelInv, FlagTypes, (\E l \in Loads : Step(l)) \/ LoseTunnel
  PROVE  /\ TunnelInv' /\ dead' \in BOOLEAN
         /\ generation <= generation'
         /\ \A g \in Nat : g <= generation /\ Lost(g) => Lost(g)'
<1>1. CASE \E l \in Loads : StartReopen(l)
  BY <1>1, RunAssumption DEF StartReopen, Tunnel!Begin, TunnelInv, FlagTypes, Lost
<1>2. CASE \E l \in Loads : Reopened(l)
  BY <1>2 DEF Reopened, Tunnel!Swap, TunnelInv, Lost
<1>3. CASE \E l \in Loads : EndReopen(l)
  BY <1>3 DEF EndReopen, Tunnel!End, TunnelInv, FlagTypes, Lost
<1>4. CASE LoseTunnel
  BY <1>4 DEF LoseTunnel, Tunnel!Die, TunnelInv, Lost
<1>5. CASE UNCHANGED tunnelVars
  BY <1>5 DEF tunnelVars, TunnelInv, FlagTypes, Lost
<1>6. ASSUME NEW l \in Loads, Step(l)
      PROVE  StartReopen(l) \/ Reopened(l) \/ EndReopen(l) \/ UNCHANGED tunnelVars
  BY <1>6 DEF Step, CheckContext, TakeSlot, LeaveQueue, LiveTunnel, NoLiveTunnel,
     SpendAttempt, EndFetch, Judge, Wake, GiveUpRetry
<1> QED BY <1>1, <1>2, <1>3, <1>4, <1>5, <1>6

\* The flags of the exit record and of the caller.
LEMMA StepFlags ==
  ASSUME FlagTypes, NEW l \in Loads, Step(l)
  PROVE  /\ cancelled' = cancelled /\ room' = room /\ report' = report
         /\ exitIp' \in BOOLEAN /\ exitErr' \in BOOLEAN /\ exitTls' \in BOOLEAN
         /\ tlsSeen' \in BOOLEAN
<1>1. CASE Reopened(l)
  <2>1. PICK echo \in {"address", "error", "tls"} :
          RecordEcho(echo) /\ tlsSeen' = (tlsSeen \/ echo = "tls")
    BY <1>1 DEF Reopened, WarmUp
  <2>2. exitIp' \in BOOLEAN /\ exitErr' \in BOOLEAN /\ exitTls' \in BOOLEAN
    BY <2>1 DEF RecordEcho
  <2>3. tlsSeen' \in BOOLEAN
    BY <2>1
  <2> QED BY <1>1, <2>2, <2>3 DEF Reopened
<1>2. CASE EndFetch(l)
  <2>1. tlsSeen' \in BOOLEAN
    BY <1>2 DEF EndFetch
  <2> QED BY <1>2, <2>1 DEF EndFetch, exitVars, FlagTypes
<1>3. CASE /\ UNCHANGED <<cancelled, room, report, tlsSeen>>
           /\ UNCHANGED exitVars
  BY <1>3 DEF exitVars, FlagTypes
<1>4. ~ Reopened(l) /\ ~ EndFetch(l) =>
        UNCHANGED <<cancelled, room, report, tlsSeen>> /\ UNCHANGED exitVars
  BY DEF Step, CheckContext, TakeSlot, LeaveQueue, LiveTunnel, StartReopen, EndReopen,
     NoLiveTunnel, SpendAttempt, Judge, Wake, GiveUpRetry, Stop, history
<1> QED BY <1>1, <1>2, <1>3, <1>4

\* What a step leaves of the other chains, and of its own when it is not a fetch, a
\* judgement or a spent attempt.
LEMMA StepChain ==
  ASSUME LoadTypes, handed \in [Loads -> 0..ReopenLimit], NEW l \in Loads, Step(l)
  PROVE  /\ pc[l] # "done"
         /\ \A m \in Loads \ {l} :
              /\ pc'[m] = pc[m] /\ outcome'[m] = outcome[m] /\ handed'[m] = handed[m]
              /\ m \in tunnelGone' <=> m \in tunnelGone
              /\ m \in lostUnder' <=> m \in lostUnder
         /\ \/ EndFetch(l) \/ Judge(l) \/ SpendAttempt(l)
            \/ /\ pc[l] # "judge" /\ pc'[l] # "judge"
               /\ outcome' = outcome /\ tunnelGone' = tunnelGone /\ lostUnder' = lostUnder
         /\ handed' = handed \/ LiveTunnel(l)
<1>0. /\ "start" \in Stages /\ "queue" \in Stages /\ "live" \in Stages /\ "reopening" \in Stages
      /\ "noTunnel" \in Stages /\ "fetch" \in Stages /\ "judge" \in Stages
      /\ "wait" \in Stages /\ "done" \in Stages
  BY DEF Stages
<1>1. CASE CheckContext(l)
  BY <1>0, <1>1, StopMoves, GotoMoves DEF CheckContext, resultVars
<1>2. CASE TakeSlot(l)
  BY <1>0, <1>2, GotoMoves DEF TakeSlot, resultVars, history
<1>3. CASE LeaveQueue(l)
  BY <1>0, <1>3, StopMoves, GotoMoves DEF LeaveQueue, resultVars
<1>4. CASE LiveTunnel(l)
  BY <1>0, <1>4, GotoMoves DEF LiveTunnel, resultVars, history
<1>5. CASE StartReopen(l)
  BY <1>0, <1>5, GotoMoves DEF StartReopen, resultVars, history
<1>6. CASE Reopened(l)
  BY <1>6 DEF Reopened, resultVars
<1>7. CASE EndReopen(l)
  BY <1>0, <1>7, GotoMoves DEF EndReopen, resultVars, history
<1>8. CASE NoLiveTunnel(l)
  BY <1>0, <1>8, GotoMoves DEF NoLiveTunnel, resultVars, history
<1>9. CASE SpendAttempt(l)
  <2>1. PICK to \in {"done", "wait"} : Goto(l, to)
    BY <1>9, StopMoves, NextAttemptMoves DEF SpendAttempt
  <2> QED BY <1>0, <1>9, <2>1, GotoMoves DEF SpendAttempt, resultVars, LoadTypes
<1>10. CASE EndFetch(l)
  <2>1. PICK to \in {"done", "judge"} : Goto(l, to)
    BY <1>10 DEF EndFetch
  <2> QED BY <1>0, <1>10, <2>1, GotoMoves DEF EndFetch, LoadTypes
<1>11. CASE Judge(l)
  <2>1. PICK to \in {"done", "wait"} : Goto(l, to)
    BY <1>11, NextAttemptMoves DEF Judge
  <2> QED BY <1>0, <1>11, <2>1, GotoMoves DEF Judge, history, LoadTypes
<1>12. CASE Wake(l)
  BY <1>0, <1>12, GotoMoves DEF Wake, resultVars, history
<1>13. CASE GiveUpRetry(l)
  BY <1>0, <1>13, StopMoves, GotoMoves DEF GiveUpRetry, resultVars
<1> QED
  BY <1>1, <1>2, <1>3, <1>4, <1>5, <1>6, <1>7, <1>8, <1>9, <1>10, <1>11, <1>12, <1>13
  DEF Step

\* A load is charged for what it saw on a tunnel that still stood.
LEMMA StepCharges ==
  ASSUME TunnelInv, FlagTypes, LoadTypes, ChargeInv, NEW l \in Loads, Step(l)
  PROVE  ChargeInv'
<1>1. handed \in [Loads -> 0..ReopenLimit] /\ \A m \in Loads : Charged(m) /\ handed[m] \in Nat
  BY RunAssumption DEF ChargeInv, Charged
<1>2. /\ TunnelInv' /\ generation <= generation' /\ generation' \in Nat
      /\ \A g \in Nat : g <= generation /\ Lost(g) => Lost(g)'
  BY TunnelSteps DEF TunnelInv
<1>3. handed' \in [Loads -> 0..ReopenLimit] /\ (handed' # handed => handed'[l] = generation)
  <2>1. CASE LiveTunnel(l)
    <3>1. generation \in 0..ReopenLimit
      BY RunAssumption DEF TunnelInv
    <3> QED BY <1>1, <2>1, <3>1 DEF LiveTunnel
  <2> QED BY <1>1, <2>1, StepChain
<1>4. ASSUME NEW m \in Loads \ {l} PROVE Charged(m)'
  <2>1. /\ pc'[m] = pc[m] /\ outcome'[m] = outcome[m] /\ handed'[m] = handed[m]
        /\ m \in tunnelGone' <=> m \in tunnelGone
        /\ m \in lostUnder' <=> m \in lostUnder
    BY <1>1, StepChain
  <2>2. Charged(m) /\ handed[m] \in Nat
    BY <1>1
  <2>3. handed'[m] <= generation'
    BY <1>2, <2>1, <2>2 DEF Charged, TunnelInv
  <2>4. Lost(handed[m]) => Lost(handed[m])'
    <3>1. Lost(handed[m]) => (generation' # generation => handed[m] < generation')
                              /\ (generation' = generation => Lost(handed[m])')
      BY <1>2, <2>1, <2>2 DEF Charged, Lost, TunnelInv
    <3> QED BY <1>2, <2>1, <2>2, <3>1 DEF Charged, Lost, TunnelInv
  <2> QED BY <2>1, <2>2, <2>3, <2>4 DEF Charged
<1>5. Charged(l)'
  <2>1. handed'[l] <= generation'
    BY <1>1, <1>2, <1>3 DEF Charged, TunnelInv
  <2>2. CASE EndFetch(l)
    <3>1. PICK kind \in Verdicts :
            /\ outcome' = [outcome EXCEPT ![l] = kind]
            /\ Goto(l, IF Conclusive(kind) THEN "done" ELSE "judge")
      BY <2>2 DEF EndFetch
    <3>2. outcome'[l] = kind /\ pc'[l] = (IF Conclusive(kind) THEN "done" ELSE "judge")
      BY <3>1 DEF LoadTypes, Goto
    <3>3. l \in lostUnder' => Lost(handed[l])
      BY <2>2 DEF EndFetch, LoadTypes
    <3>4. handed' = handed /\ UNCHANGED tunnelVars
      BY <2>2 DEF EndFetch
    <3>5. l \in lostUnder' => Lost(handed[l])'
      BY <3>3, <3>4 DEF Lost, tunnelVars
    <3> QED BY <2>1, <3>2, <3>5 DEF Charged, Verdicts, Conclusive
  <2>3. CASE Judge(l)
    <3>1. outcome'[l] = "failed" /\ pc'[l] # "judge"
      <4>1. PICK to \in {"done", "wait"} : Goto(l, to)
        BY <2>3, NextAttemptMoves DEF Judge
      <4> QED BY <1>1, <2>3, <4>1 DEF Judge, Charged, Goto, LoadTypes
    <3>2. l \notin tunnelGone' => l \notin lostUnder'
      BY <1>1, <2>3 DEF Judge, SignalIsLost, Charged, LoadTypes, history
    <3> QED BY <2>1, <3>1, <3>2 DEF Charged
  <2>4. CASE SpendAttempt(l)
    <3>1. PICK to \in {"done", "wait"} : Goto(l, to)
      BY <2>4, StopMoves, NextAttemptMoves DEF SpendAttempt
    <3>2. pc'[l] # "judge" /\ pc[l] # "judge" /\ lostUnder' = lostUnder
      BY <2>4, <3>1 DEF SpendAttempt, Goto, LoadTypes
    <3>3. CASE UNCHANGED resultVars
      BY <1>1, <2>1, <3>2, <3>3 DEF Charged, resultVars
    <3>4. CASE outcome'[l] = "noTunnel" /\ l \in tunnelGone'
      BY <2>1, <3>2, <3>4 DEF Charged
    <3> QED BY <2>4, <3>3, <3>4 DEF SpendAttempt, LoadTypes
  <2>5. CASE /\ pc[l] # "judge" /\ pc'[l] # "judge"
             /\ outcome' = outcome /\ tunnelGone' = tunnelGone /\ lostUnder' = lostUnder
    BY <1>1, <2>1, <2>5 DEF Charged
  <2> QED BY <1>1, <2>2, <2>3, <2>4, <2>5, StepChain
<1> QED BY <1>3, <1>4, <1>5 DEF ChargeInv, Charged

\* A failed authentication is recorded and stays so.
LEMMA StepTls ==
  ASSUME LoadTypes, ChargeInv, TlsInv, NEW l \in Loads, Step(l)
  PROVE  TlsInv'
<1>0. handed \in [Loads -> 0..ReopenLimit]
  BY DEF ChargeInv
<1>1. \A m \in Loads \ {l} : pc'[m] = pc[m] /\ outcome'[m] = outcome[m]
  BY <1>0, StepChain
<1>2. outcome[l] # "tls"
  BY <1>0, StepChain DEF TlsInv
<1>3. AnyTls => AnyTls'
  BY <1>1, <1>2 DEF AnyTls
<1>4. CASE EndFetch(l)
  <2>1. PICK kind \in Verdicts :
          /\ outcome' = [outcome EXCEPT ![l] = kind]
          /\ tlsSeen' = (tlsSeen \/ kind = "tls")
          /\ Goto(l, IF Conclusive(kind) THEN "done" ELSE "judge")
    BY <1>4 DEF EndFetch
  <2>2. outcome'[l] = kind /\ (kind = "tls" => pc'[l] = "done")
    BY <2>1 DEF LoadTypes, Goto, Conclusive
  <2>3. kind = "tls" => AnyTls'
    BY <2>2 DEF AnyTls
  <2>4. exitTls' = exitTls
    BY <1>4 DEF EndFetch, exitVars
  <2>5. tlsSeen' => (exitTls \/ AnyTls)'
    BY <1>3, <2>1, <2>3, <2>4 DEF TlsInv
  <2> QED BY <1>1, <2>2, <2>5 DEF TlsInv
<1>5. CASE Reopened(l)
  <2>1. tlsSeen' => exitTls' \/ AnyTls
    BY <1>5 DEF Reopened, WarmUp, RecordEcho, TlsInv
  <2>2. outcome' = outcome /\ pc' = pc
    BY <1>5 DEF Reopened, resultVars
  <2>3. \A m \in Loads : outcome'[m] = "tls" => pc'[m] = "done"
    BY <2>2 DEF TlsInv
  <2> QED BY <1>3, <2>1, <2>3 DEF TlsInv
<1>6. ASSUME ~ EndFetch(l), ~ Reopened(l)
      PROVE  tlsSeen' = tlsSeen /\ exitTls' = exitTls /\ outcome'[l] # "tls"
  <2>1. tlsSeen' = tlsSeen /\ exitTls' = exitTls
    BY <1>6 DEF Step, CheckContext, TakeSlot, LeaveQueue, LiveTunnel, StartReopen, EndReopen,
       NoLiveTunnel, SpendAttempt, Judge, Wake, GiveUpRetry, Stop, history, exitVars
  <2>2. outcome'[l] # "tls"
    <3>1. CASE SpendAttempt(l)
      BY <1>2, <3>1 DEF SpendAttempt, resultVars, LoadTypes
    <3>2. CASE outcome' = outcome
      BY <1>2, <3>2
    <3>3. CASE Judge(l)
      BY <1>2, <3>3 DEF Judge
    <3> QED BY <1>0, <1>6, <3>1, <3>2, <3>3, StepChain
  <2> QED BY <2>1, <2>2
<1>7. CASE ~ EndFetch(l) /\ ~ Reopened(l)
  <2>1. \A m \in Loads : outcome'[m] = "tls" => pc'[m] = "done"
    BY <1>1, <1>6, <1>7 DEF TlsInv
  <2>2. tlsSeen' => (exitTls \/ AnyTls)'
    BY <1>3, <1>6, <1>7 DEF TlsInv
  <2> QED BY <2>1, <2>2 DEF TlsInv
<1> QED BY <1>4, <1>5, <1>7

\* A load that stopped for its caller stopped after the caller had given up.
LEMMA StepCut ==
  ASSUME FlagTypes, CutInv, NEW l \in Loads, Step(l)
  PROVE  CutInv'
<1>1. cutShort' = cutShort \/ cancelled
  BY DEF Step, CheckContext, TakeSlot, LeaveQueue, LiveTunnel, StartReopen, Reopened, EndReopen,
     NoLiveTunnel, SpendAttempt, EndFetch, Judge, Wake, GiveUpRetry, Stop, history
<1>2. cancelled' = cancelled
  BY StepFlags
<1> QED BY <1>1, <1>2 DEF CutInv

\* No chain is in progress once there is a report.
LEMMA StepReports ==
  ASSUME FlagTypes, LoadTypes, ChargeInv, ReportInv, NEW l \in Loads, Step(l)
  PROVE  ReportInv'
<1>1. pc[l] # "done"
  BY StepChain DEF ChargeInv
<1>2. report = Unreported /\ report' = report
  BY <1>1, StepFlags DEF ReportInv
<1> QED BY <1>2 DEF ReportInv, VerdictsAreMeasured, TlsFailureIsReported, Unreported

LEMMA ReportSteps ==
  ASSUME FlagTypes, TlsInv, CutInv, Report
  PROVE  ReportInv'
<1>1. /\ \A l \in Loads : pc[l] = "done"
      /\ UNCHANGED <<cancelled, exitTls, pc, resultVars, tlsSeen, cutShort>>
  BY DEF Report, ReportHealth, ReportBlackhole, AllDone, exitVars, history
<1>2. \A l \in Loads : pc'[l] = "done"
  BY <1>1
<1>3. CASE report' = [kind |-> "interrupted"]
  BY <1>2, <1>3 DEF ReportInv, VerdictsAreMeasured, TlsFailureIsReported
<1>4. CASE ~ CallerGaveUp /\ \E canaries \in CanarySets : report' = Tally(canaries)
  <2>1. report'.kind = "health" /\ report'.tls = (exitTls \/ AnyTls)
    BY <1>4 DEF Tally
  <2>2. cutShort' = {}
    BY <1>1, <1>4 DEF CallerGaveUp, CutInv
  <2>3. tlsSeen' => report'.tls
    BY <1>1, <2>1 DEF TlsInv
  <2> QED
    BY <1>2, <2>1, <2>2, <2>3 DEF ReportInv, VerdictsAreMeasured, TlsFailureIsReported
<1>5. CASE report' = [kind |-> "blackhole", verdict |-> BlackholeVerdict]
  <2>1. report'.kind = "blackhole" /\ report'.verdict = BlackholeVerdict
    BY <1>5
  <2>2. tlsSeen' => report'.verdict = "tls"
    BY <1>1, <2>1 DEF TlsInv, BlackholeVerdict
  <2>3. BlackholeVerdict = "dark" /\ Loads # {} =>
          /\ \E l \in Loads : ~ NotMeasured(l)
          /\ \A l \in Loads : ~ Passed(l)
    BY DEF BlackholeVerdict, NothingMeasured
  <2>4. report'.verdict = "dark" /\ Loads # {} =>
          /\ \E l \in Loads : ~ NotMeasured(l)'
          /\ \A l \in Loads : ~ Passed(l)'
    BY <1>1, <2>1, <2>3 DEF NotMeasured, Passed, resultVars
  <2> QED
    BY <1>2, <2>1, <2>2, <2>4 DEF ReportInv, VerdictsAreMeasured, TlsFailureIsReported
<1> QED
  BY <1>3, <1>4, <1>5 DEF Report, ReportHealth, ReportBlackhole

LEMMA InitInv == Init => IInv
<1> SUFFICES ASSUME Init PROVE IInv
  OBVIOUS
<1>1. TunnelInv /\ dead = FALSE
  BY RunAssumption DEF Init, Tunnel!Init, TunnelInv
<1>2. PICK echo \in {"none", "address", "error", "tls"} :
        /\ exitIp = (echo = "address")
        /\ exitErr = (echo \in {"error", "tls"})
        /\ exitTls = (echo = "tls")
        /\ tlsSeen = (echo = "tls")
  BY DEF Init, OpeningWarmUp
<1>3. FlagTypes
  <2>1. exitIp \in BOOLEAN /\ exitErr \in BOOLEAN /\ exitTls \in BOOLEAN /\ tlsSeen \in BOOLEAN
    BY <1>2
  <2>2. cancelled = FALSE
    BY DEF Init
  <2> QED BY <1>1, <2>1, <2>2 DEF FlagTypes
<1>4. LoadTypes
  BY RunAssumption DEF Init, LoadTypes, Stages
<1>5. SlotInv
  <2>1. Holding = {}
    BY DEF Init, Holding, Using
  <2> QED BY <2>1, FS_EmptySet, RunAssumption DEF Init, SlotInv
<1>6. ChargeInv
  BY <1>1, RunAssumption DEF Init, ChargeInv, Charged, TunnelInv
<1>7. TlsInv
  BY <1>2 DEF Init, TlsInv
<1>8. CutInv /\ ReportInv
  BY DEF Init, CutInv, ReportInv, VerdictsAreMeasured, TlsFailureIsReported, Unreported
<1> QED BY <1>1, <1>3, <1>4, <1>5, <1>6, <1>7, <1>8 DEF IInv

LEMMA NextInv == IInv /\ [Next]_vars => IInv'
<1> SUFFICES ASSUME IInv, [Next]_vars PROVE IInv'
  OBVIOUS
<1>0. TunnelInv /\ FlagTypes /\ LoadTypes /\ SlotInv /\ ChargeInv /\ TlsInv /\ CutInv /\ ReportInv
  BY DEF IInv
<1>1. ASSUME NEW l \in Loads, Step(l) PROVE IInv'
  <2>1. TunnelInv' /\ dead' \in BOOLEAN
    BY <1>0, <1>1, TunnelSteps
  <2>2. /\ exitIp' \in BOOLEAN /\ exitErr' \in BOOLEAN /\ exitTls' \in BOOLEAN
        /\ tlsSeen' \in BOOLEAN /\ cancelled' = cancelled
    BY <1>0, <1>1, StepFlags
  <2>3. FlagTypes'
    BY <1>0, <2>1, <2>2 DEF FlagTypes
  <2>4. LoadTypes' /\ SlotInv'
    BY <1>0, <1>1, StepTypes
  <2>5. ChargeInv' /\ TlsInv' /\ CutInv' /\ ReportInv'
    BY <1>0, <1>1, StepCharges, StepTls, StepCut, StepReports
  <2> QED BY <2>1, <2>3, <2>4, <2>5 DEF IInv
<1>2. CASE Report
  <2>1. UNCHANGED <<tunnelVars, room, cancelled, slots, exitVars, pc, attempt, handed, told,
                    resultVars, history>>
    BY <1>2 DEF Report, ReportHealth, ReportBlackhole
  <2>2. /\ TunnelInv' /\ FlagTypes' /\ LoadTypes' /\ ChargeInv' /\ TlsInv' /\ CutInv'
    BY <1>0, <2>1 DEF TunnelInv, FlagTypes, LoadTypes, ChargeInv, Charged, TlsInv, CutInv,
       AnyTls, Lost, tunnelVars, exitVars, resultVars, history
  <2>3. SlotInv'
    BY <1>0, <2>1 DEF SlotInv, Holding
  <2>4. ReportInv'
    BY <1>0, <1>2, ReportSteps
  <2> QED BY <2>2, <2>3, <2>4 DEF IInv
<1>3. CASE LoseTunnel
  <2>1. /\ TunnelInv' /\ dead' \in BOOLEAN /\ generation' = generation
        /\ \A g \in Nat : g <= generation /\ Lost(g) => Lost(g)'
    BY <1>0, <1>3, TunnelSteps DEF LoseTunnel, Tunnel!Die
  <2>2. UNCHANGED <<room, cancelled, slots, exitVars, pc, attempt, handed, told, resultVars,
                    report, history>>
    BY <1>3 DEF LoseTunnel
  <2>3. FlagTypes' /\ LoadTypes' /\ TlsInv' /\ CutInv'
    BY <1>0, <2>1, <2>2 DEF FlagTypes, LoadTypes, TlsInv, CutInv, AnyTls, exitVars, resultVars,
       history
  <2>4. SlotInv'
    BY <1>0, <2>2 DEF SlotInv, Holding
  <2>5. \A l \in Loads : Lost(handed[l]) => Lost(handed[l])'
    BY <1>0, <2>1, <2>2, RunAssumption DEF ChargeInv, Charged
  <2>6. ChargeInv'
    BY <1>0, <2>1, <2>2, <2>5 DEF ChargeInv, Charged, resultVars, history
  <2>7. ReportInv'
    BY <1>0, <2>2 DEF ReportInv, VerdictsAreMeasured, TlsFailureIsReported, NotMeasured, Passed,
       resultVars, history
  <2> QED BY <2>1, <2>3, <2>4, <2>6, <2>7 DEF IInv
<1>4. CASE SpendBudget \/ Cancel
  <2>1. UNCHANGED <<tunnelVars, slots, exitVars, pc, attempt, handed, told, resultVars, report,
                    history>>
    BY <1>4 DEF SpendBudget, Cancel
  <2>2. /\ room' \in {"ample", "short", "over"}
        /\ cancelled' \in BOOLEAN /\ (cancelled => cancelled')
    BY <1>0, <1>4 DEF SpendBudget, Cancel, LoadTypes, FlagTypes
  <2>3. TunnelInv' /\ LoadTypes' /\ ChargeInv' /\ TlsInv'
    BY <1>0, <2>1, <2>2 DEF TunnelInv, LoadTypes, ChargeInv, Charged, TlsInv, AnyTls, Lost,
       tunnelVars, exitVars, resultVars, history
  <2>6. FlagTypes' /\ CutInv'
    BY <1>0, <2>1, <2>2 DEF FlagTypes, CutInv, tunnelVars, exitVars, history
  <2>4. SlotInv'
    BY <1>0, <2>1 DEF SlotInv, Holding
  <2>5. ReportInv'
    BY <1>0, <2>1 DEF ReportInv, VerdictsAreMeasured, TlsFailureIsReported, NotMeasured, Passed,
       resultVars, history
  <2> QED BY <2>3, <2>4, <2>5, <2>6 DEF IInv
<1>5. CASE UNCHANGED vars
  <2>1. SlotInv'
    BY <1>0, <1>5 DEF SlotInv, Holding, vars
  <2>2. ReportInv'
    BY <1>0, <1>5 DEF ReportInv, VerdictsAreMeasured, TlsFailureIsReported, NotMeasured, Passed,
       vars, resultVars, history
  <2>3. TunnelInv' /\ FlagTypes' /\ LoadTypes' /\ ChargeInv' /\ TlsInv' /\ CutInv'
    BY <1>0, <1>5 DEF TunnelInv, FlagTypes, LoadTypes, ChargeInv, Charged, TlsInv, CutInv,
       AnyTls, Lost, vars, tunnelVars, exitVars, resultVars, history
  <2> QED BY <2>1, <2>2, <2>3 DEF IInv
<1> QED BY <1>1, <1>2, <1>3, <1>4, <1>5 DEF Next

LEMMA Invariant == Spec => []IInv
BY InitInv, NextInv, PTL DEF Spec

--------------------------------------------------------------------------------
\* Every variable of a run keeps its type, every slot being free or held by one load that
\* asks for a tunnel or fetches through it.
THEOREM TypeCorrect == Spec => []TypeOK
<1>1. IInv => TypeOK
  <2> SUFFICES ASSUME IInv PROVE TypeOK
    OBVIOUS
  <2>1. generation \in 0..ReopenLimit
    BY RunAssumption DEF IInv, TunnelInv
  <2> QED
    BY <2>1 DEF IInv, TunnelInv, FlagTypes, LoadTypes, SlotInv, ChargeInv, ReportInv, TypeOK,
       Holding, Using
<1> QED BY <1>1, Invariant, PTL

\* However many loads share the tunnel and whenever it is lost and replaced, a site is
\* charged only with a failure that was seen on a tunnel still standing after it.
THEOREM NoSiteFailsForItsTunnel == Spec => []ChargedOnlyOnAStandingTunnel
<1>1. IInv => ChargedOnlyOnAStandingTunnel
  BY DEF IInv, ChargeInv, Charged, ChargedOnlyOnAStandingTunnel, NotMeasured, Passed
<1> QED BY <1>1, Invariant, PTL

\* A peer that failed to authenticate is in the verdict of every run that reports one.
THEOREM TlsFailureSurvives == Spec => []TlsFailureIsReported
<1>1. IInv => TlsFailureIsReported
  BY DEF IInv, ReportInv
<1> QED BY <1>1, Invariant, PTL

\* A report is of loads its caller let run, and a dark provider is one that was measured.
THEOREM ReportsAreMeasured == Spec => []VerdictsAreMeasured
<1>1. IInv => VerdictsAreMeasured
  BY DEF IInv, ReportInv
<1> QED BY <1>1, Invariant, PTL

--------------------------------------------------------------------------------
\* Of the loads, exactly one is re-opening the tunnel while it is being replaced.
OneReopens ==
  /\ replacing # "no" <=> \E l \in Loads : pc[l] = "reopening"
  /\ \A l, m \in Loads : pc[l] = "reopening" /\ pc[m] = "reopening" => l = m

\* Nobody waits for nobody (the slots of egresshealth/retry.go:179-203, and the loads
\* that wait for a re-open of the tracker): who queues finds a slot or a load that has
\* one, and who asks for a tunnel that is being replaced waits for another load.
WaitsAreServed ==
  /\ \A l \in Loads : pc[l] = "queue" =>
       slots > 0 \/ \E m \in Loads : pc[m] \in Using
  /\ \A l \in Loads : pc[l] = "live" /\ replacing # "no" =>
       \E m \in Loads \ {l} : pc[m] = "reopening"

\* A re-open begins when there is none and ends with the load that began it.
LEMMA OneReopensStep == IInv /\ OneReopens /\ [Next]_vars => OneReopens'
<1> SUFFICES ASSUME IInv, OneReopens, [Next]_vars PROVE OneReopens'
  OBVIOUS
<1>0. pc \in [Loads -> Stages] /\ LoadTypes
  BY DEF IInv, LoadTypes
<1> USE DEF OneReopens
<1>1. ASSUME NEW l \in Loads, StartReopen(l) PROVE OneReopens'
  BY <1>0, <1>1 DEF StartReopen, Goto, Tunnel!Begin
<1>2. ASSUME NEW l \in Loads, Reopened(l) PROVE OneReopens'
  BY <1>0, <1>2 DEF Reopened, Tunnel!Swap
<1>3. ASSUME NEW l \in Loads, EndReopen(l) PROVE OneReopens'
  <2>1. /\ pc[l] = "reopening" /\ pc'[l] \in {"live", "noTunnel"} /\ replacing' = "no"
        /\ \A m \in Loads \ {l} : pc'[m] = pc[m]
    BY <1>0, <1>3 DEF EndReopen, Goto, Tunnel!End
  <2> QED BY <2>1
<1>4. ASSUME NEW l \in Loads, Step(l), ~ StartReopen(l), ~ Reopened(l), ~ EndReopen(l)
      PROVE  OneReopens'
  <2>1. /\ pc[l] # "reopening" /\ pc'[l] # "reopening" /\ replacing' = replacing
        /\ \A m \in Loads \ {l} : pc'[m] = pc[m]
    BY <1>0, <1>4 DEF Step, CheckContext, TakeSlot, LeaveQueue, LiveTunnel, NoLiveTunnel,
       SpendAttempt, EndFetch, Judge, Wake, GiveUpRetry, NextAttempt, Stop, Goto, tunnelVars
  <2> QED BY <2>1
<1>5. CASE Report \/ LoseTunnel \/ SpendBudget \/ Cancel \/ UNCHANGED vars
  <2>1. UNCHANGED <<pc, replacing>>
    BY <1>5 DEF Report, ReportHealth, ReportBlackhole, LoseTunnel, Tunnel!Die, SpendBudget, Cancel,
       vars, tunnelVars
  <2> QED BY <2>1
<1> QED BY <1>1, <1>2, <1>3, <1>4, <1>5 DEF Next

\* The loads of a run cannot deadlock over the slots and the tunnel, of any number.
THEOREM NobodyWaitsInVain == Spec => []WaitsAreServed
<1>1. Init => OneReopens
  BY DEF Init, Tunnel!Init, OneReopens
<1>2. IInv /\ OneReopens => WaitsAreServed
  <2>1. SUFFICES ASSUME IInv, OneReopens PROVE WaitsAreServed
    OBVIOUS
  <2>2. ASSUME NEW l \in Loads, pc[l] = "live", replacing # "no"
        PROVE  \E m \in Loads \ {l} : pc[m] = "reopening"
    BY <2>1, <2>2 DEF OneReopens
  <2>3. slots > 0 \/ \E m \in Loads : pc[m] \in Using
    <3>1. CASE Holding = {}
      BY <2>1, <3>1, FS_EmptySet, RunAssumption DEF IInv, SlotInv
    <3> QED BY <3>1 DEF Holding
  <2> QED BY <2>2, <2>3 DEF WaitsAreServed
<1> QED BY <1>1, <1>2, OneReopensStep, Invariant, PTL DEF Spec

================================================================================
