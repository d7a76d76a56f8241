------------------------------- MODULE HealthRun -------------------------------
(***************************************************************************)
(* One run of loads through a provider: the retry chains of                *)
(* egresshealth/retry.go under the run's slots, its budget and its         *)
(* caller's context, and the verdicts Check and Blackhole take from them.  *)
(*                                                                         *)
(* The tunnel underneath is the abstract one of TunnelReplacement, which   *)
(* TunnelPath implements; what a load may be told by the path meanwhile    *)
(* (its own re-open's outcome, another's, or the limit) is kept per load.  *)
(* Sites are reduced to how an attempt came out, time to whether the       *)
(* budget still has room for a retry (RetryBudget has the clock).          *)
(***************************************************************************)
EXTENDS Integers, FiniteSets

CONSTANTS
  Loads,         \* the sampled destinations
  LoadAttempts,  \* Options.LoadAttempts
  Concurrencies, \* the slots a run may have
  ReopenLimit    \* Options.TunnelRecreateAttempts

ASSUME RunAssumption ==
  /\ IsFiniteSet(Loads)
  /\ LoadAttempts \in Nat \ {0}
  /\ Concurrencies \subseteq Nat \ {0}
  /\ ReopenLimit \in Nat

VARIABLES
  generation, dead, replacing, spent,   \* the tunnel, see TunnelReplacement
  room,        \* the budget: "ample"; "short" of another attempt; "over"
  cancelled,   \* the caller's context is done
  slots,       \* slots that nobody holds
  exitIp,      \* exitRecord: an echo answered with an address
  exitErr,     \* exitRecord: why none did
  exitTls,     \* exitRecord: an echo's peer did not authenticate
  pc,          \* load -> where its chain is
  attempt,     \* load -> the loop's counter
  handed,      \* load -> generation its client and signal are of
  told,        \* load -> how the re-open it waited for ended
  attempts,    \* load -> result.Attempts
  outcome,     \* load -> how the last attempt made came out
  tunnelGone,  \* loads whose tunnelGone is true
  report,      \* what the run returned
  lostUnder,   \* history: loads whose last fetch ended on a lost tunnel
  tlsSeen,     \* history: some peer failed to authenticate
  cutShort     \* history: loads that stopped because the caller gave up

tunnelVars == <<generation, dead, replacing, spent>>
exitVars   == <<exitIp, exitErr, exitTls>>
resultVars == <<attempts, outcome, tunnelGone>>
history    == <<lostUnder, tlsSeen, cutShort>>
vars == <<tunnelVars, room, cancelled, slots, exitVars, pc, attempt, handed, told,
          resultVars, report, history>>

Tunnel == INSTANCE TunnelReplacement WITH Limit <- ReopenLimit

Over       == room = "over" \/ cancelled      \* ctx.Err() # nil
Lost(g)    == g < generation \/ dead           \* only a lost tunnel is replaced
Unreported == [kind |-> "none"]
Running    == report = Unreported             \* what follows is no part of the run

Stages == {"start", "queue", "live", "reopening", "noTunnel", "fetch", "judge", "wait", "done"}

--------------------------------------------------------------------------------
Goto(l, to) == pc' = [pc EXCEPT ![l] = to]

\* The chain ends with what it has.
Stop(l) ==
  /\ Goto(l, "done")
  /\ cutShort' = IF cancelled THEN cutShort \cup {l} ELSE cutShort

\* exitRecord.record: the first address stands, an error only without one, and a
\* failed authentication for good.
RecordEcho(echo) ==
  /\ exitIp' = (exitIp \/ echo = "address")
  /\ exitErr' = (~ exitIp /\ echo # "address")
  /\ exitTls' = (exitTls \/ echo = "tls")

\* warmClient: the echo answers, fails, or is not authenticated.
WarmUp ==
  \E echo \in {"address", "error", "tls"} :
    /\ RecordEcho(echo)
    /\ tlsSeen' = (tlsSeen \/ echo = "tls")

--------------------------------------------------------------------------------
\* load, before the slot: a run that is over starts no attempt.
CheckContext(l) ==
  /\ pc[l] = "start"
  /\ \/ Over /\ Stop(l)
     \/ ~ Over /\ Goto(l, "queue") /\ UNCHANGED cutShort
  /\ UNCHANGED <<tunnelVars, room, cancelled, slots, exitVars, attempt, handed, told,
                 resultVars, report, lostUnder, tlsSeen>>

TakeSlot(l) ==
  /\ pc[l] = "queue"
  /\ slots > 0
  /\ slots' = slots - 1
  /\ Goto(l, "live")
  /\ UNCHANGED <<tunnelVars, room, cancelled, exitVars, attempt, handed, told,
                 resultVars, report, history>>

LeaveQueue(l) ==
  /\ pc[l] = "queue"
  /\ Over
  /\ Stop(l)
  /\ UNCHANGED <<tunnelVars, room, cancelled, slots, exitVars, attempt, handed, told,
                 resultVars, report, lostUnder, tlsSeen>>

--------------------------------------------------------------------------------
\* live returns: what one call was told of a re-open is nothing to the next.
Forget(l) == told' = [told EXCEPT ![l] = "nothing"]

\* pathTracker.live as its caller sees it. A load gets the current tunnel when it
\* is live, or when a re-open it waited for (or that came between) left it.
LiveTunnel(l) ==
  /\ pc[l] = "live"
  /\ \/ replacing = "no" /\ ~ dead
     \/ told[l] # "nothing"
  /\ handed' = [handed EXCEPT ![l] = generation]
  /\ Forget(l)
  /\ Goto(l, "fetch")
  /\ UNCHANGED <<tunnelVars, room, cancelled, slots, exitVars, attempt, resultVars, report,
                 history>>

StartReopen(l) ==
  /\ pc[l] = "live"
  /\ told[l] = "nothing"
  /\ Tunnel!Begin
  /\ Goto(l, "reopening")
  /\ UNCHANGED <<room, cancelled, slots, exitVars, attempt, handed, told, resultVars,
                 report, history>>

\* Reopen succeeded; the warm-up on the new tunnel follows it.
Reopened(l) ==
  /\ pc[l] = "reopening"
  /\ Tunnel!Swap
  /\ WarmUp
  /\ UNCHANGED <<room, cancelled, slots, pc, attempt, handed, told, resultVars, report,
                 lostUnder, cutShort>>

\* The call ends: its own load and those waiting for it learn how.
EndReopen(l) ==
  /\ pc[l] = "reopening"
  /\ Tunnel!End
  /\ LET end == IF replacing = "swapped" THEN "reopened" ELSE "failed" IN
       /\ told' = [m \in Loads |->
                     IF pc[m] = "live" \/ (m = l /\ end = "reopened") THEN end ELSE told[m]]
       /\ Goto(l, IF end = "reopened" THEN "live" ELSE "noTunnel")
  /\ UNCHANGED <<room, cancelled, slots, exitVars, attempt, handed, resultVars, report,
                 history>>

\* live returns an error: the limit is used up, the re-open that was waited for
\* failed, or the wait was cut.
NoLiveTunnel(l) ==
  /\ pc[l] = "live"
  /\ \/ replacing = "no" /\ dead /\ spent = ReopenLimit /\ told[l] = "nothing"
     \/ told[l] = "failed"
     \/ replacing # "no" /\ Over
  /\ Forget(l)
  /\ Goto(l, "noTunnel")
  /\ UNCHANGED <<tunnelVars, room, cancelled, slots, exitVars, attempt, handed, resultVars,
                 report, history>>

--------------------------------------------------------------------------------
LastAttempt(l) == attempt[l] = LoadAttempts

\* The loop turns: the next attempt after its spacing, or the chain is over.
NextAttempt(l) ==
  IF LastAttempt(l)
  THEN Goto(l, "done") /\ UNCHANGED attempt
  ELSE /\ Goto(l, "wait")
       /\ attempt' = [attempt EXCEPT ![l] = @ + 1]

KeepSlot    == UNCHANGED slots
ReleaseSlot == slots' = slots + 1

\* load, after live's error: an attempt without a tunnel is spent.
SpendAttempt(l) ==
  /\ pc[l] = "noTunnel"
  /\ ReleaseSlot
  /\ \/ /\ Over
        /\ Stop(l)
        /\ UNCHANGED <<attempt, resultVars>>
     \/ /\ ~ Over
        /\ attempts' = [attempts EXCEPT ![l] = attempt[l]]
        /\ outcome' = [outcome EXCEPT ![l] = "noTunnel"]
        /\ tunnelGone' = tunnelGone \cup {l}
        /\ NextAttempt(l)
        /\ UNCHANGED cutShort
  /\ UNCHANGED <<tunnelVars, room, cancelled, exitVars, handed, told, report, lostUnder,
                 tlsSeen>>

\* Here and below, a definition that nothing uses states a plausible mistake in the
\* one after it. A passed load and one whose peer did not authenticate end the chain;
\* any other failure is looked at again.
RetryUnlessPassed(kind) == kind = "passed"
Conclusive(kind)        == kind \in {"passed", "tls"}

\* What a fetch comes to: an answer its destination's contract takes or does not
\* take, or no authenticated peer at all.
Verdicts == {"passed", "failed", "tls"}

\* load, the fetch; the loss of its tunnel and the end of the run fail it.
EndFetch(l) ==
  /\ pc[l] = "fetch"
  /\ ReleaseSlot
  /\ attempts' = [attempts EXCEPT ![l] = attempt[l]]
  /\ \E kind \in Verdicts :
       /\ outcome' = [outcome EXCEPT ![l] = kind]
       /\ tlsSeen' = (tlsSeen \/ kind = "tls")
       /\ Goto(l, IF Conclusive(kind) THEN "done" ELSE "judge")
       /\ tunnelGone' = IF Conclusive(kind) THEN tunnelGone \ {l} ELSE tunnelGone
  /\ lostUnder' = IF Lost(handed[l]) THEN lostUnder \cup {l} ELSE lostUnder \ {l}
  /\ UNCHANGED <<tunnelVars, room, cancelled, exitVars, attempt, handed, told, report,
                 cutShort>>

\* load, tunnelGone = lost(signal), read after the fetch and only then.
PathIsDead(l)   == dead
SignalIsLost(l) == Lost(handed[l])

Judge(l) ==
  /\ pc[l] = "judge"
  /\ tunnelGone' = IF SignalIsLost(l) THEN tunnelGone \cup {l} ELSE tunnelGone \ {l}
  /\ NextAttempt(l)
  /\ UNCHANGED <<tunnelVars, room, cancelled, slots, exitVars, handed, told, attempts,
                 outcome, report, history>>

\* The spacing before a retry runs out.
Wake(l) ==
  /\ pc[l] = "wait"
  /\ Goto(l, "start")
  /\ UNCHANGED <<tunnelVars, room, cancelled, slots, exitVars, attempt, handed, told,
                 resultVars, report, history>>

\* No room for the retry, or the sleep was cut.
GiveUpRetry(l) ==
  /\ pc[l] = "wait"
  /\ room # "ample" \/ Over
  /\ Stop(l)
  /\ UNCHANGED <<tunnelVars, room, cancelled, slots, exitVars, attempt, handed, told,
                 resultVars, report, lostUnder, tlsSeen>>

--------------------------------------------------------------------------------
Passed(l)      == outcome[l] = "passed"
NotMeasured(l) == l \in tunnelGone /\ ~ Passed(l)
AnyTls         == \E l \in Loads : outcome[l] = "tls"

AllDone == Running /\ \A l \in Loads : pc[l] = "done"

\* check, once every load is in: a run its caller gave up on is interrupted, and
\* otherwise canaries and what was not measured are in no tally.
CallerGaveUp == cancelled

\* Check draws the loads from the table; which of them are there as canaries for the
\* provider's place, none or any, is looked up here.
CanarySets == SUBSET Loads

Tally(canaries) ==
  LET scored == {l \in Loads \ canaries : ~ NotMeasured(l)} IN
    [kind |-> "health",
     total |-> Cardinality(scored),
     ok |-> Cardinality({l \in scored : Passed(l)}),
     notMeasured |-> Cardinality((Loads \ canaries) \ scored),
     tls |-> exitTls \/ AnyTls]

ReportHealth ==
  /\ AllDone
  /\ \/ CallerGaveUp /\ report' = [kind |-> "interrupted"]
     \/ ~ CallerGaveUp /\ \E canaries \in CanarySets : report' = Tally(canaries)
  /\ UNCHANGED <<tunnelVars, room, cancelled, slots, exitVars, pc, attempt, handed, told,
                 resultVars, history>>

\* blackhole's verdict (it loads no canary): a failed authentication first, then
\* anything that got through, then whether anything was measured at all.
NothingMeasured == Loads # {} /\ \A l \in Loads : NotMeasured(l)
DarkUnlessPassed ==
  IF exitTls \/ AnyTls THEN "tls"
  ELSE IF \E l \in Loads : Passed(l) THEN "carried"
  ELSE "dark"
BlackholeVerdict ==
  IF exitTls \/ AnyTls THEN "tls"
  ELSE IF \E l \in Loads : Passed(l) THEN "carried"
  ELSE IF NothingMeasured THEN "not measured"
  ELSE "dark"

ReportBlackhole ==
  /\ AllDone
  /\ report' = [kind |-> "blackhole", verdict |-> BlackholeVerdict]
  /\ UNCHANGED <<tunnelVars, room, cancelled, slots, exitVars, pc, attempt, handed, told,
                 resultVars, history>>

--------------------------------------------------------------------------------
LoseTunnel ==
  /\ Running /\ ~ dead
  /\ Tunnel!Die
  /\ UNCHANGED <<room, cancelled, slots, exitVars, pc, attempt, handed, told, resultVars,
                 report, history>>

SpendBudget ==
  /\ Running
  /\ \/ room = "ample" /\ room' = "short"
     \/ room = "short" /\ room' = "over"
  /\ UNCHANGED <<tunnelVars, cancelled, slots, exitVars, pc, attempt, handed, told,
                 resultVars, report, history>>

Cancel ==
  /\ Running /\ ~ cancelled
  /\ cancelled' = TRUE
  /\ UNCHANGED <<tunnelVars, room, slots, exitVars, pc, attempt, handed, told, resultVars,
                 report, history>>

\* The run has opened with its warm-up, unless the tunnel was lost by then or
\* there is no echo to ask.
OpeningWarmUp ==
  \E echo \in {"none", "address", "error", "tls"} :
    /\ exitIp = (echo = "address")
    /\ exitErr = (echo \in {"error", "tls"})
    /\ exitTls = (echo = "tls")
    /\ tlsSeen = (echo = "tls")

Init ==
  /\ Tunnel!Init
  /\ room = "ample" /\ cancelled = FALSE /\ slots \in Concurrencies
  /\ OpeningWarmUp
  /\ pc = [l \in Loads |-> "start"]
  /\ attempt = [l \in Loads |-> 1]
  /\ handed = [l \in Loads |-> 0]
  /\ told = [l \in Loads |-> "nothing"]
  /\ attempts = [l \in Loads |-> 0]
  /\ outcome = [l \in Loads |-> "none"]
  /\ tunnelGone = {}
  /\ report = Unreported
  /\ lostUnder = {} /\ cutShort = {}

Step(l) ==
  \/ CheckContext(l) \/ TakeSlot(l) \/ LeaveQueue(l)
  \/ LiveTunnel(l) \/ StartReopen(l) \/ Reopened(l) \/ EndReopen(l) \/ NoLiveTunnel(l)
  \/ SpendAttempt(l) \/ EndFetch(l) \/ Judge(l) \/ Wake(l) \/ GiveUpRetry(l)

Report == ReportHealth \/ ReportBlackhole

Next == (\E l \in Loads : Step(l)) \/ Report \/ LoseTunnel \/ SpendBudget \/ Cancel

Spec == Init /\ [][Next]_vars

\* Every call under a load is bounded by a timeout and loads queue for a slot in
\* order; nothing has to lose a tunnel, spend the budget or cancel.
FairSpec == Spec /\ (\A l \in Loads : WF_vars(Step(l))) /\ WF_vars(Report)

--------------------------------------------------------------------------------
\* The loads that hold a slot: they ask for a tunnel or fetch through it.
Using   == {"live", "reopening", "noTunnel", "fetch"}
Holding == {l \in Loads : pc[l] \in Using}

\* Every variable keeps its type: no more attempts or re-opens than the options
\* allow, and every slot of the run is free or held by one load.
TypeOK ==
  /\ generation \in 0..ReopenLimit /\ dead \in BOOLEAN
  /\ replacing \in {"no", "opening", "swapped"} /\ spent \in 0..ReopenLimit
  /\ room \in {"ample", "short", "over"} /\ cancelled \in BOOLEAN
  /\ slots \in Nat /\ slots + Cardinality(Holding) \in Concurrencies
  /\ exitIp \in BOOLEAN /\ exitErr \in BOOLEAN /\ exitTls \in BOOLEAN
  /\ pc \in [Loads -> Stages]
  /\ attempt \in [Loads -> 1..LoadAttempts]
  /\ handed \in [Loads -> 0..ReopenLimit]
  /\ told \in [Loads -> {"nothing", "reopened", "failed"}]
  /\ attempts \in [Loads -> 0..LoadAttempts]
  /\ outcome \in [Loads -> {"none", "noTunnel", "passed", "failed", "tls"}]
  /\ tunnelGone \subseteq Loads
  /\ report.kind \in {"none", "interrupted", "health", "blackhole"}
  /\ lostUnder \subseteq Loads /\ tlsSeen \in BOOLEAN /\ cutShort \subseteq Loads

\* A site is charged with a failure only when its last attempt ended on a tunnel
\* that still stood: a dying provider never fails the sites it was cut from,
\* even when another load has replaced the tunnel since.
ChargedOnlyOnAStandingTunnel ==
  \A l \in Loads :
    pc[l] = "done" /\ outcome[l] \in {"noTunnel", "failed"} /\ ~ NotMeasured(l) =>
      outcome[l] = "failed" /\ l \notin lostUnder

\* A failed authentication, of a site or of the operator's own host, on any
\* attempt and any tunnel, is in the verdict whatever the other loads did.
TlsFailureIsReported ==
  tlsSeen => /\ report.kind = "health" => report.tls
             /\ report.kind = "blackhole" => report.verdict = "tls"

\* What a report says of a provider was measured: a run whose loads were cut by its
\* caller is no report, and a check is dark only if some load was measured and none
\* that was measured passed; a provider that merely disconnected is not.
VerdictsAreMeasured ==
  /\ report.kind = "health" => cutShort = {}
  /\ report.kind = "blackhole" /\ report.verdict = "dark" /\ Loads # {} =>
       /\ \E l \in Loads : ~ NotMeasured(l)
       /\ \A l \in Loads : ~ Passed(l)

\* Every run ends in a report, though tunnels die and nobody cancels it.
RunReports == <>(report # Unreported)
================================================================================
