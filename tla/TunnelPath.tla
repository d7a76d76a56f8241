------------------------------ MODULE TunnelPath ------------------------------
(***************************************************************************)
(* The tunnel under a run: pathTracker (egresshealth/path.go), through     *)
(* which every load asks for a live client, over probePath                 *)
(* (fleetprobe/path.go), which opens, swaps, retires and closes tunnels.   *)
(*                                                                         *)
(* Each load is a process; one action is one locked scope, one call into   *)
(* an external object, or one channel operation. The run's context may end *)
(* and the probe may close its path at any moment. Tunnels are numbered in *)
(* the order they came up; a tunnel stands for its client and its loss     *)
(* signal, which the code always carries together.                         *)
(***************************************************************************)
EXTENDS Integers

CONSTANTS
  Loads,        \* the loads of a run, each asking for a tunnel per attempt
  ReopenLimit   \* Options.TunnelRecreateAttempts

ASSUME ReopenLimitAssumption == ReopenLimit \in Nat

Tunnels == 0..ReopenLimit
Calls   == 1..ReopenLimit   \* a reopenCall, named by its place in the count
NoCall  == 0

VARIABLES
  ended,                \* the run's context is done
  inflight,             \* pathTracker.inflight
  reopenCount,          \* pathTracker.reopenCount
  finishedReopenCount,  \* pathTracker.finishedReopenCount
  callFailed,           \* calls whose err is set
  callDone,             \* calls whose done channel is closed
  warmed,               \* tunnels whose warm-up has run
  opened,               \* tunnels that came up, the first one included
  tunnel,               \* tunnel -> stage of its life, see TunnelStages
  lost,                 \* tunnels whose loss signal has fired
  current,              \* probePath.tunnel
  closed,               \* probePath.closed
  retiring,             \* the counter of probePath.retiring
  errs,                 \* probePath.errs, as the tunnels they came from
  closer,               \* where the caller of probePath.Close is
  closing,              \* Close's local `current'
  reported,             \* errors Close returned
  pc,                   \* load -> where it is
  client,               \* load -> tunnel it read, and then the one it was handed
  isLost,               \* loads whose local isLost is true
  finishedSeen,         \* load -> its local finishedReopenCount
  call,                 \* load -> its local call
  fresh                 \* load -> tunnel its Reopen brought up

trackerVars == <<inflight, reopenCount, finishedReopenCount>>
callVars    == <<callFailed, callDone>>
pathVars    == <<opened, tunnel, lost, current, closed, retiring, errs>>
closerVars  == <<closer, closing, reported>>
localVars   == <<client, isLost, finishedSeen, call, fresh>>
vars == <<ended, trackerVars, callVars, warmed, pathVars, closerVars, pc, localVars>>

\* A tunnel's life. "retiring": its goroutine has yet to return from Close;
\* "failing": that Close failed and the error is not appended yet; "retired":
\* closed, and the goroutine has yet to count itself done.
TunnelStages == {"none", "open", "retiring", "failing", "retired", "closed"}

Stages ==
  {"idle", "asking", "current", "decide", "reread", "reopen", "open", "install",
   "discard", "warm", "warming", "finish", "release", "await", "outcome", "using"}

\* The load is between starting a re-open and recording that it finished.
Working(l) ==
  pc[l] \in {"reopen", "open", "install", "discard", "warm", "warming", "finish"}

--------------------------------------------------------------------------------
\* Steps from one stage to another.
Goto(l, from, to) ==
  /\ pc[l] = from
  /\ pc' = [pc EXCEPT ![l] = to]

\* live's locals die with it, and the client with the attempt it served.
Forget(l) ==
  /\ client' = [client EXCEPT ![l] = 0]
  /\ isLost' = isLost \ {l}
  /\ finishedSeen' = [finishedSeen EXCEPT ![l] = 0]
  /\ call' = [call EXCEPT ![l] = NoCall]
  /\ fresh' = [fresh EXCEPT ![l] = 0]

\* Another attempt asks the path for a tunnel; its load checked the context
\* just before.
Ask(l) ==
  /\ ~ ended
  /\ Goto(l, "idle", "asking")
  /\ UNCHANGED <<ended, trackerVars, callVars, warmed, pathVars, closerVars, localVars>>

\* The attempt is over: its fetch passed, failed, or was cut by the loss.
EndAttempt(l) ==
  /\ Goto(l, "using", "idle")
  /\ Forget(l)
  /\ UNCHANGED <<ended, trackerVars, callVars, warmed, pathVars, closerVars>>

--------------------------------------------------------------------------------
\* What live's locked scopes tell apart. Here and below, a definition
\* that nothing uses states a plausible mistake in the one that follows it.
ReopenUnnoticed    == FALSE
ReopenRunning      == inflight # NoCall
NeverSuperseded(l) == l \notin Loads
Superseded(l)      == finishedReopenCount # finishedSeen[l]
ReadLive(l)        == l \notin isLost
LimitReached       == ReopenLimit <= reopenCount

\* pathTracker.live, first locked scope.
Enter(l) ==
  /\ Goto(l, "asking", IF ReopenRunning THEN "await" ELSE "current")
  /\ call' = [call EXCEPT ![l] = inflight]
  /\ finishedSeen' = [finishedSeen EXCEPT ![l] = finishedReopenCount]
  /\ UNCHANGED <<ended, trackerVars, callVars, warmed, pathVars, closerVars,
                 client, isLost, fresh>>

\* live reads Current with no lock held, and whether its signal has fired: the
\* signal is that of the tunnel read, so the two reads are one step.
ReadCurrent(l) ==
  /\ Goto(l, "current", "decide")
  /\ client' = [client EXCEPT ![l] = current]
  /\ isLost' = IF current \in lost THEN isLost \cup {l} ELSE isLost \ {l}
  /\ UNCHANGED <<ended, trackerVars, callVars, warmed, pathVars, closerVars,
                 finishedSeen, call, fresh>>

\* A re-open started while Current was read: wait for it.
Join(l) ==
  /\ ReopenRunning
  /\ Goto(l, "decide", "await")
  /\ call' = [call EXCEPT ![l] = inflight]
  /\ UNCHANGED <<trackerVars, client, isLost, finishedSeen, fresh>>

\* One started and finished meanwhile: take what it left.
Reread(l) ==
  /\ ~ ReopenRunning /\ Superseded(l)
  /\ Goto(l, "decide", "reread")
  /\ UNCHANGED <<trackerVars, localVars>>

\* The tunnel that was read is live: it is returned as read.
TakeLive(l) ==
  /\ ~ ReopenRunning /\ ~ Superseded(l) /\ ReadLive(l)
  /\ Goto(l, "decide", "using")
  /\ UNCHANGED <<trackerVars, localVars>>

\* errRecreateLimit.
GiveUp(l) ==
  /\ ~ ReopenRunning /\ ~ Superseded(l) /\ ~ ReadLive(l) /\ LimitReached
  /\ Goto(l, "decide", "idle")
  /\ Forget(l)
  /\ UNCHANGED trackerVars

StartReopen(l) ==
  /\ ~ ReopenRunning /\ ~ Superseded(l) /\ ~ ReadLive(l) /\ ~ LimitReached
  /\ Goto(l, "decide", "reopen")
  /\ reopenCount' = reopenCount + 1
  /\ inflight' = reopenCount + 1
  /\ call' = [call EXCEPT ![l] = reopenCount + 1]
  /\ UNCHANGED <<finishedReopenCount, client, isLost, finishedSeen, fresh>>

\* live, second locked scope.
Decide(l) ==
  /\ Join(l) \/ Reread(l) \/ TakeLive(l) \/ GiveUp(l) \/ StartReopen(l)
  /\ UNCHANGED <<ended, callVars, warmed, pathVars, closerVars>>

--------------------------------------------------------------------------------
\* probePath.Reopen, first locked scope.
CheckClosed(l) ==
  /\ Goto(l, "reopen", IF closed THEN "finish" ELSE "open")
  /\ callFailed' = IF closed THEN callFailed \cup {call[l]} ELSE callFailed
  /\ UNCHANGED <<ended, trackerVars, callDone, warmed, pathVars, closerVars, localVars>>

\* Reopen opens a tunnel and builds its client, which can fail at any time.
OpenTunnel(l) ==
  /\ Goto(l, "open", "install")
  /\ tunnel' = [tunnel EXCEPT ![opened] = "open"]
  /\ fresh' = [fresh EXCEPT ![l] = opened]
  /\ opened' = opened + 1
  /\ UNCHANGED <<ended, trackerVars, callVars, warmed, lost, current, closed,
                 retiring, errs, closerVars, client, isLost, finishedSeen, call>>

OpenFails(l) ==
  /\ Goto(l, "open", "finish")
  /\ callFailed' = callFailed \cup {call[l]}
  /\ UNCHANGED <<ended, trackerVars, callDone, warmed, pathVars, closerVars, localVars>>

\* The swap of the second locked scope; the goroutine that closes the replaced
\* tunnel is counted before the lock is released.
Swap(l) ==
  /\ Goto(l, "install", "warm")
  /\ current' = fresh[l]
  /\ tunnel' = [tunnel EXCEPT ![current] = "retiring"]
  /\ retiring' = retiring + 1

SwapUnlessClosed(l) ==
  \/ ~ closed /\ Swap(l)
  \/ /\ closed
     /\ Goto(l, "install", "discard")
     /\ UNCHANGED <<current, tunnel, retiring>>

\* Reopen, second locked scope.
Install(l) ==
  /\ SwapUnlessClosed(l)
  /\ UNCHANGED <<ended, trackerVars, callVars, warmed, opened, lost, closed, errs,
                 closerVars, localVars>>

\* The path closed while the tunnel opened: Reopen closes what it opened.
Discard(l) ==
  /\ Goto(l, "discard", "finish")
  /\ tunnel' = [tunnel EXCEPT ![fresh[l]] = "closed"]
  /\ lost' = lost \cup {fresh[l]}
  /\ callFailed' = callFailed \cup {call[l]}
  /\ UNCHANGED <<ended, trackerVars, callDone, warmed, opened, current, closed,
                 retiring, errs, closerVars, localVars>>

\* live, after a Reopen that returned nil: the client the warm-up gets is read
\* from Current again.
ReadForWarmUp(l) ==
  /\ Goto(l, "warm", "warming")
  /\ fresh' = [fresh EXCEPT ![l] = current]
  /\ UNCHANGED <<ended, trackerVars, callVars, warmed, pathVars, closerVars,
                 client, isLost, finishedSeen, call>>

WarmUp(l) ==
  /\ Goto(l, "warming", "finish")
  /\ warmed' = warmed \cup {fresh[l]}
  /\ UNCHANGED <<ended, trackerVars, callVars, pathVars, closerVars, localVars>>

\* live, third locked scope.
Finish(l) ==
  /\ Goto(l, "finish", "release")
  /\ inflight' = NoCall
  /\ finishedReopenCount' = finishedReopenCount + 1
  /\ UNCHANGED <<ended, reopenCount, callVars, warmed, pathVars, closerVars, localVars>>

\* close(call.done)
ForgetWaiters(l) == Goto(l, "release", "outcome") /\ UNCHANGED callDone
CloseDone(l) ==
  /\ Goto(l, "release", "outcome")
  /\ callDone' = callDone \cup {call[l]}

Release(l) ==
  /\ CloseDone(l)
  /\ UNCHANGED <<ended, trackerVars, callFailed, warmed, pathVars, closerVars, localVars>>

--------------------------------------------------------------------------------
\* pathTracker.await: the other load's re-open finished.
Awake(l) ==
  /\ call[l] \in callDone
  /\ Goto(l, "await", "outcome")
  /\ UNCHANGED <<ended, trackerVars, callVars, warmed, pathVars, closerVars, localVars>>

\* The run ended first.
Abandon(l) ==
  /\ ended
  /\ Goto(l, "await", "idle")
  /\ Forget(l)
  /\ UNCHANGED <<ended, trackerVars, callVars, warmed, pathVars, closerVars>>

\* pathTracker.outcome: the call's error, or whatever is current by now.
OutcomeError(l) ==
  /\ call[l] \in callFailed
  /\ Goto(l, "outcome", "idle")
  /\ Forget(l)
  /\ UNCHANGED <<ended, trackerVars, callVars, warmed, pathVars, closerVars>>

OutcomeCurrent(l) ==
  /\ \/ call[l] \notin callFailed /\ Goto(l, "outcome", "using")
     \/ Goto(l, "reread", "using")
  /\ client' = [client EXCEPT ![l] = current]
  /\ UNCHANGED <<ended, trackerVars, callVars, warmed, pathVars, closerVars,
                 isLost, finishedSeen, call, fresh>>

--------------------------------------------------------------------------------
\* The goroutine that closes a replaced tunnel. Close may fail.
RetireClose(t) ==
  /\ tunnel[t] = "retiring"
  /\ \E stage \in {"failing", "retired"} : tunnel' = [tunnel EXCEPT ![t] = stage]
  /\ lost' = lost \cup {t}
  /\ UNCHANGED <<ended, trackerVars, callVars, warmed, opened, current, closed,
                 retiring, errs, closerVars, pc, localVars>>

RetireReport(t) ==
  /\ tunnel[t] = "failing"
  /\ errs' = errs \cup {t}
  /\ tunnel' = [tunnel EXCEPT ![t] = "retired"]
  /\ UNCHANGED <<ended, trackerVars, callVars, warmed, opened, lost, current, closed,
                 retiring, closerVars, pc, localVars>>

\* The deferred Done, which runs whether or not Close failed.
DoneOnError(t) ==
  /\ tunnel[t] = "retired"
  /\ tunnel' = [tunnel EXCEPT ![t] = "closed"]
  /\ retiring' = IF t \in errs THEN retiring - 1 ELSE retiring
Done(t) ==
  /\ tunnel[t] = "retired"
  /\ tunnel' = [tunnel EXCEPT ![t] = "closed"]
  /\ retiring' = retiring - 1

RetireDone(t) ==
  /\ Done(t)
  /\ UNCHANGED <<ended, trackerVars, callVars, warmed, opened, lost, current, closed,
                 errs, closerVars, pc, localVars>>

--------------------------------------------------------------------------------
\* probePath.Close: its first locked scope, the current tunnel's Close (which
\* may fail), the wait for the retiring ones, and the locked read of errs. A
\* later Close returns at once and changes nothing.
CloseStart ==
  /\ closer = "open"
  /\ closer' = "closing"
  /\ closed' = TRUE
  /\ closing' = current
  /\ UNCHANGED <<ended, trackerVars, callVars, warmed, opened, tunnel, lost, current,
                 retiring, errs, reported, pc, localVars>>

CloseCurrent ==
  /\ closer = "closing"
  /\ closer' = "waiting"
  /\ tunnel' = [tunnel EXCEPT ![closing] = "closed"]
  /\ lost' = lost \cup {closing}
  /\ reported' \in {{}, {closing}}
  /\ UNCHANGED <<ended, trackerVars, callVars, warmed, opened, current, closed,
                 retiring, errs, closing, pc, localVars>>

CloseReturn ==
  /\ closer = "waiting"
  /\ retiring = 0
  /\ closer' = "done"
  /\ reported' = reported \cup errs
  /\ UNCHANGED <<ended, trackerVars, callVars, warmed, pathVars, closing, pc, localVars>>

--------------------------------------------------------------------------------
\* The provider disconnects: the loss signal of a tunnel that came up fires.
Lose(t) ==
  /\ t < opened
  /\ t \notin lost
  /\ lost' = lost \cup {t}
  /\ UNCHANGED <<ended, trackerVars, callVars, warmed, opened, tunnel, current, closed,
                 retiring, errs, closerVars, pc, localVars>>

\* The run's budget ran out, or whoever asked for it gave up.
End ==
  /\ ~ ended
  /\ ended' = TRUE
  /\ UNCHANGED <<trackerVars, callVars, warmed, pathVars, closerVars, pc, localVars>>

--------------------------------------------------------------------------------
\* The probe opened its first tunnel and the run warmed it up (a tunnel lost by
\* then is not warmed up, and no load is handed it).
Init ==
  /\ ended = FALSE
  /\ inflight = NoCall /\ reopenCount = 0 /\ finishedReopenCount = 0
  /\ callFailed = {} /\ callDone = {}
  /\ warmed = {0}
  /\ opened = 1
  /\ tunnel = [t \in Tunnels |-> IF t = 0 THEN "open" ELSE "none"]
  /\ lost = {} /\ current = 0 /\ closed = FALSE /\ retiring = 0 /\ errs = {}
  /\ closer = "open" /\ closing = 0 /\ reported = {}
  /\ pc = [l \in Loads |-> "idle"]
  /\ client = [l \in Loads |-> 0]
  /\ isLost = {}
  /\ finishedSeen = [l \in Loads |-> 0]
  /\ call = [l \in Loads |-> NoCall]
  /\ fresh = [l \in Loads |-> 0]

\* What a load does once it has asked; each step ends in bounded time.
Answer(l) ==
  \/ Enter(l) \/ ReadCurrent(l) \/ Decide(l)
  \/ CheckClosed(l) \/ OpenTunnel(l) \/ OpenFails(l) \/ Install(l) \/ Discard(l)
  \/ ReadForWarmUp(l) \/ WarmUp(l) \/ Finish(l) \/ Release(l)
  \/ Awake(l) \/ Abandon(l) \/ OutcomeError(l) \/ OutcomeCurrent(l)

Retire(t) == RetireClose(t) \/ RetireReport(t) \/ RetireDone(t)

Close == CloseStart \/ CloseCurrent \/ CloseReturn

Next ==
  \/ \E l \in Loads : Ask(l) \/ Answer(l) \/ EndAttempt(l)
  \/ \E t \in Tunnels : Retire(t) \/ Lose(t)
  \/ Close
  \/ End

Spec == Init /\ [][Next]_vars

\* Goroutines are scheduled, opens and closes have timeouts of their own. Nobody
\* has to start a Close, lose a tunnel or end the run.
Fairness ==
  /\ \A l \in Loads : WF_vars(Answer(l))
  /\ \A t \in Tunnels : WF_vars(Retire(t))
  /\ WF_vars(CloseCurrent \/ CloseReturn)

FairSpec == Spec /\ Fairness

--------------------------------------------------------------------------------
\* Every variable keeps its type; the counts stay within the limit, so the run
\* never asks for more re-creations than Options.TunnelRecreateAttempts allows.
TypeOK ==
  /\ ended \in BOOLEAN
  /\ inflight \in 0..ReopenLimit
  /\ reopenCount \in 0..ReopenLimit
  /\ finishedReopenCount \in 0..ReopenLimit
  /\ callFailed \in SUBSET Calls
  /\ callDone \in SUBSET Calls
  /\ warmed \in SUBSET Tunnels
  /\ opened \in 1..(ReopenLimit + 1)
  /\ tunnel \in [Tunnels -> TunnelStages]
  /\ lost \in SUBSET Tunnels
  /\ current \in Tunnels
  /\ closed \in BOOLEAN
  /\ retiring \in Int
  /\ errs \in SUBSET Tunnels
  /\ closer \in {"open", "closing", "waiting", "done"}
  /\ closing \in Tunnels
  /\ reported \in SUBSET Tunnels
  /\ pc \in [Loads -> Stages]
  /\ client \in [Loads -> Tunnels]
  /\ isLost \in SUBSET Loads
  /\ finishedSeen \in [Loads -> 0..ReopenLimit]
  /\ call \in [Loads -> 0..ReopenLimit]
  /\ fresh \in [Loads -> Tunnels]

\* At most one load is re-opening the tunnel, however many noticed the loss at
\* once, and it is the one whose call is recorded as in flight: each extra
\* re-open would be another device and another contract (path.go:67-75).
OneReopenAtATime ==
  \A l, m \in Loads :
    /\ Working(l) => inflight = call[l] /\ inflight # NoCall
    /\ Working(l) /\ Working(m) => l = m

\* A tunnel is replaced only once it is lost, by a tunnel that was never current
\* before: a load acting on what it read of Current before another load's
\* re-open never throws a live tunnel away.
OnlyLostReplaced == [][current' # current => current \in lost /\ current' > current]_vars

Handed(l) == pc[l] # "using" /\ pc'[l] = "using"

\* A load is handed a tunnel whose warm-up has not run only if a whole re-open
\* finished since it asked and a second one has swapped since: never while the
\* re-open it should have waited for is still running.
ColdOnlyBehindSecondReopen ==
  [][\A l \in Loads :
       Handed(l) /\ client'[l] \notin warmed =>
         /\ finishedReopenCount > finishedSeen[l]
         /\ inflight > finishedReopenCount]_vars

\* Once Close has returned, every tunnel the probe brought up is closed, except
\* the one a re-open still in flight is about to close itself; and the error of
\* every retired tunnel that failed to close is among those Close returned.
CloseLeavesNothing ==
  closer = "done" =>
    /\ \A t \in Tunnels :
         \/ tunnel[t] \in {"none", "closed"}
         \/ \E l \in Loads : pc[l] \in {"install", "discard"} /\ fresh[l] = t
    /\ errs \subseteq reported

\* Every load that asked for a tunnel gets one, or an error.
EveryAskIsAnswered ==
  \A l \in Loads : pc[l] = "asking" ~> pc[l] \in {"using", "idle"}

\* A Close that was started returns.
CloseReturns == closed ~> closer = "done"

--------------------------------------------------------------------------------
\* The tracker and the path together implement the abstract replacement: a load
\* whose re-open succeeded has swapped until it records that it finished.
Swapped(l) ==
  /\ pc[l] \in {"warm", "warming", "finish"}
  /\ call[l] \notin callFailed

Replacing ==
  IF inflight = NoCall THEN "no"
  ELSE IF \E l \in Loads : Swapped(l) THEN "swapped" ELSE "opening"

Replacement ==
  INSTANCE TunnelReplacement WITH
    Limit <- ReopenLimit, generation <- current, dead <- current \in lost,
    replacing <- Replacing, spent <- reopenCount

\* Replacements happen one at a time, only of a lost tunnel, each swaps at most
\* once, and the run pays for at most ReopenLimit of them.
ReplacesOnlyLostTunnels == Replacement!Spec
================================================================================
