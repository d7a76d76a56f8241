--------------------------- MODULE TunnelPathProofs ---------------------------
(***************************************************************************)
(* What TunnelPath guarantees for any number of loads and any limit on     *)
(* re-creations.                                                           *)
(*                                                                         *)
(* The counts say who may be re-opening (Single), a call brings up at most *)
(* one tunnel (Opens), what a load read of Current is still the current    *)
(* tunnel when it decides on it (Fresh), tunnels become current in the     *)
(* order they came up (InOrder), and a call fails only by ending           *)
(* (NotFailedYet): together they are inductive, and every theorem below    *)
(* follows from them.                                                      *)
(***************************************************************************)
EXTENDS TunnelPath, FiniteSetTheorems, TLAPS

\* A working load is the one the call in flight names; the count of finished
\* re-opens lags the count of started ones by that call alone.
Single ==
  /\ OneReopenAtATime
  /\ inflight # NoCall => inflight = reopenCount /\ finishedReopenCount = reopenCount - 1
  /\ inflight = NoCall => finishedReopenCount = reopenCount
  /\ \A l \in Loads : pc[l] = "release" => call[l] \in Calls

\* A call opens at most one tunnel.
Opens ==
  /\ current < opened
  /\ opened <= reopenCount + 1
  /\ \A l \in Loads : pc[l] \in {"reopen", "open"} => opened <= reopenCount
  /\ \A l \in Loads : pc[l] = "install" => fresh[l] = opened - 1 /\ current < fresh[l]

\* What a load decides on is what is current, unless a re-open came between.
Fresh ==
  \A l \in Loads :
    /\ finishedSeen[l] <= finishedReopenCount
    /\ pc[l] = "decide" /\ l \in isLost => client[l] \in lost
    /\ /\ pc[l] = "decide"
       /\ finishedSeen[l] = finishedReopenCount
       /\ \A m \in Loads : pc[m] \notin {"warm", "warming", "finish"}
       => client[l] = current
    /\ pc[l] \in {"reopen", "open", "install"} => current \in lost

\* Until the path is closed, tunnels become current in the order they came up,
\* and only the tunnel of a re-open that has not swapped yet is ahead.
InOrder ==
  /\ ~ closed => IF \E l \in Loads : pc[l] = "install"
                 THEN opened = current + 2 ELSE opened = current + 1
  /\ closed <=> closer # "open"
  /\ closed => closing = current

\* The call in flight fails only by ending.
NotFailedYet ==
  /\ callFailed \subseteq 1..reopenCount
  /\ \A l \in Loads :
       pc[l] \in {"reopen", "open", "install", "warm", "warming"} => call[l] \notin callFailed

IInv == TypeOK /\ Single /\ Opens /\ Fresh /\ InOrder /\ NotFailedYet

--------------------------------------------------------------------------------
\* The initial state.
LEMMA InitIInv == Init => IInv
<1> SUFFICES ASSUME Init PROVE IInv
  OBVIOUS
<1> USE ReopenLimitAssumption DEF Init
<1>1. TypeOK
  <2>1. tunnel \in [Tunnels -> TunnelStages]
    BY DEF TunnelStages
  <2>2. pc \in [Loads -> Stages]
    BY DEF Stages
  <2>3. warmed \in SUBSET Tunnels /\ current \in Tunnels /\ closing \in Tunnels
    BY DEF Tunnels
  <2>4. opened \in 1..(ReopenLimit + 1)
    OBVIOUS
  <2>5. /\ client \in [Loads -> Tunnels] /\ fresh \in [Loads -> Tunnels]
        /\ finishedSeen \in [Loads -> 0..ReopenLimit]
        /\ call \in [Loads -> 0..ReopenLimit]
    BY DEF Tunnels, NoCall
  <2>6. ended \in BOOLEAN /\ closed \in BOOLEAN
    OBVIOUS
  <2>7. inflight \in 0..ReopenLimit /\ reopenCount \in 0..ReopenLimit /\ finishedReopenCount \in 0..ReopenLimit
    BY DEF NoCall
  <2>8. closer \in {"open", "closing", "waiting", "done"}
    OBVIOUS
  <2>9. /\ callFailed \in SUBSET Calls /\ callDone \in SUBSET Calls /\ lost \in SUBSET Tunnels
        /\ errs \in SUBSET Tunnels /\ reported \in SUBSET Tunnels /\ isLost \in SUBSET Loads
    OBVIOUS
  <2>10. retiring \in Int
    OBVIOUS
  <2> HIDE DEF Init
  <2>11. QED
    BY <2>1, <2>2, <2>3, <2>4, <2>5, <2>6, <2>7, <2>8, <2>9, <2>10 DEF TypeOK
<1>2. Single
  BY DEF Single, OneReopenAtATime, Working, NoCall
<1>3. Opens
  BY DEF Opens
<1>4. Fresh
  <2> SUFFICES ASSUME NEW l \in Loads
      PROVE /\ finishedSeen[l] <= finishedReopenCount
            /\ pc[l] = "idle"
    BY DEF Fresh
  <2> QED OBVIOUS
<1>5. InOrder
  BY DEF InOrder
<1>6. NotFailedYet
  BY DEF NotFailedYet
<1>7. QED
  BY <1>1, <1>2, <1>3, <1>4, <1>5, <1>6 DEF IInv
\* Steps that concern neither the tracker nor which tunnel is current.
Aside ==
  /\ UNCHANGED <<trackerVars, callFailed, opened, current, closed, closing, pc, localVars>>
  /\ (closer' = "open") <=> (closer = "open")
  /\ lost \subseteq lost'

\* Lose, CloseCurrent, CloseReturn and the tunnels' retirement leave the loads'
\* and the tracker's state alone, so the invariant only has to survive Aside.
LEMMA AsideSteps ==
  /\ \A t \in Tunnels : Retire(t) \/ Lose(t) => Aside
  /\ CloseCurrent \/ CloseReturn \/ End \/ UNCHANGED vars => Aside
<1> USE DEF Aside, vars, trackerVars, callVars, pathVars, closerVars, localVars
<1>1. ASSUME NEW t \in Tunnels, RetireClose(t) PROVE Aside
  BY <1>1 DEF RetireClose
<1>2. ASSUME NEW t \in Tunnels, RetireReport(t) PROVE Aside
  BY <1>2 DEF RetireReport
<1>3. ASSUME NEW t \in Tunnels, RetireDone(t) PROVE Aside
  BY <1>3 DEF RetireDone, Done
<1>4. ASSUME NEW t \in Tunnels, Lose(t) PROVE Aside
  BY <1>4 DEF Lose
<1>5. CloseCurrent => Aside
  BY DEF CloseCurrent
<1>6. CloseReturn => Aside
  BY DEF CloseReturn
<1>7. End \/ UNCHANGED vars => Aside
  BY DEF End
<1> HIDE DEF Aside
<1>8. QED
  BY <1>1, <1>2, <1>3, <1>4, <1>5, <1>6, <1>7 DEF Retire

\* Each step keeps the types; the counts stay within the limit because a call is
\* started only below it (Single) and opens at most one tunnel (Opens).
LEMMA TypeStep == IInv /\ [Next]_vars => TypeOK'
<1> SUFFICES ASSUME IInv, [Next]_vars PROVE TypeOK'
  OBVIOUS
<1> USE ReopenLimitAssumption DEF IInv, TypeOK, Single, OneReopenAtATime, Working, Opens,
    Tunnels, Calls, NoCall, TunnelStages, Stages, trackerVars, callVars, pathVars, closerVars,
    localVars
<1>1. ASSUME NEW l \in Loads, Ask(l) PROVE TypeOK'
  BY <1>1 DEF Ask, Goto
<1>2. ASSUME NEW l \in Loads, EndAttempt(l) PROVE TypeOK'
  BY <1>2 DEF EndAttempt, Forget, Goto
<1>3. ASSUME NEW l \in Loads, Enter(l) PROVE TypeOK'
  BY <1>3 DEF Enter, ReopenRunning, Goto
<1>4. ASSUME NEW l \in Loads, ReadCurrent(l) PROVE TypeOK'
  BY <1>4 DEF ReadCurrent, Goto
<1>5. ASSUME NEW l \in Loads, Join(l), Decide(l) PROVE TypeOK'
  BY <1>5 DEF Join, Decide, ReopenRunning, Goto
<1>6. ASSUME NEW l \in Loads, Reread(l), Decide(l) PROVE TypeOK'
  BY <1>6 DEF Reread, Decide, ReopenRunning, Superseded, Goto
<1>7. ASSUME NEW l \in Loads, TakeLive(l), Decide(l) PROVE TypeOK'
  BY <1>7 DEF TakeLive, Decide, ReopenRunning, Superseded, ReadLive, Goto
<1>8. ASSUME NEW l \in Loads, GiveUp(l), Decide(l) PROVE TypeOK'
  BY <1>8 DEF GiveUp, Decide, ReopenRunning, Superseded, ReadLive, LimitReached, Forget, Goto
<1>9. ASSUME NEW l \in Loads, StartReopen(l), Decide(l) PROVE TypeOK'
  <2>1. reopenCount + 1 \in 0..ReopenLimit
    BY <1>9 DEF StartReopen, LimitReached
  <2>2. call' \in [Loads -> 0..ReopenLimit]
    BY <1>9, <2>1 DEF StartReopen
  <2>3. pc' \in [Loads -> Stages]
    BY <1>9 DEF StartReopen, Goto
  <2>4. reopenCount' \in 0..ReopenLimit /\ inflight' \in 0..ReopenLimit
    BY <1>9, <2>1 DEF StartReopen
  <2>5. UNCHANGED <<ended, callVars, warmed, pathVars, closerVars, finishedReopenCount, client, isLost,
                    finishedSeen, fresh>>
    BY <1>9 DEF StartReopen, Decide
  <2>6. QED
    BY <2>2, <2>3, <2>4, <2>5
<1>10. ASSUME NEW l \in Loads, CheckClosed(l) PROVE TypeOK'
  <2>a. call[l] \in Calls
    BY <1>10 DEF CheckClosed, Goto
  <2>1. callFailed' \in SUBSET Calls
    BY <1>10, <2>a DEF CheckClosed
  <2>2. pc' \in [Loads -> Stages]
    BY <1>10 DEF CheckClosed, Goto
  <2>3. tunnel' \in [Tunnels -> TunnelStages] /\ lost' \in SUBSET Tunnels
    BY <1>10 DEF CheckClosed
  <2>4. QED
    BY <1>10, <2>1, <2>2, <2>3 DEF CheckClosed
<1>11. ASSUME NEW l \in Loads, OpenTunnel(l) PROVE TypeOK'
  BY <1>11 DEF OpenTunnel, Goto
<1>12. ASSUME NEW l \in Loads, OpenFails(l) PROVE TypeOK'
  <2>a. call[l] \in Calls
    BY <1>12 DEF OpenFails, Goto
  <2>1. callFailed' \in SUBSET Calls
    BY <1>12, <2>a DEF OpenFails
  <2>2. pc' \in [Loads -> Stages]
    BY <1>12 DEF OpenFails, Goto
  <2>3. tunnel' \in [Tunnels -> TunnelStages] /\ lost' \in SUBSET Tunnels
    BY <1>12 DEF OpenFails
  <2>4. QED
    BY <1>12, <2>1, <2>2, <2>3 DEF OpenFails
<1>13. ASSUME NEW l \in Loads, ~ closed, Swap(l), Install(l) PROVE TypeOK'
  BY <1>13 DEF Install, Swap, Goto
<1>14. ASSUME NEW l \in Loads, closed, Install(l) PROVE TypeOK'
  BY <1>14 DEF Install, SwapUnlessClosed, Goto
<1>15. ASSUME NEW l \in Loads, Discard(l) PROVE TypeOK'
  <2>a. call[l] \in Calls
    BY <1>15 DEF Discard, Goto
  <2>1. callFailed' \in SUBSET Calls
    BY <1>15, <2>a DEF Discard
  <2>2. pc' \in [Loads -> Stages]
    BY <1>15 DEF Discard, Goto
  <2>3. tunnel' \in [Tunnels -> TunnelStages] /\ lost' \in SUBSET Tunnels
    BY <1>15 DEF Discard
  <2>4. QED
    BY <1>15, <2>1, <2>2, <2>3 DEF Discard
<1>16. ASSUME NEW l \in Loads, ReadForWarmUp(l) PROVE TypeOK'
  BY <1>16 DEF ReadForWarmUp, Goto
<1>17. ASSUME NEW l \in Loads, WarmUp(l) PROVE TypeOK'
  BY <1>17 DEF WarmUp, Goto
<1>18. ASSUME NEW l \in Loads, Finish(l) PROVE TypeOK'
  BY <1>18 DEF Finish, Goto
<1>19. ASSUME NEW l \in Loads, Release(l) PROVE TypeOK'
  BY <1>19 DEF Release, CloseDone, Goto
<1>20. ASSUME NEW l \in Loads, Awake(l) PROVE TypeOK'
  BY <1>20 DEF Awake, Goto
<1>21. ASSUME NEW l \in Loads, Abandon(l) PROVE TypeOK'
  BY <1>21 DEF Abandon, Forget, Goto
<1>22. ASSUME NEW l \in Loads, OutcomeError(l) PROVE TypeOK'
  BY <1>22 DEF OutcomeError, Forget, Goto
<1>23. ASSUME NEW l \in Loads, OutcomeCurrent(l) PROVE TypeOK'
  BY <1>23 DEF OutcomeCurrent, Goto
<1>24. ASSUME NEW t \in Tunnels, RetireClose(t) PROVE TypeOK'
  BY <1>24 DEF RetireClose
<1>25. ASSUME NEW t \in Tunnels, RetireReport(t) PROVE TypeOK'
  BY <1>25 DEF RetireReport
<1>26. ASSUME NEW t \in Tunnels, RetireDone(t) PROVE TypeOK'
  BY <1>26 DEF RetireDone, Done
<1>27. ASSUME NEW t \in Tunnels, Lose(t) PROVE TypeOK'
  BY <1>27 DEF Lose
<1>28. ASSUME CloseStart PROVE TypeOK'
  BY <1>28 DEF CloseStart
<1>29. ASSUME CloseCurrent PROVE TypeOK'
  BY <1>29 DEF CloseCurrent
<1>30. ASSUME CloseReturn PROVE TypeOK'
  BY <1>30 DEF CloseReturn
<1>31. ASSUME End PROVE TypeOK'
  BY <1>31 DEF End
<1>32. CASE UNCHANGED vars
  BY <1>32 DEF vars
<1>33. QED
  <2>1. ASSUME NEW l \in Loads, Decide(l) PROVE TypeOK'
    BY <2>1, <1>5, <1>6, <1>7, <1>8, <1>9 DEF Decide
  <2>2. ASSUME NEW l \in Loads, Install(l) PROVE TypeOK'
    BY <2>2, <1>13, <1>14 DEF Install, SwapUnlessClosed
  <2> HIDE DEF IInv, TypeOK
  <2>3. QED
    BY <2>1, <2>2, <1>1, <1>2, <1>3, <1>4, <1>10, <1>11, <1>12, <1>15, <1>16, <1>17,
       <1>18, <1>19, <1>20, <1>21, <1>22, <1>23, <1>24, <1>25, <1>26, <1>27, <1>28, <1>29,
       <1>30, <1>31, <1>32
       DEF Next, Answer, Retire, Close

\* Only Decide makes a load a working one, when no call is in flight, and only
\* Finish ends it.
LEMMA SingleStep == IInv /\ [Next]_vars => Single'
<1> SUFFICES ASSUME IInv, [Next]_vars PROVE Single'
  OBVIOUS
<1> USE ReopenLimitAssumption DEF IInv, TypeOK, Single, OneReopenAtATime, Working, Calls, NoCall,
    trackerVars, callVars, pathVars, closerVars, localVars
<1>1. ASSUME NEW l \in Loads, Ask(l) PROVE Single'
  BY <1>1 DEF Ask, Goto
<1>2. ASSUME NEW l \in Loads, EndAttempt(l) PROVE Single'
  BY <1>2 DEF EndAttempt, Forget, Goto
<1>3. ASSUME NEW l \in Loads, Enter(l) PROVE Single'
  BY <1>3 DEF Enter, ReopenRunning, Goto
<1>4. ASSUME NEW l \in Loads, ReadCurrent(l) PROVE Single'
  BY <1>4 DEF ReadCurrent, Goto
<1>5. ASSUME NEW l \in Loads, Join(l), Decide(l) PROVE Single'
  BY <1>5 DEF Join, Decide, ReopenRunning, Goto
<1>6. ASSUME NEW l \in Loads, Reread(l), Decide(l) PROVE Single'
  BY <1>6 DEF Reread, Decide, ReopenRunning, Superseded, Goto
<1>7. ASSUME NEW l \in Loads, TakeLive(l), Decide(l) PROVE Single'
  BY <1>7 DEF TakeLive, Decide, ReopenRunning, Superseded, ReadLive, Goto
<1>8. ASSUME NEW l \in Loads, GiveUp(l), Decide(l) PROVE Single'
  BY <1>8 DEF GiveUp, Decide, ReopenRunning, Superseded, ReadLive, LimitReached, Forget, Goto
<1>9. ASSUME NEW l \in Loads, StartReopen(l), Decide(l) PROVE Single'
  BY <1>9 DEF StartReopen, Decide, ReopenRunning, Superseded, ReadLive, LimitReached, Goto
<1>10. ASSUME NEW l \in Loads, CheckClosed(l) PROVE Single'
  BY <1>10 DEF CheckClosed, Goto
<1>11. ASSUME NEW l \in Loads, OpenTunnel(l) PROVE Single'
  BY <1>11 DEF OpenTunnel, Goto
<1>12. ASSUME NEW l \in Loads, OpenFails(l) PROVE Single'
  BY <1>12 DEF OpenFails, Goto
<1>13. ASSUME NEW l \in Loads, ~ closed, Swap(l), Install(l) PROVE Single'
  BY <1>13 DEF Install, Swap, Goto
<1>14. ASSUME NEW l \in Loads, closed, Install(l) PROVE Single'
  BY <1>14 DEF Install, SwapUnlessClosed, Goto
<1>15. ASSUME NEW l \in Loads, Discard(l) PROVE Single'
  BY <1>15 DEF Discard, Goto
<1>16. ASSUME NEW l \in Loads, ReadForWarmUp(l) PROVE Single'
  BY <1>16 DEF ReadForWarmUp, Goto
<1>17. ASSUME NEW l \in Loads, WarmUp(l) PROVE Single'
  BY <1>17 DEF WarmUp, Goto
<1>18. ASSUME NEW l \in Loads, Finish(l) PROVE Single'
  BY <1>18 DEF Finish, Goto
<1>19. ASSUME NEW l \in Loads, Release(l) PROVE Single'
  BY <1>19 DEF Release, CloseDone, Goto
<1>20. ASSUME NEW l \in Loads, Awake(l) PROVE Single'
  BY <1>20 DEF Awake, Goto
<1>21. ASSUME NEW l \in Loads, Abandon(l) PROVE Single'
  BY <1>21 DEF Abandon, Forget, Goto
<1>22. ASSUME NEW l \in Loads, OutcomeError(l) PROVE Single'
  BY <1>22 DEF OutcomeError, Forget, Goto
<1>23. ASSUME NEW l \in Loads, OutcomeCurrent(l) PROVE Single'
  BY <1>23 DEF OutcomeCurrent, Goto
<1>24. CASE Aside
  BY <1>24 DEF Aside
<1>25. ASSUME CloseStart PROVE Single'
  BY <1>25 DEF CloseStart
<1>26. QED
  <2>1. ASSUME NEW l \in Loads, Decide(l) PROVE Single'
    BY <2>1, <1>5, <1>6, <1>7, <1>8, <1>9 DEF Decide
  <2>2. ASSUME NEW l \in Loads, Install(l) PROVE Single'
    BY <2>2, <1>13, <1>14 DEF Install, SwapUnlessClosed
  <2> HIDE DEF IInv
  <2>3. QED
    BY <2>1, <2>2, <1>1, <1>2, <1>3, <1>4, <1>10, <1>11, <1>12, <1>15, <1>16, <1>17,
       <1>18, <1>19, <1>20, <1>21, <1>22, <1>23, <1>24, <1>25, AsideSteps
       DEF Next, Answer, Close

\* Only OpenTunnel brings a tunnel up, once per call.
LEMMA OpensStep == IInv /\ [Next]_vars => Opens'
<1> SUFFICES ASSUME IInv, [Next]_vars PROVE Opens'
  OBVIOUS
<1> USE ReopenLimitAssumption DEF IInv, TypeOK, Single, OneReopenAtATime, Working, Opens, NoCall, Tunnels,
    trackerVars, callVars, pathVars, closerVars, localVars
<1>1. ASSUME NEW l \in Loads, Ask(l) PROVE Opens'
  BY <1>1 DEF Ask, Goto
<1>2. ASSUME NEW l \in Loads, EndAttempt(l) PROVE Opens'
  BY <1>2 DEF EndAttempt, Forget, Goto
<1>3. ASSUME NEW l \in Loads, Enter(l) PROVE Opens'
  BY <1>3 DEF Enter, ReopenRunning, Goto
<1>4. ASSUME NEW l \in Loads, ReadCurrent(l) PROVE Opens'
  BY <1>4 DEF ReadCurrent, Goto
<1>5. ASSUME NEW l \in Loads, Join(l), Decide(l) PROVE Opens'
  BY <1>5 DEF Join, Decide, ReopenRunning, Goto
<1>6. ASSUME NEW l \in Loads, Reread(l), Decide(l) PROVE Opens'
  BY <1>6 DEF Reread, Decide, ReopenRunning, Superseded, Goto
<1>7. ASSUME NEW l \in Loads, TakeLive(l), Decide(l) PROVE Opens'
  BY <1>7 DEF TakeLive, Decide, ReopenRunning, Superseded, ReadLive, Goto
<1>8. ASSUME NEW l \in Loads, GiveUp(l), Decide(l) PROVE Opens'
  BY <1>8 DEF GiveUp, Decide, ReopenRunning, Superseded, ReadLive, LimitReached, Forget, Goto
<1>9. ASSUME NEW l \in Loads, StartReopen(l), Decide(l) PROVE Opens'
  BY <1>9 DEF StartReopen, Decide, ReopenRunning, Superseded, ReadLive, LimitReached, Goto
<1>10. ASSUME NEW l \in Loads, CheckClosed(l) PROVE Opens'
  BY <1>10 DEF CheckClosed, Goto
<1>11. ASSUME NEW l \in Loads, OpenTunnel(l) PROVE Opens'
  BY <1>11 DEF OpenTunnel, Goto
<1>12. ASSUME NEW l \in Loads, OpenFails(l) PROVE Opens'
  BY <1>12 DEF OpenFails, Goto
<1>13. ASSUME NEW l \in Loads, ~ closed, Swap(l), Install(l) PROVE Opens'
  BY <1>13 DEF Install, Swap, Goto
<1>14. ASSUME NEW l \in Loads, closed, Install(l) PROVE Opens'
  BY <1>14 DEF Install, SwapUnlessClosed, Goto
<1>15. ASSUME NEW l \in Loads, Discard(l) PROVE Opens'
  BY <1>15 DEF Discard, Goto
<1>16. ASSUME NEW l \in Loads, ReadForWarmUp(l) PROVE Opens'
  BY <1>16 DEF ReadForWarmUp, Goto
<1>17. ASSUME NEW l \in Loads, WarmUp(l) PROVE Opens'
  BY <1>17 DEF WarmUp, Goto
<1>18. ASSUME NEW l \in Loads, Finish(l) PROVE Opens'
  BY <1>18 DEF Finish, Goto
<1>19. ASSUME NEW l \in Loads, Release(l) PROVE Opens'
  BY <1>19 DEF Release, CloseDone, Goto
<1>20. ASSUME NEW l \in Loads, Awake(l) PROVE Opens'
  BY <1>20 DEF Awake, Goto
<1>21. ASSUME NEW l \in Loads, Abandon(l) PROVE Opens'
  BY <1>21 DEF Abandon, Forget, Goto
<1>22. ASSUME NEW l \in Loads, OutcomeError(l) PROVE Opens'
  BY <1>22 DEF OutcomeError, Forget, Goto
<1>23. ASSUME NEW l \in Loads, OutcomeCurrent(l) PROVE Opens'
  BY <1>23 DEF OutcomeCurrent, Goto
<1>24. CASE Aside
  BY <1>24 DEF Aside
<1>25. ASSUME CloseStart PROVE Opens'
  BY <1>25 DEF CloseStart
<1>26. QED
  <2>1. ASSUME NEW l \in Loads, Decide(l) PROVE Opens'
    BY <2>1, <1>5, <1>6, <1>7, <1>8, <1>9 DEF Decide
  <2>2. ASSUME NEW l \in Loads, Install(l) PROVE Opens'
    BY <2>2, <1>13, <1>14 DEF Install, SwapUnlessClosed
  <2> HIDE DEF IInv
  <2>3. QED
    BY <2>1, <2>2, <1>1, <1>2, <1>3, <1>4, <1>10, <1>11, <1>12, <1>15, <1>16, <1>17,
       <1>18, <1>19, <1>20, <1>21, <1>22, <1>23, <1>24, <1>25, AsideSteps
       DEF Next, Answer, Close

\* A read of Current goes stale only while another load's re-open swaps, and that
\* re-open is counted as finished before a decision can be taken on the read.
LEMMA FreshStep == IInv /\ [Next]_vars => Fresh'
<1> SUFFICES ASSUME IInv, [Next]_vars PROVE Fresh'
  OBVIOUS
<1> USE ReopenLimitAssumption DEF IInv, TypeOK, Single, OneReopenAtATime, Working, Opens, Fresh, NoCall,
    trackerVars, callVars, pathVars, closerVars, localVars
<1>1. ASSUME NEW l \in Loads, Ask(l) PROVE Fresh'
  BY <1>1 DEF Ask, Goto
<1>2. ASSUME NEW l \in Loads, EndAttempt(l) PROVE Fresh'
  BY <1>2 DEF EndAttempt, Forget, Goto
<1>3. ASSUME NEW l \in Loads, Enter(l) PROVE Fresh'
  BY <1>3 DEF Enter, ReopenRunning, Goto
<1>4. ASSUME NEW l \in Loads, ReadCurrent(l) PROVE Fresh'
  BY <1>4 DEF ReadCurrent, Goto
<1>5. ASSUME NEW l \in Loads, Join(l), Decide(l) PROVE Fresh'
  BY <1>5 DEF Join, Decide, ReopenRunning, Goto
<1>6. ASSUME NEW l \in Loads, Reread(l), Decide(l) PROVE Fresh'
  BY <1>6 DEF Reread, Decide, ReopenRunning, Superseded, Goto
<1>7. ASSUME NEW l \in Loads, TakeLive(l), Decide(l) PROVE Fresh'
  BY <1>7 DEF TakeLive, Decide, ReopenRunning, Superseded, ReadLive, Goto
<1>8. ASSUME NEW l \in Loads, GiveUp(l), Decide(l) PROVE Fresh'
  BY <1>8 DEF GiveUp, Decide, ReopenRunning, Superseded, ReadLive, LimitReached, Forget, Goto
<1>9. ASSUME NEW l \in Loads, StartReopen(l), Decide(l) PROVE Fresh'
  BY <1>9 DEF StartReopen, Decide, ReopenRunning, Superseded, ReadLive, LimitReached, Goto
<1>10. ASSUME NEW l \in Loads, CheckClosed(l) PROVE Fresh'
  BY <1>10 DEF CheckClosed, Goto
<1>11. ASSUME NEW l \in Loads, OpenTunnel(l) PROVE Fresh'
  BY <1>11 DEF OpenTunnel, Goto
<1>12. ASSUME NEW l \in Loads, OpenFails(l) PROVE Fresh'
  BY <1>12 DEF OpenFails, Goto
<1>13. ASSUME NEW l \in Loads, ~ closed, Swap(l), Install(l) PROVE Fresh'
  BY <1>13 DEF Install, Swap, Goto
<1>14. ASSUME NEW l \in Loads, closed, Install(l) PROVE Fresh'
  BY <1>14 DEF Install, SwapUnlessClosed, Goto
<1>15. ASSUME NEW l \in Loads, Discard(l) PROVE Fresh'
  BY <1>15 DEF Discard, Goto
<1>16. ASSUME NEW l \in Loads, ReadForWarmUp(l) PROVE Fresh'
  BY <1>16 DEF ReadForWarmUp, Goto
<1>17. ASSUME NEW l \in Loads, WarmUp(l) PROVE Fresh'
  BY <1>17 DEF WarmUp, Goto
<1>18. ASSUME NEW l \in Loads, Finish(l) PROVE Fresh'
  BY <1>18 DEF Finish, Goto
<1>19. ASSUME NEW l \in Loads, Release(l) PROVE Fresh'
  BY <1>19 DEF Release, CloseDone, Goto
<1>20. ASSUME NEW l \in Loads, Awake(l) PROVE Fresh'
  BY <1>20 DEF Awake, Goto
<1>21. ASSUME NEW l \in Loads, Abandon(l) PROVE Fresh'
  BY <1>21 DEF Abandon, Forget, Goto
<1>22. ASSUME NEW l \in Loads, OutcomeError(l) PROVE Fresh'
  BY <1>22 DEF OutcomeError, Forget, Goto
<1>23. ASSUME NEW l \in Loads, OutcomeCurrent(l) PROVE Fresh'
  BY <1>23 DEF OutcomeCurrent, Goto
<1>24. CASE Aside
  BY <1>24 DEF Aside
<1>25. ASSUME CloseStart PROVE Fresh'
  BY <1>25 DEF CloseStart
<1>26. QED
  <2>1. ASSUME NEW l \in Loads, Decide(l) PROVE Fresh'
    BY <2>1, <1>5, <1>6, <1>7, <1>8, <1>9 DEF Decide
  <2>2. ASSUME NEW l \in Loads, Install(l) PROVE Fresh'
    BY <2>2, <1>13, <1>14 DEF Install, SwapUnlessClosed
  <2> HIDE DEF IInv
  <2>3. QED
    BY <2>1, <2>2, <1>1, <1>2, <1>3, <1>4, <1>10, <1>11, <1>12, <1>15, <1>16, <1>17,
       <1>18, <1>19, <1>20, <1>21, <1>22, <1>23, <1>24, <1>25, AsideSteps
       DEF Next, Answer, Close

\* Swap takes the newest tunnel, and none comes up behind it.
LEMMA InOrderStep == IInv /\ [Next]_vars => InOrder'
<1> SUFFICES ASSUME IInv, [Next]_vars PROVE InOrder'
  OBVIOUS
<1> USE ReopenLimitAssumption DEF IInv, TypeOK, Single, OneReopenAtATime, Working, Opens, InOrder, NoCall, Tunnels,
    trackerVars, callVars, pathVars, closerVars, localVars
<1>1. ASSUME NEW l \in Loads, Ask(l) PROVE InOrder'
  BY <1>1 DEF Ask, Goto
<1>2. ASSUME NEW l \in Loads, EndAttempt(l) PROVE InOrder'
  BY <1>2 DEF EndAttempt, Forget, Goto
<1>3. ASSUME NEW l \in Loads, Enter(l) PROVE InOrder'
  BY <1>3 DEF Enter, ReopenRunning, Goto
<1>4. ASSUME NEW l \in Loads, ReadCurrent(l) PROVE InOrder'
  BY <1>4 DEF ReadCurrent, Goto
<1>5. ASSUME NEW l \in Loads, Join(l), Decide(l) PROVE InOrder'
  BY <1>5 DEF Join, Decide, ReopenRunning, Goto
<1>6. ASSUME NEW l \in Loads, Reread(l), Decide(l) PROVE InOrder'
  BY <1>6 DEF Reread, Decide, ReopenRunning, Superseded, Goto
<1>7. ASSUME NEW l \in Loads, TakeLive(l), Decide(l) PROVE InOrder'
  BY <1>7 DEF TakeLive, Decide, ReopenRunning, Superseded, ReadLive, Goto
<1>8. ASSUME NEW l \in Loads, GiveUp(l), Decide(l) PROVE InOrder'
  BY <1>8 DEF GiveUp, Decide, ReopenRunning, Superseded, ReadLive, LimitReached, Forget, Goto
<1>9. ASSUME NEW l \in Loads, StartReopen(l), Decide(l) PROVE InOrder'
  BY <1>9 DEF StartReopen, Decide, ReopenRunning, Superseded, ReadLive, LimitReached, Goto
<1>10. ASSUME NEW l \in Loads, CheckClosed(l) PROVE InOrder'
  BY <1>10 DEF CheckClosed, Goto
<1>11. ASSUME NEW l \in Loads, OpenTunnel(l) PROVE InOrder'
  BY <1>11 DEF OpenTunnel, Goto
<1>12. ASSUME NEW l \in Loads, OpenFails(l) PROVE InOrder'
  BY <1>12 DEF OpenFails, Goto
<1>13. ASSUME NEW l \in Loads, ~ closed, Swap(l), Install(l) PROVE InOrder'
  BY <1>13 DEF Install, Swap, Goto
<1>14. ASSUME NEW l \in Loads, closed, Install(l) PROVE InOrder'
  BY <1>14 DEF Install, SwapUnlessClosed, Goto
<1>15. ASSUME NEW l \in Loads, Discard(l) PROVE InOrder'
  BY <1>15 DEF Discard, Goto
<1>16. ASSUME NEW l \in Loads, ReadForWarmUp(l) PROVE InOrder'
  BY <1>16 DEF ReadForWarmUp, Goto
<1>17. ASSUME NEW l \in Loads, WarmUp(l) PROVE InOrder'
  BY <1>17 DEF WarmUp, Goto
<1>18. ASSUME NEW l \in Loads, Finish(l) PROVE InOrder'
  BY <1>18 DEF Finish, Goto
<1>19. ASSUME NEW l \in Loads, Release(l) PROVE InOrder'
  BY <1>19 DEF Release, CloseDone, Goto
<1>20. ASSUME NEW l \in Loads, Awake(l) PROVE InOrder'
  BY <1>20 DEF Awake, Goto
<1>21. ASSUME NEW l \in Loads, Abandon(l) PROVE InOrder'
  BY <1>21 DEF Abandon, Forget, Goto
<1>22. ASSUME NEW l \in Loads, OutcomeError(l) PROVE InOrder'
  BY <1>22 DEF OutcomeError, Forget, Goto
<1>23. ASSUME NEW l \in Loads, OutcomeCurrent(l) PROVE InOrder'
  BY <1>23 DEF OutcomeCurrent, Goto
<1>24. CASE Aside
  BY <1>24 DEF Aside
<1>25. ASSUME CloseStart PROVE InOrder'
  BY <1>25 DEF CloseStart
<1>26. QED
  <2>1. ASSUME NEW l \in Loads, Decide(l) PROVE InOrder'
    BY <2>1, <1>5, <1>6, <1>7, <1>8, <1>9 DEF Decide
  <2>2. ASSUME NEW l \in Loads, Install(l) PROVE InOrder'
    BY <2>2, <1>13, <1>14 DEF Install, SwapUnlessClosed
  <2> HIDE DEF IInv
  <2>3. QED
    BY <2>1, <2>2, <1>1, <1>2, <1>3, <1>4, <1>10, <1>11, <1>12, <1>15, <1>16, <1>17,
       <1>18, <1>19, <1>20, <1>21, <1>22, <1>23, <1>24, <1>25, AsideSteps
       DEF Next, Answer, Close

\* A call is marked failed in the step that ends its Reopen.
LEMMA NotFailedYetStep == IInv /\ [Next]_vars => NotFailedYet'
<1> SUFFICES ASSUME IInv, [Next]_vars PROVE NotFailedYet'
  OBVIOUS
<1> USE ReopenLimitAssumption DEF IInv, TypeOK, Single, OneReopenAtATime, Working, NotFailedYet, NoCall, Calls,
    trackerVars, callVars, pathVars, closerVars, localVars
<1>1. ASSUME NEW l \in Loads, Ask(l) PROVE NotFailedYet'
  BY <1>1 DEF Ask, Goto
<1>2. ASSUME NEW l \in Loads, EndAttempt(l) PROVE NotFailedYet'
  BY <1>2 DEF EndAttempt, Forget, Goto
<1>3. ASSUME NEW l \in Loads, Enter(l) PROVE NotFailedYet'
  BY <1>3 DEF Enter, ReopenRunning, Goto
<1>4. ASSUME NEW l \in Loads, ReadCurrent(l) PROVE NotFailedYet'
  BY <1>4 DEF ReadCurrent, Goto
<1>5. ASSUME NEW l \in Loads, Join(l), Decide(l) PROVE NotFailedYet'
  BY <1>5 DEF Join, Decide, ReopenRunning, Goto
<1>6. ASSUME NEW l \in Loads, Reread(l), Decide(l) PROVE NotFailedYet'
  BY <1>6 DEF Reread, Decide, ReopenRunning, Superseded, Goto
<1>7. ASSUME NEW l \in Loads, TakeLive(l), Decide(l) PROVE NotFailedYet'
  BY <1>7 DEF TakeLive, Decide, ReopenRunning, Superseded, ReadLive, Goto
<1>8. ASSUME NEW l \in Loads, GiveUp(l), Decide(l) PROVE NotFailedYet'
  BY <1>8 DEF GiveUp, Decide, ReopenRunning, Superseded, ReadLive, LimitReached, Forget, Goto
<1>9. ASSUME NEW l \in Loads, StartReopen(l), Decide(l) PROVE NotFailedYet'
  BY <1>9 DEF StartReopen, Decide, ReopenRunning, Superseded, ReadLive, LimitReached, Goto
<1>10. ASSUME NEW l \in Loads, CheckClosed(l) PROVE NotFailedYet'
  <2>1. call[l] \in 1..reopenCount
    BY <1>10 DEF CheckClosed, Goto
  <2>2. \A m \in Loads : m # l => pc'[m] = pc[m] /\ ~ Working(m)
    BY <1>10 DEF CheckClosed, Goto
  <2>3. QED
    BY <1>10, <2>1, <2>2 DEF CheckClosed, Goto
<1>11. ASSUME NEW l \in Loads, OpenTunnel(l) PROVE NotFailedYet'
  BY <1>11 DEF OpenTunnel, Goto
<1>12. ASSUME NEW l \in Loads, OpenFails(l) PROVE NotFailedYet'
  <2>1. call[l] \in 1..reopenCount
    BY <1>12 DEF OpenFails, Goto
  <2>2. \A m \in Loads : m # l => pc'[m] = pc[m] /\ ~ Working(m)
    BY <1>12 DEF OpenFails, Goto
  <2>3. QED
    BY <1>12, <2>1, <2>2 DEF OpenFails, Goto
<1>13. ASSUME NEW l \in Loads, ~ closed, Swap(l), Install(l) PROVE NotFailedYet'
  BY <1>13 DEF Install, Swap, Goto
<1>14. ASSUME NEW l \in Loads, closed, Install(l) PROVE NotFailedYet'
  BY <1>14 DEF Install, SwapUnlessClosed, Goto
<1>15. ASSUME NEW l \in Loads, Discard(l) PROVE NotFailedYet'
  <2>1. call[l] \in 1..reopenCount
    BY <1>15 DEF Discard, Goto
  <2>2. \A m \in Loads : m # l => pc'[m] = pc[m] /\ ~ Working(m)
    BY <1>15 DEF Discard, Goto
  <2>3. QED
    BY <1>15, <2>1, <2>2 DEF Discard, Goto
<1>16. ASSUME NEW l \in Loads, ReadForWarmUp(l) PROVE NotFailedYet'
  BY <1>16 DEF ReadForWarmUp, Goto
<1>17. ASSUME NEW l \in Loads, WarmUp(l) PROVE NotFailedYet'
  BY <1>17 DEF WarmUp, Goto
<1>18. ASSUME NEW l \in Loads, Finish(l) PROVE NotFailedYet'
  BY <1>18 DEF Finish, Goto
<1>19. ASSUME NEW l \in Loads, Release(l) PROVE NotFailedYet'
  BY <1>19 DEF Release, CloseDone, Goto
<1>20. ASSUME NEW l \in Loads, Awake(l) PROVE NotFailedYet'
  BY <1>20 DEF Awake, Goto
<1>21. ASSUME NEW l \in Loads, Abandon(l) PROVE NotFailedYet'
  BY <1>21 DEF Abandon, Forget, Goto
<1>22. ASSUME NEW l \in Loads, OutcomeError(l) PROVE NotFailedYet'
  BY <1>22 DEF OutcomeError, Forget, Goto
<1>23. ASSUME NEW l \in Loads, OutcomeCurrent(l) PROVE NotFailedYet'
  BY <1>23 DEF OutcomeCurrent, Goto
<1>24. CASE Aside
  BY <1>24 DEF Aside
<1>25. ASSUME CloseStart PROVE NotFailedYet'
  BY <1>25 DEF CloseStart
<1>26. QED
  <2>1. ASSUME NEW l \in Loads, Decide(l) PROVE NotFailedYet'
    BY <2>1, <1>5, <1>6, <1>7, <1>8, <1>9 DEF Decide
  <2>2. ASSUME NEW l \in Loads, Install(l) PROVE NotFailedYet'
    BY <2>2, <1>13, <1>14 DEF Install, SwapUnlessClosed
  <2> HIDE DEF IInv
  <2>3. QED
    BY <2>1, <2>2, <1>1, <1>2, <1>3, <1>4, <1>10, <1>11, <1>12, <1>15, <1>16, <1>17,
       <1>18, <1>19, <1>20, <1>21, <1>22, <1>23, <1>24, <1>25, AsideSteps
       DEF Next, Answer, Close

--------------------------------------------------------------------------------
\* The strengthened invariant holds in every reachable state, for every set of
\* loads and every limit on re-opens.
LEMMA Invariance == Spec => []IInv
<1>1. IInv /\ [Next]_vars => IInv'
  BY TypeStep, SingleStep, OpensStep, FreshStep, InOrderStep, NotFailedYetStep DEF IInv
<1>2. QED
  BY InitIInv, <1>1, PTL DEF Spec

\* The state keeps its types, and with them the bound on re-creations: started
\* and finished re-opens never exceed the limit, tunnels brought up never exceed
\* it by more than the first.
THEOREM TypeCorrect == Spec => []TypeOK
<1>1. IInv => TypeOK
  BY DEF IInv
<1>2. QED
  BY Invariance, <1>1, PTL

\* However many loads notice a loss at once, one of them re-opens the tunnel.
THEOREM SingleFlight == Spec => []OneReopenAtATime
<1>1. IInv => OneReopenAtATime
  BY DEF IInv, Single
<1>2. QED
  BY Invariance, <1>1, PTL

\* Only Swap changes which tunnel is current.
LEMMA CurrentChangesBySwap ==
  ASSUME IInv, [Next]_vars, current' # current
  PROVE  \E l \in Loads : ~ closed /\ Swap(l) /\ Install(l)
<1>1. ASSUME NEW l \in Loads, Decide(l) PROVE FALSE
  BY <1>1 DEF Decide, Join, Reread, TakeLive, GiveUp, StartReopen, pathVars
<1>2. ASSUME NEW l \in Loads, Install(l) PROVE ~ closed /\ Swap(l)
  BY <1>2 DEF Install, SwapUnlessClosed
<1>3. ASSUME NEW l \in Loads,
             \/ Ask(l) \/ EndAttempt(l) \/ Enter(l) \/ ReadCurrent(l) \/ CheckClosed(l)
             \/ OpenTunnel(l) \/ OpenFails(l) \/ Discard(l) \/ ReadForWarmUp(l) \/ WarmUp(l)
             \/ Finish(l) \/ Release(l) \/ Awake(l) \/ Abandon(l) \/ OutcomeError(l)
             \/ OutcomeCurrent(l)
      PROVE  FALSE
  BY <1>3 DEF Ask, EndAttempt, Enter, ReadCurrent, CheckClosed, OpenTunnel, OpenFails,
     Discard, ReadForWarmUp, WarmUp, Finish, Release, Awake, Abandon, OutcomeError,
     OutcomeCurrent, pathVars
<1>4. ~ Aside
  BY DEF Aside
<1>5. ~ CloseStart
  BY DEF CloseStart
<1>6. QED
  BY <1>1, <1>2, <1>3, <1>4, <1>5, AsideSteps DEF Next, Answer, Close

\* A tunnel that is still live is never replaced, whatever the loads read before.
THEOREM NeverReplacesALiveTunnel == Spec => OnlyLostReplaced
<1>1. ASSUME IInv, [Next]_vars
      PROVE  [current' # current => current \in lost /\ current' > current]_vars
  <2> SUFFICES ASSUME current' # current
      PROVE  current \in lost /\ current' > current
    OBVIOUS
  <2>1. PICK l \in Loads : Swap(l)
    BY <1>1, CurrentChangesBySwap
  <2>2. pc[l] = "install" /\ current' = fresh[l]
    BY <2>1 DEF Swap, Goto
  <2>3. current \in lost
    BY <1>1, <2>2 DEF IInv, Fresh
  <2>4. current < fresh[l]
    BY <1>1, <2>2 DEF IInv, Opens
  <2>5. QED
    BY <1>1, <2>2, <2>3, <2>4 DEF IInv, TypeOK, Tunnels
<1>2. QED
  BY Invariance, <1>1, PTL DEF Spec, OnlyLostReplaced
--------------------------------------------------------------------------------
\* The refinement: StartReopen is Begin, Swap is Swap, Finish is End; a step that
\* fires the current tunnel's signal is Die; every other step stutters.
LEMMA InitRefines == Init => Replacement!Init
  BY DEF Init, Replacement!Init, Replacing, NoCall

\* A step that leaves the calls, the current tunnel and who has swapped alone
\* can only fire the current tunnel's signal.
LEMMA StutterOrDie ==
  ASSUME inflight' = inflight, reopenCount' = reopenCount, current' = current,
         lost \subseteq lost', \A m \in Loads : Swapped(m)' <=> Swapped(m)
  PROVE  [Replacement!Next]_(Replacement!vars)
<1>1. Replacing' = Replacing
  BY DEF Replacing
<1>2. CASE current \in lost' /\ current \notin lost
  BY <1>1, <1>2 DEF Replacement!Next, Replacement!Die
<1>3. CASE (current \in lost) <=> (current \in lost')
  BY <1>1, <1>3 DEF Replacement!vars
<1>4. QED
  BY <1>2, <1>3

\* Only the load of the call in flight can have swapped.
LEMMA NoneSwapped ==
  ASSUME IInv, NEW l \in Loads, Working(l), ~ Swapped(l), NEW m \in Loads
  PROVE  ~ Swapped(m)
  BY DEF IInv, Single, OneReopenAtATime, Working, Swapped

\* Every step of the tracker over the path is a step of TunnelReplacement or a
\* stutter.
LEMMA NextRefines ==
  ASSUME IInv, [Next]_vars
  PROVE  [Replacement!Next]_(Replacement!vars)
<1> USE DEF trackerVars, callVars, pathVars, closerVars, localVars
<1>1. ASSUME NEW l \in Loads,
             \/ Ask(l) \/ EndAttempt(l) \/ Enter(l) \/ ReadCurrent(l) \/ OpenTunnel(l)
             \/ ReadForWarmUp(l) \/ WarmUp(l) \/ Release(l) \/ Awake(l) \/ Abandon(l)
             \/ OutcomeError(l) \/ OutcomeCurrent(l)
      PROVE  [Replacement!Next]_(Replacement!vars)
  <2> USE DEF IInv, TypeOK
  <2>1. \A m \in Loads : Swapped(m)' <=> Swapped(m)
    <3> USE DEF Swapped, Goto
    <3>1. CASE Ask(l) \/ Awake(l) \/ OutcomeCurrent(l)
      BY <3>1 DEF Ask, Awake, OutcomeCurrent
    <3>2. CASE EndAttempt(l) \/ Abandon(l) \/ OutcomeError(l)
      BY <3>2 DEF EndAttempt, Abandon, OutcomeError, Forget
    <3>3. CASE Enter(l) \/ ReadCurrent(l)
      BY <3>3 DEF Enter, ReadCurrent
    <3>4. CASE OpenTunnel(l) \/ ReadForWarmUp(l) \/ WarmUp(l) \/ Release(l)
      BY <3>4 DEF OpenTunnel, ReadForWarmUp, WarmUp, Release, CloseDone
    <3>5. QED
      BY <1>1, <3>1, <3>2, <3>3, <3>4
  <2>2. inflight' = inflight /\ reopenCount' = reopenCount /\ current' = current /\ lost' = lost
    BY <1>1 DEF Ask, EndAttempt, Enter, ReadCurrent, OpenTunnel, ReadForWarmUp, WarmUp,
       Release, Awake, Abandon, OutcomeError, OutcomeCurrent
  <2>3. QED
    BY <2>1, <2>2, StutterOrDie
<1>2. ASSUME NEW l \in Loads, CheckClosed(l) \/ OpenFails(l) \/ Discard(l)
      PROVE  [Replacement!Next]_(Replacement!vars)
  <2>1. Working(l) /\ ~ Swapped(l)
    BY <1>2 DEF CheckClosed, OpenFails, Discard, Goto, Working, Swapped
  <2>2. \A m \in Loads : ~ Swapped(m)
    BY <2>1, NoneSwapped
  <2>3. \A m \in Loads : m # l => ~ Working(m)
    BY <2>1 DEF IInv, Single, OneReopenAtATime
  <2>4. /\ \A m \in Loads : m # l => pc'[m] = pc[m]
        /\ (pc'[l] = "finish" /\ call[l] \in callFailed') \/ pc'[l] = "open"
        /\ call' = call
    BY <1>2 DEF CheckClosed, OpenFails, Discard, Goto, IInv, TypeOK
  <2>5. \A m \in Loads : ~ Swapped(m)'
    BY <2>3, <2>4 DEF Swapped, Working
  <2>6. /\ inflight' = inflight /\ reopenCount' = reopenCount /\ current' = current
        /\ lost \subseteq lost'
    BY <1>2 DEF CheckClosed, OpenFails, Discard
  <2>7. QED
    BY <2>2, <2>5, <2>6, StutterOrDie
<1>3. ASSUME NEW l \in Loads, Decide(l), ~ StartReopen(l)
      PROVE  [Replacement!Next]_(Replacement!vars)
  <2>1. \A m \in Loads : Swapped(m)' <=> Swapped(m)
    BY <1>3 DEF Decide, Join, Reread, TakeLive, GiveUp, Forget, Goto, Swapped, IInv, TypeOK
  <2>2. inflight' = inflight /\ reopenCount' = reopenCount /\ current' = current /\ lost' = lost
    BY <1>3 DEF Decide, Join, Reread, TakeLive, GiveUp
  <2>3. QED
    BY <2>1, <2>2, StutterOrDie
<1>4. ASSUME NEW l \in Loads, Decide(l), StartReopen(l)
      PROVE  [Replacement!Next]_(Replacement!vars)
  <2>1. current' = current /\ lost' = lost /\ callFailed' = callFailed
    BY <1>4 DEF Decide
  <2>2. /\ inflight = NoCall /\ inflight' # NoCall /\ reopenCount' = reopenCount + 1
        /\ reopenCount < ReopenLimit
    BY <1>4, ReopenLimitAssumption
       DEF StartReopen, ReopenRunning, LimitReached, NoCall, IInv, TypeOK
  <2>3. \A m \in Loads : ~ Working(m)
    BY <2>2 DEF IInv, Single, OneReopenAtATime
  <2>4. current \in lost
    <3>1. pc[l] = "decide" /\ finishedSeen[l] = finishedReopenCount /\ l \in isLost
      BY <1>4 DEF StartReopen, Goto, Superseded, ReadLive
    <3>2. \A m \in Loads : pc[m] \notin {"warm", "warming", "finish"}
      BY <2>3 DEF Working
    <3>3. QED
      BY <3>1, <3>2 DEF IInv, Fresh
  <2>5. \A m \in Loads : ~ Swapped(m)'
    BY <1>4, <2>3 DEF StartReopen, Goto, Swapped, Working, IInv, TypeOK
  <2>6. Replacing = "no" /\ Replacing' = "opening"
    BY <2>2, <2>5 DEF Replacing
  <2>7. QED
    BY <2>1, <2>2, <2>4, <2>6 DEF Replacement!Next, Replacement!Begin
<1>5. ASSUME NEW l \in Loads, Install(l)
      PROVE  [Replacement!Next]_(Replacement!vars)
  <2>1. pc[l] = "install"
    BY <1>5 DEF Install, SwapUnlessClosed, Swap, Goto
  <2>2. Working(l) /\ ~ Swapped(l) /\ call[l] \notin callFailed /\ inflight # NoCall
    BY <2>1 DEF Working, Swapped, IInv, NotFailedYet, Single, OneReopenAtATime
  <2>3. \A m \in Loads : ~ Swapped(m)
    BY <2>2, NoneSwapped
  <2>4. inflight' = inflight /\ reopenCount' = reopenCount /\ lost' = lost
    BY <1>5 DEF Install
  <2>5. CASE ~ closed /\ Swap(l)
    <3>1. Swapped(l)'
      BY <1>5, <2>2, <2>5 DEF Install, Swap, Goto, Swapped, IInv, TypeOK
    <3>2. Replacing = "opening" /\ Replacing' = "swapped"
      BY <2>2, <2>3, <2>4, <3>1 DEF Replacing
    <3>3. current' = current + 1
      <4>1. current' = fresh[l]
        BY <2>5 DEF Swap
      <4>2. fresh[l] = opened - 1
        BY <2>1 DEF IInv, Opens
      <4>3. opened = current + 2
        BY <2>1, <2>5 DEF IInv, InOrder
      <4>4. current \in Int
        BY ReopenLimitAssumption DEF IInv, TypeOK, Tunnels
      <4>5. QED
        BY <4>1, <4>2, <4>3, <4>4
    <3>4. QED
      BY <2>4, <3>2, <3>3 DEF Replacement!Next, Replacement!Swap
  <2>6. CASE closed
    <3>1. \A m \in Loads : ~ Swapped(m)'
      BY <1>5, <2>3, <2>6 DEF Install, SwapUnlessClosed, Goto, Swapped, IInv, TypeOK
    <3>2. current' = current
      BY <1>5, <2>6 DEF Install, SwapUnlessClosed
    <3>3. QED
      BY <2>3, <2>4, <3>1, <3>2, StutterOrDie
  <2>7. QED
    BY <1>5, <2>5, <2>6 DEF Install, SwapUnlessClosed
<1>6. ASSUME NEW l \in Loads, Finish(l)
      PROVE  [Replacement!Next]_(Replacement!vars)
  <2>1. inflight # NoCall
    BY <1>6 DEF Finish, Goto, Working, IInv, Single, OneReopenAtATime
  <2>2. Replacing # "no" /\ Replacing' = "no"
    BY <1>6, <2>1 DEF Finish, Replacing
  <2>3. QED
    BY <1>6, <2>2 DEF Finish, Replacement!Next, Replacement!End
<1>7. CASE Aside
  BY <1>7, StutterOrDie DEF Aside, Swapped
<1>8. CASE CloseStart
  BY <1>8, StutterOrDie DEF CloseStart, Swapped
<1>9. QED
  BY <1>1, <1>2, <1>3, <1>4, <1>5, <1>6, <1>7, <1>8, AsideSteps DEF Next, Answer, Close

\* The tracker over the probe's path is one replacement at a time, of lost
\* tunnels only, each swapping once, within the limit.
THEOREM ImplementsReplacement == Spec => ReplacesOnlyLostTunnels
  BY Invariance, InitRefines, NextRefines, PTL
     DEF Spec, ReplacesOnlyLostTunnels, Replacement!Spec

--------------------------------------------------------------------------------
\* What the path leaves open needs to know where every tunnel is: the current one,
\* one a re-open holds, or one the retiring counter counts (Kept).
Leaving == {t \in Tunnels : tunnel[t] \in {"retiring", "failing", "retired"}}
Held(l) == pc[l] \in {"install", "discard"}

Kept ==
  /\ retiring = Cardinality(Leaving)
  /\ \A t \in Tunnels : opened <= t => tunnel[t] = "none"
  /\ tunnel[current] = IF closer \in {"open", "closing"} THEN "open" ELSE "closed"
  /\ \A t \in Tunnels : tunnel[t] = "open" => t = current \/ \E l \in Loads : Held(l) /\ fresh[l] = t
  /\ \A l \in Loads : Held(l) => tunnel[fresh[l]] = "open" /\ fresh[l] # current /\ fresh[l] < opened
  /\ closer = "done" => Leaving = {} /\ errs \subseteq reported

--------------------------------------------------------------------------------
LEMMA TunnelSets ==
  ASSUME NEW S, S \subseteq Tunnels
  PROVE  /\ IsFiniteSet(S) /\ Cardinality(S) \in Nat
         /\ \A t : t \notin S => Cardinality(S \cup {t}) = Cardinality(S) + 1
         /\ \A t \in S : Cardinality(S \ {t}) = Cardinality(S) - 1
<1>1. IsFiniteSet(Tunnels)
  BY ReopenLimitAssumption, FS_Interval DEF Tunnels
<1>2. IsFiniteSet(S) /\ Cardinality(S) \in Nat
  BY <1>1, FS_Subset, FS_CardinalityType
<1>3. \A t : t \notin S => Cardinality(S \cup {t}) = Cardinality(S) + 1
  BY <1>2, FS_AddElement
<1>4. \A t \in S : Cardinality(S \ {t}) = Cardinality(S) - 1
  BY <1>2, FS_RemoveElement
<1> QED BY <1>2, <1>3, <1>4

\* Steps that move no tunnel and no load in or out of holding one.
Quiet ==
  /\ UNCHANGED <<opened, tunnel, current, retiring, errs, closer, reported>>
  /\ \A l \in Loads : (Held(l)' <=> Held(l)) /\ (Held(l) => fresh'[l] = fresh[l])

LEMMA QuietKeeps == Kept /\ Quiet => Kept'
<1> SUFFICES ASSUME Kept, Quiet PROVE Kept'
  OBVIOUS
<1>1. Leaving' = Leaving
  BY DEF Quiet, Leaving
<1> QED BY <1>1 DEF Kept, Quiet

LEMMA QuietSteps ==
  ASSUME TypeOK, NEW l \in Loads,
         \/ Ask(l) \/ EndAttempt(l) \/ Enter(l) \/ ReadCurrent(l) \/ Decide(l) \/ CheckClosed(l)
         \/ OpenFails(l) \/ ReadForWarmUp(l) \/ WarmUp(l) \/ Finish(l) \/ Release(l) \/ Awake(l)
         \/ Abandon(l) \/ OutcomeError(l) \/ OutcomeCurrent(l) \/ (closed /\ Install(l))
  PROVE  Quiet
<1> USE DEF Quiet, Held, Goto, Forget, TypeOK, pathVars, closerVars
<1>1. CASE Ask(l) \/ EndAttempt(l) \/ Enter(l) \/ ReadCurrent(l)
  BY <1>1 DEF Ask, EndAttempt, Enter, ReadCurrent, localVars
<1>2. CASE Decide(l)
  BY <1>2 DEF Decide, Join, Reread, TakeLive, GiveUp, StartReopen, localVars
<1>3. CASE CheckClosed(l) \/ OpenFails(l) \/ WarmUp(l) \/ Finish(l) \/ Release(l) \/ Awake(l)
  BY <1>3 DEF CheckClosed, OpenFails, WarmUp, Finish, Release, CloseDone, Awake, localVars
<1>4. CASE ReadForWarmUp(l) \/ Abandon(l) \/ OutcomeError(l) \/ OutcomeCurrent(l)
  BY <1>4 DEF ReadForWarmUp, Abandon, OutcomeError, OutcomeCurrent
<1>5. CASE closed /\ Install(l)
  BY <1>5 DEF Install, SwapUnlessClosed, Swap, localVars
<1> QED BY <1>1, <1>2, <1>3, <1>4, <1>5

LEMMA OpenKeeps ==
  ASSUME IInv, Kept, NEW l \in Loads, OpenTunnel(l)
  PROVE  Kept'
<1>1. /\ pc[l] = "open" /\ pc' = [pc EXCEPT ![l] = "install"]
      /\ tunnel' = [tunnel EXCEPT ![opened] = "open"]
      /\ fresh' = [fresh EXCEPT ![l] = opened] /\ opened' = opened + 1
      /\ UNCHANGED <<current, retiring, errs, closer, reported>>
  BY DEF OpenTunnel, Goto, closerVars
<1>2. /\ opened \in Tunnels /\ opened \in Nat /\ current < opened
  BY <1>1, ReopenLimitAssumption DEF IInv, Opens, TypeOK, Tunnels
<1>3. tunnel[opened] = "none" /\ tunnel'[opened] = "open" /\ fresh'[l] = opened /\ pc'[l] = "install"
      /\ \A t \in Tunnels \ {opened} : tunnel'[t] = tunnel[t]
      /\ \A m \in Loads \ {l} : pc'[m] = pc[m] /\ fresh'[m] = fresh[m]
  BY <1>1, <1>2 DEF Kept, IInv, TypeOK
<1>4. Leaving' = Leaving
  BY <1>2, <1>3 DEF Leaving
<1>5. current \in Tunnels /\ current # opened /\ \A m \in Loads : fresh[m] \in Tunnels
  BY <1>2 DEF IInv, TypeOK, Tunnels
<1>6. ~ Held(l) /\ Held(l)' /\ \A m \in Loads \ {l} : Held(m)' <=> Held(m)
  BY <1>1, <1>3 DEF Held
<1>7. \A t \in Tunnels : opened' <= t => tunnel'[t] = "none"
  BY <1>1, <1>2, <1>3 DEF Kept, Tunnels
<1>8. \A t \in Tunnels : tunnel'[t] = "open" =>
        t = current' \/ \E m \in Loads : Held(m)' /\ fresh'[m] = t
  BY <1>1, <1>3, <1>6 DEF Kept
<1>9. \A m \in Loads : Held(m)' =>
        tunnel'[fresh'[m]] = "open" /\ fresh'[m] # current' /\ fresh'[m] < opened'
  BY <1>1, <1>2, <1>3, <1>5, <1>6 DEF Kept, Tunnels
<1> QED BY <1>1, <1>3, <1>4, <1>5, <1>7, <1>8, <1>9 DEF Kept

\* The tunnel that was current is counted as it is replaced.
LEMMA SwapKeeps ==
  ASSUME IInv, Kept, NEW l \in Loads, ~ closed, Swap(l), Install(l)
  PROVE  Kept'
<1>1. /\ pc[l] = "install" /\ pc' = [pc EXCEPT ![l] = "warm"] /\ current' = fresh[l]
      /\ tunnel' = [tunnel EXCEPT ![current] = "retiring"] /\ retiring' = retiring + 1
      /\ UNCHANGED <<opened, errs, closer, reported, fresh>>
  BY DEF Swap, Install, Goto, closerVars, localVars
<1>2. Held(l) /\ ~ Held(l)' /\ \A m \in Loads \ {l} : ~ Held(m) /\ ~ Held(m)'
  BY <1>1 DEF Held, IInv, TypeOK, Single, OneReopenAtATime, Working
<1>3. /\ tunnel[fresh[l]] = "open" /\ fresh[l] # current /\ fresh[l] < opened
      /\ current \in Tunnels /\ fresh[l] \in Tunnels
      /\ closer = "open" /\ tunnel[current] = "open"
  BY <1>2 DEF Kept, IInv, InOrder, TypeOK
<1>4. /\ tunnel'[current] = "retiring"
      /\ \A t \in Tunnels \ {current} : tunnel'[t] = tunnel[t]
  BY <1>1, <1>3 DEF IInv, TypeOK
<1>5. current \notin Leaving /\ Leaving' = Leaving \cup {current} /\ Leaving \subseteq Tunnels
  BY <1>3, <1>4 DEF Leaving
<1>6. Cardinality(Leaving') = Cardinality(Leaving) + 1
  BY <1>5, TunnelSets
<1>7. \A t \in Tunnels : opened' <= t => tunnel'[t] = "none"
  BY <1>1, <1>3, <1>4 DEF Kept
<1>8. \A t \in Tunnels : tunnel'[t] = "open" => t = current'
  BY <1>1, <1>2, <1>4 DEF Kept
<1> QED BY <1>1, <1>2, <1>3, <1>4, <1>6, <1>7, <1>8 DEF Kept

LEMMA DiscardKeeps ==
  ASSUME IInv, Kept, NEW l \in Loads, Discard(l)
  PROVE  Kept'
<1>1. /\ pc[l] = "discard" /\ pc' = [pc EXCEPT ![l] = "finish"]
      /\ tunnel' = [tunnel EXCEPT ![fresh[l]] = "closed"]
      /\ UNCHANGED <<opened, current, retiring, errs, closer, reported, fresh>>
  BY DEF Discard, Goto, closerVars, localVars
<1>2. Held(l) /\ ~ Held(l)' /\ \A m \in Loads \ {l} : ~ Held(m) /\ ~ Held(m)'
  BY <1>1 DEF Held, IInv, TypeOK, Single, OneReopenAtATime, Working
<1>3. /\ tunnel[fresh[l]] = "open" /\ fresh[l] # current /\ fresh[l] < opened
      /\ current \in Tunnels /\ fresh[l] \in Tunnels
  BY <1>2 DEF Kept, IInv, TypeOK
<1>4. /\ tunnel'[fresh[l]] = "closed"
      /\ \A t \in Tunnels \ {fresh[l]} : tunnel'[t] = tunnel[t]
  BY <1>1, <1>3 DEF IInv, TypeOK
<1>5. Leaving' = Leaving
  BY <1>3, <1>4 DEF Leaving
<1>6. \A t \in Tunnels : opened' <= t => tunnel'[t] = "none"
  BY <1>1, <1>3, <1>4 DEF Kept, IInv, TypeOK, Tunnels
<1>7. \A t \in Tunnels : tunnel'[t] = "open" => t = current'
  BY <1>1, <1>2, <1>4 DEF Kept
<1> QED BY <1>1, <1>2, <1>3, <1>4, <1>5, <1>6, <1>7 DEF Kept

LEMMA RetireKeeps ==
  ASSUME IInv, Kept, NEW t \in Tunnels, Retire(t)
  PROVE  Kept'
<1> DEFINE Left == {"retiring", "failing", "retired"}
<1>1. /\ t \in Leaving /\ tunnel[t] \in Left
      /\ UNCHANGED <<opened, current, closer, reported, pc, fresh>>
      /\ \A u \in Tunnels \ {t} : tunnel'[u] = tunnel[u]
  BY DEF Retire, RetireClose, RetireReport, RetireDone, Done, Leaving, closerVars, localVars, IInv, TypeOK
<1>2. t # current /\ current \in Tunnels /\ closer # "done"
  BY <1>1 DEF Kept, IInv, TypeOK
<1>3. /\ \A m \in Loads : Held(m)' <=> Held(m)
      /\ \A m \in Loads : Held(m) => fresh[m] # t /\ fresh[m] \in Tunnels
  BY <1>1 DEF Held, Kept, IInv, TypeOK
<1>4. tunnel'[t] # "open" /\ (opened <= t => FALSE)
  BY <1>1 DEF Kept, Retire, RetireClose, RetireReport, RetireDone, Done, IInv, TypeOK
<1>5. retiring' = Cardinality(Leaving')
  <2>1. Leaving \subseteq Tunnels /\ retiring = Cardinality(Leaving)
    BY DEF Leaving, Kept
  <2>2. CASE RetireClose(t) \/ RetireReport(t)
    <3>1. tunnel'[t] \in Left /\ retiring' = retiring
      BY <2>2 DEF RetireClose, RetireReport, IInv, TypeOK
    <3>2. Leaving' = Leaving
      BY <1>1, <3>1 DEF Leaving
    <3> QED BY <2>1, <3>1, <3>2
  <2>3. CASE RetireDone(t)
    <3>1. tunnel'[t] = "closed" /\ retiring' = retiring - 1
      BY <2>3 DEF RetireDone, Done, IInv, TypeOK
    <3>2. Leaving' = Leaving \ {t}
      BY <1>1, <3>1 DEF Leaving
    <3>3. Cardinality(Leaving \ {t}) = Cardinality(Leaving) - 1
      BY <1>1, <2>1, TunnelSets
    <3> QED BY <2>1, <3>1, <3>2, <3>3
  <2> QED BY <2>2, <2>3 DEF Retire
<1> QED BY <1>1, <1>2, <1>3, <1>4, <1>5 DEF Kept

\* Close closes the current tunnel, which nobody swaps any more, and returns once
\* nothing is counted.
LEMMA CloseKeeps ==
  ASSUME IInv, Kept, Close
  PROVE  Kept'
<1>1. UNCHANGED <<opened, current, retiring, errs, pc, fresh>>
  BY DEF Close, CloseStart, CloseCurrent, CloseReturn, pathVars, localVars
<1>2. \A m \in Loads : Held(m)' <=> Held(m)
  BY <1>1 DEF Held
<1>3. current \in Tunnels /\ \A m \in Loads : fresh[m] \in Tunnels
  BY DEF IInv, TypeOK
<1>4. CASE CloseStart
  <2>1. closer = "open" /\ closer' = "closing" /\ tunnel' = tunnel
    BY <1>4 DEF CloseStart
  <2>2. Leaving' = Leaving
    BY <2>1 DEF Leaving
  <2> QED BY <1>1, <1>2, <2>1, <2>2 DEF Kept
<1>5. CASE CloseCurrent
  <2>1. /\ closer = "closing" /\ closer' = "waiting" /\ closing = current
        /\ tunnel' = [tunnel EXCEPT ![current] = "closed"]
    BY <1>5 DEF CloseCurrent, IInv, InOrder
  <2>2. /\ tunnel[current] = "open" /\ tunnel'[current] = "closed"
        /\ \A t \in Tunnels \ {current} : tunnel'[t] = tunnel[t]
    BY <1>3, <2>1 DEF Kept, IInv, TypeOK
  <2>3. Leaving' = Leaving
    BY <1>3, <2>2 DEF Leaving
  <2>4. \A t \in Tunnels : opened <= t => tunnel'[t] = "none"
    BY <2>2 DEF Kept
  <2> QED BY <1>1, <1>2, <1>3, <2>1, <2>2, <2>3, <2>4 DEF Kept
<1>6. CASE CloseReturn
  <2>1. /\ closer = "waiting" /\ closer' = "done" /\ tunnel' = tunnel /\ retiring = 0
        /\ reported' = reported \cup errs
    BY <1>6 DEF CloseReturn, pathVars
  <2>2. Leaving' = Leaving /\ Leaving \subseteq Tunnels
    BY <2>1 DEF Leaving
  <2>3. Leaving = {}
    BY <2>1, <2>2, TunnelSets, FS_EmptySet DEF Kept
  <2> QED BY <1>1, <1>2, <2>1, <2>2, <2>3 DEF Kept
<1> QED BY <1>4, <1>5, <1>6 DEF Close

LEMMA KeptStep == IInv /\ Kept /\ [Next]_vars => Kept'
<1> SUFFICES ASSUME IInv, Kept, [Next]_vars PROVE Kept'
  OBVIOUS
<1>1. ASSUME NEW t \in Tunnels, Lose(t) PROVE Kept'
  BY <1>1, QuietKeeps DEF Lose, Quiet, Held, closerVars, localVars
<1>2. CASE End \/ UNCHANGED vars
  BY <1>2, QuietKeeps DEF End, vars, Quiet, Held, pathVars, closerVars, localVars
<1>3. ASSUME NEW l \in Loads, Install(l) PROVE Kept'
  BY <1>3, SwapKeeps, QuietSteps, QuietKeeps DEF Install, SwapUnlessClosed, IInv
<1>4. ASSUME NEW l \in Loads, Ask(l) \/ Answer(l) \/ EndAttempt(l) PROVE Kept'
  BY <1>3, <1>4, OpenKeeps, DiscardKeeps, QuietSteps, QuietKeeps DEF Answer, IInv
<1> QED BY <1>1, <1>2, <1>4, RetireKeeps, CloseKeeps DEF Next

\* However many tunnels a run went through, and whenever its path was closed, Close
\* leaves none open but one that a re-open under way is about to close, and it
\* returns every error of the retired ones (path.go:152-175).
THEOREM CloseLeavesNoTunnel == Spec => []CloseLeavesNothing
<1>1. Init => Kept
  <2>1. SUFFICES ASSUME Init PROVE Kept
    OBVIOUS
  <2>2. Leaving = {}
    BY <2>1 DEF Init, Leaving
  <2> QED BY <2>1, <2>2, FS_EmptySet, ReopenLimitAssumption DEF Init, Kept, Held, Tunnels
<1>2. IInv /\ Kept => CloseLeavesNothing
  BY DEF IInv, TypeOK, Kept, CloseLeavesNothing, Leaving, Held, TunnelStages
<1> QED BY <1>1, <1>2, KeptStep, Invariance, PTL DEF Spec

--------------------------------------------------------------------------------
\* What the path hands out cold needs to know which re-opens a load has seen end
\* (Seen), and that the current tunnel is cold only while somebody warms it up (Warm).
\* A load waits for a re-open that was not over when it asked.
Seen ==
  /\ \A l \in Loads :
       /\ pc[l] \in {"await", "outcome", "release"} \/ Working(l) => finishedSeen[l] < call[l]
       /\ pc[l] \in {"outcome", "release"} => call[l] <= finishedReopenCount
       /\ pc[l] = "reread" => finishedSeen[l] < finishedReopenCount
  /\ \A c \in callDone : c <= finishedReopenCount

\* The current tunnel is cold only while a load warms it up.
Warm ==
  /\ (\A l \in Loads : pc[l] \notin {"warm", "warming"}) => current \in warmed
  /\ \A l \in Loads : pc[l] = "warming" => fresh[l] = current

LEMMA SeenStep == IInv /\ Seen /\ [Next]_vars => Seen'
<1> SUFFICES ASSUME IInv, Seen, [Next]_vars PROVE Seen'
  OBVIOUS
<1>1. \A l \in Loads : finishedSeen[l] <= finishedReopenCount
  BY DEF IInv, Fresh
<1>2. ASSUME NEW l \in Loads, Ask(l) \/ EndAttempt(l) \/ ReadCurrent(l) PROVE Seen'
  BY <1>2 DEF Ask, EndAttempt, ReadCurrent, Forget, Goto, Seen, Working, IInv, TypeOK, trackerVars,
     callVars, localVars
<1>3. ASSUME NEW l \in Loads, Enter(l) PROVE Seen'
  <2>1. inflight # NoCall => inflight = finishedReopenCount + 1
    BY DEF IInv, Single, TypeOK
  <2> QED BY <1>3, <2>1 DEF Enter, ReopenRunning, Goto, Seen, Working, IInv, TypeOK, trackerVars, callVars
<1>4. ASSUME NEW l \in Loads, Decide(l) PROVE Seen'
  <2> USE DEF Decide, Goto, Seen, Working, IInv, TypeOK, callVars
  <2>1. inflight # NoCall => inflight = finishedReopenCount + 1
    BY DEF Single
  <2>2. CASE Join(l)
    <3>1. /\ pc' = [pc EXCEPT ![l] = "await"] /\ call' = [call EXCEPT ![l] = inflight]
          /\ UNCHANGED <<finishedReopenCount, callDone, finishedSeen>>
          /\ inflight = finishedReopenCount + 1
      BY <1>4, <2>1, <2>2 DEF Join, ReopenRunning, trackerVars
    <3>2. /\ pc'[l] = "await" /\ call'[l] = finishedReopenCount + 1
          /\ \A m \in Loads \ {l} : pc'[m] = pc[m] /\ call'[m] = call[m]
      BY <3>1
    <3>3. finishedSeen[l] <= finishedReopenCount /\ finishedSeen[l] \in Nat
          /\ finishedReopenCount \in Nat
      BY <1>1, ReopenLimitAssumption
    <3> HIDE DEF IInv, TypeOK
    <3> QED BY <3>1, <3>2, <3>3
  <2>3. CASE Reread(l)
    BY <1>1, <1>4, <2>3 DEF Reread, Superseded, trackerVars, localVars
  <2>4. CASE TakeLive(l) \/ GiveUp(l)
    <3>1. /\ pc'[l] \in {"using", "idle"} /\ UNCHANGED <<finishedReopenCount, callDone>>
          /\ \A m \in Loads \ {l} : pc'[m] = pc[m] /\ finishedSeen'[m] = finishedSeen[m] /\ call'[m] = call[m]
      BY <1>4, <2>4 DEF TakeLive, GiveUp, Forget, trackerVars, localVars
    <3> QED BY <3>1
  <2>5. CASE StartReopen(l)
    <3>1. finishedReopenCount = reopenCount
      BY <2>5 DEF StartReopen, ReopenRunning, Single
    <3> QED BY <1>1, <1>4, <2>5, <3>1 DEF StartReopen
  <2> QED BY <1>4, <2>2, <2>3, <2>4, <2>5
<1>5. ASSUME NEW l \in Loads,
             \/ CheckClosed(l) \/ OpenTunnel(l) \/ OpenFails(l) \/ Discard(l) \/ ReadForWarmUp(l)
             \/ WarmUp(l)
      PROVE  Seen'
  BY <1>5 DEF CheckClosed, OpenTunnel, OpenFails, Discard, ReadForWarmUp, WarmUp, Goto, Seen, Working,
     IInv, TypeOK, trackerVars, callVars, localVars
<1>6. ASSUME NEW l \in Loads, Install(l) PROVE Seen'
  BY <1>6 DEF Install, SwapUnlessClosed, Swap, Goto, Seen, Working, IInv, TypeOK, trackerVars, callVars,
     localVars
<1>7. ASSUME NEW l \in Loads, Finish(l) PROVE Seen'
  <2>1. call[l] = reopenCount /\ finishedReopenCount = reopenCount - 1
    BY <1>7 DEF Finish, Goto, IInv, Single, OneReopenAtATime, Working
  <2>2. /\ pc' = [pc EXCEPT ![l] = "release"] /\ finishedReopenCount' = finishedReopenCount + 1
        /\ UNCHANGED <<callDone, finishedSeen, call>> /\ pc[l] = "finish"
    BY <1>7 DEF Finish, Goto, callVars, localVars
  <2>3. /\ pc \in [Loads -> Stages] /\ callDone \subseteq Calls /\ finishedReopenCount \in Nat
        /\ reopenCount \in Nat /\ \A m \in Loads : call[m] \in Nat /\ finishedSeen[m] \in Nat
    <3>1. /\ finishedReopenCount \in 0..ReopenLimit /\ reopenCount \in 0..ReopenLimit
          /\ call \in [Loads -> 0..ReopenLimit] /\ finishedSeen \in [Loads -> 0..ReopenLimit]
          /\ pc \in [Loads -> Stages] /\ callDone \subseteq Calls
      BY DEF IInv, TypeOK
    <3> QED BY <3>1, ReopenLimitAssumption
  <2>4. \A c \in callDone : c <= finishedReopenCount'
    <3>1. \A c \in callDone : c \in Int /\ c <= finishedReopenCount
      BY <2>3 DEF Seen, Calls
    <3> QED BY <2>2, <2>3, <3>1
  <2>5. \A m \in Loads \ {l} : pc'[m] = pc[m]
    BY <2>2, <2>3
  <2>6. pc'[l] = "release" /\ finishedSeen[l] < call[l] /\ call[l] <= finishedReopenCount'
    BY <2>1, <2>2, <2>3 DEF Seen, Working
  <2> QED BY <2>2, <2>3, <2>4, <2>5, <2>6 DEF Seen, Working
<1>8. ASSUME NEW l \in Loads, Release(l) \/ Awake(l) PROVE Seen'
  BY <1>8 DEF Release, CloseDone, Awake, Goto, Seen, Working, IInv, TypeOK, trackerVars, callVars, localVars
<1>9. ASSUME NEW l \in Loads, Abandon(l) \/ OutcomeError(l) \/ OutcomeCurrent(l) PROVE Seen'
  BY <1>9 DEF Abandon, OutcomeError, OutcomeCurrent, Forget, Goto, Seen, Working, IInv, TypeOK, trackerVars,
     callVars
<1>10. CASE Close \/ End \/ (\E t \in Tunnels : Retire(t) \/ Lose(t)) \/ UNCHANGED vars
  <2>1. UNCHANGED <<trackerVars, callDone, pc, localVars>>
    BY <1>10 DEF Close, CloseStart, CloseCurrent, CloseReturn, End, Retire, RetireClose, RetireReport,
       RetireDone, Lose, vars, callVars
  <2> QED BY <2>1 DEF Seen, Working, trackerVars, localVars
<1> QED BY <1>2, <1>3, <1>4, <1>5, <1>6, <1>7, <1>8, <1>9, <1>10 DEF Next, Answer

LEMMA WarmStep == IInv /\ Warm /\ [Next]_vars => Warm'
<1> SUFFICES ASSUME IInv, Warm, [Next]_vars PROVE Warm'
  OBVIOUS
<1>1. ASSUME NEW l \in Loads,
             \/ Ask(l) \/ EndAttempt(l) \/ Enter(l) \/ ReadCurrent(l) \/ CheckClosed(l)
             \/ OpenFails(l) \/ Finish(l) \/ Release(l) \/ Awake(l)
             \/ Abandon(l) \/ OutcomeError(l) \/ OutcomeCurrent(l)
      PROVE  Warm'
  BY <1>1 DEF Ask, EndAttempt, Enter, ReadCurrent, CheckClosed, OpenFails, Finish, Release, CloseDone,
     Awake, Abandon, OutcomeError, OutcomeCurrent, Forget, Goto, Warm, IInv, TypeOK, pathVars, localVars
<1>2. ASSUME NEW l \in Loads, Decide(l) PROVE Warm'
  BY <1>2 DEF Decide, Join, Reread, TakeLive, GiveUp, StartReopen, Forget, Goto, Warm, IInv, TypeOK,
     pathVars, localVars
<1>3. ASSUME NEW l \in Loads, OpenTunnel(l) \/ Discard(l) PROVE Warm'
  BY <1>3 DEF OpenTunnel, Discard, Goto, Warm, IInv, TypeOK, localVars
<1>4. ASSUME NEW l \in Loads, Install(l) PROVE Warm'
  <2>1. CASE closed
    BY <1>4, <2>1 DEF Install, SwapUnlessClosed, Swap, Goto, Warm, IInv, TypeOK, localVars
  <2>2. CASE Swap(l)
    <3>1. pc'[l] = "warm" /\ \A m \in Loads \ {l} : pc'[m] # "warming"
      BY <2>2 DEF Swap, Goto, IInv, TypeOK, Single, OneReopenAtATime, Working
    <3> QED BY <1>4, <3>1 DEF Warm
  <2> QED BY <1>4, <2>1, <2>2 DEF Install, SwapUnlessClosed
<1>5. ASSUME NEW l \in Loads, ReadForWarmUp(l) PROVE Warm'
  BY <1>5 DEF ReadForWarmUp, Goto, Warm, IInv, TypeOK, pathVars
<1>6. ASSUME NEW l \in Loads, WarmUp(l) PROVE Warm'
  <2>1. fresh[l] = current /\ current' = current /\ warmed' = warmed \cup {fresh[l]}
        /\ fresh' = fresh /\ pc' = [pc EXCEPT ![l] = "finish"]
    BY <1>6 DEF WarmUp, Goto, Warm, pathVars, localVars
  <2> QED BY <2>1 DEF Warm, IInv, TypeOK
<1>7. CASE Close \/ End \/ (\E t \in Tunnels : Retire(t) \/ Lose(t)) \/ UNCHANGED vars
  <2>1. UNCHANGED <<warmed, current, pc, localVars>>
    BY <1>7 DEF Close, CloseStart, CloseCurrent, CloseReturn, End, Retire, RetireClose, RetireReport,
       RetireDone, Lose, vars, pathVars
  <2> QED BY <2>1 DEF Warm, localVars
<1> QED BY <1>1, <1>2, <1>3, <1>4, <1>5, <1>6, <1>7 DEF Next, Answer

\* Only a load that decides, or takes what a re-open left, is handed a tunnel.
LEMMA HandingSteps ==
  ASSUME IInv, [Next]_vars, NEW l \in Loads, Handed(l)
  PROVE  TakeLive(l) \/ OutcomeCurrent(l)
<1>1. ASSUME NEW m \in Loads,
             \/ Ask(m) \/ EndAttempt(m) \/ Enter(m) \/ ReadCurrent(m) \/ Join(m) \/ Reread(m)
             \/ GiveUp(m) \/ StartReopen(m) \/ CheckClosed(m) \/ OpenTunnel(m) \/ OpenFails(m)
      PROVE  FALSE
  BY <1>1 DEF Handed, Ask, EndAttempt, Enter, ReadCurrent, Join, Reread, GiveUp, StartReopen,
     CheckClosed, OpenTunnel, OpenFails, Goto, IInv, TypeOK
<1>2. ASSUME NEW m \in Loads,
             \/ Discard(m) \/ ReadForWarmUp(m) \/ WarmUp(m) \/ Finish(m) \/ Release(m) \/ Awake(m)
             \/ Abandon(m) \/ OutcomeError(m) \/ Install(m)
      PROVE  FALSE
  BY <1>2 DEF Handed, Discard, ReadForWarmUp, WarmUp, Finish, Release, CloseDone, Awake, Abandon,
     OutcomeError, Install, SwapUnlessClosed, Swap, Goto, IInv, TypeOK
<1>3. ASSUME NEW m \in Loads, TakeLive(m) \/ OutcomeCurrent(m) PROVE m = l
  BY <1>3 DEF Handed, TakeLive, OutcomeCurrent, Goto, IInv, TypeOK
<1>4. ~ (Close \/ End \/ (\E t \in Tunnels : Retire(t) \/ Lose(t)) \/ UNCHANGED vars)
  BY DEF Handed, Close, CloseStart, CloseCurrent, CloseReturn, End, Retire, RetireClose, RetireReport,
     RetireDone, Lose, vars
<1> QED BY <1>1, <1>2, <1>3, <1>4 DEF Next, Answer, Decide

\* A load is handed a cold tunnel only behind two re-opens that began after it
\* asked, one of them over: never the one it waited for (path.go:94-143).
THEOREM ColdIsOnlyTheSecond == Spec => ColdOnlyBehindSecondReopen
<1>1. ASSUME IInv, Seen, Warm, [Next]_vars
      PROVE  [\A l \in Loads : Handed(l) /\ client'[l] \notin warmed =>
                /\ finishedReopenCount > finishedSeen[l]
                /\ inflight > finishedReopenCount]_vars
  <2>1. SUFFICES ASSUME NEW l \in Loads, Handed(l), client'[l] \notin warmed
                 PROVE  finishedReopenCount > finishedSeen[l] /\ inflight > finishedReopenCount
    OBVIOUS
  <2>2. ~ TakeLive(l)
    <3>1. SUFFICES ASSUME TakeLive(l) PROVE FALSE
      OBVIOUS
    <3>2. \A m \in Loads : ~ Working(m)
      BY <1>1, <3>1 DEF TakeLive, ReopenRunning, IInv, Single, OneReopenAtATime
    <3>3. pc[l] = "decide" /\ finishedSeen[l] = finishedReopenCount /\ client'[l] = client[l]
      BY <3>1 DEF TakeLive, Superseded, Goto, localVars
    <3>4. client[l] = current
      BY <1>1, <3>2, <3>3 DEF IInv, Fresh, Working
    <3>5. current \in warmed
      BY <1>1, <3>2 DEF Warm, Working
    <3> QED BY <2>1, <3>3, <3>4, <3>5
  <2>3. OutcomeCurrent(l)
    BY <1>1, <2>1, <2>2, HandingSteps
  <2>4. client'[l] = current
    BY <1>1, <2>3 DEF OutcomeCurrent, IInv, TypeOK
  <2>5. PICK m \in Loads : pc[m] \in {"warm", "warming"}
    BY <1>1, <2>1, <2>4 DEF Warm
  <2>6. inflight > finishedReopenCount
    <3>1. Working(m)
      BY <2>5 DEF Working
    <3>2. inflight # NoCall
      BY <1>1, <3>1 DEF IInv, Single, OneReopenAtATime
    <3>3. inflight = reopenCount /\ finishedReopenCount = reopenCount - 1 /\ reopenCount \in Nat
      BY <1>1, <3>2 DEF IInv, Single, TypeOK
    <3> QED BY <3>3
  <2>7. finishedReopenCount > finishedSeen[l]
    <3>1. pc[l] \in {"outcome", "reread"}
      BY <2>3 DEF OutcomeCurrent, Goto
    <3>2. /\ finishedSeen[l] \in Nat /\ call[l] \in Nat /\ finishedReopenCount \in Nat
      BY <1>1, ReopenLimitAssumption DEF IInv, TypeOK
    <3> QED BY <1>1, <3>1, <3>2 DEF Seen
  <2> QED BY <2>6, <2>7
<1>2. Init => Seen /\ Warm
  BY DEF Init, Seen, Warm, Working
<1> QED BY <1>1, <1>2, SeenStep, WarmStep, Invariance, PTL DEF Spec, ColdOnlyBehindSecondReopen

--------------------------------------------------------------------------------
\* Waits: a call in flight has a load that works on it, to the end.

\* A load that re-opens the tunnel, or has yet to say that it did.
Reopening(l) == Working(l) \/ pc[l] = "release"

\* Nobody waits for nobody (await, and the re-open that live starts,
\* egresshealth/path.go:125-211; the Wait of Close, fleetprobe/path.go:172): a call in
\* flight is a load's that works on it, whoever awaits a call finds it done or in the
\* hands of a load, and a Close that waits has tunnels to wait for.
WaitsAreServed ==
  /\ inflight # NoCall => \E m \in Loads : Working(m) /\ call[m] = inflight
  /\ \A l \in Loads : pc[l] = "await" =>
       call[l] \in callDone \/ \E m \in Loads : Reopening(m) /\ call[m] = call[l]
  /\ closer = "waiting" => retiring = 0 \/ \E t \in Tunnels : tunnel[t] \in {"retiring", "failing", "retired"}

\* The part of it that is inductive: the calls.
Served ==
  /\ inflight # NoCall => \E m \in Loads : Working(m) /\ call[m] = inflight
  /\ \A l \in Loads : pc[l] = "await" =>
       call[l] \in callDone \/ \E m \in Loads : Reopening(m) /\ call[m] = call[l]

\* A step that starts, ends and awaits no re-open.
Serving ==
  /\ UNCHANGED <<inflight, callDone>>
  /\ \A m \in Loads :
       /\ Working(m) => Working(m)' /\ call'[m] = call[m]
       /\ Reopening(m) => Reopening(m)' /\ call'[m] = call[m]
       /\ pc'[m] = "await" => pc[m] = "await" /\ call'[m] = call[m]

LEMMA ServingKeeps == Served /\ Serving => Served'
  BY DEF Served, Serving

\* What a load does on its own account leaves every call with its load.
LEMMA ServingSteps ==
  ASSUME IInv, NEW l \in Loads,
         \/ Ask(l) \/ EndAttempt(l) \/ ReadCurrent(l) \/ CheckClosed(l) \/ OpenTunnel(l)
         \/ OpenFails(l) \/ Install(l) \/ Discard(l) \/ ReadForWarmUp(l) \/ WarmUp(l)
         \/ Awake(l) \/ Abandon(l) \/ OutcomeError(l) \/ OutcomeCurrent(l)
         \/ Decide(l) /\ (Reread(l) \/ TakeLive(l) \/ GiveUp(l))
  PROVE  Serving
<1>0. pc \in [Loads -> Stages] /\ call \in [Loads -> 0..ReopenLimit]
  BY DEF IInv, TypeOK
<1> USE <1>0 DEF Serving, Reopening, Working, Goto, Forget, trackerVars, callVars, localVars
<1>1. CASE Ask(l) \/ EndAttempt(l) \/ ReadCurrent(l)
  BY <1>1 DEF Ask, EndAttempt, ReadCurrent
<1>2. CASE CheckClosed(l) \/ OpenTunnel(l) \/ OpenFails(l) \/ Install(l)
  BY <1>2 DEF CheckClosed, OpenTunnel, OpenFails, Install, SwapUnlessClosed, Swap
<1>3. CASE Discard(l) \/ ReadForWarmUp(l) \/ WarmUp(l)
  BY <1>3 DEF Discard, ReadForWarmUp, WarmUp
<1>4. CASE Awake(l) \/ Abandon(l) \/ OutcomeError(l) \/ OutcomeCurrent(l)
  BY <1>4 DEF Awake, Abandon, OutcomeError, OutcomeCurrent
<1>5. CASE Decide(l) /\ (Reread(l) \/ TakeLive(l) \/ GiveUp(l))
  BY <1>5 DEF Decide, Reread, TakeLive, GiveUp
<1> QED BY <1>1, <1>2, <1>3, <1>4, <1>5

\* Whoever starts to wait does so for the call in flight.
LEMMA WaitingKeeps ==
  ASSUME IInv, Served, NEW l \in Loads, Enter(l) \/ (Decide(l) /\ Join(l))
  PROVE  Served'
<1>1. /\ pc[l] \in {"asking", "decide"} /\ call'[l] = inflight
      /\ pc'[l] \in {"await", "current"} /\ (pc'[l] = "await" => inflight # NoCall)
      /\ UNCHANGED <<inflight, callDone>>
      /\ \A m \in Loads \ {l} : pc'[m] = pc[m] /\ call'[m] = call[m]
  BY DEF Enter, Decide, Join, ReopenRunning, Goto, IInv, TypeOK, trackerVars, callVars
<1>2. ~ Working(l) /\ ~ Reopening(l)
  BY <1>1 DEF Working, Reopening
<1> QED BY <1>1, <1>2 DEF Served, Working, Reopening

LEMMA StartKeeps ==
  ASSUME IInv, Served, NEW l \in Loads, Decide(l), StartReopen(l)
  PROVE  Served'
<1>1. /\ pc[l] = "decide" /\ pc'[l] = "reopen" /\ call'[l] = inflight' /\ callDone' = callDone
      /\ inflight = NoCall
      /\ \A m \in Loads \ {l} : pc'[m] = pc[m] /\ call'[m] = call[m]
  BY DEF Decide, StartReopen, ReopenRunning, Goto, IInv, TypeOK, callVars
<1>2. Working(l)' /\ ~ Working(l) /\ ~ Reopening(l)
  BY <1>1 DEF Working, Reopening
<1> QED BY <1>1, <1>2 DEF Served, Working, Reopening

\* The load that ends a call keeps it until it has said so.
LEMMA EndingKeeps ==
  ASSUME IInv, Served, NEW l \in Loads, Finish(l) \/ Release(l)
  PROVE  Served'
<1>1. CASE Finish(l)
  <2>1. /\ pc[l] = "finish" /\ pc'[l] = "release" /\ inflight' = NoCall
        /\ UNCHANGED <<callDone, call>> /\ \A m \in Loads \ {l} : pc'[m] = pc[m]
    BY <1>1 DEF Finish, Goto, IInv, TypeOK, callVars, localVars
  <2>2. \A m \in Loads : Reopening(m) => Reopening(m)'
    BY <2>1 DEF Reopening, Working
  <2> QED BY <2>1, <2>2 DEF Served
<1>2. CASE Release(l)
  <2>1. /\ pc[l] = "release" /\ pc'[l] = "outcome" /\ callDone' = callDone \cup {call[l]}
        /\ UNCHANGED <<inflight, call>> /\ \A m \in Loads \ {l} : pc'[m] = pc[m]
    BY <1>2 DEF Release, CloseDone, Goto, IInv, TypeOK, trackerVars, localVars
  <2>2. \A m \in Loads \ {l} : /\ Working(m) => Working(m)'
                               /\ Reopening(m) => Reopening(m)'
    BY <2>1 DEF Reopening, Working
  <2>3. ~ Working(l)
    BY <2>1 DEF Working
  <2> QED BY <2>1, <2>2, <2>3 DEF Served
<1> QED BY <1>1, <1>2

\* Only the load that works on a call takes it out of flight, and closes it next.
LEMMA ServedStep == IInv /\ Served /\ [Next]_vars => Served'
<1> SUFFICES ASSUME IInv, Served, [Next]_vars PROVE Served'
  OBVIOUS
<1>1. ASSUME NEW l \in Loads, Decide(l) PROVE Served'
  BY <1>1, ServingSteps, ServingKeeps, WaitingKeeps, StartKeeps DEF Decide
<1>2. ASSUME NEW l \in Loads, Ask(l) \/ Answer(l) \/ EndAttempt(l) PROVE Served'
  BY <1>1, <1>2, ServingSteps, ServingKeeps, WaitingKeeps, EndingKeeps DEF Answer
<1>3. CASE Close \/ End \/ (\E t \in Tunnels : Retire(t) \/ Lose(t)) \/ UNCHANGED vars
  <2>1. UNCHANGED <<trackerVars, callDone, pc, localVars>>
    BY <1>3 DEF Close, CloseStart, CloseCurrent, CloseReturn, End, Retire, RetireClose, RetireReport,
       RetireDone, Lose, vars, callVars
  <2> QED BY <2>1, ServingKeeps DEF Serving, Working, Reopening, trackerVars, localVars
<1> QED BY <1>2, <1>3 DEF Next

\* The waits of the tracker and of Close cannot deadlock, whatever the loads do and
\* whenever tunnels are lost: somebody else always has the step that ends them.
THEOREM NobodyWaitsInVain == Spec => []WaitsAreServed
<1>1. Init => Served
  BY DEF Init, Served, Working
<1>2. TypeOK /\ Kept /\ Served => WaitsAreServed
  <2>1. SUFFICES ASSUME TypeOK, Kept, Served, closer = "waiting", retiring # 0
                 PROVE  \E t \in Tunnels : tunnel[t] \in {"retiring", "failing", "retired"}
    BY DEF WaitsAreServed, Served
  <2>2. Leaving # {}
    BY <2>1, FS_EmptySet DEF Kept
  <2> QED BY <2>2 DEF Leaving
<1>3. Init => Kept
  <2>1. SUFFICES ASSUME Init PROVE Kept
    OBVIOUS
  <2>2. Leaving = {}
    BY <2>1 DEF Init, Leaving
  <2> QED BY <2>1, <2>2, FS_EmptySet, ReopenLimitAssumption DEF Init, Kept, Held, Tunnels
<1> QED BY <1>1, <1>2, <1>3, ServedStep, KeptStep, Invariance, PTL DEF Spec, IInv
================================================================================
