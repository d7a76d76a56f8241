--------------------------- MODULE ProviderTunnelProofs ---------------------------
(***************************************************************************)
(* What the loss signal and Close of a tunnel promise, for any number of   *)
(* window clients, events still to be delivered and callers of Close.      *)
(*                                                                         *)
(* Both rest on the order of the teardown: the signal has a cause before   *)
(* the data path is cut, so whatever the cut does to the multi-client and  *)
(* the tun is not taken for a loss; and each part of the teardown has left *)
(* its mark by the time the next one begins.                               *)
(***************************************************************************)
EXTENDS ProviderTunnel, TLAPS

\* The two halves of TypeOK.
Flags ==
  /\ callerDone \in BOOLEAN /\ dataDone \in BOOLEAN /\ lifeDone \in BOOLEAN
  /\ watching \in BOOLEAN /\ wasAdded \in BOOLEAN /\ tunUp \in BOOLEAN /\ timeUp \in BOOLEAN
  /\ emptied \in BOOLEAN /\ tunBroke \in BOOLEAN /\ cutOff \in BOOLEAN

Places ==
  /\ opening \in {"tun", "unwinding", "failed", "multiClient", "pump", "open"}
  /\ window \in [WindowClients -> {"new", "added", "removed"}]
  /\ events \in Nat
  /\ worker \in {"idle", "called", "losing"}
  /\ cause \in {"none", "left", "readFailed", "closed"}
  /\ pump \in {"none", "reading", "sending", "failed", "done"}
  /\ teardown \in Teardown
  /\ ended \subseteq Parts /\ errs \subseteq Parts
  /\ caller \in [Closers -> {"none", "waiting", "returned"}]

\* Before the callback is registered and the pump is started there is nothing to see
\* and nothing to close.
OpenInv ==
  /\ opening \in {"tun", "unwinding", "failed"} =>
       ~ watching /\ events = 0 /\ worker = "idle" /\ ~ wasAdded
  /\ opening = "multiClient" => ~ watching /\ events = 0 /\ worker = "idle" /\ ~ wasAdded
  /\ opening # "open" => pump = "none" /\ teardown = "none"
  /\ lifeDone => opening = "failed" \/ teardown = "done"
  /\ dataDone => \/ opening \in {"unwinding", "failed"}
                 \/ teardown \notin {"none", "unwatch", "lose", "cancelData"}

\* Why the callback and the pump are right when they report a loss.
LossInv ==
  /\ LossIsReal
  /\ wasAdded /\ ~ Active => emptied \/ dataDone
  /\ worker = "losing" => emptied \/ cause # "none"
  /\ opening \in {"multiClient", "pump", "open"} /\ ~ tunUp => tunBroke \/ Data
  /\ pump = "failed" => tunBroke \/ Data

\* What the teardown has done by each of its stages.
CloseInv ==
  /\ teardown \notin {"none", "unwatch"} => ~ watching
  /\ teardown \notin {"none", "unwatch", "lose"} => cause # "none"
  /\ teardown \notin {"none", "unwatch", "lose", "cancelData"} => dataDone
  /\ teardown \in {"pump", "multiClient", "generator", "strategy", "lifecycle", "done"} =>
       "tun" \in ended
  /\ teardown \in {"multiClient", "generator", "strategy", "lifecycle", "done"} =>
       "pump" \in ended /\ (pump = "done" \/ "pump" \in errs)
  /\ teardown \in {"generator", "strategy", "lifecycle", "done"} => "multiClient" \in ended
  /\ teardown \in {"strategy", "lifecycle", "done"} => "generator" \in ended
  /\ teardown \in {"lifecycle", "done"} => "strategy" \in ended
  /\ teardown = "done" => lifeDone
  /\ cutOff => callerDone \/ opening = "failed"
  /\ \A k \in Closers : caller[k] = "returned" => teardown = "done"

Control == OpenInv /\ CloseInv
IInv    == Flags /\ Places /\ Control /\ LossInv

LEMMA FlagSteps ==
  ASSUME Flags, Next PROVE Flags'
<1>1. CASE CreateTun
  BY <1>1 DEF CreateTun, Flags, Data, Lifecycle, Tear, ctxVars, watchVars, pumpVars,
     closeVars, history
<1>2. CASE Unwind
  BY <1>2 DEF Unwind, Flags, Data, Lifecycle, Tear, ctxVars, watchVars, pumpVars, closeVars,
     history
<1>3. CASE Watch
  BY <1>3 DEF Watch, Flags, Data, Lifecycle, Tear, ctxVars, watchVars, pumpVars, closeVars,
     history
<1>4. CASE StartPump
  BY <1>4 DEF StartPump, Flags, Data, Lifecycle, Tear, ctxVars, watchVars, pumpVars,
     closeVars, history
<1>5. CASE Deliver
  BY <1>5 DEF Deliver, Flags, Data, Lifecycle, Tear, ctxVars, watchVars, pumpVars,
     closeVars, history
<1>6. CASE ReadState
  BY <1>6 DEF ReadState, ProviderThere, Flags, Data, Lifecycle, Tear, ctxVars, watchVars,
     pumpVars, closeVars, history
<1>7. CASE ReportLeft
  BY <1>7 DEF ReportLeft, Lose, Flags, Data, Lifecycle, Tear, ctxVars, watchVars, pumpVars,
     closeVars, history
<1>8. CASE ReadPacket
  BY <1>8 DEF ReadPacket, Flags, Data, Lifecycle, Tear, ctxVars, watchVars, pumpVars,
     closeVars, history
<1>9. CASE SendPacket
  BY <1>9 DEF SendPacket, Flags, Data, Lifecycle, Tear, ctxVars, watchVars, pumpVars,
     closeVars, history
<1>10. CASE ReadFails
  BY <1>10 DEF ReadFails, Flags, Data, Lifecycle, Tear, ctxVars, watchVars, pumpVars,
     closeVars, history
<1>11. CASE PumpStops
  BY <1>11 DEF PumpStops, StillNeeded, Lose, Flags, Data, Lifecycle, Tear, ctxVars,
     watchVars, pumpVars, closeVars, history
<1>12. CASE Unwatch
  BY <1>12 DEF Unwatch, Flags, Data, Lifecycle, Tear, ctxVars, watchVars, pumpVars,
     closeVars, history
<1>13. CASE LoseClosed
  BY <1>13 DEF LoseClosed, SignalClosed, Lose, Flags, Data, Lifecycle, Tear, ctxVars,
     watchVars, pumpVars, closeVars, history
<1>14. CASE CancelData
  BY <1>14 DEF CancelData, CancelPath, Flags, Data, Lifecycle, Tear, ctxVars, watchVars,
     pumpVars, closeVars, history
<1>15. CASE CloseTun
  BY <1>15 DEF CloseTun, EndPart, Flags, Data, Lifecycle, Tear, ctxVars, watchVars,
     pumpVars, closeVars, history
<1>16. CASE JoinPump
  BY <1>16 DEF JoinPump, Flags, Data, Lifecycle, Tear, ctxVars, watchVars, pumpVars,
     closeVars, history
<1>17. CASE CloseMultiClient
  BY <1>17 DEF CloseMultiClient, EndPart, Flags, Data, Lifecycle, Tear, ctxVars, watchVars,
     pumpVars, closeVars, history
<1>18. CASE CloseGenerator
  BY <1>18 DEF CloseGenerator, EndPart, Flags, Data, Lifecycle, Tear, ctxVars, watchVars,
     pumpVars, closeVars, history
<1>19. CASE CloseStrategy
  BY <1>19 DEF CloseStrategy, Flags, Data, Lifecycle, Tear, ctxVars, watchVars, pumpVars,
     closeVars, history
<1>20. CASE CancelLifecycle
  BY <1>20 DEF CancelLifecycle, Flags, Data, Lifecycle, Tear, ctxVars, watchVars, pumpVars,
     closeVars, history
<1>21. CASE \E c \in WindowClients : Add(c) \/ Remove(c)
  BY <1>21 DEF Add, Remove, Change, Flags, Data, Lifecycle, ctxVars, watchVars, pumpVars,
     closeVars, history
<1>22. CASE \E k \in Closers : CallClose(k) \/ CloseReturns(k)
  BY <1>22 DEF CallClose, CloseReturns, Flags, ctxVars, watchVars, pumpVars, closeVars, history
<1>23. CASE CallerEnds
  BY <1>23 DEF CallerEnds, Flags, Data, Lifecycle, ctxVars, watchVars, pumpVars, closeVars,
     history
<1>24. CASE TimePasses
  BY <1>24 DEF TimePasses, Flags, Data, Lifecycle, ctxVars, watchVars, pumpVars, closeVars,
     history
<1>25. CASE LoseTun
  BY <1>25 DEF LoseTun, Flags, Data, Lifecycle, ctxVars, watchVars, pumpVars, closeVars,
     history
<1> QED
  BY <1>1, <1>2, <1>3, <1>4, <1>5, <1>6, <1>7, <1>8, <1>9, <1>10, <1>11, <1>12, <1>13,
     <1>14, <1>15, <1>16, <1>17, <1>18, <1>19, <1>20, <1>21, <1>22, <1>23, <1>24, <1>25 DEF
     Next, Open, Callback, Pump, Close

LEMMA PlaceSteps ==
  ASSUME Places, Next PROVE Places'
<1>1. CASE CreateTun
  BY <1>1 DEF CreateTun, Places, Teardown, Parts, Tear, ctxVars, watchVars, pumpVars,
     closeVars, history
<1>2. CASE Unwind
  BY <1>2 DEF Unwind, Places, Teardown, Parts, Tear, ctxVars, watchVars, pumpVars,
     closeVars, history
<1>3. CASE Watch
  BY <1>3 DEF Watch, Places, Teardown, Parts, Tear, ctxVars, watchVars, pumpVars, closeVars,
     history
<1>4. CASE StartPump
  BY <1>4 DEF StartPump, Places, Teardown, Parts, Tear, ctxVars, watchVars, pumpVars,
     closeVars, history
<1>5. CASE Deliver
  BY <1>5 DEF Deliver, Places, Teardown, Parts, Tear, ctxVars, watchVars, pumpVars,
     closeVars, history
<1>6. CASE ReadState
  BY <1>6 DEF ReadState, ProviderThere, Places, Teardown, Parts, Tear, ctxVars, watchVars,
     pumpVars, closeVars, history
<1>7. CASE ReportLeft
  BY <1>7 DEF ReportLeft, Lose, Places, Teardown, Parts, Tear, ctxVars, watchVars, pumpVars,
     closeVars, history
<1>8. CASE ReadPacket
  BY <1>8 DEF ReadPacket, Places, Teardown, Parts, Tear, ctxVars, watchVars, pumpVars,
     closeVars, history
<1>9. CASE SendPacket
  BY <1>9 DEF SendPacket, Places, Teardown, Parts, Tear, ctxVars, watchVars, pumpVars,
     closeVars, history
<1>10. CASE ReadFails
  BY <1>10 DEF ReadFails, Places, Teardown, Parts, Tear, ctxVars, watchVars, pumpVars,
     closeVars, history
<1>11. CASE PumpStops
  BY <1>11 DEF PumpStops, StillNeeded, Lose, Places, Teardown, Parts, Tear, ctxVars,
     watchVars, pumpVars, closeVars, history
<1>12. CASE Unwatch
  BY <1>12 DEF Unwatch, Places, Teardown, Parts, Tear, ctxVars, watchVars, pumpVars,
     closeVars, history
<1>13. CASE LoseClosed
  BY <1>13 DEF LoseClosed, SignalClosed, Lose, Places, Teardown, Parts, Tear, ctxVars,
     watchVars, pumpVars, closeVars, history
<1>14. CASE CancelData
  BY <1>14 DEF CancelData, CancelPath, Places, Teardown, Parts, Tear, ctxVars, watchVars,
     pumpVars, closeVars, history
<1>15. CASE CloseTun
  BY <1>15 DEF CloseTun, EndPart, Places, Teardown, Parts, Tear, ctxVars, watchVars,
     pumpVars, closeVars, history
<1>16. CASE JoinPump
  BY <1>16 DEF JoinPump, Places, Teardown, Parts, Tear, ctxVars, watchVars, pumpVars,
     closeVars, history
<1>17. CASE CloseMultiClient
  BY <1>17 DEF CloseMultiClient, EndPart, Places, Teardown, Parts, Tear, ctxVars, watchVars,
     pumpVars, closeVars, history
<1>18. CASE CloseGenerator
  BY <1>18 DEF CloseGenerator, EndPart, Places, Teardown, Parts, Tear, ctxVars, watchVars,
     pumpVars, closeVars, history
<1>19. CASE CloseStrategy
  BY <1>19 DEF CloseStrategy, Places, Teardown, Parts, Tear, ctxVars, watchVars, pumpVars,
     closeVars, history
<1>20. CASE CancelLifecycle
  BY <1>20 DEF CancelLifecycle, Places, Teardown, Parts, Tear, ctxVars, watchVars, pumpVars,
     closeVars, history
<1>21. CASE \E c \in WindowClients : Add(c) \/ Remove(c)
  <2>1. PICK c \in WindowClients, to \in {"added", "removed"} : Change(c, to)
    BY <1>21 DEF Add, Remove
  <2>2. window' \in [WindowClients -> {"new", "added", "removed"}]
    BY <2>1 DEF Change, Places
  <2> QED BY <2>1, <2>2 DEF Change, Places, ctxVars, pumpVars, closeVars, history
<1>22. CASE \E k \in Closers : CallClose(k) \/ CloseReturns(k)
  <2>1. caller' \in [Closers -> {"none", "waiting", "returned"}]
    BY <1>22 DEF CallClose, CloseReturns, Places
  <2>2. teardown' \in Teardown
    BY <1>22 DEF CallClose, CloseReturns, Places, Teardown
  <2>3. UNCHANGED <<opening, window, events, worker, cause, pump, ended, errs>>
    BY <1>22 DEF CallClose, CloseReturns, watchVars, pumpVars
  <2> QED BY <2>1, <2>2, <2>3 DEF Places
<1>23. CASE CallerEnds
  BY <1>23 DEF CallerEnds, Places, Teardown, Parts, ctxVars, watchVars, pumpVars, closeVars,
     history
<1>24. CASE TimePasses
  BY <1>24 DEF TimePasses, Places, Teardown, Parts, ctxVars, watchVars, pumpVars, closeVars,
     history
<1>25. CASE LoseTun
  BY <1>25 DEF LoseTun, Places, Teardown, Parts, ctxVars, watchVars, pumpVars, closeVars,
     history
<1> QED
  BY <1>1, <1>2, <1>3, <1>4, <1>5, <1>6, <1>7, <1>8, <1>9, <1>10, <1>11, <1>12, <1>13,
     <1>14, <1>15, <1>16, <1>17, <1>18, <1>19, <1>20, <1>21, <1>22, <1>23, <1>24, <1>25 DEF
     Next, Open, Callback, Pump, Close

\* The order of Open and of the teardown.
LEMMA ControlSteps ==
  ASSUME Places, Control, Next PROVE Control'
<1>1. CASE CreateTun
  BY <1>1 DEF CreateTun, Control, OpenInv, CloseInv, Places, Lifecycle, Teardown, Parts,
     Tear, ctxVars, watchVars, pumpVars, closeVars, history
<1>2. CASE Unwind
  BY <1>2 DEF Unwind, Control, OpenInv, CloseInv, Places, Lifecycle, Teardown, Parts, Tear,
     ctxVars, watchVars, pumpVars, closeVars, history
<1>3. CASE Watch
  BY <1>3 DEF Watch, Control, OpenInv, CloseInv, Places, Lifecycle, Teardown, Parts, Tear,
     ctxVars, watchVars, pumpVars, closeVars, history
<1>4. CASE StartPump
  BY <1>4 DEF StartPump, Control, OpenInv, CloseInv, Places, Lifecycle, Teardown, Parts,
     Tear, ctxVars, watchVars, pumpVars, closeVars, history
<1>5. CASE Deliver
  BY <1>5 DEF Deliver, Control, OpenInv, CloseInv, Places, Lifecycle, Teardown, Parts, Tear,
     ctxVars, watchVars, pumpVars, closeVars, history
<1>6. CASE ReadState
  BY <1>6 DEF ReadState, ProviderThere, Control, OpenInv, CloseInv, Places, Lifecycle,
     Teardown, Parts, Tear, ctxVars, watchVars, pumpVars, closeVars, history
<1>7. CASE ReportLeft
  BY <1>7 DEF ReportLeft, Lose, Control, OpenInv, CloseInv, Places, Lifecycle, Teardown,
     Parts, Tear, ctxVars, watchVars, pumpVars, closeVars, history
<1>8. CASE ReadPacket
  BY <1>8 DEF ReadPacket, Control, OpenInv, CloseInv, Places, Lifecycle, Teardown, Parts,
     Tear, ctxVars, watchVars, pumpVars, closeVars, history
<1>9. CASE SendPacket
  BY <1>9 DEF SendPacket, Control, OpenInv, CloseInv, Places, Lifecycle, Teardown, Parts,
     Tear, ctxVars, watchVars, pumpVars, closeVars, history
<1>10. CASE ReadFails
  BY <1>10 DEF ReadFails, Control, OpenInv, CloseInv, Places, Lifecycle, Teardown, Parts,
     Tear, ctxVars, watchVars, pumpVars, closeVars, history
<1>11. CASE PumpStops
  BY <1>11 DEF PumpStops, StillNeeded, Lose, Control, OpenInv, CloseInv, Places, Lifecycle,
     Teardown, Parts, Tear, ctxVars, watchVars, pumpVars, closeVars, history
<1>12. CASE Unwatch
  BY <1>12 DEF Unwatch, Control, OpenInv, CloseInv, Places, Lifecycle, Teardown, Parts,
     Tear, ctxVars, watchVars, pumpVars, closeVars, history
<1>13. CASE LoseClosed
  BY <1>13 DEF LoseClosed, SignalClosed, Lose, Control, OpenInv, CloseInv, Places,
     Lifecycle, Teardown, Parts, Tear, ctxVars, watchVars, pumpVars, closeVars, history
<1>14. CASE CancelData
  BY <1>14 DEF CancelData, CancelPath, Control, OpenInv, CloseInv, Places, Lifecycle,
     Teardown, Parts, Tear, ctxVars, watchVars, pumpVars, closeVars, history
<1>15. CASE CloseTun
  BY <1>15 DEF CloseTun, EndPart, Control, OpenInv, CloseInv, Places, Lifecycle, Teardown,
     Parts, Tear, ctxVars, watchVars, pumpVars, closeVars, history
<1>16. CASE JoinPump
  BY <1>16 DEF JoinPump, Control, OpenInv, CloseInv, Places, Lifecycle, Teardown, Parts,
     Tear, ctxVars, watchVars, pumpVars, closeVars, history
<1>17. CASE CloseMultiClient
  BY <1>17 DEF CloseMultiClient, EndPart, Control, OpenInv, CloseInv, Places, Lifecycle,
     Teardown, Parts, Tear, ctxVars, watchVars, pumpVars, closeVars, history
<1>18. CASE CloseGenerator
  BY <1>18 DEF CloseGenerator, EndPart, Control, OpenInv, CloseInv, Places, Lifecycle,
     Teardown, Parts, Tear, ctxVars, watchVars, pumpVars, closeVars, history
<1>19. CASE CloseStrategy
  BY <1>19 DEF CloseStrategy, Control, OpenInv, CloseInv, Places, Lifecycle, Teardown,
     Parts, Tear, ctxVars, watchVars, pumpVars, closeVars, history
<1>20. CASE CancelLifecycle
  BY <1>20 DEF CancelLifecycle, Control, OpenInv, CloseInv, Places, Lifecycle, Teardown,
     Parts, Tear, ctxVars, watchVars, pumpVars, closeVars, history
<1>21. CASE \E c \in WindowClients : Add(c) \/ Remove(c)
  BY <1>21 DEF Add, Remove, Change, Control, OpenInv, CloseInv, Places, Lifecycle, Teardown,
     Parts, ctxVars, watchVars, pumpVars, closeVars, history
<1>22. CASE \E k \in Closers : CallClose(k) \/ CloseReturns(k)
  <2>1. PICK k \in Closers : CallClose(k) \/ CloseReturns(k)
    BY <1>22
  <2>2. CASE CallClose(k)
    <3>1. \A j \in Closers : caller'[j] = "returned" => caller[j] = "returned"
      BY <2>2 DEF CallClose, Places
    <3> QED BY <2>2, <3>1 DEF CallClose, Control, OpenInv, CloseInv, ctxVars, watchVars,
         pumpVars, closeVars, history
  <2>3. CASE CloseReturns(k)
    BY <2>3 DEF CloseReturns, Control, OpenInv, CloseInv, Places, ctxVars, watchVars,
       pumpVars, closeVars, history
  <2> QED BY <2>1, <2>2, <2>3
<1>23. CASE CallerEnds
  BY <1>23 DEF CallerEnds, Control, OpenInv, CloseInv, Places, Lifecycle, Teardown, Parts,
     ctxVars, watchVars, pumpVars, closeVars, history
<1>24. CASE TimePasses
  BY <1>24 DEF TimePasses, Control, OpenInv, CloseInv, Places, Lifecycle, Teardown, Parts,
     ctxVars, watchVars, pumpVars, closeVars, history
<1>25. CASE LoseTun
  BY <1>25 DEF LoseTun, Control, OpenInv, CloseInv, Places, Lifecycle, Teardown, Parts,
     ctxVars, watchVars, pumpVars, closeVars, history
<1> QED
  BY <1>1, <1>2, <1>3, <1>4, <1>5, <1>6, <1>7, <1>8, <1>9, <1>10, <1>11, <1>12, <1>13,
     <1>14, <1>15, <1>16, <1>17, <1>18, <1>19, <1>20, <1>21, <1>22, <1>23, <1>24, <1>25 DEF
     Next, Open, Callback, Pump, Close

\* A loss is seen before the path is cut, or its report comes second.
LEMMA LossSteps ==
  ASSUME Places, Control, LossInv, Next PROVE LossInv'
<1>1. CASE CreateTun
  BY <1>1 DEF CreateTun, Control, OpenInv, CloseInv, LossInv, LossIsReal, Places, Teardown,
     Data, Active, Tear, ctxVars, watchVars, pumpVars, closeVars, history
<1>2. CASE Unwind
  BY <1>2 DEF Unwind, Control, OpenInv, CloseInv, LossInv, LossIsReal, Places, Teardown,
     Data, Active, Tear, ctxVars, watchVars, pumpVars, closeVars, history
<1>3. CASE Watch
  BY <1>3 DEF Watch, Control, OpenInv, CloseInv, LossInv, LossIsReal, Places, Teardown,
     Data, Active, Tear, ctxVars, watchVars, pumpVars, closeVars, history
<1>4. CASE StartPump
  BY <1>4 DEF StartPump, Control, OpenInv, CloseInv, LossInv, LossIsReal, Places, Teardown,
     Data, Active, Tear, ctxVars, watchVars, pumpVars, closeVars, history
<1>5. CASE Deliver
  BY <1>5 DEF Deliver, Control, OpenInv, CloseInv, LossInv, LossIsReal, Places, Teardown,
     Data, Active, Tear, ctxVars, watchVars, pumpVars, closeVars, history
<1>6. CASE ReadState
  <2>1. Active' <=> Active
    BY <1>6 DEF ReadState, Active
  <2>2. opening \in {"pump", "open"}
    BY <1>6 DEF ReadState, Control, OpenInv, Places
  <2>3. dataDone => cause # "none"
    BY <2>2 DEF Control, OpenInv, CloseInv, Places, Teardown
  <2>4. CASE Active
    BY <1>6, <2>1, <2>4 DEF ReadState, ProviderThere, LossInv, LossIsReal, Data, ctxVars,
       watchVars, pumpVars, closeVars, history
  <2>5. CASE ~ Active
    BY <1>6, <2>1, <2>3, <2>5 DEF ReadState, ProviderThere, LossInv, LossIsReal, Data,
       ctxVars, watchVars, pumpVars, closeVars, history
  <2> QED BY <2>4, <2>5
<1>7. CASE ReportLeft
  BY <1>7 DEF ReportLeft, Lose, Control, OpenInv, CloseInv, LossInv, LossIsReal, Places,
     Teardown, Data, Active, Tear, ctxVars, watchVars, pumpVars, closeVars, history
<1>8. CASE ReadPacket
  BY <1>8 DEF ReadPacket, Control, OpenInv, CloseInv, LossInv, LossIsReal, Places, Teardown,
     Data, Active, Tear, ctxVars, watchVars, pumpVars, closeVars, history
<1>9. CASE SendPacket
  BY <1>9 DEF SendPacket, Control, OpenInv, CloseInv, LossInv, LossIsReal, Places, Teardown,
     Data, Active, Tear, ctxVars, watchVars, pumpVars, closeVars, history
<1>10. CASE ReadFails
  BY <1>10 DEF ReadFails, Control, OpenInv, CloseInv, LossInv, LossIsReal, Places, Teardown,
     Data, Active, Tear, ctxVars, watchVars, pumpVars, closeVars, history
<1>11. CASE PumpStops
  BY <1>11 DEF PumpStops, StillNeeded, Lose, Control, OpenInv, CloseInv, LossInv,
     LossIsReal, Places, Teardown, Data, Active, Tear, ctxVars, watchVars, pumpVars,
     closeVars, history
<1>12. CASE Unwatch
  BY <1>12 DEF Unwatch, Control, OpenInv, CloseInv, LossInv, LossIsReal, Places, Teardown,
     Data, Active, Tear, ctxVars, watchVars, pumpVars, closeVars, history
<1>13. CASE LoseClosed
  BY <1>13 DEF LoseClosed, SignalClosed, Lose, Control, OpenInv, CloseInv, LossInv,
     LossIsReal, Places, Teardown, Data, Active, Tear, ctxVars, watchVars, pumpVars,
     closeVars, history
<1>14. CASE CancelData
  BY <1>14 DEF CancelData, CancelPath, Control, OpenInv, CloseInv, LossInv, LossIsReal,
     Places, Teardown, Data, Active, Tear, ctxVars, watchVars, pumpVars, closeVars, history
<1>15. CASE CloseTun
  BY <1>15 DEF CloseTun, EndPart, Control, OpenInv, CloseInv, LossInv, LossIsReal, Places,
     Teardown, Data, Active, Tear, ctxVars, watchVars, pumpVars, closeVars, history
<1>16. CASE JoinPump
  BY <1>16 DEF JoinPump, Control, OpenInv, CloseInv, LossInv, LossIsReal, Places, Teardown,
     Data, Active, Tear, ctxVars, watchVars, pumpVars, closeVars, history
<1>17. CASE CloseMultiClient
  BY <1>17 DEF CloseMultiClient, EndPart, Control, OpenInv, CloseInv, LossInv, LossIsReal,
     Places, Teardown, Data, Active, Tear, ctxVars, watchVars, pumpVars, closeVars, history
<1>18. CASE CloseGenerator
  BY <1>18 DEF CloseGenerator, EndPart, Control, OpenInv, CloseInv, LossInv, LossIsReal,
     Places, Teardown, Data, Active, Tear, ctxVars, watchVars, pumpVars, closeVars, history
<1>19. CASE CloseStrategy
  BY <1>19 DEF CloseStrategy, Control, OpenInv, CloseInv, LossInv, LossIsReal, Places,
     Teardown, Data, Active, Tear, ctxVars, watchVars, pumpVars, closeVars, history
<1>20. CASE CancelLifecycle
  BY <1>20 DEF CancelLifecycle, Control, OpenInv, CloseInv, LossInv, LossIsReal, Places,
     Teardown, Data, Active, Tear, ctxVars, watchVars, pumpVars, closeVars, history
<1>21. CASE \E c \in WindowClients : Add(c) \/ Remove(c)
  <2>1. PICK c \in WindowClients, to \in {"added", "removed"} : Change(c, to)
    BY <1>21 DEF Add, Remove
  <2>2. ~ Active' /\ wasAdded' => emptied' \/ dataDone'
    BY <2>1 DEF Change, LossInv, ctxVars
  <2>3. emptied => emptied'
    BY <2>1 DEF Change
  <2> QED
    BY <2>1, <2>2, <2>3 DEF Change, LossInv, LossIsReal, Data, ctxVars, watchVars,
       pumpVars, closeVars, history
<1>22. CASE \E k \in Closers : CallClose(k) \/ CloseReturns(k)
  <2>1. UNCHANGED <<opening, ctxVars, window, watchVars, cause, pumpVars, history>>
    BY <1>22 DEF CallClose, CloseReturns
  <2> QED
    BY <2>1 DEF LossInv, LossIsReal, Active, Data, ctxVars, watchVars, pumpVars, history
<1>23. CASE CallerEnds
  BY <1>23 DEF CallerEnds, Control, OpenInv, CloseInv, LossInv, LossIsReal, Places,
     Teardown, Data, Active, ctxVars, watchVars, pumpVars, closeVars, history
<1>24. CASE TimePasses
  BY <1>24 DEF TimePasses, Control, OpenInv, CloseInv, LossInv, LossIsReal, Places,
     Teardown, Data, Active, ctxVars, watchVars, pumpVars, closeVars, history
<1>25. CASE LoseTun
  BY <1>25 DEF LoseTun, Control, OpenInv, CloseInv, LossInv, LossIsReal, Places, Teardown,
     Data, Active, ctxVars, watchVars, pumpVars, closeVars, history
<1> QED
  BY <1>1, <1>2, <1>3, <1>4, <1>5, <1>6, <1>7, <1>8, <1>9, <1>10, <1>11, <1>12, <1>13,
     <1>14, <1>15, <1>16, <1>17, <1>18, <1>19, <1>20, <1>21, <1>22, <1>23, <1>24, <1>25 DEF
     Next, Open, Callback, Pump, Close

LEMMA InitInv == Init => IInv
<1> SUFFICES ASSUME Init PROVE IInv
  OBVIOUS
<1>1. Flags
  BY DEF Init, Flags
<1>2. Places
  BY DEF Init, Places, Teardown, Parts
<1>3. Control
  BY DEF Init, Control, OpenInv, CloseInv
<1>4. LossInv
  BY DEF Init, LossInv, LossIsReal
<1> QED BY <1>1, <1>2, <1>3, <1>4 DEF IInv

LEMMA NextInv == IInv /\ [Next]_vars => IInv'
<1> SUFFICES ASSUME IInv, [Next]_vars PROVE IInv'
  OBVIOUS
<1>1. CASE Next
  BY <1>1, FlagSteps, PlaceSteps, ControlSteps, LossSteps DEF IInv
<1>2. CASE UNCHANGED vars
  <2>1. Flags' /\ Places'
    BY <1>2 DEF IInv, Flags, Places, vars, ctxVars, watchVars, pumpVars, closeVars, history
  <2>2. Control' /\ LossInv'
    BY <1>2 DEF IInv, Control, OpenInv, CloseInv, LossInv, LossIsReal, Active, Data, vars,
       ctxVars,
       watchVars, pumpVars, closeVars, history
  <2> QED BY <2>1, <2>2 DEF IInv
<1> QED BY <1>1, <1>2

LEMMA Invariant == Spec => []IInv
BY InitInv, NextInv, PTL DEF Spec

--------------------------------------------------------------------------------
\* Every variable of a tunnel keeps its type.
THEOREM TypeCorrect == Spec => []TypeOK
<1>1. IInv => TypeOK
  BY DEF IInv, Flags, Places, TypeOK
<1> QED BY <1>1, Invariant, PTL

\* However the callback, the pump and the teardown interleave, the signal names the
\* provider or the tun only for a loss, never for the teardown or a context that ended.
THEOREM NoLossIsInvented == Spec => []LossIsReal
<1>1. IInv => LossIsReal
  BY DEF IInv, LossInv
<1> QED BY <1>1, Invariant, PTL

\* Whoever returns from Close, and whichever parts gave errors, the whole teardown has
\* run, and nobody but the caller who opened the tunnel cut off its last request.
THEOREM CloseFinishes == Spec => []CloseIsComplete
<1>1. IInv => CloseIsComplete
  <2> SUFFICES ASSUME IInv, NEW k \in Closers, caller[k] = "returned"
               PROVE  /\ ended = Parts /\ dataDone /\ lifeDone /\ ~ watching
                      /\ cause # "none"
                      /\ pump = "done" \/ "pump" \in errs
                      /\ cutOff => callerDone
    BY DEF CloseIsComplete
  <2>1. teardown = "done" /\ opening = "open"
    BY DEF IInv, Control, OpenInv, CloseInv, Places
  <2> QED BY <2>1 DEF IInv, Control, OpenInv, CloseInv, Places, Parts
<1> QED BY <1>1, Invariant, PTL

--------------------------------------------------------------------------------
\* That a loss is not overlooked.

\* A provider that was seen and has left is noticed (the callback of
\* watchProviderPath, providertunnel/tunnel.go:370-383): the signal has its cause, or
\* the teardown is about to give it one, or there is an event of the monitor still to
\* be delivered whose callback reads the window as it is then.
NoticeIsPending ==
  wasAdded /\ ~ Active =>
    \/ cause # "none" \/ teardown = "lose"
    \/ events > 0 \/ worker # "idle"

\* And whoever was seen was seen by a watch, which the teardown alone takes off.
NoticeInv ==
  /\ NoticeIsPending
  /\ wasAdded \/ events > 0 \/ worker # "idle" => watching \/ teardown \notin {"none", "unwatch"}

\* A callback that finds the provider there was delivered before it left, so the event
\* of its leaving comes after; one that does not finds it gone and signals.
LEMMA NoticeStep == IInv /\ NoticeInv /\ [Next]_vars => NoticeInv'
<1> SUFFICES ASSUME IInv, NoticeInv, [Next]_vars PROVE NoticeInv'
  OBVIOUS
<1>a. Flags /\ Places /\ OpenInv /\ CloseInv
  BY DEF IInv, Control
<1> USE DEF ctxVars, watchVars, pumpVars, closeVars, history
<1>1. CASE CreateTun \/ Unwind \/ StartPump \/ Pump \/ CallerEnds \/ TimePasses \/ LoseTun
  <2>1. UNCHANGED <<window, events, watching, worker, wasAdded, teardown>>
    BY <1>1 DEF CreateTun, Unwind, StartPump, Pump, ReadPacket, SendPacket, ReadFails, PumpStops,
       CallerEnds, TimePasses, LoseTun
  <2>2. cause # "none" => cause' # "none"
    BY <1>1 DEF CreateTun, Unwind, StartPump, Pump, ReadPacket, SendPacket, ReadFails, PumpStops,
       CallerEnds, TimePasses, LoseTun, Lose
  <2> QED
    BY <2>1, <2>2 DEF NoticeInv, NoticeIsPending, Active
<1>2. CASE Watch
  <2>1. watching' /\ UNCHANGED <<window, events, worker, wasAdded, teardown, cause>>
    BY <1>2 DEF Watch
  <2> QED
    BY <2>1 DEF NoticeInv, NoticeIsPending, Active
<1>3. ASSUME NEW c \in WindowClients, Add(c) \/ Remove(c) PROVE NoticeInv'
  <2>1. UNCHANGED <<watching, worker, wasAdded, teardown, cause>>
    BY <1>3 DEF Add, Remove, Change
  <2>2. CASE watching
    <3>1. events \in Nat /\ events' = events + 1
      BY <1>a, <1>3, <2>2 DEF Add, Remove, Change, Places
    <3>2. events' > 0
      BY <3>1
    <3> QED
      BY <2>1, <2>2, <3>2 DEF NoticeInv, NoticeIsPending
  <2>3. CASE ~ watching
    <3>1. events' = events
      BY <1>3, <2>3 DEF Add, Remove, Change
    <3>2. wasAdded => cause # "none" \/ teardown = "lose"
      BY <1>a, <2>3 DEF NoticeInv, CloseInv
    <3> QED
      BY <2>1, <3>1, <3>2 DEF NoticeInv, NoticeIsPending
  <2> QED
    BY <2>2, <2>3
<1>4. CASE Callback
  <2>1. UNCHANGED <<window, watching, teardown>>
    BY <1>4 DEF Callback, Deliver, ReadState, ReportLeft
  <2>2. worker # "idle" \/ events > 0
    BY <1>4 DEF Callback, Deliver, ReadState, ReportLeft
  <2>3. watching' \/ teardown' \notin {"none", "unwatch"}
    BY <2>1, <2>2 DEF NoticeInv
  <2>4. wasAdded' /\ ~ Active' => cause' # "none" \/ worker' # "idle"
    <3>1. CASE Deliver
      BY <3>1 DEF Deliver
    <3>2. CASE ReadState
      BY <2>1, <3>2 DEF ReadState, ProviderThere, Active
    <3>3. CASE ReportLeft
      BY <3>3 DEF ReportLeft, Lose
    <3> QED
      BY <1>4, <3>1, <3>2, <3>3 DEF Callback
  <2> QED
    BY <2>3, <2>4 DEF NoticeInv, NoticeIsPending
<1>5. ASSUME NEW k \in Closers, CallClose(k) \/ CloseReturns(k) PROVE NoticeInv'
  <2>1. /\ UNCHANGED <<window, events, watching, worker, wasAdded, cause>>
        /\ teardown' = "unwatch" \/ teardown' = teardown
        /\ teardown' # teardown => teardown = "none"
    BY <1>5 DEF CallClose, CloseReturns
  <2> QED
    BY <2>1 DEF NoticeInv, NoticeIsPending, Active
<1>6. CASE Unwatch
  <2>1. teardown' = "lose"
    BY <1>6 DEF Unwatch, Tear
  <2> QED
    BY <2>1 DEF NoticeInv, NoticeIsPending
<1>7. CASE LoseClosed
  <2>1. cause' # "none" /\ teardown' = "cancelData"
    BY <1>7 DEF LoseClosed, SignalClosed, Lose, Tear
  <2> QED
    BY <2>1 DEF NoticeInv, NoticeIsPending
<1>8. CASE CancelData \/ CloseTun \/ JoinPump \/ CloseMultiClient \/ CloseGenerator
           \/ CloseStrategy \/ CancelLifecycle
  <2>1. /\ teardown \notin {"none", "unwatch", "lose"} /\ teardown' \notin {"none", "unwatch"}
        /\ cause' = cause
    BY <1>8 DEF CancelData, CloseTun, JoinPump, CloseMultiClient, CloseGenerator, CloseStrategy,
       CancelLifecycle, Tear
  <2>2. cause' # "none"
    BY <1>a, <2>1 DEF CloseInv
  <2> QED
    BY <2>1, <2>2 DEF NoticeInv, NoticeIsPending
<1>9. CASE UNCHANGED vars
  BY <1>9 DEF NoticeInv, NoticeIsPending, Active, vars
<1> QED
  BY <1>1, <1>2, <1>3, <1>4, <1>5, <1>6, <1>7, <1>8, <1>9 DEF Next, Open, Close

\* However late and in whatever order the callbacks come, none of them is the last
\* without the loss having been signalled: what LossIsSignalled needs to hold.
THEOREM NoLossGoesUnnoticed == Spec => []NoticeIsPending
<1>1. Init => NoticeInv
  BY DEF Init, NoticeInv, NoticeIsPending
<1>2. NoticeInv => NoticeIsPending
  BY DEF NoticeInv
<1> QED
  BY Invariant, NoticeStep, <1>1, <1>2, PTL DEF Spec
================================================================================
