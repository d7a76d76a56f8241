---------------------------- MODULE ProviderTunnel ----------------------------
(***************************************************************************)
(* One tunnel to a provider: Open, watchProviderPath, the packet pump and  *)
(* Close (providertunnel/tunnel.go).                                       *)
(*                                                                         *)
(* The pump, the monitor's callback worker and every caller of Close are   *)
(* processes. The multi-client is external: its window clients are added,  *)
(* replaced before they are removed when they rotate, and removed when the *)
(* provider leaves; each change is one event the worker delivers later,    *)
(* reading whatever the state is by then. The caller's context may end at  *)
(* any moment; it is the parent of the tunnel's own two.                   *)
(***************************************************************************)
EXTENDS Integers, FiniteSets

CONSTANTS
  WindowClients,  \* the clients the multi-client may add for the provider
  Closers         \* callers of Close

ASSUME TunnelAssumption == IsFiniteSet(WindowClients) /\ IsFiniteSet(Closers)

VARIABLES
  opening,    \* where Open is
  callerDone, \* the context Open was given is done
  window,     \* window client -> "new", "added" or "removed"
  events,     \* changes the monitor has yet to deliver
  watching,   \* the callback is registered
  worker,     \* where the callback worker is
  wasAdded,   \* watchProviderPath's wasAdded
  cause,      \* the cause the loss signal ended with; "none" while it is live
  tunUp,      \* the tun can be read
  pump,       \* where the packet pump is
  dataDone,   \* cancelData was called
  lifeDone,   \* cancelLifecycle was called
  teardown,   \* where the Once's function is
  timeUp,     \* the close timeout has passed
  ended,      \* parts whose close has been called
  errs,       \* parts whose close gave an error
  caller,     \* caller of Close -> where it is
  emptied,    \* history: the provider left after it was there, before Close cut the path
  tunBroke,   \* history: the tun failed on its own
  cutOff      \* history: the generator's retirement found its context cancelled

watchVars == <<events, watching, worker, wasAdded>>
ctxVars   == <<callerDone, dataDone, lifeDone>>
pumpVars  == <<tunUp, pump>>
closeVars == <<teardown, timeUp, ended, errs, caller>>
history   == <<emptied, tunBroke, cutOff>>
vars == <<opening, ctxVars, window, watchVars, cause, pumpVars, closeVars, history>>

Parts == {"tun", "pump", "multiClient", "generator", "strategy"}
Teardown == {"none", "unwatch", "lose", "cancelData", "tun", "pump", "multiClient",
             "generator", "strategy", "lifecycle", "done"}

--------------------------------------------------------------------------------
Data      == dataDone \/ lifeDone \/ callerDone   \* dataCtx.Err() # nil
Lifecycle == lifeDone \/ callerDone               \* lifecycleCtx.Err() # nil
Active    == \E c \in WindowClients : window[c] = "added"

\* The first cause stands.
Lose(why) == cause' = IF cause = "none" THEN why ELSE cause

\* CloseAndWait and the like, which may fail, and give up when the timeout passes.
EndPart(part) ==
  /\ ended' = ended \cup {part}
  /\ errs' \in {errs, errs \cup {part}}

--------------------------------------------------------------------------------
\* Open, up to its tun: without one it unwinds what it has made.
CreateTun ==
  /\ opening = "tun"
  /\ \/ opening' = "multiClient" /\ tunUp' = TRUE /\ UNCHANGED dataDone
     \/ opening' = "unwinding" /\ dataDone' = TRUE /\ UNCHANGED tunUp
  /\ UNCHANGED <<callerDone, lifeDone, window, watchVars, cause, pump, closeVars, history>>

Unwind ==
  /\ opening = "unwinding"
  /\ opening' = "failed"
  /\ ended' = ended \cup {"generator", "strategy"}
  /\ errs' \in {errs, errs \cup {"generator"}}
  /\ cutOff' = Lifecycle
  /\ lifeDone' = TRUE
  /\ UNCHANGED <<callerDone, dataDone, window, watchVars, cause, pumpVars, teardown, timeUp,
                 caller, emptied, tunBroke>>

\* The multi-client is there, and may have added the provider before the callback is.
Watch ==
  /\ opening = "multiClient"
  /\ opening' = "pump"
  /\ watching' = TRUE
  /\ UNCHANGED <<ctxVars, window, events, worker, wasAdded, cause, pumpVars, closeVars, history>>

StartPump ==
  /\ opening = "pump"
  /\ opening' = "open"
  /\ pump' = "reading"
  /\ UNCHANGED <<ctxVars, window, watchVars, cause, tunUp, closeVars, history>>

--------------------------------------------------------------------------------
\* The multi-client's window. An event reaches the worker only while the callback
\* is registered.
Change(c, to) ==
  /\ opening \in {"multiClient", "pump", "open"}
  /\ window' = [window EXCEPT ![c] = to]
  /\ events' = IF watching THEN events + 1 ELSE events
  /\ emptied' = (emptied \/ (~ dataDone /\ Active /\ ~ Active'))
  /\ UNCHANGED <<opening, ctxVars, watching, worker, wasAdded, cause, pumpVars, closeVars,
                 tunBroke, cutOff>>

Add(c)    == window[c] = "new" /\ ~ Data /\ "multiClient" \notin ended /\ Change(c, "added")
Remove(c) == window[c] = "added" /\ Change(c, "removed")

--------------------------------------------------------------------------------
\* The worker takes an event, and calls the callback even if it is unregistered
\* meanwhile.
Deliver ==
  /\ worker = "idle"
  /\ events > 0
  /\ events' = events - 1
  /\ worker' = "called"
  /\ UNCHANGED <<opening, ctxVars, window, watching, wasAdded, cause, pumpVars, closeVars, history>>

\* Here and below, a definition that nothing uses states a plausible mistake in the
\* one after it.
ProviderKnown == \E c \in WindowClients : window[c] # "new"
ProviderThere == Active

\* The callback reads the state as it is by now.
ReadState ==
  /\ worker = "called"
  /\ \/ ProviderThere /\ wasAdded' = TRUE /\ worker' = "idle"
     \/ ~ ProviderThere /\ worker' = (IF wasAdded THEN "losing" ELSE "idle") /\ UNCHANGED wasAdded
  /\ UNCHANGED <<opening, ctxVars, window, events, watching, cause, pumpVars, closeVars, history>>

ReportLeft ==
  /\ worker = "losing"
  /\ worker' = "idle"
  /\ Lose("left")
  /\ UNCHANGED <<opening, ctxVars, window, events, watching, wasAdded, pumpVars, closeVars, history>>

--------------------------------------------------------------------------------
\* The packet pump. A read returns a packet, or fails once the tun is gone.
ReadPacket ==
  /\ pump = "reading" /\ tunUp
  /\ pump' = "sending"
  /\ UNCHANGED <<opening, ctxVars, window, watchVars, cause, tunUp, closeVars, history>>

\* SendPacket, for at most the send timeout.
SendPacket ==
  /\ pump = "sending"
  /\ pump' = "reading"
  /\ UNCHANGED <<opening, ctxVars, window, watchVars, cause, tunUp, closeVars, history>>

ReadFails ==
  /\ pump = "reading" /\ ~ tunUp
  /\ pump' = "failed"
  /\ UNCHANGED <<opening, ctxVars, window, watchVars, cause, tunUp, closeVars, history>>

\* pumpStopped, and the pump is done.
StillNeeded == ~ Data

PumpStops ==
  /\ pump = "failed"
  /\ pump' = "done"
  /\ IF StillNeeded THEN Lose("readFailed") ELSE UNCHANGED cause
  /\ UNCHANGED <<opening, ctxVars, window, watchVars, tunUp, closeVars, history>>

--------------------------------------------------------------------------------
\* Close: the first caller runs the teardown, every other waits for it.
CallClose(k) ==
  /\ opening = "open"
  /\ caller[k] = "none"
  /\ caller' = [caller EXCEPT ![k] = "waiting"]
  /\ teardown' = IF teardown = "none" THEN "unwatch" ELSE teardown
  /\ UNCHANGED <<opening, ctxVars, window, watchVars, cause, pumpVars, timeUp, ended, errs, history>>

CloseReturns(k) ==
  /\ caller[k] = "waiting" /\ teardown = "done"
  /\ caller' = [caller EXCEPT ![k] = "returned"]
  /\ UNCHANGED <<opening, ctxVars, window, watchVars, cause, pumpVars, teardown, timeUp, ended,
                 errs, history>>

Tear(from, to) == teardown = from /\ teardown' = to

\* Nothing after this is the provider leaving: events that were not delivered are
\* dropped, and the signal says closed before anything is torn down.
Unwatch ==
  /\ Tear("unwatch", "lose")
  /\ watching' = FALSE /\ events' = 0
  /\ UNCHANGED <<opening, ctxVars, window, worker, wasAdded, cause, pumpVars, timeUp, ended, errs,
                 caller, history>>

LeaveSignal  == UNCHANGED cause
SignalClosed == Lose("closed")

LoseClosed ==
  /\ Tear("lose", "cancelData")
  /\ SignalClosed
  /\ UNCHANGED <<opening, ctxVars, window, watchVars, pumpVars, timeUp, ended, errs, caller, history>>

\* The data path ends, and the control plane stays for the rest of the teardown.
CancelBoth == dataDone' = TRUE /\ lifeDone' = TRUE
CancelPath == dataDone' = TRUE /\ UNCHANGED lifeDone

CancelData ==
  /\ Tear("cancelData", "tun")
  /\ CancelPath
  /\ UNCHANGED <<opening, callerDone, window, watchVars, cause, pumpVars, timeUp, ended, errs,
                 caller, history>>

CloseTun ==
  /\ Tear("tun", "pump")
  /\ tunUp' = FALSE
  /\ EndPart("tun")
  /\ UNCHANGED <<opening, ctxVars, window, watchVars, cause, pump, timeUp, caller, history>>

\* The pump is done, or the timeout passes first.
JoinPump ==
  /\ Tear("pump", "multiClient")
  /\ ended' = ended \cup {"pump"}
  /\ \/ pump = "done" /\ UNCHANGED errs
     \/ timeUp /\ errs' = errs \cup {"pump"}
  /\ UNCHANGED <<opening, ctxVars, window, watchVars, cause, pumpVars, timeUp, caller, history>>

CloseMultiClient ==
  /\ Tear("multiClient", "generator")
  /\ EndPart("multiClient")
  /\ UNCHANGED <<opening, ctxVars, window, watchVars, cause, pumpVars, timeUp, caller, history>>

\* The generator deregisters its clients, over the lifecycle context.
CloseGenerator ==
  /\ Tear("generator", "strategy")
  /\ EndPart("generator")
  /\ cutOff' = Lifecycle
  /\ UNCHANGED <<opening, ctxVars, window, watchVars, cause, pumpVars, timeUp, caller, emptied,
                 tunBroke>>

CloseStrategy ==
  /\ Tear("strategy", "lifecycle")
  /\ ended' = ended \cup {"strategy"}
  /\ UNCHANGED <<opening, ctxVars, window, watchVars, cause, pumpVars, timeUp, errs, caller, history>>

CancelLifecycle ==
  /\ Tear("lifecycle", "done")
  /\ lifeDone' = TRUE
  /\ UNCHANGED <<opening, callerDone, dataDone, window, watchVars, cause, pumpVars, timeUp, ended,
                 errs, caller, history>>

--------------------------------------------------------------------------------
\* The caller's context ends; the close timeout passes.
CallerEnds ==
  /\ ~ callerDone
  /\ callerDone' = TRUE
  /\ UNCHANGED <<opening, dataDone, lifeDone, window, watchVars, cause, pumpVars, closeVars, history>>

TimePasses ==
  /\ teardown \notin {"none", "unwatch", "lose", "done"} /\ ~ timeUp
  /\ timeUp' = TRUE
  /\ UNCHANGED <<opening, ctxVars, window, watchVars, cause, pumpVars, teardown, ended, errs, caller,
                 history>>

\* The tun goes: on its own, or because the context it was made with has ended.
LoseTun ==
  /\ tunUp
  /\ tunUp' = FALSE
  /\ tunBroke' = (tunBroke \/ ~ Data)
  /\ UNCHANGED <<opening, ctxVars, window, watchVars, cause, pump, closeVars, emptied, cutOff>>

Init ==
  /\ opening = "tun" /\ callerDone = FALSE /\ dataDone = FALSE /\ lifeDone = FALSE
  /\ window = [c \in WindowClients |-> "new"]
  /\ events = 0 /\ watching = FALSE /\ worker = "idle" /\ wasAdded = FALSE
  /\ cause = "none" /\ tunUp = FALSE /\ pump = "none"
  /\ teardown = "none" /\ timeUp = FALSE /\ ended = {} /\ errs = {}
  /\ caller = [k \in Closers |-> "none"]
  /\ emptied = FALSE /\ tunBroke = FALSE /\ cutOff = FALSE

Open == CreateTun \/ Unwind \/ Watch \/ StartPump

Callback == Deliver \/ ReadState \/ ReportLeft

Pump == ReadPacket \/ SendPacket \/ ReadFails \/ PumpStops

Close ==
  \/ Unwatch \/ LoseClosed \/ CancelData \/ CloseTun \/ JoinPump
  \/ CloseMultiClient \/ CloseGenerator \/ CloseStrategy \/ CancelLifecycle

Next ==
  \/ Open \/ Callback \/ Pump \/ Close
  \/ \E c \in WindowClients : Add(c) \/ Remove(c)
  \/ \E k \in Closers : CallClose(k) \/ CloseReturns(k)
  \/ CallerEnds \/ TimePasses \/ LoseTun

Spec == Init /\ [][Next]_vars

\* The worker and the pump are scheduled, and every part's close is bounded by the
\* timeout. Nobody has to leave, to close or to stop sending packets.
FairSpec ==
  /\ Spec
  /\ WF_vars(Open) /\ WF_vars(Callback) /\ WF_vars(Pump) /\ WF_vars(Close)
  /\ WF_vars(TimePasses)
  /\ \A k \in Closers : WF_vars(CloseReturns(k))

--------------------------------------------------------------------------------
\* Every variable keeps its type.
TypeOK ==
  /\ opening \in {"tun", "unwinding", "failed", "multiClient", "pump", "open"}
  /\ callerDone \in BOOLEAN /\ dataDone \in BOOLEAN /\ lifeDone \in BOOLEAN
  /\ watching \in BOOLEAN /\ wasAdded \in BOOLEAN /\ tunUp \in BOOLEAN /\ timeUp \in BOOLEAN
  /\ emptied \in BOOLEAN /\ tunBroke \in BOOLEAN /\ cutOff \in BOOLEAN
  /\ window \in [WindowClients -> {"new", "added", "removed"}]
  /\ events \in Nat
  /\ worker \in {"idle", "called", "losing"}
  /\ cause \in {"none", "left", "readFailed", "closed"}
  /\ pump \in {"none", "reading", "sending", "failed", "done"}
  /\ teardown \in Teardown
  /\ ended \subseteq Parts /\ errs \subseteq Parts
  /\ caller \in [Closers -> {"none", "waiting", "returned"}]

\* A loss is a loss: the signal names the provider only if it had been there and left
\* before Close cut the path, and the tun only if it failed on its own, never because
\* the context it was made with ended. A provider that never came is not a loss, nor
\* is the teardown, which empties the multi-client under a callback still running
\* (tunnel.go:365-366, 385-387, 442-444).
LossIsReal ==
  /\ cause = "left" => emptied
  /\ cause = "readFailed" => tunBroke

\* Whoever returns from Close finds it finished: every part's close was called
\* whatever the ones before it gave, the contexts are cancelled, the signal is done,
\* and the pump is too unless its absence is among the errors. The generator's last
\* request was cut off by nobody but the caller who had opened the tunnel.
CloseIsComplete ==
  (\E k \in Closers : caller[k] = "returned") =>
    /\ ended = Parts /\ dataDone /\ lifeDone /\ ~ watching
    /\ cause # "none"
    /\ pump = "done" \/ "pump" \in errs
    /\ cutOff => callerDone

\* A provider the watch has seen and that leaves, with nothing in its place, is
\* noticed while anybody still wants the tunnel: the signal ends, or it comes back.
LossIsSignalled ==
  wasAdded /\ ~ Active ~> cause # "none" \/ Active
================================================================================
