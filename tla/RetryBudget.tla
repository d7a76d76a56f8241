------------------------------ MODULE RetryBudget ------------------------------
(***************************************************************************)
(* The clock of a run: how the retries of egresshealth/retry.go are fitted *)
(* into the run's budget, and whether Options.RunBudget is long enough.    *)
(*                                                                         *)
(* Time is a counter in the code's unit; it advances only when no load can *)
(* act. A request, a spacing, a re-open and the warm-up each take any time *)
(* up to their bound. Loads queue for a slot in order, as senders on a     *)
(* channel do. Outcomes are left out but for whether an attempt settles    *)
(* its load (HealthRun has the verdicts, TunnelPath the re-open).          *)
(***************************************************************************)
EXTENDS Integers, Sequences, FiniteSets

CONSTANTS
  Loads,              \* the run's loads
  LoadAttempts,       \* Options.LoadAttempts
  Concurrencies,      \* the slots runs may have
  PerRequestTimeout,  \* what one request may take
  RetryDelayCap,      \* retryDelayCapFactor times the mean spacing
  IpEchoTimeout,      \* what the warm-up may take
  ReopenLimit,        \* Options.TunnelRecreateAttempts
  ReopenTime,         \* what a re-open with its warm-up may take
  ExplicitBudgets     \* the Options.Budget runs may have; 0 when unset

ASSUME BudgetAssumption ==
  /\ IsFiniteSet(Loads)
  /\ {LoadAttempts, PerRequestTimeout} \cup Concurrencies \subseteq Nat \ {0}
  /\ {RetryDelayCap, IpEchoTimeout, ReopenLimit, ReopenTime} \cup ExplicitBudgets \subseteq Nat

VARIABLES
  concurrency,     \* the run's slots
  explicitBudget,  \* the run's Options.Budget
  now,          \* the Options clock
  stage,        \* load -> where its chain is
  attempt,      \* load -> the loop's counter
  until,        \* load -> when its sleep, its wait for a tunnel or its request ends
  attempts,     \* load -> attempts made
  settled,      \* loads an attempt has settled
  queue,        \* loads waiting for a slot
  reopens,      \* re-opens started
  reopenUntil,  \* when the last one ends
  shortened,    \* history: loads one of whose spacings was cut to its share
  cut           \* history: loads one of whose requests the budget's end cut

options == <<concurrency, explicitBudget>>
budgetVars == <<options, now, stage, attempt, until, attempts, settled, queue, reopens, reopenUntil,
          shortened, cut>>

--------------------------------------------------------------------------------
\* Here and below, a definition that nothing uses states a plausible mistake in
\* the one after it.
RoundsRoundedDown == Cardinality(Loads) \div concurrency
Rounds            == (Cardinality(Loads) + concurrency - 1) \div concurrency

\* Options.RunBudget, the default.
RunBudget ==
  LoadAttempts * Rounds * PerRequestTimeout + (LoadAttempts - 1) * RetryDelayCap + IpEchoTimeout

Deadline == IF explicitBudget > 0 THEN explicitBudget ELSE RunBudget
Over     == now >= Deadline   \* ctx.Err() # nil

\* An attempt's share of what the budget leaves once every remaining attempt has
\* its request: the longest it may wait. Durations divide towards zero.
Quotient(x, y) == IF x >= 0 THEN x \div y ELSE - ((- x) \div y)
NoRoomKept(a) ==
  LET remaining == LoadAttempts - a + 1
  IN  Quotient(Deadline - now, remaining)
Share(a) ==
  LET remaining == LoadAttempts - a + 1
  IN  Quotient(Deadline - now - remaining * PerRequestTimeout, remaining)

Holding(l) == stage[l] \in {"live", "fetch"}

\* What a load's next move needs nothing but the present for.
Ready(l) ==
  \/ stage[l] \in {"start", "retry"}
  \/ stage[l] \in {"sleep", "live", "fetch"} /\ (until[l] <= now \/ Over)
  \/ stage[l] = "queue" /\ Over
SlotFree == Cardinality({l \in Loads : Holding(l)}) < concurrency

--------------------------------------------------------------------------------
Become(l, to) == stage' = [stage EXCEPT ![l] = to]

\* The loop's head, before a retry: its spacing, shortened to its share.
Retry(l) ==
  /\ stage[l] = "retry"
  /\ \E delay \in 0..RetryDelayCap :
       LET share == Share(attempt[l]) IN
       \/ /\ delay <= share
          /\ Become(l, "sleep")
          /\ until' = [until EXCEPT ![l] = now + delay]
          /\ UNCHANGED shortened
       \/ /\ share < delay /\ share > 0
          /\ Become(l, "sleep")
          /\ until' = [until EXCEPT ![l] = now + share]
          /\ shortened' = shortened \cup {l}
       \/ /\ share < delay /\ share <= 0
          /\ Become(l, "done")
          /\ shortened' = shortened \cup {l}
          /\ UNCHANGED until
  /\ UNCHANGED <<options, now, attempt, attempts, settled, queue, reopens, reopenUntil, cut>>

\* The sleep ends, or is cut by the end of the run.
Wake(l) ==
  /\ stage[l] = "sleep"
  /\ \/ until[l] <= now /\ Become(l, "start")
     \/ Over /\ Become(l, "done")
  /\ UNCHANGED <<options, now, attempt, until, attempts, settled, queue, reopens, reopenUntil,
                 shortened, cut>>

\* The context check before the slot.
CheckContext(l) ==
  /\ stage[l] = "start"
  /\ \/ Over /\ Become(l, "done") /\ UNCHANGED queue
     \/ ~ Over /\ Become(l, "queue") /\ queue' = Append(queue, l)
  /\ UNCHANGED <<options, now, attempt, until, attempts, settled, reopens, reopenUntil, shortened, cut>>

LeaveQueue(l) ==
  /\ stage[l] = "queue"
  /\ Over
  /\ Become(l, "done")
  /\ \E i \in DOMAIN queue :
       /\ queue[i] = l
       /\ queue' = SubSeq(queue, 1, i - 1) \o SubSeq(queue, i + 1, Len(queue))
  /\ UNCHANGED <<options, now, attempt, until, attempts, settled, reopens, reopenUntil, shortened, cut>>

\* The load at the head of the queue takes a free slot and asks for a tunnel: it
\* is up, or a re-open is in flight, or this load starts one.
TakeSlot(l) ==
  /\ stage[l] = "queue"
  /\ SlotFree /\ queue # <<>> /\ Head(queue) = l
  /\ queue' = Tail(queue)
  /\ Become(l, "live")
  /\ \/ /\ until' = [until EXCEPT ![l] = IF now < reopenUntil THEN reopenUntil ELSE now]
        /\ UNCHANGED <<reopens, reopenUntil>>
     \/ /\ reopenUntil <= now /\ reopens < ReopenLimit
        /\ reopens' = reopens + 1
        /\ \E d \in 1..ReopenTime :
             /\ reopenUntil' = now + d
             /\ until' = [until EXCEPT ![l] = now + d]
  /\ UNCHANGED <<options, now, attempt, attempts, settled, shortened, cut>>

\* A tunnel is up: the request starts.
Send(l) ==
  /\ stage[l] = "live"
  /\ until[l] <= now
  /\ Become(l, "fetch")
  /\ \E d \in 0..PerRequestTimeout : until' = [until EXCEPT ![l] = now + d]
  /\ UNCHANGED <<options, now, attempt, attempts, settled, queue, reopens, reopenUntil, shortened, cut>>

\* The run ended while the load waited for a tunnel.
NoTunnelInTime(l) ==
  /\ stage[l] = "live"
  /\ Over
  /\ Become(l, "done")
  /\ UNCHANGED <<options, now, attempt, until, attempts, settled, queue, reopens, reopenUntil,
                 shortened, cut>>

LastAttempt(l)     == attempt[l] = LoadAttempts

\* The request ends, at its own time or with the run, and settles the load or not.
EndFetch(l) ==
  /\ stage[l] = "fetch"
  /\ until[l] <= now \/ Over
  /\ attempts' = [attempts EXCEPT ![l] = attempt[l]]
  /\ cut' = IF until[l] > now THEN cut \cup {l} ELSE cut
  /\ \/ /\ settled' = settled \cup {l}
        /\ Become(l, "done")
        /\ UNCHANGED attempt
     \/ /\ LastAttempt(l)
        /\ Become(l, "done")
        /\ UNCHANGED <<attempt, settled>>
     \/ /\ ~ LastAttempt(l)
        /\ Become(l, "retry")
        /\ attempt' = [attempt EXCEPT ![l] = @ + 1]
        /\ UNCHANGED settled
  /\ UNCHANGED <<options, now, until, queue, reopens, reopenUntil, shortened>>

\* Time passes only when nobody can act.
Tick ==
  /\ \A l \in Loads : ~ Ready(l)
  /\ ~ (queue # <<>> /\ SlotFree)
  /\ \E l \in Loads : stage[l] # "done"
  /\ now' = now + 1
  /\ UNCHANGED <<options, stage, attempt, until, attempts, settled, queue, reopens, reopenUntil,
                 shortened, cut>>

--------------------------------------------------------------------------------
\* The budget's clock starts before the warm-up, which it bounds too, and the loads
\* after it.
BudgetInit ==
  /\ concurrency \in Concurrencies /\ explicitBudget \in ExplicitBudgets
  /\ now \in 0..IpEchoTimeout /\ now <= Deadline
  /\ stage = [l \in Loads |-> "start"]
  /\ attempt = [l \in Loads |-> 1]
  /\ until = [l \in Loads |-> 0]
  /\ attempts = [l \in Loads |-> 0]
  /\ settled = {} /\ queue = <<>>
  /\ reopens = 0 /\ reopenUntil = 0
  /\ shortened = {} /\ cut = {}

BudgetNext ==
  \/ \E l \in Loads :
       \/ Retry(l) \/ Wake(l) \/ CheckContext(l) \/ LeaveQueue(l) \/ TakeSlot(l)
       \/ Send(l) \/ NoTunnelInTime(l) \/ EndFetch(l)
  \/ Tick

BudgetSpec == BudgetInit /\ [][BudgetNext]_budgetVars

--------------------------------------------------------------------------------
\* Every variable keeps its type; nobody acts once the budget is gone, so the clock
\* is bounded by it.
BudgetTypeOK ==
  /\ concurrency \in Concurrencies /\ explicitBudget \in ExplicitBudgets
  /\ now \in 0..Deadline
  /\ stage \in [Loads -> {"start", "queue", "live", "fetch", "retry", "sleep", "done"}]
  /\ attempt \in [Loads -> 1..LoadAttempts]
  /\ until \in [Loads -> Nat]
  /\ attempts \in [Loads -> 0..LoadAttempts]
  /\ settled \subseteq Loads
  /\ queue \in Seq(Loads)
  /\ reopens \in 0..ReopenLimit /\ reopenUntil \in Nat
  /\ shortened \subseteq Loads /\ cut \subseteq Loads

Default       == explicitBudget = 0 /\ reopens = 0
RoomForAll    ==
  Deadline >= IpEchoTimeout + LoadAttempts * Rounds * PerRequestTimeout + LoadAttempts - 1
NoQueue       == concurrency >= Cardinality(Loads) /\ RoomForAll /\ reopens = 0
EveryAttempt  ==
  \A l \in Loads : stage[l] = "done" /\ l \notin settled => attempts[l] = LoadAttempts

\* While no tunnel is lost, the default budget never shortens a load's spacing,
\* wherever its retries land (retry.go:151-152).
NoSpacingShortened == Default => shortened = {}

\* On the default budget, and on a shorter one that has room for the requests and a
\* slot for every load, no request is cut by the end of the budget before its own
\* timeout: a site is never failed for the prober's arithmetic
\* (egresshealth.go:2082-2085).
NoRequestCut == Default \/ NoQueue => cut = {}

\* On those budgets a load that no attempt settled has had all of them: one shorter
\* than the spacing costs waits, not attempts.
EveryAttemptIsMade == Default \/ NoQueue => EveryAttempt
================================================================================
