-------------------------- MODULE ProberCommandProofs --------------------------
(***************************************************************************)
(* The safety of the command, for any probe hosts, addresses and           *)
(* providers, any limit and cap of the sweeps, and any number of pin sets  *)
(* the server may publish.                                                 *)
(*                                                                         *)
(* What holds at a step of main was established on the way there, so the   *)
(* invariant says, for the steps that are past each check, what the check  *)
(* found, and for a sweeper that was started that main had passed them     *)
(* all.                                                                    *)
(*                                                                         *)
(* The second part is about RetryBudget: that the budget main leaves to    *)
(* the runs it starts is enough for them.                                  *)
(***************************************************************************)
EXTENDS ProberCommand, RetryBudget, FiniteSetTheorems, SequenceTheorems, TLAPS

\* The steps of main from each check on.
PassSteps     == {"refresh", "select", "enumerate", "run", "judge", "sleep"}
WithPins      == PassSteps
WithJwt       == PassSteps \cup {"check", "pins"}
WithVerdict   == WithJwt \cup {"credential", "wait", "parse"}
WithoutPins   == {"flags", "confinement", "credential", "wait", "parse", "check", "pins"}

\* The kinds of variables the argument needs.
Kinds ==
  /\ step \in Steps
  /\ served \in Nat \ {0}
  /\ pass \in [kind : {"none", "driven", "enumerated"}, submitted : BOOLEAN, failed : BOOLEAN]

\* What the confinement check has found so far, while main has not moved on.
Evidence ==
  /\ verdict \in {"resolving", "dialing"} => dialed \cap reachable = {}
  /\ verdict = "dialing" => addrs # {}
  /\ step = "flags" => verdict # "passed"
  /\ step = "confinement" /\ verdict = "passed" => addrs # {} /\ addrs \cap reachable = {}

\* What main carries past each check.
Checked ==
  /\ step \in WithVerdict => verdict \in {"passed", "skipped"}
  /\ step \in WithJwt => jwt = "usable"
  /\ step \in WithPins => pins # 0 /\ pins = lastGot
  /\ step \in WithoutPins => pins = 0 /\ sweeper = "off"

\* A sweeper rides on the same.
Swept ==
  sweeper # "off" =>
    verdict \in {"passed", "skipped"} /\ jwt = "usable" /\ pins # 0 /\ pins = lastGot

\* The pass of the moment, and the exit code while there is none.
Judged ==
  /\ step # "exited" => exit = -1
  /\ step \in {"select", "enumerate"} => pass = NoPass
  /\ step \in {"run", "judge"} => pass.kind # "none"

IInv == Kinds /\ Evidence /\ Checked /\ Swept /\ Judged /\ TunnelsNeedEvidence /\ ExitCodeIsHonest
        /\ SweepingIsGivenUpForAReason

--------------------------------------------------------------------------------
(***************************************************************************)
(* What a call can come back with.                                         *)
(***************************************************************************)

\* A sweep's call is refused for good only by a server that lacks the endpoint or
\* does not take the secret.
LEMMA RefusalHasAReason ==
  ASSUME NEW endpoint \in {"blackholeDue", "blackholeChecks"},
         NEW result \in Results(endpoint), Disables(result)
  PROVE  endpoint \notin deployed \/ ~ secretOk
<1> SUFFICES ASSUME endpoint \in deployed, secretOk PROVE FALSE
  OBVIOUS
<1>1. Answers(endpoint) = {"failure", "ok"}
  BY DEF Answers
<1>2. Result(endpoint, "failure") = "error"
  BY DEF Result, Sentinels, DueErrors, ChecksErrors
<1>3. Result(endpoint, "ok") = "ok"
  BY DEF Result
<1>4. result \in {"ok", "error"}
  BY <1>1, <1>2, <1>3 DEF Results
<1> QED
  BY <1>4 DEF Disables

--------------------------------------------------------------------------------
(***************************************************************************)
(* The invariant.                                                          *)
(***************************************************************************)

LEMMA InitIInv == Init => IInv
BY DEF Init, ConfinementInit, ServerInit, SweepInit, NoPass, IInv, Kinds, Evidence, Checked, Swept,
       Judged, Steps, PassSteps, WithPins, WithJwt, WithVerdict, WithoutPins,
       TunnelsNeedEvidence, ExitCodeIsHonest, SweepingIsGivenUpForAReason

\* The steps of main up to its first pass.
LEMMA StartKeepsIInv == IInv /\ Start => IInv'
<1> SUFFICES ASSUME IInv, Start PROVE IInv'
  OBVIOUS
<1> USE DEF IInv, Kinds, Evidence, Checked, Swept, Judged, Steps, PassSteps, WithPins, WithJwt,
            WithVerdict, WithoutPins, TunnelsNeedEvidence, ExitCodeIsHonest,
            SweepingIsGivenUpForAReason, Outside, Goto, Exit, server, sweepVars, optionVars,
            mainVars, confinementVars
<1>1. CASE CheckFlags
  BY <1>1 DEF CheckFlags
<1>2. CASE CheckConfinement
  <2>1. CASE Resolved
    BY <1>2, <2>1 DEF CheckConfinement, Resolved
  <2>2. CASE Verified
    BY <1>2, <2>2 DEF CheckConfinement, Verified
  <2>3. ASSUME NEW host \in Hosts, LookUp(host) PROVE IInv'
    BY <1>2, <2>3 DEF CheckConfinement, LookUp
  <2>4. ASSUME NEW addr \in Addresses, Dial(addr) PROVE IInv'
    BY <1>2, <2>4 DEF CheckConfinement, Dial, RefusedByNetwork
  <2> QED
    BY <1>2, <2>1, <2>2, <2>3, <2>4 DEF CheckConfinement, CheckStep
<1>3. CASE Confined
  BY <1>3 DEF Confined
<1>4. CASE FetchCredential
  BY <1>4 DEF FetchCredential
<1>5. CASE WaitForCredential
  BY <1>5 DEF WaitForCredential
<1>6. CASE ParseJwt
  BY <1>6 DEF ParseJwt
<1>7. CASE CheckCredential
  BY <1>7 DEF CheckCredential
<1>8. CASE FetchPins
  BY <1>8 DEF FetchPins, HavePins, KeepPins
<1> QED
  BY <1>1, <1>2, <1>3, <1>4, <1>5, <1>6, <1>7, <1>8 DEF Start

\* The steps of a pass.
LEMMA PassKeepsIInv == IInv /\ Pass => IInv'
<1> SUFFICES ASSUME IInv, Pass PROVE IInv'
  OBVIOUS
<1> USE DEF IInv, Kinds, Evidence, Checked, Swept, Judged, Steps, PassSteps, WithPins, WithJwt,
            WithVerdict, WithoutPins, TunnelsNeedEvidence, ExitCodeIsHonest,
            SweepingIsGivenUpForAReason, Outside, Goto, Exit, server, sweepVars, optionVars,
            confinementVars, NoPass
<1>1. CASE RefreshPins
  <2>1. pins' # 0 /\ pins' = lastGot' /\ served' = served
    BY <1>1 DEF RefreshPins, HavePins, RefreshFails, KeepPins
  <2> QED
    BY <1>1, <2>1 DEF RefreshPins
<1>2. CASE SelectProviders
  <2>1. CASE step' = "run" /\ pass' = [NoPass EXCEPT !.kind = "driven"] /\ UNCHANGED exit
    <3>1. pass' = [kind |-> "driven", submitted |-> FALSE, failed |-> FALSE]
      BY <2>1
    <3>2. step = "select" /\ UNCHANGED <<ended, reachable, addrs, dialed, verdict, sweeper, refused,
                                        single, served, jwt, pins, lastGot>>
      BY <1>2 DEF SelectProviders
    <3>3. step' = "run" /\ UNCHANGED exit
      BY <2>1
    <3> QED
      BY <3>1, <3>2, <3>3
  <2>2. CASE step' = "enumerate" /\ UNCHANGED <<pass, exit>>
    BY <1>2, <2>2 DEF SelectProviders
  <2>3. CASE NoList
    BY <1>2, <2>3 DEF SelectProviders, NoList
  <2> QED
    BY <1>2, <2>1, <2>2, <2>3 DEF SelectProviders
<1>3. CASE Enumerate
  <2>1. CASE step' = "run" /\ pass' = [NoPass EXCEPT !.kind = "enumerated"] /\ UNCHANGED exit
    <3>1. pass' = [kind |-> "enumerated", submitted |-> FALSE, failed |-> FALSE]
      BY <2>1
    <3>2. step = "enumerate" /\ UNCHANGED <<ended, reachable, addrs, dialed, verdict, sweeper,
                                           refused, single, served, jwt, pins, lastGot>>
      BY <1>3 DEF Enumerate
    <3>3. step' = "run" /\ UNCHANGED exit
      BY <2>1
    <3> QED
      BY <3>1, <3>2, <3>3
  <2>2. CASE NoList
    BY <1>3, <2>2 DEF Enumerate, NoList
  <2> QED
    BY <1>3, <2>1, <2>2 DEF Enumerate
<1>4. CASE RunPass
  <2>1. step = "run" /\ step' = "judge" /\ UNCHANGED <<ended, reachable, addrs, dialed, verdict,
          sweeper, refused, single, served, jwt, pins, lastGot, exit>>
    BY <1>4 DEF RunPass
  <2>2. PICK submitted \in BOOLEAN, failed \in BOOLEAN :
          pass' = [[pass EXCEPT !.submitted = submitted] EXCEPT !.failed = failed]
    BY <1>4 DEF RunPass
  <2>3. pass' = [kind |-> pass.kind, submitted |-> submitted, failed |-> failed]
    BY <2>2
  <2> QED
    BY <2>1, <2>3
<1>5. CASE JudgePass
  BY <1>5 DEF JudgePass, NothingButFailure
<1>6. CASE Sleep
  BY <1>6 DEF Sleep
<1> QED
  BY <1>1, <1>2, <1>3, <1>4, <1>5, <1>6 DEF Pass

\* The sweeper's steps: one that is not off was not off before, and gives up only on
\* a refusal.
LEMMA SweepKeepsIInv == IInv /\ Sweep => IInv'
<1> SUFFICES ASSUME IInv, Sweep PROVE IInv'
  OBVIOUS
<1> USE DEF Outside, server, optionVars, mainVars, confinementVars
<1>1. UNCHANGED <<ended, reachable, addrs, dialed, verdict, single, served, jwt, pins, lastGot,
                  step, pass, exit>>
  BY DEF Sweep
<1>2. sweeper # "off"
  BY DEF Sweep, SweepStep, AskDue, RunBatch, SubmitChecks, NextSweep
<1>3. sweeper' = "disabled" => refused'
  <2>1. CASE AskDue
    BY <2>1, RefusalHasAReason DEF AskDue, EndSweep, Refusal
  <2>2. CASE RunBatch
    BY <2>2 DEF RunBatch, EndSweep, Disables
  <2>3. CASE SubmitChecks(ended)
    BY <2>3, RefusalHasAReason DEF SubmitChecks, EndSweep, Refusal
  <2>4. CASE NextSweep(ended)
    BY <2>4 DEF NextSweep
  <2> QED
    BY <2>1, <2>2, <2>3, <2>4 DEF Sweep, SweepStep
<1> QED
  BY <1>1, <1>2, <1>3 DEF IInv, Kinds, Evidence, Checked, Swept, Judged, TunnelsNeedEvidence,
     ExitCodeIsHonest, SweepingIsGivenUpForAReason, WithPins, WithJwt, WithVerdict, WithoutPins,
     PassSteps, Steps

\* Signals, and what happens around the process.
LEMMA OutsideKeepsIInv == IInv /\ (Signal \/ Environment \/ UNCHANGED vars) => IInv'
<1> SUFFICES ASSUME IInv, Signal \/ Environment \/ UNCHANGED vars PROVE IInv'
  OBVIOUS
<1> USE DEF IInv, Kinds, Evidence, Checked, Swept, Judged, Steps, PassSteps, WithPins, WithJwt,
            WithVerdict, WithoutPins, TunnelsNeedEvidence, ExitCodeIsHonest,
            SweepingIsGivenUpForAReason, Running, Outside, Exit, server, sweepVars, optionVars,
            mainVars, confinementVars
<1>1. CASE Signal
  BY <1>1 DEF Signal
<1>2. CASE Environment
  BY <1>2 DEF Environment, Upgrade, BecomeDue, SpendResolveBudget
<1>3. CASE UNCHANGED vars
  BY <1>3 DEF vars
<1> QED
  BY <1>1, <1>2, <1>3

THEOREM Invariance == Spec => []IInv
<1>1. IInv /\ [Next]_vars => IInv'
  BY StartKeepsIInv, PassKeepsIInv, SweepKeepsIInv, OutsideKeepsIInv DEF Next
<1> QED
  BY InitIInv, <1>1, PTL DEF Spec

--------------------------------------------------------------------------------
(***************************************************************************)
(* What it is for.                                                         *)
(***************************************************************************)

\* No tunnel is opened by a process that is not confined on evidence (or told not to
\* look), nor with pins other than the last set fetched whole (main.go:495-499,
\* 786-789).
THEOREM OnlyConfinedProcessesProbe == Spec => []TunnelsNeedEvidence
BY Invariance, PTL DEF IInv

\* Once started, exit code 1 means a pass nobody interrupted that had no list or
\* nothing but failures, and 0 anything else (main.go:478-492, 524-531).
THEOREM TheExitCodeIsHonest == Spec => []ExitCodeIsHonest
BY Invariance, PTL DEF IInv

\* Sweeping is given up only when the server refused it, whatever else failed in it
\* (blackhole.go, run).
THEOREM SweepingGoesOn == Spec => []SweepingIsGivenUpForAReason
BY Invariance, PTL DEF IInv

--------------------------------------------------------------------------------
(***************************************************************************)
(* The budget of the runs the command starts. It leaves Options.Budget to  *)
(* Options.RunBudget (main.go:601), which is enough: for any number of     *)
(* loads, slots and attempts and any times, as long as no tunnel is lost.  *)
(*                                                                         *)
(* The attempt a of a load begins by Begun(a), so it asks for a slot by    *)
(* then. Slots are taken in order and time passes while a load waits only  *)
(* if every slot holds a request, of which each is over in its timeout: so *)
(* with each timeout that passes, a slotful of loads has gone before, and  *)
(* after the rounds the budget has per attempt nobody is left to wait for. *)
(***************************************************************************)

\* The budgets that suffice, while no tunnel is lost.
Enough == Default \/ NoQueue

\* The budget's time for an attempt of every load.
Round == Rounds * PerRequestTimeout

\* When the attempt a of a load has begun at the latest, and when it has ended.
Begun(a) ==
  IF explicitBudget = 0
  THEN IpEchoTimeout + (a - 1) * (Round + RetryDelayCap)
  ELSE Deadline - (LoadAttempts - a + 1) * PerRequestTimeout - (LoadAttempts - a)
Ended(a) == Begun(a) + Round

\* The loads before l in the queue, and those whose slot is held after t.
Front(q, l)     == {m \in Loads : \E i, j \in DOMAIN q : i < j /\ q[i] = m /\ q[j] = l}
Busy(st, un, t) == {m \in Loads : st[m] = "live" \/ (st[m] = "fetch" /\ un[m] > t)}

\* The queue holds, once each, the loads that wait for a slot.
Line(q, st) ==
  /\ \A i \in DOMAIN q : st[q[i]] = "queue"
  /\ \A i, j \in DOMAIN q : q[i] = q[j] => i = j
  /\ \A l \in Loads : st[l] = "queue" => \E i \in DOMAIN q : q[i] = l

\* Once k requests' time has passed since the attempt a could begin, k slotfuls of
\* loads have gone before.
Waits(l, a, k) ==
  stage[l] = "queue" /\ attempt[l] = a /\ now > Begun(a) + (k - 1) * PerRequestTimeout =>
    Cardinality(Front(queue, l) \cup Busy(stage, until, Begun(a) + k * PerRequestTimeout))
      + k * concurrency < Cardinality(Loads)

\* Where the attempt a of a load is by when.
InTime(l, a) ==
  attempt[l] = a =>
    /\ stage[l] \in {"sleep", "retry"} => a > 1
    /\ stage[l] = "start" => now <= Begun(a)
    /\ stage[l] = "sleep" => now <= until[l] /\ until[l] <= Begun(a)
    /\ stage[l] = "retry" => now <= Ended(a - 1)
    /\ stage[l] = "live"  => until[l] <= now /\ now <= Ended(a) - PerRequestTimeout
    /\ stage[l] = "fetch" => /\ now <= until[l] /\ until[l] <= now + PerRequestTimeout
                             /\ until[l] <= Ended(a)
    /\ stage[l] = "done" => l \in settled \/ attempts[l] = LoadAttempts

Schedule ==
  /\ Line(queue, stage)
  /\ \A l \in Loads : \A a \in 1..LoadAttempts : InTime(l, a)
  /\ \A l \in Loads : \A a \in 1..LoadAttempts : \A k \in Nat \ {0} : Waits(l, a, k)
  /\ cut = {}
  /\ Default => shortened = {}

\* While no tunnel was lost, and with a budget that suffices, the schedule is kept.
BudgetInv ==
  /\ reopens = 0 => reopenUntil = 0
  /\ Enough => Schedule

\* Arithmetic the provers need a hint for.
LEMMA Products ==
  ASSUME NEW x \in Nat, NEW y \in Nat, NEW z \in Nat
  PROVE  /\ x * y \in Nat
         /\ (x * y) * z = x * (y * z)
         /\ x <= y => x * z <= y * z
         /\ x > 0 => z <= x * z
  BY SMT

LEMMA Division ==
  ASSUME NEW x \in Int, NEW y \in Nat \ {0}
  PROVE  /\ x \div y \in Int
         /\ (x \div y) * y <= x
         /\ x < (x \div y) * y + y
  BY SMT

LEMMA QuotientIs ==
  ASSUME NEW x \in Int, NEW y \in Nat \ {0}
  PROVE  /\ Quotient(x, y) \in Int
         /\ x >= 0 => Quotient(x, y) * y <= x /\ x < Quotient(x, y) * y + y
<1>1. x >= 0 => Quotient(x, y) = x \div y
  BY DEF Quotient
<1>2. x < 0 => Quotient(x, y) = - ((- x) \div y) /\ (- x) \in Int
  BY DEF Quotient
<1>3. (- x) \div y \in Int
  BY <1>2, Division DEF Quotient
<1>4. /\ x \div y \in Int
      /\ (x \div y) * y <= x
      /\ x < (x \div y) * y + y
  BY Division
<1>5. CASE x >= 0
  BY <1>1, <1>4, <1>5
<1>6. CASE ~ (x >= 0)
  BY <1>2, <1>3, <1>6
<1> QED BY <1>5, <1>6

\* The rounds have a slot for every load.
LEMMA RoundsAre ==
  ASSUME BudgetTypeOK, Loads # {}
  PROVE  /\ Rounds \in Nat \ {0}
         /\ Cardinality(Loads) <= Rounds * concurrency
         /\ concurrency >= Cardinality(Loads) => Rounds = 1
<1> DEFINE n == Cardinality(Loads)
           c == concurrency
<1>1. n \in Nat /\ n > 0 /\ c \in Nat \ {0}
  BY BudgetAssumption, FS_CardinalityType, FS_EmptySet DEF BudgetTypeOK
<1>2. Rounds = (n + c - 1) \div c
  BY DEF Rounds
<1> HIDE DEF n, c
<1>3. n + c - 1 \in Int
  BY <1>1
<1>4. /\ Rounds \in Int
      /\ Rounds * c <= n + c - 1
      /\ n + c - 1 < Rounds * c + c
  BY <1>1, <1>2, <1>3, Division
<1>5. n <= Rounds * c
  BY <1>1, <1>4
<1>6. Rounds > 0
  <2>1. Rounds <= 0 => Rounds * c <= 0
    BY <1>1, <1>4
  <2> QED BY <1>1, <1>4, <1>5, <2>1
<1>7. c >= n => Rounds = 1
  <2>1. Rounds >= 2 => Rounds * c >= 2 * c
    BY <1>1, <1>4
  <2> QED BY <1>1, <1>4, <1>6, <2>1
<1> QED BY <1>4, <1>5, <1>6, <1>7 DEF n, c

\* What the two kinds of budget that suffice have room for.
LEMMA BudgetIs ==
  ASSUME BudgetTypeOK, Loads # {}, Enough
  PROVE  /\ Round \in Nat /\ PerRequestTimeout <= Round
         /\ Deadline \in Int
         /\ explicitBudget = 0 =>
              Deadline = IpEchoTimeout + (LoadAttempts - 1) * (Round + RetryDelayCap) + Round
         /\ explicitBudget # 0 =>
              /\ Round = PerRequestTimeout
              /\ Deadline >= IpEchoTimeout + LoadAttempts * PerRequestTimeout + LoadAttempts - 1
<1> DEFINE R == Rounds
           A == LoadAttempts
           P == PerRequestTimeout
           D == RetryDelayCap
           W == Round
<1>1. A \in Nat \ {0} /\ P \in Nat \ {0} /\ D \in Nat /\ IpEchoTimeout \in Nat
  BY BudgetAssumption
<1>2. R \in Nat \ {0}
  BY RoundsAre
<1>3. W = R * P
  BY DEF Round
<1>4. RunBudget = A * R * P + (A - 1) * D + IpEchoTimeout
  BY DEF RunBudget
<1>5. Deadline = IF explicitBudget > 0 THEN explicitBudget ELSE RunBudget
  BY DEF Deadline
<1>6. explicitBudget \in Nat
  BY BudgetAssumption DEF BudgetTypeOK
<1>7. explicitBudget # 0 =>
        /\ concurrency >= Cardinality(Loads)
        /\ Deadline >= IpEchoTimeout + A * R * P + A - 1
  BY DEF Enough, Default, NoQueue, RoomForAll
<1>8. explicitBudget # 0 => R = 1
  BY <1>7, RoundsAre
<1> HIDE DEF R, A, P, D, W
<1>9. W \in Nat /\ P <= W
  BY <1>1, <1>2, <1>3, Products
<1>10. (A * R) * P = A * W
  BY <1>1, <1>2, <1>3, Products
<1>11. A * W \in Nat /\ (A - 1) * D \in Nat
  BY <1>1, <1>9, Products
<1>12. (A - 1) * (W + D) + W = A * W + (A - 1) * D
  BY <1>1, <1>9
<1>13. R = 1 => W = P
  BY <1>1, <1>3
<1>14. explicitBudget = 0 => Deadline = IpEchoTimeout + (A - 1) * (W + D) + W
  <2>1. explicitBudget = 0 => Deadline = A * W + (A - 1) * D + IpEchoTimeout
    BY <1>4, <1>5, <1>6, <1>10
  <2> QED BY <2>1, <1>1, <1>9, <1>11, <1>12
<1>15. explicitBudget # 0 => W = P /\ Deadline >= IpEchoTimeout + A * P + A - 1
  BY <1>1, <1>7, <1>8, <1>10, <1>13
<1>16. Deadline \in Int
  BY <1>1, <1>4, <1>5, <1>6, <1>10, <1>11
<1> QED BY <1>9, <1>14, <1>15, <1>16 DEF R, A, P, D, W

LEMMA Monotone ==
  ASSUME NEW x \in Int, NEW y \in Int, NEW z \in Nat, x <= y
  PROVE  x * z <= y * z
  BY SMT

\* The first attempt may begin after the warm-up, and the last ends by the deadline.
LEMMA BegunIs ==
  ASSUME BudgetTypeOK, Loads # {}, Enough, NEW a \in 1..LoadAttempts
  PROVE  /\ Begun(a) \in Int /\ Ended(a) \in Int
         /\ a = 1 => IpEchoTimeout <= Begun(a)
         /\ Ended(a) <= Deadline
<1> DEFINE A == LoadAttempts
           P == PerRequestTimeout
           D == RetryDelayCap
           W == Round
<1>1. A \in Nat \ {0} /\ P \in Nat \ {0} /\ D \in Nat /\ IpEchoTimeout \in Nat /\ a \in 1..A
  BY BudgetAssumption
<1>2. /\ W \in Nat /\ P <= W
      /\ Deadline \in Int
      /\ explicitBudget = 0 => Deadline = IpEchoTimeout + (A - 1) * (W + D) + W
      /\ explicitBudget # 0 => W = P /\ Deadline >= IpEchoTimeout + A * P + A - 1
  BY BudgetIs
<1>3. Ended(a) = Begun(a) + W
  BY DEF Ended
<1>4. CASE explicitBudget = 0
  <2>1. Begun(a) = IpEchoTimeout + (a - 1) * (W + D)
    BY <1>4 DEF Begun
  <2> HIDE DEF A, P, D, W
  <2>2. (a - 1) * (W + D) <= (A - 1) * (W + D)
    BY <1>1, <1>2, Monotone
  <2>3. (a - 1) * (W + D) \in Int /\ (A - 1) * (W + D) \in Int
    BY <1>1, <1>2
  <2>4. a = 1 => (a - 1) * (W + D) = 0
    BY <1>1, <1>2
  <2> QED BY <1>1, <1>2, <1>3, <1>4, <2>1, <2>2, <2>3, <2>4
<1>5. CASE explicitBudget # 0
  <2>1. Begun(a) = Deadline - (A - a + 1) * P - (A - a)
    BY <1>5 DEF Begun
  <2> HIDE DEF A, P, D, W
  <2>2. 1 * P <= (A - a + 1) * P
    BY <1>1, Monotone
  <2>3. (A - a + 1) * P \in Int
    BY <1>1
  <2>4. a = 1 => (A - a + 1) * P = A * P
    BY <1>1
  <2> QED BY <1>1, <1>2, <1>3, <1>5, <2>1, <2>2, <2>3, <2>4
<1> QED BY <1>4, <1>5

\* The retry a of a load finds room for its spacing, or for a shorter one.
LEMMA ShareIs ==
  ASSUME BudgetTypeOK, Loads # {}, Enough, NEW a \in 2..LoadAttempts, now <= Ended(a - 1)
  PROVE  /\ Share(a) \in Int
         /\ \A delay \in 0..RetryDelayCap : delay <= Share(a) => now + delay <= Begun(a)
         /\ RetryDelayCap <= Share(a) \/ (Share(a) > 0 /\ now + Share(a) <= Begun(a))
         /\ Default => RetryDelayCap <= Share(a)
<1> DEFINE A == LoadAttempts
           P == PerRequestTimeout
           D == RetryDelayCap
           W == Round
           r == A - a + 1
           room == Deadline - now - r * P
           q == Quotient(room, r)
<1>1. A \in Nat \ {0} /\ P \in Nat \ {0} /\ D \in Nat /\ IpEchoTimeout \in Nat /\ a \in 2..A
  BY BudgetAssumption
<1>2. /\ W \in Nat /\ P <= W
      /\ Deadline \in Int
      /\ explicitBudget = 0 => Deadline = IpEchoTimeout + (A - 1) * (W + D) + W
      /\ explicitBudget # 0 => W = P /\ Deadline >= IpEchoTimeout + A * P + A - 1
  BY BudgetIs
<1>3. now \in Int /\ explicitBudget \in Nat
  BY BudgetIs, BudgetAssumption DEF BudgetTypeOK
<1>4. now <= Begun(a - 1) + W
  BY DEF Ended
<1>5. Share(a) = q
  BY DEF Share
<1>6. r \in Nat \ {0} /\ r * P \in Int /\ room \in Int
  BY <1>1, <1>2, <1>3
<1>7. /\ q \in Int
      /\ room >= 0 => q * r <= room /\ room < q * r + r
  BY <1>6, QuotientIs
<1>8. CASE explicitBudget = 0
  <2>1. Begun(a - 1) = IpEchoTimeout + (a - 2) * (W + D) /\ Begun(a) = IpEchoTimeout + (a - 1) * (W + D)
    BY <1>1, <1>8 DEF Begun
  <2> HIDE DEF A, P, D, W, q
  <2>2. (a - 1) * (W + D) = (a - 2) * (W + D) + W + D
    BY <1>1, <1>2
  <2>3. (a - 2) * (W + D) \in Int /\ (A - 1) * (W + D) \in Int
    BY <1>1, <1>2
  <2>4. now + D <= Begun(a) /\ Begun(a) \in Int
    BY <1>1, <1>2, <1>3, <1>4, <2>1, <2>2, <2>3
  <2>5. (A - 1) * (W + D) - (a - 2) * (W + D) = r * (W + D)
    BY <1>1, <1>2
  <2>6. Deadline - now >= r * (W + D)
    <3>1. r * (W + D) \in Int
      BY <1>1, <1>2, <1>6
    <3> HIDE DEF r
    <3> QED BY <1>1, <1>2, <1>3, <1>4, <1>8, <2>1, <2>3, <2>5, <3>1
  <2>7. r * (W + D) >= r * P + r * D
    BY <1>1, <1>2, <1>6
  <2>8. room >= r * D /\ r * D \in Nat
    <3>1. r * D \in Nat /\ r * (W + D) \in Int
      BY <1>1, <1>2, <1>6
    <3>2. room = Deadline - now - r * P
      OBVIOUS
    <3> HIDE DEF r, room
    <3> QED BY <1>2, <1>3, <1>6, <2>6, <2>7, <3>1, <3>2
  <2>9. D <= q
    <3> HIDE DEF r, room
    <3>1. q * r + r > r * D
      BY <1>1, <1>6, <1>7, <2>8
    <3>2. (q + 1) * r = q * r + r /\ r * D = D * r
      BY <1>1, <1>6, <1>7
    <3>3. q + 1 <= D => (q + 1) * r <= D * r
      BY <1>1, <1>6, <1>7, Monotone
    <3>4. (q + 1) * r \in Int /\ D * r \in Int
      BY <1>1, <1>6, <1>7
    <3> QED BY <1>1, <1>6, <1>7, <3>1, <3>2, <3>3, <3>4
  <2>10. \A delay \in 0..D : now + delay <= Begun(a)
    BY <1>1, <1>3, <2>4
  <2> QED BY <1>1, <1>5, <1>7, <2>9, <2>10 DEF D
<1>9. CASE explicitBudget # 0
  <2>1. /\ Begun(a - 1) = Deadline - (A - (a - 1) + 1) * P - (A - (a - 1))
        /\ Begun(a) = Deadline - r * P - (r - 1)
    BY <1>1, <1>9 DEF Begun
  <2>2. ~ Default
    BY <1>9 DEF Default
  <2> HIDE DEF A, P, D, W, q
  <2>3. (A - (a - 1) + 1) * P = r * P + P
    BY <1>1
  <2>4. room >= r
    BY <1>1, <1>2, <1>3, <1>4, <1>6, <1>9, <2>1, <2>3
  <2>5. Begun(a) = now + room - (r - 1)
    BY <1>1, <1>2, <1>3, <1>6, <2>1
  <2> HIDE DEF r, room
  <2>6. q * r <= room /\ room < q * r + r
    BY <1>6, <1>7, <2>4
  <2>7. q >= 1
    <3>1. q <= 0 => q * r <= 0
      BY <1>6, <1>7
    <3>2. q * r \in Int
      BY <1>6, <1>7
    <3> QED BY <1>6, <1>7, <2>4, <2>6, <3>1, <3>2
  <2>8. room - q >= r - 1
    <3>1. (q - 1) * (r - 1) >= 0
      BY <1>6, <2>7, <1>7
    <3>2. (q - 1) * (r - 1) = q * r - q - r + 1
      BY <1>6, <1>7
    <3>3. q * r \in Int
      BY <1>6, <1>7
    <3> QED BY <1>6, <1>7, <2>6, <3>1, <3>2, <3>3
  <2>9. now + q <= Begun(a)
    BY <1>3, <1>6, <1>7, <2>5, <2>8
  <2>10. \A delay \in 0..D : delay <= q => now + delay <= Begun(a)
    BY <1>1, <1>3, <1>6, <1>7, <2>5, <2>9
  <2> QED BY <1>5, <1>7, <2>2, <2>7, <2>9, <2>10 DEF D
<1> QED BY <1>8, <1>9

\* A sequence without its element i.
LEMMA Cut ==
  ASSUME NEW S, NEW q \in Seq(S), NEW i \in DOMAIN q
  PROVE  SubSeq(q, 1, i - 1) \o SubSeq(q, i + 1, Len(q)) \in Seq(S)
<1>1. SubSeq(q, 1, i - 1) \in Seq(S)
  BY SubSeqProperties
<1>2. SubSeq(q, i + 1, Len(q)) \in Seq(S)
  BY SubSeqProperties
<1> QED BY <1>1, <1>2, ConcatProperties

LEMMA DeadlineIs ==
  ASSUME concurrency \in Concurrencies, explicitBudget \in ExplicitBudgets
  PROVE  Deadline \in Int
<1>1. concurrency \in Nat \ {0} /\ explicitBudget \in Nat /\ Cardinality(Loads) \in Nat
  BY BudgetAssumption, FS_CardinalityType
<1>2. Rounds \in Int
  <2>1. Cardinality(Loads) + concurrency - 1 \in Int
    BY <1>1
  <2> QED BY <1>1, <2>1, Division DEF Rounds
<1>3. RunBudget \in Int
  BY <1>2, BudgetAssumption DEF RunBudget
<1> QED BY <1>1, <1>3 DEF Deadline

\* A run keeps its options, and so its deadline and what follows from it.
LEMMA SameSchedule ==
  ASSUME UNCHANGED options
  PROVE  /\ Rounds' = Rounds /\ Round' = Round /\ Deadline' = Deadline
         /\ \A a : Begun(a)' = Begun(a) /\ Ended(a)' = Ended(a)
  BY DEF options, Rounds, Round, RunBudget, Deadline, Begun, Ended

BudgetStages == {"start", "queue", "live", "fetch", "retry", "sleep", "done"}

LEMMA Becomes ==
  ASSUME stage \in [Loads -> BudgetStages], NEW l \in Loads, NEW to \in BudgetStages, Become(l, to)
  PROVE  stage' \in [Loads -> BudgetStages] /\ stage'[l] = to
         /\ \A m \in Loads \ {l} : stage'[m] = stage[m]
  BY DEF Become

LEMMA BudgetTypeInit == BudgetInit => BudgetTypeOK
<1> SUFFICES ASSUME BudgetInit PROVE BudgetTypeOK
  OBVIOUS
<1>1. Deadline \in Int
  BY DeadlineIs DEF BudgetInit
<1>2. now \in 0..Deadline
  BY <1>1, BudgetAssumption DEF BudgetInit
<1>3. attempt \in [Loads -> 1..LoadAttempts] /\ attempts \in [Loads -> 0..LoadAttempts]
  <2>1. 1 \in 1..LoadAttempts /\ 0 \in 0..LoadAttempts
    BY BudgetAssumption
  <2> QED BY <2>1 DEF BudgetInit
<1>4. reopens \in 0..ReopenLimit
  BY BudgetAssumption DEF BudgetInit
<1> QED BY <1>2, <1>3, <1>4 DEF BudgetInit, BudgetTypeOK

LEMMA BudgetTypeNext == BudgetTypeOK /\ [BudgetNext]_budgetVars => BudgetTypeOK'
<1> SUFFICES ASSUME BudgetTypeOK, [BudgetNext]_budgetVars PROVE BudgetTypeOK'
  OBVIOUS
<1>0. /\ Deadline \in Int /\ now \in Nat
      /\ LoadAttempts \in Nat \ {0} /\ RetryDelayCap \in Nat /\ PerRequestTimeout \in Nat \ {0}
      /\ ReopenLimit \in Nat /\ ReopenTime \in Nat
  BY DeadlineIs, BudgetAssumption DEF BudgetTypeOK
<1>1. UNCHANGED options
  BY DEF BudgetNext, Retry, Wake, CheckContext, LeaveQueue, TakeSlot, Send, NoTunnelInTime,
         EndFetch, Tick, budgetVars
<1>2. Deadline' = Deadline
  BY <1>1, SameSchedule
<1>t. /\ stage \in [Loads -> BudgetStages] /\ attempt \in [Loads -> 1..LoadAttempts]
      /\ until \in [Loads -> Nat] /\ attempts \in [Loads -> 0..LoadAttempts]
      /\ queue \in Seq(Loads) /\ reopens \in 0..ReopenLimit /\ reopenUntil \in Nat
      /\ settled \in SUBSET Loads /\ shortened \in SUBSET Loads /\ cut \in SUBSET Loads
  BY DEF BudgetTypeOK, BudgetStages
<1>g. SUFFICES /\ now' \in 0..Deadline
               /\ stage' \in [Loads -> BudgetStages] /\ attempt' \in [Loads -> 1..LoadAttempts]
               /\ until' \in [Loads -> Nat] /\ attempts' \in [Loads -> 0..LoadAttempts]
               /\ queue' \in Seq(Loads) /\ reopens' \in 0..ReopenLimit /\ reopenUntil' \in Nat
               /\ settled' \in SUBSET Loads /\ shortened' \in SUBSET Loads /\ cut' \in SUBSET Loads
  BY <1>1, <1>2 DEF BudgetTypeOK, BudgetStages, options
<1>n. now \in 0..Deadline
  BY DEF BudgetTypeOK
<1>3. ASSUME NEW l \in Loads, Retry(l) PROVE <1>g!1
  <2>1. Share(attempt[l]) \in Int
    <3>1. /\ Deadline - now - (LoadAttempts - attempt[l] + 1) * PerRequestTimeout \in Int
          /\ LoadAttempts - attempt[l] + 1 \in Nat \ {0}
      BY <1>0, <1>t
    <3> QED BY <3>1, QuotientIs DEF Share
  <2>2. stage' \in [Loads -> BudgetStages]
    BY <1>3, <1>t DEF Retry, Become, BudgetStages
  <2>3. until' \in [Loads -> Nat] /\ shortened' \in SUBSET Loads
    <3>1. \A delay \in 0..RetryDelayCap : now + delay \in Nat
      BY <1>0
    <3>2. Share(attempt[l]) > 0 => now + Share(attempt[l]) \in Nat
      BY <1>0, <2>1
    <3> QED BY <1>3, <1>t, <3>1, <3>2 DEF Retry
  <2> QED BY <1>3, <1>t, <1>n, <2>2, <2>3 DEF Retry
<1>4. ASSUME NEW l \in Loads, Wake(l) PROVE <1>g!1
  BY <1>4, <1>t, <1>n DEF Wake, Become, BudgetStages
<1>5. ASSUME NEW l \in Loads, CheckContext(l) PROVE <1>g!1
  <2>1. queue' \in Seq(Loads)
    <3>1. Append(queue, l) \in Seq(Loads)
      BY <1>t, AppendProperties
    <3> QED BY <1>5, <1>t, <3>1 DEF CheckContext
  <2>2. stage' \in [Loads -> BudgetStages]
    BY <1>5, <1>t DEF CheckContext, Become, BudgetStages
  <2> QED BY <1>5, <1>t, <1>n, <2>1, <2>2 DEF CheckContext
<1>6. ASSUME NEW l \in Loads, LeaveQueue(l) PROVE <1>g!1
  <2>1. PICK i \in DOMAIN queue : queue' = SubSeq(queue, 1, i - 1) \o SubSeq(queue, i + 1, Len(queue))
    BY <1>6 DEF LeaveQueue
  <2>2. queue' \in Seq(Loads)
    BY <1>t, <2>1, Cut
  <2>3. stage' \in [Loads -> BudgetStages]
    BY <1>6, <1>t DEF LeaveQueue, Become, BudgetStages
  <2> QED BY <1>6, <1>t, <1>n, <2>2, <2>3 DEF LeaveQueue
<1>7. ASSUME NEW l \in Loads, TakeSlot(l) PROVE <1>g!1
  <2>1. queue' \in Seq(Loads)
    <3>1. queue # <<>> => Tail(queue) \in Seq(Loads)
      BY <1>t, HeadTailProperties
    <3> QED BY <1>7, <1>t, <3>1 DEF TakeSlot
  <2>2. stage' \in [Loads -> BudgetStages]
    BY <1>7, <1>t DEF TakeSlot, Become, BudgetStages
  <2>3. /\ until' \in [Loads -> Nat]
        /\ reopens' \in 0..ReopenLimit /\ reopenUntil' \in Nat
    <3>1. \A d \in 1..ReopenTime : now + d \in Nat
      BY <1>0
    <3>2. reopens < ReopenLimit => reopens + 1 \in 0..ReopenLimit
      BY <1>0, <1>t
    <3> QED BY <1>0, <1>7, <1>t, <3>1, <3>2 DEF TakeSlot
  <2> QED BY <1>7, <1>t, <1>n, <2>1, <2>2, <2>3 DEF TakeSlot
<1>8. ASSUME NEW l \in Loads, Send(l) PROVE <1>g!1
  <2>1. until' \in [Loads -> Nat]
    <3>1. \A d \in 0..PerRequestTimeout : now + d \in Nat
      BY <1>0
    <3> QED BY <1>8, <1>t, <3>1 DEF Send
  <2>2. stage' \in [Loads -> BudgetStages]
    BY <1>8, <1>t DEF Send, Become, BudgetStages
  <2> QED BY <1>8, <1>t, <1>n, <2>1, <2>2 DEF Send
<1>9. ASSUME NEW l \in Loads, NoTunnelInTime(l) PROVE <1>g!1
  BY <1>9, <1>t, <1>n DEF NoTunnelInTime, Become, BudgetStages
<1>10. ASSUME NEW l \in Loads, EndFetch(l) PROVE <1>g!1
  <2>1. attempts' \in [Loads -> 0..LoadAttempts]
    <3>1. attempt[l] \in 0..LoadAttempts
      BY <1>0, <1>t
    <3> QED BY <1>10, <1>t, <3>1 DEF EndFetch
  <2>2. attempt' \in [Loads -> 1..LoadAttempts]
    <3>1. ~ LastAttempt(l) => attempt[l] + 1 \in 1..LoadAttempts
      BY <1>0, <1>t DEF LastAttempt
    <3> QED BY <1>10, <1>t, <3>1 DEF EndFetch
  <2>3. stage' \in [Loads -> BudgetStages]
    BY <1>10, <1>t DEF EndFetch, Become, BudgetStages
  <2> QED BY <1>10, <1>t, <1>n, <2>1, <2>2, <2>3 DEF EndFetch
<1>11. ASSUME Tick PROVE <1>g!1
  <2>1. PICK l \in Loads : stage[l] # "done"
    BY <1>11 DEF Tick
  <2>2. ~ Over
    BY <1>11, <1>t, <2>1 DEF Tick, Ready, BudgetStages
  <2>3. now' \in 0..Deadline
    BY <1>0, <1>11, <2>2 DEF Tick, Over
  <2> QED BY <1>11, <1>t, <2>3 DEF Tick
<1>12. CASE UNCHANGED budgetVars
  BY <1>12, <1>t, <1>n DEF budgetVars
<1> QED BY <1>3, <1>4, <1>5, <1>6, <1>7, <1>8, <1>9, <1>10, <1>11, <1>12 DEF BudgetNext

LEMMA BudgetKinds ==
  ASSUME BudgetTypeOK
  PROVE  /\ LoadAttempts \in Nat \ {0} /\ PerRequestTimeout \in Nat \ {0} /\ now \in Nat
         /\ concurrency \in Nat \ {0} /\ RetryDelayCap \in Nat /\ Deadline \in Int
         /\ stage \in [Loads -> BudgetStages] /\ attempt \in [Loads -> 1..LoadAttempts]
         /\ until \in [Loads -> Nat] /\ attempts \in [Loads -> 0..LoadAttempts]
         /\ queue \in Seq(Loads) /\ Cardinality(Loads) \in Nat
  BY DeadlineIs, BudgetAssumption, FS_CardinalityType DEF BudgetTypeOK, BudgetStages

\* What it takes for the step of one load to keep the others to the schedule.
LEMMA OneLoadMoves ==
  ASSUME BudgetTypeOK, BudgetTypeOK', Enough, Schedule, NEW x \in Loads,
         UNCHANGED <<options, now>>,
         \A m \in Loads \ {x} : /\ stage'[m] = stage[m] /\ attempt'[m] = attempt[m]
                                /\ until'[m] = until[m] /\ attempts'[m] = attempts[m],
         settled \subseteq settled', cut' = {}, Default' => shortened' = {},
         Line(queue', stage'),
         \A a \in 1..LoadAttempts : InTime(x, a)',
         stage'[x] = "queue" => \A a \in 1..LoadAttempts : attempt'[x] = a => now <= Begun(a),
         \A m \in Loads \ {x} : stage[m] = "queue" =>
           \A t \in Int : Front(queue', m) \cup Busy(stage', until', t)
                            \subseteq Front(queue, m) \cup Busy(stage, until, t)
  PROVE  Schedule'
<1>0. /\ LoadAttempts \in Nat \ {0} /\ PerRequestTimeout \in Nat \ {0} /\ now \in Nat
      /\ concurrency \in Nat \ {0}
  BY BudgetKinds
<1>1. \A a : Begun(a)' = Begun(a) /\ Ended(a)' = Ended(a)
  BY SameSchedule
<1>2. ASSUME NEW m \in Loads, NEW a \in 1..LoadAttempts
      PROVE  InTime(m, a)'
  <2>1. CASE m = x
    BY <2>1
  <2>2. CASE m # x
    <3>1. InTime(m, a)
      BY DEF Schedule
    <3>2. m \in settled => m \in settled'
      OBVIOUS
    <3> QED BY <1>1, <2>2, <3>1, <3>2 DEF InTime
  <2> QED BY <2>1, <2>2
<1>3. ASSUME NEW m \in Loads, NEW a \in 1..LoadAttempts, NEW k \in Nat \ {0}
      PROVE  Waits(m, a, k)'
  <2>1. Begun(a) \in Int
    BY BegunIs
  <2> DEFINE t    == Begun(a) + k * PerRequestTimeout
             then == Front(queue, m) \cup Busy(stage, until, t)
             next == Front(queue', m) \cup Busy(stage', until', t)
             kP   == k * PerRequestTimeout
             before == (k - 1) * PerRequestTimeout
  <2>2. /\ t \in Int /\ before \in Int /\ before >= 0
    BY <1>0, <2>1, Products
  <2>3. CASE m = x
    <3>1. stage'[m] = "queue" /\ attempt'[m] = a => ~ (now > Begun(a) + before)
      <4>1. stage'[m] = "queue" /\ attempt'[m] = a => now <= Begun(a)
        BY <2>3
      <4> HIDE DEF before, t
      <4> QED BY <1>0, <2>1, <2>2, <4>1
    <3> QED BY <1>1, <3>1 DEF Waits
  <2>4. CASE m # x
    <3>1. SUFFICES ASSUME stage[m] = "queue", attempt[m] = a, now > Begun(a) + before
                   PROVE  Cardinality(next) + k * concurrency < Cardinality(Loads)
      BY <1>1, <2>4 DEF Waits, options
    <3>2. Cardinality(then) + k * concurrency < Cardinality(Loads)
      BY <3>1 DEF Waits, Schedule
    <3>3. next \subseteq then
      BY <2>2, <2>4, <3>1
    <3>4. then \subseteq Loads
      BY DEF Front, Busy
    <3> HIDE DEF then, next
    <3>5. IsFiniteSet(then)
      BY <3>4, BudgetAssumption, FS_Subset
    <3>6. Cardinality(next) <= Cardinality(then)
      BY <3>3, <3>5, FS_Subset
    <3>7. Cardinality(next) \in Nat /\ Cardinality(then) \in Nat
      BY <3>3, <3>5, FS_Subset, FS_CardinalityType
    <3>8. k * concurrency \in Int /\ Cardinality(Loads) \in Nat
      BY <1>0, BudgetAssumption, FS_CardinalityType
    <3> QED BY <3>2, <3>6, <3>7, <3>8
  <2> QED BY <2>3, <2>4
<1>4. Line(queue, stage)'
  OBVIOUS
<1> QED BY <1>2, <1>3, <1>4 DEF Schedule

\* While the budget is enough, no load waits past it.
LEMMA NobodyIsLate ==
  ASSUME BudgetTypeOK, Enough, Schedule, NEW l \in Loads, NEW a \in 1..LoadAttempts,
         attempt[l] = a
  PROVE  /\ stage[l] = "queue" => now <= Ended(a) - PerRequestTimeout
         /\ stage[l] \in {"start", "queue", "live"} => ~ Over
         /\ stage[l] = "sleep" => ~ Over
         /\ stage[l] = "fetch" => until[l] <= Deadline
<1>0. /\ LoadAttempts \in Nat \ {0} /\ PerRequestTimeout \in Nat \ {0} /\ now \in Nat
      /\ concurrency \in Nat \ {0} /\ Deadline \in Int /\ Cardinality(Loads) \in Nat
      /\ until[l] \in Nat /\ Round \in Nat /\ PerRequestTimeout <= Round
  BY BudgetKinds, BudgetIs
<1>1. Begun(a) \in Int /\ Ended(a) \in Int /\ Ended(a) <= Deadline /\ Ended(a) = Begun(a) + Round
  BY BegunIs DEF Ended
<1>2. InTime(l, a)
  BY DEF Schedule
<1>3. stage[l] = "queue" => now <= Ended(a) - PerRequestTimeout
  <2>1. Rounds \in Nat \ {0} /\ Cardinality(Loads) <= Rounds * concurrency
    BY RoundsAre
  <2> DEFINE t == Begun(a) + Rounds * PerRequestTimeout
             s == Front(queue, l) \cup Busy(stage, until, t)
  <2>2. Waits(l, a, Rounds)
    BY <2>1 DEF Schedule
  <2>3. (Rounds - 1) * PerRequestTimeout = Round - PerRequestTimeout
    BY <1>0, <2>1 DEF Round
  <2>4. stage[l] = "queue" /\ now > Begun(a) + (Rounds - 1) * PerRequestTimeout =>
          Cardinality(s) + Rounds * concurrency < Cardinality(Loads)
    BY <2>2 DEF Waits
  <2>5. Cardinality(s) \in Nat
    <3>1. s \subseteq Loads
      BY DEF Front, Busy
    <3> QED BY <3>1, BudgetAssumption, FS_Subset, FS_CardinalityType
  <2>6. Rounds * concurrency \in Int
    BY <1>0, <2>1
  <2> HIDE DEF s
  <2> QED BY <1>0, <1>1, <2>1, <2>3, <2>4, <2>5, <2>6
<1> QED BY <1>0, <1>1, <1>2, <1>3 DEF InTime, Over

LEMMA RetryKeeps ==
  ASSUME BudgetTypeOK, BudgetTypeOK', Enough, Schedule, NEW x \in Loads, Retry(x)
  PROVE  Schedule'
<1> DEFINE a == attempt[x]
<1>1. a \in 1..LoadAttempts /\ stage[x] = "retry" /\ now \in Nat
  BY BudgetKinds DEF Retry
<1>2. InTime(x, a)
  BY <1>1 DEF Schedule
<1>3. a \in 2..LoadAttempts /\ now <= Ended(a - 1)
  BY <1>1, <1>2, BudgetKinds DEF InTime
<1>4. /\ Share(a) \in Int
      /\ \A delay \in 0..RetryDelayCap : delay <= Share(a) => now + delay <= Begun(a)
      /\ RetryDelayCap <= Share(a) \/ (Share(a) > 0 /\ now + Share(a) <= Begun(a))
      /\ Default => RetryDelayCap <= Share(a)
  BY <1>3, ShareIs
<1>5. /\ UNCHANGED <<options, now, attempt, attempts, settled, queue, cut, reopens>>
  BY DEF Retry
<1>6. PICK delay \in 0..RetryDelayCap :
        \/ /\ delay <= Share(a)
           /\ Become(x, "sleep")
           /\ until' = [until EXCEPT ![x] = now + delay]
           /\ UNCHANGED shortened
        \/ /\ Share(a) < delay /\ Share(a) > 0
           /\ Become(x, "sleep")
           /\ until' = [until EXCEPT ![x] = now + Share(a)]
           /\ shortened' = shortened \cup {x}
        \/ /\ Share(a) < delay /\ Share(a) <= 0
           /\ Become(x, "done")
           /\ shortened' = shortened \cup {x}
           /\ UNCHANGED until
  BY DEF Retry
<1>7. Become(x, "sleep") /\ \E w \in Nat : /\ until' = [until EXCEPT ![x] = now + w]
                                          /\ now + w <= Begun(a)
  <2>1. delay \in Nat /\ delay <= RetryDelayCap
    BY BudgetKinds
  <2>2. Share(a) > 0 => Share(a) \in Nat
    BY <1>4
  <2> HIDE DEF a
  <2> QED BY <1>4, <1>6, <2>1, <2>2, BudgetKinds
<1>8. Default' => shortened' = {}
  <2>1. Default' => Default
    BY <1>5 DEF Default, options
  <2>2. Default => shortened = {}
    BY DEF Schedule
  <2>3. Default => delay <= Share(a)
    <3>1. delay \in Nat /\ delay <= RetryDelayCap
      BY BudgetKinds
    <3> HIDE DEF a
    <3> QED BY <1>4, <3>1, BudgetKinds
  <2> HIDE DEF a
  <2> QED BY <1>4, <1>6, <2>1, <2>2, <2>3, BudgetKinds
<1>9. PICK w \in Nat : until' = [until EXCEPT ![x] = now + w] /\ now + w <= Begun(a)
  BY <1>7
<1>10. /\ stage'[x] = "sleep" /\ until'[x] = now + w
       /\ \A m \in Loads \ {x} : stage'[m] = stage[m] /\ until'[m] = until[m]
  BY <1>7, <1>9, BudgetKinds DEF Become
<1>11. \A b \in 1..LoadAttempts : InTime(x, b)'
  <2>1. \A b : Begun(b)' = Begun(b)
    BY <1>5, SameSchedule
  <2>2. now <= now + w
    BY <1>1
  <2> QED BY <1>3, <1>5, <1>9, <1>10, <2>1, <2>2 DEF InTime
<1>12. Line(queue', stage')
  <2>1. \A i \in DOMAIN queue : queue[i] \in Loads
    BY BudgetKinds
  <2>2. Line(queue, stage)
    BY DEF Schedule
  <2> QED BY <1>1, <1>5, <1>10, <2>1, <2>2 DEF Line
<1>13. \A m \in Loads \ {x} : \A t \in Int :
         Front(queue', m) \cup Busy(stage', until', t) \subseteq Front(queue, m) \cup Busy(stage, until, t)
  BY <1>1, <1>5, <1>10 DEF Front, Busy
<1>14. cut' = {}
  BY <1>5 DEF Schedule
<1> QED BY <1>5, <1>8, <1>10, <1>11, <1>12, <1>13, <1>14, OneLoadMoves

LEMMA WakeKeeps ==
  ASSUME BudgetTypeOK, BudgetTypeOK', Enough, Schedule, NEW x \in Loads, Wake(x)
  PROVE  Schedule'
<1> DEFINE a == attempt[x]
<1>1. a \in 1..LoadAttempts /\ stage[x] = "sleep" /\ now \in Nat /\ until[x] \in Nat
  BY BudgetKinds DEF Wake
<1>2. InTime(x, a)
  BY <1>1 DEF Schedule
<1>3. now <= until[x] /\ until[x] <= Begun(a) /\ ~ Over
  BY <1>1, <1>2, NobodyIsLate DEF InTime
<1>4. UNCHANGED <<options, now, attempt, until, attempts, settled, queue, cut, reopens, shortened>>
  BY DEF Wake
<1>5. /\ stage'[x] = "start"
      /\ \A m \in Loads \ {x} : stage'[m] = stage[m]
  BY <1>3, BudgetKinds DEF Wake, Become
<1>6. \A b \in 1..LoadAttempts : InTime(x, b)'
  <2>1. \A b : Begun(b)' = Begun(b)
    BY <1>4, SameSchedule
  <2>2. now <= Begun(a)
    BY <1>1, <1>3, BegunIs
  <2> QED BY <1>4, <1>5, <2>1, <2>2 DEF InTime
<1>7. Line(queue', stage')
  <2>1. \A i \in DOMAIN queue : queue[i] \in Loads
    BY BudgetKinds
  <2>2. Line(queue, stage)
    BY DEF Schedule
  <2> QED BY <1>1, <1>4, <1>5, <2>1, <2>2 DEF Line
<1>8. \A m \in Loads \ {x} : \A t \in Int :
        Front(queue', m) \cup Busy(stage', until', t) \subseteq Front(queue, m) \cup Busy(stage, until, t)
  BY <1>1, <1>4, <1>5 DEF Front, Busy
<1>9. cut' = {} /\ (Default' => shortened' = {})
  BY <1>4 DEF Schedule, Default, options
<1> QED BY <1>4, <1>5, <1>6, <1>7, <1>8, <1>9, OneLoadMoves

LEMMA CheckContextKeeps ==
  ASSUME BudgetTypeOK, BudgetTypeOK', Enough, Schedule, NEW x \in Loads, CheckContext(x)
  PROVE  Schedule'
<1> DEFINE a == attempt[x]
<1>1. a \in 1..LoadAttempts /\ stage[x] = "start" /\ now \in Nat
  BY BudgetKinds DEF CheckContext
<1>2. InTime(x, a)
  BY <1>1 DEF Schedule
<1>3. now <= Begun(a) /\ ~ Over
  BY <1>1, <1>2, NobodyIsLate DEF InTime
<1>4. UNCHANGED <<options, now, attempt, until, attempts, settled, cut, reopens, shortened>>
  BY DEF CheckContext
<1>5. /\ stage'[x] = "queue"
      /\ \A m \in Loads \ {x} : stage'[m] = stage[m]
      /\ queue' = Append(queue, x)
  BY <1>3, BudgetKinds DEF CheckContext, Become
<1>6. \A b \in 1..LoadAttempts : InTime(x, b)'
  BY <1>4, <1>5 DEF InTime
<1>7. /\ Len(queue) \in Nat /\ Len(queue') = Len(queue) + 1
      /\ DOMAIN queue = 1..Len(queue) /\ DOMAIN queue' = 1..(Len(queue) + 1)
      /\ \A i \in 1..Len(queue) : queue'[i] = queue[i] /\ queue[i] \in Loads
      /\ queue'[Len(queue) + 1] = x
  <2>1. queue \in Seq(Loads) /\ queue' \in Seq(Loads)
    BY BudgetKinds, BudgetKinds DEF BudgetTypeOK
  <2> QED BY <1>5, <2>1, AppendProperties
<1>8. Line(queue, stage)
  BY DEF Schedule
<1>9. \A i \in 1..Len(queue) : queue[i] # x
  BY <1>1, <1>7, <1>8 DEF Line
<1>10. Line(queue', stage')
  <2>1. \A i \in DOMAIN queue' : stage'[queue'[i]] = "queue"
    BY <1>5, <1>7, <1>8, <1>9 DEF Line
  <2>2. \A i, j \in DOMAIN queue' : queue'[i] = queue'[j] => i = j
    BY <1>7, <1>8, <1>9 DEF Line
  <2>3. \A l \in Loads : stage'[l] = "queue" => \E i \in DOMAIN queue' : queue'[i] = l
    <3>1. 1..Len(queue) \subseteq 1..(Len(queue) + 1) /\ Len(queue) + 1 \in 1..(Len(queue) + 1)
      BY <1>7
    <3> QED BY <1>5, <1>7, <1>8, <3>1 DEF Line
  <2> QED BY <2>1, <2>2, <2>3 DEF Line
<1>11. ASSUME NEW m \in Loads \ {x}, stage[m] = "queue", NEW t \in Int
       PROVE  Front(queue', m) \cup Busy(stage', until', t) \subseteq Front(queue, m) \cup Busy(stage, until, t)
  <2>1. ASSUME NEW n \in Front(queue', m)
        PROVE  n \in Front(queue, m)
    <3>1. PICK i, j \in DOMAIN queue' : i < j /\ queue'[i] = n /\ queue'[j] = m
      BY <2>1 DEF Front
    <3>2. j # Len(queue) + 1
      BY <1>7, <3>1
    <3>3. i \in DOMAIN queue /\ j \in DOMAIN queue /\ queue[i] = n /\ queue[j] = m
      BY <1>7, <3>1, <3>2
    <3> QED BY <2>1, <3>1, <3>3 DEF Front
  <2>2. Busy(stage', until', t) \subseteq Busy(stage, until, t)
    BY <1>1, <1>4, <1>5 DEF Busy
  <2> QED BY <2>1, <2>2
<1>12. cut' = {} /\ (Default' => shortened' = {})
  BY <1>4 DEF Schedule, Default, options
<1>13. \A b \in 1..LoadAttempts : attempt'[x] = b => now <= Begun(b)
  BY <1>3, <1>4
<1> QED BY <1>4, <1>5, <1>6, <1>10, <1>11, <1>12, <1>13, OneLoadMoves

LEMMA TakeSlotKeeps ==
  ASSUME BudgetTypeOK, BudgetTypeOK', Enough, Enough', reopens = 0 => reopenUntil = 0,
         Schedule, NEW x \in Loads, TakeSlot(x)
  PROVE  Schedule'
<1> DEFINE a == attempt[x]
<1>1. a \in 1..LoadAttempts /\ stage[x] = "queue" /\ now \in Nat /\ until \in [Loads -> Nat]
  BY BudgetKinds DEF TakeSlot
<1>2. now <= Ended(a) - PerRequestTimeout
  BY <1>1, NobodyIsLate
<1>3. reopens = 0 /\ reopens' = 0 /\ reopenUntil = 0
  BY DEF Enough, Default, NoQueue, TakeSlot
<1>4. UNCHANGED <<options, now, attempt, attempts, settled, cut, shortened>>
  BY DEF TakeSlot
<1>5. /\ stage'[x] = "live"
      /\ \A m \in Loads \ {x} : stage'[m] = stage[m]
      /\ queue # <<>> /\ Head(queue) = x /\ queue' = Tail(queue)
  BY BudgetKinds DEF TakeSlot, Become
<1>6. until' = [until EXCEPT ![x] = now]
  BY <1>1, <1>3 DEF TakeSlot
<1>7. \A b \in 1..LoadAttempts : InTime(x, b)'
  <2>1. \A b : Ended(b)' = Ended(b)
    BY <1>4, SameSchedule
  <2> QED BY <1>1, <1>2, <1>4, <1>5, <1>6, <2>1 DEF InTime
<1>8. /\ Len(queue) \in Nat \ {0} /\ DOMAIN queue = 1..Len(queue)
      /\ DOMAIN queue' = 1..(Len(queue) - 1)
      /\ queue[1] = x
      /\ \A i \in 1..(Len(queue) - 1) : queue'[i] = queue[i + 1]
      /\ \A i \in 1..Len(queue) : queue[i] \in Loads
  <2>1. queue \in Seq(Loads)
    BY BudgetKinds
  <2> QED BY <1>5, <2>1, HeadTailProperties, EmptySeq
<1>9. Line(queue, stage)
  BY DEF Schedule
<1>10. \A i \in 1..Len(queue) : queue[i] = x => i = 1
  BY <1>8, <1>9 DEF Line
<1>11. Line(queue', stage')
  <2>1. \A i \in DOMAIN queue' : stage'[queue'[i]] = "queue"
    BY <1>5, <1>8, <1>9, <1>10 DEF Line
  <2>2. \A i, j \in DOMAIN queue' : queue'[i] = queue'[j] => i = j
    BY <1>8, <1>9 DEF Line
  <2>3. ASSUME NEW l \in Loads, stage'[l] = "queue"
        PROVE  \E i \in DOMAIN queue' : queue'[i] = l
    <3>1. l # x /\ stage[l] = "queue"
      BY <1>5, <2>3
    <3>2. PICK i \in DOMAIN queue : queue[i] = l
      BY <1>9, <3>1 DEF Line
    <3>3. i # 1
      BY <1>8, <3>1, <3>2
    <3>4. i - 1 \in DOMAIN queue' /\ (i - 1) + 1 = i
      BY <1>8, <3>2, <3>3
    <3> QED BY <1>8, <3>2, <3>4
  <2> QED BY <2>1, <2>2, <2>3 DEF Line
<1>12. ASSUME NEW m \in Loads \ {x}, stage[m] = "queue", NEW t \in Int
       PROVE  Front(queue', m) \cup Busy(stage', until', t) \subseteq Front(queue, m) \cup Busy(stage, until, t)
  <2>1. x \in Front(queue, m)
    <3>1. PICK j \in DOMAIN queue : queue[j] = m
      BY <1>9, <1>12 DEF Line
    <3>2. 1 \in DOMAIN queue /\ 1 < j
      BY <1>8, <3>1
    <3> QED BY <1>8, <3>1, <3>2 DEF Front
  <2>2. ASSUME NEW n \in Front(queue', m)
        PROVE  n \in Front(queue, m)
    <3>1. PICK i, j \in DOMAIN queue' : i < j /\ queue'[i] = n /\ queue'[j] = m
      BY <2>2 DEF Front
    <3>2. i + 1 \in DOMAIN queue /\ j + 1 \in DOMAIN queue /\ i + 1 < j + 1
      BY <1>8, <3>1
    <3>3. queue[i + 1] = n /\ queue[j + 1] = m
      BY <1>8, <3>1
    <3>4. n \in Loads
      BY <2>2 DEF Front
    <3> QED BY <3>2, <3>3, <3>4 DEF Front
  <2>3. Busy(stage', until', t) \subseteq Busy(stage, until, t) \cup {x}
    BY <1>1, <1>5, <1>6 DEF Busy
  <2> QED BY <2>1, <2>2, <2>3
<1>13. cut' = {} /\ (Default' => shortened' = {})
  BY <1>3, <1>4 DEF Schedule, Default, options
<1>14. \A m \in Loads \ {x} : until'[m] = until[m]
  BY <1>1, <1>6
<1> QED BY <1>4, <1>5, <1>7, <1>11, <1>12, <1>13, <1>14, OneLoadMoves

LEMMA SendKeeps ==
  ASSUME BudgetTypeOK, BudgetTypeOK', Enough, Schedule, NEW x \in Loads, Send(x)
  PROVE  Schedule'
<1> DEFINE a == attempt[x]
<1>1. /\ a \in 1..LoadAttempts /\ stage[x] = "live" /\ now \in Nat /\ until \in [Loads -> Nat]
      /\ PerRequestTimeout \in Nat
  BY BudgetKinds DEF Send
<1>2. InTime(x, a)
  BY <1>1 DEF Schedule
<1>3. now <= Ended(a) - PerRequestTimeout
  BY <1>1, <1>2 DEF InTime
<1>4. UNCHANGED <<options, now, attempt, attempts, settled, queue, cut, reopens, shortened>>
  BY DEF Send
<1>5. /\ stage'[x] = "fetch"
      /\ \A m \in Loads \ {x} : stage'[m] = stage[m]
  BY BudgetKinds DEF Send, Become
<1>6. PICK d \in 0..PerRequestTimeout : until' = [until EXCEPT ![x] = now + d]
  BY DEF Send
<1>7. /\ until'[x] = now + d /\ \A m \in Loads \ {x} : until'[m] = until[m]
      /\ d \in Nat /\ d <= PerRequestTimeout
  BY <1>1, <1>6
<1>8. \A b \in 1..LoadAttempts : InTime(x, b)'
  <2>1. \A b : Ended(b)' = Ended(b)
    BY <1>4, SameSchedule
  <2>2. now <= now + d /\ now + d <= now + PerRequestTimeout /\ now + d <= Ended(a)
    <3>1. Ended(a) \in Int
      BY <1>1, BegunIs
    <3> HIDE DEF a
    <3> QED BY <1>1, <1>3, <1>7, <3>1
  <2> QED BY <1>4, <1>5, <1>7, <2>1, <2>2 DEF InTime
<1>9. Line(queue', stage')
  <2>1. \A i \in DOMAIN queue : queue[i] \in Loads
    BY BudgetKinds
  <2>2. Line(queue, stage)
    BY DEF Schedule
  <2> QED BY <1>1, <1>4, <1>5, <2>1, <2>2 DEF Line
<1>10. \A m \in Loads \ {x} : \A t \in Int :
        Front(queue', m) \cup Busy(stage', until', t) \subseteq Front(queue, m) \cup Busy(stage, until, t)
  BY <1>1, <1>4, <1>5, <1>7 DEF Front, Busy
<1>11. cut' = {} /\ (Default' => shortened' = {})
  BY <1>4 DEF Schedule, Default, options
<1> QED BY <1>4, <1>5, <1>7, <1>8, <1>9, <1>10, <1>11, OneLoadMoves

LEMMA EndFetchKeeps ==
  ASSUME BudgetTypeOK, BudgetTypeOK', Enough, Schedule, NEW x \in Loads, EndFetch(x)
  PROVE  Schedule'
<1> DEFINE a == attempt[x]
<1>1. /\ a \in 1..LoadAttempts /\ stage[x] = "fetch" /\ now \in Nat /\ until[x] \in Nat
      /\ Deadline \in Int /\ LoadAttempts \in Nat
      /\ attempt \in [Loads -> 1..LoadAttempts] /\ attempts \in [Loads -> 0..LoadAttempts]
  BY BudgetKinds DEF EndFetch
<1>2. InTime(x, a)
  BY <1>1 DEF Schedule
<1>3. now <= until[x] /\ until[x] <= Ended(a) /\ until[x] <= Deadline
  BY <1>1, <1>2, NobodyIsLate DEF InTime
<1>4. UNCHANGED <<options, now, until, queue, reopens, shortened>>
  BY DEF EndFetch
<1>5. cut' = {}
  <2>1. until[x] <= now \/ now >= Deadline
    BY DEF EndFetch, Over
  <2>2. ~ (until[x] > now)
    BY <1>1, <1>3, <2>1
  <2> QED BY <2>2 DEF EndFetch, Schedule
<1>6. /\ attempts'[x] = a /\ settled \subseteq settled'
      /\ \A m \in Loads \ {x} : /\ stage'[m] = stage[m] /\ attempt'[m] = attempt[m]
                                /\ attempts'[m] = attempts[m]
      /\ \/ stage'[x] = "done" /\ x \in settled' /\ attempt'[x] = a
         \/ stage'[x] = "done" /\ a = LoadAttempts /\ attempt'[x] = a
         \/ stage'[x] = "retry" /\ a # LoadAttempts /\ attempt'[x] = a + 1
  <2>1. attempts'[x] = a /\ \A m \in Loads \ {x} : attempts'[m] = attempts[m]
    BY <1>1 DEF EndFetch
  <2>2. stage \in [Loads -> BudgetStages]
    BY BudgetKinds
  <2>3. /\ settled \subseteq settled'
        /\ \A m \in Loads \ {x} : stage'[m] = stage[m] /\ attempt'[m] = attempt[m]
        /\ \/ stage'[x] = "done" /\ x \in settled' /\ attempt'[x] = a
           \/ stage'[x] = "done" /\ a = LoadAttempts /\ attempt'[x] = a
           \/ stage'[x] = "retry" /\ a # LoadAttempts /\ attempt'[x] = a + 1
    BY <1>1, <2>2 DEF EndFetch, LastAttempt, Become
  <2> QED BY <2>1, <2>3
<1>7. \A b \in 1..LoadAttempts : InTime(x, b)'
  <2>1. \A b : Ended(b)' = Ended(b)
    BY <1>4, SameSchedule
  <2>2. now <= Ended(a)
    BY <1>1, <1>3, BegunIs
  <2>3. (a + 1) - 1 = a /\ a + 1 > 1
    BY <1>1
  <2> QED BY <1>4, <1>6, <2>1, <2>2, <2>3 DEF InTime
<1>8. Line(queue', stage')
  <2>1. \A i \in DOMAIN queue : queue[i] \in Loads
    BY BudgetKinds
  <2>2. Line(queue, stage)
    BY DEF Schedule
  <2> QED BY <1>1, <1>4, <1>6, <2>1, <2>2 DEF Line
<1>9. \A m \in Loads \ {x} : \A t \in Int :
        Front(queue', m) \cup Busy(stage', until', t) \subseteq Front(queue, m) \cup Busy(stage, until, t)
  BY <1>4, <1>6 DEF Front, Busy
<1>10. Default' => shortened' = {}
  BY <1>4 DEF Schedule, Default, options
<1> QED BY <1>4, <1>5, <1>6, <1>7, <1>8, <1>9, <1>10, OneLoadMoves

\* Time passes only while every slot is held by a request still on its way.
LEMMA TickKeeps ==
  ASSUME BudgetTypeOK, BudgetTypeOK', Enough, Schedule, Tick
  PROVE  Schedule'
<1>0. /\ LoadAttempts \in Nat \ {0} /\ PerRequestTimeout \in Nat \ {0} /\ now \in Nat
      /\ concurrency \in Nat \ {0} /\ Cardinality(Loads) \in Nat
      /\ attempt \in [Loads -> 1..LoadAttempts] /\ until \in [Loads -> Nat]
  BY BudgetKinds
<1>1. /\ UNCHANGED <<options, stage, attempt, until, attempts, settled, queue, shortened, cut, reopens>>
      /\ now' = now + 1
  BY DEF Tick
<1>2. \A b : Begun(b)' = Begun(b) /\ Ended(b)' = Ended(b)
  BY <1>1, SameSchedule
<1>3. \A l \in Loads : /\ stage[l] \notin {"start", "retry", "live"}
                       /\ stage[l] \in {"sleep", "fetch"} => until[l] > now
  <2>1. ASSUME NEW l \in Loads
        PROVE  /\ stage[l] \notin {"start", "retry"}
               /\ stage[l] \in {"sleep", "live", "fetch"} => until[l] > now
    <3>1. ~ Ready(l)
      BY DEF Tick
    <3> QED BY <1>0, <3>1 DEF Ready
  <2>2. ASSUME NEW l \in Loads, stage[l] = "live" PROVE FALSE
    <3>1. InTime(l, attempt[l])
      BY <1>0 DEF Schedule
    <3> QED BY <1>0, <2>1, <2>2, <3>1 DEF InTime
  <2> QED BY <2>1, <2>2
<1>4. ASSUME NEW l \in Loads, NEW a \in 1..LoadAttempts
      PROVE  InTime(l, a)'
  <2>1. InTime(l, a)
    BY DEF Schedule
  <2>2. until[l] > now => now + 1 <= until[l]
    BY <1>0
  <2>3. until[l] <= now + PerRequestTimeout => until[l] <= (now + 1) + PerRequestTimeout
    BY <1>0
  <2> QED BY <1>1, <1>2, <1>3, <2>1, <2>2, <2>3 DEF InTime
<1>5. ASSUME NEW l \in Loads, NEW a \in 1..LoadAttempts, NEW k \in Nat \ {0}
      PROVE  Waits(l, a, k)'
  <2> DEFINE P    == PerRequestTimeout
             b    == Begun(a)
             t    == b + k * P
             prev == b + (k - 1) * P
             line == Front(queue, l)
             held == {m \in Loads : Holding(m)}
             n    == Cardinality(Loads)
  <2>1. SUFFICES ASSUME stage[l] = "queue", attempt[l] = a, now + 1 > prev
                 PROVE  Cardinality(line \cup Busy(stage, until, t)) + k * concurrency < n
    BY <1>1, <1>2 DEF Waits, options
  <2>2. /\ b \in Int /\ t \in Int /\ prev \in Int /\ t = prev + P /\ P \in Nat \ {0}
        /\ k * concurrency \in Int /\ k * concurrency = (k - 1) * concurrency + concurrency
    BY <1>0, BegunIs
  <2>3. CASE now > prev
    <3>1. Waits(l, a, k)
      BY DEF Schedule
    <3> QED BY <2>1, <2>3, <3>1 DEF Waits
  <2>4. CASE ~ (now > prev)
    <3>1. now = prev
      <4> HIDE DEF prev, b
      <4> QED BY <1>0, <2>1, <2>2, <2>4
    <3>2. IsFiniteSet(line) /\ IsFiniteSet(held) /\ line \subseteq Loads /\ held \subseteq Loads
      <4>1. line \subseteq Loads /\ held \subseteq Loads
        BY DEF Front
      <4> HIDE DEF line, held
      <4> QED BY <4>1, BudgetAssumption, FS_Subset
    <3>3. Cardinality(line) \in Nat /\ Cardinality(held) \in Nat
      BY <3>2, FS_CardinalityType
    <3>4. Cardinality(held) >= concurrency
      <4>1. queue # <<>>
        <5>1. \E i \in DOMAIN queue : queue[i] = l
          BY <2>1 DEF Schedule, Line
        <5> QED BY <5>1
      <4>2. ~ SlotFree
        BY <4>1 DEF Tick
      <4> HIDE DEF n
      <4> QED BY <1>0, <3>3, <4>2 DEF SlotFree
    <3>5. Busy(stage, until, t) = {}
      <4>1. ASSUME NEW m \in Loads, stage[m] = "fetch" PROVE until[m] <= t
        <5>1. InTime(m, attempt[m])
          BY <1>0 DEF Schedule
        <5>2. until[m] <= now + P
          BY <4>1, <5>1, <1>0 DEF InTime
        <5> HIDE DEF t, prev
        <5> QED BY <1>0, <2>2, <3>1, <5>2
      <4>2. \A m \in Loads : until[m] <= t => ~ (until[m] > t)
        <5> HIDE DEF t
        <5> QED BY <1>0, <2>2
      <4> QED BY <1>3, <4>1, <4>2 DEF Busy
    <3>6. held \cap line = {} /\ l \notin line /\ l \notin held
      <4>1. \A m \in line : stage[m] = "queue"
        BY DEF Front, Schedule, Line
      <4>2. l \notin line
        <5>1. SUFFICES ASSUME l \in line PROVE FALSE
          OBVIOUS
        <5>2. PICK i, j \in DOMAIN queue : i < j /\ queue[i] = l /\ queue[j] = l
          BY <5>1 DEF Front
        <5>3. i = j
          BY <5>2 DEF Schedule, Line
        <5>4. queue \in Seq(Loads)
          BY BudgetKinds
        <5> QED BY <5>2, <5>3, <5>4
      <4> QED BY <2>1, <4>1, <4>2 DEF Holding
    <3>7. /\ Cardinality(line \cup held) = Cardinality(line) + Cardinality(held)
          /\ IsFiniteSet(line \cup held)
      <4>1. line \cap held = {}
        BY <3>6
      <4> HIDE DEF line, held
      <4>2. Cardinality(line \cup held) = Cardinality(line) + Cardinality(held) - Cardinality(line \cap held)
        BY <3>2, FS_Union
      <4>3. Cardinality({}) = 0
        BY FS_EmptySet
      <4>4. IsFiniteSet(line \cup held)
        BY <3>2, FS_Union
      <4>5. Cardinality(line \cup held) = Cardinality(line) + Cardinality(held) - 0
        BY <4>1, <4>2, <4>3
      <4> QED BY <3>3, <4>4, <4>5
    <3>8. Cardinality(line \cup held) + (k - 1) * concurrency < n
      <4>1. CASE k = 1
        <5>1. line \cup held \subseteq Loads \ {l}
          BY <3>2, <3>6
        <5>2. Cardinality(Loads \ {l}) = n - 1 /\ IsFiniteSet(Loads \ {l})
          BY BudgetAssumption, FS_RemoveElement
        <5>3. Cardinality(line \cup held) <= n - 1
          <6> HIDE DEF line, held, n
          <6> QED BY <5>1, <5>2, FS_Subset
        <5>4. (k - 1) * concurrency = 0
          BY <1>0, <4>1
        <5>5. Cardinality(line \cup held) \in Nat
          BY <3>3, <3>7
        <5> HIDE DEF line, held
        <5> QED BY <1>0, <5>3, <5>4, <5>5
      <4>2. CASE k # 1
        <5>1. k - 1 \in Nat \ {0}
          BY <4>2
        <5>2. Waits(l, a, k - 1)
          BY <5>1 DEF Schedule
        <5>3. now > b + ((k - 1) - 1) * P
          <6>1. prev = b + ((k - 1) - 1) * P + P /\ ((k - 1) - 1) * P \in Int
            BY <2>2, <5>1
          <6> HIDE DEF prev, b
          <6> QED BY <1>0, <2>2, <3>1, <6>1
        <5>4. Cardinality(line \cup Busy(stage, until, prev)) + (k - 1) * concurrency < n
          BY <2>1, <5>2, <5>3 DEF Waits
        <5>5. Busy(stage, until, prev) = held
          <6>1. \A m \in Loads : stage[m] = "fetch" => until[m] > prev
            BY <1>3, <3>1
          <6> HIDE DEF prev
          <6> QED BY <1>3, <6>1 DEF Busy, Holding
        <5> HIDE DEF prev, line, held
        <5> QED BY <5>4, <5>5
      <4> QED BY <4>1, <4>2
    <3>9. (k - 1) * concurrency \in Int
      BY <1>0
    <3>10. line \cup Busy(stage, until, t) = line
      BY <3>5
    <3> HIDE DEF line, held, n, t
    <3>11. Cardinality(line) + k * concurrency < n
      BY <1>0, <2>2, <3>3, <3>4, <3>7, <3>8, <3>9 DEF n
    <3> QED BY <3>10, <3>11
  <2> QED BY <2>3, <2>4
<1>6. Line(queue, stage)' /\ cut' = {} /\ (Default' => shortened' = {})
  BY <1>1 DEF Schedule, Line, Default, options
<1> QED BY <1>4, <1>5, <1>6 DEF Schedule

LEMMA BudgetInitInv == BudgetInit => BudgetTypeOK /\ BudgetInv
<1> SUFFICES ASSUME BudgetInit PROVE BudgetTypeOK /\ BudgetInv
  OBVIOUS
<1>1. BudgetTypeOK
  BY BudgetTypeInit
<1>2. ASSUME Enough PROVE Schedule
  <2>0. /\ \A l \in Loads : stage[l] = "start" /\ attempt[l] = 1
        /\ queue = <<>> /\ cut = {} /\ shortened = {}
        /\ now <= IpEchoTimeout
    BY BudgetAssumption DEF BudgetInit
  <2>1. Line(queue, stage)
    BY <2>0 DEF Line
  <2>2. ASSUME NEW l \in Loads, NEW a \in 1..LoadAttempts PROVE InTime(l, a)
    <3>1. a = 1 => now <= Begun(a)
      <4>1. now \in Nat /\ IpEchoTimeout \in Nat
        BY <1>1, BudgetAssumption, BudgetKinds
      <4>2. Begun(a) \in Int /\ (a = 1 => IpEchoTimeout <= Begun(a))
        BY <1>1, <1>2, BegunIs
      <4> QED BY <2>0, <4>1, <4>2
    <3> QED BY <2>0, <3>1 DEF InTime
  <2>3. ASSUME NEW l \in Loads, NEW a \in 1..LoadAttempts, NEW k \in Nat \ {0} PROVE Waits(l, a, k)
    BY <2>0 DEF Waits
  <2> QED BY <2>0, <2>1, <2>2, <2>3 DEF Schedule
<1>3. reopenUntil = 0
  BY DEF BudgetInit
<1> QED BY <1>1, <1>2, <1>3 DEF BudgetInv

LEMMA BudgetNextInv ==
  BudgetTypeOK /\ BudgetInv /\ [BudgetNext]_budgetVars => BudgetTypeOK' /\ BudgetInv'
<1> SUFFICES ASSUME BudgetTypeOK, BudgetInv, [BudgetNext]_budgetVars
             PROVE  BudgetTypeOK' /\ BudgetInv'
  OBVIOUS
<1>1. BudgetTypeOK'
  BY BudgetTypeNext
<1>2. UNCHANGED options
  BY DEF BudgetNext, Retry, Wake, CheckContext, LeaveQueue, TakeSlot, Send, NoTunnelInTime,
         EndFetch, Tick, budgetVars
<1>3. \/ reopens' = reopens /\ reopenUntil' = reopenUntil
      \/ reopens \in Nat /\ reopens' = reopens + 1
  <2>1. reopens \in Nat
    BY BudgetAssumption DEF BudgetTypeOK
  <2> QED BY <2>1 DEF BudgetNext, Retry, Wake, CheckContext, LeaveQueue, TakeSlot, Send,
                      NoTunnelInTime, EndFetch, Tick, budgetVars
<1>4. reopens' = 0 => reopens = 0 /\ reopenUntil' = 0
  BY <1>3 DEF BudgetInv
<1>5. Enough' => Enough
  <2>1. Deadline' = Deadline /\ Rounds' = Rounds
    BY <1>2, SameSchedule
  <2> QED BY <1>2, <1>4, <2>1 DEF Enough, Default, NoQueue, RoomForAll, options
<1>6. ASSUME Enough' PROVE Schedule'
  <2>1. Enough /\ Schedule
    BY <1>5, <1>6 DEF BudgetInv
  <2>2. ASSUME NEW l \in Loads, Retry(l) PROVE Schedule'
    BY <1>1, <2>1, <2>2, RetryKeeps
  <2>3. ASSUME NEW l \in Loads, Wake(l) PROVE Schedule'
    BY <1>1, <2>1, <2>3, WakeKeeps
  <2>4. ASSUME NEW l \in Loads, CheckContext(l) PROVE Schedule'
    BY <1>1, <2>1, <2>4, CheckContextKeeps
  <2>5. ASSUME NEW l \in Loads, LeaveQueue(l) PROVE Schedule'
    <3>1. attempt[l] \in 1..LoadAttempts
      BY BudgetKinds
    <3>2. stage[l] = "queue" /\ Over
      BY <2>5 DEF LeaveQueue
    <3> QED BY <2>1, <3>1, <3>2, NobodyIsLate
  <2>6. ASSUME NEW l \in Loads, TakeSlot(l) PROVE Schedule'
    BY <1>1, <1>6, <2>1, <2>6, TakeSlotKeeps DEF BudgetInv
  <2>7. ASSUME NEW l \in Loads, Send(l) PROVE Schedule'
    BY <1>1, <2>1, <2>7, SendKeeps
  <2>8. ASSUME NEW l \in Loads, NoTunnelInTime(l) PROVE Schedule'
    <3>1. attempt[l] \in 1..LoadAttempts
      BY BudgetKinds
    <3>2. stage[l] = "live" /\ Over
      BY <2>8 DEF NoTunnelInTime
    <3> QED BY <2>1, <3>1, <3>2, NobodyIsLate
  <2>9. ASSUME NEW l \in Loads, EndFetch(l) PROVE Schedule'
    BY <1>1, <2>1, <2>9, EndFetchKeeps
  <2>10. CASE Tick
    BY <1>1, <2>1, <2>10, TickKeeps
  <2>11. CASE UNCHANGED budgetVars
    <3>1. \A b : Begun(b)' = Begun(b) /\ Ended(b)' = Ended(b)
      BY <1>2, SameSchedule
    <3>2. ASSUME NEW l \in Loads, NEW a \in 1..LoadAttempts PROVE InTime(l, a)'
      BY <2>1, <2>11, <3>1 DEF Schedule, InTime, budgetVars
    <3>3. ASSUME NEW l \in Loads, NEW a \in 1..LoadAttempts, NEW k \in Nat \ {0} PROVE Waits(l, a, k)'
      <4>1. Waits(l, a, k)
        BY <2>1 DEF Schedule
      <4> QED BY <2>11, <3>1, <4>1 DEF Waits, budgetVars, options
    <3> QED BY <2>1, <2>11, <3>2, <3>3 DEF Schedule, Line, Default, budgetVars, options
  <2> QED BY <2>2, <2>3, <2>4, <2>5, <2>6, <2>7, <2>8, <2>9, <2>10, <2>11 DEF BudgetNext
<1> QED BY <1>1, <1>4, <1>6 DEF BudgetInv

LEMMA BudgetInvariant == BudgetSpec => [](BudgetTypeOK /\ BudgetInv)
<1> QED BY BudgetInitInv, BudgetNextInv, PTL DEF BudgetSpec

\* The clock of a run never passes its deadline, as its context ends every wait there
\* (egresshealth.go:2328), and the re-opens of a run stay within their limit.
THEOREM BudgetTypeCorrect == BudgetSpec => []BudgetTypeOK
BY BudgetInvariant, PTL

\* For any number of loads, attempts and slots and any times, the default budget
\* shortens no spacing while no tunnel is lost (retry.go:151-152).
THEOREM DefaultBudgetKeepsSpacings == BudgetSpec => []NoSpacingShortened
<1>1. BudgetTypeOK /\ BudgetInv => NoSpacingShortened
  BY DEF BudgetInv, Enough, Schedule, NoSpacingShortened
<1> QED BY <1>1, BudgetInvariant, PTL

\* On the default budget, and on one with room for the requests and a slot for every
\* load, no request is cut by the end of the run (egresshealth.go:2082-2085).
THEOREM EnoughBudgetCutsNothing == BudgetSpec => []NoRequestCut
<1>1. BudgetTypeOK /\ BudgetInv => NoRequestCut
  BY DEF BudgetInv, Enough, Schedule, NoRequestCut
<1> QED BY <1>1, BudgetInvariant, PTL

\* On those budgets every load that no attempt settled has had them all: a shorter
\* budget costs waits, not attempts (retry.go:147-151).
THEOREM EnoughBudgetCostsNoAttempt == BudgetSpec => []EveryAttemptIsMade
<1>1. BudgetTypeOK /\ BudgetInv => EveryAttemptIsMade
  <2>1. SUFFICES ASSUME BudgetTypeOK, BudgetInv, Enough, NEW l \in Loads,
                        stage[l] = "done", l \notin settled
                 PROVE  attempts[l] = LoadAttempts
    BY DEF EveryAttemptIsMade, EveryAttempt, Enough
  <2>2. attempt[l] \in 1..LoadAttempts
    BY <2>1, BudgetKinds
  <2>3. InTime(l, attempt[l])
    BY <2>1, <2>2 DEF BudgetInv, Schedule
  <2> QED BY <2>1, <2>3 DEF InTime
<1> QED BY <1>1, BudgetInvariant, PTL

--------------------------------------------------------------------------------
\* Types, the bounds of a sweep, and pins that only get newer.

\* The sweeper: its batch is within the limit, its checks are of the batch, and it
\* asks for providers only while it has rounds left.
SweepTypes ==
  /\ sweeper \in SweeperStages /\ round \in 0..MaxRounds
  /\ overdue \subseteq Providers /\ batch \subseteq Providers /\ checks \subseteq batch
  /\ IsFiniteSet(batch) /\ Cardinality(batch) <= Limit
  /\ sweeper = "ask" => round < MaxRounds
  /\ sweeper # "submit" => checks = {}
  /\ sweeper \notin {"check", "submit"} => batch = {}
  /\ step \in WithoutPins => round = 0

\* The pins in force are no newer than those the server has published.
PinTypes == /\ served \in 1..MaxVersion /\ pins \in 0..served /\ lastGot \in 0..served

\* What is either so or not.
FlagTypes ==
  /\ ended \in BOOLEAN /\ resolveOver \in BOOLEAN /\ refused \in BOOLEAN /\ single \in BOOLEAN
  /\ sweeping \in BOOLEAN /\ stale \in BOOLEAN /\ secretOk \in BOOLEAN

\* The confinement check: what it looked up and dialed is of its options.
CheckTypes ==
  /\ reachable \subseteq Addresses /\ addrs \subseteq Addresses /\ dialed \subseteq Addresses
  /\ lookups \subseteq Hosts
  /\ verdict \in {"skipped", "resolving", "dialing", "passed", "noEvidence", "notConfined", "interrupted"}
  /\ deployed \subseteq Endpoints

\* The credential and the exit code.
ExitTypes == jwt \in {"none", "usable", "malformed"} /\ exit \in {-2, -1, 0, 1, 2}

\* A sweep asks for no more rounds than its cap, a batch is no larger than the limit
\* the operator was asked for, and what is submitted was measured in this batch
\* (cmd/egress-prober/blackhole.go:56-145).
SweepIsBounded ==
  /\ round <= MaxRounds /\ (sweeper = "ask" => round < MaxRounds)
  /\ Cardinality(batch) <= Limit /\ checks \subseteq batch

\* The set of pins in force is never emptied nor replaced by an older one: a refresh
\* that fails keeps the last good set (cmd/egress-prober/main.go:1031-1040).
PinsMoveForward == [][pins' >= pins /\ served' >= served]_vars

LEMMA SweepTypesStep ==
  ASSUME IInv, SweepTypes, [Next]_vars PROVE SweepTypes'
<1> USE SweepAssumption
<1>e. Cardinality({}) = 0 /\ IsFiniteSet({})
  BY FS_EmptySet
<1>1. CASE Sweep
  <2>1. step' = step /\ step \notin WithoutPins
    BY <1>1 DEF Sweep, mainVars, IInv, Checked, SweepStep, AskDue, RunBatch, SubmitChecks, NextSweep
  <2>2. CASE AskDue
    <3>1. sweeper = "ask" /\ round' = round + 1 /\ round' \in 0..MaxRounds /\ overdue' = overdue
          /\ checks = {} /\ batch = {}
      BY <2>2 DEF AskDue, CountRound, SweepTypes
    <3>2. CASE \E err \in {"ok"} \cup Results("blackholeDue") : EndSweep(err)
      <4>1. sweeper' \in {"disabled", "idle"} /\ batch' = {} /\ checks' = {}
        BY <3>2 DEF EndSweep
      <4> QED
        BY <1>e, <2>1, <3>1, <4>1 DEF SweepTypes, SweeperStages
    <3>3. ASSUME NEW due \in SUBSET overdue,
                 Cardinality(due) = (IF Cardinality(overdue) < Limit THEN Cardinality(overdue) ELSE Limit),
                 sweeper' = "check" /\ batch' = due /\ UNCHANGED checks
          PROVE  SweepTypes'
      <4>1. IsFiniteSet(overdue) /\ IsFiniteSet(due)
        BY FS_Subset DEF SweepTypes
      <4>2. Cardinality(overdue) \in Nat /\ Cardinality(due) \in Nat
        BY <4>1, FS_CardinalityType
      <4>3. Cardinality(due) <= Limit
        BY <3>3, <4>2
      <4> QED
        BY <2>1, <3>1, <3>3, <4>1, <4>3 DEF SweepTypes, SweeperStages
    <3> QED
      BY <2>2, <3>2, <3>3 DEF AskDue
  <2>3. CASE RunBatch
    <3>1. sweeper = "check" /\ UNCHANGED <<round, overdue>>
      BY <2>3 DEF RunBatch
    <3>2. CASE EndSweep("ok") \/ EndSweep("error")
      <4>1. sweeper' \in {"disabled", "idle"} /\ batch' = {} /\ checks' = {}
        BY <3>2 DEF EndSweep
      <4> QED
        BY <1>e, <2>1, <3>1, <4>1 DEF SweepTypes, SweeperStages
    <3>3. ASSUME NEW measured \in SUBSET batch, sweeper' = "submit" /\ checks' = measured /\ UNCHANGED batch
          PROVE  SweepTypes'
      BY <2>1, <3>1, <3>3 DEF SweepTypes, SweeperStages
    <3> QED
      BY <2>3, <3>2, <3>3 DEF RunBatch
  <2>4. CASE SubmitChecks(ended)
    <3>1. sweeper = "submit" /\ round' = round /\ overdue' \subseteq overdue /\ batch' = {} /\ checks' = {}
      BY <2>4 DEF SubmitChecks, EndSweep
    <3>2. sweeper' \in {"ask", "disabled", "idle"} /\ (sweeper' = "ask" => round < MaxRounds)
      BY <2>4 DEF SubmitChecks, EndSweep, RoundsLeft
    <3> QED
      BY <1>e, <2>1, <3>1, <3>2 DEF SweepTypes, SweeperStages
  <2>5. CASE NextSweep(ended)
    <3>1. /\ sweeper = "idle" /\ UNCHANGED <<overdue, batch, checks>>
          /\ \/ sweeper' = "ask" /\ round' = 0
             \/ sweeper' = "off" /\ round' = round
      BY <2>5 DEF NextSweep
    <3> QED
      BY <2>1, <3>1 DEF SweepTypes, SweeperStages
  <2> QED
    BY <1>1, <2>2, <2>3, <2>4, <2>5 DEF Sweep, SweepStep
<1>2. CASE FetchPins
  <2>1. /\ sweeper = "off" /\ step = "pins" /\ UNCHANGED <<round, overdue, batch, checks>>
        /\ sweeper' \in {"ask", "off"}
    BY <1>2 DEF FetchPins, IInv, Checked, WithoutPins
  <2>2. round = 0
    BY <2>1 DEF SweepTypes, WithoutPins
  <2> QED
    BY <2>1, <2>2 DEF SweepTypes, SweeperStages
<1>3. CASE \E id \in Providers : BecomeDue(id) /\ UNCHANGED mainVars
  BY <1>3 DEF BecomeDue, SweepTypes, mainVars
<1>4. CASE UNCHANGED sweepVars /\ (step' \in WithoutPins => step \in WithoutPins)
  BY <1>4 DEF sweepVars, SweepTypes
<1>5. CASE Start
  <2>1. ASSUME ~ FetchPins PROVE UNCHANGED sweepVars /\ (step' \in WithoutPins => step \in WithoutPins)
    BY <1>5, <2>1 DEF Start, CheckFlags, CheckConfinement, Confined, FetchCredential, WaitForCredential,
       ParseJwt, CheckCredential, Goto, Exit, WithoutPins, mainVars
  <2> QED
    BY <1>2, <1>4, <2>1
<1>6. CASE Pass
  <2>1. UNCHANGED sweepVars /\ step' \notin WithoutPins
    BY <1>6 DEF Pass, RefreshPins, SelectProviders, NoList, Enumerate, RunPass, JudgePass, Sleep,
       Goto, Exit, WithoutPins
  <2> QED
    BY <1>4, <2>1
<1>7. CASE Signal \/ UNCHANGED vars
  <2>1. UNCHANGED sweepVars /\ step' \in {step, "exited"}
    BY <1>7 DEF Signal, Exit, vars, mainVars
  <2> QED
    BY <1>4, <2>1 DEF WithoutPins
<1>8. CASE Environment
  <2>1. ASSUME ~ \E id \in Providers : BecomeDue(id) /\ UNCHANGED mainVars
        PROVE  UNCHANGED sweepVars /\ step' = step
    BY <1>8, <2>1 DEF Environment, mainVars, SpendResolveBudget, Upgrade
  <2> QED
    BY <1>3, <1>4, <2>1
<1> QED
  BY <1>1, <1>5, <1>6, <1>7, <1>8 DEF Next

LEMMA PinTypesStep ==
  ASSUME PinTypes, [Next]_vars PROVE PinTypes' /\ pins' >= pins /\ served' >= served
<1> USE CommandAssumption
<1>1. CASE served' = served /\ (UNCHANGED <<pins, lastGot>> \/ HavePins(served))
  BY <1>1 DEF PinTypes, HavePins
<1>2. CASE served < MaxVersion /\ served' = served + 1 /\ UNCHANGED <<pins, lastGot>>
  BY <1>2 DEF PinTypes
<1>3. CASE Start
  BY <1>1, <1>3 DEF Start, CheckFlags, CheckConfinement, Confined, FetchCredential, WaitForCredential,
     ParseJwt, CheckCredential, FetchPins, KeepPins, Outside, mainVars
<1>4. CASE Pass
  BY <1>1, <1>4 DEF Pass, RefreshPins, SelectProviders, Enumerate, RunPass, JudgePass, Sleep,
     KeepPins, RefreshFails, Outside
<1>5. CASE Sweep \/ Signal \/ Environment
  BY <1>1, <1>2, <1>5 DEF Sweep, Signal, Environment, Outside, mainVars
<1>6. CASE UNCHANGED vars
  BY <1>1, <1>6 DEF vars, mainVars
<1> QED
  BY <1>3, <1>4, <1>5, <1>6 DEF Next

LEMMA FlagTypesStep ==
  ASSUME FlagTypes, [Next]_vars PROVE FlagTypes'
<1> USE DEF FlagTypes, Outside, server, optionVars, mainVars, confinementVars, sweepVars
<1>1. CASE Start
  <2>1. CASE CheckConfinement
    BY <2>1 DEF CheckConfinement, CheckStep, Resolved, Verified, LookUp, Dial
  <2>2. CASE Start /\ ~ CheckConfinement
    BY <2>2 DEF Start, CheckFlags, Confined, FetchCredential, WaitForCredential,
       ParseJwt, CheckCredential, FetchPins, HavePins, KeepPins
  <2> QED
    BY <1>1, <2>1, <2>2
<1>2. CASE Pass
  BY <1>2 DEF Pass, RefreshPins, SelectProviders, Enumerate, RunPass, JudgePass, Sleep, HavePins,
     KeepPins, RefreshFails
<1>3. CASE Sweep
  <2>1. UNCHANGED <<ended, resolveOver, single, sweeping, stale, secretOk>>
    BY <1>3 DEF Sweep
  <2>2. refused' \in BOOLEAN
    BY <1>3 DEF Sweep, SweepStep, AskDue, RunBatch, SubmitChecks, NextSweep, Refusal
  <2> QED
    BY <2>1, <2>2
<1>4. CASE Signal
  BY <1>4 DEF Signal
<1>5. CASE Environment
  BY <1>5 DEF Environment, Upgrade, BecomeDue, SpendResolveBudget
<1>6. CASE UNCHANGED vars
  BY <1>6 DEF vars
<1> QED
  BY <1>1, <1>2, <1>3, <1>4, <1>5, <1>6 DEF Next

LEMMA CheckTypesStep ==
  ASSUME CheckTypes, [Next]_vars PROVE CheckTypes'
<1> USE DEF CheckTypes, Outside, server, confinementVars
<1>1. CASE CheckConfinement
  BY <1>1 DEF CheckConfinement, CheckStep, Resolved, Verified, LookUp, Dial
<1>2. CASE Start /\ ~ CheckConfinement
  BY <1>2 DEF Start, CheckFlags, Confined, FetchCredential, WaitForCredential,
     ParseJwt, CheckCredential, FetchPins
<1>3. CASE Pass
  BY <1>3 DEF Pass, RefreshPins, SelectProviders, Enumerate, RunPass, JudgePass, Sleep
<1>4. CASE Sweep \/ Signal
  BY <1>4 DEF Sweep, Signal
<1>5. CASE Environment
  BY <1>5 DEF Environment, Upgrade, SpendResolveBudget
<1>6. CASE UNCHANGED vars
  BY <1>6 DEF vars
<1> QED
  BY <1>1, <1>2, <1>3, <1>4, <1>5, <1>6 DEF Next

LEMMA ExitTypesStep ==
  ASSUME ExitTypes, [Next]_vars PROVE ExitTypes'
<1> USE DEF ExitTypes, Exit, Goto
<1>1. CASE Start
  BY <1>1 DEF Start, CheckFlags, CheckConfinement, Confined, FetchCredential, WaitForCredential,
     ParseJwt, CheckCredential, FetchPins, mainVars
<1>2. CASE Pass
  BY <1>2 DEF Pass, RefreshPins, SelectProviders, Enumerate, RunPass, JudgePass, Sleep, NoList
<1>3. CASE Sweep \/ Signal \/ Environment
  BY <1>3 DEF Sweep, Signal, Environment, Outside, mainVars
<1>4. CASE UNCHANGED vars
  BY <1>4 DEF vars, mainVars
<1> QED
  BY <1>1, <1>2, <1>3, <1>4 DEF Next

\* The types of the whole command.
CommandTypes == SweepTypes /\ PinTypes /\ FlagTypes /\ CheckTypes /\ ExitTypes

\* They are preserved, given what IInv says of the steps of main.
LEMMA CommandTyped == Spec => [](IInv /\ CommandTypes)
<1>1. Init => CommandTypes
  <2> SUFFICES ASSUME Init PROVE CommandTypes
    OBVIOUS
  <2> USE DEF Init, ConfinementInit, ServerInit, SweepInit
  <2>1. SweepTypes
    <3>1. Cardinality({}) = 0 /\ IsFiniteSet({})
      BY FS_EmptySet
    <3> QED
      BY <3>1, SweepAssumption DEF SweepTypes, SweeperStages
  <2>2. PinTypes /\ ExitTypes
    BY CommandAssumption DEF PinTypes, ExitTypes
  <2>3. FlagTypes
    BY DEF FlagTypes
  <2>4. CheckTypes
    BY DEF CheckTypes
  <2> QED
    BY <2>1, <2>2, <2>3, <2>4 DEF CommandTypes
<1>2. IInv /\ CommandTypes /\ [Next]_vars => CommandTypes'
  BY SweepTypesStep, PinTypesStep, FlagTypesStep, CheckTypesStep, ExitTypesStep DEF CommandTypes
<1> QED
  BY <1>1, <1>2, Invariance, PTL DEF Spec

\* TypeOK holds of main, its confinement check and its sweeper.
THEOREM CommandTypeCorrect == Spec => []TypeOK
<1>1. IInv /\ CommandTypes => TypeOK
  BY DEF IInv, Kinds, CommandTypes, SweepTypes, PinTypes, FlagTypes, CheckTypes, ExitTypes, TypeOK
<1> QED
  BY <1>1, CommandTyped, PTL

\* However the overdue set grows while a sweep runs, the sweep asks no more often than
\* its cap, and for no more providers at once than its limit.
THEOREM SweepsAreBounded == Spec => []SweepIsBounded
<1>1. CommandTypes => SweepIsBounded
  BY SweepAssumption DEF CommandTypes, SweepTypes, SweepIsBounded
<1> QED
  BY <1>1, CommandTyped, PTL

\* Whatever fetches fail, and whenever the server publishes, tunnels are opened with
\* pins that are at least as new as those of any tunnel before them.
THEOREM PinsAreNeverDropped == Spec => PinsMoveForward
<1>1. CommandTypes /\ [Next]_vars => [pins' >= pins /\ served' >= served]_vars
  BY PinTypesStep DEF CommandTypes
<1> QED
  BY <1>1, CommandTyped, PTL DEF Spec, PinsMoveForward
================================================================================
