--------------------------- MODULE BlackholeSweeper ---------------------------
(***************************************************************************)
(* The command's blackhole sweeps: sweep and run                           *)
(* (cmd/egress-prober/blackhole.go), against a server that decides what is *)
(* due and stores what is submitted.                                       *)
(*                                                                         *)
(* A sweep is rounds of one due list, one batch (BlackholePool, reduced to *)
(* the checks it gives) and one submission. Providers become due again at  *)
(* any moment. Whether the process's context has ended is the command's,   *)
(* and a parameter here.                                                   *)
(***************************************************************************)
EXTENDS Integers, FiniteSets, OperatorServer

CONSTANTS
  Providers,  \* provider client ids
  Limit,      \* -blackhole-limit
  MaxRounds   \* maxBlackholeRounds

ASSUME SweepAssumption ==
  IsFiniteSet(Providers) /\ Limit \in Nat \ {0} /\ MaxRounds \in Nat \ {0}

VARIABLES
  sweeper,   \* where run is
  round,     \* rounds of the sweep begun
  overdue,   \* the server's: providers whose check is due
  batch,     \* providers of the round
  checks,    \* providers the batch gave a check of
  refused    \* history: a call met a missing endpoint or a refused secret

sweepVars == <<sweeper, round, overdue, batch, checks, refused>>

SweeperStages == {"off", "ask", "check", "submit", "idle", "disabled"}

--------------------------------------------------------------------------------
\* How a sweep that ends with an error, or none, leaves run: two of the server's
\* answers end sweeping for good. Here and below, a definition that nothing uses
\* states a plausible mistake in the one after it.
DisablesOnAnyError(err) == err # "ok"
Disables(err)           == err \in {"unsupported", "unauthorized"}

EndSweep(err) ==
  /\ sweeper' = IF Disables(err) THEN "disabled" ELSE "idle"
  /\ batch' = {} /\ checks' = {}

Refusal(endpoint) == refused' = (refused \/ endpoint \notin deployed \/ ~ secretOk)

\* The rounds of a sweep are counted as they begin.
Uncounted  == UNCHANGED round
CountRound == round' = round + 1

\* What is due, in a list the server cuts at the limit; nothing due ends the sweep.
AskDue ==
  /\ sweeper = "ask"
  /\ CountRound
  /\ Refusal("blackholeDue")
  /\ \E result \in Results("blackholeDue") :
       IF result # "ok" THEN EndSweep(result)
       ELSE \E due \in SUBSET overdue :
              /\ Cardinality(due) = (IF Cardinality(overdue) < Limit THEN Cardinality(overdue) ELSE Limit)
              /\ IF due = {} THEN EndSweep("ok")
                 ELSE sweeper' = "check" /\ batch' = due /\ UNCHANGED checks
  /\ UNCHANGED overdue

\* RunBlackhole: every provider is checked unless the context ends; a check that
\* could not be made gives nothing to submit. Options it cannot run with are an error.
RunBatch ==
  /\ sweeper = "check"
  /\ \E measured \in SUBSET batch :
       IF measured = {} THEN EndSweep("ok") \/ EndSweep("error")
       ELSE sweeper' = "submit" /\ checks' = measured /\ UNCHANGED batch
  /\ UNCHANGED <<round, overdue, refused>>

\* The whole batch at once; a submission that failed may have been stored. Another
\* round follows one that checked something, up to the cap.
RoundsLeft(ended) == round < MaxRounds /\ ~ ended

SubmitChecks(ended) ==
  /\ sweeper = "submit"
  /\ Refusal("blackholeChecks")
  /\ \E result \in Results("blackholeChecks") :
       /\ IF result = "ok" /\ RoundsLeft(ended)
          THEN sweeper' = "ask" /\ batch' = {} /\ checks' = {}
          ELSE EndSweep(result)
       /\ overdue' \in IF result = "ok" THEN {overdue \ checks}
                       ELSE IF result = "error" THEN {overdue, overdue \ checks} ELSE {overdue}
  /\ UNCHANGED round

\* The interval passes, or the context ends.
NextSweep(ended) ==
  /\ sweeper = "idle"
  /\ \/ sweeper' = "ask" /\ round' = 0
     \/ ended /\ sweeper' = "off" /\ UNCHANGED round
  /\ UNCHANGED <<overdue, batch, checks, refused>>

SweepStep(ended) == AskDue \/ RunBatch \/ SubmitChecks(ended) \/ NextSweep(ended)

\* The server finds a provider due.
BecomeDue(id) ==
  /\ id \notin overdue
  /\ overdue' = overdue \cup {id}
  /\ UNCHANGED <<sweeper, round, batch, checks, refused>>

SweepInit ==
  /\ sweeper = "off" /\ round = 0
  /\ overdue \in {{}, Providers}
  /\ batch = {} /\ checks = {} /\ refused = FALSE
================================================================================
