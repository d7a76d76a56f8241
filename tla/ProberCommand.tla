----------------------------- MODULE ProberCommand -----------------------------
(***************************************************************************)
(* The command, from its flags to its exit code: main                      *)
(* (cmd/egress-prober/main.go), with the confinement check it starts with  *)
(* and the blackhole sweeps it runs beside its passes, against one         *)
(* operator's server.                                                      *)
(*                                                                         *)
(* main is one process, the sweeper another; a signal may come at any      *)
(* moment, and a second one kills. A pass is ProbePass, reduced to whether *)
(* it submitted and whether it failed anything. Time is whether the pins   *)
(* are due for a refresh.                                                  *)
(***************************************************************************)
EXTENDS Confinement, BlackholeSweeper

CONSTANT MaxVersion   \* bound: pin sets the server publishes

ASSUME CommandAssumption == MaxVersion \in Nat \ {0}

VARIABLES
  single,     \* -interval 0
  sweeping,   \* -blackhole-interval is positive
  jwt,        \* *byJwt: "none", "usable" or "malformed"
  pins,       \* version of the pin set in force; 0 is none
  served,     \* version the server publishes now
  lastGot,    \* history: version last fetched whole
  stale,      \* the refresh interval has passed since the last fetch
  step,       \* where main is
  pass,       \* what the pass did: "none", "driven" or "enumerated", and its tallies
  exit        \* exit code; -1 while running, -2 when killed

mainVars    == <<jwt, pins, lastGot, stale, step, pass, exit>>
optionVars  == <<single, sweeping>>
vars == <<ended, confinementVars, server, sweepVars, optionVars, served, mainVars>>

Steps == {"flags", "confinement", "credential", "wait", "parse", "check", "pins", "refresh",
          "select", "enumerate", "run", "judge", "sleep", "exited"}
NoPass == [kind |-> "none", submitted |-> FALSE, failed |-> FALSE]

Running  == step # "exited"
Sweeping == sweeper \in {"ask", "check", "submit"}

--------------------------------------------------------------------------------
Exit(code) == step' = "exited" /\ exit' = code
Goto(to)   == step' = to /\ UNCHANGED exit
Outside    == UNCHANGED <<ended, server, optionVars, served>>

\* Flags that cannot work end the process before it touches anything.
CheckFlags ==
  /\ step = "flags"
  /\ \/ Goto("confinement")
     \/ Exit(2)
  /\ Outside /\ UNCHANGED <<confinementVars, sweepVars, jwt, pins, lastGot, stale, pass>>

CheckConfinement ==
  /\ step = "confinement"
  /\ CheckStep
  /\ UNCHANGED <<server, optionVars, served, sweepVars, mainVars>>

\* What the check found out dies with it, but for its verdict.
Confined ==
  /\ step = "confinement"
  /\ verdict \notin {"resolving", "dialing"}
  /\ IF verdict \in {"passed", "skipped"} THEN Goto("credential") ELSE Exit(1)
  /\ reachable' = {} /\ lookups' = {} /\ addrs' = {} /\ dialed' = {} /\ resolveOver' = FALSE
  /\ Outside /\ UNCHANGED <<verdict, sweepVars, jwt, pins, lastGot, stale, pass>>

\* fetchByJwtIfEmpty: a jwt that was given is kept unasked. A refused secret ends the
\* process, and anything else is waited out; the end of the context is a shutdown.
FetchCredential ==
  /\ step = "credential"
  /\ \/ jwt # "none" /\ Goto("parse") /\ UNCHANGED jwt
     \/ /\ jwt = "none"
        /\ \E result \in Results("credential") :
             CASE result = "ok" -> jwt' \in {"usable", "malformed"} /\ Goto("parse")
               [] result = "unauthorized" -> Exit(IF ended THEN 0 ELSE 1) /\ UNCHANGED jwt
               [] OTHER -> Goto("wait") /\ UNCHANGED jwt
  /\ Outside /\ UNCHANGED <<confinementVars, sweepVars, pins, lastGot, stale, pass>>

WaitForCredential ==
  /\ step = "wait"
  /\ \/ Goto("credential")
     \/ ended /\ Exit(0)
  /\ Outside /\ UNCHANGED <<confinementVars, sweepVars, jwt, pins, lastGot, stale, pass>>

ParseJwt ==
  /\ step = "parse"
  /\ IF jwt = "usable" THEN Goto("check") ELSE Exit(1)
  /\ Outside /\ UNCHANGED <<confinementVars, sweepVars, jwt, pins, lastGot, stale, pass>>

\* Only the server's refusal stops the process; not being able to ask does not.
CheckCredential ==
  /\ step = "check"
  /\ \E result \in Results("clients") : IF result = "rejected" THEN Exit(1) ELSE Goto("pins")
  /\ Outside /\ UNCHANGED <<confinementVars, sweepVars, jwt, pins, lastGot, stale, pass>>

\* The startup fetch exits where the refresh keeps what there is.
HavePins(version) == pins' = version /\ lastGot' = version /\ stale' = FALSE
KeepPins  == UNCHANGED <<pins, lastGot, stale>>
ClearPins == pins' = 0 /\ UNCHANGED <<lastGot, stale>>

FetchPins ==
  /\ step = "pins"
  /\ \E result \in Results("pins") :
       IF result = "ok"
       THEN /\ HavePins(served) /\ Goto("refresh")
            /\ sweeper' = IF sweeping THEN "ask" ELSE "off"
       ELSE KeepPins /\ Exit(1) /\ UNCHANGED sweeper
  /\ Outside /\ UNCHANGED <<confinementVars, round, overdue, batch, checks, refused, jwt, pass>>

--------------------------------------------------------------------------------
\* One pass: refreshPins, whose failure keeps the set, and the pool, which always is.
RefreshFails == KeepPins

RefreshPins ==
  /\ step = "refresh"
  /\ \E result \in Results("pins") :
       IF stale THEN IF result = "ok" THEN HavePins(served) ELSE RefreshFails
       ELSE KeepPins
  /\ Goto("select")
  /\ pass' = NoPass
  /\ Outside /\ UNCHANGED <<confinementVars, sweepVars, jwt>>

\* No list to probe: a single shot that was not interrupted has failed.
NoList ==
  /\ IF single THEN Exit(IF ended THEN 0 ELSE 1) ELSE Goto("sleep")
  /\ UNCHANGED pass

\* selectProviders. Only an endpoint the server lacks falls back to enumeration.
SelectProviders ==
  /\ step = "select"
  /\ \E result \in Results("due") :
       CASE result = "ok" -> Goto("run") /\ pass' = [NoPass EXCEPT !.kind = "driven"]
         [] result = "unsupported" -> Goto("enumerate") /\ UNCHANGED pass
         [] OTHER -> NoList
  /\ Outside /\ UNCHANGED <<confinementVars, sweepVars, jwt, pins, lastGot, stale>>

\* listProviders: no location, or one at least whose providers were had.
Enumerate ==
  /\ step = "enumerate"
  /\ \/ Goto("run") /\ pass' = [NoPass EXCEPT !.kind = "enumerated"]
     \/ NoList
  /\ Outside /\ UNCHANGED <<confinementVars, sweepVars, jwt, pins, lastGot, stale>>

RunPass ==
  /\ step = "run"
  /\ \E submitted, failed \in BOOLEAN :
       pass' = [pass EXCEPT !.submitted = submitted, !.failed = failed]
  /\ Goto("judge")
  /\ Outside /\ UNCHANGED <<confinementVars, sweepVars, jwt, pins, lastGot, stale>>

\* What a single shot's pass amounts to; the long-running process sleeps on it.
FailedAnyway      == pass.failed /\ ~ pass.submitted
NothingButFailure == ~ ended /\ pass.failed /\ ~ pass.submitted

JudgePass ==
  /\ step = "judge"
  /\ IF ~ single THEN Goto("sleep") ELSE Exit(IF NothingButFailure THEN 1 ELSE 0)
  /\ Outside /\ UNCHANGED <<confinementVars, sweepVars, jwt, pins, lastGot, stale, pass>>

Sleep ==
  /\ step = "sleep"
  /\ \/ Goto("refresh")
     \/ ended /\ Exit(0)
  /\ Outside /\ UNCHANGED <<confinementVars, sweepVars, jwt, pins, lastGot, stale, pass>>

--------------------------------------------------------------------------------
\* The sweeper goes with the process.
Sweep ==
  /\ Running /\ SweepStep(ended)
  /\ Outside /\ UNCHANGED <<confinementVars, mainVars>>

\* The first signal ends the context, the second the process.
Signal ==
  /\ Running
  /\ \/ ~ ended /\ ended' = TRUE /\ UNCHANGED <<step, exit>>
     \/ ended /\ Exit(-2) /\ UNCHANGED ended
  /\ UNCHANGED <<confinementVars, server, sweepVars, optionVars, served, jwt, pins, lastGot, stale,
                 pass>>

Environment ==
  /\ Running
  /\ \/ /\ Upgrade
        /\ UNCHANGED <<ended, confinementVars, sweepVars, optionVars, served, mainVars>>
     \/ /\ \E id \in Providers : BecomeDue(id)
        /\ Outside /\ UNCHANGED <<confinementVars, mainVars>>
     \/ /\ SpendResolveBudget /\ step = "confinement"
        /\ UNCHANGED <<server, sweepVars, optionVars, served, mainVars>>
     \/ /\ served < MaxVersion /\ served' = served + 1
        /\ UNCHANGED <<ended, confinementVars, server, sweepVars, optionVars, mainVars>>
     \/ /\ pins # 0 /\ ~ stale /\ stale' = TRUE
        /\ Outside
        /\ UNCHANGED <<confinementVars, sweepVars, jwt, pins, lastGot, step, pass, exit>>

Init ==
  /\ ConfinementInit /\ ServerInit /\ SweepInit
  /\ single \in BOOLEAN /\ sweeping \in BOOLEAN
  /\ jwt \in {"none", "usable", "malformed"}
  /\ pins = 0 /\ served = 1 /\ lastGot = 0 /\ stale = FALSE
  /\ step = "flags" /\ pass = NoPass /\ exit = -1

Start == CheckFlags \/ CheckConfinement \/ Confined \/ FetchCredential \/ WaitForCredential
         \/ ParseJwt \/ CheckCredential \/ FetchPins

Pass == RefreshPins \/ SelectProviders \/ Enumerate \/ RunPass \/ JudgePass \/ Sleep

Next == Start \/ Pass \/ Sweep \/ Signal \/ Environment

Spec == Init /\ [][Next]_vars

\* Both goroutines run, and every call they make is bounded by a timeout; a server
\* that can be asked at all is reached sooner or later.
Reached == step = "credential" /\ step' \notin {"credential", "wait"}

FairSpec ==
  /\ Spec
  /\ WF_vars(Start) /\ WF_vars(Pass) /\ WF_vars(Sweep)
  /\ SF_vars(FetchCredential /\ Reached)

--------------------------------------------------------------------------------
\* Every variable keeps its type.
TypeOK ==
  /\ {ended, resolveOver, refused, single, sweeping, stale, secretOk} \subseteq BOOLEAN
  /\ reachable \subseteq Addresses /\ addrs \subseteq Addresses /\ dialed \subseteq Addresses
  /\ lookups \subseteq Hosts
  /\ verdict \in {"skipped", "resolving", "dialing", "passed", "noEvidence", "notConfined", "interrupted"}
  /\ deployed \subseteq Endpoints
  /\ sweeper \in SweeperStages /\ round \in 0..MaxRounds
  /\ overdue \subseteq Providers /\ batch \subseteq Providers /\ checks \subseteq batch
  /\ jwt \in {"none", "usable", "malformed"}
  /\ served \in 1..MaxVersion /\ pins \in 0..served /\ lastGot \in 0..served
  /\ step \in Steps /\ exit \in {-2, -1, 0, 1, 2}
  /\ pass \in [kind : {"none", "driven", "enumerated"}, submitted : BOOLEAN, failed : BOOLEAN]

\* Tunnels are opened, by a pass or by a sweep beside it, only by a process that is
\* confined on evidence (at least one address dialed, every one refused) or was told
\* not to look, with the last pin set it got from the server: a refresh that fails
\* never drops the pins under probes to come (main.go:495-499, 786-789).
TunnelsNeedEvidence ==
  /\ step = "confinement" /\ verdict = "passed" => addrs # {} /\ addrs \cap reachable = {}
  /\ step = "run" \/ sweeper = "check" =>
       verdict \in {"passed", "skipped"} /\ jwt = "usable" /\ pins # 0 /\ pins = lastGot

\* The exit code says what happened, for whoever runs single shots: once started, the
\* process fails only for a pass nobody interrupted that had no list or nothing but
\* failures, and succeeds only when interrupted or after a pass that was not that
\* (main.go:478-492, 524-531).
ExitCodeIsHonest ==
  /\ exit = 1 /\ pins # 0 => single /\ ~ ended /\ (pass = NoPass \/ (pass.failed /\ ~ pass.submitted))
  /\ exit = 0 => ended \/ (single /\ pass.kind # "none" /\ (pass.failed => pass.submitted))

\* Sweeping ends for good only because the server refused it: a call that merely
\* failed costs one interval.
SweepingIsGivenUpForAReason == sweeper = "disabled" => refused

\* A process that waits for a credential with a secret the server refuses stops: it
\* does not poll for ever (main.go:900-902).
RefusedSecretEndsTheWait ==
  step \in {"credential", "wait"} /\ jwt = "none" /\ ~ secretOk ~> step = "exited"

\* A sweep ends, whatever the server keeps calling due.
SweepsEnd == Sweeping /\ Running ~> ~ Sweeping \/ ~ Running
================================================================================
