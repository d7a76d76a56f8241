# operator-proxy in TLA+

The egress prober measures what the exits of a proxy network can really reach.
It asks the operator's server which providers are due, opens a tunnel to each,
loads a sample of destinations through it, echoes the exit address, sometimes
measures bandwidth, and submits what it found. Providers leave at any moment,
every call may fail or take its whole timeout, and most of the work happens in
goroutines that share a tunnel, a pool, a budget or a context. This directory
holds TLA+ modules of those parts, TLC configurations that check them on small
instances, and TLAPS proofs of the theorems that matter most for every
instance. `PROJECT.json` ties every definition to the lines it stands for.

Paths below are relative to `src/`.

## The system

| Component | State it keeps | Operations | Correct when |
|---|---|---|---|
| Loss tracker of a run, `pathTracker` (`egresshealth/path.go`) | the re-open in flight, counts of re-opens started and finished, one outcome per call | `live`, `await`, `outcome` | one re-open at a time, within the limit, only of a lost tunnel; everyone who waits is answered |
| Probe path, `probePath` (`fleetprobe/path.go`) | current tunnel, `closed`, a wait group of retiring tunnels, their errors | `Reopen`, `Current`, `Close` | no tunnel outlives `Close`, no error of a retired one is dropped |
| Retry chains (`egresshealth/retry.go`, `ipecho.go`) | per load: attempt, outcome, the tunnel handed; shared: slots, exit record | `load`, `spacing`, `warmUp`, `warmClient`, `record` | a site is charged only on a tunnel that stood; the waits fit into the budget |
| Health run and blackhole verdict (`egresshealth/egresshealth.go`, `blackhole.go`) | the sample, the results of the loads | `Check`, `Blackhole`, `RunBudget`, the sampling, the tallies | an interrupted run is no measurement; "dark" was measured; figures and names are of the same loads |
| Blackhole worker pool and batch (`fleetprobe/blackhole.go`, `blackhole_worker_pool.go`) | jobs handed over unbuffered, a wait group, a result per provider | `RunBlackhole`, `submit`, `work`, `CloseAndWait` | batches return, with every provider accounted for, and nothing runs on after them |
| Pass scheduler and prober (`prober/schedule.go`, `prober/prober.go`) | cache of probed providers, semaphore, tallies | `Run`, `ProbeOne` | one tunnel per provider, the report of every attempt sent, nothing leaks |
| Full prober wiring (`fleetprobe/full.go`) | registry of paths and pools by client | the hooks of one probe | the steps of a probe share one tunnel, and one pool, in order |
| Provider tunnel (`providertunnel/tunnel.go`) | two contexts, the loss signal with its cause, the pump, the parts to close | `Open`, `watchProviderPath`, the pump, `Close` | a loss is a loss and is signalled; `Close` is complete |
| Bandwidth sampler (`bandwidth/bandwidth.go`) | the reservation, a barrier and a byte count per stream | `Sample`, `measure` | a figure describes the link, within what was reserved |
| Confinement self-check (`confinement/confinement.go`) | addresses found and dialed | `Addresses`, `Verify` | it passes on evidence only |
| Operator client (`ingest/*.go`) | none; a sentinel error per refusal | the calls to the server | refusals and failures are told apart |
| Command (`cmd/egress-prober/main.go`) | credential, pins in force, the pass at hand | `main`, `runPass`, `selectProviders`, `fetchByJwtIfEmpty` | what is fatal, retried or ignored is what the comments say |
| Sweeper (`cmd/egress-prober/blackhole.go`) | rounds of a sweep | `sweep`, `run` | it ends each sweep and gives up only when refused |
| Dial owner of a request (`providertunnel/http_request_owner.go`) | `closed`, a wait group of dials, a context to cancel them by | `beginProviderHttpDial`, `close`, `RoundTrip` | a request leaves nothing but the body of its response, and returns |
| Pinning (`providertunnel/pinning.go`, `fleetprobe/pins.go`) | the pins and the allowlist of a client | `normalizePins`, the check of a chain, `ValidatePins`, `restrictPins` | a site fails for its own chain, and never for how its pins are spelled |
| Pools and places (`egresshealth/pool.go`, `place.go`, `fleetprobe/pool.go`) | the pool of the pass | `ValidateDestinations`, `LoadPool`, `forPlace`, `dialHosts` | what is loaded suits the provider's place and may be dialed |
| Profiles, request and echo stages, progress names, `controlplane` | see *Not modelled* | | |

How they meet:

- `main` runs a pass, sleeps, and runs the next one; a sweeper goroutine runs
  blackhole batches beside it. They share the pins and the process's context.
- A pass launches probes under a semaphore. A probe opens a tunnel (through the
  registry of `NewFullProber`), runs the health check over it, submits,
  samples, and closes the path.
- A probe captures a pool when it opens its tunnel: the allowlist and the pins of
  the client come from it, and the run draws its sample from it, though the source
  is refreshed by every pass.
- A request goes through the http client of a tunnel, whose transport makes dials
  in goroutines of its own, as many as it likes and as late as it likes; the owner
  of the request admits, cancels and joins them.
- A check runs its loads in goroutines. Each, per attempt, asks `pathTracker`
  for a live client, which asks `probePath` to re-open a lost tunnel.
- A tunnel tells its holders of a loss through a signal whose cause is set by a
  monitor callback, the packet pump or `Close`, whichever comes first.
- A blackhole batch hands its providers to workers that may serve several
  batches; each worker runs a check with its own tunnel and path.

What is hard, and where the hazards of `PROJECT.json` bite: reads of the current
tunnel between locked scopes; a re-open racing `Close`; work accepted as the
context ends; wait groups that grow while somebody may wait on them; the budget
arithmetic of retries that land anywhere; callbacks delivered late; contexts
whose lifetime is not that of what they were given to; and errors that must be
told apart because one ends a process and the other costs an interval; dials that
outlive the request they were made for; and verdicts taken over whatever was left
of a sample.

## Modules

| Module | Models | Abstracts |
|---|---|---|
| `TunnelReplacement` | what a run may rely on about its tunnel (abstract) | everything but which tunnel is current and whether it is lost |
| `TunnelPath` | `pathTracker` over `probePath` | how a load uses the client it is given |
| `MCTunnelPath`, `MCRetryBudget`, `MCProbeRequests` | symmetry sets, and the pools and pins of an instance, for TLC | |
| `TunnelPathProofs` | theorems about `TunnelPath` | |
| `HealthRun` | the loads of one run, the exit record, the verdicts | the tunnel is `TunnelReplacement`'s; the clock is "ample", "short", "over"; destinations are loads |
| `HealthRunProofs` | theorems about `HealthRun` | |
| `RetryBudget` | the clock of a run: spacings, slots, budget | outcomes, but for whether an attempt settles its load |
| `BlackholePool` | batches over a worker pool | a check is one call |
| `BlackholePoolProofs` | theorems about `BlackholePool` | |
| `ProbePass` | passes of probes, their cache, tunnels and submissions | the steps of a probe are one call each |
| `ProbePassProofs` | theorems about `ProbePass` | |
| `ProviderTunnel` | one tunnel from `Open` to `Close` | the multi-client and the tun are external |
| `ProviderTunnelProofs` | theorems about `ProviderTunnel` | |
| `RequestOwner` | one request: its dials from their admission to the handshake, the owner's close, the body | the transport is external; a chain is the set of its keys |
| `DestinationPool` | the pool with its fallback, places, the sample, tallies and verdict | what makes one entry sound is a flag; a load is one step |
| `ProbeRequests` | a probe with its pool, composed of the two above, and the pins of its client | one request at a time |
| `ProbeRequestsProofs` | theorems about `RequestOwner`, `DestinationPool` and `ProbeRequests` | |
| `Bandwidth` | one sample of a probe | bytes are reads; the window of the rate is left out |
| `ProbeLifetime` | a probe with its contexts, composed with `Bandwidth` | the loads are "the run" |
| `ProbeLifetimeProofs` | theorems about `ProbeLifetime` and `Bandwidth` | |
| `OperatorServer` | the answers of the server and the errors made of them | payloads |
| `Confinement` | the self-check | which records can be public addresses |
| `BlackholeSweeper` | sweeps | a batch is the checks it gave (`BlackholePool` has it) |
| `ProberCommand` | `main`, composed with the three above | a pass is its tallies (`ProbePass` has it) |
| `ProberCommandProofs` | theorems about `ProberCommand` and `RetryBudget` | |

A step is one locked scope, one channel operation or one call that leaves the
process. What a comment calls "history" is recorded only for properties. A
definition that nothing uses, introduced as such by a comment, states a
plausible mistake in the definition after it.

### From the code to the actions

- **TunnelPath.** A load walks `Enter` (the first locked scope of `live`),
  `ReadCurrent` (the unlocked read, with its loss check), `Decide` (the second
  scope: take the client, join the re-open in flight, read again, give up, or
  start one), then `CheckClosed`, `OpenTunnel`/`OpenFails`, `Install` (the swap,
  or the loser's close when the path was closed meanwhile), `WarmUp`, `Finish`,
  `CloseDone`, `Release`. `Awake` and `Abandon` are `await`'s select.
  `RetireClose`, `RetireReport` and `RetireDone` are the goroutine of a replaced
  tunnel. `CloseStart`, `CloseCurrent` and `CloseReturn` are `probePath.Close`.
- **HealthRun.** One chain per load: `CheckContext`, `TakeSlot`, a re-open step
  by step, the fetch, the loop's end. A load that finds a re-open under way waits
  for it with its slot in hand. `Report` is where `Check` or `Blackhole` takes its
  verdict.
- **RetryBudget.** The same chain with a clock that advances only when nobody
  can act; requests, spacings and re-opens take any time up to their bounds.
- **BlackholePool.** The batch's loop, its select against the edges and the
  unbuffered hand-over are separate steps, as are the worker's accept, its
  second look at the contexts, the check and the write of the result.
- **ProbePass.** `Run`'s loop with the order of its tests, its select, and one
  process per probe with every exit of `ProbeOne`. The report of an attempt
  (`ReportOf`) may fail, or find the context of the probe done: the server then has
  no record of it, which `reportAttempt` only logs (`prober/prober.go:440-454`), and
  the provider stays at the head of the server's due queue. So
  `EveryAttemptIsReported` says that the report of every attempt is sent, in its
  class, and not that it is received. The due queue is the server's and is not
  modelled.
- **ProviderTunnel.** `Open` with the unwinding of what it made, the monitor's
  events delivered late by one worker, the pump, and the `Once` of `Close` part
  by part.
- **Bandwidth, ProbeLifetime.** `Sample` over its targets, `measure` with its
  streams and barrier; around them the probe and which context each tunnel was
  opened with.
- **RequestOwner.** `CheckOwner` and `EnterDial` are the locked scope of
  `beginProviderHttpDial`, in two steps since the context can end between its test
  and its `Add`; `ArmDial` and `Propagate` are the context of the dial with its
  `AfterFunc`; `CheckHost`, `EndDial` and `EndHandshake` are `DialTLSContext`.
  `CloseOwner`, `CancelOwner` and `JoinDials` are `close`. `AskDial`, `Claim`,
  `CloseUnclaimed`, `Return` and the end of the body are the transport's.
- **DestinationPool, ProbeRequests.** `OpenProbe` captures the pool and makes the
  client; `DrawLoads` is the split by place and the sampling, any choice `rng` may
  make; `Load` starts a request to any destination drawn, or to the echo;
  `ReportLoads` makes of any outcomes what the code makes of them.
- **ProberCommand.** One action per call of `main`; `EndSweep` is what `run`
  makes of `sweep`'s error; a signal may come between any two steps.

## Runs

| Run | Instance | What it shows |
|---|---|---|
| `TunnelPathSafety` | 2 loads, 2 re-opens | one re-open at a time; only a lost tunnel is replaced; a load is handed a cold tunnel only behind a second re-open; `Close` leaves nothing; refinement of `TunnelReplacement` |
| `TunnelPathLive` | 2 loads, 1 re-open | every load that asks is answered; `Close` returns |
| `HealthRun` | 2 loads of 2 attempts, 1 or 2 slots, 1 re-open | sites are charged only on a standing tunnel, a failed authentication is reported, an interrupted run is no measurement and dark was measured, and the run reports |
| `RetryBudget` | 3 loads of 2 attempts, 2 or 3 slots, 1 re-open, default or explicit budgets | the default budget shortens no spacing while no tunnel is lost; no request is cut; no attempt is lost |
| `BlackholePool` | 2 batches of 2 providers, 1 reserved, 1 worker | entries match jobs, nothing outlives its batch, a cancelled check is no verdict, reserved checks are made, no provider is dropped unnoticed, batches return |
| `ProbePass` | 2 passes over up to 2 of 2 providers, 1 or 2 slots, cache of 1 | one tunnel per provider, nothing is left and one probe at most begins after a cut, the report of every attempt is sent, the cache holds, passes return |
| `ProviderTunnel` | 2 window clients, 2 callers of `Close` | a loss is real and is signalled, `Close` is complete |
| `ProbeLifetime` | 1 re-open, 2 targets, 2 streams of 2 reads | a figure is honest, the probe leaves nothing, it returns |
| `ProbeLifetimeSample` | 1 re-open, 1 target, 1 stream | finding: the sample rides a tunnel whose context has ended |
| `ProbeRequests` | 2 dials per request, 4 pools and the built-in one, 3 places, 2 pin sets | a request leaves only its body, sites fail on their own, the sample suits the place, the figures and names of a report agree, `RoundTrip` returns |
| `ProbeRequestsEmptySample` | the same with 1 dial | finding: a check that loaded nothing calls the provider dark |
| `ProberCommand` | 2 hosts, 2 addresses, 2 providers, limit 1, 2 rounds, 2 pin sets | tunnels need evidence and pins, the exit code is honest, sweeping is given up for a reason, a refused secret ends the wait, sweeps end |

Why the bounds are enough:

- *Two loads, two re-opens.* A race on the tracker needs one load that re-opens
  and one that read before, waits, or reads again; a cold hand-over needs a
  second re-open. A third load repeats one of the two roles, and the proofs
  cover any number. Liveness has one re-open, which already has everybody
  waiting for one call.
- *Two loads with one slot or two* in a run: with two, both slots can be held by
  loads of which one re-opens and the other waits for it; with one, the next load
  takes its slot while the last one judges its fetch. One re-open is enough for
  both, and the theorems cover any number of each.
- *Three loads in the budget* are the fewest that do not divide by two slots, so
  the rounding up of rounds matters; requests of 2 and spacings of 3 let a retry
  land in any phase of another load.
- *One worker for two batches* makes them compete for every hand-over; two
  providers, one reserved, are the fewest where admission ends between the two.
- *Duplicates in a batch* need a batch of two; the cache needs two passes and a
  tick as long as its lifetime. The caps on passes and the clock are in the
  guards (`MaxPasses`, `MaxNow`), as is `MaxVersion` of the server's pin sets.
- *Two window clients* let the provider rotate (the new one before the old one
  goes) and leave; two callers of `Close` meet in its `Once`.
- *Two streams* meet at the barrier; *two targets* have one sample after
  another; two reads let a stream end in its middle.
- *Two dials of one request* are one that is admitted, and that the owner joins,
  beside one that asks too late or hands over a connection nobody waits for. The
  theorems cover any number.
- *Two classes and pools of two to four destinations*, against sizes of one, draw
  some and leave some; between them they share hosts in two spellings, repeat a
  name, miss a class, have a canary that is one in all of a country and another in
  one region of it, and have nothing left for a place.
- *Limit 1 under two providers* makes a sweep take more than one round, and a
  server that finds providers due at any moment keeps it from running dry.

The state machines state their type invariant (`TypeOK`; `RequestTypeOK`,
`SampleTypeOK` and `BudgetTypeOK` where one is composed into another). No run spends
a property on it: each is proved, with the bounds it states (re-opens, attempts,
slots, tokens, tallies, rounds, bytes).

The runs do not check for deadlock: runs, passes and probes end, and their models
stop with them. What must not stop is stated as a liveness property, and that the waits of loads,
batches and passes cannot deadlock is proved (`NobodyWaitsInVain`, below).

### Fairness

A goroutine that can take a step takes one: weak fairness of each process.
The code bounds every external call by a timeout, so the step that returns from
one is fair too. `ProbePass` needs less: some goroutine of the pass that can move
does. Losses, cancellations, signals, clock ticks, the server's
changes and somebody's decision to close have none. Four choices deserve a
reason.

- `TunnelPath` states no fairness for starting a `Close`, only for finishing it.
- `ProviderTunnel` has fairness of `TimePasses`, the close timeout of
  `tunnel.go`: without it a part that never closes would hold `Close` for good.
- `RequestOwner` has fairness for what our code and its timeouts do: the dials'
  steps under the owner, the end of a request (its client has a timeout), the
  handshake (which has one too), and the end of a dial that was cancelled. A dial
  that nobody cancels may hang for ever, and the transport need not return before
  the request is over: that `RoundTrip` returns all the same is what the owner is
  for.
- `ProberCommand` has strong fairness of the call for a credential reaching a
  server that can be asked. `fetchByJwtIfEmpty` polls for as long as it is not
  refused, so a server that is unreachable for ever keeps it polling, as it
  should; `RefusedSecretEndsTheWait` says it stops once it can learn that it
  is refused.

## Proofs

`TunnelPathProofs`, for any set of loads and any `ReopenLimit`:

| Theorem | States |
|---|---|
| `TypeCorrect` | `[]TypeOK`, the bound on re-opens included |
| `SingleFlight` | `[]OneReopenAtATime` |
| `NeverReplacesALiveTunnel` | `OnlyLostReplaced`, an action property |
| `ImplementsReplacement` | `TunnelPath` implements `TunnelReplacement` |
| `CloseLeavesNoTunnel` | `[]CloseLeavesNothing` |
| `ColdIsOnlyTheSecond` | `ColdOnlyBehindSecondReopen`, an action property |
| `NobodyWaitsInVain` | `[]WaitsAreServed` |

None of them is inductive alone. That a load may throw away the tunnel it read
rests on that tunnel still being current (`Fresh`), which holds because a re-open
in between would have moved the count of finished ones; that rests on the counts
saying who is re-opening (`Single`); that the new tunnel was never current rests
on a call opening at most one (`Opens`) and on tunnels becoming current in the
order they came up (`InOrder`); and the refinement needs that a call fails only
by ending (`NotFailedYet`). `IInv` is their conjunction with `TypeOK`. Steps that
touch neither the tracker nor the current tunnel are collected as `Aside`, and
proved to preserve it once. Two more invariants stand on it. `Kept` says where
every tunnel is: current, held by a load that installs or discards it, or counted
by the retiring wait group, so that a `Close` that has waited leaves none. `Seen`
says that a load waits for a re-open that was not over when it asked, and `Warm`
that the current tunnel is cold only while somebody warms it up; so whoever is
handed a cold one has waited for a re-open before the one that is warming.
`WaitsAreServed` is the part of the liveness properties that needs no fairness:
a call in flight has a load that works on it, whoever awaits a call finds it closed
or in the hands of a load that will close it, and a `Close` that waits has tunnels
to wait for (which `Kept` counts). What the runs add is that those others move.

`HealthRunProofs`, for any number of loads, attempts, slots and re-opens:

| Theorem | States |
|---|---|
| `TypeCorrect` | `[]TypeOK`, with the slots counted by the loads that hold them |
| `NoSiteFailsForItsTunnel` | `[]ChargedOnlyOnAStandingTunnel` |
| `TlsFailureSurvives` | `[]TlsFailureIsReported` |
| `ReportsAreMeasured` | `[]VerdictsAreMeasured` |
| `NobodyWaitsInVain` | `[]WaitsAreServed`: who waits for a slot or a re-open waits for another load |

A loss is never taken back, since a tunnel that is replaced becomes an older one
than the current; so a load that judges its fetch later than the loss still sees
it (`Charged`). A failed authentication ends its chain, or is in the exit record,
which only grows (`TlsInv`). Nothing moves once every chain is done (`ReportInv`).
A tunnel is being replaced exactly while one load re-opens it (`OneReopens`).
`HealthRun` takes its tunnel steps from `TunnelReplacement` by definition, so a run asks
of its tunnel only what the tracker over the path is proved to do
(`ImplementsReplacement`).

`ProbePassProofs`, for any batch, duplicates included, and any number of providers,
slots and passes:

| Theorem | States |
|---|---|
| `DuplicatesAreSkipped` | `[]OneTunnelPerProvider` |
| `AttemptsAreReported` | `[]EveryAttemptIsReported`: sent, whether the call succeeds or not |
| `PassesEndClean` | `[]PassLeavesNothing`, the bound on probes begun after a cut included |
| `TheCacheHolds` | `CacheHolds`, an action property |
| `TypeCorrect` | `[]TypeOK`: tokens within the slots, every counter within the batch |
| `NeverMoreTunnelsThanSlots` | `[]TunnelsFitTheSlots` |
| `NobodyWaitsInVain` | `[]WaitsAreServed` of the loop's select and of its `Wait` |

`CountInv` ties every counter to the places of the probes: the wait group to those
that have not left, the semaphore to those that hold a token, each tally to those
that reached it. When the wait group is empty every probe is done, so the tallies
add up to what was launched, and `LoopInv` says that this and what was skipped is
the batch. `CacheInv` says that the cache knows every success that is still young,
but for one about to be marked, and that marking cannot race the test of the same
provider, which is probed once a pass. A token is taken only where there is room and given back
after the tunnel is closed, so `CountInv` bounds the tunnels too, and the loop never
waits for a slot, nor the end of a pass for the wait group, without a probe that is on
its way there. `LateInv` says that once a probe was launched after the cut no
slot is asked for again, since a turn of the loop tests the context before it asks.

`ProviderTunnelProofs`, for any number of window clients, undelivered events and
callers of `Close`:

| Theorem | States |
|---|---|
| `TypeCorrect` | `[]TypeOK` |
| `NoLossIsInvented` | `[]LossIsReal` |
| `CloseFinishes` | `[]CloseIsComplete` |
| `NoLossGoesUnnoticed` | `[]NoticeIsPending` |

The first two safety properties rest on the order of the teardown: the signal has its cause before the data
path is cut, so a callback or a pump that sees the cut comes too late to blame
anyone (`LossInv`), and each part has left its mark by the time the next one
begins (`CloseInv`). `NoticeIsPending` is the core of the liveness of the signal: a
provider that was seen and has left is signalled already, or about to be by the
teardown, or there is an event yet to be delivered. A callback that found the provider
there read the window before it left, so the event of its leaving comes after.

`ProbeRequestsProofs`, for any pools, places, sizes of samples, number of dials, hosts,
pins and chains:

| Theorem | States |
|---|---|
| `RequestTypeCorrect` | `[]RequestTypeOK` |
| `NoDialOutlivesItsRequest` | `[]RequestLeavesOnlyItsBody` |
| `ProbeMakesRequests` | a probe's requests are `RequestOwner`'s, step by step |
| `ProbeRequestsLeaveNothing` | `[]RequestLeavesOnlyItsBody` of the probe |
| `NoPinIsSkipped` | `[]ConnectionsAreVetted`: host allowed, and a pinned key in the chain |
| `OnlyTheOwnerCutsDials` | `[]DialsAreCutInTime` |
| `SamplesSuitThePlace` | `[]SampleSuitsThePlace` |
| `ChecksAreDrawnFairly` | `[]ChecksSuitThePlace`: the sample of a blackhole check |
| `ReportsReconcile` | `[]ScoresReconcile` |
| `SitesAreFailedFairly` | `[]SitesFailOnTheirOwn` |

`OwnerInv` says what closing settles: the lock is free from then on, so no dial is
between its test and its `Add`, and whoever is to be joined has joined before the
join looks. `VetInv` carries past each check of a dial what it found, which stays
true since a client and the target of a request do not change while it runs. What is
stated of `RequestSpec` holds of a probe's requests by `ProbeMakesRequests`.

The sample is a choice of indices of a table, in table order. A finite set of indices
has such a listing, and it is a bijection: shown by the smallest subset that has none
(the well-founded order of finite subsets, as a set and not as an operator). So
counting a class or a name in the sample is counting it in the table. The figures of a report
are sizes of sets of loads; the loads are split by how each ended, and sizes of
disjoint parts add up. That a site fails on its own rests on the client being opened
for the pool the sample was drawn from, with the pins of its hosts and no others.

`ProbeLifetimeProofs`, for any number of re-opens, targets and streams:

| Theorem | States |
|---|---|
| `ProbesLeaveNothing` | `[]ProbeLeavesNothing` |
| `SamplesAreHonest` | `[]SampleIsHonest` |
| `NoFigureIsUnreserved` | `[]FiguresAreReserved` |
| `ProbeTypeCorrect` | `[]TypeOK`, the sampler's variables included |

A body is open only in the hands of a stream (`BodyInv`), a tunnel only as the current
one or on its way out (`TunnelInv`), and the probe's own tunnel lives under the
probe's context alone (`FirstInv`). For a figure, `StreamInv` says what each stream
has read by where it is and `SampleInv` what that makes of the whole; the bytes of a
sample are the size of a set of pairs of a stream and a read of it, which turns the
sum over the streams into a cardinality with the cap as its bound. `ReserveInv` keeps
the account with the server: what was reserved is a whole number of samples, no fewer
than the figures submitted and the sample under way, no more than the targets looked
at.

`BlackholePoolProofs`, for any number of batches, workers and providers per batch,
and any reservation:

| Theorem | States |
|---|---|
| `TheWaitGroupCounts` | `[]EntriesMatchJobs` |
| `BatchesAreJoined` | `[]NothingOutlivesTheBatch` |
| `CutChecksAreNoVerdicts` | `[]CanceledIsNoVerdict` |
| `ReservationsAreKept` | `[]ReservedChecksAreMade` |
| `NobodyIsDropped` | `[]NoProviderDroppedUnnoticed` |
| `TypeCorrect` | `[]TypeOK` |
| `EveryCheckIsToldOnce` | `[]EventsTellResults`, and `[][EventStep]_vars` |
| `NobodyWaitsInVain` | `[]WaitsAreServed` of the submission and the join |

Workers write a batch its results without a lock, so the argument follows the
hands a provider is in. `OneHolder` says no two workers hold the same one, because
what is handed over next lies beyond all that were; `EntriesMatchJobs` counts those
hands, so that a batch that has joined has nothing in them (`Joins`); `Traced` says
that a provider handed over, which no edge cuts, is in a hand or has its result,
and `StopsForAReason` that the loop ended only at the end of the batch or at an
edge. Together they make what a batch reads complete. `Untouched` and `LateIsCut`
keep results from appearing before the check, or after its context. The same hands
carry the progress events (`EventsInHand`), so each check is told of in order and
once, and its last event is its result.

`ProberCommandProofs`, for any hosts, addresses and providers, any limit and cap
of the sweeps, and any number of pin sets:

| Theorem | States |
|---|---|
| `OnlyConfinedProcessesProbe` | `[]TunnelsNeedEvidence` |
| `TheExitCodeIsHonest` | `[]ExitCodeIsHonest` |
| `SweepingGoesOn` | `[]SweepingIsGivenUpForAReason` |
| `CommandTypeCorrect` | `[]TypeOK` |
| `SweepsAreBounded` | `[]SweepIsBounded`: rounds, batches and what is submitted |
| `PinsAreNeverDropped` | `PinsMoveForward`, an action property |

What holds while a tunnel is open was established several steps before, by a
check whose state is gone. So the invariant carries, past each check, what it
found (`Checked`), says the same of a sweeper once it was started (`Swept`), and
keeps through the confinement check that nothing dialed was reachable
(`Evidence`); `Judged` says which pass and exit code a step of `main` may see.
That sweeping stops only when refused rests on `RefusalHasAReason`, about what
the server may answer.

Its second part is about the budget of a run (`RetryBudget`), for any number of loads,
attempts and slots and any times:

| Theorem | States |
|---|---|
| `BudgetTypeCorrect` | `[]BudgetTypeOK`: the clock stops at the deadline |
| `DefaultBudgetKeepsSpacings` | `[]NoSpacingShortened` |
| `EnoughBudgetCutsNothing` | `[]NoRequestCut` |
| `EnoughBudgetCostsNoAttempt` | `[]EveryAttemptIsMade` |

`Begun(a)` and `Ended(a)` are the latest times at which an attempt begins and ends on a
budget that suffices, and `InTime` says that every load keeps them. What carries it is
`Waits`, a bound on the list schedule of the slots: loads take them in the order they
queued, so each time a request's timeout passes while a load waits for its attempt, a
slotful of loads has gone before it; after `Rounds` of them nobody is left. No order
of the loads is enumerated: the bound is on the size of one set, of those in front and
those in a slot.

The proofs assume of the constants only what the named assumptions say
(`ReopenLimitAssumption`, `PoolAssumption`, `SweepAssumption`, `CommandAssumption`,
`RunAssumption`, `PassAssumption`, `TunnelAssumption`, `RequestAssumption`,
`PoolDataAssumption`, `LifetimeAssumption`, `BandwidthAssumption`,
`BudgetAssumption`); TLC evaluates them in the runs. They put no upper bound on
anything but that sets are finite, and say what the code insists on: that there is a
worker (`NewBlackholeWorkerPool` refuses a concurrency of none), a slot, an attempt.

Every invariant and every action property that a run checks is proved, but for the
two that a run finds violated. Only model-checked are the liveness properties, since
fairness and ENABLED are beyond the prover: `EveryAskIsAnswered`, `CloseReturns`,
`RunReports`, `BatchesReturn`, `PassReturns`, `LossIsSignalled`, `ProbeReturns`,
`RoundTripReturns`, `RefusedSecretEndsTheWait` and `SweepsEnd`.

## Findings

- **A check that loaded nothing calls the provider dark** (`ProbeRequestsEmptySample`).
  `blackhole` starts from `all_destinations_failed` (`egresshealth/blackhole.go:121`)
  and takes it back when a result says otherwise. When every connectivity destination
  of the pool is incompatible with the provider's place there are no results, and
  the verdict stays, though its comment says that it means every sampled
  destination failed (`blackhole.go:57-58`), that a class too thin for a place is
  "the pool's signal, not the provider's" (`egresshealth/place.go:68-70`), and that
  0 of 0 checks "is not evidence of anything" (`egresshealth.go:1939-1940`).
  `ValidateDestinations` asks for a connectivity destination, compatible or not.
  `ChecksAreDrawnFairly` says that this is the only way to a verdict over no load.
- **The sample rides a dead tunnel** (`ProbeLifetimeSample`). A tunnel re-opened
  during the run is opened with the run's context, which ends with the run,
  before the sample that "rides the one that is up now"
  (`fleetprobe/full.go:223-224`).

Smaller things met on the way:

- A load can be handed a cold tunnel. `live` and `outcome` read `Current` again,
  unlocked, when the re-open they waited for is over; a second one may have
  swapped by then and not warmed up, which the comments of
  `egresshealth/path.go:83,114` exclude. `ColdOnlyBehindSecondReopen`, which is
  proved, says that this is the only way.
- A shorter budget can cost an attempt. The share of a wait leaves room for the
  requests to come, not for the time spent queueing for a slot, though
  `egresshealth/retry.go:147-150` says a shorter budget shortens waits and not
  attempts. It takes three attempts in one slot. Of a shorter budget
  `EveryAttemptIsMade` speaks only where every load has a slot.
- `Validate` accepts a connectivity destination that expects a plain 200 and looks
  at nothing of the body; a captive portal that answers 200 passes it.
- A budget with room for the requests and for nothing else leaves a share of zero, and
  `load` gives the remaining attempts up (`egresshealth/retry.go:161-164`) where the
  comment above says that waits are shortened. `NoQueue` asks for a unit per wait.
- `RunBudget` has no term for re-opens, so `NoSpacingShortened` is stated while
  no tunnel is lost.
- A startup pin fetch that a signal cuts exits 1, as a failed one does;
  `ExitCodeIsHonest` speaks of processes that have had their pins.
- `main` does not join the sweeper: a sweep that is under way when a single shot
  ends is cut with the process.
- A comment of `ingest/pins.go:94-96` says an empty set is refused upstream;
  `ValidatePins` accepts one.
- That a tunnel ends because the context it was opened with ended is reported by
  the external multi-client like any other end; `LossIsReal` is about the
  signal's cause.

## Not modelled

- **x509** (`providertunnel/pinning.go`): parsing, hashing of keys and verification
  against the roots. A chain that verified is the set of its keys.
- **`PinnedTlsConfig`**: the template has no host to check and the probes use
  `PinnedTlsConfigForHost`.
- **What makes one destination sound** (`Destination.Validate`), and the matchers of a
  response (`judge`): predicates of one entry or one response, which unit tests
  reach. A pool may be unsound and a load may end in any way.
- **Header profiles** of requests: data.
- **Punycode**: `net/http` asks to dial a non-ASCII host by its punycode, which the
  allowlist, made of the host as the pool spells it, would refuse.
  `Destination.Validate` does not exclude such a host and the built-in table has none.
  The hosts of `RequestOwner` are ASCII.
- **A change of the pins during a probe**: in `ProbeRequests` the set that the server
  serves is any one, and stays. `ProberCommand` has the changes between passes.
- **The rate window of a bandwidth sample**: arithmetic on timestamps of one stream,
  bounded by a predicate the code evaluates itself; the model has the bytes, the
  cap and the aborts.
- **Truncation of names and failure classes** (`ingest`), wire formats: conversions
  of one value.
- **Request stages, echo stages, progress names**: text for logs and errors.
- **`controlplane`**: builds http clients and keeps no state.
- **Option parsing and validation**: data, but for the flags that change the
  control flow (`-interval 0`, `-blackhole-interval`, a given jwt, addresses to
  dial, `-skip-confinement-check`).

## Plan

Done, in this order: the tracker over the path with its abstract specification
and proofs; the chains of a run and their clock; the worker pool; the pass; the
tunnel; the sample in its probe; the command with its sweeps; the requests of a
probe with their dials, pins, pool and sample; the proofs of every state machine,
the budget of a run and the sampler included.

What could follow:

1. Compositions: `BlackholePool` under `BlackholeSweeper`, in place of the checks a
   batch gave; `TunnelPath` as the tunnel of `HealthRun`, which already implements
   the `TunnelReplacement` used there; `HealthRun`'s outcomes as those of
   `DestinationPool`.
2. The rate window as a pure algorithm against a reference definition.
