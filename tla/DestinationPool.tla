---------------------------- MODULE DestinationPool ----------------------------
(***************************************************************************)
(* What one probe or check is made of before it loads anything, and what   *)
(* is made of its loads: the destination pool with its fallback (pool.go), *)
(* the split for a provider's place (place.go), the sample, and the        *)
(* figures, names and verdict reported (egresshealth.go, blackhole.go),    *)
(* with the allowlist and the pins of the tunnel (fleetprobe/*.go).        *)
(*                                                                         *)
(* A destination is a record of its name, class, host, the places it is    *)
(* incompatible with, whether it is marked a canary, and whether the rest  *)
(* of Destination.Validate finds it sound.  Countries and regions stand    *)
(* for their trimmed and case-folded spelling, "" for none.  What is left  *)
(* out of a table is a set of its indices.  A load is one step here: its   *)
(* retries are HealthRun's.                                                *)
(***************************************************************************)
EXTENDS Integers, Sequences, FiniteSets

CONSTANTS
  Builtin,              \* the compiled-in table
  ServedPools,          \* pools the server may answer with, sound or not
  Classes,              \* the classes of destinations
  SampleSizes,          \* class -> destinations drawn, where one is declared
  BlackholeSampleSize,
  Places,               \* where the provider may be published
  EchoHost,             \* the operator's /ip echo
  BandwidthHosts,       \* the targets of the bandwidth sample
  ServedPins            \* pin sets the server may serve: spelling -> leaf, intermediate

VARIABLES
  servedPins, \* the pin set in force
  phase,      \* "idle", "open", "drawn" or "reported"
  lane,       \* "health", or "blackhole" for the cheap check
  pool,       \* the pool the tunnel was opened against
  place,      \* where the provider is published
  whole,      \* Options.AllDestinations
  loads,      \* the destinations to load, in order
  short,      \* ShortClasses
  report      \* what came of the loads

poolVars == <<servedPins, phase, lane, pool, place, whole, loads, short, report>>

--------------------------------------------------------------------------------
\* Here and below, a definition that nothing uses states a plausible mistake in the
\* one after it.
\*
\* ValidateDestinations: one broken entry refuses the pool.
NamesMayRepeat(table) ==
  /\ table # << >>
  /\ \A i \in DOMAIN table : table[i].sound
  /\ \A c \in Classes : \E i \in DOMAIN table : table[i].class = c
Runnable(table) ==
  /\ table # << >>
  /\ \A i \in DOMAIN table : table[i].sound
  /\ \A i, j \in DOMAIN table : table[i].name = table[j].name => i = j
  /\ \A c \in Classes : \E i \in DOMAIN table : table[i].class = c

ASSUME PoolDataAssumption ==
  /\ Runnable(Builtin)
  /\ \A table \in ServedPools \cup {Builtin} : table \in Seq({table[i] : i \in DOMAIN table})
  /\ \A c \in DOMAIN SampleSizes : SampleSizes[c] \in Int
  /\ BlackholeSampleSize \in Nat

\* FetchPool has no pool when the server has none, does not answer, or answers with a
\* table that cannot be run; LoadPool then takes the compiled-in one.
NoPool            == << >>
FetchPool(answer) == IF Runnable(answer) THEN answer ELSE NoPool
LoadPool(answer)  == IF FetchPool(answer) = NoPool THEN Builtin ELSE FetchPool(answer)

\* What the pool source may return at a read: every pass refreshes it.
Sources == {LoadPool(answer) : answer \in ServedPools \cup {NoPool}}

\* Half a pin refuses the set; a whole one keeps its leaf and its intermediate.
Complete(served) == \A k \in DOMAIN served : "" \notin {served[k].leaf, served[k].intermediate}
ValidatePins(served) == [k \in DOMAIN served |-> {served[k].leaf, served[k].intermediate}]

HostsOf(table) == {table[i].host : i \in DOMAIN table}

OfClass(table, c) == {i \in DOMAIN table : table[i].class = c}

\* The hosts a tunnel may be dialed to, of all the table and not of one sample.
DialHosts(table, kind) ==
  IF kind = "health"
  THEN HostsOf(table) \cup {EchoHost} \cup BandwidthHosts
  ELSE {table[i].host : i \in OfClass(table, "connectivity")} \cup {EchoHost}

--------------------------------------------------------------------------------
\* An entry without a region is its whole country; an unknown country is covered by
\* nothing.
Covers(entry, p) ==
  /\ entry.country # "" /\ entry.country = p.country
  /\ entry.region \in {"", p.region}

IncompatibleWith(d, p) == \E entry \in d.incompatible : Covers(entry, p)

Compatible(table, p) == {i \in DOMAIN table : ~ IncompatibleWith(table[i], p)}
Canaries(table, p)   == {i \in DOMAIN table : IncompatibleWith(table[i], p) /\ table[i].canary}

\* How many of some entries of a table are of a class.
CountOf(table, picked, c) == Cardinality(picked \cap OfClass(table, c))

\* The declared size, or the whole class when it is smaller or none is declared.
SampleCount(total, c) ==
  IF c \notin DOMAIN SampleSizes THEN total
  ELSE IF SampleSizes[c] <= 0 \/ total < SampleSizes[c] THEN total
  ELSE SampleSizes[c]

\* The table cut down to some of its indices, in its order.
InTableOrder(table, picked) ==
  LET n == Cardinality(picked)
      order == CHOOSE f \in [1..n -> picked] : \A i, j \in 1..n : i < j => f[i] < f[j] IN
    [i \in 1..n |-> table[order[i]]]

\* sampleDestinations: any choice that gives every class its count.
Samples(table, compatible) ==
  {picked \in SUBSET compatible :
    \A c \in Classes :
      CountOf(table, picked, c) = SampleCount(CountOf(table, compatible, c), c)}

\* Check: canaries join the sample, by name and in the order of the table.
WithCanaries(table, chosen, canaries) ==
  IF canaries = {} THEN chosen
  ELSE {i \in DOMAIN table : \E j \in chosen \cup canaries : table[i].name = table[j].name}

ShortOf(table, compatible) ==
  {c \in Classes \cap DOMAIN SampleSizes : CountOf(table, compatible, c) < SampleSizes[c]}

DrawHealth(table) ==
  LET compatible == Compatible(table, place) IN
    /\ \E chosen \in IF whole THEN {compatible} ELSE Samples(table, compatible) :
         loads' = InTableOrder(table, WithCanaries(table, chosen, Canaries(table, place)))
    /\ short' = IF whole THEN {} ELSE ShortOf(table, compatible)

\* blackholeSample: connectivity only, and no canary.
DrawBlackhole(table) ==
  LET candidates == Compatible(table, place) \cap OfClass(table, "connectivity")
      there == Cardinality(candidates)
      size == IF there < BlackholeSampleSize THEN there ELSE BlackholeSampleSize IN
    /\ \E picked \in SUBSET candidates :
         Cardinality(picked) = size /\ loads' = InTableOrder(table, picked)
    /\ short' = IF size < BlackholeSampleSize THEN {"connectivity"} ELSE {}

--------------------------------------------------------------------------------
\* check, once the loads are in. A load is a canary for the place, not by its mark.
Marked(d)   == d.canary
IsCanary(d) == d.canary /\ IncompatibleWith(d, place)

Unreported == [kind |-> "none"]

\* How a load may end.
Ends == {"passed", "failed", "tls", "unmeasured"}

NamesOf(table, picked) == {table[i].name : i \in picked}

\* Result: the tally of a class, and the lists of names the server reads.
HealthReport(ends, echoTls) ==
  LET ended(how) == {i \in DOMAIN loads : ends[i] \in how}
      canaries   == {i \in DOMAIN loads : IsCanary(loads[i])}
      scored(c)  == {i \in ended(Ends \ {"unmeasured"}) \ canaries : loads[i].class = c} IN
    [kind |-> "health",
     total |-> [c \in Classes |-> Cardinality(scored(c))],
     ok |-> [c \in Classes |-> Cardinality(scored(c) \cap ended({"passed"}))],
     failedNames |-> NamesOf(loads, ended({"failed", "tls"}) \ canaries),
     notMeasuredNames |-> NamesOf(loads, ended({"unmeasured"}) \ canaries),
     canaryPassedNames |-> NamesOf(loads, ended({"passed"}) \cap canaries),
     canaryFailedNames |-> NamesOf(loads, ended({"failed", "tls"}) \cap canaries),
     tls |-> echoTls \/ ended({"tls"}) # {}]

\* blackhole: a failed authentication, anything that got through, nothing measured
\* though something was loaded, and otherwise dark.
BlackholeVerdict(ends, echoTls) ==
  LET some(end) == \E i \in DOMAIN ends : ends[i] = end IN
    IF echoTls \/ some("tls") THEN "tls"
    ELSE IF some("passed") THEN "carried"
    ELSE IF some("unmeasured") /\ ~ some("failed") THEN "unmeasured"
    ELSE "dark"

Judge ==
  /\ phase = "drawn"
  /\ phase' = "reported"
  /\ \/ lane = "health" /\ loads = << >> /\ report' = [kind |-> "refused"]
     \/ \E ends \in [DOMAIN loads -> Ends], echoTls \in BOOLEAN :
          \/ lane = "health" /\ loads # << >> /\ report' = HealthReport(ends, echoTls)
          \/ /\ lane = "blackhole"
             /\ report' = [kind |-> "blackhole", verdict |-> BlackholeVerdict(ends, echoTls)]
  /\ UNCHANGED <<servedPins, lane, pool, place, whole, loads, short>>

--------------------------------------------------------------------------------
\* What a tunnel is opened for: a full probe, sampled or not, or checkOne.
ForHealth    == lane' = "health" /\ whole' \in BOOLEAN
ForBlackhole == lane' = "blackhole" /\ whole' = FALSE

\* The tunnel is opened against what the source returns now, which the probe keeps.
CapturePool ==
  /\ phase = "idle"
  /\ phase' = "open"
  /\ ForHealth \/ ForBlackhole
  /\ place' \in Places
  /\ pool' \in Sources
  /\ UNCHANGED <<servedPins, loads, short, report>>

\* The run reads the pool that was captured, not the source, which may have changed.
AnyPool == Sources
RunPool == {pool}

Draw ==
  /\ phase = "open"
  /\ phase' = "drawn"
  /\ \E table \in RunPool : IF lane = "health" THEN DrawHealth(table) ELSE DrawBlackhole(table)
  /\ UNCHANGED <<servedPins, lane, pool, place, whole, report>>

NoPlace == [country |-> "", region |-> ""]

EndProbe ==
  /\ phase = "reported"
  /\ phase' = "idle" /\ lane' = "health" /\ pool' = << >> /\ place' = NoPlace /\ whole' = FALSE
  /\ loads' = << >> /\ short' = {} /\ report' = Unreported
  /\ UNCHANGED servedPins

PoolInit ==
  /\ \E served \in ServedPins : Complete(served) /\ servedPins = ValidatePins(served)
  /\ phase = "idle" /\ lane = "health" /\ pool = << >> /\ place = NoPlace /\ whole = FALSE
  /\ loads = << >> /\ short = {} /\ report = Unreported

--------------------------------------------------------------------------------
Declared(c) == c \in DOMAIN SampleSizes /\ SampleSizes[c] > 0

\* What is loaded suits the place of the provider and the pool the probe runs on,
\* and each destination is loaded once: of every class the size that is declared or
\* all there is, with the classes that fall short named; every canary of the place;
\* and no other incompatible site.
SampleSuitsThePlace ==
  phase = "drawn" /\ lane = "health" =>
    /\ Cardinality(NamesOf(loads, DOMAIN loads)) = Len(loads)
    /\ \A c \in Classes :
         LET there == CountOf(pool, Compatible(pool, place), c)
             drawn == CountOf(loads, Compatible(loads, place), c) IN
           IF whole \/ ~ Declared(c) THEN drawn = there /\ c \notin short
           ELSE /\ drawn = (IF there < SampleSizes[c] THEN there ELSE SampleSizes[c])
                /\ c \in short <=> drawn < SampleSizes[c]
    /\ \A i \in DOMAIN loads : IncompatibleWith(loads[i], place) => loads[i].canary
    /\ \A i \in Canaries(pool, place) : pool[i].name \in NamesOf(loads, DOMAIN loads)

\* The figures and the names of a report are of the same loads: of every class, each
\* compatible load is scored or not measured, marked a canary or not, and the failures
\* by name are the failures counted, so that a site's share of failures is of runs that
\* scored it; and a name that is a canary's is in no other list.
ScoresReconcile ==
  report.kind = "health" =>
    LET compatible == Compatible(loads, place) IN
    /\ \A c \in Classes :
         LET ofClass(names) == names \cap NamesOf(loads, compatible \cap OfClass(loads, c)) IN
           /\ CountOf(loads, compatible, c) =
                report.total[c] + Cardinality(ofClass(report.notMeasuredNames))
           /\ report.total[c] = report.ok[c] + Cardinality(ofClass(report.failedNames))
    /\ report.failedNames \cup report.notMeasuredNames \subseteq NamesOf(loads, compatible)
    /\ report.canaryPassedNames \cap report.canaryFailedNames = {}
    /\ (report.canaryPassedNames \cup report.canaryFailedNames) \cap NamesOf(loads, compatible) = {}

\* A check is a verdict about the provider only if something was loaded: egresshealth.go
\* says that 0 of 0 checks is not evidence of anything, and blackhole.go that a failure
\* means every sampled destination failed.
NoVerdictWithoutALoad ==
  report.kind = "blackhole" /\ report.verdict = "dark" => loads # << >>
================================================================================
