--------------------------- MODULE ProbeRequestsProofs ---------------------------
(***************************************************************************)
(* What holds of a probe's sample, its report and its requests, for any    *)
(* pools, pins, places, sizes of samples and number of dials.              *)
(*                                                                         *)
(* Requests: the invariant says when the owner is closed and what that     *)
(* settles: the lock is free from then on, so no dial is between the check *)
(* and the Add, and whoever is to be joined has joined before the join     *)
(* looks.                                                                  *)
(* Samples: a subset of a table is listed in table order by a bijection,   *)
(* so that counts of the sample are counts of the table; which needs that  *)
(* a finite set of indices has a last one and an order, by the smallest    *)
(* set that has none.                                                      *)
(* Reports: the loads are split by how each ended, and every figure of the *)
(* report is the size of a part.                                           *)
(* Sites: the tunnel is opened for the pool the loads are drawn from, and  *)
(* with the pins of its hosts.                                             *)
(***************************************************************************)
EXTENDS ProbeRequests, FiniteSetTheorems, WellFoundedInduction, TLAPS

OwnerInv ==
  /\ closed => stage \in {"canceling", "joining", "returned"}
  /\ stage \in {"canceling", "joining", "returned"} => closed
  /\ closed => lock = "free"
  /\ stage = "returned" => \A d \in Dials :
       pc[d] \notin {"joined", "armed", "dialing", "handshake"}
  /\ \A d \in Dials : pc[d] = "cut" => reqDone

InDial == {"asked", "adding", "joined", "armed", "dialing", "handshake", "handed",
           "claimed", "refused", "policy", "failed", "tls", "pin", "none", "shut", "cut"}

\* What a move of one dial does to the places of all of them.
LEMMA MoveOnly ==
  ASSUME RequestTypeOK, NEW d \in Dials, NEW from, NEW to \in InDial, Move(d, from, to)
  PROVE  /\ pc' \in [Dials -> InDial]
         /\ pc[d] = from /\ pc'[d] = to
         /\ \A e \in Dials \ {d} : pc'[e] = pc[e]
  BY DEF RequestTypeOK, Move, InDial, Settled, Failures

LEMMA PlacesAre == {"asked", "adding", "joined", "armed", "dialing", "handshake", "handed",
                    "claimed"} \cup Settled = InDial
  BY DEF InDial, Settled, Failures

LEMMA RequestInitInv == RequestInit => RequestTypeOK /\ OwnerInv
  BY RequestAssumption DEF RequestInit, RequestTypeOK, OwnerInv, Settled, Failures

LEMMA StutterInv ==
  ASSUME RequestTypeOK, OwnerInv,
         UNCHANGED <<target, stage, reqDone, closed, cancelled, lock, pc, cut, chain>>
  PROVE  RequestTypeOK' /\ OwnerInv'
  BY DEF RequestTypeOK, OwnerInv

\* The dials, under the owner's lock and after it.
LEMMA DialStepInv ==
  ASSUME RequestTypeOK, OwnerInv, NEW d \in Dials, DialStep(d)
  PROVE  RequestTypeOK' /\ OwnerInv'
<1>1. CASE CheckOwner(d)
  <2>1. CASE MayEnter /\ Move(d, "asked", "adding") /\ lock' = d
    BY <1>1, <2>1, MoveOnly, PlacesAre, RequestAssumption
    DEF CheckOwner, MayEnter, RequestTypeOK, OwnerInv, InDial
  <2>2. CASE ~ MayEnter /\ Move(d, "asked", "refused") /\ UNCHANGED lock
    BY <1>1, <2>2, MoveOnly, PlacesAre
    DEF CheckOwner, RequestTypeOK, OwnerInv, InDial
  <2> QED BY <1>1, <2>1, <2>2 DEF CheckOwner
<1>2. CASE EnterDial(d)
  BY <1>2, MoveOnly, PlacesAre, RequestAssumption
  DEF EnterDial, RequestTypeOK, OwnerInv, InDial
<1>3. CASE ArmDial(d)
  BY <1>3, MoveOnly, PlacesAre DEF ArmDial, RequestTypeOK, OwnerInv, InDial
<1>4. CASE Propagate(d)
  BY <1>4 DEF Propagate, RequestTypeOK, OwnerInv
<1>5. CASE CheckHost(d)
  BY <1>5, MoveOnly, PlacesAre DEF CheckHost, RequestTypeOK, OwnerInv, InDial
<1>6. CASE EndDial(d)
  BY <1>6, MoveOnly, PlacesAre DEF EndDial, RequestTypeOK, OwnerInv, InDial
<1>7. CASE EndHandshake(d)
  <2>1. chain' \in [Dials -> Chains \cup {{}}]
    BY <1>7 DEF EndHandshake, RequestTypeOK
  <2>2. PICK to \in {"tls", "handed", "pin"} : Move(d, "handshake", to)
    BY <1>7 DEF EndHandshake
  <2> QED
    BY <1>7, <2>1, <2>2, MoveOnly, PlacesAre
    DEF EndHandshake, RequestTypeOK, OwnerInv, InDial
<1> QED BY <1>1, <1>2, <1>3, <1>4, <1>5, <1>6, <1>7 DEF DialStep

\* The transport's own steps touch no dial the owner has admitted.
LEMMA TransportStepInv ==
  ASSUME RequestTypeOK, OwnerInv, NEW d \in Dials, TransportStep(d)
  PROVE  RequestTypeOK' /\ OwnerInv'
<1>1. CASE AskDial(d)
  BY <1>1, MoveOnly, PlacesAre DEF AskDial, RequestTypeOK, OwnerInv, InDial
<1>2. CASE Claim(d)
  BY <1>2, MoveOnly, PlacesAre DEF Claim, RequestTypeOK, OwnerInv, InDial
<1>3. CASE CloseUnclaimed(d)
  BY <1>3, MoveOnly, PlacesAre DEF CloseUnclaimed, RequestTypeOK, OwnerInv, InDial
<1>4. CASE CutBody(d)
  BY <1>4, MoveOnly, PlacesAre DEF CutBody, BodyContextDone, RequestTypeOK, OwnerInv, InDial
<1>5. CASE CloseBody(d)
  BY <1>5, MoveOnly, PlacesAre DEF CloseBody, RequestTypeOK, OwnerInv, InDial
<1> QED BY <1>1, <1>2, <1>3, <1>4, <1>5 DEF TransportStep

\* The end of the request: closed under the lock, and the join has found nobody.
LEMMA OwnerStepInv ==
  ASSUME RequestTypeOK, OwnerInv, Return \/ OwnerStep \/ EndRequest \/ Forget
  PROVE  RequestTypeOK' /\ OwnerInv'
<1>1. CASE Return
  <2>1. /\ pc' \in [Dials -> InDial]
        /\ \A d \in Dials : pc'[d] = pc[d] \/ (pc[d] = "claimed" /\ pc'[d] = "shut")
    BY <1>1, PlacesAre DEF Return, RequestTypeOK, InDial
  <2> QED BY <1>1, <2>1, PlacesAre DEF Return, RequestTypeOK, OwnerInv, InDial
<1>2. CASE CloseOwner
  BY <1>2 DEF CloseOwner, RequestTypeOK, OwnerInv
<1>3. CASE CancelOwner
  BY <1>3 DEF CancelOwner, RequestTypeOK, OwnerInv
<1>4. CASE JoinDials
  BY <1>4 DEF JoinDials, Joined, RequestTypeOK, OwnerInv
<1>5. CASE EndRequest
  BY <1>5 DEF EndRequest, RequestTypeOK, OwnerInv
<1>6. CASE Forget
  <2>1. \A d \in Dials : pc[d] # "adding"
    BY <1>6 DEF Forget, Settled, Failures
  <2>2. lock = "free"
    BY <2>1 DEF RequestTypeOK
  <2> QED
    BY <1>6, <2>2, RequestAssumption
    DEF Forget, RequestTypeOK, OwnerInv, Settled, Failures
<1> QED BY <1>1, <1>2, <1>3, <1>4, <1>5, <1>6 DEF OwnerStep

LEMMA RequestNextInv ==
  ASSUME RequestTypeOK, OwnerInv, [RequestNext]_requestVars
  PROVE  RequestTypeOK' /\ OwnerInv'
<1>1. CASE RequestStep
  BY <1>1, DialStepInv, TransportStepInv, OwnerStepInv DEF RequestStep
<1>2. CASE \E host : Start(host)
  BY <1>2 DEF Start, RequestTypeOK, OwnerInv
<1>3. CASE UNCHANGED <<target, stage, reqDone, closed, cancelled, lock, pc, cut, chain>>
  BY <1>3, StutterInv
<1> QED BY <1>1, <1>2, <1>3 DEF RequestNext, requestVars

\* Every variable of a request keeps its type, and the owner's lock is held by the
\* dial that is between its check and its Add (http_request_owner.go:54-75).
THEOREM RequestTypeCorrect == RequestSpec => []RequestTypeOK
<1>1. RequestInit => RequestTypeOK /\ OwnerInv
  BY RequestInitInv
<1>2. RequestTypeOK /\ OwnerInv /\ [RequestNext]_requestVars => RequestTypeOK' /\ OwnerInv'
  BY RequestNextInv
<1> QED BY <1>1, <1>2, PTL DEF RequestSpec

\* However many dials the transport makes for a request and however late they ask, the
\* RoundTrip that returns leaves none of them behind, and its owner's end cuts no body.
THEOREM NoDialOutlivesItsRequest == RequestSpec => []RequestLeavesOnlyItsBody
<1>1. RequestInit => RequestTypeOK /\ OwnerInv
  BY RequestInitInv
<1>2. RequestTypeOK /\ OwnerInv /\ [RequestNext]_requestVars => RequestTypeOK' /\ OwnerInv'
  BY RequestNextInv
<1>3. RequestTypeOK /\ OwnerInv => RequestLeavesOnlyItsBody
  <2> SUFFICES ASSUME RequestTypeOK, OwnerInv PROVE RequestLeavesOnlyItsBody
    OBVIOUS
  <2>1. ASSUME stage = "returned", NEW d \in Dials PROVE pc[d] # "adding"
    BY <2>1, RequestAssumption DEF RequestTypeOK, OwnerInv
  <2> QED BY <2>1 DEF OwnerInv, RequestLeavesOnlyItsBody
<1> QED BY <1>1, <1>2, <1>3, PTL DEF RequestSpec

\* A probe has a request under way only between its draw and its report.
NoRequestUnlessDrawn == phase # "drawn" => stage = "idle"

LEMMA RequestStepStarts ==
  ASSUME RequestStep, stage = "idle" PROVE stage' = "idle"
<1>1. CASE \E d \in Dials : DialStep(d) \/ TransportStep(d)
  BY <1>1 DEF DialStep, TransportStep, CheckOwner, EnterDial, ArmDial, Propagate, CheckHost,
     EndDial, EndHandshake, AskDial, Claim, CloseUnclaimed, CutBody, CloseBody
<1>2. CASE Return \/ OwnerStep \/ EndRequest \/ Forget
  BY <1>2 DEF Return, OwnerStep, CloseOwner, CancelOwner, JoinDials, EndRequest, Forget
<1> QED BY <1>1, <1>2 DEF RequestStep

LEMMA BetweenRequests == Spec => []NoRequestUnlessDrawn
<1>1. Init => NoRequestUnlessDrawn
  BY DEF Init, RequestInit, NoRequestUnlessDrawn
<1>2. NoRequestUnlessDrawn /\ [Next]_vars => NoRequestUnlessDrawn'
  <2> SUFFICES ASSUME NoRequestUnlessDrawn, [Next]_vars PROVE NoRequestUnlessDrawn'
    OBVIOUS
  <2>1. CASE OpenProbe
    BY <2>1 DEF OpenProbe, NoRequestUnlessDrawn
  <2>2. CASE DrawLoads
    BY <2>2 DEF DrawLoads, Draw, NoRequestUnlessDrawn
  <2>3. CASE Load
    BY <2>3 DEF Load, poolVars, NoRequestUnlessDrawn
  <2>4. CASE RideOn
    BY <2>4, RequestStepStarts DEF RideOn, poolVars, NoRequestUnlessDrawn
  <2>5. CASE ReportLoads
    BY <2>5 DEF ReportLoads, requestVars, NoRequestUnlessDrawn
  <2>6. CASE CloseProbe
    BY <2>6 DEF CloseProbe, EndProbe, NoRequestUnlessDrawn
  <2>7. CASE UNCHANGED vars
    BY <2>7 DEF vars, poolVars, requestVars, NoRequestUnlessDrawn
  <2> QED BY <2>1, <2>2, <2>3, <2>4, <2>5, <2>6, <2>7 DEF Next
<1> QED BY <1>1, <1>2, PTL DEF Spec

\* A probe makes its requests as RequestOwner says: opening a tunnel and closing it
\* replace the client between requests, and drawing and reporting touch no request.
THEOREM ProbeMakesRequests == Spec => RequestSpec
<1>1. Init => RequestInit
  BY DEF Init
<1>2. NoRequestUnlessDrawn /\ [Next]_vars => [RequestNext]_requestVars
  <2> SUFFICES ASSUME NoRequestUnlessDrawn, [Next]_vars PROVE [RequestNext]_requestVars
    OBVIOUS
  <2>1. CASE OpenProbe
    BY <2>1 DEF OpenProbe, RequestNext
  <2>2. CASE DrawLoads
    BY <2>2 DEF DrawLoads
  <2>3. CASE Load
    BY <2>3 DEF Load, RequestNext
  <2>4. CASE RideOn
    BY <2>4 DEF RideOn, RequestNext
  <2>5. CASE ReportLoads
    BY <2>5 DEF ReportLoads
  <2>6. CASE CloseProbe
    BY <2>6 DEF CloseProbe, EndProbe, NoRequestUnlessDrawn, RequestNext
  <2>7. CASE UNCHANGED vars
    BY <2>7 DEF vars
  <2> QED BY <2>1, <2>2, <2>3, <2>4, <2>5, <2>6, <2>7 DEF Next
<1> QED BY <1>1, <1>2, BetweenRequests, PTL DEF Spec, RequestSpec

\* So the requests of a probe leave nothing behind but the bodies of their responses.
THEOREM ProbeRequestsLeaveNothing == Spec => []RequestLeavesOnlyItsBody
BY ProbeMakesRequests, NoDialOutlivesItsRequest, PTL

--------------------------------------------------------------------------------
\* Finite sets and orders.

\* Among subsets of a finite set, some are minimal: induction on a set, as an absurd
\* smallest counterexample.
LEMMA SmallestSubset ==
  ASSUME NEW S, IsFiniteSet(S), NEW Bad \in SUBSET (SUBSET S), Bad # {}
  PROVE  \E T \in Bad : \A U \in SUBSET T : U # T => U \notin Bad
<1>1. IsWellFoundedOn(StrictSubsetOrdering(S), SUBSET S)
  BY FS_StrictSubsetOrderingWellFounded, FS_FiniteSubsetsOfFinite
<1>2. PICK T \in Bad : \A U \in Bad : ~ (<<U, T>> \in StrictSubsetOrdering(S))
  BY <1>1, WFMin
<1>3. ASSUME NEW U \in SUBSET T, U # T, U \in Bad PROVE FALSE
  <2>1. U \in SUBSET S /\ T \in SUBSET S
    BY <1>3
  <2>2. <<U, T>> \in StrictSubsetOrdering(S)
    BY <1>3, <2>1 DEF StrictSubsetOrdering
  <2> QED BY <1>2, <1>3, <2>2
<1> QED BY <1>2, <1>3

LEMMA HasLast ==
  ASSUME NEW S \in SUBSET Int, IsFiniteSet(S), S # {}
  PROVE  \E m \in S : \A k \in S : k <= m
<1> DEFINE Bad == {T \in SUBSET S : T # {} /\ ~ \E m \in T : \A k \in T : k <= m}
<1>1. SUFFICES ASSUME Bad # {} PROVE FALSE
  OBVIOUS
<1>2. PICK T \in Bad : \A U \in SUBSET T : U # T => U \notin Bad
  <2>1. Bad \in SUBSET (SUBSET S)
    OBVIOUS
  <2> HIDE DEF Bad
  <2> QED BY <1>1, <2>1, SmallestSubset
<1>3. PICK x \in T : TRUE
  BY <1>2
<1>4. CASE T \ {x} = {}
  BY <1>2, <1>3, <1>4
<1>5. CASE T \ {x} # {}
  <2>1. T \ {x} \notin Bad /\ T \ {x} \in SUBSET S
    BY <1>2, <1>3
  <2>2. PICK m \in T \ {x} : \A k \in T \ {x} : k <= m
    BY <1>5, <2>1
  <2>3. x \in Int /\ m \in Int /\ \A k \in T : k \in Int
    BY <1>2, <1>3, <2>2
  <2>4. CASE x <= m
    BY <1>2, <2>2, <2>3, <2>4
  <2>5. CASE m <= x
    <3>1. \A k \in T : k <= x
      BY <2>2, <2>3, <2>5
    <3> QED BY <1>2, <1>3, <3>1
  <2> QED BY <2>3, <2>4, <2>5
<1> QED BY <1>4, <1>5

Increasing(S) ==
  {f \in [1..Cardinality(S) -> S] : \A i, j \in 1..Cardinality(S) : i < j => f[i] < f[j]}

LEMMA HasOrder ==
  ASSUME NEW S \in SUBSET Int, IsFiniteSet(S)
  PROVE  Increasing(S) # {}
<1> DEFINE Bad == {T \in SUBSET S : Increasing(T) = {}}
<1>1. SUFFICES ASSUME Bad # {} PROVE FALSE
  OBVIOUS
<1>2. PICK T \in Bad : \A U \in SUBSET T : U # T => U \notin Bad
  <2>1. Bad \in SUBSET (SUBSET S)
    OBVIOUS
  <2> HIDE DEF Bad
  <2> QED BY <1>1, <2>1, SmallestSubset
<1>3. T \in SUBSET Int /\ IsFiniteSet(T) /\ Increasing(T) = {}
  BY <1>2, FS_Subset
<1>4. CASE T = {}
  <2>1. Cardinality(T) = 0
    BY <1>4, FS_EmptySet
  <2>2. [i \in 1..0 |-> 0] \in Increasing(T)
    BY <2>1 DEF Increasing
  <2> QED BY <1>3, <2>2
<1>5. CASE T # {}
  <2>1. PICK m \in T : \A k \in T : k <= m
    BY <1>3, <1>5, HasLast
  <2>2. Increasing(T \ {m}) # {}
    BY <1>2, <2>1
  <2> DEFINE n == Cardinality(T)
  <2>3. n \in Nat /\ Cardinality(T \ {m}) = n - 1 /\ n - 1 \in Nat
    <3>1. IsFiniteSet(T \ {m}) /\ Cardinality(T \ {m}) = n - 1
      BY <1>3, <2>1, FS_RemoveElement
    <3> QED BY <1>3, <3>1, FS_CardinalityType
  <2>4. PICK g \in [1..(n - 1) -> T \ {m}] : \A i, j \in 1..(n - 1) : i < j => g[i] < g[j]
    BY <2>2, <2>3 DEF Increasing
  <2> DEFINE f == [i \in 1..n |-> IF i = n THEN m ELSE g[i]]
  <2>5. f \in [1..n -> T]
    BY <2>1, <2>3, <2>4
  <2>6. ASSUME NEW i \in 1..n, NEW j \in 1..n, i < j PROVE f[i] < f[j]
    <3>1. i \in 1..(n - 1) /\ f[i] = g[i] /\ g[i] \in T \ {m}
      BY <2>3, <2>4, <2>6
    <3>2. CASE j = n
      <4>1. f[j] = m /\ g[i] <= m /\ g[i] # m /\ g[i] \in Int /\ m \in Int
        BY <1>3, <2>1, <3>1, <3>2
      <4> QED BY <3>1, <4>1
    <3>3. CASE j # n
      <4>1. j \in 1..(n - 1) /\ f[j] = g[j]
        BY <2>3, <2>6, <3>3
      <4> QED BY <2>4, <2>6, <3>1, <4>1
    <3> QED BY <3>2, <3>3
  <2>7. f \in Increasing(T)
    <3> HIDE DEF f, n
    <3> QED BY <2>5, <2>6 DEF Increasing, n
  <2> QED BY <1>3, <2>7
<1> QED BY <1>4, <1>5

\* A table cut down to some of its indices goes through each of them once.
LEMMA InTableOrderIs ==
  ASSUME NEW table, NEW picked \in SUBSET Int, IsFiniteSet(picked)
  PROVE  \E f \in Bijection(1..Cardinality(picked), picked) :
           InTableOrder(table, picked) = [i \in 1..Cardinality(picked) |-> table[f[i]]]
<1> DEFINE n == Cardinality(picked)
           order == CHOOSE f \in [1..n -> picked] : \A i, j \in 1..n : i < j => f[i] < f[j]
<1>1. \E f \in [1..n -> picked] : \A i, j \in 1..n : i < j => f[i] < f[j]
  BY HasOrder DEF Increasing
<1>2. order \in [1..n -> picked] /\ \A i, j \in 1..n : i < j => order[i] < order[j]
  BY <1>1
<1>3. n \in Nat
  BY FS_CardinalityType
<1>4. IsFiniteSet(1..n) /\ Cardinality(1..n) = n
  BY <1>3, FS_Interval
<1> HIDE DEF order, n
<1>5. order \in Injection(1..n, picked)
  <2>1. ASSUME NEW i \in 1..n, NEW j \in 1..n, order[i] = order[j] PROVE i = j
    <3>1. i \in Int /\ j \in Int
      BY <1>3
    <3>2. order[i] \in picked
      BY <1>2
    <3>3. order[i] \in Int
      BY <3>2
    <3>4. ~ (order[i] < order[j]) /\ ~ (order[j] < order[i])
      BY <2>1, <3>3
    <3>5. ~ (i < j) /\ ~ (j < i)
      BY <1>2, <3>4
    <3> QED BY <3>1, <3>5
  <2> QED BY <1>2, <2>1 DEF Injection, IsInjective
<1>6. order \in Surjection(1..n, picked)
  BY <1>4, <1>5, FS_Injection DEF n
<1>7. InTableOrder(table, picked) = [i \in 1..n |-> table[order[i]]]
  BY DEF InTableOrder, order, n
<1> QED BY <1>5, <1>6, <1>7 DEF Bijection, n

\* What one-to-one pairs up has the same count.
LEMMA SameCount ==
  ASSUME NEW S, NEW T, NEW f \in Bijection(S, T), IsFiniteSet(S),
         NEW A \in SUBSET S, NEW B \in SUBSET T, \A x \in S : x \in A <=> f[x] \in B
  PROVE  Cardinality(A) = Cardinality(B)
<1> DEFINE g == [x \in A |-> f[x]]
<1>1. g \in [A -> B]
  BY DEF Bijection, Injection, IsInjective
<1>2. g \in Injection(A, B)
  BY <1>1 DEF Bijection, Injection, IsInjective
<1>3. g \in Surjection(A, B)
  BY <1>1 DEF Bijection, Injection, IsInjective, Surjection
<1>4. IsFiniteSet(A)
  BY FS_Subset
<1> QED BY <1>2, <1>3, <1>4, FS_Bijection DEF Bijection, ExistsBijection

--------------------------------------------------------------------------------
\* Tables and what is drawn from them.

\* A table or a sample of one: finitely many entries, told apart by their names.
IsTable(table) ==
  /\ DOMAIN table \subseteq Int /\ IsFiniteSet(DOMAIN table)
  /\ \A i, j \in DOMAIN table : table[i].name = table[j].name => i = j

\* Whatever the server answers, the pool source returns a table.
LEMMA SourcesAreTables ==
  ASSUME NEW table \in Sources PROVE IsTable(table)
<1>1. table \in ServedPools \cup {Builtin} /\ Runnable(table)
  BY PoolDataAssumption DEF Sources, LoadPool, FetchPool, NoPool, Runnable
<1>2. table \in Seq({table[i] : i \in DOMAIN table})
  BY <1>1, PoolDataAssumption
<1>3. DOMAIN table = 1..Len(table) /\ Len(table) \in Nat
  BY <1>2
<1>4. IsFiniteSet(1..Len(table)) /\ 1..Len(table) \subseteq Int
  BY <1>3, FS_Interval
<1>5. \A i, j \in DOMAIN table : table[i].name = table[j].name => i = j
  BY <1>1 DEF Runnable
<1> QED BY <1>3, <1>4, <1>5 DEF IsTable

\* What the loads are of the table they are drawn from.
PairsUp(part, table, picked, f) ==
  /\ f \in Bijection(DOMAIN part, picked)
  /\ \A i \in DOMAIN part : part[i] = table[f[i]]

LEMMA CutTable ==
  ASSUME NEW table, IsTable(table), NEW picked \in SUBSET DOMAIN table
  PROVE  LET part == InTableOrder(table, picked) IN
         /\ DOMAIN part = 1..Len(part) /\ Len(part) = Cardinality(picked)
         /\ IsTable(part)
         /\ \E f : PairsUp(part, table, picked, f)
<1> DEFINE part == InTableOrder(table, picked)  n == Cardinality(picked)
<1>1. IsFiniteSet(picked) /\ picked \in SUBSET Int /\ n \in Nat
  BY FS_Subset, FS_CardinalityType DEF IsTable
<1>2. PICK f \in Bijection(1..n, picked) : part = [i \in 1..n |-> table[f[i]]]
  BY <1>1, InTableOrderIs
<1> HIDE DEF part, n
<1>3. DOMAIN part = 1..n /\ Len(part) = n
  BY <1>1, <1>2
<1>4. f \in [1..n -> picked] /\ \A i, j \in 1..n : f[i] = f[j] => i = j
  BY <1>2 DEF Bijection, Injection, IsInjective
<1>5. ASSUME NEW i \in DOMAIN part, NEW j \in DOMAIN part, part[i].name = part[j].name
      PROVE  i = j
  <2>1. part[i] = table[f[i]] /\ part[j] = table[f[j]]
    BY <1>2, <1>3, <1>5
  <2>2. f[i] = f[j]
    BY <1>3, <1>4, <1>5, <2>1 DEF IsTable
  <2> QED BY <1>3, <1>4, <2>2
<1>6. IsFiniteSet(DOMAIN part) /\ DOMAIN part \subseteq Int
  BY <1>1, <1>3, FS_Interval
<1>7. PairsUp(part, table, picked, f)
  BY <1>2, <1>3 DEF PairsUp
<1> QED BY <1>3, <1>5, <1>6, <1>7 DEF part, n, IsTable

\* Names count as the entries they are of.
LEMMA NamesCount ==
  ASSUME NEW table, IsTable(table), NEW A \in SUBSET DOMAIN table
  PROVE  IsFiniteSet(A) /\ Cardinality(NamesOf(table, A)) = Cardinality(A)
<1> DEFINE f == [i \in A |-> table[i].name]
<1>1. f \in [A -> NamesOf(table, A)] /\ \A i \in A : f[i] = table[i].name
  BY DEF NamesOf
<1>2. f \in Bijection(A, NamesOf(table, A))
  BY <1>1 DEF NamesOf, IsTable, Bijection, Injection, Surjection, IsInjective
<1>3. IsFiniteSet(A)
  BY FS_Subset DEF IsTable
<1> QED BY <1>2, <1>3, FS_Bijection DEF ExistsBijection

\* Of the loads, as many are of a class and a kind as were picked of the table.
LEMMA CompatibleCount ==
  ASSUME NEW table, IsTable(table), NEW part, IsTable(part), NEW p, NEW c,
         NEW picked \in SUBSET DOMAIN table, NEW f, PairsUp(part, table, picked, f)
  PROVE  CountOf(part, Compatible(part, p), c) = CountOf(table, picked \cap Compatible(table, p), c)
<1> DEFINE A == Compatible(part, p) \cap OfClass(part, c)
           B == (picked \cap Compatible(table, p)) \cap OfClass(table, c)
<1>1. A \in SUBSET DOMAIN part /\ B \in SUBSET picked
  BY DEF Compatible
<1>2. f \in [DOMAIN part -> picked]
  BY DEF PairsUp, Bijection, Injection
<1>3. \A i \in DOMAIN part : i \in A <=> f[i] \in B
  BY <1>2 DEF PairsUp, Compatible, OfClass
<1>4. f \in Bijection(DOMAIN part, picked) /\ IsFiniteSet(DOMAIN part)
  BY DEF PairsUp, IsTable
<1> HIDE DEF A, B
<1>5. Cardinality(A) = Cardinality(B)
  BY <1>1, <1>3, <1>4, SameCount
<1> QED BY <1>5 DEF A, B, CountOf

--------------------------------------------------------------------------------
\* What the draw of a health run leaves in loads and short.
DrawnForHealth(chosen) ==
  /\ chosen \in SUBSET Compatible(pool, place)
  /\ loads = InTableOrder(pool, chosen \cup Canaries(pool, place))
  /\ IF whole THEN chosen = Compatible(pool, place) /\ short = {}
     ELSE /\ chosen \in Samples(pool, Compatible(pool, place))
          /\ short = ShortOf(pool, Compatible(pool, place))

\* A probe keeps the table it captured, and its loads are of that table.
PoolInv ==
  /\ phase \in {"idle", "open", "drawn", "reported"}
  /\ phase # "idle" => pool \in Sources
  /\ phase = "drawn" /\ lane = "health" => \E chosen : DrawnForHealth(chosen)
  /\ phase = "drawn" => HostsOf(loads) \subseteq DialHosts(pool, lane)

\* By name or by index, the canaries join the sample alike.
LEMMA CanariesJoin ==
  ASSUME NEW table, IsTable(table), NEW chosen \in SUBSET DOMAIN table,
         NEW canaries \in SUBSET DOMAIN table
  PROVE  WithCanaries(table, chosen, canaries) = chosen \cup canaries
BY DEF WithCanaries, IsTable

LEMMA LoadsOfTable ==
  ASSUME NEW table, IsTable(table), NEW picked \in SUBSET DOMAIN table
  PROVE  HostsOf(InTableOrder(table, picked)) \subseteq {table[i].host : i \in picked}
<1> DEFINE part == InTableOrder(table, picked)
<1>1. PICK f : PairsUp(part, table, picked, f)
  BY CutTable
<1>2. f \in [DOMAIN part -> picked]
  BY <1>1 DEF PairsUp, Bijection, Injection
<1> HIDE DEF part
<1>3. HostsOf(part) \subseteq {table[i].host : i \in picked}
  BY <1>1, <1>2 DEF PairsUp, HostsOf
<1> QED BY <1>3 DEF part

LEMMA DrawInv ==
  ASSUME PoolInv, Draw
  PROVE  PoolInv'
<1>1. /\ phase = "open" /\ phase' = "drawn" /\ UNCHANGED <<lane, pool, place, whole>>
      /\ pool \in Sources /\ IsTable(pool)
      /\ IF lane = "health" THEN DrawHealth(pool) ELSE DrawBlackhole(pool)
  BY SourcesAreTables DEF Draw, RunPool, PoolInv
<1>2. CASE lane = "health"
  <2> DEFINE compatible == Compatible(pool, place)
  <2>1. PICK chosen \in IF whole THEN {compatible} ELSE Samples(pool, compatible) :
          loads' = InTableOrder(pool, WithCanaries(pool, chosen, Canaries(pool, place)))
    BY <1>1, <1>2 DEF DrawHealth
  <2>2. /\ chosen \in SUBSET compatible /\ compatible \subseteq DOMAIN pool
        /\ Canaries(pool, place) \subseteq DOMAIN pool
    BY <2>1 DEF Samples, Compatible, Canaries
  <2>3. loads' = InTableOrder(pool, chosen \cup Canaries(pool, place))
    <3>1. chosen \in SUBSET DOMAIN pool /\ Canaries(pool, place) \in SUBSET DOMAIN pool
      BY <2>2
    <3>2. WithCanaries(pool, chosen, Canaries(pool, place)) = chosen \cup Canaries(pool, place)
      BY <1>1, <3>1, CanariesJoin
    <3> QED BY <2>1, <3>2
  <2>4. short' = IF whole THEN {} ELSE ShortOf(pool, compatible)
    BY <1>1, <1>2 DEF DrawHealth
  <2>5. DrawnForHealth(chosen)'
    BY <1>1, <2>1, <2>2, <2>3, <2>4 DEF DrawnForHealth, Compatible, Canaries, Samples, ShortOf, CountOf,
       OfClass
  <2>6. HostsOf(loads') \subseteq HostsOf(pool)
    <3>1. chosen \cup Canaries(pool, place) \in SUBSET DOMAIN pool
      BY <2>2
    <3> QED BY <1>1, <2>3, <3>1, LoadsOfTable DEF HostsOf
  <2>7. HostsOf(loads') \subseteq DialHosts(pool, lane)
    BY <1>2, <2>6 DEF DialHosts
  <2> QED BY <1>1, <1>2, <2>5, <2>7 DEF PoolInv
<1>3. CASE lane # "health"
  <2>1. PICK picked \in SUBSET (Compatible(pool, place) \cap OfClass(pool, "connectivity")) :
          loads' = InTableOrder(pool, picked)
    BY <1>1, <1>3 DEF DrawBlackhole
  <2>2. picked \in SUBSET DOMAIN pool /\ picked \subseteq OfClass(pool, "connectivity")
    BY <2>1 DEF Compatible
  <2>3. HostsOf(loads') \subseteq DialHosts(pool, lane)
    BY <1>1, <1>3, <2>1, <2>2, LoadsOfTable DEF DialHosts
  <2> QED BY <1>1, <1>3, <2>3 DEF PoolInv
<1> QED BY <1>2, <1>3

\* No other step of a probe changes what is drawn.
LEMMA PoolStepInv ==
  ASSUME PoolInv, [Next]_vars
  PROVE  PoolInv'
<1>1. CASE DrawLoads
  BY <1>1, DrawInv DEF DrawLoads
<1>2. CASE OpenProbe
  BY <1>2 DEF OpenProbe, CapturePool, ForHealth, ForBlackhole, PoolInv
<1>3. CASE ReportLoads
  BY <1>3 DEF ReportLoads, Judge, PoolInv
<1>4. CASE CloseProbe
  BY <1>4 DEF CloseProbe, EndProbe, PoolInv
<1>5. CASE UNCHANGED poolVars
  <2>1. UNCHANGED <<phase, lane, pool, place, whole, loads, short>>
    BY <1>5 DEF poolVars
  <2>2. ASSUME NEW chosen, DrawnForHealth(chosen) PROVE DrawnForHealth(chosen)'
    BY <2>1, <2>2 DEF DrawnForHealth
  <2> QED BY <2>1, <2>2 DEF PoolInv
<1> QED BY <1>1, <1>2, <1>3, <1>4, <1>5 DEF Next, Load, RideOn, vars

\* A sample that was drawn so suits the place.
LEMMA SuitsThePlace ==
  ASSUME PoolInv
  PROVE  SampleSuitsThePlace
<1>1. SUFFICES ASSUME phase = "drawn", lane = "health" PROVE
        /\ Cardinality(NamesOf(loads, DOMAIN loads)) = Len(loads)
        /\ \A c \in Classes :
             LET there == CountOf(pool, Compatible(pool, place), c)
                 drawn == CountOf(loads, Compatible(loads, place), c) IN
               IF whole \/ ~ Declared(c) THEN drawn = there /\ c \notin short
               ELSE /\ drawn = (IF there < SampleSizes[c] THEN there ELSE SampleSizes[c])
                    /\ c \in short <=> drawn < SampleSizes[c]
        /\ \A i \in DOMAIN loads : IncompatibleWith(loads[i], place) => loads[i].canary
        /\ \A i \in Canaries(pool, place) : pool[i].name \in NamesOf(loads, DOMAIN loads)
  BY DEF SampleSuitsThePlace
<1>2. PICK chosen : DrawnForHealth(chosen)
  BY <1>1 DEF PoolInv
<1> DEFINE compatible == Compatible(pool, place)  canaries == Canaries(pool, place)
           picked == chosen \cup canaries
<1>3. IsTable(pool)
  BY <1>1, SourcesAreTables DEF PoolInv
<1>4. /\ chosen \in SUBSET compatible /\ picked \in SUBSET DOMAIN pool
      /\ loads = InTableOrder(pool, picked) /\ canaries \subseteq picked
      /\ \A i \in picked : IncompatibleWith(pool[i], place) => pool[i].canary
  BY <1>2 DEF DrawnForHealth, Compatible, Canaries
<1>5. /\ DOMAIN loads = 1..Len(loads) /\ Len(loads) = Cardinality(picked)
      /\ IsTable(loads)
  <2> HIDE DEF picked
  <2> QED BY <1>3, <1>4, CutTable
<1>6. PICK f : PairsUp(loads, pool, picked, f)
  <2> HIDE DEF picked
  <2> QED BY <1>3, <1>4, CutTable
<1>7. f \in [DOMAIN loads -> picked] /\ \A t \in picked : \E i \in DOMAIN loads : f[i] = t
  BY <1>6 DEF PairsUp, Bijection, Injection, Surjection
<1>8. Cardinality(NamesOf(loads, DOMAIN loads)) = Len(loads)
  <2>1. /\ IsFiniteSet(DOMAIN loads) /\ Cardinality(DOMAIN loads) = Len(loads)
    <3>1. Len(loads) \in Nat
      BY <1>3, <1>4, <1>5, FS_Subset, FS_CardinalityType DEF IsTable
    <3> QED BY <1>5, <3>1, FS_Interval
  <2>2. DOMAIN loads \in SUBSET DOMAIN loads
    OBVIOUS
  <2> QED BY <1>5, <2>1, <2>2, NamesCount
<1>9. \A i \in DOMAIN loads : IncompatibleWith(loads[i], place) => loads[i].canary
  BY <1>4, <1>6, <1>7 DEF PairsUp
<1>10. \A i \in canaries : pool[i].name \in NamesOf(loads, DOMAIN loads)
  <2> SUFFICES ASSUME NEW t \in canaries PROVE pool[t].name \in NamesOf(loads, DOMAIN loads)
    OBVIOUS
  <2>1. PICK i \in DOMAIN loads : f[i] = t
    BY <1>4, <1>7
  <2>2. loads[i] = pool[t]
    BY <1>6, <2>1 DEF PairsUp
  <2> QED BY <2>2 DEF NamesOf
<1>11. ASSUME NEW c \in Classes PROVE
         LET there == CountOf(pool, compatible, c)
             drawn == CountOf(loads, Compatible(loads, place), c) IN
           IF whole \/ ~ Declared(c) THEN drawn = there /\ c \notin short
           ELSE /\ drawn = (IF there < SampleSizes[c] THEN there ELSE SampleSizes[c])
                /\ c \in short <=> drawn < SampleSizes[c]
  <2> DEFINE there == CountOf(pool, compatible, c)
             drawn == CountOf(loads, Compatible(loads, place), c)
  <2>1. picked \cap compatible = chosen
    BY <1>4 DEF Compatible, Canaries
  <2>2. CountOf(loads, Compatible(loads, place), c) = CountOf(pool, picked \cap compatible, c)
    <3> HIDE DEF picked
    <3> QED BY <1>3, <1>4, <1>5, <1>6, CompatibleCount
  <2>3. drawn = CountOf(pool, chosen, c)
    BY <2>1, <2>2
  <2>4. there \in Nat
    <3>1. compatible \cap OfClass(pool, c) \in SUBSET DOMAIN pool
      BY DEF Compatible
    <3>2. IsFiniteSet(compatible \cap OfClass(pool, c))
      BY <1>3, <3>1, FS_Subset DEF IsTable
    <3> QED BY <3>2, FS_CardinalityType DEF CountOf
  <2>5. CASE whole
    BY <1>2, <2>3, <2>5 DEF DrawnForHealth
  <2>6. CASE ~ whole
    <3>1. chosen \in Samples(pool, compatible) /\ short = ShortOf(pool, compatible)
      BY <1>2, <2>6 DEF DrawnForHealth
    <3>2. drawn = SampleCount(there, c)
      BY <2>3, <3>1 DEF Samples
    <3>3. c \in short <=> c \in DOMAIN SampleSizes /\ there < SampleSizes[c]
      BY <3>1 DEF ShortOf
    <3>4. c \in DOMAIN SampleSizes => SampleSizes[c] \in Int
      BY PoolDataAssumption
    <3> HIDE DEF there, drawn
    <3>5. CASE ~ Declared(c)
      <4>1. drawn = there /\ c \notin short
        BY <2>4, <3>2, <3>3, <3>4, <3>5 DEF Declared, SampleCount
      <4> QED BY <3>5, <4>1 DEF there, drawn
    <3>6. CASE Declared(c)
      <4>1. /\ drawn = (IF there < SampleSizes[c] THEN there ELSE SampleSizes[c])
            /\ c \in short <=> drawn < SampleSizes[c]
        BY <2>4, <3>2, <3>3, <3>4, <3>6 DEF Declared, SampleCount
      <4> QED BY <2>6, <3>6, <4>1 DEF there, drawn
    <3> QED BY <3>5, <3>6
  <2> QED BY <2>5, <2>6
<1> QED BY <1>8, <1>9, <1>10, <1>11

--------------------------------------------------------------------------------
\* What ScoresReconcile says of a report.
Reconciles(r) ==
  LET compatible == Compatible(loads, place) IN
  /\ \A c \in Classes :
       LET ofClass(names) == names \cap NamesOf(loads, compatible \cap OfClass(loads, c)) IN
         /\ CountOf(loads, compatible, c) =
              r.total[c] + Cardinality(ofClass(r.notMeasuredNames))
         /\ r.total[c] = r.ok[c] + Cardinality(ofClass(r.failedNames))
  /\ r.failedNames \cup r.notMeasuredNames \subseteq NamesOf(loads, compatible)
  /\ r.canaryPassedNames \cap r.canaryFailedNames = {}
  /\ (r.canaryPassedNames \cup r.canaryFailedNames) \cap NamesOf(loads, compatible) = {}

LEMMA NamesMeet ==
  ASSUME IsTable(loads), NEW A \in SUBSET DOMAIN loads, NEW B \in SUBSET DOMAIN loads
  PROVE  NamesOf(loads, A) \cap NamesOf(loads, B) = NamesOf(loads, A \cap B)
BY DEF NamesOf, IsTable

\* A set of loads in two parts.
LEMMA TwoParts ==
  ASSUME IsTable(loads), NEW X \in SUBSET DOMAIN loads, NEW A, NEW B, X = A \cup B, A \cap B = {}
  PROVE  /\ Cardinality(X) = Cardinality(A) + Cardinality(B)
         /\ Cardinality(X) \in Nat /\ Cardinality(A) \in Nat /\ Cardinality(B) \in Nat
<1>1. IsFiniteSet(A) /\ IsFiniteSet(B) /\ IsFiniteSet(X)
  <2>1. A \in SUBSET DOMAIN loads /\ B \in SUBSET DOMAIN loads
    OBVIOUS
  <2> QED BY <2>1, FS_Subset DEF IsTable
<1>2. Cardinality(A \cap B) = 0
  BY FS_EmptySet
<1>3. Cardinality(A) \in Nat /\ Cardinality(B) \in Nat /\ Cardinality(X) \in Nat
  BY <1>1, FS_CardinalityType
<1>4. Cardinality(A \cup B) = Cardinality(A) + Cardinality(B) - Cardinality(A \cap B)
  BY <1>1, FS_Union
<1> QED BY <1>2, <1>3, <1>4

\* However the loads of a health run end, what is made of them adds up.
LEMMA ReportReconciles ==
  ASSUME IsTable(loads), NEW ends \in [DOMAIN loads -> Ends], NEW echoTls,
         \A i \in DOMAIN loads : IncompatibleWith(loads[i], place) => loads[i].canary
  PROVE  Reconciles(HealthReport(ends, echoTls))
<1> DEFINE r == HealthReport(ends, echoTls)
           ended(how) == {i \in DOMAIN loads : ends[i] \in how}
           compatible == Compatible(loads, place)
           canaries == {i \in DOMAIN loads : IsCanary(loads[i])}
           scored(c) == {i \in ended(Ends \ {"unmeasured"}) \ canaries : loads[i].class = c}
<1>1. /\ \A c \in Classes :
           /\ r.total[c] = Cardinality(scored(c))
           /\ r.ok[c] = Cardinality(scored(c) \cap ended({"passed"}))
      /\ r.failedNames = NamesOf(loads, ended({"failed", "tls"}) \ canaries)
      /\ r.notMeasuredNames = NamesOf(loads, ended({"unmeasured"}) \ canaries)
      /\ r.canaryPassedNames = NamesOf(loads, ended({"passed"}) \cap canaries)
      /\ r.canaryFailedNames = NamesOf(loads, ended({"failed", "tls"}) \cap canaries)
  BY DEF HealthReport
<1>2. canaries = DOMAIN loads \ compatible /\ compatible \subseteq DOMAIN loads
  BY DEF IsCanary, Compatible
<1> HIDE DEF r, canaries, compatible
<1>3. /\ r.failedNames = NamesOf(loads, ended({"failed", "tls"}) \cap compatible)
      /\ r.notMeasuredNames = NamesOf(loads, ended({"unmeasured"}) \cap compatible)
  <2>1. \A how : ended(how) \ canaries = ended(how) \cap compatible
    BY <1>2
  <2> QED BY <1>1, <2>1
<1>4. ASSUME NEW c \in Classes
      PROVE  LET ofClass(names) == names \cap NamesOf(loads, compatible \cap OfClass(loads, c)) IN
             /\ CountOf(loads, compatible, c) =
                  r.total[c] + Cardinality(ofClass(r.notMeasuredNames))
             /\ r.total[c] = r.ok[c] + Cardinality(ofClass(r.failedNames))
  <2> DEFINE X == compatible \cap OfClass(loads, c)
             M == X \cap ended(Ends \ {"unmeasured"})
             U == X \cap ended({"unmeasured"})
             P == X \cap ended({"passed"})
             F == X \cap ended({"failed", "tls"})
  <2>1. X \in SUBSET DOMAIN loads /\ M \in SUBSET DOMAIN loads
    BY <1>2
  <2>2. X = M \cup U /\ M \cap U = {} /\ M = P \cup F /\ P \cap F = {}
    BY <2>1 DEF Ends
  <2>3. scored(c) = M /\ scored(c) \cap ended({"passed"}) = P
    BY <1>2 DEF OfClass, Ends
  <2>4. r.total[c] = Cardinality(M) /\ r.ok[c] = Cardinality(P)
    BY <1>1, <2>3
  <2>5. /\ NamesOf(loads, ended({"unmeasured"}) \cap compatible) \cap NamesOf(loads, X) = NamesOf(loads, U)
        /\ NamesOf(loads, ended({"failed", "tls"}) \cap compatible) \cap NamesOf(loads, X) = NamesOf(loads, F)
    <3>1. \A how : ended(how) \cap compatible \in SUBSET DOMAIN loads
      OBVIOUS
    <3>2. /\ (ended({"unmeasured"}) \cap compatible) \cap X = U
          /\ (ended({"failed", "tls"}) \cap compatible) \cap X = F
      OBVIOUS
    <3> HIDE DEF X, U, F, ended
    <3> QED BY <2>1, <3>1, <3>2, NamesMeet
  <2>6. /\ Cardinality(NamesOf(loads, U)) = Cardinality(U) /\ Cardinality(NamesOf(loads, F)) = Cardinality(F)
    <3>1. U \in SUBSET DOMAIN loads /\ F \in SUBSET DOMAIN loads
      OBVIOUS
    <3> HIDE DEF U, F
    <3> QED BY <3>1, NamesCount
  <2>7. Cardinality(X) = Cardinality(M) + Cardinality(U) /\ Cardinality(M) = Cardinality(P) + Cardinality(F)
    <3> HIDE DEF X, M, U, P, F
    <3>1. Cardinality(X) = Cardinality(M) + Cardinality(U)
      BY <2>1, <2>2, TwoParts
    <3>2. Cardinality(M) = Cardinality(P) + Cardinality(F)
      BY <2>1, <2>2, TwoParts
    <3> QED BY <3>1, <3>2
  <2>8. CountOf(loads, compatible, c) = Cardinality(X)
    BY DEF CountOf
  <2> HIDE DEF X, M, U, P, F
  <2>9. CountOf(loads, compatible, c) = r.total[c] + Cardinality(r.notMeasuredNames \cap NamesOf(loads, X))
    BY <1>3, <2>4, <2>5, <2>6, <2>7, <2>8
  <2>10. r.total[c] = r.ok[c] + Cardinality(r.failedNames \cap NamesOf(loads, X))
    BY <1>3, <2>4, <2>5, <2>6, <2>7
  <2> QED BY <2>9, <2>10 DEF X
<1>5. r.failedNames \cup r.notMeasuredNames \subseteq NamesOf(loads, compatible)
  BY <1>3 DEF NamesOf
<1>6. r.canaryPassedNames \cap r.canaryFailedNames = {}
  <2>1. (ended({"passed"}) \cap canaries) \cap (ended({"failed", "tls"}) \cap canaries) = {}
    OBVIOUS
  <2>2. \A how : ended(how) \cap canaries \in SUBSET DOMAIN loads
    OBVIOUS
  <2> HIDE DEF ended
  <2>3. r.canaryPassedNames \cap r.canaryFailedNames = NamesOf(loads, {})
    BY <1>1, <2>1, <2>2, NamesMeet
  <2> QED BY <2>3 DEF NamesOf
<1>7. (r.canaryPassedNames \cup r.canaryFailedNames) \cap NamesOf(loads, compatible) = {}
  <2>1. \A how : NamesOf(loads, ended(how) \cap canaries) \cap NamesOf(loads, compatible) = NamesOf(loads, {})
    <3> TAKE how
    <3>1. ended(how) \cap canaries \in SUBSET DOMAIN loads /\ compatible \in SUBSET DOMAIN loads
      BY <1>2
    <3>2. (ended(how) \cap canaries) \cap compatible = {}
      BY <1>2
    <3> HIDE DEF ended
    <3> QED BY <3>1, <3>2, NamesMeet
  <2>2. NamesOf(loads, {}) = {}
    BY DEF NamesOf
  <2> HIDE DEF ended
  <2> QED BY <1>1, <2>1, <2>2
<1> QED BY <1>4, <1>5, <1>6, <1>7 DEF Reconciles, r, compatible

\* There is a report once the loads have been judged, and it reconciles.
ReportInv == (phase # "reported" => report.kind # "health") /\ ScoresReconcile

\* The loads of a health run are a table, and of the incompatible ones only canaries.
LEMMA LoadsAreATable ==
  ASSUME PoolInv, phase = "drawn", lane = "health"
  PROVE  /\ IsTable(loads)
         /\ \A i \in DOMAIN loads : IncompatibleWith(loads[i], place) => loads[i].canary
<1>1. PICK chosen : DrawnForHealth(chosen)
  BY DEF PoolInv
<1>2. IsTable(pool)
  BY SourcesAreTables DEF PoolInv
<1>3. /\ chosen \cup Canaries(pool, place) \in SUBSET DOMAIN pool
      /\ loads = InTableOrder(pool, chosen \cup Canaries(pool, place))
  BY <1>1 DEF DrawnForHealth, Compatible, Canaries
<1>4. IsTable(loads)
  BY <1>2, <1>3, CutTable
<1> QED BY <1>4, SuitsThePlace DEF SampleSuitsThePlace

LEMMA ReportStepInv ==
  ASSUME PoolInv, ReportInv, [Next]_vars
  PROVE  ReportInv'
<1>1. CASE ReportLoads
  <2>1. /\ phase = "drawn" /\ phase' = "reported" /\ UNCHANGED <<loads, place>>
        /\ \/ report'.kind \in {"refused", "blackhole"}
           \/ lane = "health" /\ \E ends \in [DOMAIN loads -> Ends], echoTls \in BOOLEAN :
                                   report' = HealthReport(ends, echoTls)
    BY <1>1 DEF ReportLoads, Judge
  <2>2. CASE report'.kind \in {"refused", "blackhole"}
    BY <2>1, <2>2 DEF ReportInv, ScoresReconcile
  <2>3. CASE lane = "health" /\ \E ends \in [DOMAIN loads -> Ends], echoTls \in BOOLEAN :
                                  report' = HealthReport(ends, echoTls)
    <3>1. Reconciles(report')
      BY <2>1, <2>3, LoadsAreATable, ReportReconciles
    <3>2. ScoresReconcile'
      BY <2>1, <3>1 DEF Reconciles, ScoresReconcile
    <3> QED BY <2>1, <3>2 DEF ReportInv
  <2> QED BY <2>1, <2>2, <2>3
<1>2. CASE OpenProbe \/ DrawLoads
  <2>1. phase # "reported" /\ phase' # "reported" /\ report' = report
    BY <1>2 DEF OpenProbe, CapturePool, ForHealth, ForBlackhole, DrawLoads, Draw
  <2>2. report'.kind # "health"
    BY <2>1 DEF ReportInv
  <2> QED BY <2>1, <2>2 DEF ReportInv, ScoresReconcile
<1>3. CASE CloseProbe
  BY <1>3 DEF CloseProbe, EndProbe, Unreported, ReportInv, ScoresReconcile
<1>4. CASE UNCHANGED poolVars
  <2>1. UNCHANGED <<phase, place, loads, report>>
    BY <1>4 DEF poolVars
  <2> QED BY <2>1 DEF ReportInv, ScoresReconcile
<1> QED BY <1>1, <1>2, <1>3, <1>4 DEF Next, Load, RideOn, vars

--------------------------------------------------------------------------------
\* The client of a probe is the one its pool and the served pins call for, and a
\* request over it is for a host the tunnel may be dialed to.
ClientInv ==
  /\ phase # "idle" =>
       LET hosts == DialHosts(pool, lane)
           pins  == restrictPins(servedPins, hosts) IN
         client = [pins |-> pins,
                   allowed |-> DOMAIN normalizePins(pins) \cup {normalizeHost(h) : h \in hosts}]
  /\ stage # "idle" => target \in DialHosts(pool, lane)
  /\ stage = "idle" => \A d \in Dials : pc[d] = "none"
  /\ pc \in [Dials -> InDial] /\ DOMAIN chain = Dials

\* A chain passes the pins of the client exactly if the served ones vouch for it.
LEMMA PinsVouch ==
  ASSUME NoRequestUnlessDrawn, ClientInv, stage # "idle", NEW keys
  PROVE  /\ checkPin(client.pins, target, keys) <=> Vouched(keys)
         /\ normalizeHost(target) \in client.allowed
<1> DEFINE hosts == DialHosts(pool, lane)  pins == restrictPins(servedPins, hosts)
           N == normalizeHost(target)
<1>1. /\ client.pins = pins /\ target \in hosts
      /\ client.allowed = DOMAIN normalizePins(pins) \cup {normalizeHost(h) : h \in hosts}
  BY DEF NoRequestUnlessDrawn, ClientInv
<1>2. N \in client.allowed
  BY <1>1
<1> HIDE DEF hosts
<1>3. /\ DOMAIN pins \subseteq DOMAIN servedPins
      /\ \A k \in DOMAIN pins : pins[k] = servedPins[k]
      /\ \A k \in Pinned : k \in DOMAIN pins
      /\ \A k \in DOMAIN pins : Normal[k] = N => k \in Pinned
  BY <1>1 DEF restrictPins, Pinned, normalizeHost
<1> HIDE DEF pins
<1>4. N \in DOMAIN normalizePins(pins) <=> Pinned # {}
  BY <1>3 DEF normalizePins, Pinned, normalizeHost
<1>5. N \in DOMAIN normalizePins(pins) =>
        normalizePins(pins)[N] = UNION {servedPins[k] : k \in Pinned}
  <2> SUFFICES ASSUME N \in DOMAIN normalizePins(pins)
               PROVE  normalizePins(pins)[N] = UNION {servedPins[k] : k \in Pinned}
    OBVIOUS
  <2>1. normalizePins(pins)[N] = UNION {pins[k] : k \in {j \in DOMAIN pins : normalizeHost(j) = N}}
    BY DEF normalizePins
  <2>2. {j \in DOMAIN pins : normalizeHost(j) = N} = Pinned
    BY <1>3 DEF Pinned, normalizeHost
  <2>3. {pins[k] : k \in Pinned} = {servedPins[k] : k \in Pinned}
    BY <1>3
  <2> QED BY <2>1, <2>2, <2>3
<1>6. checkPin(pins, target, keys) <=> Vouched(keys)
  BY <1>4, <1>5 DEF checkPin, Vouched
<1> QED BY <1>1, <1>2, <1>6

\* A move of one dial to a place that says nothing of pins.
LEMMA PlainMove ==
  ASSUME SitesFailOnTheirOwn, ClientInv, NEW d \in Dials, NEW from, NEW to \in InDial,
         Move(d, from, to), stage # "idle", to # "policy" /\ to # "pin",
         to \in {"handed", "claimed"} => pc[d] \in {"handed", "claimed"},
         UNCHANGED <<servedPins, phase, lane, pool, client, target, stage, chain>>
  PROVE  SitesFailOnTheirOwn' /\ ClientInv'
<1>1. /\ pc' \in [Dials -> InDial] /\ pc'[d] = to
      /\ \A e \in Dials \ {d} : pc'[e] = pc[e]
  BY DEF ClientInv, Move
<1>2. ClientInv'
  BY <1>1 DEF ClientInv
<1>3. SitesFailOnTheirOwn'
  BY <1>1 DEF SitesFailOnTheirOwn, Vouched, Pinned
<1> QED BY <1>2, <1>3

LEMMA SiteRequestInv ==
  ASSUME NoRequestUnlessDrawn, SitesFailOnTheirOwn, ClientInv, RequestStep, UNCHANGED poolVars
  PROVE  SitesFailOnTheirOwn' /\ ClientInv'
<1>1. /\ UNCHANGED <<servedPins, phase, lane, pool>>
  BY DEF poolVars
<1>2. ASSUME NEW d \in Dials, DialStep(d) \/ TransportStep(d), ~ AskDial(d) PROVE stage # "idle"
  BY <1>2 DEF ClientInv, DialStep, TransportStep, CheckOwner, EnterDial, ArmDial, Propagate, Armed,
     CheckHost, EndDial, EndHandshake, Claim, CloseUnclaimed, CutBody, CloseBody, Move
<1>3. ASSUME NEW d \in Dials, Propagate(d) PROVE SitesFailOnTheirOwn' /\ ClientInv'
  BY <1>1, <1>3 DEF Propagate, ClientInv, SitesFailOnTheirOwn, Vouched, Pinned
<1>4. ASSUME NEW d \in Dials, EndHandshake(d) PROVE SitesFailOnTheirOwn' /\ ClientInv'
  <2>1. stage # "idle" /\ UNCHANGED <<client, target, stage>>
    BY <1>2, <1>4 DEF DialStep, EndHandshake, AskDial, Move
  <2>2. CASE Move(d, "handshake", "tls") /\ UNCHANGED chain
    BY <1>1, <2>1, <2>2, PlainMove DEF InDial
  <2>3. CASE ~ (Move(d, "handshake", "tls") /\ UNCHANGED chain)
    <3>1. PICK keys \in Chains :
            /\ chain' = [chain EXCEPT ![d] = keys]
            /\ IF checkPin(client.pins, target, keys)
               THEN Move(d, "handshake", "handed")
               ELSE Move(d, "handshake", "pin")
      BY <1>4, <2>3 DEF EndHandshake
    <3>2. checkPin(client.pins, target, keys) <=> Vouched(keys)
      BY <2>1, PinsVouch
    <3>3. PICK to \in {"handed", "pin"} :
            /\ pc' = [pc EXCEPT ![d] = to] /\ (to = "handed" <=> Vouched(keys))
      BY <3>1, <3>2 DEF Move
    <3>4. /\ pc' \in [Dials -> InDial] /\ pc'[d] = to /\ chain'[d] = keys /\ DOMAIN chain' = Dials
          /\ \A e \in Dials \ {d} : pc'[e] = pc[e] /\ chain'[e] = chain[e]
      BY <3>1, <3>3 DEF ClientInv, InDial
    <3>5. \A k : Vouched(k)' <=> Vouched(k)
      BY <1>1, <2>1 DEF Vouched, Pinned
    <3>6. SitesFailOnTheirOwn'
      BY <3>3, <3>4, <3>5 DEF SitesFailOnTheirOwn
    <3>7. ClientInv'
      BY <1>1, <2>1, <3>4 DEF ClientInv
    <3> QED BY <3>6, <3>7
  <2> QED BY <2>2, <2>3
<1>5. ASSUME NEW d \in Dials,
             \/ CheckOwner(d) \/ EnterDial(d) \/ ArmDial(d) \/ EndDial(d)
             \/ Claim(d) \/ CloseUnclaimed(d) \/ CutBody(d) \/ CloseBody(d) \/ AskDial(d)
      PROVE  SitesFailOnTheirOwn' /\ ClientInv'
  <2>1. stage # "idle" /\ UNCHANGED <<client, target, stage, chain>>
    BY <1>2, <1>5 DEF DialStep, TransportStep, CheckOwner, EnterDial, ArmDial, EndDial, Claim,
       CloseUnclaimed, CutBody, CloseBody, AskDial
  <2>2. \E from \in InDial, to \in InDial \ {"policy", "pin"} :
          Move(d, from, to) /\ (to \in {"handed", "claimed"} => from \in {"handed", "claimed"})
    BY <1>5 DEF CheckOwner, EnterDial, ArmDial, EndDial, Claim, CloseUnclaimed, CutBody, CloseBody,
       AskDial, InDial
  <2> QED BY <1>1, <2>1, <2>2, PlainMove DEF Move
<1>6. ASSUME NEW d \in Dials, CheckHost(d) PROVE SitesFailOnTheirOwn' /\ ClientInv'
  <2>1. stage # "idle" /\ UNCHANGED <<client, target, stage, chain>>
    BY <1>2, <1>6 DEF DialStep, CheckHost, AskDial, Move
  <2>2. Move(d, "armed", "dialing")
    BY <1>6, <2>1, PinsVouch DEF CheckHost
  <2> QED BY <1>1, <2>1, <2>2, PlainMove DEF InDial
<1>7. CASE Return
  <2>1. /\ stage # "idle" /\ stage' # "idle" /\ UNCHANGED <<client, target, chain>>
        /\ pc' \in [Dials -> InDial]
        /\ \A d \in Dials : pc'[d] = pc[d] \/ pc'[d] = "shut"
    BY <1>7 DEF Return, ClientInv, InDial
  <2>2. ClientInv'
    BY <1>1, <2>1 DEF ClientInv
  <2>3. SitesFailOnTheirOwn'
    BY <1>1, <2>1 DEF SitesFailOnTheirOwn, Vouched, Pinned
  <2> QED BY <2>2, <2>3
<1>8. CASE OwnerStep \/ EndRequest
  <2>1. UNCHANGED <<client, target, chain, pc>> /\ stage # "idle" /\ stage' # "idle"
    BY <1>8 DEF OwnerStep, CloseOwner, CancelOwner, JoinDials, EndRequest
  <2> QED BY <1>1, <2>1 DEF ClientInv, SitesFailOnTheirOwn, Vouched, Pinned
<1>9. CASE Forget
  <2>1. /\ stage' = "idle" /\ client' = client /\ DOMAIN chain' = Dials
        /\ pc' \in [Dials -> InDial] /\ \A d \in Dials : pc'[d] = "none"
    BY <1>9 DEF Forget, InDial
  <2> QED BY <1>1, <2>1 DEF ClientInv, SitesFailOnTheirOwn
<1> QED BY <1>3, <1>4, <1>5, <1>6, <1>7, <1>8, <1>9 DEF RequestStep, DialStep, TransportStep

\* The probe's own steps: none is taken over a request, and a load is for a host the
\* tunnel may be dialed to.
LEMMA SiteStepInv ==
  ASSUME NoRequestUnlessDrawn, SitesFailOnTheirOwn, ClientInv, PoolInv, [Next]_vars
  PROVE  SitesFailOnTheirOwn' /\ ClientInv'
<1>1. CASE RideOn
  BY <1>1, SiteRequestInv DEF RideOn
<1>2. CASE Load
  <2>1. PICK host \in HostsOf(loads) \cup {EchoHost} : Start(host)
    BY <1>2 DEF Load
  <2>2. host \in DialHosts(pool, lane)
    BY <1>2, <2>1 DEF Load, PoolInv, DialHosts
  <2>3. /\ UNCHANGED <<servedPins, phase, lane, pool, client, pc, chain>>
        /\ stage = "idle" /\ target' = host
    BY <1>2, <2>1 DEF Load, Start, poolVars
  <2> QED BY <2>2, <2>3 DEF ClientInv, SitesFailOnTheirOwn
<1>3. CASE DrawLoads \/ ReportLoads \/ UNCHANGED vars
  <2>1. UNCHANGED <<servedPins, lane, pool, client, target, stage, pc, chain>>
        /\ (phase' = phase \/ phase # "idle")
    BY <1>3 DEF DrawLoads, Draw, ReportLoads, Judge, vars, poolVars, requestVars
  <2> QED BY <2>1 DEF ClientInv, SitesFailOnTheirOwn, Vouched, Pinned
<1>4. CASE OpenProbe
  <2>1. stage = "idle" /\ UNCHANGED <<servedPins, stage, pc, chain>>
    BY <1>4 DEF OpenProbe, CapturePool, ForHealth, ForBlackhole
  <2>2. client' = [pins |-> restrictPins(servedPins, DialHosts(pool', lane')),
                   allowed |-> DOMAIN normalizePins(restrictPins(servedPins, DialHosts(pool', lane')))
                               \cup {normalizeHost(h) : h \in DialHosts(pool', lane')}]
    BY <1>4 DEF OpenProbe, OpenClient
  <2> QED BY <2>1, <2>2 DEF ClientInv, SitesFailOnTheirOwn
<1>5. CASE CloseProbe
  <2>1. stage = "idle" /\ phase' = "idle" /\ UNCHANGED <<stage, pc, chain>>
    BY <1>5 DEF CloseProbe, EndProbe, NoRequestUnlessDrawn
  <2> QED BY <2>1 DEF ClientInv, SitesFailOnTheirOwn
<1> QED BY <1>1, <1>2, <1>3, <1>4, <1>5 DEF Next

LEMMA ProbeInductive ==
  /\ Init => PoolInv /\ ReportInv /\ ClientInv /\ SitesFailOnTheirOwn
  /\ NoRequestUnlessDrawn /\ PoolInv /\ ReportInv /\ ClientInv /\ SitesFailOnTheirOwn /\ [Next]_vars =>
       PoolInv' /\ ReportInv' /\ ClientInv' /\ SitesFailOnTheirOwn'
<1>1. ASSUME Init PROVE PoolInv /\ ReportInv /\ ClientInv /\ SitesFailOnTheirOwn
  <2>1. phase = "idle" /\ report.kind # "health"
    BY <1>1 DEF Init, PoolInit, Unreported
  <2>2. /\ stage = "idle" /\ pc \in [Dials -> InDial] /\ DOMAIN chain = Dials
        /\ \A d \in Dials : pc[d] = "none"
    BY <1>1 DEF Init, RequestInit, InDial
  <2>3. ReportInv
    BY <2>1 DEF ReportInv, ScoresReconcile
  <2> QED BY <2>1, <2>2, <2>3 DEF PoolInv, ClientInv, SitesFailOnTheirOwn
<1> QED BY <1>1, PoolStepInv, ReportStepInv, SiteStepInv

\* Whatever pool the server answers with, wherever the provider is and whatever is
\* drawn, the loads of a health run suit the place and come once each
\* (egresshealth.go:1992-2041, place.go:76-87).
THEOREM SamplesSuitThePlace == Spec => []SampleSuitsThePlace
<1>1. PoolInv => SampleSuitsThePlace
  BY SuitsThePlace
<1> QED BY <1>1, ProbeInductive, BetweenRequests, PTL DEF Spec

\* However the loads end, the figures of a report and its lists of names are of the
\* same loads, class by class (egresshealth.go:2342-2372).
THEOREM ReportsReconcile == Spec => []ScoresReconcile
<1>1. ReportInv => ScoresReconcile
  BY DEF ReportInv
<1> QED BY <1>1, ProbeInductive, BetweenRequests, PTL DEF Spec

\* No site is refused by the allowlist of the tunnel it is loaded over, and a chain is
\* taken or refused as the served pins say, whatever spelling they are served under
\* and whatever becomes of the pool source meanwhile (pool.go:110-131,
\* pinning.go, tunnel.go).
THEOREM SitesAreFailedFairly == Spec => []SitesFailOnTheirOwn
BY ProbeInductive, BetweenRequests, PTL DEF Spec

--------------------------------------------------------------------------------
\* What a connection was asked before it was handed over, and who cuts one.

\* The stages of a dial from where its host was allowed.
Dialed == {"dialing", "handshake", "handed", "claimed"}

\* A connection in the hands of the transport is to a host that the client allows, and
\* its chain has a key of the pins of that host, in whatever spelling they came
\* (DialTLSContext, providertunnel/tunnel.go:597-640; checkPin, pinning.go:146-166).
ConnectionsAreVetted ==
  \A d \in Dials : pc[d] \in {"handed", "claimed"} =>
    /\ Normal[target] \in client.allowed
    /\ \A k \in DOMAIN client.pins : Normal[k] = Normal[target] =>
         \E j \in DOMAIN client.pins :
           Normal[j] = Normal[target] /\ client.pins[j] \cap chain[d] # {}

\* A dial is cut by the end of its request or by the close of its owner, which is
\* cancelled before it joins (providertunnel/http_request_owner.go:33-92).
DialsAreCutInTime ==
  /\ \A d \in cut : OwnerDone
  /\ stage \in {"joining", "returned"} => OwnerDone

\* What was checked of a dial still holds: the client and the target stay the same.
VetInv ==
  /\ stage = "idle" => \A d \in Dials : pc[d] = "none"
  /\ \A d \in Dials : pc[d] \in Dialed => normalizeHost(target) \in client.allowed
  /\ \A d \in Dials : pc[d] \in {"handed", "claimed"} => checkPin(client.pins, target, chain[d])

\* A cut has its reason, and a join comes after the cancel.
CutInv ==
  /\ stage = "idle" => cut = {}
  /\ \A d \in cut : OwnerDone
  /\ stage \in {"joining", "returned"} => cancelled

\* A dial gets past each check only by passing it.
LEMMA VetStep ==
  ASSUME RequestTypeOK, VetInv, [RequestNext]_requestVars
  PROVE  VetInv'
<1>a. stage = "idle" => \A d \in Dials : pc[d] = "none"
  BY DEF VetInv
<1>b. \A d \in Dials : pc[d] \in Dialed => normalizeHost(target) \in client.allowed
  BY DEF VetInv
<1>c. \A d \in Dials : pc[d] \in {"handed", "claimed"} => checkPin(client.pins, target, chain[d])
  BY DEF VetInv
<1>1. ASSUME NEW d \in Dials, DialStep(d) \/ TransportStep(d), ~ EndHandshake(d), ~ CheckHost(d)
      PROVE  VetInv'
  <2>1. UNCHANGED <<client, target, stage, chain>>
    BY <1>1 DEF DialStep, TransportStep, CheckOwner, EnterDial, ArmDial, Propagate, EndDial,
       AskDial, Claim, CloseUnclaimed, CutBody, CloseBody
  <2>2. stage # "idle"
    BY <1>1, <1>a DEF DialStep, TransportStep, CheckOwner, EnterDial, ArmDial, Propagate, EndDial,
       AskDial, Claim, CloseUnclaimed, CutBody, CloseBody, Move, Armed
  <2>3. \A e \in Dials : pc'[e] \in Dialed => pc[e] \in Dialed
    BY <1>1 DEF RequestTypeOK, DialStep, TransportStep, CheckOwner, EnterDial, ArmDial, Propagate,
       EndDial, AskDial, Claim, CloseUnclaimed, CutBody, CloseBody, Move, Dialed
  <2>4. \A e \in Dials : pc'[e] \in {"handed", "claimed"} => pc[e] \in {"handed", "claimed"}
    BY <1>1 DEF RequestTypeOK, DialStep, TransportStep, CheckOwner, EnterDial, ArmDial, Propagate,
       EndDial, AskDial, Claim, CloseUnclaimed, CutBody, CloseBody, Move
  <2> QED
    BY <1>b, <1>c, <2>1, <2>2, <2>3, <2>4 DEF VetInv
<1>2. ASSUME NEW d \in Dials, CheckHost(d) PROVE VetInv'
  <2>1. UNCHANGED <<client, target, stage, chain>> /\ stage # "idle"
    BY <1>2, <1>a DEF CheckHost, Move
  <2>2. \A e \in Dials : pc'[e] \in Dialed => pc[e] \in Dialed \/ normalizeHost(target) \in client.allowed
    BY <1>2 DEF RequestTypeOK, CheckHost, Move, Dialed
  <2>3. \A e \in Dials : pc'[e] \in {"handed", "claimed"} => pc[e] \in {"handed", "claimed"}
    BY <1>2 DEF RequestTypeOK, CheckHost, Move
  <2> QED
    BY <1>b, <1>c, <2>1, <2>2, <2>3 DEF VetInv
<1>3. ASSUME NEW d \in Dials, EndHandshake(d) PROVE VetInv'
  <2>1. UNCHANGED <<client, target, stage>> /\ stage # "idle"
    BY <1>3, <1>a DEF EndHandshake, Move
  <2>2. \A e \in Dials \ {d} : pc'[e] = pc[e] /\ chain'[e] = chain[e]
    BY <1>3 DEF RequestTypeOK, EndHandshake, Move
  <2>3. normalizeHost(target) \in client.allowed
    BY <1>3, <1>b DEF EndHandshake, Dialed
  <2>4. pc'[d] \in {"handed", "claimed"} => checkPin(client.pins, target, chain'[d])
    <3>1. CASE Move(d, "handshake", "tls")
      BY <3>1 DEF RequestTypeOK, Move
    <3>2. ASSUME NEW keys \in Chains, chain' = [chain EXCEPT ![d] = keys],
                 IF checkPin(client.pins, target, keys)
                 THEN Move(d, "handshake", "handed") ELSE Move(d, "handshake", "pin")
          PROVE  pc'[d] \in {"handed", "claimed"} => checkPin(client.pins, target, chain'[d])
      <4>1. chain'[d] = keys
        BY <3>2 DEF RequestTypeOK
      <4>2. ~ checkPin(client.pins, target, keys) => pc'[d] = "pin"
        BY <3>2 DEF RequestTypeOK, Move
      <4> QED
        BY <4>1, <4>2
    <3> QED
      BY <1>3, <3>1, <3>2 DEF EndHandshake
  <2>5. \A e \in Dials : pc'[e] \in {"handed", "claimed"} => checkPin(client.pins, target, chain'[e])
    BY <1>c, <2>2, <2>4
  <2>6. \A e \in Dials : pc'[e] \in Dialed => normalizeHost(target) \in client.allowed
    BY <2>3
  <2> QED
    BY <2>1, <2>5, <2>6 DEF VetInv
<1>4. CASE Return \/ OwnerStep \/ EndRequest
  <2>1. UNCHANGED <<client, target, chain>> /\ stage' # "idle" /\ (stage = "idle" => FALSE)
    BY <1>4 DEF Return, OwnerStep, CloseOwner, CancelOwner, JoinDials, EndRequest
  <2>2. \A e \in Dials : pc'[e] = pc[e] \/ pc'[e] = "shut"
    BY <1>4 DEF RequestTypeOK, Return, OwnerStep, CloseOwner, CancelOwner, JoinDials, EndRequest
  <2> QED
    BY <1>b, <1>c, <2>1, <2>2 DEF VetInv, Dialed
<1>5. CASE Forget
  <2>1. \A d \in Dials : pc'[d] = "none"
    BY <1>5 DEF Forget
  <2> QED
    BY <2>1 DEF VetInv, Dialed
<1>6. ASSUME NEW host, Start(host) PROVE VetInv'
  <2>1. stage = "idle" /\ stage' = "running" /\ pc' = pc
    BY <1>6 DEF Start
  <2> QED
    BY <1>a, <2>1 DEF VetInv, Dialed
<1>7. CASE stage = "idle" /\ UNCHANGED <<stage, pc>>
  BY <1>a, <1>7 DEF VetInv, Dialed
<1>8. CASE UNCHANGED requestVars
  BY <1>8 DEF VetInv, requestVars
<1> QED
  BY <1>1, <1>2, <1>3, <1>4, <1>5, <1>6, <1>7, <1>8 DEF RequestNext, RequestStep

\* Only Propagate cuts a dial, and it does when the owner is done.
LEMMA CutStep ==
  ASSUME RequestTypeOK, VetInv, CutInv, [RequestNext]_requestVars
  PROVE  CutInv'
<1>1. ASSUME NEW d \in Dials, DialStep(d) \/ TransportStep(d) PROVE CutInv'
  <2>1. UNCHANGED <<reqDone, cancelled, stage>>
    BY <1>1 DEF DialStep, TransportStep, CheckOwner, EnterDial, ArmDial, Propagate, CheckHost,
       EndDial, EndHandshake, AskDial, Claim, CloseUnclaimed, CutBody, CloseBody
  <2>2. cut' = cut \/ (cut' = cut \cup {d} /\ OwnerDone /\ pc[d] # "none")
    BY <1>1 DEF DialStep, TransportStep, CheckOwner, EnterDial, ArmDial, Propagate, CheckHost,
       EndDial, EndHandshake, AskDial, Claim, CloseUnclaimed, CutBody, CloseBody, Move, Armed
  <2> QED
    BY <2>1, <2>2 DEF CutInv, VetInv, OwnerDone
<1>2. CASE Return \/ OwnerStep \/ EndRequest
  BY <1>2 DEF CutInv, OwnerDone, Return, OwnerStep, CloseOwner, CancelOwner, JoinDials, EndRequest
<1>3. CASE Forget
  <2>1. stage' = "idle" /\ cut' = {}
    BY <1>3 DEF Forget
  <2> QED
    BY <2>1 DEF CutInv
<1>4. ASSUME NEW host, Start(host) PROVE CutInv'
  BY <1>4 DEF Start, CutInv
<1>5. CASE UNCHANGED <<stage, reqDone, cancelled, cut>>
  BY <1>5 DEF CutInv, OwnerDone
<1> QED
  BY <1>1, <1>2, <1>3, <1>4, <1>5 DEF RequestNext, RequestStep, requestVars

\* A chain that passes has a key of some spelling of the host, if any has pins.
LEMMA Vetted ==
  ASSUME NEW pins, NEW host, NEW keys, checkPin(pins, host, keys),
         NEW k \in DOMAIN pins, Normal[k] = Normal[host]
  PROVE  \E j \in DOMAIN pins : Normal[j] = Normal[host] /\ pins[j] \cap keys # {}
<1> DEFINE spelled == {j \in DOMAIN pins : Normal[j] = Normal[host]}
<1>1. Normal[host] \in DOMAIN normalizePins(pins)
  BY DEF normalizePins
<1>2. normalizePins(pins)[Normal[host]] = UNION {pins[j] : j \in spelled}
  BY <1>1 DEF normalizePins, normalizeHost
<1>3. keys \cap normalizePins(pins)[Normal[host]] # {}
  BY <1>1 DEF checkPin, normalizeHost
<1> QED
  BY <1>2, <1>3

LEMMA RequestVetted == RequestSpec => [](RequestTypeOK /\ VetInv /\ CutInv)
<1>1. RequestInit => VetInv /\ CutInv
  <2> SUFFICES ASSUME RequestInit PROVE VetInv /\ CutInv
    OBVIOUS
  <2>1. cut = {} /\ stage = "idle" /\ \A d \in Dials : pc[d] = "none"
    BY DEF RequestInit
  <2> QED
    BY <2>1 DEF VetInv, CutInv, Dialed
<1> QED
  BY <1>1, VetStep, CutStep, RequestTypeCorrect, PTL DEF RequestSpec

\* No interleaving of dials, retries of the transport and closes hands over a
\* connection to a host that is not allowed or whose pins its chain does not meet.
THEOREM NoPinIsSkipped == RequestSpec => []ConnectionsAreVetted
<1>1. VetInv => ConnectionsAreVetted
  <2> SUFFICES ASSUME VetInv, NEW d \in Dials, pc[d] \in {"handed", "claimed"}
      PROVE  /\ Normal[target] \in client.allowed
             /\ \A k \in DOMAIN client.pins : Normal[k] = Normal[target] =>
                  \E j \in DOMAIN client.pins :
                    Normal[j] = Normal[target] /\ client.pins[j] \cap chain[d] # {}
    BY DEF ConnectionsAreVetted
  <2>1. checkPin(client.pins, target, chain[d])
    BY DEF VetInv
  <2>2. Normal[target] \in client.allowed
    BY DEF VetInv, Dialed, normalizeHost
  <2> QED
    BY <2>1, <2>2, Vetted
<1> QED
  BY <1>1, RequestVetted, PTL

\* A dial is cut for the end of its own request, and a join waits for dials that
\* have been told to end.
THEOREM OnlyTheOwnerCutsDials == RequestSpec => []DialsAreCutInTime
<1>1. CutInv => DialsAreCutInTime
  BY DEF CutInv, DialsAreCutInTime, OwnerDone
<1> QED
  BY <1>1, RequestVetted, PTL

--------------------------------------------------------------------------------
\* The draw of a blackhole check.

\* The destinations a blackhole check may draw for the place of the provider.
Candidates == Compatible(pool, place) \cap OfClass(pool, "connectivity")

\* What the draw of a blackhole check leaves in loads and short.
DrawnForBlackhole(picked) ==
  /\ picked \in SUBSET Candidates
  /\ loads = InTableOrder(pool, picked)
  /\ LET there == Cardinality(Candidates)
         size == IF there < BlackholeSampleSize THEN there ELSE BlackholeSampleSize IN
       /\ Cardinality(picked) = size
       /\ short = IF size < BlackholeSampleSize THEN {"connectivity"} ELSE {}

\* The sample a verdict is taken over is drawn so, and stays until the probe ends.
BlackholeInv ==
  /\ phase \in {"drawn", "reported"} /\ lane # "health" => \E picked : DrawnForBlackhole(picked)
  /\ phase \in {"drawn", "reported"} => pool \in Sources
  /\ report.kind = "blackhole" => phase = "reported" /\ lane # "health"

\* A blackhole check loads connectivity destinations that suit the place, each once,
\* of all there are the declared number or every one, and calls the class short
\* exactly when there are fewer (egresshealth/blackhole.go:118-186); so a verdict over
\* no load is only ever given where the pool has no destination for the place.
ChecksSuitThePlace ==
  /\ phase \in {"drawn", "reported"} /\ lane # "health" =>
       /\ Cardinality(NamesOf(loads, DOMAIN loads)) = Len(loads)
       /\ \A i \in DOMAIN loads :
            loads[i].class = "connectivity" /\ ~ IncompatibleWith(loads[i], place)
       /\ Len(loads) = IF Cardinality(Candidates) < BlackholeSampleSize
                       THEN Cardinality(Candidates) ELSE BlackholeSampleSize
       /\ short = IF Len(loads) < BlackholeSampleSize THEN {"connectivity"} ELSE {}
  /\ report.kind = "blackhole" /\ Len(loads) = 0 /\ BlackholeSampleSize > 0 => Candidates = {}

\* The draw makes it so, and nothing changes the sample until the probe ends.
LEMMA BlackholeStep ==
  ASSUME PoolInv, BlackholeInv, [Next]_vars
  PROVE  BlackholeInv'
<1>1. CASE DrawLoads
  <2>1. /\ phase = "open" /\ phase' = "drawn" /\ UNCHANGED <<lane, pool, place, report>>
        /\ pool \in Sources
        /\ IF lane = "health" THEN DrawHealth(pool) ELSE DrawBlackhole(pool)
    BY <1>1 DEF DrawLoads, Draw, RunPool, PoolInv
  <2>2. ASSUME lane # "health" PROVE \E picked : DrawnForBlackhole(picked)'
    BY <2>1, <2>2 DEF DrawBlackhole, DrawnForBlackhole, Candidates
  <2> QED BY <2>1, <2>2 DEF BlackholeInv
<1>2. CASE OpenProbe
  BY <1>2 DEF OpenProbe, CapturePool, ForHealth, ForBlackhole, BlackholeInv
<1>3. CASE ReportLoads
  <2>1. phase = "drawn" /\ phase' = "reported" /\ UNCHANGED <<lane, pool, place, loads, short>>
    BY <1>3 DEF ReportLoads, Judge
  <2>3. lane = "health" => report'.kind # "blackhole"
    <3>1. SUFFICES ASSUME lane = "health" PROVE report'.kind \in {"refused", "health"}
      OBVIOUS
    <3>2. \A ends, echoTls : HealthReport(ends, echoTls).kind = "health"
      BY DEF HealthReport
    <3>3. \/ report' = [kind |-> "refused"]
          \/ \E ends, echoTls : report' = HealthReport(ends, echoTls)
      BY <1>3, <3>1 DEF ReportLoads, Judge
    <3> QED BY <3>2, <3>3
  <2>2. ASSUME NEW picked, DrawnForBlackhole(picked) PROVE DrawnForBlackhole(picked)'
    BY <2>1, <2>2 DEF DrawnForBlackhole, Candidates
  <2> QED BY <2>1, <2>2, <2>3 DEF BlackholeInv
<1>4. CASE CloseProbe
  BY <1>4 DEF CloseProbe, EndProbe, BlackholeInv, Unreported
<1>5. CASE UNCHANGED poolVars
  <2>1. UNCHANGED <<phase, lane, pool, place, loads, short, report>>
    BY <1>5 DEF poolVars
  <2>2. ASSUME NEW picked, DrawnForBlackhole(picked) PROVE DrawnForBlackhole(picked)'
    BY <2>1, <2>2 DEF DrawnForBlackhole, Candidates
  <2> QED BY <2>1, <2>2 DEF BlackholeInv
<1> QED BY <1>1, <1>2, <1>3, <1>4, <1>5 DEF Next, Load, RideOn, vars

\* A sample drawn so is of the candidates, and counts them.
LEMMA ChecksSuit ==
  ASSUME BlackholeInv
  PROVE  ChecksSuitThePlace
<1>1. ASSUME phase \in {"drawn", "reported"}, lane # "health"
      PROVE  /\ Cardinality(NamesOf(loads, DOMAIN loads)) = Len(loads)
             /\ \A i \in DOMAIN loads :
                  loads[i].class = "connectivity" /\ ~ IncompatibleWith(loads[i], place)
             /\ Len(loads) = IF Cardinality(Candidates) < BlackholeSampleSize
                             THEN Cardinality(Candidates) ELSE BlackholeSampleSize
             /\ short = IF Len(loads) < BlackholeSampleSize THEN {"connectivity"} ELSE {}
             /\ IsFiniteSet(Candidates)
  <2>1. PICK picked : DrawnForBlackhole(picked)
    BY <1>1 DEF BlackholeInv
  <2>2. IsTable(pool)
    BY <1>1, SourcesAreTables DEF BlackholeInv
  <2>3. /\ picked \in SUBSET DOMAIN pool /\ loads = InTableOrder(pool, picked)
        /\ \A i \in picked : pool[i].class = "connectivity" /\ ~ IncompatibleWith(pool[i], place)
        /\ Candidates \in SUBSET DOMAIN pool
    BY <2>1 DEF DrawnForBlackhole, Candidates, Compatible, OfClass
  <2>4. DOMAIN loads = 1..Len(loads) /\ Len(loads) = Cardinality(picked) /\ IsTable(loads)
    BY <2>2, <2>3, CutTable
  <2>5. PICK f : PairsUp(loads, pool, picked, f)
    BY <2>2, <2>3, CutTable
  <2>6. f \in [DOMAIN loads -> picked]
    BY <2>5 DEF PairsUp, Bijection, Injection
  <2>7. \A i \in DOMAIN loads : loads[i].class = "connectivity" /\ ~ IncompatibleWith(loads[i], place)
    BY <2>3, <2>5, <2>6 DEF PairsUp
  <2>8. Cardinality(NamesOf(loads, DOMAIN loads)) = Len(loads)
    <3>1. IsFiniteSet(picked) /\ Len(loads) \in Nat
      BY <2>2, <2>3, <2>4, FS_Subset, FS_CardinalityType DEF IsTable
    <3>2. Cardinality(DOMAIN loads) = Len(loads)
      BY <2>4, <3>1, FS_Interval
    <3>3. DOMAIN loads \in SUBSET DOMAIN loads
      OBVIOUS
    <3> QED BY <2>4, <3>2, <3>3, NamesCount
  <2>9. IsFiniteSet(Candidates)
    BY <2>2, <2>3, FS_Subset DEF IsTable
  <2> QED BY <2>1, <2>4, <2>7, <2>8, <2>9 DEF DrawnForBlackhole
<1>2. ASSUME report.kind = "blackhole", Len(loads) = 0, BlackholeSampleSize > 0
      PROVE  Candidates = {}
  <2>1. phase \in {"drawn", "reported"} /\ lane # "health"
    BY <1>2 DEF BlackholeInv
  <2>2. IsFiniteSet(Candidates) /\ Cardinality(Candidates) = 0
    BY <1>1, <1>2, <2>1
  <2> QED BY <2>2, FS_EmptySet
<1> QED BY <1>1, <1>2 DEF ChecksSuitThePlace

\* Whatever pool the server answers with, wherever the provider is and whatever is
\* drawn, a blackhole verdict is over the sample its comments promise, and over
\* none only where the pool has nothing for the place.
THEOREM ChecksAreDrawnFairly == Spec => []ChecksSuitThePlace
<1>1. Init => BlackholeInv
  BY DEF Init, PoolInit, Unreported, BlackholeInv
<1>2. BlackholeInv => ChecksSuitThePlace
  BY ChecksSuit
<1> QED BY <1>1, <1>2, BlackholeStep, ProbeInductive, BetweenRequests, PTL DEF Spec
================================================================================
