----------------------------- MODULE RequestOwner -----------------------------
(***************************************************************************)
(* One request over the http client of a provider's tunnel: RoundTrip with *)
(* the owner of its dials (http_request_owner.go), and DialTLSContext from *)
(* its admission to the handshake (tunnel.go, pinning.go).                 *)
(*                                                                         *)
(* net/http detaches its dials from the request they are for: one may      *)
(* begin late and outlive the request.  The owner admits dials, cancels    *)
(* and joins them, and leaves the body alone.  Requests share nothing but  *)
(* the client, so one is followed at a time.  The transport, the tunnel's  *)
(* dialer and the peers are external: they take any order the code allows. *)
(***************************************************************************)
EXTENDS Integers, FiniteSets

CONSTANTS
  Dials,      \* the dials the transport may make for one request
  Normal,     \* spelling of a host -> lower case, without a port
  Chains      \* the verified chains of the peers, each the set of its keys

ASSUME RequestAssumption ==
  /\ Normal \in [DOMAIN Normal -> DOMAIN Normal]
  /\ \A s \in DOMAIN Normal : Normal[Normal[s]] = Normal[s]
  /\ "free" \notin Dials

VARIABLES
  client,     \* the pins, as their keys are spelled, and the hosts allowed
  target,     \* the host of the request
  stage,      \* where RoundTrip is
  reqDone,    \* the request's own context is done: its timeout, or its caller
  closed,     \* owner.closed
  cancelled,  \* owner.cancel was called
  lock,       \* who holds owner.stateLock
  pc,         \* dial -> where DialTLSContext is, or how it ended
  cut,        \* dials whose dialCtx is done
  chain       \* dial -> the chain its peer presented

requestVars == <<client, target, stage, reqDone, closed, cancelled, lock, pc, cut, chain>>

--------------------------------------------------------------------------------
normalizeHost(host) == Normal[host]

\* Keys that spell one host differently are merged.
normalizePins(pins) ==
  [h \in {Normal[k] : k \in DOMAIN pins} |->
    UNION {pins[k] : k \in {j \in DOMAIN pins : normalizeHost(j) = h}}]

\* A pinned host needs one of its pins anywhere in a verified chain.
checkPin(pins, host, keys) ==
  LET normalized == normalizePins(pins) IN
    normalizeHost(host) \in DOMAIN normalized =>
      keys \cap normalized[normalizeHost(host)] # {}

\* httpClientOverDialerWithHosts: the allowlist is the pinned hosts and the extra
\* ones, which lose no pin by it.
OpenClient(pins, hosts) ==
  client' = [pins |-> pins,
             allowed |-> DOMAIN normalizePins(pins) \cup {normalizeHost(h) : h \in hosts}]

NoClient == [pins |-> << >>, allowed |-> {}]

--------------------------------------------------------------------------------
OwnerDone == reqDone \/ cancelled      \* owner.ctx.Err() # nil

Joined == {d \in Dials : pc[d] \in {"joined", "armed", "dialing", "handshake"}}
Armed  == {d \in Dials : pc[d] \in {"armed", "dialing", "handshake"}}

Failures == {"refused", "policy", "failed", "tls", "pin"}
Settled  == Failures \cup {"none", "shut", "cut"}

Move(d, from, to) == pc[d] = from /\ pc' = [pc EXCEPT ![d] = to]

\* RoundTrip, for a host of ASCII: net/http would dial another one as its punycode,
\* a spelling the allowlist does not know.
Start(host) ==
  /\ stage = "idle"
  /\ stage' = "running" /\ target' = host
  /\ UNCHANGED <<client, reqDone, closed, cancelled, lock, pc, cut, chain>>

\* The transport calls DialTLSContext, in a goroutine that may be late.
AskDial(d) ==
  /\ stage # "idle"
  /\ Move(d, "none", "asked")
  /\ UNCHANGED <<client, target, stage, reqDone, closed, cancelled, lock, cut, chain>>

\* beginProviderHttpDial, its locked scope: the check and the Add to the wait group
\* are two steps, since the context can end between them. Here and below, a definition
\* that nothing uses states a plausible mistake in the one after it.
MayEnterUntilCancelled == ~ OwnerDone
MayEnter               == ~ closed /\ ~ OwnerDone

CheckOwner(d) ==
  /\ lock = "free"
  /\ \/ MayEnter /\ Move(d, "asked", "adding") /\ lock' = d
     \/ ~ MayEnter /\ Move(d, "asked", "refused") /\ UNCHANGED lock
  /\ UNCHANGED <<client, target, stage, reqDone, closed, cancelled, cut, chain>>

EnterDial(d) ==
  /\ Move(d, "adding", "joined")
  /\ lock' = "free"
  /\ UNCHANGED <<client, target, stage, reqDone, closed, cancelled, cut, chain>>

\* The dial's own context, which is to end with the owner's; one that has ended by
\* now is passed on at once.
ArmDial(d) ==
  /\ Move(d, "joined", "armed")
  /\ cut' = IF OwnerDone THEN cut \cup {d} ELSE cut
  /\ UNCHANGED <<client, target, stage, reqDone, closed, cancelled, lock, chain>>

\* context.AfterFunc, in a goroutine of its own, and the copied deadline.
OnlyAtTheStart(d) == FALSE
Propagate(d) ==
  /\ d \in Armed \ cut
  /\ OwnerDone
  /\ cut' = cut \cup {d}
  /\ UNCHANGED <<client, target, stage, reqDone, closed, cancelled, lock, pc, chain>>

\* A host outside the allowlist is refused before anything is dialed.
CheckHost(d) ==
  /\ \/ Move(d, "armed", "dialing") /\ normalizeHost(target) \in client.allowed
     \/ Move(d, "armed", "policy") /\ normalizeHost(target) \notin client.allowed
  /\ UNCHANGED <<client, target, stage, reqDone, closed, cancelled, lock, cut, chain>>

EndDial(d) ==
  /\ \/ Move(d, "dialing", "handshake")
     \/ Move(d, "dialing", "failed")
  /\ UNCHANGED <<client, target, stage, reqDone, closed, cancelled, lock, cut, chain>>

\* The handshake is cut or not verified, refused for its pins, or done and handed to
\* the transport; any failure closes the raw connection, and done() leaves the owner.
EndHandshake(d) ==
  /\ pc[d] = "handshake"
  /\ \/ Move(d, "handshake", "tls") /\ UNCHANGED chain
     \/ \E keys \in Chains :
          /\ chain' = [chain EXCEPT ![d] = keys]
          /\ IF checkPin(client.pins, target, keys)
             THEN Move(d, "handshake", "handed")
             ELSE Move(d, "handshake", "pin")
  /\ UNCHANGED <<client, target, stage, reqDone, closed, cancelled, lock, cut>>

--------------------------------------------------------------------------------
\* What RoundTrip passes to the transport: the owner is a value of the request's
\* context, which is not the one the owner cancels.
BodyContextDone == reqDone

\* The transport gives the request a connection it waits for, and closes one that
\* nobody waits for: nothing is kept alive.
Claim(d) ==
  /\ stage = "running"
  /\ \A e \in Dials : pc[e] # "claimed"
  /\ Move(d, "handed", "claimed")
  /\ UNCHANGED <<client, target, stage, reqDone, closed, cancelled, lock, cut, chain>>

CloseUnclaimed(d) ==
  /\ stage # "running"
  /\ Move(d, "handed", "shut")
  /\ UNCHANGED <<client, target, stage, reqDone, closed, cancelled, lock, cut, chain>>

\* Transport.RoundTrip returns, with a response whose body is still to be read or
\* with an error: of a dial, of the exchange, or of the request's context.
Return ==
  /\ stage = "running"
  /\ stage' = "closing"
  /\ \/ /\ \E d \in Dials : pc[d] = "claimed"
        /\ UNCHANGED pc
     \/ /\ BodyContextDone \/ \E d \in Dials : pc[d] \in Failures \cup {"claimed"}
        /\ pc' = [d \in Dials |-> IF pc[d] = "claimed" THEN "shut" ELSE pc[d]]
  /\ UNCHANGED <<client, target, reqDone, closed, cancelled, lock, cut, chain>>

\* owner.close: closed under the lock, then cancel, then the join.
CloseOwner ==
  /\ stage = "closing" /\ lock = "free"
  /\ stage' = "canceling" /\ closed' = TRUE
  /\ UNCHANGED <<client, target, reqDone, cancelled, lock, pc, cut, chain>>

CancelOwner ==
  /\ stage = "canceling"
  /\ stage' = "joining" /\ cancelled' = TRUE
  /\ UNCHANGED <<client, target, reqDone, closed, lock, pc, cut, chain>>

JoinDials ==
  /\ stage = "joining" /\ Joined = {}
  /\ stage' = "returned"
  /\ UNCHANGED <<client, target, reqDone, closed, cancelled, lock, pc, cut, chain>>

\* The body is cut under its reader once its context is done, or read and closed.
CutBody(d) ==
  /\ stage \notin {"idle", "running"}
  /\ BodyContextDone
  /\ Move(d, "claimed", "cut")
  /\ UNCHANGED <<client, target, stage, reqDone, closed, cancelled, lock, cut, chain>>

CloseBody(d) ==
  /\ stage = "returned"
  /\ Move(d, "claimed", "shut")
  /\ UNCHANGED <<client, target, stage, reqDone, closed, cancelled, lock, cut, chain>>

EndRequest ==
  /\ stage # "idle" /\ ~ reqDone
  /\ reqDone' = TRUE
  /\ UNCHANGED <<client, target, stage, closed, cancelled, lock, pc, cut, chain>>

\* The next request has an owner of its own.
Forget ==
  /\ stage = "returned"
  /\ \A d \in Dials : pc[d] \in Settled
  /\ target' = "" /\ stage' = "idle"
  /\ reqDone' = FALSE /\ closed' = FALSE /\ cancelled' = FALSE
  /\ pc' = [d \in Dials |-> "none"]
  /\ cut' = {}
  /\ chain' = [d \in Dials |-> {}]
  /\ UNCHANGED <<client, lock>>

RequestInit ==
  /\ client = NoClient
  /\ target = "" /\ stage = "idle"
  /\ reqDone = FALSE /\ closed = FALSE /\ cancelled = FALSE
  /\ lock = "free"
  /\ pc = [d \in Dials |-> "none"]
  /\ cut = {}
  /\ chain = [d \in Dials |-> {}]

DialStep(d) ==
  \/ CheckOwner(d) \/ EnterDial(d) \/ ArmDial(d) \/ Propagate(d) \/ CheckHost(d)
  \/ EndDial(d) \/ EndHandshake(d)

TransportStep(d) ==
  AskDial(d) \/ Claim(d) \/ CloseUnclaimed(d) \/ CutBody(d) \/ CloseBody(d)

OwnerStep == CloseOwner \/ CancelOwner \/ JoinDials

RequestStep ==
  \/ \E d \in Dials : DialStep(d) \/ TransportStep(d)
  \/ Return \/ OwnerStep \/ EndRequest \/ Forget

\* A request is for any host, and its client may be replaced only between requests.
RequestNext ==
  \/ RequestStep
  \/ \E host : Start(host)
  \/ stage = "idle" /\ UNCHANGED <<target, stage, reqDone, closed, cancelled, lock, pc,
                                   cut, chain>>

RequestSpec == RequestInit /\ [][RequestNext]_requestVars

\* Goroutines that can go on do; a dial that was cancelled ends, as the handshake,
\* which has a timeout, does anyway; so does a request, for its client has one. The
\* transport returns once the request is over. A dial that is not cancelled may take
\* for ever.
RequestFairness ==
  /\ \A d \in Dials :
       /\ WF_requestVars(CheckOwner(d) \/ EnterDial(d) \/ ArmDial(d) \/ CheckHost(d))
       /\ WF_requestVars(Propagate(d))
       /\ WF_requestVars(d \in cut /\ EndDial(d))
       /\ WF_requestVars(EndHandshake(d))
  /\ WF_requestVars(reqDone /\ Return)
  /\ WF_requestVars(OwnerStep)
  /\ WF_requestVars(EndRequest)

--------------------------------------------------------------------------------
\* Every variable of a request keeps its type (the client and the host are
\* the caller's), and the lock is held by the dial that adds itself.
RequestTypeOK ==
  /\ stage \in {"idle", "running", "closing", "canceling", "joining", "returned"}
  /\ reqDone \in BOOLEAN /\ closed \in BOOLEAN /\ cancelled \in BOOLEAN
  /\ lock \in Dials \cup {"free"}
  /\ pc \in [Dials -> {"asked", "adding", "joined", "armed", "dialing", "handshake",
                       "handed", "claimed"} \cup Settled]
  /\ \A d \in Dials : pc[d] = "adding" <=> lock = d
  /\ cut \subseteq Dials
  /\ chain \in [Dials -> Chains \cup {{}}]

\* A RoundTrip that has returned, and freed the slot of its fetch, leaves the body of
\* its response and nothing else: no dial or handshake is under way or can still get
\* in, however late it asks; and the owner's end never cuts that body.
RequestLeavesOnlyItsBody ==
  /\ stage = "returned" => \A d \in Dials :
       pc[d] \notin {"adding", "joined", "armed", "dialing", "handshake"}
  /\ \A d \in Dials : pc[d] = "cut" => reqDone

\* Every RoundTrip returns, though a dial that nobody cancels may hang for ever.
RoundTripReturns == stage = "running" ~> stage = "returned"
================================================================================
