---------------------------- MODULE OperatorServer ----------------------------
(***************************************************************************)
(* The operator's server, as far as the prober can tell it by its answers, *)
(* and what the operator client (ingest) and the command's own calls       *)
(* (cmd/egress-prober) make of them.                                       *)
(*                                                                         *)
(* An endpoint may be missing until the server is upgraded, the operator   *)
(* secret is what the server accepts or not, its credential is minted when *)
(* its bootstrap task has run, and any call may fail: unreachable, another *)
(* status, an answer that does not decode.                                 *)
(***************************************************************************)

VARIABLES
  deployed,   \* endpoints the server has
  secretOk    \* it accepts the prober's operator secret

server == <<deployed, secretOk>>

Endpoints == {"credential", "clients", "pins", "due", "blackholeDue", "blackholeChecks"}

--------------------------------------------------------------------------------
\* What the server may answer a call with.
Answers(endpoint) ==
  {"failure"} \cup
  (IF endpoint \notin deployed THEN {"notFound"}
   ELSE CASE endpoint = "clients"    -> {"ok", "unauthorized"}   \* asked with the jwt
          [] ~ secretOk              -> {"unauthorized"}
          [] endpoint = "credential" -> {"ok", "notFound"}       \* minted, or not yet
          [] OTHER                   -> {"ok"})

\* The error each call gives for an answer it can tell from other failures. Here and
\* below, a definition that nothing uses states a plausible mistake in the one after
\* it.
UnauthorizedIsRetried == [notFound |-> "notReady"]
CredentialErrors      == [notFound |-> "notReady", unauthorized |-> "unauthorized"]
ClientsErrors         == [unauthorized |-> "rejected"]
PinErrors             == [notFound |-> "error", unauthorized |-> "error"]
DueErrors             == [notFound |-> "unsupported", unauthorized |-> "unauthorized"]
ChecksErrors          == [notFound |-> "unsupported", unauthorized |-> "unauthorized"]

Sentinels(endpoint) ==
  CASE endpoint = "credential"      -> CredentialErrors
    [] endpoint = "clients"         -> ClientsErrors
    [] endpoint = "pins"            -> PinErrors
    [] endpoint = "blackholeChecks" -> ChecksErrors
    [] OTHER                        -> DueErrors

Result(endpoint, answer) ==
  IF answer = "ok" THEN "ok"
  ELSE IF answer \in DOMAIN Sentinels(endpoint) THEN Sentinels(endpoint)[answer]
  ELSE "error"

\* What a call may come back with. One that is cut by its context is an error.
Results(endpoint) == {Result(endpoint, answer) : answer \in Answers(endpoint)}

--------------------------------------------------------------------------------
\* The server is upgraded.
Upgrade ==
  /\ deployed # Endpoints
  /\ deployed' = Endpoints
  /\ UNCHANGED secretOk

ServerInit ==
  /\ deployed \in {Endpoints, Endpoints \ {"due", "clients"},
                   Endpoints \ {"blackholeDue", "blackholeChecks"}}
  /\ secretOk \in BOOLEAN
================================================================================
