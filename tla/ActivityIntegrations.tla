------------------------- MODULE ActivityIntegrations -------------------------
(***************************************************************************)
(* The integrations of agent activity and their tokens: the operations of  *)
(* AgentActivityManagementService, IntegrationAuthService and              *)
(* AgentActivityRolloutService over the table agent_activity_integrations, *)
(* the protected secret store and the setup files of an agent.             *)
(*                                                                         *)
(* A request awaits the setup port and the secret store, and other         *)
(* requests run while it does.  The store carries an operation out at one  *)
(* moment (StoreAnswers) and the request goes on at a later one.           *)
(***************************************************************************)
EXTENDS Absence, Integers, FiniteSets

CONSTANTS
  Integrations,  \* ids of the rows of agent_activity_integrations
  Surfaces,      \* those of a qualification module: what the management service accepts
  Qualified,     \* those whose module is qualified for reporting (qualification.manual)
  Automatic,     \* legacy rows whose id starts with "auto:"
  Requests       \* requests that may be served at once

ASSUME IntegrationConstants ==
  /\ Surfaces \subseteq Integrations /\ Automatic \subseteq Integrations \ Surfaces
  /\ Qualified \subseteq Surfaces
  /\ None \notin Integrations \cup {"done", "missing", "failed"}

VARIABLES
  rows,      \* the row of each integration
  tokens,    \* the integrations whose token the secret store holds
  owned,     \* the integrations whose setup files hold entries of FindMnemo
  runtime,   \* agent_activity_runtime
  requests,  \* the requests being served
  listing    \* the integration a listing is at

integrationVars == <<rows, tokens, owned, runtime, requests, listing>>

-----------------------------------------------------------------------------
Row == [configured : BOOLEAN, enabled : BOOLEAN, ref : BOOLEAN, failed : BOOLEAN]
Runtime == [capture : BOOLEAN, rollout : {"disabled", "enabled", "rolling-back"}]

Awaits == {"install", "check", "uninstall", "get", "set", "setAgain", "verify", "delete", "clear"}
StoreCalls == {"get", "set", "setAgain", "verify", "delete", "clear"}

\* A request: what it awaits, what the store answered, for a rollback the integrations
\* still to do and those it read as configured, and whether it has been alone so far.
Request == [op : {"enable", "reconnect", "test", "remove", "rollback"},
            id : Integrations, at : Awaits, answer : {None, "done", "missing", "failed"},
            todo : SUBSET Integrations, configured : SUBSET Integrations,
            setupRemoved : BOOLEAN, alone : BOOLEAN]

\* A listing: the row as it was read, what the store said of its token, and whether either
\* has changed since the row was read.
Listing == [id : Surfaces, seen : Row, found : {None, "done", "missing", "failed"}, overlapped : BOOLEAN]

RequestsTypeOK ==
  /\ rows \in [Integrations -> Row]
  /\ tokens \subseteq Integrations
  /\ owned \subseteq Integrations
  /\ runtime \in Runtime
  /\ requests \in [Requests -> Request \cup {None}]

IntegrationsTypeOK == RequestsTypeOK /\ listing \in Listing \cup {None}

\* initialize(): rows start neither configured nor enabled.  The automatic ones of an
\* older installation may be both.
Unset == [configured |-> FALSE, enabled |-> FALSE, ref |-> FALSE, failed |-> FALSE]
SetUp == [configured |-> TRUE, enabled |-> TRUE, ref |-> TRUE, failed |-> FALSE]

IntegrationsInit ==
  /\ rows = [i \in Integrations |-> IF i \in Automatic THEN SetUp ELSE Unset]
  /\ tokens = Automatic /\ owned = Automatic
  /\ runtime = [capture |-> FALSE, rollout |-> "disabled"]
  /\ requests = [c \in Requests |-> None] /\ listing = None

-----------------------------------------------------------------------------
Busy == {c \in Requests : requests[c] # None}

\* Another request, or a failure, ends what a request may promise.
Disturbed(rs) == [c \in Requests |->
  IF rs[c] = None THEN None ELSE [rs[c] EXCEPT !.alone = FALSE]]

Begin(c, op, i, at) ==
  /\ requests[c] = None
  /\ requests' = [Disturbed(requests) EXCEPT ![c] =
       [op |-> op, id |-> i, at |-> at, answer |-> None, todo |-> {}, configured |-> {},
        setupRemoved |-> FALSE, alone |-> Busy = {}]]

\* Request c goes on to await something else, for integration i.
Await(c, i, at) == requests' = [requests EXCEPT ![c].at = at, ![c].id = i, ![c].answer = None]
Finish(c) == requests' = [requests EXCEPT ![c] = None]
At(c, at) == requests[c] # None /\ requests[c].at = at
Answered(c, at, answer) == At(c, at) /\ requests[c].answer = answer

\* The store carries out what a request asked of it, or fails.
StoreAnswers(c) ==
  /\ requests[c] # None /\ requests[c].at \in StoreCalls /\ requests[c].answer = None
  /\ LET i == requests[c].id at == requests[c].at IN
     /\ tokens' = CASE at \in {"set", "setAgain"} -> tokens \cup {i}
                    [] at = "delete" -> tokens \ {i}
                    [] OTHER -> tokens
     /\ requests' = [requests EXCEPT ![c].answer =
          IF at \in {"get", "verify"} /\ i \notin tokens THEN "missing" ELSE "done"]
  /\ UNCHANGED <<rows, owned, runtime>>

StoreFails(c) ==
  /\ requests[c] # None /\ requests[c].at \in StoreCalls /\ requests[c].answer = None
  /\ requests' = [requests EXCEPT ![c].answer = "failed", ![c].alone = FALSE]
  /\ UNCHANGED <<rows, tokens, owned, runtime>>

RolloutEnabled == [capture |-> TRUE, rollout |-> "enabled"]

\* The rest of enable() and reconnect() once the token is there.
Completed(c) == runtime' = RolloutEnabled /\ Finish(c)

\* issue(): refused unless the row is configured when it is called.
Issue(c, i, at) == IF rows[i].configured THEN Await(c, i, at) ELSE Finish(c)

\* verify(): what the row must say before the store is asked.
Verifiable(row) == row.enabled /\ row.configured /\ row.ref

\* ensure() on the row as it is after this step.
Ensure(c, i) == IF rows'[i].ref THEN Await(c, i, "get") ELSE Await(c, i, "set")

-----------------------------------------------------------------------------
(* enable()                                                                *)
Enable(c, i) ==
  /\ i \in Qualified
  /\ Begin(c, "enable", i, "install")
  /\ UNCHANGED <<rows, tokens, owned, runtime>>

Configured(i) == [rows EXCEPT ![i].configured = TRUE, ![i].enabled = TRUE, ![i].failed = FALSE]

Installed(c) ==
  /\ At(c, "install")
  /\ LET i == requests[c].id IN
     /\ owned' = owned \cup {i}
     /\ rows' = Configured(i)
     /\ Await(c, i, "set")
  /\ UNCHANGED <<tokens, runtime>>

\* The port cannot install, verify or remove; the request ends without a change.
PortFails(c) ==
  /\ requests[c] # None /\ requests[c].at \in {"install", "check", "uninstall"}
  /\ requests[c].op # "rollback"
  /\ Finish(c)
  /\ UNCHANGED <<rows, tokens, owned, runtime>>

\* What issue() does when the store has taken the token: the row is enabled whatever
\* has become of it meanwhile.
Issued(i) == [rows EXCEPT ![i].ref = TRUE, ![i].enabled = TRUE]

TokenStored(c) ==
  /\ \E at \in {"set", "setAgain"} : Answered(c, at, "done")
  /\ LET i == requests[c].id IN
     /\ rows' = Issued(i)
     /\ IF requests[c].op = "test"
        THEN /\ UNCHANGED runtime
             /\ IF Verifiable(rows'[i]) THEN Await(c, i, "verify") ELSE Finish(c)
        ELSE Completed(c)
  /\ UNCHANGED <<tokens, owned>>

\* A failed set undoes the enabling; reconnect() tries once more and gives up.
TokenRefused(c) ==
  /\ \E at \in {"set", "setAgain"} : Answered(c, at, "failed")
  /\ LET i == requests[c].id IN
     CASE requests[c].op = "enable" ->
            /\ rows' = [rows EXCEPT ![i].configured = FALSE, ![i].enabled = FALSE, ![i].failed = TRUE]
            /\ Finish(c)
       [] requests[c].op = "reconnect" /\ requests[c].at = "set" ->
            Issue(c, i, "setAgain") /\ UNCHANGED rows
       [] OTHER -> Finish(c) /\ UNCHANGED rows
  /\ UNCHANGED <<tokens, owned, runtime>>

-----------------------------------------------------------------------------
(* reconnect() and test()                                                  *)
Reconnect(c, i) ==
  /\ i \in Surfaces
  /\ Begin(c, "reconnect", i, "check")
  /\ UNCHANGED <<rows, tokens, owned, runtime>>

Checked(c) ==
  /\ At(c, "check") /\ requests[c].id \in owned
  /\ rows' = Configured(requests[c].id)
  /\ Ensure(c, requests[c].id)
  /\ UNCHANGED <<tokens, owned, runtime>>

Test(c, i) ==
  /\ i \in Surfaces /\ rows[i].enabled /\ rows[i].configured
  /\ Begin(c, "test", i, IF rows[i].ref THEN "get" ELSE "set")
  /\ UNCHANGED <<rows, tokens, owned, runtime>>

\* ensure() found the token.
TokenFound(c) ==
  /\ Answered(c, "get", "done")
  /\ IF requests[c].op = "test"
     THEN /\ UNCHANGED runtime
          /\ IF Verifiable(rows[requests[c].id]) THEN Await(c, requests[c].id, "verify") ELSE Finish(c)
     ELSE Completed(c)
  /\ UNCHANGED <<rows, tokens, owned>>

TokenMissing(c) ==
  /\ Answered(c, "get", "missing")
  /\ Issue(c, requests[c].id, "set")
  /\ UNCHANGED <<rows, tokens, owned, runtime>>

TokenUnreadable(c) ==
  /\ Answered(c, "get", "failed")
  /\ IF requests[c].op = "reconnect" THEN Issue(c, requests[c].id, "setAgain") ELSE Finish(c)
  /\ UNCHANGED <<rows, tokens, owned, runtime>>

\* The end of test(): the event is validated against the row as it is now, and nothing
\* but the row's health changes.
Tested(c) ==
  /\ At(c, "verify") /\ requests[c].answer # None
  /\ LET i == requests[c].id IN
     rows' = IF requests[c].answer = "done" /\ rows[i].enabled /\ rows[i].configured
             THEN [rows EXCEPT ![i].failed = FALSE] ELSE rows
  /\ Finish(c)
  /\ UNCHANGED <<tokens, owned, runtime>>

\* pause()
Pause(i) ==
  /\ i \in Surfaces
  /\ rows' = [rows EXCEPT ![i].enabled = FALSE]
  /\ requests' = Disturbed(requests)
  /\ UNCHANGED <<tokens, owned, runtime>>

-----------------------------------------------------------------------------
(* remove() and rollback()                                                 *)
RemoveIntegration(c, i) ==
  /\ i \in Surfaces
  /\ Begin(c, "remove", i, "uninstall")
  /\ UNCHANGED <<rows, tokens, owned, runtime>>

Uninstalled(c) ==
  /\ At(c, "uninstall")
  /\ owned' = owned \ {requests[c].id}
  /\ requests' = [requests EXCEPT ![c].at = "delete", ![c].setupRemoved = TRUE]
  /\ UNCHANGED <<rows, tokens, runtime>>

\* The setup stays.  remove() does not look at the answer; a rollback notes it.
NotUninstalled(c) ==
  /\ At(c, "uninstall")
  /\ requests' = [requests EXCEPT ![c].at = "delete", ![c].setupRemoved = FALSE]
  /\ UNCHANGED <<rows, tokens, owned, runtime>>

\* Mutant: only an integration that is still enabled is revoked.
RevokedIfEnabled(i) == IF rows[i].enabled THEN [rows EXCEPT ![i].ref = FALSE, ![i].enabled = FALSE] ELSE rows

\* revoke(), once the store has deleted the token.
Revoked(i) == [rows EXCEPT ![i].ref = FALSE, ![i].enabled = FALSE]

TokenDeleted(c) ==
  /\ Answered(c, "delete", "done")
  /\ rows' = Revoked(requests[c].id)
  /\ Await(c, requests[c].id, "clear")
  /\ UNCHANGED <<tokens, owned, runtime>>

\* A rollback goes on to its next integration in any order, or ends.
RollOn(c, todo) ==
  IF todo = {}
  THEN /\ runtime' = [runtime EXCEPT !.rollout = "disabled"]
       /\ Finish(c)
  ELSE \E i \in todo :
       /\ requests' = [requests EXCEPT ![c].id = i, ![c].todo = todo \ {i}, ![c].answer = None,
            ![c].at = IF i \in Automatic /\ i \in requests[c].configured THEN "uninstall" ELSE "delete",
            ![c].setupRemoved = TRUE]
       /\ UNCHANGED runtime

\* The last write for an integration, from what the request read or was answered.
RetriesCleared(c) ==
  /\ \/ At(c, "clear") /\ requests[c].answer # None
     \/ Answered(c, "delete", "failed")
  /\ LET i == requests[c].id
         kept == requests[c].op = "rollback" /\ ~requests[c].setupRemoved IN
     IF requests[c].op = "remove" /\ requests[c].answer = "failed"
     THEN Finish(c) /\ UNCHANGED <<rows, runtime>>
     ELSE /\ rows' = [rows EXCEPT ![i].configured = kept /\ i \in requests[c].configured,
                                  ![i].enabled = FALSE, ![i].failed = kept]
          /\ IF requests[c].op = "remove" THEN Finish(c) /\ UNCHANGED runtime
             ELSE RollOn(c, requests[c].todo)
  /\ UNCHANGED <<tokens, owned>>

Rollback(c) ==
  /\ requests[c] = None
  /\ rows' = [i \in Integrations |-> [rows[i] EXCEPT !.enabled = FALSE]]
  /\ runtime' = [capture |-> FALSE, rollout |-> "rolling-back"]
  /\ LET configured == {i \in Integrations : rows[i].configured} IN
     \E i \in Integrations :
     requests' = [Disturbed(requests) EXCEPT ![c] =
       [op |-> "rollback", id |-> i, answer |-> None, todo |-> Integrations \ {i},
        at |-> IF i \in Automatic /\ i \in configured THEN "uninstall" ELSE "delete",
        configured |-> configured, setupRemoved |-> TRUE, alone |-> Busy = {}]]
  /\ UNCHANGED <<tokens, owned>>

-----------------------------------------------------------------------------
(* listIntegrations(), one integration after the other.  The row is read,  *)
(* its token is asked for behind an await, and the answer is made of both. *)
ListIntegration(i) ==
  /\ listing = None
  /\ listing' = [id |-> i, seen |-> rows[i], found |-> None, overlapped |-> FALSE]
  /\ UNCHANGED <<rows, tokens, owned, runtime, requests>>

AsksStore == listing.seen.configured /\ listing.seen.ref
StoreTells ==
  /\ listing # None /\ AsksStore /\ listing.found = None
  /\ \E found \in {IF listing.id \in tokens THEN "done" ELSE "missing", "failed"} :
       listing' = [listing EXCEPT !.found = found]
  /\ UNCHANGED <<rows, tokens, owned, runtime, requests>>

Listed == listing # None /\ (AsksStore => listing.found # None)
ListingEnds ==
  /\ Listed /\ listing' = None
  /\ UNCHANGED <<rows, tokens, owned, runtime, requests>>

\* What a listing has read of its integration may be written meanwhile.
Overlap ==
  listing' = IF listing = None THEN None
             ELSE LET i == listing.id IN
                  [listing EXCEPT !.overlapped =
                     @ \/ rows'[i] # rows[i] \/ (i \in tokens) # (i \in tokens')]

-----------------------------------------------------------------------------
\* The process ends and the database is opened again.
IntegrationsRestart ==
  /\ Busy # {} \/ listing # None
  /\ listing' = None
  /\ requests' = [c \in Requests |-> None]
  /\ runtime' = IF runtime.rollout = "rolling-back" /\ ~runtime.capture
                THEN [runtime EXCEPT !.rollout = "disabled"] ELSE runtime
  /\ UNCHANGED <<rows, tokens, owned>>

RequestsServed ==
  \/ \E c \in Requests :
       \/ \E i \in Surfaces : Enable(c, i) \/ Reconnect(c, i) \/ Test(c, i) \/ RemoveIntegration(c, i)
       \/ Rollback(c)
       \/ StoreAnswers(c) \/ StoreFails(c) \/ PortFails(c)
       \/ Installed(c) \/ TokenStored(c) \/ TokenRefused(c)
       \/ Checked(c) \/ TokenFound(c) \/ TokenMissing(c) \/ TokenUnreadable(c) \/ Tested(c)
       \/ Uninstalled(c) \/ NotUninstalled(c) \/ TokenDeleted(c) \/ RetriesCleared(c)
  \/ \E i \in Surfaces : Pause(i)

IntegrationsNext ==
  \/ RequestsServed /\ Overlap
  \/ \E i \in Surfaces : ListIntegration(i)
  \/ StoreTells \/ ListingEnds
  \/ IntegrationsRestart

-----------------------------------------------------------------------------
(* What the listing shows of its integration.  A view is what else it      *)
(* depends on: the binding of the surface, its account, health, last event *)
(* and gaps.  What hides an integration does so by itself, and a view has  *)
(* one at most.                                                            *)
Plainly == [trust |-> "trusted", account |-> "unknown", gaps |-> FALSE, health |-> "healthy",
            event |-> "recent"]
Views == {[view EXCEPT !.gaps = gaps, !.event = event] : gaps \in BOOLEAN, event \in {None, "recent"},
          view \in {Plainly, [Plainly EXCEPT !.trust = "untrusted"], [Plainly EXCEPT !.account = "signed-out"],
                    [Plainly EXCEPT !.health = "unavailable"]}}

\* integrationEvidence()
AuthState(row, found) ==
  CASE ~row.configured -> "not-configured"
    [] row.configured /\ ~row.ref -> "missing"
    [] OTHER -> IF found = "failed" THEN "unavailable" ELSE IF found = "done" THEN "ready" ELSE "missing"

\* What makes an integration unavailable, before its events are looked at.
Hindered(row, found, view) ==
  \/ view.account # "unknown" \/ view.trust # "trusted"
  \/ row.configured /\ AuthState(row, found) # "ready"
  \/ row.failed /\ view.event = None
  \/ ~row.configured \/ ~row.enabled

\* coverage()
Coverage(i, row, found, view) ==
  CASE i \notin Qualified -> "unsupported"
    [] i \in Qualified /\ Hindered(row, found, view) -> "unavailable"
    [] OTHER -> IF view.gaps THEN "partial"
                ELSE IF view.health = "unavailable" THEN "unavailable"
                ELSE IF view.event = None THEN "empty"
                ELSE IF view.health = "stale" \/ view.event = "old" THEN "stale"
                ELSE "connected"

\* integrationDto(): the action offered first.
PrimaryAction(i, row, found, view) ==
  IF i \notin Qualified THEN "manual-report"
  ELSE IF view.account = "signed-out" THEN "sign-in"
  ELSE IF view.account = "unavailable" THEN "check-status"
  ELSE IF ~row.configured THEN "enable"
  ELSE IF ~row.enabled THEN "resume"
  ELSE IF AuthState(row, found) # "ready" \/ view.trust # "trusted" \/ row.failed THEN "reconnect"
  ELSE IF view.gaps THEN "review-gap" ELSE "test"

IntegrationsSpec == IntegrationsInit /\ [][IntegrationsNext]_integrationVars

-----------------------------------------------------------------------------
(* An event of the integration, sent with its token, would be taken now.   *)
Reportable(i) == Verifiable(rows[i]) /\ i \in tokens

\* Whatever requests interleave and wherever one failed or was cut off: a listing shows an
\* integration with coverage, and offers its test or its gaps, only if its events would be
\* taken, unless the row or the token was written between the listing's two readings and its
\* answer.  The row, the reference in it and the secret store are written apart.
CoverageIsHonest ==
  Listed /\ ~listing.overlapped =>
    LET i == listing.id row == listing.seen found == listing.found IN
    Reportable(i) \/ \A view \in Views :
      /\ PrimaryAction(i, row, found, view) \notin {"test", "review-gap"}
      /\ Coverage(i, row, found, view) \notin {"connected", "empty", "partial", "stale"}

\* However the earlier requests left an integration, one that is served alone to its end
\* does what it says: enabling, reconnecting and testing leave it reporting, removing
\* leaves neither row nor token in use, and a rollback leaves none of all of them.
UndisturbedRequestsWork == [][\A c \in Requests :
  requests[c] # None /\ requests[c].alone =>
    LET i == requests[c].id op == requests[c].op IN
    /\ TokenStored(c) \/ TokenFound(c) =>
         Verifiable(rows'[i]) /\ i \in tokens /\ (op # "test" => runtime'.capture)
    /\ RetriesCleared(c) =>
         /\ ~rows'[i].configured \/ rows'[i].failed
         /\ ~rows'[i].enabled /\ ~rows'[i].ref /\ i \notin tokens
    /\ RetriesCleared(c) /\ op = "rollback" /\ requests[c].todo = {} =>
         ~runtime'.capture /\ tokens = {} /\ \A j \in Integrations : ~rows'[j].enabled /\ ~rows'[j].ref
  ]_integrationVars
=============================================================================
