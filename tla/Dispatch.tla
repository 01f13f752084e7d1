------------------------------ MODULE Dispatch ------------------------------
(***************************************************************************)
(* Sending work to another agent: server/routing/dispatch-service.ts and   *)
(* the receipts of server/routing/routing-repository.ts.                   *)
(*                                                                         *)
(* A chat dispatches a task under an idempotency key.  The companion       *)
(* writes a receipt, runs the adapters of the eligible profiles one after  *)
(* the other until one returns a result, and settles the receipt.  A timer *)
(* or a person may abort it, a failed dispatch may be retried under a new  *)
(* key, and the companion may stop or die at any moment: the database      *)
(* keeps the receipts, the running calls and the tasks are lost.           *)
(*                                                                         *)
(* Code between two awaits is one action; when the process may die between *)
(* two statements of it, that is an action of its own.  Which profiles are *)
(* eligible (policy, readiness, catalogs) is left open: any ordered choice.*)
(***************************************************************************)
EXTENDS Integers, FiniteSets, Sequences, SequencesExt

CONSTANTS
  Receipts,   \* ids of dispatch receipts
  Keys,       \* idempotency keys
  Profiles,   \* execution profiles: a connection, a model and an effort
  Keyed,      \* those whose adapter reads a key from the secret store first (OpenRouter)
  None

ASSUME DispatchConstants ==
  /\ None \notin Receipts \cup Profiles
  /\ IsFiniteSet(Profiles)
  /\ Keyed \subseteq Profiles

VARIABLES
  receipts,   \* table routing_dispatch_receipts: id |-> row, or None
  jobs,       \* calls of dispatch that have not returned: receipt |-> call, or None
  retryable,  \* receipts whose task is kept in memory, for five minutes
  policy,     \* the policy in force: "v1", or "v3" once one was saved
  up,         \* the companion runs
  orphans     \* executions at a destination that no call waits for any more

vars == <<receipts, jobs, retryable, policy, up, orphans>>

-----------------------------------------------------------------------------
InFlight == {"requested", "accepted", "running"}
Unsuccessful == {"failed", "timed-out", "cancelled"}
Settled == Unsuccessful \cup {"completed"}

Receipt ==
  [key : Keys, generation : Nat \ {0}, prior : Receipts \cup {None}, policy : {"v1", "v3"},
   requested : Profiles,              \* requestedProfileSnapshot
   route : Profiles \cup {None},      \* v1: the route reported; v3: the connection that ran
   fallbacks : SUBSET Profiles,       \* fallbackFromProfileIds
   state : InFlight \cup Settled,
   returned : {"pending", "delivered", "return-unavailable"}]

Call ==
  [left : Seq(Profiles),              \* eligible profiles not done with; the first one runs
   at : {"context", "key", "stream"}, \* resolving the folder, reading the key, at the destination
   signal : {"none", "timeout", "cancelled"},
   output : BOOLEAN]                  \* a 'completed' event has come

ASSUME NoneIsNoRow == None \notin Receipt /\ None \notin Call

Known == {r \in Receipts : receipts[r] # None}
Running == {r \in Receipts : jobs[r] # None}

\* What selection can produce: profiles in any order, each once.
Selected == {order \in UNION {[1..n -> Profiles] : n \in 1..Cardinality(Profiles)} : IsInjective(order)}

\* Qualification leaves any of them; a v1 policy has one profile.
Candidates == {order \in Selected : policy = "v1" => Len(order) = 1}

-----------------------------------------------------------------------------
(* Creating a receipt.                                                     *)

NewReceipt(k, prior, order, state) ==
  [key |-> k, prior |-> prior, policy |-> policy,
   generation |-> IF prior = None THEN 1 ELSE receipts[prior].generation + 1,
   requested |-> order[1], route |-> None, fallbacks |-> {},
   state |-> state, returned |-> "pending"]

NewCall(order) ==
  [left |-> order, at |-> IF policy = "v1" THEN "stream" ELSE "context",
   signal |-> "none", output |-> FALSE]

MayRetry(prior) ==
  prior # None => prior \in Known /\ receipts[prior].state \in Unsuccessful

\* findDispatchByIdempotencyKey: a known key returns the receipt and starts nothing.
Unused(k) == \A r \in Known : receipts[r].key # k

\* dispatch, up to its first await: the receipt is requested, accepted and running.
Dispatch(r, k, prior, order) ==
  /\ up
  /\ receipts[r] = None /\ Unused(k) /\ MayRetry(prior)
  /\ receipts' = [receipts EXCEPT ![r] = NewReceipt(k, prior, order, "running")]
  /\ jobs' = [jobs EXCEPT ![r] = NewCall(order)]
  /\ retryable' = retryable \cup {r}
  /\ UNCHANGED <<policy, up, orphans>>

\* retry, from the browser: the task must still be in memory.
Retry(r, k, prior, order) == prior \in retryable /\ Dispatch(r, k, prior, order)

\* The five minutes are over.
Expire(r) ==
  /\ r \in retryable
  /\ retryable' = retryable \ {r}
  /\ UNCHANGED <<receipts, jobs, policy, up, orphans>>

\* The first policy of version 3 is saved.
AdoptPolicyV3 ==
  /\ up /\ policy = "v1" /\ policy' = "v3"
  /\ UNCHANGED <<receipts, jobs, retryable, up, orphans>>

-----------------------------------------------------------------------------
(* A call goes on.                                                         *)

Settle(r, row, state) ==
  /\ receipts' = [receipts EXCEPT ![r] =
       [row EXCEPT !.state = state,
                   !.returned = IF state = "completed" THEN @ ELSE "return-unavailable"]]
  /\ jobs' = [jobs EXCEPT ![r] = None]

\* Mutant: the reason of the abort is taken for the state.
SignalIsOutcome(signal) == IF signal = "none" THEN "failed" ELSE signal

OutcomeOf(signal) ==
  IF signal = "timeout" THEN "timed-out" ELSE IF signal = "cancelled" THEN "cancelled" ELSE "failed"

\* Mutant: the profile that takes over is recorded.
FallBackNamesNext(r, row) ==
  LET left == Tail(jobs[r].left)
  IN /\ receipts' = [receipts EXCEPT ![r] = [row EXCEPT !.fallbacks = @ \cup {Head(left)}]]
     /\ jobs' = [jobs EXCEPT ![r] = [@ EXCEPT !.left = left, !.at = "context", !.output = FALSE]]

\* The profile that follows takes over, and the one that failed is recorded.
FallBack(r, row) ==
  LET left == Tail(jobs[r].left)
  IN /\ receipts' = [receipts EXCEPT ![r] = [row EXCEPT !.fallbacks = @ \cup {Head(jobs[r].left)}]]
     /\ jobs' = [jobs EXCEPT ![r] = [@ EXCEPT !.left = left, !.at = "context", !.output = FALSE]]

\* Mutant: an aborted dispatch tries the next profile.
FailsAnyway(r, row) ==
  IF Len(jobs[r].left) > 1 THEN FallBack(r, row)
  ELSE Settle(r, row, OutcomeOf(jobs[r].signal))

\* The running profile has failed: the next one follows, unless the call was aborted.
Fails(r, row) ==
  IF jobs[r].signal = "none" /\ Len(jobs[r].left) > 1 THEN FallBack(r, row)
  ELSE Settle(r, row, OutcomeOf(jobs[r].signal))

Stays == UNCHANGED <<retryable, policy, up, orphans>>

ContextResolved(r) ==
  /\ jobs[r] # None /\ jobs[r].at = "context"
  /\ jobs' = [jobs EXCEPT ![r].at = IF Head(jobs[r].left) \in Keyed THEN "key" ELSE "stream"]
  /\ UNCHANGED receipts /\ Stays

\* requiredKey: the secret store is given no signal and has no timeout of its own.
AwaitsKey(r) == jobs[r] # None /\ jobs[r].at = "key"

KeyRead(r) ==
  /\ AwaitsKey(r)
  /\ jobs' = [jobs EXCEPT ![r].at = "stream"]
  /\ UNCHANGED receipts /\ Stays

\* The folder or the key is not available; the adapter throws or reports a failure, ends without
\* a result, or with one that is too long.
CandidateFails(r) ==
  /\ jobs[r] # None
  /\ Fails(r, receipts[r]) /\ Stays

RouteDiffers(row, p) == p # row.requested

\* A 'started' or a 'completed' event that names the route p.  A v1 dispatch records
\* it and compares it with the one requested.
Event(r, p, completed) ==
  /\ jobs[r] # None /\ jobs[r].at = "stream"
  /\ LET row == IF receipts[r].policy = "v1" THEN [receipts[r] EXCEPT !.route = p] ELSE receipts[r]
     IN IF row.policy = "v1" /\ RouteDiffers(row, p) THEN Fails(r, row)
        ELSE /\ receipts' = [receipts EXCEPT ![r] = row]
             /\ jobs' = [jobs EXCEPT ![r].output = @ \/ completed]
  /\ Stays

Completed(r) ==
  IF receipts[r].policy = "v1" THEN receipts[r]
  ELSE [receipts[r] EXCEPT !.route = Head(jobs[r].left)]

\* The stream has ended with a result, which counts even if an abort came before.
Completes(r) ==
  /\ jobs[r] # None /\ jobs[r].at = "stream" /\ jobs[r].output
  /\ Settle(r, Completed(r), "completed") /\ Stays

\* Mutant: the timer starts with the adapter.
TimeoutOfStream(r) ==
  /\ jobs[r] # None /\ jobs[r].at = "stream" /\ jobs[r].signal = "none"
  /\ jobs' = [jobs EXCEPT ![r].signal = "timeout"]
  /\ UNCHANGED receipts /\ Stays

Timeout(r) ==
  /\ jobs[r] # None /\ jobs[r].signal = "none"
  /\ jobs' = [jobs EXCEPT ![r].signal = "timeout"]
  /\ UNCHANGED receipts /\ Stays

Cancel(r) ==
  /\ jobs[r] # None /\ jobs[r].signal = "none"
  /\ jobs' = [jobs EXCEPT ![r].signal = "cancelled"]
  /\ UNCHANGED receipts /\ Stays

\* The chat acknowledges the result of a dispatch that returned one.
MarkDelivered(r) ==
  /\ up
  /\ receipts[r] # None /\ receipts[r].state = "completed"
  /\ receipts' = [receipts EXCEPT ![r].returned = "delivered"]
  /\ UNCHANGED jobs /\ Stays

-----------------------------------------------------------------------------
(* The companion stops, or dies, and starts again.                         *)

\* The calls are gone or can no longer write; what they started at a destination goes on.
Down ==
  /\ up' = FALSE
  /\ jobs' = [r \in Receipts |-> None]
  /\ retryable' = {}
  /\ orphans' = orphans \cup {r \in Running : jobs[r].at = "stream"}
  /\ UNCHANGED policy

Stop == up /\ Down /\ UNCHANGED receipts

\* It dies while dispatch writes the receipt, ...
DispatchInterrupted(r, k, prior, order) ==
  /\ up
  /\ receipts[r] = None /\ Unused(k) /\ MayRetry(prior)
  /\ \E state \in InFlight :
       receipts' = [receipts EXCEPT ![r] = NewReceipt(k, prior, order, state)]
  /\ Down

\* ... or between the two statements that complete it: the route is not recorded.
CompletesInterrupted(r) ==
  /\ jobs[r] # None /\ jobs[r].at = "stream" /\ jobs[r].output
  /\ receipts[r].policy = "v3"
  /\ receipts' = [receipts EXCEPT ![r].state = "completed"]
  /\ Down

OrphanEnds(r) ==
  /\ r \in orphans
  /\ orphans' = orphans \ {r}
  /\ UNCHANGED <<receipts, jobs, retryable, policy, up>>

Interrupted(row) == row.state \in InFlight

\* recoverInterruptedDispatches, before the companion listens.
Start ==
  /\ ~up /\ up' = TRUE
  /\ receipts' =
       [r \in Receipts |->
          IF r \in Known /\ Interrupted(receipts[r])
          THEN [receipts[r] EXCEPT !.state = "failed", !.returned = "return-unavailable"]
          ELSE receipts[r]]
  /\ UNCHANGED <<jobs, retryable, policy, orphans>>

-----------------------------------------------------------------------------
Init ==
  /\ receipts = [r \in Receipts |-> None]
  /\ jobs = [r \in Receipts |-> None]
  /\ retryable = {}
  /\ policy \in {"v1", "v3"}
  /\ up = TRUE
  /\ orphans = {}

Next ==
  \/ \E r \in Receipts, k \in Keys, prior \in Receipts \cup {None}, order \in Candidates :
       \/ Dispatch(r, k, prior, order)
       \/ Retry(r, k, prior, order)
       \/ DispatchInterrupted(r, k, prior, order)
  \/ \E r \in Receipts : Expire(r)
  \/ AdoptPolicyV3
  \/ \E r \in Receipts : ContextResolved(r)
  \/ \E r \in Receipts : KeyRead(r)
  \/ \E r \in Receipts : CandidateFails(r)
  \/ \E r \in Receipts, p \in Profiles, completed \in BOOLEAN : Event(r, p, completed)
  \/ \E r \in Receipts : Completes(r)
  \/ \E r \in Receipts : Timeout(r)
  \/ \E r \in Receipts : Cancel(r)
  \/ \E r \in Receipts : MarkDelivered(r)
  \/ Stop
  \/ \E r \in Receipts : CompletesInterrupted(r)
  \/ \E r \in Receipts : OrphanEnds(r)
  \/ Start

Spec == Init /\ [][Next]_vars

\* The timer of a dispatch goes off, within ten minutes.
TimersRun == \A r \in Receipts : WF_vars(Timeout(r))

\* Resolving a folder ends, and so does the stream of an aborted adapter: the process
\* runner, fetch and the Pi session all end on the signal.  A key read need not end.
AbortedCallEnds(r) ==
  /\ jobs[r] # None /\ jobs[r].signal # "none" /\ ~AwaitsKey(r)
  /\ ContextResolved(r) \/ CandidateFails(r) \/ Completes(r)
AdaptersHeed == \A r \in Receipts : WF_vars(AbortedCallEnds(r))

FairSpec == Spec /\ TimersRun /\ AdaptersHeed

-----------------------------------------------------------------------------
TypeOK ==
  /\ receipts \in [Receipts -> Receipt \cup {None}]
  /\ jobs \in [Receipts -> Call \cup {None}]
  /\ retryable \subseteq Receipts
  /\ policy \in {"v1", "v3"} /\ up \in BOOLEAN
  /\ orphans \subseteq Receipts

\* While the companion runs, a receipt in flight is one that a call is working on: no
\* crash between any two statements leaves one that stays "running" for ever.
InFlightIsWorkedOn ==
  up => \A r \in Receipts :
          jobs[r] # None <=> (receipts[r] # None /\ receipts[r].state \in InFlight)

\* A key stands for one receipt, and so for one execution of the task.
OneReceiptPerKey ==
  \A r, s \in Known : receipts[r].key = receipts[s].key => r = s

\* The outcome the chat was given is final: no late result, cancellation, timeout,
\* retry or restart changes a settled receipt.
OutcomeIsFinal ==
  [][\A r \in Known : receipts[r].state \in Settled =>
       receipts'[r] # None /\ receipts'[r] = [receipts[r] EXCEPT !.returned = receipts'[r].returned]]_vars

\* A retry continues a dispatch that did not succeed, in the next generation.
RetriesFollowFailures ==
  \A r \in Known : receipts[r].prior # None =>
    LET prior == receipts[r].prior
    IN /\ prior \in Known /\ receipts[prior].state \in Unsuccessful
       /\ receipts[r].generation = receipts[prior].generation + 1

\* No result is promised to the chat for a dispatch that has none, and none is shown
\* as returned before there was one.
ReturnMatchesOutcome ==
  \A r \in Known :
    /\ receipts[r].returned = "return-unavailable" <=> receipts[r].state \in Unsuccessful
    /\ receipts[r].returned = "delivered" => receipts[r].state = "completed"

\* A v1 dispatch completes on the exact route that was requested; of a v3 dispatch the
\* receipt tells which profile ran, and that every one before it was tried and failed.
EvidenceIsHonest ==
  \A r \in Known : receipts[r].state = "completed" =>
    LET row == receipts[r]
    IN /\ row.policy = "v1" => row.route = row.requested
       /\ row.route # None => row.route \notin row.fallbacks
       /\ row.route \notin {None, row.requested} => row.requested \in row.fallbacks

\* Once it is aborted, a dispatch sends the task to no further destination.
NoFallbackAfterAbort ==
  [][\A r \in Running : jobs[r].signal # "none" =>
       jobs'[r] = None \/ jobs'[r].left = jobs[r].left]_vars

\* Every dispatch settles, whatever its destination does, or the companion has stopped.
\* The one exception is a secret store that never answers: no timer ends that wait, and
\* nothing else may keep a dispatch in flight.
DispatchSettles ==
  \A r \in Receipts : (jobs[r] # None) ~>
    (~up \/ (r \in Known \ Running /\ receipts[r].state \in Settled) \/ []AwaitsKey(r))

-----------------------------------------------------------------------------
\* The receipts agree with each other, with the calls in flight and with what was returned.
ReceiptsAgree ==
  /\ InFlightIsWorkedOn /\ OneReceiptPerKey /\ RetriesFollowFailures
  /\ ReturnMatchesOutcome /\ EvidenceIsHonest

\* What is settled or aborted stays so.
OutcomesStand == OutcomeIsFinal /\ NoFallbackAfterAbort
=============================================================================
