--------------------------- MODULE DispatchProofs ---------------------------
(***************************************************************************)
(* Theorems about Dispatch, for every number of receipts, keys and         *)
(* profiles.                                                               *)
(*                                                                         *)
(* What a completed receipt says of its route rests on how the call that   *)
(* completed it went through its candidates, so the inductive invariant    *)
(* relates every receipt in flight to its call (Fits).                     *)
(***************************************************************************)
EXTENDS Dispatch, FiniteSetTheorems, TLAPS

\* How a receipt in flight and its call agree: what has failed is recorded, what is
\* left is not, and a v1 call is at its only profile.
Fits(row, call) ==
  /\ Len(call.left) >= 1
  /\ \A i, j \in 1..Len(call.left) : call.left[i] = call.left[j] => i = j
  /\ \A i \in 1..Len(call.left) : call.left[i] \notin row.fallbacks
  /\ call.left[1] = row.requested \/ row.requested \in row.fallbacks
  /\ row.policy = "v3" => row.route = None
  /\ row.policy = "v1" =>
       /\ Len(call.left) = 1 /\ call.at = "stream" /\ row.fallbacks = {}
       /\ call.output => row.route = row.requested

\* What ReturnMatchesOutcome and EvidenceIsHonest say of one row.
Honest(row) ==
  /\ row.returned = "return-unavailable" <=> row.state \in Unsuccessful
  /\ row.returned = "delivered" => row.state = "completed"
  /\ row.state = "completed" =>
       /\ row.policy = "v1" => row.route = row.requested
       /\ row.route # None => row.route \notin row.fallbacks
       /\ row.route \notin {None, row.requested} => row.requested \in row.fallbacks

\* A row in flight belongs to a call that fits it, any other row to none.
RowOfCall(row, call) ==
  /\ Honest(row)
  /\ call # None <=> row.state \in InFlight
  /\ call # None => Fits(row, call)

\* The inductive invariant.
Consistent ==
  /\ TypeOK
  /\ OneReceiptPerKey
  /\ RetriesFollowFailures
  /\ \A r \in Known : Honest(receipts[r])
  /\ up => \A r \in Known : RowOfCall(receipts[r], jobs[r])
  /\ \A r \in Receipts : jobs[r] # None => up /\ r \in Known

\* What no step changes in a row.
SameOrigin(row, old) ==
  /\ row.key = old.key /\ row.generation = old.generation /\ row.prior = old.prior
  /\ row.policy = old.policy /\ row.requested = old.requested

\* What a settled row may still change.
SameButReturn(row, old) == row = [old EXCEPT !.returned = row.returned]

-----------------------------------------------------------------------------
(* Operators.                                                              *)

\* An order of candidates is a sequence of different profiles, of one under v1.
LEMMA CandidateOrder ==
  ASSUME NEW order \in Candidates
  PROVE  /\ order \in Seq(Profiles)
         /\ Len(order) >= 1
         /\ order[1] \in Profiles
         /\ \A i, j \in 1..Len(order) : order[i] = order[j] => i = j
         /\ policy = "v1" => Len(order) = 1
  <1>1. Cardinality(Profiles) \in Nat
    BY DispatchConstants, FS_CardinalityType
  <1>2. PICK n \in 1..Cardinality(Profiles) : order \in [1..n -> Profiles]
    BY DEF Candidates, Selected
  <1>3. order \in Seq(Profiles) /\ Len(order) = n /\ n >= 1
    BY <1>1, <1>2
  <1>4. IsInjective(order) /\ (policy = "v1" => Len(order) = 1)
    BY DEF Candidates, Selected
  <1> QED  BY <1>2, <1>3, <1>4 DEF IsInjective

\* The row and the call of a new dispatch.
LEMMA NewRow ==
  ASSUME TypeOK, NEW k \in Keys, NEW prior \in Receipts \cup {None}, NEW order \in Candidates,
         NEW state \in InFlight, MayRetry(prior)
  PROVE  /\ NewReceipt(k, prior, order, state) \in Receipt
         /\ NewCall(order) \in Call
         /\ RowOfCall(NewReceipt(k, prior, order, "running"), NewCall(order))
         /\ Honest(NewReceipt(k, prior, order, state))
         /\ NewReceipt(k, prior, order, state).state = state
         /\ NewReceipt(k, prior, order, state).key = k
         /\ NewReceipt(k, prior, order, state).prior = prior
         /\ prior # None =>
              NewReceipt(k, prior, order, state).generation = receipts[prior].generation + 1
  <1>1. prior # None => receipts[prior] \in Receipt
    BY DEF TypeOK, MayRetry, Known
  <1>2. (IF prior = None THEN 1 ELSE receipts[prior].generation + 1) \in Nat \ {0}
    BY <1>1 DEF Receipt
  <1>3. NewReceipt(k, prior, order, state) \in Receipt
    BY <1>2, CandidateOrder DEF NewReceipt, Receipt, TypeOK
  <1>4. NewCall(order) \in Call
    BY CandidateOrder DEF NewCall, Call
  <1>5. Honest(NewReceipt(k, prior, order, state)) /\ Honest(NewReceipt(k, prior, order, "running"))
    BY DEF Honest, NewReceipt, InFlight, Unsuccessful
  <1>6. Fits(NewReceipt(k, prior, order, "running"), NewCall(order))
    BY CandidateOrder DEF Fits, NewReceipt, NewCall
  <1> QED
    BY <1>3, <1>4, <1>5, <1>6, NoneIsNoRow DEF RowOfCall, NewReceipt, InFlight

-----------------------------------------------------------------------------
(* Every step changes one receipt, keeps them all, or settles those in flight. *)

\* A running call replaces its own receipt's row and call, and the two still agree.
OneGoesOn(r) ==
  /\ up /\ up' /\ r \in Known
  /\ \E row \in Receipt, call \in Call \cup {None} :
       /\ receipts' = [receipts EXCEPT ![r] = row]
       /\ jobs' = [jobs EXCEPT ![r] = call]
       /\ SameOrigin(row, receipts[r]) /\ RowOfCall(row, call)
       /\ receipts[r].state \in Settled => SameButReturn(row, receipts[r])
  /\ Stays

\* Rows that keep their origin, and their state once settled, keep keys and retries apart.
LEMMA OriginsKept ==
  ASSUME Consistent, Known' = Known,
         \A s \in Known : SameOrigin(receipts'[s], receipts[s]),
         \A s \in Known : receipts[s].state \in Settled => receipts'[s].state = receipts[s].state
  PROVE  OneReceiptPerKey' /\ RetriesFollowFailures'
  <1>1. OneReceiptPerKey'
    BY DEF Consistent, OneReceiptPerKey, SameOrigin
  <1>2. ASSUME NEW s \in Known', receipts'[s].prior # None
        PROVE  /\ receipts'[s].prior \in Known'
               /\ receipts'[receipts'[s].prior].state \in Unsuccessful
               /\ receipts'[s].generation = receipts'[receipts'[s].prior].generation + 1
    <2>1. s \in Known /\ receipts'[s].prior = receipts[s].prior
          /\ receipts'[s].generation = receipts[s].generation
      BY <1>2 DEF SameOrigin
    <2>2. /\ receipts[s].prior \in Known
          /\ receipts[receipts[s].prior].state \in Unsuccessful
          /\ receipts[s].generation = receipts[receipts[s].prior].generation + 1
      BY <1>2, <2>1 DEF Consistent, RetriesFollowFailures
    <2> QED  BY <2>1, <2>2 DEF SameOrigin, Settled
  <1> QED  BY <1>1, <1>2 DEF RetriesFollowFailures

\* A receipt that differs from the old one in what may change keeps the invariant.
LEMMA GoesOnKeeps ==
  ASSUME Consistent, NEW r \in Receipts, OneGoesOn(r)
  PROVE  Consistent'
  <1>1. PICK row \in Receipt, call \in Call \cup {None} :
           /\ receipts' = [receipts EXCEPT ![r] = row]
           /\ jobs' = [jobs EXCEPT ![r] = call]
           /\ SameOrigin(row, receipts[r]) /\ RowOfCall(row, call)
           /\ receipts[r].state \in Settled => SameButReturn(row, receipts[r])
    BY DEF OneGoesOn
  <1>2. TypeOK /\ receipts[r] \in Receipt /\ receipts[r] # None /\ row # None /\ up /\ up'
    BY NoneIsNoRow DEF Consistent, TypeOK, OneGoesOn, Known
  <1>3. TypeOK'
    BY <1>1, <1>2 DEF TypeOK, OneGoesOn, Stays
  <1>4. receipts'[r] = row /\ jobs'[r] = call
        /\ \A s \in Receipts \ {r} : receipts'[s] = receipts[s] /\ jobs'[s] = jobs[s]
    BY <1>1, <1>2 DEF TypeOK
  <1>5. Known' = Known
    BY <1>2, <1>4 DEF Known
  <1>6. \A s \in Known : SameOrigin(receipts'[s], receipts[s])
    BY <1>1, <1>4 DEF Known, SameOrigin
  <1>7. \A s \in Known : receipts[s].state \in Settled => receipts'[s].state = receipts[s].state
    <2>1. receipts[r].state \in Settled => row.state = receipts[r].state
      BY <1>1, <1>2 DEF Receipt, SameButReturn
    <2> QED  BY <1>4, <2>1 DEF Known
  <1>8. OneReceiptPerKey' /\ RetriesFollowFailures'
    BY <1>5, <1>6, <1>7, OriginsKept
  <1>9. \A s \in Known' : Honest(receipts'[s]) /\ RowOfCall(receipts'[s], jobs'[s])
    BY <1>1, <1>2, <1>4, <1>5 DEF Consistent, RowOfCall, Known
  <1>10. \A s \in Receipts : jobs'[s] # None => up' /\ s \in Known'
    BY <1>2, <1>4, <1>5 DEF Consistent, OneGoesOn
  <1> QED  BY <1>3, <1>8, <1>9, <1>10 DEF Consistent

-----------------------------------------------------------------------------
(* The steps of a call.                                                    *)

\* A call that runs while the invariant holds has a row it fits.
LEMMA RunningRow ==
  ASSUME Consistent, NEW r \in Receipts, jobs[r] # None
  PROVE  /\ up /\ r \in Known
         /\ receipts[r] \in Receipt /\ jobs[r] \in Call
         /\ RowOfCall(receipts[r], jobs[r]) /\ Fits(receipts[r], jobs[r])
         /\ receipts[r].state \in InFlight
         /\ receipts[r].returned = "pending"
  <1>1. up /\ r \in Known /\ RowOfCall(receipts[r], jobs[r])
    BY DEF Consistent
  <1>2. receipts[r] \in Receipt /\ jobs[r] \in Call
    BY <1>1 DEF Consistent, TypeOK, Known
  <1>3. receipts[r].state \in InFlight /\ Honest(receipts[r]) /\ Fits(receipts[r], jobs[r])
    BY <1>1 DEF RowOfCall
  <1>4. receipts[r].returned = "pending"
    BY <1>2, <1>3 DEF Honest, Receipt, InFlight, Unsuccessful
  <1> QED  BY <1>1, <1>2, <1>3, <1>4

\* A call settles without a result.
LEMMA UnsuccessfulSettles ==
  ASSUME Consistent, NEW r \in Receipts, jobs[r] # None,
         NEW row \in Receipt, SameOrigin(row, receipts[r]), row.returned = "pending",
         NEW state \in Unsuccessful, Settle(r, row, state), Stays
  PROVE  OneGoesOn(r)
  <1> DEFINE new == [row EXCEPT !.state = state,
                       !.returned = IF state = "completed" THEN @ ELSE "return-unavailable"]
  <1>1. /\ new \in Receipt /\ SameOrigin(new, row) /\ new.state = state
        /\ new.returned = "return-unavailable"
    BY DEF Receipt, Settled, Unsuccessful, SameOrigin
  <1>2. receipts' = [receipts EXCEPT ![r] = new] /\ jobs' = [jobs EXCEPT ![r] = None]
    BY DEF Settle
  <1> HIDE DEF new
  <1>3. RowOfCall(new, None)
    BY <1>1 DEF RowOfCall, Honest, Unsuccessful, InFlight
  <1>4. SameOrigin(new, receipts[r])
    BY <1>1 DEF SameOrigin
  <1>5. up /\ up' /\ r \in Known /\ receipts[r].state \notin Settled
    BY RunningRow DEF InFlight, Settled, Unsuccessful, Stays
  <1> QED  BY <1>1, <1>2, <1>3, <1>4, <1>5 DEF OneGoesOn

\* The next profile takes over.
LEMMA FallBackFits ==
  ASSUME Consistent, NEW r \in Receipts, jobs[r] # None, Len(jobs[r].left) > 1,
         NEW row \in Receipt, SameOrigin(row, receipts[r]), row.route = receipts[r].route,
         row.fallbacks = receipts[r].fallbacks, row.state = receipts[r].state,
         row.returned = "pending", FallBack(r, row), Stays
  PROVE  OneGoesOn(r)
  <1> DEFINE left == jobs[r].left
             new == [row EXCEPT !.fallbacks = @ \cup {Head(left)}]
             call == [jobs[r] EXCEPT !.left = Tail(left), !.at = "context", !.output = FALSE]
  <1>1. /\ up /\ up' /\ r \in Known
        /\ receipts[r] \in Receipt /\ jobs[r] \in Call
        /\ Fits(receipts[r], jobs[r]) /\ receipts[r].state \in InFlight
    BY RunningRow DEF Stays
  <1>2. left \in Seq(Profiles) /\ Len(left) > 1
    BY <1>1 DEF Call
  <1>3. /\ Head(left) = left[1] /\ left[1] \in Profiles
        /\ Tail(left) \in Seq(Profiles) /\ Len(Tail(left)) = Len(left) - 1
        /\ \A i \in 1..Len(left) - 1 : Tail(left)[i] = left[i + 1]
    BY <1>2
  <1> HIDE DEF left
  <1>4. /\ new \in Receipt /\ SameOrigin(new, row) /\ new.state = row.state
        /\ new.returned = row.returned /\ new.route = row.route
        /\ new.fallbacks = receipts[r].fallbacks \cup {left[1]}
    BY <1>3 DEF Receipt, SameOrigin
  <1>5. /\ call \in Call /\ call.left = Tail(left)
    BY <1>1, <1>3 DEF Call
  <1>6. receipts' = [receipts EXCEPT ![r] = new] /\ jobs' = [jobs EXCEPT ![r] = call]
    <2>1. receipts' = [receipts EXCEPT ![r] = new]
      BY DEF FallBack, left
    <2>2. jobs' = [jobs EXCEPT ![r] = call]
      BY <1>1 DEF FallBack, left, Consistent, TypeOK
    <2> QED  BY <2>1, <2>2
  <1> HIDE DEF new, call
  <1>7. Fits(new, call)
    <2>1. /\ Len(left) \in Nat
          /\ \A i, j \in 1..Len(left) : left[i] = left[j] => i = j
          /\ \A i \in 1..Len(left) : left[i] \notin receipts[r].fallbacks
          /\ left[1] = receipts[r].requested \/ receipts[r].requested \in receipts[r].fallbacks
          /\ receipts[r].policy = "v3" => receipts[r].route = None
          /\ receipts[r].policy # "v1"
      BY <1>1, <1>2 DEF Fits, left
    <2>2. Len(call.left) >= 1 /\ \A i \in 1..Len(call.left) : i + 1 \in 1..Len(left) /\ i + 1 # 1
      BY <1>2, <1>3, <1>5, <2>1
    <2>3. \A i, j \in 1..Len(call.left) : call.left[i] = call.left[j] => i = j
      BY <1>3, <1>5, <2>1, <2>2
    <2>4. \A i \in 1..Len(call.left) : call.left[i] \notin new.fallbacks
      BY <1>2, <1>3, <1>4, <1>5, <2>1, <2>2
    <2>5. call.left[1] = new.requested \/ new.requested \in new.fallbacks
      BY <1>4, <2>1 DEF SameOrigin
    <2>6. new.policy # "v1" /\ (new.policy = "v3" => new.route = None)
      BY <1>4, <2>1 DEF SameOrigin
    <2> QED  BY <2>2, <2>3, <2>4, <2>5, <2>6 DEF Fits
  <1>8. RowOfCall(new, call)
    BY <1>1, <1>4, <1>5, <1>7, NoneIsNoRow DEF RowOfCall, Honest, InFlight, Unsuccessful
  <1>9. SameOrigin(new, receipts[r]) /\ receipts[r].state \notin Settled
    BY <1>1, <1>4 DEF SameOrigin, InFlight, Settled, Unsuccessful
  <1> QED  BY <1>1, <1>4, <1>5, <1>6, <1>8, <1>9 DEF OneGoesOn

\* A profile that fails hands over to the next one or settles the receipt.
LEMMA FailsGoesOn ==
  ASSUME Consistent, NEW r \in Receipts, jobs[r] # None,
         NEW row \in Receipt, SameOrigin(row, receipts[r]),
         row.route = receipts[r].route \/ receipts[r].policy = "v1",
         row.fallbacks = receipts[r].fallbacks, row.state = receipts[r].state,
         row.returned = "pending", Fails(r, row), Stays
  PROVE  OneGoesOn(r)
  <1>1. CASE jobs[r].signal = "none" /\ Len(jobs[r].left) > 1
    <2>1. receipts[r].policy # "v1"
      BY <1>1, RunningRow DEF Fits
    <2> QED  BY <1>1, <2>1, FallBackFits DEF Fails
  <1>2. CASE ~(jobs[r].signal = "none" /\ Len(jobs[r].left) > 1)
    <2>1. OutcomeOf(jobs[r].signal) \in Unsuccessful
      BY DEF OutcomeOf, Unsuccessful
    <2>2. Settle(r, row, OutcomeOf(jobs[r].signal))
      BY <1>2 DEF Fails
    <2> QED  BY <2>1, <2>2, UnsuccessfulSettles
  <1> QED  BY <1>1, <1>2

\* A step that leaves a receipt and turns to another part of its call.
LEMMA CallTurns ==
  ASSUME Consistent, NEW r \in Receipts, jobs[r] # None,
         NEW row \in Receipt, NEW call \in Call, SameOrigin(row, receipts[r]),
         row.state = receipts[r].state, row.returned = receipts[r].returned,
         Fits(row, call),
         receipts' = [receipts EXCEPT ![r] = row], jobs' = [jobs EXCEPT ![r] = call], Stays
  PROVE  OneGoesOn(r)
  <1>1. /\ up /\ up' /\ r \in Known /\ receipts[r].state \in InFlight
        /\ receipts[r].returned = "pending"
    BY RunningRow DEF Stays
  <1>2. receipts[r].state \notin Settled
    BY <1>1 DEF InFlight, Settled, Unsuccessful
  <1>3. RowOfCall(row, call)
    BY <1>1, NoneIsNoRow DEF RowOfCall, Honest, InFlight, Unsuccessful
  <1> QED  BY <1>1, <1>2, <1>3 DEF OneGoesOn

\* The receipt of a running call is written as it is.
LEMMA SameReceipt ==
  ASSUME Consistent, NEW r \in Receipts, jobs[r] # None
  PROVE  /\ receipts = [receipts EXCEPT ![r] = receipts[r]]
         /\ SameOrigin(receipts[r], receipts[r])
  BY DEF Consistent, TypeOK, SameOrigin

\* The folder is resolved, or the key is read.
LEMMA ContextResolvedGoesOn ==
  ASSUME Consistent, NEW r \in Receipts, ContextResolved(r) \/ KeyRead(r)
  PROVE  OneGoesOn(r)
  <1>0. /\ jobs[r] # None /\ UNCHANGED receipts /\ Stays /\ jobs[r].at \in {"context", "key"}
        /\ \E at \in {"key", "stream"} : jobs' = [jobs EXCEPT ![r].at = at]
    BY DEF ContextResolved, KeyRead, AwaitsKey
  <1>1. PICK at \in {"key", "stream"} : jobs' = [jobs EXCEPT ![r].at = at]
    BY <1>0
  <1> DEFINE call == [jobs[r] EXCEPT !.at = at]
  <1>2. jobs[r] \in Call /\ Fits(receipts[r], jobs[r]) /\ receipts[r] \in Receipt
    BY <1>0, RunningRow
  <1>3. call \in Call /\ call.left = jobs[r].left /\ call.output = jobs[r].output
    BY <1>2 DEF Call
  <1>4. jobs' = [jobs EXCEPT ![r] = call]
    BY <1>1 DEF Consistent, TypeOK
  <1>5. receipts[r].policy # "v1"
    BY <1>0, <1>2 DEF Fits
  <1> HIDE DEF call
  <1>6. Fits(receipts[r], call)
    BY <1>2, <1>3, <1>5 DEF Fits
  <1> QED  BY <1>0, <1>2, <1>3, <1>4, <1>6, SameReceipt, CallTurns

\* The timer goes off, or a person cancels.
LEMMA SignalGoesOn ==
  ASSUME Consistent, NEW r \in Receipts, Timeout(r) \/ Cancel(r)
  PROVE  OneGoesOn(r)
  <1>0. PICK signal \in {"timeout", "cancelled"} :
          jobs[r] # None /\ jobs' = [jobs EXCEPT ![r].signal = signal]
          /\ UNCHANGED receipts /\ Stays
    BY DEF Timeout, Cancel
  <1> DEFINE call == [jobs[r] EXCEPT !.signal = signal]
  <1>1. jobs[r] # None /\ jobs[r] \in Call /\ Fits(receipts[r], jobs[r]) /\ receipts[r] \in Receipt
    BY <1>0, RunningRow
  <1>2. call \in Call /\ call.left = jobs[r].left /\ call.at = jobs[r].at /\ call.output = jobs[r].output
    BY <1>1 DEF Call
  <1>3. jobs' = [jobs EXCEPT ![r] = call]
    BY <1>0 DEF Consistent, TypeOK
  <1> HIDE DEF call
  <1>4. Fits(receipts[r], call)
    BY <1>1, <1>2 DEF Fits
  <1> QED  BY <1>0, <1>1, <1>2, <1>3, <1>4, SameReceipt, CallTurns

\* A profile fails.
LEMMA CandidateFailsGoesOn ==
  ASSUME Consistent, NEW r \in Receipts, CandidateFails(r)
  PROVE  OneGoesOn(r)
  BY RunningRow, SameReceipt, FailsGoesOn DEF CandidateFails

\* The adapter reports the route it runs on, and its result.
LEMMA EventGoesOn ==
  ASSUME Consistent, NEW r \in Receipts, NEW p \in Profiles, NEW completed \in BOOLEAN,
         Event(r, p, completed)
  PROVE  OneGoesOn(r)
  <1> DEFINE row == IF receipts[r].policy = "v1" THEN [receipts[r] EXCEPT !.route = p] ELSE receipts[r]
             call == [jobs[r] EXCEPT !.output = @ \/ completed]
  <1>1. /\ jobs[r] # None /\ jobs[r] \in Call /\ Fits(receipts[r], jobs[r])
        /\ receipts[r] \in Receipt /\ receipts[r].returned = "pending"
    BY RunningRow DEF Event
  <1>2. /\ row \in Receipt /\ SameOrigin(row, receipts[r]) /\ row.policy = receipts[r].policy
        /\ row.route = IF receipts[r].policy = "v1" THEN p ELSE receipts[r].route
        /\ row.fallbacks = receipts[r].fallbacks /\ row.state = receipts[r].state
        /\ row.returned = receipts[r].returned
    <2>1. CASE receipts[r].policy = "v1"
      BY <1>1, <2>1 DEF Receipt, SameOrigin
    <2>2. CASE receipts[r].policy # "v1"
      BY <1>1, <2>2 DEF SameOrigin
    <2> QED  BY <2>1, <2>2
  <1>3. CASE row.policy = "v1" /\ RouteDiffers(row, p)
    <2>1. Fails(r, row) /\ Stays
      BY <1>3 DEF Event
    <2> HIDE DEF row
    <2> QED  BY <1>1, <1>2, <1>3, <2>1, FailsGoesOn
  <1>4. CASE ~(row.policy = "v1" /\ RouteDiffers(row, p))
    <2>1. call \in Call /\ call.left = jobs[r].left /\ call.at = jobs[r].at
      BY <1>1 DEF Call
    <2>2. receipts' = [receipts EXCEPT ![r] = row] /\ jobs' = [jobs EXCEPT ![r] = call] /\ Stays
      <3>1. receipts' = [receipts EXCEPT ![r] = row] /\ Stays
        BY <1>4 DEF Event
      <3>2. jobs' = [jobs EXCEPT ![r].output = @ \/ completed]
        BY <1>4 DEF Event
      <3> QED  BY <3>1, <3>2 DEF Consistent, TypeOK
    <2>3. row.policy = "v1" => row.route = row.requested
      BY <1>2, <1>4 DEF RouteDiffers
    <2> HIDE DEF row, call
    <2>4. Fits(row, call)
      BY <1>1, <1>2, <2>1, <2>3 DEF Fits, SameOrigin
    <2> QED  BY <1>1, <1>2, <2>1, <2>2, <2>4, CallTurns
  <1> QED  BY <1>3, <1>4

\* The row of a completed dispatch.
LEMMA CompletedRow ==
  ASSUME Consistent, NEW r \in Receipts, jobs[r] # None, jobs[r].output
  PROVE  /\ Completed(r) \in Receipt /\ SameOrigin(Completed(r), receipts[r])
         /\ Completed(r).fallbacks = receipts[r].fallbacks
         /\ Completed(r).returned = "pending"
         /\ receipts[r].policy = "v1" => Completed(r).route = receipts[r].requested
         /\ receipts[r].policy = "v3" => Completed(r).route = jobs[r].left[1]
  <1>1. /\ receipts[r] \in Receipt /\ jobs[r] \in Call /\ Fits(receipts[r], jobs[r])
        /\ receipts[r].returned = "pending"
    BY RunningRow
  <1>2. Head(jobs[r].left) = jobs[r].left[1] /\ jobs[r].left[1] \in Profiles
    <2>1. jobs[r].left \in Seq(Profiles) /\ Len(jobs[r].left) >= 1
      BY <1>1 DEF Call, Fits
    <2> QED  BY <2>1
  <1>3. CASE receipts[r].policy = "v1"
    BY <1>1, <1>3 DEF Completed, SameOrigin, Fits
  <1>4. CASE receipts[r].policy = "v3"
    BY <1>1, <1>2, <1>4 DEF Completed, SameOrigin, Receipt
  <1> QED  BY <1>1, <1>3, <1>4 DEF Receipt

\* The stream ends with a result.
LEMMA CompletesGoesOn ==
  ASSUME Consistent, NEW r \in Receipts, Completes(r)
  PROVE  OneGoesOn(r)
  <1> DEFINE old == Completed(r)
             new == [old EXCEPT !.state = "completed",
                       !.returned = IF "completed" = "completed" THEN @ ELSE "return-unavailable"]
  <1>1. jobs[r] # None /\ jobs[r].output /\ Stays /\ Settle(r, old, "completed")
    BY DEF Completes
  <1>2. /\ up /\ up' /\ r \in Known /\ receipts[r] \in Receipt /\ receipts[r].state \notin Settled
        /\ Fits(receipts[r], jobs[r])
    BY <1>1, RunningRow DEF InFlight, Settled, Unsuccessful, Stays
  <1>3. /\ old \in Receipt /\ SameOrigin(old, receipts[r]) /\ old.fallbacks = receipts[r].fallbacks
        /\ old.returned = "pending"
        /\ receipts[r].policy = "v1" => old.route = receipts[r].requested
        /\ receipts[r].policy = "v3" => old.route = jobs[r].left[1]
    BY <1>1, CompletedRow
  <1>4. receipts' = [receipts EXCEPT ![r] = new] /\ jobs' = [jobs EXCEPT ![r] = None]
    BY <1>1 DEF Settle
  <1> HIDE DEF old
  <1>5. /\ new \in Receipt /\ SameOrigin(new, old) /\ new.state = "completed"
        /\ new.returned = "pending" /\ new.route = old.route /\ new.fallbacks = old.fallbacks
    BY <1>3 DEF Receipt, Settled, SameOrigin
  <1> HIDE DEF new
  <1>6. SameOrigin(new, receipts[r])
    BY <1>3, <1>5 DEF SameOrigin
  <1>7. receipts[r].policy = "v1" => new.route = new.requested /\ new.fallbacks = {}
    BY <1>2, <1>3, <1>5, <1>6 DEF Fits, SameOrigin
  <1>8. receipts[r].policy = "v3" =>
          /\ new.route \notin new.fallbacks
          /\ new.route # new.requested => new.requested \in new.fallbacks
    <2>1. 1 \in 1..Len(jobs[r].left)
      <3>1. Len(jobs[r].left) \in Nat
        BY <1>1, RunningRow DEF Call
      <3> QED  BY <1>2, <3>1 DEF Fits
    <2> QED  BY <1>2, <1>3, <1>5, <1>6, <2>1 DEF Fits, SameOrigin
  <1>9. RowOfCall(new, None)
    BY <1>2, <1>5, <1>6, <1>7, <1>8 DEF RowOfCall, Honest, InFlight, Unsuccessful, Receipt, SameOrigin
  <1> QED  BY <1>1, <1>2, <1>4, <1>5, <1>6, <1>9 DEF OneGoesOn

\* The chat acknowledges the result.
LEMMA MarkDeliveredGoesOn ==
  ASSUME Consistent, NEW r \in Receipts, MarkDelivered(r)
  PROVE  OneGoesOn(r)
  <1> DEFINE new == [receipts[r] EXCEPT !.returned = "delivered"]
  <1>1. up /\ up' /\ r \in Known /\ receipts[r].state = "completed" /\ Stays
    BY DEF MarkDelivered, Known, Stays
  <1>2. receipts[r] \in Receipt /\ RowOfCall(receipts[r], jobs[r])
    BY <1>1 DEF Consistent, TypeOK, Known
  <1>3. jobs[r] = None
    BY <1>1, <1>2 DEF RowOfCall, InFlight
  <1>4. /\ new \in Receipt /\ SameOrigin(new, receipts[r]) /\ new.state = "completed"
        /\ new.returned = "delivered" /\ new.route = receipts[r].route
        /\ new.fallbacks = receipts[r].fallbacks
    BY <1>1, <1>2 DEF Receipt, SameOrigin
  <1>5. receipts' = [receipts EXCEPT ![r] = new] /\ jobs' = [jobs EXCEPT ![r] = None]
    BY <1>3 DEF MarkDelivered, Consistent, TypeOK
  <1>6. SameButReturn(new, receipts[r])
    BY <1>4 DEF SameButReturn
  <1> HIDE DEF new
  <1>7. RowOfCall(new, None)
    BY <1>1, <1>2, <1>4 DEF RowOfCall, Honest, InFlight, Unsuccessful, SameOrigin
  <1> QED  BY <1>1, <1>4, <1>5, <1>6, <1>7 DEF OneGoesOn

-----------------------------------------------------------------------------
(* The steps of the companion.                                             *)

\* A new receipt under an unused key, that continues a failed dispatch or none.
LEMMA ReceiptAdded ==
  ASSUME Consistent, NEW r \in Receipts, receipts[r] = None,
         NEW row \in Receipt, Unused(row.key), Honest(row), receipts' = [receipts EXCEPT ![r] = row],
         row.prior # None => /\ row.prior \in Known
                             /\ receipts[row.prior].state \in Unsuccessful
                             /\ row.generation = receipts[row.prior].generation + 1
  PROVE  /\ OneReceiptPerKey' /\ RetriesFollowFailures'
         /\ \A s \in Known' : Honest(receipts'[s])
         /\ Known' = Known \cup {r} /\ r \notin Known
  <1>1. /\ receipts'[r] = row
        /\ \A s \in Receipts \ {r} : receipts'[s] = receipts[s]
    BY DEF Consistent, TypeOK
  <1>2. Known' = Known \cup {r} /\ r \notin Known
    BY <1>1, NoneIsNoRow DEF Known
  <1>3. OneReceiptPerKey'
    BY <1>1, <1>2 DEF Consistent, OneReceiptPerKey, Unused, Known
  <1>4. RetriesFollowFailures'
    <2>1. ASSUME NEW s \in Known', receipts'[s].prior # None
          PROVE  /\ receipts'[s].prior \in Known
                 /\ receipts[receipts'[s].prior].state \in Unsuccessful
                 /\ receipts'[s].generation = receipts[receipts'[s].prior].generation + 1
      <3>1. CASE s = r
        BY <1>1, <2>1, <3>1
      <3>2. CASE s # r
        BY <1>1, <1>2, <2>1, <3>2 DEF Consistent, RetriesFollowFailures, Known
      <3> QED  BY <3>1, <3>2
    <2>2. \A s \in Known : receipts'[s] = receipts[s] /\ s \in Known'
      BY <1>1, <1>2 DEF Known
    <2> QED  BY <2>1, <2>2 DEF RetriesFollowFailures
  <1>5. \A s \in Known' : Honest(receipts'[s])
    BY <1>1, <1>2 DEF Consistent, Known
  <1> QED  BY <1>2, <1>3, <1>4, <1>5

\* A dispatch begins.
LEMMA DispatchKeeps ==
  ASSUME Consistent, NEW r \in Receipts, NEW k \in Keys, NEW prior \in Receipts \cup {None},
         NEW order \in Candidates, Dispatch(r, k, prior, order)
  PROVE  Consistent'
  <1> DEFINE row == NewReceipt(k, prior, order, "running")
             call == NewCall(order)
  <1>1. TypeOK /\ MayRetry(prior) /\ receipts[r] = None /\ Unused(k) /\ up /\ up'
    BY DEF Dispatch, Consistent
  <1>2. /\ row \in Receipt /\ call \in Call /\ RowOfCall(row, call) /\ Honest(row)
        /\ row.key = k /\ row.prior = prior
        /\ prior # None => row.generation = receipts[prior].generation + 1
    BY <1>1, NewRow DEF InFlight
  <1>3. receipts' = [receipts EXCEPT ![r] = row] /\ jobs' = [jobs EXCEPT ![r] = call]
    BY DEF Dispatch
  <1> HIDE DEF row, call
  <1>4. prior # None => prior \in Known /\ receipts[prior].state \in Unsuccessful
    BY <1>1 DEF MayRetry
  <1>5. /\ OneReceiptPerKey' /\ RetriesFollowFailures'
        /\ \A s \in Known' : Honest(receipts'[s])
        /\ Known' = Known \cup {r} /\ r \notin Known
    BY <1>1, <1>2, <1>3, <1>4, ReceiptAdded
  <1>6. TypeOK'
    BY <1>1, <1>2, <1>3 DEF TypeOK, Dispatch
  <1>7. \A s \in Known' : RowOfCall(receipts'[s], jobs'[s])
    <2>1. ASSUME NEW s \in Known
          PROVE  RowOfCall(receipts'[s], jobs'[s])
      BY <1>1, <1>3, <1>5, <2>1 DEF Consistent, TypeOK, Known
    <2>2. RowOfCall(receipts'[r], jobs'[r])
      BY <1>1, <1>2, <1>3 DEF TypeOK
    <2> QED  BY <1>5, <2>1, <2>2
  <1>8. \A s \in Receipts : jobs'[s] # None => up' /\ s \in Known'
    BY <1>1, <1>3, <1>5 DEF Consistent, TypeOK
  <1> QED  BY <1>5, <1>6, <1>7, <1>8 DEF Consistent

\* The companion dies while it writes a new receipt.
LEMMA DispatchInterruptedKeeps ==
  ASSUME Consistent, NEW r \in Receipts, NEW k \in Keys, NEW prior \in Receipts \cup {None},
         NEW order \in Candidates, DispatchInterrupted(r, k, prior, order)
  PROVE  Consistent'
  <1>1. TypeOK /\ MayRetry(prior) /\ receipts[r] = None /\ Unused(k) /\ Down
    BY DEF DispatchInterrupted, Consistent
  <1>2. PICK state \in InFlight : receipts' = [receipts EXCEPT ![r] = NewReceipt(k, prior, order, state)]
    BY DEF DispatchInterrupted
  <1> DEFINE row == NewReceipt(k, prior, order, state)
  <1>3. /\ row \in Receipt /\ Honest(row) /\ row.key = k /\ row.prior = prior
        /\ prior # None => row.generation = receipts[prior].generation + 1
    BY <1>1, NewRow
  <1> HIDE DEF row
  <1>4. receipts' = [receipts EXCEPT ![r] = row]
    BY <1>2 DEF row
  <1>5. prior # None => prior \in Known /\ receipts[prior].state \in Unsuccessful
    BY <1>1 DEF MayRetry
  <1>6. /\ OneReceiptPerKey' /\ RetriesFollowFailures'
        /\ \A s \in Known' : Honest(receipts'[s])
    BY <1>1, <1>3, <1>4, <1>5, ReceiptAdded
  <1>7. TypeOK'
    BY <1>1, <1>3, <1>4 DEF TypeOK, Down, Running
  <1> QED  BY <1>1, <1>6, <1>7 DEF Consistent, Down

\* The companion dies between the two writes that complete a receipt.
LEMMA CompletesInterruptedKeeps ==
  ASSUME Consistent, NEW r \in Receipts, CompletesInterrupted(r)
  PROVE  Consistent'
  <1> DEFINE new == [receipts[r] EXCEPT !.state = "completed"]
  <1>1. /\ TypeOK /\ r \in Known /\ receipts[r] \in Receipt /\ receipts[r].state \in InFlight
        /\ receipts[r].returned = "pending" /\ receipts[r].policy = "v3"
        /\ Fits(receipts[r], jobs[r]) /\ Down
    BY RunningRow DEF CompletesInterrupted, Consistent
  <1>2. /\ new \in Receipt /\ SameOrigin(new, receipts[r]) /\ new.state = "completed"
        /\ new.returned = "pending" /\ new.route = None /\ new.policy = "v3"
    BY <1>1 DEF Receipt, Settled, SameOrigin, Fits
  <1>3. receipts' = [receipts EXCEPT ![r] = new]
    BY DEF CompletesInterrupted, Consistent, TypeOK
  <1> HIDE DEF new
  <1>4. /\ receipts'[r] = new /\ new # None
        /\ \A s \in Receipts \ {r} : receipts'[s] = receipts[s]
    BY <1>1, <1>2, <1>3, NoneIsNoRow DEF TypeOK
  <1>5. Known' = Known
    BY <1>1, <1>4 DEF Known
  <1>6. /\ \A s \in Known : SameOrigin(receipts'[s], receipts[s])
        /\ \A s \in Known : receipts[s].state \in Settled => receipts'[s].state = receipts[s].state
    BY <1>1, <1>2, <1>4 DEF Known, SameOrigin, InFlight, Settled, Unsuccessful
  <1>7. OneReceiptPerKey' /\ RetriesFollowFailures'
    BY <1>5, <1>6, OriginsKept
  <1>8. Honest(new)
    BY <1>2 DEF Honest, Unsuccessful
  <1>9. \A s \in Known' : Honest(receipts'[s])
    BY <1>4, <1>5, <1>8 DEF Consistent, Known
  <1>10. TypeOK'
    BY <1>1, <1>2, <1>3 DEF TypeOK, Down, Running
  <1> QED  BY <1>1, <1>7, <1>9, <1>10 DEF Consistent, Down

\* The companion stops.
LEMMA StopKeeps ==
  ASSUME Consistent, Stop
  PROVE  Consistent'
  <1>1. Known' = Known /\ receipts' = receipts
    BY DEF Stop, Known
  <1>2. OneReceiptPerKey' /\ RetriesFollowFailures'
    BY <1>1, OriginsKept DEF SameOrigin
  <1>3. TypeOK'
    BY DEF Stop, Down, Running, Consistent, TypeOK
  <1> QED  BY <1>1, <1>2, <1>3 DEF Consistent, Stop, Down

\* The row that a start leaves of an interrupted receipt.
LEMMA InterruptedRow ==
  ASSUME NEW row \in Receipt, row.state \in InFlight, Honest(row)
  PROVE  LET new == [row EXCEPT !.state = "failed", !.returned = "return-unavailable"]
         IN new \in Receipt /\ SameOrigin(new, row) /\ Honest(new) /\ new.state = "failed"
  BY DEF Receipt, Settled, Unsuccessful, SameOrigin, Honest

\* The companion starts, and fails the receipts that were in flight.
LEMMA StartKeeps ==
  ASSUME Consistent, Start
  PROVE  Consistent'
  <1>1. \A s \in Receipts : jobs[s] = None
    BY DEF Start, Consistent
  <1>2. ASSUME NEW s \in Known
        PROVE  /\ receipts'[s] \in Receipt /\ SameOrigin(receipts'[s], receipts[s])
               /\ Honest(receipts'[s]) /\ receipts'[s].state \in Settled
               /\ receipts[s].state \in Settled => receipts'[s].state = receipts[s].state
    <2>1. s \in Receipts /\ receipts[s] \in Receipt /\ Honest(receipts[s])
      BY <1>2 DEF Consistent, TypeOK, Known
    <2>2. CASE receipts[s].state \in InFlight
      <3>1. receipts'[s] = [receipts[s] EXCEPT !.state = "failed", !.returned = "return-unavailable"]
        BY <2>1, <2>2 DEF Start, Interrupted
      <3> QED  BY <2>1, <2>2, <3>1, InterruptedRow DEF InFlight, Settled, Unsuccessful
    <2>3. CASE receipts[s].state \notin InFlight
      <3>1. receipts'[s] = receipts[s]
        BY <2>1, <2>3 DEF Start, Interrupted
      <3> QED  BY <2>1, <2>3, <3>1 DEF SameOrigin, Receipt
    <2> QED  BY <2>2, <2>3
  <1>3. \A s \in Receipts \ Known : receipts'[s] = None
    BY DEF Start, Known
  <1>4. Known' = Known
    BY <1>2, <1>3, NoneIsNoRow DEF Known
  <1>5. OneReceiptPerKey' /\ RetriesFollowFailures'
    BY <1>2, <1>4, OriginsKept
  <1>6. jobs' = jobs /\ up'
    BY DEF Start
  <1>7. \A s \in Known' : Honest(receipts'[s]) /\ RowOfCall(receipts'[s], jobs'[s])
    BY <1>1, <1>2, <1>4, <1>6 DEF RowOfCall, InFlight, Settled, Unsuccessful, Known
  <1>8. TypeOK'
    <2>1. receipts' \in [Receipts -> Receipt \cup {None}]
      <3>1. \A s \in Receipts : receipts'[s] \in Receipt \cup {None}
        BY <1>2, <1>3
      <3> QED  BY <3>1 DEF Start
    <2> QED  BY <2>1 DEF Start, Consistent, TypeOK
  <1> QED  BY <1>1, <1>5, <1>6, <1>7, <1>8 DEF Consistent

\* The steps that touch neither receipts nor calls.
LEMMA RestKeeps ==
  ASSUME Consistent,
         \/ \E r \in Receipts : Expire(r) \/ OrphanEnds(r)
         \/ AdoptPolicyV3
         \/ UNCHANGED vars
  PROVE  Consistent'
  <1>1. receipts' = receipts /\ jobs' = jobs /\ up' = up
    BY DEF Expire, OrphanEnds, AdoptPolicyV3, vars
  <1>2. Known' = Known
    BY <1>1 DEF Known
  <1>3. OneReceiptPerKey' /\ RetriesFollowFailures'
    BY <1>1, <1>2, OriginsKept DEF SameOrigin
  <1>4. TypeOK'
    BY DEF Expire, OrphanEnds, AdoptPolicyV3, vars, Consistent, TypeOK
  <1> QED  BY <1>1, <1>2, <1>3, <1>4 DEF Consistent

-----------------------------------------------------------------------------
(* Theorems.                                                               *)

\* The steps of a running call, and the acknowledgement of its result.
CallStep(r) ==
  \/ ContextResolved(r) \/ KeyRead(r) \/ CandidateFails(r) \/ Completes(r)
  \/ Timeout(r) \/ Cancel(r) \/ MarkDelivered(r)
  \/ \E p \in Profiles, completed \in BOOLEAN : Event(r, p, completed)

\* The kinds of step there are.
LEMMA StepShapes ==
  ASSUME [Next]_vars
  PROVE  \/ \E r \in Receipts, k \in Keys, prior \in Receipts \cup {None}, order \in Candidates :
              \/ Dispatch(r, k, prior, order)
              \/ DispatchInterrupted(r, k, prior, order)
         \/ \E r \in Receipts : CallStep(r)
         \/ Stop \/ Start
         \/ \E r \in Receipts : CompletesInterrupted(r)
         \/ \E r \in Receipts : Expire(r) \/ OrphanEnds(r)
         \/ AdoptPolicyV3
         \/ UNCHANGED vars
  BY DEF Next, Retry, CallStep

\* A call's step replaces its receipt and its call.
LEMMA CallGoesOn ==
  ASSUME Consistent, NEW r \in Receipts, CallStep(r)
  PROVE  OneGoesOn(r)
  BY ContextResolvedGoesOn, CandidateFailsGoesOn, CompletesGoesOn, SignalGoesOn,
     MarkDeliveredGoesOn, EventGoesOn DEF CallStep

\* Every step keeps the invariant.
LEMMA StepKeeps ==
  ASSUME Consistent, [Next]_vars
  PROVE  Consistent'
  BY StepShapes, CallGoesOn, GoesOnKeeps, DispatchKeeps, DispatchInterruptedKeeps, StopKeeps,
     StartKeeps, CompletesInterruptedKeeps, RestKeeps

\* The invariant holds in every reachable state.
THEOREM AlwaysConsistent == Spec => []Consistent
  <1>1. Init => Consistent
    BY DEF Init, Consistent, TypeOK, OneReceiptPerKey, RetriesFollowFailures, Known
  <1>2. Consistent /\ [Next]_vars => Consistent'
    BY StepKeeps
  <1> QED  BY <1>1, <1>2, PTL DEF Spec

\* Rows and calls keep their types.
THEOREM TypeCorrect == Spec => []TypeOK
  <1>1. Consistent => TypeOK
    BY DEF Consistent
  <1> QED  BY <1>1, AlwaysConsistent, PTL

\* A key never stands for two executions of a task.
THEOREM OneExecutionPerKey == Spec => []OneReceiptPerKey
  <1>1. Consistent => OneReceiptPerKey
    BY DEF Consistent
  <1> QED  BY <1>1, AlwaysConsistent, PTL

\* While the companion runs, the receipts in flight are those of its calls, wherever it
\* died before.
THEOREM NoReceiptStaysInFlight == Spec => []InFlightIsWorkedOn
  <1>1. Consistent => InFlightIsWorkedOn
    BY NoneIsNoRow DEF Consistent, InFlightIsWorkedOn, RowOfCall, Known
  <1> QED  BY <1>1, AlwaysConsistent, PTL

\* Retries continue unsuccessful dispatches, generation by generation.
THEOREM RetriesContinueFailures == Spec => []RetriesFollowFailures
  <1>1. Consistent => RetriesFollowFailures
    BY DEF Consistent
  <1> QED  BY <1>1, AlwaysConsistent, PTL

\* No result is promised for a dispatch that has none.
THEOREM ReturnAgrees == Spec => []ReturnMatchesOutcome
  <1>1. Consistent => ReturnMatchesOutcome
    BY DEF Consistent, ReturnMatchesOutcome, Honest
  <1> QED  BY <1>1, AlwaysConsistent, PTL

\* A completed receipt tells the route that ran, and the ones that failed before it.
THEOREM EvidenceAlwaysHonest == Spec => []EvidenceIsHonest
  <1>1. Consistent => EvidenceIsHonest
    BY DEF Consistent, EvidenceIsHonest, Honest
  <1> QED  BY <1>1, AlwaysConsistent, PTL

\* A settled receipt stays as it is, but for the acknowledgement.
THEOREM SettledStays == Spec => OutcomeIsFinal
  <1>1. ASSUME Consistent, [Next]_vars, NEW s \in Known, receipts[s].state \in Settled
        PROVE  receipts'[s] # None /\ SameButReturn(receipts'[s], receipts[s])
    <2>1. TypeOK /\ s \in Receipts /\ receipts[s] \in Receipt /\ receipts[s] # None
      BY <1>1 DEF Consistent, TypeOK, Known
    <2>2. ASSUME receipts'[s] = receipts[s]
          PROVE  receipts'[s] # None /\ SameButReturn(receipts'[s], receipts[s])
      BY <2>1, <2>2 DEF SameButReturn, Receipt
    <2>3. ASSUME NEW r \in Receipts, CallStep(r)
          PROVE  receipts'[s] # None /\ SameButReturn(receipts'[s], receipts[s])
      <3>1. PICK row \in Receipt : /\ receipts' = [receipts EXCEPT ![r] = row]
                                   /\ receipts[r].state \in Settled => SameButReturn(row, receipts[r])
        BY <1>1, <2>3, CallGoesOn DEF OneGoesOn
      <3>2. CASE r = s
        BY <1>1, <2>1, <3>1, <3>2, NoneIsNoRow DEF TypeOK
      <3>3. CASE r # s
        BY <2>1, <2>2, <3>1, <3>3 DEF TypeOK
      <3> QED  BY <3>2, <3>3
    <2>4. ASSUME NEW r \in Receipts, NEW k \in Keys, NEW prior \in Receipts \cup {None},
                 NEW order \in Candidates,
                 Dispatch(r, k, prior, order) \/ DispatchInterrupted(r, k, prior, order)
          PROVE  receipts'[s] = receipts[s]
      BY <2>1, <2>4 DEF Dispatch, DispatchInterrupted, TypeOK
    <2>5. ASSUME NEW r \in Receipts, CompletesInterrupted(r)
          PROVE  receipts'[s] = receipts[s]
      <3>1. r # s
        BY <1>1, <2>5, RunningRow DEF CompletesInterrupted, InFlight, Settled, Unsuccessful
      <3> QED  BY <2>1, <2>5, <3>1 DEF CompletesInterrupted, TypeOK
    <2>6. ASSUME Start
          PROVE  receipts'[s] = receipts[s]
      BY <1>1, <2>1, <2>6 DEF Start, Interrupted, InFlight, Settled, Unsuccessful
    <2>7. ASSUME Stop \/ AdoptPolicyV3 \/ UNCHANGED vars \/ \E r \in Receipts : Expire(r) \/ OrphanEnds(r)
          PROVE  receipts'[s] = receipts[s]
      BY <2>7 DEF Stop, AdoptPolicyV3, vars, Expire, OrphanEnds
    <2> QED  BY <1>1, <2>2, <2>3, <2>4, <2>5, <2>6, <2>7, StepShapes
  <1>2. Consistent /\ [Next]_vars =>
          [\A r \in Known : receipts[r].state \in Settled =>
             receipts'[r] # None /\ receipts'[r] = [receipts[r] EXCEPT !.returned = receipts'[r].returned]]_vars
    BY <1>1 DEF SameButReturn
  <1> QED  BY <1>2, AlwaysConsistent, PTL DEF Spec, OutcomeIsFinal

\* An aborted dispatch goes to no further destination.
THEOREM AbortStopsFallback == Spec => NoFallbackAfterAbort
  <1>1. ASSUME Consistent, [Next]_vars, NEW s \in Running, jobs[s].signal # "none"
        PROVE  jobs'[s] = None \/ jobs'[s].left = jobs[s].left
    <2>1. TypeOK /\ s \in Receipts /\ jobs[s] # None /\ jobs[s] \in Call /\ receipts[s] # None
      BY <1>1, RunningRow DEF Consistent, TypeOK, Running, Known
    <2>2. ASSUME NEW r \in Receipts, CallStep(r)
          PROVE  jobs'[s] = None \/ jobs'[s].left = jobs[s].left
      <3>1. CASE r # s
        <4>1. \E call : jobs' = [jobs EXCEPT ![r] = call]
          BY <1>1, <2>2, CallGoesOn DEF OneGoesOn
        <4> QED  BY <2>1, <3>1, <4>1 DEF TypeOK
      <3>2. CASE r = s
        <4>1. ASSUME NEW row, Fails(s, row)
              PROVE  jobs'[s] = None
          BY <1>1, <2>1, <4>1 DEF Fails, Settle, TypeOK
        <4>2. CASE CandidateFails(s)
          BY <4>1, <4>2 DEF CandidateFails
        <4>3. CASE Completes(s)
          BY <2>1, <4>3 DEF Completes, Settle, TypeOK
        <4>4. CASE ContextResolved(s) \/ KeyRead(s)
          BY <2>1, <4>4 DEF ContextResolved, KeyRead, TypeOK, Call
        <4>5. CASE Timeout(s) \/ Cancel(s)
          BY <1>1, <4>5 DEF Timeout, Cancel
        <4>6. CASE MarkDelivered(s)
          BY <4>6 DEF MarkDelivered
        <4>7. ASSUME NEW p \in Profiles, NEW completed \in BOOLEAN, Event(s, p, completed)
              PROVE  jobs'[s] = None \/ jobs'[s].left = jobs[s].left
          <5>1. \/ \E row : Fails(s, row)
                \/ jobs' = [jobs EXCEPT ![s].output = @ \/ completed]
            BY <4>7 DEF Event
          <5> QED  BY <2>1, <4>1, <5>1 DEF TypeOK, Call
        <4> QED  BY <2>2, <3>2, <4>2, <4>3, <4>4, <4>5, <4>6, <4>7 DEF CallStep
      <3> QED  BY <3>1, <3>2
    <2>3. ASSUME NEW r \in Receipts, NEW k \in Keys, NEW prior \in Receipts \cup {None},
                 NEW order \in Candidates, Dispatch(r, k, prior, order)
          PROVE  jobs'[s] = jobs[s]
      BY <2>1, <2>3 DEF Dispatch, TypeOK
    <2>4. ASSUME Down
          PROVE  jobs'[s] = None
      BY <2>1, <2>4 DEF Down
    <2>5. ASSUME \/ Start \/ AdoptPolicyV3 \/ UNCHANGED vars
                 \/ \E r \in Receipts : Expire(r) \/ OrphanEnds(r)
          PROVE  jobs'[s] = jobs[s]
      BY <2>5 DEF Start, AdoptPolicyV3, vars, Expire, OrphanEnds
    <2> QED
      BY <1>1, <2>2, <2>3, <2>4, <2>5, StepShapes
      DEF Stop, DispatchInterrupted, CompletesInterrupted
  <1>2. Consistent /\ [Next]_vars =>
          [\A r \in Running : jobs[r].signal # "none" =>
             jobs'[r] = None \/ jobs'[r].left = jobs[r].left]_vars
    BY <1>1
  <1> QED  BY <1>2, AlwaysConsistent, PTL DEF Spec, NoFallbackAfterAbort

\* The receipts agree with each other, with the calls in flight and with what was returned.
THEOREM ReceiptsAlwaysAgree == Spec => []ReceiptsAgree
  BY NoReceiptStaysInFlight, OneExecutionPerKey, RetriesContinueFailures, ReturnAgrees,
     EvidenceAlwaysHonest, PTL DEF ReceiptsAgree

\* What is settled or aborted stays so.
THEOREM OutcomesAlwaysStand == Spec => OutcomesStand
  BY SettledStays, AbortStopsFallback DEF OutcomesStand
=============================================================================
