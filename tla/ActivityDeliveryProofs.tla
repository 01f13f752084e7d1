----------------------- MODULE ActivityDeliveryProofs -----------------------
(***************************************************************************)
(* Theorems about ActivityDelivery, for any number of processes and        *)
(* events: whatever is sent, sent again, renumbered or served late, an     *)
(* event has one row, and a sequence number one event.                     *)
(*                                                                         *)
(* A number is free when it is applied because what was held for it has    *)
(* been applied before (NextIsFree); that the loop which applies held      *)
(* events ends rests on the numbers in use having a bound.                 *)
(***************************************************************************)
EXTENDS ActivityDelivery, FiniteSetTheorems, SequenceTheorems, WellFoundedInduction, TLAPS

\* An open assignment holds no event that is the next one.
NextIsFree ==
  /\ server.last = 0 => server.stored = {}
  /\ server.last # 0 /\ ~server.ended => \A e \in server.stored : e.seq # server.last + 1

\* The sequence numbers in use have a bound.
NumbersBounded == \E bound \in Nat : \A e \in server.stored : e.seq <= bound

\* A job that replays the spool has an entry of it to send.
ProperJob == {job \in Job : job.at = "replay" => job.copy.events # <<>>}
Typed == TypeOK /\ jobs \in [Events -> ProperJob \cup {None}]

\* The inductive invariant.
Kept ==
  /\ Typed
  /\ StoredOnce
  /\ NextIsFree
  /\ NumbersBounded

-----------------------------------------------------------------------------
(* Operators on the spool.                                                 *)

\* A set of natural numbers has a least one.
LEMMA LeastNumber ==
  ASSUME NEW S \in SUBSET Nat, S # {}
  PROVE  \E p \in S : \A q \in S : p <= q
  <1> DEFINE Less == {pair \in Nat \X Nat : pair[1] < pair[2]}
  <1>1. IsWellFoundedOn(Less, Nat)
    BY NatLessThanWellFounded DEF OpToRel
  <1> HIDE DEF Less
  <1>2. PICK p \in S : \A q \in S : <<q, p>> \notin Less
    BY <1>1, WFMin
  <1>3. \A q \in S : ~(q < p)
    BY <1>2 DEF Less
  <1> QED  BY <1>2, <1>3

\* Part of a sequence is a sequence of the same elements.
LEMMA PartTyped ==
  ASSUME NEW S, NEW s \in Seq(S), NEW m \in Nat \ {0}, NEW n \in 0..Len(s)
  PROVE  SubSeq(s, m, n) \in Seq(S)
  <1>1. \A i \in m..n : s[i] \in S
    BY ElementOfSeq, LenProperties
  <1>2. m \in Int /\ n \in Int
    OBVIOUS
  <1> QED  BY <1>1, <1>2, SubSeqProperties

\* What is read from a spool is one.
LEMMA LoadedTyped ==
  ASSUME TypeOK, NEW s \in Loaded
  PROVE  s \in Spool
  <1>1. spool.events \in Seq(Entry) /\ spool.gaps \in Nat
    BY DEF TypeOK, Spool
  <1>2. PICK k \in 0..Len(spool.events) : s = Pruned(spool, k)
    BY <1>1, LenProperties DEF Loaded
  <1>3. SubSeq(spool.events, k + 1, Len(spool.events)) \in Seq(Entry)
    BY <1>1, <1>2, PartTyped, LenProperties
  <1> QED  BY <1>1, <1>2, <1>3, LenProperties DEF Pruned, Spool

\* Bounding a spool leaves one.
LEMMA BoundedTyped ==
  ASSUME NEW s \in Spool
  PROVE  Bounded(s) \in Spool
  <1> DEFINE open == {i \in DOMAIN s.events : ~s.events[i].terminal}
             victim == IF open = {} THEN 1 ELSE CHOOSE i \in open : \A j \in open : i <= j
  <1>1. s.events \in Seq(Entry) /\ s.gaps \in Nat
    BY DEF Spool
  <1>2. /\ Len(s.events) \in Nat /\ DOMAIN s.events = 1..Len(s.events)
    BY <1>1, LenProperties
  <1>3. CASE Len(s.events) <= SpoolLimit
    BY <1>3 DEF Bounded
  <1>4. CASE ~(Len(s.events) <= SpoolLimit)
    <2>1. Len(s.events) >= 1
      BY <1>2, <1>4, DeliveryConstants
    <2>2. open # {} => \E i \in open : \A j \in open : i <= j
      <3>1. open \in SUBSET Nat
        BY <1>2
      <3> HIDE DEF open
      <3> QED  BY <3>1, LeastNumber
    <2>3. victim \in 1..Len(s.events)
      <3>1. open # {} => victim \in open
        BY <2>2
      <3> QED  BY <1>2, <2>1, <3>1
    <2> HIDE DEF victim
    <2>4. /\ SubSeq(s.events, 1, victim - 1) \in Seq(Entry)
          /\ SubSeq(s.events, victim + 1, Len(s.events)) \in Seq(Entry)
      BY <1>1, <1>2, <2>3, PartTyped
    <2>5. RemoveAt(s.events, victim) \in Seq(Entry)
      BY <2>4, ConcatProperties DEF RemoveAt
    <2>6. Bounded(s) = [events |-> RemoveAt(s.events, victim), gaps |-> s.gaps + 1]
      BY <1>4 DEF Bounded, victim
    <2> QED  BY <1>1, <2>5, <2>6 DEF Spool
  <1> QED  BY <1>3, <1>4

\* A spool with one more entry is one.
LEMMA EnqueuedTyped ==
  ASSUME NEW s \in Spool, NEW e \in Entry
  PROVE  Enqueued(s, e) \in Spool
  <1>1. s.events \in Seq(Entry)
    BY DEF Spool
  <1>2. Append(s.events, e) \in Seq(Entry)
    BY <1>1, AppendProperties
  <1>3. [s EXCEPT !.events = Append(@, e)] \in Spool
    BY <1>2 DEF Spool
  <1> QED  BY <1>3, BoundedTyped DEF Enqueued

-----------------------------------------------------------------------------
(* The store.                                                              *)

\* The loop that applies held events ends, at an event not before the one it began with,
\* and stops at a terminal one or where the next one is missing.
LEMMA LoopEnds ==
  ASSUME TypeOK, NumbersBounded, NEW e \in Entry
  PROVE  LET last == AppliedUpTo(e) IN
         /\ last \in Nat /\ last >= e.seq
         /\ last \in {s.seq : s \in server.stored \cup {e}}
         /\ \/ \E s \in server.stored \cup {e} : s.seq = last /\ s.terminal
            \/ \A s \in server.stored : s.seq # last + 1
  <1> DEFINE all == server.stored \cup {e}
             Ends(k) == \/ \E s \in all : s.seq = k /\ s.terminal
                        \/ \A s \in server.stored : s.seq # k + 1
             Stops == {k \in Nat : k >= e.seq /\ Ends(k)}
             Fits(last) == /\ last >= e.seq
                           /\ \A k \in e.seq..(last - 1) : \E s \in all : s.seq = k /\ ~s.terminal
                           /\ Ends(last)
  <1>1. /\ server.stored \subseteq Entry /\ all \subseteq Entry
        /\ \A s \in all : s.seq \in Nat \ {0} /\ s.terminal \in BOOLEAN
    BY DEF TypeOK, Entry
  <1>2. PICK bound \in Nat : \A s \in server.stored : s.seq <= bound
    BY DEF NumbersBounded
  <1>3. bound + e.seq \in Stops
    <2>1. \A s \in server.stored : s.seq # (bound + e.seq) + 1
      BY <1>1, <1>2
    <2> QED  BY <1>1, <2>1
  <1>4. PICK p \in Stops : \A q \in Stops : p <= q
    <2>1. Stops \in SUBSET Nat /\ Stops # {}
      BY <1>3
    <2> HIDE DEF Stops
    <2> QED  BY <2>1, LeastNumber
  <1>5. p \in Nat /\ p >= e.seq /\ Ends(p)
    BY <1>4
  <1>6. \A k \in Nat : k >= e.seq /\ k < p => ~Ends(k)
    <2> HIDE DEF Ends
    <2> QED  BY <1>4, <1>5
  <1>7. \A k \in Nat : k >= e.seq /\ k <= p => \E s \in all : s.seq = k
    <2> SUFFICES ASSUME NEW k \in Nat, k >= e.seq, k <= p
                 PROVE  \E s \in all : s.seq = k
      OBVIOUS
    <2>1. CASE k = e.seq
      BY <2>1
    <2>2. CASE k # e.seq
      <3>1. k - 1 \in Nat /\ k - 1 >= e.seq /\ k - 1 < p
        BY <1>1, <1>5, <2>2
      <3>2. ~Ends(k - 1)
        BY <1>6, <3>1
      <3>3. \E s \in server.stored : s.seq = (k - 1) + 1
        BY <3>2
      <3>4. (k - 1) + 1 = k
        OBVIOUS
      <3> QED  BY <3>3, <3>4
    <2> QED  BY <2>1, <2>2
  <1>8. Fits(p)
    <2>1. ASSUME NEW k \in e.seq..(p - 1)
          PROVE  \E s \in all : s.seq = k /\ ~s.terminal
      <3>1. k \in Nat /\ k >= e.seq /\ k < p /\ k <= p
        BY <1>1, <1>5
      <3>2. PICK s \in all : s.seq = k
        BY <1>7, <3>1
      <3>3. ~Ends(k)
        BY <1>6, <3>1
      <3> QED  BY <3>2, <3>3
    <2> QED  BY <1>5, <2>1
  <1>9. p \in {s.seq : s \in all}
    BY <1>5, <1>7
  <1>10. AppliedUpTo(e) = CHOOSE last \in {s.seq : s \in all} : Fits(last)
    BY DEF AppliedUpTo
  <1> HIDE DEF Fits
  <1>11. AppliedUpTo(e) \in {s.seq : s \in all} /\ Fits(AppliedUpTo(e))
    BY <1>8, <1>9, <1>10
  <1> QED  BY <1>1, <1>11 DEF Fits

\* The store, given any event, keeps its types and its invariant.
LEMMA IngestKeeps ==
  ASSUME TypeOK, StoredOnce, NextIsFree, NumbersBounded, NEW e \in Entry, Ingest(e)
  PROVE  /\ server' \in [last : Nat, ended : BOOLEAN, stored : SUBSET Entry]
         /\ StoredOnce' /\ NextIsFree' /\ NumbersBounded'
  <1>1. server \in [last : Nat, ended : BOOLEAN, stored : SUBSET Entry]
    BY DEF TypeOK
  <1>2. \A s \in server.stored \cup {e} : s.seq \in Nat \ {0} /\ s.n \in Events
    BY <1>1 DEF Entry
  <1>3. CASE Verdict(e) \notin {"applied", "gap"}
    <2>1. server' = server
      BY <1>3 DEF Ingest
    <2> QED  BY <1>1, <2>1 DEF StoredOnce, NextIsFree, NumbersBounded
  <1>4. CASE Verdict(e) \in {"applied", "gap"}
    <2> DEFINE last == AppliedUpTo(e)
               stored == server.stored \cup {e}
    <2>1. /\ last \in Nat /\ last >= e.seq
          /\ \/ \E s \in stored : s.seq = last /\ s.terminal
             \/ \A s \in server.stored : s.seq # last + 1
      BY LoopEnds
    <2>2. server'.stored = stored
      BY <1>1, <1>4 DEF Ingest
    <2>3. ~StoredEvent(e.n) /\ VerdictBySequence(e) \in {"applied", "gap"}
      BY <1>4 DEF Verdict
    <2>4. \A s \in server.stored : s.n # e.n /\ s.seq # e.seq
      BY <2>3 DEF StoredEvent, VerdictBySequence, NextIsFree
    <2>5. StoredOnce'
      BY <2>2, <2>4 DEF StoredOnce
    <2>6. NumbersBounded'
      <3>1. PICK bound \in Nat : \A s \in server.stored : s.seq <= bound
        BY DEF NumbersBounded
      <3>2. bound + e.seq \in Nat /\ \A s \in stored : s.seq <= bound + e.seq
        BY <1>2, <3>1
      <3> QED  BY <2>2, <3>2 DEF NumbersBounded
    <2>7. CASE Verdict(e) = "applied"
      <3> HIDE DEF last
      <3>1. server' = [last |-> last, stored |-> stored,
                       ended |-> \E s \in stored : s.seq = last /\ s.terminal]
        BY <2>7 DEF Ingest, last
      <3>2. /\ server'.last = last
            /\ server'.ended <=> \E s \in stored : s.seq = last /\ s.terminal
        BY <3>1
      <3>3. NextIsFree'
        <4>1. last # 0
          BY <1>2, <2>1
        <4>2. ASSUME ~server'.ended, NEW s \in stored PROVE s.seq # last + 1
          <5>1. s \in server.stored => s.seq # last + 1
            BY <2>1, <3>2, <4>2
          <5>2. e.seq # last + 1
            BY <1>2, <2>1
          <5> QED  BY <5>1, <5>2
        <4> QED  BY <2>2, <3>2, <4>1, <4>2 DEF NextIsFree
      <3>4. server' \in [last : Nat, ended : BOOLEAN, stored : SUBSET Entry]
        <4>1. stored \in SUBSET Entry
          BY <1>1
        <4> QED  BY <2>1, <3>1, <4>1
      <3> QED  BY <2>5, <2>6, <3>3, <3>4
    <2>8. CASE Verdict(e) = "gap"
      <3>1. server' = [server EXCEPT !.stored = stored]
        BY <2>8 DEF Ingest
      <3>2. VerdictBySequence(e) = "gap"
        BY <2>8 DEF Verdict
      <3>3. server.last # 0 /\ ~server.ended /\ e.seq # server.last + 1
        BY <3>2 DEF VerdictBySequence
      <3>4. NextIsFree'
        BY <1>1, <3>1, <3>3 DEF NextIsFree
      <3> QED  BY <1>1, <2>5, <2>6, <3>1, <3>4
    <2> QED  BY <1>4, <2>7, <2>8
  <1> QED  BY <1>3, <1>4

-----------------------------------------------------------------------------
(* Steps.                                                                  *)

Tellings == {"reporting", "delivered", "queued", "failed", "killed"}

\* The record of a job is what its type says.
LEMMA JobFields ==
  ASSUME Typed, NEW n \in Jobs
  PROVE  /\ n \in Events /\ jobs[n] \in ProperJob
         /\ jobs[n].copy \in Spool /\ jobs[n].copy.events \in Seq(Entry)
         /\ jobs[n].entry \in Entry /\ jobs[n].request \in Request \cup {None}
  <1> USE DEF Typed
  <1>1. n \in Events /\ jobs[n] \in ProperJob
    BY DEF TypeOK, Jobs
  <1> QED  BY <1>1 DEF Job, ProperJob, Spool

\* A job that ends is one.
LEMMA FinishTyped ==
  ASSUME Typed, NEW n \in Jobs, NEW told \in Tellings, Finish(n, told)
  PROVE  jobs' \in [Events -> ProperJob \cup {None}]
  <1> USE DEF Typed
  <1>1. EmptySpool \in Spool
    BY EmptySeq DEF EmptySpool, Spool
  <1>2. jobs[n] \in ProperJob
    BY JobFields
  <1>3. Finished(jobs[n], told) \in ProperJob
    BY <1>1, <1>2 DEF Finished, Job, ProperJob, Tellings
  <1> QED  BY <1>3 DEF Finish, TypeOK

\* So is one that goes to another place.
LEMMA GotoTyped ==
  ASSUME Typed, NEW n \in Jobs, Goto(n, "queue")
  PROVE  jobs' \in [Events -> ProperJob \cup {None}]
  <1> USE DEF Typed
  <1>1. jobs[n] \in ProperJob
    BY JobFields
  <1>2. [jobs[n] EXCEPT !.at = "queue", !.request = None] \in ProperJob
    BY <1>1 DEF Job, ProperJob
  <1>3. jobs' = [jobs EXCEPT ![n] = [jobs[n] EXCEPT !.at = "queue", !.request = None]]
    BY DEF Goto
  <1> QED  BY <1>2, <1>3 DEF TypeOK

\* What is sent is a request, of a job that waits for its answer.
LEMMA SendTyped ==
  ASSUME Typed, NEW n \in Events, NEW job \in ProperJob, NEW entry \in Entry,
         Send(n, job, entry, FALSE)
  PROVE  wire' \subseteq Request /\ jobs' \in [Events -> ProperJob \cup {None}]
  <1> USE DEF Typed
  <1> DEFINE request == [by |-> n, entry |-> entry, again |-> FALSE]
  <1>1. request \in Request
    BY DEF Request
  <1> HIDE DEF request
  <1>2. wire' = wire \cup {request} /\ jobs' = [jobs EXCEPT ![n] = [job EXCEPT !.request = request]]
    BY DEF Send, request
  <1>3. [job EXCEPT !.request = request] \in ProperJob
    BY <1>1 DEF Job, ProperJob
  <1> QED  BY <1>1, <1>2, <1>3 DEF TypeOK

\* A report goes behind queued events or to the companion.
LEMMA QueueOrSendTyped ==
  ASSUME Typed, NEW n \in Events, NEW job \in ProperJob, NEW s \in Spool, QueueOrSend(n, job, s)
  PROVE  wire' \subseteq Request /\ jobs' \in [Events -> ProperJob \cup {None}]
  <1> USE DEF Typed
  <1>1. CASE s.events = <<>>
    <2>1. [job EXCEPT !.at = "submit"] \in ProperJob /\ job.entry \in Entry
      BY DEF Job, ProperJob
    <2>2. Send(n, [job EXCEPT !.at = "submit"], job.entry, FALSE)
      BY <1>1 DEF QueueOrSend
    <2> QED  BY <2>1, <2>2, SendTyped
  <1>2. CASE s.events # <<>>
    <2>1. [job EXCEPT !.at = "queue", !.replays = TRUE] \in ProperJob
      BY DEF Job, ProperJob
    <2>2. jobs' = [jobs EXCEPT ![n] = [job EXCEPT !.at = "queue", !.replays = TRUE]] /\ wire' = wire
      BY <1>2 DEF QueueOrSend
    <2> QED  BY <2>1, <2>2 DEF TypeOK
  <1> QED  BY <1>1, <1>2

\* A report makes the next event.
LEMMA ReportTyped ==
  ASSUME Typed, NEW p \in Processes, NEW terminal \in BOOLEAN, Report(p, terminal)
  PROVE  Typed'
  <1> USE DEF Typed
  <1> DEFINE n == Issued + 1
             entry == [n |-> n, seq |-> counter[p] + 1, terminal |-> terminal]
             job == [at |-> "submit", told |-> "reporting", process |-> p, entry |-> entry,
                     copy |-> EmptySpool, request |-> None, replays |-> FALSE]
  <1>1. n \in Events
    <2>1. IsFiniteSet(Events)
      BY FS_Interval, DeliveryConstants DEF Events
    <2>2. IsFiniteSet({k \in Events : jobs[k] # None})
      BY <2>1, FS_Subset
    <2>3. Issued \in Nat
      BY <2>2, FS_CardinalityType DEF Issued
    <2>4. Issued + 1 <= MaxEvents
      BY DEF Report
    <2> QED  BY <2>3, <2>4, DeliveryConstants DEF Events
  <1> HIDE DEF n
  <1>2. entry \in Entry
    BY <1>1 DEF TypeOK, Entry
  <1>3. EmptySpool \in Spool
    BY EmptySeq DEF EmptySpool, Spool
  <1>4. job \in ProperJob
    BY <1>2, <1>3 DEF Job, ProperJob
  <1>5. counter' \in [Processes -> Nat]
    <2>1. counter' = [counter EXCEPT ![p] = @ + 1]
      BY DEF Report
    <2> QED  BY <2>1 DEF TypeOK
  <1>6. \/ Send(n, job, entry, FALSE)
        \/ \E s \in Loaded :
             \/ QueueOrSend(n, job, s)
             \/ jobs' = [jobs EXCEPT ![n] = [job EXCEPT !.at = "trim", !.copy = s]] /\ wire' = wire
    BY DEF Report, n
  <1> HIDE DEF entry, job
  <1>7. wire' \subseteq Request /\ jobs' \in [Events -> ProperJob \cup {None}]
    <2>1. CASE Send(n, job, entry, FALSE)
      BY <1>1, <1>2, <1>4, <2>1, SendTyped
    <2>2. ASSUME NEW s \in Loaded, QueueOrSend(n, job, s)
          PROVE  wire' \subseteq Request /\ jobs' \in [Events -> ProperJob \cup {None}]
      BY <1>1, <1>4, <2>2, LoadedTyped, QueueOrSendTyped
    <2>3. ASSUME NEW s \in Loaded, wire' = wire,
                 jobs' = [jobs EXCEPT ![n] = [job EXCEPT !.at = "trim", !.copy = s]]
          PROVE  wire' \subseteq Request /\ jobs' \in [Events -> ProperJob \cup {None}]
      <3>1. s \in Spool
        BY LoadedTyped
      <3>2. [job EXCEPT !.at = "trim", !.copy = s] \in ProperJob
        BY <1>4, <3>1 DEF Job, ProperJob
      <3> QED  BY <2>3, <3>2 DEF TypeOK
    <2> QED  BY <1>6, <2>1, <2>2, <2>3
  <1>8. spool' = spool /\ server' = server
    BY DEF Report
  <1> QED  BY <1>5, <1>7, <1>8 DEF TypeOK, ProperJob

\* What a job does with the spool and the store keeps the types.
LEMMA JobStepTyped ==
  ASSUME Typed, NEW n \in Events,
         \/ SaveTrimmed(n) \/ LoadToQueue(n) \/ SaveQueued(n)
         \/ StoreFails(n) \/ ReturnEarly(n) \/ LoadToReplay(n)
  PROVE  Typed'
  <1> USE DEF Typed
  <1>1. n \in Jobs
    BY DEF SaveTrimmed, LoadToQueue, SaveQueued, StoreFails, ReturnEarly, LoadToReplay, At
  <1>2. jobs[n] \in ProperJob /\ jobs[n].copy \in Spool /\ jobs[n].entry \in Entry
    BY <1>1, JobFields
  <1>3. EmptySpool \in Spool
    BY EmptySeq DEF EmptySpool, Spool
  <1>4. counter' = counter /\ server' = server
    BY DEF SaveTrimmed, LoadToQueue, SaveQueued, StoreFails, ReturnEarly, LoadToReplay
  <1>5. SUFFICES /\ spool' \in Spool /\ wire' \subseteq Request
                 /\ jobs' \in [Events -> ProperJob \cup {None}]
    BY <1>4 DEF TypeOK, ProperJob
  <1>6. spool \in Spool /\ wire \subseteq Request /\ jobs \in [Events -> ProperJob \cup {None}]
    BY DEF TypeOK
  <1>7. CASE SaveTrimmed(n)
    <2>1. [jobs[n] EXCEPT !.copy = EmptySpool] \in ProperJob
      BY <1>2, <1>3, <1>7 DEF Job, ProperJob, SaveTrimmed, At
    <2> QED  BY <1>2, <1>7, <2>1, QueueOrSendTyped DEF SaveTrimmed
  <1>8. CASE LoadToQueue(n)
    <2>1. PICK s \in Loaded :
            jobs' = [jobs EXCEPT ![n].at = "append", ![n].copy = Enqueued(s, jobs[n].entry)]
      BY <1>8 DEF LoadToQueue
    <2>2. Enqueued(s, jobs[n].entry) \in Spool
      BY <1>2, LoadedTyped, EnqueuedTyped
    <2>3. [jobs[n] EXCEPT !.at = "append", !.copy = Enqueued(s, jobs[n].entry)] \in ProperJob
      BY <1>2, <2>2 DEF Job, ProperJob
    <2>4. jobs' = [jobs EXCEPT ![n] = [jobs[n] EXCEPT !.at = "append",
                                         !.copy = Enqueued(s, jobs[n].entry)]]
      BY <2>1
    <2> QED  BY <1>6, <1>8, <2>3, <2>4 DEF LoadToQueue
  <1>9. CASE SaveQueued(n)
    <2>1. CASE jobs[n].replays
      <3>1. [jobs[n] EXCEPT !.at = "load", !.copy = EmptySpool] \in ProperJob
        BY <1>2, <1>3 DEF Job, ProperJob
      <3>2. jobs' = [jobs EXCEPT ![n] = [jobs[n] EXCEPT !.at = "load", !.copy = EmptySpool]]
        BY <1>9, <2>1 DEF SaveQueued
      <3> QED  BY <1>2, <1>6, <1>9, <3>1, <3>2 DEF SaveQueued
    <2>2. CASE ~jobs[n].replays
      BY <1>1, <1>2, <1>6, <1>9, <2>2, FinishTyped DEF SaveQueued, Tellings
    <2> QED  BY <2>1, <2>2
  <1>10. CASE StoreFails(n)
    BY <1>1, <1>6, <1>10, FinishTyped DEF StoreFails, Tellings
  <1>11. CASE ReturnEarly(n)
    <2>1. [jobs[n] EXCEPT !.told = "queued"] \in ProperJob
      BY <1>2 DEF Job, ProperJob
    <2>2. jobs' = [jobs EXCEPT ![n] = [jobs[n] EXCEPT !.told = "queued"]]
      BY <1>11 DEF ReturnEarly
    <2> QED  BY <1>6, <1>11, <2>1, <2>2 DEF ReturnEarly
  <1>12. CASE LoadToReplay(n)
    <2>1. PICK s \in Loaded :
            \/ Finish(n, "queued") /\ spool' = s /\ wire' = wire
            \/ /\ s.events # <<>> /\ spool' = spool
               /\ Send(n, [jobs[n] EXCEPT !.at = "replay", !.copy = s], Head(s.events), FALSE)
      BY <1>12 DEF LoadToReplay
    <2>2. s \in Spool /\ s.events \in Seq(Entry)
      BY LoadedTyped DEF Spool
    <2>3. CASE Finish(n, "queued") /\ spool' = s /\ wire' = wire
      BY <1>1, <1>6, <2>2, <2>3, FinishTyped DEF Tellings
    <2>4. CASE /\ s.events # <<>> /\ spool' = spool
               /\ Send(n, [jobs[n] EXCEPT !.at = "replay", !.copy = s], Head(s.events), FALSE)
      <3>1. Head(s.events) \in Entry
        BY <2>2, <2>4, HeadTailProperties
      <3>2. [jobs[n] EXCEPT !.at = "replay", !.copy = s] \in ProperJob
        BY <1>2, <2>2, <2>4 DEF Job, ProperJob
      <3> QED  BY <1>6, <2>4, <3>1, <3>2, SendTyped
    <2> QED  BY <2>1, <2>3, <2>4
  <1> QED  BY <1>7, <1>8, <1>9, <1>10, <1>11, <1>12

\* A job whose event was refused queues it, or ends.
LEMMA NotAcceptedTyped ==
  ASSUME Typed, NEW n \in Jobs, NotAccepted(n)
  PROVE  spool' \in Spool /\ jobs' \in [Events -> ProperJob \cup {None}]
  <1> USE DEF Typed
  <1>1. spool \in Spool /\ jobs[n].copy \in Spool
    BY JobFields DEF TypeOK
  <1>2. CASE Goto(n, "queue") /\ spool' = spool
    BY <1>1, <1>2, GotoTyped
  <1>3. CASE Finish(n, "queued") /\ spool' = jobs[n].copy
    BY <1>1, <1>3, FinishTyped DEF Tellings
  <1> QED  BY <1>2, <1>3 DEF NotAccepted

\* A job whose event was accepted ends, or sends the next one of the spool.
LEMMA AcceptedTyped ==
  ASSUME Typed, NEW r \in wire, Waits(r), Accepted(r.by, r)
  PROVE  spool' \in Spool /\ wire' \subseteq Request /\ jobs' \in [Events -> ProperJob \cup {None}]
  <1> USE DEF Typed
  <1> DEFINE n == r.by
             rest == [jobs[n].copy EXCEPT !.events = Tail(@)]
             next == [by |-> n, entry |-> Head(rest.events), again |-> FALSE]
  <1>1. n \in Jobs /\ n \in Events /\ jobs[n] \in ProperJob /\ jobs[n].copy \in Spool
    BY JobFields DEF Waits
  <1>2. spool \in Spool /\ wire \subseteq Request /\ jobs \in [Events -> ProperJob \cup {None}]
    BY DEF TypeOK
  <1>3. Receipt(n, r) \in Tellings
    BY DEF Receipt, Tellings
  <1>4. CASE Finish(n, "delivered") /\ wire' = wire \ {r} /\ spool' = spool
    BY <1>1, <1>2, <1>4, FinishTyped DEF Tellings
  <1>5. CASE ~(Finish(n, "delivered") /\ wire' = wire \ {r} /\ spool' = spool)
    <2>1. /\ At(n, "replay") /\ spool' = rest
          /\ \/ /\ rest.events = <<>> /\ Finish(n, Receipt(n, r)) /\ wire' = wire \ {r}
             \/ /\ rest.events # <<>>
                /\ jobs' = [jobs EXCEPT ![n].copy = rest, ![n].request = next]
                /\ wire' = (wire \ {r}) \cup {next}
      BY <1>5 DEF Accepted
    <2>2. jobs[n].copy.events \in Seq(Entry) /\ jobs[n].copy.events # <<>>
      BY <1>1, <2>1 DEF Spool, ProperJob, At
    <2>3. Tail(jobs[n].copy.events) \in Seq(Entry)
      BY <2>2, HeadTailProperties
    <2>4. rest \in Spool /\ rest.events \in Seq(Entry)
      BY <1>1, <2>3 DEF Spool
    <2> HIDE DEF rest
    <2>5. CASE rest.events = <<>>
      BY <1>1, <1>2, <1>3, <2>1, <2>4, <2>5, FinishTyped
    <2>6. CASE rest.events # <<>>
      <3>1. Head(rest.events) \in Entry
        BY <2>4, <2>6, HeadTailProperties
      <3>2. next \in Request
        BY <1>1, <3>1 DEF Request
      <3> HIDE DEF next
      <3>3. [jobs[n] EXCEPT !.copy = rest, !.request = next] \in ProperJob
        BY <1>1, <2>4, <2>6, <3>2 DEF Job, ProperJob
      <3>4. jobs' = [jobs EXCEPT ![n] = [jobs[n] EXCEPT !.copy = rest, !.request = next]]
        BY <2>1, <2>6
      <3> HIDE DEF n
      <3> QED  BY <1>2, <2>1, <2>4, <2>6, <3>2, <3>3, <3>4
    <2> QED  BY <2>5, <2>6
  <1> QED  BY <1>4, <1>5

\* A request sent again is one, of the same job.
LEMMA ResendTyped ==
  ASSUME Typed, NEW r \in wire, Waits(r), Resend(r.by, r)
  PROVE  spool' \in Spool /\ wire' \subseteq Request /\ jobs' \in [Events -> ProperJob \cup {None}]
  <1> USE DEF Typed
  <1> DEFINE n == r.by
             next == [r EXCEPT !.entry.seq = server.last + 1, !.again = TRUE]
  <1>1. n \in Jobs /\ n \in Events /\ jobs[n] \in ProperJob
    BY JobFields DEF Waits
  <1>2. spool \in Spool /\ wire \subseteq Request /\ jobs \in [Events -> ProperJob \cup {None}]
    BY DEF TypeOK
  <1>3. next \in Request
    <2>1. r \in Request /\ r.entry \in Entry
      BY <1>2 DEF Request
    <2>2. server.last + 1 \in Nat \ {0}
      BY DEF TypeOK
    <2>3. [r.entry EXCEPT !.seq = server.last + 1] \in Entry
      BY <2>1, <2>2 DEF Entry
    <2>4. next = [r EXCEPT !.entry = [r.entry EXCEPT !.seq = server.last + 1], !.again = TRUE]
      OBVIOUS
    <2> QED  BY <2>1, <2>3, <2>4 DEF Request
  <1> HIDE DEF next
  <1>4. [jobs[n] EXCEPT !.request = next] \in ProperJob
    BY <1>1, <1>3 DEF Job, ProperJob
  <1>5. /\ jobs' = [jobs EXCEPT ![n] = [jobs[n] EXCEPT !.request = next]]
        /\ wire' = (wire \ {r}) \cup {next} /\ spool' = spool
    BY DEF Resend, next
  <1> HIDE DEF n
  <1> QED  BY <1>1, <1>2, <1>3, <1>4, <1>5

\* The companion takes a request: the store and the job that waits keep to their types.
LEMMA ServeKeeps ==
  ASSUME Kept, NEW r \in wire, Serve(r)
  PROVE  Kept'
  <1>1. Typed /\ TypeOK /\ StoredOnce /\ NextIsFree /\ NumbersBounded
    BY DEF Kept, Typed
  <1>2. r \in Request /\ r.entry \in Entry
    BY <1>1 DEF TypeOK, Request
  <1>3. Ingest(r.entry) /\ counter' = counter
    BY DEF Serve
  <1>4. /\ server' \in [last : Nat, ended : BOOLEAN, stored : SUBSET Entry]
        /\ StoredOnce' /\ NextIsFree' /\ NumbersBounded'
    BY <1>1, <1>2, <1>3, IngestKeeps
  <1>5. \/ wire' = wire \ {r} /\ UNCHANGED <<jobs, spool>>
        \/ Waits(r) /\ Accepted(r.by, r)
        \/ Waits(r) /\ Resend(r.by, r)
        \/ Waits(r) /\ NotAccepted(r.by) /\ wire' = wire \ {r}
    BY DEF Serve
  <1>6. spool' \in Spool /\ wire' \subseteq Request /\ jobs' \in [Events -> ProperJob \cup {None}]
    <2>1. CASE wire' = wire \ {r} /\ UNCHANGED <<jobs, spool>>
      BY <1>1, <2>1 DEF Typed, TypeOK
    <2>2. CASE Waits(r) /\ Accepted(r.by, r)
      BY <1>1, <2>2, AcceptedTyped
    <2>3. CASE Waits(r) /\ Resend(r.by, r)
      BY <1>1, <2>3, ResendTyped
    <2>4. CASE Waits(r) /\ NotAccepted(r.by) /\ wire' = wire \ {r}
      <3>1. r.by \in Jobs
        BY <2>4 DEF Waits
      <3>2. spool' \in Spool /\ jobs' \in [Events -> ProperJob \cup {None}]
        BY <1>1, <2>4, <3>1, NotAcceptedTyped
      <3> QED  BY <1>1, <2>4, <3>2 DEF TypeOK
    <2> QED  BY <1>5, <2>1, <2>2, <2>3, <2>4
  <1>7. Typed'
    BY <1>1, <1>3, <1>4, <1>6 DEF Typed, TypeOK, ProperJob
  <1> QED  BY <1>4, <1>7 DEF Kept

\* A restart ends the jobs of its process.
LEMMA RestartTyped ==
  ASSUME Typed, NEW p \in Processes, Restart(p)
  PROVE  Typed'
  <1>1. EmptySpool \in Spool
    BY EmptySeq DEF EmptySpool, Spool
  <1>2. \A n \in Jobs : Finished(jobs[n], "killed") \in ProperJob
    BY <1>1 DEF Typed, Jobs, Finished, Job, ProperJob
  <1>3. jobs' = [n \in Events |-> IF n \in Jobs /\ jobs[n].process = p
                                  THEN Finished(jobs[n], "killed") ELSE jobs[n]]
    BY DEF Restart
  <1>4. jobs' \in [Events -> ProperJob \cup {None}]
    BY <1>2, <1>3 DEF Typed
  <1>5. counter' \in [Processes -> Nat] /\ UNCHANGED <<spool, wire, server>>
    BY DEF Restart, Typed, TypeOK
  <1> QED  BY <1>4, <1>5 DEF Typed, TypeOK, ProperJob

\* Nothing is stored and no one reports at first.
LEMMA KeptInit ==
  ASSUME Init
  PROVE  Kept
  <1>1. EmptySpool \in Spool
    BY EmptySeq DEF EmptySpool, Spool
  <1>2. Typed
    BY <1>1 DEF Init, Typed, TypeOK
  <1>3. StoredOnce /\ NextIsFree
    BY DEF Init, StoredOnce, NextIsFree
  <1>4. NumbersBounded
    <2>1. 0 \in Nat /\ \A e \in server.stored : e.seq <= 0
      BY DEF Init
    <2> QED  BY <2>1 DEF NumbersBounded
  <1> QED  BY <1>2, <1>3, <1>4 DEF Kept

\* Every step keeps the invariant.
LEMMA KeptStep ==
  ASSUME Kept, [Next]_vars
  PROVE  Kept'
  <1>1. Typed /\ TypeOK
    BY DEF Kept, Typed
  <1>2. ASSUME server' = server, Typed' PROVE Kept'
    BY <1>2 DEF Kept, StoredOnce, NextIsFree, NumbersBounded
  <1>3. CASE Next
    <2>1. ASSUME NEW p \in Processes, NEW terminal \in BOOLEAN, Report(p, terminal) PROVE Kept'
      <3>1. server' = server
        BY <2>1 DEF Report
      <3> QED  BY <1>1, <1>2, <2>1, <3>1, ReportTyped
    <2>2. ASSUME NEW n \in Events,
                 \/ SaveTrimmed(n) \/ LoadToQueue(n) \/ SaveQueued(n)
                 \/ StoreFails(n) \/ ReturnEarly(n) \/ LoadToReplay(n)
          PROVE  Kept'
      <3>1. server' = server
        BY <2>2 DEF SaveTrimmed, LoadToQueue, SaveQueued, StoreFails, ReturnEarly, LoadToReplay
      <3> QED  BY <1>1, <1>2, <2>2, <3>1, JobStepTyped
    <2>3. ASSUME NEW r \in wire, Serve(r) PROVE Kept'
      BY <2>3, ServeKeeps
    <2>4. ASSUME NEW n \in Jobs, NotAccepted(n), wire' \subseteq wire, UNCHANGED <<counter, server>>
          PROVE  Kept'
      <3>1. spool' \in Spool /\ jobs' \in [Events -> ProperJob \cup {None}]
        BY <1>1, <2>4, NotAcceptedTyped
      <3>2. Typed'
        BY <1>1, <2>4, <3>1 DEF Typed, TypeOK, ProperJob
      <3> QED  BY <1>2, <2>4, <3>2
    <2>5. ASSUME NEW r \in wire, Refuse(r) PROVE Kept'
      BY <2>4, <2>5 DEF Refuse, Waits
    <2>6. ASSUME NEW n \in Events, GiveUp(n) PROVE Kept'
      BY <2>4, <2>6 DEF GiveUp
    <2>7. ASSUME NEW p \in Processes, Restart(p) PROVE Kept'
      <3>1. server' = server
        BY <2>7 DEF Restart
      <3> QED  BY <1>1, <1>2, <2>7, <3>1, RestartTyped
    <2> QED  BY <1>3, <2>1, <2>2, <2>3, <2>5, <2>6, <2>7 DEF Next
  <1>4. CASE UNCHANGED vars
    <2>1. server' = server /\ Typed'
      BY <1>1, <1>4 DEF vars, Typed, TypeOK
    <2> QED  BY <1>2, <2>1
  <1> QED  BY <1>3, <1>4

-----------------------------------------------------------------------------
(* One process reports, nothing expires and the secret store answers: what *)
(* is called queued is kept, and events are applied in the order they were *)
(* made.  (With two processes, or a budget that may end, they are not.)    *)

OneReporter ==
  /\ \E p : Processes = {p}
  /\ Hooks = {} /\ ~MayExpire /\ ~StoreMayFail /\ ~BudgetMayEnd

Working(n) == n \in Jobs /\ jobs[n].at # "done"

\* Events are numbered as they are made, and only the job of the last one may be working.
Numbered ==
  /\ Jobs = 1..Issued
  /\ \A n \in Jobs : /\ jobs[n].entry.n = n
                     /\ jobs[n].at # "trim"
                     /\ jobs[n].at = "done" <=> jobs[n].told # "reporting"
                     /\ jobs[n].at # "done" => n = Issued

\* The spool holds reported events, in the order in which they were made.
SpoolInOrder ==
  \A i \in DOMAIN spool.events :
    /\ spool.events[i].n \in Jobs
    /\ spool.events[i] = jobs[spool.events[i].n].entry
    /\ \A j \in DOMAIN spool.events : i < j => spool.events[i].n < spool.events[j].n

\* What a job has read is still so, and what it sends is its own event or the oldest queued one.
InHand(n) ==
  LET job == jobs[n]
      head == Head(spool.events)
  IN /\ job.at \in {"submit", "queue", "append"} => ~Queued(spool, n)
     /\ job.at = "append" => job.copy = Enqueued(spool, job.entry)
     /\ job.at = "replay" => job.copy = spool
     /\ job.at = "submit" => spool.events = <<>>
     /\ job.at \in {"submit", "replay"} <=> job.request # None
     /\ job.request # None => job.request.by = n
     /\ job.at = "submit" => /\ job.request.entry.n = n
                             /\ job.request.entry.terminal = job.entry.terminal
     /\ job.at = "replay" => /\ job.request.entry.n = head.n
                             /\ job.request.entry.terminal = head.terminal
JobsInHand == \A n \in Jobs : InHand(n)

\* Nothing sent or stored was made after an event that is still queued.
Behind ==
  /\ \A r \in wire : r.entry.n \in Jobs
  /\ \A d \in server.stored : d.n \in Jobs
  /\ \A i \in DOMAIN spool.events :
       /\ \A r \in wire : r.entry.n <= spool.events[i].n
       /\ \A d \in server.stored : d.n <= spool.events[i].n

\* The events that were put into the spool and are neither there nor in the store.
Lost == {n \in Jobs : /\ ~Settled(jobs[n].entry) /\ ~Queued(spool, n)
                      /\ jobs[n].told = "queued" \/ jobs[n].at \in {"load", "replay"}}
LossCounted == Cardinality(Lost) <= spool.gaps

DeliveredSettled == \A n \in Jobs : jobs[n].told = "delivered" => Settled(jobs[n].entry)

\* The events that are still to be stored.
Pending == {n \in Jobs : ~StoredEvent(n) /\ (Queued(spool, n) \/ Working(n))}
Before(n) == {m \in Pending : m < n}

\* While nothing was dropped: what is stored is applied, in order; an event to be stored has a
\* number the ones before it leave or a smaller one; and a request out of order has an old number.
InOrder == spool.gaps = 0 =>
  /\ \A d \in server.stored : d.seq <= server.last
  /\ \A d, e \in server.stored : d.n < e.n => d.seq < e.seq
NumbersFollow == spool.gaps = 0 /\ ~server.ended =>
  /\ \A n \in Pending : jobs[n].entry.seq <= server.last + Cardinality(Before(n)) + 1
  /\ \A p \in Processes : counter[p] <= server.last + Cardinality(Pending)
Follows(r) ==
  /\ r.entry.seq <= server.last + 1
  /\ r.entry.seq = server.last + 1 => \A d \in server.stored : d.n < r.entry.n
RequestsFollow == spool.gaps = 0 /\ ~server.ended =>
  \A r \in wire : ~StoredEvent(r.entry.n) => Follows(r)

\* An assignment ends with an event.
EndedByEvent == server.ended => server.last # 0

\* The inductive invariant.
Orderly ==
  /\ Kept /\ Numbered /\ SpoolInOrder /\ JobsInHand /\ Behind /\ EndedByEvent
  /\ LossCounted /\ DeliveredSettled /\ InOrder /\ NumbersFollow /\ RequestsFollow

-----------------------------------------------------------------------------
(* Facts about a state.                                                    *)

\* The events reported so far are finitely many, and so is any part of them.
LEMMA FewEvents ==
  /\ IsFiniteSet(Jobs) /\ Issued \in Nat /\ Issued = Cardinality(Jobs)
  /\ \A S \in SUBSET Jobs : IsFiniteSet(S) /\ Cardinality(S) \in Nat
  <1>1. IsFiniteSet(Events)
    BY FS_Interval, DeliveryConstants DEF Events
  <1>2. Jobs \in SUBSET Events /\ Issued = Cardinality(Jobs)
    BY DEF Jobs, Issued
  <1>3. IsFiniteSet(Jobs)
    BY <1>1, <1>2, FS_Subset
  <1>4. ASSUME NEW S \in SUBSET Jobs PROVE IsFiniteSet(S) /\ Cardinality(S) \in Nat
    BY <1>3, FS_Subset, FS_CardinalityType
  <1> QED  BY <1>2, <1>3, <1>4

\* The events of the spool are entries, at the places 1..Len.
LEMMA SpoolFields ==
  ASSUME TypeOK
  PROVE  /\ spool.events \in Seq(Entry) /\ spool.gaps \in Nat
         /\ Len(spool.events) \in Nat /\ DOMAIN spool.events = 1..Len(spool.events)
         /\ \A i \in DOMAIN spool.events : spool.events[i] \in Entry
         /\ spool.events # <<>> => 1 \in DOMAIN spool.events /\ Head(spool.events) = spool.events[1]
  <1>1. spool.events \in Seq(Entry) /\ spool.gaps \in Nat
    BY DEF TypeOK, Spool
  <1>2. Len(spool.events) \in Nat /\ DOMAIN spool.events = 1..Len(spool.events)
    BY <1>1, LenProperties
  <1>3. \A i \in DOMAIN spool.events : spool.events[i] \in Entry
    BY <1>1, <1>2, ElementOfSeq
  <1>4. spool.events # <<>> => Len(spool.events) \in Nat \ {0}
    BY <1>1, EmptySeq
  <1> QED  BY <1>1, <1>2, <1>3, <1>4

\* An entry or a request that is one is not None.
LEMMA NotNone ==
  /\ \A job \in ProperJob : job # None
  /\ \A r \in Request : r # None
  BY NoneIsNeither DEF ProperJob

\* A job that works is the last one; the others are done, and no event was made later.
LEMMA OneWorks ==
  ASSUME Orderly, NEW n \in Jobs, jobs[n].at # "done"
  PROVE  /\ n = Issued /\ \A m \in Jobs : m \in Nat /\ m <= n
         /\ \A m \in Jobs : m # n => jobs[m].at = "done" /\ jobs[m].request = None
         /\ jobs[n].told = "reporting"
  <1>1. Numbered /\ JobsInHand
    BY DEF Orderly
  <1>2. n = Issued /\ jobs[n].told = "reporting" /\ \A m \in Jobs : m # n => jobs[m].at = "done"
    BY <1>1 DEF Numbered
  <1>3. \A m \in Jobs : m \in Nat /\ m <= n
    BY <1>1, <1>2, FewEvents DEF Numbered
  <1>4. \A m \in Jobs : jobs[m].at = "done" => jobs[m].request = None
    BY <1>1 DEF JobsInHand, InHand
  <1> QED  BY <1>2, <1>3, <1>4

\* A job that replays, while nothing was dropped, has its own event queued or in the store.
LEMMA ReplayerKept ==
  ASSUME Orderly, spool.gaps = 0, ~server.ended,
         NEW n \in Jobs, jobs[n].at \in {"load", "replay"}
  PROVE  StoredEvent(n) \/ Queued(spool, n)
  <1>1. SUFFICES ASSUME ~StoredEvent(n), ~Queued(spool, n) PROVE FALSE
    OBVIOUS
  <1>2. jobs[n].entry.n = n /\ Cardinality(Lost) <= 0
    BY DEF Orderly, Numbered, LossCounted
  <1>3. n \in Lost
    BY <1>1, <1>2 DEF Lost, Settled
  <1>4. Lost \in SUBSET Jobs
    BY DEF Lost
  <1>5. IsFiniteSet(Lost) /\ Cardinality(Lost) \in Nat
    BY <1>4, FewEvents
  <1> QED  BY <1>2, <1>3, <1>5, FS_EmptySet

\* The oldest queued event, if it is not stored, may be sent.
HeadMayGo ==
  spool.gaps = 0 /\ ~server.ended /\ spool.events # <<>> /\ ~StoredEvent(Head(spool.events).n) =>
    /\ Head(spool.events).seq <= server.last + 1
    /\ \A d \in server.stored : d.n < Head(spool.events).n

StoredBehind ==
  \A d \in server.stored : d.n \in Jobs /\ \A i \in DOMAIN spool.events : d.n <= spool.events[i].n

LEMMA HeadFollows ==
  TypeOK /\ Numbered /\ SpoolInOrder /\ StoredBehind /\ NumbersFollow => HeadMayGo
  <1> SUFFICES ASSUME TypeOK, Numbered, SpoolInOrder, StoredBehind, NumbersFollow
               PROVE  HeadMayGo
    OBVIOUS
  <1> DEFINE head == Head(spool.events)
  <1>1. SUFFICES ASSUME spool.gaps = 0, ~server.ended, spool.events # <<>>, ~StoredEvent(head.n)
                 PROVE  head.seq <= server.last + 1 /\ \A d \in server.stored : d.n < head.n
    BY DEF HeadMayGo
  <1>2. 1 \in DOMAIN spool.events /\ head = spool.events[1] /\ head \in Entry
    BY <1>1, SpoolFields
  <1>3. head.n \in Jobs /\ head = jobs[head.n].entry
    BY <1>2 DEF SpoolInOrder
  <1>4. head.n \in Pending
    BY <1>1, <1>2, <1>3 DEF Pending, Queued
  <1>5. \A m \in Pending : ~(m < head.n)
    <2> SUFFICES ASSUME NEW m \in Pending PROVE ~(m < head.n)
      OBVIOUS
    <2>1. m \in Jobs /\ m \in Nat /\ head.n \in Nat /\ head.n <= Issued
      BY <1>3, FewEvents DEF Pending, Numbered
    <2>2. CASE Queued(spool, m)
      <3>1. PICK i \in DOMAIN spool.events : spool.events[i].n = m
        BY <2>2 DEF Queued
      <3>2. i \in Nat /\ (i = 1 \/ 1 < i)
        BY SpoolFields
      <3> QED  BY <1>2, <2>1, <3>1, <3>2 DEF SpoolInOrder
    <2>3. CASE Working(m)
      BY <2>1, <2>3, FewEvents DEF Working, Numbered
    <2> QED  BY <2>2, <2>3 DEF Pending
  <1>6. Before(head.n) = {}
    BY <1>5 DEF Before
  <1>7. head.seq <= server.last + 1
    <2>1. Cardinality(Before(head.n)) = 0
      BY <1>6, FS_EmptySet
    <2>2. head.seq <= server.last + Cardinality(Before(head.n)) + 1
      BY <1>1, <1>3, <1>4 DEF NumbersFollow
    <2> QED  BY <2>1, <2>2 DEF TypeOK
  <1>8. ASSUME NEW d \in server.stored PROVE d.n < head.n
    <2>1. d.n <= head.n /\ d.n # head.n /\ d.n \in Jobs
      BY <1>1, <1>2, <1>8 DEF StoredBehind, StoredEvent
    <2>2. d.n \in Nat /\ head.n \in Nat
      BY <1>3, <2>1, FewEvents DEF Numbered
    <2> QED  BY <2>1, <2>2
  <1> QED  BY <1>7, <1>8

\* The spool with one more event, made after all of those queued: the events stay in order, and
\* if one had to go, it is counted, and it was terminal only if all are.
LEMMA EnqueuedEntries ==
  ASSUME TypeOK, SpoolInOrder, NEW e \in Entry,
         \A i \in DOMAIN spool.events : spool.events[i].n < e.n
  PROVE  LET s == Enqueued(spool, e) IN
         /\ \A i \in DOMAIN s.events :
              s.events[i] = e \/ \E j \in DOMAIN spool.events : s.events[i] = spool.events[j]
         /\ \A i, j \in DOMAIN s.events : i < j => s.events[i].n < s.events[j].n
         /\ \A m : Queued(s, m) => Queued(spool, m) \/ m = e.n
         /\ \/ /\ s.gaps = spool.gaps
               /\ \A m : Queued(spool, m) \/ m = e.n => Queued(s, m)
            \/ /\ s.gaps = spool.gaps + 1
               /\ \E v : /\ v = e \/ \E j \in DOMAIN spool.events : v = spool.events[j]
                         /\ \A m : Queued(spool, m) \/ m = e.n => Queued(s, m) \/ m = v.n
                         /\ v.terminal => \A i \in DOMAIN s.events : s.events[i].terminal
  <1> DEFINE all == Append(spool.events, e)
             L == Len(spool.events)
             s == Enqueued(spool, e)
  <1>1. /\ spool.events \in Seq(Entry) /\ spool.gaps \in Nat /\ L \in Nat
        /\ DOMAIN spool.events = 1..L /\ \A i \in 1..L : spool.events[i] \in Entry
    BY SpoolFields
  <1>2. /\ all \in Seq(Entry) /\ Len(all) = L + 1 /\ DOMAIN all = 1..(L + 1)
        /\ \A i \in 1..L : all[i] = spool.events[i]
        /\ all[L + 1] = e
    BY <1>1, AppendProperties, LenProperties
  <1> HIDE DEF all
  <1>3. \A i, j \in 1..(L + 1) : i < j => all[i].n < all[j].n
    <2> SUFFICES ASSUME NEW i \in 1..(L + 1), NEW j \in 1..(L + 1), i < j PROVE all[i].n < all[j].n
      OBVIOUS
    <2>1. i \in 1..L /\ all[i] = spool.events[i]
      BY <1>1, <1>2
    <2>2. CASE j = L + 1
      BY <1>1, <1>2, <2>1, <2>2
    <2>3. CASE j # L + 1
      <3>1. j \in 1..L /\ all[j] = spool.events[j]
        BY <1>1, <1>2, <2>3
      <3> QED  BY <1>1, <2>1, <3>1 DEF SpoolInOrder
    <2> QED  BY <2>2, <2>3
  <1>4. \A i \in 1..(L + 1) : all[i] = e \/ \E j \in DOMAIN spool.events : all[i] = spool.events[j]
    <2> SUFFICES ASSUME NEW i \in 1..(L + 1), all[i] # e
                 PROVE  \E j \in DOMAIN spool.events : all[i] = spool.events[j]
      OBVIOUS
    <2>1. i \in 1..L
      BY <1>1, <1>2
    <2> QED  BY <1>1, <1>2, <2>1
  <1>5. \A m : Queued(spool, m) \/ m = e.n <=> \E i \in 1..(L + 1) : all[i].n = m
    <2> SUFFICES ASSUME NEW m
                 PROVE  Queued(spool, m) \/ m = e.n <=> \E i \in 1..(L + 1) : all[i].n = m
      OBVIOUS
    <2>1. ASSUME Queued(spool, m) PROVE \E i \in 1..(L + 1) : all[i].n = m
      <3>1. PICK i \in 1..L : spool.events[i].n = m
        BY <1>1, <2>1 DEF Queued
      <3>2. i \in 1..(L + 1) /\ all[i].n = m
        BY <1>1, <1>2, <3>1
      <3> QED  BY <3>2
    <2>2. L + 1 \in 1..(L + 1)
      BY <1>1
    <2>3. ASSUME NEW i \in 1..(L + 1), all[i].n = m PROVE Queued(spool, m) \/ m = e.n
      BY <1>4, <2>3 DEF Queued
    <2> QED  BY <1>2, <2>1, <2>2, <2>3
  <1>6. s = Bounded([spool EXCEPT !.events = all])
    <2>1. ~Queued(spool, e.n)
      <3> SUFFICES ASSUME NEW i \in DOMAIN spool.events, spool.events[i].n = e.n PROVE FALSE
        BY DEF Queued
      <3>1. spool.events[i].n < e.n /\ e.n \in Nat
        BY DEF Entry, Events
      <3> QED  BY <3>1
    <2> QED  BY <2>1 DEF Enqueued, all
  <1> DEFINE t == [spool EXCEPT !.events = all]
  <1>7. t.events = all /\ t.gaps = spool.gaps
    BY DEF TypeOK, Spool
  <1>8. CASE Len(all) <= SpoolLimit
    <2>1. s.events = all /\ s.gaps = spool.gaps
      BY <1>6, <1>7, <1>8 DEF Bounded
    <2>2. \A m : Queued(s, m) <=> Queued(spool, m) \/ m = e.n
      BY <1>2, <1>5, <2>1 DEF Queued
    <2> HIDE DEF s
    <2> QED  BY <1>2, <1>3, <1>4, <2>1, <2>2 DEF s
  <1>9. CASE ~(Len(all) <= SpoolLimit)
    <2> DEFINE open == {i \in DOMAIN all : ~all[i].terminal}
               k == IF open = {} THEN 1 ELSE CHOOSE i \in open : \A j \in open : i <= j
               part == RemoveAt(all, k)
    <2>1. k \in 1..(L + 1) /\ (open # {} => k \in open)
      <3>1. open \in SUBSET Nat
        BY <1>2
      <3>2. open # {} => \E i \in open : \A j \in open : i <= j
        <4> HIDE DEF open
        <4> QED  BY <3>1, LeastNumber
      <3>3. open # {} => k \in open
        BY <3>2
      <3>4. 1 \in 1..(L + 1)
        BY <1>1
      <3> QED  BY <1>2, <3>3, <3>4
    <2>2. s = [events |-> part, gaps |-> spool.gaps + 1]
      BY <1>6, <1>7, <1>9 DEF Bounded
    <2>3. all[k].terminal => \A i \in 1..(L + 1) : all[i].terminal
      BY <1>2, <2>1
    <2> HIDE DEF k
    <2> DEFINE a == SubSeq(all, 1, k - 1)
               b == SubSeq(all, k + 1, Len(all))
    <2>4. /\ a \in Seq(Entry) /\ Len(a) = k - 1 /\ \A i \in 1..(k - 1) : a[i] = all[i]
      <3>1. 1 \in Int /\ k - 1 \in Int /\ \A i \in 1..(k - 1) : all[i] \in Entry
        BY <1>1, <1>2, <2>1, ElementOfSeq
      <3>2. /\ a \in Seq(Entry) /\ Len(a) = IF 1 <= k - 1 THEN (k - 1) - 1 + 1 ELSE 0
            /\ \A i \in 1..((k - 1) - 1 + 1) : a[i] = all[1 + i - 1]
        BY <3>1, SubSeqProperties
      <3> HIDE DEF a
      <3>3. (k - 1) - 1 + 1 = k - 1 /\ \A i \in 1..(k - 1) : 1 + i - 1 = i
        BY <2>1
      <3> QED  BY <1>1, <2>1, <3>2, <3>3
    <2>5. /\ b \in Seq(Entry) /\ Len(b) = L + 1 - k /\ \A i \in 1..(L + 1 - k) : b[i] = all[k + i]
      <3>1. k + 1 \in Int /\ L + 1 \in Int /\ \A i \in (k + 1)..(L + 1) : all[i] \in Entry
        BY <1>1, <1>2, <2>1, ElementOfSeq
      <3>2. /\ b \in Seq(Entry) /\ Len(b) = IF k + 1 <= L + 1 THEN (L + 1) - (k + 1) + 1 ELSE 0
            /\ \A i \in 1..((L + 1) - (k + 1) + 1) : b[i] = all[(k + 1) + i - 1]
        BY <1>2, <3>1, SubSeqProperties
      <3> HIDE DEF b
      <3>3. /\ (L + 1) - (k + 1) + 1 = L + 1 - k
            /\ \A i \in 1..(L + 1 - k) : (k + 1) + i - 1 = k + i
        BY <1>1, <2>1
      <3> QED  BY <1>1, <2>1, <3>2, <3>3
    <2>6. part = a \o b
      BY DEF RemoveAt
    <2> HIDE DEF a, b
    <2>7. /\ part \in Seq(Entry) /\ Len(part) = L /\ DOMAIN part = 1..L
          /\ \A i \in 1..L : part[i] = IF i < k THEN all[i] ELSE all[i + 1]
      <3>1. /\ a \o b \in Seq(Entry) /\ Len(a \o b) = Len(a) + Len(b)
            /\ \A i \in 1..Len(a) + Len(b) :
                 (a \o b)[i] = IF i <= Len(a) THEN a[i] ELSE b[i - Len(a)]
        BY <2>4, <2>5, ConcatProperties
      <3>2. Len(a) + Len(b) = L
        BY <1>1, <2>1, <2>4, <2>5
      <3>3. ASSUME NEW i \in 1..L PROVE (a \o b)[i] = IF i < k THEN all[i] ELSE all[i + 1]
        <4>1. CASE i < k
          <5>1. i <= Len(a) /\ i \in 1..(k - 1)
            BY <1>1, <2>1, <2>4, <4>1
          <5> QED  BY <2>4, <3>1, <3>2, <3>3, <4>1, <5>1
        <4>2. CASE ~(i < k)
          <5>1. ~(i <= Len(a)) /\ i - (k - 1) \in 1..(L + 1 - k) /\ k + (i - (k - 1)) = i + 1
            BY <1>1, <2>1, <2>4, <4>2
          <5>2. b[i - (k - 1)] = all[i + 1]
            BY <2>5, <5>1
          <5> QED  BY <2>4, <3>1, <3>2, <3>3, <4>2, <5>1, <5>2
        <4> QED  BY <4>1, <4>2
      <3>4. part \in Seq(Entry) /\ Len(part) = L
        BY <2>6, <3>1, <3>2
      <3> HIDE DEF part
      <3> QED  BY <2>6, <3>3, <3>4, LenProperties
    <2> HIDE DEF part
    <2>8. s.events = part /\ s.gaps = spool.gaps + 1
      BY <2>2
    <2> HIDE DEF s
    <2> DEFINE at(i) == IF i < k THEN i ELSE i + 1
    <2>9. \A i \in 1..L : at(i) \in 1..(L + 1) /\ at(i) # k /\ part[i] = all[at(i)]
      BY <1>1, <2>1, <2>7
    <2>10. \A i, j \in 1..L : i < j => at(i) < at(j)
      BY <1>1, <2>1
    <2>11. \A j \in 1..(L + 1) : j # k => \E i \in 1..L : part[i] = all[j]
      <3> SUFFICES ASSUME NEW j \in 1..(L + 1), j # k PROVE \E i \in 1..L : part[i] = all[j]
        OBVIOUS
      <3>1. CASE j < k
        <4>1. j \in 1..L /\ part[j] = all[j]
          BY <1>1, <2>1, <2>7, <3>1
        <4> QED  BY <4>1
      <3>2. CASE ~(j < k)
        <4>1. j - 1 \in 1..L /\ ~(j - 1 < k) /\ (j - 1) + 1 = j
          BY <1>1, <2>1, <3>2
        <4>2. part[j - 1] = all[j]
          BY <2>7, <4>1
        <4> QED  BY <4>1, <4>2
      <3> QED  BY <3>1, <3>2
    <2> HIDE DEF at, open
    <2>12. \A i \in DOMAIN s.events :
             s.events[i] = e \/ \E j \in DOMAIN spool.events : s.events[i] = spool.events[j]
      BY <1>4, <2>7, <2>8, <2>9
    <2>13. \A i, j \in DOMAIN s.events : i < j => s.events[i].n < s.events[j].n
      BY <1>3, <2>7, <2>8, <2>9, <2>10
    <2>14. \A m : Queued(s, m) => Queued(spool, m) \/ m = e.n
      BY <2>12 DEF Queued
    <2>15. \A m : Queued(spool, m) \/ m = e.n => Queued(s, m) \/ m = all[k].n
      <3> SUFFICES ASSUME NEW m, Queued(spool, m) \/ m = e.n, m # all[k].n PROVE Queued(s, m)
        OBVIOUS
      <3>1. PICK j \in 1..(L + 1) : all[j].n = m
        BY <1>5
      <3>2. j # k
        BY <3>1
      <3> QED  BY <2>7, <2>8, <2>11, <3>1, <3>2 DEF Queued
    <2>16. all[k] = e \/ \E j \in DOMAIN spool.events : all[k] = spool.events[j]
      BY <1>4, <2>1
    <2>17. all[k].terminal => \A i \in DOMAIN s.events : s.events[i].terminal
      BY <2>3, <2>7, <2>8, <2>9
    <2> QED  BY <2>8, <2>12, <2>13, <2>14, <2>15, <2>16, <2>17 DEF s
  <1> QED  BY <1>8, <1>9

\* What the spool holds when its oldest event is gone.
LEMMA TailEntries ==
  ASSUME TypeOK, SpoolInOrder, spool.events # <<>>
  PROVE  LET rest == Tail(spool.events)
             head == Head(spool.events)
         IN /\ Len(rest) \in Nat /\ DOMAIN rest = 1..Len(rest)
            /\ \A i \in DOMAIN rest : i + 1 \in DOMAIN spool.events /\ rest[i] = spool.events[i + 1]
            /\ rest # <<>> => Head(rest) = rest[1] /\ 1 \in DOMAIN rest
            /\ \A m : Queued(spool, m) <=> (m = head.n \/ \E i \in DOMAIN rest : rest[i].n = m)
            /\ \A i \in DOMAIN rest : rest[i].n # head.n
  <1> DEFINE rest == Tail(spool.events)
             head == Head(spool.events)
             L == Len(spool.events)
  <1>1. /\ spool.events \in Seq(Entry) /\ L \in Nat /\ DOMAIN spool.events = 1..L
        /\ \A i \in DOMAIN spool.events : spool.events[i] \in Entry
        /\ 1 \in DOMAIN spool.events /\ head = spool.events[1]
    BY SpoolFields
  <1>2. rest \in Seq(Entry) /\ Len(rest) = L - 1 /\ \A i \in 1..Len(rest) : rest[i] = spool.events[i + 1]
    BY <1>1, HeadTailProperties
  <1> HIDE DEF rest
  <1>3. Len(rest) \in Nat /\ DOMAIN rest = 1..Len(rest) /\ (rest # <<>> => Len(rest) # 0)
    BY <1>2, LenProperties, EmptySeq
  <1>4. \A i \in DOMAIN rest : i + 1 \in DOMAIN spool.events /\ rest[i] = spool.events[i + 1]
    BY <1>1, <1>2, <1>3
  <1>5. rest # <<>> => Head(rest) = rest[1] /\ 1 \in DOMAIN rest
    BY <1>2, <1>3
  <1>6. ASSUME NEW m, Queued(spool, m), m # head.n PROVE \E i \in DOMAIN rest : rest[i].n = m
    <2>1. PICK j \in 1..L : spool.events[j].n = m
      BY <1>1, <1>6 DEF Queued
    <2>2. j # 1
      BY <1>1, <1>6, <2>1
    <2>3. j - 1 \in DOMAIN rest /\ (j - 1) + 1 = j
      BY <1>1, <1>2, <1>3, <2>1, <2>2
    <2>4. rest[j - 1] = spool.events[j]
      BY <1>4, <2>3
    <2> QED  BY <2>1, <2>3, <2>4
  <1>7. \A m : (m = head.n \/ \E i \in DOMAIN rest : rest[i].n = m) => Queued(spool, m)
    BY <1>1, <1>4 DEF Queued
  <1>8. \A i \in DOMAIN rest : rest[i].n # head.n
    <2> SUFFICES ASSUME NEW i \in DOMAIN rest, rest[i].n = head.n PROVE FALSE
      OBVIOUS
    <2>1. i + 1 \in DOMAIN spool.events /\ rest[i] = spool.events[i + 1] /\ 1 < i + 1
      BY <1>3, <1>4
    <2>2. spool.events[1].n < spool.events[i + 1].n
      BY <1>1, <2>1 DEF SpoolInOrder
    <2>3. head.n \in Nat
      BY <1>1 DEF Entry, Events
    <2> QED  BY <1>1, <2>1, <2>2, <2>3
  <1> HIDE DEF head
  <1> QED  BY <1>3, <1>4, <1>5, <1>6, <1>7, <1>8 DEF rest, head

-----------------------------------------------------------------------------
(* What the store does with a request, while nothing was dropped.          *)

\* The store takes event e: it is stored, and next, if nothing was dropped.
Takes(e) ==
  /\ server'.stored = server.stored \cup {e}
  /\ ~StoredEvent(e.n) /\ ~server.ended
  /\ spool.gaps = 0 => /\ server'.last = server.last + 1 /\ e.seq = server.last + 1
                       /\ \A d \in server.stored : d.n < e.n

\* A request changes nothing in the store, or the store takes its event; one that is applied or
\* a duplicate has its outcome in the store afterwards.
LEMMA IngestTakes ==
  ASSUME Orderly, NEW r \in wire, Ingest(r.entry)
  PROVE  /\ \/ server' = server
            \/ Takes(r.entry) /\ Verdict(r.entry) \in {"applied", "gap"}
         /\ Verdict(r.entry) \in {"applied", "duplicate"} =>
              StoredEvent(r.entry.n)' \/ (r.entry.terminal /\ server'.ended)
         /\ server.ended => server' = server
         /\ EndedByEvent'
  <1> DEFINE e == r.entry
             stored == server.stored \cup {e}
  <1>1. /\ TypeOK /\ StoredOnce /\ NextIsFree /\ NumbersBounded /\ InOrder /\ RequestsFollow
        /\ EndedByEvent
        /\ e \in Entry /\ server.last \in Nat /\ e.seq \in Nat \ {0} /\ e.terminal \in BOOLEAN
        /\ server.ended \in BOOLEAN
    BY DEF Orderly, Kept, Typed, TypeOK, Request, Entry
  <1>2. server = [last |-> server.last, ended |-> server.ended, stored |-> server.stored]
    BY <1>1 DEF TypeOK
  <1>3. CASE Verdict(e) \notin {"applied", "gap"}
    <2>1. server' = server
      BY <1>3 DEF Ingest
    <2>2. Verdict(e) = "duplicate" => StoredEvent(e.n) \/ (e.terminal /\ server.ended)
      BY DEF Verdict, VerdictBySequence
    <2> QED  BY <1>1, <1>3, <2>1, <2>2 DEF StoredEvent, EndedByEvent
  <1>4. CASE Verdict(e) \in {"applied", "gap"}
    <2>1. ~StoredEvent(e.n) /\ VerdictBySequence(e) \in {"applied", "gap"}
      BY <1>4 DEF Verdict
    <2>2. ~server.ended
      BY <1>1, <2>1 DEF VerdictBySequence, EndedByEvent
    <2>3. server'.stored = stored
      BY <1>2, <1>4 DEF Ingest
    <2>4. ASSUME spool.gaps = 0
          PROVE  server'.last = server.last + 1 /\ e.seq = server.last + 1
                 /\ \A d \in server.stored : d.n < e.n
      <3>1. /\ \A d \in server.stored : d.seq <= server.last
            /\ e.seq <= server.last + 1
            /\ e.seq = server.last + 1 => \A d \in server.stored : d.n < e.n
        BY <1>1, <2>1, <2>2, <2>4 DEF InOrder, RequestsFollow, Follows
      <3>2. VerdictBySequence(e) = "applied" /\ e.seq = server.last + 1
        BY <1>1, <2>1, <2>2, <3>1 DEF VerdictBySequence
      <3>3. Verdict(e) = "applied"
        BY <2>1, <3>2 DEF Verdict
      <3>4. AppliedUpTo(e) \in {s.seq : s \in stored} /\ AppliedUpTo(e) >= e.seq
        BY <1>1, LoopEnds
      <3>5. AppliedUpTo(e) = e.seq
        <4>1. \A s \in stored : s.seq \in Nat /\ s.seq <= e.seq
          BY <1>1, <3>1, <3>2 DEF TypeOK, Entry
        <4> QED  BY <1>1, <3>4, <4>1
      <3>6. server'.last = AppliedUpTo(e)
        BY <3>3 DEF Ingest
      <3> QED  BY <3>1, <3>2, <3>5, <3>6
    <2>5. Takes(e)
      BY <2>1, <2>2, <2>3, <2>4 DEF Takes
    <2>6. StoredEvent(e.n)'
      BY <2>3 DEF StoredEvent
    <2>7. server'.ended => server'.last # 0
      <3>1. AppliedUpTo(e) # 0
        BY <1>1, LoopEnds
      <3> QED  BY <1>2, <1>4, <2>2, <3>1 DEF Ingest
    <2> QED  BY <1>4, <2>2, <2>5, <2>6, <2>7 DEF EndedByEvent
  <1> QED  BY <1>3, <1>4

-----------------------------------------------------------------------------
(* What keeps the parts of the invariant.                                  *)

\* The store stands still, or takes the event of a request.
Moves ==
  /\ server' = server \/ \E r \in wire : Takes(r.entry)
  /\ server.ended => server' = server

\* What is stored or settled stays so; what is stored is in order; and the requests on the wire
\* follow what is stored.
LEMMA StoreMoves ==
  ASSUME Orderly, TypeOK', Moves, spool'.gaps = 0 => spool.gaps = 0
  PROVE  /\ InOrder'
         /\ \A n : StoredEvent(n) => StoredEvent(n)'
         /\ \A e : Settled(e) => Settled(e)'
         /\ spool'.gaps = 0 /\ ~server'.ended =>
              \A q \in wire : ~StoredEvent(q.entry.n)' => Follows(q)'
         /\ \A d \in server'.stored :
              d.n \in Jobs /\ \A i \in DOMAIN spool.events : d.n <= spool.events[i].n
  <1>1. /\ InOrder /\ RequestsFollow /\ Behind /\ TypeOK
        /\ server.last \in Nat /\ \A q \in wire : q.entry.seq \in Nat
    BY DEF Orderly, Kept, Typed, TypeOK, Request, Entry
  <1>2. CASE server' = server
    BY <1>1, <1>2 DEF InOrder, RequestsFollow, Follows, Behind, StoredEvent, Settled
  <1>3. CASE \E r \in wire : Takes(r.entry)
    <2>1. PICK r \in wire : Takes(r.entry)
      BY <1>3
    <2>2. /\ server'.stored = server.stored \cup {r.entry} /\ ~server.ended
          /\ spool.gaps = 0 => /\ server'.last = server.last + 1 /\ r.entry.seq = server.last + 1
                               /\ \A d \in server.stored : d.n < r.entry.n
      BY <2>1 DEF Takes
    <2>3. /\ \A n : StoredEvent(n) => StoredEvent(n)'
          /\ \A e : Settled(e) => Settled(e)'
      BY <2>2 DEF StoredEvent, Settled
    <2>4. InOrder'
      <3>1. SUFFICES ASSUME spool'.gaps = 0
                     PROVE  /\ \A d \in server'.stored : d.seq <= server'.last
                            /\ \A d, e \in server'.stored : d.n < e.n => d.seq < e.seq
        BY DEF InOrder
      <3>2. /\ \A d \in server.stored : d.seq \in Nat /\ d.seq <= server.last /\ d.n \in Nat
            /\ r.entry.n \in Nat
        BY <1>1, <3>1 DEF InOrder, TypeOK, Request, Entry, Events
      <3>3. \A d \in server'.stored : d.seq <= server'.last
        BY <1>1, <2>2, <3>1, <3>2
      <3>4. \A d, e \in server.stored : d.n < e.n => d.seq < e.seq
        BY <1>1, <3>1 DEF InOrder
      <3>5. \A d \in server.stored : d.n < r.entry.n /\ d.seq < r.entry.seq /\ ~(r.entry.n < d.n)
        BY <1>1, <2>2, <3>1, <3>2
      <3>6. ~(r.entry.n < r.entry.n)
        BY <3>2
      <3> QED  BY <2>2, <3>3, <3>4, <3>5, <3>6
    <2>5. ASSUME spool'.gaps = 0, ~server'.ended, NEW q \in wire, ~StoredEvent(q.entry.n)'
          PROVE  Follows(q)'
      <3>1. q.entry.seq <= server.last + 1
        BY <1>1, <2>2, <2>3, <2>5 DEF RequestsFollow, Follows
      <3>2. server'.last = server.last + 1
        BY <2>2, <2>5
      <3> QED  BY <1>1, <3>1, <3>2 DEF Follows
    <2>6. \A d \in server'.stored :
            d.n \in Jobs /\ \A i \in DOMAIN spool.events : d.n <= spool.events[i].n
      BY <1>1, <2>2 DEF Behind
    <2> QED  BY <2>3, <2>4, <2>5, <2>6
  <1> QED  BY <1>2, <1>3 DEF Moves

\* The numbers given out keep to what is stored and what is to be.
LEMMA NumbersStep ==
  ASSUME Orderly, TypeOK', Moves, Jobs' = Jobs, counter' = counter,
         \A m \in Jobs : jobs'[m].entry = jobs[m].entry,
         spool'.gaps = 0 => spool.gaps = 0,
         spool'.gaps = 0 /\ ~server'.ended =>
           \A m \in Jobs : ~StoredEvent(m)' =>
             (Queued(spool', m) \/ Working(m)' <=> Queued(spool, m) \/ Working(m))
  PROVE  NumbersFollow'
  <1>1. SUFFICES ASSUME spool'.gaps = 0, ~server'.ended
                 PROVE  /\ \A n \in Pending' :
                             jobs'[n].entry.seq <= server'.last + Cardinality(Before(n)') + 1
                        /\ \A p \in Processes : counter'[p] <= server'.last + Cardinality(Pending')
    BY DEF NumbersFollow
  <1>2. spool.gaps = 0 /\ ~server.ended
    BY <1>1 DEF Moves
  <1>3. /\ server.last \in Nat /\ \A n \in Jobs : n \in Nat /\ jobs[n].entry.seq \in Nat
        /\ \A p \in Processes : counter[p] \in Nat
    <2>1. Typed /\ TypeOK
      BY DEF Orderly, Kept, Typed
    <2>2. \A n \in Jobs : jobs[n].entry \in Entry /\ n \in Events
      BY <2>1, JobFields
    <2> QED  BY <2>1, <2>2 DEF TypeOK, Entry, Events
  <1>4. /\ \A n \in Pending : jobs[n].entry.seq <= server.last + Cardinality(Before(n)) + 1
        /\ \A p \in Processes : counter[p] <= server.last + Cardinality(Pending)
    BY <1>2 DEF Orderly, NumbersFollow
  <1>5. /\ Pending \in SUBSET Jobs /\ Pending' \in SUBSET Jobs
        /\ \A n : Before(n) \in SUBSET Jobs /\ Before(n)' \in SUBSET Jobs
    <2>1. Pending \in SUBSET Jobs
      BY DEF Pending
    <2>2. Pending' \in SUBSET Jobs
      BY DEF Pending
    <2> QED  BY <2>1, <2>2 DEF Before
  <1>6. /\ IsFiniteSet(Pending) /\ Cardinality(Pending) \in Nat
        /\ IsFiniteSet(Pending') /\ Cardinality(Pending') \in Nat
    BY <1>5, FewEvents
  <1>7. CASE server' = server
    <2>1. \A m \in Jobs : m \in Pending' <=> m \in Pending
      BY <1>1, <1>7 DEF Pending, StoredEvent
    <2>2. Pending' = Pending
      BY <1>5, <2>1
    <2>3. \A n : Before(n)' = Before(n)
      BY <2>2 DEF Before
    <2> QED  BY <1>4, <1>5, <1>7, <2>2, <2>3
  <1>8. CASE \E r \in wire : Takes(r.entry)
    <2>1. PICK r \in wire : Takes(r.entry)
      BY <1>8
    <2>2. server'.stored = server.stored \cup {r.entry} /\ server'.last = server.last + 1
      BY <1>2, <2>1 DEF Takes
    <2> DEFINE k == r.entry.n
    <2>3. \A m : StoredEvent(m)' <=> StoredEvent(m) \/ m = k
      BY <2>2 DEF StoredEvent
    <2> HIDE DEF k
    <2>4. \A m \in Jobs : m \in Pending' <=> m \in Pending /\ m # k
      BY <1>1, <2>3 DEF Pending
    <2>5. Pending' = Pending \ {k}
      BY <1>5, <2>4
    <2>6. \A n : Before(n)' = Before(n) \ {k}
      BY <2>5 DEF Before
    <2>7. \A S \in SUBSET Jobs : /\ Cardinality(S) \in Nat /\ Cardinality(S \ {k}) \in Nat
                                 /\ Cardinality(S) <= Cardinality(S \ {k}) + 1
      <3> SUFFICES ASSUME NEW S \in SUBSET Jobs
                   PROVE  /\ Cardinality(S) \in Nat /\ Cardinality(S \ {k}) \in Nat
                          /\ Cardinality(S) <= Cardinality(S \ {k}) + 1
        OBVIOUS
      <3>1. IsFiniteSet(S) /\ Cardinality(S) \in Nat
        BY FewEvents
      <3>2. Cardinality(S \ {k}) = IF k \in S THEN Cardinality(S) - 1 ELSE Cardinality(S)
        BY <3>1, FS_RemoveElement
      <3>3. Cardinality(S \ {k}) \in Nat
        BY FewEvents
      <3> QED  BY <3>1, <3>2, <3>3
    <2>8. ASSUME NEW n \in Pending'
          PROVE  jobs'[n].entry.seq <= server'.last + Cardinality(Before(n)') + 1
      <3>1. n \in Pending /\ n \in Jobs /\ Before(n) \in SUBSET Jobs
        BY <1>5, <2>5
      <3>2. jobs[n].entry.seq <= server.last + Cardinality(Before(n)) + 1
        BY <1>4, <3>1
      <3>3. /\ Cardinality(Before(n)) \in Nat /\ Cardinality(Before(n) \ {k}) \in Nat
            /\ Cardinality(Before(n)) <= Cardinality(Before(n) \ {k}) + 1
        BY <2>7, <3>1
      <3>4. Cardinality(Before(n)') = Cardinality(Before(n) \ {k})
        BY <2>6
      <3>5. jobs'[n].entry.seq = jobs[n].entry.seq
        BY <3>1
      <3> QED  BY <1>3, <2>2, <3>1, <3>2, <3>3, <3>4, <3>5
    <2>9. ASSUME NEW p \in Processes
          PROVE  counter'[p] <= server'.last + Cardinality(Pending')
      <3>1. counter[p] <= server.last + Cardinality(Pending) /\ counter'[p] = counter[p]
        BY <1>4
      <3>2. /\ Cardinality(Pending) <= Cardinality(Pending \ {k}) + 1
            /\ Cardinality(Pending \ {k}) \in Nat
        BY <1>5, <2>7
      <3>3. Cardinality(Pending') = Cardinality(Pending \ {k})
        BY <2>5
      <3> QED  BY <1>3, <1>6, <2>2, <3>1, <3>2, <3>3
    <2> QED  BY <2>8, <2>9
  <1> QED  BY <1>7, <1>8 DEF Moves

\* A step after which jobs and the spool are as they should be, nothing more is lost, and what it
\* sends was made before all that is queued, keeps the invariant.
LEMMA OrderlyStep ==
  ASSUME Orderly, Kept', Numbered', SpoolInOrder', JobsInHand', EndedByEvent', Moves,
         Jobs' = Jobs, counter' = counter,
         \A m \in Jobs : jobs'[m].entry = jobs[m].entry,
         \A i \in DOMAIN spool'.events :
           \/ spool'.events[i].n = Issued
           \/ \E j \in DOMAIN spool.events : spool'.events[i].n = spool.events[j].n,
         spool'.gaps >= spool.gaps,
         LossCounted',
         \A m \in Jobs : jobs'[m].told = "delivered" =>
           jobs[m].told = "delivered" \/ Settled(jobs[m].entry)',
         spool'.gaps = 0 /\ ~server'.ended =>
           \A m \in Jobs : ~StoredEvent(m)' =>
             (Queued(spool', m) \/ Working(m)' <=> Queued(spool, m) \/ Working(m)),
         \A r \in wire' :
           \/ r \in wire
           \/ /\ r.entry.n \in Jobs /\ \A i \in DOMAIN spool'.events : r.entry.n <= spool'.events[i].n
              /\ spool'.gaps = 0 /\ ~server'.ended /\ ~StoredEvent(r.entry.n)' => Follows(r)'
  PROVE  Orderly'
  <1>1. TypeOK /\ TypeOK' /\ Numbered /\ Behind /\ DeliveredSettled
    BY DEF Orderly, Kept, Typed
  <1>2. spool.gaps \in Nat /\ spool'.gaps \in Nat
    BY <1>1 DEF TypeOK, Spool
  <1>3. spool'.gaps = 0 => spool.gaps = 0
    BY <1>2
  <1>4. /\ InOrder' /\ \A e : Settled(e) => Settled(e)'
        /\ spool'.gaps = 0 /\ ~server'.ended =>
             \A q \in wire : ~StoredEvent(q.entry.n)' => Follows(q)'
        /\ \A d \in server'.stored :
             d.n \in Jobs /\ \A i \in DOMAIN spool.events : d.n <= spool.events[i].n
    BY <1>1, <1>3, StoreMoves
  <1>5. \A m \in Jobs : m <= Issued
    BY <1>1, FewEvents DEF Numbered
  <1>6. Behind'
    <2>1. /\ \A r \in wire' : r.entry.n \in Jobs' /\ \A d \in server'.stored : d.n \in Jobs'
      BY <1>1, <1>4 DEF Behind
    <2>2. ASSUME NEW i \in DOMAIN spool'.events
          PROVE  /\ \A r \in wire' : r.entry.n <= spool'.events[i].n
                 /\ \A d \in server'.stored : d.n <= spool'.events[i].n
      <3>1. \A r \in wire : r.entry.n <= spool'.events[i].n
        BY <1>1, <1>5 DEF Behind
      <3>2. \A d \in server'.stored : d.n <= spool'.events[i].n
        BY <1>4, <1>5
      <3> QED  BY <3>1, <3>2
    <2> QED  BY <1>1, <1>4, <2>1, <2>2 DEF Behind
  <1>7. NumbersFollow'
    BY <1>1, <1>3, NumbersStep
  <1>8. RequestsFollow'
    BY <1>4 DEF RequestsFollow
  <1>9. DeliveredSettled'
    BY <1>1, <1>4 DEF DeliveredSettled
  <1> QED  BY <1>4, <1>6, <1>7, <1>8, <1>9 DEF Orderly

\* A step of one working job leaves the others be.
LEMMA OneJobStep ==
  ASSUME Orderly, NEW n \in Jobs, jobs[n].at # "done",
         NEW job \in ProperJob, job.entry = jobs[n].entry, job.at # "trim",
         job.at = "done" <=> job.told # "reporting",
         jobs' = [jobs EXCEPT ![n] = job]
  PROVE  /\ Numbered' /\ Jobs' = Jobs /\ n = Issued /\ jobs'[n] = job
         /\ \A m \in Jobs : jobs'[m].entry = jobs[m].entry
         /\ \A m \in Jobs : m # n => /\ jobs'[m] = jobs[m] /\ jobs[m].at = "done"
                                     /\ ~Working(m) /\ ~Working(m)'
         /\ Working(n) /\ (Working(n)' <=> job.at # "done")
         /\ InHand(n)' => JobsInHand'
  <1>1. Typed /\ Numbered /\ JobsInHand
    BY DEF Orderly, Kept
  <1>2. jobs \in [Events -> ProperJob \cup {None}] /\ n \in Events
    BY <1>1 DEF Typed, Jobs
  <1>3. jobs'[n] = job /\ \A m \in Events : m # n => jobs'[m] = jobs[m]
    BY <1>2
  <1>4. Jobs' = Jobs /\ Issued' = Issued
    <2>1. job # None /\ jobs[n] # None
      BY NotNone DEF Jobs
    <2>2. \A m \in Events : jobs'[m] # None <=> jobs[m] # None
      BY <1>3, <2>1
    <2>3. {m \in Events : jobs'[m] # None} = {m \in Events : jobs[m] # None}
      BY <2>2
    <2> QED  BY <2>3 DEF Jobs, Issued
  <1>5. /\ n = Issued /\ \A m \in Jobs : m # n => jobs[m].at = "done" /\ jobs[m].request = None
    BY OneWorks
  <1>6. \A m \in Jobs : m # n => jobs'[m] = jobs[m]
    BY <1>3 DEF Jobs
  <1>7. Numbered'
    BY <1>1, <1>3, <1>4, <1>5, <1>6 DEF Numbered
  <1>8. \A m \in Jobs : m # n => InHand(m)'
    BY <1>5, <1>6 DEF InHand
  <1>9. \A m \in Jobs : jobs'[m].entry = jobs[m].entry
    BY <1>3, <1>6
  <1>10. \A m \in Jobs : m # n => /\ jobs'[m] = jobs[m] /\ jobs[m].at = "done"
                                  /\ ~Working(m) /\ ~Working(m)'
    BY <1>5, <1>6 DEF Working
  <1>11. Working(n) /\ (Working(n)' <=> job.at # "done")
    BY <1>3, <1>4 DEF Working
  <1>12. InHand(n)' => JobsInHand'
    BY <1>4, <1>8 DEF JobsInHand
  <1> QED  BY <1>3, <1>4, <1>5, <1>7, <1>9, <1>10, <1>11, <1>12

\* What is lost has a bound while no more is lost.
LEMMA LossStep ==
  ASSUME LossCounted, spool.gaps \in Nat, spool'.gaps \in Nat, spool'.gaps >= spool.gaps,
         Jobs' = Jobs, \A m \in Jobs : m \in Lost' => m \in Lost
  PROVE  LossCounted'
  <1>1. Lost \in SUBSET Jobs /\ IsFiniteSet(Lost) /\ Cardinality(Lost) \in Nat
    BY FewEvents DEF Lost
  <1>2. Lost' \in SUBSET Lost
    <2>1. Lost' \in SUBSET Jobs'
      BY DEF Lost
    <2> QED  BY <2>1
  <1>3. Cardinality(Lost') <= Cardinality(Lost) /\ Cardinality(Lost') \in Nat
    BY <1>1, <1>2, FS_Subset, FS_CardinalityType
  <1> QED  BY <1>1, <1>3 DEF LossCounted

-----------------------------------------------------------------------------
(* The steps of one reporter.                                              *)

\* What is read from the spool is the spool.
LEMMA LoadedIsSpool ==
  ASSUME OneReporter, TypeOK, NEW s \in Loaded
  PROVE  s = spool
  <1> DEFINE L == Len(spool.events)
             part == SubSeq(spool.events, 1, L)
  <1>1. /\ spool.events \in Seq(Entry) /\ spool.gaps \in Nat /\ L \in Nat
        /\ DOMAIN spool.events = 1..L /\ \A i \in 1..L : spool.events[i] \in Entry
    BY SpoolFields
  <1>2. s = Pruned(spool, 0)
    BY DEF OneReporter, Loaded
  <1>3. part \in Seq(Entry) /\ Len(part) = L /\ \A i \in 1..L : part[i] = spool.events[i]
    <2>1. /\ part \in Seq(Entry) /\ Len(part) = IF 1 <= L THEN L - 1 + 1 ELSE 0
          /\ \A i \in 1..(L - 1 + 1) : part[i] = spool.events[1 + i - 1]
      BY <1>1, SubSeqProperties
    <2> HIDE DEF part
    <2>2. L - 1 + 1 = L /\ \A i \in 1..L : 1 + i - 1 = i
      BY <1>1
    <2> QED  BY <1>1, <2>1, <2>2
  <1> HIDE DEF part
  <1>4. part = spool.events
    <2>1. part \in [1..L -> Entry] /\ spool.events \in [1..L -> Entry]
      BY <1>1, <1>3, LenProperties
    <2> QED  BY <1>3, <2>1
  <1>5. s = [events |-> part, gaps |-> spool.gaps]
    <2>1. s = [events |-> SubSeq(spool.events, 0 + 1, Len(spool.events)), gaps |-> spool.gaps + 0]
      BY <1>2 DEF Pruned
    <2>2. 0 + 1 = 1 /\ spool.gaps + 0 = spool.gaps
      BY <1>1
    <2> QED  BY <2>1, <2>2 DEF part
  <1> QED  BY <1>4, <1>5 DEF TypeOK, Spool

\* A step of a job that leaves the spool alone: the job works on, or ends with its event stored,
\* or queued, or nothing to lose.
LEMMA AnswerStep ==
  ASSUME Orderly, Kept', Moves, EndedByEvent', UNCHANGED <<spool, counter>>,
         NEW n \in Jobs, jobs[n].at # "done",
         NEW job \in ProperJob, job.entry = jobs[n].entry, job.at # "trim",
         job.at = "done" <=> job.told # "reporting",
         jobs' = [jobs EXCEPT ![n] = job], InHand(n)',
         job.told = "delivered" => Settled(jobs[n].entry)',
         job.told = "queued" \/ job.at \in {"load", "replay"} =>
           jobs[n].at \in {"load", "replay"} \/ Queued(spool, n),
         spool.gaps = 0 /\ ~server'.ended /\ job.at = "done" => StoredEvent(n)' \/ Queued(spool, n),
         \A r \in wire' :
           \/ r \in wire
           \/ /\ r.entry.n \in Jobs /\ \A i \in DOMAIN spool.events : r.entry.n <= spool.events[i].n
              /\ spool.gaps = 0 /\ ~server'.ended /\ ~StoredEvent(r.entry.n)' => Follows(r)'
  PROVE  Orderly'
  <1>1. /\ Numbered' /\ JobsInHand' /\ Jobs' = Jobs /\ jobs'[n] = job
        /\ \A m \in Jobs : jobs'[m].entry = jobs[m].entry
        /\ \A m \in Jobs : m # n => jobs'[m] = jobs[m] /\ ~Working(m) /\ ~Working(m)'
        /\ Working(n) /\ (Working(n)' <=> job.at # "done")
    BY OneJobStep
  <1>2. TypeOK /\ TypeOK' /\ spool.gaps \in Nat /\ SpoolInOrder /\ LossCounted
    BY DEF Orderly, Kept, Typed, TypeOK, Spool
  <1>3. SpoolInOrder'
    BY <1>1, <1>2 DEF SpoolInOrder
  <1>4. \A e : Settled(e) => Settled(e)'
    BY <1>2, StoreMoves
  <1>5. LossCounted'
    <2>1. ASSUME NEW m \in Jobs, m \in Lost' PROVE m \in Lost
      <3>1. /\ ~Settled(jobs[m].entry) /\ ~Queued(spool, m)
            /\ jobs'[m].told = "queued" \/ jobs'[m].at \in {"load", "replay"}
        BY <1>1, <1>4, <2>1 DEF Lost
      <3>2. CASE m = n
        BY <1>1, <3>1, <3>2 DEF Lost
      <3>3. CASE m # n
        BY <1>1, <3>1, <3>3 DEF Lost
      <3> QED  BY <3>2, <3>3
    <2> QED  BY <1>1, <1>2, <2>1, LossStep
  <1>6. \A m \in Jobs : jobs'[m].told = "delivered" =>
          jobs[m].told = "delivered" \/ Settled(jobs[m].entry)'
    BY <1>1
  <1>7. spool'.gaps = 0 /\ ~server'.ended =>
          \A m \in Jobs : ~StoredEvent(m)' =>
            (Queued(spool', m) \/ Working(m)' <=> Queued(spool, m) \/ Working(m))
    BY <1>1
  <1> QED  BY <1>1, <1>2, <1>3, <1>5, <1>6, <1>7, OrderlyStep

\* The same, when the store stands still.
LEMMA StillStep ==
  ASSUME Orderly, Kept', UNCHANGED <<spool, server, counter>>,
         NEW n \in Jobs, jobs[n].at # "done",
         NEW job \in ProperJob, job.entry = jobs[n].entry, job.at # "trim",
         job.at = "done" <=> job.told # "reporting",
         jobs' = [jobs EXCEPT ![n] = job], InHand(n)', job.told # "delivered",
         job.told = "queued" \/ job.at \in {"load", "replay"} =>
           jobs[n].at \in {"load", "replay"} \/ Queued(spool, n),
         spool.gaps = 0 /\ ~server.ended /\ job.at = "done" => StoredEvent(n) \/ Queued(spool, n),
         \A r \in wire' :
           \/ r \in wire
           \/ /\ r.entry.n \in Jobs /\ \A i \in DOMAIN spool.events : r.entry.n <= spool.events[i].n
              /\ spool.gaps = 0 /\ ~server.ended /\ ~StoredEvent(r.entry.n) => Follows(r)
  PROVE  Orderly'
  <1>1. EndedByEvent' /\ Moves /\ jobs[n].at # "done"
    BY DEF Orderly, EndedByEvent, Moves
  <1>2. /\ \A m : StoredEvent(m)' <=> StoredEvent(m)
        /\ \A r : Follows(r)' <=> Follows(r)
    BY DEF StoredEvent, Follows
  <1> QED  BY <1>1, <1>2, AnswerStep

\* A job reads the spool to queue its event.
LEMMA LoadToQueueOrderly ==
  ASSUME OneReporter, Orderly, Kept', NEW n \in Events, LoadToQueue(n)
  PROVE  Orderly'
  <1>1. n \in Jobs /\ jobs[n].at = "queue" /\ UNCHANGED <<counter, spool, wire, server>>
    BY DEF LoadToQueue, At
  <1>2. TypeOK /\ Typed /\ InHand(n) /\ Numbered
    BY <1>1 DEF Orderly, Kept, Typed, JobsInHand
  <1> DEFINE job == [jobs[n] EXCEPT !.at = "append", !.copy = Enqueued(spool, jobs[n].entry)]
  <1>3. jobs[n] \in ProperJob /\ jobs[n].entry \in Entry /\ jobs[n].told = "reporting"
    BY <1>1, <1>2, JobFields, OneWorks
  <1>4. jobs' = [jobs EXCEPT ![n] = job]
    <2>1. PICK s \in Loaded :
            jobs' = [jobs EXCEPT ![n].at = "append", ![n].copy = Enqueued(s, jobs[n].entry)]
      BY DEF LoadToQueue
    <2>2. s = spool
      BY <1>2, LoadedIsSpool
    <2> QED  BY <2>1, <2>2
  <1>5. job \in ProperJob
    <2>1. spool \in Spool
      BY <1>2 DEF TypeOK
    <2>2. Enqueued(spool, jobs[n].entry) \in Spool
      BY <1>3, <2>1, EnqueuedTyped
    <2> QED  BY <1>3, <2>2 DEF Job, ProperJob
  <1>6. /\ job.at = "append" /\ job.copy = Enqueued(spool, jobs[n].entry)
        /\ job.entry = jobs[n].entry /\ job.told = "reporting" /\ job.request = jobs[n].request
    BY <1>3 DEF Job, ProperJob
  <1> HIDE DEF job
  <1>7. jobs'[n] = job
    BY <1>1, <1>2, <1>4 DEF TypeOK, Jobs
  <1>8. InHand(n)'
    <2>1. ~Queued(spool, n) /\ jobs[n].request = None
      BY <1>1, <1>2 DEF InHand
    <2> QED  BY <1>1, <1>6, <1>7, <2>1 DEF InHand
  <1> QED  BY <1>1, <1>4, <1>5, <1>6, <1>8, StillStep

\* A job whose event was refused, or held, queues it, or ends with it queued.
LEMMA NotAcceptedOrderly ==
  ASSUME OneReporter, Orderly, Kept', NEW n \in Jobs, NotAccepted(n),
         Moves, EndedByEvent', wire' \subseteq wire, UNCHANGED counter
  PROVE  Orderly'
  <1>1. TypeOK /\ Typed /\ TypeOK' /\ InHand(n) /\ Numbered
    BY DEF Orderly, Kept, Typed, JobsInHand
  <1>2. jobs[n] \in ProperJob
    BY <1>1, JobFields
  <1>3. CASE At(n, "submit") /\ Goto(n, "queue") /\ UNCHANGED spool
    <2> DEFINE job == [jobs[n] EXCEPT !.at = "queue", !.request = None]
    <2>1. jobs' = [jobs EXCEPT ![n] = job] /\ jobs[n].at = "submit"
      BY <1>3 DEF Goto, At
    <2>2. /\ job \in ProperJob /\ job.at = "queue" /\ job.request = None
          /\ job.entry = jobs[n].entry /\ job.told = jobs[n].told
      BY <1>2 DEF Job, ProperJob
    <2>3. jobs[n].told = "reporting"
      BY <2>1, OneWorks
    <2> HIDE DEF job
    <2>4. jobs'[n] = job
      BY <1>1, <2>1 DEF TypeOK, Jobs
    <2>5. InHand(n)'
      <3>1. ~Queued(spool, n)
        BY <1>1, <2>1 DEF InHand
      <3> QED  BY <1>3, <2>2, <2>4, <3>1 DEF InHand
    <2> QED  BY <1>3, <2>1, <2>2, <2>3, <2>5, AnswerStep
  <1>4. CASE At(n, "replay") /\ Finish(n, "queued") /\ spool' = jobs[n].copy
    <2> DEFINE job == Finished(jobs[n], "queued")
    <2>1. jobs' = [jobs EXCEPT ![n] = job] /\ jobs[n].at = "replay" /\ spool' = spool
      BY <1>1, <1>4 DEF Finish, At, InHand
    <2>2. jobs[n].told = "reporting"
      BY <2>1, OneWorks
    <2>3. /\ job \in ProperJob /\ job.at = "done" /\ job.request = None
          /\ job.entry = jobs[n].entry /\ job.told = "queued"
      <3>1. EmptySpool \in Spool
        BY EmptySeq DEF EmptySpool, Spool
      <3> QED  BY <1>2, <2>2, <3>1 DEF Job, ProperJob, Finished
    <2> HIDE DEF job
    <2>4. jobs'[n] = job
      BY <1>1, <2>1 DEF TypeOK, Jobs
    <2>5. InHand(n)'
      BY <2>3, <2>4 DEF InHand
    <2>6. spool.gaps = 0 /\ ~server'.ended => StoredEvent(n)' \/ Queued(spool, n)
      <3>1. spool.gaps = 0 /\ ~server.ended => StoredEvent(n) \/ Queued(spool, n)
        BY <2>1, ReplayerKept
      <3>2. StoredEvent(n) => StoredEvent(n)'
        BY <1>1, <2>1, StoreMoves
      <3> QED  BY <3>1, <3>2 DEF Moves
    <2> QED  BY <2>1, <2>3, <2>5, <2>6, AnswerStep
  <1> QED  BY <1>3, <1>4 DEF NotAccepted

\* A job reads the spool to send its oldest event.
LEMMA LoadToReplayOrderly ==
  ASSUME OneReporter, Orderly, Kept', NEW n \in Events, LoadToReplay(n)
  PROVE  Orderly'
  <1>1. n \in Jobs /\ jobs[n].at = "load" /\ UNCHANGED <<counter, server>>
    BY DEF LoadToReplay, At
  <1>2. TypeOK /\ Typed /\ InHand(n) /\ Numbered /\ SpoolInOrder /\ Behind /\ NumbersFollow
    BY <1>1 DEF Orderly, Kept, Typed, JobsInHand
  <1>3. jobs[n] \in ProperJob /\ jobs[n].told = "reporting"
    BY <1>1, <1>2, JobFields, OneWorks
  <1>4. \/ spool.events = <<>> /\ Finish(n, "queued") /\ spool' = spool /\ wire' = wire
        \/ /\ spool.events # <<>> /\ spool' = spool
           /\ Send(n, [jobs[n] EXCEPT !.at = "replay", !.copy = spool], Head(spool.events), FALSE)
    <2>1. PICK s \in Loaded :
            IF s.events = <<>>
            THEN Finish(n, "queued") /\ spool' = s /\ UNCHANGED wire
            ELSE /\ Send(n, [jobs[n] EXCEPT !.at = "replay", !.copy = s], Head(s.events), FALSE)
                 /\ UNCHANGED spool
      BY DEF LoadToReplay
    <2>2. s = spool
      BY <1>2, LoadedIsSpool
    <2> QED  BY <2>1, <2>2
  <1>5. spool.gaps = 0 /\ ~server.ended => StoredEvent(n) \/ Queued(spool, n)
    BY <1>1, ReplayerKept
  <1>6. CASE spool.events = <<>> /\ Finish(n, "queued") /\ spool' = spool /\ wire' = wire
    <2> DEFINE job == Finished(jobs[n], "queued")
    <2>1. jobs' = [jobs EXCEPT ![n] = job]
      BY <1>6 DEF Finish
    <2>2. /\ job \in ProperJob /\ job.at = "done" /\ job.request = None
          /\ job.entry = jobs[n].entry /\ job.told = "queued"
      <3>1. EmptySpool \in Spool
        BY EmptySeq DEF EmptySpool, Spool
      <3> QED  BY <1>3, <3>1 DEF Job, ProperJob, Finished
    <2> HIDE DEF job
    <2>3. jobs'[n] = job
      BY <1>1, <1>2, <2>1 DEF TypeOK, Jobs
    <2>4. InHand(n)'
      BY <2>2, <2>3 DEF InHand
    <2> QED  BY <1>1, <1>5, <1>6, <2>1, <2>2, <2>4, StillStep
  <1>7. CASE /\ spool.events # <<>> /\ spool' = spool
             /\ Send(n, [jobs[n] EXCEPT !.at = "replay", !.copy = spool], Head(spool.events), FALSE)
    <2> DEFINE head == Head(spool.events)
               request == [by |-> n, entry |-> head, again |-> FALSE]
               job == [jobs[n] EXCEPT !.at = "replay", !.copy = spool, !.request = request]
    <2>1. jobs' = [jobs EXCEPT ![n] = job] /\ wire' = wire \cup {request}
      BY <1>3, <1>7 DEF Send, Job, ProperJob
    <2>2. head \in Entry /\ 1 \in DOMAIN spool.events /\ head = spool.events[1]
      BY <1>2, <1>7, SpoolFields
    <2>3. request \in Request /\ request.by = n /\ request.entry = head
      BY <1>1, <2>2 DEF Request, Jobs
    <2> HIDE DEF request
    <2>4. /\ job \in ProperJob /\ job.at = "replay" /\ job.request = request /\ job.copy = spool
          /\ job.entry = jobs[n].entry /\ job.told = "reporting"
      BY <1>2, <1>3, <1>7, <2>3 DEF Job, ProperJob, TypeOK
    <2> HIDE DEF job, head
    <2>5. jobs'[n] = job
      BY <1>1, <1>2, <2>1 DEF TypeOK, Jobs
    <2>6. InHand(n)'
      BY <1>7, <2>3, <2>4, <2>5, NotNone DEF InHand, head
    <2>7. head.n \in Jobs /\ \A i \in DOMAIN spool.events : head.n <= spool.events[i].n
      <3>1. head.n \in Jobs
        BY <1>2, <2>2 DEF SpoolInOrder
      <3>2. ASSUME NEW i \in DOMAIN spool.events PROVE head.n <= spool.events[i].n
        <4>1. i \in Nat /\ (i = 1 \/ 1 < i) /\ head.n \in Nat /\ spool.events[i].n \in Nat
          BY <1>2, <2>2, SpoolFields DEF Entry, Events
        <4>2. 1 < i => head.n < spool.events[i].n
          BY <1>2, <2>2 DEF SpoolInOrder
        <4> QED  BY <2>2, <4>1, <4>2
      <3> QED  BY <3>1, <3>2
    <2>8. spool.gaps = 0 /\ ~server.ended /\ ~StoredEvent(head.n) => Follows(request)
      <3>1. StoredBehind
        BY <1>2 DEF Behind, StoredBehind
      <3>2. HeadMayGo
        BY <1>2, <3>1, HeadFollows
      <3> QED  BY <1>7, <2>3, <3>2 DEF HeadMayGo, Follows, head
    <2> QED  BY <1>1, <1>7, <2>1, <2>3, <2>4, <2>6, <2>7, <2>8, StillStep
  <1> QED  BY <1>4, <1>6, <1>7

\* A job puts its event into the spool: it is there, or one was dropped and counted.
LEMMA SaveQueuedOrderly ==
  ASSUME OneReporter, Orderly, Kept', NEW n \in Events, SaveQueued(n)
  PROVE  Orderly'
  <1> DEFINE e == jobs[n].entry
             s == Enqueued(spool, e)
  <1>1. n \in Jobs /\ jobs[n].at = "append" /\ UNCHANGED <<counter, wire, server>>
    BY DEF SaveQueued, At
  <1>2. TypeOK /\ Typed /\ InHand(n) /\ Numbered /\ SpoolInOrder /\ Behind /\ LossCounted /\ EndedByEvent
    BY <1>1 DEF Orderly, Kept, Typed, JobsInHand
  <1>3. /\ jobs[n] \in ProperJob /\ jobs[n].told = "reporting" /\ e \in Entry /\ e.n = n
        /\ n = Issued /\ \A m \in Jobs : m \in Nat /\ m <= n
    BY <1>1, <1>2, JobFields, OneWorks DEF Numbered
  <1>4. spool' = s /\ ~Queued(spool, n) /\ jobs[n].request = None
    BY <1>1, <1>2 DEF SaveQueued, InHand
  <1>5. PICK job \in ProperJob :
          /\ jobs' = [jobs EXCEPT ![n] = job] /\ job.entry = e /\ job.request = None
          /\ \/ job.at = "load" /\ job.told = "reporting"
             \/ job.at = "done" /\ job.told = "queued"
    <2>1. EmptySpool \in Spool
      BY EmptySeq DEF EmptySpool, Spool
    <2>2. CASE jobs[n].replays
      <3> DEFINE job == [jobs[n] EXCEPT !.at = "load", !.copy = EmptySpool]
      <3>1. jobs' = [jobs EXCEPT ![n] = job]
        BY <2>2 DEF SaveQueued
      <3>2. job \in ProperJob /\ job.entry = e /\ job.request = None /\ job.at = "load"
            /\ job.told = "reporting"
        BY <1>3, <1>4, <2>1 DEF Job, ProperJob
      <3> HIDE DEF job
      <3> QED  BY <3>1, <3>2
    <2>3. CASE ~jobs[n].replays
      <3> DEFINE job == Finished(jobs[n], "queued")
      <3>1. jobs' = [jobs EXCEPT ![n] = job]
        BY <2>3 DEF SaveQueued, Finish
      <3>2. job \in ProperJob /\ job.entry = e /\ job.request = None /\ job.at = "done"
            /\ job.told = "queued"
        BY <1>3, <2>1 DEF Job, ProperJob, Finished
      <3> HIDE DEF job
      <3> QED  BY <3>1, <3>2
    <2> QED  BY <2>2, <2>3
  <1>6. /\ Numbered' /\ Jobs' = Jobs /\ jobs'[n] = job
        /\ \A m \in Jobs : jobs'[m].entry = jobs[m].entry
        /\ \A m \in Jobs : m # n => jobs'[m] = jobs[m] /\ ~Working(m) /\ ~Working(m)'
        /\ Working(n) /\ (InHand(n)' => JobsInHand')
    BY <1>1, <1>5, OneJobStep
  <1>7. \A i \in DOMAIN spool.events : spool.events[i].n < e.n
    <2> SUFFICES ASSUME NEW i \in DOMAIN spool.events PROVE spool.events[i].n < e.n
      OBVIOUS
    <2>1. spool.events[i].n \in Jobs /\ spool.events[i].n # n
      BY <1>2, <1>4 DEF SpoolInOrder, Queued
    <2> QED  BY <1>1, <1>3, <2>1
  <1>8. /\ \A i \in DOMAIN s.events :
             s.events[i] = e \/ \E j \in DOMAIN spool.events : s.events[i] = spool.events[j]
        /\ \A i, j \in DOMAIN s.events : i < j => s.events[i].n < s.events[j].n
        /\ \A m : Queued(s, m) => Queued(spool, m) \/ m = n
        /\ \/ s.gaps = spool.gaps /\ \A m : Queued(spool, m) \/ m = n => Queued(s, m)
           \/ /\ s.gaps = spool.gaps + 1
              /\ \E v : /\ v = e \/ \E j \in DOMAIN spool.events : v = spool.events[j]
                        /\ \A m : Queued(spool, m) \/ m = n => Queued(s, m) \/ m = v.n
    BY <1>2, <1>3, <1>7, EnqueuedEntries
  <1> HIDE DEF s
  <1>9. spool.gaps \in Nat /\ spool'.gaps \in Nat /\ spool'.gaps >= spool.gaps
    BY <1>2, <1>4, <1>8 DEF TypeOK, Spool
  <1>10. SpoolInOrder'
    <2> SUFFICES ASSUME NEW i \in DOMAIN s.events
                 PROVE  /\ s.events[i].n \in Jobs
                        /\ s.events[i] = jobs'[s.events[i].n].entry
                        /\ \A j \in DOMAIN s.events : i < j => s.events[i].n < s.events[j].n
      BY <1>4, <1>6 DEF SpoolInOrder
    <2>1. CASE s.events[i] = e
      BY <1>1, <1>3, <1>6, <1>8, <2>1
    <2>2. CASE \E j \in DOMAIN spool.events : s.events[i] = spool.events[j]
      BY <1>2, <1>6, <1>8, <2>2 DEF SpoolInOrder
    <2> QED  BY <1>8, <2>1, <2>2
  <1>11. JobsInHand'
    BY <1>5, <1>6 DEF InHand
  <1>12. EndedByEvent' /\ Moves
    BY <1>1, <1>2 DEF EndedByEvent, Moves
  <1>13. \A m \in Jobs : m \in Lost' => m \in Lost \/ Queued(spool, m) \/ m = n
    <2> SUFFICES ASSUME NEW m \in Jobs, m \in Lost', ~Queued(spool, m), m # n PROVE m \in Lost
      OBVIOUS
    <2>1. ~Settled(jobs[m].entry)
      BY <1>1, <1>6 DEF Lost, Settled, StoredEvent
    <2> QED  BY <1>6, <2>1 DEF Lost
  <1>14. \A m \in Jobs : m \in Lost' => ~Queued(s, m)
    BY <1>4 DEF Lost
  <1>15. LossCounted'
    <2>1. Lost' \in SUBSET Jobs /\ Lost \in SUBSET Jobs
      <3>1. Lost' \in SUBSET Jobs'
        BY DEF Lost
      <3> QED  BY <1>6, <3>1 DEF Lost
    <2>2. /\ IsFiniteSet(Lost) /\ Cardinality(Lost) \in Nat /\ Cardinality(Lost) <= spool.gaps
          /\ Cardinality(Lost') \in Nat
      BY <1>2, <2>1, FewEvents DEF LossCounted
    <2>3. CASE s.gaps = spool.gaps /\ \A m : Queued(spool, m) \/ m = n => Queued(s, m)
      BY <1>2, <1>6, <1>9, <1>13, <1>14, <2>3, LossStep
    <2>4. ASSUME s.gaps = spool.gaps + 1, NEW v,
                 \A m : Queued(spool, m) \/ m = n => Queued(s, m) \/ m = v.n
          PROVE  LossCounted'
      <3>1. Lost' \in SUBSET (Lost \cup {v.n})
        BY <1>13, <1>14, <2>1, <2>4
      <3>2. IsFiniteSet(Lost \cup {v.n}) /\ Cardinality(Lost \cup {v.n}) <= Cardinality(Lost) + 1
            /\ Cardinality(Lost \cup {v.n}) \in Nat
        <4>1. /\ IsFiniteSet(Lost \cup {v.n})
              /\ Cardinality(Lost \cup {v.n}) =
                   IF v.n \in Lost THEN Cardinality(Lost) ELSE Cardinality(Lost) + 1
          BY <2>2, FS_AddElement
        <4> QED  BY <2>2, <4>1
      <3>3. Cardinality(Lost') <= Cardinality(Lost \cup {v.n})
        BY <3>1, <3>2, FS_Subset
      <3> QED  BY <1>4, <1>9, <2>2, <2>4, <3>2, <3>3 DEF LossCounted
    <2> QED  BY <1>8, <2>3, <2>4
  <1>16. \A i \in DOMAIN spool'.events :
           \/ spool'.events[i].n = Issued
           \/ \E j \in DOMAIN spool.events : spool'.events[i].n = spool.events[j].n
    BY <1>3, <1>4, <1>8
  <1>17. \A m \in Jobs : jobs'[m].told = "delivered" => jobs[m].told = "delivered"
    BY <1>5, <1>6
  <1>18. spool'.gaps = 0 /\ ~server'.ended =>
           \A m \in Jobs : ~StoredEvent(m)' =>
             (Queued(spool', m) \/ Working(m)' <=> Queued(spool, m) \/ Working(m))
    <2> SUFFICES ASSUME s.gaps = 0, NEW m \in Jobs
                 PROVE  Queued(s, m) \/ Working(m)' <=> Queued(spool, m) \/ Working(m)
      BY <1>4
    <2>1. \A k : Queued(s, k) <=> Queued(spool, k) \/ k = n
      BY <1>8, <1>9
    <2> QED  BY <1>6, <2>1
  <1>19. \A r \in wire' : r \in wire
    BY <1>1
  <1> QED  BY <1>1, <1>6, <1>9, <1>10, <1>11, <1>12, <1>15, <1>16, <1>17, <1>18, <1>19, OrderlyStep

\* A process reports its next event.
LEMMA ReportOrderly ==
  ASSUME OneReporter, Orderly, Kept', NEW p \in Processes, NEW terminal \in BOOLEAN,
         Report(p, terminal)
  PROVE  Orderly'
  <1>0. PICK n : n = Issued + 1
    OBVIOUS
  <1> DEFINE entry == [n |-> n, seq |-> counter[p] + 1, terminal |-> terminal]
             new == [at |-> "submit", told |-> "reporting", process |-> p, entry |-> entry,
                     copy |-> EmptySpool, request |-> None, replays |-> FALSE]
             request == [by |-> n, entry |-> entry, again |-> FALSE]
  <1>1. /\ TypeOK /\ Typed /\ Numbered /\ SpoolInOrder /\ Behind /\ LossCounted /\ EndedByEvent
        /\ NumbersFollow /\ RequestsFollow /\ InOrder /\ DeliveredSettled /\ JobsInHand
    BY DEF Orderly, Kept, Typed
  <1>2. /\ Issued \in Nat /\ n \in Events /\ n \notin Jobs /\ jobs[n] = None
        /\ \A m \in Jobs : m \in Nat /\ m < n
    <2>1. Issued \in Nat /\ n <= MaxEvents
      BY <1>0, FewEvents DEF Report
    <2>2. n \in Events /\ n \notin Jobs /\ \A m \in Jobs : m \in Nat /\ m < n
      BY <1>0, <1>1, <2>1, DeliveryConstants DEF Events, Numbered
    <2> QED  BY <2>1, <2>2 DEF Jobs
  <1>3. UNCHANGED <<spool, server>> /\ counter' = [counter EXCEPT ![p] = @ + 1]
    BY DEF Report
  <1>4. \A m \in Jobs : jobs[m].at = "done"
    <2> SUFFICES ASSUME NEW m \in Jobs PROVE jobs[m].at = "done"
      OBVIOUS
    <2>1. jobs[m].process \in Processes
      BY <1>1, JobFields DEF ProperJob, Job
    <2>2. jobs[m].process = p
      BY <2>1 DEF OneReporter
    <2>3. jobs[m].told # "reporting"
      BY <2>2 DEF Report
    <2> QED  BY <1>1, <2>3 DEF Numbered
  <1>5. QueueOrSend(n, new, spool)
    <2>1. \E s \in Loaded : (s = spool /\ QueueOrSend(n, new, s)) \/ s # spool
      BY <1>0 DEF Report, OneReporter
    <2> QED  BY <1>1, <2>1, LoadedIsSpool
  <1>6. entry \in Entry /\ entry.n = n /\ entry.seq = counter[p] + 1 /\ entry.terminal = terminal
    BY <1>1, <1>2 DEF TypeOK, Entry
  <1> HIDE DEF entry
  <1>7. request \in Request /\ request.by = n /\ request.entry = entry
    BY <1>2, <1>6 DEF Request
  <1> HIDE DEF request
  <1>8. PICK job \in ProperJob :
          /\ jobs' = [jobs EXCEPT ![n] = job] /\ job.entry = entry /\ job.told = "reporting"
          /\ \/ /\ spool.events = <<>> /\ wire' = wire \cup {request}
                /\ job.at = "submit" /\ job.request = request
             \/ /\ spool.events # <<>> /\ wire' = wire
                /\ job.at = "queue" /\ job.request = None
    <2>1. EmptySpool \in Spool
      BY EmptySeq DEF EmptySpool, Spool
    <2>2. new \in ProperJob
      BY <1>6, <2>1 DEF Job, ProperJob
    <2>3. CASE spool.events = <<>>
      <3> DEFINE job == [new EXCEPT !.at = "submit", !.request = request]
      <3>1. jobs' = [jobs EXCEPT ![n] = job] /\ wire' = wire \cup {request}
        BY <1>5, <2>3 DEF QueueOrSend, Send, request
      <3>2. job \in ProperJob /\ job.entry = entry /\ job.told = "reporting" /\ job.at = "submit"
            /\ job.request = request
        BY <1>6, <1>7, <2>1 DEF Job, ProperJob
      <3> HIDE DEF job
      <3> QED  BY <2>3, <3>1, <3>2
    <2>4. CASE spool.events # <<>>
      <3> DEFINE job == [new EXCEPT !.at = "queue", !.replays = TRUE]
      <3>1. jobs' = [jobs EXCEPT ![n] = job] /\ wire' = wire
        BY <1>5, <2>4 DEF QueueOrSend
      <3>2. job \in ProperJob /\ job.entry = entry /\ job.told = "reporting" /\ job.at = "queue"
            /\ job.request = None
        BY <1>6, <2>1 DEF Job, ProperJob
      <3> HIDE DEF job
      <3> QED  BY <2>4, <3>1, <3>2
    <2> QED  BY <2>3, <2>4
  <1>9. /\ jobs'[n] = job /\ Jobs' = Jobs \cup {n} /\ \A m \in Jobs : jobs'[m] = jobs[m]
    <2>1. jobs \in [Events -> ProperJob \cup {None}]
      BY <1>1 DEF Typed
    <2>2. jobs'[n] = job /\ \A m \in Events : m # n => jobs'[m] = jobs[m]
      BY <1>2, <1>8, <2>1
    <2>3. job # None
      BY NotNone
    <2> QED  BY <1>2, <2>2, <2>3 DEF Jobs
  <1>10. Issued' = n
    <2>1. Issued' = Cardinality(Jobs')
      BY DEF Issued, Jobs
    <2>2. Cardinality(Jobs \cup {n}) = Cardinality(Jobs) + 1 /\ Issued = Cardinality(Jobs)
      BY <1>2, FewEvents, FS_AddElement
    <2> QED  BY <1>0, <1>9, <2>1, <2>2
  <1>11. Numbered'
    <2>1. Jobs' = 1..n
      BY <1>0, <1>1, <1>2, <1>9 DEF Numbered
    <2>2. /\ jobs'[n].entry.n = n /\ jobs'[n].at # "trim" /\ jobs'[n].at # "done"
          /\ jobs'[n].told = "reporting"
      BY <1>6, <1>8, <1>9
    <2>3. \A m \in Jobs : /\ jobs'[m].entry.n = m /\ jobs'[m].at = "done"
                          /\ jobs'[m].told # "reporting"
      BY <1>1, <1>4, <1>9 DEF Numbered
    <2> QED  BY <1>9, <1>10, <2>1, <2>2, <2>3 DEF Numbered
  <1>12. /\ \A m : StoredEvent(m)' <=> StoredEvent(m)
         /\ \A e : Settled(e)' <=> Settled(e)
         /\ \A m : Queued(spool', m) <=> Queued(spool, m)
         /\ \A m : Queued(spool, m) => m \in Jobs
         /\ ~StoredEvent(n)
    <2>1. \A m : (StoredEvent(m)' <=> StoredEvent(m)) /\ (StoredEvent(m) => m \in Jobs)
      BY <1>1, <1>3 DEF StoredEvent, Behind
    <2>2. \A e : Settled(e)' <=> Settled(e)
      BY <1>3, <2>1 DEF Settled
    <2>3. \A m : Queued(spool, m) => m \in Jobs
      BY <1>1 DEF Queued, SpoolInOrder
    <2> QED  BY <1>2, <1>3, <2>1, <2>2, <2>3
  <1>13. SpoolInOrder' /\ EndedByEvent' /\ InOrder'
    BY <1>1, <1>3, <1>9 DEF SpoolInOrder, EndedByEvent, InOrder
  <1>14. JobsInHand'
    <2>1. \A m \in Jobs : InHand(m)'
      BY <1>1, <1>4, <1>9 DEF JobsInHand, InHand
    <2>2. InHand(n)'
      BY <1>2, <1>3, <1>6, <1>7, <1>8, <1>9, <1>12, NotNone DEF InHand
    <2> QED  BY <1>9, <2>1, <2>2 DEF JobsInHand
  <1>15. Behind'
    <2>1. spool.events = <<>> => DOMAIN spool.events = {}
      <3>1. Len(spool.events) \in Nat /\ DOMAIN spool.events = 1..Len(spool.events)
        BY <1>1, SpoolFields
      <3>2. Len(<<>>) = 0
        BY EmptySeq
      <3> QED  BY <3>1, <3>2
    <2>2. \A r \in wire' : r \in wire \/ (r = request /\ spool.events = <<>>)
      BY <1>8
    <2> QED  BY <1>1, <1>3, <1>6, <1>7, <1>9, <2>1, <2>2 DEF Behind
  <1>16. LossCounted'
    <2>1. Lost' = Lost
      <3>1. \A m \in Jobs : m \in Lost' <=> m \in Lost
        BY <1>9, <1>12 DEF Lost
      <3>2. n \notin Lost'
        BY <1>8, <1>9 DEF Lost
      <3> QED  BY <1>9, <3>1, <3>2 DEF Lost
    <2> QED  BY <1>1, <1>3, <2>1 DEF LossCounted
  <1>17. DeliveredSettled'
    BY <1>1, <1>8, <1>9, <1>12 DEF DeliveredSettled
  <1>18. Pending' = Pending \cup {n} /\ n \notin Pending /\ Pending \in SUBSET Jobs
    <2>1. \A m \in Jobs : Working(m)' <=> Working(m)
      BY <1>9 DEF Working
    <2>2. Working(n)'
      BY <1>8, <1>9 DEF Working
    <2> QED  BY <1>2, <1>9, <1>12, <2>1, <2>2 DEF Pending
  <1>19. /\ IsFiniteSet(Pending) /\ Cardinality(Pending) \in Nat
         /\ Cardinality(Pending') = Cardinality(Pending) + 1
    <2>1. IsFiniteSet(Pending) /\ Cardinality(Pending) \in Nat
      BY <1>18, FewEvents
    <2> QED  BY <1>18, <2>1, FS_AddElement
  <1>20. /\ server.last \in Nat /\ \A q \in Processes : counter[q] \in Nat
         /\ counter'[p] = counter[p] + 1 /\ \A q \in Processes : q = p
    BY <1>1, <1>3 DEF TypeOK, OneReporter
  <1>21. NumbersFollow'
    <2>1. SUFFICES ASSUME spool.gaps = 0, ~server.ended
                   PROVE  /\ \A m \in Pending' :
                               jobs'[m].entry.seq <= server.last + Cardinality(Before(m)') + 1
                          /\ \A q \in Processes : counter'[q] <= server.last + Cardinality(Pending')
      BY <1>3 DEF NumbersFollow
    <2>2. /\ \A m \in Pending : jobs[m].entry.seq <= server.last + Cardinality(Before(m)) + 1
          /\ counter[p] <= server.last + Cardinality(Pending)
      BY <1>1, <2>1 DEF NumbersFollow
    <2>3. \A m \in Pending : Before(m)' = Before(m) /\ jobs'[m] = jobs[m]
      <3> SUFFICES ASSUME NEW m \in Pending PROVE Before(m)' = Before(m) /\ jobs'[m] = jobs[m]
        OBVIOUS
      <3>1. m \in Nat /\ m < n /\ n \in Nat /\ ~(n < m) /\ jobs'[m] = jobs[m]
        BY <1>0, <1>2, <1>9, <1>18
      <3>2. Before(m)' = {k \in Pending' : k < m}
        BY DEF Before
      <3>3. \A k : k \in Pending' /\ k < m <=> k \in Pending /\ k < m
        BY <1>18, <3>1
      <3> QED  BY <3>1, <3>2, <3>3 DEF Before
    <2>4. Before(n)' = Pending
      <3>1. Before(n)' = {k \in Pending' : k < n}
        BY DEF Before
      <3>2. n \in Nat /\ ~(n < n)
        BY <1>0, <1>2
      <3>3. \A k : k \in Pending' /\ k < n <=> k \in Pending
        BY <1>2, <1>18, <3>2
      <3> QED  BY <3>1, <3>3
    <2>5. jobs'[n].entry.seq <= server.last + Cardinality(Before(n)') + 1
      BY <1>6, <1>8, <1>9, <1>19, <1>20, <2>2, <2>4
    <2>6. counter'[p] <= server.last + Cardinality(Pending')
      BY <1>19, <1>20, <2>2
    <2> QED  BY <1>18, <1>20, <2>2, <2>3, <2>5, <2>6
  <1>22. RequestsFollow'
    <2>1. SUFFICES ASSUME spool.gaps = 0, ~server.ended, NEW r \in wire', ~StoredEvent(r.entry.n)
                   PROVE  Follows(r)
      <3>1. \A r : Follows(r)' <=> Follows(r)
        BY <1>3 DEF Follows
      <3> QED  BY <1>3, <1>12, <3>1 DEF RequestsFollow
    <2>2. CASE r \in wire
      BY <1>1, <2>1, <2>2 DEF RequestsFollow
    <2>3. CASE r \notin wire
      <3>1. r = request /\ spool.events = <<>>
        BY <1>8, <2>3
      <3>2. Pending = {}
        <4>1. Len(spool.events) \in Nat /\ DOMAIN spool.events = 1..Len(spool.events)
          BY <1>1, SpoolFields
        <4>2. Len(<<>>) = 0
          BY EmptySeq
        <4> QED  BY <1>4, <3>1, <4>1, <4>2 DEF Pending, Queued, Working
      <3>3. Cardinality(Pending) = 0
        BY <3>2, FS_EmptySet
      <3>4. counter[p] <= server.last + Cardinality(Pending)
        BY <1>1, <2>1 DEF NumbersFollow
      <3>5. entry.seq <= server.last + 1
        BY <1>6, <1>20, <3>3, <3>4
      <3>6. \A d \in server.stored : d.n < entry.n
        BY <1>1, <1>2, <1>6 DEF Behind
      <3> QED  BY <1>7, <3>1, <3>5, <3>6 DEF Follows
    <2> QED  BY <2>2, <2>3
  <1> QED  BY <1>11, <1>13, <1>14, <1>15, <1>16, <1>17, <1>21, <1>22 DEF Orderly

\* The process ends and another one begins: its working job is killed, and nothing is lost that
\* was called queued.
LEMMA RestartOrderly ==
  ASSUME OneReporter, Orderly, Kept', NEW p \in Processes, Restart(p)
  PROVE  Orderly'
  <1>1. /\ TypeOK /\ Typed /\ Numbered /\ SpoolInOrder /\ Behind /\ LossCounted /\ EndedByEvent
        /\ NumbersFollow /\ RequestsFollow /\ InOrder /\ DeliveredSettled
    BY DEF Orderly, Kept, Typed
  <1>2. UNCHANGED <<spool, wire, server>> /\ counter' = [counter EXCEPT ![p] = 0]
    BY DEF Restart
  <1>3. \A m \in Jobs : jobs[m] \in ProperJob /\ m \in Events /\ m \in Nat /\ m <= Issued
    BY <1>1, JobFields, FewEvents DEF Numbered
  <1>4. ASSUME NEW m \in Jobs
        PROVE  /\ jobs'[m] \in ProperJob /\ jobs'[m].at = "done" /\ jobs'[m].request = None
               /\ jobs'[m].entry = jobs[m].entry
               /\ jobs'[m].told = IF jobs[m].told = "reporting" THEN "killed" ELSE jobs[m].told
    <2>1. jobs[m].process = p
      BY <1>3 DEF OneReporter, ProperJob, Job
    <2>2. jobs'[m] = Finished(jobs[m], "killed")
      BY <1>3, <2>1 DEF Restart
    <2>3. EmptySpool \in Spool
      BY EmptySeq DEF EmptySpool, Spool
    <2> QED  BY <1>3, <2>2, <2>3 DEF Finished, Job, ProperJob
  <1>5. Jobs' = Jobs /\ Issued' = Issued
    <2>1. \A m \in Events : m \notin Jobs => jobs'[m] = jobs[m]
      BY DEF Restart
    <2>2. \A m \in Jobs : jobs'[m] # None
      BY <1>4, NotNone
    <2>3. {m \in Events : jobs'[m] # None} = {m \in Events : jobs[m] # None}
      BY <2>1, <2>2 DEF Jobs
    <2> QED  BY <2>3 DEF Jobs, Issued
  <1>6. Numbered'
    BY <1>1, <1>4, <1>5 DEF Numbered
  <1>7. SpoolInOrder' /\ Behind' /\ EndedByEvent' /\ InOrder' /\ RequestsFollow'
    <2>1. SpoolInOrder'
      BY <1>1, <1>2, <1>4, <1>5 DEF SpoolInOrder
    <2>2. RequestsFollow'
      BY <1>1, <1>2 DEF RequestsFollow, Follows, StoredEvent
    <2> QED  BY <1>1, <1>2, <1>5, <2>1, <2>2 DEF Behind, EndedByEvent, InOrder
  <1>8. JobsInHand'
    BY <1>4, <1>5 DEF JobsInHand, InHand
  <1>9. /\ \A m : StoredEvent(m)' <=> StoredEvent(m)
        /\ \A e : Settled(e)' <=> Settled(e)
        /\ \A m : Queued(spool', m) <=> Queued(spool, m)
    BY <1>2 DEF StoredEvent, Settled
  <1>10. LossCounted'
    <2>1. \A m \in Jobs : m \in Lost' => m \in Lost
      BY <1>4, <1>9 DEF Lost
    <2>2. spool.gaps \in Nat /\ spool'.gaps = spool.gaps
      BY <1>1, <1>2 DEF TypeOK, Spool
    <2> QED  BY <1>1, <1>5, <2>1, <2>2, LossStep
  <1>11. DeliveredSettled'
    BY <1>1, <1>4, <1>5, <1>9 DEF DeliveredSettled
  <1>12. NumbersFollow'
    <2>1. SUFFICES ASSUME spool.gaps = 0, ~server.ended
                   PROVE  /\ \A m \in Pending' :
                               jobs'[m].entry.seq <= server.last + Cardinality(Before(m)') + 1
                          /\ \A q \in Processes : counter'[q] <= server.last + Cardinality(Pending')
      BY <1>2 DEF NumbersFollow
    <2>2. \A m \in Pending : jobs[m].entry.seq <= server.last + Cardinality(Before(m)) + 1
      BY <1>1, <2>1 DEF NumbersFollow
    <2>3. Pending' \in SUBSET Pending /\ Pending \in SUBSET Jobs
      BY <1>4, <1>5, <1>9 DEF Pending, Working
    <2>4. \A m \in Pending : m # Issued => m \in Pending'
      <3>1. \A m \in Jobs : Working(m) => m = Issued
        BY <1>1 DEF Working, Numbered
      <3> QED  BY <1>5, <1>9, <3>1 DEF Pending
    <2>5. ASSUME NEW m \in Pending' PROVE Before(m)' = Before(m)
      <3>1. \A k \in Pending : k < m => k # Issued
        BY <1>3, <2>3
      <3>2. Before(m)' = {k \in Pending' : k < m}
        BY DEF Before
      <3> QED  BY <2>3, <2>4, <3>1, <3>2 DEF Before
    <2>6. Cardinality(Pending') \in Nat
      BY <2>3, FewEvents
    <2>7. \A q \in Processes : counter'[q] = 0
      BY <1>1, <1>2 DEF OneReporter, TypeOK
    <2>8. server.last \in Nat
      BY <1>1 DEF TypeOK
    <2> QED  BY <1>4, <2>2, <2>3, <2>5, <2>6, <2>7, <2>8
  <1> QED  BY <1>6, <1>7, <1>8, <1>10, <1>11, <1>12 DEF Orderly

-----------------------------------------------------------------------------
(* The companion serves a request.                                         *)

\* Nobody waits for the answer.
LEMMA UnheardOrderly ==
  ASSUME Orderly, Kept', Moves, EndedByEvent', UNCHANGED <<jobs, spool, counter>>,
         wire' \subseteq wire
  PROVE  Orderly'
  <1>1. TypeOK /\ TypeOK' /\ spool.gaps \in Nat /\ Numbered /\ SpoolInOrder /\ JobsInHand /\ LossCounted
    BY DEF Orderly, Kept, Typed, TypeOK, Spool
  <1>2. Jobs' = Jobs /\ Issued' = Issued
    BY DEF Jobs, Issued
  <1>3. Numbered' /\ SpoolInOrder'
    BY <1>1, <1>2 DEF Numbered, SpoolInOrder
  <1>4. JobsInHand'
    BY <1>1, <1>2 DEF JobsInHand, InHand
  <1>5. \A e : Settled(e) => Settled(e)'
    BY <1>1, StoreMoves
  <1>6. LossCounted'
    <2>1. \A m \in Jobs : m \in Lost' => m \in Lost
      BY <1>5 DEF Lost
    <2> QED  BY <1>1, <1>2, <2>1, LossStep
  <1>7. \A m \in Jobs : Working(m)' <=> Working(m)
    BY <1>2 DEF Working
  <1> QED  BY <1>1, <1>2, <1>3, <1>4, <1>6, <1>7, OrderlyStep

\* What a job waits for is on the wire: its own event, or the oldest of the spool.
LEMMA Waiting ==
  ASSUME Orderly, NEW r \in wire, Waits(r)
  PROVE  /\ r.by \in Jobs /\ jobs[r.by].request = r /\ r \in Request /\ r # None
         /\ r.entry \in Entry /\ r.entry.n \in Jobs
         /\ \/ /\ jobs[r.by].at = "submit" /\ spool.events = <<>>
               /\ r.entry.n = r.by /\ r.entry.terminal = jobs[r.by].entry.terminal
            \/ /\ jobs[r.by].at = "replay" /\ jobs[r.by].copy = spool /\ spool.events # <<>>
               /\ r.entry.n = Head(spool.events).n
               /\ r.entry.terminal = Head(spool.events).terminal
  <1>1. r.by \in Jobs /\ jobs[r.by].request = r
    BY DEF Waits
  <1>2. TypeOK /\ Typed /\ Behind /\ InHand(r.by)
    BY <1>1 DEF Orderly, Kept, Typed, JobsInHand
  <1>3. r \in Request /\ r # None /\ r.entry \in Entry /\ jobs[r.by] \in ProperJob
    BY <1>1, <1>2, NotNone, JobFields DEF TypeOK, Request
  <1> QED  BY <1>1, <1>2, <1>3 DEF InHand, Behind, ProperJob

\* The companion's answer has the job send its request again, under the next number.
LEMMA ResendOrderly ==
  ASSUME Orderly, Kept', NEW r \in wire, Waits(r), Resend(r.by, r), ~StoredEvent(r.entry.n),
         UNCHANGED <<server, counter>>
  PROVE  Orderly'
  <1>0. PICK n : n = r.by
    OBVIOUS
  <1> DEFINE next == [r EXCEPT !.entry.seq = server.last + 1, !.again = TRUE]
             job == [jobs[n] EXCEPT !.request = next]
  <1>1. /\ TypeOK /\ Typed /\ Numbered /\ SpoolInOrder /\ Behind /\ InHand(n)
        /\ n \in Jobs /\ jobs[n].request = r /\ jobs[n].at \in {"submit", "replay"}
        /\ jobs[n].at # "done" /\ r \in Request /\ r.entry \in Entry /\ r.entry.n \in Jobs
    BY <1>0, Waiting DEF Orderly, Kept, Typed, JobsInHand
  <1>2. /\ next \in Request /\ next.by = n /\ next.entry.n = r.entry.n
        /\ next.entry.terminal = r.entry.terminal /\ next.entry.seq = server.last + 1
    <2>1. server.last + 1 \in Nat \ {0}
      BY <1>1 DEF TypeOK
    <2>2. [r.entry EXCEPT !.seq = server.last + 1] \in Entry
      BY <1>1, <2>1 DEF Entry
    <2>3. next = [r EXCEPT !.entry = [r.entry EXCEPT !.seq = server.last + 1], !.again = TRUE]
      OBVIOUS
    <2> QED  BY <1>0, <1>1, <2>2, <2>3 DEF Request, Entry
  <1>3. jobs' = [jobs EXCEPT ![n] = job] /\ wire' = (wire \ {r}) \cup {next} /\ spool' = spool
    BY <1>0 DEF Resend
  <1> HIDE DEF next
  <1>4. jobs[n] \in ProperJob /\ jobs[n].told = "reporting"
    BY <1>1, JobFields, OneWorks
  <1>5. /\ job \in ProperJob /\ job.at = jobs[n].at /\ job.request = next /\ job.copy = jobs[n].copy
        /\ job.entry = jobs[n].entry /\ job.told = "reporting" /\ job.at # "trim"
    BY <1>1, <1>2, <1>4 DEF Job, ProperJob
  <1> HIDE DEF job
  <1>6. jobs'[n] = job
    BY <1>1, <1>3 DEF TypeOK, Jobs
  <1>7. InHand(n)'
    BY <1>1, <1>2, <1>3, <1>5, <1>6, NotNone DEF InHand
  <1>8. /\ r.entry.n \in Jobs
        /\ \A i \in DOMAIN spool.events : r.entry.n <= spool.events[i].n
    BY <1>1 DEF Behind
  <1>9. Follows(next)
    <2>1. \A d \in server.stored : d.n # r.entry.n /\ d.n \in Jobs
      BY <1>1 DEF StoredEvent, Behind
    <2>2. \A m \in Jobs : m \in Nat /\ m <= n
      BY <1>1, OneWorks
    <2>3. \A d \in server.stored : d.n < r.entry.n
      <3>1. CASE jobs[n].at = "submit"
        BY <1>1, <2>1, <2>2, <3>1 DEF InHand
      <3>2. CASE jobs[n].at = "replay"
        <4>1. /\ 1 \in DOMAIN spool.events /\ r.entry.n = spool.events[1].n
          BY <1>0, <1>1, <3>2, Waiting, SpoolFields
        <4>2. \A d \in server.stored : d.n <= r.entry.n
          BY <1>1, <4>1 DEF Behind
        <4> QED  BY <1>1, <2>1, <2>2, <4>2
      <3> QED  BY <1>1, <3>1, <3>2
    <2>4. server.last \in Nat
      BY <1>1 DEF TypeOK
    <2> QED  BY <1>2, <2>3, <2>4 DEF Follows
  <1>10. \A q \in wire' :
           \/ q \in wire
           \/ /\ q.entry.n \in Jobs /\ \A i \in DOMAIN spool.events : q.entry.n <= spool.events[i].n
              /\ spool.gaps = 0 /\ ~server.ended /\ ~StoredEvent(q.entry.n) => Follows(q)
    BY <1>2, <1>3, <1>8, <1>9
  <1>11. job.at = "done" <=> job.told # "reporting"
    BY <1>1, <1>5
  <1>12. job.told = "queued" \/ job.at \in {"load", "replay"} => jobs[n].at \in {"load", "replay"}
    BY <1>5
  <1>13. UNCHANGED <<spool, server, counter>> /\ job.told # "delivered" /\ job.at # "done"
    BY <1>1, <1>3, <1>5
  <1> QED  BY <1>1, <1>3, <1>5, <1>7, <1>10, <1>11, <1>12, <1>13, StillStep

\* The event of a job has its outcome in the store: the job is done, or sends the next of the spool.
LEMMA AcceptedOrderly ==
  ASSUME Orderly, Kept', NEW r \in wire, Waits(r), Accepted(r.by, r), Moves, EndedByEvent',
         StoredEvent(r.entry.n)' \/ (r.entry.terminal /\ server'.ended),
         UNCHANGED counter
  PROVE  Orderly'
  <1>0. PICK n : n = r.by
    OBVIOUS
  <1>1. /\ TypeOK /\ TypeOK' /\ Typed /\ Numbered /\ SpoolInOrder /\ Behind /\ InHand(n) /\ LossCounted
        /\ n \in Jobs /\ jobs[n].request = r /\ jobs[n].at \in {"submit", "replay"}
        /\ jobs[n].at # "done" /\ r \in Request /\ r.entry \in Entry /\ r.entry.n \in Jobs
    BY <1>0, Waiting DEF Orderly, Kept, Typed, JobsInHand
  <1>2. jobs[n] \in ProperJob /\ jobs[n].told = "reporting" /\ jobs[n].entry.n = n
    BY <1>1, JobFields, OneWorks DEF Numbered
  <1>3. EmptySpool \in Spool
    BY EmptySeq DEF EmptySpool, Spool
  <1>4. CASE At(n, "submit")
    <2> DEFINE job == Finished(jobs[n], "delivered")
    <2>1. jobs' = [jobs EXCEPT ![n] = job] /\ wire' = wire \ {r} /\ spool' = spool
      BY <1>0, <1>4 DEF Accepted, At, Finish
    <2>2. /\ job \in ProperJob /\ job.at = "done" /\ job.request = None
          /\ job.entry = jobs[n].entry /\ job.told = "delivered"
      BY <1>2, <1>3 DEF Job, ProperJob, Finished
    <2> HIDE DEF job
    <2>3. jobs'[n] = job
      BY <1>1, <2>1 DEF TypeOK, Jobs
    <2>4. InHand(n)'
      BY <2>2, <2>3 DEF InHand
    <2>5. r.entry.n = n /\ r.entry.terminal = jobs[n].entry.terminal
      BY <1>1, <1>4 DEF At, InHand
    <2>6. Settled(jobs[n].entry)' /\ (~server'.ended => StoredEvent(n)')
      BY <1>2, <2>2, <2>3, <2>5 DEF Settled
    <2> QED  BY <1>1, <2>1, <2>2, <2>4, <2>6, AnswerStep
  <1>5. CASE At(n, "replay")
    <2>1. PICK rest, head : rest = [spool EXCEPT !.events = Tail(@)] /\ head = Head(spool.events)
      OBVIOUS
    <2>2. /\ jobs[n].at = "replay" /\ jobs[n].copy = spool /\ spool.events # <<>>
          /\ r.entry.n = head.n /\ r.entry.terminal = head.terminal
      BY <1>0, <1>5, <2>1, Waiting DEF At
    <2>3. /\ spool' = rest /\ rest.events = Tail(spool.events) /\ rest.gaps = spool.gaps
          /\ spool.gaps \in Nat
      BY <1>0, <1>1, <1>5, <2>1, <2>2 DEF Accepted, At, TypeOK, Spool
    <2>4. PICK job \in ProperJob :
            /\ jobs' = [jobs EXCEPT ![n] = job] /\ job.entry = jobs[n].entry
            /\ \/ /\ rest.events = <<>> /\ wire' = wire \ {r}
                  /\ job.at = "done" /\ job.told = Receipt(n, r) /\ job.request = None
               \/ /\ rest.events # <<>>
                  /\ job.at = "replay" /\ job.told = "reporting" /\ job.copy = rest
                  /\ job.request = [by |-> n, entry |-> Head(rest.events), again |-> FALSE]
                  /\ wire' = (wire \ {r}) \cup {job.request}
      <3>1. \/ rest.events = <<>> /\ Finish(n, Receipt(n, r)) /\ wire' = wire \ {r}
            \/ /\ rest.events # <<>>
               /\ LET next == [by |-> n, entry |-> Head(rest.events), again |-> FALSE]
                  IN /\ jobs' = [jobs EXCEPT ![n].copy = rest, ![n].request = next]
                     /\ wire' = (wire \ {r}) \cup {next}
        BY <1>0, <1>5, <2>1, <2>2 DEF Accepted, At
      <3>2. CASE rest.events = <<>> /\ Finish(n, Receipt(n, r)) /\ wire' = wire \ {r}
        <4> DEFINE job == Finished(jobs[n], Receipt(n, r))
        <4>1. jobs' = [jobs EXCEPT ![n] = job]
          BY <3>2 DEF Finish
        <4>2. /\ job \in ProperJob /\ job.entry = jobs[n].entry
              /\ job.at = "done" /\ job.told = Receipt(n, r) /\ job.request = None
          <5>1. Receipt(n, r) \in Tellings
            BY DEF Receipt, Tellings
          <5> QED  BY <1>2, <1>3, <5>1 DEF Job, ProperJob, Finished, Tellings
        <4> HIDE DEF job
        <4> QED  BY <3>2, <4>1, <4>2
      <3>3. CASE rest.events # <<>>
        <4> DEFINE next == [by |-> n, entry |-> Head(rest.events), again |-> FALSE]
                   job == [jobs[n] EXCEPT !.copy = rest, !.request = next]
        <4>1. jobs' = [jobs EXCEPT ![n] = job] /\ wire' = (wire \ {r}) \cup {next}
          BY <3>1, <3>3
        <4>2. rest \in Spool /\ rest.events \in Seq(Entry)
          BY <1>1, <2>3 DEF TypeOK, Spool
        <4>3. next \in Request
          <5>1. Head(rest.events) \in Entry
            BY <3>3, <4>2, HeadTailProperties
          <5> QED  BY <1>1, <5>1 DEF Request, Jobs
        <4> HIDE DEF next
        <4>4. /\ job \in ProperJob /\ job.entry = jobs[n].entry
              /\ job.at = "replay" /\ job.told = "reporting" /\ job.copy = rest
              /\ job.request = next
          BY <1>2, <2>2, <3>3, <4>2, <4>3 DEF Job, ProperJob
        <4> HIDE DEF job
        <4> QED  BY <3>3, <4>1, <4>4 DEF next
      <3> QED  BY <3>1, <3>2, <3>3
    <2>5. /\ Numbered' /\ Jobs' = Jobs /\ n = Issued /\ jobs'[n] = job
          /\ \A m \in Jobs : jobs'[m].entry = jobs[m].entry
          /\ \A m \in Jobs : m # n => jobs'[m] = jobs[m] /\ ~Working(m) /\ ~Working(m)'
          /\ Working(n) /\ (Working(n)' <=> job.at # "done")
          /\ InHand(n)' => JobsInHand'
      <3>1. job.at # "trim" /\ (job.at = "done" <=> job.told # "reporting")
        BY <2>4 DEF Receipt
      <3> QED  BY <1>1, <2>4, <3>1, OneJobStep
    <2>6. /\ DOMAIN rest.events = 1..Len(rest.events) /\ Len(rest.events) \in Nat
          /\ \A i \in DOMAIN rest.events :
               i + 1 \in DOMAIN spool.events /\ rest.events[i] = spool.events[i + 1]
          /\ rest.events # <<>> => Head(rest.events) = rest.events[1] /\ 1 \in DOMAIN rest.events
          /\ \A m : Queued(spool, m) <=> m = head.n \/ Queued(rest, m)
          /\ ~Queued(rest, head.n)
      <3>1. /\ DOMAIN rest.events = 1..Len(rest.events) /\ Len(rest.events) \in Nat
            /\ \A i \in DOMAIN rest.events :
                 i + 1 \in DOMAIN spool.events /\ rest.events[i] = spool.events[i + 1]
            /\ rest.events # <<>> => Head(rest.events) = rest.events[1] /\ 1 \in DOMAIN rest.events
            /\ \A m : Queued(spool, m) <=> (m = head.n \/ \E i \in DOMAIN rest.events : rest.events[i].n = m)
            /\ \A i \in DOMAIN rest.events : rest.events[i].n # head.n
        BY <1>1, <2>1, <2>2, <2>3, TailEntries
      <3> QED  BY <3>1 DEF Queued
    <2>7. head \in Entry /\ head.n \in Jobs /\ head = jobs[head.n].entry
      BY <1>1, <2>1, <2>2, SpoolFields DEF SpoolInOrder
    <2>8. Settled(jobs[head.n].entry)' /\ (~server'.ended => StoredEvent(head.n)')
      <3>1. jobs'[head.n].entry = head
        BY <2>5, <2>7
      <3> QED  BY <2>2, <3>1 DEF Settled
    <2>9. SpoolInOrder'
      <3> SUFFICES ASSUME NEW i \in DOMAIN rest.events
                   PROVE  /\ rest.events[i].n \in Jobs
                          /\ rest.events[i] = jobs'[rest.events[i].n].entry
                          /\ \A j \in DOMAIN rest.events : i < j => rest.events[i].n < rest.events[j].n
        BY <2>3, <2>5 DEF SpoolInOrder
      <3>1. rest.events[i].n \in Jobs /\ rest.events[i] = jobs[rest.events[i].n].entry
        BY <1>1, <2>6 DEF SpoolInOrder
      <3>2. ASSUME NEW j \in DOMAIN rest.events, i < j PROVE rest.events[i].n < rest.events[j].n
        <4>1. i + 1 < j + 1
          BY <2>6, <3>2
        <4> QED  BY <1>1, <2>6, <4>1 DEF SpoolInOrder
      <3> QED  BY <2>5, <3>1, <3>2
    <2>10. InHand(n)'
      <3>1. CASE job.at = "done"
        BY <2>4, <2>5, <3>1 DEF InHand
      <3>2. CASE job.at # "done"
        <4>1. /\ job.at = "replay" /\ job.copy = rest /\ rest.events # <<>>
              /\ job.request = [by |-> n, entry |-> Head(rest.events), again |-> FALSE]
          BY <2>4, <3>2
        <4>2. Head(rest.events) \in Entry
          BY <1>1, <2>3, <2>6, <4>1, SpoolFields
        <4>3. job.request \in Request
          BY <1>1, <4>1, <4>2 DEF Request, Jobs
        <4>4. job.request # None
          BY <4>3, NotNone
        <4> QED  BY <2>3, <2>5, <4>1, <4>4 DEF InHand
      <3> QED  BY <3>1, <3>2
    <2>11. \A e : Settled(e) => Settled(e)'
      BY <1>1, <2>3, StoreMoves
    <2>12. LossCounted'
      <3>1. ASSUME NEW m \in Jobs, m \in Lost' PROVE m \in Lost
        <4>1. /\ ~Settled(jobs[m].entry)' /\ ~Queued(rest, m)
              /\ jobs'[m].told = "queued" \/ jobs'[m].at \in {"load", "replay"}
          BY <2>3, <3>1 DEF Lost
        <4>2. m # head.n
          BY <2>8, <4>1
        <4>3. ~Settled(jobs[m].entry) /\ ~Queued(spool, m)
          <5>1. PICK e : e = jobs[m].entry
            OBVIOUS
          <5>2. jobs'[m].entry = e /\ (Settled(e) => Settled(e)')
            BY <2>5, <2>11, <5>1
          <5>3. Settled(jobs[m].entry)' <=> Settled(e)'
            BY <5>2 DEF Settled
          <5> QED  BY <2>6, <4>1, <4>2, <5>1, <5>2, <5>3
        <4>4. jobs[m].told = "queued" \/ jobs[m].at \in {"load", "replay"}
          BY <2>2, <2>5, <4>1
        <4> QED  BY <4>3, <4>4 DEF Lost
      <3> QED  BY <1>1, <2>3, <2>5, <3>1, LossStep
    <2>13. \A i \in DOMAIN spool'.events :
             \E j \in DOMAIN spool.events : spool'.events[i].n = spool.events[j].n
      BY <2>3, <2>6
    <2>14. \A m \in Jobs : jobs'[m].told = "delivered" =>
             jobs[m].told = "delivered" \/ Settled(jobs[m].entry)'
      <3> SUFFICES ASSUME job.told = "delivered" PROVE Settled(jobs[n].entry)'
        BY <2>5
      <3>1. r.entry.n = n
        BY <2>4 DEF Receipt
      <3> QED  BY <2>2, <2>8, <3>1
    <2>15. spool'.gaps = 0 /\ ~server'.ended =>
             \A m \in Jobs : ~StoredEvent(m)' =>
               (Queued(spool', m) \/ Working(m)' <=> Queued(spool, m) \/ Working(m))
      <3> SUFFICES ASSUME spool.gaps = 0, ~server'.ended, NEW m \in Jobs, ~StoredEvent(m)'
                   PROVE  Queued(rest, m) \/ Working(m)' <=> Queued(spool, m) \/ Working(m)
        BY <2>3
      <3>1. m # head.n
        BY <2>8
      <3>2. Queued(rest, m) <=> Queued(spool, m)
        BY <2>6, <3>1
      <3>3. CASE m # n
        BY <2>5, <3>2, <3>3
      <3>4. CASE m = n
        <4>1. StoredEvent(n) \/ Queued(spool, n)
          <5>1. ~server.ended
            BY DEF Moves
          <5> QED  BY <1>1, <2>2, <5>1, ReplayerKept
        <4>2. StoredEvent(n) => StoredEvent(n)'
          BY <1>1, <2>3, StoreMoves
        <4> QED  BY <2>5, <3>2, <3>4, <4>1, <4>2
      <3> QED  BY <3>3, <3>4
    <2>16. ASSUME NEW q \in wire', q \notin wire
           PROVE  /\ q.entry.n \in Jobs /\ \A i \in DOMAIN spool'.events : q.entry.n <= spool'.events[i].n
                  /\ spool'.gaps = 0 /\ ~server'.ended /\ ~StoredEvent(q.entry.n)' => Follows(q)'
      <3>1. rest.events # <<>> /\ q.entry = Head(rest.events) /\ 1 \in DOMAIN rest.events
            /\ q.entry = rest.events[1]
        BY <2>4, <2>6, <2>16
      <3>2. q.entry = spool.events[1 + 1] /\ 1 + 1 \in DOMAIN spool.events
        BY <2>6, <3>1
      <3>3. q.entry.n \in Jobs
        BY <1>1, <3>2 DEF SpoolInOrder
      <3>4. ASSUME NEW i \in DOMAIN rest.events PROVE q.entry.n <= rest.events[i].n
        <4>1. i = 1 \/ 1 < i
          BY <2>6
        <4>2. 1 < i => rest.events[1].n < rest.events[i].n
          <5>1. SpoolInOrder' => (1 < i => rest.events[1].n < rest.events[i].n)
            BY <2>3, <3>1 DEF SpoolInOrder
          <5> QED  BY <2>9, <5>1
        <4>3. q.entry.n \in Nat /\ rest.events[i].n \in Nat
          <5>1. rest.events[i] \in Entry
            BY <1>1, <2>6, SpoolFields
          <5> QED  BY <3>3, <5>1 DEF Jobs, Entry, Events
        <4> QED  BY <3>1, <4>1, <4>2, <4>3
      <3>5. ASSUME rest.gaps = 0, ~server'.ended, ~StoredEvent(q.entry.n)'
            PROVE  Follows(q)'
        <4>1. NumbersFollow'
          <5>1. spool'.gaps = 0 => spool.gaps = 0
            BY <2>3
          <5> QED  BY <1>1, <2>5, <2>15, <5>1, NumbersStep
        <4>2. StoredBehind'
          <5>1. \A d \in server'.stored :
                  d.n \in Jobs /\ \A i \in DOMAIN spool.events : d.n <= spool.events[i].n
            BY <1>1, <2>3, StoreMoves
          <5> QED  BY <2>3, <2>5, <2>6, <5>1 DEF StoredBehind
        <4>3. TypeOK' /\ Numbered' /\ SpoolInOrder' /\ StoredBehind' /\ NumbersFollow' => HeadMayGo'
          BY HeadFollows, PTL
        <4>4. HeadMayGo'
          BY <1>1, <2>5, <2>9, <4>1, <4>2, <4>3
        <4> QED  BY <2>3, <3>1, <3>5, <4>4 DEF HeadMayGo, Follows
      <3> QED  BY <2>3, <3>3, <3>4, <3>5
    <2>17. spool'.gaps >= spool.gaps
      BY <2>3
    <2> QED  BY <1>1, <2>5, <2>9, <2>10, <2>12, <2>13, <2>14, <2>15, <2>16, <2>17, OrderlyStep
  <1> QED  BY <1>1, <1>4, <1>5 DEF At

\* The companion serves a request, and its answer finds a job waiting, or nobody.
LEMMA ServeOrderly ==
  ASSUME OneReporter, Orderly, Kept', NEW r \in wire, Serve(r)
  PROVE  Orderly'
  <1>1. Ingest(r.entry) /\ UNCHANGED counter
    BY DEF Serve
  <1>2. /\ server' = server \/ (Takes(r.entry) /\ Verdict(r.entry) \in {"applied", "gap"})
        /\ Verdict(r.entry) \in {"applied", "duplicate"} =>
             StoredEvent(r.entry.n)' \/ (r.entry.terminal /\ server'.ended)
        /\ server.ended => server' = server
        /\ EndedByEvent'
    BY <1>1, IngestTakes
  <1>3. Moves
    BY <1>2 DEF Moves
  <1>4. CASE ~Waits(r) /\ wire' = wire \ {r} /\ UNCHANGED <<jobs, spool>>
    BY <1>1, <1>2, <1>3, <1>4, UnheardOrderly
  <1>5. CASE Waits(r) /\ Verdict(r.entry) \in {"applied", "duplicate"} /\ Accepted(r.by, r)
    BY <1>1, <1>2, <1>3, <1>5, AcceptedOrderly
  <1>6. CASE Waits(r) /\ Verdict(r.entry) = "resequence" /\ ~r.again /\ Resend(r.by, r)
    <2>1. server' = server
      BY <1>2, <1>6
    <2>2. ~StoredEvent(r.entry.n)
      BY <1>6 DEF Verdict
    <2> QED  BY <1>1, <1>6, <2>1, <2>2, ResendOrderly
  <1>7. CASE Waits(r) /\ NotAccepted(r.by) /\ wire' = wire \ {r}
    <2>1. r.by \in Jobs
      BY <1>7 DEF Waits
    <2> QED  BY <1>1, <1>2, <1>3, <1>7, <2>1, NotAcceptedOrderly
  <1> QED  BY <1>4, <1>5, <1>6, <1>7 DEF Serve

\* Nothing is reported at first.
LEMMA OrderlyInit ==
  ASSUME Init
  PROVE  Orderly
  <1>1. Kept
    BY KeptInit
  <1>2. Jobs = {} /\ Issued = 0
    <2>1. Jobs = {}
      BY DEF Init, Jobs
    <2> QED  BY <2>1, FewEvents, FS_EmptySet
  <1>3. Numbered /\ JobsInHand /\ DeliveredSettled
    BY <1>2 DEF Numbered, JobsInHand, DeliveredSettled
  <1>4. spool.events = <<>> /\ spool.gaps = 0 /\ DOMAIN spool.events = {}
    <2>1. spool.events = <<>> /\ spool.gaps = 0
      BY DEF Init, EmptySpool
    <2>2. Len(spool.events) \in Nat /\ DOMAIN spool.events = 1..Len(spool.events)
      BY <1>1, SpoolFields DEF Kept, Typed
    <2>3. Len(<<>>) = 0
      BY EmptySeq
    <2> QED  BY <2>1, <2>2, <2>3
  <1>5. SpoolInOrder /\ Behind /\ EndedByEvent /\ InOrder /\ RequestsFollow
    BY <1>4 DEF Init, SpoolInOrder, Behind, EndedByEvent, InOrder, RequestsFollow
  <1>6. LossCounted
    <2>1. Lost = {}
      BY <1>2 DEF Lost
    <2>2. Cardinality(Lost) = 0
      BY <2>1, FS_EmptySet
    <2> QED  BY <1>4, <2>2 DEF LossCounted
  <1>7. NumbersFollow
    <2>1. Pending = {}
      BY <1>2 DEF Pending
    <2>2. Cardinality(Pending) = 0
      BY <2>1, FS_EmptySet
    <2>3. server.last = 0 /\ \A p \in Processes : counter[p] = 0
      BY DEF Init
    <2> QED  BY <2>1, <2>2, <2>3 DEF NumbersFollow
  <1> QED  BY <1>1, <1>3, <1>5, <1>6, <1>7 DEF Orderly

\* Every step of one reporter keeps the invariant.
LEMMA OrderlyNext ==
  ASSUME OneReporter, Orderly, [Next]_vars
  PROVE  Orderly'
  <1>1. Kept /\ Kept' /\ Numbered
    BY KeptStep DEF Orderly
  <1>2. CASE Next
    <2>1. ASSUME NEW p \in Processes, NEW terminal \in BOOLEAN, Report(p, terminal) PROVE Orderly'
      BY <1>1, <2>1, ReportOrderly
    <2>2. ASSUME NEW n \in Events, SaveTrimmed(n) PROVE Orderly'
      BY <1>1, <2>2 DEF SaveTrimmed, At, Numbered
    <2>3. ASSUME NEW n \in Events, LoadToQueue(n) PROVE Orderly'
      BY <1>1, <2>3, LoadToQueueOrderly
    <2>4. ASSUME NEW n \in Events, SaveQueued(n) PROVE Orderly'
      BY <1>1, <2>4, SaveQueuedOrderly
    <2>5. ASSUME NEW n \in Events, StoreFails(n) PROVE Orderly'
      BY <2>5 DEF StoreFails, OneReporter
    <2>6. ASSUME NEW n \in Events, ReturnEarly(n) PROVE Orderly'
      BY <2>6 DEF ReturnEarly, OneReporter
    <2>7. ASSUME NEW n \in Events, LoadToReplay(n) PROVE Orderly'
      BY <1>1, <2>7, LoadToReplayOrderly
    <2>8. ASSUME NEW r \in wire, Serve(r) PROVE Orderly'
      BY <1>1, <2>8, ServeOrderly
    <2>9. ASSUME NEW n \in Jobs, NotAccepted(n), wire' \subseteq wire, UNCHANGED <<counter, server>>
          PROVE  Orderly'
      <3>1. Moves /\ EndedByEvent'
        BY <2>9 DEF Orderly, Moves, EndedByEvent
      <3> QED  BY <1>1, <2>9, <3>1, NotAcceptedOrderly
    <2>10. ASSUME NEW r \in wire, Refuse(r) PROVE Orderly'
      BY <2>9, <2>10 DEF Refuse, Waits
    <2>11. ASSUME NEW n \in Events, GiveUp(n) PROVE Orderly'
      BY <2>9, <2>11 DEF GiveUp
    <2>12. ASSUME NEW p \in Processes, Restart(p) PROVE Orderly'
      BY <1>1, <2>12, RestartOrderly
    <2> QED  BY <1>2, <2>1, <2>2, <2>3, <2>4, <2>5, <2>6, <2>7, <2>8, <2>10, <2>11, <2>12 DEF Next
  <1>3. CASE UNCHANGED vars
    <2>1. Moves /\ EndedByEvent' /\ UNCHANGED <<jobs, spool, counter>> /\ wire' \subseteq wire
      BY <1>3 DEF Orderly, Moves, EndedByEvent, vars
    <2> QED  BY <1>1, <2>1, UnheardOrderly
  <1> QED  BY <1>2, <1>3

\* What the invariant says of the reports that have returned.
LEMMA OrderlyAgrees ==
  ASSUME Orderly
  PROVE  DeliveryAgrees
  <1>1. TypeOK /\ StoredOnce /\ InOrder /\ LossCounted /\ DeliveredSettled
    BY DEF Orderly, Kept, Typed
  <1>2. AppliedInOrder
    BY <1>1 DEF InOrder, AppliedInOrder
  <1>3. QueuedIsKept
    <2>1. Missing \in SUBSET Lost /\ Lost \in SUBSET Jobs
      BY DEF Missing, Lost
    <2>2. IsFiniteSet(Lost) /\ Cardinality(Lost) \in Nat
      BY <2>1, FewEvents
    <2>3. Cardinality(Missing) <= Cardinality(Lost) /\ Cardinality(Missing) \in Nat
      BY <2>1, <2>2, FS_Subset, FS_CardinalityType
    <2>4. spool.gaps \in Nat
      BY <1>1, SpoolFields
    <2> QED  BY <1>1, <2>2, <2>3, <2>4 DEF LossCounted, QueuedIsKept
  <1>4. DeliveredIsApplied
    BY <1>1 DEF InOrder, DeliveredSettled, DeliveredIsApplied, StoredEvent, AppliedEvent
  <1> QED  BY <1>1, <1>2, <1>3, <1>4 DEF DeliveryAgrees

\* A terminal event leaves the spool only for the store, or when only terminal ones remain.
SparesTerminals ==
  \A n \in Jobs : jobs[n].entry.terminal /\ Queued(spool, n) /\ ~Queued(spool', n)
    => StoredEvent(n)' \/ server'.ended
       \/ \A i \in DOMAIN spool'.events : spool'.events[i].terminal

LEMMA OrderlySpares ==
  ASSUME OneReporter, Orderly, [Next]_vars
  PROVE  SparesTerminals
  <1>1. TypeOK /\ Typed /\ Numbered /\ SpoolInOrder /\ JobsInHand
    BY DEF Orderly, Kept, Typed
  <1>2. ASSUME spool' = spool PROVE SparesTerminals
    BY <1>2 DEF SparesTerminals
  <1>3. ASSUME NEW n \in Jobs, NotAccepted(n) PROVE SparesTerminals
    BY <1>1, <1>2, <1>3 DEF NotAccepted, At, JobsInHand, InHand
  <1>4. ASSUME NEW n \in Events, SaveQueued(n) PROVE SparesTerminals
    <2> DEFINE e == jobs[n].entry
               s == Enqueued(spool, e)
    <2>1. n \in Jobs /\ jobs[n].at = "append" /\ InHand(n)
      BY <1>1, <1>4 DEF SaveQueued, At, JobsInHand
    <2>2. /\ e \in Entry /\ e.n = n /\ spool' = s /\ ~Queued(spool, n)
          /\ \A m \in Jobs : m \in Nat /\ m <= n
      BY <1>1, <1>4, <2>1, JobFields, OneWorks DEF Numbered, SaveQueued, InHand
    <2>3. \A i \in DOMAIN spool.events : spool.events[i].n < e.n
      <3> SUFFICES ASSUME NEW i \in DOMAIN spool.events PROVE spool.events[i].n < e.n
        OBVIOUS
      <3>1. spool.events[i].n \in Jobs /\ spool.events[i].n # n
        BY <1>1, <2>2 DEF SpoolInOrder, Queued
      <3> QED  BY <2>1, <2>2, <3>1
    <2>4. \/ \A m : Queued(spool, m) => Queued(s, m)
          \/ \E v : /\ v = e \/ \E j \in DOMAIN spool.events : v = spool.events[j]
                    /\ \A m : Queued(spool, m) => Queued(s, m) \/ m = v.n
                    /\ v.terminal => \A i \in DOMAIN s.events : s.events[i].terminal
      BY <1>1, <2>2, <2>3, EnqueuedEntries
    <2> HIDE DEF s, e
    <2> SUFFICES ASSUME NEW m \in Jobs, jobs[m].entry.terminal, Queued(spool, m), ~Queued(s, m)
                 PROVE  \A i \in DOMAIN s.events : s.events[i].terminal
      BY <2>2 DEF SparesTerminals
    <2>5. PICK v : /\ v = e \/ \E j \in DOMAIN spool.events : v = spool.events[j]
                   /\ m = v.n
                   /\ v.terminal => \A i \in DOMAIN s.events : s.events[i].terminal
      BY <2>4
    <2>6. v.terminal
      <3>1. CASE v = e
        BY <2>2, <2>5, <3>1
      <3>2. CASE \E j \in DOMAIN spool.events : v = spool.events[j]
        BY <1>1, <2>5, <3>2 DEF SpoolInOrder
      <3> QED  BY <2>5, <3>1, <3>2
    <2> QED  BY <2>5, <2>6
  <1>5. ASSUME NEW n \in Events, LoadToReplay(n) PROVE SparesTerminals
    <2>1. spool' = spool
      BY <1>1, <1>5, LoadedIsSpool DEF LoadToReplay
    <2> QED  BY <1>2, <2>1
  <1>6. ASSUME NEW r \in wire, Serve(r) PROVE SparesTerminals
    <2>1. /\ Verdict(r.entry) \in {"applied", "duplicate"} =>
               StoredEvent(r.entry.n)' \/ (r.entry.terminal /\ server'.ended)
      BY <1>6, IngestTakes DEF Serve
    <2>2. CASE spool' = spool
      BY <1>2, <2>2
    <2>3. CASE Waits(r) /\ NotAccepted(r.by)
      BY <1>3, <2>3 DEF Waits
    <2>4. CASE Waits(r) /\ Accepted(r.by, r) /\ Verdict(r.entry) \in {"applied", "duplicate"}
               /\ spool' # spool
      <3>1. /\ At(r.by, "replay") /\ spool' = [jobs[r.by].copy EXCEPT !.events = Tail(@)]
        BY <2>4 DEF Accepted
      <3>2. /\ jobs[r.by].copy = spool /\ spool.events # <<>>
            /\ r.entry.n = Head(spool.events).n
        BY <2>4, <3>1, Waiting DEF At
      <3>3. spool'.events = Tail(spool.events)
        BY <1>1, <3>1, <3>2 DEF TypeOK, Spool
      <3>4. \A m : Queued(spool, m) => m = Head(spool.events).n \/ Queued(spool', m)
        BY <1>1, <3>2, <3>3, TailEntries DEF Queued
      <3> QED  BY <2>1, <2>4, <3>2, <3>4 DEF SparesTerminals
    <2> QED  BY <1>6, <2>2, <2>3, <2>4 DEF Serve, Resend
  <1>7. CASE Next
    <2>1. ASSUME NEW r \in wire, Refuse(r) PROVE SparesTerminals
      BY <1>3, <2>1 DEF Refuse, Waits
    <2>2. ASSUME NEW n \in Events, GiveUp(n) PROVE SparesTerminals
      BY <1>3, <2>2 DEF GiveUp
    <2>3. ASSUME NEW n \in Events, SaveTrimmed(n) PROVE SparesTerminals
      BY <1>1, <2>3 DEF SaveTrimmed, At, Numbered
    <2> QED  BY <1>2, <1>4, <1>5, <1>6, <1>7, <2>1, <2>2, <2>3
             DEF Next, Report, LoadToQueue, StoreFails, ReturnEarly, Restart
  <1>8. CASE UNCHANGED vars
    BY <1>2, <1>8 DEF vars
  <1> QED  BY <1>7, <1>8

-----------------------------------------------------------------------------
(* Theorems.                                                               *)

\* Jobs, the spool, the requests on the wire and the store keep their types; what is taken from
\* the spool to be sent is an entry of it.
THEOREM TypeCorrect == Spec => []TypeOK
  <1>1. Kept => TypeOK
    BY DEF Kept, Typed
  <1> QED  BY <1>1, KeptInit, KeptStep, PTL DEF Spec

\* However many processes report, restart and replay, and however late a request is served, an
\* event is stored once and a sequence number is given to one event.
THEOREM EachStoredOnce == Spec => []StoredOnce
  <1>1. Kept => StoredOnce
    BY DEF Kept
  <1> QED  BY <1>1, KeptInit, KeptStep, PTL DEF Spec

\* An open assignment holds no event that could be applied: replays and late requests leave no
\* gap that is not one.
THEOREM NothingHeldIsNext == Spec => []NextIsFree
  <1>1. Kept => NextIsFree
    BY DEF Kept
  <1> QED  BY <1>1, KeptInit, KeptStep, PTL DEF Spec

\* What one reporter calls queued is in the spool or the store, or counted as a gap; what it calls
\* delivered is stored; an event is stored once, and while none was dropped events are applied in
\* the order they were made - whatever times out, arrives late, is sent again or is killed.
THEOREM OneReporterDelivers == OneReporter /\ Spec => []DeliveryAgrees
  <1>1. Orderly => DeliveryAgrees
    BY OrderlyAgrees
  <1>2. Init => Orderly
    BY OrderlyInit
  <1>3. OneReporter /\ Orderly /\ [Next]_vars => Orderly'
    BY OrderlyNext
  <1>4. CASE OneReporter
    <2>1. Orderly /\ [Next]_vars => Orderly'
      BY <1>3, <1>4
    <2> QED  BY <1>1, <1>2, <2>1, PTL DEF Spec
  <1>5. CASE ~OneReporter
    BY <1>5
  <1> QED  BY <1>4, <1>5

\* A full spool drops a terminal event of one reporter only when all it holds are terminal.
THEOREM OneReporterSparesTerminals == OneReporter /\ Spec => TerminalsSpared
  <1>1. Init => Orderly
    BY OrderlyInit
  <1>2. CASE OneReporter
    <2>1. Orderly /\ [Next]_vars => Orderly'
      BY <1>2, OrderlyNext
    <2>2. Orderly /\ [Next]_vars => [SparesTerminals]_vars
      BY <1>2, OrderlySpares
    <2>3. Spec => [][SparesTerminals]_vars
      BY <1>1, <2>1, <2>2, PTL DEF Spec
    <2> QED  BY <2>3 DEF TerminalsSpared, SparesTerminals
  <1>3. CASE ~OneReporter
    BY <1>3
  <1> QED  BY <1>2, <1>3

=============================================================================
