-------------------------- MODULE AgentServicesProofs --------------------------
(***************************************************************************)
(* Theorems about the services of the companion that the programs of       *)
(* agents meet: the limiter and the snapshots of their reports, their      *)
(* processes, the conversations of the MCP server, the records of what     *)
(* they used, their integrations and the hooks in their settings, for any  *)
(* number of each, any contents and any limits.                            *)
(*                                                                         *)
(* Each service has an inductive invariant of its own, which               *)
(* ServicesProofs takes together.                                          *)
(***************************************************************************)
EXTENDS ActivityIngress, AgentProcesses, McpSession, Usage, ActivityIntegrations, HookSettings,
        SequenceTheorems, FiniteSetTheorems, WellFoundedInduction, TLAPS

-----------------------------------------------------------------------------
(* The limiter.  What an integration was let through and what its bucket   *)
(* would hold if it had no brim stay within a full bucket and what the     *)
(* clock has earned.                                                       *)
Earned(b) == b.tokens + Refill * Larger(0, clock - b.at)
CreditCovered == \A i \in Sources :
  /\ buckets[i] = None => taken[i] = 0
  /\ buckets[i] # None => taken[i] * Cost + Earned(buckets[i]) <= Burst * Cost + Refill * forward

\* The inductive invariant.
Admitted == IngressTypeOK /\ CreditCovered /\ SnapshotsAnswered

\* More units of time earn more.
LEMMA MoreEarnsMore ==
  ASSUME NEW r \in Nat, NEW a \in Nat, NEW b \in Nat, NEW f \in Nat, a <= b + f
  PROVE  r * a <= r * b + r * f
  <1> DEFINE d == b + f - a
  <1>1. d \in Nat /\ a + d = b + f
    OBVIOUS
  <1> HIDE DEF d
  <1>2. r * (a + d) = r * a + r * d /\ r * (b + f) = r * b + r * f
    BY <1>1
  <1>3. r * d \in Nat /\ r * a \in Nat /\ r * b \in Nat /\ r * f \in Nat
    BY <1>1
  <1> QED  BY <1>1, <1>2, <1>3

LEMMA AdmittedInit == IngressInit => Admitted
  <1> SUFFICES ASSUME IngressInit PROVE Admitted
    OBVIOUS
  <1>1. IngressTypeOK
    <2>1. /\ clock \in 0..MaxClock /\ forward \in Nat /\ taken \in [Sources -> Nat]
          /\ capture \in BOOLEAN /\ reporting \subseteq Sources /\ pending \subseteq Reports
      <3>1. /\ clock = 0 /\ forward = 0 /\ taken = [i \in Sources |-> 0]
            /\ reporting = Sources /\ capture = FALSE /\ pending = {}
        BY DEF IngressInit
      <3>2. 0 \in 0..MaxClock
        <4>1. MaxClock \in Nat
          BY IngressConstants
        <4> QED  BY <4>1
      <3> QED  BY <3>1, <3>2
    <2>2. buckets \in [Sources -> Bucket \cup {None}]
      BY DEF IngressInit
    <2>3. events \in [Reports -> {"unknown", "held", "released", "applied"}]
      BY DEF IngressInit
    <2>4. snapshots \in [Snapshots -> SnapshotRow \cup {None}] /\ credited \subseteq Reports
      BY DEF IngressInit
    <2> QED  BY <2>1, <2>2, <2>3, <2>4 DEF IngressTypeOK
  <1>2. CreditCovered /\ SnapshotsAnswered
    BY DEF IngressInit, CreditCovered, SnapshotsAnswered, IsStored
  <1> QED  BY <1>1, <1>2 DEF Admitted

\* The clock earns no more than it moved forward.
LEMMA ClockCovered ==
  ASSUME Admitted, ClockMoves
  PROVE  clock' \in 0..MaxClock /\ forward' \in Nat /\ CreditCovered'
  <1>1. PICK t \in 0..MaxClock : clock' = t /\ forward' = forward + Larger(0, t - clock)
    BY DEF ClockMoves
  <1>2. /\ clock \in Nat /\ t \in Nat /\ forward \in Nat /\ Larger(0, t - clock) \in Nat
        /\ Refill \in Nat /\ Cost \in Nat /\ Burst \in Nat
    BY IngressConstants DEF Admitted, IngressTypeOK, Larger
  <1>3. forward' \in Nat
    BY <1>1, <1>2
  <1>4. ASSUME NEW i \in Sources, buckets[i] # None
        PROVE  taken[i] * Cost + Earned(buckets[i])' <= Burst * Cost + Refill * forward'
    <2> DEFINE b == buckets[i]
               before == Larger(0, clock - b.at)
               after == Larger(0, t - b.at)
               gone == Larger(0, t - clock)
    <2>1. b.tokens \in Nat /\ b.at \in Nat /\ taken[i] \in Nat
      BY <1>4, IngressConstants DEF Admitted, IngressTypeOK, Bucket
    <2>2. before \in Nat /\ after \in Nat /\ gone \in Nat /\ after <= before + gone
      BY <1>2, <2>1 DEF Larger
    <2>3. /\ taken[i] * Cost + (b.tokens + Refill * before) <= Burst * Cost + Refill * forward
      BY <1>4 DEF Admitted, CreditCovered, Earned
    <2>4. Earned(buckets[i])' = b.tokens + Refill * after /\ buckets' = buckets
      BY <1>1 DEF Earned, ClockMoves
    <2>5. forward' = forward + gone
      BY <1>1
    <2> HIDE DEF b, before, after, gone
    <2>6. Refill * after <= Refill * before + Refill * gone
      BY <1>2, <2>2, MoreEarnsMore
    <2>7. Refill * forward' = Refill * forward + Refill * gone
      BY <1>2, <2>2, <2>5
    <2>8. /\ Refill * after \in Nat /\ Refill * before \in Nat /\ Refill * gone \in Nat
          /\ Refill * forward \in Nat /\ taken[i] * Cost \in Nat /\ Burst * Cost \in Nat
      BY <1>2, <2>1, <2>2
    <2> QED  BY <2>1, <2>3, <2>4, <2>6, <2>7, <2>8
  <1>5. buckets' = buckets /\ taken' = taken
    BY DEF ClockMoves
  <1> QED  BY <1>1, <1>3, <1>4, <1>5 DEF Admitted, CreditCovered

\* What a bucket holds is covered, and so is what is left of it.
LEMMA TakeCovered ==
  ASSUME Admitted, NEW i \in Sources, Take(i), UNCHANGED <<clock, forward>>
  PROVE  /\ buckets' \in [Sources -> Bucket \cup {None}] /\ taken' \in [Sources -> Nat]
         /\ CreditCovered'
  <1>1. /\ clock \in 0..MaxClock /\ clock \in Nat /\ forward \in Nat
        /\ Refill \in Nat /\ Cost \in Nat \ {0} /\ Burst \in Nat
        /\ buckets \in [Sources -> Bucket \cup {None}] /\ taken \in [Sources -> Nat]
    BY IngressConstants DEF Admitted, IngressTypeOK
  <1>2. /\ Credit(i) \in Nat
        /\ taken[i] * Cost + Credit(i) <= Burst * Cost + Refill * forward
    <2>1. Burst * Cost \in Nat /\ Refill * forward \in Nat /\ taken[i] * Cost \in Nat
      BY <1>1
    <2>2. CASE buckets[i] = None
      <3>1. taken[i] = 0
        BY <2>2 DEF Admitted, CreditCovered
      <3>2. Credit(i) = Burst * Cost /\ 0 * Cost = 0
        BY <1>1, <2>2 DEF Credit
      <3> QED  BY <2>1, <3>1, <3>2
    <2>3. CASE buckets[i] # None
      <3>1. buckets[i].tokens \in Nat /\ buckets[i].at \in Nat
        BY <1>1, <2>3, IngressConstants DEF Bucket
      <3>2. Larger(0, clock - buckets[i].at) \in Nat
        BY <1>1, <3>1 DEF Larger
      <3>3. Refill * Larger(0, clock - buckets[i].at) \in Nat
        BY <1>1, <3>2
      <3>4. Earned(buckets[i]) \in Nat
        BY <3>1, <3>3 DEF Earned
      <3>5. Credit(i) = Smaller(Burst * Cost, Earned(buckets[i]))
        BY <2>3 DEF Credit, Earned
      <3>6. Credit(i) \in Nat /\ Credit(i) <= Earned(buckets[i])
        BY <2>1, <3>4, <3>5 DEF Smaller
      <3>7. taken[i] * Cost + Earned(buckets[i]) <= Burst * Cost + Refill * forward
        BY <2>3 DEF Admitted, CreditCovered
      <3> QED  BY <2>1, <3>4, <3>6, <3>7
    <2> QED  BY <2>2, <2>3
  <1> DEFINE left == IF Allowed(i) THEN Credit(i) - Cost ELSE Credit(i)
             count == IF Allowed(i) THEN taken[i] + 1 ELSE taken[i]
  <1>3. /\ buckets' = [buckets EXCEPT ![i] = [tokens |-> left, at |-> clock]]
        /\ taken' = [taken EXCEPT ![i] = count]
    BY DEF Take
  <1>4. left \in Nat /\ count \in Nat /\ count * Cost + left <= Burst * Cost + Refill * forward
    <2>1. (taken[i] + 1) * Cost = taken[i] * Cost + Cost
      BY <1>1
    <2>2. /\ taken[i] * Cost \in Nat /\ taken[i] \in Nat
          /\ Burst * Cost \in Nat /\ Refill * forward \in Nat
      BY <1>1
    <2>3. CASE Allowed(i)
      <3>1. left = Credit(i) - Cost /\ count = taken[i] + 1 /\ Credit(i) >= Cost
        BY <2>3 DEF Allowed
      <3>2. count * Cost = taken[i] * Cost + Cost
        BY <2>1, <3>1
      <3> HIDE DEF left, count
      <3> QED  BY <1>1, <1>2, <2>2, <3>1, <3>2
    <2>4. CASE ~Allowed(i)
      BY <1>2, <2>2, <2>4
    <2> QED  BY <2>3, <2>4
  <1> HIDE DEF left, count
  <1>5. [tokens |-> left, at |-> clock] \in Bucket
    BY <1>1, <1>4 DEF Bucket
  <1>6. /\ buckets' \in [Sources -> Bucket \cup {None}] /\ taken' \in [Sources -> Nat]
        /\ buckets'[i] = [tokens |-> left, at |-> clock] /\ taken'[i] = count
        /\ \A j \in Sources \ {i} : buckets'[j] = buckets[j] /\ taken'[j] = taken[j]
    BY <1>1, <1>3, <1>4, <1>5
  <1>7. CreditCovered'
    <2> SUFFICES ASSUME NEW j \in Sources
                 PROVE  /\ buckets'[j] = None => taken'[j] = 0
                        /\ buckets'[j] # None =>
                             taken'[j] * Cost + Earned(buckets[j])' <= Burst * Cost + Refill * forward'
      BY DEF CreditCovered
    <2>1. CASE j = i
      <3>1. buckets'[j] # None
        BY <1>5, <1>6, <2>1, IngressConstants DEF Bucket
      <3>2. Larger(0, clock - clock) = 0 /\ Refill * 0 = 0
        BY <1>1 DEF Larger
      <3>3. Earned(buckets[j])' = left + 0
        BY <1>6, <2>1, <3>2 DEF Earned
      <3> QED  BY <1>4, <1>6, <2>1, <3>1, <3>3
    <2>2. CASE j # i
      BY <1>6, <2>2 DEF Admitted, CreditCovered, Earned
    <2> QED  BY <2>1, <2>2
  <1> QED  BY <1>6, <1>7

-----------------------------------------------------------------------------
(* Snapshots.  What an event's outcome writes into the snapshot it         *)
(* answers.                                                                *)

\* The state of snapshots and events in which everything about them holds.
SnapshotsFit ==
  /\ events \in [Reports -> {"unknown", "held", "released", "applied"}]
  /\ snapshots \in [Snapshots -> SnapshotRow \cup {None}] /\ credited \subseteq Reports
  /\ SnapshotsAnswered

\* An event the store has heard of stays so.
EventsStay == \A x \in Reports : events[x] # "unknown" => events'[x] # "unknown"

\* The store's answer to an event: one that counts is of an event it has.
LEMMA OutcomesFit ==
  ASSUME SnapshotsFit, NEW e \in Reports, NEW outcome \in Outcomes(e), NEW released \in SUBSET Reports,
         events' = EventsAfter(e, outcome, released)
  PROVE  /\ events' \in [Reports -> {"unknown", "held", "released", "applied"}] /\ EventsStay
         /\ Counts(outcome) => events'[e] # "unknown"
  <1>1. outcome \in {"duplicate", "applied", "gap", "rejected"}
    BY DEF Outcomes
  <1>2. CASE outcome = "applied"
    BY <1>2 DEF EventsAfter, SnapshotsFit, EventsStay
  <1>3. CASE outcome = "gap"
    BY <1>3 DEF EventsAfter, SnapshotsFit, EventsStay, Counts
  <1>4. CASE outcome = "rejected"
    BY <1>4 DEF EventsAfter, SnapshotsFit, EventsStay, Counts
  <1>5. CASE outcome = "duplicate"
    <2>1. events' = events
      BY <1>5 DEF EventsAfter
    <2>2. events[e] # "unknown"
      BY <1>5 DEF Outcomes
    <2> QED  BY <2>1, <2>2 DEF SnapshotsFit, EventsStay
  <1> QED  BY <1>1, <1>2, <1>3, <1>4, <1>5

\* Rows that keep what they ask for and stay complete keep what was answered.
LEMMA RowsFit ==
  ASSUME SnapshotsFit, EventsStay, UNCHANGED credited,
         events' \in [Reports -> {"unknown", "held", "released", "applied"}],
         NEW table \in [Snapshots -> SnapshotRow \cup {None}],
         \A z \in Snapshots : /\ IsStored(z) => table[z] # None
                              /\ IsStored(z) => /\ table[z].source = snapshots[z].source
                                                /\ table[z].mode = snapshots[z].mode
                              /\ IsStored(z) /\ snapshots[z].state = "complete" => table[z].state = "complete"
                              /\ table[z] # None /\ table[z].state = "complete" =>
                                   IsStored(z) /\ snapshots[z].state = "complete",
         snapshots' = table
  PROVE  SnapshotsFit'
  <1>1. \A z \in Snapshots, x \in Reports : IsStored(z) => (Answers(x, z)' <=> Answers(x, z))
    BY DEF Answers
  <1>2. ASSUME NEW z \in Snapshots, IsStored(z)', snapshots'[z].state = "complete"
        PROVE  \E x \in Reports : Answers(x, z)' /\ events'[x] # "unknown"
    <2>1. IsStored(z) /\ snapshots[z].state = "complete"
      BY <1>2 DEF IsStored
    <2>2. PICK x \in Reports : Answers(x, z) /\ events[x] # "unknown"
      BY <2>1 DEF SnapshotsFit, SnapshotsAnswered
    <2> QED  BY <1>1, <2>1, <2>2 DEF EventsStay
  <1>3. ASSUME NEW x \in credited', Body[x].snapshot # None
        PROVE  /\ IsStored(Body[x].snapshot)' /\ Answers(x, Body[x].snapshot)'
               /\ snapshots'[Body[x].snapshot].state = "complete"
    <2>1. x \in credited /\ x \in Reports /\ Body[x].snapshot \in Snapshots
      BY <1>3, IngressConstants DEF SnapshotsFit
    <2>2. /\ IsStored(Body[x].snapshot) /\ Answers(x, Body[x].snapshot)
          /\ snapshots[Body[x].snapshot].state = "complete"
      BY <1>3, <2>1 DEF SnapshotsFit, SnapshotsAnswered
    <2> QED  BY <1>1, <2>1, <2>2 DEF IsStored
  <1>4. SnapshotsAnswered'
    BY <1>2, <1>3 DEF SnapshotsAnswered
  <1> QED  BY <1>4 DEF SnapshotsFit

\* Event e has outcome o: it is what the store makes of it, its snapshot is recorded, and the
\* reporter is told.
LEMMA RecordsFit ==
  ASSUME SnapshotsFit, NEW e \in Reports, Ingested(e)
  PROVE  SnapshotsFit'
  <1> DEFINE s == Body[e].snapshot
             i == Body[e].source
             mode == Body[e].mode
  <1>1. /\ s \in Snapshots \cup {None} /\ i \in Sources /\ mode \in SnapshotModes
        /\ None \notin SnapshotRow /\ None \notin Snapshots
    BY IngressConstants DEF SnapshotModes, SnapshotRow
  <1>2. PICK outcome \in Outcomes(e), released \in SUBSET Reports :
          /\ events' = EventsAfter(e, outcome, released)
          /\ RecordEvent(s, i, mode, outcome)
          /\ credited' = IF Counts(outcome) /\ ~(s # None /\ Mismatched(s, i, mode))
                         THEN credited \cup {e} ELSE credited
    BY DEF Ingested
  <1>3. /\ events' \in [Reports -> {"unknown", "held", "released", "applied"}] /\ EventsStay
        /\ Counts(outcome) => events'[e] # "unknown"
    BY <1>2, OutcomesFit
  <1>4. credited' \subseteq Reports /\ credited' \subseteq credited \cup {e}
    BY <1>2 DEF SnapshotsFit
  <1> HIDE DEF s, i, mode
  <1>5. /\ snapshots' \in [Snapshots -> SnapshotRow \cup {None}]
        /\ \A z \in Snapshots : IsStored(z) => IsStored(z)' /\ snapshots'[z].source = snapshots[z].source
                                                 /\ snapshots'[z].mode = snapshots[z].mode
        /\ \A z \in Snapshots : z # s => snapshots'[z] = snapshots[z]
        /\ s # None => IsStored(s)'
        /\ s # None /\ i = snapshots'[s].source /\ mode = snapshots'[s].mode =>
             /\ (IsStored(s) /\ snapshots[s].state = "complete") \/ Counts(outcome)
                  <=> snapshots'[s].state = "complete"
        /\ s # None /\ ~(i = snapshots'[s].source /\ mode = snapshots'[s].mode) =>
             Mismatched(s, i, mode) /\ snapshots'[s] = snapshots[s]
    <2>1. CASE s = None
      BY <2>1, <1>2 DEF RecordEvent, SnapshotsFit, IsStored
    <2>2. CASE s # None
      <3> DEFINE row == IF IsStored(s) THEN snapshots[s] ELSE Asked(i, mode)
      <3>1. s \in Snapshots
        BY <1>1, <2>2
      <3>2. row \in SnapshotRow
        BY <1>1, <3>1 DEF SnapshotsFit, SnapshotRow, IsStored, SnapshotModes, Asked
      <3>3. IsStored(s) => row = snapshots[s]
        OBVIOUS
      <3>4. ~IsStored(s) => row.source = i /\ row.mode = mode /\ row.state = "requested"
        BY DEF Asked
      <3>5. IF row.source # i \/ row.mode # mode THEN UNCHANGED snapshots
            ELSE snapshots' = [snapshots EXCEPT ![s] = [row EXCEPT !.state = AnswerState(row.state, outcome)]]
        BY <1>2, <2>2 DEF RecordEvent
      <3> HIDE DEF row
      <3>6. CASE row.source # i \/ row.mode # mode
        <4>1. UNCHANGED snapshots /\ IsStored(s) /\ row = snapshots[s]
          BY <3>3, <3>4, <3>5, <3>6
        <4> QED  BY <2>2, <3>1, <3>6, <4>1 DEF SnapshotsFit, IsStored, Mismatched
      <3>7. CASE row.source = i /\ row.mode = mode
        <4> DEFINE state == AnswerState(row.state, outcome)
                   new == [source |-> i, mode |-> mode, state |-> state]
        <4>1. state \in {"requested", "waiting", "complete", "failed"}
          BY DEF AnswerState
        <4>2. state = "complete" <=> row.state = "complete" \/ Counts(outcome)
          BY DEF AnswerState, Counts
        <4>3. [row EXCEPT !.state = state] = new
          BY <3>2, <3>7 DEF SnapshotRow
        <4>4. snapshots' = [snapshots EXCEPT ![s] = new]
          BY <3>5, <3>7, <4>3
        <4>5. new \in SnapshotRow /\ new.source = i /\ new.mode = mode /\ new.state = state
          BY <1>1, <4>1 DEF SnapshotRow
        <4> HIDE DEF state, new
        <4>6. /\ snapshots' \in [Snapshots -> SnapshotRow \cup {None}] /\ snapshots'[s] = new
              /\ \A z \in Snapshots : z # s => snapshots'[z] = snapshots[z]
          BY <3>1, <4>4, <4>5 DEF SnapshotsFit
        <4>7. new # None
          BY <1>1, <4>5
        <4>8. IsStored(s) => snapshots[s].source = i /\ snapshots[s].mode = mode
          BY <3>3, <3>7
        <4>9. IsStored(s) /\ snapshots[s].state = "complete" <=> row.state = "complete"
          BY <3>3, <3>4
        <4> QED  BY <2>2, <3>1, <4>2, <4>5, <4>6, <4>7, <4>8, <4>9 DEF IsStored
      <3> QED  BY <3>6, <3>7
    <2> QED  BY <2>1, <2>2
  <1>6. \A z \in Snapshots, x \in Reports : IsStored(z) => (Answers(x, z)' <=> Answers(x, z))
    BY <1>5 DEF Answers
  <1>7. s # None => (Answers(e, s)' <=> i = snapshots'[s].source /\ mode = snapshots'[s].mode)
    BY DEF Answers, s, i, mode
  <1>8. ASSUME NEW z \in Snapshots, IsStored(z)', snapshots'[z].state = "complete"
        PROVE  \E x \in Reports : Answers(x, z)' /\ events'[x] # "unknown"
    <2>1. CASE z = s /\ Answers(e, s)' /\ Counts(outcome)
      BY <1>3, <2>1
    <2>2. CASE ~(z = s /\ Answers(e, s)' /\ Counts(outcome))
      <3>1. IsStored(z) /\ snapshots[z].state = "complete"
        <4>1. z # None
          BY <1>1
        <4>2. CASE z # s
          BY <1>5, <1>8, <4>2 DEF IsStored
        <4>3. CASE z = s /\ ~Answers(e, s)'
          BY <1>5, <1>7, <1>8, <4>1, <4>3 DEF IsStored
        <4>4. CASE z = s /\ Answers(e, s)' /\ ~Counts(outcome)
          BY <1>5, <1>7, <1>8, <4>1, <4>4
        <4> QED  BY <2>2, <4>2, <4>3, <4>4
      <3>2. PICK x \in Reports : Answers(x, z) /\ events[x] # "unknown"
        BY <3>1 DEF SnapshotsFit, SnapshotsAnswered
      <3> QED  BY <1>3, <1>6, <3>1, <3>2 DEF EventsStay
    <2> QED  BY <2>1, <2>2
  <1>9. ASSUME NEW x \in credited', Body[x].snapshot # None
        PROVE  /\ IsStored(Body[x].snapshot)' /\ Answers(x, Body[x].snapshot)'
               /\ snapshots'[Body[x].snapshot].state = "complete"
    <2>1. x \in Reports /\ Body[x].snapshot \in Snapshots
      BY <1>4, <1>9, IngressConstants
    <2>2. CASE x \in credited
      <3>1. /\ IsStored(Body[x].snapshot) /\ Answers(x, Body[x].snapshot)
            /\ snapshots[Body[x].snapshot].state = "complete"
        BY <1>9, <2>2 DEF SnapshotsFit, SnapshotsAnswered
      <3>2. snapshots'[Body[x].snapshot].state = "complete"
        <4>1. CASE Body[x].snapshot # s
          BY <1>5, <2>1, <3>1, <4>1
        <4>2. CASE Body[x].snapshot = s
          BY <1>5, <1>9, <3>1, <4>2
        <4> QED  BY <4>1, <4>2
      <3> QED  BY <1>5, <1>6, <2>1, <3>1, <3>2
    <2>3. CASE x \notin credited
      <3>1. x = e /\ Counts(outcome) /\ s # None /\ Body[x].snapshot = s /\ ~Mismatched(s, i, mode)
        BY <1>2, <1>9, <2>3 DEF s
      <3>2. i = snapshots'[s].source /\ mode = snapshots'[s].mode
        BY <1>5, <3>1
      <3> QED  BY <1>5, <1>7, <3>1, <3>2
    <2> QED  BY <2>2, <2>3
  <1>10. SnapshotsAnswered'
    BY <1>8, <1>9 DEF SnapshotsAnswered
  <1> QED  BY <1>3, <1>4, <1>5, <1>10 DEF SnapshotsFit

\* A snapshot that is requested is not complete, and none was told of one that was not stored.
LEMMA AddedFits ==
  ASSUME SnapshotsFit, NEW s \in Snapshots, ~IsStored(s),
         NEW row \in SnapshotRow, row.state # "complete"
  PROVE  LET table == [snapshots EXCEPT ![s] = row] IN
         /\ table \in [Snapshots -> SnapshotRow \cup {None}]
         /\ \A z \in Snapshots :
              /\ IsStored(z) => table[z] = snapshots[z] /\ table[z] # None
              /\ table[z] # None /\ table[z].state = "complete" => IsStored(z) /\ table[z] = snapshots[z]
  BY DEF SnapshotsFit, IsStored

LEMMA RequestsFit ==
  ASSUME SnapshotsFit, NEW s \in Snapshots, ~IsStored(s),
         NEW row \in SnapshotRow, row.state # "complete",
         snapshots' = [snapshots EXCEPT ![s] = row], UNCHANGED <<events, credited>>
  PROVE  SnapshotsFit'
  <1> DEFINE table == [snapshots EXCEPT ![s] = row]
  <1>1. /\ table \in [Snapshots -> SnapshotRow \cup {None}]
        /\ \A z \in Snapshots :
              /\ IsStored(z) => table[z] = snapshots[z] /\ table[z] # None
              /\ table[z] # None /\ table[z].state = "complete" => IsStored(z) /\ table[z] = snapshots[z]
    BY AddedFits
  <1>2. EventsStay /\ events' \in [Reports -> {"unknown", "held", "released", "applied"}]
    BY DEF SnapshotsFit, EventsStay
  <1>3. snapshots' = table
    OBVIOUS
  <1> HIDE DEF table
  <1> QED  BY <1>1, <1>2, <1>3, RowsFit

LEMMA ManualFits ==
  ASSUME SnapshotsFit, NEW e \in Reports, ManualReport(e)
  PROVE  SnapshotsFit'
  <1>1. /\ Body[e].snapshot \in Snapshots /\ ~IsStored(Body[e].snapshot)
        /\ Asked(Body[e].source, "explicit-report") \in SnapshotRow
        /\ Asked(Body[e].source, "explicit-report").state # "complete"
    BY IngressConstants DEF ManualReport, ManualRequest, SnapshotRow, SnapshotModes, Asked
  <1>2. CASE Ingested(e)
    BY <1>2, RecordsFit
  <1>3. CASE /\ snapshots' = [snapshots EXCEPT ![Body[e].snapshot] = Asked(Body[e].source, "explicit-report")]
             /\ UNCHANGED <<events, credited>>
    BY <1>1, <1>3, RequestsFit
  <1> QED  BY <1>2, <1>3 DEF ManualReport

\* The process ends, having added at most a snapshot that was asked for; what was complete was
\* not requested any more.
LEMMA EndFits ==
  ASSUME SnapshotsFit, EventsStay,
         events' \in [Reports -> {"unknown", "held", "released", "applied"}],
         NEW table \in [Snapshots -> SnapshotRow \cup {None}],
         \A z \in Snapshots :
           /\ IsStored(z) => table[z] = snapshots[z] /\ table[z] # None
           /\ table[z] # None /\ table[z].state = "complete" => IsStored(z) /\ table[z] = snapshots[z],
         ProcessEnds(table)
  PROVE  SnapshotsFit'
  <1> DEFINE left == CutOff(table)
  <1>1. ASSUME NEW z \in Snapshots
        PROVE  /\ left[z] \in SnapshotRow \cup {None} /\ (left[z] # None <=> table[z] # None)
               /\ table[z] # None => /\ left[z].source = table[z].source /\ left[z].mode = table[z].mode
                                     /\ left[z].state = "complete" <=> table[z].state = "complete"
    <2>1. table[z] \in SnapshotRow \cup {None} /\ None \notin SnapshotRow
      BY IngressConstants DEF SnapshotRow, SnapshotModes
    <2>2. CASE table[z] # None /\ table[z].state = "requested"
      <3> DEFINE row == [table[z] EXCEPT !.state = "failed"]
      <3>1. table[z] \in SnapshotRow
        BY <2>1, <2>2
      <3>2. row \in SnapshotRow /\ row.source = table[z].source /\ row.mode = table[z].mode /\ row.state = "failed"
        BY <3>1 DEF SnapshotRow
      <3>3. left[z] = row
        BY <2>2 DEF CutOff
      <3> HIDE DEF row, left
      <3> QED  BY <2>1, <2>2, <3>2, <3>3
    <2>3. CASE ~(table[z] # None /\ table[z].state = "requested")
      <3>1. left[z] = table[z]
        BY <2>3 DEF CutOff
      <3> QED  BY <2>1, <3>1
    <2> QED  BY <2>2, <2>3
  <1>2. left \in [Snapshots -> SnapshotRow \cup {None}]
    <2>1. left = [z \in Snapshots |-> left[z]]
      BY DEF CutOff
    <2> HIDE DEF left
    <2> QED  BY <1>1, <2>1
  <1>3. snapshots' = left /\ UNCHANGED credited
    BY DEF ProcessEnds
  <1> HIDE DEF left
  <1>4. \A z \in Snapshots :
          /\ IsStored(z) => left[z] # None
          /\ IsStored(z) => left[z].source = snapshots[z].source /\ left[z].mode = snapshots[z].mode
          /\ IsStored(z) /\ snapshots[z].state = "complete" => left[z].state = "complete"
          /\ left[z] # None /\ left[z].state = "complete" => IsStored(z) /\ snapshots[z].state = "complete"
    BY <1>1
  <1> QED  BY <1>2, <1>3, <1>4, RowsFit

\* Wherever the process ends, what it had written stays consistent with the snapshots.
LEMMA InterruptionsFit ==
  ASSUME SnapshotsFit,
         \/ IngressRestart
         \/ \E e \in Reports : HandleInterrupted(e) \/ ManualReportInterrupted(e)
  PROVE  SnapshotsFit'
  <1> DEFINE Fits(table) ==
        /\ table \in [Snapshots -> SnapshotRow \cup {None}]
        /\ \A z \in Snapshots :
             /\ IsStored(z) => table[z] = snapshots[z] /\ table[z] # None
             /\ table[z] # None /\ table[z].state = "complete" => IsStored(z) /\ table[z] = snapshots[z]
  <1>1. Fits(snapshots)
    BY DEF SnapshotsFit, IsStored
  <1>2. CASE IngressRestart
    <2>1. EventsStay /\ events' \in [Reports -> {"unknown", "held", "released", "applied"}] /\ ProcessEnds(snapshots)
      BY <1>2 DEF IngressRestart, SnapshotsFit, EventsStay
    <2> QED  BY <1>1, <2>1, EndFits
  <1>3. ASSUME NEW e \in Reports, NEW outcome \in Outcomes(e), NEW released \in SUBSET Reports,
               events' = EventsAfter(e, outcome, released),
               NEW s, s = Body[e].snapshot, NEW mode \in SnapshotModes,
               \/ ProcessEnds(snapshots)
               \/ /\ s # None /\ ~IsStored(s)
                  /\ ProcessEnds([snapshots EXCEPT ![s] = Asked(Body[e].source, mode)])
        PROVE  SnapshotsFit'
    <2>1. EventsStay /\ events' \in [Reports -> {"unknown", "held", "released", "applied"}]
      BY <1>3, OutcomesFit
    <2>2. CASE ProcessEnds(snapshots)
      BY <1>1, <2>1, <2>2, EndFits
    <2>3. CASE s # None /\ ~IsStored(s) /\ ProcessEnds([snapshots EXCEPT ![s] = Asked(Body[e].source, mode)])
      <3> DEFINE row == Asked(Body[e].source, mode)
      <3>1. s \in Snapshots /\ row \in SnapshotRow /\ row.state # "complete"
        BY <1>3, <2>3, IngressConstants DEF SnapshotRow, SnapshotModes, Asked
      <3> HIDE DEF row
      <3>2. Fits([snapshots EXCEPT ![s] = row])
        BY <2>3, <3>1, AddedFits
      <3>3. ProcessEnds([snapshots EXCEPT ![s] = row])
        BY <2>3 DEF row
      <3> QED  BY <2>1, <3>2, <3>3, EndFits
    <2> QED  BY <1>3, <2>2, <2>3
  <1> HIDE DEF Fits
  <1>4. ASSUME NEW e \in Reports, HandleInterrupted(e)
        PROVE  SnapshotsFit'
    <2>1. Body[e].mode \in SnapshotModes
      BY IngressConstants DEF SnapshotModes
    <2> QED  BY <1>3, <1>4, <2>1 DEF HandleInterrupted
  <1>5. ASSUME NEW e \in Reports, ManualReportInterrupted(e)
        PROVE  SnapshotsFit'
    <2>1. /\ Body[e].snapshot # None /\ ~IsStored(Body[e].snapshot)
          /\ events[e] = "unknown" /\ "explicit-report" \in SnapshotModes /\ {} \in SUBSET Reports
          /\ ProcessEnds([snapshots EXCEPT ![Body[e].snapshot] = Asked(Body[e].source, "explicit-report")])
      BY <1>5 DEF ManualReportInterrupted, ManualRequest, SnapshotModes
    <2>2. PICK outcome \in {"applied", "rejected"} : events' = EventsAfter(e, outcome, {})
      BY <1>5 DEF ManualReportInterrupted
    <2>3. outcome \in Outcomes(e)
      BY <2>1 DEF Outcomes
    <2> QED  BY <1>3, <2>1, <2>2, <2>3
  <1> QED  BY <1>2, <1>4, <1>5

\* Every step keeps the invariant.
LEMMA AdmittedStep == Admitted /\ [IngressNext]_ingressVars => Admitted'
  <1> SUFFICES ASSUME Admitted, [IngressNext]_ingressVars PROVE Admitted'
    OBVIOUS
  <1>0. /\ IngressTypeOK /\ CreditCovered /\ SnapshotsFit
    BY DEF Admitted, SnapshotsFit, IngressTypeOK
  <1>1. UNCHANGED <<events, snapshots, credited>> => SnapshotsFit'
    BY <1>0 DEF SnapshotsFit, SnapshotsAnswered, Answers, IsStored
  <1>2. UNCHANGED <<clock, forward, buckets, taken>> => CreditCovered'
    BY <1>0 DEF CreditCovered, Earned
  <1> DEFINE TypesKept == /\ clock' \in 0..MaxClock /\ forward' \in Nat
                          /\ buckets' \in [Sources -> Bucket \cup {None}] /\ taken' \in [Sources -> Nat]
                          /\ reporting' \subseteq Sources /\ capture' \in BOOLEAN
                          /\ pending' \subseteq Reports
  <1>3. TypesKept /\ SnapshotsFit' /\ CreditCovered' => Admitted'
    BY DEF Admitted, SnapshotsFit, IngressTypeOK
  <1>4. CASE ClockMoves
    <2>1. UNCHANGED <<buckets, taken, reporting, capture, pending, events, snapshots, credited>>
      BY <1>4 DEF ClockMoves
    <2> QED  BY <1>0, <1>1, <1>3, <1>4, <2>1, ClockCovered DEF IngressTypeOK
  <1>5. CASE Managed
    <2>1. /\ UNCHANGED <<clock, forward, buckets, taken, pending, events, snapshots, credited>>
          /\ reporting' \subseteq Sources /\ capture' \in BOOLEAN
      BY <1>0, <1>5 DEF Managed, IngressTypeOK
    <2> QED  BY <1>0, <1>1, <1>2, <1>3, <2>1 DEF IngressTypeOK
  <1>6. CASE \/ IngressRestart
             \/ \E e \in Reports : HandleInterrupted(e) \/ ManualReportInterrupted(e)
    <2>1. /\ buckets' = [i \in Sources |-> None] /\ taken' = [i \in Sources |-> 0] /\ forward' = 0
          /\ pending' = {} /\ UNCHANGED <<clock, reporting, capture>>
      BY <1>6 DEF IngressRestart, HandleInterrupted, ManualReportInterrupted, ProcessEnds
    <2>2. CreditCovered'
      BY <2>1 DEF CreditCovered
    <2>3. TypesKept
      BY <1>0, <2>1 DEF IngressTypeOK
    <2> QED  BY <1>0, <1>3, <1>6, <2>2, <2>3, InterruptionsFit
  <1>7. ASSUME NEW s \in Snapshots, NEW i \in Sources, NEW mode \in SnapshotModes,
               RequestSnapshot(s, i, mode)
        PROVE  Admitted'
    <2> DEFINE row == [source |-> i, mode |-> mode, state |-> RequestedState(mode)]
    <2>1. /\ ~IsStored(s) /\ snapshots' = [snapshots EXCEPT ![s] = row]
          /\ UNCHANGED <<clock, forward, buckets, taken, reporting, capture, pending, events, credited>>
      BY <1>7 DEF RequestSnapshot
    <2>2. row \in SnapshotRow /\ row.state # "complete"
      BY DEF SnapshotRow, RequestedState
    <2> HIDE DEF row
    <2>3. SnapshotsFit'
      BY <1>0, <2>1, <2>2, RequestsFit
    <2> QED  BY <1>0, <1>2, <1>3, <2>1, <2>3 DEF IngressTypeOK
  <1>8. ASSUME NEW e \in Reports, Authenticate(e)
        PROVE  Admitted'
    <2>1. /\ UNCHANGED <<clock, forward, buckets, taken, reporting, capture, events, snapshots, credited>>
          /\ pending' \subseteq Reports
      BY <1>8 DEF Authenticate
    <2> QED  BY <1>0, <1>1, <1>2, <1>3, <2>1 DEF IngressTypeOK
  <1>9. ASSUME NEW e \in Reports, ManualReport(e)
        PROVE  Admitted'
    <2>1. UNCHANGED <<clock, forward, buckets, taken, reporting, capture, pending>>
      BY <1>9 DEF ManualReport
    <2> QED  BY <1>0, <1>2, <1>3, <1>9, <2>1, ManualFits DEF IngressTypeOK
  <1>10. ASSUME NEW e \in Reports, Handle(e)
         PROVE  Admitted'
    <2> DEFINE i == Body[e].source
    <2>1. i \in Sources
      BY IngressConstants
    <2>2. /\ pending' \subseteq Reports /\ UNCHANGED <<clock, forward, reporting, capture>>
      BY <1>0, <1>10 DEF Handle, IngressTypeOK
    <2>3. \/ UNCHANGED <<buckets, taken>> /\ UNCHANGED <<events, snapshots, credited>>
          \/ Take(i) /\ (Ingested(e) \/ UNCHANGED <<events, snapshots, credited>>)
      BY <1>10 DEF Handle
    <2> HIDE DEF i
    <2>4. CASE UNCHANGED <<buckets, taken>> /\ UNCHANGED <<events, snapshots, credited>>
      BY <1>0, <1>1, <1>2, <1>3, <2>2, <2>4 DEF IngressTypeOK
    <2>5. CASE Take(i) /\ (Ingested(e) \/ UNCHANGED <<events, snapshots, credited>>)
      <3>1. SnapshotsFit'
        BY <1>0, <1>1, <2>5, RecordsFit
      <3>2. /\ buckets' \in [Sources -> Bucket \cup {None}] /\ taken' \in [Sources -> Nat]
            /\ CreditCovered'
        BY <2>1, <2>2, <2>5, TakeCovered
      <3> QED  BY <1>0, <1>3, <2>2, <3>1, <3>2 DEF IngressTypeOK
    <2> QED  BY <2>3, <2>4, <2>5
  <1>11. CASE UNCHANGED ingressVars
    BY <1>0, <1>1, <1>2, <1>3, <1>11 DEF ingressVars, IngressTypeOK
  <1> QED  BY <1>4, <1>5, <1>6, <1>7, <1>8, <1>9, <1>10, <1>11 DEF IngressNext

\* What was taken of a bucket was covered by what was earned.
LEMMA AdmittedSafe ==
  ASSUME Admitted
  PROVE  RateBounded /\ SnapshotsAnswered
  <1>1. RateBounded
    <2> SUFFICES ASSUME NEW i \in Sources
                 PROVE  taken[i] * Cost <= Burst * Cost + Refill * forward
      BY DEF RateBounded
    <2>1. /\ clock \in Nat /\ forward \in Nat /\ Refill \in Nat /\ Cost \in Nat /\ Burst \in Nat
          /\ taken[i] \in Nat /\ buckets[i] \in Bucket \cup {None}
      BY IngressConstants DEF Admitted, IngressTypeOK
    <2>2. taken[i] * Cost \in Nat /\ Burst * Cost \in Nat /\ Refill * forward \in Nat
      BY <2>1
    <2>3. CASE buckets[i] = None
      <3>1. taken[i] = 0 /\ 0 * Cost = 0
        BY <2>1, <2>3 DEF Admitted, CreditCovered
      <3> QED  BY <2>2, <3>1
    <2>4. CASE buckets[i] # None
      <3>1. buckets[i].tokens \in Nat /\ buckets[i].at \in Nat
        BY <2>1, <2>4, IngressConstants DEF Bucket
      <3>2. Larger(0, clock - buckets[i].at) \in Nat
        BY <2>1, <3>1 DEF Larger
      <3>3. Refill * Larger(0, clock - buckets[i].at) \in Nat
        BY <2>1, <3>2
      <3>4. Earned(buckets[i]) \in Nat
        BY <3>1, <3>3 DEF Earned
      <3>5. taken[i] * Cost + Earned(buckets[i]) <= Burst * Cost + Refill * forward
        BY <2>4 DEF Admitted, CreditCovered
      <3> QED  BY <2>2, <3>4, <3>5
    <2> QED  BY <2>3, <2>4
  <1> QED  BY <1>1 DEF Admitted

\* However the clock is set, an integration is let through no more events than a full bucket and
\* what the clock's forward movement earned.
THEOREM RateStaysBounded == IngressSpec => []RateBounded
  BY AdmittedSafe, AdmittedInit, AdmittedStep, PTL DEF IngressSpec

\* A complete snapshot has an event that answers it, and a reporter told that its event counts
\* finds its snapshot complete, whatever is resent, held, refused and cut off between two writes.
THEOREM SnapshotsStayAnswered == IngressSpec => []SnapshotsAnswered
  <1>1. Admitted => SnapshotsAnswered
    BY DEF Admitted
  <1> QED  BY <1>1, AdmittedInit, AdmittedStep, PTL DEF IngressSpec

-----------------------------------------------------------------------------
(* The processes of agents.                                                *)
PiSteps == {"idle", "opening", "model", "effort", "state", "prompting", "working", "closing", "ended"}
PiResults == {None, "START_FAILED", "REFUSED", "CLOSED", "REQUEST_TIMEOUT", "EXECUTION_FAILED", "EXECUTION_STOPPED", "completed"}
PiRecord == [step : PiSteps, result : PiResults, effort : BOOLEAN]
CommandResults == {None, "timed-out", "output-limit", "exited", "failed-exit", "not-found", "failed"}
CommandRecord == [use : {None, "detect", "run"}, step : {"idle", "running", "settled"}, printed : 0..MaxOutput,
                  result : CommandResults, child : {"none", "running", "killed", "gone"}]

\* The agent's end is told once the prompt may have been sent, to a promise that is made before;
\* a promise that was rejected had not been told of one.
EndIsHeard ==
  /\ pi.step \in {"idle", "opening", "model", "effort", "state"} => waiter = "none" /\ ~told
  /\ pi.step \in {"prompting", "working"} => waiter # "none"
  /\ waiter \in {"pending", "rejected"} => ~told
  /\ waiter = "ended" => told
  /\ pi.result = "EXECUTION_STOPPED" => waiter = "rejected"
  /\ pi.result = "completed" => waiter = "ended"

ProcessesInv ==
  /\ pi \in PiRecord /\ session \in {"none", "open", "closed"}
  /\ waiter \in {"none", "pending", "ended", "failed", "rejected"}
  /\ told \in BOOLEAN
  /\ EndIsHeard
  /\ pi.step \in {"idle", "opening"} => piChild = "none"
  /\ pi.step = "ended" => piChild # "running"
  /\ command \in CommandRecord
  /\ command.step = "idle" => command.child = "none"
  /\ command.step = "settled" => command.child # "running"
  /\ command.result = "exited" => command.step = "settled" /\ command.child = "gone"

LEMMA ProcessesStart == ProcessesInit => ProcessesInv
  <1> SUFFICES ASSUME ProcessesInit PROVE ProcessesInv
    OBVIOUS
  <1>1. pi \in PiRecord /\ pi.step = "idle" /\ pi.result = None
    <2>1. PICK e \in BOOLEAN : pi = [step |-> "idle", result |-> None, effort |-> e]
      BY DEF ProcessesInit
    <2>2. "idle" \in PiSteps /\ None \in PiResults
      BY DEF PiSteps, PiResults
    <2> QED BY <2>1, <2>2 DEF PiRecord
  <1>2. /\ command \in CommandRecord /\ command.step = "idle" /\ command.result = None
        /\ command.child = "none"
    <2>1. 0 \in 0..MaxOutput /\ None \in CommandResults /\ None \in {None, "detect", "run"}
      BY ProcessesConstants DEF CommandResults
    <2> QED BY <2>1 DEF ProcessesInit, CommandRecord
  <1>3. None \notin {"completed", "EXECUTION_STOPPED", "exited"}
    BY ProcessesConstants
  <1> QED BY <1>1, <1>2, <1>3 DEF ProcessesInit, ProcessesInv, EndIsHeard

\* With another step and result.
LEMMA PiRecords ==
  ASSUME pi \in PiRecord, NEW step \in PiSteps, NEW result \in PiResults
  PROVE  /\ [pi EXCEPT !.step = step] \in PiRecord
         /\ [pi EXCEPT !.step = step].step = step /\ [pi EXCEPT !.step = step].result = pi.result
         /\ [pi EXCEPT !.step = step, !.result = result] \in PiRecord
         /\ [pi EXCEPT !.step = step, !.result = result].step = step
         /\ [pi EXCEPT !.step = step, !.result = result].result = result
  BY DEF PiRecord

\* What any step of an execution keeps, given what it does to the step and the result.
LEMMA PiKeeps ==
  ASSUME ProcessesInv, PiNext
  PROVE  ProcessesInv'
  <1>p. pi \in PiRecord /\ pi.step \in PiSteps /\ pi.result \in PiResults /\ pi.effort \in BOOLEAN
    BY DEF ProcessesInv, PiRecord
  <1>c. command' = command
    BY DEF PiNext, OpenSession, RequestFails, Conclude, CloseSession, PiExits, PiMisbehaves, AbortPi, WaiterTimesOut,
           Spawned, PiAnswered, AgentEnds
  <1>f. ASSUME NEW code \in PiResults
        PROVE  Failed(code) \in PiRecord /\ Failed(code).step = "closing" /\ Failed(code).result = code
    BY <1>p, PiRecords, Zenon DEF Failed, PiSteps
  <1>r. {"START_FAILED", "REFUSED", "CLOSED", "REQUEST_TIMEOUT", "EXECUTION_FAILED", "EXECUTION_STOPPED", "completed"} \subseteq PiResults
    BY DEF PiResults
  <1>s. PiSteps = {"idle", "opening", "model", "effort", "state", "prompting", "working", "closing", "ended"}
    BY DEF PiSteps
  <1>1. CASE OpenSession
    <2>1. pi' \in PiRecord /\ pi'.step = "opening" /\ pi'.result = pi.result
      BY <1>1, <1>p, <1>s, PiRecords, Zenon DEF OpenSession
    <2>2. pi.step = "idle" /\ session' = "open" /\ UNCHANGED <<piChild, waiter, told>>
      BY <1>1 DEF OpenSession
    <2> QED BY <1>c, <2>1, <2>2 DEF ProcessesInv, EndIsHeard
  <1>2. CASE RequestFails
    <2>1. PICK code \in PiResults : code \in {"CLOSED", "REQUEST_TIMEOUT"} /\ pi' = Failed(code)
      BY <1>2, <1>r DEF RequestFails
    <2>2. UNCHANGED <<session, piChild, waiter, told>>
      BY <1>2 DEF RequestFails
    <2> QED BY <1>c, <1>f, <2>1, <2>2 DEF ProcessesInv, EndIsHeard
  <1>3. CASE Conclude
    <2>1. /\ pi.step = "working" /\ waiter \in {"ended", "failed", "rejected"}
          /\ UNCHANGED <<session, piChild, waiter, told>>
      BY <1>3 DEF Conclude
    <2>2. /\ pi' \in PiRecord /\ pi'.step = "closing"
          /\ pi'.result = CASE waiter = "ended" -> "completed" [] waiter = "failed" -> "EXECUTION_FAILED" [] OTHER -> "EXECUTION_STOPPED"
      <3>1. CASE waiter = "ended"
        <4>1. pi' = Failed("completed")
          BY <1>3, <3>1 DEF Conclude, Failed
        <4> QED BY <1>f, <1>r, <3>1, <4>1
      <3>2. CASE waiter = "failed"
        <4>1. pi' = Failed("EXECUTION_FAILED")
          BY <1>3, <3>2 DEF Conclude
        <4> QED BY <1>f, <1>r, <3>2, <4>1
      <3>3. CASE waiter = "rejected"
        <4>1. pi' = Failed("EXECUTION_STOPPED")
          BY <1>3, <3>3 DEF Conclude
        <4> QED BY <1>f, <1>r, <3>3, <4>1
      <3> QED BY <2>1, <3>1, <3>2, <3>3
    <2> QED BY <1>c, <2>1, <2>2 DEF ProcessesInv, EndIsHeard
  <1>4. CASE CloseSession
    <2>1. pi' \in PiRecord /\ pi'.step = "ended" /\ pi'.result = pi.result
      BY <1>4, <1>p, <1>s, PiRecords, Zenon DEF CloseSession
    <2>2. /\ session' = "closed" /\ UNCHANGED <<waiter, told>>
          /\ piChild' = IF piChild = "running" THEN "killed" ELSE piChild
      BY <1>4 DEF CloseSession
    <2> QED BY <1>c, <2>1, <2>2 DEF ProcessesInv, EndIsHeard
  <1>5. ASSUME NEW child, FailAll(child), child \in {"gone", "killed", "none"},
               pi.step \in {"idle", "opening"} => child = "none"
        PROVE  /\ pi' \in PiRecord /\ session' \in {"none", "open", "closed"}
               /\ pi'.step = pi.step \/ (pi.step \in {"model", "effort", "state", "prompting"} /\ pi'.step = "closing")
               /\ pi'.result = pi.result \/ pi'.result = "CLOSED"
               /\ pi'.step \in {"idle", "opening"} => piChild' = "none"
               /\ pi'.step = "ended" => piChild' # "running"
    <2>1. CASE Requesting
      BY <1>5, <1>f, <1>r, <2>1 DEF FailAll, Requesting
    <2>2. CASE ~Requesting
      BY <1>5, <1>p, <2>2 DEF FailAll, Requesting
    <2> QED BY <2>1, <2>2
  <1>6. ASSUME UNCHANGED <<waiter, told>>, pi' \in PiRecord, session' \in {"none", "open", "closed"},
               pi'.step = pi.step \/ (pi.step \in {"model", "effort", "state", "prompting"} /\ pi'.step = "closing"),
               pi'.result = pi.result \/ pi'.result = "CLOSED",
               pi'.step \in {"idle", "opening"} => piChild' = "none",
               pi'.step = "ended" => piChild' # "running"
        PROVE  ProcessesInv'
    BY <1>6, <1>c DEF ProcessesInv, EndIsHeard
  <1>7. CASE PiExits
    <2>1. piChild \in {"running", "killed"} /\ pi.step \notin {"idle", "opening"} /\ UNCHANGED <<waiter, told>>
      BY <1>7 DEF PiExits, ProcessesInv
    <2>2. CASE session = "open"
      BY <1>5, <1>6, <1>7, <2>1, <2>2 DEF PiExits
    <2>3. CASE session # "open"
      BY <1>6, <1>7, <1>p, <2>1, <2>3 DEF PiExits, ProcessesInv
    <2> QED BY <2>2, <2>3
  <1>8. CASE PiMisbehaves
    <2>1. pi.step \notin {"idle", "opening"}
      BY <1>8 DEF PiMisbehaves, ProcessesInv
    <2> QED BY <1>5, <1>6, <1>8, <2>1 DEF PiMisbehaves
  <1>9. ASSUME RejectWaiter, UNCHANGED told, pi' \in PiRecord, session' \in {"none", "open", "closed"},
               pi'.step = pi.step \/ (pi.step \in {"model", "effort", "state", "prompting"} /\ pi'.step = "closing"),
               pi'.result = pi.result \/ pi'.result = "CLOSED",
               pi'.step \in {"idle", "opening"} => piChild' = "none",
               pi'.step = "ended" => piChild' # "running"
        PROVE  ProcessesInv'
    BY <1>9, <1>c DEF ProcessesInv, EndIsHeard, RejectWaiter
  <1>10. CASE AbortPi
    <2>1. /\ RejectWaiter /\ UNCHANGED told /\ pi.step \notin {"idle", "ended"}
          /\ IF session = "open" THEN FailAll(IF piChild = "none" THEN "none" ELSE "killed")
             ELSE UNCHANGED <<pi, session, piChild>>
      BY <1>10 DEF AbortPi
    <2>2. CASE session = "open"
      <3>1. PICK child : child = IF piChild = "none" THEN "none" ELSE "killed"
        OBVIOUS
      <3>2. FailAll(child) /\ child \in {"gone", "killed", "none"} /\ (pi.step \in {"idle", "opening"} => child = "none")
        BY <2>1, <2>2, <3>1 DEF ProcessesInv
      <3> QED BY <1>5, <1>9, <2>1, <3>2
    <2>3. CASE session # "open"
      BY <1>9, <1>p, <2>1, <2>3 DEF ProcessesInv
    <2> QED BY <2>2, <2>3
  <1>11. CASE WaiterTimesOut
    BY <1>9, <1>11, <1>p DEF WaiterTimesOut, ProcessesInv
  <1>12. ASSUME NEW started \in BOOLEAN, Spawned(started)
         PROVE  ProcessesInv'
    <2>1. pi.step = "opening" /\ UNCHANGED <<waiter, told>>
      BY <1>12 DEF Spawned
    <2>2. CASE started
      <3>1. pi' \in PiRecord /\ pi'.step = "model" /\ pi'.result = pi.result /\ session' = session
        <4>1. pi' = [pi EXCEPT !.step = "model"] /\ session' = session
          BY <1>12, <2>2 DEF Spawned
        <4>2. "model" \in PiSteps
          BY <1>s
        <4> QED BY <1>p, <4>1, <4>2, PiRecords
      <3> QED BY <1>c, <2>1, <3>1 DEF ProcessesInv, EndIsHeard
    <2>3. CASE ~started
      <3>1. pi' \in PiRecord /\ pi'.step = "ended" /\ pi'.result = "START_FAILED" /\ session' = "closed" /\ piChild' = piChild
        <4>1. /\ pi' = [pi EXCEPT !.step = "ended", !.result = "START_FAILED"]
              /\ session' = "closed" /\ piChild' = piChild
          BY <1>12, <2>3 DEF Spawned
        <4>2. "ended" \in PiSteps /\ "START_FAILED" \in PiResults
          BY <1>r, <1>s
        <4> QED BY <1>p, <4>1, <4>2, PiRecords, Zenon
      <3> QED BY <1>c, <2>1, <3>1 DEF ProcessesInv, EndIsHeard
    <2> QED BY <2>2, <2>3
  <1>13. ASSUME NEW good \in BOOLEAN, PiAnswered(good)
         PROVE  ProcessesInv'
    <2>1. Requesting /\ UNCHANGED <<session, piChild, told>>
      BY <1>13 DEF PiAnswered
    <2>2. CASE good
      <3>1. PICK step : step = After(pi.step)
        OBVIOUS
      <3>2. /\ step \in {"effort", "state", "prompting", "working"} /\ (step = "working" <=> pi.step = "prompting")
            /\ step = "prompting" <=> pi.step = "state"
        BY <1>p, <2>1, <3>1 DEF After, Requesting
      <3>3. pi' = [pi EXCEPT !.step = step] /\ waiter' = IF step = "prompting" THEN "pending" ELSE waiter
        BY <1>13, <2>2, <3>1 DEF PiAnswered, Enter
      <3>4. pi' \in PiRecord /\ pi'.step = step /\ pi'.result = pi.result
        BY <1>p, <1>s, <3>2, <3>3, PiRecords, Zenon
      <3> QED BY <1>c, <2>1, <3>2, <3>3, <3>4 DEF ProcessesInv, EndIsHeard, Requesting
    <2>3. CASE ~good
      <3>1. pi' \in PiRecord /\ pi'.step = "closing" /\ pi'.result = "REFUSED" /\ waiter' = waiter
        BY <1>13, <1>f, <1>r, <2>3 DEF PiAnswered
      <3> QED BY <1>c, <2>1, <3>1 DEF ProcessesInv, EndIsHeard
    <2> QED BY <2>2, <2>3
  <1>14. ASSUME NEW succeeded \in BOOLEAN, AgentEnds(succeeded)
         PROVE  ProcessesInv'
    BY <1>14, <1>c DEF AgentEnds, ProcessesInv, EndIsHeard
  <1> QED BY <1>1, <1>2, <1>3, <1>4, <1>7, <1>8, <1>10, <1>11, <1>12, <1>13, <1>14 DEF PiNext

\* A command settles once.
LEMMA CommandKeeps ==
  ASSUME ProcessesInv, CommandNext
  PROVE  ProcessesInv'
  <1>p. UNCHANGED <<pi, session, piChild, waiter, told>>
    BY DEF CommandNext, RunCommand, CommandPrints, StopCommand, CommandCloses, piVars
  <1>0. command \in CommandRecord /\ MaxOutput \in Nat
    BY ProcessesConstants DEF ProcessesInv
  <1>1. ASSUME command' \in CommandRecord,
               command'.step = "idle" => command'.child = "none",
               command'.step = "settled" => command'.child # "running",
               command'.result = "exited" => command'.step = "settled" /\ command'.child = "gone"
        PROVE  ProcessesInv'
    BY <1>1, <1>p DEF ProcessesInv, EndIsHeard
  <1>s. ASSUME NEW c \in CommandRecord, NEW result \in CommandResults
        PROVE  /\ Settled(c, result) \in CommandRecord /\ Settled(c, result).child = c.child
               /\ Settled(c, result).step = IF c.step = "running" THEN "settled" ELSE c.step
               /\ Settled(c, result).result = IF c.step = "running" THEN result ELSE c.result
    BY <1>s DEF Settled, CommandRecord
  <1>t. PICK stopped : stopped = Stopped(command)
    OBVIOUS
  <1>u. /\ stopped \in CommandRecord /\ stopped.step = command.step /\ stopped.result = command.result
        /\ stopped.child = IF command.child = "running" THEN "killed" ELSE command.child
    BY <1>0, <1>t DEF Stopped, CommandRecord
  <1>r. {"timed-out", "output-limit", "exited", "failed-exit", "not-found", "failed"} \subseteq CommandResults
    BY DEF CommandResults
  <1>2. ASSUME NEW use \in {"detect", "run"}, NEW aborted \in BOOLEAN, RunCommand(use, aborted)
        PROVE  ProcessesInv'
    <2>0. command.step = "idle"
      BY <1>2 DEF RunCommand
    <2>1. CASE aborted
      <3>1. command' = [command EXCEPT !.use = use, !.step = "settled", !.result = "timed-out"]
        BY <1>2, <2>1 DEF RunCommand
      <3>2. command' \in CommandRecord /\ command'.step = "settled" /\ command'.child = command.child /\ command'.result = "timed-out"
        BY <1>0, <1>r, <3>1 DEF CommandRecord
      <3> QED BY <1>1, <2>0, <3>2 DEF ProcessesInv
    <2>2. CASE ~aborted
      <3>1. command' = [command EXCEPT !.use = use, !.step = "running", !.child = "running"]
        BY <1>2, <2>2 DEF RunCommand
      <3>2. command' \in CommandRecord /\ command'.step = "running" /\ command'.result = command.result
        BY <1>0, <3>1 DEF CommandRecord
      <3> QED BY <1>1, <2>0, <3>2 DEF ProcessesInv
    <2> QED BY <2>1, <2>2
  <1>3. CASE CommandPrints
    <2>1. CASE command.printed = MaxOutput
      <3>1. command' = Settled(stopped, "output-limit")
        BY <1>3, <1>t, <2>1 DEF CommandPrints
      <3>2. "output-limit" \in CommandResults /\ command.child = "running"
        BY <1>3, <1>r DEF CommandPrints
      <3>3. command.step = "running"
        BY <1>0, <3>2 DEF ProcessesInv, CommandRecord
      <3>4. /\ command' \in CommandRecord /\ command'.step = "settled" /\ command'.child = "killed"
            /\ command'.result = "output-limit"
        BY <1>s, <1>u, <3>1, <3>2, <3>3
      <3> QED BY <1>1, <3>4
    <2>2. CASE command.printed # MaxOutput
      <3>1. command' = [command EXCEPT !.printed = command.printed + 1]
        BY <1>3, <2>2 DEF CommandPrints
      <3>2. command.printed + 1 \in 0..MaxOutput
        BY <1>0, <2>2 DEF CommandRecord
      <3>3. /\ command' \in CommandRecord /\ command'.step = command.step /\ command'.result = command.result
            /\ command'.child = command.child
        BY <1>0, <3>1, <3>2 DEF CommandRecord
      <3> QED BY <1>1, <3>3 DEF ProcessesInv
    <2> QED BY <2>1, <2>2
  <1>4. CASE StopCommand
    <2>1. command' = Settled(stopped, "timed-out") /\ command.step = "running"
      BY <1>4, <1>t DEF StopCommand
    <2>2. "timed-out" \in CommandResults
      BY <1>r
    <2>3. /\ command' \in CommandRecord /\ command'.step = "settled" /\ command'.child = stopped.child
          /\ command'.result = "timed-out"
      BY <1>s, <1>u, <2>1, <2>2
    <2>4. stopped.child # "running"
      BY <1>u
    <2> QED BY <1>1, <2>3, <2>4
  <1>5. ASSUME NEW result \in Exits \cup {"not-found", "failed"}, CommandCloses(result)
        PROVE  ProcessesInv'
    <2>1. PICK gone : gone = [command EXCEPT !.child = "gone"]
      OBVIOUS
    <2>2. gone \in CommandRecord /\ gone.step = command.step /\ gone.result = command.result /\ gone.child = "gone"
      BY <1>0, <2>1 DEF CommandRecord
    <2>3. command' = Settled(gone, result) /\ result \in CommandResults /\ command.child \in {"running", "killed"}
      BY <1>5, <1>r, <2>1 DEF CommandCloses, Exits
    <2> QED BY <1>1, <1>s, <2>2, <2>3 DEF ProcessesInv
  <1> QED BY <1>2, <1>3, <1>4, <1>5 DEF CommandNext

LEMMA ProcessesStep == ProcessesInv /\ [ProcessesNext]_processVars => ProcessesInv'
  <1>1. ProcessesInv /\ UNCHANGED processVars => ProcessesInv'
    BY DEF processVars, ProcessesInv, EndIsHeard
  <1> QED BY <1>1, PiKeeps, CommandKeeps DEF ProcessesNext

\* What the invariant says of executions and commands.
LEMMA ProcessesSafe == ProcessesInv => EndIsNotMissed /\ ProcessesEnd
  <1> SUFFICES ASSUME ProcessesInv PROVE EndIsNotMissed /\ ProcessesEnd
    OBVIOUS
  <1>1. EndIsNotMissed
    BY DEF ProcessesInv, EndIsHeard, EndIsNotMissed
  <1>2. ASSUME NEW readable \in BOOLEAN, CommandOutcome(command, readable) \in {"completed", "supported"}
        PROVE  command.result = "exited"
    BY <1>2 DEF CommandOutcome, Exits, ProcessesInv, CommandRecord, CommandResults
  <1> QED BY <1>1, <1>2 DEF ProcessesInv, ProcessesEnd

LEMMA ProcessesAreTyped == ProcessesInv => ProcessesTypeOK
  BY DEF ProcessesInv, PiRecord, PiSteps, CommandRecord, ProcessesTypeOK

-----------------------------------------------------------------------------
(* The conversations of the MCP server.                                    *)
ServerRecord == [state : {"starting", "running", "ended"}, integration : {None, "manual", "surface"}, reports : BOOLEAN,
                 line : McpLines \cup {None}, step : {"idle", "asking", "refused", "effective", "acknowledging"}]
ReplyRecord == [line : McpLines, text : {"result", "failure", "parse-error", "output", "stopping"}]

McpTyped ==
  /\ servers \in [McpServers -> ServerRecord]
  /\ asked \in [McpLines -> Asks \cup {None}]
  /\ sent \in [McpServers -> Seq(McpLines)]
  /\ read \in [McpServers -> Nat] /\ \A s \in McpServers : read[s] <= Len(sent[s])
  /\ replies \in [McpServers -> Seq(ReplyRecord)]
  /\ works \in [Keys -> Work \cup {None}]
  /\ obtained \subseteq Keys

\* A line is sent once, to one server.
SentOnce ==
  /\ \A s, t \in McpServers : \A p \in 1..Len(sent[s]), q \in 1..Len(sent[t]) :
       sent[s][p] = sent[t][q] => s = t /\ p = q
  /\ \A s \in McpServers : \A p \in 1..Len(sent[s]) : asked[sent[s][p]] \in Asks

\* What a server serves is the line it read last, a request of the companion.
Served(s) ==
  /\ servers[s].step = "idle" <=> servers[s].line = None
  /\ servers[s].step # "idle" =>
       /\ servers[s].state = "running" /\ read[s] # 0 /\ servers[s].line = sent[s][read[s]]
       /\ asked[servers[s].line].kind \in Transported

\* Replies follow the lines that were read.
Follows(s) ==
  /\ \A i \in Replies(s) : \E p \in LinesAnswered(s) : replies[s][i].line = sent[s][p]
  /\ servers[s].state # "ended" => \A p \in LinesAnswered(s) : \E i \in Replies(s) : replies[s][i].line = sent[s][p]
  /\ \A i, j \in Replies(s), p, q \in 1..read[s] :
       replies[s][i].line = sent[s][p] /\ replies[s][j].line = sent[s][q] /\ i < j => p < q

\* Work was begun for a dispatch that was read, and says nothing that was not.
WorksBegun == \A k \in Keys : works[k] # None =>
  /\ \E s \in McpServers : \E p \in 1..read[s] : sent[s][p] = works[k].by
  /\ asked[works[k].by].kind = "dispatch" /\ asked[works[k].by].key = k
  /\ works[k].kept => works[k].state = "completed"
  /\ works[k].returned = "delivered" => works[k].state = "completed" /\ k \in obtained

\* What the companion made of the line a server serves.
Requested(s) ==
  /\ servers[s].step \in {"asking", "refused"} => \A k \in Keys : works[k] # None => works[k].by # servers[s].line
  /\ servers[s].step = "refused" => Own(s).kind = "dispatch"
  /\ servers[s].step = "asking" /\ Own(s).kind = "dispatch" => WorkOf(s) # None
  /\ servers[s].step = "effective" =>
       /\ WorkOf(s) # None /\ Own(s).kind \in {"dispatch", "cancel"}
       /\ Own(s).kind = "dispatch" => WorkOf(s).by = servers[s].line
       /\ Own(s).kind = "cancel" =>
            \A j \in Replies(s) : replies[s][j].line = WorkOf(s).by => replies[s][j].text = "failure"
  /\ servers[s].step = "acknowledging" =>
       /\ Own(s).kind = "dispatch" /\ WorkOf(s) # None /\ WorkOf(s).state = "completed"
       /\ WorkOf(s).by = servers[s].line /\ Own(s).key \in obtained

\* What a server's replies say of the work they are about.
OutputIsTrue(l) ==
  LET w == works[asked[l].key] IN
  asked[l].kind = "dispatch" /\ w # None /\ w.state = "completed" /\ (w.by = l => w.returned = "delivered")
StopIsTrue(s, i) ==
  LET w == works[asked[replies[s][i].line].key] IN
  /\ asked[replies[s][i].line].kind = "cancel" /\ w # None /\ w.by # servers[s].line
  /\ \A j \in Replies(s) : replies[s][j].line = w.by => j < i /\ replies[s][j].text = "failure"
Told(s) == \A i \in Replies(s) :
  /\ replies[s][i].text = "output" => OutputIsTrue(replies[s][i].line)
  /\ replies[s][i].text = "stopping" => StopIsTrue(s, i)
  /\ \A k \in Keys : works[k] # None /\ works[k].state = "running" /\ replies[s][i].line = works[k].by =>
       replies[s][i].text = "failure"

McpInv == McpTyped /\ SentOnce /\ WorksBegun /\ \A s \in McpServers : Served(s) /\ Follows(s) /\ Requested(s) /\ Told(s)

-----------------------------------------------------------------------------
LEMMA McpStart == McpInit => McpInv
  <1> SUFFICES ASSUME McpInit PROVE McpInv
    OBVIOUS
  <1>1. servers \in [McpServers -> ServerRecord] /\ \A s \in McpServers : servers[s].step = "idle" /\ servers[s].line = None
    <2>1. [state |-> "starting", integration |-> None, reports |-> FALSE, line |-> None, step |-> "idle"] \in ServerRecord
      BY DEF ServerRecord
    <2> QED BY <2>1 DEF McpInit
  <1>2. \A s \in McpServers : sent[s] = << >> /\ read[s] = 0 /\ replies[s] = << >>
    BY DEF McpInit
  <1>3. sent \in [McpServers -> Seq(McpLines)] /\ replies \in [McpServers -> Seq(ReplyRecord)]
    BY DEF McpInit
  <1>4. McpTyped
    <2>1. read \in [McpServers -> Nat] /\ \A s \in McpServers : Len(sent[s]) = 0
      BY <1>2 DEF McpInit
    <2>2. asked \in [McpLines -> Asks \cup {None}] /\ works \in [Keys -> Work \cup {None}] /\ obtained = {}
      BY DEF McpInit
    <2> QED BY <1>1, <1>2, <1>3, <2>1, <2>2 DEF McpTyped
  <1>5. SentOnce /\ WorksBegun
    BY <1>2 DEF McpInit, SentOnce, WorksBegun
  <1>6. ASSUME NEW s \in McpServers PROVE Served(s) /\ Follows(s) /\ Requested(s) /\ Told(s)
    BY <1>1, <1>2 DEF Served, Follows, Requested, Told, Replies, LinesAnswered
  <1> QED BY <1>4, <1>5, <1>6 DEF McpInv

\* The facts of a request.
LEMMA AskParts ==
  ASSUME NEW a \in Asks
  PROVE  /\ a # None
         /\ a.kind \in Transported \cup {"report", "local", "notification", "garbage", "nothing"}
         /\ a.kind \in Transported => a.key \in Keys
  BY McpConstants DEF Asks, Transported

\* A server's record, with another line and step.
LEMMA ServerWritten ==
  ASSUME McpTyped, NEW s \in McpServers, NEW l \in McpLines \cup {None},
         NEW step \in {"idle", "asking", "refused", "effective", "acknowledging"}, Serving(s, l, step)
  PROVE  /\ servers' \in [McpServers -> ServerRecord]
         /\ servers'[s].line = l /\ servers'[s].step = step /\ servers'[s].state = servers[s].state
         /\ \A t \in McpServers \ {s} : servers'[t] = servers[t]
  <1>1. servers \in [McpServers -> ServerRecord] /\ servers[s] \in ServerRecord
    BY DEF McpTyped
  <1>2. PICK server : server = [servers[s] EXCEPT !.line = l, !.step = step]
    OBVIOUS
  <1>3. server \in ServerRecord /\ server.line = l /\ server.step = step /\ server.state = servers[s].state
    BY <1>1, <1>2 DEF ServerRecord
  <1>4. servers' = [servers EXCEPT ![s] = server]
    BY <1>1, <1>2 DEF Serving
  <1> QED BY <1>1, <1>3, <1>4

\* How work may change: it goes on, and what is begun is begun for the line b.
WorksGrow(b) == \A k \in Keys :
  /\ works[k] # None =>
       /\ works'[k] # None /\ works'[k].by = works[k].by
       /\ works[k].state = "completed" => works'[k].state = "completed"
       /\ works'[k].state = "running" => works[k].state = "running"
       /\ works[k].returned = "delivered" => works'[k].returned = "delivered"
  /\ works[k] = None /\ works'[k] # None => works'[k].by = b

\* What a server was sent stays, and asks for what it asked.
SentStays(t) == \A p \in 1..Len(sent[t]) :
  p \in 1..Len(sent'[t]) /\ sent'[t][p] = sent[t][p] /\ asked'[sent[t][p]] = asked[sent[t][p]]

\* A server of which a step changes nothing but what it was sent.
Rests(t) ==
  /\ servers'[t] = servers[t] /\ read'[t] = read[t] /\ replies'[t] = replies[t] /\ SentStays(t)

LEMMA ReadLines ==
  ASSUME McpTyped, NEW t \in McpServers
  PROVE  /\ \A p \in 1..read[t] : p \in 1..Len(sent[t])
         /\ \A p \in 1..Len(sent[t]) : sent[t][p] \in McpLines
         /\ \A i \in Replies(t) : replies[t][i] \in ReplyRecord
         /\ servers[t] \in ServerRecord /\ read[t] \in Nat /\ Len(sent[t]) \in Nat /\ Len(replies[t]) \in Nat
  BY DEF McpTyped, Replies

LEMMA RestsFollows ==
  ASSUME McpTyped, NEW t \in McpServers, Rests(t), Follows(t)
  PROVE  Follows(t)'
  <1>1. \A p \in 1..read[t] : sent'[t][p] = sent[t][p] /\ asked'[sent[t][p]] = asked[sent[t][p]]
    BY ReadLines DEF Rests, SentStays
  <1>2. LinesAnswered(t)' = LinesAnswered(t) /\ Replies(t)' = Replies(t)
    BY <1>1 DEF LinesAnswered, Replies, Rests
  <1>3. \A p \in LinesAnswered(t) : p \in 1..read[t]
    BY DEF LinesAnswered
  <1> QED BY <1>1, <1>2, <1>3 DEF Follows, Rests

LEMMA RestsServed ==
  ASSUME McpTyped, NEW t \in McpServers, Rests(t), Served(t)
  PROVE  Served(t)'
  <1>1. servers[t].step # "idle" => read[t] \in 1..Len(sent[t])
    BY ReadLines DEF Served
  <1> QED BY <1>1 DEF Served, Rests, SentStays

\* The lines of a server's replies were sent to it.
LEMMA RepliesSent ==
  ASSUME McpTyped, NEW t \in McpServers, Follows(t), NEW i \in Replies(t)
  PROVE  \E p \in 1..read[t] : p \in 1..Len(sent[t]) /\ replies[t][i].line = sent[t][p]
  BY ReadLines DEF Follows, LinesAnswered

\* What is told stays true while work goes on.
LEMMA ToldGrows ==
  ASSUME McpTyped, SentOnce, NEW t \in McpServers, Follows(t), Told(t), replies'[t] = replies[t], SentStays(t),
         NEW b, WorksGrow(b), \A p \in 1..read[t] : sent[t][p] # b,
         \A n \in Replies(t) : replies[t][n].text = "stopping" => works[asked[replies[t][n].line].key].by # servers'[t].line
  PROVE  Told(t)'
  <1>1. \A i \in Replies(t) : /\ replies[t][i].line # b /\ asked'[replies[t][i].line] = asked[replies[t][i].line]
                              /\ asked[replies[t][i].line] \in Asks
    BY RepliesSent, ReadLines DEF SentStays, SentOnce
  <1>3. Replies(t)' = Replies(t)
    BY DEF Replies
  <1>5. ASSUME NEW i \in Replies(t)
        PROVE  /\ replies[t][i].text = "output" => OutputIsTrue(replies[t][i].line)'
               /\ replies[t][i].text = "stopping" => StopIsTrue(t, i)'
               /\ \A k \in Keys : works'[k] # None /\ works'[k].state = "running" /\ replies[t][i].line = works'[k].by =>
                    replies[t][i].text = "failure"
    <2>1. PICK a \in Asks : a = asked[replies[t][i].line] /\ a = asked'[replies[t][i].line]
      BY <1>1
    <2>2. CASE replies[t][i].text = "output"
      <3>1. a.kind = "dispatch" /\ a.key \in Keys /\ OutputIsTrue(replies[t][i].line)
        BY <2>1, <2>2, AskParts DEF Told, OutputIsTrue, Transported
      <3>2. OutputIsTrue(replies[t][i].line)'
        BY <1>3, <2>1, <3>1 DEF OutputIsTrue, WorksGrow
      <3>3. \A k \in Keys : works'[k] # None /\ works'[k].state = "running" /\ replies[t][i].line = works'[k].by => FALSE
        BY <1>1, <2>2 DEF Told, WorksGrow
      <3> QED BY <2>2, <3>2, <3>3
    <2>3. CASE replies[t][i].text = "stopping"
      <3>1. a.kind = "cancel" /\ a.key \in Keys /\ StopIsTrue(t, i)
        BY <2>1, <2>3, AskParts, Zenon DEF Told, StopIsTrue, Transported
      <3>2. works[a.key] # None /\ works'[a.key] # None /\ works'[a.key].by = works[a.key].by
        BY <2>1, <3>1 DEF StopIsTrue, WorksGrow
      <3>3. StopIsTrue(t, i)'
        <4>1. works[a.key].by # servers'[t].line
          BY <2>1, <2>3
        <4> QED BY <1>3, <2>1, <3>1, <3>2, <4>1, Zenon DEF StopIsTrue
      <3>4. \A k \in Keys : works'[k] # None /\ works'[k].state = "running" /\ replies[t][i].line = works'[k].by => FALSE
        BY <1>1, <2>3 DEF Told, WorksGrow
      <3> QED BY <2>3, <3>3, <3>4
    <2>4. CASE replies[t][i].text \notin {"output", "stopping"}
      BY <1>1, <2>4 DEF Told, WorksGrow
    <2> QED BY <2>2, <2>3, <2>4
  <1> QED BY <1>3, <1>5 DEF Told

LEMMA RestsTold ==
  ASSUME McpTyped, SentOnce, NEW t \in McpServers, Rests(t), Served(t), Follows(t), Requested(t), Told(t),
         NEW b, WorksGrow(b), \A p \in 1..read[t] : sent[t][p] # b, obtained \subseteq obtained'
  PROVE  Requested(t)' /\ Told(t)'
  <1>1. \A i \in Replies(t) : /\ replies[t][i].line # b /\ asked'[replies[t][i].line] = asked[replies[t][i].line]
                              /\ asked[replies[t][i].line] \in Asks
    BY RepliesSent, ReadLines DEF Rests, SentStays, SentOnce
  <1>2. servers[t].step # "idle" =>
          /\ servers[t].line # b /\ asked'[servers[t].line] = asked[servers[t].line]
          /\ asked[servers[t].line] \in Asks /\ asked[servers[t].line].key \in Keys
    <2>1. servers[t].step # "idle" => read[t] \in 1..Len(sent[t]) /\ read[t] \in 1..read[t]
      BY ReadLines DEF Served
    <2> QED BY <2>1, AskParts DEF Served, Rests, SentStays, SentOnce
  <1>3. Replies(t)' = Replies(t) /\ replies'[t] = replies[t] /\ servers'[t] = servers[t]
    BY DEF Rests, Replies
  <1>4. Requested(t)'
    <2>1. CASE servers[t].step = "idle"
      BY <1>3, <2>1 DEF Requested
    <2>2. CASE servers[t].step # "idle"
      <3>1. Own(t)' = Own(t) /\ Own(t).key \in Keys
        BY <1>2, <1>3, <2>2 DEF Own
      <3>2. WorkOf(t)' = works'[Own(t).key]
        BY <3>1 DEF WorkOf
      <3>3. servers[t].step \in {"asking", "refused"} => \A k \in Keys : works'[k] # None => works'[k].by # servers[t].line
        BY <1>2, <2>2 DEF Requested, WorksGrow
      <3>4. WorkOf(t) # None => /\ works'[Own(t).key] # None /\ works'[Own(t).key].by = WorkOf(t).by
                                /\ WorkOf(t).state = "completed" => works'[Own(t).key].state = "completed"
        BY <3>1 DEF WorksGrow, WorkOf
      <3> QED BY <1>3, <3>1, <3>2, <3>3, <3>4 DEF Requested
    <2> QED BY <2>1, <2>2
  <1>5. \A n \in Replies(t) : replies[t][n].text = "stopping" => works[asked[replies[t][n].line].key].by # servers'[t].line
    BY <1>3 DEF Told, StopIsTrue
  <1>6. Told(t)'
    BY <1>3, <1>5, ToldGrows DEF Rests
  <1> QED BY <1>4, <1>6

\* The work of the companion after any step.
LEMMA WorksStay ==
  ASSUME McpTyped, SentOnce, WorksBegun, NEW b, WorksGrow(b), works' \in [Keys -> Work \cup {None}],
         \A t \in McpServers : SentStays(t), \A t \in McpServers : read'[t] \in Nat /\ read[t] <= read'[t],
         \A k \in Keys : works[k] = None /\ works'[k] # None =>
            /\ \E s \in McpServers : \E p \in 1..read'[s] : sent'[s][p] = b
            /\ asked'[b].kind = "dispatch" /\ asked'[b].key = k
            /\ ~works'[k].kept /\ works'[k].returned # "delivered",
         \A k \in Keys : works'[k] # None =>
            /\ works'[k].kept => works'[k].state = "completed"
            /\ works'[k].returned = "delivered" => works'[k].state = "completed" /\ k \in obtained'
  PROVE  WorksBegun'
  <1>1. ASSUME NEW k \in Keys, works[k] # None
        PROVE  /\ \E s \in McpServers : \E p \in 1..read'[s] : sent'[s][p] = works'[k].by
               /\ asked'[works'[k].by].kind = "dispatch" /\ asked'[works'[k].by].key = k
    <2>0. PICK s \in McpServers : \E p \in 1..read[s] : sent[s][p] = works[k].by
      BY <1>1 DEF WorksBegun
    <2>1. PICK p \in 1..read[s] : sent[s][p] = works[k].by
      BY <2>0
    <2>2. p \in 1..Len(sent[s]) /\ p \in 1..read'[s]
      BY ReadLines
    <2>3. sent'[s][p] = works[k].by /\ asked'[works[k].by] = asked[works[k].by]
      BY <2>1, <2>2 DEF SentStays
    <2>4. works'[k].by = works[k].by /\ asked[works[k].by].kind = "dispatch" /\ asked[works[k].by].key = k
      BY <1>1 DEF WorksGrow, WorksBegun
    <2> QED BY <2>2, <2>3, <2>4
  <1>2. ASSUME NEW k \in Keys, works[k] = None, works'[k] # None
        PROVE  /\ \E s \in McpServers : \E p \in 1..read'[s] : sent'[s][p] = works'[k].by
               /\ asked'[works'[k].by].kind = "dispatch" /\ asked'[works'[k].by].key = k
    BY <1>2 DEF WorksGrow
  <1> QED BY <1>1, <1>2 DEF WorksBegun

-----------------------------------------------------------------------------
(* A reply.                                                                *)
LEMMA Appended ==
  ASSUME NEW S, NEW list \in Seq(S), NEW e \in S, NEW longer, longer = Append(list, e)
  PROVE  /\ longer \in Seq(S) /\ Len(list) \in Nat /\ Len(longer) = Len(list) + 1
         /\ \A i \in 1..Len(list) : longer[i] = list[i]
         /\ longer[Len(list) + 1] = e
         /\ 1..Len(longer) = (1..Len(list)) \cup {Len(list) + 1}
  OBVIOUS

\* A server answers a line, the next one or the one it serves, and rests.
AnswersLine(s, l, text) ==
  /\ servers'[s].line = None /\ servers'[s].step = "idle" /\ servers'[s].state = servers[s].state
  /\ servers[s].state = "running"
  /\ sent'[s] = sent[s] /\ asked' = asked /\ replies'[s] = Append(replies[s], [line |-> l, text |-> text])
  /\ read'[s] \in 1..Len(sent[s]) /\ l = sent[s][read'[s]]
  /\ \/ servers[s].line = None /\ read'[s] = read[s] + 1
     \/ servers[s].line = l /\ read'[s] = read[s]
  /\ asked[l].kind # "notification"

LEMMA AnswersFollow ==
  ASSUME McpTyped, SentOnce, NEW s \in McpServers, Follows(s), Served(s), NEW l \in McpLines,
         NEW text \in {"result", "failure", "parse-error", "output", "stopping"}, AnswersLine(s, l, text)
  PROVE  Follows(s)'
  <1> DEFINE reply == [line |-> l, text |-> text]
  <1>1. reply.line = l /\ reply \in ReplyRecord
    BY DEF ReplyRecord
  <1> HIDE DEF reply
  <1>2. replies[s] \in Seq(ReplyRecord) /\ read[s] \in Nat /\ Len(replies[s]) \in Nat /\ Len(sent[s]) \in Nat
    BY ReadLines DEF McpTyped
  <1>m. PICK m : m = read'[s]
    OBVIOUS
  <1>k. PICK k : k = Len(replies[s])
    OBVIOUS
  <1>o. PICK o : o = Len(sent[s])
    OBVIOUS
  <1>x. k \in Nat /\ o \in Nat
    BY <1>2, <1>k, <1>o
  <1>n. PICK n : n = k + 1
    OBVIOUS
  <1>y. /\ m \in 1..o /\ l = sent[s][m]
        /\ (servers[s].line = None /\ m = read[s] + 1) \/ (servers[s].line = l /\ m = read[s])
    BY <1>m, <1>o DEF AnswersLine
  <1>b. m \in 1..o
    BY <1>y
  <1>c. m \in Nat /\ 1 <= m /\ m <= o /\ m \in 1..m
    BY <1>x, <1>b
  <1>a. m \in Nat /\ 1 <= m /\ m <= o /\ m \in 1..Len(sent[s]) /\ m \in 1..m
    BY <1>o, <1>b, <1>c
  <1>3. /\ Replies(s)' = Replies(s) \cup {n} /\ Replies(s) = 1..Len(replies[s])
        /\ \A i \in Replies(s) : replies'[s][i] = replies[s][i]
        /\ replies'[s][n] = reply
    <2>1. PICK longer : longer = replies'[s]
      OBVIOUS
    <2>2. longer = Append(replies[s], reply)
      BY <2>1 DEF AnswersLine, reply
    <2>3. PICK list : list = replies[s]
      OBVIOUS
    <2>4. list \in Seq(ReplyRecord) /\ longer = Append(list, reply) /\ k = Len(list)
      BY <1>2, <1>k, <2>2, <2>3
    <2>5. /\ \A i \in 1..k : longer[i] = list[i]
          /\ longer[n] = reply
          /\ 1..Len(longer) = (1..k) \cup {n}
      BY <1>1, <1>n, <2>4, Appended
    <2> QED BY <1>k, <2>1, <2>3, <2>5 DEF Replies
  <1>4. n \notin Replies(s) /\ n \in Nat /\ \A i \in Replies(s) : i \in Nat /\ i < n
    <2>1. Replies(s) = 1..k
      BY <1>3, <1>k
    <2> QED BY <1>n, <1>x, <2>1
  \* Everything answered before stands before the line.
  <1>5. \A p \in LinesAnswered(s) : p \in 1..m /\ p < m /\ p \in LinesAnswered(s)'
    <2> SUFFICES ASSUME NEW p \in LinesAnswered(s) PROVE p \in 1..m /\ p < m /\ p \in LinesAnswered(s)'
      OBVIOUS
    <2>1. p \in 1..read[s] /\ sent[s][p] # servers[s].line /\ asked[sent[s][p]].kind # "notification" /\ p \in 1..Len(sent[s])
      BY ReadLines DEF LinesAnswered
    <2>2. ASSUME servers[s].line = None, m = read[s] + 1 PROVE p < m
      BY <1>2, <2>1, <2>2
    <2>3. ASSUME servers[s].line = l, m = read[s] PROVE p < m
      <3>1. p # m
        BY <1>y, <1>a, <2>1, <2>3
      <3> QED BY <1>2, <2>1, <2>3, <3>1
    <2>4. p < m /\ p \in 1..m
      BY <1>2, <1>y, <1>a, <2>1, <2>2, <2>3
    <2>5. sent[s][p] # None
      BY <2>1, ReadLines, McpConstants DEF Keys
    <2> QED BY <1>m, <2>1, <2>4, <2>5 DEF LinesAnswered, AnswersLine
  <1>6. \A p \in LinesAnswered(s)' : p \in LinesAnswered(s) \/ p = m
    <2> SUFFICES ASSUME NEW p \in 1..m, asked[sent[s][p]].kind # "notification", p # m
                 PROVE  p \in LinesAnswered(s)
      BY <1>m DEF LinesAnswered, AnswersLine
    <2>0. p \in Nat /\ 1 <= p /\ p < m
      BY <1>a
    <2>1. p \in 1..read[s] /\ p \in 1..Len(sent[s])
      BY <1>2, <1>o, <1>x, <1>y, <1>a, <2>0
    <2>2. sent[s][p] # l
      BY <1>y, <1>a, <2>1 DEF SentOnce
    <2>3. sent[s][p] # None
      BY <2>1, ReadLines, McpConstants DEF Keys
    <2> QED BY <1>y, <1>a, <2>1, <2>2, <2>3 DEF LinesAnswered
  <1>7. m \in LinesAnswered(s)'
    <2>1. l # None
      BY McpConstants DEF Keys
    <2> QED BY <1>y, <1>a, <1>m, <2>1 DEF LinesAnswered, AnswersLine
  <1>8. \A i \in Replies(s)' : \E p \in LinesAnswered(s)' : replies'[s][i].line = sent'[s][p]
    <2> SUFFICES ASSUME NEW i \in Replies(s)' PROVE \E p \in LinesAnswered(s)' : replies'[s][i].line = sent'[s][p]
      OBVIOUS
    <2>1. CASE i \in Replies(s)
      <3>1. PICK p \in LinesAnswered(s) : replies[s][i].line = sent[s][p]
        BY <2>1 DEF Follows
      <3> QED BY <1>3, <1>5, <2>1, <3>1 DEF AnswersLine
    <2>2. CASE i = n
      BY <1>1, <1>3, <1>7, <1>y, <1>a, <2>2 DEF AnswersLine
    <2> QED BY <1>3, <2>1, <2>2
  <1>9. \A p \in LinesAnswered(s)' : \E i \in Replies(s)' : replies'[s][i].line = sent'[s][p]
    <2> SUFFICES ASSUME NEW p \in LinesAnswered(s)' PROVE \E i \in Replies(s)' : replies'[s][i].line = sent'[s][p]
      OBVIOUS
    <2>1. CASE p \in LinesAnswered(s)
      <3>1. PICK i \in Replies(s) : replies[s][i].line = sent[s][p]
        BY <2>1 DEF Follows, AnswersLine
      <3>2. i \in Replies(s)'
        BY <1>3
      <3> QED BY <1>3, <3>1, <3>2 DEF AnswersLine
    <2>2. CASE p = m
      <3>1. n \in Replies(s)'
        BY <1>3
      <3> QED BY <1>1, <1>3, <1>y, <1>a, <2>2, <3>1 DEF AnswersLine
    <2> QED BY <1>6, <2>1, <2>2
  <1>10. ASSUME NEW i \in Replies(s)', NEW j \in Replies(s)', NEW p \in 1..read'[s], NEW q \in 1..read'[s],
                replies'[s][i].line = sent[s][p], replies'[s][j].line = sent[s][q], i < j
         PROVE  p < q
    <2>1. i \in Replies(s)
      <3>1. i \in Nat /\ j \in Nat /\ i < j /\ j <= n
        BY <1>3, <1>4, <1>10
      <3>2. i # n
        BY <1>4, <3>1
      <3> QED BY <1>3, <3>2
    <2>2. PICK h \in LinesAnswered(s) : replies[s][i].line = sent[s][h]
      BY <2>1 DEF Follows
    <2>3. /\ h \in 1..Len(sent[s]) /\ p \in 1..Len(sent[s]) /\ q \in 1..Len(sent[s])
          /\ h \in 1..read[s] /\ h < m
      <3>1. p \in 1..m /\ q \in 1..m
        BY <1>m
      <3>2. p \in 1..Len(sent[s]) /\ q \in 1..Len(sent[s])
        BY <1>o, <1>x, <1>a, <3>1
      <3>3. h \in 1..read[s] /\ h < m
        BY <1>5 DEF LinesAnswered
      <3> QED BY <3>2, <3>3, ReadLines
    <2>4. p = h
      <3>1. sent[s][p] = sent[s][h]
        BY <1>3, <1>10, <2>1, <2>2
      <3> QED BY <2>3, <3>1 DEF SentOnce
    <2>5. CASE j \in Replies(s)
      <3>1. PICK r \in LinesAnswered(s) : replies[s][j].line = sent[s][r]
        BY <2>5 DEF Follows
      <3>2. r \in 1..Len(sent[s]) /\ r \in 1..read[s]
        BY ReadLines DEF LinesAnswered
      <3>3. q = r
        <4>1. sent[s][q] = sent[s][r]
          BY <1>3, <1>10, <2>5, <3>1
        <4> QED BY <2>3, <3>2, <4>1 DEF SentOnce
      <3> QED BY <1>3, <1>10, <2>1, <2>3, <2>4, <2>5, <3>2, <3>3 DEF Follows
    <2>6. CASE j = n
      <3>1. sent[s][q] = l
        BY <1>1, <1>3, <1>10, <2>6
      <3>2. q = m
        BY <1>y, <1>a, <2>3, <3>1 DEF SentOnce
      <3> QED BY <2>3, <2>4, <3>2
    <2> QED BY <1>3, <2>5, <2>6
  <1>11. sent'[s] = sent[s]
    BY DEF AnswersLine
  <1> QED BY <1>8, <1>9, <1>10, <1>11 DEF Follows

\* What is told stays true, given that of the reply.
LEMMA AnswersTold ==
  ASSUME McpTyped, SentOnce, WorksBegun, NEW s \in McpServers, Follows(s), Served(s), Told(s), NEW l \in McpLines,
         NEW text \in {"result", "failure", "parse-error", "output", "stopping"}, AnswersLine(s, l, text),
         WorksGrow(None), works' \in [Keys -> Work \cup {None}],
         \A i \in Replies(s) : replies[s][i].text = "stopping" => works[asked[replies[s][i].line].key].by # l,
         text = "output" => OutputIsTrue(l)',
         text = "stopping" =>
           /\ asked[l].kind = "cancel" /\ works'[asked[l].key] # None
           /\ \A j \in Replies(s) : replies[s][j].line = works[asked[l].key].by => replies[s][j].text = "failure",
         \A k \in Keys : works[k] # None /\ works'[k].state = "running" /\ l = works[k].by => text = "failure"
  PROVE  Requested(s)' /\ Told(s)'
  <1> DEFINE reply == [line |-> l, text |-> text]
  <1>1. reply.line = l /\ reply.text = text /\ reply \in ReplyRecord
    BY DEF ReplyRecord
  <1> HIDE DEF reply
  <1>2. replies[s] \in Seq(ReplyRecord) /\ read[s] \in Nat /\ Len(replies[s]) \in Nat /\ Len(sent[s]) \in Nat
    BY ReadLines DEF McpTyped
  <1>m. PICK m : m = read'[s]
    OBVIOUS
  <1>k. PICK count : count = Len(replies[s])
    OBVIOUS
  <1>o. PICK o : o = Len(sent[s])
    OBVIOUS
  <1>x. count \in Nat /\ o \in Nat
    BY <1>2, <1>k, <1>o
  <1>n. PICK n : n = count + 1
    OBVIOUS
  <1>y. /\ m \in 1..o /\ l = sent[s][m]
        /\ (servers[s].line = None /\ m = read[s] + 1) \/ (servers[s].line = l /\ m = read[s])
    BY <1>m, <1>o DEF AnswersLine
  <1>b. m \in 1..o
    BY <1>y
  <1>c. m \in Nat /\ 1 <= m /\ m <= o /\ m \in 1..m
    BY <1>x, <1>b
  <1>a. m \in Nat /\ 1 <= m /\ m <= o /\ m \in 1..Len(sent[s]) /\ m \in 1..m
    BY <1>o, <1>b, <1>c
  <1>3. /\ Replies(s)' = Replies(s) \cup {n} /\ Replies(s) = 1..Len(replies[s])
        /\ \A i \in Replies(s) : replies'[s][i] = replies[s][i]
        /\ replies'[s][n] = reply
    <2>1. PICK longer : longer = replies'[s]
      OBVIOUS
    <2>2. longer = Append(replies[s], reply)
      BY <2>1 DEF AnswersLine, reply
    <2>3. PICK list : list = replies[s]
      OBVIOUS
    <2>4. list \in Seq(ReplyRecord) /\ longer = Append(list, reply) /\ count = Len(list)
      BY <1>2, <1>k, <2>2, <2>3
    <2>5. /\ \A i \in 1..count : longer[i] = list[i]
          /\ longer[n] = reply
          /\ 1..Len(longer) = (1..count) \cup {n}
      BY <1>1, <1>n, <2>4, Appended
    <2> QED BY <1>k, <2>1, <2>3, <2>5 DEF Replies
  <1>4. n \notin Replies(s) /\ n \in Nat /\ \A i \in Replies(s) : i \in Nat /\ i < n
    <2>1. Replies(s) = 1..count
      BY <1>3, <1>k
    <2> QED BY <1>n, <1>x, <2>1
  <1>5. Requested(s)'
    BY DEF Requested, AnswersLine
  <1>6. \A i \in Replies(s) : asked[replies[s][i].line] \in Asks /\ replies[s][i].line \in McpLines
    <2> SUFFICES ASSUME NEW i \in Replies(s)
                 PROVE  asked[replies[s][i].line] \in Asks /\ replies[s][i].line \in McpLines
      OBVIOUS
    <2>1. PICK p \in 1..read[s] : p \in 1..Len(sent[s]) /\ replies[s][i].line = sent[s][p]
      BY RepliesSent
    <2> QED BY <2>1, ReadLines DEF SentOnce
  <1>7. asked[l] \in Asks
    BY DEF AnswersLine, SentOnce
  <1>8. asked' = asked /\ servers'[s].line = None
    BY DEF AnswersLine
  <1>9. ASSUME NEW k \in Keys, works[k] # None PROVE works'[k] # None /\ works'[k].by = works[k].by /\ works[k].by \in McpLines /\ works[k].by # None
    <2>1. works[k] \in Work
      BY <1>9 DEF McpTyped
    <2>2. works[k].by \in McpLines
      BY <2>1 DEF Work
    <2> QED BY <1>9, <2>2, McpConstants DEF WorksGrow, Keys
  <1>10. ASSUME NEW k \in Keys, works[k] = None PROVE works'[k] = None \/ works'[k].by = None
    BY <1>10 DEF WorksGrow
  <1>11. \A k \in Keys : works'[k] # None => works'[k].by \in McpLines /\ works'[k].by # None
    BY McpConstants DEF Work, Keys
  <1>12. \A k \in Keys : works'[k] # None => works[k] # None
    BY <1>10, <1>11
  <1>13. ASSUME NEW i \in Replies(s)
         PROVE  /\ replies[s][i].text = "output" => OutputIsTrue(replies[s][i].line)'
                /\ replies[s][i].text = "stopping" => StopIsTrue(s, i)'
                /\ \A k \in Keys : works'[k] # None /\ works'[k].state = "running" /\ replies[s][i].line = works'[k].by =>
                     replies[s][i].text = "failure"
    <2>1. PICK a \in Asks : a = asked[replies[s][i].line]
      BY <1>6, SMTT(30)
    <2>2. replies[s][i].text = "output" => OutputIsTrue(replies[s][i].line)'
      <3> SUFFICES ASSUME replies[s][i].text = "output" PROVE OutputIsTrue(replies[s][i].line)'
        OBVIOUS
      <3>1. a.kind = "dispatch" /\ a.key \in Keys /\ OutputIsTrue(replies[s][i].line)
        BY <2>1, AskParts, SMTT(30) DEF Told, OutputIsTrue, Transported
      <3>2. works'[a.key] # None /\ works'[a.key].by = works[a.key].by
            /\ (works[a.key].state = "completed" => works'[a.key].state = "completed")
            /\ (works[a.key].returned = "delivered" => works'[a.key].returned = "delivered")
        BY <2>1, <3>1 DEF OutputIsTrue, WorksGrow
      <3>3. asked'[replies'[s][i].line] = a /\ replies'[s][i] = replies[s][i]
        BY <1>3, <1>8, <2>1, SMTT(30)
      <3> QED BY <1>8, <2>1, <3>1, <3>2, <3>3, Zenon DEF OutputIsTrue
    <2>3. replies[s][i].text = "stopping" => StopIsTrue(s, i)'
      <3> SUFFICES ASSUME replies[s][i].text = "stopping" PROVE StopIsTrue(s, i)'
        OBVIOUS
      <3>1. a.kind = "cancel" /\ a.key \in Keys /\ StopIsTrue(s, i)
        BY <2>1, AskParts, SMTT(30) DEF Told, StopIsTrue, Transported
      <3>2. works[a.key] # None /\ works[a.key].by # l
        BY <2>1, <3>1, Zenon DEF StopIsTrue
      <3>3. works'[a.key] # None /\ works'[a.key].by = works[a.key].by /\ works'[a.key].by # None
        BY <1>9, <3>1, <3>2, SMTT(30)
      <3>4. \A j \in Replies(s) : replies[s][j].line = works[a.key].by => j < i /\ replies[s][j].text = "failure"
        BY <2>1, <3>1, Zenon DEF StopIsTrue
      <3>5. \A j \in Replies(s)' : replies'[s][j].line = works[a.key].by => j < i /\ replies'[s][j].text = "failure"
        BY <1>1, <1>3, <3>2, <3>4
      <3> QED BY <1>3, <1>8, <2>1, <3>1, <3>3, <3>5, Zenon DEF StopIsTrue
    <2>4. \A k \in Keys : works'[k] # None /\ works'[k].state = "running" /\ replies[s][i].line = works'[k].by =>
            replies[s][i].text = "failure"
      <3> SUFFICES ASSUME NEW k \in Keys, works'[k] # None, works'[k].state = "running", replies[s][i].line = works'[k].by
                   PROVE  replies[s][i].text = "failure"
        OBVIOUS
      <3>1. works[k] # None /\ works[k].state = "running" /\ replies[s][i].line = works[k].by
        BY <1>9, <1>12 DEF WorksGrow
      <3> QED BY <3>1 DEF Told
    <2> QED BY <2>2, <2>3, <2>4
  <1>14. text = "stopping" => StopIsTrue(s, n)'
    <2> SUFFICES ASSUME text = "stopping" PROVE StopIsTrue(s, n)'
      OBVIOUS
    <2>1. PICK a \in Asks : a = asked[l]
      BY <1>7
    <2>2. a.kind = "cancel" /\ a.key \in Keys /\ works'[a.key] # None /\ works[a.key] # None
      BY <1>12, <2>1, AskParts DEF Transported
    <2>3. works'[a.key].by = works[a.key].by /\ works'[a.key].by # None /\ works[a.key].by # l
      <3>1. asked[works[a.key].by].kind = "dispatch"
        BY <2>2 DEF WorksBegun
      <3> QED BY <1>9, <2>1, <2>2, <3>1
    <2>4. \A j \in Replies(s)' : replies'[s][j].line = works[a.key].by => j < n /\ replies'[s][j].text = "failure"
      BY <1>1, <1>3, <1>4, <2>1, <2>3
    <2> QED BY <1>1, <1>3, <1>8, <2>1, <2>2, <2>3, <2>4 DEF StopIsTrue
  <1>15. \A k \in Keys : works'[k] # None /\ works'[k].state = "running" /\ l = works'[k].by => text = "failure"
    BY <1>9, <1>12
  <1>16. ASSUME NEW i \in Replies(s)'
         PROVE  /\ replies'[s][i].text = "output" => OutputIsTrue(replies[s][i].line)'
                /\ replies'[s][i].text = "stopping" => StopIsTrue(s, i)'
                /\ \A c \in Keys : works'[c] # None /\ works'[c].state = "running" /\ replies'[s][i].line = works'[c].by =>
                     replies'[s][i].text = "failure"
    <2>1. CASE i \in Replies(s)
      BY <1>3, <1>13, <2>1
    <2>2. CASE i = n
      <3>1. replies'[s][i].line = l /\ replies'[s][i].text = text
        BY <1>1, <1>3, <2>2
      <3>2. replies'[s][i].text = "output" => OutputIsTrue(replies[s][i].line)'
        BY <3>1 DEF OutputIsTrue
      <3>3. replies'[s][i].text = "stopping" => StopIsTrue(s, i)'
        BY <1>14, <2>2, <3>1
      <3> QED BY <1>15, <3>1, <3>2, <3>3
    <2> QED BY <1>3, <2>1, <2>2
  <1> QED BY <1>5, <1>16 DEF Told

-----------------------------------------------------------------------------
(* The steps.                                                              *)
LEMMA NoneSent ==
  ASSUME McpTyped, NEW t \in McpServers
  PROVE  \A p \in 1..read[t] : sent[t][p] # None
  BY ReadLines, McpConstants DEF Keys

LEMMA SentRests == SentOnce /\ UNCHANGED <<asked, sent>> => SentOnce' /\ \A t \in McpServers : McpTyped => SentStays(t)
  BY DEF SentOnce, SentStays

LEMMA WorksRest ==
  ASSUME McpTyped, WorksBegun, UNCHANGED works, obtained \subseteq obtained', obtained' \subseteq Keys
  PROVE  /\ WorksGrow(None) /\ works' \in [Keys -> Work \cup {None}]
         /\ \A k \in Keys : works[k] = None => works'[k] = None
         /\ \A k \in Keys : works'[k] # None =>
              /\ works'[k].kept => works'[k].state = "completed"
              /\ works'[k].returned = "delivered" => works'[k].state = "completed" /\ k \in obtained'
  BY DEF McpTyped, WorksBegun, WorksGrow

\* The others rest while one server moves.
OthersRest(s) == \A t \in McpServers \ {s} : Rests(t)

LEMMA McpMoves ==
  ASSUME McpInv, NEW s \in McpServers, McpTyped', SentOnce', OthersRest(s), NEW b, WorksGrow(b), obtained \subseteq obtained',
         \A t \in McpServers \ {s} : \A p \in 1..read[t] : sent[t][p] # b,
         WorksBegun', Served(s)', Follows(s)', Requested(s)', Told(s)'
  PROVE  McpInv'
  <1>1. ASSUME NEW t \in McpServers \ {s} PROVE Served(t)' /\ Follows(t)' /\ Requested(t)' /\ Told(t)'
    <2>1. McpTyped /\ SentOnce /\ Rests(t) /\ Served(t) /\ Follows(t) /\ Requested(t) /\ Told(t)
      BY DEF McpInv, OthersRest
    <2>2. Served(t)' /\ Follows(t)'
      BY <2>1, RestsServed, RestsFollows
    <2>3. Requested(t)' /\ Told(t)'
      BY <2>1, RestsTold
    <2> QED BY <2>2, <2>3
  <1>2. \A t \in McpServers : Served(t)' /\ Follows(t)' /\ Requested(t)' /\ Told(t)'
    <2> SUFFICES ASSUME NEW t \in McpServers PROVE Served(t)' /\ Follows(t)' /\ Requested(t)' /\ Told(t)'
      OBVIOUS
    <2>1. CASE t = s
      <3>1. Served(t)'
        BY <2>1 DEF Served
      <3>2. Follows(t)'
        <4>1. LinesAnswered(t)' = LinesAnswered(s)'
          BY <2>1 DEF LinesAnswered
        <4>2. Replies(t)' = Replies(s)'
          BY <2>1 DEF Replies
        <4>3. /\ servers'[t] = servers'[s] /\ replies'[t] = replies'[s] /\ sent'[t] = sent'[s]
              /\ read'[t] = read'[s]
          BY <2>1
        <4>4. \A i \in Replies(t)' : \E p \in LinesAnswered(t)' : replies'[t][i].line = sent'[t][p]
          BY <4>1, <4>2, <4>3 DEF Follows
        <4>5. servers'[t].state # "ended" =>
                \A p \in LinesAnswered(t)' : \E i \in Replies(t)' : replies'[t][i].line = sent'[t][p]
          BY <4>1, <4>2, <4>3 DEF Follows
        <4>6. \A i, j \in Replies(t)', p, q \in 1..read'[t] :
                replies'[t][i].line = sent'[t][p] /\ replies'[t][j].line = sent'[t][q] /\ i < j => p < q
          BY <4>2, <4>3 DEF Follows
        <4> QED BY <4>4, <4>5, <4>6 DEF Follows
      <3>3. Requested(t)'
        BY <2>1, SMTT(30) DEF Requested, Own, WorkOf, Replies
      <3>4. Told(t)'
        BY <2>1 DEF Told, OutputIsTrue, StopIsTrue, Replies
      <3> QED BY <3>1, <3>2, <3>3, <3>4
    <2>2. CASE t # s
      BY <1>1, <2>2
    <2> QED BY <2>1, <2>2
  <1> QED BY <1>2 DEF McpInv

\* No server moves.
LEMMA AllRest ==
  ASSUME McpInv, McpTyped', SentOnce', WorksBegun', \A t \in McpServers : Rests(t), WorksGrow(None), obtained \subseteq obtained'
  PROVE  McpInv'
  <1>1. ASSUME NEW t \in McpServers PROVE Served(t)' /\ Follows(t)' /\ Requested(t)' /\ Told(t)'
    <2>1. McpTyped /\ SentOnce /\ Rests(t) /\ Served(t) /\ Follows(t) /\ Requested(t) /\ Told(t)
      BY DEF McpInv
    <2>2. Served(t)' /\ Follows(t)'
      BY <2>1, RestsServed, RestsFollows
    <2>3. Requested(t)' /\ Told(t)'
      BY <2>1, RestsTold, NoneSent
    <2> QED BY <2>2, <2>3
  <1> QED BY <1>1 DEF McpInv

\* A line that was not read yet began no work.
LEMMA Unread ==
  ASSUME McpTyped, SentOnce, WorksBegun, NEW s \in McpServers, read[s] < Len(sent[s]), NEW k \in Keys, works[k] # None
  PROVE  works[k].by # NextLine(s)
  <1>1. PICK t \in McpServers : \E p \in 1..read[t] : sent[t][p] = works[k].by
    BY DEF WorksBegun
  <1>2. PICK p \in 1..read[t] : sent[t][p] = works[k].by
    BY <1>1
  <1>3. p \in 1..Len(sent[t]) /\ read[s] + 1 \in 1..Len(sent[s]) /\ read[s] \in Nat /\ (read[s] + 1 # p \/ t # s)
    BY ReadLines
  <1>4. p \in 1..Len(sent[t]) /\ read[s] + 1 \in 1..Len(sent[s])
    BY ReadLines
  <1> QED BY <1>2, <1>3, <1>4 DEF SentOnce, NextLine

-----------------------------------------------------------------------------
(* Steps of a server without a reply.                                      *)
\* A server reads on, or ends, and answers nothing.
LEMMA ReadsOn ==
  ASSUME McpTyped, SentOnce, NEW s \in McpServers, Follows(s), replies'[s] = replies[s], sent'[s] = sent[s], asked' = asked,
         read'[s] \in Nat, read[s] <= read'[s], read'[s] <= Len(sent[s]), LinesAnswered(s) \subseteq LinesAnswered(s)',
         servers'[s].state # "ended" => servers[s].state # "ended" /\ LinesAnswered(s)' \subseteq LinesAnswered(s)
  PROVE  Follows(s)'
  <1>1. Replies(s)' = Replies(s)
    BY DEF Replies
  <1>2. \A i \in Replies(s) : \E p \in LinesAnswered(s)' : replies'[s][i].line = sent'[s][p]
    BY DEF Follows
  <1>3. servers'[s].state # "ended" => \A p \in LinesAnswered(s)' : \E i \in Replies(s) : replies'[s][i].line = sent'[s][p]
    BY DEF Follows
  <1>4. ASSUME NEW i \in Replies(s), NEW j \in Replies(s), NEW p \in 1..read'[s], NEW q \in 1..read'[s],
               replies[s][i].line = sent[s][p], replies[s][j].line = sent[s][q], i < j
        PROVE  p < q
    <2>1. PICK g \in LinesAnswered(s) : replies[s][i].line = sent[s][g]
      BY DEF Follows
    <2>2. PICK h \in LinesAnswered(s) : replies[s][j].line = sent[s][h]
      BY DEF Follows
    <2>3. g \in 1..read[s] /\ h \in 1..read[s]
      BY DEF LinesAnswered
    <2>4. g \in 1..Len(sent[s]) /\ h \in 1..Len(sent[s])
      BY <2>3, ReadLines
    <2>5. p \in 1..Len(sent[s]) /\ q \in 1..Len(sent[s])
      <3>1. PICK m \in Nat : m = read'[s]
        OBVIOUS
      <3>2. PICK o \in Nat : o = Len(sent[s])
        BY ReadLines
      <3> QED BY <3>1, <3>2
    <2>6. p = g /\ q = h
      <3>1. sent[s][p] = sent[s][g] /\ sent[s][q] = sent[s][h]
        BY <1>4, <2>1, <2>2
      <3> QED BY <2>4, <2>5, <3>1 DEF SentOnce
    <2> QED BY <1>4, <2>3, <2>6 DEF Follows
  <1> QED BY <1>1, <1>2, <1>3, <1>4 DEF Follows

\* The type, for steps that write no lines.
LEMMA TypedStays ==
  ASSUME McpTyped, UNCHANGED <<asked, sent>>, servers' \in [McpServers -> ServerRecord],
         read' \in [McpServers -> Nat], \A t \in McpServers : read'[t] <= Len(sent[t]),
         replies' \in [McpServers -> Seq(ReplyRecord)], works' \in [Keys -> Work \cup {None}], obtained' \subseteq Keys
  PROVE  McpTyped'
  BY DEF McpTyped

\* Steps that change a server or what it has read, and no work.
LEMMA QuietStep ==
  ASSUME McpInv, NEW s \in McpServers, UNCHANGED <<asked, sent, replies, works>>,
         obtained \subseteq obtained', obtained' \subseteq Keys,
         servers' \in [McpServers -> ServerRecord], \A t \in McpServers \ {s} : servers'[t] = servers[t],
         read' \in [McpServers -> Nat], \A t \in McpServers \ {s} : read'[t] = read[t],
         read[s] <= read'[s], read'[s] <= Len(sent[s]), LinesAnswered(s) \subseteq LinesAnswered(s)',
         servers'[s].state # "ended" => servers[s].state # "ended" /\ LinesAnswered(s)' \subseteq LinesAnswered(s),
         servers'[s].line \in {servers[s].line, None}, Served(s)', Requested(s)'
  PROVE  McpInv'
  <1>0. McpTyped /\ SentOnce /\ WorksBegun /\ Served(s) /\ Follows(s) /\ Told(s)
    BY DEF McpInv
  <1>1. McpTyped'
    <2>1. \A t \in McpServers : read'[t] <= Len(sent[t])
      BY <1>0 DEF McpTyped
    <2>2. replies' \in [McpServers -> Seq(ReplyRecord)] /\ works' \in [Keys -> Work \cup {None}]
      BY <1>0 DEF McpTyped
    <2> QED BY <1>0, <2>1, <2>2, TypedStays
  <1>2. SentOnce' /\ \A t \in McpServers : SentStays(t)
    BY <1>0, SentRests
  <1>3. OthersRest(s)
    BY <1>2 DEF OthersRest, Rests
  <1>4. WorksGrow(None) /\ \A t \in McpServers : \A p \in 1..read[t] : sent[t][p] # None
    BY <1>0, WorksRest, NoneSent
  <1>5. WorksBegun'
    <2>1. ASSUME NEW t \in McpServers PROVE read'[t] \in Nat /\ read[t] <= read'[t]
      <3>1. CASE t = s
        BY <3>1
      <3>2. CASE t # s
        <4>1. read'[t] = read[t] /\ read[t] \in Nat
          BY <1>0, <3>2 DEF McpTyped
        <4> QED BY <4>1
      <3> QED BY <3>1, <3>2
    <2> QED BY <1>0, <1>2, <2>1, WorksRest, WorksStay
  <1>6. Follows(s)'
    <2>1. replies'[s] = replies[s] /\ sent'[s] = sent[s] /\ asked' = asked /\ read'[s] \in Nat
      OBVIOUS
    <2> QED BY <1>0, <2>1, ReadsOn
  <1>7. Told(s)'
    <2>1. replies'[s] = replies[s] /\ SentStays(s)
      BY <1>2, SMTT(30)
    <2>2. \A n \in Replies(s) : replies[s][n].text = "stopping" => works[asked[replies[s][n].line].key].by # servers'[s].line
      <3> SUFFICES ASSUME NEW n \in Replies(s), replies[s][n].text = "stopping"
                   PROVE  works[asked[replies[s][n].line].key].by # servers'[s].line
        OBVIOUS
      <3>1. StopIsTrue(s, n)
        BY <1>0 DEF Told
      <3>2. works[asked[replies[s][n].line].key].by # None
        <4>1. PICK p \in 1..read[s] : p \in 1..Len(sent[s]) /\ replies[s][n].line = sent[s][p]
          BY <1>0, RepliesSent
        <4>2. PICK a \in Asks : a = asked[replies[s][n].line]
          BY <1>0, <4>1, SMTT(30) DEF SentOnce
        <4>3. a.key \in Keys /\ works[a.key] # None
          BY <3>1, <4>2, AskParts, Zenon DEF StopIsTrue, Transported
        <4>4. works[a.key] \in Work
          BY <1>0, <4>3 DEF McpTyped
        <4> QED BY <4>2, <4>4, McpConstants DEF Work, Keys
      <3> QED BY <3>1, <3>2, Zenon DEF StopIsTrue
    <2> QED BY <1>0, <1>4, <2>1, <2>2, ToldGrows
  <1> QED BY <1>1, <1>2, <1>3, <1>4, <1>5, <1>6, <1>7, McpMoves

LEMMA StartKeeps == ASSUME McpInv, NEW s \in McpServers, StartServer(s) PROVE McpInv'
  <1>2. PICK keptSecret \in BOOLEAN, enrolled \in BOOLEAN, origin \in {None, "codex", "claude"}, surface \in {None, "codex", "claude", "pi"} :
          LaunchServer(s, keptSecret, enrolled, McpConstruction(origin, surface))
    BY DEF StartServer
  <1>3. PICK built : built = McpConstruction(origin, surface)
    OBVIOUS
  <1>4. built \in {None, "manual", "surface"} /\ LaunchServer(s, keptSecret, enrolled, built)
    BY <1>2, <1>3 DEF McpConstruction
  <1>0. McpTyped /\ Served(s) /\ servers[s].state = "starting" /\ UNCHANGED <<asked, sent, read, replies, works, obtained>>
    BY <1>4 DEF McpInv, LaunchServer
  <1>1. servers[s].step = "idle" /\ servers[s].line = None /\ servers[s] \in ServerRecord
    BY <1>0, ReadLines DEF Served
  <1>5. PICK reports : reports = (keptSecret /\ built # None /\ enrolled)
    OBVIOUS
  <1>6. PICK state : state = IF keptSecret /\ built # None THEN "running" ELSE "ended"
    OBVIOUS
  <1>7. PICK integration : integration = IF keptSecret THEN built ELSE None
    OBVIOUS
  <1>8. reports \in BOOLEAN /\ state \in {"running", "ended"} /\ integration \in {None, "manual", "surface"}
    BY <1>4, <1>5, <1>6, <1>7
  <1>9. PICK server : server = [servers[s] EXCEPT !.state = state, !.integration = integration, !.reports = reports]
    OBVIOUS
  <1>10. server \in ServerRecord /\ server.line = None /\ server.step = "idle"
    BY <1>1, <1>8, <1>9 DEF ServerRecord
  <1>11. servers' = [servers EXCEPT ![s] = server]
    <2>1. servers' = [servers EXCEPT ![s].state = state, ![s].integration = integration, ![s].reports = reports]
      BY <1>4, <1>5, <1>6, <1>7, Zenon DEF LaunchServer
    <2> QED BY <1>0, <1>9, <2>1 DEF McpTyped
  <1>12. /\ servers' \in [McpServers -> ServerRecord] /\ servers'[s].line = None /\ servers'[s].step = "idle"
         /\ \A t \in McpServers \ {s} : servers'[t] = servers[t]
    BY <1>0, <1>10, <1>11 DEF McpTyped
  <1>13. LinesAnswered(s)' = LinesAnswered(s)
    BY <1>0, <1>1, <1>12 DEF LinesAnswered
  <1>14. Served(s)' /\ Requested(s)'
    BY <1>12 DEF Served, Requested
  <1>15. read' \in [McpServers -> Nat] /\ read[s] <= read'[s] /\ read'[s] <= Len(sent[s]) /\ obtained' \subseteq Keys
    BY <1>0 DEF McpTyped
  <1> QED BY <1>0, <1>1, <1>12, <1>13, <1>14, <1>15, QuietStep

LEMMA EndKeeps == ASSUME McpInv, NEW s \in McpServers, EndServer(s) PROVE McpInv'
  <1>0. McpTyped /\ UNCHANGED <<asked, sent, read, replies, works, obtained>>
    BY DEF McpInv, EndServer
  <1>1. PICK server : server = [servers[s] EXCEPT !.state = "ended", !.line = None, !.step = "idle"]
    OBVIOUS
  <1>2. server \in ServerRecord /\ server.line = None /\ server.step = "idle" /\ server.state = "ended"
    BY <1>0, <1>1, ReadLines DEF ServerRecord
  <1>3. servers' = [servers EXCEPT ![s] = server]
    BY <1>0, <1>1 DEF EndServer, McpTyped
  <1>4. /\ servers' \in [McpServers -> ServerRecord] /\ servers'[s].line = None /\ servers'[s].step = "idle"
        /\ servers'[s].state = "ended" /\ \A t \in McpServers \ {s} : servers'[t] = servers[t]
    BY <1>0, <1>2, <1>3 DEF McpTyped
  <1>5. LinesAnswered(s) \subseteq LinesAnswered(s)'
    BY <1>0, <1>4, NoneSent DEF LinesAnswered
  <1>6. Served(s)' /\ Requested(s)'
    BY <1>4 DEF Served, Requested
  <1>7. read' \in [McpServers -> Nat] /\ read[s] <= read'[s] /\ read'[s] <= Len(sent[s]) /\ obtained' \subseteq Keys
    BY <1>0 DEF McpTyped
  <1> QED BY <1>0, <1>4, <1>5, <1>6, <1>7, QuietStep

\* The next line is read.
LEMMA ReadNext ==
  ASSUME McpTyped, NEW s \in McpServers, MayRead(s), Served(s), read' = [read EXCEPT ![s] = @ + 1]
  PROVE  /\ read' \in [McpServers -> Nat] /\ read'[s] = read[s] + 1 /\ read'[s] \in 1..Len(sent[s]) /\ read'[s] \in 1..read'[s]
         /\ \A t \in McpServers \ {s} : read'[t] = read[t]
         /\ \A t \in McpServers : read'[t] \in Nat /\ read[t] <= read'[t] /\ read'[t] <= Len(sent[t])
         /\ read[s] < Len(sent[s]) /\ NextLine(s) = sent[s][read'[s]] /\ NextLine(s) \in McpLines
         /\ \A p \in 1..read'[s] : p \in 1..read[s] \/ p = read'[s]
         /\ \A p \in 1..read[s] : p \in 1..read'[s] /\ p # read'[s] /\ p \in 1..Len(sent[s])
         /\ servers[s].state = "running" /\ servers[s].step = "idle" /\ servers[s].line = None
  <1>1. read \in [McpServers -> Nat] /\ \A t \in McpServers : read[t] <= Len(sent[t]) /\ Len(sent[t]) \in Nat
    BY DEF McpTyped
  <1>2. read[s] < Len(sent[s]) /\ servers[s].state = "running" /\ servers[s].step = "idle" /\ servers[s].line = None
    BY DEF MayRead, Served
  <1>3. PICK m : m = read[s]
    OBVIOUS
  <1>4. PICK o : o = Len(sent[s])
    OBVIOUS
  <1>5. m \in Nat /\ o \in Nat /\ m < o
    BY <1>1, <1>2, <1>3, <1>4
  <1>6. read' \in [McpServers -> Nat] /\ read'[s] = m + 1 /\ \A t \in McpServers \ {s} : read'[t] = read[t]
    BY <1>1, <1>3
  <1>7. m + 1 \in 1..o /\ m + 1 \in 1..(m + 1) /\ \A p \in 1..(m + 1) : p \in 1..m \/ p = m + 1
    BY <1>5
  <1>8. \A p \in 1..m : p \in 1..(m + 1) /\ p # m + 1 /\ p \in 1..o
    BY <1>5
  <1>9. ASSUME NEW t \in McpServers PROVE read'[t] \in Nat /\ read[t] <= read'[t] /\ read'[t] <= Len(sent[t])
    <2>1. CASE t = s
      BY <1>3, <1>4, <1>5, <1>6, <2>1
    <2>2. CASE t # s
      BY <1>1, <1>6, <2>2
    <2> QED BY <2>1, <2>2
  <1>10. NextLine(s) = sent[s][m + 1] /\ NextLine(s) \in McpLines
    BY <1>3, <1>4, <1>7, ReadLines DEF NextLine
  <1> QED BY <1>2, <1>3, <1>4, <1>6, <1>7, <1>8, <1>9, <1>10

\* Lines that are not answered: a notification, and a line that ends the server.
LEMMA SilentKeeps ==
  ASSUME McpInv, NEW s \in McpServers,
         (AnswerAtOnce(s) /\ asked[NextLine(s)].kind = "notification") \/ EndOnNothing(s)
  PROVE  McpInv'
  <1>0. /\ McpTyped /\ Served(s) /\ MayRead(s) /\ read' = [read EXCEPT ![s] = @ + 1]
        /\ UNCHANGED <<asked, sent, replies, works, obtained>>
    BY DEF McpInv, AnswerAtOnce, EndOnNothing
  <1>1. /\ read' \in [McpServers -> Nat] /\ read'[s] = read[s] + 1 /\ \A t \in McpServers \ {s} : read'[t] = read[t]
        /\ read[s] <= read'[s] /\ read'[s] <= Len(sent[s]) /\ NextLine(s) = sent[s][read'[s]]
        /\ servers[s].state = "running" /\ servers[s].step = "idle" /\ servers[s].line = None
        /\ \A p \in 1..read'[s] : p \in 1..read[s] \/ p = read'[s]
        /\ \A p \in 1..read[s] : p \in 1..read'[s]
    BY <1>0, ReadNext
  <1>2. /\ servers' \in [McpServers -> ServerRecord] /\ servers'[s].line = None /\ servers'[s].step = "idle"
        /\ \A t \in McpServers \ {s} : servers'[t] = servers[t]
        /\ servers'[s].state # "ended" => asked[NextLine(s)].kind = "notification"
    <2>1. CASE AnswerAtOnce(s) /\ asked[NextLine(s)].kind = "notification"
      BY <1>0, <1>1, <2>1 DEF AnswerAtOnce, McpTyped
    <2>2. CASE EndOnNothing(s)
      <3>1. PICK server : server = [servers[s] EXCEPT !.state = "ended"]
        OBVIOUS
      <3>2. server \in ServerRecord /\ server.line = None /\ server.step = "idle" /\ server.state = "ended"
        BY <1>0, <1>1, <3>1, ReadLines DEF ServerRecord
      <3>3. servers' = [servers EXCEPT ![s] = server]
        BY <1>0, <2>2, <3>1 DEF EndOnNothing, McpTyped
      <3> QED BY <1>0, <3>2, <3>3 DEF McpTyped
    <2> QED BY <2>1, <2>2
  <1>3. LinesAnswered(s) \subseteq LinesAnswered(s)'
    BY <1>0, <1>1, <1>2 DEF LinesAnswered
  <1>4. servers'[s].state # "ended" => servers[s].state # "ended" /\ LinesAnswered(s)' \subseteq LinesAnswered(s)
    BY <1>0, <1>1, <1>2 DEF LinesAnswered
  <1>5. Served(s)' /\ Requested(s)'
    BY <1>2 DEF Served, Requested
  <1>6. obtained' \subseteq Keys
    BY <1>0 DEF McpTyped
  <1> QED BY <1>0, <1>1, <1>2, <1>3, <1>4, <1>5, <1>6, QuietStep

\* The output of completed work is acknowledged before it is given to the agent.
LEMMA AcknowledgingKeeps ==
  ASSUME McpInv, NEW s \in McpServers, servers[s].step = "effective", Own(s).kind = "dispatch",
         WorkOf(s).state = "completed", Serving(s, servers[s].line, "acknowledging"), obtained' = obtained \cup {Own(s).key},
         UNCHANGED <<asked, sent, read, replies, works>>
  PROVE  McpInv'
  <1>0. McpTyped /\ SentOnce /\ Served(s) /\ Requested(s)
    BY DEF McpInv
  <1>1. PICK l : l = servers[s].line
    OBVIOUS
  <1>2. l \in McpLines /\ l # None /\ servers[s] \in ServerRecord
    <2>1. read[s] \in 1..Len(sent[s])
      BY <1>0, ReadLines DEF Served
    <2> QED BY <1>0, <1>1, <2>1, ReadLines DEF Served
  <1>3. /\ servers' \in [McpServers -> ServerRecord]
        /\ servers'[s].line = l /\ servers'[s].step = "acknowledging" /\ servers'[s].state = servers[s].state
        /\ \A t \in McpServers \ {s} : servers'[t] = servers[t]
    BY <1>0, <1>1, <1>2, ServerWritten
  <1>4. LinesAnswered(s)' = LinesAnswered(s)
    BY <1>1, <1>3 DEF LinesAnswered
  <1>5. Served(s)'
    BY <1>0, <1>1, <1>2, <1>3 DEF Served
  <1>6. Own(s)' = Own(s) /\ WorkOf(s)' = WorkOf(s)
    BY <1>1, <1>3 DEF Own, WorkOf
  <1>7. Requested(s)'
    BY <1>0, <1>1, <1>3, <1>6 DEF Requested
  <1>8. Own(s).key \in Keys
    <2>1. read[s] \in 1..Len(sent[s]) /\ servers[s].line = sent[s][read[s]]
      BY <1>0, ReadLines DEF Served
    <2>2. Own(s) \in Asks
      BY <1>0, <2>1 DEF SentOnce, Own
    <2> QED BY <2>2, AskParts DEF Transported
  <1>9. /\ read' \in [McpServers -> Nat] /\ read[s] <= read'[s] /\ read'[s] <= Len(sent[s])
        /\ obtained \subseteq obtained' /\ obtained' \subseteq Keys
    BY <1>0, <1>8 DEF McpTyped
  <1>10. \A t \in McpServers \ {s} : read'[t] = read[t]
    OBVIOUS
  <1>11. servers'[s].line \in {servers[s].line, None}
    BY <1>1, <1>3
  <1> QED BY <1>1, <1>3, <1>4, <1>5, <1>7, <1>9, <1>10, <1>11, QuietStep

-----------------------------------------------------------------------------
(* A line is sent, and the companion works on.                             *)
LEMMA SendKeeps ==
  ASSUME McpInv, NEW s \in McpServers, NEW l \in McpLines, NEW a \in Asks, SendLine(s, l, a)
  PROVE  McpInv'
  <1>0. /\ McpTyped /\ SentOnce /\ WorksBegun /\ asked[l] = None
        /\ asked' = [asked EXCEPT ![l] = a] /\ sent' = [sent EXCEPT ![s] = Append(@, l)]
        /\ UNCHANGED <<servers, read, replies, works, obtained>>
    BY DEF McpInv, SendLine
  <1>1. /\ asked' \in [McpLines -> Asks \cup {None}] /\ asked'[l] = a
        /\ \A h \in McpLines \ {l} : asked'[h] = asked[h]
    BY <1>0 DEF McpTyped
  <1>2. PICK longer : longer = Append(sent[s], l)
    OBVIOUS
  <1>3. PICK n : n = Len(sent[s]) + 1
    OBVIOUS
  <1>4. /\ longer \in Seq(McpLines) /\ Len(longer) = n /\ longer[n] = l
        /\ \A i \in 1..Len(sent[s]) : longer[i] = sent[s][i] /\ i \in 1..Len(longer)
        /\ \A i \in 1..Len(longer) : i \in 1..Len(sent[s]) \/ i = n
    <2>1. PICK list : list = sent[s]
      OBVIOUS
    <2>2. list \in Seq(McpLines) /\ longer = Append(list, l) /\ n = Len(list) + 1
      BY <1>0, <1>2, <1>3, <2>1 DEF McpTyped
    <2> QED BY <2>1, <2>2, Appended
  <1>5. /\ sent' \in [McpServers -> Seq(McpLines)] /\ sent'[s] = longer
        /\ \A t \in McpServers \ {s} : sent'[t] = sent[t]
    BY <1>0, <1>2, <1>4 DEF McpTyped
  <1>6. \A t \in McpServers : \A p \in 1..Len(sent[t]) : sent[t][p] \in McpLines /\ sent[t][p] # l
    BY <1>0, AskParts, ReadLines DEF SentOnce
  <1>7. ASSUME NEW t \in McpServers PROVE SentStays(t)
    <2>1. CASE t = s
      BY <1>1, <1>4, <1>5, <1>6, <2>1 DEF SentStays
    <2>2. CASE t # s
      BY <1>1, <1>5, <1>6, <2>2 DEF SentStays
    <2> QED BY <2>1, <2>2
  <1>8. ASSUME NEW t \in McpServers, NEW p \in 1..Len(sent'[t])
        PROVE  (p \in 1..Len(sent[t]) /\ sent'[t][p] = sent[t][p]) \/ (t = s /\ p = n /\ sent'[t][p] = l)
    <2>1. CASE t = s
      BY <1>4, <1>5, <2>1
    <2>2. CASE t # s
      BY <1>5, <2>2
    <2> QED BY <2>1, <2>2
  <1>9. SentOnce'
    <2>1. ASSUME NEW t \in McpServers, NEW u \in McpServers, NEW p \in 1..Len(sent'[t]), NEW q \in 1..Len(sent'[u]),
                 sent'[t][p] = sent'[u][q]
          PROVE  t = u /\ p = q
      BY <1>0, <1>6, <1>8, <2>1 DEF SentOnce
    <2>2. ASSUME NEW t \in McpServers, NEW p \in 1..Len(sent'[t])
          PROVE  asked'[sent'[t][p]] \in Asks
      BY <1>0, <1>1, <1>6, <1>8 DEF SentOnce
    <2> QED BY <2>1, <2>2 DEF SentOnce
  <1>10. McpTyped'
    <2>1. ASSUME NEW t \in McpServers PROVE read[t] <= Len(sent'[t])
      <3>1. CASE t = s
        <4>1. read[s] \in Nat /\ Len(sent[s]) \in Nat /\ read[s] <= Len(sent[s])
          BY <1>0 DEF McpTyped
        <4> QED BY <1>3, <1>4, <1>5, <3>1, <4>1
      <3>2. CASE t # s
        BY <1>0, <1>5, <3>2 DEF McpTyped
      <3> QED BY <3>1, <3>2
    <2> QED BY <1>0, <1>1, <1>5, <2>1 DEF McpTyped
  <1>11. obtained \subseteq obtained' /\ obtained' \subseteq Keys /\ UNCHANGED works
    BY <1>0 DEF McpTyped
  <1>12. WorksGrow(None)
    BY <1>0, <1>11, WorksRest
  <1>13. WorksBegun'
    <2>1. \A t \in McpServers : read'[t] \in Nat /\ read[t] <= read'[t]
      BY <1>0 DEF McpTyped
    <2> QED BY <1>0, <1>7, <1>11, <2>1, WorksRest, WorksStay
  <1>14. \A t \in McpServers : Rests(t)
    BY <1>0, <1>7 DEF Rests
  <1> QED BY <1>9, <1>10, <1>11, <1>12, <1>13, <1>14, AllRest

\* The companion's work changes, and no server.
LEMMA WorkKeeps ==
  ASSUME McpInv, UNCHANGED <<servers, asked, sent, read, replies, obtained>>, NEW k \in Keys, works[k] # None, NEW w \in Work,
         works' = [works EXCEPT ![k] = w], w.by = works[k].by,
         works[k].state = "completed" => w.state = "completed", w.state = "running" => works[k].state = "running",
         works[k].returned = "delivered" => w.returned = "delivered",
         w.kept => w.state = "completed", w.returned = "delivered" => w.state = "completed" /\ k \in obtained
  PROVE  McpInv'
  <1>0. McpTyped /\ SentOnce /\ WorksBegun /\ works \in [Keys -> Work \cup {None}] /\ w # None
    BY McpConstants DEF McpInv, McpTyped
  <1>1. /\ works' \in [Keys -> Work \cup {None}] /\ works'[k] = w
        /\ \A h \in Keys \ {k} : works'[h] = works[h]
    BY <1>0
  <1>2. WorksGrow(None)
    BY <1>0, <1>1 DEF WorksGrow
  <1>3. McpTyped' /\ SentOnce' /\ \A t \in McpServers : SentStays(t)
    BY <1>0, <1>1, SentRests DEF McpTyped
  <1>4. /\ \A h \in Keys : works[h] = None => works'[h] = None
        /\ \A h \in Keys : works'[h] # None =>
             /\ works'[h].kept => works'[h].state = "completed"
             /\ works'[h].returned = "delivered" => works'[h].state = "completed" /\ h \in obtained'
    BY <1>0, <1>1 DEF WorksBegun
  <1>5. WorksBegun'
    <2>1. \A t \in McpServers : read'[t] \in Nat /\ read[t] <= read'[t]
      BY <1>0 DEF McpTyped
    <2> QED BY <1>0, <1>1, <1>2, <1>3, <1>4, <2>1, WorksStay
  <1>6. \A t \in McpServers : Rests(t)
    BY <1>3 DEF Rests
  <1> QED BY <1>2, <1>3, <1>5, <1>6, AllRest

LEMMA CompanionWorks ==
  ASSUME McpInv, NEW k \in Keys, ForgetOutput(k) \/ \E completed \in BOOLEAN : WorkEnds(k, completed)
  PROVE  McpInv'
  <1>0. /\ works[k] # None /\ works[k] \in Work /\ works \in [Keys -> Work \cup {None}]
        /\ UNCHANGED <<servers, asked, sent, read, replies, obtained>>
        /\ works[k].returned = "delivered" => works[k].state = "completed" /\ k \in obtained
        /\ works[k].kept => works[k].state = "completed"
    BY DEF ForgetOutput, WorkEnds, UnderWay, McpInv, McpTyped, WorksBegun
  <1>1. CASE ForgetOutput(k)
    <2>1. PICK w : w = [works[k] EXCEPT !.kept = FALSE]
      OBVIOUS
    <2>2. works' = [works EXCEPT ![k] = w]
      BY <1>0, <1>1, <2>1 DEF ForgetOutput
    <2>3. /\ w \in Work /\ w.by = works[k].by /\ w.state = works[k].state /\ w.returned = works[k].returned /\ ~w.kept
      BY <1>0, <2>1 DEF Work
    <2> QED BY <1>0, <2>2, <2>3, WorkKeeps
  <1>2. ASSUME WorkEnds(k, TRUE) PROVE McpInv'
    <2>1. PICK w : w = [works[k] EXCEPT !.state = "completed", !.kept = TRUE]
      OBVIOUS
    <2>2. works' = [works EXCEPT ![k] = w] /\ works[k].state = "running"
      BY <1>0, <1>2, <2>1 DEF WorkEnds, UnderWay
    <2>3. w \in Work /\ w.by = works[k].by /\ w.state = "completed" /\ w.returned = works[k].returned
      BY <1>0, <2>1 DEF Work
    <2> QED BY <1>0, <2>2, <2>3, WorkKeeps
  <1>3. ASSUME WorkEnds(k, FALSE) PROVE McpInv'
    <2>1. PICK w : w = [works[k] EXCEPT !.state = "stopped", !.returned = "return-unavailable"]
      OBVIOUS
    <2>2. works' = [works EXCEPT ![k] = w] /\ works[k].state = "running"
      BY <1>0, <1>3, <2>1 DEF WorkEnds, UnderWay
    <2>3. w \in Work /\ w.by = works[k].by /\ w.state = "stopped" /\ w.returned = "return-unavailable" /\ (w.kept <=> works[k].kept)
      BY <1>0, <2>1 DEF Work
    <2> QED BY <1>0, <2>2, <2>3, WorkKeeps
  <1> QED BY <1>1, <1>2, <1>3

-----------------------------------------------------------------------------
(* Steps with a reply.                                                     *)
LEMMA ReplyKeeps ==
  ASSUME McpInv, NEW s \in McpServers, NEW l \in McpLines,
         NEW text \in {"result", "failure", "parse-error", "output", "stopping"}, AnswersLine(s, l, text), Reply(s, l, text),
         UNCHANGED <<asked, sent>>,
         servers' \in [McpServers -> ServerRecord], \A t \in McpServers \ {s} : servers'[t] = servers[t],
         read' \in [McpServers -> Nat], \A t \in McpServers \ {s} : read'[t] = read[t],
         works' \in [Keys -> Work \cup {None}], WorksGrow(None), WorksBegun',
         obtained \subseteq obtained', obtained' \subseteq Keys,
         \A k \in Keys : works[k] # None /\ works'[k].state = "running" /\ l = works[k].by => text = "failure",
         text = "output" => OutputIsTrue(l)',
         text = "stopping" =>
           /\ asked[l].kind = "cancel" /\ works'[asked[l].key] # None
           /\ \A j \in Replies(s) : replies[s][j].line = works[asked[l].key].by => replies[s][j].text = "failure",
         servers[s].line = l \/ \A k \in Keys : works[k] # None => works[k].by # l
  PROVE  McpInv'
  <1>0. McpTyped /\ SentOnce /\ WorksBegun /\ Served(s) /\ Follows(s) /\ Told(s)
    BY DEF McpInv
  <1>1. PICK reply : reply = [line |-> l, text |-> text]
    OBVIOUS
  <1>2. reply \in ReplyRecord
    BY <1>1 DEF ReplyRecord
  <1>3. PICK longer : longer = Append(replies[s], reply)
    OBVIOUS
  <1>4. longer \in Seq(ReplyRecord)
    <2>1. PICK list \in Seq(ReplyRecord) : list = replies[s]
      BY <1>0 DEF McpTyped
    <2> QED BY <1>2, <1>3, <2>1, Appended
  <1>5. replies' = [replies EXCEPT ![s] = longer]
    BY <1>1, <1>3 DEF Reply
  <1>6. /\ replies' \in [McpServers -> Seq(ReplyRecord)] /\ \A t \in McpServers \ {s} : replies'[t] = replies[t]
    BY <1>0, <1>4, <1>5 DEF McpTyped
  <1>7. McpTyped'
    <2>1. ASSUME NEW t \in McpServers PROVE read'[t] <= Len(sent[t])
      <3>1. CASE t = s
        <4>1. PICK o \in Nat : o = Len(sent[s])
          BY <1>0, ReadLines
        <4>2. read'[s] \in 1..o
          BY <4>1 DEF AnswersLine
        <4>3. read'[s] <= o
          BY <4>2
        <4> QED BY <3>1, <4>1, <4>3
      <3>2. CASE t # s
        BY <1>0, <3>2 DEF McpTyped
      <3> QED BY <3>1, <3>2
    <2> QED BY <1>0, <1>6, <2>1, TypedStays
  <1>8. SentOnce' /\ \A t \in McpServers : SentStays(t)
    BY <1>0, SentRests
  <1>9. OthersRest(s)
    BY <1>6, <1>8 DEF OthersRest, Rests
  <1>10. Served(s)' /\ Follows(s)'
    <2>1. Served(s)'
      BY DEF Served, AnswersLine
    <2> QED BY <1>0, <2>1, AnswersFollow
  <1>11. \A n \in Replies(s) : replies[s][n].text = "stopping" => works[asked[replies[s][n].line].key].by # l
    <2> SUFFICES ASSUME NEW n \in Replies(s), replies[s][n].text = "stopping"
                 PROVE  works[asked[replies[s][n].line].key].by # l
      OBVIOUS
    <2>1. StopIsTrue(s, n)
      BY <1>0 DEF Told
    <2>2. PICK p \in 1..read[s] : p \in 1..Len(sent[s]) /\ replies[s][n].line = sent[s][p]
      BY <1>0, RepliesSent
    <2>3. PICK a \in Asks : a = asked[replies[s][n].line]
      BY <1>0, <2>2, SMTT(30) DEF SentOnce
    <2>4. a.key \in Keys /\ works[a.key] # None /\ works[a.key].by # servers[s].line
      BY <2>1, <2>3, AskParts, Zenon DEF StopIsTrue, Transported
    <2> QED BY <2>3, <2>4
  <1>12. Requested(s)' /\ Told(s)'
    BY <1>0, <1>11, AnswersTold, SMTT(60)
  <1>13. \A t \in McpServers \ {s} : \A p \in 1..read[t] : sent[t][p] # None
    BY <1>0, NoneSent
  <1> QED BY <1>7, <1>8, <1>9, <1>10, <1>12, <1>13, McpMoves

\* A line that is answered as soon as it is read.
LEMMA NextReplied ==
  ASSUME McpInv, NEW s \in McpServers, MayRead(s), NEW text \in {"result", "failure", "parse-error"},
         read' = [read EXCEPT ![s] = @ + 1], Reply(s, NextLine(s), text), asked[NextLine(s)].kind # "notification",
         UNCHANGED <<servers, asked, sent, works, obtained>>
  PROVE  McpInv'
  <1>0. McpTyped /\ SentOnce /\ WorksBegun /\ Served(s)
    BY DEF McpInv
  <1>1. PICK l : l = NextLine(s)
    OBVIOUS
  <1>2. /\ read' \in [McpServers -> Nat] /\ read'[s] = read[s] + 1 /\ read'[s] \in 1..Len(sent[s])
        /\ \A t \in McpServers \ {s} : read'[t] = read[t]
        /\ \A t \in McpServers : read'[t] \in Nat /\ read[t] <= read'[t]
        /\ read[s] < Len(sent[s]) /\ l = sent[s][read'[s]] /\ l \in McpLines
        /\ servers[s].state = "running" /\ servers[s].step = "idle" /\ servers[s].line = None
    BY <1>0, <1>1, ReadNext
  <1>3. Reply(s, l, text) /\ replies'[s] = Append(replies[s], [line |-> l, text |-> text])
    BY <1>0, <1>1 DEF Reply, McpTyped
  <1>4. AnswersLine(s, l, text)
    BY <1>1, <1>2, <1>3 DEF AnswersLine
  <1>5. servers' \in [McpServers -> ServerRecord] /\ \A t \in McpServers \ {s} : servers'[t] = servers[t]
    BY <1>0 DEF McpTyped
  <1>6. \A k \in Keys : works[k] # None => works[k].by # l
    BY <1>0, <1>1, <1>2, Unread, Zenon
  <1>7. /\ works' \in [Keys -> Work \cup {None}] /\ WorksGrow(None) /\ obtained \subseteq obtained' /\ obtained' \subseteq Keys
        /\ \A t \in McpServers : SentStays(t)
    BY <1>0, WorksRest, SentRests DEF McpTyped
  <1>8. WorksBegun'
    BY <1>0, <1>2, <1>7, WorksRest, WorksStay
  <1>9. text \in {"result", "failure", "parse-error", "output", "stopping"} /\ text # "output" /\ text # "stopping"
    OBVIOUS
  <1> QED BY <1>2, <1>3, <1>4, <1>5, <1>6, <1>7, <1>8, <1>9, ReplyKeeps, SMTT(30)

LEMMA AtOnceKeeps == ASSUME McpInv, NEW s \in McpServers, AnswerAtOnce(s) PROVE McpInv'
  <1>0. MayRead(s) /\ read' = [read EXCEPT ![s] = @ + 1] /\ UNCHANGED <<servers, asked, sent, works, obtained>>
    BY DEF AnswerAtOnce
  <1>1. CASE asked[NextLine(s)].kind = "notification"
    BY <1>1, SilentKeeps
  <1>2. CASE asked[NextLine(s)].kind # "notification"
    <2>1. PICK text \in {"result", "failure", "parse-error"} : Reply(s, NextLine(s), text)
      BY <1>2 DEF AnswerAtOnce
    <2> QED BY <1>0, <1>2, <2>1, NextReplied
  <1> QED BY <1>1, <1>2

\* The line a server serves is answered.
LEMMA ServedReplied ==
  ASSUME McpInv, NEW s \in McpServers, servers[s].step # "idle", Rest(s),
         NEW text \in {"result", "failure", "output", "stopping"}, Reply(s, servers[s].line, text),
         UNCHANGED <<asked, sent, read>>, works' \in [Keys -> Work \cup {None}], WorksGrow(None), WorksBegun',
         obtained \subseteq obtained', obtained' \subseteq Keys,
         \A k \in Keys : works[k] # None /\ works'[k].state = "running" /\ servers[s].line = works[k].by => text = "failure",
         text = "output" =>
           LET v == works'[Own(s).key] IN
           Own(s).kind = "dispatch" /\ v # None /\ v.state = "completed" /\ (v.by = servers[s].line => v.returned = "delivered"),
         text = "stopping" => servers[s].step = "effective" /\ Own(s).kind = "cancel"
  PROVE  McpInv'
  <1>0. McpTyped /\ SentOnce /\ WorksBegun /\ Served(s) /\ Requested(s)
    BY DEF McpInv
  <1>1. PICK l : l = servers[s].line
    OBVIOUS
  <1>2. read[s] \in 1..Len(sent[s]) /\ l = sent[s][read[s]] /\ l \in McpLines /\ l # None
    <2>1. read[s] \in 1..Len(sent[s])
      BY <1>0, ReadLines DEF Served
    <2> QED BY <1>0, <1>1, <2>1, ReadLines DEF Served
  <1>3. servers[s].state = "running" /\ asked[l].kind \in Transported /\ Own(s) = asked[l] /\ asked[l] \in Asks
    BY <1>0, <1>1, <1>2 DEF Served, Own, SentOnce
  <1>4. /\ servers' \in [McpServers -> ServerRecord]
        /\ servers'[s].line = None /\ servers'[s].step = "idle" /\ servers'[s].state = servers[s].state
        /\ \A t \in McpServers \ {s} : servers'[t] = servers[t]
    <2>1. Serving(s, None, "idle") /\ None \in McpLines \cup {None}
      BY DEF Rest
    <2> QED BY <1>0, <2>1, ServerWritten
  <1>5. Reply(s, l, text) /\ replies'[s] = Append(replies[s], [line |-> l, text |-> text])
    BY <1>0, <1>1 DEF Reply, McpTyped
  <1>6. AnswersLine(s, l, text)
    BY <1>1, <1>2, <1>3, <1>4, <1>5 DEF AnswersLine, Transported
  <1>7. read' \in [McpServers -> Nat] /\ \A t \in McpServers \ {s} : read'[t] = read[t]
    BY <1>0 DEF McpTyped
  <1>8. text = "output" => OutputIsTrue(l)'
    BY <1>1, <1>3 DEF OutputIsTrue
  <1>9. text = "stopping" =>
           /\ asked[l].kind = "cancel" /\ works'[asked[l].key] # None
           /\ \A j \in Replies(s) : replies[s][j].line = works[asked[l].key].by => replies[s][j].text = "failure"
    <2> SUFFICES ASSUME text = "stopping"
                 PROVE  /\ asked[l].kind = "cancel" /\ works'[asked[l].key] # None
                        /\ \A j \in Replies(s) : replies[s][j].line = works[asked[l].key].by => replies[s][j].text = "failure"
      OBVIOUS
    <2>1. asked[l].key \in Keys
      BY <1>3, AskParts
    <2>2. works[asked[l].key] # None
      BY <1>0, <1>3 DEF Requested, WorkOf
    <2> QED BY <1>0, <1>3, <2>1, <2>2 DEF Requested, WorkOf, WorksGrow
  <1>10. text \in {"result", "failure", "parse-error", "output", "stopping"}
    OBVIOUS
  <1>11. \A k \in Keys : works[k] # None /\ works'[k].state = "running" /\ l = works[k].by => text = "failure"
    BY <1>1
  <1> QED BY <1>1, <1>2, <1>4, <1>5, <1>6, <1>7, <1>8, <1>9, <1>10, <1>11, ReplyKeeps

\* What a server serves, of whom the work is.
LEMMA OwnParts ==
  ASSUME McpInv, NEW s \in McpServers, servers[s].step # "idle"
  PROVE  /\ Own(s) \in Asks /\ Own(s).kind \in Transported /\ Own(s).key \in Keys
         /\ WorkOf(s) = works[Own(s).key] /\ WorkOf(s) \in Work \cup {None}
         /\ servers[s].line \in McpLines /\ servers[s].line # None
         \* Work that is under way for this very line is a new dispatch.
         /\ \A k \in Keys : works[k] # None /\ works[k].by = servers[s].line =>
              /\ servers[s].step \in {"effective", "acknowledging"} /\ Own(s).kind = "dispatch" /\ Own(s).key = k
  <1>0. McpTyped /\ SentOnce /\ WorksBegun /\ Served(s) /\ Requested(s)
    BY DEF McpInv
  <1>1. read[s] \in 1..Len(sent[s]) /\ servers[s].line = sent[s][read[s]] /\ servers[s].line \in McpLines
    BY <1>0, ReadLines DEF Served
  <1>2. Own(s) \in Asks /\ Own(s).kind \in Transported
    BY <1>0, <1>1 DEF SentOnce, Served, Own
  <1>3. Own(s).key \in Keys /\ WorkOf(s) = works[Own(s).key] /\ WorkOf(s) \in Work \cup {None}
    BY <1>0, <1>2, AskParts DEF WorkOf, McpTyped
  <1>4. servers[s].line # None
    BY <1>0 DEF Served
  <1>5. ASSUME NEW k \in Keys, works[k] # None, works[k].by = servers[s].line
        PROVE  servers[s].step \in {"effective", "acknowledging"} /\ Own(s).kind = "dispatch" /\ Own(s).key = k
    <2>1. servers[s].step \notin {"asking", "refused"}
      BY <1>0, <1>5 DEF Requested
    <2>2. servers[s] \in ServerRecord
      BY <1>0, ReadLines
    <2>3. Own(s).kind = "dispatch" /\ Own(s).key = k
      BY <1>0, <1>5 DEF WorksBegun, Own
    <2> QED BY <2>1, <2>2, <2>3 DEF ServerRecord
  <1> QED BY <1>1, <1>2, <1>3, <1>4, <1>5

LEMMA AnsweredKeeps == ASSUME McpInv, NEW s \in McpServers, CompanionAnswers(s) PROVE McpInv'
  <1> DEFINE fresh == Own(s).kind = "dispatch" /\ servers[s].step = "effective"
             known == Own(s).kind = "dispatch" /\ servers[s].step = "asking" /\ WorkOf(s).kept
  <1>0. /\ McpTyped /\ WorksBegun /\ Requested(s) /\ servers[s].step \in {"asking", "refused", "effective"} /\ servers[s].step # "idle"
        /\ fresh => WorkOf(s).state # "running"
        /\ UNCHANGED <<asked, sent, read, works>>
    BY DEF McpInv, CompanionAnswers
  <1>1. CASE fresh /\ WorkOf(s).state = "completed"
    <2>1. Serving(s, servers[s].line, "acknowledging") /\ obtained' = obtained \cup {Own(s).key} /\ UNCHANGED replies
      BY <1>1 DEF CompanionAnswers
    <2> QED BY <1>0, <1>1, <2>1, AcknowledgingKeeps
  <1>2. CASE ~(fresh /\ WorkOf(s).state = "completed")
    <2>1. PICK text : text = IF Own(s).kind # "dispatch" /\ WorkOf(s) = None THEN "failure"
                             ELSE IF Own(s).kind = "cancel" /\ servers[s].step = "effective" THEN "stopping"
                             ELSE IF known THEN "output" ELSE "result"
      OBVIOUS
    <2>2. /\ Reply(s, servers[s].line, text) /\ Rest(s)
          /\ obtained' = IF known THEN obtained \cup {Own(s).key} ELSE obtained
      BY <1>2, <2>1 DEF CompanionAnswers
    <2>3. /\ text \in {"result", "failure", "output", "stopping"} /\ (text = "output" => known)
          /\ text = "stopping" => servers[s].step = "effective" /\ Own(s).kind = "cancel"
      BY <2>1
    <2>4. Own(s).key \in Keys /\ WorkOf(s) = works[Own(s).key]
      BY <1>0, OwnParts
    <2>5. obtained \subseteq obtained' /\ obtained' \subseteq Keys
      BY <1>0, <2>2, <2>4 DEF McpTyped
    <2>6. /\ works' \in [Keys -> Work \cup {None}] /\ WorksGrow(None)
      BY <1>0, <2>5, WorksRest
    <2>7. WorksBegun'
      <3>1. McpTyped /\ SentOnce /\ \A t \in McpServers : SentStays(t)
        BY <1>0, SentRests DEF McpInv
      <3>2. \A t \in McpServers : read'[t] \in Nat /\ read[t] <= read'[t]
        BY <1>0 DEF McpTyped
      <3> QED BY <1>0, <2>5, <3>1, <3>2, WorksRest, WorksStay
    <2>8. \A k \in Keys : works[k] # None /\ works'[k].state = "running" /\ servers[s].line = works[k].by => text = "failure"
      <3> SUFFICES ASSUME NEW k \in Keys, works[k] # None, works[k].state = "running", servers[s].line = works[k].by PROVE FALSE
        BY <1>0
      <3>1. Own(s).key = k /\ fresh
        BY <1>0, OwnParts
      <3> QED BY <1>0, <2>4, <3>1
    <2>9. text = "output" =>
            LET v == works'[Own(s).key] IN
            Own(s).kind = "dispatch" /\ v # None /\ v.state = "completed" /\ (v.by = servers[s].line => v.returned = "delivered")
      <3> SUFFICES ASSUME known
                   PROVE  LET v == works[Own(s).key] IN
                          Own(s).kind = "dispatch" /\ v # None /\ v.state = "completed" /\ (v.by = servers[s].line => v.returned = "delivered")
        BY <1>0, <2>3
      <3>1. WorkOf(s) # None
        BY <1>0 DEF Requested
      <3>2. WorkOf(s).by # servers[s].line /\ WorkOf(s).state = "completed"
        BY <1>0, <2>4, <3>1 DEF Requested, WorksBegun
      <3> QED BY <2>4, <3>1, <3>2
    <2> HIDE DEF known, fresh
    <2> QED BY <1>0, <2>2, <2>3, <2>5, <2>6, <2>7, <2>8, <2>9, ServedReplied
  <1> QED BY <1>1, <1>2

LEMMA LostKeeps == ASSUME McpInv, NEW s \in McpServers, CompanionIsLost(s) PROVE McpInv'
  <1>0. /\ McpTyped /\ WorksBegun /\ servers[s].step # "idle" /\ Reply(s, servers[s].line, "failure") /\ Rest(s)
        /\ UNCHANGED <<asked, sent, read, works, obtained>>
    BY DEF McpInv, CompanionIsLost
  <1>1. /\ obtained \subseteq obtained' /\ obtained' \subseteq Keys /\ works' \in [Keys -> Work \cup {None}] /\ WorksGrow(None)
    BY <1>0, WorksRest DEF McpTyped
  <1>2. WorksBegun'
    <2>1. McpTyped /\ SentOnce /\ \A t \in McpServers : SentStays(t)
      BY <1>0, SentRests DEF McpInv
    <2>2. \A t \in McpServers : read'[t] \in Nat /\ read[t] <= read'[t]
      BY <1>0 DEF McpTyped
    <2> QED BY <1>0, <1>1, <2>1, <2>2, WorksRest, WorksStay
  <1>3. PICK text \in {"result", "failure", "output", "stopping"} : text = "failure"
    OBVIOUS
  <1> QED BY <1>0, <1>1, <1>2, <1>3, ServedReplied

LEMMA AcknowledgeKeeps ==
  ASSUME McpInv, NEW s \in McpServers, NEW reached \in BOOLEAN, NEW confirmed \in BOOLEAN, Acknowledge(s, reached, confirmed)
  PROVE  McpInv'
  <1>0. /\ McpTyped /\ WorksBegun /\ Requested(s) /\ servers[s].step = "acknowledging" /\ (confirmed => reached)
        /\ Reply(s, servers[s].line, IF confirmed THEN "output" ELSE "failure") /\ Rest(s)
        /\ UNCHANGED <<asked, sent, read, obtained>>
    BY DEF McpInv, Acknowledge
  <1>1. PICK key \in Keys : key = Own(s).key
    BY <1>0, OwnParts
  <1>2. /\ Own(s).kind = "dispatch" /\ works[key] # None /\ works[key] \in Work /\ works[key].state = "completed"
        /\ works[key].by = servers[s].line /\ key \in obtained
    BY <1>0, <1>1, OwnParts DEF Requested
  <1>3. PICK w : w = [works[key] EXCEPT !.returned = "delivered"]
    OBVIOUS
  <1>4. /\ w \in Work /\ w # None /\ w.by = works[key].by /\ w.state = "completed" /\ w.returned = "delivered" /\ (w.kept <=> works[key].kept)
    BY <1>2, <1>3, McpConstants DEF Work
  <1>5. works' = IF reached THEN [works EXCEPT ![key] = w] ELSE works
    BY <1>1, <1>3 DEF Acknowledge
  <1>6. /\ works' \in [Keys -> Work \cup {None}] /\ \A k \in Keys \ {key} : works'[k] = works[k]
        /\ works'[key] = IF reached THEN w ELSE works[key]
    BY <1>0, <1>4, <1>5 DEF McpTyped
  <1>7. WorksGrow(None)
    BY <1>2, <1>4, <1>6 DEF WorksGrow
  <1>8. WorksBegun'
    <2>1. McpTyped /\ SentOnce /\ \A t \in McpServers : SentStays(t)
      BY <1>0, SentRests DEF McpInv
    <2>2. \A t \in McpServers : read'[t] \in Nat /\ read[t] <= read'[t]
      BY <1>0 DEF McpTyped
    <2>3. /\ \A k \in Keys : works[k] = None => works'[k] = None
          /\ \A k \in Keys : works'[k] # None =>
               /\ works'[k].kept => works'[k].state = "completed"
               /\ works'[k].returned = "delivered" => works'[k].state = "completed" /\ k \in obtained'
      BY <1>0, <1>2, <1>4, <1>6 DEF WorksBegun
    <2> QED BY <1>0, <1>6, <1>7, <2>1, <2>2, <2>3, WorksStay
  <1>9. PICK text \in {"result", "failure", "output", "stopping"} : text = IF confirmed THEN "output" ELSE "failure"
    OBVIOUS
  <1>10. \A k \in Keys : works[k] # None /\ works'[k].state = "running" /\ servers[s].line = works[k].by => text = "failure"
    <2> SUFFICES ASSUME NEW k \in Keys, works[k] # None, works'[k].state = "running", servers[s].line = works[k].by PROVE FALSE
      OBVIOUS
    <2>1. k = key
      BY <1>0, <1>1, OwnParts
    <2> QED BY <1>2, <1>4, <1>6, <2>1
  <1>11. text = "output" =>
           LET v == works'[Own(s).key] IN
           Own(s).kind = "dispatch" /\ v # None /\ v.state = "completed" /\ (v.by = servers[s].line => v.returned = "delivered")
    BY <1>0, <1>1, <1>2, <1>4, <1>6, <1>9
  <1>12. obtained \subseteq obtained' /\ obtained' \subseteq Keys /\ servers[s].step # "idle" /\ text # "stopping"
         /\ Reply(s, servers[s].line, text)
    BY <1>0, <1>9 DEF McpTyped
  <1> QED BY <1>0, <1>6, <1>7, <1>8, <1>10, <1>11, <1>12, ServedReplied

-----------------------------------------------------------------------------
(* A request of the companion.                                             *)
LEMMA AskKeeps ==
  ASSUME McpInv, NEW s \in McpServers, NEW reached \in BOOLEAN, NEW grant \in BOOLEAN, AskCompanion(s, reached, grant)
  PROVE  McpInv'
  <1>0. McpTyped /\ SentOnce /\ WorksBegun /\ Served(s) /\ Follows(s) /\ Told(s)
    BY DEF McpInv
  <1>1. PICK l : l = NextLine(s)
    OBVIOUS
  <1>2. PICK a : a = asked[l]
    OBVIOUS
  <1>3. /\ MayRead(s) /\ a.kind \in Transported /\ read' = [read EXCEPT ![s] = @ + 1] /\ UNCHANGED <<asked, sent, obtained>>
    BY <1>1, <1>2 DEF AskCompanion
  <1>4. /\ read' \in [McpServers -> Nat] /\ read'[s] = read[s] + 1 /\ read'[s] \in 1..Len(sent[s]) /\ read'[s] \in 1..read'[s]
        /\ \A t \in McpServers \ {s} : read'[t] = read[t]
        /\ \A t \in McpServers : read'[t] \in Nat /\ read[t] <= read'[t] /\ read'[t] <= Len(sent[t])
        /\ read[s] < Len(sent[s]) /\ l = sent[s][read'[s]] /\ l \in McpLines
        /\ \A p \in 1..read'[s] : p \in 1..read[s] \/ p = read'[s]
        /\ \A p \in 1..read[s] : p \in 1..read'[s] /\ p # read'[s] /\ p \in 1..Len(sent[s])
        /\ servers[s].state = "running" /\ servers[s].step = "idle" /\ servers[s].line = None
    BY <1>0, <1>1, <1>3, ReadNext
  <1>5. a \in Asks /\ a.key \in Keys
    BY <1>0, <1>2, <1>3, <1>4, AskParts DEF SentOnce
  <1>6. CASE ~reached
    <2>1. Reply(s, NextLine(s), "failure") /\ UNCHANGED <<works, servers>>
      BY <1>6 DEF AskCompanion
    <2>2. PICK text \in {"result", "failure", "parse-error"} : text = "failure"
      OBVIOUS
    <2>3. asked[NextLine(s)].kind # "notification"
      BY <1>1, <1>2, <1>3 DEF Transported
    <2> QED BY <1>3, <2>1, <2>2, <2>3, NextReplied
  <1>7. CASE reached
    <2> DEFINE effective == Effective(a, grant)
    <2>1. PICK step : step = IF effective THEN "effective" ELSE IF a.kind = "dispatch" /\ ~grant THEN "refused" ELSE "asking"
      OBVIOUS
    <2>2. works' = Received(a, l, grant) /\ UNCHANGED replies /\ Serving(s, l, step)
      BY <1>1, <1>2, <1>7, <2>1 DEF AskCompanion
    <2>3. step \in {"effective", "refused", "asking"}
      BY <2>1
    <2>4. /\ servers' \in [McpServers -> ServerRecord]
          /\ servers'[s].line = l /\ servers'[s].step = step /\ servers'[s].state = "running"
          /\ \A t \in McpServers \ {s} : servers'[t] = servers[t]
      BY <1>0, <1>4, <2>2, <2>3, ServerWritten
    <2>5. \A k \in Keys : works[k] # None => works[k].by # l
      BY <1>0, <1>1, <1>4, Unread
    \* What the companion makes of it.
    <2>6. /\ works' \in [Keys -> Work \cup {None}] /\ \A k \in Keys : works'[k] = works[k] \/ (k = a.key /\ effective)
          /\ effective /\ a.kind = "dispatch" => /\ works[a.key] = None /\ works'[a.key] # None /\ works'[a.key].by = l
                                                 /\ ~works'[a.key].kept /\ works'[a.key].returned = "pending"
          /\ effective /\ a.kind # "dispatch" =>
               /\ a.kind = "cancel" /\ works[a.key] # None /\ works[a.key].state = "running"
               /\ works'[a.key] # None /\ works'[a.key].by = works[a.key].by /\ works'[a.key].state = works[a.key].state
               /\ works'[a.key].returned = works[a.key].returned /\ (works'[a.key].kept <=> works[a.key].kept)
      <3>0. works \in [Keys -> Work \cup {None}]
        BY <1>0 DEF McpTyped
      <3>1. CASE ~effective
        <4>1. works' = works
          BY <2>2, <3>1 DEF Received
        <4> QED BY <3>0, <3>1, <4>1
      <3>2. CASE effective /\ a.kind = "dispatch"
        <4>1. PICK w : w = BegunWork(l)
          OBVIOUS
        <4>2. w \in Work /\ w.by = l /\ ~w.kept /\ w.returned = "pending"
          BY <1>4, <4>1 DEF BegunWork, Work
        <4>3. works' = [works EXCEPT ![a.key] = w] /\ works[a.key] = None
          BY <2>2, <3>2, <4>1 DEF Received, Effective
        <4> QED BY <1>5, <3>0, <3>2, <4>2, <4>3, McpConstants
      <3>3. CASE effective /\ a.kind # "dispatch"
        <4>1. a.kind = "cancel" /\ works[a.key] # None /\ works[a.key].state = "running" /\ works[a.key] \in Work
          BY <1>5, <3>0, <3>3 DEF Effective, UnderWay
        <4>2. PICK w : w = [works[a.key] EXCEPT !.aborted = TRUE]
          OBVIOUS
        <4>3. /\ w \in Work /\ w.by = works[a.key].by /\ w.state = works[a.key].state
              /\ w.returned = works[a.key].returned /\ (w.kept <=> works[a.key].kept)
          BY <4>1, <4>2 DEF Work
        <4>4. works' = [works EXCEPT ![a.key] = w]
          BY <2>2, <3>3, <4>1, <4>2 DEF Received
        <4> QED BY <1>5, <3>0, <3>3, <4>1, <4>3, <4>4, McpConstants
      <3> QED BY <3>1, <3>2, <3>3
    <2>7. WorksGrow(l)
      BY <1>5, <2>6 DEF WorksGrow
    <2>8. McpTyped' /\ SentOnce' /\ \A t \in McpServers : SentStays(t)
      <3>1. replies' \in [McpServers -> Seq(ReplyRecord)] /\ obtained' \subseteq Keys
        BY <1>0, <1>3, <2>2 DEF McpTyped
      <3> QED BY <1>0, <1>3, <1>4, <2>4, <2>6, <3>1, TypedStays, SentRests
    <2>9. OthersRest(s)
      BY <1>4, <2>2, <2>4, <2>8 DEF OthersRest, Rests
    <2>10. \A t \in McpServers \ {s} : \A p \in 1..read[t] : sent[t][p] # l
      BY <1>0, <1>4, ReadLines DEF SentOnce
    <2>11. \A p \in 1..read[s] : sent[s][p] # l
      BY <1>0, <1>4 DEF SentOnce
    <2>12. Served(s)'
      <3>1. l # None /\ read'[s] # 0
        BY <1>4, McpConstants DEF Keys
      <3>2. sent'[s] = sent[s] /\ asked'[l] = a
        BY <1>2, <1>3
      <3> QED BY <1>3, <1>4, <2>3, <2>4, <3>1, <3>2 DEF Served
    <2>13. Follows(s)'
      <3>1. LinesAnswered(s)' = LinesAnswered(s)
        <4>1. ASSUME NEW p \in 1..read'[s], sent[s][p] # l PROVE p \in 1..read[s] /\ sent[s][p] # None
          <5>1. p \in 1..read[s]
            BY <1>4, <4>1
          <5> QED BY <1>0, <5>1, NoneSent
        <4> QED BY <1>3, <1>4, <2>4, <2>11, <4>1 DEF LinesAnswered
      <3>2. replies'[s] = replies[s] /\ sent'[s] = sent[s] /\ asked' = asked
        BY <1>3, <2>2
      <3> QED BY <1>0, <1>4, <2>4, <3>1, <3>2, ReadsOn
    <2>14. Told(s)'
      <3>1. \A n \in Replies(s) : replies[s][n].text = "stopping" => works[asked[replies[s][n].line].key].by # servers'[s].line
        <4> SUFFICES ASSUME NEW n \in Replies(s), replies[s][n].text = "stopping"
                     PROVE  works[asked[replies[s][n].line].key].by # servers'[s].line
          OBVIOUS
        <4>1. StopIsTrue(s, n)
          BY <1>0 DEF Told
        <4>2. PICK p \in 1..read[s] : p \in 1..Len(sent[s]) /\ replies[s][n].line = sent[s][p]
          BY <1>0, RepliesSent
        <4>3. PICK c \in Asks : c = asked[replies[s][n].line]
          BY <1>0, <4>2, SMTT(30) DEF SentOnce
        <4>4. c.key \in Keys /\ works[c.key] # None
          BY <4>1, <4>3, AskParts DEF StopIsTrue, Transported
        <4> QED BY <2>4, <2>5, <4>3, <4>4
      <3>2. replies'[s] = replies[s]
        BY <2>2
      <3> QED BY <1>0, <2>7, <2>8, <2>11, <3>1, <3>2, ToldGrows
    <2>15. Requested(s)'
      <3>1. Own(s)' = a /\ WorkOf(s)' = works'[a.key]
        BY <1>2, <1>3, <2>4 DEF Own, WorkOf
      <3>2. step = "effective" <=> effective
        BY <2>1
      <3>3. step \in {"asking", "refused"} => \A k \in Keys : works'[k] # None => works'[k].by # l
        BY <2>5, <2>6, <3>2
      <3>4. step = "refused" => a.kind = "dispatch"
        BY <2>1
      <3>5. step = "asking" /\ a.kind = "dispatch" => works'[a.key] # None
        <4> SUFFICES ASSUME step = "asking", a.kind = "dispatch" PROVE works'[a.key] # None
          OBVIOUS
        <4>1. grant /\ ~effective
          BY <2>1
        <4> QED BY <1>5, <2>6, <4>1 DEF Effective
      <3>6. effective =>
              /\ works'[a.key] # None /\ a.kind \in {"dispatch", "cancel"}
              /\ a.kind = "dispatch" => works'[a.key].by = l
        BY <2>6
      <3>7. effective /\ a.kind = "cancel" =>
              \A j \in Replies(s) : replies[s][j].line = works'[a.key].by => replies[s][j].text = "failure"
        BY <1>0, <1>5, <2>6 DEF Told
      <3>8. Replies(s)' = Replies(s) /\ replies'[s] = replies[s]
        BY <2>2 DEF Replies
      <3> HIDE DEF effective
      <3> QED BY <2>3, <2>4, <3>1, <3>2, <3>3, <3>4, <3>5, <3>6, <3>7, <3>8 DEF Requested
    <2>16. WorksBegun'
      <3>1. \A k \in Keys : works[k] = None /\ works'[k] # None =>
              /\ \E t \in McpServers : \E p \in 1..read'[t] : sent'[t][p] = l
              /\ asked'[l].kind = "dispatch" /\ asked'[l].key = k
              /\ ~works'[k].kept /\ works'[k].returned # "delivered"
        <4> SUFFICES ASSUME NEW k \in Keys, works[k] = None, works'[k] # None
                     PROVE  /\ \E t \in McpServers : \E p \in 1..read'[t] : sent'[t][p] = l
                            /\ asked'[l].kind = "dispatch" /\ asked'[l].key = k
                            /\ ~works'[k].kept /\ works'[k].returned # "delivered"
          OBVIOUS
        <4>1. k = a.key /\ effective /\ a.kind = "dispatch"
          BY <2>6
        <4>2. asked'[l] = a
          BY <1>2, <1>3
        <4>3. sent'[s][read'[s]] = l /\ read'[s] \in 1..read'[s]
          BY <1>3, <1>4
        <4> QED BY <2>6, <4>1, <4>2, <4>3
      <3>2. \A k \in Keys : works'[k] # None =>
              /\ works'[k].kept => works'[k].state = "completed"
              /\ works'[k].returned = "delivered" => works'[k].state = "completed" /\ k \in obtained'
        BY <1>0, <1>3, <1>5, <2>6 DEF WorksBegun
      <3> QED BY <1>0, <1>4, <2>6, <2>7, <2>8, <3>1, <3>2, WorksStay
    <2>17. obtained \subseteq obtained'
      BY <1>3
    <2> QED BY <2>7, <2>8, <2>9, <2>10, <2>12, <2>13, <2>14, <2>15, <2>16, <2>17, McpMoves
  <1> QED BY <1>6, <1>7

LEMMA McpStep == McpInv /\ [McpNext]_mcpVars => McpInv'
  <1> SUFFICES ASSUME McpInv, [McpNext]_mcpVars PROVE McpInv'
    OBVIOUS
  <1>1. CASE UNCHANGED mcpVars
    <2>1. McpTyped /\ SentOnce /\ WorksBegun /\ UNCHANGED <<servers, asked, sent, read, replies, works, obtained>>
      BY <1>1 DEF McpInv, mcpVars
    <2>2. McpTyped' /\ SentOnce'
      BY <2>1 DEF McpTyped, SentOnce
    <2>3. WorksGrow(None) /\ WorksBegun' /\ \A t \in McpServers : Rests(t)
      BY <2>1 DEF WorksGrow, WorksBegun, Rests, SentStays
    <2> QED BY <2>1, <2>2, <2>3, AllRest
  <1>2. CASE McpNext
    BY <1>2, StartKeeps, EndKeeps, AtOnceKeeps, SilentKeeps, AnsweredKeeps, LostKeeps, SendKeeps, AskKeeps, AcknowledgeKeeps, CompanionWorks
       DEF McpNext
  <1> QED BY <1>1, <1>2

\* What the invariant says of conversations.
LEMMA McpSafe == McpInv => RepliesInOrder /\ DeliveredWasObtained /\ StopsOnlyOthers
  <1> SUFFICES ASSUME McpInv PROVE RepliesInOrder /\ DeliveredWasObtained /\ StopsOnlyOthers
    OBVIOUS
  <1>1. RepliesInOrder
    BY DEF McpInv, Follows, RepliesInOrder
  <1>2. DeliveredWasObtained
    <2>1. \A k \in Keys : works[k] # None /\ works[k].returned = "delivered" => works[k].state = "completed" /\ k \in obtained
      BY SMTT(30) DEF McpInv, WorksBegun
    <2> QED BY <2>1 DEF McpInv, Told, OutputIsTrue, DeliveredWasObtained, Replies
  <1>3. StopsOnlyOthers
    BY DEF McpInv, Told, StopIsTrue, StopsOnlyOthers, Replies
  <1> QED BY <1>1, <1>2, <1>3

LEMMA McpIsTyped == McpInv => McpTypeOK
  <1> SUFFICES ASSUME McpInv PROVE McpTypeOK
    OBVIOUS
  <1>1. ASSUME NEW s \in McpServers
        PROVE  /\ servers[s].state \in {"starting", "running", "ended"}
               /\ servers[s].step \in {"idle", "asking", "refused", "effective", "acknowledging"}
               /\ servers[s].step = "idle" <=> servers[s].line = None
               /\ read[s] <= Len(sent[s])
    BY DEF McpInv, McpTyped, ServerRecord, Served
  <1>2. (\A k \in Keys : works[k] # None => works[k] \in Work) /\ obtained \subseteq Keys
    BY DEF McpInv, McpTyped
  <1> QED BY <1>1, <1>2 DEF McpTypeOK

-----------------------------------------------------------------------------
(* Folds over sequences.  The provers know no induction, but of the numbers   *)
(* that lack a property one is the least.                                  *)
LEMMA Counting ==
  ASSUME NEW n \in Nat, NEW T, 0 \in T, \A k \in 0..(n - 1) : k \in T => k + 1 \in T
  PROVE  0..n \subseteq T
  <1> DEFINE left == 0..n \ T
  <1> SUFFICES ASSUME left # {} PROVE FALSE
    OBVIOUS
  <1>1. left \subseteq Nat
    OBVIOUS
  <1>2. PICK x \in left : \A y \in left : ~ (<<y, x>> \in OpToRel(<, Nat))
    BY <1>1, WFMin, NatLessThanWellFounded
  <1>3. \A y \in left : ~ (y < x)
    BY <1>1, <1>2 DEF OpToRel
  <1> QED
    BY <1>3

LastOf(s) == CHOOSE m \in s : \A y \in s : m >= y

LEMMA LastOfNumbers ==
  ASSUME NEW k \in Nat, NEW s \in SUBSET (1..(k + 1)), k + 1 \in s
  PROVE  LastOf(s) = k + 1
  <1>1. \A y \in s : k + 1 >= y
    OBVIOUS
  <1>2. LastOf(s) \in s /\ \A y \in s : LastOf(s) >= y
    BY <1>1 DEF LastOf
  <1>3. LastOf(s) >= k + 1 /\ LastOf(s) \in 1..(k + 1)
    BY <1>2
  <1> QED BY <1>3

LEMMA LastOfIsOne ==
  ASSUME NEW n \in Nat, NEW s \in SUBSET (1..n), s # {}
  PROVE  LastOf(s) \in s
  <1> DEFINE T == {k \in 0..n : \A t \in SUBSET (1..k) : t # {} => LastOf(t) \in t}
  <1>1. 0 \in T
    <2>1. ASSUME NEW t \in SUBSET (1..0), t # {} PROVE LastOf(t) \in t
      <3>1. t = {}
        OBVIOUS
      <3> QED BY <2>1, <3>1
    <2>2. 0 \in 0..n
      OBVIOUS
    <2> QED BY <2>1, <2>2
  <1>2. ASSUME NEW k \in 0..(n - 1), k \in T PROVE k + 1 \in T
    <2>1. ASSUME NEW t \in SUBSET (1..(k + 1)), t # {} PROVE LastOf(t) \in t
      <3>1. CASE k + 1 \in t
        BY <3>1, LastOfNumbers
      <3>2. CASE k + 1 \notin t
        BY <1>2, <2>1, <3>2
      <3> QED BY <3>1, <3>2
    <2> QED BY <2>1
  <1>3. n \in T
    <2> HIDE DEF T
    <2>1. 0..n \subseteq T
      BY <1>1, <1>2, Counting
    <2> QED BY <2>1
  <1> QED BY <1>3

\* There is a function that takes the numbers up to n one by one: what it makes of a set is one
\* step after what it makes of the set without its last.
Folding(n, base, step, g) ==
  \A s \in SUBSET (1..n) : g[s] = IF s = {} THEN base ELSE step[LastOf(s)][g[s \ {LastOf(s)}]]

LEMMA FoldsExist ==
  ASSUME NEW n \in Nat, NEW R, NEW base \in R, NEW step \in [1..n -> [R -> R]]
  PROVE  \E g \in [SUBSET (1..n) -> R] : Folding(n, base, step, g)
  <1> DEFINE T == {k \in 0..n : \E g \in [SUBSET (1..k) -> R] : Folding(k, base, step, g)}
  <1>1. 0 \in T
    <2> DEFINE g == [s \in SUBSET (1..0) |-> base]
    <2>1. \A s \in SUBSET (1..0) : s = {}
      OBVIOUS
    <2>2. g \in [SUBSET (1..0) -> R] /\ Folding(0, base, step, g)
      BY <2>1 DEF Folding
    <2> QED BY <2>2
  <1>2. ASSUME NEW k \in 0..(n - 1), k \in T PROVE k + 1 \in T
    <2>1. PICK g \in [SUBSET (1..k) -> R] : Folding(k, base, step, g)
      BY <1>2
    <2> DEFINE h == [s \in SUBSET (1..(k + 1)) |->
                       IF k + 1 \in s THEN step[k + 1][g[s \ {k + 1}]] ELSE g[s]]
    <2>2. k + 1 \in 1..n /\ k + 1 \in 0..n /\ k \in Nat
      OBVIOUS
    <2>3. ASSUME NEW s \in SUBSET (1..(k + 1))
          PROVE  /\ h[s] \in R
                 /\ h[s] = IF s = {} THEN base ELSE step[LastOf(s)][h[s \ {LastOf(s)}]]
      <3>1. CASE k + 1 \in s
        <4>1. LastOf(s) = k + 1
          BY <2>2, <3>1, LastOfNumbers
        <4>2. s \ {k + 1} \in SUBSET (1..k) /\ s \ {k + 1} \in SUBSET (1..(k + 1)) /\ k + 1 \notin s \ {k + 1}
          OBVIOUS
        <4>3. h[s \ {k + 1}] = g[s \ {k + 1}]
          BY <4>2
        <4>4. h[s] = step[k + 1][g[s \ {k + 1}]]
          BY <3>1
        <4>5. h[s] \in R
          BY <2>2, <4>2, <4>4
        <4> QED BY <3>1, <4>1, <4>3, <4>4, <4>5
      <3>2. CASE k + 1 \notin s
        <4>1. s \in SUBSET (1..k)
          BY <3>2
        <4>2. s \ {LastOf(s)} \in SUBSET (1..(k + 1)) /\ k + 1 \notin s \ {LastOf(s)}
          BY <3>2
        <4>3. h[s \ {LastOf(s)}] = g[s \ {LastOf(s)}] /\ h[s] = g[s]
          BY <3>2, <4>2
        <4>4. g[s] = IF s = {} THEN base ELSE step[LastOf(s)][g[s \ {LastOf(s)}]]
          BY <2>1, <4>1 DEF Folding
        <4> QED BY <4>1, <4>3, <4>4
      <3> QED BY <3>1, <3>2
    <2>4. Folding(k + 1, base, step, h) /\ h \in [SUBSET (1..(k + 1)) -> R]
      BY <2>3 DEF Folding
    <2> QED BY <2>2, <2>4
  <1>3. n \in T
    <2> HIDE DEF T
    <2>1. 0..n \subseteq T
      BY <1>1, <1>2, Counting
    <2> QED BY <2>1
  <1> QED BY <1>3

\* The numbers up to the next, without it.
LEMMA LastOfUpTo ==
  ASSUME NEW n \in Nat, NEW k \in 0..(n - 1)
  PROVE  1..(k + 1) \in SUBSET (1..n) /\ LastOf(1..(k + 1)) = k + 1 /\ (1..(k + 1)) \ {k + 1} = 1..k
  <1>1. k \in Nat /\ 1..(k + 1) \in SUBSET (1..n) /\ k + 1 \in 1..(k + 1)
    OBVIOUS
  <1>2. LastOf(1..(k + 1)) = k + 1
    BY <1>1, LastOfNumbers
  <1>3. (1..(k + 1)) \ {k + 1} = 1..k
    BY <1>1
  <1> QED BY <1>1, <1>2, <1>3

-----------------------------------------------------------------------------
(* Model usage.  What deduplication accepts of the records a collector     *)
(* printed are those that none of their day and model contradicts.         *)
\* The records that no other of their day and model contradicts, and the days and models of those
\* that one does.
Unanimous(records) == {d \in records : \A e \in records : Identity(e) = Identity(d) => e = d}
Contradicted(records) == {Identity(d) : d \in records \ Unanimous(records)}
Sifted(records) == [accepted |-> Unanimous(records), conflicts |-> Contradicted(records)]

\* One more record.
LEMMA AcceptSifts ==
  ASSUME NEW records, NEW d
  PROVE  AcceptRecord(Sifted(records), d) = Sifted(records \cup {d})
  <1> DEFINE so == Sifted(records)
             same == {a \in so.accepted : Identity(a) = Identity(d)}
             more == records \cup {d}
  <1>1. so.accepted = Unanimous(records) /\ so.conflicts = Contradicted(records)
    BY DEF Sifted
  <1>2. CASE Identity(d) \in Contradicted(records)
    <2>1. PICK e \in records \ Unanimous(records) : Identity(e) = Identity(d)
      BY <1>2 DEF Contradicted
    <2>2. PICK g \in records : Identity(g) = Identity(d) /\ g # e
      BY <2>1 DEF Unanimous
    <2>3. Unanimous(more) = Unanimous(records)
      BY <2>1, <2>2 DEF Unanimous
    <2>4. Contradicted(more) = Contradicted(records)
      BY <1>2, <2>3 DEF Contradicted
    <2>5. AcceptRecord(so, d) = so
      BY <1>1, <1>2 DEF AcceptRecord
    <2> QED BY <2>3, <2>4, <2>5 DEF Sifted
  <1>3. CASE Identity(d) \notin Contradicted(records) /\ d \in records
    <2>1. d \in Unanimous(records)
      BY <1>3 DEF Contradicted
    <2>2. more = records
      BY <1>3
    <2>3. d \in same
      BY <1>1, <2>1
    <2>4. AcceptRecord(so, d) = so
      BY <2>3 DEF AcceptRecord
    <2> QED BY <2>2, <2>4
  <1>4. CASE Identity(d) \notin Contradicted(records) /\ d \notin records
    <2>1. \A e \in records : Identity(e) = Identity(d) => e \in Unanimous(records)
      BY <1>4 DEF Contradicted
    <2>2. CASE same = {}
      <3>1. \A e \in records : Identity(e) # Identity(d)
        BY <1>1, <2>1, <2>2
      <3>2. Unanimous(more) = Unanimous(records) \cup {d}
        BY <3>1 DEF Unanimous
      <3>3. more \ Unanimous(more) = records \ Unanimous(records)
        BY <1>4, <3>2 DEF Unanimous
      <3>4. Contradicted(more) = Contradicted(records)
        BY <3>3 DEF Contradicted
      <3>5. AcceptRecord(so, d) = [so EXCEPT !.accepted = @ \cup {d}]
        BY <1>1, <1>4, <2>2 DEF AcceptRecord, Unanimous
      <3> QED BY <3>2, <3>4, <3>5 DEF Sifted
    <2>3. CASE same # {}
      <3>1. PICK e \in Unanimous(records) : Identity(e) = Identity(d)
        BY <1>1, <2>3
      <3>2. same = {e}
        BY <1>1, <3>1 DEF Unanimous
      <3>3. e # d /\ e \in records
        BY <1>4, <3>1 DEF Unanimous
      <3>4. Unanimous(more) = Unanimous(records) \ {e}
        BY <3>1, <3>3, <1>4 DEF Unanimous
      <3>5. more \ Unanimous(more) = (records \ Unanimous(records)) \cup {d, e}
        BY <3>1, <3>3, <3>4, <1>4 DEF Unanimous
      <3>6. Contradicted(more) = Contradicted(records) \cup {Identity(d)}
        BY <3>1, <3>5 DEF Contradicted
      <3>7. AcceptRecord(so, d) = [accepted |-> so.accepted \ same, conflicts |-> so.conflicts \cup {Identity(d)}]
        BY <1>1, <1>4, <2>3, <3>2, <3>3 DEF AcceptRecord
      <3> QED BY <1>1, <3>2, <3>4, <3>6, <3>7 DEF Sifted
    <2> QED BY <2>2, <2>3
  <1> QED BY <1>2, <1>3, <1>4

\* The fold over a sequence is a function of the sets of positions, which takes the last one last.
LEMMA FoldUnfolds ==
  ASSUME NEW graph
  PROVE  Deduplicated(graph) =
           LET iter[s \in SUBSET (DOMAIN graph)] ==
             IF s = {} THEN [accepted |-> {}, conflicts |-> {}]
             ELSE LET x == CHOOSE m \in s : \A y \in s : m >= y
                  IN AcceptRecord(iter[s \ {x}], graph[x])
           IN iter[DOMAIN graph]
  BY DEF Deduplicated, FoldLeft, MapThenFoldSet, Max

Sifts(graph, S, g) == g = [s \in SUBSET S |->
  IF s = {} THEN [accepted |-> {}, conflicts |-> {}] ELSE AcceptRecord(g[s \ {LastOf(s)}], graph[LastOf(s)])]

LEMMA SiftsExists ==
  ASSUME NEW graph \in Seq(DailyRecord)
  PROVE  \E g : Sifts(graph, DOMAIN graph, g)
  <1> DEFINE n == Len(graph)
             R == {Sifted(records) : records \in SUBSET DailyRecord}
             none == [accepted |-> {}, conflicts |-> {}]
             step == [k \in 1..n |-> [so \in R |-> AcceptRecord(so, graph[k])]]
  <1>1. n \in Nat /\ DOMAIN graph = 1..n /\ \A k \in 1..n : graph[k] \in DailyRecord
    OBVIOUS
  <1>2. none \in R
    <2>1. Sifted({}) = none
      BY DEF Sifted, Unanimous, Contradicted
    <2> QED BY <2>1
  <1>3. ASSUME NEW k \in 1..n, NEW so \in R PROVE AcceptRecord(so, graph[k]) \in R
    <2>1. PICK records \in SUBSET DailyRecord : so = Sifted(records)
      BY <1>3
    <2>2. records \cup {graph[k]} \in SUBSET DailyRecord
      BY <1>1
    <2>3. AcceptRecord(so, graph[k]) = Sifted(records \cup {graph[k]})
      BY <2>1, AcceptSifts
    <2> QED BY <2>2, <2>3
  <1> HIDE DEF R, none
  <1>4. step \in [1..n -> [R -> R]]
    BY <1>3
  <1>5. \A k \in 1..n, so \in R : step[k][so] = AcceptRecord(so, graph[k])
    OBVIOUS
  <1> HIDE DEF step
  <1>6. PICK g \in [SUBSET (1..n) -> R] : Folding(n, none, step, g)
    BY <1>1, <1>2, <1>4, FoldsExist
  <1>7. ASSUME NEW s \in SUBSET (1..n)
        PROVE  g[s] = IF s = {} THEN none ELSE AcceptRecord(g[s \ {LastOf(s)}], graph[LastOf(s)])
    <2>1. CASE s = {}
      BY <1>6, <2>1 DEF Folding
    <2>2. CASE s # {}
      <3>1. LastOf(s) \in 1..n
        BY <1>1, <2>2, LastOfIsOne
      <3>2. g[s \ {LastOf(s)}] \in R
        BY <1>6
      <3>3. g[s] = step[LastOf(s)][g[s \ {LastOf(s)}]]
        BY <1>6, <2>2 DEF Folding
      <3> QED BY <1>5, <2>2, <3>1, <3>2, <3>3
    <2> QED BY <2>1, <2>2
  <1> QED BY <1>1, <1>6, <1>7 DEF Sifts, none

\* What the fold accepts are the records that nothing contradicts.
LEMMA DeduplicatedSifts ==
  ASSUME NEW graph \in Seq(DailyRecord)
  PROVE  Deduplicated(graph) = Sifted({graph[i] : i \in DOMAIN graph})
  <1> DEFINE n == Len(graph)
             iter[s \in SUBSET (DOMAIN graph)] ==
               IF s = {} THEN [accepted |-> {}, conflicts |-> {}]
               ELSE AcceptRecord(iter[s \ {LastOf(s)}], graph[LastOf(s)])
             T == {k \in 0..n : iter[1..k] = Sifted({graph[i] : i \in 1..k})}
  <1>1. n \in Nat /\ DOMAIN graph = 1..n
    OBVIOUS
  <1>2. Deduplicated(graph) = iter[1..n]
    BY <1>1, FoldUnfolds DEF LastOf
  <1>3. iter = [s \in SUBSET (DOMAIN graph) |->
                 IF s = {} THEN [accepted |-> {}, conflicts |-> {}]
                 ELSE AcceptRecord(iter[s \ {LastOf(s)}], graph[LastOf(s)])]
    <2>1. \E g : Sifts(graph, DOMAIN graph, g)
      BY SiftsExists
    <2> QED BY <2>1 DEF Sifts
  <1> HIDE DEF iter
  <1>4. 0 \in T
    <2>1. 1..0 = {} /\ {graph[i] : i \in 1..0} = {}
      OBVIOUS
    <2>2. Sifted({}) = [accepted |-> {}, conflicts |-> {}]
      BY DEF Sifted, Unanimous, Contradicted
    <2>3. iter[{}] = [accepted |-> {}, conflicts |-> {}]
      BY <1>3
    <2>4. iter[1..0] = Sifted({graph[i] : i \in 1..0})
      <3>1. {graph[i] : i \in 1..0} = {}
        OBVIOUS
      <3>2. iter[1..0] = [accepted |-> {}, conflicts |-> {}]
        BY <2>1, <2>3
      <3> QED BY <2>2, <3>1, <3>2
    <2>5. 0 \in 0..n
      BY <1>1
    <2> QED BY <2>4, <2>5, Zenon
  <1>5. ASSUME NEW k \in 0..(n - 1), k \in T PROVE k + 1 \in T
    <2>1. k + 1 \in 1..(k + 1) /\ k + 1 \in 0..n /\ k \in Nat
      BY <1>1
    <2>2. LastOf(1..(k + 1)) = k + 1 /\ 1..(k + 1) \in SUBSET (DOMAIN graph)
      BY <1>1, LastOfUpTo
    <2>3. (1..(k + 1)) \ {k + 1} = 1..k
      BY <1>1, LastOfUpTo
    <2>4. iter[1..(k + 1)] = AcceptRecord(iter[1..k], graph[k + 1])
      BY <1>3, <2>1, <2>2, <2>3
    <2>5. {graph[i] : i \in 1..(k + 1)} = {graph[i] : i \in 1..k} \cup {graph[k + 1]}
      BY <2>1, <2>3
    <2>6. iter[1..k] = Sifted({graph[i] : i \in 1..k})
      BY <1>5
    <2> QED BY <2>1, <2>4, <2>5, <2>6, AcceptSifts
  <1>6. n \in T
    <2> HIDE DEF T
    <2>1. 0..n \subseteq T
      BY <1>1, <1>4, <1>5, Counting
    <2> QED BY <1>1, <2>1
  <1> QED BY <1>1, <1>2, <1>6

\* At most the latest refresh runs, its row is of one that does, and what it was told is of its window.
RunsKnown ==
  /\ \A r \in DOMAIN runRows : r <= Len(refreshRuns)
  /\ \A r \in Running :
       /\ r = Len(refreshRuns)
       /\ r \in DOMAIN runRows => runRows[r].state \in Active
       /\ \A i \in DOMAIN refreshRuns[r].graph :
            refreshRuns[r].graph[i].date \in refreshRuns[r].since..refreshRuns[r].until

UsageInv == UsageTypeOK /\ RunsKnown /\ UsageHistoryStands

LEMMA UsageStarts == UsageInit => UsageInv
  <1> SUFFICES ASSUME UsageInit PROVE UsageInv
    OBVIOUS
  <1>1. refreshRuns \in [1..0 -> RefreshRun \cup {None}] /\ 0 \in 0..MaxRuns
    BY UsageConstants DEF UsageInit
  <1>2. UsageTypeOK
    BY <1>1, UsageConstants DEF UsageInit, UsageTypeOK, Days
  <1> QED BY <1>2 DEF UsageInit, UsageInv, RunsKnown, Running, UsageHistoryStands, LatestRefreshCounts, LastSuccessStands

\* The refreshes as a sequence.
LEMMA RefreshesKnown ==
  ASSUME UsageTypeOK
  PROVE  /\ Len(refreshRuns) \in 0..MaxRuns /\ DOMAIN refreshRuns = 1..Len(refreshRuns)
         /\ refreshRuns \in [1..Len(refreshRuns) -> RefreshRun \cup {None}]
         /\ refreshRuns \in Seq(RefreshRun \cup {None})
         /\ \A r \in Running : r \in RunIds /\ refreshRuns[r] \in RefreshRun
  <1>1. PICK n \in 0..MaxRuns : refreshRuns \in [1..n -> RefreshRun \cup {None}]
    BY DEF UsageTypeOK
  <1>2. refreshRuns \in Seq(RefreshRun \cup {None}) /\ Len(refreshRuns) = n
    <2>1. n \in Nat /\ DOMAIN refreshRuns = 1..n
      BY <1>1, UsageConstants
    <2>2. refreshRuns \in Seq(RefreshRun \cup {None})
      BY <1>1, <2>1, SeqDef
    <2>3. Len(refreshRuns) \in Nat /\ DOMAIN refreshRuns = 1..Len(refreshRuns)
      BY <2>2, LenProperties, SMTT(30)
    <2> QED BY <2>1, <2>2, <2>3
  <1> QED BY <1>1, <1>2, UsageConstants DEF Running, RunIds

\* The refresh that runs goes on, ends or is stopped: one entry changes.
LEMMA RefreshChanges ==
  ASSUME UsageInv, NEW r \in Running, NEW run \in RefreshRun,
         refreshRuns' = [refreshRuns EXCEPT ![r] = run]
  PROVE  /\ \E n \in 0..MaxRuns : refreshRuns' \in [1..n -> RefreshRun \cup {None}]
         /\ Len(refreshRuns') = Len(refreshRuns) /\ Len(refreshRuns) = r
         /\ Running' = IF run.state \in Active /\ run # None THEN {r} ELSE {}
         /\ refreshRuns'[r] = run
  <1>1. /\ Len(refreshRuns) \in 0..MaxRuns /\ DOMAIN refreshRuns = 1..Len(refreshRuns)
        /\ refreshRuns \in [1..Len(refreshRuns) -> RefreshRun \cup {None}]
        /\ refreshRuns \in Seq(RefreshRun \cup {None})
        /\ r = Len(refreshRuns) /\ r \in 1..Len(refreshRuns)
    BY RefreshesKnown DEF UsageInv, RunsKnown, Running
  <1>2. refreshRuns' \in [1..Len(refreshRuns) -> RefreshRun \cup {None}]
    BY <1>1
  <1>3. Len(refreshRuns') = Len(refreshRuns) /\ DOMAIN refreshRuns' = DOMAIN refreshRuns
    BY <1>1
  <1>4. \A q \in DOMAIN refreshRuns : q # r => refreshRuns'[q] = refreshRuns[q] /\ q \notin Running
    BY <1>1 DEF UsageInv, RunsKnown
  <1>5. refreshRuns'[r] = run
    BY <1>1
  <1>6. Running' = IF run.state \in Active /\ run # None THEN {r} ELSE {}
    BY <1>1, <1>3, <1>4, <1>5 DEF Running
  <1> QED BY <1>1, <1>2, <1>3, <1>5, <1>6, Zenon

\* What is neither a refresh nor recorded may stay.
LEMMA UsageRest ==
  ASSUME UsageInv, UNCHANGED <<refreshRuns, runRows, canonical, attribution, lastSuccess>>,
         today' \in Days, mappings' \in [Models -> Profiles \cup {None}]
  PROVE  UsageInv'
  <1>1. UsageTypeOK'
    BY DEF UsageInv, UsageTypeOK
  <1>2. RunsKnown' /\ UsageHistoryStands'
    BY DEF UsageInv, RunsKnown, Running, UsageHistoryStands, LatestRefreshCounts, LastSuccessStands
  <1> QED BY <1>1, <1>2 DEF UsageInv

\* A refresh that ended has nothing collected.
LEMMA EndedIsRefresh ==
  ASSUME NEW run \in RefreshRun, NEW state \in Terminals
  PROVE  /\ Ended(run, state) \in RefreshRun /\ Ended(run, state).state = state
         /\ Ended(run, state).graph = << >> /\ Ended(run, state).since = run.since
         /\ Ended(run, state).until = run.until
  <1> DEFINE end == Ended(run, state)
  <1>1. end = [run EXCEPT !.state = state, !.awaits = "finished", !.aborted = None, !.failures = FALSE,
                          !.graph = << >>, !.subjects = {}]
    BY DEF Ended
  <1>2. << >> \in Seq(DailyRecord)
    OBVIOUS
  <1>3. end = [since |-> run.since, until |-> run.until, state |-> state, awaits |-> "finished", aborted |-> None,
               failures |-> FALSE, graph |-> << >>, subjects |-> {}]
    BY <1>1 DEF RefreshRun
  <1>4. run.since \in Days /\ run.until \in Days
    BY DEF RefreshRun
  <1> HIDE DEF end
  <1>5. end \in RefreshRun
    BY <1>2, <1>3, <1>4 DEF RefreshRun
  <1>6. /\ end.state = state /\ end.graph = << >> /\ end.since = run.since /\ end.until = run.until
    BY <1>3
  <1> QED BY <1>5, <1>6 DEF end

LEMMA StartKeepsUsage ==
  ASSUME UsageInv, NEW since \in Days, NEW until \in Days, StartUsageRefresh(since, until)
  PROVE  UsageInv'
  <1> DEFINE id == Len(refreshRuns) + 1
             run == [since |-> since, until |-> until, state |-> "detecting", awaits |-> "version",
                     aborted |-> None, failures |-> FALSE, graph |-> << >>, subjects |-> {}]
  <1>1. /\ Len(refreshRuns) \in 0..MaxRuns /\ DOMAIN refreshRuns = 1..Len(refreshRuns)
        /\ refreshRuns \in [1..Len(refreshRuns) -> RefreshRun \cup {None}]
        /\ refreshRuns \in Seq(RefreshRun \cup {None})
    BY RefreshesKnown DEF UsageInv
  <1>2. run \in RefreshRun
    BY DEF RefreshRun, Active
  <1>3. /\ refreshRuns' = Append(refreshRuns, run) /\ id \in RunIds /\ Running = {}
        /\ UNCHANGED <<today, canonical, attribution, lastSuccess, mappings>>
    BY DEF StartUsageRefresh
  <1>4. DOMAIN runRows' = DOMAIN runRows \cup {id}
    BY DEF StartUsageRefresh
  <1>5. runRows'[id] = [state |-> "detecting", finished |-> 0, conflicts |-> FALSE, since |-> since, until |-> until]
    BY DEF StartUsageRefresh
  <1>6. \A r \in DOMAIN runRows : r <= Len(refreshRuns) /\ r \in RunIds /\ r # id /\ runRows'[r] = runRows[r]
    <2>1. \A r \in DOMAIN runRows : r <= Len(refreshRuns) /\ r \in RunIds /\ r # id
      BY <1>1 DEF UsageInv, RunsKnown, UsageTypeOK, RunIds
    <2> QED BY <2>1 DEF StartUsageRefresh
  <1>7. /\ refreshRuns' \in [1..id -> RefreshRun \cup {None}] /\ Len(refreshRuns') = id /\ id \in 0..MaxRuns
        /\ refreshRuns'[id] = run /\ \A r \in DOMAIN refreshRuns : refreshRuns'[r] = refreshRuns[r]
        /\ DOMAIN refreshRuns' = DOMAIN refreshRuns \cup {id}
    <2> HIDE DEF run
    <2>1. /\ Len(refreshRuns') = id /\ id \in 0..MaxRuns
          /\ DOMAIN refreshRuns' = 1..id /\ DOMAIN refreshRuns' = DOMAIN refreshRuns \cup {id}
          /\ refreshRuns'[id] = run /\ \A r \in DOMAIN refreshRuns : refreshRuns'[r] = refreshRuns[r]
      BY <1>1, <1>2, <1>3 DEF RunIds
    <2>2. refreshRuns' \in Seq(RefreshRun \cup {None})
      BY <1>1, <1>2, <1>3
    <2> QED BY <2>1, <2>2, LenProperties
  <1>8. UsageTypeOK'
    <2>1. \A r \in DOMAIN runRows' : runRows'[r] \in RunRow /\ r \in RunIds
      <3>1. runRows'[id] \in RunRow
        BY <1>5 DEF RunRow, Active
      <3> QED BY <3>1, <1>3, <1>4, <1>6 DEF UsageInv, UsageTypeOK
    <2> QED BY <1>3, <1>7, <2>1 DEF UsageInv, UsageTypeOK
  <1>9. RunsKnown'
    <2>1. \A r \in Running' : r = id
      BY <1>3, <1>7 DEF Running
    <2>2. \A r \in DOMAIN runRows' : r <= id
      BY <1>1, <1>4, <1>6 DEF RunIds
    <2>3. runRows'[id].state \in Active
      BY <1>5 DEF Active
    <2>4. DOMAIN refreshRuns'[id].graph = {}
      BY <1>7
    <2> QED BY <2>1, <2>2, <2>3, <2>4, <1>7 DEF RunsKnown
  <1>10. UsageHistoryStands'
    <2>1. LatestRefreshCounts'
      <3>1. runRows'[id].state \notin {"complete", "partial"}
        BY <1>5
      <3> QED BY <3>1, <1>3, <1>4, <1>6 DEF UsageInv, UsageHistoryStands, LatestRefreshCounts
    <2>2. LastSuccessStands'
      BY <1>3, <1>4, <1>6 DEF UsageInv, UsageHistoryStands, LastSuccessStands
    <2> QED BY <2>1, <2>2 DEF UsageHistoryStands
  <1> QED BY <1>8, <1>9, <1>10 DEF UsageInv

LEMMA AbortKeepsUsage ==
  ASSUME UsageInv, NEW r \in Running, NEW reason \in {"user", "timeout"}, AbortRefresh(r, reason)
  PROVE  UsageInv'
  <1> DEFINE run == [refreshRuns[r] EXCEPT !.aborted = reason]
  <1>1. /\ refreshRuns' = [refreshRuns EXCEPT ![r] = run]
        /\ UNCHANGED <<today, runRows, canonical, attribution, lastSuccess, mappings>>
    BY RefreshesKnown DEF AbortRefresh, UsageInv
  <1>2. refreshRuns[r] \in RefreshRun /\ run \in RefreshRun
    BY RefreshesKnown DEF UsageInv, RefreshRun
  <1>3. /\ \E n \in 0..MaxRuns : refreshRuns' \in [1..n -> RefreshRun \cup {None}]
        /\ Len(refreshRuns') = Len(refreshRuns) /\ Len(refreshRuns) = r
        /\ Running' = IF run.state \in Active /\ run # None THEN {r} ELSE {}
        /\ refreshRuns'[r] = run
    BY <1>1, <1>2, RefreshChanges
  <1>4. UsageTypeOK'
    BY <1>1, <1>3 DEF UsageInv, UsageTypeOK
  <1>5. run.graph = refreshRuns[r].graph /\ run.since = refreshRuns[r].since /\ run.until = refreshRuns[r].until
    BY <1>2 DEF RefreshRun
  <1>6. RunsKnown'
    BY <1>1, <1>3, <1>5 DEF UsageInv, RunsKnown
  <1>7. UsageHistoryStands'
    BY <1>1 DEF UsageInv, UsageHistoryStands, LatestRefreshCounts, LastSuccessStands
  <1> QED BY <1>4, <1>6, <1>7 DEF UsageInv

\* A refresh goes on to its next command.
LEMMA TransitionKeepsUsage ==
  ASSUME UsageInv, NEW r \in Running, NEW run \in RefreshRun, run.state \in Active, Transition(r, run),
         \A i \in DOMAIN run.graph : run.graph[i].date \in run.since..run.until
  PROVE  UsageInv'
  <1>1. /\ refreshRuns' = [refreshRuns EXCEPT ![r] = run]
        /\ UNCHANGED <<today, canonical, attribution, lastSuccess, mappings>>
    BY DEF Transition
  <1>2. /\ \E n \in 0..MaxRuns : refreshRuns' \in [1..n -> RefreshRun \cup {None}]
        /\ Len(refreshRuns') = Len(refreshRuns) /\ Len(refreshRuns) = r
        /\ Running' = IF run.state \in Active /\ run # None THEN {r} ELSE {}
        /\ refreshRuns'[r] = run
    BY <1>1, RefreshChanges
  <1>3. DOMAIN runRows' = DOMAIN runRows
    BY DEF Transition
  <1>4. \A q \in DOMAIN runRows : runRows'[q] = IF q = r THEN [runRows[r] EXCEPT !.state = run.state] ELSE runRows[q]
    BY DEF Transition
  <1>5. \A q \in DOMAIN runRows : runRows[q] \in RunRow
    BY DEF UsageInv, UsageTypeOK
  <1>6. r \in DOMAIN runRows => /\ runRows'[r] \in RunRow /\ runRows'[r].state = run.state
                                /\ runRows[r].state \in Active
    BY <1>4, <1>5 DEF RunRow, UsageInv, RunsKnown
  <1>7. UsageTypeOK'
    BY <1>1, <1>2, <1>3, <1>4, <1>5, <1>6 DEF UsageInv, UsageTypeOK
  <1>8. RunsKnown'
    BY <1>2, <1>3, <1>6 DEF UsageInv, RunsKnown
  <1>9. \A q \in DOMAIN runRows' : runRows'[q].state \in {"complete", "partial"} <=> runRows[q].state \in {"complete", "partial"}
    BY <1>3, <1>4, <1>6 DEF Active
  <1>10. \A q \in DOMAIN runRows' : runRows'[q].state \in {"complete", "partial"} => runRows'[q] = runRows[q]
    BY <1>3, <1>4, <1>6 DEF Active
  <1>11. UsageHistoryStands'
    BY <1>1, <1>3, <1>9, <1>10 DEF UsageInv, UsageHistoryStands, LatestRefreshCounts, LastSuccessStands
  <1> QED BY <1>7, <1>8, <1>11 DEF UsageInv

\* It ends without a commit.
LEMMA FailKeepsUsage ==
  ASSUME UsageInv, NEW r \in Running, NEW state \in {"failed", "cancelled"}, FailRefresh(r, state)
  PROVE  UsageInv'
  <1> DEFINE run == Ended(refreshRuns[r], state)
             row == [state |-> state, finished |-> today, conflicts |-> FALSE,
                     since |-> refreshRuns[r].since, until |-> refreshRuns[r].until]
  <1>1. /\ refreshRuns' = [refreshRuns EXCEPT ![r] = run]
        /\ UNCHANGED <<today, canonical, attribution, lastSuccess, mappings>>
    BY RefreshesKnown DEF FailRefresh, UsageInv
  <1>2. refreshRuns[r] \in RefreshRun /\ r \in RunIds
    BY RefreshesKnown DEF UsageInv
  <1>3. run \in RefreshRun /\ run.state = state
    BY <1>2, EndedIsRefresh DEF Terminals
  <1>4. /\ \E n \in 0..MaxRuns : refreshRuns' \in [1..n -> RefreshRun \cup {None}]
        /\ Len(refreshRuns') = Len(refreshRuns) /\ Len(refreshRuns) = r
        /\ Running' = IF run.state \in Active /\ run # None THEN {r} ELSE {}
    BY <1>1, <1>3, RefreshChanges
  <1>5. Running' = {}
    BY <1>3, <1>4 DEF Active
  <1>6. DOMAIN runRows' = DOMAIN runRows \cup {r} /\ runRows'[r] = row
        /\ \A q \in DOMAIN runRows : q # r => runRows'[q] = runRows[q]
    BY DEF FailRefresh
  <1>7. row \in RunRow
    BY <1>2 DEF RunRow, RefreshRun, Terminals, UsageInv, UsageTypeOK, Days
  <1>8. UsageTypeOK'
    BY <1>1, <1>2, <1>4, <1>6, <1>7 DEF UsageInv, UsageTypeOK
  <1>9. RunsKnown'
    BY <1>2, <1>4, <1>5, <1>6 DEF UsageInv, RunsKnown, RunIds
  <1>10. \A q \in DOMAIN runRows' : runRows'[q].state \in {"complete", "partial"} =>
           q \in DOMAIN runRows /\ runRows'[q] = runRows[q]
    BY <1>6
  <1>11. \A q \in DOMAIN runRows : runRows[q].state \in {"complete", "partial"} => runRows'[q] = runRows[q]
    BY <1>6 DEF UsageInv, RunsKnown, Active
  <1>12. UsageHistoryStands'
    BY <1>1, <1>6, <1>10, <1>11 DEF UsageInv, UsageHistoryStands, LatestRefreshCounts, LastSuccessStands
  <1> QED BY <1>8, <1>9, <1>12 DEF UsageInv

\* A commit replaces the records and the subjects of its window, if none of another is in the way.
LEMMA CommitKeepsUsage ==
  ASSUME UsageInv, NEW r \in Running, NEW run \in RefreshRun, CommitSnapshot(r, run),
         run.graph = refreshRuns[r].graph, run.since = refreshRuns[r].since, run.until = refreshRuns[r].until
  PROVE  /\ UsageInv'
         /\ lastSuccess' # lastSuccess =>
              /\ lastSuccess' = r
              /\ \A i \in DOMAIN run.graph : run.graph[i].date >= today - Horizon =>
                   ((\E c \in canonical' : Identity(c) = Identity(run.graph[i])) <=>
                    \A j \in DOMAIN run.graph : Identity(run.graph[j]) = Identity(run.graph[i]) => run.graph[j] = run.graph[i])
  <1> DEFINE state == IF run.failures THEN "partial" ELSE "complete"
             result == Deduplicated(run.graph)
             listed == {run.graph[i] : i \in DOMAIN run.graph}
             keptRecords == {c \in canonical : ~Overlaps(c.date, c.date, run.since, run.until) /\ c.run # r}
             keptSubjects == {a \in attribution : ~Overlaps(a.since, a.until, run.since, run.until) /\ a.run # r}
             new == {[date |-> d.date, model |-> d.model, tokens |-> d.tokens, run |-> r] : d \in result.accepted}
             records == Pruned(keptRecords \cup new)
             subjects == PrunedAttribution(keptSubjects \cup
                    {[subject |-> s, since |-> run.since, until |-> run.until, run |-> r] : s \in run.subjects})
             row == [state |-> state, finished |-> today, conflicts |-> result.conflicts # {},
                     since |-> run.since, until |-> run.until]
             allRows == [q \in DOMAIN runRows \cup {r} |-> IF q = r THEN row ELSE runRows[q]]
             unique == /\ ~\E a \in keptSubjects : a.subject \in run.subjects
                       /\ ~\E c \in keptRecords, d \in result.accepted : Identity(c) = Identity(d)
  <1>1. /\ refreshRuns[r] \in RefreshRun /\ r \in RunIds /\ r = Len(refreshRuns) /\ Len(refreshRuns) \in Nat
        /\ \A q \in DOMAIN runRows : q \in RunIds /\ q <= r /\ runRows[q] \in RunRow
        /\ refreshRuns \in Seq(RefreshRun \cup {None}) /\ r \in DOMAIN refreshRuns
    BY RefreshesKnown DEF UsageInv, RunsKnown, UsageTypeOK, Running
  <1>2. CASE ~unique
    <2>1. FailRefresh(r, "failed")
      BY <1>2 DEF CommitSnapshot
    <2>2. UsageInv' /\ lastSuccess' = lastSuccess
      BY <2>1, FailKeepsUsage DEF FailRefresh
    <2> QED BY <2>2
  <1>3. CASE unique
    <2>1. /\ canonical' = records /\ attribution' = subjects /\ lastSuccess' = r
          /\ runRows' = [q \in DOMAIN allRows \ PrunedRuns(allRows, r, records, subjects) |-> allRows[q]]
          /\ refreshRuns' = [refreshRuns EXCEPT ![r] = Ended(@, state)]
          /\ UNCHANGED <<today, mappings>>
      BY <1>3 DEF CommitSnapshot
    <2> HIDE DEF unique
    <2>2. /\ run.graph \in Seq(DailyRecord) /\ run.since \in Days /\ run.until \in Days /\ run.subjects \subseteq Subjects
          /\ listed \subseteq DailyRecord /\ today \in Nat /\ today \in Days
          /\ \A i \in DOMAIN run.graph : run.graph[i].date \in run.since..run.until
      BY UsageConstants DEF RefreshRun, UsageInv, UsageTypeOK, Days, RunsKnown
    <2>3. result.accepted = Unanimous(listed)
      BY <2>2, DeduplicatedSifts DEF Sifted
    <2>4. /\ result.accepted \subseteq listed
          /\ \A d, e \in result.accepted : Identity(d) = Identity(e) => d = e
      BY <2>3 DEF Unanimous
    <2>5. \A d \in result.accepted : d \in DailyRecord /\ d.date \in run.since..run.until
      BY <2>2, <2>4
    <2> HIDE DEF result, listed, new, keptRecords, keptSubjects
    <2>6. /\ new \subseteq CanonicalRecord
          /\ \A c \in new : c.run = r /\ c.date \in run.since..run.until
               /\ [date |-> c.date, model |-> c.model, tokens |-> c.tokens] \in result.accepted
          /\ \A d \in result.accepted : \E c \in new : Identity(c) = Identity(d) /\ c.date = d.date
      <3>1. ASSUME NEW c \in new
            PROVE  /\ c \in CanonicalRecord /\ c.run = r /\ c.date \in run.since..run.until
                   /\ [date |-> c.date, model |-> c.model, tokens |-> c.tokens] \in result.accepted
        <4>1. PICK d \in result.accepted : c = [date |-> d.date, model |-> d.model, tokens |-> d.tokens, run |-> r]
          BY DEF new
        <4>2. d \in DailyRecord /\ d.date \in run.since..run.until
          BY <2>5
        <4>3. d = [date |-> d.date, model |-> d.model, tokens |-> d.tokens]
          BY <4>2 DEF DailyRecord
        <4> QED BY <1>1, <4>1, <4>2, <4>3 DEF DailyRecord, CanonicalRecord
      <3>2. ASSUME NEW d \in result.accepted
            PROVE  \E c \in new : Identity(c) = Identity(d) /\ c.date = d.date
        <4>1. [date |-> d.date, model |-> d.model, tokens |-> d.tokens, run |-> r] \in new
          BY DEF new
        <4> QED BY <4>1 DEF Identity
      <3> QED BY <3>1, <3>2
    <2>7. \A c, d \in new : Identity(c) = Identity(d) => c = d
      <3> SUFFICES ASSUME NEW c \in new, NEW d \in new, Identity(c) = Identity(d) PROVE c = d
        OBVIOUS
      <3> DEFINE of(x) == [date |-> x.date, model |-> x.model, tokens |-> x.tokens]
      <3>1. of(c) \in result.accepted /\ of(d) \in result.accepted /\ c.run = r /\ d.run = r
        BY <2>6
      <3>2. Identity(of(c)) = Identity(of(d))
        BY DEF Identity
      <3>3. of(c) = of(d)
        BY <2>4, <3>1, <3>2
      <3>4. c.date = d.date /\ c.model = d.model /\ c.tokens = d.tokens
        BY <3>3
      <3>5. c \in CanonicalRecord /\ d \in CanonicalRecord
        BY <2>6
      <3> QED BY <3>1, <3>4, <3>5 DEF CanonicalRecord
    <2>8. /\ keptRecords \subseteq canonical /\ keptSubjects \subseteq attribution
          /\ \A c \in keptRecords : c.run # r /\ c.date \in Int /\ c.date \notin run.since..run.until
      <3>1. canonical \subseteq CanonicalRecord
        BY DEF UsageInv, UsageTypeOK
      <3> QED BY <2>2, <3>1 DEF keptRecords, keptSubjects, Overlaps, CanonicalRecord, Days
    <2>9. \A c \in keptRecords, d \in new : Identity(c) # Identity(d)
      <3> SUFFICES ASSUME NEW c \in keptRecords, NEW d \in new, Identity(c) = Identity(d) PROVE FALSE
        OBVIOUS
      <3>1. c.date = d.date
        BY DEF Identity
      <3> QED BY <2>6, <2>8, <3>1
    <2>10. canonical' \subseteq keptRecords \cup new /\ attribution' \subseteq AttributionRecord
           /\ \A a \in attribution' : a \in attribution \/ a.run = r
      <3>1. attribution \subseteq AttributionRecord
        BY DEF UsageInv, UsageTypeOK
      <3>2. \A s \in run.subjects : [subject |-> s, since |-> run.since, until |-> run.until, run |-> r] \in AttributionRecord
        BY <1>1, <2>2 DEF AttributionRecord
      <3> QED BY <2>1, <2>8, <3>1, <3>2 DEF Pruned, PrunedAttribution
    <2>11. row \in RunRow /\ row.state \in {"complete", "partial"} /\ row.since = run.since /\ row.until = run.until
      BY <2>2 DEF RunRow, Terminals
    <2>12. DOMAIN allRows = DOMAIN runRows \cup {r} /\ allRows[r] = row
           /\ \A q \in DOMAIN runRows : q # r => allRows[q] = runRows[q]
      OBVIOUS
    <2> HIDE DEF allRows, row
    <2>13. /\ DOMAIN runRows' \subseteq DOMAIN runRows \cup {r}
           /\ \A q \in DOMAIN runRows' : runRows'[q] = IF q = r THEN row ELSE runRows[q]
      BY <2>1, <2>12
    <2>14. r \in DOMAIN runRows' /\ runRows'[r] = row
      BY <2>1, <2>12 DEF PrunedRuns
    <2>15. \A q \in DOMAIN runRows : (\E c \in canonical' : c.run = q) \/ (\E a \in attribution' : a.run = q) =>
             q \in DOMAIN runRows'
      BY <2>1, <2>12 DEF PrunedRuns
    <2>16. Ended(refreshRuns[r], state) \in RefreshRun /\ Ended(refreshRuns[r], state).state = state
      BY <1>1, EndedIsRefresh DEF Terminals
    <2>17. /\ \E n \in 0..MaxRuns : refreshRuns' \in [1..n -> RefreshRun \cup {None}]
           /\ Len(refreshRuns') = r /\ Running' = {}
      <3>1. refreshRuns' = [refreshRuns EXCEPT ![r] = Ended(refreshRuns[r], state)]
        BY <1>1, <2>1
      <3> DEFINE end == Ended(refreshRuns[r], state)
      <3>2. end \in RefreshRun /\ end.state \notin Active
        BY <2>16 DEF Active
      <3> HIDE DEF end
      <3>3. refreshRuns' = [refreshRuns EXCEPT ![r] = end]
        BY <3>1 DEF end
      <3> QED BY <3>2, <3>3, RefreshChanges
    <2>18. UsageTypeOK'
      <3>1. canonical' \subseteq CanonicalRecord
        BY <2>6, <2>8, <2>10 DEF UsageInv, UsageTypeOK
      <3>2. DOMAIN runRows' \subseteq RunIds /\ \A q \in DOMAIN runRows' : runRows'[q] \in RunRow
        BY <1>1, <2>11, <2>13
      <3>3. lastSuccess' \in RunIds \cup {None} /\ today' \in Days /\ mappings' \in [Models -> Profiles \cup {None}]
        BY <1>1, <2>1 DEF UsageInv, UsageTypeOK
      <3> QED BY <2>10, <2>17, <3>1, <3>2, <3>3 DEF UsageTypeOK
    <2>19. RunsKnown'
      BY <1>1, <2>13, <2>17 DEF RunsKnown
    <2>20. LastSuccessStands'
      <3>1. \A c \in canonical' : c.run \in DOMAIN runRows \/ c.run = r
        BY <2>6, <2>8, <2>10 DEF UsageInv, UsageHistoryStands, LastSuccessStands
      <3>2. \A a \in attribution' : a.run \in DOMAIN runRows \/ a.run = r
        BY <2>10 DEF UsageInv, UsageHistoryStands, LastSuccessStands
      <3> QED BY <2>1, <2>11, <2>14, <2>15, <3>1, <3>2 DEF LastSuccessStands
    <2>21. LatestRefreshCounts'
      <3>1. \A c, d \in canonical' : Identity(c) = Identity(d) => c = d
        <4>1. \A c, d \in keptRecords : Identity(c) = Identity(d) => c = d
          BY <2>8 DEF UsageInv, UsageHistoryStands, LatestRefreshCounts
        <4> QED BY <2>7, <2>9, <2>10, <4>1
      <3>2. ASSUME NEW c \in canonical', NEW q \in DOMAIN runRows', runRows'[q].state \in {"complete", "partial"},
                   c.date \in runRows'[q].since..runRows'[q].until
            PROVE  q <= c.run
        <4>1. q \in Nat /\ q <= r
          BY <1>1, <2>13 DEF RunIds
        <4>2. CASE c \in new
          BY <2>6, <4>1, <4>2
        <4>3. CASE c \in keptRecords /\ q # r
          BY <2>8, <2>13, <3>2, <4>3 DEF UsageInv, UsageHistoryStands, LatestRefreshCounts
        <4>4. CASE c \in keptRecords /\ q = r
          BY <2>8, <2>11, <2>14, <3>2, <4>4
        <4> QED BY <2>10, <4>2, <4>3, <4>4
      <3> QED BY <3>1, <3>2 DEF LatestRefreshCounts
    <2>22. ASSUME NEW i \in DOMAIN run.graph, run.graph[i].date >= today - Horizon
           PROVE  (\E c \in canonical' : Identity(c) = Identity(run.graph[i])) <=>
                  \A j \in DOMAIN run.graph : Identity(run.graph[j]) = Identity(run.graph[i]) => run.graph[j] = run.graph[i]
      <3> DEFINE d == run.graph[i]
      <3>1. d \in listed /\ d.date \in run.since..run.until
        BY <2>2 DEF listed
      <3>2. (\A j \in DOMAIN run.graph : Identity(run.graph[j]) = Identity(d) => run.graph[j] = d) <=> d \in result.accepted
        BY <2>3, <3>1 DEF Unanimous, listed
      <3>3. ASSUME d \in result.accepted PROVE \E c \in canonical' : Identity(c) = Identity(d)
        <4>1. PICK c \in new : Identity(c) = Identity(d) /\ c.date = d.date
          BY <2>6, <3>3
        <4>2. c.date >= today - Horizon
          BY <2>22, <4>1
        <4> QED BY <2>1, <4>1, <4>2 DEF Pruned
      <3>4. ASSUME NEW c \in canonical', Identity(c) = Identity(d) PROVE d \in result.accepted
        <4>1. c.date = d.date
          BY <3>4 DEF Identity
        <4>2. c \in new
          BY <2>8, <2>10, <3>1, <4>1
        <4> DEFINE e == [date |-> c.date, model |-> c.model, tokens |-> c.tokens]
        <4>3. e \in Unanimous(listed)
          BY <2>3, <2>6, <4>2
        <4>4. Identity(e) = Identity(d)
          BY <3>4 DEF Identity
        <4> HIDE DEF e, d
        <4>5. d = e
          BY <3>1, <4>3, <4>4 DEF Unanimous
        <4> QED BY <2>3, <4>3, <4>5
      <3> QED BY <3>2, <3>3, <3>4
    <2> QED BY <2>1, <2>18, <2>19, <2>20, <2>21, <2>22 DEF UsageInv, UsageHistoryStands
  <1> QED BY <1>2, <1>3

LEMMA CommandEndKeepsUsage ==
  ASSUME UsageInv, NEW r \in Running, NEW outcome \in CommandOutcomes, CommandEnds(r, outcome)
  PROVE  UsageInv' /\ CommitWasReported
  <1> DEFINE run == refreshRuns[r]
  <1>1. /\ run \in RefreshRun /\ run.state \in Active
        /\ \A i \in DOMAIN run.graph : run.graph[i].date \in run.since..run.until
    BY RefreshesKnown DEF UsageInv, RunsKnown, Running
  <1> HIDE DEF run
  <1>2. ASSUME NEW state \in {"failed", "cancelled"}, FailRefresh(r, state)
        PROVE  UsageInv' /\ CommitWasReported
    BY <1>2, FailKeepsUsage DEF FailRefresh, CommitWasReported
  <1>3. ASSUME NEW next \in RefreshRun, next.state \in Active, Transition(r, next),
               \A i \in DOMAIN next.graph : next.graph[i].date \in next.since..next.until
        PROVE  UsageInv' /\ CommitWasReported
    BY <1>3, TransitionKeepsUsage DEF Transition, CommitWasReported
  <1>4. CASE Aborted(r) /\ FailRefresh(r, IF run.aborted = "user" THEN "cancelled" ELSE "failed")
    BY <1>2, <1>4
  <1>5. CASE FailRefresh(r, "failed")
    BY <1>2, <1>5
  <1>6. CASE Transition(r, [run EXCEPT !.state = "collecting", !.awaits = "clients"])
    <2> DEFINE next == [run EXCEPT !.state = "collecting", !.awaits = "clients"]
    <2>1. next \in RefreshRun /\ next.state \in Active /\ next.graph = run.graph /\ next.since = run.since /\ next.until = run.until
      BY <1>1 DEF RefreshRun, Active
    <2> HIDE DEF next
    <2>2. Transition(r, next)
      BY <1>6 DEF next
    <2> QED BY <1>1, <1>3, <2>1, <2>2
  <1>7. ASSUME NEW gaps \in CoverageGaps(outcome), Transition(r, [run EXCEPT !.awaits = "graph", !.failures = gaps])
        PROVE  UsageInv' /\ CommitWasReported
    <2> DEFINE next == [run EXCEPT !.awaits = "graph", !.failures = gaps]
    <2>1. gaps \in BOOLEAN
      BY DEF CoverageGaps
    <2>2. next \in RefreshRun /\ next.state \in Active /\ next.graph = run.graph /\ next.since = run.since /\ next.until = run.until
      BY <1>1, <2>1 DEF RefreshRun
    <2> HIDE DEF next
    <2>3. Transition(r, next)
      BY <1>7 DEF next
    <2> QED BY <1>1, <1>3, <2>2, <2>3
  <1>8. ASSUME NEW graph \in DailyRecords(run), Transition(r, [run EXCEPT !.awaits = "session", !.graph = graph])
        PROVE  UsageInv' /\ CommitWasReported
    <2> DEFINE next == [run EXCEPT !.awaits = "session", !.graph = graph]
    <2>1. graph \in Seq(DailyRecord) /\ \A i \in DOMAIN graph : graph[i].date \in run.since..run.until
      BY GraphsAreDaily DEF DailyRecords
    <2>2. next \in RefreshRun /\ next.state \in Active /\ next.graph = graph /\ next.since = run.since /\ next.until = run.until
      BY <1>1, <2>1 DEF RefreshRun
    <2> HIDE DEF next
    <2>3. Transition(r, next)
      BY <1>8 DEF next
    <2> QED BY <1>3, <2>1, <2>2, <2>3
  <1>9. ASSUME NEW subjects \in AttributedSubjects(outcome),
               Transition(r, [run EXCEPT !.awaits = "workspace", !.subjects = subjects, !.failures = @ \/ outcome # "read"])
        PROVE  UsageInv' /\ CommitWasReported
    <2> DEFINE failed == run.failures \/ outcome # "read"
               next == [run EXCEPT !.awaits = "workspace", !.subjects = subjects, !.failures = failed]
    <2>1. subjects \subseteq Subjects /\ failed \in BOOLEAN
      BY DEF AttributedSubjects
    <2> HIDE DEF failed
    <2>2. next \in RefreshRun /\ next.state \in Active /\ next.graph = run.graph /\ next.since = run.since /\ next.until = run.until
      BY <1>1, <2>1 DEF RefreshRun
    <2>3. next = [run EXCEPT !.awaits = "workspace", !.subjects = subjects, !.failures = @ \/ outcome # "read"]
      BY DEF failed
    <2> HIDE DEF next
    <2>4. Transition(r, next)
      BY <1>9, <2>3
    <2> QED BY <1>1, <1>3, <2>2, <2>4
  <1>10. CASE ~Aborted(r) /\ CommitSnapshot(r, [run EXCEPT !.failures = @ \/ outcome # "read"])
    <2> DEFINE failed == run.failures \/ outcome # "read"
               next == [run EXCEPT !.failures = failed]
    <2>1. failed \in BOOLEAN
      OBVIOUS
    <2> HIDE DEF failed
    <2>2. next \in RefreshRun /\ next.graph = run.graph /\ next.since = run.since /\ next.until = run.until
      BY <1>1, <2>1 DEF RefreshRun
    <2>3. next = [run EXCEPT !.failures = @ \/ outcome # "read"]
      BY DEF failed
    <2> HIDE DEF next
    <2>4. CommitSnapshot(r, next)
      BY <1>10, <2>3
    <2>5. next.graph = refreshRuns[r].graph /\ next.since = refreshRuns[r].since /\ next.until = refreshRuns[r].until
      BY <2>2 DEF run
    <2>6. /\ UsageInv'
          /\ lastSuccess' # lastSuccess =>
              /\ lastSuccess' = r
              /\ \A i \in DOMAIN next.graph : next.graph[i].date >= today - Horizon =>
                   ((\E c \in canonical' : Identity(c) = Identity(next.graph[i])) <=>
                    \A j \in DOMAIN next.graph : Identity(next.graph[j]) = Identity(next.graph[i]) => next.graph[j] = next.graph[i])
      BY <2>2, <2>4, <2>5, CommitKeepsUsage
    <2>7. CommitWasReported
      <3>1. refreshRuns[r].aborted = None
        BY <1>10 DEF Aborted
      <3> QED BY <2>5, <2>6, <3>1 DEF CommitWasReported
    <2> QED BY <2>6, <2>7
  <1> QED BY <1>4, <1>5, <1>6, <1>7, <1>8, <1>9, <1>10, Zenon DEF CommandEnds, run

LEMMA RestartKeepsUsage == UsageInv /\ UsageRestart => UsageInv'
  <1> SUFFICES ASSUME UsageInv, UsageRestart PROVE UsageInv'
    OBVIOUS
  <1>1. /\ Len(refreshRuns) \in 0..MaxRuns /\ DOMAIN refreshRuns = 1..Len(refreshRuns)
        /\ refreshRuns \in Seq(RefreshRun \cup {None})
    BY RefreshesKnown DEF UsageInv
  <1>2. /\ refreshRuns' = [r \in 1..Len(refreshRuns) |-> None]
        /\ UNCHANGED <<today, canonical, attribution, lastSuccess, mappings>>
    BY <1>1 DEF UsageRestart
  <1>3. /\ refreshRuns' \in [1..Len(refreshRuns) -> RefreshRun \cup {None}]
        /\ Len(refreshRuns') = Len(refreshRuns) /\ Running' = {}
    BY <1>1, <1>2 DEF Running
  <1>4. DOMAIN runRows' = DOMAIN runRows /\ \A r \in DOMAIN runRows :
          runRows'[r] = IF runRows[r].state \in Active THEN [runRows[r] EXCEPT !.state = "failed", !.finished = today]
                        ELSE runRows[r]
    BY DEF UsageRestart
  <1>5. \A r \in DOMAIN runRows : runRows[r] \in RunRow /\ today \in Nat
    BY DEF UsageInv, UsageTypeOK, Days
  <1>6. \A r \in DOMAIN runRows : /\ runRows'[r] \in RunRow
                                  /\ runRows'[r].state \in {"complete", "partial"} <=> runRows[r].state \in {"complete", "partial"}
                                  /\ runRows'[r].state \in {"complete", "partial"} => runRows'[r] = runRows[r]
    BY <1>4, <1>5, Zenon DEF RunRow, Active, Terminals
  <1>7. UsageTypeOK'
    BY <1>1, <1>2, <1>3, <1>4, <1>6 DEF UsageInv, UsageTypeOK
  <1>8. RunsKnown'
    BY <1>3, <1>4 DEF UsageInv, RunsKnown
  <1>9. UsageHistoryStands'
    BY <1>2, <1>4, <1>6 DEF UsageInv, UsageHistoryStands, LatestRefreshCounts, LastSuccessStands
  <1> QED BY <1>7, <1>8, <1>9 DEF UsageInv

LEMMA UsageStep == UsageInv /\ [UsageNext]_usageVars => UsageInv' /\ CommitWasReported
  <1> SUFFICES ASSUME UsageInv, [UsageNext]_usageVars PROVE UsageInv' /\ CommitWasReported
    OBVIOUS
  <1>1. CASE UNCHANGED usageVars
    <2>1. today \in Days /\ mappings \in [Models -> Profiles \cup {None}]
      BY DEF UsageInv, UsageTypeOK
    <2> QED BY <1>1, <2>1, UsageRest DEF usageVars, CommitWasReported
  <1>2. ASSUME NEW since \in Days, NEW until \in Days, StartUsageRefresh(since, until)
        PROVE  UsageInv' /\ CommitWasReported
    BY <1>2, StartKeepsUsage DEF StartUsageRefresh, CommitWasReported
  <1>3. ASSUME NEW r \in Running, NEW reason \in {"user", "timeout"}, AbortRefresh(r, reason)
        PROVE  UsageInv' /\ CommitWasReported
    BY <1>3, AbortKeepsUsage DEF AbortRefresh, CommitWasReported
  <1>4. CASE ClearHistory
    <2>1. UsageTypeOK' /\ RunsKnown' /\ lastSuccess' = None
      BY <1>4 DEF ClearHistory, UsageInv, UsageTypeOK, RunsKnown, Running
    <2>2. UsageHistoryStands'
      BY <1>4 DEF ClearHistory, UsageHistoryStands, LatestRefreshCounts, LastSuccessStands
    <2> QED BY <2>1, <2>2 DEF UsageInv, CommitWasReported
  <1>5. CASE ClearMappings \/ DayPasses \/ \E m \in Models, profile \in Profiles \cup {None} : SaveManualMapping(m, profile)
    <2>1. today' \in Days /\ mappings' \in [Models -> Profiles \cup {None}]
      BY <1>5, UsageConstants DEF ClearMappings, DayPasses, SaveManualMapping, UsageInv, UsageTypeOK, Days
    <2>2. UNCHANGED <<refreshRuns, runRows, canonical, attribution, lastSuccess>>
      BY <1>5 DEF ClearMappings, DayPasses, SaveManualMapping
    <2> QED BY <2>1, <2>2, UsageRest DEF CommitWasReported
  <1>6. CASE UsageRestart
    BY <1>6, RestartKeepsUsage DEF UsageRestart, CommitWasReported
  <1>7. CASE UsageNext
    BY <1>2, <1>3, <1>4, <1>5, <1>6, <1>7, CommandEndKeepsUsage DEF UsageNext
  <1> QED BY <1>1, <1>7

-----------------------------------------------------------------------------
(* The integrations.                                                       *)
Enabling == {"enable", "reconnect", "test"}
Ending == {"remove", "rollback"}

\* What a request awaits, and what it may count on while it has been alone.
RequestFits(c) ==
  LET q == requests[c] IN
  /\ q.op \in Enabling => q.at \in {"install", "check", "get", "set", "setAgain", "verify"}
  /\ q.op \in Ending => q.at \in {"uninstall", "delete", "clear"}
  /\ q.at \notin StoreCalls => q.answer = None
  /\ q.alone =>
       /\ Busy = {c} /\ q.answer # "failed"
       /\ q.at \in {"set", "setAgain"} => rows[q.id].configured
       /\ q.at = "get" => Verifiable(rows[q.id])
       /\ q.at \in {"get", "set", "setAgain"} /\ q.answer = "done" => q.id \in tokens
       /\ q.at = "delete" /\ q.answer = "done" => q.id \notin tokens
       /\ q.at = "clear" => q.id \notin tokens /\ ~rows[q.id].ref /\ ~rows[q.id].enabled
       /\ q.op = "rollback" =>
            /\ ~runtime.capture
            /\ \A j \in Integrations : ~rows[j].enabled /\ (j \in q.todo \/ j = q.id \/ (j \notin tokens /\ ~rows[j].ref))

RequestsInv == RequestsTypeOK /\ \A c \in Busy : RequestFits(c)

LEMMA RequestsStart == IntegrationsInit => RequestsInv
  <1> SUFFICES ASSUME IntegrationsInit PROVE RequestsInv
    OBVIOUS
  <1>1. RequestsTypeOK
    BY IntegrationConstants DEF IntegrationsInit, RequestsTypeOK, Row, Runtime, SetUp, Unset
  <1>2. Busy = {}
    BY DEF IntegrationsInit, Busy
  <1> QED BY <1>1, <1>2 DEF RequestsInv

LEMMA RequestTyped ==
  ASSUME RequestsInv, NEW c \in Busy
  PROVE  /\ c \in Requests /\ requests[c] # None /\ requests[c] \in Request /\ requests[c].id \in Integrations
         /\ RequestFits(c) /\ rows[requests[c].id] \in Row
         /\ \A d \in Busy : requests[d].alone => d = c
  BY DEF RequestsInv, RequestsTypeOK, Busy, Request, RequestFits

\* A request goes on or ends while the others do not move.
Moves(c) ==
  /\ requests' \in [Requests -> Request \cup {None}]
  /\ \A d \in Requests \ {c} : requests'[d] = requests[d]

LEMMA OneRequestMoves ==
  ASSUME RequestsInv, NEW c \in Busy, Moves(c), RequestsTypeOK',
         requests'[c] # None => RequestFits(c)'
  PROVE  RequestsInv'
  <1>1. ASSUME NEW d \in Busy', d # c PROVE RequestFits(d)'
    <2>1. d \in Busy /\ requests'[d] = requests[d]
      BY <1>1 DEF Moves, Busy
    <2>2. ~requests[d].alone \/ requests[d].alone # TRUE
      BY <1>1, <2>1, RequestTyped
    <2>3. requests[d].alone \in BOOLEAN
      BY <2>1, RequestTyped DEF Request
    <2> QED BY <2>1, <2>2, <2>3, RequestTyped DEF RequestFits
  <1>2. \A d \in Busy' : RequestFits(d)'
    BY <1>1 DEF Busy
  <1> QED BY <1>2 DEF RequestsInv

\* What the only request that has been alone so far finds after its step.
LEMMA StaysAlone ==
  ASSUME RequestsInv, NEW c \in Busy, Moves(c), requests[c].alone, requests'[c] # None
  PROVE  Busy' = {c}
  BY RequestTyped DEF Moves, Busy, RequestsInv, RequestFits

LEMMA AwaitMoves ==
  ASSUME RequestsInv, NEW c \in Busy, NEW i \in Integrations, NEW at \in Awaits, Await(c, i, at)
  PROVE  /\ Moves(c) /\ requests'[c] \in Request
         /\ requests'[c] = [requests[c] EXCEPT !.at = at, !.id = i, !.answer = None]
  <1>1. requests \in [Requests -> Request \cup {None}] /\ requests[c] \in Request /\ c \in Requests
    BY RequestTyped DEF RequestsInv, RequestsTypeOK
  <1>2. requests' = [requests EXCEPT ![c] = [requests[c] EXCEPT !.at = at, !.id = i, !.answer = None]]
    BY <1>1 DEF Await
  <1>3. [requests[c] EXCEPT !.at = at, !.id = i, !.answer = None] \in Request
    BY <1>1 DEF Request
  <1> QED BY <1>1, <1>2, <1>3 DEF Moves, Busy

LEMMA FinishMoves ==
  ASSUME RequestsInv, NEW c \in Busy, Finish(c)
  PROVE  Moves(c) /\ requests'[c] = None
  BY RequestTyped DEF RequestsInv, RequestsTypeOK, Finish, Moves

\* What the requests say of the steps of one served alone.
LEMMA UndisturbedFollows ==
  ASSUME RequestsInv, NEW c \in Requests, requests[c] # None, requests[c].alone
  PROVE  LET i == requests[c].id op == requests[c].op IN
    /\ TokenStored(c) \/ TokenFound(c) =>
         Verifiable(rows'[i]) /\ i \in tokens /\ (op # "test" => runtime'.capture)
    /\ RetriesCleared(c) =>
         /\ ~rows'[i].configured \/ rows'[i].failed
         /\ ~rows'[i].enabled /\ ~rows'[i].ref /\ i \notin tokens
    /\ RetriesCleared(c) /\ op = "rollback" /\ requests[c].todo = {} =>
         ~runtime'.capture /\ tokens = {} /\ \A j \in Integrations : ~rows'[j].enabled /\ ~rows'[j].ref
  <1> DEFINE i == requests[c].id  op == requests[c].op
  <1>1. /\ c \in Busy /\ requests[c] \in Request /\ i \in Integrations /\ RequestFits(c)
        /\ rows[i] \in Row /\ rows \in [Integrations -> Row] /\ tokens \subseteq Integrations /\ runtime \in Runtime
    BY RequestTyped DEF Busy, RequestsInv, RequestsTypeOK
  <1>2. ASSUME TokenStored(c) PROVE Verifiable(rows'[i]) /\ i \in tokens /\ (op # "test" => runtime'.capture)
    <2>1. rows[i].configured /\ i \in tokens
      BY <1>1, <1>2 DEF TokenStored, Answered, At, RequestFits
    <2>2. rows' = [rows EXCEPT ![i].ref = TRUE, ![i].enabled = TRUE]
      BY <1>2 DEF TokenStored, Issued
    <2>3. rows'[i] = [rows[i] EXCEPT !.ref = TRUE, !.enabled = TRUE]
      BY <1>1, <2>2
    <2>4. Verifiable(rows'[i])
      BY <1>1, <2>1, <2>3 DEF Verifiable, Row
    <2>5. op # "test" => runtime' = RolloutEnabled
      BY <1>2 DEF TokenStored, Completed
    <2> QED BY <2>1, <2>4, <2>5 DEF RolloutEnabled
  <1>3. ASSUME TokenFound(c) PROVE Verifiable(rows'[i]) /\ i \in tokens /\ (op # "test" => runtime'.capture)
    <2>1. Verifiable(rows[i]) /\ i \in tokens /\ rows' = rows
      BY <1>1, <1>3 DEF TokenFound, Answered, At, RequestFits
    <2>2. op # "test" => runtime' = RolloutEnabled
      BY <1>3 DEF TokenFound, Completed
    <2> QED BY <2>1, <2>2 DEF RolloutEnabled
  <1>4. ASSUME RetriesCleared(c)
        PROVE  /\ ~rows'[i].configured \/ rows'[i].failed
               /\ ~rows'[i].enabled /\ ~rows'[i].ref /\ i \notin tokens
               /\ op = "rollback" /\ requests[c].todo = {} =>
                    ~runtime'.capture /\ tokens = {} /\ \A j \in Integrations : ~rows'[j].enabled /\ ~rows'[j].ref
    <2> DEFINE retained == op = "rollback" /\ ~requests[c].setupRemoved
    <2>1. requests[c].at = "clear" /\ requests[c].answer # "failed"
      BY <1>1, <1>4 DEF RetriesCleared, Answered, At, RequestFits
    <2>2. i \notin tokens /\ ~rows[i].ref /\ ~rows[i].enabled
      BY <1>1, <2>1 DEF RequestFits
    <2>3. /\ rows' = [rows EXCEPT ![i].configured = retained /\ i \in requests[c].configured,
                                  ![i].enabled = FALSE, ![i].failed = retained]
          /\ op # "remove" => RollOn(c, requests[c].todo)
      BY <1>4, <2>1 DEF RetriesCleared
    <2>4. rows'[i] = [rows[i] EXCEPT !.configured = retained /\ i \in requests[c].configured, !.enabled = FALSE, !.failed = retained]
      BY <1>1, <2>3
    <2>5. /\ rows'[i].failed = retained /\ rows'[i].enabled = FALSE /\ rows'[i].ref = rows[i].ref
          /\ rows'[i].configured = (retained /\ i \in requests[c].configured)
      BY <1>1, <2>4 DEF Row
    <2>6. ASSUME op = "rollback", requests[c].todo = {}
          PROVE  ~runtime'.capture /\ tokens = {} /\ \A j \in Integrations : ~rows'[j].enabled /\ ~rows'[j].ref
      <3>1. runtime' = [runtime EXCEPT !.rollout = "disabled"]
        BY <2>3, <2>6 DEF RollOn
      <3>2. ~runtime.capture
        BY <1>1, <2>6 DEF RequestFits
      <3>3. \A j \in Integrations : ~rows[j].enabled /\ (j = i \/ (j \notin tokens /\ ~rows[j].ref))
        BY <1>1, <2>6 DEF RequestFits
      <3>4. \A j \in Integrations : j # i => rows'[j] = rows[j]
        BY <1>1, <2>3
      <3> QED BY <1>1, <2>2, <2>5, <3>1, <3>2, <3>3, <3>4 DEF Runtime
    <2> QED BY <2>2, <2>5, <2>6
  <1> QED BY <1>2, <1>3, <1>4

-----------------------------------------------------------------------------
(* Steps of a request.                                                     *)
LEMMA AnswersKeep ==
  ASSUME RequestsInv, NEW c \in Requests, StoreAnswers(c) \/ StoreFails(c)
  PROVE  RequestsInv'
  <1> DEFINE q == requests[c]  at == q.at  i == q.id
  <1>1. c \in Busy /\ q # None /\ at \in StoreCalls /\ q.answer = None
    BY DEF StoreAnswers, StoreFails, Busy
  <1>2. /\ q \in Request /\ i \in Integrations /\ RequestFits(c) /\ RequestsTypeOK
    BY <1>1, RequestTyped DEF RequestsInv
  <1>3. CASE StoreAnswers(c)
    <2> DEFINE answer == IF at \in {"get", "verify"} /\ i \notin tokens THEN "missing" ELSE "done"
    <2>1. requests' = [requests EXCEPT ![c] = [q EXCEPT !.answer = answer]]
      BY <1>2, <1>3 DEF StoreAnswers, RequestsTypeOK
    <2>2. [q EXCEPT !.answer = answer] \in Request
      BY <1>2 DEF Request
    <2>3. Moves(c) /\ requests'[c] = [q EXCEPT !.answer = answer]
      BY <1>2, <2>1, <2>2 DEF Moves, RequestsTypeOK
    <2>4. /\ at \in {"set", "setAgain"} => tokens' = tokens \cup {i}
          /\ at = "delete" => tokens' = tokens \ {i}
          /\ at \in {"get", "verify", "clear"} => tokens' = tokens
      BY <1>3, <1>1 DEF StoreAnswers
    <2>5. UNCHANGED <<rows, owned, runtime>>
      BY <1>3 DEF StoreAnswers
    <2>6. RequestsTypeOK'
      BY <1>1, <1>2, <2>3, <2>4, <2>5 DEF RequestsTypeOK, Moves, StoreCalls
    <2>7. ASSUME requests'[c] # None PROVE RequestFits(c)'
      <3>1. /\ requests'[c].op = q.op /\ requests'[c].at = at /\ requests'[c].id = i /\ requests'[c].answer = answer
            /\ requests'[c].todo = q.todo /\ requests'[c].alone = q.alone
        BY <1>2, <2>3 DEF Request
      <3>2. q.alone => Busy' = {c}
        BY <1>1, <2>3, <2>7, StaysAlone
      <3> QED BY <1>1, <1>2, <2>4, <2>5, <3>1, <3>2 DEF RequestFits, StoreCalls, Enabling, Ending
    <2> QED BY <1>1, <2>3, <2>6, <2>7, OneRequestMoves
  <1>4. CASE StoreFails(c)
    <2>1. requests' = [requests EXCEPT ![c] = [q EXCEPT !.answer = "failed", !.alone = FALSE]]
      BY <1>2, <1>4 DEF StoreFails, RequestsTypeOK
    <2>2. [q EXCEPT !.answer = "failed", !.alone = FALSE] \in Request
      BY <1>2 DEF Request
    <2>3. Moves(c) /\ requests'[c] = [q EXCEPT !.answer = "failed", !.alone = FALSE]
      BY <1>2, <2>1, <2>2 DEF Moves, RequestsTypeOK
    <2>4. UNCHANGED <<rows, tokens, owned, runtime>>
      BY <1>4 DEF StoreFails
    <2>5. /\ requests'[c].op = q.op /\ requests'[c].at = at /\ requests'[c].answer = "failed" /\ requests'[c].alone = FALSE
      BY <1>2, <2>3 DEF Request
    <2>6. RequestsTypeOK'
      BY <1>2, <2>3, <2>4 DEF RequestsTypeOK, Moves
    <2> QED BY <1>1, <1>2, <2>3, <2>5, <2>6, OneRequestMoves DEF RequestFits
  <1> QED BY <1>3, <1>4

\* A request that ends leaves what the others need.
LEMMA EndsKeep ==
  ASSUME RequestsInv, NEW c \in Busy, Finish(c),
         rows' \in [Integrations -> Row], tokens' \subseteq Integrations, owned' \subseteq Integrations, runtime' \in Runtime
  PROVE  RequestsInv'
  <1>1. Moves(c) /\ requests'[c] = None
    BY FinishMoves
  <1>2. RequestsTypeOK'
    BY <1>1 DEF RequestsTypeOK, Moves
  <1> QED BY <1>1, <1>2, OneRequestMoves

\* One that goes on to await something, has not been answered.
LEMMA AwaitKeeps ==
  ASSUME RequestsInv, NEW c \in Busy, NEW i \in Integrations, NEW at \in Awaits, Await(c, i, at),
         rows' \in [Integrations -> Row], tokens' \subseteq Integrations, owned' \subseteq Integrations, runtime' \in Runtime,
         requests[c].op \in Enabling => at \in {"install", "check", "get", "set", "setAgain", "verify"},
         requests[c].op \in Ending => at \in {"uninstall", "delete", "clear"},
         requests[c].alone =>
           /\ at \in {"set", "setAgain"} => rows'[i].configured
           /\ at = "get" => Verifiable(rows'[i])
           /\ at = "clear" => i \notin tokens' /\ ~rows'[i].ref /\ ~rows'[i].enabled
           /\ requests[c].op = "rollback" =>
                /\ ~runtime'.capture
                /\ \A j \in Integrations : ~rows'[j].enabled /\ (j \in requests[c].todo \/ j = i \/ (j \notin tokens' /\ ~rows'[j].ref))
  PROVE  RequestsInv'
  <1> DEFINE q == requests[c]
  <1>1. /\ Moves(c) /\ requests'[c] \in Request
        /\ requests'[c] = [q EXCEPT !.at = at, !.id = i, !.answer = None]
    BY AwaitMoves, Zenon
  <1>2. q \in Request
    BY RequestTyped
  <1>3. /\ requests'[c].op = q.op /\ requests'[c].at = at /\ requests'[c].id = i /\ requests'[c].answer = None
        /\ requests'[c].todo = q.todo /\ requests'[c].alone = q.alone
    BY <1>1, <1>2 DEF Request
  <1>4. RequestsTypeOK'
    BY <1>1 DEF RequestsTypeOK, Moves
  <1>5. ASSUME requests'[c] # None PROVE RequestFits(c)'
    <2>1. q.alone => Busy' = {c}
      BY <1>1, <1>5, StaysAlone
    <2>2. None # "failed" /\ None # "done"
      BY IntegrationConstants
    <2> QED BY <1>3, <2>1, <2>2 DEF RequestFits, StoreCalls
  <1> QED BY <1>1, <1>4, <1>5, OneRequestMoves

LEMMA DisturbedTyped ==
  ASSUME RequestsInv
  PROVE  /\ Disturbed(requests) \in [Requests -> Request \cup {None}]
         /\ \A c \in Requests : /\ requests[c] = None => Disturbed(requests)[c] = None
                                /\ requests[c] # None => Disturbed(requests)[c] = [requests[c] EXCEPT !.alone = FALSE]
  <1>1. ASSUME NEW c \in Requests, requests[c] # None PROVE [requests[c] EXCEPT !.alone = FALSE] \in Request
    <2>1. requests[c] \in Request
      BY <1>1, RequestTyped DEF Busy
    <2> QED BY <2>1 DEF Request
  <1> QED BY <1>1 DEF Disturbed

\* A request begins and disturbs the others.
LEMMA BegunKeeps ==
  ASSUME RequestsInv, NEW c \in Requests, requests[c] = None, NEW q \in Request,
         requests' = [Disturbed(requests) EXCEPT ![c] = q], q.alone = (Busy = {}), q.answer = None,
         rows' \in [Integrations -> Row], UNCHANGED <<tokens, owned>>, runtime' \in Runtime,
         q.op \in Enabling => q.at \in {"install", "check", "get", "set", "setAgain", "verify"},
         q.op \in Ending => q.at \in {"uninstall", "delete", "clear"},
         q.at \in {"set", "setAgain"} => rows'[q.id].configured,
         q.at = "get" => Verifiable(rows'[q.id]), q.at # "clear",
         q.op = "rollback" =>
            /\ ~runtime'.capture
            /\ \A j \in Integrations : ~rows'[j].enabled /\ (j \in q.todo \/ j = q.id)
  PROVE  RequestsInv'
  <1>1. /\ requests' \in [Requests -> Request \cup {None}] /\ requests'[c] = q
        /\ \A d \in Requests : d # c => requests'[d] = Disturbed(requests)[d]
    BY DisturbedTyped
  <1>2. RequestsTypeOK'
    BY <1>1 DEF RequestsTypeOK, RequestsInv
  <1>3. ASSUME q # None PROVE RequestFits(c)'
    <2>1. q.alone => Busy' = {c}
      BY <1>1, <1>3, DisturbedTyped, Zenon DEF Busy
    <2> QED BY <1>1, <2>1, IntegrationConstants DEF RequestFits, StoreCalls
  <1>4. ASSUME NEW d \in Busy', d # c PROVE RequestFits(d)'
    <2>1. d \in Busy /\ d \in Requests /\ requests'[d] = Disturbed(requests)[d]
      BY <1>1, <1>4, DisturbedTyped DEF Busy
    <2>2. requests'[d] = [requests[d] EXCEPT !.alone = FALSE]
      BY <2>1, DisturbedTyped DEF Busy
    <2>3. requests[d] \in Request /\ RequestFits(d)
      BY <2>1, RequestTyped
    <2>4. /\ requests'[d].op = requests[d].op /\ requests'[d].at = requests[d].at
          /\ requests'[d].answer = requests[d].answer /\ requests'[d].alone = FALSE
      BY <2>2, <2>3 DEF Request
    <2> QED BY <2>3, <2>4 DEF RequestFits
  <1>5. \A d \in Busy' : RequestFits(d)'
    BY <1>1, <1>3, <1>4 DEF Busy
  <1> QED BY <1>2, <1>5 DEF RequestsInv

LEMMA BeginKeeps ==
  ASSUME RequestsInv, NEW c \in Requests, NEW i \in Surfaces,
         NEW op \in {"enable", "reconnect", "test", "remove"}, NEW at \in Awaits,
         Begin(c, op, i, at), UNCHANGED <<rows, tokens, owned, runtime>>,
         op = "remove" => at = "uninstall", op # "remove" => at \in {"install", "check", "get", "set"},
         at = "set" => rows[i].configured, at = "get" => Verifiable(rows[i])
  PROVE  RequestsInv'
  <1> DEFINE q == [op |-> op, id |-> i, at |-> at, answer |-> None, todo |-> {}, configured |-> {},
                   setupRemoved |-> FALSE, alone |-> Busy = {}]
  <1>1. q \in Request /\ rows \in [Integrations -> Row] /\ runtime \in Runtime
    BY IntegrationConstants DEF Request, RequestsInv, RequestsTypeOK
  <1>2. requests[c] = None /\ requests' = [Disturbed(requests) EXCEPT ![c] = q]
    BY DEF Begin
  <1>3. q.op = op /\ q.id = i /\ q.at = at /\ q.answer = None /\ q.alone = (Busy = {})
    OBVIOUS
  <1> HIDE DEF q
  <1> QED BY <1>1, <1>2, <1>3, BegunKeeps DEF Enabling, Ending

LEMMA RollbackKeeps ==
  ASSUME RequestsInv, NEW c \in Requests, Rollback(c)
  PROVE  RequestsInv'
  <1> DEFINE configured == {i \in Integrations : rows[i].configured}
  <1>1. PICK i \in Integrations :
          requests' = [Disturbed(requests) EXCEPT ![c] =
            [op |-> "rollback", id |-> i, answer |-> None, todo |-> Integrations \ {i},
             at |-> IF i \in Automatic /\ i \in configured THEN "uninstall" ELSE "delete",
             configured |-> configured, setupRemoved |-> TRUE, alone |-> Busy = {}]]
    BY DEF Rollback
  <1> DEFINE at == IF i \in Automatic /\ i \in configured THEN "uninstall" ELSE "delete"
             q == [op |-> "rollback", id |-> i, answer |-> None, todo |-> Integrations \ {i}, at |-> at,
                   configured |-> configured, setupRemoved |-> TRUE, alone |-> Busy = {}]
  <1>2. at \in {"uninstall", "delete"}
    OBVIOUS
  <1>3. requests' = [Disturbed(requests) EXCEPT ![c] = q] /\ requests[c] = None
    BY <1>1 DEF Rollback
  <1> HIDE DEF at
  <1>4. q \in Request
    BY <1>2 DEF Request, Awaits
  <1>5. q.op = "rollback" /\ q.id = i /\ q.at = at /\ q.answer = None /\ q.todo = Integrations \ {i} /\ q.alone = (Busy = {})
    OBVIOUS
  <1>6. /\ rows' = [j \in Integrations |-> [rows[j] EXCEPT !.enabled = FALSE]]
        /\ runtime' = [capture |-> FALSE, rollout |-> "rolling-back"] /\ UNCHANGED <<tokens, owned>>
    BY DEF Rollback
  <1>7. \A j \in Integrations : [rows[j] EXCEPT !.enabled = FALSE] \in Row /\ ~[rows[j] EXCEPT !.enabled = FALSE].enabled
    BY DEF RequestsInv, RequestsTypeOK, Row
  <1>8. rows' \in [Integrations -> Row] /\ \A j \in Integrations : ~rows'[j].enabled
    BY <1>6, <1>7
  <1>9. runtime' \in Runtime /\ ~runtime'.capture
    BY <1>6 DEF Runtime
  <1> HIDE DEF q
  <1> QED BY <1>2, <1>3, <1>4, <1>5, <1>6, <1>8, <1>9, BegunKeeps DEF Enabling, Ending

LEMMA PauseKeeps ==
  ASSUME RequestsInv, NEW i \in Surfaces, Pause(i)
  PROVE  RequestsInv'
  <1>1. /\ rows' = [rows EXCEPT ![i].enabled = FALSE] /\ requests' = Disturbed(requests)
        /\ UNCHANGED <<tokens, owned, runtime>>
    BY DEF Pause
  <1>2. rows' \in [Integrations -> Row]
    BY <1>1, IntegrationConstants, Zenon DEF RequestsInv, RequestsTypeOK, Row
  <1>3. RequestsTypeOK'
    BY <1>1, <1>2, DisturbedTyped DEF RequestsInv, RequestsTypeOK
  <1>4. ASSUME NEW d \in Busy' PROVE RequestFits(d)'
    <2>1. d \in Busy /\ d \in Requests
      BY <1>1, DisturbedTyped DEF Busy
    <2>2. requests'[d] = [requests[d] EXCEPT !.alone = FALSE]
      BY <1>1, <2>1, DisturbedTyped DEF Busy
    <2>3. requests[d] \in Request /\ RequestFits(d)
      BY <2>1, RequestTyped
    <2>4. /\ requests'[d].op = requests[d].op /\ requests'[d].at = requests[d].at
          /\ requests'[d].answer = requests[d].answer /\ requests'[d].alone = FALSE
      BY <2>2, <2>3 DEF Request
    <2> QED BY <2>3, <2>4 DEF RequestFits
  <1> QED BY <1>3, <1>4 DEF RequestsInv

\* How a request writes the row of its integration.
LEMMA RowWrites ==
  ASSUME rows \in [Integrations -> Row], NEW i \in Integrations
  PROVE  /\ Configured(i) \in [Integrations -> Row] /\ Configured(i)[i].configured /\ Configured(i)[i].enabled
         /\ Configured(i)[i].ref = rows[i].ref
         /\ Issued(i) \in [Integrations -> Row] /\ Revoked(i) \in [Integrations -> Row]
         /\ ~Revoked(i)[i].ref /\ ~Revoked(i)[i].enabled
         /\ \A j \in Integrations : ~rows[j].enabled => ~Revoked(i)[j].enabled
         /\ \A j \in Integrations : ~rows[j].ref => ~Revoked(i)[j].ref
         /\ [rows EXCEPT ![i].failed = FALSE] \in [Integrations -> Row]
  <1>1. rows[i] \in Row /\ \A j \in Integrations : rows[j] \in Row
    OBVIOUS
  <1>2. /\ Configured(i) = [rows EXCEPT ![i] = [rows[i] EXCEPT !.configured = TRUE, !.enabled = TRUE, !.failed = FALSE]]
        /\ [rows[i] EXCEPT !.configured = TRUE, !.enabled = TRUE, !.failed = FALSE] \in Row
    BY <1>1 DEF Configured, Row
  <1>3. /\ Issued(i) = [rows EXCEPT ![i] = [rows[i] EXCEPT !.ref = TRUE, !.enabled = TRUE]]
        /\ [rows[i] EXCEPT !.ref = TRUE, !.enabled = TRUE] \in Row
    BY <1>1 DEF Issued, Row
  <1>4. /\ Revoked(i) = [rows EXCEPT ![i] = [rows[i] EXCEPT !.ref = FALSE, !.enabled = FALSE]]
        /\ [rows[i] EXCEPT !.ref = FALSE, !.enabled = FALSE] \in Row
    BY <1>1 DEF Revoked, Row
  <1>6. [rows EXCEPT ![i].failed = FALSE] \in [Integrations -> Row]
    BY <1>1 DEF Row
  <1>7. Configured(i) \in [Integrations -> Row] /\ Configured(i)[i].configured /\ Configured(i)[i].enabled
        /\ Configured(i)[i].ref = rows[i].ref
    <2>1. Configured(i)[i] = [rows[i] EXCEPT !.configured = TRUE, !.enabled = TRUE, !.failed = FALSE]
      BY <1>2
    <2> QED BY <1>1, <1>2, <2>1 DEF Row
  <1>8. /\ Revoked(i) \in [Integrations -> Row] /\ ~Revoked(i)[i].ref /\ ~Revoked(i)[i].enabled
        /\ \A j \in Integrations : ~rows[j].enabled => ~Revoked(i)[j].enabled
        /\ \A j \in Integrations : ~rows[j].ref => ~Revoked(i)[j].ref
    <2>1. /\ Revoked(i)[i] = [rows[i] EXCEPT !.ref = FALSE, !.enabled = FALSE]
          /\ \A j \in Integrations : j # i => Revoked(i)[j] = rows[j]
      BY <1>4
    <2>2. ~Revoked(i)[i].ref /\ ~Revoked(i)[i].enabled
      BY <1>1, <2>1 DEF Row
    <2> QED BY <1>4, <2>1, <2>2
  <1>9. Issued(i) \in [Integrations -> Row]
    BY <1>3
  <1> QED BY <1>6, <1>7, <1>8, <1>9

LEMMA RowCleared ==
  ASSUME rows \in [Integrations -> Row], NEW i \in Integrations, NEW configured \in BOOLEAN, NEW failed \in BOOLEAN,
         rows' = [rows EXCEPT ![i].configured = configured, ![i].enabled = FALSE, ![i].failed = failed]
  PROVE  /\ rows' \in [Integrations -> Row]
         /\ \A j \in Integrations : rows'[j].ref = rows[j].ref /\ (~rows[j].enabled => ~rows'[j].enabled)
  <1> DEFINE row == [rows[i] EXCEPT !.configured = configured, !.enabled = FALSE, !.failed = failed]
  <1>1. rows[i] \in Row
    OBVIOUS
  <1>2. row \in Row /\ row.ref = rows[i].ref /\ row.enabled = FALSE
    BY <1>1 DEF Row
  <1>3. rows' = [rows EXCEPT ![i] = row]
    BY <1>1
  <1> HIDE DEF row
  <1>4. rows' \in [Integrations -> Row] /\ \A j \in Integrations : rows'[j] = IF j = i THEN row ELSE rows[j]
    BY <1>2, <1>3, Zenon
  <1> QED BY <1>2, <1>4

LEMMA SetupKeeps ==
  ASSUME RequestsInv, NEW c \in Requests,
         Installed(c) \/ PortFails(c) \/ Checked(c) \/ Uninstalled(c) \/ NotUninstalled(c)
  PROVE  RequestsInv'
  <1> DEFINE q == requests[c]  i == q.id
  <1>1. c \in Busy /\ requests[c] # None
    BY DEF Installed, PortFails, Checked, Uninstalled, NotUninstalled, At, Busy
  <1>2. /\ q \in Request /\ i \in Integrations /\ RequestFits(c) /\ rows \in [Integrations -> Row]
        /\ tokens \subseteq Integrations /\ owned \subseteq Integrations /\ runtime \in Runtime
        /\ requests \in [Requests -> Request \cup {None}]
    BY <1>1, RequestTyped DEF RequestsInv, RequestsTypeOK
  <1>3. q.op \in Enabling \cup Ending /\ Enabling \cap Ending = {}
    BY <1>2 DEF Request, Enabling, Ending
  <1>4. CASE Installed(c)
    <2>1. /\ rows' = Configured(i) /\ owned' \subseteq Integrations /\ Await(c, i, "set") /\ UNCHANGED <<tokens, runtime>>
          /\ q.at = "install"
      BY <1>2, <1>4 DEF Installed, At
    <2>2. q.op \in Enabling /\ q.op \notin Ending /\ q.op # "rollback"
      BY <1>2, <1>3, <2>1 DEF RequestFits, Ending
    <2>3. rows' \in [Integrations -> Row] /\ rows'[i].configured
      BY <1>2, <2>1, RowWrites
    <2> QED BY <1>1, <1>2, <2>1, <2>2, <2>3, AwaitKeeps DEF Awaits
  <1>5. CASE PortFails(c)
    BY <1>1, <1>2, <1>5, EndsKeep DEF PortFails
  <1>6. CASE Checked(c)
    <2>1. /\ rows' = Configured(i) /\ Ensure(c, i) /\ UNCHANGED <<tokens, owned, runtime>> /\ q.at = "check"
      BY <1>2, <1>6 DEF Checked, At
    <2>2. q.op \in Enabling /\ q.op \notin Ending /\ q.op # "rollback"
      BY <1>2, <1>3, <2>1 DEF RequestFits, Ending
    <2>3. rows' \in [Integrations -> Row] /\ rows'[i].configured /\ rows'[i].enabled
      BY <1>2, <2>1, RowWrites
    <2>4. CASE rows'[i].ref
      <3>1. Await(c, i, "get") /\ Verifiable(rows'[i])
        BY <2>1, <2>3, <2>4 DEF Ensure, Verifiable
      <3> QED BY <1>1, <1>2, <2>1, <2>2, <2>3, <3>1, AwaitKeeps DEF Awaits
    <2>5. CASE ~rows'[i].ref
      <3>1. Await(c, i, "set")
        BY <2>1, <2>5 DEF Ensure
      <3> QED BY <1>1, <1>2, <2>1, <2>2, <2>3, <3>1, AwaitKeeps DEF Awaits
    <2> QED BY <2>4, <2>5
  <1>7. ASSUME NEW removed \in BOOLEAN, q.at = "uninstall", owned' \subseteq Integrations, UNCHANGED <<rows, tokens, runtime>>,
               requests' = [requests EXCEPT ![c].at = "delete", ![c].setupRemoved = removed]
        PROVE  RequestsInv'
    <2> DEFINE next == [q EXCEPT !.at = "delete", !.setupRemoved = removed]
    <2>1. requests' = [requests EXCEPT ![c] = next]
      BY <1>2, <1>7
    <2>2. /\ next \in Request /\ next.op = q.op /\ next.at = "delete" /\ next.id = i /\ next.answer = q.answer
          /\ next.todo = q.todo /\ next.alone = q.alone
      BY <1>2 DEF Request, Awaits
    <2>3. q.answer = None /\ q.op \in Ending /\ q.op \notin Enabling
      BY <1>2, <1>3, <1>7 DEF RequestFits, StoreCalls, Enabling, Ending
    <2> HIDE DEF next
    <2>4. Moves(c) /\ requests'[c] = next
      BY <1>2, <2>1, <2>2 DEF Moves
    <2>5. RequestsTypeOK'
      BY <1>2, <1>7, <2>4 DEF RequestsTypeOK, Moves
    <2>6. ASSUME requests'[c] # None PROVE RequestFits(c)'
      <3>1. q.alone => Busy' = {c}
        BY <1>1, <2>4, <2>6, StaysAlone
      <3> QED BY <1>2, <1>7, <2>2, <2>3, <2>4, <3>1, IntegrationConstants DEF RequestFits, StoreCalls
    <2> QED BY <1>1, <2>4, <2>5, <2>6, OneRequestMoves
  <1>8. CASE Uninstalled(c)
    BY <1>2, <1>7, <1>8, ZenonT(30) DEF Uninstalled, At
  <1>9. CASE NotUninstalled(c)
    BY <1>2, <1>7, <1>9, ZenonT(30) DEF NotUninstalled, At
  <1> QED BY <1>4, <1>5, <1>6, <1>8, <1>9

LEMMA TokensKeep ==
  ASSUME RequestsInv, NEW c \in Requests,
         TokenStored(c) \/ TokenRefused(c) \/ TokenFound(c) \/ TokenMissing(c) \/ TokenUnreadable(c) \/ Tested(c)
  PROVE  RequestsInv'
  <1> DEFINE q == requests[c]  i == q.id
  <1>1. c \in Busy /\ requests[c] # None
    BY DEF TokenStored, TokenRefused, TokenFound, TokenMissing, TokenUnreadable, Tested, Answered, At, Busy
  <1>2. /\ q \in Request /\ i \in Integrations /\ RequestFits(c) /\ rows \in [Integrations -> Row]
        /\ tokens \subseteq Integrations /\ owned \subseteq Integrations /\ runtime \in Runtime
    BY <1>1, RequestTyped, SMTT(30) DEF RequestsInv, RequestsTypeOK
  <1>3. /\ q.at \in {"get", "set", "setAgain", "verify"}
        /\ q.op \in Enabling /\ q.op \notin Ending /\ q.op # "rollback"
    BY <1>2 DEF TokenStored, TokenRefused, TokenFound, TokenMissing, TokenUnreadable, Tested, Answered, At,
                RequestFits, Request, Enabling, Ending
  <1>4. RolloutEnabled \in Runtime
    BY DEF RolloutEnabled, Runtime
  \* It goes on with the token, and may only count on its row when it stays configured.
  <1>5. ASSUME NEW at \in {"get", "set", "setAgain", "verify"}, Await(c, i, at),
               rows' \in [Integrations -> Row], UNCHANGED <<tokens, owned, runtime>>,
               at \in {"set", "setAgain"} => rows'[i].configured, at # "get"
        PROVE  RequestsInv'
    BY <1>1, <1>2, <1>3, <1>5, AwaitKeeps DEF Awaits
  <1>6. ASSUME NEW at \in {"set", "setAgain"}, Issue(c, i, at), UNCHANGED <<rows, tokens, owned, runtime>>
        PROVE  RequestsInv'
    <2>1. CASE rows[i].configured
      BY <1>2, <1>5, <1>6, <2>1 DEF Issue
    <2>2. CASE ~rows[i].configured
      BY <1>1, <1>2, <1>6, <2>2, EndsKeep DEF Issue
    <2> QED BY <2>1, <2>2
  <1>7. CASE TokenStored(c)
    <2>1. rows' = Issued(i) /\ UNCHANGED <<tokens, owned>>
      BY <1>7 DEF TokenStored
    <2>2. rows' \in [Integrations -> Row]
      BY <1>2, <2>1, RowWrites
    <2>3. \/ UNCHANGED runtime /\ (Await(c, i, "verify") \/ Finish(c))
          \/ Completed(c)
      BY <1>7 DEF TokenStored
    <2>4. CASE UNCHANGED runtime /\ Await(c, i, "verify")
      BY <1>5, <2>1, <2>2, <2>4
    <2>5. CASE Finish(c) /\ runtime' \in Runtime
      BY <1>1, <1>2, <2>1, <2>2, <2>5, EndsKeep
    <2> QED BY <1>2, <1>4, <2>3, <2>4, <2>5 DEF Completed
  <1>8. CASE TokenRefused(c)
    <2>1. UNCHANGED <<tokens, owned, runtime>>
      BY <1>8 DEF TokenRefused
    <2>2. CASE q.op = "enable"
      <3>1. rows' = [rows EXCEPT ![i].configured = FALSE, ![i].enabled = FALSE, ![i].failed = TRUE] /\ Finish(c)
        BY <1>8, <2>2 DEF TokenRefused
      <3>2. rows' \in [Integrations -> Row]
        BY <1>2, <3>1, RowCleared, ZenonT(30)
      <3> QED BY <1>1, <1>2, <2>1, <3>1, <3>2, EndsKeep
    <2>3. CASE q.op = "reconnect" /\ q.at = "set"
      <3>1. Issue(c, i, "setAgain") /\ UNCHANGED rows
        BY <1>8, <2>3 DEF TokenRefused
      <3> QED BY <1>6, <2>1, <3>1
    <2>4. CASE q.op # "enable" /\ ~(q.op = "reconnect" /\ q.at = "set")
      <3>1. Finish(c) /\ UNCHANGED rows
        BY <1>8, <2>4 DEF TokenRefused
      <3> QED BY <1>1, <1>2, <2>1, <3>1, EndsKeep
    <2> QED BY <2>2, <2>3, <2>4
  <1>9. CASE TokenFound(c)
    <2>1. UNCHANGED <<rows, tokens, owned>>
      BY <1>9 DEF TokenFound
    <2>2. \/ UNCHANGED runtime /\ (Await(c, i, "verify") \/ Finish(c))
          \/ Completed(c)
      BY <1>9 DEF TokenFound
    <2>3. CASE UNCHANGED runtime /\ Await(c, i, "verify")
      BY <1>2, <1>5, <2>1, <2>3
    <2>4. CASE Finish(c) /\ runtime' \in Runtime
      BY <1>1, <1>2, <2>1, <2>4, EndsKeep
    <2> QED BY <1>2, <1>4, <2>2, <2>3, <2>4 DEF Completed
  <1>10. CASE TokenMissing(c)
    BY <1>6, <1>10 DEF TokenMissing
  <1>11. CASE TokenUnreadable(c)
    <2>1. UNCHANGED <<rows, tokens, owned, runtime>> /\ (Issue(c, i, "setAgain") \/ Finish(c))
      BY <1>11 DEF TokenUnreadable
    <2>2. CASE Issue(c, i, "setAgain")
      BY <1>6, <2>1, <2>2
    <2>3. CASE Finish(c)
      BY <1>1, <1>2, <2>1, <2>3, EndsKeep
    <2> QED BY <2>1, <2>2, <2>3
  <1>12. CASE Tested(c)
    <2>1. Finish(c) /\ UNCHANGED <<tokens, owned, runtime>> /\ (rows' = [rows EXCEPT ![i].failed = FALSE] \/ rows' = rows)
      BY <1>12 DEF Tested
    <2>2. [rows EXCEPT ![i].failed = FALSE] \in [Integrations -> Row]
      BY <1>2, RowWrites
    <2>3. rows' \in [Integrations -> Row]
      BY <1>2, <2>1, <2>2
    <2> QED BY <1>1, <1>2, <2>1, <2>3, EndsKeep
  <1> QED BY <1>7, <1>8, <1>9, <1>10, <1>11, <1>12

LEMMA RemovalsKeep ==
  ASSUME RequestsInv, NEW c \in Requests, TokenDeleted(c) \/ RetriesCleared(c)
  PROVE  RequestsInv'
  <1> DEFINE q == requests[c]  i == q.id
  <1>1. c \in Busy /\ requests[c] # None
    BY DEF TokenDeleted, RetriesCleared, Answered, At, Busy
  <1>2. /\ q \in Request /\ i \in Integrations /\ RequestFits(c) /\ rows \in [Integrations -> Row]
        /\ tokens \subseteq Integrations /\ owned \subseteq Integrations /\ runtime \in Runtime
        /\ requests \in [Requests -> Request \cup {None}] /\ q.todo \subseteq Integrations /\ q.setupRemoved \in BOOLEAN
    BY <1>1, RequestTyped DEF RequestsInv, RequestsTypeOK, Request
  <1>3. q.at \in {"delete", "clear"} /\ q.op \in Ending /\ q.op \notin Enabling
    BY <1>2 DEF TokenDeleted, RetriesCleared, Answered, At, RequestFits, Request, Enabling, Ending
  <1>4. CASE TokenDeleted(c)
    <2>1. /\ rows' = Revoked(i) /\ Await(c, i, "clear") /\ UNCHANGED <<tokens, owned, runtime>>
          /\ q.at = "delete" /\ q.answer = "done"
      BY <1>4 DEF TokenDeleted, Answered, At
    <2>2. /\ rows' \in [Integrations -> Row] /\ ~rows'[i].ref /\ ~rows'[i].enabled
          /\ \A j \in Integrations : (~rows[j].enabled => ~rows'[j].enabled) /\ (~rows[j].ref => ~rows'[j].ref)
      BY <1>2, <2>1, RowWrites
    <2>3. q.alone => i \notin tokens
      BY <1>2, <2>1 DEF RequestFits
    <2>4. q.alone /\ q.op = "rollback" =>
                /\ ~runtime'.capture
                /\ \A j \in Integrations : ~rows'[j].enabled /\ (j \in q.todo \/ j = i \/ (j \notin tokens' /\ ~rows'[j].ref))
      BY <1>2, <2>1, <2>2 DEF RequestFits
    <2> QED BY <1>1, <1>2, <1>3, <2>1, <2>2, <2>3, <2>4, AwaitKeeps DEF Awaits
  <1>5. CASE RetriesCleared(c)
    <2> DEFINE retained == q.op = "rollback" /\ ~q.setupRemoved
               stays == retained /\ i \in q.configured
    <2>1. UNCHANGED <<tokens, owned>>
      BY <1>5 DEF RetriesCleared
    <2>2. CASE q.op = "remove" /\ q.answer = "failed"
      <3>1. Finish(c) /\ UNCHANGED <<rows, runtime>>
        BY <1>5, <2>2 DEF RetriesCleared
      <3> QED BY <1>1, <1>2, <2>1, <3>1, EndsKeep
    <2>3. CASE ~(q.op = "remove" /\ q.answer = "failed")
      <3>1. /\ rows' = [rows EXCEPT ![i].configured = stays, ![i].enabled = FALSE, ![i].failed = retained]
            /\ IF q.op = "remove" THEN Finish(c) /\ UNCHANGED runtime ELSE RollOn(c, q.todo)
        BY <1>5, <2>3 DEF RetriesCleared
      <3>2. retained \in BOOLEAN /\ stays \in BOOLEAN
        OBVIOUS
      <3> HIDE DEF retained, stays
      <3>3. /\ rows' \in [Integrations -> Row]
            /\ \A j \in Integrations : rows'[j].ref = rows[j].ref /\ (~rows[j].enabled => ~rows'[j].enabled)
        BY <1>2, <3>1, <3>2, RowCleared, ZenonT(30)
      <3>4. CASE Finish(c) /\ runtime' \in Runtime
        BY <1>1, <1>2, <2>1, <3>3, <3>4, EndsKeep
      <3>5. CASE q.op = "rollback" /\ q.todo = {}
        <4>1. runtime' = [runtime EXCEPT !.rollout = "disabled"] /\ Finish(c)
          BY <3>1, <3>5 DEF RollOn
        <4>2. runtime' \in Runtime
          BY <1>2, <4>1 DEF Runtime
        <4> QED BY <3>4, <4>1, <4>2
      <3>6. CASE q.op = "rollback" /\ q.todo # {}
        <4>1. PICK j \in q.todo :
                /\ requests' = [requests EXCEPT ![c].id = j, ![c].todo = q.todo \ {j}, ![c].answer = None,
                     ![c].at = IF j \in Automatic /\ j \in q.configured THEN "uninstall" ELSE "delete",
                     ![c].setupRemoved = TRUE]
                /\ UNCHANGED runtime
          BY <3>1, <3>6, Zenon DEF RollOn
        <4> DEFINE at == IF j \in Automatic /\ j \in q.configured THEN "uninstall" ELSE "delete"
                   next == [q EXCEPT !.id = j, !.todo = q.todo \ {j}, !.answer = None, !.at = at, !.setupRemoved = TRUE]
        <4>2. requests' = [requests EXCEPT ![c] = next]
          BY <1>2, <4>1
        <4>3. at \in {"uninstall", "delete"}
          OBVIOUS
        <4> HIDE DEF at
        <4>4. /\ next \in Request /\ next.op = "rollback" /\ next.at = at /\ next.id = j /\ next.answer = None
              /\ next.todo = q.todo \ {j} /\ next.alone = q.alone
          BY <1>2, <3>6, <4>3 DEF Request, Awaits
        <4> HIDE DEF next
        <4>5. Moves(c) /\ requests'[c] = next
          BY <1>2, <4>2, <4>4 DEF Moves
        <4>6. RequestsTypeOK'
          BY <1>2, <2>1, <3>3, <4>1, <4>5 DEF RequestsTypeOK, Moves
        <4>7. ASSUME requests'[c] # None PROVE RequestFits(c)'
          <5>1. q.alone => Busy' = {c}
            BY <1>1, <4>5, <4>7, StaysAlone
          <5>2. q.alone => q.answer # "failed" /\ q.at = "clear"
            <6>1. q.at = "clear" \/ q.answer = "failed"
              BY <1>5 DEF RetriesCleared, Answered, At
            <6> QED BY <1>2, <6>1 DEF RequestFits
          <5>3. q.alone => i \notin tokens /\ ~rows[i].ref
            BY <1>2, <5>2 DEF RequestFits
          <5>4. q.alone =>
                  /\ ~runtime'.capture
                  /\ \A k \in Integrations : ~rows'[k].enabled /\ (k \in q.todo \/ (k \notin tokens' /\ ~rows'[k].ref))
            BY <1>2, <2>1, <3>3, <3>6, <4>1, <5>3 DEF RequestFits
          <5> QED BY <4>3, <4>4, <4>5, <5>1, <5>4, IntegrationConstants DEF RequestFits, StoreCalls, Enabling, Ending
        <4> QED BY <1>1, <4>5, <4>6, <4>7, OneRequestMoves, SMTT(30)
      <3> QED BY <1>2, <1>3, <3>1, <3>4, <3>5, <3>6 DEF Ending
    <2> QED BY <2>2, <2>3
  <1> QED BY <1>4, <1>5

\* What the requests do, and what leaves them alone.
LEMMA RequestsStep ==
  RequestsInv /\ (RequestsServed \/ IntegrationsRestart \/ UNCHANGED <<rows, tokens, owned, runtime, requests>>)
    => RequestsInv'
  <1> SUFFICES ASSUME RequestsInv,
                      RequestsServed \/ IntegrationsRestart \/ UNCHANGED <<rows, tokens, owned, runtime, requests>>
               PROVE  RequestsInv'
    OBVIOUS
  <1>1. CASE UNCHANGED <<rows, tokens, owned, runtime, requests>>
    BY <1>1 DEF RequestsInv, RequestsTypeOK, Busy, RequestFits
  <1>2. ASSUME NEW c \in Requests, NEW i \in Surfaces, Enable(c, i) \/ Reconnect(c, i) \/ Test(c, i) \/ RemoveIntegration(c, i)
        PROVE  RequestsInv'
    <2>1. CASE Enable(c, i)
      BY <2>1, BeginKeeps DEF Enable, Awaits
    <2>2. CASE Reconnect(c, i)
      BY <2>2, BeginKeeps DEF Reconnect, Awaits
    <2>3. CASE RemoveIntegration(c, i)
      BY <2>3, BeginKeeps DEF RemoveIntegration, Awaits
    <2>4. CASE Test(c, i)
      <3>1. CASE rows[i].ref
        BY <2>4, <3>1, BeginKeeps DEF Test, Awaits, Verifiable
      <3>2. CASE ~rows[i].ref
        BY <2>4, <3>2, BeginKeeps DEF Test, Awaits
      <3> QED BY <3>1, <3>2
    <2> QED BY <1>2, <2>1, <2>2, <2>3, <2>4
  <1>3. CASE IntegrationsRestart
    <2>1. requests' = [c \in Requests |-> None] /\ UNCHANGED <<rows, tokens, owned>> /\ runtime' \in Runtime
      BY <1>3 DEF IntegrationsRestart, RequestsInv, RequestsTypeOK, Runtime
    <2>2. Busy' = {}
      BY <2>1 DEF Busy
    <2> QED BY <2>1, <2>2 DEF RequestsInv, RequestsTypeOK
  <1>4. CASE RequestsServed
    BY <1>2, <1>4, RollbackKeeps, AnswersKeep, SetupKeeps, TokensKeep, RemovalsKeep, PauseKeeps DEF RequestsServed
  <1> QED BY <1>1, <1>3, <1>4

-----------------------------------------------------------------------------
(* The listing.  While nothing it has read is written, it knows the row    *)
(* and, once it was answered, whether the token is there.                  *)
ListingFits ==
  /\ listing \in Listing \cup {None}
  /\ listing # None /\ ~listing.overlapped =>
       /\ listing.seen = rows[listing.id]
       /\ listing.found = "done" => listing.id \in tokens

IntegrationsInv == RequestsInv /\ ListingFits

LEMMA IntegrationsStart == IntegrationsInit => IntegrationsInv
  <1> SUFFICES ASSUME IntegrationsInit PROVE IntegrationsInv
    OBVIOUS
  <1>1. ListingFits
    BY DEF IntegrationsInit, ListingFits
  <1> QED BY <1>1, RequestsStart DEF IntegrationsInv

\* Whatever the requests do to the row and the token, an undisturbed listing has read them.
LEMMA OverlapFits ==
  ASSUME IntegrationsInv, Overlap
  PROVE  ListingFits'
  <1>1. CASE listing = None
    BY <1>1 DEF Overlap, ListingFits
  <1>2. CASE listing # None
    <2> DEFINE i == listing.id
               over == listing.overlapped \/ rows'[i] # rows[i] \/ (i \in tokens) # (i \in tokens')
    <2>1. listing \in Listing /\ listing' = [listing EXCEPT !.overlapped = over]
      BY <1>2 DEF IntegrationsInv, ListingFits, Overlap
    <2>2. over \in BOOLEAN
      BY <2>1 DEF Listing
    <2>3. /\ listing' \in Listing /\ listing'.id = i /\ listing'.seen = listing.seen
          /\ listing'.found = listing.found /\ listing'.overlapped = over
      BY <2>1, <2>2 DEF Listing
    <2>4. ~over => ~listing.overlapped /\ rows'[i] = rows[i] /\ (i \in tokens => i \in tokens')
      OBVIOUS
    <2> HIDE DEF over
    <2> QED BY <1>2, <2>3, <2>4 DEF IntegrationsInv, ListingFits
  <1> QED BY <1>1, <1>2

LEMMA IntegrationsStep == IntegrationsInv /\ [IntegrationsNext]_integrationVars => IntegrationsInv'
  <1> SUFFICES ASSUME IntegrationsInv, [IntegrationsNext]_integrationVars PROVE IntegrationsInv'
    OBVIOUS
  <1>0. RequestsInv /\ ListingFits
    BY DEF IntegrationsInv
  <1>1. CASE RequestsServed /\ Overlap
    BY <1>0, <1>1, RequestsStep, OverlapFits DEF IntegrationsInv
  <1>2. ASSUME NEW i \in Surfaces, ListIntegration(i) PROVE IntegrationsInv'
    <2>1. /\ listing' = [id |-> i, seen |-> rows[i], found |-> None, overlapped |-> FALSE]
          /\ UNCHANGED <<rows, tokens, owned, runtime, requests>>
      BY <1>2 DEF ListIntegration
    <2>2. rows[i] \in Row
      BY <1>0, IntegrationConstants DEF RequestsInv, RequestsTypeOK
    <2>3. listing' \in Listing /\ listing'.found # "done" /\ listing'.id = i /\ listing'.seen = rows[i]
      BY <2>1, <2>2, IntegrationConstants DEF Listing
    <2>4. ListingFits'
      BY <2>1, <2>3 DEF ListingFits
    <2> QED BY <1>0, <2>1, <2>4, RequestsStep DEF IntegrationsInv
  <1>3. CASE StoreTells
    <2>1. /\ listing # None /\ listing \in Listing /\ UNCHANGED <<rows, tokens, owned, runtime, requests>>
      BY <1>0, <1>3 DEF StoreTells, ListingFits
    <2>2. PICK found \in {IF listing.id \in tokens THEN "done" ELSE "missing", "failed"} :
            listing' = [listing EXCEPT !.found = found]
      BY <1>3 DEF StoreTells
    <2>3. /\ listing' \in Listing /\ listing'.id = listing.id /\ listing'.seen = listing.seen
          /\ listing'.found = found /\ listing'.overlapped = listing.overlapped
      BY <2>1, <2>2 DEF Listing
    <2>4. found = "done" => listing.id \in tokens
      BY <2>2
    <2>5. ListingFits'
      BY <1>0, <2>1, <2>3, <2>4 DEF ListingFits
    <2> QED BY <1>0, <2>1, <2>5, RequestsStep DEF IntegrationsInv
  <1>4. CASE ListingEnds
    <2>1. listing' = None /\ UNCHANGED <<rows, tokens, owned, runtime, requests>>
      BY <1>4 DEF ListingEnds
    <2>2. ListingFits'
      BY <2>1 DEF ListingFits
    <2> QED BY <1>0, <2>1, <2>2, RequestsStep DEF IntegrationsInv
  <1>5. CASE IntegrationsRestart
    <2>1. listing' = None
      BY <1>5 DEF IntegrationsRestart
    <2>2. ListingFits'
      BY <2>1 DEF ListingFits
    <2> QED BY <1>0, <1>5, <2>2, RequestsStep DEF IntegrationsInv
  <1>6. CASE UNCHANGED integrationVars
    <2>1. ListingFits'
      BY <1>0, <1>6 DEF integrationVars, ListingFits
    <2>2. UNCHANGED <<rows, tokens, owned, runtime, requests>>
      BY <1>6 DEF integrationVars
    <2> QED BY <1>0, <2>1, <2>2, RequestsStep DEF IntegrationsInv
  <1> QED BY <1>1, <1>2, <1>3, <1>4, <1>5, <1>6 DEF IntegrationsNext

LEMMA IntegrationsTyped == IntegrationsInv => IntegrationsTypeOK
  BY DEF IntegrationsInv, RequestsInv, ListingFits, IntegrationsTypeOK

\* A listing nobody wrote under shows no coverage of an integration that could not report.
LEMMA CoverageFollows == IntegrationsInv => CoverageIsHonest
  <1> SUFFICES ASSUME IntegrationsInv, Listed, ~listing.overlapped, ~Reportable(listing.id), NEW view \in Views
               PROVE  /\ PrimaryAction(listing.id, listing.seen, listing.found, view) \notin {"test", "review-gap"}
                      /\ Coverage(listing.id, listing.seen, listing.found, view)
                           \notin {"connected", "empty", "partial", "stale"}
    BY DEF CoverageIsHonest
  <1> DEFINE i == listing.id  row == listing.seen  found == listing.found
  <1>1. /\ listing \in Listing /\ row \in Row /\ row = rows[i]
        /\ found = "done" => i \in tokens
    BY DEF Listed, IntegrationsInv, ListingFits, Listing
  <1>2. \/ ~row.configured \/ ~row.enabled
        \/ row.configured /\ AuthState(row, found) # "ready"
    BY <1>1 DEF Reportable, Verifiable, AuthState, Row
  <1> HIDE DEF i, row, found
  <1>3. PrimaryAction(i, row, found, view) \notin {"test", "review-gap"}
    BY <1>2 DEF PrimaryAction
  <1>4. Hindered(row, found, view)
    BY <1>2 DEF Hindered
  <1>5. Coverage(i, row, found, view) \notin {"connected", "empty", "partial", "stale"}
    <2>1. CASE i \notin Qualified
      BY <2>1 DEF Coverage
    <2>2. CASE i \in Qualified
      BY <1>4, <2>2 DEF Coverage
    <2> QED BY <2>1, <2>2
  <1> QED BY <1>3, <1>5 DEF i, row, found

-----------------------------------------------------------------------------
(* The settings of agents with hooks.                                      *)
\* What an operation goes by is a file that was read, and a removal goes by one.
HooksFit ==
  /\ HookSettingsTypeOK
  /\ installer # None /\ installer.at = "write" /\ installer.op = "remove" => installer.base # None
  /\ installer # None /\ installer.at = "copy" => installer.base # None

LEMMA HooksStart == HookSettingsInit => HooksFit
  BY DEF HookSettingsInit, HooksFit, HookSettingsTypeOK, File, Registered, Group

\* What the operations make of a file.
LEMMA FilesMade ==
  ASSUME NEW file \in Registered \cup {None}
  PROVE  /\ Parsed(file) \in Registered /\ Merged(file) \in Registered
         /\ file # None => Stripped(file) \in Registered
  <1>1. Parsed(file) \in Registered
    BY DEF Parsed, Empty, Registered
  <1>2. Merged(file) \in Registered
    BY <1>1 DEF Merged, Registered, Group
  <1>3. ASSUME file # None PROVE Stripped(file) \in Registered
    <2>1. \A e \in HookEvents : {g \ {Ours} : g \in file[e]} \ {{}} \in SUBSET Group
      BY <1>3 DEF Registered, Group
    <2> QED BY <2>1 DEF Stripped, Registered
  <1> QED BY <1>1, <1>2, <1>3

LEMMA InstallerTyped ==
  ASSUME HooksFit, installer # None
  PROVE  /\ installer \in [op : {"install", "remove"}, at : {"read", "copy", "write"}, base : Registered \cup {None}]
         /\ installer.base \in Registered \cup {None} /\ installer.op \in {"install", "remove"}
  BY DEF HooksFit, HookSettingsTypeOK

LEMMA HooksStep == HooksFit /\ [HookSettingsNext]_hookVars => HooksFit'
  <1> SUFFICES ASSUME HooksFit, [HookSettingsNext]_hookVars PROVE HooksFit'
    OBVIOUS
  <1>0. settings \in File /\ backup \in File
    BY DEF HooksFit, HookSettingsTypeOK
  <1>1. CASE UNCHANGED hookVars
    BY <1>1 DEF hookVars, HooksFit, HookSettingsTypeOK
  <1>2. CASE StartInstall \/ StartRemove
    BY <1>0, <1>2 DEF StartInstall, StartRemove, HooksFit, HookSettingsTypeOK
  <1>3. CASE ReadSettings
    <2>1. UNCHANGED <<settings, backup>> /\ installer # None
      BY <1>3 DEF ReadSettings
    <2>2. CASE installer' = None
      BY <1>0, <2>1, <2>2 DEF HooksFit, HookSettingsTypeOK
    <2>3. CASE installer' # None
      <3> DEFINE at == IF settings = None THEN "write" ELSE "copy"
      <3>1. /\ installer' = [installer EXCEPT !.at = at, !.base = settings]
            /\ settings # Unreadable /\ (installer.op = "remove" => settings # None)
        BY <1>3, <2>3 DEF ReadSettings
      <3>2. settings \in Registered \cup {None}
        BY <1>0, <3>1 DEF File
      <3>3. installer' = [op |-> installer.op, at |-> at, base |-> settings]
        BY <2>1, <3>1, InstallerTyped
      <3> QED BY <1>0, <2>1, <3>1, <3>2, <3>3, InstallerTyped DEF HooksFit, HookSettingsTypeOK
    <2> QED BY <2>2, <2>3
  <1>4. CASE CopyBackup
    <2>1. installer # None /\ UNCHANGED settings /\ installer.at = "copy"
      BY <1>4 DEF CopyBackup
    <2>2. CASE installer' = None /\ UNCHANGED backup
      BY <1>0, <2>1, <2>2 DEF HooksFit, HookSettingsTypeOK
    <2>3. CASE backup' = settings /\ installer' = [installer EXCEPT !.at = "write"]
      <3>1. installer' = [op |-> installer.op, at |-> "write", base |-> installer.base] /\ installer.base # None
        BY <2>1, <2>3, InstallerTyped DEF HooksFit
      <3> QED BY <1>0, <2>1, <2>3, <3>1, InstallerTyped DEF HooksFit, HookSettingsTypeOK
    <2> QED BY <1>4, <2>2, <2>3 DEF CopyBackup
  <1>5. CASE Replace
    <2>1. installer # None /\ installer.at = "write" /\ installer' = None
      BY <1>5 DEF Replace
    <2>2. settings' \in Registered
      BY <1>5, <2>1, InstallerTyped, FilesMade DEF Replace, HooksFit
    <2>3. backup' \in File
      BY <1>0, <1>5 DEF Replace, File
    <2> QED BY <2>1, <2>2, <2>3 DEF HooksFit, HookSettingsTypeOK, File
  <1>6. CASE InstallerDies
    BY <1>0, <1>6 DEF InstallerDies, HooksFit, HookSettingsTypeOK
  <1>7. CASE AgentSaves
    <2>1. settings \in Registered \cup {None} /\ UNCHANGED <<backup, installer>>
      BY <1>0, <1>7 DEF AgentSaves, File
    <2>2. settings' \in File
      <3>1. CASE settings' \in {None, Unreadable}
        BY <3>1 DEF File
      <3>2. ASSUME NEW e \in HookEvents, NEW h \in Hooks, settings' = [Parsed(settings) EXCEPT ![e] = @ \cup {{h}}]
            PROVE  settings' \in Registered
        <4>1. Parsed(settings) \in Registered
          BY <2>1, FilesMade
        <4> QED BY <3>2, <4>1 DEF Registered, Group
      <3>3. ASSUME NEW e \in HookEvents, settings # None, settings' = [settings EXCEPT ![e] = {UNION @}]
            PROVE  settings' \in Registered
        <4>1. settings \in [HookEvents -> SUBSET Group]
          BY <2>1, <3>3 DEF Registered
        <4>2. {UNION settings[e]} \in SUBSET Group
          BY <4>1 DEF Group
        <4> QED BY <3>3, <4>1, <4>2 DEF Registered
      <3>4. ASSUME NEW e \in HookEvents, NEW h \in Hooks, settings # None,
                   settings' = [settings EXCEPT ![e] = {g \ {h} : g \in @} \ {{}}]
            PROVE  settings' \in Registered
        <4>1. settings \in [HookEvents -> SUBSET Group]
          BY <2>1, <3>4 DEF Registered
        <4>2. {g \ {h} : g \in settings[e]} \ {{}} \in SUBSET Group
          BY <4>1 DEF Group
        <4> QED BY <3>4, <4>1, <4>2 DEF Registered
      <3> QED BY <1>7, <3>1, <3>2, <3>3, <3>4 DEF AgentSaves, File
    <2> QED BY <1>0, <2>1, <2>2 DEF HooksFit, HookSettingsTypeOK
  <1> QED BY <1>1, <1>2, <1>3, <1>4, <1>5, <1>6, <1>7 DEF HookSettingsNext

\* What a replacement keeps of a file that nobody saved meanwhile.
LEMMA ReplacementKeeps ==
  ASSUME HooksFit, Replace, Unshared
  PROVE  /\ HooksIn(settings') = HooksIn(settings)
         /\ \A e \in HookEvents : {g \ {Ours} : g \in settings'[e]} \ {{}} = {g \ {Ours} : g \in Parsed(settings)[e]} \ {{}}
         /\ IF installer.op = "install" THEN \A e \in HookEvents : \E g \in settings'[e] : Ours \in g
            ELSE ~OwnedFile(settings')
  <1> DEFINE file == installer.base
  <1>1. /\ installer # None /\ file \in Registered \cup {None} /\ settings = file /\ installer.op \in {"install", "remove"}
        /\ installer.op = "remove" => file # None
    BY InstallerTyped DEF Replace, Unshared, HooksFit
  <1> HIDE DEF file
  <1>2. Parsed(file) \in Registered /\ \A e \in HookEvents : Parsed(file)[e] \subseteq Group
    BY <1>1, FilesMade DEF Registered
  <1>3. CASE installer.op = "install"
    <2>1. settings' = Merged(file) /\ settings' \in Registered /\ settings' # None
      BY <1>1, <1>3, FilesMade, HookConstants DEF Replace, file
    <2>2. Parsed(settings') = settings'
      BY <2>1 DEF Parsed
    <2>3. \A e \in HookEvents : settings'[e] =
            IF \E g \in Parsed(file)[e] : Ours \in g THEN Parsed(file)[e] ELSE Parsed(file)[e] \cup {{Ours}}
      BY <2>1 DEF Merged
    <2>4. HooksIn(settings') = HooksIn(file)
      <3>1. ASSUME NEW x \in HookEvents \X Hooks
            PROVE  (\E g \in settings'[x[1]] : x[2] \in g) <=> \E g \in Parsed(file)[x[1]] : x[2] \in g
        <4>1. x[1] \in HookEvents /\ x[2] \notin {Ours}
          BY HookConstants
        <4>2. \/ settings'[x[1]] = Parsed(file)[x[1]]
              \/ settings'[x[1]] = Parsed(file)[x[1]] \cup {{Ours}}
          BY <2>3, <4>1
        <4>3. \A g \in {{Ours}} : x[2] \notin g
          BY <4>1
        <4> QED BY <4>2, <4>3
      <3> QED BY <2>2, <3>1 DEF HooksIn
    <2>5. \A e \in HookEvents : {g \ {Ours} : g \in settings'[e]} \ {{}} = {g \ {Ours} : g \in Parsed(file)[e]} \ {{}}
      <3> SUFFICES ASSUME NEW e \in HookEvents
                   PROVE  {g \ {Ours} : g \in settings'[e]} \ {{}} = {g \ {Ours} : g \in Parsed(file)[e]} \ {{}}
        OBVIOUS
      <3>1. {Ours} \ {Ours} = {}
        OBVIOUS
      <3> QED BY <2>3, <3>1
    <2>6. \A e \in HookEvents : \E g \in settings'[e] : Ours \in g
      BY <2>3
    <2> QED BY <1>1, <1>3, <2>4, <2>5, <2>6
  <1>4. CASE installer.op = "remove"
    <2>1. settings' = Stripped(file) /\ settings' \in Registered /\ settings' # None
      BY <1>1, <1>4, FilesMade, HookConstants DEF Replace, file
    <2>2. Parsed(settings') = settings' /\ Parsed(file) = file
      BY <1>1, <1>4, <2>1 DEF Parsed
    <2>3. \A e \in HookEvents : settings'[e] = {g \ {Ours} : g \in file[e]} \ {{}}
      BY <2>1 DEF Stripped
    <2>4. HooksIn(settings') = HooksIn(file)
      <3>1. ASSUME NEW x \in HookEvents \X Hooks
            PROVE  (\E g \in settings'[x[1]] : x[2] \in g) <=> \E g \in file[x[1]] : x[2] \in g
        <4>1. x[1] \in HookEvents /\ x[2] \in Hooks /\ x[2] # Ours
          BY HookConstants
        <4>2. settings'[x[1]] = {g \ {Ours} : g \in file[x[1]]} \ {{}}
          BY <2>3, <4>1
        <4>3. ASSUME NEW g \in settings'[x[1]], x[2] \in g PROVE \E f \in file[x[1]] : x[2] \in f
          BY <4>2, <4>3
        <4>4. ASSUME NEW f \in file[x[1]], x[2] \in f PROVE \E g \in settings'[x[1]] : x[2] \in g
          <5>1. x[2] \in f \ {Ours} /\ f \ {Ours} \in settings'[x[1]]
            BY <4>1, <4>2, <4>4
          <5> QED BY <5>1
        <4> QED BY <4>3, <4>4
      <3> QED BY <2>2, <3>1 DEF HooksIn
    <2>5. \A e \in HookEvents : {g \ {Ours} : g \in settings'[e]} \ {{}} = {g \ {Ours} : g \in Parsed(file)[e]} \ {{}}
      <3> SUFFICES ASSUME NEW e \in HookEvents
                   PROVE  {g \ {Ours} : g \in settings'[e]} \ {{}} = {g \ {Ours} : g \in file[e]} \ {{}}
        BY <2>2
      <3>1. settings'[e] = {g \ {Ours} : g \in file[e]} \ {{}}
        BY <2>3
      <3>2. \A g \in settings'[e] : g \ {Ours} = g /\ g # {}
        BY <3>1
      <3>3. {g \ {Ours} : g \in settings'[e]} \ {{}} = settings'[e]
        <4>1. \A g \in settings'[e] : g \in {f \ {Ours} : f \in settings'[e]}
          BY <3>2
        <4>2. \A f \in {g \ {Ours} : g \in settings'[e]} : f \in settings'[e]
          BY <3>2
        <4> QED BY <3>2, <4>1, <4>2
      <3> QED BY <3>1, <3>3
    <2>6. ~OwnedFile(settings')
      BY <2>2, <2>3 DEF OwnedFile
    <2> QED BY <1>1, <1>4, <2>4, <2>5, <2>6
  <1> QED BY <1>1, <1>3, <1>4

================================================================================
