--------------------------- MODULE ActivityIngress ---------------------------
(***************************************************************************)
(* The ingress of agent activity, ActivityIngress with its rate limiter,   *)
(* the snapshots an event may answer (SnapshotService) and the reports     *)
(* made inside the companion (ManualReportingService).                     *)
(*                                                                         *)
(* What the repository answers to an event is AgentActivity's; here an     *)
(* event is unknown, held behind a gap or applied.                         *)
(***************************************************************************)
EXTENDS Absence, Integers, FiniteSets

CONSTANTS
  Sources,     \* integrations that report
  Exempt,      \* those the capture switch does not concern (MANUAL_INTEGRATION_IDS)
  Reports,     \* ids of events
  Body,        \* what an event says: its integration and the snapshot it answers, with a mode
  Snapshots,   \* ids of snapshot requests
  Burst,       \* events a full bucket allows: 30
  Cost,        \* what one event costs, in the units of a bucket
  Refill,      \* units earned in one step of the clock
  MaxClock,    \* bound of the model: readings of the clock
  MaxForward   \* bound of the model: how far the clock moves forward in all

ASSUME IngressConstants ==
  /\ Body \in [Reports -> [source : Sources, snapshot : Snapshots \cup {None},
                          mode : {"current-session", "next-interaction", "explicit-report"}]]
  /\ Burst \in Nat \ {0} /\ Cost \in Nat \ {0} /\ Refill \in Nat
  /\ MaxClock \in Nat /\ MaxForward \in Nat
  /\ Exempt \subseteq Sources /\ None \notin Sources \cup Snapshots
  /\ None \notin [tokens : Nat, at : 0..MaxClock]
  /\ None \notin [source : Sources,
                   mode : {"current-session", "next-interaction", "explicit-report"},
                   state : {"requested", "waiting", "complete", "failed"}]

VARIABLES
  clock,      \* the companion's clock, which may also be set back
  forward,    \* how far it has moved forward in all
  buckets,    \* the limiter's bucket of each integration
  taken,      \* events the limiter has let through
  reporting,  \* integrations whose row is enabled and configured
  capture,    \* the capture switch
  pending,    \* authenticated requests whose handling has not gone on yet
  events,     \* what the repository holds of each event
  snapshots,  \* agent_activity_snapshots
  credited        \* events whose reporter was answered "applied" or "duplicate"

ingressVars == <<clock, forward, buckets, taken, reporting, capture, pending, events, snapshots, credited>>

-----------------------------------------------------------------------------
Bucket == [tokens : Nat, at : 0..MaxClock]
SnapshotModes == {"current-session", "next-interaction", "explicit-report"}
SnapshotRow == [source : Sources, mode : SnapshotModes, state : {"requested", "waiting", "complete", "failed"}]

IngressTypeOK ==
  /\ clock \in 0..MaxClock /\ forward \in Nat
  /\ buckets \in [Sources -> Bucket \cup {None}]
  /\ taken \in [Sources -> Nat]
  /\ reporting \subseteq Sources /\ capture \in BOOLEAN
  /\ pending \subseteq Reports
  /\ events \in [Reports -> {"unknown", "held", "released", "applied"}]
  /\ snapshots \in [Snapshots -> SnapshotRow \cup {None}]
  /\ credited \subseteq Reports

IngressInit ==
  /\ clock = 0 /\ forward = 0
  /\ buckets = [i \in Sources |-> None] /\ taken = [i \in Sources |-> 0]
  /\ reporting = Sources /\ capture = FALSE
  /\ pending = {}
  /\ events = [e \in Reports |-> "unknown"]
  /\ snapshots = [s \in Snapshots |-> None] /\ credited = {}

Larger(a, b) == IF a < b THEN b ELSE a
Smaller(a, b) == IF a < b THEN a ELSE b

ClockMoves ==
  /\ \E t \in 0..MaxClock :
       /\ t # clock /\ clock' = t
       /\ forward' = forward + Larger(0, t - clock)
       /\ forward' <= MaxForward
  /\ UNCHANGED <<buckets, taken, reporting, capture, pending, events, snapshots, credited>>

-----------------------------------------------------------------------------
(* IntegrationRateLimiter                                                  *)

\* What the bucket of integration i holds now.
Credit(i) ==
  IF buckets[i] = None THEN Burst * Cost
  ELSE Smaller(Burst * Cost, buckets[i].tokens + Refill * Larger(0, clock - buckets[i].at))

Allowed(i) == Credit(i) >= Cost

\* Mutants: an event is charged although it is refused; what a refusal found is earned again.
TakeAnyway(i) ==
  /\ buckets' = [buckets EXCEPT ![i] = [tokens |-> Credit(i) - Cost, at |-> clock]]
  /\ taken' = [taken EXCEPT ![i] = IF Allowed(i) THEN @ + 1 ELSE @]

TakeAgain(i) ==
  /\ buckets' = [buckets EXCEPT ![i] =
       [tokens |-> IF Allowed(i) THEN Credit(i) - Cost ELSE Credit(i),
        at |-> IF Allowed(i) \/ buckets[i] = None THEN clock ELSE buckets[i].at]]
  /\ taken' = [taken EXCEPT ![i] = IF Allowed(i) THEN @ + 1 ELSE @]

\* take(): the bucket is brought up to date whether or not the event is let through.
Take(i) ==
  /\ buckets' = [buckets EXCEPT ![i] =
       [tokens |-> IF Allowed(i) THEN Credit(i) - Cost ELSE Credit(i), at |-> clock]]
  /\ taken' = [taken EXCEPT ![i] = IF Allowed(i) THEN @ + 1 ELSE @]

-----------------------------------------------------------------------------
(* SnapshotService                                                         *)
IsStored(s) == snapshots[s] # None

\* request()
RequestedState(mode) == IF mode = "next-interaction" THEN "waiting" ELSE "requested"
RequestSnapshot(s, i, mode) ==
  /\ ~IsStored(s) /\ i \in reporting
  /\ snapshots' = [snapshots EXCEPT ![s] = [source |-> i, mode |-> mode, state |-> RequestedState(mode)]]
  /\ UNCHANGED <<clock, forward, buckets, taken, reporting, capture, pending, events, credited>>

\* What an event's outcome makes of the snapshot it answers.
AnswerState(state, outcome) ==
  IF state = "complete" \/ outcome \in {"applied", "duplicate"} THEN "complete"
  ELSE IF outcome = "gap" THEN "waiting" ELSE "failed"

\* recordEvent(): a snapshot nobody requested is recorded as well; one of another
\* integration or mode is an error, which the reporter is told although its event counts.
Asked(i, mode) == [source |-> i, mode |-> mode, state |-> "requested"]
Mismatched(s, i, mode) == IsStored(s) /\ (snapshots[s].source # i \/ snapshots[s].mode # mode)
RecordEvent(s, i, mode, outcome) ==
  IF s = None THEN UNCHANGED snapshots
  ELSE LET row == IF IsStored(s) THEN snapshots[s] ELSE Asked(i, mode) IN
       IF row.source # i \/ row.mode # mode THEN UNCHANGED snapshots
       ELSE snapshots' = [snapshots EXCEPT ![s] = [row EXCEPT !.state = AnswerState(row.state, outcome)]]

\* recoverInterruptedRuns(): what was requested when the process ended has failed.
CutOff(rows) == [s \in Snapshots |->
  IF rows[s] # None /\ rows[s].state = "requested" THEN [rows[s] EXCEPT !.state = "failed"] ELSE rows[s]]

\* The process ends with these snapshots in the database, and starts again.
ProcessEnds(rows) ==
  /\ buckets' = [i \in Sources |-> None] /\ taken' = [i \in Sources |-> 0] /\ forward' = 0
  /\ pending' = {} /\ snapshots' = CutOff(rows)
  /\ UNCHANGED <<clock, reporting, capture, credited>>

-----------------------------------------------------------------------------
(* events()                                                                *)

\* The body is read and the token verified, each behind an await.
Authenticate(e) ==
  /\ Body[e].source \in reporting /\ pending = {}
  /\ pending' = {e}
  /\ UNCHANGED <<clock, forward, buckets, taken, reporting, capture, events, snapshots, credited>>

\* The repository's answer to event e: a known one is a duplicate, also while it is held.
Outcomes(e) == IF events[e] # "unknown" THEN {"duplicate"} ELSE {"applied", "gap", "rejected"}

\* Applying an event may release those held behind it.
EventsAfter(e, outcome, released) ==
  CASE outcome = "applied" ->
         [x \in Reports |-> IF x = e THEN "applied"
                            ELSE IF x \in released /\ events[x] = "held" THEN "released" ELSE events[x]]
    [] outcome = "gap" -> [events EXCEPT ![e] = "held"]
    [] OTHER -> events

Counts(outcome) == outcome \in {"applied", "duplicate"}

\* The event is ingested, its snapshot recorded and the reporter answered.
Ingested(e) ==
  LET s == Body[e].snapshot i == Body[e].source mode == Body[e].mode IN
  \E outcome \in Outcomes(e), released \in SUBSET Reports :
    /\ events' = EventsAfter(e, outcome, released)
    /\ RecordEvent(s, i, mode, outcome)
    /\ credited' = IF Counts(outcome) /\ ~(s # None /\ Mismatched(s, i, mode)) THEN credited \cup {e} ELSE credited

\* The capture switch lets the request on.
Captured(e) == Body[e].source \in Exempt \/ capture

\* The rest of the handler.  The limiter is charged before the event is validated against
\* the row, which may have been disabled since the token was verified.
Handle(e) ==
  /\ e \in pending
  /\ pending' = pending \ {e}
  /\ LET i == Body[e].source IN
     IF ~Captured(e)
     THEN UNCHANGED <<buckets, taken, events, snapshots, credited>>
     ELSE /\ Take(i)
          /\ IF Allowed(i) /\ i \in reporting
             THEN Ingested(e)
             ELSE UNCHANGED <<events, snapshots, credited>>
  /\ UNCHANGED <<clock, forward, reporting, capture>>

\* The process dies behind the transaction of ingestValidated, or behind the first statement
\* of recordEvent, which adds a snapshot nobody had requested.
HandleInterrupted(e) ==
  LET s == Body[e].snapshot IN
  /\ e \in pending /\ Captured(e) /\ Allowed(Body[e].source) /\ Body[e].source \in reporting
  /\ \E outcome \in Outcomes(e), released \in SUBSET Reports :
       events' = EventsAfter(e, outcome, released)
  /\ \/ ProcessEnds(snapshots)
     \/ /\ s # None /\ ~IsStored(s)
        /\ ProcessEnds([snapshots EXCEPT ![s] = Asked(Body[e].source, Body[e].mode)])

\* report() of ManualReportingService with a snapshot of its own, which is requested first.
\* The event takes the expected number.
ManualRequest(e) ==
  /\ Body[e].source \in reporting /\ Body[e].mode = "explicit-report" /\ Body[e].snapshot # None
  /\ ~IsStored(Body[e].snapshot) /\ events[e] = "unknown"

\* The snapshot stays requested when the event is refused as invalid.
ManualReport(e) ==
  /\ ManualRequest(e)
  /\ \/ /\ snapshots' = [snapshots EXCEPT ![Body[e].snapshot] = Asked(Body[e].source, "explicit-report")]
        /\ UNCHANGED <<events, credited>>
     \/ /\ Ingested(e) /\ events'[e] # "held"
  /\ UNCHANGED <<clock, forward, buckets, taken, reporting, capture, pending>>

ManualReportInterrupted(e) ==
  /\ ManualRequest(e)
  /\ \E outcome \in {"applied", "rejected"} : events' = EventsAfter(e, outcome, {})
  /\ ProcessEnds([snapshots EXCEPT ![Body[e].snapshot] = Asked(Body[e].source, "explicit-report")])

-----------------------------------------------------------------------------
\* The management service enables or disables an integration or the capture.
Managed ==
  /\ \/ \E i \in Sources : reporting' \in {reporting \cup {i}, reporting \ {i}} /\ UNCHANGED capture
     \/ capture' = ~capture /\ UNCHANGED reporting
  /\ UNCHANGED <<clock, forward, buckets, taken, pending, events, snapshots, credited>>

\* The companion restarts between requests.
IngressRestart ==
  /\ \E s \in Snapshots : IsStored(s) /\ snapshots[s].state = "requested"
  /\ ProcessEnds(snapshots) /\ UNCHANGED events

IngressNext ==
  \/ ClockMoves \/ Managed \/ IngressRestart
  \/ \E s \in Snapshots, i \in Sources, mode \in SnapshotModes : RequestSnapshot(s, i, mode)
  \/ \E e \in Reports : Authenticate(e) \/ Handle(e) \/ ManualReport(e)
  \/ \E e \in Reports : HandleInterrupted(e) \/ ManualReportInterrupted(e)

IngressSpec == IngressInit /\ [][IngressNext]_ingressVars

-----------------------------------------------------------------------------
\* However the clock is moved, an integration is let through at most a full bucket of
\* events and what the clock's forward movement earned, since the companion started.
RateBounded == \A i \in Sources : taken[i] * Cost <= Burst * Cost + Refill * forward

Answers(e, s) ==
  /\ Body[e].snapshot = s
  /\ Body[e].source = snapshots[s].source /\ Body[e].mode = snapshots[s].mode

\* However events are resent, held, refused and cut off between two writes: a snapshot is
\* complete only if the store has an event of its integration and mode that answers it, and
\* a reporter that was told its event counts finds the snapshot it answers complete.  One cut
\* off is told nothing: its event may be applied while the snapshot has failed.
SnapshotsAnswered ==
  /\ \A s \in Snapshots : IsStored(s) /\ snapshots[s].state = "complete" =>
       \E e \in Reports : Answers(e, s) /\ events[e] # "unknown"
  /\ \A e \in credited : LET s == Body[e].snapshot IN
       s # None => IsStored(s) /\ Answers(e, s) /\ snapshots[s].state = "complete"
=============================================================================
