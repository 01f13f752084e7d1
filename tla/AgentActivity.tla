--------------------------- MODULE AgentActivity ---------------------------
(***************************************************************************)
(* The agent-activity store of the companion: what                         *)
(* server/agent-activity/agent-activity-repository.ts, the service in      *)
(* front of it and the services that share its tables do to the rows of    *)
(* agent_activity_integrations, agent_assignments,                         *)
(* agent_assignment_events, agent_project_reviews and tickets.             *)
(*                                                                         *)
(* Coding agents report numbered events about their assignments.  The      *)
(* store applies the events of one assignment in sequence, holds the ones  *)
(* that arrive early until the gap before them is filled, refuses what     *)
(* comes too late, and projects the result onto one ticket.  A person may  *)
(* take over the summary or the project, pause, detach or close the        *)
(* assignment; retention and "clear history" delete applied events.        *)
(*                                                                         *)
(* SQLite transactions and the synchronous JavaScript around them make     *)
(* each action below one step: nothing else runs between its reads and     *)
(* its writes.  Timestamps, labels and the history rows of the tickets are *)
(* left out.                                                               *)
(***************************************************************************)
EXTENDS Absence, Integers, FiniteSets

CONSTANTS
  Integrations,            \* agent_activity_integrations.id
  Assignments,             \* assignment keys (the HMAC of an assignment's identity)
  Tickets,                 \* ticket ids
  EventIds,                \* event ids, chosen by the reporters
  Projects,                \* project folders that are approved and active
  Reviews,                 \* review tokens
  IntegrationOf,           \* the integration an assignment key is derived from
  DefaultTicket,           \* ticketIdFor(assignmentKey)
  ReviewIntegration,       \* the integration a review token was issued to
  Messages,                \* the events reporters may send
  Overrides,               \* the changes a person may ask for
  Edits,                   \* the tickets a person may send for one that is stored
  ForeignStatuses,         \* the ticket statuses reconciliation and import bring
  AssignmentPendingLimit,  \* 32 in the code
  TotalPendingLimit,       \* 512 in the code
  RetainedEvents,          \* maxAppliedEvents, 10 000 in the code
  MaxVersion               \* bound of the model: human overrides stop here

VARIABLES
  integrations,   \* [enabled, configured] of each integration
  assignments,    \* the row of each assignment, or None
  applied,        \* events with apply_state 'applied'
  pending,        \* events with apply_state 'pending-gap'
  tickets,        \* the row of each ticket, or None
  reviews         \* the row of each project review

vars == <<integrations, assignments, applied, pending, tickets, reviews>>

-----------------------------------------------------------------------------
TerminalOutcomes == {"completed", "failed", "cancelled"}
OpenStates == {"active", "waiting", "blocked", "needs-action"}
ReportedStates == OpenStates \cup TerminalOutcomes
EventKinds == {"accepted", "started", "heartbeat", "waiting", "blocked", "needs-action",
               "resumed", "snapshot"} \cup TerminalOutcomes
Policies == {"follow", "paused", "detached", "closed"}
TicketStatuses == {"todo", "in-progress", "done", "blocked"}
Owners == {"source", "human"}

HumanText == "human text"
Unassigned == "unassigned"
Texts == EventIds \cup {HumanText}     \* an event's text stands for its summary
ProjectRefs == Projects \cup Reviews \cup {Unassigned}
HumanProjects == Projects \cup {Unassigned}

Message == [id : EventIds, key : Assignments, seq : Nat \ {0}, kind : EventKinds,
            reported : OpenStates \cup {None}, evidence : TerminalOutcomes \cup {None},
            project : ProjectRefs, target : Tickets \cup {None}]

AssignmentRow ==
  [ticket : Tickets, last : Nat \ {0}, lastEvent : EventIds, state : ReportedStates,
   terminal : TerminalOutcomes \cup {None}, policy : Policies,
   summary : Texts, summaryOwner : Owners, project : ProjectRefs, projectOwner : Owners,
   version : Nat \ {0}]

TicketRow == [status : TicketStatuses, activity : ReportedStates \cup {None},
              title : Texts, project : ProjectRefs]

ReviewRow == [state : {"none", "pending", "resolved", "dismissed"},
              key : Assignments \cup {None}]

Override == [summary : {HumanText, None}, project : HumanProjects \cup {None},
             policy : Policies \cup {None}]

ASSUME ConstantTypes ==
  /\ IntegrationOf \in [Assignments -> Integrations]
  /\ DefaultTicket \in [Assignments -> Tickets]
  /\ ReviewIntegration \in [Reviews -> Integrations]
  /\ Messages \subseteq Message
  /\ IsFiniteSet(Messages)
  /\ Overrides \subseteq Override
  /\ Edits \subseteq TicketRow
  /\ ForeignStatuses \subseteq TicketStatuses
  /\ AssignmentPendingLimit \in Nat
  /\ TotalPendingLimit \in Nat
  /\ RetainedEvents \in Nat \ {0}
  /\ MaxVersion \in Nat

ASSUME NoneIsNoValue ==
  /\ None \notin ReportedStates
  /\ None \notin AssignmentRow
  /\ None \notin TicketRow
  /\ None \notin Tickets
  /\ None \notin Assignments
  /\ None \notin Policies
  /\ None \notin HumanProjects
  /\ None # HumanText

ASSUME TokensAreNotProjects == Reviews \cap HumanProjects = {}

ASSUME HumanTextIsNoEvent == HumanText \notin EventIds

-----------------------------------------------------------------------------
Known(a) == assignments[a] # None
Stored == applied \cup pending
PendingOf(a) == {p \in pending : p.key = a}
\* Mutant: only the events of assignments that still run are spared.
LastEventsOfOpen ==
  {assignments[a].lastEvent : a \in {b \in Assignments : Known(b) /\ assignments[b].terminal = None}}
LastEvents == {assignments[a].lastEvent : a \in {b \in Assignments : Known(b)}}
Active(i) == integrations[i].enabled /\ integrations[i].configured

\* assertTerminalEvidence: a terminal kind with its own evidence, or neither.
WellFormed(m) ==
  IF m.kind \in TerminalOutcomes THEN m.evidence = m.kind ELSE m.evidence = None

\* A heartbeat or a snapshot that reports no state leaves the state alone.
NamesState(m) == m.kind \notin {"heartbeat", "snapshot"} \/ m.reported # None

\* Mutant: 'accepted' is taken for a state.
StateIsKind(m) == IF m.kind \in {"heartbeat", "snapshot"} THEN m.reported ELSE m.kind

StateNamedBy(m) ==
  IF m.kind = "accepted" THEN "waiting"
  ELSE IF m.kind \in {"started", "resumed"} THEN "active"
  ELSE IF m.kind \in {"heartbeat", "snapshot"} THEN m.reported ELSE m.kind

NextReportedState(m, current) == IF NamesState(m) THEN StateNamedBy(m) ELSE current

CompatibleTicketStatus(state) ==
  IF state = "completed" THEN "done"
  ELSE IF state \in {"blocked", "needs-action", "failed", "cancelled"} THEN "blocked"
  ELSE "in-progress"

\* ProjectAssociationService.resolve, which runs before the duplicate check.
ProjectAccepted(m) ==
  m.project \in Reviews => /\ reviews[m.project].state = "pending"
                           /\ ReviewIntegration[m.project] = IntegrationOf[m.key]
TargetAccepted(m) == m.target # None => tickets[m.target] # None

\* The row under the UNIQUE(assignment_key, sequence) constraint.
SameSlot(m) == {e \in Stored : e.key = m.key /\ e.seq = m.seq}

QueueFull(m) == \/ Cardinality(PendingOf(m.key)) >= AssignmentPendingLimit
                \/ Cardinality(pending) >= TotalPendingLimit

\* Mutant: only a contradicting terminal event is refused.
LateEventsApply(m, row) ==
  IF m.evidence = row.terminal THEN "DUPLICATE"
  ELSE IF m.evidence # None THEN "TERMINAL_CONFLICT" ELSE "APPLY"

\* An event for an assignment that has its outcome already.
AfterTerminal(m, row) ==
  IF m.evidence = row.terminal THEN "DUPLICATE"
  ELSE IF m.evidence # None THEN "TERMINAL_CONFLICT" ELSE "TERMINAL_ASSIGNMENT"

\* What the transaction decides about a parsed event, in the order it decides.
Verdict(m) ==
  LET row == assignments[m.key]
      expected == row.last + 1
  IN IF ~(ProjectAccepted(m) /\ TargetAccepted(m)) THEN "ASSOCIATION_REFUSED"
     ELSE IF \E e \in Stored : e.id = m.id THEN "DUPLICATE"
     ELSE IF ~Active(IntegrationOf[m.key]) THEN "NOT_ENABLED"
     ELSE IF ~Known(m.key) THEN IF m.seq = 1 THEN "CREATE" ELSE "FIRST_SEQUENCE_REQUIRED"
     ELSE IF row.policy = "closed" THEN "SOURCE_CLOSED"
     ELSE IF row.terminal # None THEN AfterTerminal(m, row)
     ELSE IF m.seq < expected
          THEN IF SameSlot(m) # {} THEN "SEQUENCE_CONFLICT" ELSE "REPLAY"
     ELSE IF m.seq = expected THEN "APPLY"
     ELSE IF SameSlot(m) # {} THEN "SEQUENCE_CONFLICT"
     ELSE IF QueueFull(m) THEN "PENDING_LIMIT" ELSE "HOLD"

\* syncTicket: the fields of the ticket an assignment row dictates.
TicketOf(row) == [status |-> CompatibleTicketStatus(row.state), activity |-> row.state,
                  title |-> row.summary, project |-> row.project]

-----------------------------------------------------------------------------
(* Events of the reporters.                                                *)

TicketFor(m) == IF m.target = None THEN DefaultTicket[m.key] ELSE m.target

FirstRow(m) ==
  [ticket |-> TicketFor(m), last |-> 1, lastEvent |-> m.id,
   state |-> NextReportedState(m, "active"), terminal |-> m.evidence,
   policy |-> "follow", version |-> 1, summary |-> m.id, summaryOwner |-> "source",
   project |-> m.project, projectOwner |-> "source"]

\* createFirst: sequence 1 of an unknown assignment creates the row, and the
\* ticket when there is none; it adopts a ticket the event targets, and binds
\* the project review the event carries.
CreateFirst(m) ==
  /\ WellFormed(m) /\ Verdict(m) = "CREATE"
  /\ assignments' = [assignments EXCEPT ![m.key] = FirstRow(m)]
  /\ tickets' = IF tickets[TicketFor(m)] = None \/ TicketFor(m) # DefaultTicket[m.key]
                THEN [tickets EXCEPT ![TicketFor(m)] = TicketOf(FirstRow(m))] ELSE tickets
  /\ reviews' = IF m.project \in Reviews
                THEN [reviews EXCEPT ![m.project].key = m.key] ELSE reviews
  /\ applied' = applied \cup {m}
  /\ UNCHANGED <<pending, integrations>>

\* An early event is kept as 'pending-gap' and changes nothing else.
Hold(m) ==
  /\ WellFormed(m) /\ Verdict(m) = "HOLD"
  /\ pending' = pending \cup {m}
  /\ UNCHANGED <<integrations, assignments, applied, tickets, reviews>>

\* Mutant: held events are applied over a gap.
DrainsOverGaps(m) ==
  {p \in PendingOf(m.key) : m.evidence = None /\ p.seq > m.seq
                              /\ \A q \in PendingOf(m.key) : q.seq < p.seq => q.evidence = None}

\* The held events the drain loop applies after m: those that follow m without
\* a gap, up to and including the first terminal one.
Drained(m) ==
  {p \in PendingOf(m.key) :
     p.seq > m.seq /\ \A k \in m.seq..(p.seq - 1) :
       \E q \in PendingOf(m.key) \cup {m} : q.seq = k /\ q.evidence = None}

\* applyProjection, once for m and once for every drained event.  f is the last
\* of them and s the state the run of them leaves.
Projection(row, m, f, s) ==
  [ticket |-> row.ticket, last |-> f.seq, lastEvent |-> f.id, state |-> s, terminal |-> f.evidence,
   policy |-> row.policy, version |-> row.version + (f.seq - m.seq + 1),
   summary |-> IF row.summaryOwner = "human" THEN row.summary ELSE f.id,
   summaryOwner |-> row.summaryOwner,
   project |-> IF row.projectOwner = "human" THEN row.project ELSE f.project,
   projectOwner |-> row.projectOwner]

\* Mutant: a paused assignment moves its ticket.
MovesTicketUnlessDetached(row) == row.policy # "detached"
MovesTicket(row) == row.policy = "follow"

ApplyRun(m, f, s) ==
  LET row == assignments[m.key]
      updated == Projection(row, m, f, s)
  IN /\ assignments' = [assignments EXCEPT ![m.key] = updated]
     /\ tickets' = IF MovesTicket(row)
                   THEN [tickets EXCEPT ![row.ticket] = TicketOf(updated)] ELSE tickets

Apply(m) ==
  LET run == Drained(m) \cup {m}
      naming == {q \in run : NamesState(q)}
  IN /\ WellFormed(m) /\ Verdict(m) = "APPLY"
     /\ \E f \in run : \E s \in ReportedStates :
          /\ \A q \in run : q.seq <= f.seq
          /\ \/ naming = {} /\ s = assignments[m.key].state
             \/ \E g \in naming : /\ s = StateNamedBy(g)
                                  /\ \A q \in naming : q.seq <= g.seq
          /\ ApplyRun(m, f, s)
     /\ applied' = applied \cup run
     /\ pending' = pending \ run
     /\ UNCHANGED <<integrations, reviews>>

-----------------------------------------------------------------------------
(* The person at the browser.                                              *)

\* The change of policy that brings the ticket back to the source's state.
Resumes(row, input) == input.policy = "follow" /\ row.policy # "follow"

PolicyAfter(row, input) == IF input.policy = None THEN row.policy ELSE input.policy
Closes(row, input) == PolicyAfter(row, input) = "closed"

\* The row after a person's change; the fields that are None are left alone.
Overridden(row, input) ==
  [ticket |-> row.ticket, last |-> row.last, lastEvent |-> row.lastEvent,
   state |-> IF Closes(row, input) THEN "completed" ELSE row.state,
   terminal |-> IF Closes(row, input) THEN "completed" ELSE row.terminal,
   policy |-> PolicyAfter(row, input),
   version |-> row.version + 1,
   summary |-> IF input.summary = None THEN row.summary ELSE input.summary,
   summaryOwner |-> IF input.summary = None THEN row.summaryOwner ELSE "human",
   project |-> IF input.project = None THEN row.project ELSE input.project,
   projectOwner |-> IF input.project = None THEN row.projectOwner ELSE "human"]

\* Mutant: following the source again leaves the ticket where it was.
TicketLeftBehind(ticket, row, input) ==
  [title |-> IF input.summary = None THEN ticket.title ELSE input.summary,
   project |-> IF input.project = None THEN ticket.project ELSE input.project,
   activity |-> IF Closes(row, input) THEN "completed" ELSE ticket.activity,
   status |-> IF Closes(row, input) THEN "done" ELSE ticket.status]

\* Its ticket: the summary and the project if they were given, the state when
\* the assignment is closed or follows its source again.
OverriddenTicket(ticket, row, input) ==
  LET updated == Overridden(row, input)
      moves == Closes(row, input) \/ Resumes(row, input)
  IN [title |-> IF input.summary = None THEN ticket.title ELSE updated.summary,
      project |-> IF input.project = None THEN ticket.project ELSE updated.project,
      activity |-> IF moves THEN updated.state ELSE ticket.activity,
      status |-> IF moves THEN CompatibleTicketStatus(updated.state) ELSE ticket.status]

\* updateHumanOverride, with the expectedVersion the browser read.
UpdateHumanOverride(a, input, expectedVersion) ==
  LET row == assignments[a]
  IN /\ Known(a) /\ row.version = expectedVersion
     /\ tickets[row.ticket] # None
     /\ assignments' = [assignments EXCEPT ![a] = Overridden(row, input)]
     /\ tickets' = [tickets EXCEPT ![row.ticket] = OverriddenTicket(@, row, input)]

HumanOverride(a, input, expectedVersion) ==
  /\ expectedVersion <= MaxVersion
  /\ UpdateHumanOverride(a, input, expectedVersion)
  /\ UNCHANGED <<integrations, applied, pending, reviews>>

\* getAssignment JOINs on last_event_id: without that row there is no assignment.
Visible(a) == Known(a) /\ \E e \in Stored : e.id = assignments[a].lastEvent

\* resolveReview first overrides the bound assignment's project, in a
\* transaction of its own ...
ReviewedProject(r, project) ==
  LET a == reviews[r].key
      input == [summary |-> None, policy |-> None, project |-> project]
  IN IF a = None THEN UNCHANGED <<assignments, tickets>>
     ELSE /\ Visible(a) /\ assignments[a].version <= MaxVersion
          /\ UpdateHumanOverride(a, input, assignments[a].version)

\* ... and then closes the review.
ResolveReview(r, project) ==
  /\ reviews[r].state = "pending"
  /\ ReviewedProject(r, project)
  /\ reviews' = [reviews EXCEPT ![r].state =
                   IF project = Unassigned THEN "dismissed" ELSE "resolved"]
  /\ UNCHANGED <<integrations, applied, pending>>

\* Mutant: the review is closed before the assignment is changed.
ReviewClosedFirst(r, project) ==
  /\ reviews[r].state = "pending" /\ reviews[r].key # None /\ project \in HumanProjects
  /\ reviews' = [reviews EXCEPT ![r].state = "resolved"]
  /\ UNCHANGED <<integrations, assignments, applied, pending, tickets>>

\* The companion dies between the two.
ResolveReviewInterrupted(r, project) ==
  /\ reviews[r].state = "pending" /\ reviews[r].key # None
  /\ ReviewedProject(r, project)
  /\ UNCHANGED <<integrations, applied, pending, reviews>>

-----------------------------------------------------------------------------
(* The services that share the tables.                                     *)

\* registerIntegration, and the switches of the management service.
RegisterIntegration(i, enabled, configured) ==
  /\ integrations' = [integrations EXCEPT ![i] =
                        [enabled |-> enabled, configured |-> configured]]
  /\ UNCHANGED <<assignments, applied, pending, tickets, reviews>>

\* createReview: resolveContext found no single approved folder.
CreateReview(r) ==
  /\ reviews[r].state = "none" /\ Active(ReviewIntegration[r])
  /\ reviews' = [reviews EXCEPT ![r].state = "pending"]
  /\ UNCHANGED <<integrations, assignments, applied, pending, tickets>>

\* RetentionService.prune keeps the newest applied events and every assignment's
\* last event.  Events received in one millisecond are ordered by their random
\* id: any newest set may be the one kept.
Prune ==
  /\ Cardinality(applied) > RetainedEvents
  /\ \E newest \in SUBSET applied :
       /\ Cardinality(newest) = RetainedEvents
       /\ applied' = {e \in applied : e \in newest \/ e.id \in LastEvents}
  /\ UNCHANGED <<integrations, assignments, pending, tickets, reviews>>

\* clearHistory spares assignments that wait for a project review.
ClearHistory(i) ==
  LET underReview == {reviews[r].key : r \in {x \in Reviews : reviews[x].state = "pending"}}
  IN /\ applied' = {e \in applied : \/ IntegrationOf[e.key] # i
                                    \/ e.id \in LastEvents
                                    \/ e.key \in underReview}
     /\ UNCHANGED <<integrations, assignments, pending, tickets, reviews>>

\* Reconciliation and data import add tickets of any status ...
AddTicket(t, status) ==
  /\ tickets[t] = None
  /\ tickets' = [tickets EXCEPT ![t] = [status |-> status, activity |-> None,
                                        title |-> HumanText, project |-> Unassigned]]
  /\ UNCHANGED <<integrations, assignments, applied, pending, reviews>>

\* ... and reconciliation moves the tickets it created, never an agent's own.
ReconcileTicket(t, status) ==
  /\ tickets[t] # None /\ \A a \in Assignments : DefaultTicket[a] # t
  /\ tickets' = [tickets EXCEPT ![t].status = status, ![t].title = HumanText]
  /\ UNCHANGED <<integrations, assignments, applied, pending, reviews>>

\* PATCH /api/v1/tickets/:id writes the whole ticket a person sends, whoever it belongs to, when
\* its updatedAt is the stored one.  (Another change of the same millisecond passes as well, so
\* it may be any ticket.)
EditTicket(t, copy) ==
  /\ tickets[t] # None
  /\ tickets' = [tickets EXCEPT ![t] = copy]
  /\ UNCHANGED <<integrations, assignments, applied, pending, reviews>>

\* DELETE /api/v1/tickets/:id, which the foreign key of agent_assignments refuses for the ticket
\* of an assignment.
RemoveTicket(t) ==
  /\ tickets[t] # None /\ \A a \in Assignments : Known(a) => assignments[a].ticket # t
  /\ tickets' = [tickets EXCEPT ![t] = None]
  /\ UNCHANGED <<integrations, assignments, applied, pending, reviews>>

-----------------------------------------------------------------------------
Init ==
  /\ integrations = [i \in Integrations |-> [enabled |-> FALSE, configured |-> FALSE]]
  /\ assignments = [a \in Assignments |-> None]
  /\ applied = {}
  /\ pending = {}
  /\ tickets = [t \in Tickets |-> None]
  /\ reviews = [r \in Reviews |-> [state |-> "none", key |-> None]]

Next ==
  \/ \E m \in Messages : CreateFirst(m)
  \/ \E m \in Messages : Hold(m)
  \/ \E m \in Messages : Apply(m)
  \/ \E a \in Assignments, input \in Overrides, v \in 1..MaxVersion : HumanOverride(a, input, v)
  \/ \E r \in Reviews, p \in HumanProjects : ResolveReview(r, p)
  \/ \E r \in Reviews, p \in HumanProjects : ResolveReviewInterrupted(r, p)
  \/ \E i \in Integrations, enabled, configured \in BOOLEAN :
       RegisterIntegration(i, enabled, configured)
  \/ \E r \in Reviews : CreateReview(r)
  \/ Prune
  \/ \E i \in Integrations : ClearHistory(i)
  \/ \E t \in Tickets, s \in ForeignStatuses : AddTicket(t, s)
  \/ \E t \in Tickets, s \in ForeignStatuses : ReconcileTicket(t, s)
  \/ \E t \in Tickets, copy \in Edits : EditTicket(t, copy)
  \/ \E t \in Tickets : RemoveTicket(t)

Spec == Init /\ [][Next]_vars

-----------------------------------------------------------------------------
\* The store as a reader of the assignments sees it.
LastApplied == [a \in Assignments |-> IF Known(a) THEN assignments[a].last ELSE 0]
Outcome == [a \in Assignments |-> IF Known(a) THEN assignments[a].terminal ELSE None]

Ledger == INSTANCE AssignmentLedger WITH
  Outcomes <- TerminalOutcomes, last <- LastApplied, outcome <- Outcome

\* Through retransmissions, gaps, drains, overrides and deletions, each assignment
\* advances from its event 1 in steps that never go back, until its outcome, which
\* only a person's closing replaces: the store implements AssignmentLedger.
ImplementsLedger == Ledger!Spec

-----------------------------------------------------------------------------
(* What the rows are.                                                      *)
TypeOK ==
  /\ integrations \in [Integrations -> [enabled : BOOLEAN, configured : BOOLEAN]]
  /\ assignments \in [Assignments -> AssignmentRow \cup {None}]
  /\ applied \subseteq Messages
  /\ pending \subseteq Messages
  /\ tickets \in [Tickets -> TicketRow \cup {None}]
  /\ reviews \in [Reviews -> ReviewRow]

\* No insert of an event can meet a row with its id or with its assignment and
\* sequence: the PRIMARY KEY and UNIQUE constraints of agent_assignment_events
\* never abort an ingestion.
UniqueEvents ==
  /\ applied \cap pending = {}
  /\ \A d, e \in Stored : d.id = e.id \/ (d.key = e.key /\ d.seq = e.seq) => d = e

\* Applied events lie at or below last_applied_sequence, held ones above it, and
\* an open assignment never leaves its next event waiting in 'pending-gap':
\* the drain loop stops only at a gap or at a terminal event.
GapFree ==
  /\ \A e \in applied : Known(e.key) /\ e.seq <= assignments[e.key].last
  /\ \A p \in pending :
       /\ Known(p.key) /\ p.seq > assignments[p.key].last
       /\ assignments[p.key].terminal = None => p.seq # assignments[p.key].last + 1

\* Neither pruning nor clearing deletes the event an assignment row points to,
\* without which getAssignment, the list and every override would lose the row.
LastEventRetained ==
  \A a \in Assignments : Known(a) =>
    \E e \in applied : /\ e.id = assignments[a].lastEvent
                       /\ e.key = a /\ e.seq = assignments[a].last

\* The queue of held events stays within its limits, per assignment and in all.
PendingBounded ==
  /\ \A a \in Assignments : Cardinality(PendingOf(a)) <= AssignmentPendingLimit
  /\ Cardinality(pending) <= TotalPendingLimit

\* A row is terminal in its reported state exactly when it has a terminal
\* outcome, and they agree; a closed assignment is completed.
TerminalAgrees ==
  \A a \in Assignments : Known(a) =>
    LET row == assignments[a]
    IN /\ IF row.terminal = None THEN row.state \in OpenStates ELSE row.state = row.terminal
       /\ row.policy = "closed" => row.terminal = "completed"

\* A terminal event ends its assignment: it is the last one applied, whatever was
\* held behind it when the drain loop reached it, and nothing reopens the row.
TerminalEventIsLast ==
  \A e \in applied : e.evidence # None =>
    e.seq = assignments[e.key].last /\ assignments[e.key].terminal # None

\* The assignment is the only one on its ticket, and no other source moves it.
OwnsTicket(a) ==
  /\ Known(a) /\ assignments[a].ticket = DefaultTicket[a]
  /\ \A b \in Assignments \ {a} : Known(b) => assignments[b].ticket # DefaultTicket[a]

\* What a person wrote over the source's summary or project stays on the row through every later
\* event, and the row's ticket exists: no event can meet ACTIVITY_TICKET_MISSING.
RowsKeepChoices ==
  \A a \in Assignments : Known(a) =>
    /\ tickets[assignments[a].ticket] # None
    /\ assignments[a].summaryOwner = "human" => assignments[a].summary = HumanText
    /\ assignments[a].projectOwner = "human" => assignments[a].project \in HumanProjects

\* What the default ticket of an assignment says truly: its state while it follows its source or
\* is closed, and what a person wrote over its summary and project.
SaysState(a) ==
  assignments[a].policy \in {"follow", "closed"} =>
    /\ tickets[DefaultTicket[a]].status = CompatibleTicketStatus(assignments[a].state)
    /\ tickets[DefaultTicket[a]].activity = assignments[a].state
SaysSummary(a) ==
  assignments[a].summaryOwner = "human" => tickets[DefaultTicket[a]].title = assignments[a].summary
SaysProject(a) ==
  assignments[a].projectOwner = "human" => tickets[DefaultTicket[a]].project = assignments[a].project

\* A project review is closed only after its assignment carries the decision,
\* also when the companion dies halfway.
DecisionBeforeClosing ==
  \A r \in Reviews :
    /\ reviews[r].state \in {"resolved", "dismissed"}
    /\ reviews[r].key # None
    => assignments[reviews[r].key].projectOwner = "human"

\* A closed review leaves no assignment waiting for it: "Project association
\* approved." or "Assignment remains Unassigned.", says management-service.ts:250.
NoAssignmentAwaitsClosedReview ==
  \A a \in Assignments :
    Known(a) /\ assignments[a].project \in Reviews =>
      reviews[assignments[a].project].state = "pending"

-----------------------------------------------------------------------------
(* What a step may do.                                                     *)

\* The events an assignment takes in a step are those of the next sequence
\* numbers, each exactly once: none is skipped, repeated or applied early.
AppliesInSequence ==
  [][\A a \in Assignments : Known(a) =>
       {e.seq : e \in {x \in applied' \ applied : x.key = a}}
         = (assignments[a].last + 1)..assignments'[a].last]_vars

\* A terminal assignment takes no further event, and only a person closing it
\* may change its outcome.
TerminalIsFinal ==
  [][\A a \in Assignments : Known(a) /\ assignments[a].terminal # None =>
       /\ assignments'[a].last = assignments[a].last
       /\ \/ assignments'[a].terminal = assignments[a].terminal
          \/ assignments'[a].policy = "closed" /\ assignments'[a].terminal = "completed"]_vars

\* Every change of an assignment row raises record_version: two reads of the
\* same version are reads of the same row, so an override that passes the
\* version check overwrites nothing its author has not seen.
VersionTellsRows ==
  [][\A a \in Assignments : Known(a) /\ assignments'[a] # assignments[a] =>
       assignments'[a] # None /\ assignments'[a].version > assignments[a].version]_vars

\* The events of a paused or detached assignment move no ticket.
PausedTicketsRest ==
  [][\A a \in Assignments :
       /\ Known(a) /\ assignments[a].policy \in {"paused", "detached"}
       /\ assignments'[a].last # assignments[a].last
       => tickets' = tickets]_vars

\* An event that was accepted into the gap queue is kept until it is applied:
\* clearing history "preserves ... pending gap/review evidence"
\* (docs/data-privacy.md:25), and so does pruning.
HeldEventsKept == [][pending \subseteq (applied \cup pending)']_vars

\* A following assignment takes an event in this step.
Hears(a) == assignments'[a].policy = "follow" /\ assignments'[a].last # assignments[a].last
IsEdited(t) == \E copy \in Edits : EditTicket(t, copy)

\* Only a person who edits the ticket itself makes it say what is not so: every other step of
\* anyone leaves what is true on it true, a new ticket starts that way, each event that is heard
\* makes all of it true again, and so does a change of policy with the state.  (Creation adopts a
\* default ticket that is there already as it is.)
TicketsStayTrue ==
  \A a \in Assignments :
    /\ OwnsTicket(a) /\ OwnsTicket(a)' /\ ~IsEdited(DefaultTicket[a]) =>
         /\ SaysState(a) \/ Hears(a) \/ assignments'[a].policy # assignments[a].policy => SaysState(a)'
         /\ SaysSummary(a) \/ Hears(a) => SaysSummary(a)'
         /\ SaysProject(a) \/ Hears(a) => SaysProject(a)'
    /\ ~Known(a) /\ tickets[DefaultTicket[a]] = None /\ OwnsTicket(a)' =>
         (SaysState(a) /\ SaysSummary(a) /\ SaysProject(a))'

-----------------------------------------------------------------------------
(* What the runs check together.                                           *)

\* The rows of a store agree: events are unique, without a gap below the last one and
\* nothing after a terminal one, the row's own event is kept, the queue within its limits.
StoreAgrees ==
  UniqueEvents /\ GapFree /\ LastEventRetained /\ PendingBounded /\ TerminalEventIsLast

\* No step skips or repeats an event, reopens an assignment or drops a held event.
StepsKeepOrder == AppliesInSequence /\ TerminalIsFinal /\ HeldEventsKept

\* What a reader sees on a ticket is what its assignment, or the person, last said.
TicketsAreTruthful == []RowsKeepChoices /\ [][TicketsStayTrue]_vars

\* No step changes a row behind the back of a version check, or the ticket of an assignment
\* at rest.
StepsRespectPeople == VersionTellsRows /\ PausedTicketsRest
=============================================================================
