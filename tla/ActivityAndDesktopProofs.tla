---------------------- MODULE ActivityAndDesktopProofs ----------------------
(***************************************************************************)
(* Theorems about AgentActivity, the store the companion keeps, and about  *)
(* DesktopLifecycle, the desktop program around the companion, for every   *)
(* value of their constants.  The two share no state.                      *)
(*                                                                         *)
(* The safety invariants of the store are not inductive one by one: that a *)
(* drained run ends the gap, for instance, rests on held events lying      *)
(* above the last applied one, and that no insert meets a row with its     *)
(* sequence rests on both.  Consistent joins them and adds that every      *)
(* stored event has been parsed.  What the tickets show rests on the rows: *)
(* Truthful joins Consistent, the reviews a person has to decide and,      *)
(* ticket by ticket, that the ticket shows its row or what a person wrote. *)
(*                                                                         *)
(* The desktop's controller is described once per operation (HostFits), so *)
(* that a caller may join an operation it did not ask for; what            *)
(* quitAndInstall will install is fixed while an update is ready           *)
(* (UpdateFits), as no download begins then.                               *)
(***************************************************************************)
EXTENDS AgentActivity, DesktopLifecycle, FiniteSetTheorems, TLAPS

-----------------------------------------------------------------------------
(* The store.                                                              *)

\* Only parsed events are stored.
StoredWellFormed == \A e \in Stored : WellFormed(e)

\* The inductive invariant.
Consistent ==
  /\ TypeOK
  /\ StoredWellFormed
  /\ UniqueEvents
  /\ GapFree
  /\ LastEventRetained
  /\ TerminalAgrees
  /\ TerminalEventIsLast

-----------------------------------------------------------------------------
(* Operators.                                                              *)

\* The state an event names is one a row may have.
LEMMA NamedStateType ==
  ASSUME NEW m \in Message, NamesState(m)
  PROVE  StateNamedBy(m) \in ReportedStates
  BY DEF Message, NamesState, StateNamedBy, ReportedStates, OpenStates, TerminalOutcomes, EventKinds

\* A parsed event that is not terminal names an open state, a terminal one its outcome.
LEMMA NamedStateEvidence ==
  ASSUME NEW m \in Message, WellFormed(m), NamesState(m)
  PROVE  IF m.evidence = None THEN StateNamedBy(m) \in OpenStates ELSE StateNamedBy(m) = m.evidence
  BY NoneIsNoValue
  DEF Message, WellFormed, NamesState, StateNamedBy, ReportedStates, OpenStates, TerminalOutcomes, EventKinds

\* A parsed event with evidence names its state.
LEMMA EvidenceNamesState ==
  ASSUME NEW m \in Message, WellFormed(m), m.evidence # None
  PROVE  NamesState(m)
  BY DEF Message, WellFormed, NamesState, TerminalOutcomes

\* The ticket an assignment row dictates is a ticket row.
LEMMA TicketOfType ==
  ASSUME NEW row \in AssignmentRow
  PROVE  TicketOf(row) \in TicketRow
  BY DEF AssignmentRow, TicketOf, TicketRow, CompatibleTicketStatus, TicketStatuses

\* An event that creates an assignment is the first of an unknown one and new.
LEMMA CreateVerdict ==
  ASSUME NEW m, Verdict(m) = "CREATE"
  PROVE  ~Known(m.key) /\ m.seq = 1 /\ \A e \in Stored : e.id # m.id
  BY DEF Verdict, AfterTerminal

\* An event that is applied is new, and the next one of an open assignment.
LEMMA ApplyVerdict ==
  ASSUME NEW m, Verdict(m) = "APPLY"
  PROVE  /\ Known(m.key)
         /\ assignments[m.key].policy # "closed"
         /\ assignments[m.key].terminal = None
         /\ m.seq = assignments[m.key].last + 1
         /\ \A e \in Stored : e.id # m.id
  BY DEF Verdict, AfterTerminal

\* An event that is held is new, lies beyond the next one, and finds room.
LEMMA HoldVerdict ==
  ASSUME NEW m, Verdict(m) = "HOLD"
  PROVE  /\ Known(m.key)
         /\ assignments[m.key].terminal = None
         /\ ~(m.seq < assignments[m.key].last + 1)
         /\ m.seq # assignments[m.key].last + 1
         /\ SameSlot(m) = {}
         /\ ~QueueFull(m)
         /\ \A e \in Stored : e.id # m.id
  BY DEF Verdict, AfterTerminal
-----------------------------------------------------------------------------
(* The rows keep their types.                                              *)

\* The row of a new assignment.
LEMMA FirstRowType ==
  ASSUME NEW m \in Message
  PROVE  FirstRow(m) \in AssignmentRow /\ TicketFor(m) \in Tickets
  <1>1. NextReportedState(m, "active") \in ReportedStates
    BY NamedStateType DEF NextReportedState, ReportedStates, OpenStates
  <1>2. TicketFor(m) \in Tickets
    BY ConstantTypes DEF Message, TicketFor
  <1> QED  BY <1>1, <1>2 DEF Message, FirstRow, AssignmentRow, Policies, Owners, Texts

\* A drained run consists of messages that were held, and of m itself.
LEMMA DrainedType ==
  ASSUME TypeOK, NEW m \in Messages
  PROVE  /\ Drained(m) \subseteq pending
         /\ Drained(m) \cup {m} \subseteq Messages
         /\ \A q \in Drained(m) \cup {m} : q \in Message /\ q.key = m.key /\ q.seq >= m.seq
  <1>1. Drained(m) \subseteq {p \in pending : p.key = m.key /\ p.seq > m.seq}
    BY DEF Drained, PendingOf
  <1>2. Messages \subseteq Message
    BY ConstantTypes
  <1> QED  BY <1>1, <1>2 DEF TypeOK, Message

\* The row an applied run leaves.
LEMMA ProjectionType ==
  ASSUME NEW row \in AssignmentRow, NEW m \in Message, NEW f \in Message, f.seq >= m.seq,
         NEW s \in ReportedStates
  PROVE  /\ Projection(row, m, f, s) \in AssignmentRow
         /\ Projection(row, m, f, s).last = f.seq
         /\ Projection(row, m, f, s).lastEvent = f.id
         /\ Projection(row, m, f, s).state = s
         /\ Projection(row, m, f, s).terminal = f.evidence
         /\ Projection(row, m, f, s).policy = row.policy
         /\ Projection(row, m, f, s).ticket = row.ticket
         /\ Projection(row, m, f, s).version > row.version
  BY DEF Projection, AssignmentRow, Message, Texts

\* What Apply does, without its choice of run and state.
LEMMA ApplySteps ==
  ASSUME TypeOK, NEW m \in Messages, Apply(m)
  PROVE  \E f \in Drained(m) \cup {m}, s \in ReportedStates :
           /\ f \in Message
           /\ \A q \in Drained(m) \cup {m} : q.seq <= f.seq
           /\ Projection(assignments[m.key], m, f, s) \in AssignmentRow
           /\ assignments' = [assignments EXCEPT ![m.key] = Projection(assignments[m.key], m, f, s)]
           /\ tickets' = IF assignments[m.key].policy = "follow"
                         THEN [tickets EXCEPT ![assignments[m.key].ticket] =
                                 TicketOf(Projection(assignments[m.key], m, f, s))]
                         ELSE tickets
           /\ \/ s = assignments[m.key].state
                 /\ \A q \in Drained(m) \cup {m} : ~NamesState(q)
              \/ \E g \in Drained(m) \cup {m} :
                    /\ NamesState(g) /\ s = StateNamedBy(g)
                    /\ \A q \in Drained(m) \cup {m} : NamesState(q) => q.seq <= g.seq
  <1> DEFINE run == Drained(m) \cup {m}
             naming == {q \in run : NamesState(q)}
             row == assignments[m.key]
  <1>1. PICK f \in run, s \in ReportedStates :
          /\ \A q \in run : q.seq <= f.seq
          /\ \/ naming = {} /\ s = row.state
             \/ \E g \in naming : s = StateNamedBy(g) /\ \A q \in naming : q.seq <= g.seq
          /\ ApplyRun(m, f, s)
    BY DEF Apply
  <1>2. row \in AssignmentRow
    <2>1. Known(m.key)
      BY ApplyVerdict DEF Apply
    <2>2. m \in Message
      BY ConstantTypes
    <2> QED  BY <2>1, <2>2 DEF Known, TypeOK, Message
  <1>3. f \in Message /\ f.seq >= m.seq
    BY DrainedType
  <1>4. Projection(row, m, f, s) \in AssignmentRow
    BY <1>2, <1>3, ProjectionType, ConstantTypes
  <1> QED  BY <1>1, <1>3, <1>4 DEF ApplyRun, MovesTicket

\* The row and the ticket a person's change leaves.
LEMMA OverriddenType ==
  ASSUME NEW row \in AssignmentRow, NEW ticket \in TicketRow, NEW input \in Override
  PROVE  /\ Overridden(row, input) \in AssignmentRow
         /\ OverriddenTicket(ticket, row, input) \in TicketRow
  <1>1. Overridden(row, input) \in AssignmentRow
    BY DEF Override, AssignmentRow, Overridden, PolicyAfter, ReportedStates, TerminalOutcomes, Owners, Texts,
           ProjectRefs, HumanProjects
  <1>2. /\ Overridden(row, input).summary \in Texts
        /\ Overridden(row, input).project \in ProjectRefs
        /\ Overridden(row, input).state \in ReportedStates
    BY <1>1 DEF AssignmentRow
  <1>3. CompatibleTicketStatus(Overridden(row, input).state) \in TicketStatuses
    BY DEF CompatibleTicketStatus, TicketStatuses
  <1>4. OverriddenTicket(ticket, row, input) \in TicketRow
    BY <1>2, <1>3 DEF OverriddenTicket, TicketRow
  <1> QED  BY <1>1, <1>4

LEMMA OverrideType ==
  ASSUME TypeOK, NEW a \in Assignments, NEW input \in Override, NEW v,
         UpdateHumanOverride(a, input, v)
  PROVE  /\ Known(a) /\ assignments[a] \in AssignmentRow
         /\ Overridden(assignments[a], input) \in AssignmentRow
         /\ assignments' = [assignments EXCEPT ![a] = Overridden(assignments[a], input)]
         /\ assignments' \in [Assignments -> AssignmentRow \cup {None}]
         /\ tickets' \in [Tickets -> TicketRow \cup {None}]
  <1> DEFINE row == assignments[a]
  <1>1. row \in AssignmentRow /\ row.ticket \in Tickets /\ tickets[row.ticket] \in TicketRow
    BY DEF UpdateHumanOverride, Known, TypeOK, AssignmentRow
  <1>2. /\ Overridden(row, input) \in AssignmentRow
        /\ OverriddenTicket(tickets[row.ticket], row, input) \in TicketRow
    BY <1>1, OverriddenType
  <1>3. /\ assignments' = [assignments EXCEPT ![a] = Overridden(row, input)]
        /\ tickets' = [tickets EXCEPT ![row.ticket] =
                         OverriddenTicket(tickets[row.ticket], row, input)]
    BY DEF UpdateHumanOverride
  <1> QED  BY <1>1, <1>2, <1>3 DEF TypeOK, UpdateHumanOverride

\* The first half of resolving a review is such a change, or none.
LEMMA ReviewedProjectType ==
  ASSUME TypeOK, NEW r \in Reviews, NEW p \in HumanProjects, ReviewedProject(r, p)
  PROVE  /\ assignments' \in [Assignments -> AssignmentRow \cup {None}]
         /\ tickets' \in [Tickets -> TicketRow \cup {None}]
  <1>1. CASE reviews[r].key = None
    BY <1>1 DEF ReviewedProject, TypeOK
  <1>2. CASE reviews[r].key # None
    <2>1. reviews[r].key \in Assignments
      BY <1>2 DEF TypeOK, ReviewRow
    <2>2. [summary |-> None, policy |-> None, project |-> p] \in Override
      BY DEF Override
    <2> QED  BY <1>2, <2>1, <2>2, OverrideType DEF ReviewedProject
  <1> QED  BY <1>1, <1>2

\* The rows keep their types through every step.
LEMMA TypePreserved ==
  ASSUME TypeOK, [Next]_vars
  PROVE  TypeOK'
  <1> USE DEF TypeOK
  <1>1. ASSUME NEW m \in Messages, CreateFirst(m)
        PROVE  TypeOK'
    <2>1. m \in Message
      BY ConstantTypes
    <2>2. FirstRow(m) \in AssignmentRow /\ TicketFor(m) \in Tickets
      BY <2>1, FirstRowType
    <2>3. TicketOf(FirstRow(m)) \in TicketRow
      BY <2>2, TicketOfType
    <2>4. reviews' \in [Reviews -> ReviewRow]
      BY <1>1, <2>1 DEF CreateFirst, ReviewRow, Message
    <2>5. /\ assignments' \in [Assignments -> AssignmentRow \cup {None}]
          /\ tickets' \in [Tickets -> TicketRow \cup {None}]
      BY <1>1, <2>2, <2>3 DEF CreateFirst
    <2> QED  BY <1>1, <2>4, <2>5 DEF CreateFirst
  <1>2. ASSUME NEW m \in Messages, Hold(m)
        PROVE  TypeOK'
    BY <1>2 DEF Hold
  <1>3. ASSUME NEW m \in Messages, Apply(m)
        PROVE  TypeOK'
    <2>1. PICK f \in Drained(m) \cup {m}, s \in ReportedStates :
            LET updated == Projection(assignments[m.key], m, f, s)
            IN /\ updated \in AssignmentRow
               /\ assignments' = [assignments EXCEPT ![m.key] = updated]
               /\ tickets' \in {tickets, [tickets EXCEPT ![assignments[m.key].ticket] = TicketOf(updated)]}
      BY <1>3, ApplySteps
    <2>2. TicketOf(Projection(assignments[m.key], m, f, s)) \in TicketRow
      BY <2>1, TicketOfType
    <2>3. applied' \subseteq Messages /\ pending' \subseteq Messages
      BY <1>3, DrainedType DEF Apply
    <2>4. assignments' \in [Assignments -> AssignmentRow \cup {None}]
      BY <2>1
    <2>5. tickets' \in [Tickets -> TicketRow \cup {None}]
      BY <2>1, <2>2
    <2> QED  BY <1>3, <2>3, <2>4, <2>5 DEF Apply
  <1>4. ASSUME NEW a \in Assignments, NEW input \in Overrides, NEW v \in 1..MaxVersion,
               HumanOverride(a, input, v)
        PROVE  TypeOK'
    <2>1. input \in Override
      BY ConstantTypes
    <2> QED  BY <1>4, <2>1, OverrideType DEF HumanOverride
  <1>5. ASSUME NEW r \in Reviews, NEW p \in HumanProjects, ResolveReview(r, p)
        PROVE  TypeOK'
    <2>1. reviews' \in [Reviews -> ReviewRow]
      BY <1>5 DEF ResolveReview, ReviewRow
    <2> QED  BY <1>5, <2>1, ReviewedProjectType DEF ResolveReview
  <1>6. ASSUME NEW r \in Reviews, NEW p \in HumanProjects, ResolveReviewInterrupted(r, p)
        PROVE  TypeOK'
    BY <1>6, ReviewedProjectType DEF ResolveReviewInterrupted
  <1>7. ASSUME NEW i \in Integrations, NEW enabled \in BOOLEAN, NEW configured \in BOOLEAN,
               RegisterIntegration(i, enabled, configured)
        PROVE  TypeOK'
    BY <1>7 DEF RegisterIntegration
  <1>8. ASSUME NEW r \in Reviews, CreateReview(r)
        PROVE  TypeOK'
    BY <1>8 DEF CreateReview, ReviewRow
  <1>9. CASE Prune
    BY <1>9 DEF Prune
  <1>10. ASSUME NEW i \in Integrations, ClearHistory(i)
         PROVE  TypeOK'
    BY <1>10 DEF ClearHistory
  <1>11. ASSUME NEW t \in Tickets, NEW s \in ForeignStatuses, AddTicket(t, s)
         PROVE  TypeOK'
    <2>1. [status |-> s, activity |-> None, title |-> HumanText, project |-> Unassigned] \in TicketRow
      BY ConstantTypes DEF TicketRow, Texts, ProjectRefs
    <2> QED  BY <1>11, <2>1 DEF AddTicket
  <1>12. ASSUME NEW t \in Tickets, NEW s \in ForeignStatuses, ReconcileTicket(t, s)
         PROVE  TypeOK'
    <2>1. tickets[t] \in TicketRow /\ s \in TicketStatuses
      BY <1>12, ConstantTypes DEF ReconcileTicket
    <2>2. [tickets[t] EXCEPT !.status = s, !.title = HumanText] \in TicketRow
      BY <2>1 DEF TicketRow, Texts
    <2>3. tickets' = [tickets EXCEPT ![t] = [tickets[t] EXCEPT !.status = s, !.title = HumanText]]
      BY <1>12, <2>1 DEF ReconcileTicket, TicketRow
    <2> QED  BY <1>12, <2>2, <2>3 DEF ReconcileTicket
  <1>13. ASSUME NEW t \in Tickets, NEW copy \in Edits, EditTicket(t, copy)
         PROVE  TypeOK'
    BY <1>13, ConstantTypes DEF EditTicket
  <1>14. ASSUME NEW t \in Tickets, RemoveTicket(t)
         PROVE  TypeOK'
    BY <1>14 DEF RemoveTicket
  <1>15. CASE UNCHANGED vars
    BY <1>15 DEF vars
  <1> QED
    BY <1>1, <1>2, <1>3, <1>4, <1>5, <1>6, <1>7, <1>8, <1>9, <1>10, <1>11, <1>12, <1>13, <1>14,
       <1>15 DEF Next

\* In every reachable state the rows have the columns' types.
THEOREM TypeCorrect == Spec => []TypeOK
  <1>1. Init => TypeOK
    BY DEF Init, TypeOK, ReviewRow
  <1>2. TypeOK /\ [Next]_vars => TypeOK'
    BY TypePreserved
  <1> QED  BY <1>1, <1>2, PTL DEF Spec
-----------------------------------------------------------------------------
(* The stored events and the rows agree.                                   *)

\* The shape of a drained run: it ends in f, only f may be terminal, and what
\* stays held lies beyond f, behind a gap unless f is terminal.
LEMMA DrainedShape ==
  ASSUME Consistent, NEW m \in Messages, WellFormed(m), Verdict(m) = "APPLY",
         NEW f \in Drained(m) \cup {m}, \A q \in Drained(m) \cup {m} : q.seq <= f.seq
  PROVE  /\ \A q \in Drained(m) \cup {m} :
              /\ q.seq = f.seq => q = f
              /\ q.evidence # None => q = f
         /\ \A p \in PendingOf(m.key) \ Drained(m) :
              /\ p.seq > f.seq
              /\ f.evidence = None => p.seq # f.seq + 1
         /\ \A k \in m.seq..f.seq : \E q \in Drained(m) \cup {m} : q.seq = k
  <1> DEFINE last == assignments[m.key].last
             held == PendingOf(m.key)
  <1> USE DEF Consistent
  <1>1. /\ m \in Message /\ m.seq \in Nat /\ m.seq = last + 1 /\ last \in Nat
        /\ assignments[m.key].terminal = None
        /\ \A p \in held : p \in Message /\ p.key = m.key /\ p.seq \in Nat
        /\ \A p \in held : p.seq > last /\ p.seq # last + 1
    BY ApplyVerdict, ConstantTypes DEF TypeOK, GapFree, Message, PendingOf, Known, AssignmentRow
  <1>2. \A p, q \in held \cup {m} : p.seq = q.seq => p = q
    BY <1>1 DEF UniqueEvents, Stored, PendingOf
  <1>3. /\ Drained(m) \subseteq held /\ f \in held \cup {m} /\ f.seq \in Nat /\ f.seq >= m.seq
        /\ \A k \in m.seq..(f.seq - 1) : \E q \in held \cup {m} : q.seq = k /\ q.evidence = None
    BY <1>1 DEF Drained
  <1>4. ASSUME NEW q \in Drained(m) \cup {m}
        PROVE  (q.seq = f.seq => q = f) /\ (q.evidence # None => q = f)
    <2>1. q \in held \cup {m} /\ q.seq \in Nat /\ q.seq <= f.seq /\ q.seq >= m.seq
      BY <1>1 DEF Drained
    <2>2. q.seq = f.seq => q = f
      BY <1>2, <1>3, <2>1
    <2>3. ASSUME q.seq # f.seq
          PROVE  q.evidence = None
      <3>1. q.seq \in m.seq..(f.seq - 1)
        BY <1>1, <1>3, <2>1, <2>3
      <3> QED  BY <1>2, <1>3, <2>1, <3>1
    <2> QED  BY <2>2, <2>3
  <1>5. ASSUME NEW p \in held, p \notin Drained(m)
        PROVE  p.seq > f.seq /\ (f.evidence = None => p.seq # f.seq + 1)
    <2>1. p.seq \in Nat /\ p.seq > m.seq
      BY <1>1
    <2>2. PICK k \in m.seq..(p.seq - 1) : ~ \E q \in held \cup {m} : q.seq = k /\ q.evidence = None
      BY <1>5, <2>1 DEF Drained
    <2>3. k \notin m.seq..(f.seq - 1)
      BY <1>3, <2>2
    <2>4. f.evidence = None => k # f.seq
      BY <1>3, <2>2
    <2> QED  BY <1>1, <1>3, <2>1, <2>2, <2>3, <2>4
  <1>6. ASSUME NEW k \in m.seq..f.seq
        PROVE  \E q \in Drained(m) \cup {m} : q.seq = k
    <2>1. CASE k = f.seq
      BY <2>1
    <2>2. CASE k # f.seq
      <3>1. PICK q \in held \cup {m} : q.seq = k /\ q.evidence = None
        BY <1>1, <1>3, <2>2
      <3>2. \A j \in m.seq..(q.seq - 1) : j \in m.seq..(f.seq - 1)
        BY <1>1, <1>3, <2>2, <3>1
      <3>3. q = m \/ q.seq > m.seq
        BY <1>1, <1>2, <3>1
      <3>4. q = m \/ q \in Drained(m)
        BY <1>3, <3>2, <3>3 DEF Drained
      <3> QED  BY <3>1, <3>4
    <2> QED  BY <2>1, <2>2
  <1> QED  BY <1>4, <1>5, <1>6

\* The state a run leaves agrees with the evidence of its last event.
LEMMA RunState ==
  ASSUME Consistent, NEW m \in Messages, WellFormed(m), Verdict(m) = "APPLY",
         NEW f \in Drained(m) \cup {m}, NEW s,
         \A q \in Drained(m) \cup {m} : q.seq <= f.seq,
         \/ s = assignments[m.key].state
            /\ \A q \in Drained(m) \cup {m} : ~NamesState(q)
         \/ \E g \in Drained(m) \cup {m} :
               /\ NamesState(g) /\ s = StateNamedBy(g)
               /\ \A q \in Drained(m) \cup {m} : NamesState(q) => q.seq <= g.seq
  PROVE  IF f.evidence = None THEN s \in OpenStates ELSE s = f.evidence
  <1> DEFINE run == Drained(m) \cup {m}
  <1>1. \A q \in run : q \in Message /\ WellFormed(q) /\ q.seq \in Nat
    BY DrainedType, ConstantTypes DEF Consistent, StoredWellFormed, Stored, Message
  <1>2. \A q \in run : (q.seq = f.seq => q = f) /\ (q.evidence # None => q = f)
    BY DrainedShape
  <1>3. CASE s = assignments[m.key].state /\ \A q \in run : ~NamesState(q)
    <2>1. f.evidence = None
      BY <1>1, <1>3, EvidenceNamesState
    <2>2. s \in OpenStates
      BY <1>3, ApplyVerdict, ConstantTypes DEF Consistent, TerminalAgrees, Message
    <2> QED  BY <2>1, <2>2
  <1>4. ASSUME NEW g \in run, NamesState(g), s = StateNamedBy(g),
               \A q \in run : NamesState(q) => q.seq <= g.seq
        PROVE  IF f.evidence = None THEN s \in OpenStates ELSE s = f.evidence
    <2>1. CASE f.evidence # None
      <3>1. f.seq <= g.seq /\ g.seq <= f.seq
        BY <1>1, <1>4, <2>1, EvidenceNamesState
      <3>2. g = f
        BY <1>1, <1>2, <3>1
      <3> QED  BY <1>1, <1>4, <2>1, <3>2, NamedStateEvidence
    <2>2. CASE f.evidence = None
      <3>1. g.evidence = None
        BY <1>2, <2>2
      <3> QED  BY <1>1, <1>4, <2>2, <3>1, NamedStateEvidence
    <2> QED  BY <2>1, <2>2
  <1> QED  BY <1>3, <1>4

\* Creating an assignment.
LEMMA CreateConsistent ==
  ASSUME Consistent, TypeOK', NEW m \in Messages, CreateFirst(m)
  PROVE  Consistent'
  <1> USE DEF Consistent
  <1>1. /\ m \in Message /\ WellFormed(m) /\ m.key \in Assignments /\ m.seq = 1
        /\ ~Known(m.key) /\ \A e \in Stored : e.id # m.id
    BY CreateVerdict, ConstantTypes DEF CreateFirst, Message
  <1> DEFINE row == FirstRow(m)
  <1>2. /\ assignments' = [assignments EXCEPT ![m.key] = row] /\ row \in AssignmentRow
        /\ row.last = 1 /\ row.lastEvent = m.id /\ row.terminal = m.evidence
        /\ row.state = NextReportedState(m, "active") /\ row.policy = "follow"
    BY <1>1, FirstRowType DEF CreateFirst, FirstRow
  <1> HIDE DEF row
  <1>3. /\ applied' = applied \cup {m} /\ pending' = pending /\ Stored' = Stored \cup {m}
        /\ assignments'[m.key] = row /\ Known(m.key)'
        /\ \A a \in Assignments \ {m.key} : assignments'[a] = assignments[a] /\ Known(a)' = Known(a)
    BY <1>1, <1>2, NoneIsNoValue DEF CreateFirst, Stored, TypeOK, Known
  <1>4. \A e \in Stored : e.key \in Assignments \ {m.key} /\ Known(e.key)
    BY <1>1, ConstantTypes DEF TypeOK, GapFree, Stored, Message
  <1>5. IF m.evidence = None THEN row.state \in OpenStates ELSE row.state = m.evidence
    BY <1>1, <1>2, NamedStateEvidence, EvidenceNamesState DEF NextReportedState, OpenStates
  <1>6. StoredWellFormed'
    BY <1>1, <1>3 DEF StoredWellFormed, WellFormed
  <1>7. UniqueEvents'
    BY <1>1, <1>3, <1>4 DEF UniqueEvents, Stored
  <1>8. GapFree'
    BY <1>1, <1>2, <1>3, <1>4 DEF GapFree, Stored
  <1>9. LastEventRetained'
    BY <1>1, <1>2, <1>3 DEF LastEventRetained
  <1>10. TerminalAgrees'
    BY <1>1, <1>2, <1>3, <1>5 DEF TerminalAgrees
  <1>11. TerminalEventIsLast'
    BY <1>1, <1>2, <1>3, <1>4 DEF TerminalEventIsLast, Stored
  <1> QED  BY <1>6, <1>7, <1>8, <1>9, <1>10, <1>11

\* Holding an early event.
LEMMA HoldConsistent ==
  ASSUME Consistent, TypeOK', NEW m \in Messages, Hold(m)
  PROVE  Consistent'
  <1> USE DEF Consistent
  <1>1. /\ m \in Message /\ WellFormed(m) /\ m.key \in Assignments /\ Known(m.key)
        /\ m.seq > assignments[m.key].last /\ m.seq # assignments[m.key].last + 1
        /\ SameSlot(m) = {} /\ \A e \in Stored : e.id # m.id
    BY HoldVerdict, ConstantTypes DEF Hold, Message, TypeOK, Known, AssignmentRow
  <1>2. /\ applied' = applied /\ pending' = pending \cup {m} /\ Stored' = Stored \cup {m}
        /\ assignments' = assignments
    BY DEF Hold, Stored
  <1>3. StoredWellFormed'
    BY <1>1, <1>2 DEF StoredWellFormed, WellFormed
  <1>4. UniqueEvents'
    BY <1>1, <1>2 DEF UniqueEvents, SameSlot, Stored
  <1>5. GapFree'
    BY <1>1, <1>2 DEF GapFree, Known
  <1>6. LastEventRetained' /\ TerminalAgrees' /\ TerminalEventIsLast'
    BY <1>2 DEF LastEventRetained, TerminalAgrees, TerminalEventIsLast, Known
  <1> QED  BY <1>3, <1>4, <1>5, <1>6

\* Applying an event and the held ones it frees.
LEMMA ApplyConsistent ==
  ASSUME Consistent, TypeOK', NEW m \in Messages, Apply(m)
  PROVE  Consistent'
  <1> USE DEF Consistent
  <1> DEFINE run == Drained(m) \cup {m}
             row == assignments[m.key]
  <1>1. PICK f \in run, s \in ReportedStates :
          /\ f \in Message
          /\ \A q \in run : q.seq <= f.seq
          /\ assignments' = [assignments EXCEPT ![m.key] = Projection(row, m, f, s)]
          /\ \/ s = row.state /\ \A q \in run : ~NamesState(q)
             \/ \E g \in run : /\ NamesState(g) /\ s = StateNamedBy(g)
                               /\ \A q \in run : NamesState(q) => q.seq <= g.seq
    BY ApplySteps
  <1>2. /\ m \in Message /\ WellFormed(m) /\ Verdict(m) = "APPLY" /\ m.key \in Assignments
        /\ Known(m.key) /\ row \in AssignmentRow /\ row.policy # "closed" /\ row.terminal = None
        /\ m.seq = row.last + 1 /\ \A e \in Stored : e.id # m.id
    BY ApplyVerdict, ConstantTypes DEF Apply, Message, TypeOK, Known
  <1>3. /\ Drained(m) \subseteq pending
        /\ \A q \in run : q \in Message /\ q.key = m.key /\ q.seq \in Nat /\ q.seq >= m.seq
    BY DrainedType DEF Message
  <1>4. /\ \A q \in run : (q.seq = f.seq => q = f) /\ (q.evidence # None => q = f)
        /\ \A p \in PendingOf(m.key) \ Drained(m) :
             p.seq > f.seq /\ (f.evidence = None => p.seq # f.seq + 1)
    BY <1>1, <1>2, DrainedShape
  <1>5. IF f.evidence = None THEN s \in OpenStates ELSE s = f.evidence
    BY <1>1, <1>2, RunState
  <1>6. /\ applied' = applied \cup run /\ pending' = pending \ run
        /\ Stored' = Stored \cup {m}
    BY <1>3 DEF Apply, Stored
  <1>7. /\ assignments'[m.key].last = f.seq /\ assignments'[m.key].lastEvent = f.id
        /\ assignments'[m.key].state = s /\ assignments'[m.key].terminal = f.evidence
        /\ assignments'[m.key].policy = row.policy /\ Known(m.key)'
        /\ \A a \in Assignments \ {m.key} : assignments'[a] = assignments[a] /\ Known(a)' = Known(a)
    <2>1. Projection(row, m, f, s) \in AssignmentRow
      BY <1>1, <1>2, <1>3, ProjectionType
    <2> QED  BY <1>1, <1>2, <1>3, <2>1, ProjectionType, NoneIsNoValue DEF TypeOK, Known
  <1>8. /\ f.key = m.key /\ f.seq \in Nat /\ f.seq > row.last /\ row.last \in Nat
    BY <1>2, <1>3 DEF AssignmentRow
  <1>9. \A e \in Stored : e \in Message /\ e.key \in Assignments /\ e.seq \in Nat
    BY ConstantTypes DEF TypeOK, Stored, Message
  <1>10. StoredWellFormed'
    BY <1>2, <1>6 DEF StoredWellFormed, WellFormed
  <1>11. UniqueEvents'
    <2>1. \A e \in Stored : ~(e.key = m.key /\ e.seq = m.seq)
      BY <1>2, <1>8, <1>9 DEF GapFree, Stored
    <2>2. m \notin Stored
      BY <1>2
    <2> QED  BY <1>2, <1>3, <1>6, <2>1, <2>2 DEF UniqueEvents, Stored
  <1>12. GapFree'
    <2>1. ASSUME NEW e \in applied'
          PROVE  Known(e.key)' /\ e.seq <= assignments'[e.key].last
      BY <1>1, <1>2, <1>3, <1>6, <1>7, <1>8, <1>9, <2>1 DEF GapFree, Stored
    <2>2. ASSUME NEW p \in pending'
          PROVE  /\ Known(p.key)' /\ p.seq > assignments'[p.key].last
                 /\ assignments'[p.key].terminal = None => p.seq # assignments'[p.key].last + 1
      <3>1. p \in pending /\ p \notin run /\ p \in Stored
        BY <1>6, <2>2 DEF Stored
      <3>2. CASE p.key = m.key
        BY <1>4, <1>7, <3>1, <3>2 DEF PendingOf
      <3>3. CASE p.key # m.key
        BY <1>7, <1>9, <3>1, <3>3 DEF GapFree
      <3> QED  BY <3>2, <3>3
    <2> QED  BY <2>1, <2>2 DEF GapFree
  <1>13. LastEventRetained'
    BY <1>3, <1>6, <1>7, <1>8 DEF LastEventRetained
  <1>14. TerminalAgrees'
    BY <1>2, <1>5, <1>7 DEF TerminalAgrees
  <1>15. TerminalEventIsLast'
    <2>1. ASSUME NEW e \in applied', e.evidence # None
          PROVE  e.seq = assignments'[e.key].last /\ assignments'[e.key].terminal # None
      <3>1. CASE e \in run
        BY <1>4, <1>7, <1>8, <2>1, <3>1
      <3>2. CASE e \in applied
        BY <1>2, <1>7, <1>9, <2>1, <3>2 DEF TerminalEventIsLast, Stored
      <3> QED  BY <1>6, <3>1, <3>2
    <2> QED  BY <2>1 DEF TerminalEventIsLast
  <1> QED  BY <1>10, <1>11, <1>12, <1>13, <1>14, <1>15

\* Deleting applied events that no assignment row points to.
LEMMA DeletionConsistent ==
  ASSUME Consistent, TypeOK', assignments' = assignments, pending' = pending,
         applied' \subseteq applied, \A e \in applied : e.id \in LastEvents => e \in applied'
  PROVE  Consistent'
  <1> USE DEF Consistent
  <1>1. Stored' \subseteq Stored
    BY DEF Stored
  <1>2. StoredWellFormed'
    BY <1>1 DEF StoredWellFormed, WellFormed
  <1>3. UniqueEvents'
    BY <1>1 DEF UniqueEvents, Stored
  <1>4. GapFree' /\ TerminalAgrees' /\ TerminalEventIsLast'
    BY DEF GapFree, TerminalAgrees, TerminalEventIsLast, Known
  <1>5. LastEventRetained'
    BY DEF LastEventRetained, LastEvents, Known
  <1> QED  BY <1>2, <1>3, <1>4, <1>5

\* A person's change.
LEMMA OverrideConsistent ==
  ASSUME Consistent, TypeOK', NEW a \in Assignments, NEW input \in Override, NEW v,
         UpdateHumanOverride(a, input, v), UNCHANGED <<applied, pending>>
  PROVE  Consistent'
  <1> USE DEF Consistent
  <1> DEFINE row == assignments[a]
  <1>1. /\ Known(a) /\ row \in AssignmentRow
        /\ assignments' = [assignments EXCEPT ![a] = Overridden(row, input)]
        /\ Overridden(row, input) \in AssignmentRow
    BY OverrideType
  <1>2. /\ Known(a)'
        /\ \A b \in Assignments \ {a} : assignments'[b] = assignments[b] /\ Known(b)' = Known(b)
    BY <1>1, NoneIsNoValue DEF TypeOK, Known
  <1> DEFINE new == assignments'[a]
  <1>3. /\ new.last = row.last /\ new.lastEvent = row.lastEvent
        /\ \/ new.state = row.state /\ new.terminal = row.terminal /\ new.policy # "closed"
           \/ new.state = "completed" /\ new.terminal = "completed"
    BY <1>1 DEF TypeOK, Overridden, Closes
  <1> HIDE DEF new
  <1>4. "completed" # None
    BY NoneIsNoValue DEF ReportedStates, TerminalOutcomes
  <1>5. Stored' = Stored /\ \A e \in Stored : e.key \in Assignments
    BY ConstantTypes DEF Stored, TypeOK, Message
  <1>6. StoredWellFormed'
    BY <1>5 DEF StoredWellFormed, WellFormed
  <1>7. UniqueEvents'
    BY <1>5 DEF UniqueEvents
  <1>8. GapFree'
    BY <1>2, <1>3, <1>4, <1>5 DEF GapFree, Stored, new
  <1>9. LastEventRetained'
    <2>1. ASSUME NEW b \in Assignments, Known(b)'
          PROVE  \E e \in applied : /\ e.id = assignments'[b].lastEvent
                                   /\ e.key = b /\ e.seq = assignments'[b].last
      <3>1. CASE b = a
        BY <1>1, <1>3, <3>1 DEF LastEventRetained, new
      <3>2. CASE b # a
        BY <1>2, <2>1, <3>2 DEF LastEventRetained
      <3> QED  BY <3>1, <3>2
    <2> QED  BY <2>1 DEF LastEventRetained
  <1>10. TerminalAgrees'
    <2>1. ASSUME NEW b \in Assignments, Known(b)'
          PROVE  /\ IF assignments'[b].terminal = None THEN assignments'[b].state \in OpenStates
                    ELSE assignments'[b].state = assignments'[b].terminal
                 /\ assignments'[b].policy = "closed" => assignments'[b].terminal = "completed"
      <3>1. CASE b = a
        BY <1>1, <1>3, <1>4, <3>1 DEF TerminalAgrees, new
      <3>2. CASE b # a
        BY <1>2, <2>1, <3>2 DEF TerminalAgrees
      <3> QED  BY <3>1, <3>2
    <2> QED  BY <2>1 DEF TerminalAgrees
  <1>11. TerminalEventIsLast'
    BY <1>2, <1>3, <1>4, <1>5 DEF new, TerminalEventIsLast, Stored
  <1> QED  BY <1>6, <1>7, <1>8, <1>9, <1>10, <1>11

-----------------------------------------------------------------------------
(* The invariant and the action properties.                                *)

\* A deletion of events, or a step that leaves rows and events alone.
Deletion ==
  /\ assignments' = assignments /\ pending' = pending /\ applied' \subseteq applied
  /\ \A e \in applied : e.id \in LastEvents => e \in applied'

\* What every action does to the rows and the events, in five shapes.
LEMMA StepShapes ==
  ASSUME TypeOK, [Next]_vars
  PROVE  \/ \E m \in Messages : CreateFirst(m)
         \/ \E m \in Messages : Hold(m)
         \/ \E m \in Messages : Apply(m)
         \/ /\ UNCHANGED <<applied, pending>>
            /\ \E a \in Assignments, input \in Override, v \in Nat : UpdateHumanOverride(a, input, v)
         \/ Deletion
  <1>1. ASSUME NEW a \in Assignments, NEW input \in Overrides, NEW v \in 1..MaxVersion,
               HumanOverride(a, input, v)
        PROVE  /\ UNCHANGED <<applied, pending>>
               /\ \E b \in Assignments, i \in Override, w \in Nat : UpdateHumanOverride(b, i, w)
    BY <1>1, ConstantTypes DEF HumanOverride
  <1>2. ASSUME NEW r \in Reviews, NEW p \in HumanProjects, ReviewedProject(r, p),
               UNCHANGED <<applied, pending>>
        PROVE  \/ \E b \in Assignments, i \in Override, w \in Nat : UpdateHumanOverride(b, i, w)
               \/ Deletion
    <2>1. CASE reviews[r].key = None
      BY <1>2, <2>1 DEF ReviewedProject, Deletion
    <2>2. CASE reviews[r].key # None
      <3>1. reviews[r].key \in Assignments
        BY <2>2 DEF TypeOK, ReviewRow
      <3>2. [summary |-> None, policy |-> None, project |-> p] \in Override
        BY DEF Override
      <3>3. assignments[reviews[r].key].version \in Nat
        BY <1>2, <2>2, <3>1 DEF ReviewedProject, Visible, Known, TypeOK, AssignmentRow
      <3> QED  BY <1>2, <2>2, <3>1, <3>2, <3>3 DEF ReviewedProject
    <2> QED  BY <2>1, <2>2
  <1>3. ASSUME NEW r \in Reviews, NEW p \in HumanProjects, ResolveReview(r, p)
        PROVE  /\ UNCHANGED <<applied, pending>>
               /\ \/ \E b \in Assignments, i \in Override, w \in Nat : UpdateHumanOverride(b, i, w)
                  \/ Deletion
    BY <1>2, <1>3 DEF ResolveReview
  <1>4. ASSUME NEW r \in Reviews, NEW p \in HumanProjects, ResolveReviewInterrupted(r, p)
        PROVE  /\ UNCHANGED <<applied, pending>>
               /\ \/ \E b \in Assignments, i \in Override, w \in Nat : UpdateHumanOverride(b, i, w)
                  \/ Deletion
    BY <1>2, <1>4 DEF ResolveReviewInterrupted
  <1>5. ASSUME NEW i \in Integrations, NEW enabled \in BOOLEAN, NEW configured \in BOOLEAN,
               RegisterIntegration(i, enabled, configured)
        PROVE  Deletion
    BY <1>5 DEF RegisterIntegration, Deletion
  <1>6. ASSUME NEW r \in Reviews, CreateReview(r)
        PROVE  Deletion
    BY <1>6 DEF CreateReview, Deletion
  <1>7. CASE Prune
    BY <1>7 DEF Prune, Deletion
  <1>8. ASSUME NEW i \in Integrations, ClearHistory(i)
        PROVE  Deletion
    BY <1>8 DEF ClearHistory, Deletion
  <1>9. ASSUME NEW t \in Tickets, NEW s \in ForeignStatuses, AddTicket(t, s)
        PROVE  Deletion
    BY <1>9 DEF AddTicket, Deletion
  <1>10. ASSUME NEW t \in Tickets, NEW s \in ForeignStatuses, ReconcileTicket(t, s)
         PROVE  Deletion
    BY <1>10 DEF ReconcileTicket, Deletion
  <1>11. ASSUME NEW t \in Tickets, NEW copy \in Edits, EditTicket(t, copy)
         PROVE  Deletion
    BY <1>11 DEF EditTicket, Deletion
  <1>12. ASSUME NEW t \in Tickets, RemoveTicket(t)
         PROVE  Deletion
    BY <1>12 DEF RemoveTicket, Deletion
  <1>13. CASE UNCHANGED vars
    BY <1>13 DEF vars, Deletion
  <1> QED
    BY <1>1, <1>3, <1>4, <1>5, <1>6, <1>7, <1>8, <1>9, <1>10, <1>11, <1>12, <1>13 DEF Next

\* Every step preserves the inductive invariant.
LEMMA ConsistentPreserved ==
  ASSUME Consistent, [Next]_vars
  PROVE  Consistent'
  <1>1. TypeOK /\ TypeOK'
    BY TypePreserved DEF Consistent
  <1>2. CASE Deletion
    BY <1>1, <1>2, DeletionConsistent DEF Deletion
  <1>3. ASSUME NEW a \in Assignments, NEW input \in Override, NEW v \in Nat,
               UpdateHumanOverride(a, input, v), UNCHANGED <<applied, pending>>
        PROVE  Consistent'
    BY <1>1, <1>3, OverrideConsistent
  <1> QED
    BY <1>1, <1>2, <1>3, StepShapes, CreateConsistent, HoldConsistent, ApplyConsistent

\* The store stays consistent: no insert can meet a row with its id or slot,
\* applied and held events lie on their sides of last_applied_sequence, every
\* assignment keeps the event that getAssignment joins on, and states, outcomes
\* and evidence agree.
THEOREM StoreConsistent == Spec => []Consistent
  <1>1. Init => Consistent
    BY DEF Init, Consistent, TypeOK, ReviewRow, StoredWellFormed, Stored, UniqueEvents, GapFree,
           LastEventRetained, TerminalAgrees, TerminalEventIsLast, Known
  <1>2. Consistent /\ [Next]_vars => Consistent'
    BY ConsistentPreserved
  <1> QED  BY <1>1, <1>2, PTL DEF Spec

\* The PRIMARY KEY and UNIQUE constraints of the events never abort an ingestion.
THEOREM EventsUnique == Spec => []UniqueEvents
  BY StoreConsistent, PTL DEF Consistent

\* The drain loop leaves no next event behind.
THEOREM NoGapLeft == Spec => []GapFree
  BY StoreConsistent, PTL DEF Consistent

\* Pruning and clearing never delete the event an assignment is read through.
THEOREM LastEventKept == Spec => []LastEventRetained
  BY StoreConsistent, PTL DEF Consistent

\* State, outcome and policy of every row agree.
THEOREM OutcomeAgrees == Spec => []TerminalAgrees
  BY StoreConsistent, PTL DEF Consistent

\* A terminal event is the last one its assignment applies.
THEOREM NothingAfterTerminal == Spec => []TerminalEventIsLast
  BY StoreConsistent, PTL DEF Consistent

\* What an applied run does to its assignment's row, and to no other.
LEMMA ApplyRow ==
  ASSUME Consistent, NEW m \in Messages, Apply(m)
  PROVE  \E f \in Drained(m) \cup {m} :
           /\ m.key \in Assignments /\ Known(m.key) /\ Known(m.key)'
           /\ assignments[m.key].terminal = None
           /\ m.seq = assignments[m.key].last + 1 /\ f.seq \in Nat
           /\ assignments'[m.key].last = f.seq
           /\ assignments'[m.key].version > assignments[m.key].version
           /\ \A k \in m.seq..f.seq : \E q \in Drained(m) \cup {m} : q.seq = k
           /\ \A q \in Drained(m) \cup {m} : /\ q.key = m.key /\ q \notin applied
                                           /\ q.seq \in m.seq..f.seq
           /\ applied' = applied \cup Drained(m) \cup {m}
           /\ pending \subseteq applied' \cup pending'
           /\ \A a \in Assignments \ {m.key} : assignments'[a] = assignments[a]
           /\ assignments[m.key].policy # "follow" => tickets' = tickets
  <1> USE DEF Consistent
  <1> DEFINE run == Drained(m) \cup {m}
             row == assignments[m.key]
  <1>1. PICK f \in run, s \in ReportedStates :
          /\ f \in Message
          /\ \A q \in run : q.seq <= f.seq
          /\ Projection(row, m, f, s) \in AssignmentRow
          /\ assignments' = [assignments EXCEPT ![m.key] = Projection(row, m, f, s)]
          /\ row.policy # "follow" => tickets' = tickets
    BY ApplySteps
  <1>2. /\ m \in Message /\ WellFormed(m) /\ Verdict(m) = "APPLY" /\ m.key \in Assignments
        /\ Known(m.key) /\ row \in AssignmentRow /\ row.terminal = None
        /\ m.seq = row.last + 1 /\ \A e \in Stored : e.id # m.id
    BY ApplyVerdict, ConstantTypes DEF Apply, Message, TypeOK, Known
  <1>3. /\ Drained(m) \subseteq pending
        /\ \A q \in run : q \in Message /\ q.key = m.key /\ q.seq \in Nat /\ q.seq >= m.seq
        /\ m.seq \in Nat
    BY <1>2, DrainedType DEF Message
  <1>4. \A k \in m.seq..f.seq : \E q \in run : q.seq = k
    BY <1>1, <1>2, DrainedShape
  <1>5. /\ assignments'[m.key].last = f.seq
        /\ assignments'[m.key].version > row.version
        /\ Known(m.key)'
        /\ \A a \in Assignments \ {m.key} : assignments'[a] = assignments[a]
    BY <1>1, <1>2, <1>3, ProjectionType, NoneIsNoValue DEF TypeOK, Known
  <1>6. \A q \in run : q \notin applied
    BY <1>2, <1>3 DEF UniqueEvents, Stored
  <1>7. /\ applied' = applied \cup Drained(m) \cup {m}
        /\ pending \subseteq applied' \cup pending'
    BY DEF Apply
  <1>8. \A q \in run : q.seq \in m.seq..f.seq
    BY <1>1, <1>3
  <1> QED  BY <1>1, <1>2, <1>3, <1>4, <1>5, <1>6, <1>7, <1>8

\* What a person's change does to the row.
LEMMA OverrideRow ==
  ASSUME Consistent, NEW a \in Assignments, NEW input \in Override, NEW v,
         UpdateHumanOverride(a, input, v)
  PROVE  /\ Known(a) /\ Known(a)'
         /\ assignments'[a].last = assignments[a].last
         /\ assignments'[a].version > assignments[a].version
         /\ \/ assignments'[a].terminal = assignments[a].terminal
            \/ assignments'[a].policy = "closed" /\ assignments'[a].terminal = "completed"
         /\ \A b \in Assignments \ {a} : assignments'[b] = assignments[b]
  <1>1. /\ Known(a) /\ assignments[a] \in AssignmentRow
        /\ Overridden(assignments[a], input) \in AssignmentRow
        /\ assignments' = [assignments EXCEPT ![a] = Overridden(assignments[a], input)]
    BY OverrideType DEF Consistent
  <1>2. assignments'[a] = Overridden(assignments[a], input) /\ Known(a)'
    BY <1>1, NoneIsNoValue DEF Consistent, TypeOK, Known
  <1>3. Overridden(assignments[a], input).version > assignments[a].version
    BY <1>1 DEF Overridden, AssignmentRow
  <1> QED  BY <1>1, <1>2, <1>3 DEF Overridden, Closes, Consistent, TypeOK

\* Each step applies to an assignment exactly the next sequence numbers.
THEOREM InSequence == Spec => AppliesInSequence
  <1> DEFINE Taken(a) == {e.seq : e \in {x \in applied' \ applied : x.key = a}}
             Expected(a) == (assignments[a].last + 1)..assignments'[a].last
  <1>1. ASSUME Consistent, [Next]_vars, NEW a \in Assignments, Known(a)
        PROVE  Taken(a) = Expected(a)
    <2>1. assignments[a].last \in Nat
      BY <1>1 DEF Consistent, TypeOK, Known, AssignmentRow
    <2>2. ASSUME assignments'[a] = assignments[a],
                 \A e \in applied' : e \in applied \/ e.key # a
          PROVE  Taken(a) = Expected(a)
      <3>1. Expected(a) = {}
        BY <2>1, <2>2
      <3>2. Taken(a) = {}
        BY <2>2
      <3> QED  BY <3>1, <3>2
    <2>3. ASSUME NEW m \in Messages, CreateFirst(m)
          PROVE  Taken(a) = Expected(a)
      BY <1>1, <2>2, <2>3, CreateVerdict DEF CreateFirst, Consistent, TypeOK
    <2>4. ASSUME NEW m \in Messages, Hold(m)
          PROVE  Taken(a) = Expected(a)
      BY <2>2, <2>4 DEF Hold
    <2>5. ASSUME NEW m \in Messages, Apply(m)
          PROVE  Taken(a) = Expected(a)
      <3>1. PICK f \in Drained(m) \cup {m} :
              /\ m.seq = assignments[m.key].last + 1
              /\ assignments'[m.key].last = f.seq
              /\ \A k \in m.seq..f.seq : \E q \in Drained(m) \cup {m} : q.seq = k
              /\ \A q \in Drained(m) \cup {m} : /\ q.key = m.key /\ q \notin applied
                                              /\ q.seq \in m.seq..f.seq
              /\ applied' = applied \cup Drained(m) \cup {m}
              /\ \A b \in Assignments \ {m.key} : assignments'[b] = assignments[b]
        BY <1>1, <2>5, ApplyRow
      <3>2. CASE a = m.key
        BY <3>1, <3>2
      <3>3. CASE a # m.key
        BY <2>2, <3>1, <3>3
      <3> QED  BY <3>2, <3>3
    <2>6. ASSUME NEW b \in Assignments, NEW input \in Override, NEW v,
                 UpdateHumanOverride(b, input, v), UNCHANGED applied
          PROVE  Taken(a) = Expected(a)
      <3>1. assignments'[a].last = assignments[a].last
        BY <1>1, <2>6, OverrideRow
      <3>2. Expected(a) = {} /\ Taken(a) = {}
        BY <2>1, <2>6, <3>1
      <3> QED  BY <3>2
    <2>7. CASE Deletion
      BY <2>2, <2>7 DEF Deletion
    <2> QED  BY <1>1, <2>3, <2>4, <2>5, <2>6, <2>7, StepShapes DEF Consistent
  <1>2. Consistent /\ [Next]_vars =>
          [\A a \in Assignments : Known(a) => Taken(a) = Expected(a)]_vars
    BY <1>1
  <1> QED  BY <1>2, StoreConsistent, PTL DEF Spec, AppliesInSequence

\* A row changes only by creation, by an applied run or by a person.
LEMMA RowChanges ==
  ASSUME Consistent, [Next]_vars, NEW a \in Assignments, Known(a), assignments'[a] # assignments[a]
  PROVE  \/ \E m \in Messages : Apply(m) /\ m.key = a
         \/ \E input \in Override, v \in Nat : UpdateHumanOverride(a, input, v)
  <1>1. ASSUME NEW m \in Messages, CreateFirst(m)
        PROVE  FALSE
    BY <1>1, CreateVerdict DEF CreateFirst, Consistent, TypeOK
  <1>2. ASSUME NEW m \in Messages, Hold(m)
        PROVE  FALSE
    BY <1>2 DEF Hold
  <1>3. ASSUME NEW m \in Messages, Apply(m)
        PROVE  m.key = a
    BY <1>3, ApplyRow
  <1>4. ASSUME NEW b \in Assignments, NEW input \in Override, NEW v,
               UpdateHumanOverride(b, input, v)
        PROVE  b = a
    BY <1>4, OverrideRow
  <1>5. ~Deletion
    BY DEF Deletion
  <1> QED  BY <1>1, <1>2, <1>3, <1>4, <1>5, StepShapes DEF Consistent

\* record_version identifies the row: a change that passes the version check
\* was decided on the row it changes.
THEOREM VersionIdentifiesRow == Spec => VersionTellsRows
  <1>1. ASSUME Consistent, [Next]_vars, NEW a \in Assignments, Known(a), assignments'[a] # assignments[a]
        PROVE  assignments'[a] # None /\ assignments'[a].version > assignments[a].version
    <2>1. ASSUME NEW m \in Messages, Apply(m), m.key = a
          PROVE  Known(a)' /\ assignments'[a].version > assignments[a].version
      BY <1>1, <2>1, ApplyRow
    <2>2. ASSUME NEW input \in Override, NEW v, UpdateHumanOverride(a, input, v)
          PROVE  Known(a)' /\ assignments'[a].version > assignments[a].version
      BY <1>1, <2>2, OverrideRow
    <2> QED  BY <1>1, <2>1, <2>2, RowChanges DEF Known
  <1>2. Consistent /\ [Next]_vars =>
          [\A a \in Assignments : Known(a) /\ assignments'[a] # assignments[a] =>
             assignments'[a] # None /\ assignments'[a].version > assignments[a].version]_vars
    BY <1>1
  <1> QED  BY <1>2, StoreConsistent, PTL DEF Spec, VersionTellsRows

\* Nothing but a person closing it changes a terminal assignment's outcome, and
\* it takes no further event.
THEOREM OutcomeIsFinal == Spec => TerminalIsFinal
  <1>1. ASSUME Consistent, [Next]_vars, NEW a \in Assignments, Known(a), assignments[a].terminal # None
        PROVE  /\ assignments'[a].last = assignments[a].last
               /\ \/ assignments'[a].terminal = assignments[a].terminal
                  \/ assignments'[a].policy = "closed" /\ assignments'[a].terminal = "completed"
    <2>1. CASE assignments'[a] = assignments[a]
      BY <2>1
    <2>2. CASE assignments'[a] # assignments[a]
      <3>1. ASSUME NEW m \in Messages, Apply(m), m.key = a
            PROVE  FALSE
        BY <1>1, <3>1, ApplyRow
      <3>2. PICK input \in Override, v \in Nat : UpdateHumanOverride(a, input, v)
        BY <1>1, <2>2, <3>1, RowChanges
      <3> QED  BY <1>1, <3>2, OverrideRow
    <2> QED  BY <2>1, <2>2
  <1>2. Consistent /\ [Next]_vars =>
          [\A a \in Assignments : Known(a) /\ assignments[a].terminal # None =>
             /\ assignments'[a].last = assignments[a].last
             /\ \/ assignments'[a].terminal = assignments[a].terminal
                \/ assignments'[a].policy = "closed" /\ assignments'[a].terminal = "completed"]_vars
    BY <1>1
  <1> QED  BY <1>2, StoreConsistent, PTL DEF Spec, TerminalIsFinal

\* The events of a paused or detached assignment move no ticket.
THEOREM PausedTickets == Spec => PausedTicketsRest
  <1>1. ASSUME Consistent, [Next]_vars, NEW a \in Assignments, Known(a),
               assignments[a].policy \in {"paused", "detached"},
               assignments'[a].last # assignments[a].last
        PROVE  tickets' = tickets
    <2>1. ASSUME NEW m \in Messages, Apply(m), m.key = a
          PROVE  tickets' = tickets
      BY <1>1, <2>1, ApplyRow
    <2>2. ASSUME NEW input \in Override, NEW v, UpdateHumanOverride(a, input, v)
          PROVE  FALSE
      BY <1>1, <2>2, OverrideRow
    <2> QED  BY <1>1, <2>1, <2>2, RowChanges
  <1>2. Consistent /\ [Next]_vars =>
          [\A a \in Assignments :
             /\ Known(a) /\ assignments[a].policy \in {"paused", "detached"}
             /\ assignments'[a].last # assignments[a].last
             => tickets' = tickets]_vars
    BY <1>1
  <1> QED  BY <1>2, StoreConsistent, PTL DEF Spec, PausedTicketsRest

\* A held event stays held until it is applied.
THEOREM HeldUntilApplied == Spec => HeldEventsKept
  <1>1. ASSUME Consistent, [Next]_vars
        PROVE  pending \subseteq (applied \cup pending)'
    <2>1. ASSUME NEW m \in Messages, Apply(m)
          PROVE  pending \subseteq applied' \cup pending'
      BY <1>1, <2>1, ApplyRow
    <2> QED  BY <1>1, <2>1, StepShapes DEF Consistent, CreateFirst, Hold, Deletion
  <1> QED  BY <1>1, StoreConsistent, PTL DEF Spec, HeldEventsKept

\* The queue of held events never exceeds its limits.
THEOREM QueueBounded == Spec => []PendingBounded
  <1>1. Init => PendingBounded
    BY FS_EmptySet, ConstantTypes DEF Init, PendingBounded, PendingOf
  <1>2. ASSUME TypeOK, PendingBounded, [Next]_vars
        PROVE  PendingBounded'
    <2>1. IsFiniteSet(pending) /\ \A S : S \subseteq pending => IsFiniteSet(S)
      BY <1>2, FS_Subset, ConstantTypes DEF TypeOK
    <2>2. ASSUME pending' \subseteq pending
          PROVE  PendingBounded'
      <3>1. /\ Cardinality(pending') <= Cardinality(pending)
            /\ Cardinality(pending') \in Nat /\ Cardinality(pending) \in Nat
        BY <2>1, <2>2, FS_Subset, FS_CardinalityType
      <3>2. ASSUME NEW a \in Assignments
            PROVE  Cardinality(PendingOf(a))' <= AssignmentPendingLimit
        <4>1. PendingOf(a)' \subseteq PendingOf(a) /\ PendingOf(a) \subseteq pending
          BY <2>2 DEF PendingOf
        <4>2. IsFiniteSet(PendingOf(a)) /\ IsFiniteSet(PendingOf(a)')
          BY <2>1, <4>1
        <4>3. Cardinality(PendingOf(a)') <= Cardinality(PendingOf(a))
          BY <4>1, <4>2, FS_Subset
        <4>4. Cardinality(PendingOf(a)') \in Nat /\ Cardinality(PendingOf(a)) \in Nat
          BY <4>2, FS_CardinalityType
        <4> QED  BY <1>2, <4>3, <4>4, ConstantTypes DEF PendingBounded
      <3> QED  BY <1>2, <3>1, <3>2, ConstantTypes DEF PendingBounded
    <2>3. ASSUME NEW m \in Messages, Hold(m)
          PROVE  PendingBounded'
      <3>1. /\ ~QueueFull(m) /\ pending' = pending \cup {m} /\ m \notin pending
        BY <2>3, HoldVerdict DEF Hold, Stored
      <3>2. /\ Cardinality(pending') = Cardinality(pending) + 1
            /\ Cardinality(pending) \in Nat /\ ~(Cardinality(pending) >= TotalPendingLimit)
        BY <2>1, <3>1, FS_AddElement, FS_CardinalityType DEF QueueFull
      <3>3. ASSUME NEW a \in Assignments
            PROVE  Cardinality(PendingOf(a))' <= AssignmentPendingLimit
        <4>1. CASE a = m.key
          <5>1. PendingOf(a)' = PendingOf(a) \cup {m} /\ m \notin PendingOf(a)
            BY <3>1, <4>1 DEF PendingOf
          <5>2. IsFiniteSet(PendingOf(a))
            BY <2>1 DEF PendingOf
          <5>3. Cardinality(PendingOf(a)') = Cardinality(PendingOf(a)) + 1
            BY <5>1, <5>2, FS_AddElement
          <5>4. Cardinality(PendingOf(a)) \in Nat
            BY <5>2, FS_CardinalityType
          <5> QED  BY <3>1, <4>1, <5>3, <5>4, ConstantTypes DEF QueueFull
        <4>2. CASE a # m.key
          <5>1. PendingOf(a)' = PendingOf(a)
            BY <3>1, <4>2 DEF PendingOf
          <5> QED  BY <1>2, <5>1 DEF PendingBounded
        <4> QED  BY <4>1, <4>2
      <3> QED  BY <3>2, <3>3, ConstantTypes DEF PendingBounded
    <2>4. ASSUME NEW m \in Messages, Apply(m)
          PROVE  pending' \subseteq pending
      BY <2>4 DEF Apply
    <2> QED  BY <1>2, <2>2, <2>3, <2>4, StepShapes DEF CreateFirst, Deletion
  <1> QED  BY <1>1, <1>2, TypeCorrect, PTL DEF Spec

-----------------------------------------------------------------------------
(* The store implements AssignmentLedger.                                  *)

\* A change of one row is a step of the ledger when it goes forward from an open
\* row, or is a closing.
LEMMA RowStep ==
  ASSUME TypeOK, TypeOK', NEW a \in Assignments, Known(a)',
         \A b \in Assignments \ {a} : assignments'[b] = assignments[b],
         \/ ~Known(a) /\ assignments'[a].last = 1
         \/ /\ Known(a) /\ assignments[a].terminal = None
            /\ assignments'[a].last > assignments[a].last
         \/ Known(a) /\ assignments'[a].last = assignments[a].last
            /\ \/ assignments'[a].terminal = assignments[a].terminal
               \/ assignments'[a].terminal = "completed"
  PROVE  [Ledger!Next]_(Ledger!vars)
  <1>1. /\ LastApplied \in [Assignments -> Nat] /\ LastApplied' \in [Assignments -> Nat]
        /\ Outcome \in [Assignments -> TerminalOutcomes \cup {None}]
        /\ Outcome' \in [Assignments -> TerminalOutcomes \cup {None}]
    BY DEF LastApplied, Outcome, TypeOK, AssignmentRow, Known
  <1>2. \A b \in Assignments \ {a} : LastApplied'[b] = LastApplied[b] /\ Outcome'[b] = Outcome[b]
    BY DEF LastApplied, Outcome, Known
  <1>3. /\ LastApplied'[a] = assignments'[a].last
        /\ Outcome'[a] = assignments'[a].terminal
        /\ Known(a) => /\ LastApplied[a] = assignments[a].last /\ LastApplied[a] > 0
                       /\ Outcome[a] = assignments[a].terminal
        /\ ~Known(a) => LastApplied[a] = 0 /\ Outcome[a] = None
    BY DEF LastApplied, Outcome, Known, TypeOK, AssignmentRow
  <1>4. \/ Ledger!Advance(a)
        \/ Ledger!Close(a)
        \/ LastApplied'[a] = LastApplied[a] /\ Outcome'[a] = Outcome[a]
    BY <1>1, <1>2, <1>3 DEF Ledger!Advance, Ledger!Close, Ledger!OthersUnchanged
  <1>5. LastApplied'[a] = LastApplied[a] /\ Outcome'[a] = Outcome[a] => UNCHANGED Ledger!vars
    BY <1>1, <1>2 DEF Ledger!vars
  <1> QED  BY <1>1, <1>4, <1>5 DEF Ledger!Next, Ledger!TypeOK

\* Every step of the store is a step of the ledger, or none.
LEMMA StepMaps ==
  ASSUME Consistent, [Next]_vars
  PROVE  [Ledger!Next]_(Ledger!vars)
  <1>1. TypeOK /\ TypeOK'
    BY TypePreserved DEF Consistent
  <1>2. ASSUME assignments' = assignments
        PROVE  UNCHANGED Ledger!vars
    BY <1>2 DEF Ledger!vars, LastApplied, Outcome, Known
  <1>3. ASSUME NEW m \in Messages, CreateFirst(m)
        PROVE  [Ledger!Next]_(Ledger!vars)
    <2>1. m \in Message /\ m.key \in Assignments /\ ~Known(m.key)
      BY <1>3, CreateVerdict, ConstantTypes DEF CreateFirst, Message
    <2>2. /\ assignments'[m.key] = FirstRow(m) /\ FirstRow(m) \in AssignmentRow
          /\ \A b \in Assignments \ {m.key} : assignments'[b] = assignments[b]
      BY <1>1, <1>3, <2>1, FirstRowType DEF CreateFirst, TypeOK
    <2>3. Known(m.key)' /\ assignments'[m.key].last = 1
      BY <2>2, NoneIsNoValue DEF Known, FirstRow
    <2> QED  BY <1>1, <2>1, <2>2, <2>3, RowStep
  <1>4. ASSUME NEW m \in Messages, Apply(m)
        PROVE  [Ledger!Next]_(Ledger!vars)
    <2>1. /\ m.key \in Assignments /\ Known(m.key) /\ Known(m.key)'
          /\ assignments[m.key].terminal = None
          /\ assignments'[m.key].last > assignments[m.key].last
          /\ \A b \in Assignments \ {m.key} : assignments'[b] = assignments[b]
      <3>1. assignments[m.key].last \in Nat
        BY <1>1, <1>4, ApplyRow DEF TypeOK, Known, AssignmentRow
      <3> QED  BY <1>4, <3>1, ApplyRow
    <2> QED  BY <1>1, <2>1, RowStep
  <1>5. ASSUME NEW a \in Assignments, NEW input \in Override, NEW v, UpdateHumanOverride(a, input, v)
        PROVE  [Ledger!Next]_(Ledger!vars)
    BY <1>1, <1>5, OverrideRow, RowStep
  <1> QED
    BY <1>1, <1>2, <1>3, <1>4, <1>5, StepShapes DEF Hold, Deletion

\* Whatever events, people and deletions do, the store is an AssignmentLedger.
THEOREM LedgerImplemented == Spec => ImplementsLedger
  <1>1. Init => Ledger!Init
    BY DEF Init, Ledger!Init, LastApplied, Outcome, Known
  <1>2. Consistent /\ [Next]_vars => [Ledger!Next]_(Ledger!vars)
    BY StepMaps
  <1> QED  BY <1>1, <1>2, StoreConsistent, PTL DEF Spec, ImplementsLedger, Ledger!Spec

\* The four invariants of the store and its queue, together.
THEOREM StoreAlwaysAgrees == Spec => []StoreAgrees
  BY EventsUnique, NoGapLeft, LastEventKept, QueueBounded, NothingAfterTerminal, PTL DEF StoreAgrees

\* No step skips or repeats an event, reopens an assignment or drops a held event.
THEOREM OrderIsKept == Spec => StepsKeepOrder
  BY InSequence, OutcomeIsFinal, HeldUntilApplied DEF StepsKeepOrder

\* No step changes a row without its version, or the ticket of an assignment at rest.
THEOREM PeopleAreRespected == Spec => StepsRespectPeople
  BY VersionIdentifiesRow, PausedTickets DEF StepsRespectPeople

-----------------------------------------------------------------------------
(* What a person decided, and what the tickets show.                       *)

\* RowsKeepChoices in two parts, and what the reviews need besides: a bound review's assignment
\* is known.  Without it the first event of an assignment could meet a review closed for it.
TicketsExist == \A a \in Assignments : Known(a) => tickets[assignments[a].ticket] # None
ChoicesKept ==
  \A a \in Assignments : Known(a) =>
    /\ assignments[a].summaryOwner = "human" => assignments[a].summary = HumanText
    /\ assignments[a].projectOwner = "human" => assignments[a].project \in HumanProjects
BoundReviewsKnown == \A r \in Reviews : reviews[r].key # None => Known(reviews[r].key)

\* The inductive invariant of the tickets.
Truthful ==
  /\ Consistent
  /\ TicketsExist
  /\ ChoicesKept
  /\ BoundReviewsKnown
  /\ DecisionBeforeClosing

\* The rows' tickets go on existing when no ticket disappears.
LEMMA TicketsGoOn ==
  ASSUME TypeOK, TicketsExist, NEW k \in Assignments, Known(k)',
         assignments'[k].ticket \in Tickets, tickets'[assignments'[k].ticket] # None,
         \A b \in Assignments \ {k} : assignments'[b] = assignments[b],
         \A u \in Tickets : tickets[u] # None => tickets'[u] # None
  PROVE  TicketsExist'
  BY DEF TicketsExist, TypeOK, Known, AssignmentRow

\* What an applied run leaves of the row and of its ticket.
LEMMA ApplyTicket ==
  ASSUME Consistent, NEW m \in Messages, Apply(m)
  PROVE  LET row == assignments[m.key]
             new == assignments'[m.key]
         IN /\ m.key \in Assignments /\ Known(m.key) /\ Known(m.key)'
            /\ row \in AssignmentRow /\ row.policy # "closed"
            /\ new.ticket = row.ticket /\ new.policy = row.policy
            /\ new.summaryOwner = row.summaryOwner /\ new.projectOwner = row.projectOwner
            /\ new.summaryOwner = "human" => new.summary = row.summary
            /\ new.projectOwner = "human" => new.project = row.project
            /\ \A b \in Assignments \ {m.key} : assignments'[b] = assignments[b]
            /\ tickets' = IF row.policy = "follow" THEN [tickets EXCEPT ![row.ticket] = TicketOf(new)]
                          ELSE tickets
            /\ TicketOf(new) \in TicketRow
  <1> DEFINE row == assignments[m.key]
  <1>1. PICK f \in Drained(m) \cup {m}, s \in ReportedStates :
          /\ Projection(row, m, f, s) \in AssignmentRow
          /\ assignments' = [assignments EXCEPT ![m.key] = Projection(row, m, f, s)]
          /\ tickets' = IF row.policy = "follow"
                        THEN [tickets EXCEPT ![row.ticket] = TicketOf(Projection(row, m, f, s))]
                        ELSE tickets
    BY ApplySteps DEF Consistent
  <1>2. m.key \in Assignments /\ Known(m.key) /\ row \in AssignmentRow
    BY ApplyVerdict, ConstantTypes DEF Apply, Message, Consistent, TypeOK, Known
  <1>3. /\ assignments'[m.key] = Projection(row, m, f, s) /\ Known(m.key)'
        /\ \A b \in Assignments \ {m.key} : assignments'[b] = assignments[b]
    BY <1>1, <1>2, NoneIsNoValue DEF Consistent, TypeOK, Known
  <1>4. TicketOf(Projection(row, m, f, s)) \in TicketRow
    BY <1>1, TicketOfType
  <1>5. LET new == Projection(row, m, f, s)
        IN /\ new.ticket = row.ticket /\ new.policy = row.policy
           /\ new.summaryOwner = row.summaryOwner /\ new.projectOwner = row.projectOwner
           /\ new.summaryOwner = "human" => new.summary = row.summary
           /\ new.projectOwner = "human" => new.project = row.project
    BY DEF Projection
  <1>6. row.policy # "closed"
    BY DEF Apply, Verdict
  <1> QED  BY <1>1, <1>2, <1>3, <1>4, <1>5, <1>6

\* What a person's change leaves of the row and of its ticket.
LEMMA OverrideTicket ==
  ASSUME Consistent, NEW a \in Assignments, NEW input \in Override, NEW v,
         UpdateHumanOverride(a, input, v)
  PROVE  LET row == assignments[a]
             new == assignments'[a]
         IN /\ Known(a) /\ Known(a)' /\ row \in AssignmentRow
            /\ tickets[row.ticket] \in TicketRow
            /\ new = Overridden(row, input)
            /\ \A b \in Assignments \ {a} : assignments'[b] = assignments[b]
            /\ tickets' = [tickets EXCEPT ![row.ticket] =
                             OverriddenTicket(tickets[row.ticket], row, input)]
            /\ tickets'[row.ticket] = OverriddenTicket(tickets[row.ticket], row, input)
            /\ tickets'[row.ticket] \in TicketRow
  <1> DEFINE row == assignments[a]
  <1>1. /\ Known(a) /\ row \in AssignmentRow /\ Overridden(row, input) \in AssignmentRow
        /\ assignments' = [assignments EXCEPT ![a] = Overridden(row, input)]
    BY OverrideType DEF Consistent
  <1>2. row.ticket \in Tickets /\ tickets[row.ticket] \in TicketRow
    BY <1>1 DEF UpdateHumanOverride, Consistent, TypeOK, AssignmentRow
  <1>3. OverriddenTicket(tickets[row.ticket], row, input) \in TicketRow
    BY <1>1, <1>2, OverriddenType
  <1>4. tickets' = [tickets EXCEPT ![row.ticket] = OverriddenTicket(tickets[row.ticket], row, input)]
    BY DEF UpdateHumanOverride
  <1>5. /\ assignments'[a] = Overridden(row, input) /\ Known(a)'
        /\ \A b \in Assignments \ {a} : assignments'[b] = assignments[b]
    BY <1>1, NoneIsNoValue DEF Consistent, TypeOK, Known
  <1>6. tickets'[row.ticket] = OverriddenTicket(tickets[row.ticket], row, input)
    BY <1>2, <1>4 DEF Consistent, TypeOK
  <1> QED  BY <1>1, <1>2, <1>3, <1>4, <1>5, <1>6

\* Creating an assignment.
LEMMA CreateTruthful ==
  ASSUME Truthful, NEW m \in Messages, CreateFirst(m)
  PROVE  TicketsExist' /\ ChoicesKept' /\ BoundReviewsKnown' /\ DecisionBeforeClosing'
  <1> DEFINE row == FirstRow(m)
             t == TicketFor(m)
  <1>1. TypeOK /\ m \in Message /\ m.key \in Assignments /\ ~Known(m.key)
    BY CreateVerdict, ConstantTypes DEF CreateFirst, Message, Truthful, Consistent
  <1>2. /\ row \in AssignmentRow /\ t \in Tickets /\ row.ticket = t /\ row.last = 1
        /\ row.summaryOwner = "source" /\ row.projectOwner = "source"
    BY <1>1, FirstRowType DEF FirstRow
  <1>3. TicketOf(row) \in TicketRow
    BY <1>2, TicketOfType
  <1>4. /\ assignments'[m.key] = row /\ Known(m.key)'
        /\ \A b \in Assignments \ {m.key} : assignments'[b] = assignments[b]
    BY <1>1, <1>2, NoneIsNoValue DEF CreateFirst, TypeOK, Known
  <1>5. /\ \A u \in Tickets \ {t} : tickets'[u] = tickets[u]
        /\ tickets'[t] # None
        /\ \A u \in Tickets : tickets[u] # None => tickets'[u] # None
    BY <1>1, <1>2, <1>3, NoneIsNoValue DEF CreateFirst, TypeOK
  <1>6. ProjectAccepted(m)
    BY DEF CreateFirst, Verdict
  <1>7. TicketsExist'
    BY <1>1, <1>2, <1>4, <1>5, TicketsGoOn DEF Truthful
  <1>8. ASSUME NEW r \in Reviews
        PROVE  /\ reviews'[r].state = reviews[r].state
               /\ reviews'[r].key # reviews[r].key => reviews'[r].key = m.key /\ reviews[r].state = "pending"
    BY <1>1, <1>6 DEF CreateFirst, TypeOK, ReviewRow, ProjectAccepted
  <1>9. BoundReviewsKnown'
    BY <1>1, <1>4, <1>8 DEF BoundReviewsKnown, Truthful, Known, TypeOK, ReviewRow
  <1>10. ASSUME NEW r \in Reviews, reviews'[r].state \in {"resolved", "dismissed"}, reviews'[r].key # None
         PROVE  assignments'[reviews'[r].key].projectOwner = "human"
    <2>1. reviews'[r].key = reviews[r].key /\ reviews[r].state \in {"resolved", "dismissed"}
      BY <1>8, <1>10
    <2>2. reviews[r].key \in Assignments /\ Known(reviews[r].key)
      BY <1>1, <1>10, <2>1 DEF Truthful, BoundReviewsKnown, TypeOK, ReviewRow
    <2>3. assignments'[reviews[r].key] = assignments[reviews[r].key]
      BY <1>1, <1>4, <2>2
    <2> QED  BY <1>10, <2>1, <2>3 DEF Truthful, DecisionBeforeClosing
  <1>11. ChoicesKept'
    BY <1>2, <1>4 DEF ChoicesKept, Truthful, Known
  <1> QED  BY <1>7, <1>9, <1>10, <1>11 DEF DecisionBeforeClosing

\* Applying an event and the held ones it frees.
LEMMA ApplyTruthful ==
  ASSUME Truthful, Consistent', NEW m \in Messages, Apply(m)
  PROVE  Truthful'
  <1> DEFINE k == m.key
             row == assignments[k]
             new == assignments'[k]
  <1>1. /\ k \in Assignments /\ Known(k) /\ Known(k)' /\ row \in AssignmentRow
        /\ new.ticket = row.ticket /\ new.policy = row.policy
        /\ new.summaryOwner = row.summaryOwner /\ new.projectOwner = row.projectOwner
        /\ new.summaryOwner = "human" => new.summary = row.summary
        /\ new.projectOwner = "human" => new.project = row.project
        /\ \A b \in Assignments \ {k} : assignments'[b] = assignments[b]
        /\ tickets' = IF row.policy = "follow" THEN [tickets EXCEPT ![row.ticket] = TicketOf(new)]
                      ELSE tickets
        /\ TicketOf(new) \in TicketRow
    BY ApplyTicket DEF Truthful
  <1>2. TypeOK /\ row.ticket \in Tickets /\ reviews' = reviews
    BY <1>1 DEF Truthful, Consistent, AssignmentRow, Apply
  <1>3. /\ \A u \in Tickets \ {row.ticket} : tickets'[u] = tickets[u]
        /\ row.policy = "follow" => tickets'[row.ticket] = TicketOf(new)
        /\ row.policy # "follow" => tickets'[row.ticket] = tickets[row.ticket]
    BY <1>1, <1>2 DEF TypeOK
  <1>4. \A u \in Tickets : tickets[u] # None => tickets'[u] # None
    BY <1>1, <1>2, <1>3, NoneIsNoValue
  <1>5. tickets'[row.ticket] # None
    BY <1>1, <1>2, <1>4 DEF Truthful, TicketsExist
  <1>6. TicketsExist'
    BY <1>1, <1>2, <1>4, <1>5, TicketsGoOn DEF Truthful
  <1>7. BoundReviewsKnown'
    BY <1>1, <1>2 DEF Truthful, BoundReviewsKnown, Known, TypeOK, ReviewRow
  <1>8. DecisionBeforeClosing'
    <2>1. \A a \in Assignments : assignments[a].projectOwner = "human" => assignments'[a].projectOwner = "human"
      BY <1>1
    <2> QED  BY <1>2, <2>1 DEF Truthful, DecisionBeforeClosing, TypeOK, ReviewRow
  <1>9. ChoicesKept'
    BY <1>1 DEF ChoicesKept, Truthful, Known
  <1> QED  BY <1>6, <1>7, <1>8, <1>9 DEF Truthful

\* A person's change, which may come with the closing of the review that asked for it.
LEMMA OverrideTruthful ==
  ASSUME Truthful, Consistent', NEW a \in Assignments, NEW input \in Override, NEW v,
         UpdateHumanOverride(a, input, v),
         \A r \in Reviews : /\ reviews'[r].key = reviews[r].key
                            /\ \/ reviews'[r].state = reviews[r].state
                               \/ reviews[r].key = a /\ input.project # None
  PROVE  Truthful'
  <1> DEFINE row == assignments[a]
             new == assignments'[a]
             ticket == tickets[row.ticket]
  <1>1. /\ Known(a) /\ Known(a)' /\ row \in AssignmentRow /\ ticket \in TicketRow
        /\ new = Overridden(row, input)
        /\ \A b \in Assignments \ {a} : assignments'[b] = assignments[b]
        /\ tickets' = [tickets EXCEPT ![row.ticket] = OverriddenTicket(ticket, row, input)]
        /\ tickets'[row.ticket] = OverriddenTicket(ticket, row, input)
        /\ tickets'[row.ticket] \in TicketRow
    BY OverrideTicket DEF Truthful
  <1>2. TypeOK /\ row.ticket \in Tickets /\ new.ticket = row.ticket
    BY <1>1 DEF Truthful, Consistent, AssignmentRow, Overridden
  <1>3. \A u \in Tickets \ {row.ticket} : tickets'[u] = tickets[u]
    BY <1>1, <1>2 DEF TypeOK
  <1>4. /\ tickets'[row.ticket] # None
        /\ \A u \in Tickets : tickets[u] # None => tickets'[u] # None
    BY <1>1, <1>3, NoneIsNoValue
  <1>5. TicketsExist'
    BY <1>1, <1>2, <1>4, TicketsGoOn DEF Truthful
  <1>6. BoundReviewsKnown'
    BY <1>1, <1>2 DEF Truthful, BoundReviewsKnown, Known, TypeOK, ReviewRow
  <1>7. /\ row.projectOwner = "human" => new.projectOwner = "human"
        /\ input.project # None => new.projectOwner = "human"
    BY <1>1 DEF Overridden
  <1>8. DecisionBeforeClosing'
    <2>1. \A b \in Assignments : assignments[b].projectOwner = "human" => assignments'[b].projectOwner = "human"
      BY <1>1, <1>7
    <2>2. \A r \in Reviews : reviews[r].key # None => reviews[r].key \in Assignments
      BY <1>2 DEF TypeOK, ReviewRow
    <2> QED  BY <1>7, <2>1, <2>2 DEF Truthful, DecisionBeforeClosing
  <1>9. /\ new.summaryOwner = "human" => new.summary = HumanText
        /\ new.projectOwner = "human" => new.project \in HumanProjects
    <2>1. /\ input.summary # None => input.summary = HumanText
          /\ input.project # None => input.project \in HumanProjects
      BY DEF Override
    <2>2. /\ row.summaryOwner = "human" => row.summary = HumanText
          /\ row.projectOwner = "human" => row.project \in HumanProjects
      BY <1>1 DEF Truthful, ChoicesKept
    <2> QED  BY <1>1, <2>1, <2>2 DEF Overridden
  <1>10. ChoicesKept'
    BY <1>1, <1>9 DEF ChoicesKept, Truthful, Known
  <1> QED  BY <1>5, <1>6, <1>8, <1>10 DEF Truthful

\* A step that leaves the rows alone, takes no ticket of theirs away, and closes no bound review.
LEMMA RestTruthful ==
  ASSUME Truthful, Consistent', assignments' = assignments,
         \A a \in Assignments : Known(a) => tickets'[assignments[a].ticket] # None,
         \A r \in Reviews : /\ reviews'[r].key = reviews[r].key
                            /\ reviews'[r].state \in {"resolved", "dismissed"} =>
                                 \/ reviews[r].state = reviews'[r].state
                                 \/ reviews[r].key = None
  PROVE  Truthful'
  BY DEF Truthful, TicketsExist, ChoicesKept, BoundReviewsKnown, DecisionBeforeClosing, Known

\* Both halves of a review's resolution.
LEMMA ReviewedTruthful ==
  ASSUME Truthful, Consistent', NEW r \in Reviews, NEW p \in HumanProjects, ReviewedProject(r, p),
         \A x \in Reviews : /\ reviews'[x].key = reviews[x].key
                            /\ x # r => reviews'[x].state = reviews[x].state
  PROVE  Truthful'
  <1>1. CASE reviews[r].key = None
    <2>1. assignments' = assignments /\ tickets' = tickets
      BY <1>1 DEF ReviewedProject
    <2> QED  BY <1>1, <2>1, RestTruthful DEF Truthful, TicketsExist
  <1>2. CASE reviews[r].key # None
    <2> DEFINE input == [summary |-> None, policy |-> None, project |-> p]
    <2>1. reviews[r].key \in Assignments
      BY <1>2 DEF Truthful, Consistent, TypeOK, ReviewRow
    <2>2. input \in Override /\ input.project # None
      BY NoneIsNoValue DEF Override
    <2>3. UpdateHumanOverride(reviews[r].key, input, assignments[reviews[r].key].version)
      BY <1>2 DEF ReviewedProject
    <2>4. \A x \in Reviews : /\ reviews'[x].key = reviews[x].key
                             /\ \/ reviews'[x].state = reviews[x].state
                                \/ reviews[x].key = reviews[r].key /\ input.project # None
      BY <2>2
    <2> HIDE DEF input
    <2> QED  BY <2>1, <2>2, <2>3, <2>4, OverrideTruthful
  <1> QED  BY <1>1, <1>2

\* Every step preserves it.
LEMMA TruthfulPreserved ==
  ASSUME Truthful, [Next]_vars
  PROVE  Truthful'
  <1>1. TypeOK /\ Consistent'
    BY ConsistentPreserved DEF Truthful, Consistent
  <1>2. ASSUME UNCHANGED <<assignments, tickets, reviews>>
        PROVE  Truthful'
    BY <1>1, <1>2, RestTruthful DEF Truthful, TicketsExist
  <1>3. ASSUME NEW m \in Messages, CreateFirst(m)
        PROVE  Truthful'
    BY <1>1, <1>3, CreateTruthful DEF Truthful
  <1>4. ASSUME NEW m \in Messages, Hold(m)
        PROVE  Truthful'
    BY <1>2, <1>4 DEF Hold
  <1>5. ASSUME NEW m \in Messages, Apply(m)
        PROVE  Truthful'
    BY <1>1, <1>5, ApplyTruthful
  <1>6. ASSUME NEW a \in Assignments, NEW input \in Overrides, NEW v \in 1..MaxVersion,
               HumanOverride(a, input, v)
        PROVE  Truthful'
    <2>1. input \in Override
      BY ConstantTypes
    <2> QED  BY <1>1, <1>6, <2>1, OverrideTruthful DEF HumanOverride
  <1>7. ASSUME NEW r \in Reviews, NEW p \in HumanProjects, ResolveReview(r, p)
        PROVE  Truthful'
    <2>1. \A x \in Reviews : /\ reviews'[x].key = reviews[x].key
                             /\ x # r => reviews'[x].state = reviews[x].state
      BY <1>1, <1>7 DEF ResolveReview, TypeOK, ReviewRow
    <2> QED  BY <1>1, <1>7, <2>1, ReviewedTruthful DEF ResolveReview
  <1>8. ASSUME NEW r \in Reviews, NEW p \in HumanProjects, ResolveReviewInterrupted(r, p)
        PROVE  Truthful'
    BY <1>1, <1>8, ReviewedTruthful DEF ResolveReviewInterrupted
  <1>9. ASSUME NEW i \in Integrations, NEW enabled \in BOOLEAN, NEW configured \in BOOLEAN,
               RegisterIntegration(i, enabled, configured)
        PROVE  Truthful'
    BY <1>2, <1>9 DEF RegisterIntegration
  <1>10. ASSUME NEW r \in Reviews, CreateReview(r)
         PROVE  Truthful'
    <2>1. \A x \in Reviews : /\ reviews'[x].key = reviews[x].key
                             /\ reviews'[x].state # "pending" => reviews'[x].state = reviews[x].state
      BY <1>1, <1>10 DEF CreateReview, TypeOK, ReviewRow
    <2>2. assignments' = assignments /\ tickets' = tickets
      BY <1>10 DEF CreateReview
    <2> QED  BY <1>1, <2>1, <2>2, RestTruthful DEF Truthful, TicketsExist
  <1>11. CASE Prune
    BY <1>2, <1>11 DEF Prune
  <1>12. ASSUME NEW i \in Integrations, ClearHistory(i)
         PROVE  Truthful'
    BY <1>2, <1>12 DEF ClearHistory
  <1>13. ASSUME NEW t \in Tickets, NEW s \in ForeignStatuses, AddTicket(t, s)
         PROVE  Truthful'
    <2> DEFINE added == [status |-> s, activity |-> None, title |-> HumanText, project |-> Unassigned]
    <2>1. /\ tickets[t] = None /\ tickets' = [tickets EXCEPT ![t] = added]
          /\ assignments' = assignments /\ reviews' = reviews
      BY <1>13 DEF AddTicket
    <2>2. \A u \in Tickets : tickets'[u] = tickets[u] \/ u = t
      BY <1>1, <2>1 DEF TypeOK
    <2>3. \A a \in Assignments : Known(a) => tickets'[assignments[a].ticket] # None
      BY <1>1, <2>1, <2>2 DEF Truthful, TicketsExist, TypeOK, Known, AssignmentRow
    <2> QED  BY <1>1, <2>1, <2>3, RestTruthful
  <1>14. ASSUME NEW t \in Tickets, NEW s \in ForeignStatuses, ReconcileTicket(t, s)
         PROVE  Truthful'
    <2>1. assignments' = assignments /\ reviews' = reviews
      BY <1>14 DEF ReconcileTicket
    <2>2. tickets[t] \in TicketRow /\ s \in TicketStatuses
      BY <1>1, <1>14, ConstantTypes DEF ReconcileTicket, TypeOK
    <2>3. [tickets[t] EXCEPT !.status = s, !.title = HumanText] \in TicketRow
      BY <2>2 DEF TicketRow, Texts
    <2>4. tickets' = [tickets EXCEPT ![t] = [tickets[t] EXCEPT !.status = s, !.title = HumanText]]
      BY <1>14, <2>2 DEF ReconcileTicket, TicketRow
    <2>5. tickets'[t] # None /\ \A u \in Tickets \ {t} : tickets'[u] = tickets[u]
      BY <1>1, <2>3, <2>4, NoneIsNoValue DEF TypeOK
    <2>6. \A a \in Assignments : Known(a) => tickets'[assignments[a].ticket] # None
      BY <1>1, <2>5 DEF Truthful, TicketsExist, TypeOK, Known, AssignmentRow
    <2> QED  BY <1>1, <2>1, <2>6, RestTruthful
  <1>15. ASSUME NEW t \in Tickets, NEW copy \in Edits, EditTicket(t, copy)
         PROVE  Truthful'
    <2>1. copy # None /\ assignments' = assignments /\ reviews' = reviews
      BY <1>15, ConstantTypes, NoneIsNoValue DEF EditTicket
    <2>2. \A u \in Tickets : tickets[u] # None => tickets'[u] # None
      BY <1>1, <1>15, <2>1 DEF EditTicket, TypeOK
    <2>3. \A a \in Assignments : Known(a) => tickets'[assignments[a].ticket] # None
      BY <1>1, <2>2 DEF Truthful, TicketsExist, TypeOK, Known, AssignmentRow
    <2> QED  BY <1>1, <2>1, <2>3, RestTruthful
  <1>16. ASSUME NEW t \in Tickets, RemoveTicket(t)
         PROVE  Truthful'
    <2>1. assignments' = assignments /\ reviews' = reviews
      BY <1>16 DEF RemoveTicket
    <2>2. \A a \in Assignments : Known(a) => tickets'[assignments[a].ticket] = tickets[assignments[a].ticket]
      BY <1>1, <1>16 DEF RemoveTicket, TypeOK, Known, AssignmentRow
    <2>3. \A a \in Assignments : Known(a) => tickets'[assignments[a].ticket] # None
      BY <2>2 DEF Truthful, TicketsExist
    <2> QED  BY <1>1, <2>1, <2>3, RestTruthful
  <1>17. CASE UNCHANGED vars
    BY <1>2, <1>17 DEF vars
  <1> QED
    BY <1>3, <1>4, <1>5, <1>6, <1>7, <1>8, <1>9, <1>10, <1>11, <1>12, <1>13, <1>14, <1>15, <1>16,
       <1>17 DEF Next

\* The stronger invariant, of the rows, the reviews and the tickets together.
THEOREM StoreTruthful == Spec => []Truthful
  <1>1. Init => TicketsExist /\ ChoicesKept /\ BoundReviewsKnown /\ DecisionBeforeClosing
    BY DEF Init, TicketsExist, ChoicesKept, BoundReviewsKnown, DecisionBeforeClosing, Known
  <1>2. Init => Truthful
    <2>1. Init => Consistent
      BY DEF Init, Consistent, TypeOK, ReviewRow, StoredWellFormed, Stored, UniqueEvents, GapFree,
             LastEventRetained, TerminalAgrees, TerminalEventIsLast, Known
    <2> QED  BY <1>1, <2>1 DEF Truthful
  <1>3. Truthful /\ [Next]_vars => Truthful'
    BY TruthfulPreserved
  <1> QED  BY <1>2, <1>3, PTL DEF Spec

\* A review is closed only after its assignment carries the decision, also when the companion
\* dies between the two transactions of a resolution.
THEOREM DecisionsComeFirst == Spec => []DecisionBeforeClosing
  BY StoreTruthful, PTL DEF Truthful

\* What TicketsStayTrue says of one assignment.
StaysTrue(a) ==
  /\ OwnsTicket(a) /\ OwnsTicket(a)' /\ ~IsEdited(DefaultTicket[a]) =>
       /\ SaysState(a) \/ Hears(a) \/ assignments'[a].policy # assignments[a].policy => SaysState(a)'
       /\ SaysSummary(a) \/ Hears(a) => SaysSummary(a)'
       /\ SaysProject(a) \/ Hears(a) => SaysProject(a)'
  /\ ~Known(a) /\ tickets[DefaultTicket[a]] = None /\ OwnsTicket(a)' =>
       (SaysState(a) /\ SaysSummary(a) /\ SaysProject(a))'

\* A step that changes neither the row nor the ticket it owns.
LEMMA AtRestStaysTrue ==
  ASSUME NEW a \in Assignments, assignments'[a] = assignments[a],
         OwnsTicket(a) /\ OwnsTicket(a)' /\ ~IsEdited(DefaultTicket[a]) =>
           tickets'[DefaultTicket[a]] = tickets[DefaultTicket[a]]
  PROVE  StaysTrue(a)
  <1>1. ~(~Known(a) /\ OwnsTicket(a)')
    BY DEF OwnsTicket, Known
  <1>2. ~Hears(a) /\ assignments'[a].policy = assignments[a].policy
    BY DEF Hears
  <1>3. ASSUME OwnsTicket(a), OwnsTicket(a)', ~IsEdited(DefaultTicket[a])
        PROVE  /\ SaysState(a) => SaysState(a)'
               /\ SaysSummary(a) => SaysSummary(a)'
               /\ SaysProject(a) => SaysProject(a)'
    BY <1>3 DEF SaysState, SaysSummary, SaysProject
  <1> QED  BY <1>1, <1>2, <1>3 DEF StaysTrue

\* Creating an assignment, with a ticket of its own or with another's.
LEMMA CreateStaysTrue ==
  ASSUME Truthful, NEW m \in Messages, CreateFirst(m), NEW a \in Assignments
  PROVE  StaysTrue(a)
  <1> DEFINE row == FirstRow(m)
             t == TicketFor(m)
  <1>1. TypeOK /\ m \in Message /\ m.key \in Assignments /\ ~Known(m.key)
    BY CreateVerdict, ConstantTypes DEF CreateFirst, Message, Truthful, Consistent
  <1>2. /\ row \in AssignmentRow /\ t \in Tickets /\ row.ticket = t /\ row.policy = "follow"
        /\ row.summaryOwner = "source" /\ row.projectOwner = "source"
    BY <1>1, FirstRowType DEF FirstRow
  <1>3. /\ assignments'[m.key] = row /\ Known(m.key)'
        /\ \A b \in Assignments \ {m.key} : assignments'[b] = assignments[b]
    BY <1>1, <1>2, NoneIsNoValue DEF CreateFirst, TypeOK, Known
  <1>4. /\ \A u \in Tickets \ {t} : tickets'[u] = tickets[u]
        /\ tickets[t] = None => tickets'[t] = TicketOf(row)
    BY <1>1, <1>2 DEF CreateFirst, TypeOK
  <1> HIDE DEF row, t
  <1>5. CASE a = m.key
    <2>1. ~OwnsTicket(a)
      BY <1>1, <1>5 DEF OwnsTicket
    <2>2. ASSUME tickets[DefaultTicket[a]] = None, OwnsTicket(a)'
          PROVE  (SaysState(a) /\ SaysSummary(a) /\ SaysProject(a))'
      <3>1. DefaultTicket[a] = t
        BY <1>2, <1>3, <1>5, <2>2 DEF OwnsTicket
      <3>2. tickets'[DefaultTicket[a]] = TicketOf(row) /\ assignments'[a] = row
        BY <1>3, <1>4, <1>5, <2>2, <3>1
      <3> QED  BY <1>2, <3>2 DEF SaysState, SaysSummary, SaysProject, TicketOf
    <2> QED  BY <2>1, <2>2 DEF StaysTrue
  <1>6. CASE a # m.key
    <2>1. OwnsTicket(a)' => t # DefaultTicket[a]
      BY <1>1, <1>2, <1>3, <1>6 DEF OwnsTicket
    <2>2. DefaultTicket[a] \in Tickets
      BY ConstantTypes
    <2> QED  BY <1>3, <1>4, <1>6, <2>1, <2>2, AtRestStaysTrue
  <1> QED  BY <1>5, <1>6

\* An event that is heard makes the whole ticket true; one of an assignment at rest leaves it.
LEMMA ApplyStaysTrue ==
  ASSUME Truthful, NEW m \in Messages, Apply(m), NEW a \in Assignments
  PROVE  StaysTrue(a)
  <1> DEFINE k == m.key
             row == assignments[k]
             new == assignments'[k]
  <1>1. /\ k \in Assignments /\ Known(k) /\ Known(k)' /\ row \in AssignmentRow
        /\ row.policy # "closed" /\ new.ticket = row.ticket /\ new.policy = row.policy
        /\ new.summaryOwner = row.summaryOwner /\ new.projectOwner = row.projectOwner
        /\ new.summaryOwner = "human" => new.summary = row.summary
        /\ new.projectOwner = "human" => new.project = row.project
        /\ \A b \in Assignments \ {k} : assignments'[b] = assignments[b]
        /\ tickets' = IF row.policy = "follow" THEN [tickets EXCEPT ![row.ticket] = TicketOf(new)]
                      ELSE tickets
    BY ApplyTicket DEF Truthful
  <1>2. TypeOK /\ row.ticket \in Tickets
    BY <1>1 DEF Truthful, Consistent, AssignmentRow
  <1>3. /\ \A u \in Tickets \ {row.ticket} : tickets'[u] = tickets[u]
        /\ row.policy = "follow" => tickets'[row.ticket] = TicketOf(new)
        /\ row.policy # "follow" => tickets'[row.ticket] = tickets[row.ticket]
    BY <1>1, <1>2 DEF TypeOK
  <1>4. CASE a = k
    <2>1. ASSUME OwnsTicket(a)
          PROVE  /\ SaysState(a) \/ Hears(a) \/ new.policy # row.policy => SaysState(a)'
                 /\ SaysSummary(a) \/ Hears(a) => SaysSummary(a)'
                 /\ SaysProject(a) \/ Hears(a) => SaysProject(a)'
      <3>1. row.ticket = DefaultTicket[a]
        BY <1>4, <2>1 DEF OwnsTicket
      <3>2. CASE row.policy = "follow"
        BY <1>3, <1>4, <3>1, <3>2 DEF SaysState, SaysSummary, SaysProject, TicketOf
      <3>3. CASE row.policy # "follow"
        <4>1. ~Hears(a) /\ SaysState(a)'
          BY <1>1, <1>4, <3>3 DEF Hears, SaysState
        <4> QED  BY <1>1, <1>3, <1>4, <3>1, <3>3, <4>1 DEF SaysSummary, SaysProject
      <3> QED  BY <3>2, <3>3
    <2>2. Known(a)
      BY <1>1, <1>4
    <2> QED  BY <1>4, <2>1, <2>2 DEF StaysTrue
  <1>5. CASE a # k
    <2>1. OwnsTicket(a) => row.ticket # DefaultTicket[a]
      BY <1>1, <1>5 DEF OwnsTicket
    <2>2. DefaultTicket[a] \in Tickets
      BY ConstantTypes
    <2> QED  BY <1>1, <1>3, <1>5, <2>1, <2>2, AtRestStaysTrue
  <1> QED  BY <1>4, <1>5

\* A person's change of the assignment.
LEMMA OverrideStaysTrue ==
  ASSUME Truthful, NEW k \in Assignments, NEW input \in Override, NEW v,
         UpdateHumanOverride(k, input, v), NEW a \in Assignments
  PROVE  StaysTrue(a)
  <1> DEFINE row == assignments[k]
             new == assignments'[k]
             ticket == tickets[row.ticket]
  <1>1. /\ Known(k) /\ Known(k)' /\ row \in AssignmentRow /\ ticket \in TicketRow
        /\ new = Overridden(row, input)
        /\ \A b \in Assignments \ {k} : assignments'[b] = assignments[b]
        /\ tickets' = [tickets EXCEPT ![row.ticket] = OverriddenTicket(ticket, row, input)]
        /\ tickets'[row.ticket] = OverriddenTicket(ticket, row, input)
    BY OverrideTicket DEF Truthful
  <1>2. TypeOK /\ row.ticket \in Tickets
    BY <1>1 DEF Truthful, Consistent, AssignmentRow
  <1>3. \A u \in Tickets \ {row.ticket} : tickets'[u] = tickets[u]
    BY <1>1, <1>2 DEF TypeOK
  <1>4. CASE a = k
    <2>1. ASSUME OwnsTicket(a)
          PROVE  /\ SaysState(a) \/ Hears(a) \/ new.policy # row.policy => SaysState(a)'
                 /\ SaysSummary(a) \/ Hears(a) => SaysSummary(a)'
                 /\ SaysProject(a) \/ Hears(a) => SaysProject(a)'
      <3>1. row.ticket = DefaultTicket[a]
        BY <1>4, <2>1 DEF OwnsTicket
      <3>2. ~Hears(a)
        BY <1>1, <1>4 DEF Hears, Overridden
      <3>3. ASSUME SaysState(a) \/ new.policy # row.policy, new.policy \in {"follow", "closed"}
            PROVE  /\ tickets'[row.ticket].status = CompatibleTicketStatus(new.state)
                   /\ tickets'[row.ticket].activity = new.state
        <4>1. CASE Closes(row, input) \/ Resumes(row, input)
          BY <1>1, <4>1 DEF OverriddenTicket
        <4>2. CASE ~Closes(row, input) /\ ~Resumes(row, input)
          <5>1. new.policy = row.policy /\ new.policy = "follow" /\ new.state = row.state
            BY <1>1, <3>3, <4>2 DEF Overridden, PolicyAfter, Closes, Resumes
          <5>2. ticket.status = CompatibleTicketStatus(row.state) /\ ticket.activity = row.state
            BY <1>4, <3>1, <3>3, <5>1 DEF SaysState
          <5> QED  BY <1>1, <4>2, <5>1, <5>2 DEF OverriddenTicket
        <4> QED  BY <4>1, <4>2
      <3>4. SaysState(a) \/ new.policy # row.policy => SaysState(a)'
        BY <1>4, <3>1, <3>3 DEF SaysState
      <3>5. SaysSummary(a) => SaysSummary(a)'
        BY <1>1, <1>4, <3>1 DEF SaysSummary, Overridden, OverriddenTicket
      <3>6. SaysProject(a) => SaysProject(a)'
        BY <1>1, <1>4, <3>1 DEF SaysProject, Overridden, OverriddenTicket
      <3> QED  BY <3>2, <3>4, <3>5, <3>6
    <2>2. Known(a)
      BY <1>1, <1>4
    <2> QED  BY <1>4, <2>1, <2>2 DEF StaysTrue
  <1>5. CASE a # k
    <2>1. OwnsTicket(a) => row.ticket # DefaultTicket[a]
      BY <1>1, <1>5 DEF OwnsTicket
    <2>2. DefaultTicket[a] \in Tickets
      BY ConstantTypes
    <2> QED  BY <1>1, <1>3, <1>5, <2>1, <2>2, AtRestStaysTrue
  <1> QED  BY <1>4, <1>5

\* A step on a ticket that is nobody's own, or that a person edits.
LEMMA TicketStaysTrue ==
  ASSUME Truthful, NEW t \in Tickets, assignments' = assignments,
         \A u \in Tickets \ {t} : tickets'[u] = tickets[u],
         \A b \in Assignments : OwnsTicket(b) => DefaultTicket[b] # t \/ IsEdited(t),
         NEW a \in Assignments
  PROVE  StaysTrue(a)
  <1>1. DefaultTicket[a] \in Tickets /\ assignments'[a] = assignments[a]
    BY ConstantTypes
  <1> QED  BY <1>1, AtRestStaysTrue

\* Every step of anyone.
LEMMA StepsStayTrue ==
  ASSUME Truthful, [Next]_vars, NEW a \in Assignments
  PROVE  StaysTrue(a)
  <1>1. TypeOK /\ DefaultTicket[a] \in Tickets
    BY ConstantTypes DEF Truthful, Consistent
  <1>2. ASSUME UNCHANGED <<assignments, tickets>>
        PROVE  StaysTrue(a)
    BY <1>2, AtRestStaysTrue
  <1>3. ASSUME NEW b \in Assignments, OwnsTicket(b)
        PROVE  /\ Known(b) /\ assignments[b].ticket = DefaultTicket[b]
               /\ tickets[DefaultTicket[b]] # None
    BY <1>3 DEF OwnsTicket, Truthful, TicketsExist
  <1>4. ASSUME NEW k \in Assignments, NEW input \in Overrides, NEW v \in 1..MaxVersion,
               HumanOverride(k, input, v)
        PROVE  StaysTrue(a)
    <2>1. input \in Override
      BY ConstantTypes
    <2> QED  BY <1>4, <2>1, OverrideStaysTrue DEF HumanOverride
  <1>5. ASSUME NEW r \in Reviews, NEW p \in HumanProjects, ReviewedProject(r, p)
        PROVE  StaysTrue(a)
    <2>1. CASE reviews[r].key = None
      BY <1>2, <1>5, <2>1 DEF ReviewedProject
    <2>2. CASE reviews[r].key # None
      <3> DEFINE input == [summary |-> None, policy |-> None, project |-> p]
      <3>1. reviews[r].key \in Assignments
        BY <1>1, <2>2 DEF TypeOK, ReviewRow
      <3>2. input \in Override
        BY DEF Override
      <3>3. UpdateHumanOverride(reviews[r].key, input, assignments[reviews[r].key].version)
        BY <1>5, <2>2 DEF ReviewedProject
      <3> HIDE DEF input
      <3> QED  BY <3>1, <3>2, <3>3, OverrideStaysTrue
    <2> QED  BY <2>1, <2>2
  <1>6. ASSUME NEW t \in Tickets, NEW s \in ForeignStatuses, AddTicket(t, s)
        PROVE  StaysTrue(a)
    <2>1. assignments' = assignments /\ \A u \in Tickets \ {t} : tickets'[u] = tickets[u]
      BY <1>1, <1>6 DEF AddTicket, TypeOK
    <2>2. \A b \in Assignments : OwnsTicket(b) => DefaultTicket[b] # t
      BY <1>3, <1>6 DEF AddTicket
    <2> QED  BY <2>1, <2>2, TicketStaysTrue
  <1>7. ASSUME NEW t \in Tickets, NEW s \in ForeignStatuses, ReconcileTicket(t, s)
        PROVE  StaysTrue(a)
    <2>1. assignments' = assignments /\ \A u \in Tickets \ {t} : tickets'[u] = tickets[u]
      BY <1>1, <1>7 DEF ReconcileTicket, TypeOK
    <2>2. \A b \in Assignments : DefaultTicket[b] # t
      BY <1>7 DEF ReconcileTicket
    <2> QED  BY <2>1, <2>2, TicketStaysTrue
  <1>8. ASSUME NEW t \in Tickets, NEW copy \in Edits, EditTicket(t, copy)
        PROVE  StaysTrue(a)
    <2>1. assignments' = assignments /\ \A u \in Tickets \ {t} : tickets'[u] = tickets[u]
      BY <1>1, <1>8 DEF EditTicket, TypeOK
    <2>2. IsEdited(t)
      BY <1>8 DEF IsEdited
    <2> QED  BY <2>1, <2>2, TicketStaysTrue
  <1>9. ASSUME NEW t \in Tickets, RemoveTicket(t)
        PROVE  StaysTrue(a)
    <2>1. assignments' = assignments /\ \A u \in Tickets \ {t} : tickets'[u] = tickets[u]
      BY <1>1, <1>9 DEF RemoveTicket, TypeOK
    <2>2. \A b \in Assignments : OwnsTicket(b) => DefaultTicket[b] # t
      BY <1>3, <1>9 DEF RemoveTicket
    <2> QED  BY <2>1, <2>2, TicketStaysTrue
  <1>10. ASSUME NEW m \in Messages, CreateFirst(m) \/ Hold(m) \/ Apply(m)
         PROVE  StaysTrue(a)
    BY <1>2, <1>10, CreateStaysTrue, ApplyStaysTrue DEF Hold
  <1>11. ASSUME NEW r \in Reviews, NEW p \in HumanProjects,
                ResolveReview(r, p) \/ ResolveReviewInterrupted(r, p)
         PROVE  StaysTrue(a)
    BY <1>5, <1>11 DEF ResolveReview, ResolveReviewInterrupted
  <1>12. ASSUME NEW i \in Integrations, NEW enabled \in BOOLEAN, NEW configured \in BOOLEAN,
                RegisterIntegration(i, enabled, configured) \/ ClearHistory(i)
         PROVE  StaysTrue(a)
    BY <1>2, <1>12 DEF RegisterIntegration, ClearHistory
  <1>13. ASSUME NEW r \in Reviews, CreateReview(r)
         PROVE  StaysTrue(a)
    BY <1>2, <1>13 DEF CreateReview
  <1>14. CASE Prune \/ UNCHANGED vars
    BY <1>2, <1>14 DEF Prune, vars
  <1> QED
    BY <1>4, <1>6, <1>7, <1>8, <1>9, <1>10, <1>11, <1>12, <1>13, <1>14 DEF Next

\* A person's summary and project stay on the row whatever is reported later, and of all steps
\* only a person's edit of the ticket itself makes a ticket that one assignment owns say what is
\* not so: each event that is heard, and each change of policy, makes it true again.
THEOREM TicketsShowTheTruth == Spec => TicketsAreTruthful
  <1>1. Truthful => RowsKeepChoices
    BY DEF Truthful, TicketsExist, ChoicesKept, RowsKeepChoices
  <1>2. Truthful /\ [Next]_vars => TicketsStayTrue
    BY StepsStayTrue DEF TicketsStayTrue, StaysTrue
  <1> QED  BY <1>1, <1>2, StoreTruthful, PTL DEF Spec, TicketsAreTruthful
-----------------------------------------------------------------------------
(* The desktop program.                                                    *)

\* What the controller says of the companion, in an operation and between two.
HostFits ==
  /\ operation = None => /\ companion \in {"stopped", "healthy", "failed"}
                         /\ server = IF companion = "healthy" THEN "up" ELSE "down"
  /\ operation = "start" => companion = "starting" /\ server \in {"opening", "up"}
  /\ operation = "stop" => companion = "stopping" /\ server \in {"closing", "down"}
  /\ hosted <=> server = "up"
  /\ phase = "healthy" => companion = "healthy"

\* The window waits for one command, the caller of an operation or none.
WindowFits ==
  /\ "window" \in after => window = "start"
  /\ "activate" \in after => activation # None /\ activation.step = "quiesce"
  /\ activation # None => window = "activate"
  /\ download # None => window = "download"
  /\ ~accepted => window = None

\* Nothing is left of a process that ended.
ProcessFits ==
  process = "down" =>
    /\ operation = None /\ after = {} /\ companion = "stopped"
    /\ booting = None /\ window = None /\ release = None /\ update.state = "idle"
    /\ checking = 0 /\ download = None /\ activation = None

\* An artifact that passed the checks, of a release newer than what is installed.
Approved(artifact) ==
  /\ artifact \in Artifact /\ artifact.intact
  /\ artifact.version \in Signed /\ artifact.version > installed

\* What is ready or being activated is what was fetched last.
UpdateFits ==
  /\ release # None => release > installed
  /\ update.state = "ready" \/ activation # None => fetched = verified /\ Approved(verified)

\* The inductive invariant.
Lawful ==
  /\ LifecycleTypeOK
  /\ HostFits
  /\ WindowFits
  /\ ProcessFits
  /\ UpdateFits
  /\ HealthyRecordIsInstalled

\* The update states the controller shows as phases of its own, by name.
LEMMA UpdatePhaseNames ==
  /\ UpdatePhases = {"update-available", "update-downloading", "update-ready", "updating"}
  /\ DOMAIN UpdatePhase = {"available", "downloading", "ready", "activating"}
  /\ UpdatePhase["available"] = "update-available"
  /\ UpdatePhase["downloading"] = "update-downloading"
  /\ UpdatePhase["ready"] = "update-ready"
  /\ UpdatePhase["activating"] = "updating"
  BY DEF UpdatePhases, UpdatePhase

\* What the controller says of the companion stays so.
LEMMA HostStays ==
  ASSUME Lawful, LifecycleNext
  PROVE  HostFits'
  <1> USE DEF LifecycleTypeOK, HostFits, ProcessFits, controllerVars, hostVars
  <1>1. LifecycleTypeOK /\ HostFits /\ ProcessFits
    BY DEF Lawful
  <1>2. CASE Start
    BY <1>1, <1>2, LifecycleConstants DEF Start, Serialize, Answers
  <1>3. ASSUME NEW caller \in {{}, {"restart"}}, Stop(caller) PROVE HostFits'
    BY <1>1, <1>3, LifecycleConstants DEF Stop, Serialize, Answers
  <1>4. CASE Started
    BY <1>1, <1>4, LifecycleConstants DEF Started, Resume
  <1>5. CASE StartFails
    BY <1>1, <1>5, LifecycleConstants DEF StartFails, Resume
  <1>6. CASE Closed
    BY <1>1, <1>6, LifecycleConstants DEF Closed, Resume
  <1>7. CASE Boot
    BY <1>1, <1>7, LifecycleConstants DEF Boot, FreshProcess
  <1>8. CASE AcceptDisclosure
    BY <1>1, <1>8, LifecycleConstants DEF AcceptDisclosure, Answers
  <1>9. CASE Adopted
    BY <1>1, <1>9, LifecycleConstants DEF Adopted, Serialize, Answers
  <1>10. CASE Quit
    BY <1>1, <1>10, LifecycleConstants DEF Quit, Serialize
  <1>11. CASE Exit
    BY <1>1, <1>11, LifecycleConstants DEF Exit, ProcessEnds, FreshProcess
  <1>12. CASE Dies
    BY <1>1, <1>12, LifecycleConstants DEF Dies, ProcessEnds, FreshProcess
  <1>13. CASE Install
    BY <1>1, <1>13, LifecycleConstants DEF Install, ProcessEnds, FreshProcess
  <1>14. CASE Check \/ Checked
    BY <1>1, <1>14, UpdatePhaseNames, LifecycleConstants DEF Check, SetUpdate, Shown, Answers,
          Checked
  <1>15. CASE StartDownload
    BY <1>1, <1>15, UpdatePhaseNames, LifecycleConstants DEF StartDownload, SetUpdate, Shown,
          Answers
  <1>16. CASE EndDownload
    BY <1>1, <1>16, UpdatePhaseNames, LifecycleConstants DEF EndDownload, Fetched, NotFetched,
          DownloadFails, Verifies, SetUpdate, Shown
  <1>17. CASE Activate
    BY <1>1, <1>17, UpdatePhaseNames, LifecycleConstants DEF Activate, SetUpdate, Shown,
          Serialize, Answers
  <1>18. CASE ActivationFails
    BY <1>1, <1>18, UpdatePhaseNames, LifecycleConstants DEF ActivationFails, SetUpdate, Shown
  <1> QED  BY <1>1, <1>2, <1>3, <1>4, <1>5, <1>6, <1>7, <1>8, <1>9, <1>10, <1>11, <1>12, <1>13,
          <1>14, <1>15, <1>16, <1>17, <1>18 DEF LifecycleNext, RequestArrives, RequestEnds, Reconcile,
          Show, AbortDownload, BackUp, Prepare

\* The window goes on to wait for one command at most.
LEMMA WindowStays ==
  ASSUME Lawful, LifecycleNext
  PROVE  WindowFits'
  <1> USE DEF LifecycleTypeOK, WindowFits, ProcessFits, Activation, controllerVars, windowVars,
              updateVars
  <1>1. LifecycleTypeOK /\ WindowFits /\ ProcessFits
    BY DEF Lawful
  <1>2. CASE Start
    BY <1>1, <1>2, LifecycleConstants, NoneIsNoActivation DEF Start, Serialize, Answers
  <1>3. ASSUME NEW caller \in {{}, {"restart"}}, Stop(caller) PROVE WindowFits'
    BY <1>1, <1>3, LifecycleConstants, NoneIsNoActivation DEF Stop, Serialize, Answers
  <1>4. CASE Started \/ StartFails \/ Closed
    BY <1>1, <1>4, LifecycleConstants, NoneIsNoActivation DEF Started, Resume, StartFails,
          Closed
  <1>5. CASE Boot
    BY <1>1, <1>5, LifecycleConstants, NoneIsNoActivation DEF Boot, FreshProcess
  <1>6. CASE AcceptDisclosure
    BY <1>1, <1>6, LifecycleConstants, NoneIsNoActivation DEF AcceptDisclosure, Answers
  <1>7. CASE Adopted
    BY <1>1, <1>7, LifecycleConstants, NoneIsNoActivation DEF Adopted, Serialize, Answers
  <1>8. CASE Quit
    BY <1>1, <1>8, LifecycleConstants, NoneIsNoActivation DEF Quit, Serialize
  <1>9. CASE Exit \/ Dies \/ Install
    BY <1>1, <1>9, LifecycleConstants, NoneIsNoActivation DEF Exit, ProcessEnds, FreshProcess,
          Dies, Install
  <1>10. CASE StartDownload
    BY <1>1, <1>10, UpdatePhaseNames, LifecycleConstants, NoneIsNoActivation DEF StartDownload,
          SetUpdate, Shown, Answers
  <1>11. CASE EndDownload
    BY <1>1, <1>11, UpdatePhaseNames, LifecycleConstants, NoneIsNoActivation DEF EndDownload,
          Fetched, NotFetched, DownloadFails, Verifies, SetUpdate, Shown
  <1>12. CASE Activate
    BY <1>1, <1>12, UpdatePhaseNames, LifecycleConstants, NoneIsNoActivation DEF Activate,
          SetUpdate, Shown, Serialize, Answers
  <1>13. CASE ActivationFails
    BY <1>1, <1>13, UpdatePhaseNames, LifecycleConstants, NoneIsNoActivation DEF
          ActivationFails, SetUpdate, Shown
  <1> QED  BY <1>1, <1>2, <1>3, <1>4, <1>5, <1>6, <1>7, <1>8, <1>9, <1>10, <1>11, <1>12, <1>13
          DEF LifecycleNext, RequestArrives, RequestEnds, Reconcile, Check, Checked, Show, AbortDownload,
          BackUp, Prepare

\* A process that ended leaves nothing behind.
LEMMA ProcessStays ==
  ASSUME Lawful, LifecycleNext
  PROVE  ProcessFits'
  <1> USE DEF LifecycleTypeOK, ProcessFits, controllerVars, windowVars, updateVars
  <1>1. LifecycleTypeOK /\ ProcessFits
    BY DEF Lawful
  <1>2. CASE Start
    BY <1>1, <1>2, LifecycleConstants DEF Start, Serialize, Answers
  <1>3. ASSUME NEW caller \in {{}, {"restart"}}, Stop(caller) PROVE ProcessFits'
    BY <1>1, <1>3, LifecycleConstants DEF Stop, Serialize, Answers
  <1>4. CASE Started
    BY <1>1, <1>4, LifecycleConstants DEF Started, Resume
  <1>5. CASE StartFails
    BY <1>1, <1>5, LifecycleConstants DEF StartFails, Resume
  <1>6. CASE Closed
    BY <1>1, <1>6, LifecycleConstants DEF Closed, Resume
  <1>7. CASE Boot
    BY <1>1, <1>7, LifecycleConstants DEF Boot, FreshProcess
  <1>8. CASE Adopted
    BY <1>1, <1>8, LifecycleConstants DEF Adopted, Serialize, Answers
  <1>9. CASE AcceptDisclosure
    BY <1>1, <1>9, LifecycleConstants DEF AcceptDisclosure, Answers
  <1>10. CASE Quit
    BY <1>1, <1>10, LifecycleConstants DEF Quit, Serialize
  <1>11. CASE Exit \/ Dies \/ Install
    BY <1>1, <1>11, LifecycleConstants DEF Exit, ProcessEnds, FreshProcess, Dies, Install
  <1>12. CASE Check
    BY <1>1, <1>12, UpdatePhaseNames, LifecycleConstants DEF Check, SetUpdate, Shown, Answers
  <1>13. CASE Checked
    BY <1>1, <1>13, UpdatePhaseNames, LifecycleConstants DEF Checked, SetUpdate, Shown
  <1>14. CASE StartDownload
    BY <1>1, <1>14, UpdatePhaseNames, LifecycleConstants DEF StartDownload, SetUpdate, Shown,
          Answers
  <1>15. CASE EndDownload
    BY <1>1, <1>15, UpdatePhaseNames, LifecycleConstants DEF EndDownload, Fetched, NotFetched,
          DownloadFails, Verifies, SetUpdate, Shown
  <1>16. CASE Activate
    BY <1>1, <1>16, UpdatePhaseNames, LifecycleConstants DEF Activate, SetUpdate, Shown,
          Serialize, Answers
  <1>17. CASE ActivationFails
    BY <1>1, <1>17, UpdatePhaseNames, LifecycleConstants DEF ActivationFails, SetUpdate, Shown
  <1>18. CASE Show \/ Reconcile
    BY <1>1, <1>18, LifecycleConstants DEF Show, Answers, Reconcile
  <1> QED  BY <1>1, <1>2, <1>3, <1>4, <1>5, <1>6, <1>7, <1>8, <1>9, <1>10, <1>11, <1>12, <1>13,
          <1>14, <1>15, <1>16, <1>17, <1>18 DEF LifecycleNext, RequestArrives, RequestEnds,
          AbortDownload, BackUp, Prepare

\* What is ready or being activated stays what was fetched and approved.
LEMMA UpdateStays ==
  ASSUME Lawful, LifecycleNext
  PROVE  UpdateFits'
  <1> USE DEF LifecycleTypeOK, UpdateFits, WindowFits, ProcessFits, Approved, Artifact, updateVars,
              diskVars
  <1>1. LifecycleTypeOK /\ UpdateFits /\ WindowFits /\ ProcessFits
    BY DEF Lawful
  <1>2. CASE Started \/ StartFails \/ Closed
    BY <1>1, <1>2 DEF Started, Resume, StartFails, Closed
  <1>3. CASE Boot
    BY <1>1, <1>3 DEF Boot, FreshProcess
  <1>4. CASE Exit \/ Dies \/ Install
    BY <1>1, <1>4 DEF Exit, ProcessEnds, FreshProcess, Dies, Install
  <1>5. CASE Check
    BY <1>1, <1>5, UpdatePhaseNames, LifecycleConstants DEF Check, SetUpdate, Shown, Answers
  <1>6. CASE Checked
    BY <1>1, <1>6, UpdatePhaseNames, LifecycleConstants DEF Checked, SetUpdate, Shown
  <1>7. CASE StartDownload
    BY <1>1, <1>7, UpdatePhaseNames, LifecycleConstants DEF StartDownload, SetUpdate, Shown,
          Answers
  <1>8. CASE EndDownload
    BY <1>1, <1>8, UpdatePhaseNames, LifecycleConstants DEF EndDownload, Fetched, NotFetched,
          DownloadFails, Verifies, SetUpdate, Shown
  <1>9. CASE Activate
    BY <1>1, <1>9, UpdatePhaseNames, LifecycleConstants DEF Activate, SetUpdate, Shown,
          Serialize, Answers
  <1>10. CASE ActivationFails
    BY <1>1, <1>10, UpdatePhaseNames, LifecycleConstants DEF ActivationFails, SetUpdate, Shown
  <1> QED  BY <1>1, <1>2, <1>3, <1>4, <1>5, <1>6, <1>7, <1>8, <1>9, <1>10 DEF LifecycleNext, Start, Stop,
          RequestArrives, RequestEnds, AcceptDisclosure, Adopted, Reconcile, Quit, Show,
          AbortDownload, BackUp, Prepare

\* A record that says healthy stays true.
LEMMA RecordStays ==
  ASSUME Lawful, LifecycleNext
  PROVE  HealthyRecordIsInstalled'
  <1> USE DEF LifecycleTypeOK, HealthyRecordIsInstalled, UpdateFits, Approved, Artifact, diskVars
  <1>1. LifecycleTypeOK /\ HealthyRecordIsInstalled /\ UpdateFits
    BY DEF Lawful
  <1>2. CASE Reconcile
    BY <1>1, <1>2, LifecycleConstants DEF Reconcile, Answers
  <1>3. CASE Prepare
    BY <1>1, <1>3, LifecycleConstants DEF Prepare
  <1>4. CASE Exit
    BY <1>1, <1>4, LifecycleConstants DEF Exit, ProcessEnds, FreshProcess
  <1>5. CASE Dies
    BY <1>1, <1>5, LifecycleConstants DEF Dies, ProcessEnds, FreshProcess
  <1>6. CASE Install
    <2>1. installed' \in {installed, fetched.version} /\ recovery' = recovery
      BY <1>6 DEF Install
    <2>2. fetched.version > installed
      BY <1>1, <1>6 DEF Install
    <2>3. recovery # None => recovery.target \in Nat
      BY <1>1, LifecycleConstants
    <2>4. installed \in Nat /\ installed' \in Nat
      BY <1>1, <1>6, <2>1, LifecycleConstants DEF Install
    <2>5. installed <= installed'
      BY <2>1, <2>2, <2>4
    <2>6. recovery # None /\ recovery.state = "healthy" => installed >= recovery.target
      BY <1>1
    <2> HIDE DEF LifecycleTypeOK, UpdateFits
    <2> QED  BY <2>1, <2>3, <2>4, <2>5, <2>6
  <1> QED  BY <1>1, <1>2, <1>3, <1>4, <1>5, <1>6 DEF LifecycleNext, Start, Stop, Started, StartFails,
          Closed, RequestArrives, RequestEnds, Boot, AcceptDisclosure, Adopted, Quit, Check,
          Checked, Show, StartDownload, EndDownload, AbortDownload, Activate, BackUp,
          ActivationFails


-----------------------------------------------------------------------------
(* Types.                                                                  *)

\* An operation that begins or is joined keeps the types of the controller and the host.
LEMMA SerializeTyped ==
  ASSUME LifecycleTypeOK, NEW kind \in {"start", "stop"},
         NEW caller \in SUBSET {"boot", "restart", "quit", "activate", "window"},
         Serialize(kind, caller)
  PROVE  /\ phase' \in {phase, "starting", "stopping"}
         /\ companion' \in {companion, "starting", "stopping"}
         /\ operation' \in {operation, "start", "stop"}
         /\ after' \in SUBSET {"boot", "restart", "quit", "activate", "window"}
         /\ server' \in {server, "opening", "closing"}
         /\ hosted' \in BOOLEAN
  <1>1. after \in SUBSET {"boot", "restart", "quit", "activate", "window"} /\ hosted \in BOOLEAN
    BY DEF LifecycleTypeOK
  <1>2. after \cup caller \in SUBSET {"boot", "restart", "quit", "activate", "window"}
    BY <1>1
  <1>3. CASE operation # None
    BY <1>1, <1>2, <1>3 DEF Serialize
  <1>4. CASE operation = None
    BY <1>1, <1>4 DEF Serialize
  <1> QED  BY <1>3, <1>4

\* The types of what a process that ends, or begins, holds in memory.
LEMMA FreshTyped ==
  ASSUME LifecycleTypeOK, FreshProcess
  PROVE  /\ phase' \in {"stopped", "first-run"} /\ companion' = "stopped" /\ operation' = None
         /\ after' = {} /\ server' = "down" /\ hosted' = FALSE /\ busy' = FALSE
         /\ update' \in [state : UpdateStates, target : Versions \cup {None}]
         /\ release' = None /\ verified' = None /\ fetched' = None /\ checking' = 0
         /\ download' = None /\ shown' \in UpdateStates /\ window' = None /\ activation' = None
  BY DEF FreshProcess, UpdateStates

\* A process that ends or begins keeps the types, given those of what it leaves alone.
LEMMA FreshTypesStay ==
  ASSUME LifecycleTypeOK, FreshProcess, accepted' = accepted, recovery' = recovery,
         booting' \in {None, "start", "reconcile"}, installed' \in Versions,
         process' \in {"down", "up", "quitting", "exiting"}
  PROVE  LifecycleTypeOK'
  <1>1. /\ accepted \in BOOLEAN
        /\ recovery \in [state : {"activation-pending", "healthy", "recovery-required"},
                         target : Versions] \cup {None}
    BY DEF LifecycleTypeOK
  <1>2. 0 \in 0..Checks
    BY LifecycleConstants
  <1>3. /\ phase' \in {"stopped", "first-run"} /\ companion' = "stopped" /\ operation' = None
        /\ after' = {} /\ server' = "down" /\ hosted' = FALSE /\ busy' = FALSE
    BY FreshTyped
  <1>4. /\ update' \in [state : UpdateStates, target : Versions \cup {None}]
        /\ release' = None /\ verified' = None /\ fetched' = None /\ checking' = 0
        /\ download' = None /\ shown' \in UpdateStates /\ window' = None /\ activation' = None
    BY FreshTyped
  <1> QED  BY <1>1, <1>2, <1>3, <1>4 DEF LifecycleTypeOK

\* The phase after an update state is one of the controller.
LEMMA SetUpdateTyped ==
  ASSUME LifecycleTypeOK, NEW state \in UpdateStates, NEW target \in Versions \cup {None},
         SetUpdate(state, target)
  PROVE  /\ update' \in [state : UpdateStates, target : Versions \cup {None}]
         /\ phase' \in {phase, "healthy"} \cup UpdatePhases
  <1>1. update' = [state |-> state, target |-> target]
    BY DEF SetUpdate
  <1>2. phase' \in {phase, "healthy"} \cup UpdatePhases
    BY DEF SetUpdate, Shown, UpdatePhases
  <1> QED  BY <1>1, <1>2

\* Every step keeps the types.
LEMMA TypesStay ==
  ASSUME Lawful, LifecycleNext
  PROVE  LifecycleTypeOK'
  <1> DEFINE Callers == {"boot", "restart", "quit", "activate", "window"}
  <1>1. LifecycleTypeOK /\ WindowFits /\ ProcessFits
    BY DEF Lawful
  <1>2. update.target \in Versions \cup {None} /\ update.state \in UpdateStates
    BY <1>1 DEF LifecycleTypeOK
  <1>3. {"idle", "checking", "failed", "available", "downloading", "ready", "activating"}
          \subseteq UpdateStates
    BY UpdatePhaseNames DEF UpdateStates
  <1> USE DEF LifecycleTypeOK, controllerVars, hostVars, updateVars, windowVars, diskVars
  <1>4. CASE Start
    <2>1. Serialize("start", {}) /\ {} \in SUBSET Callers
      BY <1>4 DEF Start
    <2> QED  BY <1>1, <1>4, <2>1, SerializeTyped DEF Start
  <1>5. ASSUME NEW caller \in {{}, {"restart"}}, Stop(caller) PROVE LifecycleTypeOK'
    <2>1. Serialize("stop", caller) /\ caller \in SUBSET Callers
      BY <1>5 DEF Stop
    <2> QED  BY <1>1, <1>5, <2>1, SerializeTyped DEF Stop
  <1>6. CASE Started \/ StartFails \/ Closed
    <2>1. "activate" \in after => [activation EXCEPT !.step = "backup"] \in Activation
      BY <1>1 DEF WindowFits, Activation
    <2>2. CASE Started
      BY <1>1, <2>1, <2>2 DEF Started, Resume
    <2>3. CASE StartFails
      BY <1>1, <2>1, <2>3 DEF StartFails, Resume
    <2>4. CASE Closed
      BY <1>1, <2>1, <2>4 DEF Closed, Resume
    <2> QED  BY <1>6, <2>2, <2>3, <2>4
  <1>7. CASE Boot
    <2>1. CASE FreshProcess
      <3>1. /\ booting' \in {None, "start", "reconcile"}
            /\ accepted' = accepted /\ recovery' = recovery /\ installed' = installed
            /\ process' = "up" /\ installed \in Versions
        BY <1>1, <1>7 DEF Boot
      <3> HIDE DEF LifecycleTypeOK
      <3> QED  BY <1>1, <2>1, <3>1, FreshTypesStay
    <2>2. CASE ~FreshProcess
      BY <1>1, <1>7, <2>2 DEF Boot
    <2> QED  BY <2>1, <2>2
  <1>8. CASE AcceptDisclosure
    BY <1>1, <1>8 DEF AcceptDisclosure
  <1>9. CASE Adopted
    <2>1. {"window"} \in SUBSET Callers
      OBVIOUS
    <2>2. CASE Serialize("start", {"window"})
      BY <1>1, <1>9, <2>1, <2>2, SerializeTyped DEF Adopted
    <2>3. CASE window' = None /\ UNCHANGED <<phase, companion, operation, after, server, hosted>>
      BY <1>1, <1>9, <2>3 DEF Adopted
    <2> QED  BY <1>9, <2>2, <2>3 DEF Adopted
  <1>10. CASE Reconcile
    BY <1>1, <1>10 DEF Reconcile
  <1>11. CASE Quit
    <2>1. {"quit"} \in SUBSET Callers
      OBVIOUS
    <2>2. CASE phase = "stopped"
      <3>1. /\ process' = "exiting"
            /\ UNCHANGED <<phase, companion, operation, after, server, hosted>>
            /\ UNCHANGED <<accepted, booting, busy, update, updateVars, windowVars, activation,
                           diskVars>>
        BY <1>11, <2>2 DEF Quit
      <3> QED  BY <1>1, <3>1
    <2>3. CASE phase # "stopped"
      BY <1>1, <1>11, <2>1, <2>3, SerializeTyped DEF Quit
    <2> QED  BY <2>2, <2>3
  <1>12. CASE Exit \/ Dies
    <2>1. /\ FreshProcess /\ booting' = None /\ process' = "down"
          /\ accepted' = accepted /\ recovery' = recovery /\ installed' \in Versions
      BY <1>1, <1>12 DEF Exit, Dies, ProcessEnds
    <2> HIDE DEF LifecycleTypeOK
    <2> QED  BY <1>1, <2>1, FreshTypesStay
  <1>13. CASE Install
    <2>1. installed' \in Versions
      BY <1>1, <1>13 DEF Install, Lawful, UpdateFits, Approved, Artifact
    <2>2. /\ FreshProcess /\ booting' = None /\ process' = "down"
          /\ accepted' = accepted /\ recovery' = recovery
      BY <1>13 DEF Install, ProcessEnds
    <2> HIDE DEF LifecycleTypeOK
    <2> QED  BY <1>1, <2>1, <2>2, FreshTypesStay
  <1>14. CASE Check
    <2>1. SetUpdate("checking", None) /\ "checking" \in UpdateStates
      BY <1>3, <1>14 DEF Check
    <2>2. /\ update' \in [state : UpdateStates, target : Versions \cup {None}]
          /\ phase' \in {phase, "healthy"} \cup UpdatePhases
      BY <1>1, <2>1, SetUpdateTyped
    <2>3. checking' \in 0..Checks
      BY <1>1, <1>14, LifecycleConstants DEF Check
    <2> QED  BY <1>1, <1>14, <2>2, <2>3 DEF Check
  <1>15. CASE Checked
    <2>1. checking' \in 0..Checks
      BY <1>1, <1>15, LifecycleConstants DEF Checked
    <2>2. release' \in Versions \cup {None}
      BY <1>1, <1>15 DEF Checked
    <2>3. PICK state \in UpdateStates, target \in Versions \cup {None} : SetUpdate(state, target)
      <3>1. \/ \E v \in Versions : SetUpdate("available", v)
            \/ \E s \in {"idle", "failed"} : SetUpdate(s, None)
        BY <1>15 DEF Checked
      <3>2. {"available", "idle", "failed"} \subseteq UpdateStates
        BY <1>3
      <3> QED  BY <3>1, <3>2
    <2>4. /\ update' \in [state : UpdateStates, target : Versions \cup {None}]
          /\ phase' \in {phase, "healthy"} \cup UpdatePhases
      BY <1>1, <2>3, SetUpdateTyped
    <2> QED  BY <1>1, <1>15, <2>1, <2>2, <2>4 DEF Checked
  <1>16. CASE Show
    BY <1>1, <1>2, <1>16 DEF Show
  <1>17. CASE StartDownload
    <2>1. release # None => [version |-> release, aborted |-> FALSE] \in Download
      BY <1>1 DEF Download
    <2>2. PICK state \in {"failed", "downloading"} : SetUpdate(state, update.target)
      BY <1>17 DEF StartDownload
    <2>3. /\ update' \in [state : UpdateStates, target : Versions \cup {None}]
          /\ phase' \in {phase, "healthy"} \cup UpdatePhases
      BY <1>1, <1>2, <1>3, <2>2, SetUpdateTyped
    <2>4. /\ download' \in Download \cup {None}
          /\ window' \in {None, "adopt", "start", "download", "activate"}
      BY <1>1, <1>17, <2>1 DEF StartDownload
    <2> QED  BY <1>1, <1>17, <2>3, <2>4 DEF StartDownload
  <1>18. CASE EndDownload
    <2>1. \A intact \in BOOLEAN : [version |-> download.version, intact |-> intact] \in Artifact
      BY <1>1, <1>18 DEF EndDownload, Download, Artifact
    <2>2. fetched' \in Artifact \cup {None} /\ verified' \in Artifact \cup {None}
      BY <1>1, <1>18, <2>1 DEF EndDownload, Fetched, NotFetched
    <2>3. PICK state \in {"ready", "available", "failed"} : SetUpdate(state, update.target)
      BY <1>18 DEF EndDownload, Fetched, NotFetched, DownloadFails
    <2>4. /\ update' \in [state : UpdateStates, target : Versions \cup {None}]
          /\ phase' \in {phase, "healthy"} \cup UpdatePhases
      BY <1>1, <1>2, <1>3, <2>3, SetUpdateTyped
    <2> QED  BY <1>1, <1>18, <2>2, <2>4 DEF EndDownload
  <1>19. CASE AbortDownload
    <2>1. [download EXCEPT !.aborted = TRUE] \in Download
      BY <1>1, <1>19 DEF AbortDownload, Download
    <2> QED  BY <1>1, <1>19, <2>1 DEF AbortDownload
  <1>20. CASE Activate
    <2>1. CASE verified = None \/ update.state # "ready"
      BY <1>1, <1>2, <1>3, <1>20, <2>1, SetUpdateTyped DEF Activate
    <2>2. CASE ~(verified = None \/ update.state # "ready")
      <3>1. [step |-> "quiesce", target |-> update.target] \in Activation
        BY <1>2 DEF Activation
      <3>2. [update EXCEPT !.state = "activating"]
              \in [state : UpdateStates, target : Versions \cup {None}]
        BY <1>1, <1>3
      <3>3. Serialize("stop", {"activate"}) /\ {"activate"} \in SUBSET Callers
        BY <1>20, <2>2 DEF Activate
      <3> QED  BY <1>1, <1>20, <2>2, <3>1, <3>2, <3>3, SerializeTyped DEF Activate
    <2> QED  BY <2>1, <2>2
  <1>21. CASE BackUp
    BY <1>1, <1>21 DEF BackUp, Activation
  <1>22. CASE Prepare
    BY <1>1, <1>22 DEF Prepare, Activation
  <1>23. CASE ActivationFails
    BY <1>1, <1>2, <1>3, <1>23, SetUpdateTyped DEF ActivationFails
  <1>24. CASE RequestArrives \/ RequestEnds
    <2>1. busy' \in BOOLEAN
      BY <1>24 DEF RequestArrives, RequestEnds
    <2>2. UNCHANGED <<controllerVars, server, hosted, update, updateVars, windowVars, activation,
                      diskVars, process>>
      BY <1>24 DEF RequestArrives, RequestEnds
    <2> QED  BY <1>1, <2>1, <2>2
  <1> QED  BY <1>4, <1>5, <1>6, <1>7, <1>8, <1>9, <1>10, <1>11, <1>12, <1>13, <1>14, <1>15,
              <1>16, <1>17, <1>18, <1>19, <1>20, <1>21, <1>22, <1>23, <1>24 DEF LifecycleNext

-----------------------------------------------------------------------------
(* Theorems.                                                               *)

\* The application starts with nothing in memory.
LEMMA LawfulInit ==
  ASSUME LifecycleInit
  PROVE  Lawful
  <1>1. {"idle"} \subseteq UpdateStates /\ 0 \in 0..Checks
    BY LifecycleConstants DEF UpdateStates
  <1>2. update.state = "idle" /\ update.target = None
    BY DEF LifecycleInit
  <1>3. LifecycleTypeOK
    BY <1>1 DEF LifecycleInit, LifecycleTypeOK
  <1>4. HostFits /\ ProcessFits /\ WindowFits
    BY <1>2, LifecycleConstants DEF LifecycleInit, HostFits, ProcessFits, WindowFits
  <1>5. UpdateFits /\ HealthyRecordIsInstalled
    BY <1>2 DEF LifecycleInit, UpdateFits, HealthyRecordIsInstalled
  <1> QED  BY <1>3, <1>4, <1>5 DEF Lawful

\* Every step keeps the invariant.
LEMMA LawfulStep ==
  ASSUME Lawful, [LifecycleNext]_lifecycleVars
  PROVE  Lawful'
  <1>1. CASE LifecycleNext
    BY <1>1, TypesStay, HostStays, WindowStays, ProcessStays, UpdateStays, RecordStays DEF Lawful
  <1>2. CASE UNCHANGED lifecycleVars
    BY <1>2 DEF lifecycleVars, controllerVars, hostVars, updateVars, windowVars, diskVars, Lawful, LifecycleTypeOK,
       HostFits, WindowFits, ProcessFits, UpdateFits, Approved, HealthyRecordIsInstalled
  <1> QED  BY <1>1, <1>2

\* The controller, the host, the coordinator and the window keep to their states, whatever
\* is asked of them at once and wherever the process ends.
THEOREM LifecycleTypeCorrect == LifecycleSpec => []LifecycleTypeOK
  <1>1. Lawful => LifecycleTypeOK
    BY DEF Lawful
  <1> QED  BY <1>1, LawfulInit, LawfulStep, PTL DEF LifecycleSpec

\* What the window, the tray and the recovery record say of the companion and of the
\* installed version is so.
THEOREM RecordsStayTruthful == LifecycleSpec => []RecordsAreTruthful
  <1>1. Lawful => RecordsAreTruthful
    BY LifecycleConstants DEF Lawful, HostFits, LifecycleTypeOK, RecordsAreTruthful, StatusIsTruthful
  <1> QED  BY <1>1, LawfulInit, LawfulStep, PTL DEF LifecycleSpec

\* What is installed is the artifact whose hash and signature were verified, however checks,
\* downloads and activations follow each other, for any set of releases.
THEOREM OnlyVerifiedIsInstalled == LifecycleSpec => InstallsWhatWasVerified
  <1>1. ASSUME Lawful, LifecycleNext, installed' # installed
        PROVE  fetched = verified /\ fetched.intact /\ fetched.version \in Signed
    <2>1. Install
      BY <1>1 DEF LifecycleNext, Start, Stop, Started, StartFails, Closed, RequestArrives, RequestEnds, Boot,
         AcceptDisclosure, Adopted, Reconcile, Quit, Exit, Dies, Check, Checked, Show,
         StartDownload, EndDownload, AbortDownload, Activate, BackUp, Prepare, ActivationFails,
         diskVars
    <2> QED  BY <1>1, <2>1 DEF Install, Lawful, UpdateFits, Approved
  <1>2. Lawful /\ [LifecycleNext]_lifecycleVars =>
          [installed' # installed =>
             /\ fetched = verified
             /\ fetched.intact
             /\ fetched.version \in Signed]_lifecycleVars
    BY <1>1
  <1> QED  BY <1>2, LawfulInit, LawfulStep, PTL DEF LifecycleSpec, InstallsWhatWasVerified

=============================================================================
