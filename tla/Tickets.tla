------------------------------- MODULE Tickets -------------------------------
(***************************************************************************)
(* Tickets and the history of their status: TicketLifecycleService of      *)
(* server/tickets/ticket-lifecycle-service.ts over the tables of           *)
(* server/db/operational-repository.ts, as the browser API, reconciliation *)
(* and agent activity use it.                                              *)
(*                                                                         *)
(* A ticket has no version but the time of its last change: a writer names *)
(* the time it read, and the change is refused when the row shows another. *)
(* The clock may stand still between two changes.  A PATCH request reads   *)
(* the row, awaits its body, and only then writes.                         *)
(***************************************************************************)
EXTENDS Integers, FiniteSets, Sequences, SequencesExt

CONSTANTS
  TicketIds,    \* ids of tickets
  Statuses,     \* "todo", "in-progress", "blocked", "done"
  Editors,      \* PATCH requests that may be served at once
  MaxTime,      \* bound of the model: readings of the clock
  MaxHistory,   \* bound of the model: changes of status of one ticket
  None

ASSUME TicketConstants ==
  /\ "done" \in Statuses
  /\ MaxTime \in Nat /\ MaxHistory \in Nat
  /\ None \notin Statuses /\ None \notin TicketIds /\ None \notin Nat

VARIABLES
  now,       \* the clock of the companion
  tickets,   \* the row of each ticket, or None
  history,   \* ticket_status_events of each ticket, in the order they were inserted
  edits      \* the PATCH requests that have read their ticket

ticketVars == <<now, tickets, history, edits>>

-----------------------------------------------------------------------------
Times == 0..MaxTime
Ticket == [status : Statuses, updatedAt : Times, completedAt : Times \cup {None}]
StatusEvent == [from : Statuses \cup {None}, to : Statuses, completion : Times \cup {None}]
Edit == [ticket : TicketIds, expected : Times]

ASSUME NoneIsNoTicket == None \notin Ticket

Stored(id) == tickets[id] # None

TicketsTypeOK ==
  /\ now \in Times
  /\ tickets \in [TicketIds -> Ticket \cup {None}]
  /\ history \in [TicketIds -> Seq(StatusEvent)]
  /\ edits \in [Editors -> Edit \cup {None}]

TicketsInit ==
  /\ now = 0
  /\ tickets = [id \in TicketIds |-> None]
  /\ history = [id \in TicketIds |-> <<>>]
  /\ edits = [e \in Editors |-> None]

-----------------------------------------------------------------------------
(* What TicketLifecycleService does within a transaction.                  *)

Saved(id, row, events) ==
  /\ Len(history[id]) + Len(events) <= MaxHistory
  /\ tickets' = [tickets EXCEPT ![id] = row]
  /\ history' = [history EXCEPT ![id] = @ \o events]

StatusChange(from, to, completion) == [from |-> from, to |-> to, completion |-> completion]

\* Mutant: a reopened ticket keeps its time of completion.
CompletionKept(row, status, at) ==
  IF status = "done" /\ status # row.status THEN at ELSE row.completedAt

\* When a ticket that is set to status at a time counts as completed.
Completion(row, status, at) ==
  IF status = row.status THEN row.completedAt
  ELSE IF status = "done" THEN at ELSE None

\* createWithinTransaction
Create(id, status) ==
  LET completed == IF status = "done" THEN now ELSE None IN
  /\ ~Stored(id)
  /\ Saved(id, [status |-> status, updatedAt |-> now, completedAt |-> completed],
           <<StatusChange(None, status, completed)>>)

\* transitionWithinTransaction
Transition(id, expected, status, at) ==
  /\ Stored(id)
  /\ tickets[id].updatedAt = expected
  /\ LET row == tickets[id] IN
     Saved(id, [status |-> status, updatedAt |-> at,
                completedAt |-> Completion(row, status, at)],
           IF status = row.status THEN <<>>
           ELSE <<StatusChange(row.status, status, IF status = "done" THEN at ELSE None)>>)

-----------------------------------------------------------------------------
(* Requests of the browser, and the writers inside the companion.          *)

Tick == /\ now < MaxTime
        /\ now' = now + 1
        /\ UNCHANGED <<tickets, history, edits>>

\* POST /tickets
CreateTicket(id, status) == Create(id, status) /\ UNCHANGED <<now, edits>>

\* PATCH /tickets/:id up to the await of its body.  A body that does not name the time
\* just read is answered 409 and changes nothing.
PatchBegins(e, id) ==
  /\ edits[e] = None /\ Stored(id)
  /\ edits' = [edits EXCEPT ![e] = [ticket |-> id, expected |-> tickets[id].updatedAt]]
  /\ UNCHANGED <<now, tickets, history>>

\* The rest of it: a change, also one that keeps the status, or a refusal.
PatchEnds(e, status) ==
  /\ edits[e] # None
  /\ edits' = [edits EXCEPT ![e] = None]
  /\ LET edit == edits[e] IN
     IF Stored(edit.ticket) /\ tickets[edit.ticket].updatedAt = edit.expected
     THEN Transition(edit.ticket, edit.expected, status, now)
     ELSE UNCHANGED <<tickets, history>>
  /\ UNCHANGED now

\* Reconciliation and agent activity read the row and write it in one transaction; the
\* end of an assignment is dated by its reporter.
OtherTransition(id, status, at) ==
  /\ Stored(id)
  /\ at = now \/ status = "done"
  /\ Transition(id, tickets[id].updatedAt, status, at)
  /\ UNCHANGED <<now, edits>>

\* DELETE /tickets/:id; the rows that refer to the ticket go with it.
Deleted(id) ==
  /\ Stored(id)
  /\ tickets' = [tickets EXCEPT ![id] = None]
  /\ history' = [history EXCEPT ![id] = <<>>]

-----------------------------------------------------------------------------
\* Whoever changes a ticket and however often it is completed, reopened, deleted or
\* stored without history: its history is one unbroken chain that ends at its status,
\* and once it has one it counts as completed just when, and since when, that chain says.
HistoryExplainsTicket ==
  \A id \in TicketIds :
    LET events == history[id] IN
    /\ \A i \in 2..Len(events) : events[i].from = events[i - 1].to
    /\ \A i \in 2..Len(events) : events[i].from # events[i].to
    /\ ~Stored(id) => events = <<>>
    /\ Stored(id) /\ events # <<>> =>
         /\ tickets[id].status = Last(events).to
         /\ tickets[id].completedAt = Last(events).completion
         /\ tickets[id].completedAt # None <=> tickets[id].status = "done"

=============================================================================
