-------------------------------- MODULE LocalWork --------------------------------
(***************************************************************************)
(* The work a browser keeps in its own local storage: tickets, what agents *)
(* do, mail threads, the ledger of work events and the export of all of    *)
(* it as observed work.  A write may fail when the storage is full.        *)
(***************************************************************************)
EXTENDS Absence, Naturals, Sequences, Selections

CONSTANTS
  WorkCases,      \* ids of tickets and, as cases of the ledger, of reconciliation runs
  DemoCases,      \* those of the demonstration data
  RunCases,       \* ids of reconciliation runs
  Entries,        \* ids of notes, decisions and artifacts
  Mails,
  Progress,       \* ids of project progress items
  Receipts,       \* receipts of AI work a script turns into events
  Foreign,        \* events of other producers
  MaxEvents

WorkStatuses == {"todo", "in-progress", "done", "blocked"}
Workers == {"Pi", "Codex", "Claude Cowork"}

\* Recorded events are numbered; runs, receipts and events of others have ids of their own.
ASSUME LocalConstants ==
  /\ DemoCases \subseteq WorkCases /\ RunCases \cap Nat = {}
  /\ \A r \in Receipts : r.id \notin Nat
  /\ \A e \in Foreign : e.id \notin Nat /\ e.to \in WorkStatuses \cup {None} /\ e.entries \subseteq Entries
  /\ None \notin {"todo", "in-progress", "done", "blocked", "Henry", "FindMnemo", "Codex"}

VARIABLES
  local,          \* tickets, activities and mails in the storage
  seeded,         \* the demonstration data was written once
  ledger,         \* the work events, oldest first
  progress        \* the project progress items a scan left in the storage

localVars == <<local, seeded, ledger, progress>>

-----------------------------------------------------------------------------
(* What is kept.  `born` is the status a ticket was first stored with;     *)
(* `whole` says that the stored text has the lists every ticket has, and   *)
(* `plan` what it has of maps, phases, evidence and reviews.               *)
WorkTickets ==
  [status : WorkStatuses \cup {None}, born : WorkStatuses, source : Workers, whole : BOOLEAN,
   plan : {None, "sound", "strange"},
   notes : SUBSET Entries, decisions : SUBSET Entries, artifacts : SUBSET Entries]

NewWork(status, worker, notes) ==
  [status |-> status, born |-> status, source |-> worker, whole |-> TRUE, plan |-> None,
   notes |-> notes, decisions |-> {}, artifacts |-> {}]

\* `sound` says that its label and truth state are known ones.
WorkEvent(id, case, to, subjects, entries, actor) ==
  [id |-> id, case |-> case, to |-> to, subjects |-> subjects, entries |-> entries,
   actor |-> actor, source |-> "mnemosync", sound |-> TRUE]

Demo ==
  [tickets |-> [c \in WorkCases |-> IF c \in DemoCases THEN NewWork("in-progress", "Codex", {}) ELSE None],
   activities |-> [w \in Workers |-> "working"],
   mails |-> {}]

\* A browser that was never used, or one that was used by an earlier version.
Older ==
  {[tickets |-> [c \in WorkCases |-> None], activities |-> None, mails |-> {}],
   [Demo EXCEPT !.tickets = [c \in WorkCases |->
     IF c \in DemoCases THEN [NewWork("todo", "Pi", {}) EXCEPT !.status = None, !.whole = FALSE, !.plan = "strange"] ELSE None]]}

LocalInit ==
  /\ local \in Older
  /\ seeded \in BOOLEAN
  /\ ledger = << >>
  /\ progress \in SUBSET Progress

-----------------------------------------------------------------------------
(* Reading.                                                                *)
\* Plans that are not as they should be are left out.
SanitizedPlan(plan) == IF plan = "strange" THEN None ELSE plan
Sanitized(t) ==
  IF t = None THEN None
  ELSE [t EXCEPT !.status = IF @ \in WorkStatuses THEN @ ELSE "todo", !.whole = TRUE,
                 !.plan = SanitizedPlan(@)]

\* Reading tickets or mail first writes the demonstration data, once.
Seeded == IF seeded THEN local ELSE Demo
LoadedTickets == [c \in WorkCases |-> Sanitized(Seeded.tickets[c])]

\* A write that fails inside leaves the mark unwritten: the next reader writes it all again.
SeedingFails ==
  /\ ~seeded
  /\ local' = [local EXCEPT !.tickets = Demo.tickets]
  /\ UNCHANGED <<seeded, ledger, progress>>

\* The tickets are written back, or the failure is swallowed.
SaveTickets(tickets) ==
  /\ seeded' = TRUE
  /\ \E kept \in BOOLEAN :
       local' = IF kept THEN [Seeded EXCEPT !.tickets = tickets] ELSE Seeded

\* Ids of recorded events are new.
Record(case, to, entries) ==
  ledger' = Append(ledger, WorkEvent(Len(ledger) + 1, case, to, {<<"ticket", case>>}, entries, "Henry"))

\* A ledger that cannot be written throws through whoever records.
RecordFails(c) ==
  /\ LoadedTickets[c] # None
  /\ local' = Seeded /\ seeded' = TRUE
  /\ UNCHANGED <<ledger, progress>>

-----------------------------------------------------------------------------
(* Tickets.                                                                *)
\* Created: the ticket is kept first, then told to the ledger, which may fail.
CreateWork(c, status, worker, notes) ==
  /\ c \in WorkCases \ (DemoCases \cup RunCases) /\ LoadedTickets[c] = None
  /\ \A i \in 1..Len(ledger) : ledger[i].case # c
  /\ SaveTickets([LoadedTickets EXCEPT ![c] = NewWork(status, worker, notes)])
  /\ \/ local'.tickets[c] # None /\ Record(c, status, {})
     \/ UNCHANGED ledger
  /\ UNCHANGED progress


\* Changed: the ledger is told first.  A ticket that is gone only saves what was read.
ChangeWork(c, ticket, to, entries) ==
  /\ SaveTickets([LoadedTickets EXCEPT ![c] = IF @ = None THEN None ELSE ticket])
  /\ IF LoadedTickets[c] = None THEN UNCHANGED ledger ELSE Record(c, to, entries)
  /\ UNCHANGED progress

UpdateTicketStatus(c, status) ==
  ChangeWork(c, [LoadedTickets[c] EXCEPT !.status = status], status, {})

AddWorkNote(c, e) ==
  ChangeWork(c, [LoadedTickets[c] EXCEPT !.notes = @ \cup {e}], None, {e})

AddDecisionLogEntry(c, e) ==
  ChangeWork(c, [LoadedTickets[c] EXCEPT !.decisions = @ \cup {e}], None, {})

AddArtifact(c, e) ==
  ChangeWork(c, [LoadedTickets[c] EXCEPT !.artifacts = @ \cup {e}], None, {e})

DeleteWork(c) ==
  /\ SaveTickets([LoadedTickets EXCEPT ![c] = None])
  /\ UNCHANGED <<ledger, progress>>

\* A new entry gets a new id.
Unused(e) ==
  \A c \in WorkCases : LoadedTickets[c] # None =>
    e \notin LoadedTickets[c].notes \cup LoadedTickets[c].decisions \cup LoadedTickets[c].artifacts

-----------------------------------------------------------------------------
(* Agents and mail.                                                        *)
\* Without stored activities everyone is idle, which seeds the storage on the way.
UpdateAgentState(w, state) ==
  LET before == IF local.activities = None
                  THEN [Seeded EXCEPT !.activities = [v \in Workers |-> "idle"]]
                  ELSE local
  IN /\ seeded' = (seeded \/ local.activities = None)
     /\ \E kept \in BOOLEAN :
          local' = IF kept THEN [before EXCEPT !.activities[w] = state]
                   ELSE IF local.activities = None THEN Seeded ELSE local
     /\ UNCHANGED <<ledger, progress>>

IngestEmails(threads) ==
  /\ seeded' = TRUE
  /\ \E kept \in BOOLEAN :
       local' = IF kept THEN [Seeded EXCEPT !.mails = @ \cup threads] ELSE Seeded
  /\ UNCHANGED <<ledger, progress>>

-----------------------------------------------------------------------------
(* The ledger.                                                             *)
\* Every page that watched a reconciliation to its end records it, by the run's id.
RecordRun(r) ==
  /\ ledger' = Append(ledger, WorkEvent(r, r, None, {<<"reconciliation-run", r>>}, {}, "FindMnemo"))
  /\ UNCHANGED <<local, seeded, progress>>

\* A person verifies, accepts or rejects what a receipt is for; the ticket may be another's.
RecordDisposition(c, r) ==
  /\ ledger' = Append(ledger, WorkEvent(Len(ledger) + 1, c, None, {<<"ticket", c>>, <<"ai-receipt", r.id>>},
                                       {}, "Henry"))
  /\ UNCHANGED <<local, seeded, progress>>

\* A receipt of AI work becomes one event about the receipt and what it is for.
ReceiptEvent(r) ==
  WorkEvent(r.id, r.case, None,
            {<<"ai-receipt", r.id>>} \cup (IF r.ticket = None THEN {} ELSE {<<"ticket", r.ticket>>})
              \cup (IF r.progress = None THEN {} ELSE {<<"project-progress", r.progress>>}),
            {}, "Codex")

\* The lines of a file that are events; a file may repeat one, or hold this ledger's own.
TelemetryFiles ==
  LET lines == Foreign \cup {ReceiptEvent(r) : r \in Receipts}
  IN {<<e>> : e \in lines} \cup {<<e, e>> : e \in lines} \cup {ledger}

\* The known ones are those from before the import.
TakenOfFile(events, lines) ==
  events \o SelectSeq(lines, LAMBDA line : \A i \in 1..Len(events) : events[i].id # line.id)

\* Lines whose event is known are skipped; each line taken makes its event known.
NewLines(events, lines) ==
  {i \in 1..Len(lines) :
     /\ \A j \in 1..Len(events) : events[j].id # lines[i].id
     /\ \A j \in 1..(i - 1) : lines[j].id # lines[i].id}
Taken(events, lines) == events \o Picked(lines, NewLines(events, lines))

ImportTelemetry(lines) ==
  /\ Taken(ledger, lines) # ledger
  /\ ledger' = Taken(ledger, lines)
  /\ UNCHANGED <<local, seeded, progress>>

-----------------------------------------------------------------------------
LocalNext ==
  \/ SeedingFails
  \/ /\ Len(ledger) < MaxEvents
     /\ \/ \E c \in WorkCases, e \in Entries :
             \/ CreateWork(c, "todo", "Pi", {})
             \/ Unused(e) /\ CreateWork(c, "in-progress", "Codex", {e})
             \/ Unused(e) /\ (AddWorkNote(c, e) \/ AddDecisionLogEntry(c, e) \/ AddArtifact(c, e))
        \/ \E c \in WorkCases, status \in WorkStatuses : UpdateTicketStatus(c, status)
        \/ \E r \in RunCases : RecordRun(r)
        \/ \E c \in WorkCases \ RunCases, r \in Receipts : RecordDisposition(c, r)
        \/ \E lines \in TelemetryFiles : ImportTelemetry(lines)
  \/ \E c \in WorkCases : RecordFails(c) \/ DeleteWork(c)
  \/ \E w \in Workers, state \in {"idle", "working"} : UpdateAgentState(w, state)
  \/ \E threads \in SUBSET Mails : IngestEmails(threads)

LocalTypeOK ==
  /\ \A c \in WorkCases : local.tickets[c] \in WorkTickets \cup {None}
  /\ local.activities = None \/ local.activities \in [Workers -> {"idle", "working"}]
  /\ local.mails \subseteq Mails
  /\ seeded \in BOOLEAN /\ progress \subseteq Progress
  /\ \A i \in 1..Len(ledger) : ledger[i].to \in WorkStatuses \cup {None} /\ ledger[i].entries \subseteq Entries

\* Whatever writes fail, a status a ticket did not start with was told to the ledger.
StatusIsRecorded ==
  \A c \in WorkCases : LET t == LoadedTickets[c] IN
    t # None => t.status = t.born \/ \E i \in 1..Len(ledger) : ledger[i].case = c /\ ledger[i].to = t.status

\* However often files are imported, also this browser's own, no event is there twice but a
\* run that several pages watched.
EventsAreOnce ==
  \A i, j \in 1..Len(ledger) : ledger[i].id = ledger[j].id => i = j \/ ledger[i].id \in RunCases
=============================================================================
