-------------------------------- MODULE Attention --------------------------------
(***************************************************************************)
(* The queue of what needs a person's attention, projected from tickets,   *)
(* the reports of their agents, mail candidates and the checks of sources. *)
(***************************************************************************)
EXTENDS Absence, Integers, Sequences, FiniteSets

CONSTANTS
  Works,          \* tickets
  Gone,           \* a blocker that is no ticket
  Letters,        \* mail candidates
  Feeds,          \* sources of reconciliation
  Names,          \* the order of record references: a sequence of all of them
  Arrangements,   \* the tickets and the assignments there are at first
  RecentWindow,
  MaxToday        \* bound of the model: days

VARIABLES
  work,           \* the tickets
  assigned,       \* the effective state of a ticket's assignment, None without one
  letters,        \* the state of each candidate and when it was received
  checks,         \* the last result of each enabled source, None for a source that is off
  today

attentionVars == <<work, assigned, letters, checks, today>>

AgentStates == {"running", "needs-action", "blocked", "stale", "waiting"}
LetterStates == {"candidate", "confirmed", "confirmed-untracked", "deferred", "linked", "dismissed"}
CheckStates == {"unchecked", "failed", "unresolved", "checking", "clean"}
QueuedWork == [status : {"todo", "in-progress", "blocked", "done"}, blockers : SUBSET (Works \cup {Gone}),
               receipt : {"none", "missing", "linked"}, resolvedAt : Nat \cup {None}, changedAt : Nat]
Assignments == [Works -> AgentStates \cup {None}]

Refs == Works \cup Letters \cup Feeds
AttentionItems == [ref : Refs, rank : Nat, bucket : {"needs-action", "waiting", "recently-resolved"},
                   priority : {"critical", "high", "normal", "low"}, at : Nat \cup {None}]

\* References are named after what they refer to, "source:" before "ticket:".
ASSUME AttentionConstants ==
  /\ None \notin AttentionItems \cup AgentStates \cup CheckStates \cup Nat
  /\ IsFiniteSet(Works) /\ Gone \notin Works /\ MaxToday \in Nat
  /\ Works \cap Letters = {} /\ Works \cap Feeds = {} /\ Letters \cap Feeds = {}
  /\ Names \in Seq(Refs)
  /\ \A ref \in Refs : \E i \in DOMAIN Names : Names[i] = ref
  /\ \A i, j \in DOMAIN Names : i # j => Names[i] # Names[j]
  /\ \A i, j \in DOMAIN Names : Names[i] \in Feeds /\ Names[j] \in Works => i < j
  /\ \A first \in Arrangements :
       /\ first.work \in [Works -> QueuedWork] /\ first.assigned \in Assignments
       /\ \A t \in Works : (first.work[t].resolvedAt # None) <=> (first.work[t].status = "done")

AttentionInit ==
  /\ \E first \in Arrangements : work = first.work /\ assigned = first.assigned
  /\ letters \in [Letters -> [state : LetterStates, receivedAt : {0}]]
  /\ checks \in [Feeds -> {None} \cup CheckStates]
  /\ today = 0

-----------------------------------------------------------------------------
(* Items.  `at` is what an item is ordered by, None when it has no date.   *)
AttentionItem(ref, rank, bucket, priority, at) ==
  [ref |-> ref, rank |-> rank, bucket |-> bucket, priority |-> priority, at |-> at]

PriorityOrder == [critical |-> 0, high |-> 1, normal |-> 2, low |-> 3]

IsRecent(at) == at # None /\ today - at \in 0..RecentWindow

\* A blocker is settled by being done; one that is not there never is.
Unresolved(t) == \E b \in work[t].blockers : b = Gone \/ work[b].status # "done"

\* What an agent reports goes before what the ticket says.
AgentItem(t) ==
  CASE assigned[t] \in {"needs-action", "blocked"} -> AttentionItem(t, 0, "needs-action", "critical", work[t].changedAt)
    [] assigned[t] = "stale" -> AttentionItem(t, 1, "needs-action", "high", work[t].changedAt)
    [] assigned[t] = "waiting" -> AttentionItem(t, 5, "waiting", "normal", work[t].changedAt)

PlainItem(t) ==
  CASE work[t].status = "blocked" -> AttentionItem(t, 0, "needs-action", "critical", work[t].changedAt)
    [] work[t].status # "blocked" /\ work[t].receipt # "none" ->
         AttentionItem(t, 1, "needs-action", "high", work[t].changedAt)
    [] work[t].status # "blocked" /\ work[t].receipt = "none" /\ Unresolved(t) ->
         AttentionItem(t, 0, "waiting", "high", work[t].changedAt)
    [] work[t].status = "in-progress" /\ work[t].receipt = "none" /\ ~Unresolved(t) ->
         AttentionItem(t, 4, "needs-action", "normal", work[t].changedAt)
    [] work[t].status = "todo" /\ work[t].receipt = "none" /\ ~Unresolved(t) ->
         AttentionItem(t, 4, "needs-action", "low", work[t].changedAt)
    [] work[t].status = "done" /\ work[t].receipt = "none" /\ ~Unresolved(t) /\ IsRecent(work[t].resolvedAt) ->
         AttentionItem(t, 6, "recently-resolved", "low", work[t].changedAt)
    [] OTHER -> None

TicketItem(t) == IF assigned[t] \in {None, "running"} THEN PlainItem(t) ELSE AgentItem(t)

\* A deferred letter goes after everything that waits.
Deferred(l) == AttentionItem(l, 5, "waiting", "low", letters[l].receivedAt)

GmailItem(l) ==
  CASE letters[l].state \in {"candidate", "confirmed", "confirmed-untracked"} ->
         AttentionItem(l, 2, "needs-action", "high", letters[l].receivedAt)
    [] letters[l].state = "deferred" -> Deferred(l)
    [] letters[l].state \in {"linked", "dismissed"} /\ IsRecent(letters[l].receivedAt) ->
         AttentionItem(l, 6, "recently-resolved", "low", letters[l].receivedAt)
    [] OTHER -> None

SourceItem(f) ==
  CASE checks[f] = "unchecked" -> AttentionItem(f, 3, "needs-action", "normal", None)
    [] checks[f] \in {"failed", "unresolved"} -> AttentionItem(f, 3, "needs-action", "high", None)
    [] checks[f] = "checking" -> AttentionItem(f, 5, "waiting", "normal", None)
    [] OTHER -> None

Queue ==
  ({TicketItem(t) : t \in Works} \cup {GmailItem(l) : l \in Letters} \cup {SourceItem(f) : f \in Feeds}) \ {None}

\* Rank, then priority, then the later change, then the name.  A missing date compares with
\* nothing.
NameBefore(a, b) ==
  \E i \in 1..Len(Names) : Names[i] = a.ref /\ \E j \in (i + 1)..Len(Names) : Names[j] = b.ref
Before(a, b) ==
  \/ a.rank < b.rank
  \/ a.rank = b.rank /\ PriorityOrder[a.priority] < PriorityOrder[b.priority]
  \/ /\ a.rank = b.rank /\ a.priority = b.priority
     /\ IF a.at # None /\ b.at # None /\ a.at # b.at THEN a.at > b.at ELSE NameBefore(a, b)

-----------------------------------------------------------------------------
(* What people and agents do.                                              *)
\* Offered for a ticket that is not done and has no assignment.
MarkDone(t) ==
  /\ TicketItem(t) # None /\ work[t].status # "done" /\ assigned[t] = None
  /\ work' = [work EXCEPT ![t].status = "done", ![t].resolvedAt = today, ![t].changedAt = today]
  /\ UNCHANGED <<assigned, letters, checks, today>>

Reopen(t) ==
  /\ work[t].status = "done"
  /\ work' = [work EXCEPT ![t].status = "todo", ![t].resolvedAt = None, ![t].changedAt = today]
  /\ UNCHANGED <<assigned, letters, checks, today>>

AgentReports(t, state) ==
  /\ assigned[t] # None
  /\ assigned' = [assigned EXCEPT ![t] = state]
  /\ work' = [work EXCEPT ![t].changedAt = today]
  /\ UNCHANGED <<letters, checks, today>>

DecideLetter(l, state) ==
  /\ letters' = [letters EXCEPT ![l].state = state]
  /\ UNCHANGED <<work, assigned, checks, today>>

MailArrives(l) ==
  /\ letters' = [letters EXCEPT ![l] = [state |-> "candidate", receivedAt |-> today]]
  /\ UNCHANGED <<work, assigned, checks, today>>

CheckEnds(f, state) ==
  /\ checks[f] # None
  /\ checks' = [checks EXCEPT ![f] = state]
  /\ UNCHANGED <<work, assigned, letters, today>>

DayPasses ==
  /\ today < MaxToday
  /\ today' = today + 1
  /\ UNCHANGED <<work, assigned, letters, checks>>

AttentionNext ==
  \/ \E t \in Works : MarkDone(t) \/ Reopen(t)
  \/ \E t \in Works, state \in AgentStates : AgentReports(t, state)
  \/ \E l \in Letters : MailArrives(l) \/ \E state \in LetterStates : DecideLetter(l, state)
  \/ \E f \in Feeds, state \in CheckStates : CheckEnds(f, state)
  \/ DayPasses

-----------------------------------------------------------------------------
(* Properties.                                                             *)
AttentionTypeOK ==
  /\ work \in [Works -> QueuedWork] /\ assigned \in Assignments
  /\ letters \in [Letters -> [state : LetterStates, receivedAt : Nat]]
  /\ checks \in [Feeds -> CheckStates \cup {None}]
  /\ today \in Nat
  /\ Queue \subseteq AttentionItems
  /\ \A t \in Works : (work[t].resolvedAt # None) <=> (work[t].status = "done")

\* Work that is not done is queued, whatever its blockers and its agent are at.
OpenWorkIsQueued == \A t \in Works : work[t].status # "done" => TicketItem(t) # None

\* Following blockers that are there from ticket to ticket: the least set that holds ts and what
\* blocks what it holds.
LeadsOn(c) == \A t \in c : work[t].blockers \ {Gone} \subseteq c
BehindOf(ts) == {u \in Works : \A c \in SUBSET Works : ts \subseteq c /\ LeadsOn(c) => u \in c}
Circular(t) == t \in BehindOf(work[t].blockers \ {Gone})

\* Work that waits for work waits for something a person can act on: somewhere behind it is an
\* item that needs action, an agent that waits, a blocker that is gone, or a circle.
WaitingHasCause ==
  \A t \in Works : TicketItem(t) # None /\ TicketItem(t).bucket = "waiting" =>
    \E u \in BehindOf({t}) :
      \/ TicketItem(u) # None /\ TicketItem(u).bucket = "needs-action"
      \/ assigned[u] = "waiting" \/ Gone \in work[u].blockers \/ Circular(u)

\* Items can be sorted: of any two one is first, and first goes on to first, although some
\* items have no date.
QueueHasAnOrder ==
  LET queue == Queue
  IN \A a, b \in queue :
       /\ a # b => (Before(a, b) <=> ~Before(b, a))
       /\ Before(a, b) => \A c \in queue : Before(b, c) => Before(a, c)
=============================================================================
