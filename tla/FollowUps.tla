------------------------------ MODULE FollowUps ------------------------------
(***************************************************************************)
(* Mail that waits for an answer, and the tickets made of it:              *)
(* GmailCheckService of server/gmail/gmail-source.ts, the classification   *)
(* of a thread, and what the browser API does with the stored threads.     *)
(*                                                                         *)
(* A check asks Gmail for its history position, for the threads that       *)
(* changed since the position saved last (or, without one, for the pages   *)
(* of the inbox) and for each of those threads.  Each question is an       *)
(* await: mail arrives, people decide, other checks run.  Only a check     *)
(* that missed nothing saves the position it began with.                   *)
(***************************************************************************)
EXTENDS Tickets

CONSTANTS
  Threads,     \* threads of the mailbox
  Checks,      \* checks that may run at once
  Keys,        \* idempotency keys of association requests
  PageSize,    \* threads on a page of the inbox
  MaxPages,    \* pages a check reads at most
  Lookback,    \* days a check looks back
  MaxMails,    \* bound of the model: messages
  MaxDays      \* bound of the model: days

ASSUME FollowUpConstants ==
  /\ IsFiniteSet(Threads)
  /\ PageSize \in Nat \ {0} /\ MaxPages \in Nat \ {0} /\ Lookback \in Nat
  /\ MaxMails \in Nat /\ MaxDays \in Nat

VARIABLES
  mails,      \* messages so far: the history position of the mailbox
  today,
  mailbox,    \* of each thread: its newest message, and its newest one in the inbox
  emails,     \* email_threads: what is stored of each thread, or None
  links,      \* email_ticket_links: the ticket of each thread, or None
  replies,    \* idempotency_results: what was answered to each key, or None
  watermark,  \* historyId in the configuration of the source, or None
  checks,     \* the checks in flight
  seen        \* ghost: the newest inbox message a check has seen of each thread

mailVars == <<mails, today, mailbox>>
storeVars == <<emails, links, replies>>
checkVars == <<watermark, checks, seen>>
vars == <<ticketVars, mailVars, storeVars, checkVars>>

-----------------------------------------------------------------------------
Positions == 0..MaxMails
Days == 0..MaxDays
Senders == {"other", "self", "automatic"}
Decisions == {"confirmed-untracked", "dismissed", "deferred"}

Mail == [sender : Senders, inbox : Positions, last : Positions, day : Days]
Email == [state : Decisions \cup {"candidate", "linked"}, reasons : {"other", "excluded"}]
Check == [at : {"profile", "history", "page", "threads"}, previous : Positions \cup {None},
          position : Positions, day : Days, todo : SUBSET Threads,
          answers : [Threads -> Mail \cup {None}], gap : BOOLEAN, crossed : BOOLEAN,
          pages : 0..MaxPages, below : 1..(MaxMails + 1), more : BOOLEAN]

TypeOK ==
  /\ TicketsTypeOK
  /\ mails \in Positions /\ today \in Days
  /\ mailbox \in [Threads -> Mail]
  /\ emails \in [Threads -> Email \cup {None}]
  /\ links \in [Threads -> TicketIds \cup {None}]
  /\ replies \in [Keys -> [thread : Threads, ticket : TicketIds] \cup {None}]
  /\ watermark \in Positions \cup {None}
  /\ checks \in [Checks -> Check \cup {None}]
  /\ seen \in [Threads -> Positions]

Init ==
  /\ TicketsInit
  /\ mails = 0 /\ today = 0
  /\ mailbox = [t \in Threads |-> [sender |-> "self", inbox |-> 0, last |-> 0, day |-> 0]]
  /\ emails = [t \in Threads |-> None]
  /\ links = [t \in Threads |-> None]
  /\ replies = [k \in Keys |-> None]
  /\ watermark = None
  /\ checks = [c \in Checks |-> None]
  /\ seen = [t \in Threads |-> 0]

-----------------------------------------------------------------------------
(* Gmail.  Position 0 of an inbox message means that there is none.        *)

InInbox == {t \in Threads : mailbox[t].inbox > 0}

\* A message arrives or the user answers one; what the user sends is not in the inbox.
Arrive(t, sender) ==
  /\ mails < MaxMails
  /\ sender = "self" => t \in InInbox
  /\ mails' = mails + 1
  /\ mailbox' = [mailbox EXCEPT ![t] =
       [sender |-> sender, last |-> mails + 1, day |-> today,
        inbox |-> IF sender = "self" THEN @.inbox ELSE mails + 1]]
  /\ UNCHANGED <<ticketVars, today, storeVars, checkVars>>

DayPasses ==
  /\ today < MaxDays
  /\ today' = today + 1
  /\ UNCHANGED <<ticketVars, mails, mailbox, storeVars, checkVars>>

\* historyThreadIds: the threads with an inbox message after a position.
ChangedSince(position) == {t \in Threads : mailbox[t].inbox > position}

\* The threads of the inbox after a page that ended above a message; newest first.
Rest(below) == {t \in InInbox : mailbox[t].last < below}
Page(below) ==
  {t \in Rest(below) :
     Cardinality({u \in Rest(below) : mailbox[u].last > mailbox[t].last}) < PageSize}

-----------------------------------------------------------------------------
(* A check.                                                                *)

At(c, place) == checks[c] # None /\ checks[c].at = place
GoesOn(c, check) == checks' = [checks EXCEPT ![c] = check]
Unread == [t \in Threads |-> None]

\* start, and execute until it asks for the profile
StartCheck(c) ==
  /\ checks[c] = None
  /\ GoesOn(c, [at |-> "profile", previous |-> watermark, position |-> 0, day |-> today,
                todo |-> {}, answers |-> Unread, gap |-> FALSE, crossed |-> FALSE,
                pages |-> 0, below |-> MaxMails + 1, more |-> FALSE])
  /\ UNCHANGED <<ticketVars, mailVars, storeVars, watermark, seen>>

ProfileRead(c) ==
  /\ At(c, "profile")
  /\ GoesOn(c, [checks[c] EXCEPT !.position = mails,
                                 !.at = IF checks[c].previous = None THEN "page" ELSE "history"])
  /\ UNCHANGED <<ticketVars, mailVars, storeVars, watermark, seen>>

\* The list of changes may end early, at the limit of pages.
HistoryRead(c, listed) ==
  /\ At(c, "history")
  /\ listed \subseteq ChangedSince(checks[c].previous)
  /\ GoesOn(c, [checks[c] EXCEPT !.at = "threads", !.todo = listed,
                                 !.gap = listed # ChangedSince(checks[c].previous)])
  /\ UNCHANGED <<ticketVars, mailVars, storeVars, watermark, seen>>

\* Gmail no longer knows the position: the check reads the inbox instead.
HistoryGone(c) ==
  /\ At(c, "history")
  /\ GoesOn(c, [checks[c] EXCEPT !.at = "page"])
  /\ UNCHANGED <<ticketVars, mailVars, storeVars, watermark, seen>>

PageRead(c) ==
  /\ At(c, "page")
  /\ LET page == Page(checks[c].below) IN
     GoesOn(c, [checks[c] EXCEPT
       !.at = "threads", !.todo = page, !.answers = Unread, !.pages = @ + 1,
       !.more = page # Rest(checks[c].below),
       !.below = IF page = {} THEN @
                 ELSE CHOOSE p \in {mailbox[t].last : t \in page} :
                        \A t \in page : p <= mailbox[t].last])
  /\ UNCHANGED <<ticketVars, mailVars, storeVars, watermark, seen>>

ThreadRead(c, t) ==
  /\ At(c, "threads") /\ t \in checks[c].todo /\ checks[c].answers[t] = None
  /\ GoesOn(c, [checks[c] EXCEPT !.answers[t] = mailbox[t]])
  /\ UNCHANGED <<ticketVars, mailVars, storeVars, watermark, seen>>

\* The thread could not be read, in any of its attempts.
ThreadFails(c, t) ==
  /\ At(c, "threads") /\ t \in checks[c].todo /\ checks[c].answers[t] = None
  /\ GoesOn(c, [checks[c] EXCEPT !.todo = @ \ {t}, !.gap = TRUE])
  /\ UNCHANGED <<ticketVars, mailVars, storeVars, watermark, seen>>

Linked(t) == links[t] # None

\* classifyGmailThread
Eligible(t, mail) ==
  /\ ~Linked(t)
  /\ emails[t] # None => emails[t].state # "dismissed"
  /\ mail.sender = "other"

\* A confirmed thread that is not stored as mail from another person.
Synthetic(t) ==
  emails[t] # None /\ emails[t].state = "confirmed-untracked" /\ emails[t].reasons # "other"

\* Mutant: removing such rows does not look whether they have a ticket.
AnyRemovable(t) == Synthetic(t)

\* deleteUntrackedEmailThread and cleanupSyntheticEmailExclusions: which rows they delete.
Removable(t) == Synthetic(t) /\ ~Linked(t)

\* Mutant: a thread that was not known gets no state.
RefreshedBare(t, mail) ==
  [state |-> IF emails[t] = None THEN None ELSE emails[t].state,
   reasons |-> IF Eligible(t, mail) THEN "other" ELSE "excluded"]

\* What saveEmailThread leaves of a thread: the state of a known one is kept.
Refreshed(t, mail) ==
  [state |-> IF emails[t] = None THEN "candidate" ELSE emails[t].state,
   reasons |-> IF Eligible(t, mail) THEN "other" ELSE "excluded"]

\* A link goes with the row of its thread.
RowsGone(gone) == links' = [t \in Threads |-> IF t \in gone THEN None ELSE links[t]]

\* The rest of the body of a worker's loop, after the thread was read.
ThreadHandled(c, t) ==
  /\ At(c, "threads") /\ t \in checks[c].todo /\ checks[c].answers[t] # None
  /\ LET mail == checks[c].answers[t]
         old == mail.day < checks[c].day - Lookback
         gone == ~old /\ ~Eligible(t, mail) /\ Removable(t)
         skipped == ~Eligible(t, mail) /\ ~Linked(t) /\ (emails[t] = None \/ Synthetic(t))
     IN /\ GoesOn(c, [checks[c] EXCEPT !.todo = @ \ {t}, !.crossed = @ \/ old])
        /\ RowsGone({u \in {t} : gone})
        /\ emails' = IF old THEN emails
                     ELSE [emails EXCEPT ![t] = IF skipped THEN IF gone THEN None ELSE @
                                                ELSE Refreshed(t, mail)]
        /\ seen' = IF old \/ mail.inbox < seen[t] THEN seen
                   ELSE [seen EXCEPT ![t] = mail.inbox]
  /\ UNCHANGED <<ticketVars, mailVars, replies, watermark>>

Handled(c) == At(c, "threads") /\ checks[c].todo = {}
WantsPage(c) == checks[c].more /\ ~checks[c].crossed

NextPage(c) ==
  /\ Handled(c) /\ WantsPage(c) /\ checks[c].pages < MaxPages
  /\ GoesOn(c, [checks[c] EXCEPT !.at = "page"])
  /\ UNCHANGED <<ticketVars, mailVars, storeVars, watermark, seen>>

PositionAtEnd(c) == IF checks[c].gap \/ WantsPage(c) THEN checks[c].previous ELSE mails

\* The position a check saves: its own, or the old one when it missed a thread, a part of
\* the history or a page.
NewPosition(c) ==
  IF checks[c].gap \/ WantsPage(c) THEN checks[c].previous ELSE checks[c].position

FinishCheck(c) ==
  /\ Handled(c) /\ (WantsPage(c) => checks[c].pages = MaxPages)
  /\ watermark' = NewPosition(c)
  /\ GoesOn(c, None)
  /\ UNCHANGED <<ticketVars, mailVars, storeVars, seen>>

\* The profile, the history or a page cannot be read.
CheckFails(c) ==
  /\ checks[c] # None /\ checks[c].at # "threads"
  /\ GoesOn(c, None)
  /\ UNCHANGED <<ticketVars, mailVars, storeVars, watermark, seen>>

-----------------------------------------------------------------------------
(* The person, and the companion.                                          *)

\* POST /email/candidates/:thread/decision, for the version stored now.
Decide(t, state) ==
  /\ emails[t] # None
  /\ emails' = [emails EXCEPT ![t].state = state]
  /\ UNCHANGED <<ticketVars, mailVars, links, replies, checkVars>>

Answer(k, t, id) == replies' = [replies EXCEPT ![k] = [thread |-> t, ticket |-> id]]

\* POST /email/candidates/:thread/ticket for a thread that has its ticket.
AssociateAgain(k, t) ==
  /\ replies[k] = None /\ Linked(t)
  /\ Answer(k, t, links[t])
  /\ UNCHANGED <<ticketVars, mailVars, emails, links, checkVars>>

\* ... and for one that has none: the ticket exists, or is stored without any history.
Associate(k, t, id, status) ==
  /\ replies[k] = None /\ ~Linked(t)
  /\ emails[t] # None /\ emails[t].state = "confirmed-untracked"
  /\ \/ Stored(id) /\ UNCHANGED tickets
     \/ /\ ~Stored(id)
        /\ tickets' = [tickets EXCEPT ![id] =
                         [status |-> status, updatedAt |-> now, completedAt |-> None]]
  /\ links' = [links EXCEPT ![t] = id]
  /\ emails' = [emails EXCEPT ![t].state = "linked"]
  /\ Answer(k, t, id)
  /\ UNCHANGED <<now, history, edits, mailVars, checkVars>>

\* DELETE /tickets/:id
DeleteTicket(id) ==
  /\ Deleted(id)
  /\ links' = [t \in Threads |-> IF links[t] = id THEN None ELSE links[t]]
  /\ UNCHANGED <<now, edits, mailVars, emails, replies, checkVars>>

\* PATCH or DELETE /sources/gmail-followups: the configuration loses the position.
SourceReset ==
  /\ watermark # None
  /\ watermark' = None
  /\ UNCHANGED <<ticketVars, mailVars, storeVars, checks, seen>>

\* The companion ends anywhere, and its next start removes rows.
Restart ==
  LET gone == {t \in Threads : Removable(t)} IN
  /\ emails' = [t \in Threads |-> IF t \in gone THEN None ELSE emails[t]]
  /\ RowsGone(gone)
  /\ checks' = [c \in Checks |-> None]
  /\ edits' = [e \in Editors |-> None]
  /\ UNCHANGED <<now, tickets, history, mailVars, replies, watermark, seen>>

-----------------------------------------------------------------------------
CheckStep(c) ==
  \/ StartCheck(c) \/ ProfileRead(c) \/ HistoryGone(c) \/ PageRead(c)
  \/ \E listed \in SUBSET Threads : HistoryRead(c, listed)
  \/ \E t \in Threads : ThreadRead(c, t) \/ ThreadFails(c, t) \/ ThreadHandled(c, t)
  \/ NextPage(c) \/ FinishCheck(c) \/ CheckFails(c)

PersonStep ==
  \/ \E t \in Threads, state \in Decisions : Decide(t, state)
  \/ \E k \in Keys, t \in Threads : AssociateAgain(k, t)
  \/ \E k \in Keys, t \in Threads, id \in TicketIds, status \in Statuses :
       Associate(k, t, id, status)
  \/ \E id \in TicketIds : DeleteTicket(id)
  \/ SourceReset

TicketStep ==
  /\ \/ Tick
     \/ \E id \in TicketIds, status \in Statuses : CreateTicket(id, status)
     \/ \E e \in Editors, id \in TicketIds : PatchBegins(e, id)
     \/ \E e \in Editors, status \in Statuses : PatchEnds(e, status)
     \/ \E id \in TicketIds, status \in Statuses, at \in Times :
          OtherTransition(id, status, at)
  /\ UNCHANGED <<mailVars, storeVars, checkVars>>

Next ==
  \/ \E t \in Threads, sender \in Senders : Arrive(t, sender)
  \/ DayPasses
  \/ \E c \in Checks : CheckStep(c)
  \/ PersonStep
  \/ TicketStep
  \/ Restart

Spec == Init /\ [][Next]_vars

-----------------------------------------------------------------------------
\* No mail falls between two checks: whatever arrives while a check runs, whichever checks
\* overlap, fail, stop at a limit or lose their position, a thread of the look-back whose
\* newest message another person sent before the saved position has been seen with it.
WatermarkCovers ==
  watermark # None =>
    \A t \in Threads :
      LET mail == mailbox[t] IN
      mail.sender = "other" /\ mail.inbox <= watermark /\ mail.day >= today - Lookback
        => seen[t] >= mail.inbox

\* A thread has one ticket and keeps it until that ticket is deleted, whatever checks,
\* decisions and restarts do to its row; and every request for a ticket is answered with
\* the ticket the thread is then linked to.
LinkStands ==
  [][/\ \A t \in Threads : Linked(t) /\ links'[t] # links[t] =>
          links'[t] = None /\ tickets'[links[t]] = None
     /\ \A k \in Keys : replies'[k] # replies[k] =>
          links'[replies'[k].thread] = replies'[k].ticket]_vars

\* A thread that a person confirmed as a follow-up is not deleted.
ConfirmedWorkKept ==
  [][\A t \in Threads :
       emails[t] # None /\ emails[t].state = "confirmed-untracked" => emails'[t] # None]_vars

=============================================================================
