--------------------------- MODULE FollowUpsProofs ---------------------------
(***************************************************************************)
(* Theorems about FollowUps and Tickets, for any number of threads,        *)
(* checks, tickets and editors.                                            *)
(*                                                                         *)
(* That no mail falls between two checks rests on what every check in      *)
(* flight still owes: a thread that is due has been seen, is on the        *)
(* check's list, or comes on a later page (MissedNothing).  A check that   *)
(* owes nothing may save its position.                                     *)
(***************************************************************************)
EXTENDS FollowUps, FiniteSetTheorems, WellFoundedInduction, TLAPS

\* What a mailbox looks like: newer messages are of later days, and a message of another
\* person is in the inbox.
MailboxOrdered ==
  /\ \A t \in Threads :
       /\ mailbox[t].inbox <= mailbox[t].last /\ mailbox[t].last <= mails
       /\ mailbox[t].day <= today
       /\ mailbox[t].sender = "other" => mailbox[t].inbox = mailbox[t].last
  /\ \A t, u \in Threads :
       mailbox[t].last <= mailbox[u].last => mailbox[t].day <= mailbox[u].day

\* A thread that a check with this position must have seen, and that none has missed.
Due(t, position) ==
  /\ mailbox[t].sender = "other" /\ mailbox[t].inbox <= position
  /\ mailbox[t].day >= today - Lookback
SeenNow(t) == seen[t] >= mailbox[t].inbox
Covered(position) == \A t \in Threads : Due(t, position) => SeenNow(t)

\* A check that has read no list of threads yet.
Fresh(check) ==
  /\ check.answers = Unread /\ check.pages = 0 /\ check.below = MaxMails + 1
  /\ ~check.gap /\ ~check.crossed /\ ~check.more

\* An answer is what the thread is now, or the thread has changed since the check began.
AnswerFits(check, t) ==
  LET mail == check.answers[t] IN
  /\ mail = mailbox[t] \/ mailbox[t].last > check.position
  /\ mail.last <= mails
  /\ check.pages > 0 => check.below <= mail.last
  /\ \A u \in Threads : mailbox[u].last <= mail.last => mailbox[u].day <= mail.day

\* A check that has met an old thread on a page has met every thread of the look-back.
CrossedFits(check) ==
  /\ check.below <= mails
  /\ \A t \in Threads : mailbox[t].last < check.below => mailbox[t].day < check.day - Lookback

\* A thread that is due has been seen, is on the list, or comes on a later page.
MissedNothing(check) ==
  \A t \in Threads : Due(t, check.position) =>
    \/ SeenNow(t)
    \/ check.at = "threads" /\ t \in check.todo
    \/ (check.at = "page" \/ check.more) /\ mailbox[t].last < check.below

\* How a check in flight and the mailbox agree.
Fits(check) ==
  /\ check.position <= mails /\ check.day <= today
  /\ check.previous # None => check.previous <= mails /\ Covered(check.previous)
  /\ check.at \in {"profile", "history"} => Fresh(check)
  /\ check.at = "history" => check.previous # None
  /\ check.at = "page" => check.pages < MaxPages /\ ~check.crossed
  /\ check.at = "page" /\ check.pages = 0 => Fresh(check)
  /\ check.at = "threads" /\ check.pages = 0 => ~check.more
  /\ check.at = "threads" /\ check.pages > 0 =>
       \A t \in check.todo : check.below <= mailbox[t].last
  /\ \A t \in Threads : check.answers[t] # None => AnswerFits(check, t)
  /\ check.crossed /\ check.pages > 0 => CrossedFits(check)
  /\ check.at \in {"page", "threads"} /\ ~check.gap => MissedNothing(check)

\* The inductive invariant of the saved position.
Watched ==
  /\ TypeOK
  /\ MailboxOrdered
  /\ watermark # None => watermark <= mails /\ Covered(watermark)
  /\ \A c \in Checks : checks[c] # None => Fits(checks[c])

-----------------------------------------------------------------------------
(* Operators.                                                              *)

\* A set of natural numbers has a least one.
LEMMA LeastExists ==
  ASSUME NEW S \in SUBSET Nat, S # {}
  PROVE  \E p \in S : \A q \in S : p <= q
  <1> DEFINE Less == {pair \in Nat \X Nat : pair[1] < pair[2]}
  <1>1. IsWellFoundedOn(Less, Nat)
    BY NatLessThanWellFounded DEF OpToRel
  <1> HIDE DEF Less
  <1>2. PICK p \in S : \A q \in S : <<q, p>> \notin Less
    BY <1>1, WFMin
  <1>3. \A q \in S : ~(q < p)
    BY <1>2 DEF Less
  <1> QED  BY <1>2, <1>3

\* The time at which a ticket counts as completed is a time.
LEMMA CompletionTyped ==
  ASSUME NEW row \in Ticket, NEW status \in Statuses, NEW at \in Times
  PROVE  Completion(row, status, at) \in Times \cup {None}
  BY DEF Completion, Ticket

\* A page reaches from its oldest message up: what it leaves is older than all it has.
LEMMA PageIsNewest ==
  ASSUME TypeOK, NEW below \in 1..(MaxMails + 1),
         NEW t \in Rest(below), t \notin Page(below), NEW u \in Page(below)
  PROVE  mailbox[t].last < mailbox[u].last
  <1> DEFINE Above(v) == {w \in Rest(below) : mailbox[w].last > mailbox[v].last}
  <1>1. u \in Rest(below) /\ Cardinality(Above(u)) < PageSize
    BY DEF Page
  <1>2. ~(Cardinality(Above(t)) < PageSize)
    BY DEF Page
  <1>3. Rest(below) \subseteq Threads /\ IsFiniteSet(Threads)
    BY FollowUpConstants DEF Rest, InInbox
  <1>4. /\ IsFiniteSet(Above(u)) /\ Cardinality(Above(u)) \in Nat
        /\ IsFiniteSet(Above(t)) /\ Cardinality(Above(t)) \in Nat
    BY <1>3, FS_Subset, FS_CardinalityType
  <1>5. mailbox[t].last \in Int /\ mailbox[u].last \in Int
        /\ \A v \in Threads : mailbox[v].last \in Int
    BY <1>1, <1>3 DEF TypeOK, Mail, Positions
  <1>6. SUFFICES ASSUME mailbox[u].last <= mailbox[t].last PROVE FALSE
    BY <1>5
  <1>7. Above(t) \subseteq Above(u)
    BY <1>3, <1>5, <1>6
  <1>8. Cardinality(Above(t)) <= Cardinality(Above(u))
    BY <1>4, <1>7, FS_Subset
  <1> HIDE DEF Above
  <1> QED  BY <1>1, <1>2, <1>4, <1>8, FollowUpConstants

\* The oldest message of a page that is not empty.
OldestOf(page) ==
  CHOOSE p \in {mailbox[t].last : t \in page} : \A t \in page : p <= mailbox[t].last

\* ... is one of its messages, and none of them is older.
LEMMA OldestFits ==
  ASSUME TypeOK, NEW page \in SUBSET Threads, page # {}
  PROVE  /\ \E t \in page : OldestOf(page) = mailbox[t].last
         /\ \A t \in page : OldestOf(page) <= mailbox[t].last
  <1> DEFINE Lasts == {mailbox[t].last : t \in page}
  <1>1. Lasts \in SUBSET Nat /\ Lasts # {}
    BY DEF TypeOK, Mail, Positions
  <1>2. \E p \in Lasts : \A q \in Lasts : p <= q
    BY <1>1, LeastExists
  <1>3. \E p \in Lasts : \A t \in page : p <= mailbox[t].last
    BY <1>2
  <1> QED  BY <1>3 DEF OldestOf

-----------------------------------------------------------------------------
(* Types.                                                                  *)

\* What is written of a ticket keeps the types of its row and its history.
LEMMA SavedTyped ==
  ASSUME TicketsTypeOK, NEW id \in TicketIds, NEW row \in Ticket,
         NEW events \in Seq(StatusEvent), Saved(id, row, events)
  PROVE  /\ tickets' \in [TicketIds -> Ticket \cup {None}]
         /\ history' \in [TicketIds -> Seq(StatusEvent)]
  <1>1. history[id] \o events \in Seq(StatusEvent)
    BY DEF TicketsTypeOK
  <1> QED  BY <1>1 DEF TicketsTypeOK, Saved

\* So does a change of status.
LEMMA TransitionTyped ==
  ASSUME TicketsTypeOK, NEW id \in TicketIds, NEW expected \in Times,
         NEW status \in Statuses, NEW at \in Times, Transition(id, expected, status, at)
  PROVE  /\ tickets' \in [TicketIds -> Ticket \cup {None}]
         /\ history' \in [TicketIds -> Seq(StatusEvent)]
  <1> DEFINE row == tickets[id]
             new == [status |-> status, updatedAt |-> at,
                     completedAt |-> Completion(row, status, at)]
             event == StatusChange(row.status, status, IF status = "done" THEN at ELSE None)
  <1>1. row \in Ticket
    BY DEF TicketsTypeOK, Transition, Stored
  <1>2. new \in Ticket
    BY <1>1, CompletionTyped DEF Ticket
  <1>3. event \in StatusEvent
    BY <1>1 DEF Ticket, StatusChange, StatusEvent
  <1>4. <<>> \in Seq(StatusEvent) /\ <<event>> \in Seq(StatusEvent)
    BY <1>3
  <1>5. Saved(id, new, IF status = row.status THEN <<>> ELSE <<event>>)
    BY DEF Transition
  <1> HIDE DEF row, new, event
  <1> QED  BY <1>2, <1>4, <1>5, SavedTyped

\* So does a new ticket.
LEMMA CreateTyped ==
  ASSUME TicketsTypeOK, NEW id \in TicketIds, NEW status \in Statuses, Create(id, status)
  PROVE  /\ tickets' \in [TicketIds -> Ticket \cup {None}]
         /\ history' \in [TicketIds -> Seq(StatusEvent)]
  <1> DEFINE completed == IF status = "done" THEN now ELSE None
             new == [status |-> status, updatedAt |-> now, completedAt |-> completed]
             event == StatusChange(None, status, completed)
  <1>1. now \in Times
    BY DEF TicketsTypeOK
  <1>2. new \in Ticket /\ event \in StatusEvent
    BY <1>1 DEF Ticket, StatusChange, StatusEvent
  <1>3. <<event>> \in Seq(StatusEvent)
    BY <1>2
  <1>4. Saved(id, new, <<event>>)
    BY DEF Create
  <1> HIDE DEF new, event
  <1> QED  BY <1>2, <1>3, <1>4, SavedTyped

\* A step that touches tickets alone keeps their types.
LEMMA TicketStepTyped ==
  ASSUME TicketsTypeOK, TicketStep
  PROVE  TicketsTypeOK'
  <1>1. CASE Tick
    BY <1>1, TicketConstants DEF Tick, TicketsTypeOK, Times
  <1>2. ASSUME NEW id \in TicketIds, NEW status \in Statuses, CreateTicket(id, status)
        PROVE  TicketsTypeOK'
    BY <1>2, CreateTyped DEF CreateTicket, TicketsTypeOK
  <1>3. ASSUME NEW e \in Editors, NEW id \in TicketIds, PatchBegins(e, id)
        PROVE  TicketsTypeOK'
    <2>1. [ticket |-> id, expected |-> tickets[id].updatedAt] \in Edit
      BY <1>3 DEF PatchBegins, TicketsTypeOK, Stored, Ticket, Edit
    <2> QED  BY <1>3, <2>1 DEF PatchBegins, TicketsTypeOK
  <1>4. ASSUME NEW e \in Editors, NEW status \in Statuses, PatchEnds(e, status)
        PROVE  TicketsTypeOK'
    <2>1. edits[e] \in Edit /\ now \in Times
      BY <1>4 DEF PatchEnds, TicketsTypeOK
    <2>2. /\ tickets' \in [TicketIds -> Ticket \cup {None}]
          /\ history' \in [TicketIds -> Seq(StatusEvent)]
      <3>1. CASE Transition(edits[e].ticket, edits[e].expected, status, now)
        BY <2>1, <3>1, TransitionTyped DEF Edit
      <3>2. CASE UNCHANGED <<tickets, history>>
        BY <3>2 DEF TicketsTypeOK
      <3> QED  BY <1>4, <3>1, <3>2 DEF PatchEnds
    <2> QED  BY <1>4, <2>2 DEF PatchEnds, TicketsTypeOK
  <1>5. ASSUME NEW id \in TicketIds, NEW status \in Statuses, NEW at \in Times,
               OtherTransition(id, status, at)
        PROVE  TicketsTypeOK'
    <2>1. tickets[id].updatedAt \in Times
      BY <1>5 DEF OtherTransition, Stored, TicketsTypeOK, Ticket
    <2> QED  BY <1>5, <2>1, TransitionTyped DEF OtherTransition, TicketsTypeOK
  <1> QED  BY <1>1, <1>2, <1>3, <1>4, <1>5 DEF TicketStep

\* A step of one check that leaves the ticket, mail and stored rows alone.
LEMMA CheckTyped ==
  ASSUME TypeOK, NEW c \in Checks, NEW check \in Check \cup {None}, GoesOn(c, check),
         UNCHANGED <<ticketVars, mailVars, storeVars, watermark, seen>>
  PROVE  TypeOK'
  BY DEF TypeOK, TicketsTypeOK, GoesOn, ticketVars, mailVars, storeVars

\* The record of a check is what its type says.
LEMMA CheckFields ==
  ASSUME TypeOK, NEW c \in Checks, checks[c] # None
  PROVE  /\ checks[c] \in Check
         /\ checks[c].previous \in Positions \cup {None}
         /\ checks[c].position \in Positions /\ checks[c].day \in Days
         /\ checks[c].todo \in SUBSET Threads
         /\ checks[c].answers \in [Threads -> Mail \cup {None}]
         /\ checks[c].gap \in BOOLEAN /\ checks[c].crossed \in BOOLEAN /\ checks[c].more \in BOOLEAN
         /\ checks[c].pages \in 0..MaxPages /\ checks[c].below \in 1..(MaxMails + 1)
         /\ checks[c].at \in {"profile", "history", "page", "threads"}
  <1>1. checks[c] \in Check
    BY DEF TypeOK
  <1> QED  BY <1>1 DEF Check

\* A check reads no page beyond its limit, and the oldest message of a page is one.
LEMMA PageReadTyped ==
  ASSUME Watched, NEW c \in Checks, PageRead(c)
  PROVE  TypeOK'
  <1> DEFINE page == Page(checks[c].below)
             below == IF page = {} THEN checks[c].below ELSE OldestOf(page)
             next == [checks[c] EXCEPT
               !.at = "threads", !.todo = page, !.answers = Unread, !.pages = @ + 1,
               !.more = page # Rest(checks[c].below), !.below = below]
  <1>1. TypeOK /\ At(c, "page")
    BY DEF Watched, PageRead
  <1>2. checks[c] \in Check /\ checks[c].pages \in 0..MaxPages
        /\ checks[c].below \in 1..(MaxMails + 1)
    BY <1>1, CheckFields DEF At
  <1>3. checks[c].pages + 1 \in 0..MaxPages
    BY <1>1, <1>2, FollowUpConstants DEF Watched, Fits, At
  <1>4. page \in SUBSET Threads
    BY DEF Page, Rest, InInbox
  <1>5. below \in 1..(MaxMails + 1)
    <2>1. CASE page = {}
      BY <2>1, <1>2
    <2>2. CASE page # {}
      <3>1. PICK t \in page : OldestOf(page) = mailbox[t].last
        BY <1>1, <1>4, <2>2, OldestFits
      <3>2. t \in Threads /\ mailbox[t].inbox > 0 /\ mailbox[t].inbox \in 0..MaxMails
            /\ mailbox[t].last \in 0..MaxMails
        BY <1>1, <1>4 DEF Page, Rest, InInbox, TypeOK, Mail, Positions
      <3>3. mailbox[t].inbox <= mailbox[t].last
        BY <3>2 DEF Watched, MailboxOrdered
      <3> QED  BY <2>2, <3>1, <3>2, <3>3, FollowUpConstants
    <2> QED  BY <2>1, <2>2
  <1>6. Unread \in [Threads -> Mail \cup {None}]
    BY DEF Unread
  <1>7. GoesOn(c, next) /\ UNCHANGED <<ticketVars, mailVars, storeVars, watermark, seen>>
    BY DEF PageRead, OldestOf
  <1>8. next \in Check
    <2> HIDE DEF below, page
    <2> QED  BY <1>2, <1>3, <1>4, <1>5, <1>6 DEF Check
  <1> HIDE DEF next
  <1> QED  BY <1>1, <1>7, <1>8, CheckTyped

\* Each step of a check keeps the types.
LEMMA CheckStepTyped ==
  ASSUME Watched, NEW c \in Checks, CheckStep(c)
  PROVE  TypeOK'
  <1>1. TypeOK
    BY DEF Watched
  <1>2. CASE StartCheck(c)
    <2> DEFINE next == [at |-> "profile", previous |-> watermark, position |-> 0, day |-> today,
                        todo |-> {}, answers |-> Unread, gap |-> FALSE, crossed |-> FALSE,
                        pages |-> 0, below |-> MaxMails + 1, more |-> FALSE]
    <2>1. next \in Check
      BY <1>1, FollowUpConstants DEF TypeOK, Check, Positions, Unread
    <2>2. GoesOn(c, next) /\ UNCHANGED <<ticketVars, mailVars, storeVars, watermark, seen>>
      BY <1>2 DEF StartCheck
    <2> HIDE DEF next
    <2> QED  BY <1>1, <2>1, <2>2, CheckTyped
  <1>3. CASE ProfileRead(c)
    <2> DEFINE next == [checks[c] EXCEPT !.position = mails,
                          !.at = IF checks[c].previous = None THEN "page" ELSE "history"]
    <2>1. next \in Check
      BY <1>1, <1>3, CheckFields DEF ProfileRead, At, TypeOK, Check
    <2>2. GoesOn(c, next) /\ UNCHANGED <<ticketVars, mailVars, storeVars, watermark, seen>>
      BY <1>3 DEF ProfileRead
    <2> HIDE DEF next
    <2> QED  BY <1>1, <2>1, <2>2, CheckTyped
  <1>4. CASE HistoryGone(c)
    <2>1. [checks[c] EXCEPT !.at = "page"] \in Check
      BY <1>1, <1>4, CheckFields DEF HistoryGone, At, Check
    <2> QED  BY <1>1, <1>4, <2>1, CheckTyped DEF HistoryGone
  <1>5. CASE PageRead(c)
    BY <1>5, PageReadTyped
  <1>6. ASSUME NEW listed \in SUBSET Threads, HistoryRead(c, listed)
        PROVE  TypeOK'
    <2> DEFINE next == [checks[c] EXCEPT !.at = "threads", !.todo = listed,
                          !.gap = listed # ChangedSince(checks[c].previous)]
    <2>1. next \in Check
      BY <1>1, <1>6, CheckFields DEF HistoryRead, At, Check
    <2>2. GoesOn(c, next) /\ UNCHANGED <<ticketVars, mailVars, storeVars, watermark, seen>>
      BY <1>6 DEF HistoryRead
    <2> HIDE DEF next
    <2> QED  BY <1>1, <2>1, <2>2, CheckTyped
  <1>7. ASSUME NEW t \in Threads, ThreadRead(c, t)
        PROVE  TypeOK'
    <2>1. mailbox[t] \in Mail
      BY <1>1 DEF TypeOK
    <2>2. [checks[c] EXCEPT !.answers[t] = mailbox[t]] \in Check
      BY <1>1, <1>7, <2>1, CheckFields DEF ThreadRead, At, Check
    <2> QED  BY <1>1, <1>7, <2>2, CheckTyped DEF ThreadRead
  <1>8. ASSUME NEW t \in Threads, ThreadFails(c, t)
        PROVE  TypeOK'
    <2>1. [checks[c] EXCEPT !.todo = @ \ {t}, !.gap = TRUE] \in Check
      <3>1. checks[c] \in Check /\ checks[c].todo \in SUBSET Threads
        BY <1>1, <1>8, CheckFields DEF ThreadFails, At
      <3>2. checks[c].todo \ {t} \in SUBSET Threads
        BY <3>1
      <3> QED  BY <3>1, <3>2 DEF Check
    <2> QED  BY <1>1, <1>8, <2>1, CheckTyped DEF ThreadFails
  <1>9. ASSUME NEW t \in Threads, ThreadHandled(c, t)
        PROVE  TypeOK'
    <2> DEFINE mail == checks[c].answers[t]
               old == mail.day < checks[c].day - Lookback
               next == [checks[c] EXCEPT !.todo = @ \ {t}, !.crossed = @ \/ old]
    <2>1. mail \in Mail
      BY <1>1, <1>9, CheckFields DEF ThreadHandled, At
    <2>2. next \in Check
      <3>1. (checks[c].crossed \/ old) \in BOOLEAN
        OBVIOUS
      <3> HIDE DEF old
      <3> QED  BY <1>1, <1>9, <3>1, CheckFields DEF ThreadHandled, At, Check
    <2>3. checks' \in [Checks -> Check \cup {None}]
      <3>1. checks' = [checks EXCEPT ![c] = next]
        BY <1>9 DEF ThreadHandled, GoesOn
      <3> HIDE DEF next
      <3> QED  BY <1>1, <2>2, <3>1 DEF TypeOK
    <2>4. Refreshed(t, mail) \in Email
      BY <1>1 DEF Refreshed, TypeOK, Email
    <2>5. emails' \in [Threads -> Email \cup {None}]
      <3> DEFINE skipped == ~Eligible(t, mail) /\ ~Linked(t) /\ (emails[t] = None \/ Synthetic(t))
                 gone == ~old /\ ~Eligible(t, mail) /\ Removable(t)
      <3>1. emails' = IF old THEN emails
                      ELSE [emails EXCEPT ![t] = IF skipped THEN IF gone THEN None ELSE @
                                                 ELSE Refreshed(t, mail)]
        BY <1>9 DEF ThreadHandled
      <3> HIDE DEF skipped, gone, old, mail
      <3> QED  BY <1>1, <2>4, <3>1 DEF TypeOK
    <2>6. links' \in [Threads -> TicketIds \cup {None}]
      BY <1>1, <1>9 DEF ThreadHandled, RowsGone, TypeOK
    <2>7. seen' \in [Threads -> Positions]
      <3>1. mail.inbox \in Positions
        BY <2>1 DEF Mail
      <3>2. seen' = IF old \/ mail.inbox < seen[t] THEN seen ELSE [seen EXCEPT ![t] = mail.inbox]
        BY <1>9 DEF ThreadHandled
      <3> HIDE DEF old, mail
      <3> QED  BY <1>1, <3>1, <3>2 DEF TypeOK
    <2>8. UNCHANGED <<ticketVars, mailVars, replies, watermark>>
      BY <1>9 DEF ThreadHandled
    <2> QED  BY <1>1, <2>3, <2>5, <2>6, <2>7, <2>8
             DEF TypeOK, TicketsTypeOK, ticketVars, mailVars
  <1>10. CASE NextPage(c)
    <2>1. [checks[c] EXCEPT !.at = "page"] \in Check
      BY <1>1, <1>10, CheckFields DEF NextPage, Handled, At, Check
    <2> QED  BY <1>1, <1>10, <2>1, CheckTyped DEF NextPage
  <1>11. CASE FinishCheck(c)
    <2>1. checks[c].previous \in Positions \cup {None} /\ checks[c].position \in Positions
      BY <1>1, <1>11, CheckFields DEF FinishCheck, Handled, At
    <2> QED  BY <1>1, <1>11, <2>1
             DEF FinishCheck, NewPosition, GoesOn, TypeOK, TicketsTypeOK, ticketVars, mailVars,
                 storeVars
  <1>12. CASE CheckFails(c)
    BY <1>1, <1>12, CheckTyped DEF CheckFails
  <1> QED  BY <1>2, <1>3, <1>4, <1>5, <1>6, <1>7, <1>8, <1>9, <1>10, <1>11, <1>12 DEF CheckStep

\* Each decision and request of a person keeps the types.
LEMMA PersonStepTyped ==
  ASSUME TypeOK, PersonStep
  PROVE  TypeOK'
  <1>1. ASSUME NEW t \in Threads, NEW state \in Decisions, Decide(t, state)
        PROVE  TypeOK'
    <2>1. [emails[t] EXCEPT !.state = state] \in Email
      BY <1>1 DEF Decide, TypeOK, Email
    <2> QED  BY <1>1, <2>1 DEF Decide, TypeOK, TicketsTypeOK, ticketVars, mailVars, checkVars
  <1>2. ASSUME NEW k \in Keys, NEW t \in Threads, AssociateAgain(k, t)
        PROVE  TypeOK'
    <2>1. links[t] \in TicketIds
      BY <1>2 DEF AssociateAgain, Linked, TypeOK
    <2> QED  BY <1>2, <2>1
             DEF AssociateAgain, Answer, TypeOK, TicketsTypeOK, ticketVars, mailVars, checkVars
  <1>3. ASSUME NEW k \in Keys, NEW t \in Threads, NEW id \in TicketIds, NEW status \in Statuses,
               Associate(k, t, id, status)
        PROVE  TypeOK'
    <2>1. [emails[t] EXCEPT !.state = "linked"] \in Email
      BY <1>3 DEF Associate, TypeOK, Email
    <2>2. emails' \in [Threads -> Email \cup {None}]
      BY <1>3, <2>1 DEF Associate, TypeOK
    <2>3. [status |-> status, updatedAt |-> now, completedAt |-> None] \in Ticket
      BY DEF TypeOK, TicketsTypeOK, Ticket
    <2>4. tickets' \in [TicketIds -> Ticket \cup {None}]
      BY <1>3, <2>3 DEF Associate, TypeOK, TicketsTypeOK
    <2>5. /\ links' \in [Threads -> TicketIds \cup {None}]
          /\ replies' \in [Keys -> [thread : Threads, ticket : TicketIds] \cup {None}]
      BY <1>3 DEF Associate, Answer, TypeOK
    <2> QED  BY <1>3, <2>2, <2>4, <2>5 DEF Associate, TypeOK, TicketsTypeOK, mailVars, checkVars
  <1>4. ASSUME NEW id \in TicketIds, DeleteTicket(id)
        PROVE  TypeOK'
    <2>1. <<>> \in Seq(StatusEvent)
      OBVIOUS
    <2>2. TicketsTypeOK'
      BY <1>4, <2>1 DEF DeleteTicket, Deleted, TypeOK, TicketsTypeOK
    <2> QED  BY <1>4, <2>2 DEF DeleteTicket, TypeOK, mailVars, checkVars
  <1>5. CASE SourceReset
    BY <1>5 DEF SourceReset, TypeOK, TicketsTypeOK, ticketVars, mailVars, storeVars
  <1> QED  BY <1>1, <1>2, <1>3, <1>4, <1>5 DEF PersonStep

\* Every step keeps the types, given that a check asks for no page beyond its limit.
LEMMA NextTyped ==
  ASSUME Watched, [Next]_vars
  PROVE  TypeOK'
  <1>1. TypeOK
    BY DEF Watched
  <1>2. ASSUME NEW t \in Threads, NEW sender \in Senders, Arrive(t, sender)
        PROVE  TypeOK'
    <2> DEFINE mail == [sender |-> sender, last |-> mails + 1, day |-> today,
                        inbox |-> IF sender = "self" THEN mailbox[t].inbox ELSE mails + 1]
    <2>1. mails + 1 \in Positions
      BY <1>1, <1>2, FollowUpConstants DEF Arrive, TypeOK, Positions
    <2>2. mail \in Mail
      BY <1>1, <2>1 DEF TypeOK, Mail
    <2>3. mailbox' = [mailbox EXCEPT ![t] = mail] /\ mails' = mails + 1
      BY <1>2 DEF Arrive
    <2> HIDE DEF mail
    <2>4. mailbox' \in [Threads -> Mail] /\ mails' \in Positions
      BY <1>1, <2>1, <2>2, <2>3 DEF TypeOK
    <2> QED  BY <1>1, <1>2, <2>4 DEF Arrive, TypeOK, TicketsTypeOK, ticketVars, storeVars, checkVars
  <1>3. CASE DayPasses
    BY <1>1, <1>3, FollowUpConstants
       DEF DayPasses, TypeOK, TicketsTypeOK, Days, ticketVars, storeVars, checkVars
  <1>4. ASSUME NEW c \in Checks, CheckStep(c)
        PROVE  TypeOK'
    BY <1>4, CheckStepTyped
  <1>5. CASE PersonStep
    BY <1>1, <1>5, PersonStepTyped
  <1>6. CASE TicketStep
    <2>1. TicketsTypeOK'
      BY <1>1, <1>6, TicketStepTyped DEF TypeOK
    <2> QED  BY <1>1, <1>6, <2>1 DEF TicketStep, TypeOK, mailVars, storeVars, checkVars
  <1>7. CASE Restart
    BY <1>1, <1>7 DEF Restart, RowsGone, TypeOK, TicketsTypeOK, mailVars
  <1>8. CASE UNCHANGED vars
    BY <1>1, <1>8
       DEF TypeOK, TicketsTypeOK, vars, ticketVars, mailVars, storeVars, checkVars
  <1> QED  BY <1>2, <1>3, <1>4, <1>5, <1>6, <1>7, <1>8 DEF Next

-----------------------------------------------------------------------------
(* The saved position.                                                     *)

\* What every step does to the mailbox: what changes is newer than anything before.
OnlyNewer ==
  /\ mails <= mails' /\ today <= today'
  /\ \A t \in Threads : mailbox'[t] = mailbox[t] \/ mailbox'[t].last > mails
  /\ \A t \in Threads : seen[t] <= seen'[t]

\* Messages get newer, days later, and what was seen stays seen.
LEMMA StepIsNewer ==
  ASSUME Watched, [Next]_vars
  PROVE  OnlyNewer /\ MailboxOrdered'
  <1>1. TypeOK /\ MailboxOrdered
    BY DEF Watched
  <1>2. /\ \A t \in Threads : mailbox[t] \in Mail
        /\ seen \in [Threads -> Nat] /\ mails \in Nat /\ today \in Nat
    BY <1>1 DEF TypeOK, Positions, Days
  <1>3. ASSUME UNCHANGED mailVars, \A t \in Threads : seen[t] <= seen'[t]
        PROVE  OnlyNewer /\ MailboxOrdered'
    BY <1>1, <1>2, <1>3 DEF OnlyNewer, MailboxOrdered, mailVars
  <1>4. ASSUME NEW t \in Threads, NEW sender \in Senders, Arrive(t, sender)
        PROVE  OnlyNewer /\ MailboxOrdered'
    <2> DEFINE mail == [sender |-> sender, last |-> mails + 1, day |-> today,
                        inbox |-> IF sender = "self" THEN mailbox[t].inbox ELSE mails + 1]
    <2>1. /\ mailbox' = [mailbox EXCEPT ![t] = mail] /\ mails' = mails + 1
          /\ today' = today /\ seen' = seen
      BY <1>4 DEF Arrive, checkVars
    <2>2. mailbox[t].inbox <= mailbox[t].last /\ mailbox[t].last <= mails
          /\ mailbox[t].inbox \in Nat /\ mailbox[t].last \in Nat
      BY <1>1, <1>2 DEF MailboxOrdered, Mail, Positions
    <2>3. /\ mail.last = mails + 1 /\ mail.day = today /\ mail.inbox <= mails + 1
          /\ mail.sender = "other" => mail.inbox = mails + 1
      BY <1>2, <2>2
    <2>4. \A u \in Threads : mailbox'[u] = IF u = t THEN mail ELSE mailbox[u]
      BY <1>1, <2>1 DEF TypeOK
    <2>5. \A u \in Threads : mailbox[u].last \in Nat /\ mailbox[u].day \in Nat
                             /\ mailbox[u].inbox \in Nat
      BY <1>2 DEF Mail, Positions, Days
    <2> HIDE DEF mail
    <2>6. OnlyNewer
      BY <1>2, <2>1, <2>3, <2>4 DEF OnlyNewer
    <2>7. \A u \in Threads :
            /\ mailbox'[u].inbox <= mailbox'[u].last /\ mailbox'[u].last <= mails'
            /\ mailbox'[u].day <= today'
            /\ mailbox'[u].sender = "other" => mailbox'[u].inbox = mailbox'[u].last
      BY <1>1, <1>2, <2>1, <2>3, <2>4, <2>5 DEF MailboxOrdered
    <2>8. \A u, v \in Threads : mailbox'[u].last <= mailbox'[v].last =>
                                  mailbox'[u].day <= mailbox'[v].day
      BY <1>1, <1>2, <2>1, <2>3, <2>4, <2>5 DEF MailboxOrdered
    <2> QED  BY <2>6, <2>7, <2>8 DEF MailboxOrdered
  <1>5. CASE DayPasses
    <2>1. \A t \in Threads : mailbox[t].day \in Nat
      BY <1>2 DEF Mail, Days
    <2> QED  BY <1>1, <1>2, <1>5, <2>1 DEF DayPasses, OnlyNewer, MailboxOrdered, checkVars
  <1>6. ASSUME NEW c \in Checks, CheckStep(c)
        PROVE  UNCHANGED mailVars /\ \A t \in Threads : seen[t] <= seen'[t]
    <2>1. ASSUME NEW t \in Threads, ThreadHandled(c, t)
          PROVE  UNCHANGED mailVars /\ \A u \in Threads : seen[u] <= seen'[u]
      <3> DEFINE mail == checks[c].answers[t]
                 old == mail.day < checks[c].day - Lookback
      <3>1. mail \in Mail
        BY <1>1, <2>1, CheckFields DEF ThreadHandled, At
      <3>2. mail.inbox \in Nat
        BY <3>1 DEF Mail, Positions
      <3>3. seen' = IF old \/ mail.inbox < seen[t] THEN seen ELSE [seen EXCEPT ![t] = mail.inbox]
        BY <2>1 DEF ThreadHandled
      <3> HIDE DEF mail, old
      <3>4. \A u \in Threads : seen[u] <= seen'[u]
        BY <1>2, <3>2, <3>3
      <3> QED  BY <2>1, <3>4 DEF ThreadHandled
    <2>2. ASSUME seen' = seen PROVE \A t \in Threads : seen[t] <= seen'[t]
      BY <1>2, <2>2
    <2> QED  BY <1>6, <2>1, <2>2 DEF CheckStep, StartCheck, ProfileRead, HistoryGone, PageRead,
               HistoryRead, ThreadRead, ThreadFails, NextPage, FinishCheck, CheckFails
  <1>7. CASE PersonStep
    BY <1>2, <1>3, <1>7 DEF PersonStep, Decide, AssociateAgain, Associate, DeleteTicket,
                            SourceReset, checkVars
  <1>8. CASE TicketStep
    BY <1>2, <1>3, <1>8 DEF TicketStep, checkVars
  <1>9. CASE Restart
    BY <1>2, <1>3, <1>9 DEF Restart
  <1>10. CASE UNCHANGED vars
    BY <1>2, <1>3, <1>10 DEF vars, checkVars
  <1> QED  BY <1>3, <1>4, <1>5, <1>6, <1>7, <1>8, <1>9, <1>10 DEF Next

\* What was covered stays covered, and what is due was due.
LEMMA DueStays ==
  ASSUME Watched, TypeOK', MailboxOrdered', OnlyNewer,
         NEW position \in Nat, position <= mails, NEW t \in Threads, Due(t, position)'
  PROVE  /\ mailbox'[t] = mailbox[t] /\ Due(t, position)
         /\ SeenNow(t) => SeenNow(t)'
  <1>1. /\ mails \in Nat /\ today \in Nat /\ today' \in Nat /\ Lookback \in Nat
        /\ seen[t] \in Nat /\ seen'[t] \in Nat
        /\ mailbox'[t].last \in Nat /\ mailbox'[t].inbox \in Nat /\ mailbox'[t].day \in Nat
    BY FollowUpConstants DEF Watched, TypeOK, Positions, Days, Mail
  <1>2. mailbox'[t].inbox = mailbox'[t].last /\ mailbox'[t].inbox <= position
    BY DEF Due, MailboxOrdered
  <1>3. mailbox'[t] = mailbox[t]
    BY <1>1, <1>2 DEF OnlyNewer
  <1> QED  BY <1>1, <1>3 DEF Due, SeenNow, OnlyNewer

\* A position that was covered stays so.
LEMMA CoveredStays ==
  ASSUME Watched, TypeOK', MailboxOrdered', OnlyNewer,
         NEW position \in Nat, position <= mails, Covered(position)
  PROVE  Covered(position)'
  BY DueStays DEF Covered

\* A check that does nothing goes on to fit.
LEMMA FitsStays ==
  ASSUME Watched, TypeOK', MailboxOrdered', OnlyNewer,
         NEW check \in Check, Fits(check)
  PROVE  Fits(check)'
  <1>1. /\ mails \in Nat /\ mails' \in Nat /\ today \in Nat /\ today' \in Nat
        /\ check.position \in Nat /\ check.day \in Nat /\ check.below \in Nat
        /\ check.previous \in Nat \cup {None} /\ check.todo \subseteq Threads
        /\ check.answers \in [Threads -> Mail \cup {None}]
    BY DEF Watched, TypeOK, Positions, Days, Check
  <1>2. /\ \A t \in Threads : mailbox[t].last \in Nat /\ mailbox'[t].last \in Nat
        /\ \A t \in Threads : mailbox[t].last <= mails
    BY DEF Watched, TypeOK, MailboxOrdered, Positions, Mail
  <1>3. check.position <= mails' /\ check.day <= today'
    BY <1>1 DEF Fits, OnlyNewer
  <1>4. check.previous # None => check.previous <= mails' /\ Covered(check.previous)'
    BY <1>1, CoveredStays DEF Fits, OnlyNewer
  <1>5. check.at = "threads" /\ check.pages > 0 =>
          \A t \in check.todo : check.below <= mailbox'[t].last
    BY <1>1, <1>2 DEF Fits, OnlyNewer
  <1>6. ASSUME NEW t \in Threads, check.answers[t] # None
        PROVE  AnswerFits(check, t)'
    <2>1. check.answers[t].last \in Nat /\ AnswerFits(check, t)
      BY <1>1, <1>6 DEF Mail, Positions, Fits
    <2>2. check.answers[t] = mailbox'[t] \/ mailbox'[t].last > check.position
      BY <1>1, <1>2, <2>1 DEF AnswerFits, OnlyNewer, Fits
    <2>3. check.answers[t].last <= mails'
      BY <1>1, <2>1 DEF AnswerFits, OnlyNewer
    <2>4. \A u \in Threads : mailbox'[u].last <= check.answers[t].last =>
                               mailbox'[u].day <= check.answers[t].day
      BY <1>1, <1>2, <2>1 DEF AnswerFits, OnlyNewer
    <2> QED  BY <2>1, <2>2, <2>3, <2>4 DEF AnswerFits
  <1>7. check.crossed /\ check.pages > 0 => CrossedFits(check)'
    BY <1>1, <1>2 DEF Fits, CrossedFits, OnlyNewer
  <1>8. ASSUME check.at \in {"page", "threads"}, ~check.gap
        PROVE  MissedNothing(check)'
    <2>1. MissedNothing(check) /\ check.position <= mails
      BY <1>8 DEF Fits
    <2> SUFFICES ASSUME NEW t \in Threads, Due(t, check.position)'
                 PROVE  \/ SeenNow(t)'
                        \/ check.at = "threads" /\ t \in check.todo
                        \/ (check.at = "page" \/ check.more) /\ mailbox'[t].last < check.below
      BY DEF MissedNothing
    <2>2. /\ mailbox'[t] = mailbox[t] /\ Due(t, check.position)
          /\ SeenNow(t) => SeenNow(t)'
      BY <1>1, <2>1, DueStays
    <2> QED  BY <2>1, <2>2 DEF MissedNothing
  <1> HIDE DEF OnlyNewer
  <1>9. Fresh(check) => Fresh(check)'
    BY DEF Fresh, Unread
  <1> QED  BY <1>3, <1>4, <1>5, <1>6, <1>7, <1>8, <1>9 DEF Fits

\* A check that owes nothing has seen all that is due at its position.
LEMMA NothingOwed ==
  ASSUME Watched, NEW c \in Checks, FinishCheck(c)
  PROVE  NewPosition(c) # None => NewPosition(c) <= mails /\ Covered(NewPosition(c))
  <1>1. TypeOK /\ checks[c] # None /\ Fits(checks[c])
        /\ checks[c].todo = {} /\ checks[c].at = "threads"
    BY DEF Watched, FinishCheck, Handled, At
  <1>2. CASE checks[c].gap \/ WantsPage(c)
    BY <1>1, <1>2 DEF NewPosition, Fits
  <1>3. CASE ~checks[c].gap /\ ~WantsPage(c)
    <2>1. NewPosition(c) = checks[c].position /\ checks[c].position <= mails
      BY <1>1, <1>3 DEF NewPosition, Fits
    <2>2. MissedNothing(checks[c])
      BY <1>1, <1>3 DEF Fits
    <2>3. ASSUME NEW t \in Threads, Due(t, checks[c].position)
          PROVE  SeenNow(t)
      <3>1. CASE ~checks[c].more
        BY <1>1, <2>2, <2>3, <3>1 DEF MissedNothing
      <3>2. CASE checks[c].more /\ checks[c].crossed
        <4>1. checks[c].pages > 0
          BY <1>1, <3>2, CheckFields, FollowUpConstants DEF Fits
        <4>2. CrossedFits(checks[c]) /\ checks[c].day <= today
          BY <1>1, <3>2, <4>1 DEF Fits
        <4>3. /\ mailbox[t].day \in Nat /\ today \in Nat /\ checks[c].day \in Nat
              /\ Lookback \in Nat
          BY <1>1, CheckFields, FollowUpConstants DEF TypeOK, Mail, Days
        <4>4. ~(mailbox[t].last < checks[c].below)
          BY <2>3, <4>2, <4>3 DEF CrossedFits, Due
        <4> QED  BY <1>1, <2>2, <2>3, <4>4 DEF MissedNothing
      <3> QED  BY <1>3, <3>1, <3>2 DEF WantsPage
    <2> QED  BY <2>1, <2>3 DEF Covered
  <1> QED  BY <1>2, <1>3

\* A check that fits now also fits after a step that changes nothing else it rests on.
LEMMA FitsAlone ==
  ASSUME NEW c \in Checks, NEW next, checks'[c] = next, UNCHANGED <<mailVars, seen>>, Fits(next)
  PROVE  Fits(checks[c])'
  BY DEF Fits, Fresh, Unread, AnswerFits, CrossedFits, MissedNothing, Covered, Due, SeenNow,
         mailVars

\* A check fits when its new record does.
LEMMA FitsNext ==
  ASSUME NEW c \in Checks, NEW next, checks'[c] = next, Fits(next)'
  PROVE  Fits(checks[c])'
  BY DEF Fits, Fresh, Unread, AnswerFits, CrossedFits, MissedNothing, Covered, Due, SeenNow

\* Every thread is on the first page to come or below it.
LEMMA AllComes ==
  ASSUME TypeOK, MailboxOrdered, NEW t \in Threads
  PROVE  mailbox[t].last < MaxMails + 1
  BY FollowUpConstants DEF TypeOK, Positions, Mail

\* A check that starts goes by the saved position, which is covered.
LEMMA StartFits ==
  ASSUME Watched, NEW c \in Checks, StartCheck(c)
  PROVE  Fits(checks[c])'
  <1> DEFINE next == [at |-> "profile", previous |-> watermark, position |-> 0, day |-> today,
                      todo |-> {}, answers |-> Unread, gap |-> FALSE, crossed |-> FALSE,
                      pages |-> 0, below |-> MaxMails + 1, more |-> FALSE]
  <1>1. TypeOK
    BY DEF Watched
  <1>2. 0 <= mails /\ today <= today
    BY <1>1 DEF TypeOK, Positions, Days
  <1>3. Fits(next)
    BY <1>2 DEF Fits, Fresh, Unread, Watched
  <1>4. checks'[c] = next /\ UNCHANGED <<mailVars, seen>>
    BY <1>1 DEF StartCheck, GoesOn, TypeOK
  <1> HIDE DEF next
  <1> QED  BY <1>3, <1>4, FitsAlone

\* A check that knows its position has all threads before it.
LEMMA ProfileFits ==
  ASSUME Watched, NEW c \in Checks, ProfileRead(c)
  PROVE  Fits(checks[c])'
  <1> DEFINE next == [checks[c] EXCEPT !.position = mails,
                        !.at = IF checks[c].previous = None THEN "page" ELSE "history"]
  <1>1. TypeOK /\ MailboxOrdered /\ checks[c] \in Check /\ checks[c].at = "profile"
        /\ Fits(checks[c]) /\ Fresh(checks[c])
    BY CheckFields DEF Watched, ProfileRead, At, Fits
  <1>2. /\ next.position = mails /\ next.previous = checks[c].previous
        /\ next.at = IF checks[c].previous = None THEN "page" ELSE "history"
        /\ next.day = checks[c].day /\ next.todo = checks[c].todo
        /\ next.answers = Unread /\ next.pages = 0 /\ next.below = MaxMails + 1
        /\ ~next.gap /\ ~next.crossed /\ ~next.more
    BY <1>1 DEF Check, Fresh
  <1>3. mails <= mails /\ 0 < MaxPages
    BY <1>1, FollowUpConstants DEF TypeOK, Positions
  <1>4. \A t \in Threads : mailbox[t].last < MaxMails + 1
    BY <1>1, AllComes
  <1>5. checks'[c] = next /\ UNCHANGED <<mailVars, seen>>
    BY <1>1 DEF ProfileRead, GoesOn, TypeOK
  <1> HIDE DEF next
  <1>6. Fits(next)
    BY <1>1, <1>2, <1>3, <1>4 DEF Fits, Fresh, Unread, MissedNothing
  <1> QED  BY <1>5, <1>6, FitsAlone

\* A check whose position is forgotten starts over with the inbox.
LEMMA HistoryGoneFits ==
  ASSUME Watched, NEW c \in Checks, HistoryGone(c)
  PROVE  Fits(checks[c])'
  <1> DEFINE next == [checks[c] EXCEPT !.at = "page"]
  <1>1. TypeOK /\ MailboxOrdered /\ checks[c] \in Check /\ checks[c].at = "history"
        /\ Fits(checks[c]) /\ Fresh(checks[c])
    BY CheckFields DEF Watched, HistoryGone, At, Fits
  <1>2. /\ next.position = checks[c].position /\ next.previous = checks[c].previous
        /\ next.at = "page" /\ next.day = checks[c].day /\ next.todo = checks[c].todo
        /\ next.answers = Unread /\ next.pages = 0 /\ next.below = MaxMails + 1
        /\ ~next.gap /\ ~next.crossed /\ ~next.more
    BY <1>1 DEF Check, Fresh
  <1>3. 0 < MaxPages /\ \A t \in Threads : mailbox[t].last < MaxMails + 1
    BY <1>1, AllComes, FollowUpConstants
  <1>4. checks'[c] = next /\ UNCHANGED <<mailVars, seen>>
    BY <1>1 DEF HistoryGone, GoesOn, TypeOK
  <1> HIDE DEF next
  <1>5. Fits(next)
    BY <1>1, <1>2, <1>3 DEF Fits, Fresh, Unread, MissedNothing
  <1> QED  BY <1>4, <1>5, FitsAlone

\* A thread that is due and did not change since the saved position was covered by it.
LEMMA HistoryFits ==
  ASSUME Watched, NEW c \in Checks, NEW listed \in SUBSET Threads, HistoryRead(c, listed)
  PROVE  Fits(checks[c])'
  <1> DEFINE next == [checks[c] EXCEPT !.at = "threads", !.todo = listed,
                        !.gap = listed # ChangedSince(checks[c].previous)]
  <1>1. TypeOK /\ checks[c] \in Check /\ checks[c].at = "history"
        /\ Fits(checks[c]) /\ Fresh(checks[c]) /\ checks[c].previous # None
    BY CheckFields DEF Watched, HistoryRead, At, Fits
  <1>2. /\ next.position = checks[c].position /\ next.previous = checks[c].previous
        /\ next.at = "threads" /\ next.day = checks[c].day /\ next.todo = listed
        /\ next.gap = (listed # ChangedSince(checks[c].previous))
        /\ next.answers = Unread /\ next.pages = 0 /\ ~next.crossed /\ ~next.more
    BY <1>1 DEF Check, Fresh
  <1>3. checks'[c] = next /\ UNCHANGED <<mailVars, seen>>
    BY <1>1 DEF HistoryRead, GoesOn, TypeOK
  <1> HIDE DEF next
  <1>4. ASSUME ~next.gap PROVE MissedNothing(next)
    <2>1. listed = ChangedSince(checks[c].previous)
      BY <1>2, <1>4
    <2> SUFFICES ASSUME NEW t \in Threads, Due(t, next.position), t \notin listed
                 PROVE  SeenNow(t)
      BY <1>2 DEF MissedNothing
    <2>2. mailbox[t].inbox \in Nat /\ checks[c].previous \in Nat
      BY <1>1 DEF TypeOK, Mail, Positions, Check
    <2>3. mailbox[t].inbox <= checks[c].previous
      BY <2>1, <2>2 DEF ChangedSince
    <2>4. Covered(checks[c].previous)
      BY <1>1 DEF Fits
    <2> QED  BY <2>3, <2>4 DEF Covered, Due
  <1>5. Fits(next)
    BY <1>1, <1>2, <1>4 DEF Fits, Unread
  <1> QED  BY <1>3, <1>5, FitsAlone

\* A thread that was read stays on the list.
LEMMA ThreadReadFits ==
  ASSUME Watched, NEW c \in Checks, NEW t \in Threads, ThreadRead(c, t)
  PROVE  Fits(checks[c])'
  <1> DEFINE next == [checks[c] EXCEPT !.answers[t] = mailbox[t]]
  <1>1. TypeOK /\ checks[c] \in Check /\ checks[c].at = "threads" /\ t \in checks[c].todo
        /\ Fits(checks[c])
    BY CheckFields DEF Watched, ThreadRead, At
  <1>2. /\ next.position = checks[c].position /\ next.previous = checks[c].previous
        /\ next.at = "threads" /\ next.day = checks[c].day /\ next.todo = checks[c].todo
        /\ next.gap = checks[c].gap /\ next.answers = [checks[c].answers EXCEPT ![t] = mailbox[t]]
        /\ next.pages = checks[c].pages /\ next.below = checks[c].below
        /\ next.crossed = checks[c].crossed /\ next.more = checks[c].more
    BY <1>1 DEF Check
  <1>3. checks'[c] = next /\ UNCHANGED <<mailVars, seen>>
    BY <1>1 DEF ThreadRead, GoesOn, TypeOK
  <1> HIDE DEF next
  <1>4. ASSUME NEW u \in Threads, next.answers[u] # None
        PROVE  AnswerFits(next, u)
    <2>1. CASE u = t
      <3>1. next.answers[u] = mailbox[t]
        BY <1>1, <1>2, <2>1 DEF Check
      <3>2. mailbox[t].last <= mails
            /\ \A v \in Threads : mailbox[v].last <= mailbox[t].last =>
                                    mailbox[v].day <= mailbox[t].day
        BY DEF Watched, MailboxOrdered
      <3>3. next.pages > 0 => next.below <= mailbox[t].last
        BY <1>1, <1>2 DEF Fits
      <3> QED  BY <2>1, <3>1, <3>2, <3>3 DEF AnswerFits
    <2>2. CASE u # t
      <3>1. next.answers[u] = checks[c].answers[u]
        BY <1>1, <1>2, <2>2 DEF Check
      <3>2. AnswerFits(checks[c], u)
        BY <1>1, <1>4, <3>1 DEF Fits
      <3> QED  BY <1>2, <3>1, <3>2 DEF AnswerFits
    <2> QED  BY <2>1, <2>2
  <1>5. MissedNothing(checks[c]) => MissedNothing(next)
    BY <1>1, <1>2 DEF MissedNothing
  <1>6. CrossedFits(checks[c]) => CrossedFits(next)
    BY <1>2 DEF CrossedFits
  <1>7. Fits(next)
    BY <1>1, <1>2, <1>4, <1>5, <1>6 DEF Fits
  <1> QED  BY <1>3, <1>7, FitsAlone

\* A thread that cannot be read leaves the list, and a gap.
LEMMA ThreadFailsFits ==
  ASSUME Watched, NEW c \in Checks, NEW t \in Threads, ThreadFails(c, t)
  PROVE  Fits(checks[c])'
  <1> DEFINE next == [checks[c] EXCEPT !.todo = @ \ {t}, !.gap = TRUE]
  <1>1. TypeOK /\ checks[c] \in Check /\ checks[c].at = "threads" /\ Fits(checks[c])
    BY CheckFields DEF Watched, ThreadFails, At
  <1>2. /\ next.position = checks[c].position /\ next.previous = checks[c].previous
        /\ next.at = "threads" /\ next.day = checks[c].day /\ next.todo = checks[c].todo \ {t}
        /\ next.gap /\ next.answers = checks[c].answers
        /\ next.pages = checks[c].pages /\ next.below = checks[c].below
        /\ next.crossed = checks[c].crossed /\ next.more = checks[c].more
    BY <1>1 DEF Check
  <1>3. checks'[c] = next /\ UNCHANGED <<mailVars, seen>>
    BY <1>1 DEF ThreadFails, GoesOn, TypeOK
  <1> HIDE DEF next
  <1>4. Fits(next)
    BY <1>1, <1>2 DEF Fits, AnswerFits, CrossedFits
  <1> QED  BY <1>3, <1>4, FitsAlone

\* A check goes on to the next page when its list is done.
LEMMA NextPageFits ==
  ASSUME Watched, NEW c \in Checks, NextPage(c)
  PROVE  Fits(checks[c])'
  <1> DEFINE next == [checks[c] EXCEPT !.at = "page"]
  <1>1. TypeOK /\ checks[c] \in Check /\ checks[c].at = "threads" /\ checks[c].todo = {}
        /\ Fits(checks[c]) /\ checks[c].more /\ ~checks[c].crossed /\ checks[c].pages < MaxPages
    BY CheckFields DEF Watched, NextPage, Handled, WantsPage, At
  <1>2. /\ next.position = checks[c].position /\ next.previous = checks[c].previous
        /\ next.at = "page" /\ next.day = checks[c].day /\ next.todo = checks[c].todo
        /\ next.gap = checks[c].gap /\ next.answers = checks[c].answers
        /\ next.pages = checks[c].pages /\ next.below = checks[c].below
        /\ next.crossed = checks[c].crossed /\ next.more = checks[c].more
    BY <1>1 DEF Check
  <1>3. checks'[c] = next /\ UNCHANGED <<mailVars, seen>>
    BY <1>1 DEF NextPage, GoesOn, TypeOK
  <1> HIDE DEF next
  <1>4. checks[c].pages # 0
    BY <1>1 DEF Fits
  <1>5. MissedNothing(checks[c]) => MissedNothing(next)
    BY <1>1, <1>2 DEF MissedNothing
  <1>6. \A t \in Threads : AnswerFits(checks[c], t) => AnswerFits(next, t)
    BY <1>2 DEF AnswerFits
  <1>7. Fits(next)
    BY <1>1, <1>2, <1>4, <1>5, <1>6 DEF Fits
  <1> QED  BY <1>3, <1>7, FitsAlone

\* The page holds what is due above its oldest message; the rest comes later.
LEMMA PageFits ==
  ASSUME Watched, NEW c \in Checks, PageRead(c)
  PROVE  Fits(checks[c])'
  <1> DEFINE page == Page(checks[c].below)
             below == IF page = {} THEN checks[c].below ELSE OldestOf(page)
             next == [checks[c] EXCEPT
               !.at = "threads", !.todo = page, !.answers = Unread, !.pages = @ + 1,
               !.more = page # Rest(checks[c].below), !.below = below]
  <1>1. TypeOK /\ MailboxOrdered /\ checks[c] \in Check /\ checks[c].at = "page"
        /\ Fits(checks[c]) /\ ~checks[c].crossed
        /\ checks[c].pages \in Nat /\ checks[c].below \in 1..(MaxMails + 1)
    BY CheckFields DEF Watched, PageRead, At, Fits
  <1>2. /\ next.position = checks[c].position /\ next.previous = checks[c].previous
        /\ next.at = "threads" /\ next.day = checks[c].day /\ next.todo = page
        /\ next.gap = checks[c].gap /\ next.answers = Unread
        /\ next.pages = checks[c].pages + 1 /\ next.below = below
        /\ next.crossed = checks[c].crossed
        /\ next.more = (page # Rest(checks[c].below))
    <2> HIDE DEF page, below
    <2> QED  BY <1>1 DEF Check
  <1>3. checks'[c] = next /\ UNCHANGED <<mailVars, seen>>
    <2>1. checks' = [checks EXCEPT ![c] = next] /\ UNCHANGED <<mailVars, seen>>
      BY DEF PageRead, GoesOn, OldestOf
    <2> HIDE DEF next
    <2> QED  BY <1>1, <2>1 DEF TypeOK
  <1>4. page \in SUBSET Threads /\ page \subseteq Rest(checks[c].below)
    BY DEF Page, Rest, InInbox
  <1>5. \A t \in page : below <= mailbox[t].last
    BY <1>1, <1>4, OldestFits
  <1>6. ASSUME NEW t \in Rest(checks[c].below), t \notin page
        PROVE  mailbox[t].last < below
    <2>1. CASE page = {}
      BY <2>1, <1>6 DEF Rest
    <2>2. CASE page # {}
      <3>1. PICK u \in page : OldestOf(page) = mailbox[u].last
        BY <1>1, <1>4, <2>2, OldestFits
      <3>2. mailbox[t].last < mailbox[u].last
        BY <1>1, <1>6, PageIsNewest
      <3> QED  BY <2>2, <3>1, <3>2
    <2> QED  BY <2>1, <2>2
  <1> HIDE DEF next, below, page
  <1>7. ASSUME ~checks[c].gap PROVE MissedNothing(next)
    <2>1. MissedNothing(checks[c])
      BY <1>1, <1>7 DEF Fits
    <2> SUFFICES ASSUME NEW t \in Threads, Due(t, next.position), ~SeenNow(t), t \notin page
                 PROVE  next.more /\ mailbox[t].last < next.below
      BY <1>2 DEF MissedNothing
    <2>2. mailbox[t].last < checks[c].below
      BY <1>1, <1>2, <2>1 DEF MissedNothing
    <2>3. mailbox[t].inbox > 0
      BY <1>1 DEF SeenNow, TypeOK, Mail, Positions
    <2>4. t \in Rest(checks[c].below)
      BY <2>2, <2>3 DEF Rest, InInbox
    <2> QED  BY <1>2, <1>6, <2>4
  <1>8. Fits(next)
    BY <1>1, <1>2, <1>5, <1>7 DEF Fits, Unread
  <1> QED  BY <1>3, <1>8, FitsAlone

\* A thread is seen with the newest message it had when it was read; one that is older than
\* the look-back shows that nothing on later pages is due.
LEMMA HandledFits ==
  ASSUME Watched, NEW c \in Checks, NEW t \in Threads, ThreadHandled(c, t)
  PROVE  Fits(checks[c])'
  <1>0. PICK check : check = checks[c]
    OBVIOUS
  <1> DEFINE mail == check.answers[t]
             old == mail.day < check.day - Lookback
             next == [check EXCEPT !.todo = @ \ {t}, !.crossed = @ \/ old]
  <1>1. TypeOK /\ MailboxOrdered /\ check \in Check /\ check.at = "threads"
        /\ t \in check.todo /\ Fits(check) /\ mail # None
    BY <1>0, CheckFields DEF Watched, ThreadHandled, At
  <1>2. AnswerFits(check, t) /\ mail \in Mail
    BY <1>1 DEF Fits, Check
  <1>3. /\ mail.last \in Nat /\ mail.inbox \in Nat /\ mail.day \in Nat
        /\ check.day \in Nat /\ check.position \in Nat /\ today \in Nat /\ mails \in Nat
        /\ Lookback \in Nat /\ check.below \in Nat /\ check.day <= today
    BY <1>1, <1>2, FollowUpConstants DEF Mail, Positions, Days, Check, TypeOK, Fits
  <1>4. \A u \in Threads : /\ mailbox[u].last \in Nat /\ mailbox[u].inbox \in Nat
                           /\ mailbox[u].day \in Nat /\ seen[u] \in Nat
    BY <1>1 DEF TypeOK, Mail, Positions, Days
  <1>5. /\ next.position = check.position /\ next.previous = check.previous
        /\ next.at = "threads" /\ next.day = check.day /\ next.todo = check.todo \ {t}
        /\ next.gap = check.gap /\ next.answers = check.answers
        /\ next.pages = check.pages /\ next.below = check.below
        /\ next.crossed = (check.crossed \/ old) /\ next.more = check.more
    <2> HIDE DEF old
    <2> QED  BY <1>1 DEF Check
  <1>6. checks'[c] = next /\ UNCHANGED mailVars
    <2>1. checks' = [checks EXCEPT ![c] = next] /\ UNCHANGED mailVars
      BY <1>0 DEF ThreadHandled, GoesOn
    <2> HIDE DEF next
    <2> QED  BY <1>1, <2>1 DEF TypeOK
  <1>7. seen' = IF old \/ mail.inbox < seen[t] THEN seen ELSE [seen EXCEPT ![t] = mail.inbox]
    BY <1>0 DEF ThreadHandled
  <1> HIDE DEF next
  <1>8. ASSUME old, check.pages > 0 PROVE CrossedFits(check)
    BY <1>2, <1>3, <1>4, <1>8 DEF AnswerFits, CrossedFits
  <1>9. ASSUME NEW u \in Threads PROVE SeenNow(u) => SeenNow(u)'
    <2>1. seen[u] <= seen'[u] /\ seen'[u] \in Nat
      <3> HIDE DEF old, mail
      <3> QED  BY <1>1, <1>3, <1>4, <1>7 DEF TypeOK
    <2>2. mailbox' = mailbox
      BY <1>6 DEF mailVars
    <2> QED  BY <1>4, <2>1, <2>2 DEF SeenNow
  <1>10. ASSUME Due(t, check.position) PROVE SeenNow(t)'
    <2>1. mailbox[t].inbox = mailbox[t].last /\ mailbox[t].inbox <= check.position
          /\ mailbox[t].day >= today - Lookback
      BY <1>1, <1>10 DEF MailboxOrdered, Due
    <2>2. mail = mailbox[t]
      BY <1>2, <1>3, <1>4, <2>1 DEF AnswerFits
    <2>3. ~old
      BY <1>3, <2>1, <2>2
    <2>4. seen'[t] >= mail.inbox
      <3> HIDE DEF old, mail
      <3> QED  BY <1>1, <1>3, <1>4, <1>7, <2>3 DEF TypeOK
    <2>5. mailbox' = mailbox
      BY <1>6 DEF mailVars
    <2> QED  BY <2>2, <2>4, <2>5 DEF SeenNow
  <1>11. ASSUME ~check.gap PROVE MissedNothing(next)'
    <2>1. MissedNothing(check)
      BY <1>1, <1>11 DEF Fits
    <2>2. UNCHANGED <<mails, today, mailbox>>
      BY <1>6 DEF mailVars
    <2> SUFFICES ASSUME NEW u \in Threads, Due(u, next.position)
                 PROVE  \/ SeenNow(u)'
                        \/ next.at = "threads" /\ u \in next.todo
                        \/ (next.at = "page" \/ next.more) /\ mailbox[u].last < next.below
      BY <2>2 DEF MissedNothing, Due
    <2>3. \/ SeenNow(u) \/ u \in check.todo
          \/ check.more /\ mailbox[u].last < check.below
      BY <1>1, <1>5, <2>1 DEF MissedNothing
    <2> QED  BY <1>5, <1>9, <1>10, <2>3
  <1>12. ASSUME Covered(check.previous) PROVE Covered(check.previous)'
    BY <1>6, <1>9, <1>12 DEF Covered, Due, mailVars
  <1>13. \A u \in Threads : AnswerFits(check, u) => AnswerFits(next, u)'
    BY <1>5, <1>6 DEF AnswerFits, mailVars
  <1>14. CrossedFits(check) => CrossedFits(next)'
    BY <1>5, <1>6 DEF CrossedFits, mailVars
  <1>15. /\ next.position <= mails' /\ next.day <= today'
         /\ next.previous # None => next.previous <= mails' /\ Covered(next.previous)'
         /\ next.pages = 0 => ~next.more
         /\ next.pages > 0 => \A u \in next.todo : next.below <= mailbox'[u].last
    BY <1>1, <1>5, <1>6, <1>12 DEF Fits, mailVars
  <1>16. /\ \A u \in Threads : next.answers[u] # None => AnswerFits(next, u)'
         /\ next.crossed /\ next.pages > 0 => CrossedFits(next)'
         /\ ~next.gap => MissedNothing(next)'
    <2> HIDE DEF old
    <2> QED  BY <1>1, <1>5, <1>8, <1>11, <1>13, <1>14 DEF Fits
  <1>17. Fits(next)'
    BY <1>5, <1>15, <1>16 DEF Fits
  <1> QED  BY <1>6, <1>17, FitsNext

\* After a step of a check, the checks that are still in flight fit.
LEMMA StepFits ==
  ASSUME Watched, NEW c \in Checks, CheckStep(c), checks'[c] # None
  PROVE  Fits(checks[c])'
  <1>1. TypeOK
    BY DEF Watched
  <1>2. ~FinishCheck(c) /\ ~CheckFails(c)
    BY <1>1 DEF FinishCheck, CheckFails, GoesOn, TypeOK
  <1> QED  BY <1>2, StartFits, ProfileFits, HistoryGoneFits, PageFits, HistoryFits, ThreadReadFits,
              ThreadFailsFits, HandledFits, NextPageFits DEF CheckStep

\* A step of one check leaves the others as they are.
LEMMA OthersStay ==
  ASSUME TypeOK, NEW c \in Checks, CheckStep(c)
  PROVE  \A d \in Checks \ {c} : checks'[d] = checks[d]
  BY DEF CheckStep, StartCheck, ProfileRead, HistoryGone, PageRead, HistoryRead, ThreadRead,
         ThreadFails, ThreadHandled, NextPage, FinishCheck, CheckFails, GoesOn, TypeOK

\* The saved position changes only to that of a check that ends, or is lost.
LEMMA PositionSaved ==
  ASSUME Watched, [Next]_vars
  PROVE  \/ watermark' = watermark
         \/ watermark' = None
         \/ \E c \in Checks : FinishCheck(c)
  <1>1. ASSUME NEW c \in Checks, CheckStep(c)
        PROVE  FinishCheck(c) \/ watermark' = watermark
    BY <1>1 DEF CheckStep, StartCheck, ProfileRead, HistoryGone, PageRead, HistoryRead,
                ThreadRead, ThreadFails, ThreadHandled, NextPage, CheckFails
  <1>2. CASE PersonStep
    BY <1>2 DEF PersonStep, Decide, AssociateAgain, Associate, DeleteTicket, SourceReset, checkVars
  <1> QED  BY <1>1, <1>2 DEF Next, Arrive, DayPasses, TicketStep, Restart, checkVars, vars

\* What no check does changes no check, but a start of the companion ends them all.
LEMMA ChecksKept ==
  ASSUME Watched, [Next]_vars, NEW c \in Checks, checks'[c] # None, ~CheckStep(c)
  PROVE  checks'[c] = checks[c]
  <1>1. TypeOK
    BY DEF Watched
  <1>2. ASSUME NEW d \in Checks, CheckStep(d)
        PROVE  checks'[c] = checks[c]
    BY <1>1, <1>2, OthersStay
  <1>3. CASE Restart
    BY <1>3 DEF Restart
  <1> QED  BY <1>2, <1>3 DEF Next, Arrive, DayPasses, PersonStep, Decide, AssociateAgain,
              Associate, DeleteTicket, SourceReset, TicketStep, checkVars, vars

\* Nothing has arrived and nothing was saved.
LEMMA WatchedInit ==
  ASSUME Init
  PROVE  Watched
  <1>1. TypeOK
    <2>1. TicketsTypeOK
      <3>1. <<>> \in Seq(StatusEvent)
        OBVIOUS
      <3> QED  BY <3>1, TicketConstants DEF Init, TicketsInit, TicketsTypeOK, Times
    <2>2. mailbox \in [Threads -> Mail] /\ mails \in Positions /\ today \in Days
      BY FollowUpConstants DEF Init, Mail, Senders, Positions, Days
    <2> QED  BY <2>1, <2>2, FollowUpConstants DEF Init, TypeOK, Positions, Days
  <1>2. MailboxOrdered
    BY DEF Init, MailboxOrdered
  <1> QED  BY <1>1, <1>2 DEF Init, Watched

\* Every step keeps what the saved position rests on.
LEMMA WatchedStep ==
  ASSUME Watched, [Next]_vars
  PROVE  Watched'
  <1>1. TypeOK' /\ MailboxOrdered' /\ OnlyNewer
    BY NextTyped, StepIsNewer
  <1>2. ASSUME NEW c \in Checks, checks'[c] # None
        PROVE  Fits(checks[c])'
    <2>1. CASE CheckStep(c)
      BY <1>2, <2>1, StepFits
    <2>2. CASE ~CheckStep(c)
      <3>1. checks'[c] = checks[c]
        BY <1>2, <2>2, ChecksKept
      <3>2. PICK check : check = checks[c]
        OBVIOUS
      <3>3. check \in Check /\ Fits(check)
        BY <1>2, <3>1, <3>2 DEF Watched, TypeOK
      <3>4. Fits(check)'
        BY <1>1, <3>3, FitsStays
      <3> QED  BY <3>1, <3>2, <3>4, FitsNext
    <2> QED  BY <2>1, <2>2
  <1>3. ASSUME watermark' # None
        PROVE  watermark' <= mails' /\ Covered(watermark)'
    <2>1. PICK position : position = watermark'
      OBVIOUS
    <2>2. position \in Nat /\ mails \in Nat /\ mails' \in Nat
      BY <1>1, <1>3, <2>1 DEF TypeOK, Positions, Watched
    <2>3. position <= mails /\ Covered(position)
      <3>1. CASE watermark' = watermark
        BY <1>3, <2>1, <3>1 DEF Watched
      <3>2. ASSUME NEW c \in Checks, FinishCheck(c)
            PROVE  position <= mails /\ Covered(position)
        BY <1>3, <2>1, <3>2, NothingOwed DEF FinishCheck
      <3> QED  BY <1>3, <3>1, <3>2, PositionSaved
    <2>4. Covered(position)' /\ position <= mails'
      BY <1>1, <2>2, <2>3, CoveredStays DEF OnlyNewer
    <2> QED  BY <2>1, <2>4 DEF Covered, Due
  <1> QED  BY <1>1, <1>2, <1>3 DEF Watched

\* Threads, tickets, answers and checks keep their types through every operation, the
\* checks that overlap and the starts of the companion included.
THEOREM TypeCorrect == Spec => []TypeOK
  <1>1. Watched => TypeOK
    BY DEF Watched
  <1> QED  BY <1>1, WatchedInit, WatchedStep, PTL DEF Spec

\* No mail falls between two checks, whichever checks overlap, fail, stop at a limit or
\* lose their position: a message of another person that came before the saved position
\* and lies within the look-back has been seen by a check.
THEOREM NoMailFallsBetween == Spec => []WatermarkCovers
  <1>1. Watched => WatermarkCovers
    BY DEF Watched, WatermarkCovers, Covered, Due, SeenNow
  <1> QED  BY <1>1, WatchedInit, WatchedStep, PTL DEF Spec

-----------------------------------------------------------------------------
(* Links and history.                                                      *)

\* What each step does to the links and the answers.
LEMMA LinkStandsStep ==
  ASSUME TypeOK, Next
  PROVE  /\ \A t \in Threads : Linked(t) /\ links'[t] # links[t] =>
              links'[t] = None /\ tickets'[links[t]] = None
         /\ \A k \in Keys : replies'[k] # replies[k] =>
              links'[replies'[k].thread] = replies'[k].ticket
  <1> DEFINE Goal == /\ \A t \in Threads : Linked(t) /\ links'[t] # links[t] =>
                          links'[t] = None /\ tickets'[links[t]] = None
                     /\ \A k \in Keys : replies'[k] # replies[k] =>
                          links'[replies'[k].thread] = replies'[k].ticket
  <1> SUFFICES Goal
    OBVIOUS
  <1>1. ASSUME UNCHANGED <<links, replies>> PROVE Goal
    BY <1>1
  <1>2. ASSUME NEW gone \in SUBSET Threads, RowsGone(gone), UNCHANGED replies,
               \A t \in gone : ~Linked(t)
        PROVE  Goal
    BY <1>2 DEF RowsGone
  <1>3. ASSUME NEW c \in Checks, CheckStep(c) PROVE Goal
    <2>1. ASSUME NEW t \in Threads, ThreadHandled(c, t) PROVE Goal
      <3> DEFINE mail == checks[c].answers[t]
                 gone == ~(mail.day < checks[c].day - Lookback)
                           /\ ~Eligible(t, mail) /\ Removable(t)
      <3>1. RowsGone({u \in {t} : gone}) /\ UNCHANGED replies
        BY <2>1 DEF ThreadHandled
      <3>2. \A u \in {u \in {t} : gone} : ~Linked(u)
        BY DEF Removable
      <3>3. {u \in {t} : gone} \in SUBSET Threads
        OBVIOUS
      <3> HIDE DEF gone, Goal
      <3> QED  BY <1>2, <3>1, <3>2, <3>3
    <2> HIDE DEF Goal
    <2> QED  BY <1>1, <1>3, <2>1 DEF CheckStep, StartCheck, ProfileRead, HistoryGone, PageRead,
               HistoryRead, ThreadRead, ThreadFails, NextPage, FinishCheck, CheckFails, storeVars
  <1>4. CASE PersonStep
    <2>1. ASSUME NEW k \in Keys, NEW t \in Threads, AssociateAgain(k, t) PROVE Goal
      BY <2>1 DEF AssociateAgain, Answer, TypeOK
    <2>2. ASSUME NEW k \in Keys, NEW t \in Threads, NEW id \in TicketIds, NEW status \in Statuses,
                 Associate(k, t, id, status)
          PROVE  Goal
      BY <2>2 DEF Associate, Answer, Linked, TypeOK
    <2>3. ASSUME NEW id \in TicketIds, DeleteTicket(id) PROVE Goal
      BY <2>3 DEF DeleteTicket, Deleted, Linked, TypeOK, TicketsTypeOK
    <2>4. ASSUME NEW t \in Threads, NEW state \in Decisions, Decide(t, state) PROVE Goal
      BY <2>4 DEF Decide
    <2>5. CASE SourceReset
      BY <2>5 DEF SourceReset, storeVars
    <2> HIDE DEF Goal
    <2> QED  BY <1>4, <2>1, <2>2, <2>3, <2>4, <2>5 DEF PersonStep
  <1>5. CASE Restart
    <2>1. \A t \in {t \in Threads : Removable(t)} : ~Linked(t)
      BY DEF Removable
    <2>2. {t \in Threads : Removable(t)} \in SUBSET Threads
      OBVIOUS
    <2> HIDE DEF Goal
    <2> QED  BY <1>2, <1>5, <2>1, <2>2 DEF Restart
  <1> HIDE DEF Goal
  <1> QED  BY <1>1, <1>3, <1>4, <1>5 DEF Next, Arrive, DayPasses, TicketStep, storeVars

\* A thread keeps its ticket until that ticket is deleted, whatever checks, decisions and
\* restarts do to its row, and every answer names the ticket the thread is linked to.
THEOREM LinksStand == Spec => LinkStands
  <1>1. TypeOK /\ [Next]_vars =>
          [/\ \A t \in Threads : Linked(t) /\ links'[t] # links[t] =>
                links'[t] = None /\ tickets'[links[t]] = None
           /\ \A k \in Keys : replies'[k] # replies[k] =>
                links'[replies'[k].thread] = replies'[k].ticket]_vars
    BY LinkStandsStep
  <1> QED  BY <1>1, TypeCorrect, PTL DEF Spec, LinkStands

\* A history without a break: each change starts where the one before ended.
Chain(events) ==
  /\ \A i \in 2..Len(events) : events[i].from = events[i - 1].to
  /\ \A i \in 2..Len(events) : events[i].from # events[i].to

\* What a history says of the row of its ticket.
Explains(events, row) ==
  /\ Chain(events)
  /\ row = None => events = <<>>
  /\ row # None /\ events # <<>> =>
       /\ row.status = Last(events).to
       /\ row.completedAt = Last(events).completion
       /\ row.completedAt # None <=> row.status = "done"

\* A chain goes on with a change that starts where it ended.
LEMMA ChainGoesOn ==
  ASSUME NEW events \in Seq(StatusEvent), NEW event \in StatusEvent, Chain(events),
         events # <<>> => event.from = Last(events).to /\ event.from # event.to
  PROVE  Chain(events \o <<event>>) /\ Last(events \o <<event>>) = event
         /\ events \o <<event>> # <<>>
  <1> DEFINE all == events \o <<event>>
  <1>1. /\ Len(all) = Len(events) + 1 /\ all[Len(events) + 1] = event
        /\ \A i \in 1..Len(events) : all[i] = events[i]
        /\ Len(events) \in Nat /\ all \in Seq(StatusEvent)
    OBVIOUS
  <1>2. events # <<>> => Len(events) >= 1
    BY <1>1
  <1>3. Last(all) = event
    BY <1>1 DEF Last
  <1>4. ASSUME NEW i \in 2..Len(all)
        PROVE  all[i].from = all[i - 1].to /\ all[i].from # all[i].to
    <2>1. CASE i <= Len(events)
      BY <1>1, <2>1 DEF Chain
    <2>2. CASE i = Len(events) + 1
      <3>1. events # <<>> /\ all[i] = event /\ all[i - 1] = Last(events)
        BY <1>1, <2>2 DEF Last
      <3> QED  BY <3>1
    <2> QED  BY <1>1, <2>1, <2>2
  <1>5. all # <<>>
    BY <1>1
  <1> HIDE DEF all
  <1>6. Chain(all)
    BY <1>4 DEF Chain
  <1> QED  BY <1>3, <1>5, <1>6 DEF all

\* A change of status goes on with the chain.
LEMMA TransitionExplains ==
  ASSUME TicketsTypeOK, NEW id \in TicketIds, Explains(history[id], tickets[id]),
         NEW expected, NEW status \in Statuses, NEW at \in Times,
         Transition(id, expected, status, at)
  PROVE  Explains(history'[id], tickets'[id])
  <1> DEFINE row == tickets[id]
             new == [status |-> status, updatedAt |-> at,
                     completedAt |-> Completion(row, status, at)]
             event == StatusChange(row.status, status, IF status = "done" THEN at ELSE None)
  <1>1. row \in Ticket /\ row # None /\ history[id] \in Seq(StatusEvent)
    BY DEF TicketsTypeOK, Transition, Stored
  <1>2. /\ tickets'[id] = new
        /\ history'[id] = history[id] \o (IF status = row.status THEN <<>> ELSE <<event>>)
    <2>1. Saved(id, new, IF status = row.status THEN <<>> ELSE <<event>>)
      BY DEF Transition
    <2> HIDE DEF row, new, event
    <2> QED  BY <2>1 DEF Saved, TicketsTypeOK
  <1>3. new \in Ticket
    BY <1>1, CompletionTyped DEF Ticket
  <1>4. new # None /\ at # None
    BY <1>3, NoneIsNoTicket, TicketConstants DEF Times
  <1>5. CASE status = row.status
    <2>1. history'[id] = history[id]
      BY <1>1, <1>2, <1>5
    <2>2. new.status = row.status /\ new.completedAt = row.completedAt
      BY <1>5 DEF Completion
    <2> QED  BY <1>1, <1>2, <1>4, <2>1, <2>2 DEF Explains
  <1>6. CASE status # row.status
    <2>1. event \in StatusEvent /\ event.from = row.status /\ event.to = status
          /\ event.completion = IF status = "done" THEN at ELSE None
      BY <1>1 DEF Ticket, StatusChange, StatusEvent
    <2>2. /\ Chain(history[id] \o <<event>>) /\ Last(history[id] \o <<event>>) = event
          /\ history[id] \o <<event>> # <<>>
      <3> HIDE DEF event
      <3> QED  BY <1>1, <1>6, <2>1, ChainGoesOn DEF Explains
    <2>3. new.status = status /\ new.completedAt = IF status = "done" THEN at ELSE None
      BY <1>6 DEF Completion
    <2> HIDE DEF event, new, row
    <2>4. history'[id] = history[id] \o <<event>>
      BY <1>2, <1>6
    <2> QED  BY <1>2, <1>4, <2>1, <2>2, <2>3, <2>4 DEF Explains
  <1> QED  BY <1>5, <1>6

\* A new ticket begins its chain.
LEMMA CreateExplains ==
  ASSUME TicketsTypeOK, NEW id \in TicketIds, Explains(history[id], tickets[id]),
         NEW status \in Statuses, Create(id, status)
  PROVE  Explains(history'[id], tickets'[id])
  <1> DEFINE completed == IF status = "done" THEN now ELSE None
             new == [status |-> status, updatedAt |-> now, completedAt |-> completed]
             event == StatusChange(None, status, completed)
  <1>1. now \in Times /\ now # None
    BY TicketConstants DEF TicketsTypeOK, Times
  <1>2. new \in Ticket /\ event \in StatusEvent
    BY <1>1 DEF Ticket, StatusChange, StatusEvent
  <1>3. tickets'[id] = new /\ history'[id] = history[id] \o <<event>>
    BY DEF Create, Saved, TicketsTypeOK
  <1>4. history[id] = <<>> /\ <<>> \in Seq(StatusEvent)
    BY DEF Explains, Create, Stored
  <1>5. /\ new.status = status /\ new.completedAt = completed
        /\ event.to = status /\ event.completion = completed /\ new # None
        /\ completed # None <=> status = "done"
    BY <1>1, <1>2, NoneIsNoTicket DEF StatusChange
  <1> HIDE DEF event, new, completed
  <1>6. /\ Chain(history[id] \o <<event>>) /\ Last(history[id] \o <<event>>) = event
        /\ history[id] \o <<event>> # <<>>
    BY <1>2, <1>4, ChainGoesOn DEF Explains
  <1> QED  BY <1>3, <1>5, <1>6 DEF Explains

\* Only the ticket that is written changes.
LEMMA OthersKept ==
  ASSUME TicketsTypeOK, NEW id \in TicketIds, NEW other \in TicketIds \ {id}
  PROVE  /\ \A expected, status, at : Transition(id, expected, status, at) =>
              tickets'[other] = tickets[other] /\ history'[other] = history[other]
         /\ \A status : Create(id, status) =>
              tickets'[other] = tickets[other] /\ history'[other] = history[other]
  BY DEF Transition, Create, Saved, TicketsTypeOK

\* Every step keeps the histories of all tickets.
LEMMA HistoryStep ==
  ASSUME TypeOK, HistoryExplainsTicket, [Next]_vars
  PROVE  HistoryExplainsTicket'
  <1>1. TicketsTypeOK /\ \A id \in TicketIds : Explains(history[id], tickets[id])
    BY DEF TypeOK, HistoryExplainsTicket, Explains, Chain, Stored
  <1> SUFFICES ASSUME NEW id \in TicketIds
               PROVE  Explains(history'[id], tickets'[id])
    BY DEF HistoryExplainsTicket, Explains, Chain, Stored
  <1>2. CASE UNCHANGED <<tickets, history>>
    BY <1>1, <1>2
  <1>3. ASSUME NEW other \in TicketIds, NEW expected \in Times, NEW status \in Statuses,
               NEW at \in Times, Transition(other, expected, status, at)
        PROVE  Explains(history'[id], tickets'[id])
    BY <1>1, <1>3, TransitionExplains, OthersKept
  <1>4. ASSUME NEW other \in TicketIds, NEW status \in Statuses, Create(other, status)
        PROVE  Explains(history'[id], tickets'[id])
    BY <1>1, <1>4, CreateExplains, OthersKept
  <1>5. CASE TicketStep
    <2>1. ASSUME NEW e \in Editors, NEW status \in Statuses, PatchEnds(e, status)
          PROVE  Explains(history'[id], tickets'[id])
      <3>1. edits[e].ticket \in TicketIds /\ edits[e].expected \in Times /\ now \in Times
        BY <1>1, <2>1 DEF PatchEnds, TicketsTypeOK, Edit
      <3> QED  BY <1>2, <1>3, <2>1, <3>1 DEF PatchEnds
    <2>2. ASSUME NEW other \in TicketIds, NEW status \in Statuses, NEW at \in Times,
                 OtherTransition(other, status, at)
          PROVE  Explains(history'[id], tickets'[id])
      <3>1. tickets[other].updatedAt \in Times
        BY <1>1, <2>2 DEF OtherTransition, Stored, TicketsTypeOK, Ticket
      <3> QED  BY <1>3, <2>2, <3>1 DEF OtherTransition
    <2> QED  BY <1>2, <1>4, <1>5, <2>1, <2>2 DEF TicketStep, Tick, CreateTicket, PatchBegins
  <1>6. CASE PersonStep
    <2>1. ASSUME NEW k \in Keys, NEW t \in Threads, NEW other \in TicketIds,
                 NEW status \in Statuses, Associate(k, t, other, status)
          PROVE  Explains(history'[id], tickets'[id])
      <3>1. CASE id = other /\ ~Stored(other)
        <4>1. history[id] = <<>> /\ history' = history
          BY <1>1, <2>1, <3>1 DEF Associate, Explains, Stored
        <4> QED  BY <4>1 DEF Explains, Chain
      <3>2. CASE id # other \/ Stored(other)
        BY <1>1, <2>1, <3>2 DEF Associate, TicketsTypeOK
      <3> QED  BY <3>1, <3>2
    <2>2. ASSUME NEW other \in TicketIds, DeleteTicket(other)
          PROVE  Explains(history'[id], tickets'[id])
      <3>1. CASE id = other
        <4>1. history'[id] = <<>> /\ tickets'[id] = None
          BY <1>1, <2>2, <3>1 DEF DeleteTicket, Deleted, TicketsTypeOK
        <4> QED  BY <4>1 DEF Explains, Chain
      <3>2. CASE id # other
        BY <1>1, <2>2, <3>2 DEF DeleteTicket, Deleted, TicketsTypeOK
      <3> QED  BY <3>1, <3>2
    <2> QED  BY <1>2, <1>6, <2>1, <2>2
             DEF PersonStep, Decide, AssociateAgain, SourceReset, ticketVars
  <1>7. ASSUME NEW c \in Checks, CheckStep(c) PROVE UNCHANGED <<tickets, history>>
    BY <1>7 DEF CheckStep, StartCheck, ProfileRead, HistoryGone, PageRead, HistoryRead, ThreadRead,
       ThreadFails, ThreadHandled, NextPage, FinishCheck, CheckFails, ticketVars
  <1> QED  BY <1>2, <1>5, <1>6, <1>7 DEF Next, Arrive, DayPasses, Restart, vars, ticketVars

\* Whoever changes a ticket: its history is one unbroken chain that ends at its status, and
\* says since when it counts as completed.
THEOREM HistoryExplains == Spec => []HistoryExplainsTicket
  <1>1. Init => HistoryExplainsTicket
    BY DEF Init, TicketsInit, HistoryExplainsTicket, Stored
  <1> QED  BY <1>1, TypeCorrect, HistoryStep, PTL DEF Spec
=============================================================================
