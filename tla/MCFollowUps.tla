---------------------------- MODULE MCFollowUps ----------------------------
(* Small instances of FollowUps.                                           *)
EXTENDS FollowUps, TLC

InFlight == Cardinality({c \in Checks : checks[c] # None})
Editing == Cardinality({e \in Editors : edits[e] # None})
StoredTickets == {id \in TicketIds : Stored(id)}
Changes == {<<id, i>> \in TicketIds \X (1..MaxHistory) : i \in DOMAIN history[id]}
Answered == {k \in Keys : replies[k] # None}
Touched == {t \in Threads : emails[t] # None /\ emails[t].state # "candidate"}

\* Mail comes and checks run, two at once over one thread, while nobody decides anything,
MailScene ==
  /\ Touched = {} /\ StoredTickets = {} /\ now = 0 /\ Editing = 0
  /\ Answered = {}
  /\ InFlight = 2 => mails <= 2 /\ today = 0 /\ Cardinality(InInbox) <= 1
  /\ mails = 3 => today = 0 /\ InInbox = Threads

\* threads are decided on, linked and read again,
LinkScene ==
  /\ mails <= 2 /\ InFlight <= 1 /\ today = 0
  /\ InFlight = 1 => Cardinality(InInbox) <= 1
  /\ Answered = Keys => mails <= 1 /\ InFlight = 0
  /\ Changes = {} /\ now = 0 /\ Editing = 0

\* and tickets are edited while no check runs.
EditScene ==
  /\ mails <= 1 /\ InFlight = 0 /\ today = 0
  /\ watermark = None /\ Answered # Keys /\ Cardinality(Changes) <= 2

\* Bound of the model: what is looked at together.
Scenes == MailScene \/ LinkScene \/ EditScene

Symmetric == Permutations(Threads) \cup Permutations(Checks) \cup Permutations(TicketIds)
=============================================================================
