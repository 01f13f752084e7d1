------------------------------ MODULE Workspace ------------------------------
(***************************************************************************)
(* The tickets a page of the browser shows: the state of App.tsx over      *)
(* companion-repository.ts, companion-client.ts and the ticket routes of   *)
(* the companion.                                                          *)
(*                                                                         *)
(* Every call is a request of its own: it is served at one moment and      *)
(* answered at another, so answers arrive in any order, or never.  A list  *)
(* that is answered replaces the tickets shown, whatever was learned since *)
(* it was served.  React renders what one answer, or several, have set;    *)
(* the page lists the tickets again when a render has another number of    *)
(* them than the one before.  A change sends the whole ticket as it was    *)
(* rendered, and is judged by the time of that copy: a clock that stands   *)
(* still or is set back, and an event of another machine, may give two     *)
(* changes of a ticket the same time.                                      *)
(***************************************************************************)
EXTENDS Absence, Integers, FiniteSets, Sequences, FiniteSetsExt, Selections

CONSTANTS
  TicketIds, Notes,
  MaxClock,      \* bound of the model: the times of changes
  MaxInFlight    \* bound of the model: requests of the page at once

ASSUME WorkspaceConstants ==
  /\ MaxClock \in Nat /\ MaxInFlight \in Nat \ {0}
  /\ IsFiniteSet(TicketIds) /\ None \notin TicketIds \cup Notes

VARIABLES
  store,      \* the tickets of the companion
  dates,      \* of each ticket, the times its changes had
  redated,    \* the tickets two changes of which had one time
  shown,      \* the tickets of the page, as its answers have set them
  shownState, \* operationalTicketState
  rendered,   \* the tickets of its last render
  toRender,   \* an answer has set tickets that are not rendered
  joined,     \* since the last list that was answered, one render had two answers
  inFlight    \* the requests of the page that are not answered

storeVars == <<store, dates, redated>>
renderVars == <<rendered, toRender, joined>>
workspaceVars == <<storeVars, shown, shownState, renderVars, inFlight>>

-----------------------------------------------------------------------------
TicketCopy == [id : TicketIds, version : 1..MaxClock, notes : SUBSET Notes]
ShownStates == {"loading", "current", "stale", "error"}

\* What is asked, and what the page remembers with it: with a list whether it showed
\* tickets, with a change the ticket it sends.
Asked == [kind : {"list"}, had : BOOLEAN]
         \cup [kind : {"create", "delete"}, id : TicketIds]
         \cup [kind : {"update"}, ticket : TicketCopy]
Outcome == [ok : BOOLEAN, tickets : Seq(TicketCopy)]

WorkspaceTypeOK ==
  /\ store \in [TicketIds -> TicketCopy \cup {None}]
  /\ dates \in [TicketIds -> SUBSET (1..MaxClock)] /\ redated \subseteq TicketIds
  /\ shown \in Seq(TicketCopy) /\ rendered \in Seq(TicketCopy)
  /\ toRender \in BOOLEAN /\ joined \in BOOLEAN
  /\ shownState \in ShownStates
  /\ inFlight \subseteq [id : 1..MaxInFlight, ask : Asked, outcome : Outcome \cup {None}]

Failure == [ok |-> FALSE, tickets |-> <<>>]
Success(list) == [ok |-> TRUE, tickets |-> list]

\* companionFetch: what is asked becomes a request of its own.
Sent(requests, ask) ==
  requests \cup {[id |-> Min({n \in 1..(MaxInFlight + 1) : \A r \in requests : r.id # n}),
                  ask |-> ask, outcome |-> None]}

ListAsk(list) == [kind |-> "list", had |-> Len(list) > 0]

WorkspaceInit ==
  /\ store = [t \in TicketIds |-> None] /\ dates = [t \in TicketIds |-> {}] /\ redated = {}
  /\ shown = <<>> /\ shownState = "loading"
  /\ rendered = <<>> /\ toRender = FALSE /\ joined = FALSE
  /\ inFlight = Sent({}, ListAsk(rendered))

-----------------------------------------------------------------------------
(* The companion.                                                          *)
Kept(id) == store[id] # None

\* The time of a change is what the clock then says, or what the event that closes a ticket says.
Put(id, notes, at) ==
  /\ store' = [store EXCEPT ![id] = [id |-> id, version |-> at, notes |-> notes]]
  /\ dates' = [dates EXCEPT ![id] = @ \cup {at}]
  /\ redated' = IF at \in dates[id] THEN redated \cup {id} ELSE redated

Drop(id) == store' = [store EXCEPT ![id] = None] /\ UNCHANGED <<dates, redated>>

\* listTickets: the tickets changed last come first, those of one time in any order.
Listings ==
  LET kept == {store[t] : t \in {u \in TicketIds : Kept(u)}}
      n == Cardinality(kept)
  IN {list \in [1..n -> kept] :
        \A i, j \in 1..n : i < j => list[i] # list[j] /\ list[i].version >= list[j].version}

Resolves(r, outcome) == inFlight' = (inFlight \ {r}) \cup {[r EXCEPT !.outcome = outcome]}
Refuses(r) == Resolves(r, Failure) /\ UNCHANGED storeVars

\* Mutant: the time of the copy a change is made on is not compared.
AnyCopy(copy) == Kept(copy.id)

\* PATCH changes the ticket only when the copy it carries is the one stored.
IsLatest(copy) == Kept(copy.id) /\ store[copy.id].version = copy.version

\* The ticket routes: one request is served.
ServeTickets(r) ==
  /\ r.outcome = None
  /\ CASE r.ask.kind = "list" ->
            (\E list \in Listings : Resolves(r, Success(list))) /\ UNCHANGED storeVars
       [] r.ask.kind = "create" ->
            IF Kept(r.ask.id) THEN Refuses(r)
            ELSE (\E at \in 1..MaxClock : Put(r.ask.id, {}, at))
                 /\ Resolves(r, Success(<<store'[r.ask.id]>>))
       [] r.ask.kind = "delete" ->
            IF Kept(r.ask.id) THEN Drop(r.ask.id) /\ Resolves(r, Success(<<>>)) ELSE Refuses(r)
       [] r.ask.kind = "update" ->
            IF IsLatest(r.ask.ticket)
            THEN (\E at \in 1..MaxClock : Put(r.ask.ticket.id, r.ask.ticket.notes, at))
                 /\ Resolves(r, Success(<<store'[r.ask.ticket.id]>>))
            ELSE Refuses(r)
  /\ UNCHANGED <<shown, shownState, renderVars>>

\* Agents, reconciliation and other pages change the same tickets.
OthersWrite(t, notes) ==
  /\ Kept(t) => store[t].notes \subseteq notes
  /\ \E at \in 1..MaxClock : Put(t, notes, at)
  /\ UNCHANGED <<shown, shownState, renderVars, inFlight>>
OthersDelete(t) == Kept(t) /\ Drop(t) /\ UNCHANGED <<shown, shownState, renderVars, inFlight>>

-----------------------------------------------------------------------------
(* The page.                                                               *)
Asks(ask) ==
  /\ inFlight' = Sent(inFlight, ask)
  /\ UNCHANGED <<storeVars, shown, renderVars>>

\* refreshOperationalTickets up to its await: asked for by a person, after a reconciliation
\* or migration, or after a change that concerns tickets.
Loading(state) == IF state = "current" THEN "current" ELSE "loading"
RefreshTickets == Asks(ListAsk(rendered)) /\ shownState' = Loading(shownState)

\* handleCreate names the ticket with a fresh UUID.
Fresh(t) == dates[t] = {} /\ \A r \in inFlight : r.ask.kind = "create" => r.ask.id # t
CreateOnPage(t) == Fresh(t) /\ Asks([kind |-> "create", id |-> t]) /\ UNCHANGED shownState

\* performStatusChange and handleAddNote send the whole ticket as it was rendered first.
ChangeOnPage(copy, added) ==
  /\ copy = Picked(rendered, {i \in DOMAIN rendered : rendered[i].id = copy.id})[1]
  /\ Asks([kind |-> "update", ticket |-> [copy EXCEPT !.notes = @ \cup added]])
  /\ UNCHANGED shownState

DeleteOnPage(copy) == Asks([kind |-> "delete", id |-> copy.id]) /\ UNCHANGED shownState

\* setTickets: what an answer makes of the tickets waits to be rendered.  Until then another
\* answer may join it.
Shows(r, list, state) ==
  /\ inFlight' = inFlight \ {r}
  /\ shown' = list /\ shownState' = state
  /\ toRender' = TRUE /\ joined' = (r.ask.kind # "list" /\ (joined \/ toRender))
  /\ UNCHANGED rendered

\* What each call does with its answer.
Answered(r) ==
  /\ r.outcome # None /\ r.outcome.ok
  /\ CASE r.ask.kind = "list" -> Shows(r, r.outcome.tickets, "current")
       [] r.ask.kind = "create" -> Shows(r, shown \o r.outcome.tickets, "current")
       [] r.ask.kind = "delete" ->
            Shows(r, Picked(shown, {i \in DOMAIN shown : shown[i].id # r.ask.id}), shownState)
       [] r.ask.kind = "update" ->
            LET updated == r.outcome.tickets[1] IN
            Shows(r, [i \in DOMAIN shown |-> IF shown[i].id = updated.id THEN updated ELSE shown[i]],
                  shownState)
  /\ UNCHANGED storeVars

\* A refusal, or an answer that never arrives, whether or not the request was served.
AnswerFails(r) ==
  /\ inFlight' = inFlight \ {r}
  /\ shownState' = IF r.ask.kind # "list" \/ r.ask.had \/ shownState = "current"
                   THEN "stale" ELSE "error"
  /\ UNCHANGED <<storeVars, shown, renderVars>>

Rendered == rendered' = shown /\ toRender' = FALSE /\ UNCHANGED <<storeVars, shown, joined>>

\* Mutant: the list is not asked for again when its length changes.
KeptList == toRender /\ Rendered /\ UNCHANGED <<shownState, inFlight>>

\* React renders what was set; the effect that depends on the number of tickets asks for them
\* again when it is not that of the render before.
Render ==
  /\ toRender /\ Rendered
  /\ IF Len(shown) = Len(rendered)
     THEN UNCHANGED <<shownState, inFlight>>
     ELSE /\ Cardinality(inFlight) < MaxInFlight
          /\ inFlight' = Sent(inFlight, ListAsk(shown)) /\ shownState' = Loading(shownState)

WorkspaceNext ==
  \/ \E r \in inFlight : ServeTickets(r) \/ Answered(r) \/ AnswerFails(r)
  \/ Render
  \/ /\ Cardinality(inFlight) < MaxInFlight
     /\ \/ RefreshTickets
        \/ \E t \in TicketIds : CreateOnPage(t)
        \/ \E i \in DOMAIN rendered : DeleteOnPage(rendered[i])
        \/ \E i \in DOMAIN rendered, added \in {{}} \cup {{n} : n \in Notes} :
             ChangeOnPage(rendered[i], added)
  \/ \E t \in TicketIds :
       \/ \E n \in Notes : OthersWrite(t, (IF Kept(t) THEN store[t].notes ELSE {}) \cup {n})
       \/ OthersDelete(t)

WorkspaceSpec == WorkspaceInit /\ [][WorkspaceNext]_workspaceVars

-----------------------------------------------------------------------------
\* However lists and changes are answered: when the page waits for nothing, has rendered what
\* it was told and calls it current, it shows no ticket twice, unless one render had two answers.
\* A ticket it created is appended to a list that may hold it already; only listing again
\* repairs that, and a removal that is rendered with it hides that the list must be asked for.
RestingPageIsClean ==
  inFlight = {} /\ ~toRender /\ ~joined /\ shownState = "current" =>
    \A i, j \in DOMAIN rendered : rendered[i].id = rendered[j].id => i = j

\* A page that sends whole tickets, built on lists of any age, never takes a note away
\* that someone else has added, wherever the clock stands, unless two changes of that ticket
\* had one time: the copies of both are then taken for the latest.
NotesKept ==
  \A t \in TicketIds \ redated' :
    store[t] # None /\ store'[t] # None => store[t].notes \subseteq store'[t].notes
NotesStay == [][NotesKept]_workspaceVars
=============================================================================
