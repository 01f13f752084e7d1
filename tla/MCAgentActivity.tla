-------------------------- MODULE MCAgentActivity --------------------------
(* Small instances of AgentActivity for TLC. *)
EXTENDS AgentActivity, TLC

CONSTANTS i1, i2, a1, a2, t1, t2, sdd, e1, e2, e3, e4, e5, e6, e7, p1, r1, none

Event(id, key, seq, kind) ==
  [id |-> id, key |-> key, seq |-> seq, kind |-> kind, reported |-> none,
   evidence |-> IF kind \in TerminalOutcomes THEN kind ELSE none,
   project |-> Unassigned, target |-> none]

MCIntegrationOf == a1 :> i1 @@ a2 :> IF i2 \in Integrations THEN i2 ELSE i1
MCDefaultTicket == a1 :> t1 @@ a2 :> t2
MCReviewIntegration == [r \in Reviews |-> i1]

Change(summary, project, policy) ==
  [summary |-> summary, project |-> project, policy |-> policy]

Closing == {Change(none, none, "closed"), Change(none, none, "follow")}
Editing == {Change(HumanText, none, none), Change(none, p1, none), Change(none, none, "paused"),
            Change(none, none, "follow"), Change(HumanText, none, "closed")}

\* A person puts the first assignment's ticket back to do, as it was named at first.
MCEdits == {[status |-> "todo", activity |-> "active", title |-> e1, project |-> Unassigned]}

\* One assignment, four sequence numbers: two rival events for sequence 3 (one of
\* them terminal), a retransmission of e2 under another number, a terminal event
\* without its evidence, a first event that carries a review token, and a second
\* assignment that shares the total limit.
SequenceMessages ==
  { Event(e1, a1, 1, "started"), [Event(e7, a1, 1, "started") EXCEPT !.project = r1],
    Event(e2, a1, 2, "blocked"), Event(e2, a1, 4, "blocked"),
    Event(e3, a1, 3, "completed"), Event(e4, a1, 3, "heartbeat"), Event(e5, a1, 4, "failed"),
    [Event(e4, a1, 2, "cancelled") EXCEPT !.evidence = none],
    Event(e6, a2, 1, "accepted"), Event(e5, a2, 3, "resumed") }

\* Two assignments that may meet on the SDD ticket, under a person's overrides.
TicketMessages ==
  { Event(e1, a1, 1, "started"), Event(e2, a1, 2, "blocked"), Event(e3, a1, 2, "completed"),
    [Event(e4, a2, 1, "accepted") EXCEPT !.target = sdd],
    [Event(e5, a2, 2, "heartbeat") EXCEPT !.reported = "needs-action"] }

\* Events that carry a review token: on creation and later.
ReviewMessages ==
  { [Event(e1, a1, 1, "started") EXCEPT !.project = r1],
    Event(e2, a1, 1, "started"),
    [Event(e3, a1, 2, "snapshot") EXCEPT !.reported = "active", !.project = r1],
    Event(e4, a1, 2, "waiting"), Event(e5, a1, 3, "completed") }
=============================================================================
