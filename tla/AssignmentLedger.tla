-------------------------- MODULE AssignmentLedger --------------------------
(***************************************************************************)
(* What the agent-activity store promises about each assignment, seen by a *)
(* reader of GET /assignments: the number of the last event applied, which *)
(* only grows, and an outcome, after which nothing more is applied and     *)
(* which only a person who closes the assignment can change.               *)
(***************************************************************************)
EXTENDS Integers

CONSTANTS Assignments, Outcomes, None

VARIABLES
  last,      \* the number of the last event applied; 0 before the first
  outcome    \* the terminal outcome, or None

vars == <<last, outcome>>

TypeOK ==
  /\ last \in [Assignments -> Nat]
  /\ outcome \in [Assignments -> Outcomes \cup {None}]

OthersUnchanged(a) ==
  \A b \in Assignments \ {a} : last'[b] = last[b] /\ outcome'[b] = outcome[b]

\* Events are applied to an open assignment; it begins with its event number 1.
Advance(a) ==
  /\ outcome[a] = None
  /\ IF last[a] = 0 THEN last'[a] = 1 ELSE last'[a] > last[a]
  /\ OthersUnchanged(a)

\* A person closes it, whatever its outcome was.
Close(a) ==
  /\ last[a] # 0 /\ last'[a] = last[a]
  /\ outcome'[a] = "completed"
  /\ OthersUnchanged(a)

Init ==
  /\ last = [a \in Assignments |-> 0]
  /\ outcome = [a \in Assignments |-> None]

Next == TypeOK' /\ \E a \in Assignments : Advance(a) \/ Close(a)

Spec == Init /\ [][Next]_vars
=============================================================================
