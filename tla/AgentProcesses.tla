------------------------------ MODULE AgentProcesses ------------------------------
(***************************************************************************)
(* The processes the companion runs: a Pi session, a conversation by lines *)
(* whose end is an event among its answers, and commands that are bounded  *)
(* in time and output.  Either is one run here; runs share nothing.        *)
(***************************************************************************)
EXTENDS Absence, Naturals

CONSTANTS MaxOutput   \* what a command may print

ASSUME ProcessesConstants ==
  /\ MaxOutput \in Nat
  /\ None \notin {"completed", "EXECUTION_STOPPED", "exited", "detect", "run"}

VARIABLES
  pi,            \* the execution: its step, result and whether it sets an effort
  session,       \* "none", "open" or "closed"
  piChild,       \* its process: "none", "running", "killed" or "gone"
  waiter,        \* the promise of the agent's end: "none", "pending", "ended", "failed" or "rejected"
  signal,        \* its abort: "quiet", "fired", or "deaf" when it had fired before
  told,          \* the process has reported the agent's end
  unmet,         \* a promise was rejected that nobody waits for
  command        \* a bounded command: its use, step, output, result and process

piVars == <<pi, session, piChild, waiter, signal, told, unmet>>
processVars == <<pi, session, piChild, waiter, signal, told, unmet, command>>

ProcessesInit ==
  /\ pi \in {[step |-> "idle", result |-> None, effort |-> e] : e \in BOOLEAN}
  /\ session = "none" /\ piChild = "none" /\ waiter = "none"
  /\ signal \in {"quiet", "deaf"}
  /\ told = FALSE /\ unmet = FALSE
  /\ command = [use |-> None, step |-> "idle", printed |-> 0, result |-> None, child |-> "none"]

-----------------------------------------------------------------------------
(* The steps of an execution, each a request the session answers.          *)
Requesting == pi.step \in {"model", "effort", "state", "prompting"}
After(step) == CASE step = "model" /\ pi.effort -> "effort"
                 [] step = "model" /\ ~pi.effort -> "state"
                 [] step = "effort" -> "state"
                 [] step = "state" -> "prompting"
                 [] step = "prompting" -> "working"
Failed(code) == [pi EXCEPT !.step = "closing", !.result = code]

OpenSession ==
  /\ pi.step = "idle" /\ pi' = [pi EXCEPT !.step = "opening"]
  /\ session' = "open"
  /\ UNCHANGED <<piChild, waiter, signal, told, unmet, command>>

\* A session that did not start is nobody's to close.
Spawned(started) ==
  /\ pi.step = "opening"
  /\ IF started
       THEN pi' = [pi EXCEPT !.step = "model"] /\ piChild' = (IF session = "open" THEN "running" ELSE "killed") /\ UNCHANGED session
       ELSE pi' = [pi EXCEPT !.step = "ended", !.result = "START_FAILED"] /\ session' = "closed" /\ UNCHANGED piChild
  /\ UNCHANGED <<waiter, signal, told, unmet, command>>

\* The promise of the end is made before the prompt is sent: the end may come first.
Enter(step) ==
  /\ pi' = [pi EXCEPT !.step = step]
  /\ waiter' = IF step = "prompting" THEN "pending" ELSE waiter

\* The state must be of the route asked for; other answers must be of success.
PiAnswered(good) ==
  /\ Requesting /\ session = "open" /\ piChild = "running"
  /\ IF good THEN Enter(After(pi.step)) ELSE pi' = Failed("REFUSED") /\ UNCHANGED waiter
  /\ UNCHANGED <<session, piChild, signal, told, unmet, command>>

\* A request to a closed session is refused, any other after its time.
RequestFails ==
  /\ Requesting /\ pi' = Failed(IF session = "closed" THEN "CLOSED" ELSE "REQUEST_TIMEOUT")
  /\ UNCHANGED <<session, piChild, waiter, signal, told, unmet, command>>

\* What waits for the end settles with it, now or as soon as the prompt is accepted.
Conclude ==
  /\ pi.step = "working" /\ waiter \in {"ended", "failed", "rejected"}
  /\ pi' = CASE waiter = "ended" -> [pi EXCEPT !.step = "closing", !.result = "completed"]
             [] waiter = "failed" -> Failed("EXECUTION_FAILED")
             [] OTHER -> Failed("EXECUTION_STOPPED")
  /\ UNCHANGED <<session, piChild, waiter, signal, told, unmet, command>>

CloseSession ==
  /\ pi.step = "closing" /\ pi' = [pi EXCEPT !.step = "ended"]
  /\ session' = "closed"
  /\ piChild' = IF piChild = "running" THEN "killed" ELSE piChild
  /\ UNCHANGED <<waiter, signal, told, unmet, command>>

-----------------------------------------------------------------------------
(* The process, the clock and the person.                                  *)
\* Everything that is asked fails with the session; its process is ended.  The promise of the
\* agent's end is not among it.
FailAll(child) ==
  /\ session' = "closed" /\ piChild' = child
  /\ pi' = IF Requesting THEN Failed("CLOSED") ELSE pi

\* What a process wrote before it was killed is still read; after a rejection nothing listens.
AgentEnds(succeeded) ==
  /\ piChild \in {"running", "killed"} /\ pi.step \in {"prompting", "working", "closing"}
  /\ ~told /\ waiter # "rejected"
  /\ told' = TRUE
  /\ waiter' = IF waiter = "pending" THEN (IF succeeded THEN "ended" ELSE "failed") ELSE waiter
  /\ UNCHANGED <<pi, session, piChild, signal, unmet, command>>

PiExits ==
  /\ piChild \in {"running", "killed"}
  /\ IF session = "open" THEN FailAll("gone") ELSE piChild' = "gone" /\ UNCHANGED <<pi, session>>
  /\ UNCHANGED <<waiter, signal, told, unmet, command>>

\* More output than allowed, or a line that is none of the protocol.
PiMisbehaves ==
  /\ piChild = "running" /\ session = "open" /\ FailAll("killed")
  /\ UNCHANGED <<waiter, signal, told, unmet, command>>

\* A promise that is rejected while the execution waits for something else is met by nobody.
RejectWaiter ==
  /\ waiter' = IF waiter = "pending" THEN "rejected" ELSE waiter
  /\ unmet' = (unmet \/ (waiter = "pending" /\ pi.step # "working"))

AbortPi ==
  /\ signal = "quiet" /\ pi.step \notin {"idle", "ended"} /\ signal' = "fired"
  /\ IF session = "open" THEN FailAll(IF piChild = "none" THEN "none" ELSE "killed") ELSE UNCHANGED <<pi, session, piChild>>
  /\ RejectWaiter
  /\ UNCHANGED <<told, command>>

\* Ten minutes, also for an execution that ended long ago.
WaiterTimesOut ==
  /\ waiter = "pending" /\ RejectWaiter
  /\ UNCHANGED <<pi, session, piChild, signal, told, command>>

PiNext ==
  \/ OpenSession \/ RequestFails \/ Conclude \/ CloseSession
  \/ PiExits \/ PiMisbehaves \/ AbortPi \/ WaiterTimesOut
  \/ \E good \in BOOLEAN : Spawned(good) \/ PiAnswered(good) \/ AgentEnds(good)

-----------------------------------------------------------------------------
(* A bounded command.                                                      *)
\* Aborted before it starts, nothing is started.
RunCommand(use, aborted) ==
  /\ command.step = "idle"
  /\ command' = IF aborted THEN [command EXCEPT !.use = use, !.step = "settled", !.result = "timed-out"]
                ELSE [command EXCEPT !.use = use, !.step = "running", !.child = "running"]
  /\ UNCHANGED piVars

\* Only the first ending counts.
Settled(c, result) == IF c.step = "running" THEN [c EXCEPT !.step = "settled", !.result = result] ELSE c
Stopped(c) == [c EXCEPT !.child = IF @ = "running" THEN "killed" ELSE @]

CommandPrints ==
  /\ command.child = "running"
  /\ command' = IF command.printed = MaxOutput THEN Settled(Stopped(command), "output-limit")
                ELSE [command EXCEPT !.printed = @ + 1]
  /\ UNCHANGED piVars

StopCommand ==
  /\ command.step = "running" /\ command' = Settled(Stopped(command), "timed-out")
  /\ UNCHANGED piVars

CommandCloses(result) ==
  /\ command.child \in {"running", "killed"}
  /\ result \in {"not-found", "failed"} => command.printed = 0
  /\ command' = Settled([command EXCEPT !.child = "gone"], result)
  /\ UNCHANGED piVars

\* What an adapter makes of it: a version, or the text of a run.
Exits == {"exited", "failed-exit"}
CommandOutcome(c, readable) ==
  CASE c.use = "detect" /\ c.result = "not-found" -> "not-found"
    [] c.use = "detect" /\ c.result \notin Exits \cup {"not-found"} -> "error"
    [] c.use = "detect" /\ c.result \in Exits -> IF c.result = "exited" /\ readable THEN "supported" ELSE "unknown"
    [] c.use = "run" /\ c.result = "exited" -> IF readable THEN "completed" ELSE "malformed"
    [] OTHER -> "execution-failed"

CommandNext ==
  \/ \E use \in {"detect", "run"}, aborted \in BOOLEAN : RunCommand(use, aborted)
  \/ CommandPrints \/ StopCommand
  \/ \E result \in Exits \cup {"not-found", "failed"} : CommandCloses(result)

ProcessesNext == PiNext \/ CommandNext

ProcessesTypeOK ==
  /\ pi.step \in {"idle", "opening", "model", "effort", "state", "prompting", "working", "closing", "ended"}
  /\ session \in {"none", "open", "closed"} /\ waiter \in {"none", "pending", "ended", "failed", "rejected"}
  /\ command.printed \in 0..MaxOutput

-----------------------------------------------------------------------------
(* Properties.                                                             *)
\* An agent's end is never missed: an execution that is given up was not told of one, not even
\* before its prompt was accepted; and one that completes was.
EndIsNotMissed ==
  /\ pi.result = "EXECUTION_STOPPED" => ~told
  /\ pi.result = "completed" => told

\* An execution that is over leaves no process running, and a command that was given up none
\* either; what a command printed counts only when it ended by itself, within its bounds.
ProcessesEnd ==
  /\ pi.step = "ended" => piChild # "running"
  /\ command.step = "settled" => command.child # "running"
  /\ \A readable \in BOOLEAN : CommandOutcome(command, readable) \in {"completed", "supported"} =>
       command.child = "gone" /\ command.result = "exited"
=============================================================================
