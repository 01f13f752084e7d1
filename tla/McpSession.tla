--------------------------------- MODULE McpSession ---------------------------------
(***************************************************************************)
(* The servers the coding agents start for their conversations.  A server  *)
(* reads one line after the other and answers it before it reads the next; *)
(* what it is asked to do the companion does, which any of them may ask to *)
(* stop.                                                                   *)
(***************************************************************************)
EXTENDS Absence, Naturals, Sequences

CONSTANTS
  McpServers,     \* the processes, one for a conversation
  McpLines,       \* the lines they are sent, each once
  WorkKeys,       \* idempotency keys an agent may give
  MaxLines        \* lines one server is sent

VARIABLES
  servers,   \* each one's state and launch, and the line it serves with the step of it
  asked,     \* what a line asks
  sent,      \* the lines a server was sent, in order
  read,     \* how many of them it has read
  replies,   \* what it wrote, in order
  works,     \* the companion's receipt of a piece of work, by its key
  obtained   \* the keys whose output a server holds or held

mcpVars == <<servers, asked, sent, read, replies, works, obtained>>

\* A call without a key gets a random one, written here as the line itself.
Keys == WorkKeys \cup McpLines
Transported == {"dispatch", "cancel", "read"}
Asks == [kind : Transported, key : Keys] \cup [kind : {"report", "local", "notification", "garbage", "nothing"}, key : {None}]

\* A work of the companion's, begun for a line.
Work == [state : {"running", "completed", "stopped"}, aborted : BOOLEAN,
         returned : {"pending", "delivered", "return-unavailable"}, kept : BOOLEAN, by : McpLines]

ASSUME McpConstants == MaxLines \in Nat /\ None \notin Keys \cup Asks \cup Work

McpInit ==
  /\ servers = [s \in McpServers |-> [state |-> "starting", integration |-> None, reports |-> FALSE, line |-> None, step |-> "idle"]]
  /\ asked = [l \in McpLines |-> None]
  /\ sent = [s \in McpServers |-> << >>] /\ read = [s \in McpServers |-> 0]
  /\ replies = [s \in McpServers |-> << >>]
  /\ works = [k \in Keys |-> None]
  /\ obtained = {}

-----------------------------------------------------------------------------
(* The launch.                                                             *)
\* The arguments name the origin, and the surface if it has one of its own.
McpConstruction(origin, surface) ==
  CASE surface = None -> "manual"
    [] surface # None /\ surface = origin /\ surface # "pi" -> "surface"
    [] OTHER -> None

\* Without a secret store, or with arguments that do not fit, there is no server; without a
\* token of its integration it takes no reports.
LaunchServer(s, stored, enrolled, built) ==
  /\ servers[s].state = "starting"
  /\ servers' = [servers EXCEPT ![s].state = IF stored /\ built # None THEN "running" ELSE "ended",
                                ![s].integration = IF stored THEN built ELSE None,
                                ![s].reports = stored /\ built # None /\ enrolled]
  /\ UNCHANGED <<asked, sent, read, replies, works, obtained>>
StartServer(s) == \E stored, enrolled \in BOOLEAN, origin \in {None, "codex", "claude"}, surface \in {None, "codex", "claude", "pi"} :
  LaunchServer(s, stored, enrolled, McpConstruction(origin, surface))

\* The agent ends its server whenever it likes; what the companion does for it goes on.
EndServer(s) ==
  /\ servers[s].state = "running"
  /\ servers' = [servers EXCEPT ![s].state = "ended", ![s].line = None, ![s].step = "idle"]
  /\ UNCHANGED <<asked, sent, read, replies, works, obtained>>

\* A key of another's call is not known; that of a receipt is known from the page.
SendLine(s, l, a) ==
  /\ servers[s].state = "running" /\ Len(sent[s]) < MaxLines
  /\ asked[l] = None
  /\ CASE a.kind = "dispatch" -> a.key \in WorkKeys \cup {l}
       [] a.kind \in {"cancel", "read"} -> works[a.key] # None \/ a.key \in WorkKeys
       [] OTHER -> TRUE
  /\ asked' = [asked EXCEPT ![l] = a] /\ sent' = [sent EXCEPT ![s] = Append(@, l)]
  /\ UNCHANGED <<servers, read, replies, works, obtained>>

-----------------------------------------------------------------------------
(* One line after the other.                                               *)
Reply(s, l, text) == replies' = [replies EXCEPT ![s] = Append(@, [line |-> l, text |-> text])]
Serving(s, l, step) == servers' = [servers EXCEPT ![s].line = l, ![s].step = step]
Rest(s) == Serving(s, None, "idle")

\* Mutant: a line is read while another is served.
ReadsAhead(s) == servers[s].state = "running" /\ read[s] < Len(sent[s])

NextLine(s) == sent[s][read[s] + 1]
MayRead(s) == servers[s].state = "running" /\ read[s] < Len(sent[s]) /\ servers[s].step = "idle"

\* Answered without a work of the companion's: also a line that is no message, and a report, for
\* which the server may have no token; a notification is not answered at all.
AnswerAtOnce(s) ==
  /\ MayRead(s) /\ asked[NextLine(s)].kind \notin Transported \cup {"nothing"}
  /\ read' = [read EXCEPT ![s] = @ + 1]
  /\ CASE asked[NextLine(s)].kind = "notification" -> UNCHANGED replies
       [] asked[NextLine(s)].kind = "garbage" -> Reply(s, NextLine(s), "parse-error")
       [] asked[NextLine(s)].kind = "report" /\ ~servers[s].reports -> Reply(s, NextLine(s), "failure")
       [] OTHER -> \E text \in {"result", "failure"} : Reply(s, NextLine(s), text)
  /\ UNCHANGED <<servers, asked, sent, works, obtained>>

\* A line that is null, which is JSON but no message, ends the server: handle() reads its method
\* before it catches anything.
EndOnNothing(s) ==
  /\ MayRead(s) /\ asked[NextLine(s)].kind = "nothing"
  /\ read' = [read EXCEPT ![s] = @ + 1]
  /\ servers' = [servers EXCEPT ![s].state = "ended"]
  /\ UNCHANGED <<asked, sent, replies, works, obtained>>

\* What the companion makes of a request.  The policy may refuse any dispatch; of those it grants
\* a known key names the work there is.  A cancellation aborts work under way, which may still be
\* completed before it notices.
UnderWay(k) == works[k] # None /\ works[k].state = "running"
Effective(a, granted) ==
  \/ a.kind = "dispatch" /\ granted /\ works[a.key] = None
  \/ a.kind = "cancel" /\ UnderWay(a.key)
BegunWork(l) == [state |-> "running", aborted |-> FALSE, returned |-> "pending", kept |-> FALSE, by |-> l]
Received(a, l, granted) ==
  IF ~Effective(a, granted) THEN works
  ELSE [works EXCEPT ![a.key] = IF a.kind = "dispatch" THEN BegunWork(l) ELSE [@ EXCEPT !.aborted = TRUE]]

\* A request that does not reach the companion fails.
AskCompanion(s, reached, granted) ==
  LET l == NextLine(s)
      a == asked[l]
  IN /\ MayRead(s) /\ a.kind \in Transported
     /\ read' = [read EXCEPT ![s] = @ + 1]
     /\ IF reached
          THEN /\ works' = Received(a, l, granted) /\ UNCHANGED replies
               /\ Serving(s, l, IF Effective(a, granted) THEN "effective"
                                ELSE IF a.kind = "dispatch" /\ ~granted THEN "refused" ELSE "asking")
          ELSE Reply(s, l, "failure") /\ UNCHANGED <<works, servers>>
     /\ UNCHANGED <<asked, sent, obtained>>

Own(s) == asked[servers[s].line]
WorkOf(s) == works[Own(s).key]

\* A new dispatch is answered when it is over; its output is acknowledged first.  That of a
\* known key is answered as it is, with the output while the companion keeps it.
CompanionAnswers(s) ==
  LET l == servers[s].line
      fresh == Own(s).kind = "dispatch" /\ servers[s].step = "effective"
  IN /\ servers[s].step \in {"asking", "refused", "effective"}
     /\ fresh => WorkOf(s).state # "running"
     /\ IF fresh /\ WorkOf(s).state = "completed"
          THEN Serving(s, l, "acknowledging") /\ obtained' = obtained \cup {Own(s).key} /\ UNCHANGED replies
          ELSE LET known == Own(s).kind = "dispatch" /\ servers[s].step = "asking" /\ WorkOf(s).kept IN
               /\ Reply(s, l, IF Own(s).kind # "dispatch" /\ WorkOf(s) = None THEN "failure"
                              ELSE IF Own(s).kind = "cancel" /\ servers[s].step = "effective" THEN "stopping"
                              ELSE IF known THEN "output" ELSE "result")
               /\ Rest(s) /\ obtained' = IF known THEN obtained \cup {Own(s).key} ELSE obtained
     /\ UNCHANGED <<asked, sent, read, works>>

\* After ten minutes, or when the answer is none: the work goes on.
CompanionIsLost(s) ==
  /\ servers[s].step \in {"asking", "refused", "effective"}
  /\ Reply(s, servers[s].line, "failure") /\ Rest(s)
  /\ UNCHANGED <<asked, sent, read, works, obtained>>

\* The agent gets the output only if the acknowledgement succeeds.
Acknowledge(s, reached, confirmed) ==
  /\ servers[s].step = "acknowledging" /\ (confirmed => reached)
  /\ works' = IF reached THEN [works EXCEPT ![Own(s).key].returned = "delivered"] ELSE works
  /\ Reply(s, servers[s].line, IF confirmed THEN "output" ELSE "failure") /\ Rest(s)
  /\ UNCHANGED <<asked, sent, read, obtained>>

-----------------------------------------------------------------------------
(* The companion.                                                          *)
\* Work fails, or times out, without being aborted too.
WorkEnds(k, completed) ==
  /\ UnderWay(k)
  /\ works' = [works EXCEPT ![k] = IF completed THEN [@ EXCEPT !.state = "completed", !.kept = TRUE]
                                   ELSE [@ EXCEPT !.state = "stopped", !.returned = "return-unavailable"]]
  /\ UNCHANGED <<servers, asked, sent, read, replies, obtained>>

\* An output is kept for five minutes.
ForgetOutput(k) ==
  /\ works[k] # None /\ works[k].kept /\ works' = [works EXCEPT ![k].kept = FALSE]
  /\ UNCHANGED <<servers, asked, sent, read, replies, obtained>>

McpNext ==
  \/ \E s \in McpServers :
       \/ StartServer(s) \/ EndServer(s) \/ AnswerAtOnce(s) \/ EndOnNothing(s) \/ CompanionAnswers(s) \/ CompanionIsLost(s)
       \/ \E l \in McpLines, a \in Asks : SendLine(s, l, a)
       \/ \E reached, granted \in BOOLEAN : AskCompanion(s, reached, granted) \/ Acknowledge(s, reached, granted)
  \/ \E k \in Keys : ForgetOutput(k) \/ \E completed \in BOOLEAN : WorkEnds(k, completed)

McpTypeOK ==
  /\ \A s \in McpServers :
       /\ servers[s].state \in {"starting", "running", "ended"}
       /\ servers[s].step \in {"idle", "asking", "refused", "effective", "acknowledging"}
       /\ servers[s].step = "idle" <=> servers[s].line = None
       /\ read[s] <= Len(sent[s])
  /\ \A k \in Keys : works[k] # None => works[k] \in Work
  /\ obtained \subseteq Keys

-----------------------------------------------------------------------------
(* Properties.                                                             *)
\* The lines that are answered, by where they stand: those that were read, but no notification,
\* and the line in service not yet.
LinesAnswered(s) == {p \in 1..read[s] : sent[s][p] # servers[s].line /\ asked[sent[s][p]].kind # "notification"}
Replies(s) == 1..Len(replies[s])

\* Every line is answered once, in the order the lines came; what a server wrote before it ended
\* was in order, too.
RepliesInOrder == \A s \in McpServers :
  /\ \A i \in Replies(s) : \E p \in LinesAnswered(s) : replies[s][i].line = sent[s][p]
  /\ servers[s].state # "ended" => \A p \in LinesAnswered(s) : \E i \in Replies(s) : replies[s][i].line = sent[s][p]
  /\ \A i, j \in Replies(s), p, q \in 1..read[s] :
       replies[s][i].line = sent[s][p] /\ replies[s][j].line = sent[s][q] /\ i < j => p < q

\* A receipt says delivered only of work that is completed and whose output a server obtained,
\* and an output an agent was given is one of completed work.
DeliveredWasObtained ==
  /\ \A k \in Keys : works[k] # None /\ works[k].returned = "delivered" => works[k].state = "completed" /\ k \in obtained
  /\ \A s \in McpServers : \A i \in 1..Len(replies[s]) : replies[s][i].text = "output" =>
       LET w == works[asked[replies[s][i].line].key] IN
         w # None /\ w.state = "completed" /\ (w.by = replies[s][i].line => w.returned = "delivered")

\* A conversation cannot stop the work it waits for: what it stops another began, or work of its
\* own whose call was given up.
StopsOnlyOthers == \A s \in McpServers : \A i, j \in 1..Len(replies[s]) :
  LET stop == replies[s][i]
      work == works[asked[stop.line].key]
  IN stop.text = "stopping" /\ replies[s][j].line = work.by => j < i /\ replies[s][j].text = "failure"
=============================================================================
