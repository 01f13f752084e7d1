-------------------------- MODULE ActivityDelivery --------------------------
(***************************************************************************)
(* How a reported event reaches the store, and what happens when it does   *)
(* not: the transports of server/mcp/activity-transport.ts and the retry   *)
(* spool of server/agent-activity/reporter/retry-spool.ts.                 *)
(*                                                                         *)
(* A reporting process (the MCP server of an agent session, a run of the   *)
(* report:activity command, or an agent hook) numbers its events and sends *)
(* them to the companion under a timeout.  What is not accepted goes into  *)
(* a spool, one record of the secret store shared by all the processes of  *)
(* an integration, that is read, changed and written back without a lock.  *)
(* Every report is a job of its own below: a job may go on after the       *)
(* report has returned, and each await of the code ends an action.         *)
(*                                                                         *)
(* One assignment; events are named by the order in which they were made.  *)
(***************************************************************************)
EXTENDS Integers, FiniteSets, Sequences, SequencesExt

CONSTANTS
  Processes,       \* reporting processes of one integration
  Hooks,           \* those that are agent hooks: they submit and never replay
  MaxEvents,       \* bound of the model: events made in a behaviour
  SpoolLimit,      \* limits.maxEvents, 512 in the code
  MayExpire,       \* entries may grow older than limits.maxAgeMs (seven days)
  StoreMayFail,    \* the secret store may reject a read or a write
  BudgetMayEnd,    \* returnBudgetMs may pass before the store has answered
  None

ASSUME DeliveryConstants ==
  /\ IsFiniteSet(Processes) /\ Hooks \subseteq Processes
  /\ MaxEvents \in Nat /\ SpoolLimit \in Nat \ {0}
  /\ MayExpire \in BOOLEAN /\ StoreMayFail \in BOOLEAN /\ BudgetMayEnd \in BOOLEAN

VARIABLES
  counter,   \* the last sequence each process has given out
  jobs,      \* the report of each event, or None
  spool,     \* the record of the secret store: [events, gaps]
  wire,      \* requests on their way to the companion
  server     \* [last, ended, stored]: the assignment in the store

vars == <<counter, jobs, spool, wire, server>>

-----------------------------------------------------------------------------
Events == 1..MaxEvents
Entry == [n : Events, seq : Nat \ {0}, terminal : BOOLEAN]
Request == [by : Events, entry : Entry, again : BOOLEAN]
Spool == [events : Seq(Entry), gaps : Nat]
EmptySpool == [events |-> <<>>, gaps |-> 0]

\* Where a job is: waiting for the store to read ("queue", "load"), to write
\* ("trim", "append"), or for the companion ("submit", "replay").
Job == [at : {"trim", "submit", "queue", "append", "load", "replay", "done"},
        told : {"reporting", "delivered", "queued", "failed", "killed"},
        process : Processes, entry : Entry, copy : Spool, request : Request \cup {None},
        replays : BOOLEAN]

ASSUME NoneIsNeither == None \notin Job /\ None \notin Request

Issued == Cardinality({n \in Events : jobs[n] # None})
Jobs == {n \in Events : jobs[n] # None}
At(n, place) == n \in Jobs /\ jobs[n].at = place

\* The rows of the store for this assignment, and those already applied.
StoredEvent(n) == \E e \in server.stored : e.n = n
AppliedEvent(n) == \E e \in server.stored : e.n = n /\ e.seq <= server.last

Queued(s, n) == \E i \in DOMAIN s.events : s.events[i].n = n

\* pruneExpired: the oldest k entries are dropped and counted as gaps.
Pruned(s, k) == [events |-> SubSeq(s.events, k + 1, Len(s.events)), gaps |-> s.gaps + k]
Loaded == {Pruned(spool, k) : k \in IF MayExpire THEN 0..Len(spool.events) ELSE {0}}

OldestDropped(s) ==
  IF Len(s.events) <= SpoolLimit THEN s
  ELSE [events |-> Tail(s.events), gaps |-> s.gaps + 1]

\* enforceBounds after one insertion: the oldest entry that is not terminal goes.
Bounded(s) ==
  LET open == {i \in DOMAIN s.events : ~s.events[i].terminal}
      victim == IF open = {} THEN 1 ELSE CHOOSE i \in open : \A j \in open : i <= j
  IN IF Len(s.events) <= SpoolLimit THEN s
     ELSE [events |-> RemoveAt(s.events, victim), gaps |-> s.gaps + 1]

Enqueued(s, e) ==
  Bounded(IF Queued(s, e.n) THEN s ELSE [s EXCEPT !.events = Append(@, e)])

-----------------------------------------------------------------------------
(* The store, as AgentActivity has it, for one assignment.                 *)

\* Mutant: event ids are not looked up.
VerdictBySequence(e) ==
  IF server.last = 0 THEN IF e.seq = 1 THEN "applied" ELSE "resequence"
  ELSE IF server.ended THEN IF e.terminal THEN "duplicate" ELSE "rejected"
  ELSE IF e.seq = server.last + 1 THEN "applied"
  ELSE IF e.seq <= server.last \/ \E s \in server.stored : s.seq = e.seq THEN "resequence"
  ELSE "gap"

\* The outcome of ingestValidated, where "resequence" is one that names the
\* expected sequence with SEQUENCE_CONFLICT, REPLAY or FIRST_SEQUENCE_REQUIRED.
Verdict(e) == IF StoredEvent(e.n) THEN "duplicate" ELSE VerdictBySequence(e)

\* The last event applied when e is the next one: the held events that follow it.
AppliedUpTo(e) ==
  CHOOSE last \in {s.seq : s \in server.stored \cup {e}} :
    /\ last >= e.seq
    /\ \A k \in e.seq..(last - 1) :
         \E s \in server.stored \cup {e} : s.seq = k /\ ~s.terminal
    /\ \/ \E s \in server.stored \cup {e} : s.seq = last /\ s.terminal
       \/ \A s \in server.stored : s.seq # last + 1

Ingest(e) ==
  LET last == AppliedUpTo(e)
      verdict == Verdict(e)
      stored == server.stored \cup {e}
  IN server' = IF verdict = "applied"
               THEN [last |-> last, stored |-> stored,
                     ended |-> \E s \in stored : s.seq = last /\ s.terminal]
               ELSE IF verdict = "gap" THEN [server EXCEPT !.stored = stored]
               ELSE server

-----------------------------------------------------------------------------
(* Steps of a job.                                                         *)

Finished(job, told) ==
  [job EXCEPT !.at = "done", !.copy = EmptySpool, !.request = None, !.replays = FALSE,
              !.told = IF @ = "reporting" THEN told ELSE @]

Goto(n, place) == jobs' = [jobs EXCEPT ![n].at = place, ![n].request = None]
Finish(n, told) == jobs' = [jobs EXCEPT ![n] = Finished(@, told)]

Send(n, job, entry, again) ==
  LET request == [by |-> n, entry |-> entry, again |-> again]
  IN /\ wire' = wire \cup {request}
     /\ jobs' = [jobs EXCEPT ![n] = [job EXCEPT !.request = request]]

\* report(): behind queued events a new one queues up, else it is sent.
QueueOrSend(n, job, s) ==
  IF s.events = <<>> THEN Send(n, [job EXCEPT !.at = "submit"], job.entry, FALSE)
  ELSE /\ jobs' = [jobs EXCEPT ![n] = [job EXCEPT !.at = "queue", !.replays = TRUE]]
       /\ UNCHANGED wire

\* A process reports one event after the other.  A manual transport looks into
\* the spool first, and writes it back when entries have expired.
Report(p, terminal) ==
  LET n == Issued + 1
      entry == [n |-> n, seq |-> counter[p] + 1, terminal |-> terminal]
      job == [at |-> "submit", told |-> "reporting", process |-> p, entry |-> entry,
              copy |-> EmptySpool, request |-> None, replays |-> FALSE]
  IN /\ n <= MaxEvents
     /\ \A k \in Jobs : jobs[k].process = p => jobs[k].told # "reporting"
     /\ counter' = [counter EXCEPT ![p] = @ + 1]
     /\ \/ p \in Hooks /\ Send(n, job, entry, FALSE)
        \/ p \notin Hooks /\ \E s \in Loaded :
             \/ s = spool /\ QueueOrSend(n, job, s)
             \/ /\ s # spool
                /\ jobs' = [jobs EXCEPT ![n] = [job EXCEPT !.at = "trim", !.copy = s]]
                /\ UNCHANGED wire
     /\ UNCHANGED <<spool, server>>

SaveTrimmed(n) ==
  /\ At(n, "trim")
  /\ spool' = jobs[n].copy
  /\ QueueOrSend(n, [jobs[n] EXCEPT !.copy = EmptySpool], jobs[n].copy)
  /\ UNCHANGED <<counter, server>>

\* enqueue reads the spool, ...
LoadToQueue(n) ==
  /\ At(n, "queue")
  /\ \E s \in Loaded :
       jobs' = [jobs EXCEPT ![n].at = "append", ![n].copy = Enqueued(s, jobs[n].entry)]
  /\ UNCHANGED <<counter, spool, wire, server>>

\* ... and writes what it read with the event; report() then replays the spool.
SaveQueued(n) ==
  /\ At(n, "append")
  /\ spool' = jobs[n].copy
  /\ IF jobs[n].replays THEN jobs' = [jobs EXCEPT ![n].at = "load", ![n].copy = EmptySpool]
     ELSE Finish(n, "queued")
  /\ UNCHANGED <<counter, wire, server>>

\* submit() swallows an error of the store; report() throws it.
StoreFails(n) ==
  /\ StoreMayFail
  /\ At(n, "trim") \/ At(n, "queue") \/ At(n, "append") \/ At(n, "load")
  /\ Finish(n, IF At(n, "trim") \/ jobs[n].replays THEN "failed" ELSE "queued")
  /\ UNCHANGED <<counter, spool, wire, server>>

\* Mutant: submit() waits for the store.
ReturnWhenStored(n) ==
  /\ BudgetMayEnd
  /\ At(n, "done") /\ jobs[n].told = "reporting"
  /\ jobs' = [jobs EXCEPT ![n].told = "queued"]
  /\ UNCHANGED <<counter, spool, wire, server>>

\* submit() returns when its budget is used up; the enqueuing goes on.
ReturnEarly(n) ==
  /\ BudgetMayEnd
  /\ At(n, "queue") \/ At(n, "append")
  /\ ~jobs[n].replays /\ jobs[n].told = "reporting"
  /\ jobs' = [jobs EXCEPT ![n].told = "queued"]
  /\ UNCHANGED <<counter, spool, wire, server>>

\* replay reads the spool and sends its head.
LoadToReplay(n) ==
  /\ At(n, "load")
  /\ \E s \in Loaded :
       IF s.events = <<>>
       THEN Finish(n, "queued") /\ spool' = s /\ UNCHANGED wire
       ELSE /\ Send(n, [jobs[n] EXCEPT !.at = "replay", !.copy = s], Head(s.events), FALSE)
            /\ UNCHANGED spool
  /\ UNCHANGED <<counter, server>>

\* What report() returns when the spool is empty and r was the last one sent: its
\* own event may have been dropped before.
Receipt(n, r) == IF r.entry.n = n THEN "delivered" ELSE "queued"

\* The event was applied, or was there already.
Accepted(n, r) ==
  LET job == jobs[n]
      rest == [job.copy EXCEPT !.events = Tail(@)]
  IN \/ /\ At(n, "submit")
        /\ Finish(n, "delivered") /\ wire' = wire \ {r} /\ UNCHANGED spool
     \/ /\ At(n, "replay") /\ spool' = rest
        /\ \/ /\ rest.events = <<>>
              /\ Finish(n, Receipt(n, r))
              /\ wire' = wire \ {r}
           \/ /\ rest.events # <<>>
              /\ LET next == [by |-> n, entry |-> Head(rest.events), again |-> FALSE]
                 IN /\ jobs' = [jobs EXCEPT ![n].copy = rest, ![n].request = next]
                    /\ wire' = (wire \ {r}) \cup {next}

\* The event was refused, or held behind a gap: it stays queued, or is queued.
NotAccepted(n) ==
  \/ At(n, "submit") /\ Goto(n, "queue") /\ UNCHANGED spool
  \/ At(n, "replay") /\ Finish(n, "queued") /\ spool' = jobs[n].copy

\* Mutant: under the last sequence applied.
ResendLast(n, r) ==
  LET next == [r EXCEPT !.entry.seq = server.last, !.again = TRUE]
  IN /\ jobs' = [jobs EXCEPT ![n].request = next]
     /\ wire' = (wire \ {r}) \cup {next}
     /\ UNCHANGED spool

\* send() repeats a request once, under the sequence the answer names.
Resend(n, r) ==
  LET next == [r EXCEPT !.entry.seq = server.last + 1, !.again = TRUE]
  IN /\ jobs' = [jobs EXCEPT ![n].request = next]
     /\ wire' = (wire \ {r}) \cup {next}
     /\ UNCHANGED spool

Waits(r) == r.by \in Jobs /\ jobs[r.by].request = r

\* The companion takes a request; the answer finds its job waiting, or nobody.
Serve(r) ==
  LET verdict == Verdict(r.entry)
  IN /\ Ingest(r.entry)
     /\ \/ ~Waits(r) /\ wire' = wire \ {r} /\ UNCHANGED <<jobs, spool>>
        \/ Waits(r) /\ verdict \in {"applied", "duplicate"} /\ Accepted(r.by, r)
        \/ Waits(r) /\ verdict = "resequence" /\ ~r.again /\ Resend(r.by, r)
        \/ /\ Waits(r) /\ verdict \in {"gap", "rejected", "resequence"}
           /\ verdict = "resequence" => r.again
           /\ NotAccepted(r.by) /\ wire' = wire \ {r}
     /\ UNCHANGED counter

\* The companion refuses it unread: reporting is off, or the token is revoked.
Refuse(r) ==
  /\ Waits(r) /\ NotAccepted(r.by)
  /\ wire' = wire \ {r}
  /\ UNCHANGED <<counter, server>>

\* The companion is not reached, or does not answer in time: the request may
\* still be on its way.
GiveUp(n) ==
  /\ n \in Jobs /\ jobs[n].request # None
  /\ NotAccepted(n)
  /\ UNCHANGED <<counter, wire, server>>

\* A reporting process ends, whatever its jobs are doing; another one begins
\* its numbers at 1.
Restart(p) ==
  /\ Issued < MaxEvents
  /\ counter' = [counter EXCEPT ![p] = 0]
  /\ jobs' = [n \in Events |-> IF n \in Jobs /\ jobs[n].process = p
                               THEN Finished(jobs[n], "killed") ELSE jobs[n]]
  /\ UNCHANGED <<spool, wire, server>>

-----------------------------------------------------------------------------
Init ==
  /\ counter = [p \in Processes |-> 0]
  /\ jobs = [n \in Events |-> None]
  /\ spool = EmptySpool
  /\ wire = {}
  /\ server = [last |-> 0, ended |-> FALSE, stored |-> {}]

Next ==
  \/ \E p \in Processes, terminal \in BOOLEAN : Report(p, terminal)
  \/ \E n \in Events : SaveTrimmed(n)
  \/ \E n \in Events : LoadToQueue(n)
  \/ \E n \in Events : SaveQueued(n)
  \/ \E n \in Events : StoreFails(n)
  \/ \E n \in Events : ReturnEarly(n)
  \/ \E n \in Events : LoadToReplay(n)
  \/ \E r \in wire : Serve(r)
  \/ \E r \in wire : Refuse(r)
  \/ \E n \in Events : GiveUp(n)
  \/ \E p \in Processes : Restart(p)

Spec == Init /\ [][Next]_vars

\* The timers of submit() and report() go off.
TimersRun == \A n \in Events : WF_vars(GiveUp(n)) /\ WF_vars(ReturnEarly(n))

\* The secret store answers a manual transport, which waits for it; a hook does not.
Answered(n) ==
  /\ n \in Jobs /\ jobs[n].process \notin Hooks
  /\ SaveTrimmed(n) \/ LoadToQueue(n) \/ SaveQueued(n) \/ LoadToReplay(n)
StoreAnswers == \A n \in Events : WF_vars(Answered(n))

FairSpec == Spec /\ TimersRun /\ StoreAnswers

-----------------------------------------------------------------------------
TypeOK ==
  /\ counter \in [Processes -> Nat]
  /\ jobs \in [Events -> Job \cup {None}]
  /\ spool \in Spool
  /\ wire \subseteq Request
  /\ server \in [last : Nat, ended : BOOLEAN, stored : SUBSET Entry]

\* Its outcome is in the store already: a terminal event that repeats it is taken
\* for delivered.
Settled(e) == StoredEvent(e.n) \/ (e.terminal /\ server.ended)

\* The events a report called queued and that are neither in the spool nor in the
\* store, nor still on their way into the spool.
Missing ==
  {n \in Jobs : /\ jobs[n].at = "done" /\ jobs[n].told = "queued"
                /\ ~Settled(jobs[n].entry) /\ ~Queued(spool, n)}

\* "The already-sanitized event is placed in a bounded protected retry spool"
\* (docs/agent-activity.md:39): an event that report() called queued is in the
\* spool until the store has it, or is counted as a gap.
QueuedIsKept == Cardinality(Missing) <= spool.gaps

\* An event reported as delivered was stored, and applied unless the spool had to
\* drop one before it.
DeliveredIsApplied ==
  \A n \in Jobs : jobs[n].told = "delivered" =>
    /\ Settled(jobs[n].entry)
    /\ spool.gaps = 0 /\ StoredEvent(n) => AppliedEvent(n)

\* However often an event is sent, under whatever sequence, it is stored once.
StoredOnce == \A d, e \in server.stored : d.n = e.n \/ d.seq = e.seq => d = e

\* The events of one reporter at a time are applied in the order it made them,
\* across timeouts, late requests, replays and restarts, while none is dropped.
AppliedInOrder ==
  spool.gaps = 0 =>
    \A d, e \in server.stored : d.n < e.n => d.seq < e.seq

\* Dropping spares terminal events: one is dropped only from a full spool of them.
TerminalsSpared ==
  [][\A n \in Jobs : jobs[n].entry.terminal /\ Queued(spool, n) /\ ~Queued(spool', n)
       => StoredEvent(n)' \/ server'.ended
          \/ \A i \in DOMAIN spool'.events : spool'.events[i].terminal]_vars

\* A report returns, whether the companion answers or not.
ReportReturns ==
  \A n \in Events : (n \in Jobs /\ jobs[n].told = "reporting")
                      ~> (n \in Jobs /\ jobs[n].told # "reporting")

\* What is reported as queued or delivered is so, once and in order.
DeliveryAgrees == StoredOnce /\ AppliedInOrder /\ QueuedIsKept /\ DeliveredIsApplied
=============================================================================
