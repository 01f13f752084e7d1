----------------------------- MODULE Reconciliation -----------------------------
(***************************************************************************)
(* Reconciliation of the sources of work with tickets: the engine of   *)
(* server/reconciliation/engine.ts over its tables in                   *)
(* server/db/operational-repository.ts, the source routes and the          *)
(* onboarding service that starts it.                                      *)
(*                                                                         *)
(* Runs are not serialized: a run goes through its sources one after the   *)
(* other and awaits the adapter of each, while other runs, settings and    *)
(* people work on.  What it read of a source is committed in one           *)
(* transaction, under the settings it read before it asked.                *)
(***************************************************************************)
EXTENDS Absence, Integers, FiniteSets, Sequences, SequencesExt

CONSTANTS
  WorkSources,  \* sources with an adapter, each with one record that changes
  TicketSource, \* the source that lists FindMnemo's own tickets
  MailSource,   \* the source whose records a person may link to a ticket
  Unknown,      \* an id of a source that no adapter serves
  CheckRuns,    \* runs
  Wishes,       \* bound of the model: the sets of sources that are asked for
  Fingerprints  \* contents of a record

ASSUME ReconciliationConstants ==
  /\ TicketSource \in WorkSources /\ MailSource \in WorkSources /\ TicketSource # MailSource
  /\ Wishes \subseteq SUBSET (WorkSources \cup {Unknown})
  /\ Unknown \notin WorkSources /\ None \notin Fingerprints \cup WorkSources

VARIABLES
  origins,     \* what a check of each source would find
  descriptors,  \* configured_sources, or the adapter's defaults while there is no row
  runs,        \* the runs: their rows, and what their execution holds in memory
  history,     \* the runs in the order they were started, the last one first
  saved,       \* source_records: the fingerprint recorded last
  made,        \* the ticket made of the record: the fingerprint it shows, or None
  linked       \* the ticket a person linked to the record: what it shows, or None

reconciliationVars == <<origins, descriptors, runs, history, saved, made, linked>>

-----------------------------------------------------------------------------
Policies == {"auto-create", "review", "exclude"}
Setting == [enabled : BOOLEAN, policy : Policies]
EndedStates == {"complete", "partial", "failed"}

\* A record that is listed twice, has no provenance, or is not eligible for a ticket.
Flaws == {"sound", "twice", "unsourced", "ineligible"}
Origin == [fingerprint : Fingerprints, flaw : Flaws]

Classes == {"added", "updated", "unchanged", "excluded", "duplicate", "unresolved"}
SourceResult == [state : {"checked", "failed", "skipped", "unavailable"}, class : Classes \cup {None}]

ASSUME ResultConstants == None \notin SourceResult \cup Classes

\* A linked ticket that took nothing of the record yet.
Untouched == "untouched"

\* A run: what it asks for and has left, what it awaits, and its results.
Reading == [source : WorkSources, setting : Setting, read : BOOLEAN, found : Origin \cup {None}]
Run == [state : {"running"} \cup EndedStates, wanted : SUBSET (WorkSources \cup {Unknown}),
        left : SUBSET (WorkSources \cup {Unknown}), reading : Reading \cup {None},
        results : [WorkSources \cup {Unknown} -> SourceResult \cup {None}]]

ReconciliationTypeOK ==
  /\ origins \in [WorkSources -> Origin \cup {None}]
  /\ descriptors \in [WorkSources -> Setting]
  /\ \A r \in CheckRuns : runs[r] # None =>
       /\ runs[r].state \in {"running"} \cup EndedStates
       /\ runs[r].left \subseteq runs[r].wanted
       /\ runs[r].reading \in Reading \cup {None}
       /\ \A s \in DOMAIN runs[r].results : runs[r].results[s] \in SourceResult \cup {None}
  /\ saved \in [WorkSources -> Fingerprints \cup {None}]
  /\ made \in [WorkSources -> Fingerprints \cup {None}]
  /\ linked \in [WorkSources -> Fingerprints \cup {Untouched, None}]

\* The descriptor of an adapter: what asks a person first is reviewed.
Defaults(s) == [enabled |-> TRUE, policy |-> IF s = MailSource THEN "review" ELSE "auto-create"]

ReconciliationInit ==
  /\ origins \in [WorkSources -> {None} \cup [fingerprint : Fingerprints, flaw : {"sound"}]]
  /\ descriptors = [s \in WorkSources |-> Defaults(s)]
  /\ runs = [r \in CheckRuns |-> None] /\ history = <<>>
  /\ saved = [s \in WorkSources |-> None]
  /\ made = [s \in WorkSources |-> None]
  /\ linked = [s \in WorkSources |-> None]

-----------------------------------------------------------------------------
(* Starting, retrying and losing runs.                                     *)
Started(r, wanted) ==
  /\ runs[r] = None /\ history' = <<r>> \o history
  /\ runs' = [runs EXCEPT ![r] =
       [state |-> "running", wanted |-> wanted, left |-> wanted, reading |-> None,
        results |-> [s \in WorkSources \cup {Unknown} |-> None]]]
  /\ UNCHANGED <<origins, descriptors, saved, made, linked>>

\* start: what is asked for, or every source.
StartRun(r, requested) == Started(r, IF requested = {} THEN WorkSources ELSE requested)

\* What the onboarding page offers to check: sources that are switched on.
Offered == {s \in WorkSources : descriptors[s].enabled}

\* firstRefresh of the onboarding service: the own tickets and what is offered of the rest.
FirstRefresh(r, requested) == Started(r, {TicketSource} \cup (requested \cap Offered))

HasGap(result) ==
  result # None /\ (result.state \in {"failed", "unavailable"}
                    \/ result.class \in {"unresolved", "duplicate"})

\* retry: of the sources with a gap those asked for, or, when that leaves none, all the
\* run had asked for.
RetryRun(prior, r, requested) ==
  LET gaps == {s \in runs[prior].wanted : HasGap(runs[prior].results[s])}
      again == IF requested = {} THEN gaps ELSE gaps \cap requested
  IN Started(r, IF again = {} THEN runs[prior].wanted ELSE again)

\* latestSourceEvidence: what the page shows of a source is the result of the last run that
\* has one.
Shown(s) ==
  LET known == SelectSeq(history, LAMBDA r : runs[r].results[s] # None)
  IN IF known = <<>> THEN None ELSE runs[known[1]].results[s]

\* handleRetrySource: a person retries a source that is shown with a gap, of the run the
\* page shows, which is the last one.
RetrySource(r, s) == history # <<>> /\ HasGap(Shown(s)) /\ RetryRun(history[1], r, {s})

\* Mutant: every run is marked.
EveryRun(r) == runs[r] # None

\* recoverInterruptedRuns: the companion ends, and marks what had been running as failed
\* when it starts again.
Interrupted(r) == runs[r] # None /\ runs[r].state = "running"
RestartCompanion ==
  /\ \E r \in CheckRuns : Interrupted(r)
  /\ runs' = [r \in CheckRuns |->
       IF Interrupted(r) THEN [runs[r] EXCEPT !.state = "failed", !.left = {}, !.reading = None]
       ELSE runs[r]]
  /\ UNCHANGED <<origins, descriptors, history, saved, made, linked>>

-----------------------------------------------------------------------------
(* One source of a run.                                                    *)
Executes(r, s) ==
  /\ runs[r] # None /\ runs[r].state = "running" /\ runs[r].reading = None /\ s \in runs[r].left
Checks(r) == runs[r] # None /\ runs[r].reading # None

\* saveRunSource, after which the run goes on with the next source.
Resulted(r, s, state, class) ==
  runs' = [runs EXCEPT ![r].left = @ \ {s}, ![r].reading = None,
                       ![r].results[s] = [state |-> state, class |-> class]]

\* A source that no adapter serves, or that is switched off.
PassSource(r, s) ==
  /\ Executes(r, s)
  /\ \/ s = Unknown /\ Resulted(r, s, "unavailable", None)
     \/ s # Unknown /\ ~descriptors[s].enabled /\ Resulted(r, s, "skipped", None)
  /\ UNCHANGED <<origins, descriptors, history, saved, made, linked>>

\* The settings are read before the adapter is awaited.
AskSource(r, s) ==
  /\ Executes(r, s) /\ s # Unknown /\ descriptors[s].enabled
  /\ runs' = [runs EXCEPT ![r].reading =
       [source |-> s, setting |-> descriptors[s], read |-> FALSE, found |-> None]]
  /\ UNCHANGED <<origins, descriptors, history, saved, made, linked>>

\* The adapter reads the source while it is awaited.
ReadSource(r) ==
  /\ Checks(r) /\ ~runs[r].reading.read
  /\ runs' = [runs EXCEPT ![r].reading.read = TRUE,
                          ![r].reading.found = origins[runs[r].reading.source]]
  /\ UNCHANGED <<origins, descriptors, history, saved, made, linked>>

\* Whether a record that is classified so is written to source_records.
Records(class) == class \notin {"duplicate", "excluded"}

\* updateLinkedTicket: the ticket made of the record goes before one linked to it.
UpdateLinkedTicket(s, found) ==
  IF made[s] # None
  THEN made' = [made EXCEPT ![s] = found.fingerprint] /\ UNCHANGED linked
  ELSE linked' = [linked EXCEPT ![s] = found.fingerprint] /\ UNCHANGED made

HasLink(s) == made[s] # None \/ linked[s] # None

\* classifyAndMutate: what a record found means under the settings the check began with.
Classified(s, setting, found) ==
  IF found.flaw = "twice" THEN "duplicate"
  ELSE IF found.flaw = "unsourced" THEN "unresolved"
  ELSE IF setting.policy = "exclude" \/ found.flaw = "ineligible" THEN "excluded"
  ELSE IF s = TicketSource THEN "unchanged"
  ELSE IF HasLink(s)
  THEN IF saved[s] \notin {None, found.fingerprint} THEN "updated" ELSE "unchanged"
  ELSE IF setting.policy = "review" THEN "unresolved" ELSE "added"

\* commitSource, in one transaction.
CommitSource(s, found, class) ==
  /\ CASE class = "added" -> made' = [made EXCEPT ![s] = found.fingerprint] /\ UNCHANGED linked
       [] class = "updated" -> UpdateLinkedTicket(s, found)
       [] OTHER -> UNCHANGED <<made, linked>>
  /\ saved' = IF Records(class) /\ found.flaw # "unsourced"
              THEN [saved EXCEPT ![s] = found.fingerprint] ELSE saved

\* executeSource after its await: what was found is committed and the settings the check
\* began with are saved; a source that ended early keeps its counts but counts as failed.
FinishSource(r, complete) ==
  /\ Checks(r) /\ runs[r].reading.read
  /\ LET reading == runs[r].reading
         class == IF reading.found = None THEN None
                  ELSE Classified(reading.source, reading.setting, reading.found)
     IN /\ IF reading.found = None THEN UNCHANGED <<saved, made, linked>>
           ELSE CommitSource(reading.source, reading.found, class)
        /\ Resulted(r, reading.source, IF complete THEN "checked" ELSE "failed", class)
        /\ descriptors' = [descriptors EXCEPT ![reading.source] = reading.setting]
  /\ UNCHANGED <<origins, history>>

\* The adapter throws: nothing is committed.
FailSource(r) ==
  /\ Checks(r)
  /\ Resulted(r, runs[r].reading.source, "failed", None)
  /\ descriptors' = [descriptors EXCEPT ![runs[r].reading.source] = runs[r].reading.setting]
  /\ UNCHANGED <<origins, history, saved, made, linked>>

\* The state of a run whose sources have ended so.
Verdict(results) ==
  LET enabled == {s \in DOMAIN results : results[s] # None /\ results[s].state # "skipped"} IN
  IF \A s \in enabled : results[s].state # "checked" THEN "failed"
  ELSE IF \E s \in enabled : results[s].state # "checked" \/ HasGap(results[s]) THEN "partial"
  ELSE "complete"

\* execute after the last source.
FinishRun(r) ==
  /\ runs[r] # None /\ runs[r].state = "running" /\ runs[r].left = {} /\ runs[r].reading = None
  /\ runs' = [runs EXCEPT ![r].state = Verdict(runs[r].results)]
  /\ UNCHANGED <<origins, descriptors, history, saved, made, linked>>

-----------------------------------------------------------------------------
(* What else changes the same rows.                                        *)
OriginChanges(s, origin) ==
  /\ origin # origins[s]
  /\ origins' = [origins EXCEPT ![s] = origin]
  /\ UNCHANGED <<descriptors, runs, history, saved, made, linked>>

\* PATCH /sources/:id and DELETE /sources/:id, from this computer only; what is deleted
\* has its defaults again.
ConfigureSource(s, setting) ==
  /\ setting # descriptors[s]
  /\ descriptors' = [descriptors EXCEPT ![s] = setting]
  /\ UNCHANGED <<origins, runs, history, saved, made, linked>>

\* A person deletes a ticket, and its links go with it.
DeleteMadeTicket(s) ==
  /\ made[s] # None
  /\ made' = [made EXCEPT ![s] = None]
  /\ UNCHANGED <<origins, descriptors, runs, history, saved, linked>>
DeleteLinkedTicket(s) ==
  /\ linked[s] # None
  /\ linked' = [linked EXCEPT ![s] = None]
  /\ UNCHANGED <<origins, descriptors, runs, history, saved, made>>

\* The association of a thread of mail with a ticket.
LinkMail ==
  /\ linked[MailSource] = None
  /\ linked' = [linked EXCEPT ![MailSource] = Untouched]
  /\ UNCHANGED <<origins, descriptors, runs, history, saved, made>>

\* The routes of runs.
RunsAsked ==
  \/ \E r \in CheckRuns, requested \in Wishes : StartRun(r, requested)
  \/ \E prior, r \in CheckRuns : runs[prior] # None /\ RetryRun(prior, r, {})
  \/ \E r \in CheckRuns, s \in WorkSources : RetrySource(r, s)

\* What is executed of each source.
ExecuteSource(r) ==
  \/ \E s \in WorkSources \cup {Unknown} : PassSource(r, s) \/ AskSource(r, s)
  \/ ReadSource(r) \/ FailSource(r)
  \/ \E complete \in BOOLEAN : FinishSource(r, complete)

ReconciliationNext ==
  \/ RunsAsked
  \/ \E r \in CheckRuns, requested \in Wishes : FirstRefresh(r, requested)
  \/ RestartCompanion
  \/ \E r \in CheckRuns : ExecuteSource(r) \/ FinishRun(r)
  \/ \E s \in WorkSources :
       \/ \E origin \in Origin \cup {None} : OriginChanges(s, origin)
       \/ \E setting \in Setting : ConfigureSource(s, setting)
       \/ DeleteMadeTicket(s) \/ DeleteLinkedTicket(s)
  \/ LinkMail

ReconciliationSpec == ReconciliationInit /\ [][ReconciliationNext]_reconciliationVars

-----------------------------------------------------------------------------
\* Whatever runs overlap, are interrupted or work under settings that have changed, and
\* whatever people delete: the ticket made of a record shows what was recorded of it last.
\* A change that were recorded without it would never reach it, for the next check would
\* find the record unchanged.
ChangesReachTickets == \A s \in WorkSources : made[s] # None => made[s] = saved[s]

\* A run is complete only when each source it was asked for was checked without a gap or
\* is switched off, and at least one was checked.
CompleteIsEarned ==
  \A r \in CheckRuns :
    runs[r] # None /\ runs[r].state = "complete" =>
      /\ \A s \in runs[r].wanted :
           /\ runs[r].results[s] # None
           /\ runs[r].results[s].state \in {"checked", "skipped"}
           /\ runs[r].results[s].class \notin {"duplicate", "unresolved"}
      /\ \E s \in runs[r].wanted : runs[r].results[s].state = "checked"

\* What a run ended with is never written again, by a later run, a retry or a restart.
VerdictsStand ==
  [][\A r \in CheckRuns :
       runs[r] # None /\ runs[r].state \in EndedStates => runs'[r] = runs[r]]_reconciliationVars
=============================================================================
