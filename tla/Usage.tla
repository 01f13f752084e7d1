--------------------------------- MODULE Usage --------------------------------
(***************************************************************************)
(* Model usage: UsageRefreshService runs the collector's commands one      *)
(* after the other and commits what they report; UsageRepository keeps the *)
(* daily records of the windows refreshed so far.  Cancelling, the timeout *)
(* and clearing the history come at any time.                              *)
(***************************************************************************)
EXTENDS Absence, Integers, SequencesExt

CONSTANTS
  Models,      \* what usage is recorded of, per day
  Graphs,      \* outputs of the collector: sequences of daily records
  Subjects,    \* sessions and workspaces usage is attributed to
  Profiles,    \* routing profiles
  ProfileOf,   \* the profiles of a model, by provider and model name
  Horizon,     \* 12 months
  MaxDay,      \* bound of the model: days
  MaxRuns      \* bound of the model: refreshes

ASSUME UsageConstants == Horizon \in Nat \ {0} /\ MaxDay \in Nat \ {0} /\ MaxRuns \in Nat

VARIABLES
  today,
  refreshRuns,   \* the refreshes this process knows
  runRows,       \* usage_refresh_runs
  canonical,     \* usage_canonical_records
  attribution,   \* usage_attribution_records
  lastSuccess,   \* usage_state
  mappings       \* usage_route_mappings: the profile a model was mapped to by hand

usageVars == <<today, refreshRuns, runRows, canonical, attribution, lastSuccess, mappings>>

-----------------------------------------------------------------------------
Days == 1..MaxDay
RunIds == 1..MaxRuns
DailyRecord == [date : Days, model : Models, tokens : Nat]
CanonicalRecord == [date : Days, model : Models, tokens : Nat, run : RunIds]
AttributionRecord == [subject : Subjects, since : Days, until : Days, run : RunIds]
Terminals == {"complete", "partial", "failed", "cancelled"}
Active == {"requested", "detecting", "collecting", "normalizing", "committing"}

\* A refresh: its window, the command it awaits, and what the earlier ones reported.
RefreshRun == [since : Days, until : Days, state : Terminals \cup Active,
               awaits : {"version", "clients", "graph", "session", "workspace", "finished"},
               aborted : {None, "user", "timeout"}, failures : BOOLEAN,
               graph : Seq(DailyRecord), subjects : SUBSET Subjects]
RunRow == [state : Terminals \cup Active, finished : Nat, conflicts : BOOLEAN, since : Days, until : Days]

UsageTypeOK ==
  /\ today \in Days
  /\ \E n \in 0..MaxRuns : refreshRuns \in [1..n -> RefreshRun \cup {None}]
  /\ DOMAIN runRows \subseteq RunIds /\ \A r \in DOMAIN runRows : runRows[r] \in RunRow
  /\ canonical \subseteq CanonicalRecord /\ attribution \subseteq AttributionRecord
  /\ lastSuccess \in RunIds \cup {None}
  /\ mappings \in [Models -> Profiles \cup {None}]

ASSUME GraphsAreDaily == Graphs \subseteq Seq(DailyRecord)

UsageInit ==
  /\ today = 1 /\ refreshRuns = << >> /\ runRows = << >>
  /\ canonical = {} /\ attribution = {} /\ lastSuccess = None
  /\ mappings = [m \in Models |-> None]

-----------------------------------------------------------------------------
Running == {r \in DOMAIN refreshRuns : refreshRuns[r] # None /\ refreshRuns[r].state \in Active}

\* start(): a refresh that runs is answered again; the row is written before anything runs.
StartUsageRefresh(since, until) ==
  LET id == Len(refreshRuns) + 1 IN
  /\ since <= until /\ Running = {} /\ id \in RunIds
  /\ refreshRuns' = Append(refreshRuns, [since |-> since, until |-> until, state |-> "detecting",
       awaits |-> "version", aborted |-> None, failures |-> FALSE, graph |-> << >>, subjects |-> {}])
  /\ runRows' = [r \in DOMAIN runRows \cup {id} |-> IF r = id
       THEN [state |-> "detecting", finished |-> 0, conflicts |-> FALSE, since |-> since, until |-> until]
       ELSE runRows[r]]
  /\ UNCHANGED <<today, canonical, attribution, lastSuccess, mappings>>

\* cancel(), and the signal that times out.
AbortRefresh(r, reason) ==
  /\ refreshRuns[r].aborted = None
  /\ refreshRuns' = [refreshRuns EXCEPT ![r].aborted = reason]
  /\ UNCHANGED <<today, runRows, canonical, attribution, lastSuccess, mappings>>

\* transition(), which changes the row unless the history was cleared.
Transition(r, run) ==
  /\ refreshRuns' = [refreshRuns EXCEPT ![r] = run]
  /\ runRows' = IF r \in DOMAIN runRows THEN [runRows EXCEPT ![r].state = run.state] ELSE runRows
  /\ UNCHANGED <<today, canonical, attribution, lastSuccess, mappings>>

\* What a refresh collected is gone when it ends.
Ended(run, state) == [run EXCEPT !.state = state, !.awaits = "finished", !.aborted = None, !.failures = FALSE,
                                 !.graph = << >>, !.subjects = {}]

\* fail() and abort(); recordFailure() writes the row again when it is gone.
FailRefresh(r, state) ==
  /\ refreshRuns' = [refreshRuns EXCEPT ![r] = Ended(@, state)]
  /\ runRows' = [q \in DOMAIN runRows \cup {r} |->
       IF q = r THEN [state |-> state, finished |-> today, conflicts |-> FALSE,
                      since |-> refreshRuns[r].since, until |-> refreshRuns[r].until]
       ELSE runRows[q]]
  /\ UNCHANGED <<today, canonical, attribution, lastSuccess, mappings>>

\* deduplicateCanonicalUsageRecords(): the records accepted and the identities in conflict
\* after one more record.  The identity of a record is its day and what it is about.
Identity(record) == <<record.date, record.model>>
AcceptRecord(so, record) ==
  LET same == {a \in so.accepted : Identity(a) = Identity(record)}
  IN IF Identity(record) \in so.conflicts \/ record \in same THEN so
     ELSE IF same = {} THEN [so EXCEPT !.accepted = @ \cup {record}]
     ELSE [accepted |-> so.accepted \ same, conflicts |-> so.conflicts \cup {Identity(record)}]
Deduplicated(records) == FoldLeft(AcceptRecord, [accepted |-> {}, conflicts |-> {}], records)

Overlaps(from, to, since, until) == from <= until /\ to >= since

\* prune(): what ended before the horizon, and finished runs nothing belongs to any more.
Pruned(records) == {c \in records : c.date >= today - Horizon}
PrunedAttribution(records) == {a \in records : a.until >= today - Horizon}
PrunedRuns(rows, success, records, subjects) == {r \in DOMAIN rows :
  /\ rows[r].finished > 0 /\ rows[r].finished < today - Horizon
  /\ r # success
  /\ ~\E c \in records : c.run = r
  /\ ~\E a \in subjects : a.run = r}

\* commitSnapshot(): the window's records are replaced in one transaction.  Attribution has
\* one row for a subject: one of another window makes the transaction fail.
CommitSnapshot(r, run) ==
  LET state == IF run.failures THEN "partial" ELSE "complete"
      result == Deduplicated(run.graph)
      keptRecords == {c \in canonical : ~Overlaps(c.date, c.date, run.since, run.until) /\ c.run # r}
      keptSubjects == {a \in attribution : ~Overlaps(a.since, a.until, run.since, run.until) /\ a.run # r}
      records == Pruned(keptRecords \cup {[date |-> d.date, model |-> d.model, tokens |-> d.tokens, run |-> r] : d \in result.accepted})
      subjects == PrunedAttribution(keptSubjects \cup
                    {[subject |-> s, since |-> run.since, until |-> run.until, run |-> r] : s \in run.subjects})
      rows == [q \in DOMAIN runRows \cup {r} |-> IF q = r
                 THEN [state |-> state, finished |-> today, conflicts |-> result.conflicts # {},
                       since |-> run.since, until |-> run.until]
                 ELSE runRows[q]]
      unique == /\ ~\E a \in keptSubjects : a.subject \in run.subjects
                /\ ~\E c \in keptRecords, d \in result.accepted : Identity(c) = Identity(d)
  IN IF unique
     THEN /\ canonical' = records /\ attribution' = subjects
          /\ runRows' = [q \in DOMAIN rows \ PrunedRuns(rows, r, records, subjects) |-> rows[q]]
          /\ lastSuccess' = r
          /\ refreshRuns' = [refreshRuns EXCEPT ![r] = Ended(@, state)]
          /\ UNCHANGED <<today, mappings>>
     ELSE FailRefresh(r, "failed")

Aborted(r) == refreshRuns[r].aborted # None

\* What a command of the collector ends with: its process does not complete in its time and
\* size, or what it wrote has another shape than expected, or it is read.
CommandOutcomes == {"failed", "unreadable", "read"}
\* What the readable outputs say: the days of the window, the subjects usage is attributed
\* to, and whether every source could be looked at.
DailyRecords(run) == {graph \in Graphs : \A i \in DOMAIN graph : graph[i].date \in run.since..run.until}
AttributedSubjects(outcome) == IF outcome = "read" THEN SUBSET Subjects ELSE {{}}
CoverageGaps(outcome) == IF outcome = "read" THEN BOOLEAN ELSE {TRUE}

\* The command awaited ends: execute() goes on, or is stopped.
CommandEnds(r, outcome) ==
  LET run == refreshRuns[r] IN
  \/ Aborted(r) /\ FailRefresh(r, IF run.aborted = "user" THEN "cancelled" ELSE "failed")
  \/ ~Aborted(r) /\ run.awaits \in {"version", "graph"} /\ outcome # "read" /\ FailRefresh(r, "failed")
  \/ /\ ~Aborted(r) /\ run.awaits = "version" /\ outcome = "read"
     /\ Transition(r, [run EXCEPT !.state = "collecting", !.awaits = "clients"])
  \/ /\ ~Aborted(r) /\ run.awaits = "clients"
     /\ \E gaps \in CoverageGaps(outcome) : Transition(r, [run EXCEPT !.awaits = "graph", !.failures = gaps])
  \/ /\ ~Aborted(r) /\ run.awaits = "graph" /\ outcome = "read"
     /\ \E graph \in DailyRecords(run) : Transition(r, [run EXCEPT !.awaits = "session", !.graph = graph])
  \/ /\ ~Aborted(r) /\ run.awaits = "session"
     /\ \E subjects \in AttributedSubjects(outcome) :
          Transition(r, [run EXCEPT !.awaits = "workspace", !.subjects = subjects, !.failures = @ \/ outcome # "read"])
  \/ /\ ~Aborted(r) /\ run.awaits = "workspace"
     /\ CommitSnapshot(r, [run EXCEPT !.failures = @ \/ outcome # "read"])

\* clearHistory()
ClearHistory ==
  /\ runRows' = << >> /\ canonical' = {} /\ attribution' = {} /\ lastSuccess' = None
  /\ UNCHANGED <<today, refreshRuns, mappings>>

\* saveManualMapping(), removeManualMapping(), clearMappings()
SaveManualMapping(m, profile) ==
  /\ mappings' = [mappings EXCEPT ![m] = profile]
  /\ UNCHANGED <<today, refreshRuns, runRows, canonical, attribution, lastSuccess>>
ClearMappings ==
  /\ mappings' = [m \in Models |-> None]
  /\ UNCHANGED <<today, refreshRuns, runRows, canonical, attribution, lastSuccess>>

DayPasses ==
  /\ today < MaxDay /\ today' = today + 1
  /\ UNCHANGED <<refreshRuns, runRows, canonical, attribution, lastSuccess, mappings>>

\* The companion is started again: what was running is recorded as interrupted.
UsageRestart ==
  /\ refreshRuns' = [r \in DOMAIN refreshRuns |-> None]
  /\ runRows' = [r \in DOMAIN runRows |-> IF runRows[r].state \in Active
       THEN [runRows[r] EXCEPT !.state = "failed", !.finished = today] ELSE runRows[r]]
  /\ UNCHANGED <<today, canonical, attribution, lastSuccess, mappings>>

UsageNext ==
  \/ \E since, until \in Days : StartUsageRefresh(since, until)
  \/ \E r \in Running : AbortRefresh(r, "user") \/ AbortRefresh(r, "timeout")
       \/ \E outcome \in CommandOutcomes : CommandEnds(r, outcome)
  \/ ClearHistory \/ ClearMappings \/ DayPasses \/ UsageRestart
  \/ \E m \in Models, profile \in Profiles \cup {None} : SaveManualMapping(m, profile)

-----------------------------------------------------------------------------
(* What is shown: the profile a record counts for, and what is said of a   *)
(* profile.                                                                *)
RouteMapping(m) ==
  IF mappings[m] # None THEN {mappings[m]}
  ELSE IF Cardinality(ProfileOf[m]) = 1 THEN ProfileOf[m] ELSE {}

CoverageComplete == lastSuccess # None /\ runRows[lastSuccess].state = "complete"
RecordsOf(profile) == {c \in canonical : profile \in RouteMapping(c.model)}
RouteObservation(profile) ==
  IF ~CoverageComplete THEN "usage-evidence-incomplete"
  ELSE IF RecordsOf(profile) # {} THEN "observed"
  ELSE IF \E c \in canonical : profile \in ProfileOf[c.model] /\ RouteMapping(c.model) = {} THEN "configured-but-unmapped"
  ELSE "no-observed-usage"

-----------------------------------------------------------------------------
\* Nothing is counted twice or kept from an earlier reading: a day has one record of a
\* model, of the last refresh that covered the day.
LatestRefreshCounts ==
  /\ \A c, d \in canonical : Identity(c) = Identity(d) => c = d
  /\ \A c \in canonical, r \in DOMAIN runRows :
       runRows[r].state \in {"complete", "partial"} /\ c.date \in runRows[r].since..runRows[r].until => r <= c.run

\* The refresh the coverage is read from is there and succeeded, and so are those the
\* records belong to.
LastSuccessStands ==
  /\ lastSuccess # None => lastSuccess \in DOMAIN runRows /\ runRows[lastSuccess].state \in {"complete", "partial"}
  /\ \A c \in canonical : c.run \in DOMAIN runRows
  /\ \A a \in attribution : a.run \in DOMAIN runRows

UsageHistoryStands == LatestRefreshCounts /\ LastSuccessStands

\* A refresh that was cancelled or ran out of time while it was running commits nothing, and
\* one that commits stores exactly the days it was told of without contradiction.
CommitWasReported ==
  lastSuccess' # lastSuccess /\ lastSuccess' # None =>
    LET run == refreshRuns[lastSuccess'] IN
    /\ run.aborted = None
    /\ \A i \in DOMAIN run.graph : run.graph[i].date >= today - Horizon =>
         ((\E c \in canonical' : Identity(c) = Identity(run.graph[i])) <=>
          \A j \in DOMAIN run.graph : Identity(run.graph[j]) = Identity(run.graph[i]) => run.graph[j] = run.graph[i])
=============================================================================
