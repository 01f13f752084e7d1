# FindMnemo: formal models, checks and proofs

FindMnemo keeps a person's work in one place. Coding agents report what they are doing,
sources such as a Gmail inbox or an existing ticket list are reconciled into tickets, tasks can
be dispatched to other agents, and model usage is measured. A local *companion* (a Node process
that listens on 127.0.0.1:3210 and owns a SQLite database) does this; a browser application and
an Electron shell on Windows talk to it. This directory holds TLA+ models of the parts where
order, failure and concurrency decide whether the program is right, the TLC runs that check
them on small instances, and the proofs TLAPS checks for every instance. Paths below are
relative to the repository.

## 1. Inventory

| Part | State it keeps | Operations | Talks to | What makes it hard |
|---|---|---|---|---|
| **Agent activity store** `server/agent-activity/agent-activity-repository.ts`, `agent-activity-service.ts`, `retention-service.ts`, `project-association-service.ts` | tables `agent_activity_integrations`, `agent_assignments`, `agent_assignment_events`, `agent_project_reviews`, and its tickets | ingest an event, human override, register, recover, prune, clear, create and resolve reviews | ingress, management, ticket lifecycle | events early, late, twice, or rival; bounded gap queue; people and reconciliation write the same rows; two-step review resolution |
| **Activity transport** `server/mcp/activity-transport.ts`, `server/agent-activity/reporter/*`, `hook-reporter-command.ts` | sequence counters per process; the retry spool in the secret store | report, send again, enqueue, replay, submit within a budget | ingress over HTTP, secret store | a request that timed out may still be served; the spool is shared and read-modify-written across awaits; processes restart their numbering |
| **Activity ingress** `activity-ingress.ts`, `snapshot-service.ts`, `coverage-service.ts` | rate-limiter buckets, snapshots | events, context, recovery, safe test, snapshots | store, auth | authentication awaits before the capture switch is read; snapshot completion by duplicates |
| **Integrations and rollout** `management-service.ts`, `rollout-service.ts`, `integration-auth-service.ts`, `desktop/agent-activity/integration-installer.ts` | integration rows, tokens, capture switch, hook files | enable, pause, reconnect, remove, clear, rollback | secret store, agents' configuration | loops that await between rows; token issue racing revocation; partial removal |
| **Manual reporting and adapters** `manual-reporting-service.ts`, `adapters/*`, `capability-manifests.ts`, `qualifications/*` | none beyond counters | translate hooks and reports into events | transport | pure translation |
| **Routing dispatch** `server/routing/dispatch-service.ts`, `routing-repository.ts` | receipts, running calls, retryable tasks | dispatch (two policy versions), cancel, retry, mark delivered, recover | adapters, project contexts | fallback between candidates, timers, cancellation, crashes between statements |
| **Routing policy and connections** `connection-service.ts`, `connection-repository.ts`, `routing-policy*.ts`, `catalog-service.ts`, `discovery-service.ts` | policies with versions, connections, catalogs | save with compare-and-set, discover, refresh, enable, validate | adapters | rows read before an await and saved after it; expiry of catalogs |
| **Routing adapters** `adapters/*`, `pi-rpc-client.ts`, `process-runner.ts` | child processes, RPC sessions | detect, execute, abort | external CLIs | promises nobody awaits; process trees |
| **Credentials and pairing** `server/auth/*`, `openrouter-oauth-service.ts`, `gmail/token-manager.ts`, `gmail/oauth.ts`, `integration-auth.ts` | secrets, pairing code, sessions, OAuth state | issue, exchange, rotate, revoke, refresh | secret stores, providers | expiry, cooldown, revocation while a refresh or an exchange is in flight |
| **Reconciliation** `server/reconciliation/*` | runs, run sources and items, source records | start, run, retry | adapters, tickets | concurrent runs; failure between sources; crash in a run |
| **Gmail follow-ups** `server/gmail/gmail-source.ts`, `gmail-client.ts`, `candidate-classifier.ts` | stored threads, their links to tickets, the history position | check, decide, make or link a ticket, clean up at start | Gmail, tickets | an await for every page and thread; checks that overlap; a position that must not run ahead |
| **Tickets and completed work** `server/tickets/*`, `db/operational-repository.ts` | tickets and their history, audit | create, transition (optimistic), query, export | everything that writes tickets | concurrent transitions, history consistent with the row |
| **Model usage** `server/usage/*` | refresh runs, usage snapshots | start, cancel, commit, fail | tokscale CLI | five recipes under one timeout, failure to record, crash in a run; deduplication |
| **Data portability** `server/portability/*` | import plans, receipts | preview, commit, export | tickets, routing | plan used once, a category failing between others |
| **Onboarding and project folders** `server/onboarding/*` | folders, previews | preview, commit | file system | previews that expire |
| **Companion process and local API** `server/companion.ts`, `server/api/*` | the server, the open database | start, stop, route requests | all of the above | draining, recovery at start, port checked before the database is opened |
| **Desktop lifecycle and updates** `desktop/main.ts`, `desktop/lifecycle/{controller,companion-host,update-service,update-recovery,electron-update-provider}.ts`, `desktop/renderer` | lifecycle state, operation in progress, update state, recovery record | start, stop, restart, boot, quit, check, download, activate | companion, updater, window, tray | a second caller joins the operation in progress; late checks; a window that lags; activation over several awaits |
| **Adoption and uninstall** `desktop/lifecycle/{migration-service,uninstall,state-store}.ts` | receipt, plan, settings | inspect, adopt, prepare, execute | database, secrets | copy, migrate and receipt in three steps; a plan consumed before its steps |
| **MCP server** `server/mcp/findmnemo-mcp.ts` | none | tools for agents | API | delivery of results |
| **Browser application** `src/src/lib/*`, components | connection state, local storage | connect, pair, load, save | API | switching between local and companion records, retries |
| **Diagnostics, logging, platform, contracts, scripts, SQL** | files | read and format | | not about ordering |

`PROJECT.json` lists the same parts with their status, and every hazard with its line and the
properties that would catch it going wrong; a hazard without a property says why.

What makes each modelled part correct, in words:

* *Store*: each assignment applies the events 1, 2, 3, ... exactly once and in order whatever
  order they come in, keeps early ones until then, ends with its terminal event, loses no update
  of a person, and its ticket tells what it tells.
* *Transport*: an event is stored at most once and in the order it was made; one that `report`
  called queued is in the spool, in the store, or counted as a gap; a report returns.
* *Integrations and ingress*: coverage promises only what row, reference and secret store give
  together; a request served alone does what it says; the limiter cannot be cheated by the clock;
  the hooks of others survive the installer.
* *Dispatch*: one execution per idempotency key, outcomes that are final and honest through
  aborts and crashes, nothing in flight without somebody working on it, every dispatch settles.
* *Routing*: a page loses no profile another page saved, what is called ready was checked in that
  configuration, a decision is about the policy in force.
* *Credentials*: a code has one session and few guesses; what was disconnected stays so.
* *Tickets, mail, reconciliation*: the history of a ticket explains its row; no mail falls between
  two checks; a thread keeps its ticket; a run is complete only when it earned it.
* *Usage, imports, folders, adoption, removal*: what is committed is what was reported, a plan is
  used once, a choice of a person is not undone, who adopts data has a whole schema.
* *Desktop*: the shown status is true, only verified artifacts are installed, the recovery record
  does not lie, quitting ends.
* *Browser*: what a page shows at rest is there, once; notes of others survive; work can be carried
  out of the browser whole and brought in again once; open work is in the queue with its cause.

## 2. Modules

| Module | Models or shows | Code |
|---|---|---|
| `AgentActivity` | the store: one action per operation | `agent-activity-repository.ts`, services around it |
| `AssignmentLedger` | what a reader of an assignment may rely on; `AgentActivity` implements it (`ImplementsLedger`) | |
| `ActivityAndDesktopProofs` | proofs about the store and about the desktop, which share no state | |
| `ActivityDelivery` | transports, spool, requests on the wire | `activity-transport.ts`, `retry-spool.ts` |
| `Dispatch` | dispatches, their receipts and calls | `dispatch-service.ts`, `routing-repository.ts` |
| `DispatchProofs` | proofs about dispatches | |
| `ActivityDeliveryProofs` | proofs about the transport | |
| `DesktopLifecycle` | controller, host, updates, recovery, quit | `desktop/main.ts`, `desktop/lifecycle` |
| `Tickets` | tickets, their history, requests that await their body | `ticket-lifecycle-service.ts`, `api/routes.ts` |
| `FollowUps` | Gmail checks and stored threads; extends `Tickets` | `gmail-source.ts`, `operational-repository.ts` |
| `FollowUpsProofs` | proofs about mail and tickets | |
| `ActivityIngress` | the limiter, capture, snapshots, manual reports | `activity-ingress.ts`, `snapshot-service.ts`, `manual-reporting-service.ts` |
| `ActivityIntegrations` | requests to enable, test, pause, remove, roll back; coverage | `management-service.ts`, `integration-auth-service.ts`, `rollout-service.ts`, `coverage-service.ts` |
| `HookSettings` | the settings file an installer and its agent share | `desktop/agent-activity/integration-installer.ts` |
| `Usage` | refreshes, the stored window, deduplication, pruning | `server/usage` |
| `Reconciliation` | runs, sources, records, the tickets made of them | `reconciliation/engine.ts`, `operational-repository.ts` |
| `Portability` | import plans, receipts, export, the browser's migration | `data-portability-service.ts`, `src/lib/legacy-migration.ts` |
| `Credentials` | the Google grant, its tokens and the secret store | `gmail/oauth.ts`, `token-manager.ts`, `gmail-services.ts`, `auth/*-store.ts` |
| `ProjectFolders` | selections, folders, checks, the migration at start | `server/onboarding`, `sources/project-folders.ts` |
| `AgentProcesses` | executions of Pi, of bounded processes and of streams | `pi-rpc-adapter.ts`, `pi-rpc-client.ts`, `process-runner.ts` |
| `McpSession` | conversations, their lines, the work they begin | `findmnemo-mcp.ts`, `companion-transport.ts` |
| `Installation` | openers that migrate one database, adoption | `db/database.ts`, `migration-service.ts` |
| `Removal` | uninstall plans and their steps | `uninstall.ts`, `desktop/main.ts` |
| `Sessions`, `BrowserSession` | pairing codes, nonces, sessions; the page that holds one | `pairing-service.ts`, `companion-connection.ts` |
| `SessionsProofs` | proofs about sessions | |
| `AgentServicesProofs` | proofs about the services that agents' programs meet: `ActivityIngress`, `AgentProcesses`, `McpSession`, `Usage`, `ActivityIntegrations`, `HookSettings` | |
| `ServicesProofs` | proofs about the other services and about `MCServices`, where the twelve come together | |
| `RoutingPolicy` | the browser's policy, recommendation, decision, migration | `lib/model-routing.ts`, `ModelRoutingView.tsx` |
| `RoutingConnections` | engines, catalogs, the policy of version 3, the OpenRouter key | `connection-service.ts`, `routing-policy-v3.ts`, `openrouter-oauth-service.ts` |
| `GuidedRouting` | pages that edit, check and migrate the policy of version 2 | `GuidedRoutingSetup.tsx`, `routing-repository.ts`, `routing-policy.ts` |
| `Workspace` | tickets on a page, its requests and their late answers | `App.tsx`, `companion-repository.ts` |
| `LocalWork`, `ObservedWork` | work in the browser's storage; its events, export and import | `lib/storage.ts`, `lib/ontology.ts` |
| `SampleWork`, `Attention` | the sample workspace; the queue of attention | `SampleWorkspace.tsx`, `lib/attention-workspace.ts` |
| `BrowserProofs` | proofs about `MCBrowser` | |
| `Selections` | the k-th of a set of places, and what a filter of a list keeps (`filter` of the language), first-order so that it can be proved about | |
| `Absence` | the value that stands for nothing | |
| `MCServices`, `MCBrowser`, other `MC*` | instances for TLC | |

How state and actions correspond:

**AgentActivity.** A variable per table; a row is a record or `None`. Code inside one SQLite
transaction, and synchronous code around it, is one action. `Apply`, `CreateFirst` and `Hold` are
the three ways `ingestValidated` accepts an event, chosen by `Verdict`, the order of its early
returns; `Drained` is the loop that releases held events and `Projection` what each event does to
the row. `HumanOverride` carries an expected version. `ResolveReview` is one action, and
`ResolveReviewInterrupted` the same when the process ends between its two statements.
`AddTicket` and `ReconcileTicket` are what reconciliation does to tickets. `EditTicket` is a person's
`PATCH` of a ticket, which writes the whole of it, also of one that an assignment follows; `RemoveTicket` is a
deletion, which the foreign key of the assignments refuses for a ticket of theirs. Texts, labels and
timestamps are reduced to what tells rows apart: a summary is the event it came from or a
person's text. Left out: the clock-skew refusal of the service, `completedAt` and ticket history,
activation of projects, gate tickets.

**ActivityDelivery.** Each report is a job with a program counter: which await it is at. A job may
go on after the report has returned. The spool is one value, read into a job's `copy` and written
back, as in the code, without a lock. `wire` holds requests that may be served after their sender
gave up. The store is reduced to the verdict it gives on one assignment's events (the full one is
in `AgentActivity`). `Restart` ends a process and resets its counter, which is why events are
resequenced by the answer's `expectedSequence`.

**Dispatch.** `receipts` is the table, `jobs` the calls of `dispatch` that have not returned.
Each statement after which the process may end is a step of its own where the difference can be
seen (`DispatchInterrupted`, `CompletesInterrupted`); `Start` is the recovery at construction. Which
profiles are eligible is any ordered choice. `orphans` are executions nobody waits for any more.
`MarkDelivered` is guarded by the completed state, as its only caller
(`server/mcp/findmnemo-mcp.ts:86`) does it. For a v3 dispatch `route` is the connection that ran.
The profiles in `Keyed` are OpenRouter's: their adapter awaits the secret store before it turns to the
network (`at = "key"`, `KeyRead`).

**DesktopLifecycle.** `operation` is the controller's promise in progress, `after` what its callers do
when it ends: Quit exits, Restart starts, activation backs up, boot reconciles, the window goes
on. `shown` is the update state the window was last told, `update` the coordinator's. `busy`
stands for requests that keep the server's close waiting. The unreachable phase `unsupported`
(nothing raises `UNSUPPORTED_PROTOCOL_VERSION` at a start) is not modelled; a reload of the window
is not either.

**Tickets.** `tickets` and `history` are the tables; the operations of `TicketLifecycleService` are
operators (`Create`, `Transition`) that its callers, each an action, use within one step. A `PATCH`
is two: it reads the row, awaits its body and writes (`PatchBegins`, `PatchEnds`). A time is a
reading of a clock that may stand still, because a ticket's version is the time of its last change.
`history` is in the order of insertion; the repository's reader sorts by time, which only its tests
use.

**FollowUps.** A message raises the position of the mailbox (`mails`); of a thread only its newest
message and its newest one in the inbox are kept. A check is a record with the place of its
await; `answers` are threads it has read and not handled yet, so that anything may happen in between,
and its workers handle them in any order. `ThreadHandled` is the synchronous rest of a worker's
loop: classification, removal of a synthetic exclusion, insertion or refresh. Gmail itself (its
list of changes, the order of its pages) is external. The version of a stored thread is left out:
a stale decision changes nothing, so decisions are on the row as it is. Left out as well: the
migration of the account id, drafts, archived threads, and a new ticket that is marked imported.
`seen` is a ghost: the newest inbox message a check has handled of each thread.

**ActivityIntegrations, ActivityIngress, HookSettings.** A request is a record with the await it is
at; between two awaits its effect on the row, the token reference, the secret store and the capture
switch is one action. `alone` tells whether another request overlapped it. The limiter counts in
parts of an event (`Cost`, `Refill`), under a clock that may be set back. A settings file is a
set of groups of entries, own and foreign; the installer's read, merge, copy and rename are steps,
and the agent writes in between. A listing is beside the requests: it reads a row (`ListIntegration`), asks the
store for its token (`StoreTells`) and answers from the row it read (`Listed`, `ListingEnds`);
`overlapped` tells whether the row or the token was written meanwhile. The event and its snapshot
are two transactions in the code: `Handle` is both, `HandleInterrupted` and `ManualReportInterrupted` are the cases in
which the process ends between them, and `CutOff` is what the next start makes of the snapshot. `credited` is a
ghost: the reports whose reporters were told that they count.

**Usage, Reconciliation.** A refresh goes through its recipes, any of which may fail, run out of
time or be cancelled; the commit replaces the days of its window. Amounts are tokens of a day and a
model; normalization is left out. A run reads one source at a time with the settings it began
with; what it found is classified against what is saved *now*. `origins` is what the sources
contain and changes at any time.

**Portability, Credentials, ProjectFolders.** A commit is one action per category that may throw.
Grants are numbered, so that a token of an older one can be told; the secret store may fail before or
after it wrote. A check of folders keeps the row it read and writes it back; `Start` runs the
migration of the older settings, as every start of the companion does.

**AgentProcesses, McpSession.** A process, its output and the waiter of its end are separate; a
signal, a limit, a deadline and the end race. A server reads one line, serves it to its end and
reads the next. The companion may be lost before it gets a request or before it answers it, and refuses
what its policy does not grant; its work goes on when the call is lost.

**Installation, Removal.** An opener runs one migration at a time (each is a transaction) and sets
the version it came to; two openers overlap because the port is looked at before the database is
opened and taken after. An uninstaller reads the plan's name, then the plan, judges it by the key and renames the
file, and each is an action, because each is awaited: two uninstallers, a newer plan and a running
companion come in between. What is renamed is the file that is there, what is gone by is the plan that was
read. Each step may fail. `"anew"` marks a credential or a directory that was written beside an
uninstaller; `LookForData` completes whether or not the directory is there again, as the code does.

**Sessions, BrowserSession.** Time is a counter with expiry after `CodeTtl` and `SessionTtl`; a token is
numbered and has the code or nonce it descends from. A page's calls (`flows`) keep the token they
began with.

**RoutingPolicy, RoutingConnections, GuidedRouting.** A revision is the policy it is the hash of. A
page keeps the copy it read or saved last; saves carry its version. In `RoutingConnections` a page edits the assignments
of its copy (`EditAssignments`) and saves them in another step; when no policy is stored, what it edits is an
empty one of version 0, while a save of the first version must carry none (`VersionRead`). In `GuidedRouting` a page makes
one call at a time beside the read it opened with; a call may be given up and served all the same; forms hold any content, so typing is no step.
Which editor a page shows depends on its repository: the guided and the advanced setup that `GuidedRouting` and
`RoutingPolicy` model are rendered only by one without the methods of the executable setup
(`ModelRoutingView.tsx:768`). The repository of the live companion has them
(`companion-repository.ts:140`), so a page connected to it shows `ExecutableRoutingSetup` alone, which is
`RoutingConnections`.
`checked` is a ghost: what a check found ready.

**Workspace, LocalWork, ObservedWork, SampleWork, Attention.** A request carries the whole ticket
it was built on and is answered late or not at all. Answers set the tickets (`shown`); `Render` makes them the ones
of the screen (`rendered`) and asks for the list again when their number changed since the last
render. React may render two answers at once: `joined` tells that this happened since the last list.
A version is a time, which may repeat or go back (`Put`); `redated` are the tickets two changes of
which had one time. A write of the browser's storage may fail, and
the next of several is then not made. An event names the objects it is about; an export is closed
when each of them is in it. `Attention` computes the queue as an operator of the records; the works that lead to one another as
blockers are the least set that is closed under it.

## 3. Runs

| Run | Instance | Shows |
|---|---|---|
| `activity_sequence` | two assignments, seven event ids, rivals for one sequence number, a retransmission under another number, missing evidence, a review token; queue limits 2 | `StoreAgrees` (uniqueness, no gap left, last event kept, queue bounds, outcome and state agree, nothing after a terminal event), `StepsKeepOrder` (in sequence, final, held until applied), `DecisionBeforeClosing`, `ImplementsLedger` |
| `activity_tickets` | two assignments that may meet on a shared ticket, five overrides, an edit and the deletion of tickets, reconciliation | `TicketsAreTruthful` (`RowsKeepChoices`: a ticket exists and what a person chose stays in the row; `TicketsStayTrue`: what a followed ticket truly says, every step but a person's edit of it leaves true, and the next event that is heard makes all of it true), `StepsRespectPeople` (versions tell rows apart, paused tickets rest) |
| `activity_review_stuck` | review tokens on first and later events | finding 1 |
| `delivery` | one process, four events, spool of two, restarts, late and refused requests | `DeliveryAgrees` (stored once, in order, delivered means applied), `TerminalsSpared` |
| `delivery_returns` | a manual transport and a hook, failing store, budgets | every report returns |
| `delivery_lost` | three events, budgets may end | finding 2 |
| `dispatch` | two receipts, two keys, two profiles, one of them keyed, both policy versions, crash at every write | `ReceiptsAgree`, `OutcomesStand`, `DispatchSettles` |
| `desktop` | two versions, two checks in flight | `RecordsAreTruthful` (status, recovery record), `InstallsWhatWasVerified`, `QuitEnds` |
| `followups` | three threads, two checks, pages of one, two pages, two tickets | no mail between two checks, history explains the row, links stand |
| `followups_confirmed` | one thread, one check | finding 3 |
| `services` | twelve services of the companion, one per behaviour (the variable `scene`) | see below |
| `browser` | eight parts of the browser, one per behaviour | see below |

A property of a run that joins several parts is a conjunction of named ones, each beside its model;
the grouping is by the question it answers.

| `services` | joins |
|---|---|
| `ReadingsAreHonest` | `RateBounded`, `SnapshotsAnswered`, `CoverageIsHonest`, `UsageHistoryStands` |
| `ChoicesStand` | `DisconnectIsFinal`, `PendingAttemptIsOpen`, `FolderChoicesStand`, `SchemaIsWhole`, `AdoptedIsMigrated` |
| `RunsAreTruthful` | `ChangesReachTickets`, `CompleteIsEarned`, `EndIsNotMissed`, `ProcessesEnd`, `RepliesInOrder`, `DeliveredWasObtained`, `StopsOnlyOthers` |
| `CommitsAreHonest` | `CommitWasReported`, `ImportKeepsAndCounts`, `UnfitIsLeft`, `RemovalWasChosen`, `PlanIsUsedOnce` |
| `UndisturbedRequestsWork`, `ForeignHooksKept`, `VerdictsStand` | one each: integrations, hooks, reconciliation |

| `browser` | joins |
|---|---|
| `SessionsAreEarned` | `OneSessionPerOrigin`, `GuessesBounded` |
| `ShownIsBacked` | `ConnectedPageIsServed`, `EnabledIsBacked`, `EnabledHasKey`, `ReadyHasKey`, `ReadyWasChecked`, `StatusIsRecorded` |
| `PoliciesResolve` | `OrdersResolve`, `MigrationIsInert`, `SetupIsOrdered` |
| `PoliciesStay` | `RoutesKept`, `SetupStays` |
| `PagesAreClean` | `RestingPageIsClean`, `VersionNamesPolicy`, `SampleIsFictional`, `OpenWorkIsQueued`, `WaitingHasCause`, `QueueHasAnOrder` |
| `WorkIsPortable` | `EventsAreOnce`, `ExportIsClosed`, `OwnWorkIsDownloaded` |
| `DecisionsAreCurrent`, `NotesStay` | one each: the policy editor, the tickets of a page |

The parts within one of these two runs do not share state in the code, so a behaviour exercises one of
them while the others rest in an initial state; nothing is lost, and one run answers for all. A
constraint `...Bounded` for each, in the `MC` module, keeps its branches apart where they do not
meet; its comment says which.

**Bounds, and why they are enough.** Sequence numbers up to 4 are needed for an event held behind
a gap of one and of two and for a drain that meets a terminal event in the middle; a second
assignment is needed for the total limit and for a shared ticket; a third would only repeat the
second, since assignments meet only in the total limit and on a ticket. Queue limits of 1 and 2
make the full queue happen (32 and 512 in the code). `MaxVersion` stops human overrides, not
events; 2 in `activity_tickets` lets one override come before, between or after the events. `RetainedEvents` = 1 makes pruning happen (10 000 in the code). Four events and a spool of
two make the spool overflow with terminal and other entries mixed (512 in the code). Three threads on pages of one exceed two pages; two checks are
enough to overlap. `followups` looks at three scenes (`Scenes` in `MCFollowUps`): checks that overlap
over mail nobody has decided on; decisions and links, with one check over one thread; tickets
edited while no check runs. A behaviour passes from one scene to the next. Two receipts
give a retry and a rival for one key; two profiles give one fallback, first and last candidate.
Two versions give an installed and a newer release; two checks give the late check that overwrites
a newer state. `CHECK_DEADLOCK FALSE` stands where a system may come to rest: all events made, both
receipts settled. The desktop model never rests and is checked for deadlock; so is the store.

In `services` and `browser` the smallest instance that has the case is taken: two integrations and two
requests, so that one overtakes the other at every await, and a listing that one request at a time writes under; three reports for a bucket of two; two
sources and two runs; two agents' settings; two grants and two attempts; two folders, one of them
older; two conversations with two lines; two openers and an adoption; two uninstallers and two plans, so that one
is replaced while it is read (plans expire beside one uninstaller only); two pages and three versions
for the routing setups, which is what a check overtaken by a save needs; four codes, nonces and tokens
together; two tickets with one note, two requests at once and three times, the first change having the middle one, so
that a later one is dated before or after it; unsaved assignments of one page at a time; three open works, which is a chain and a circle of blockers.

**Fairness.** Only where the code has a timer or a bounded resource: the timers of `submit` and
`report` (`TimersRun`), the secret store for a manual transport (`StoreAnswers`; it has no timeout, so
this is an assumption, and the hook is checked without it); the timer of a dispatch, and
adapters that end on the abort signal once they are at their destination, and the resolution of a
folder, one lookup or `mkdir` (`AdaptersHeed`). An OpenRouter adapter that still waits for its key
hears no signal, and no fairness is assumed of it: `DispatchSettles` says that a dispatch settles, the
companion stops, or the dispatch waits for its key for ever. Then the one-second forced
close of the server, the close itself and the exit of a process told to exit
(`ShutdownFairness`). A start has no timeout (on Windows it may wait on a PowerShell process), so
nothing is assumed of it, and `QuitEnds` speaks of quits that wait for no start.

**Mutants.** Each property has a mutant in `PROJECT.json`: an operator beside the original that
changes it the way a plausible error would (a dropped guard, one event drained too few, a
swapped order), under which TLC finds the property violated.

## 4. Findings

1. `activity_review_stuck`: only the first event binds its review to the assignment; a token on a
   later event is stored but the review, once resolved, leaves the assignment waiting and every
   later event with the token refused.
2. `delivery_lost`: `submit` may answer "queued" before the spool is written; two writes then replace
   each other and an event is lost without a gap.
3. `followups_confirmed`: a confirmed thread that a check stores again because of the user's own or an
   automatic message counts as a synthetic exclusion and is deleted, though
   `server/gmail/gmail-source.test.ts:82` says such a cleanup spares real confirmed work. The same befalls
   a dismissed thread that is confirmed later: its reasons say only that it was dismissed.

Met while modelling, and without a run of their own; the models have these behaviours, and the
properties are stated so as to say what the code does keep:

* *Store.* A person's `PATCH` of a ticket that follows an assignment (`routes.ts:1121`) is not told to the
  assignment: the ticket then says something else than the row until the next event that is heard or the next
  change of the policy.
* *Dispatch.* The timer and a cancellation do not end a dispatch whose OpenRouter adapter waits for the
  secret store (`openrouter-adapter.ts:23`; on Windows a PowerShell process without a timeout): its
  receipt stays running until the store answers or the companion restarts. Stopping the companion ends no running dispatch, though
  `docs/model-routing/setup-and-privacy.md:48` says it ends all local routing processes. The
  integration route drops the project folder a conversation names (`findmnemo-mcp.ts:85` sends it,
  `api/routes.ts:181` does not pass it on), so the work runs without it.
* *Desktop.* A stop asked for by an update's activation joins a start in progress, so the backup may be
  made under a running companion (`docs/windows-companion.md:35`).
* *Integrations.* A token issued while its integration is revoked enables it again, though
  `integration-auth-service.test.ts:69` promises that a revoked one stays so.
  A listing answers from a row that may be gone when it answers (`management-service.ts:121`). When the process
  ends between an event and its snapshot, the start fails the snapshot although the event is applied
  (`activity-ingress.ts:124`); that event, sent again, is a duplicate and completes it.
* *Credentials and connections.* A refresh in flight stores its token after a revocation
  (`token-manager.ts:42`), or writes a connection back as ready after it was disconnected
  (`connection-service.ts:46`); a second callback fails an OpenRouter authorization that is ready; a
  rotation answered after the page disconnected connects it again.
* *Usage.* The ids of attribution rows do not contain their window: an overlapping one may violate
  their primary key (`usage-repository.ts:104`); a refresh in flight undoes a cleared history.
* *Reconciliation.* A check saves the settings it began with over those a person changed meanwhile
  (`engine.ts:97`), and the older of two readings may be committed last.
* *Portability.* A ticket list that is not one throws after the policy was imported; the plan stays
  usable and there is no receipt. The browser's migration has one key for all commits, so tickets
  found later are answered with the first result (`legacy-migration.ts:28`).
* *Folders.* A removed folder of an older version comes back at the next start, with enrichment on and its
  older label (`companion.ts:167`); an id of an older folder that clashes makes the start fail.
* *Adoption.* Every open copies the database over `.pre-migration.bak`, whatever state it is in; of two
  openers, one may write back the older schema version, while its tables are complete.
* *Removal.* `stopCompanion` does nothing (`desktop/main.ts:365`), so a running companion may store a
  credential, or make the directory of the data, again; the uninstaller completes whatever it then finds of the data
  (`uninstall.ts:58`). A plan that is replaced while an uninstaller reads it is gone by
  although the newer one's file is renamed (`uninstall.ts:70`), and when that happens between two
  uninstallers both may go by the older one, though `docs/windows-companion.md:41` calls plans single-use.
* *Guided setup.* A migrated profile without a place in the order gets the fallback order -1, which the
  browser's own validation refuses: after such a migration no page can save or move a profile. A
  repeated migration answers with the first result, whatever was saved since, and a new profile is
  appended when the reloaded policy no longer has the one saved last.
* *Connections.* Assignments edited before a policy is stored are refused when they are saved: the page sends
  version 0 where the companion expects none (`ExecutableRoutingSetup.tsx:125,144`), until it is loaded again.
* *Browser.* A created ticket is shown twice until it is listed again, and when a deletion is rendered together
  with it, it stays so until something else makes the page list (`App.tsx:104`); of two changes of a ticket in
  one millisecond, or with the time of one event, a copy of the first passes for the latest, and its
  notes replace those of the second (`ticket-lifecycle-service.ts:39`); a ticket is created although
  its ledger entry fails; an imported event without an actor makes the export throw
  (`ontology.ts:557`); circular blockers leave all of their work waiting.

## 5. Proofs

Eight modules hold theorems, for every value of the constants their models allow (any sets of
assignments, events, receipts, threads, releases, tokens, processes, pages, routes; any limits). TLC
checked each formula first. Every invariant and every action property that a passing run checks is
proved, those of `delivery` under the hypothesis given below; the three liveness properties are not.

`BrowserProofs` and `ServicesProofs` are about the specifications the runs check: a step of `MCBrowser` or
`MCServices` is one of each component or leaves its variables alone (`ScenesStep`,
`OneServiceSteps`), so the inductive invariant of a component is one of all scenes, and no bound
of an `MC` module is assumed. What follows says of each component what its invariant must add.

### The store, dispatches, mail, the desktop

*Store.* `TypeOK` is inductive by itself but for the shape of the drained run (`DrainedShape`:
the events the loop takes are those of consecutive numbers from the next one up to a gap or a
terminal event). The other invariants are proved together as `Consistent`, because they need each
other: that the next event is not left waiting (`GapFree`) needs that no two stored events share a
number (`UniqueEvents`); that a terminal event is the last needs that its row agrees with it
(`TerminalAgrees`), and this that every stored event was well formed (`StoredWellFormed`, the
strengthening: evidence was checked before it was stored). Ingestion, override, and deletion are
each shown to keep it (`StepShapes` reduces every action to one of them). Action properties
and the refinement (`LedgerImplemented`: initial states map to initial states, each step to a
step of the ledger or a stutter) follow from the invariant and from what a step may do to a row
(`RowStep`, `RowChanges`). The limit of the queue is an induction of its own. Tickets and reviews have
one more (`Truthful`): tickets that rows refer to exist (`TicketsExist`), rows keep what a person chose
(`ChoicesKept`), reviews that rows are bound to are known, and a review that is closed has its decision. What a ticket
says is no invariant, since a person may write anything into it: `TicketsStayTrue` is about steps, and is
shown for each action in turn (the lemmas named `...StaysTrue`).

*Dispatch.* `Consistent` relates a receipt to its call. Only a receipt in flight of a running
companion has one, and the two fit (`Fits`): the candidates that are left are different profiles and
none of them is recorded as a fallback; the first left is the requested profile unless that one is
recorded already; a v3 receipt has no route yet, and a v1 call is at its only profile. Without this
nothing could be said of the route of a completed receipt (`Honest`). Each action is shown to
leave every other receipt alone and to move its own in one of a few ways (`GoesOn`), from
which the theorems follow.

*Follow-ups.* A message must not fall between two checks. `Watched` says why none does: newer messages
are of later days (`MailboxOrdered`), and of each check in flight what it keeps (`Fits`): a thread
that is due at the position the check will save was seen, is on its list, or is on a page still to be
read (`MissedNothing`); what it leaves out is older than its window. The links and the history of
tickets have invariants of their own, since a check makes tickets and deletes threads.

*Desktop.* `Lawful` relates what the controller says to what the process does (`HostFits`), the callers
of an operation to the window and the activation (`WindowFits`), and what is called ready or
is being activated to the artifact that was verified (`UpdateFits`).

*Delivery.* `Kept` adds to `StoredOnce` that no event is left waiting that is the next one
(`NextIsFree`) and that numbers are bounded (`NumbersBounded`). The second makes the loop that
releases held events end, so that what it leaves can be described (its first gap) without following it.

That what is called queued is kept, and in order (`DeliveryAgrees`, `TerminalsSpared`), is proved of one
process that is no hook and may end at any time, whose requests may be late, lost or refused, while its
budget lasts, the secret store answers and no entry grows older than seven days (`OneReporter`, the
hypothesis of both theorems and what the run `delivery` sets). Without it they are false: when budgets end events are lost (finding 2, run
`delivery_lost`), processes beside each other write over each other's spool, and an entry that expires is not delivered.
The invariant is `Orderly`. Events are numbered as they are made and only the job of the last may still work
(`Numbered`); the spool lists events in that order, each once (`SpoolInOrder`); what a working job has
read of the spool is still so, and what it sends is its own event or the oldest queued one
(`JobsInHand`); nothing that was sent or stored was made after an event that is still queued (`Behind`); events
that left the spool unanswered are counted as gaps (`LossCounted`). While nothing was dropped, what is stored is
applied, in the order it was made (`InOrder`), no waiting event has a number above the one that the store and
the events before it leave it (`NumbersFollow`), and a late request is one the store has or refuses, or the next
(`RequestsFollow`). None of them is kept without the others: resequencing an event by the answer of the store is
right only because the events before it are settled.

### The browser

*Sessions.* `OneSessionPerOrigin` needs that a session's code or nonce was used (`OriginsUsed`), for then
the next exchange must have another one. `GuessesBounded` needs that a cooldown is worth one
guess: once the first `MaxFailures` guesses are spent, each further one needs the clock to pass
the end of the last cooldown (`GuessesEarned`), an invariant about products of constants. A connected
page is served (`Served`) because only its own calls, one at a time, replace its token.

*Connections.* `ConnectionsInv`: what is ready has its key, or the removal of the key is under way
(`KeyBacksReady`), for which each call must be of a shape that fits its step (`CallsAreShaped`); the copy
of a policy that a page will save back is no newer than the stored one and, if as new, of the same
routes, or is the empty one of version 0, which cannot be saved (`CopiesAreOld`), which is what makes a compare-and-set of versions one of contents.

*Guided setup.* `GuidedInv`: every setup a page, a call or the store holds is ordered and no newer than it
can be (`Held`), and a call carries what fits its kind and step (`CallHolds`), an answered check
what it found.

*Policy.* `RoutingInv`: the policy in force and the one that is staged are valid, orders resolve, and a
recommendation is the one of a valid policy and of the fingerprint it is kept with
(`RecommendationIsMade`), so that an equal fingerprint makes it the present one's. That a route is dropped from every order, its positions closed
up, is a fact about the places of a list (`KthOfPlaces`, `PickedSequence`): the model writes the
program's filters with `Picked`, whose k-th element is defined by a count, since nothing can be proved
about `SelectSeq` here. The route of an order that comes first is found with the least-number principle.

*Local work.* `LocalInv`: events have ids of their own and no number is ahead of its place
(`EventsInOrder`); what the program wrote itself can be exported (`EventsExportable`); a ticket has the
status it was made with or one that an event tells of (`StatusIsRecorded`). What is imported keeps all
three, whatever a file holds.

*Workspace.* `WorkspaceInv`: a copy of a ticket, set, rendered or in a request, has a time the ticket has had, and
when that is the stored one's and no time was used twice, every note that is stored (`Copied`), so that nothing is
overwritten by who still has the current version; unless a render had two answers, a ticket is on the page
twice only while it is not rendered, the list is not called current or is being read again (`TwiceIsSeen`).

*Queue.* `AttentionInv` is the types and that done works have the day they were done. That what waits
has a cause (`WaitingHasCause`) is shown by a least counterexample: the works that led to a waiting
one without a cause would be a smaller closed set than the least. `QueueHasAnOrder` needs that the names
of works, letters and sources are different.

### Services

*Database.* `Whole` says of each process that works on the database that the database was fit when it
read the version and still is, and that the tables have seen every migration up to the one the process
counts (`WorkedOn`), although another may have written a lower version meanwhile; and of an adoption
that it goes on only with a fit database (`AdoptionFits`).

*Limiter.* `Admitted` counts what a bucket would hold without its brim (`Earned`): what was let through
and this together stay within a full bucket and what the clock's forward movement earned
(`CreditCovered`), which a clock set back can only lower. `SnapshotsAnswered` is inductive beside it: no step takes a completed
snapshot back, not even the recovery after a process that ended between an event and its snapshot.

*Integrations.* `IntegrationsInv` says of each request in progress what it awaits and, while no other overlapped it,
what it may count on (`RequestFits`): the row is configured while its token is written, the token is
stored when the store said so, a rollback has switched off every row and left no token and no reference
but of those still to do. `UndisturbedRequestsWork` follows, however the requests before it left the rows;
`CoverageIsHonest` rests on what the invariant says of the listing: unless it was overlapped, the row it saw is the present one, and
the token it was told of is stored (`CoverageFollows`).

*Hooks.* `HooksFit`: what an operation writes or copies goes by a file that was read. That merging and removing leave foreign
hooks alone is a fact about groups of hooks (`ReplacementKeeps`).

*Usage.* `UsageInv`: at most the latest refresh runs, the row of one that runs is active, and what it was told
is of its window (`RunsKnown`). What deduplication accepts, a fold over the list, is proved to be the
records that no other of their day and model contradicts (`DeduplicatedSifts`), so that the order in
which the collector printed them does not matter.

*Mail's credentials.* `CredentialsInv`: while a request that could still store a token is under way
(`Incoming`) every disconnection is counted as overlapped, and after one that was not, nothing is stored
and nothing is on its way (`cutOff`).

*Folders.* `FoldersInv`: the rows say what a person wanted last, and a folder that is gone although a check
still reads it was removed after the check read it (`FoldersFollow`); places are registered once
(`PlacesAreOnce`), so that writing a row back touches no other.

*Processes.* `ProcessesInv`: the end of an agent is told once a prompt may have been sent, to a
promise that was made before (`EndIsHeard`), and a command that settled has no child.

*Reconciliation.* `ReconciliationInv`: of a run that goes on every source it wants is left or has its
result, and a source that was switched off is of no class (`RunIsSound`), so that the last source's
results decide whether it is complete (`RunIsEarned`). `ChangesReachTickets` is inductive with the
types of the rows (`RowsSound`). That verdicts stand is a fact about the same steps (`VerdictsKept`).

*Conversations.* `McpInv`: a line is sent once, to one server (`SentOnce`); work was begun for a line that
was read (`WorksBegun`); a server that runs has answered, in order, every line it read but notifications and the one it
serves, which is the last it read (`Served`, `Follows`); and what it told of work is so (`Told`), which
a later step of any server can only leave so, because work only grows (`WorksGrow`).

*Removal.* `RemovalFits`: the plan that is stored is the last prepared and was neither consumed nor gone by
(`StoredFits`); and of each uninstaller's record (`FitsIn`), that what it read of the last plan is what is
stored while one is stored; that it deletes data only by a plan a
person confirmed for that; and that after it completed only what was written anew is left of what the choice names.

*Portability.* `PortInv`: what is linked to an older record exists, files hold what bundles can hold, plans are
no more than their limit and each once. That an import keeps what is there and counts what it
added is shown entry by entry (`Taken`): after each, what was there is as it was, what is new is
marked imported, and the count of the new ones is the receipt's.

*All twelve.* `ServicesInv` joins these; `ServicesTypeOK` follows from it, with the port (`PortIsServed`) and the
folders of a place (`FoldersAreTyped`), which their types alone do not give.

### Folds

A fold over a list (`Deduplicated`, `ImportTickets`, `LivePlans`) is a recursive
function whose domain is finite, or numbers up to a length. The provers have no induction, but a set of numbers
that is not empty has a least one (`Counting`): were the fold not what a lemma says after some entry,
there would be a first such entry, and it is what the step before it makes of that. `FoldsExist`
gives the function and `LastOf` the place it takes next. A filter written with `SelectSeq` is out of reach (the provers cannot expand it),
so `Portability` folds (`LivePlans`) where the code filters.

### Assumptions

Those the modules name; TLC evaluates each. `AgentActivity`: the constants have their types, the default
ticket and the integration of an assignment are functions of it (`ConstantTypes`), `None` is not a value
of the program (`NoneIsNoValue`), review tokens are not projects (`TokensAreNotProjects`) and a person's
text is not the id of an event (`HumanTextIsNoEvent`). `Dispatch`: finitely many profiles, and `None` is
neither a receipt, a profile nor a row (`DispatchConstants`, `NoneIsNoRow`). `FollowUps` and `Tickets`:
finitely many threads, `None` is no ticket (`FollowUpConstants`, `NoneIsNoTicket`). `DesktopLifecycle`:
`None` is no command and no activation (`LifecycleConstants`, `NoneIsNoActivation`). `Sessions` and
`BrowserSession`: at least one code, lengths of time are numbers, the page is a browser
(`SessionConstants`, `BrowserConstants`). `RoutingConnections`, `GuidedRouting`: one engine is OpenRouter, the
two execution profiles a person places are different, forms hold configurations (`ConnectionConstants`,
`GuidedConstants`); no version is `None`. `RoutingPolicy`: the built-in capabilities are capabilities, and the policies that are stored or
imported have the shape their parser lets through (`RoutingConstants`). `LocalWork`: runs, receipts and events
of other programs have ids that are none of its own numbers, and events the fields the importer demands
(`LocalConstants`). `Workspace`: at least one request
may be in flight, tickets are finitely many and `None` is none of them or of the notes (`WorkspaceConstants`). `Attention`: works, letters and sources are different and named in
one order, sources before works as their prefixes are, and the first tickets are dated (`AttentionConstants`).
`Installation` and `ActivityIngress`: a schema has a version above 0, the adopter is no companion, the
constants of the limiter are numbers (`LatestIsVersion`, `NoneIsNoDatabase`, `IngressConstants`).
`Usage`: what the collector prints are lists of daily records (`GraphsAreDaily`). `Portability`: tickets are finitely
many, the older ones are among them, bundles that people bring have the shape of those the program writes,
and at least one plan is kept (`PortabilityConstants`). `HookSettings`: our hook is none of the
others' and `None` no settings (`HookConstants`).
`Reconciliation`: what is asked for is of known sources or the one unknown (`ReconciliationConstants`). All
others say that `None` is no value of the model and that bounds are numbers (`SampleConstants`, `IntegrationConstants`,
`NoneIsNeither`, `NoneIsNoEnd`, `CredentialsConstants`, `FolderConstants`, `ProcessesConstants`, `ResultConstants`, `McpConstants`).

### Only model-checked

* Liveness (`ReportReturns`, `DispatchSettles`, `QuitEnds`): fairness and ENABLED are out of this prover's
  reach.
* `DeliveryAgrees` and `TerminalsSpared` outside `OneReporter`: as said above they do not hold there.
* The three findings: that a property is violated is shown by a run.

No module declares a RECURSIVE operator, so that all of them can be proved about.

## 6. Not modelled

Formatting, most views, styling, logging, diagnostics and support bundles, packaging scripts, the
texts of SQL statements, the request parsing and status codes of the API, the layouts of imported and
exported files, the adapters that read projects, files and command output, the personal-ontology
package. They read, write or translate data without an order that could go wrong, or (Electron, the
operating system's stores, Gmail, Google, OpenRouter, the agents) are external: what they may answer is an
input of the models. Timestamps are kept only as order or expiry. `lib/storage.ts` is modelled although the
live application no longer imports it: the local workspace's checks and the migration still read what it
wrote.

## 7. Plan

What is left, in order of weight:

1. Proofs: what `DeliveryAgrees` becomes for several processes, each with events of its own assignment, on
   one spool whose writes do not overlap.
2. The companion as an abstract register of tickets with compare-and-set, which `Tickets` and
   `Workspace` implement together.
3. Two companions beside each other: `Dispatch` composed with the opening of the database.
4. The spool as the secret store writes it, torn writes included.
