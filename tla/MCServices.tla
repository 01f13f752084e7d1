------------------------------- MODULE MCServices -------------------------------
(***************************************************************************)
(* Services of the companion that share no state, each on an instance of   *)
(* its own.  A behaviour is one of one service, the scene, while the       *)
(* others rest: the states are the sum of theirs, not the product.         *)
(***************************************************************************)
EXTENDS ActivityIntegrations, ActivityIngress, HookSettings, Usage, Reconciliation, Portability,
        Credentials, ProjectFolders, AgentProcesses, McpSession, Installation, Removal, TLC

CONSTANTS
  a1, c1, c2, i1, i2, e1, e2, e3, m1,
  v1, v2, h1, u1, o1, o2,
  s1,  \* a surface, and a snapshot
  tk, ml, un, r1, r2, f1, f2,
  p1, p2, k1, k2,
  g1, g2, l1, d1,
  q1, q2, j1, j2,
  x1, x2, y1, y2, y3, w1,
  z1, z2,
  n1, n2

VARIABLE scene

-----------------------------------------------------------------------------
(* Events and what the collector of usage prints.                          *)
ServicesBody ==
  e1 :> [source |-> i1, snapshot |-> s1, mode |-> "explicit-report"] @@
  e2 :> [source |-> i2, snapshot |-> s1, mode |-> "explicit-report"] @@
  e3 :> [source |-> i1, snapshot |-> None, mode |-> "current-session"]

Daily(day, tokensUsed) == [date |-> day, model |-> m1, tokens |-> tokensUsed]
ServicesGraphs ==
  {<< >>, <<Daily(1, 1), Daily(1, 2), Daily(1, 1)>>,
   <<Daily(1, 2), Daily(1, 2), Daily(2, 1)>>}
ServicesProfiles == [m \in Models |-> Profiles]

ServicesWishes == {{}, {ml}, {ml, un}}

\* A bundle names a ticket twice, holds what is none; one has no list, one may not be read.
ServicesBundles ==
  LET both == {"tickets-work", "routing-policy"} IN
  {Bundle(both, <<Ported(p1, 1, "browser-ui", TRUE), Ported(p1, 1, "browser-ui", TRUE), None,
                  Ported(p2, 1, "imported", FALSE)>>),
   [Bundle(both, << >>) EXCEPT !.isList = FALSE],
   [Bundle({"model-usage"}, << >>) EXCEPT !.sound = FALSE]}
Migrating == \E l \in LegacyIds : legacy[l] # None

\* The earlier registry knows the one place by a link that leads to it.
ServicesLegacy == j2 :> q2

-----------------------------------------------------------------------------
ServicesInit ==
  /\ scene \in {"integrations", "ingress", "hooks", "usage", "reconciliation", "portability", "credentials", "folders", "processes",
                "conversations", "installation", "removal"}
  /\ IntegrationsInit
  /\ IngressInit
  /\ HookSettingsInit
  /\ scene # "hooks" => settings = None
  /\ UsageInit
  /\ ReconciliationInit
  /\ scene # "reconciliation" => origins = [s \in WorkSources |-> None]
  /\ PortabilityInit
  /\ kept[p2] = None /\ (Migrating => ~routed)
  /\ scene # "portability" => kept[p1] = None /\ ~routed /\ ~Migrating
  /\ CredentialsInit
  /\ scene # "credentials" => Available
  /\ FoldersInit
  /\ disk[q2] = q1 /\ disk[q1] \in {None, "sdd"}
  /\ scene # "folders" => disk[q1] = None
  /\ ProcessesInit
  /\ scene # "processes" => pi.effort /\ signal = "quiet"
  /\ McpInit
  /\ SchemaInit
  /\ scene # "installation" => database = None /\ port = None
  /\ RemovalInit
  /\ scene # "removal" => credential = "none"

ServicesNext ==
  /\ UNCHANGED scene
  /\ \/ scene = "integrations" /\ IntegrationsNext
        /\ UNCHANGED <<ingressVars, hookVars, usageVars, reconciliationVars, portabilityVars, credentialVars,
                       folderVars, processVars, mcpVars, schemaVars, removalVars>>
     \/ scene = "ingress" /\ IngressNext
        /\ UNCHANGED <<integrationVars, hookVars, usageVars, reconciliationVars, portabilityVars, credentialVars,
                       folderVars, processVars, mcpVars, schemaVars, removalVars>>
     \/ scene = "hooks" /\ HookSettingsNext
        /\ UNCHANGED <<integrationVars, ingressVars, usageVars, reconciliationVars, portabilityVars, credentialVars,
                       folderVars, processVars, mcpVars, schemaVars, removalVars>>
     \/ scene = "usage" /\ UsageNext
        /\ UNCHANGED <<integrationVars, ingressVars, hookVars, reconciliationVars, portabilityVars, credentialVars,
                       folderVars, processVars, mcpVars, schemaVars, removalVars>>
     \/ scene = "reconciliation" /\ ReconciliationNext
        /\ UNCHANGED <<integrationVars, ingressVars, hookVars, usageVars, portabilityVars, credentialVars,
                       folderVars, processVars, mcpVars, schemaVars, removalVars>>
     \/ scene = "portability" /\ PortabilityNext
        /\ UNCHANGED <<integrationVars, ingressVars, hookVars, usageVars, reconciliationVars, credentialVars,
                       folderVars, processVars, mcpVars, schemaVars, removalVars>>
     \/ scene = "credentials" /\ CredentialsNext
        /\ UNCHANGED <<integrationVars, ingressVars, hookVars, usageVars, reconciliationVars, portabilityVars,
                       folderVars, processVars, mcpVars, schemaVars, removalVars>>
     \/ scene = "folders" /\ FoldersNext
        /\ UNCHANGED <<integrationVars, ingressVars, hookVars, usageVars, reconciliationVars, portabilityVars,
                       credentialVars, processVars, mcpVars, schemaVars, removalVars>>
     \/ scene = "processes" /\ ProcessesNext
        /\ UNCHANGED <<integrationVars, ingressVars, hookVars, usageVars, reconciliationVars, portabilityVars,
                       credentialVars, folderVars, mcpVars, schemaVars, removalVars>>
     \/ scene = "conversations" /\ McpNext
        /\ UNCHANGED <<integrationVars, ingressVars, hookVars, usageVars, reconciliationVars, portabilityVars,
                       credentialVars, folderVars, processVars, schemaVars, removalVars>>
     \/ scene = "installation" /\ SchemaNext
        /\ UNCHANGED <<integrationVars, ingressVars, hookVars, usageVars, reconciliationVars, portabilityVars,
                       credentialVars, folderVars, processVars, mcpVars, removalVars>>
     \/ scene = "removal" /\ RemovalNext
        /\ UNCHANGED <<integrationVars, ingressVars, hookVars, usageVars, reconciliationVars, portabilityVars,
                       credentialVars, folderVars, processVars, mcpVars, schemaVars>>

servicesVars == <<scene, integrationVars, ingressVars, hookVars, usageVars, reconciliationVars,
                  portabilityVars, credentialVars, folderVars, processVars, mcpVars, schemaVars, removalVars>>
ServicesSpec == ServicesInit /\ [][ServicesNext]_servicesVars

-----------------------------------------------------------------------------
(* Bounds.                                                                 *)

\* Which of two requests is the first does not matter.  Two meet once one was completed, or a
\* reconnecting meets a rollback that goes well for the automatic row; after a rollback an
\* integration is enabled or reconnected.  A listing meets one request at a time, and is of the only
\* integration that was worked on.
Rank == [enable |-> 1, reconnect |-> 2, test |-> 3, remove |-> 4, rollback |-> 5]
Rolling == {c \in Busy : requests[c].op = "rollback"}
IntegrationsBounded ==
  /\ listing # None => /\ Cardinality(Busy) <= 1
                       /\ \A i \in Integrations \ {listing.id} : rows[i] = IF i \in Automatic THEN SetUp ELSE Unset
  /\ Cardinality(Busy) = 2 => Rank[requests[c1].op] <= Rank[requests[c2].op]
  /\ Rolling # {} => \A c \in Busy \ Rolling : requests[c].op = "reconnect"
  /\ Cardinality(Rolling) <= 1
  /\ Cardinality(Busy) = 2 => IF Rolling = {} THEN runtime = RolloutEnabled
       ELSE \A c \in Rolling : requests[c].todo # Automatic
              /\ (requests[c].id \in Automatic => requests[c].answer # "failed" /\ requests[c].setupRemoved)
  /\ Rolling = {} /\ (\E i \in Automatic : rows[i] # SetUp) =>
       Cardinality(Busy) <= 1 /\ \A c \in Busy : requests[c].op \in {"enable", "reconnect"}

\* The clock moves for the limiter, snapshots are asked for at rest, and one source alone is
\* refused by the limiter among its events and switched off, while captures are let through.
IngressBounded ==
  \/ /\ \A e \in Reports : events[e] = "unknown"
     /\ \A s \in Snapshots : snapshots[s] = None
     /\ capture /\ pending \subseteq {e3} /\ reporting = {i1}
  \/ clock = 0 /\ forward = 0 /\ taken[i2] <= 1 /\ i2 \in reporting /\ (~capture => i1 \in reporting)

\* Mappings are tried on the first refresh; the second follows one that the history has, or that is
\* cleared from it meanwhile, and is cancelled or has gaps only at its last command.
UsageBounded ==
  /\ (\E m \in Models : mappings[m] # None) => Running = {} /\ Len(refreshRuns) <= 1 /\ today = 1
  /\ Len(refreshRuns) = 2 => runRows # << >> /\ (1 \notin DOMAIN runRows => Running # {})
  /\ 2 \in Running => LET run == refreshRuns[2] IN
       run.aborted # "timeout" /\ (run.failures \/ run.aborted # None => run.awaits = "workspace")

\* Mail has one thread that changes and settings a person tries; the second run is of mail alone,
\* after the first has done with the own tickets, and of the thread as it was changed to.
Plain(f) == [fingerprint |-> f, flaw |-> "sound"]
Reviewing(enabled, rule) == [enabled |-> enabled, policy |-> rule]
ReconciliationBounded ==
  /\ origins[tk] = Plain(f1) /\ descriptors[tk] = Defaults(tk)
  /\ origins[ml] \in {Plain(f1), Plain(f2)} \cup {[fingerprint |-> f2, flaw |-> k] : k \in Flaws}
  /\ descriptors[ml] \in {Reviewing(TRUE, rule) : rule \in Policies} \cup {Reviewing(FALSE, "review")}
  /\ runs[r1] # None => runs[r1].wanted # {ml}
  /\ linked[ml] # None => descriptors[ml].enabled
  /\ runs[r2] # None =>
       /\ runs[r1] # None /\ runs[r1].wanted = {tk, ml} /\ tk \notin runs[r1].left
       /\ runs[r2].wanted = {ml} /\ linked[ml] = None
       /\ descriptors[ml].enabled /\ descriptors[ml].policy # "exclude"
       /\ origins[ml] = Plain(f2)

\* Two plans of a few bundles; a migration goes on while nothing is imported.
PortabilityBounded ==
  /\ IF Migrating THEN plans = << >> /\ files = OtherBundles /\ receipts = << >> ELSE offered = None
  /\ Cardinality(files) <= Cardinality(OtherBundles) + 1
  /\ files # OtherBundles => Len(plans) <= 1 /\ receipts = << >>
  /\ receipts # << >> => Len(plans) <= 1
  /\ Cardinality({id \in PortIds : kept[id] # None /\ kept[id].text = 2}) <= 1
  /\ Cardinality({i \in 1..Len(plans) : plans[i].expired \/ ~plans[i].bundle.isList}) <= 1

\* Connections of their own are of no interest beside the one the registry leads to.
FoldersBounded ==
  /\ disk[q1] \in {None, "sdd"}
  /\ folders[j2] # None => folders[j2].enriched
  /\ folders[j1] # None /\ folders[j1].state = "paused" => folders[j1].enriched
  /\ previews # << >> =>
       /\ previews[1].expired => check = None /\ folders[j2] = None
       /\ check # None => folders[j2] = None

\* Reports are made before anything else, by a server of any launch; the second conversation
\* begins or stops one piece of work after the first was sent a line.  Two works are enough, and only
\* one whose key the agent gave is asked for when its output is forgotten.
Usual(s) == servers[s].state \in {"starting", "running"} /\ (servers[s].state = "running" => servers[s].integration = "manual" /\ servers[s].reports)
ConversationsBounded ==
  /\ Cardinality({k \in Keys : works[k] # None}) <= 2
  /\ \A k \in McpLines : works[k] # None /\ works[k].state = "completed" => works[k].kept
  /\ sent[x1] \in {<< >>, <<y1>>, <<y1, y2>>} /\ sent[x2] \in {<< >>, <<y3>>}
  /\ servers[x2].state # "starting" => Usual(x2) /\ Usual(x1) /\ sent[x1] # << >> /\ asked[y1].kind \in {"dispatch", "report"}
  /\ ~Usual(x1) => \A l \in McpLines : asked[l] # None => asked[l].kind \in {"report", "nothing"}
  /\ asked[y3] # None => asked[y3].kind \in {"dispatch", "cancel"} /\ asked[y3].key # y2 /\ works[y3] = None
  /\ asked[y1] # None /\ asked[y1].kind # "dispatch" => asked[y2] = None \/ asked[y2].kind = "dispatch"

\* Two processes at a time work on the database, in one order.
InstallationBounded ==
  /\ \E o \in Openers : openers[o].step \in {"idle", "listening"}
  /\ openers[n2].step # "idle" => openers[n1].step # "idle"

\* Which of two uninstallers is started first does not matter, nor the window behind the last plan;
\* plans expire while one uninstaller is at work.
RemovalBounded ==
  /\ uninstallers[z2].step # "idle" => uninstallers[z1].step # "idle" /\ lapsed = 0
  /\ prepared = MaxRemovals /\ plan # None => window \in {[choice |-> plan.choice, confirmed |-> plan.confirmed], Unshown}

Bounded ==
  CASE scene = "integrations" -> IntegrationsBounded
    [] scene = "ingress" -> IngressBounded
    [] scene = "usage" -> UsageBounded
    [] scene = "reconciliation" -> ReconciliationBounded
    [] scene = "portability" -> PortabilityBounded
    [] scene = "folders" -> FoldersBounded
    [] scene = "conversations" -> ConversationsBounded
    [] scene = "installation" -> InstallationBounded
    [] scene = "removal" -> RemovalBounded
    [] OTHER -> TRUE

-----------------------------------------------------------------------------
(* Properties of several services.                                         *)
ServicesTypeOK ==
  CASE scene = "integrations" -> IntegrationsTypeOK
    [] scene = "ingress" -> IngressTypeOK
    [] scene = "hooks" -> HookSettingsTypeOK
    [] scene = "usage" -> UsageTypeOK
    [] scene = "reconciliation" -> ReconciliationTypeOK
    [] scene = "portability" -> PortabilityTypeOK
    [] scene = "credentials" -> CredentialsTypeOK
    [] scene = "folders" -> FoldersTypeOK
    [] scene = "processes" -> ProcessesTypeOK
    [] scene = "conversations" -> McpTypeOK
    [] scene = "installation" -> SchemaTypeOK
    [] scene = "removal" -> RemovalTypeOK

\* The limiter and the snapshots keep to what the reporters sent, coverage and usage are as
\* honest as what they are read from.
ReadingsAreHonest ==
  /\ scene = "ingress" => RateBounded /\ SnapshotsAnswered
  /\ scene = "integrations" => CoverageIsHonest
  /\ scene = "usage" => UsageHistoryStands

\* What a person disconnected, paused or removed stays so, and who adopts data has all of it.
ChoicesStand ==
  /\ scene = "credentials" => DisconnectIsFinal /\ PendingAttemptIsOpen
  /\ scene = "folders" => FolderChoicesStand
  /\ scene = "installation" => SchemaIsWhole /\ AdoptedIsMigrated

\* Tickets follow what the runs record, and a run is complete only when it earned it; an
\* execution ends as its process told, and leaves none running; a conversation is answered in
\* order and told of work what became of it.
RunsAreTruthful ==
  /\ scene = "reconciliation" => ChangesReachTickets /\ CompleteIsEarned
  /\ scene = "processes" => EndIsNotMissed /\ ProcessesEnd
  /\ scene = "conversations" => RepliesInOrder /\ DeliveredWasObtained /\ StopsOnlyOthers

\* What is committed is what was reported, what a receipt tells of an import is what it did, and
\* data goes by the plans a person prepared for it alone, each file of which is used up once.
CommitsAreHonest == [][/\ CommitWasReported /\ ImportKeepsAndCounts
                       /\ UnfitIsLeft /\ RemovalWasChosen /\ PlanIsUsedOnce]_servicesVars
=============================================================================
