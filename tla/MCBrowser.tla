------------------------------- MODULE MCBrowser -------------------------------
(***************************************************************************)
(* What a page of the browser drives: its session, the policy it edits,    *)
(* the routing connections of the companion, the guided setup, the tickets it shows, the     *)
(* work in its own storage, the sample workspace and the queue of          *)
(* attention.  A behaviour is one of one of them, the scene, while the     *)
(* others rest.                                                            *)
(***************************************************************************)
EXTENDS BrowserSession, RoutingPolicy, RoutingConnections, GuidedRouting, Workspace, ObservedWork,
  SampleWork, Attention, TLC

CONSTANTS
  r1, r2, c1, c2, c3,     \* routes and capabilities
  b1, b2, or, p1, p2, g1, g2, t1, t2, n1,
  d1, x1, e1, m1, u1, q1, k1, k2,             \* local work
  o1, o2, h1, i1, i2, i3,                     \* configurations and profiles of the guided setup
  s1, s2, s3,                                 \* sample tickets
  w1, w2, w3, w0, l1, y1                      \* tickets, a missing one, a letter, a source

VARIABLE scene

-----------------------------------------------------------------------------
(* Policies a browser has stored, and documents a person imports.          *)
Offers(id, capabilities) ==
  [id |-> id, enabled |-> TRUE, available |-> TRUE, capabilities |-> capabilities]
TwoRoutes(first, second, order, overrides) ==
  [updatedAt |-> 0, capabilities |-> {c1, c2}, routes |-> <<Offers(r1, first), Offers(r2, second)>>,
   defaultRouteOrder |-> order, overrides |-> overrides]
Overriding(order) == <<[capability |-> c2, routeOrder |-> order]>>

BrowserStored == {EmptyPolicy} \cup
  {TwoRoutes({c1}, {c1, c2}, <<r1, r2>>, overrides) : overrides \in {<< >>, Overriding(<<r2>>)}}

BrowserDocuments ==
  {[flaws |-> {}, policy |-> TwoRoutes({c1}, {c1, c2}, <<r1, r2>>, Overriding(<<r2, r1>>))],
   [flaws |-> {}, policy |-> TwoRoutes({c1}, {c1, c2}, <<r1>>, << >>)],
   [flaws |-> {}, policy |-> [TwoRoutes({c1}, {c1, c2}, <<r1>>, << >>) EXCEPT !.routes[2].enabled = FALSE]],
   [flaws |-> {"invalid-json"}, policy |-> EmptyPolicy]}

\* Two receipts of one id, and events of other producers: one complete, one without an actor.
BrowserReceipts ==
  {[id |-> q1, case |-> w1, ticket |-> w1, progress |-> None],
   [id |-> q1, case |-> u1, ticket |-> None, progress |-> u1]}
BrowserForeign ==
  {[WorkEvent(k1, w1, "done", {<<"ticket", w1>>}, {e1}, "Henry") EXCEPT !.source = "other"],
   [WorkEvent(k2, d1, None, {<<"ticket", d1>>}, {}, None) EXCEPT !.sound = FALSE]}

\* A ticket behind two others, one of them with an agent, and what stands behind those.
Waiting(blockers) ==
  [status |-> "todo", blockers |-> blockers, receipt |-> "none", resolvedAt |-> None, changedAt |-> 0]
BrowserArrangements ==
  {[work |-> (w1 :> [Waiting({w2, w3}) EXCEPT !.receipt = receipt]) @@ (w2 :> Waiting({w3}))
               @@ (w3 :> [Waiting(behind) EXCEPT !.status = "blocked"]),
    assigned |-> (w1 :> None) @@ (w2 :> state) @@ (w3 :> None)] :
     behind \in {{}, {w0}, {w2}}, receipt \in {"none", "missing"}, state \in {None, "waiting"}}
BrowserNames == <<l1, y1, w1, w2, w3>>

\* A form for either model of Pi, and one for a tool that is used by hand.
BrowserForms ==
  {[config |-> o1, mode |-> "auto-exact"], [config |-> o2, mode |-> "off"], [config |-> h1, mode |-> "auto-exact"]}

-----------------------------------------------------------------------------
ScenesInit ==
  /\ scene \in {"session", "policy", "connections", "guided", "workspace", "local", "sample", "attention"}
  /\ BrowserInit
  /\ scene # "session" => page.nonce = None
  /\ RoutingInit
  /\ scene # "policy" => policy = EmptyPolicy
  /\ RoutingConnectionsInit
  /\ scene # "connections" => policyV3 = None /\ key = FALSE
  /\ GuidedInit
  /\ scene # "guided" => legacyRoutes = {Placed}
  /\ WorkspaceInit
  /\ LocalInit
  /\ scene # "local" => seeded /\ progress = {} /\ local.tickets[d1] = None
  /\ SampleInit
  /\ scene # "sample" => session = None
  /\ AttentionInit
  /\ letters[l1].state = "deferred" /\ checks[y1] = "checking"
  /\ scene # "attention" => assigned[w2] = None /\ work[w1].receipt = "none" /\ work[w3].blockers = {}

restVars == <<guidedVars, localVars, sampleVars, attentionVars>>
ScenesNext ==
  /\ UNCHANGED scene
  /\ \/ scene = "session" /\ BrowserNext /\ UNCHANGED <<routingVars, connectionVars, workspaceVars, restVars>>
     \/ scene = "policy" /\ RoutingNext /\ UNCHANGED <<browserVars, connectionVars, workspaceVars, restVars>>
     \/ scene = "connections" /\ RoutingConnectionsNext /\ UNCHANGED <<browserVars, routingVars, workspaceVars, restVars>>
     \/ scene = "workspace" /\ WorkspaceNext /\ UNCHANGED <<browserVars, routingVars, connectionVars, restVars>>
     \/ /\ UNCHANGED <<browserVars, routingVars, connectionVars, workspaceVars>>
        /\ \/ scene = "guided" /\ GuidedNext /\ UNCHANGED <<localVars, sampleVars, attentionVars>>
           \/ scene = "local" /\ LocalNext /\ UNCHANGED <<guidedVars, sampleVars, attentionVars>>
           \/ scene = "sample" /\ SampleNext /\ UNCHANGED <<guidedVars, localVars, attentionVars>>
           \/ scene = "attention" /\ AttentionNext /\ UNCHANGED <<guidedVars, localVars, sampleVars>>

scenesVars == <<scene, browserVars, routingVars, connectionVars, workspaceVars, restVars>>
ScenesSpec == ScenesInit /\ [][ScenesNext]_scenesVars

-----------------------------------------------------------------------------
(* Bounds.                                                                 *)
SessionBounded ==
  /\ code.id + bootstrap.id + Cardinality(Tokens) <= 4
  /\ Cardinality(flows) <= 2 /\ guesses <= 3

\* A person edits the policy once while a ticket is open, before deciding on what is recommended.
PolicyBounded ==
  /\ ticket => selectedOverride = None /\ (edits = 0 \/ (edits = 1 /\ staged = None))
  /\ ticket /\ draft # policy => RecommendationIsCurrent /\ decision = None
  /\ staged # None => edits <= 1

\* Pages edit the policy while no authorization runs; catalogs are not refreshed at the last of
\* either, nor while a page has assignments other than the stored; one page at a time has them,
\* before the last version.
Edited == (\E g \in Pages : copies[g] # None) \/ Version(policyV3) > 1
Unsaved == {g \in Pages : copies[g] # None /\ (policyV3 = None \/ copies[g].assigned # policyV3.assigned)}
ConnectionsBounded ==
  /\ Cardinality(Unsaved) <= 1 /\ (Unsaved # {} => refreshes = {} /\ Version(policyV3) < MaxVersion)
  /\ Cardinality(refreshes) <= 1 /\ Cardinality(calls \cup refreshes) <= 2
  /\ Edited => oauth.begun = 0 /\ (calls # {} => refreshes = {})
  /\ oauth.begun = MaxAttempts \/ Version(policyV3) = MaxVersion => refreshes = {}

\* Beside the reads that pages open with, which are served before the second version and arrive
\* before the last, one answer is on its way at a time, and one call is given up early; what the
\* browser held has a route without a place only where its migration comes first, and up to the
\* first version; a profile of the second model is one of the first version; and the last version
\* is only read.
GuidedBounded ==
  /\ Cardinality(guideCalls) <= 2
  /\ legacyRoutes # {Placed} => SetupVersion(setup) <= 1
  /\ \A c \in guideCalls : c.kind = "save" /\ c.step = "asked" /\ SetupVersion(c.sent) > 0 =>
       \A id \in ProfilesOf(c.sent) : c.sent.profiles[id].config = o2 => c.sent.profiles[id] = setup.profiles[id]
  /\ \A c \in guideCalls : c.page = None =>
       SetupVersion(setup) <= 1 /\ \A d \in guideCalls \ {c} : d.kind # "open" /\ d.page # None
  /\ Cardinality({c \in guideCalls : c.step = "answered" /\ c.kind # "open"}) <= 1
  /\ SetupVersion(setup) >= 2 => \A c \in guideCalls : c.kind = "open" => c.step = "answered"
  /\ SetupVersion(setup) = MaxSetups => \A c \in guideCalls :
       c.kind = "reload" \/ (c.step = "answered" /\ c.kind # "open")
  /\ setup # None /\ Unplaced \in legacyRoutes => migratedSetup # None

\* Changes of a ticket have times of their own, its first change the middle one, so that later
\* ones are before or after it.  The second ticket has no note and one change; at the last change
\* only lists are still to be answered; while an answer waits to be rendered, and after
\* answers that were rendered together, there is one request at a time.
Changed == Cardinality(dates[t1]) + Cardinality(dates[t2])
WorkspaceBounded ==
  /\ redated = {} /\ dates[t2] \subseteq {2} /\ (dates[t1] # {} => 2 \in dates[t1])
  /\ Cardinality(inFlight) + Changed <= 4 /\ Len(shown) <= 2
  /\ store[t2] # None => store[t2].notes = {}
  /\ \A r \in inFlight : r.ask.kind = "update" => r.ask.ticket.id = t1
  /\ Changed = 3 => \A r \in inFlight : r.ask.kind = "list"
  /\ toRender \/ joined => Cardinality(inFlight) <= 1

\* Agents and mail change while nothing is recorded.
LocalBounded ==
  /\ \/ local.activities \in {None, Demo.activities}
     \/ ledger = << >> /\ local.activities["Pi"] = local.activities["Codex"]
  /\ local.mails # {} => ledger = << >>

\* Two of the tickets, letters and sources are not what they were at first, one of them a ticket.
AttentionBounded ==
  LET others == Cardinality({l \in Letters : letters[l].state # "deferred" \/ letters[l].receivedAt # 0})
                  + Cardinality({f \in Feeds : checks[f] # "checking"})
  IN others <= 1
     /\ others + Cardinality({w \in Works : work[w].changedAt # 0 \/ work[w].status = "done"}) <= 2

Bounded ==
  CASE scene = "session" -> SessionBounded
    [] scene = "policy" -> PolicyBounded
    [] scene = "connections" -> ConnectionsBounded
    [] scene = "guided" -> GuidedBounded
    [] scene = "workspace" -> WorkspaceBounded
    [] scene = "local" -> LocalBounded
    [] scene = "sample" -> TRUE
    [] scene = "attention" -> AttentionBounded
Interchangeable == Permutations(Pages)

-----------------------------------------------------------------------------
(* Properties of several parts.                                            *)
ScenesTypeOK ==
  CASE scene = "session" -> BrowserTypeOK
    [] scene = "policy" -> RoutingTypeOK
    [] scene = "connections" -> RoutingConnectionsTypeOK
    [] scene = "guided" -> GuidedTypeOK
    [] scene = "workspace" -> WorkspaceTypeOK
    [] scene = "local" -> LocalTypeOK
    [] scene = "sample" -> SampleTypeOK
    [] scene = "attention" -> AttentionTypeOK

\* Codes, nonces and guesses buy no more sessions than they are worth.
SessionsAreEarned == scene = "session" => OneSessionPerOrigin /\ GuessesBounded

\* A connected page has its session, what is enabled has what it needs, and the status of
\* local work is that of its ledger.
ShownIsBacked ==
  /\ scene = "session" => ConnectedPageIsServed
  /\ scene = "connections" => EnabledIsBacked /\ EnabledHasKey /\ ReadyHasKey
  /\ scene = "guided" => ReadyWasChecked
  /\ scene = "local" => StatusIsRecorded

\* Every place of a policy names a route, and what was migrated does nothing by itself.
PoliciesResolve ==
  /\ scene = "policy" => OrdersResolve /\ MigrationIsInert
  /\ scene = "guided" => SetupIsOrdered

\* No page writes over a profile that another page saved, in either setup.
PoliciesStay == [][RoutesKept /\ SetupStays]_<<scene, connectionVars, guidedVars>>

\* A page at rest shows what is there once, as far as it calls it current; a sample shows
\* nothing else; and the queue shows all open work, with its cause, in an order.
PagesAreClean ==
  /\ scene = "workspace" => RestingPageIsClean
  /\ scene = "guided" => VersionNamesPolicy
  /\ scene = "sample" => SampleIsFictional
  /\ scene = "attention" => OpenWorkIsQueued /\ WaitingHasCause /\ QueueHasAnOrder

\* Work can be carried out of the browser whole, and brought in again once.
WorkIsPortable == scene = "local" => EventsAreOnce /\ ExportIsClosed /\ OwnWorkIsDownloaded
=============================================================================
