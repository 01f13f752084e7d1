---------------------------- MODULE RoutingPolicy ----------------------------
(***************************************************************************)
(* The model routing policy of the browser: its validation, the route      *)
(* recommended for a ticket, the decision a person takes on it, the draft  *)
(* the person edits, its import and its migration to an operational policy *)
(* (model-routing.ts, model-routing-storage.ts, ModelRoutingView.tsx).     *)
(*                                                                         *)
(* Labels and timestamps are left out; a revision is the policy it is the  *)
(* hash of.                                                                *)
(***************************************************************************)
EXTENDS Absence, Integers, SequencesExt, Selections

CONSTANTS
  RouteIds, Capabilities,
  BuiltIn,    \* the capabilities every policy has
  Aliases,    \* capabilities whose label is equivalent to a built-in one
  Stored,     \* policies the browser may have stored earlier
  Documents,  \* documents a person may import
  MaxEdits, MaxSaves   \* bounds of the model

VARIABLES
  policy,          \* the policy in force, as stored
  draft, edits,    \* the draft, and how often it was edited
  selectedOverride,
  staged,          \* the import on show: a valid policy, or None
  ticket,          \* whether a ticket is selected
  required,        \* the capabilities ticked for it
  recommendation, recommendationFingerprint,
  decision

routingVars == <<policy, draft, edits, selectedOverride, staged, ticket, required,
                 recommendation, recommendationFingerprint, decision>>
draftVars == <<draft, edits, selectedOverride>>
sessionVars == <<ticket, required, recommendation, recommendationFingerprint, decision>>

-----------------------------------------------------------------------------
ModelRouteTarget == [id : RouteIds, enabled : BOOLEAN, available : BOOLEAN,
                     capabilities : SUBSET Capabilities]
CapabilityOverride == [capability : Capabilities, routeOrder : Seq(RouteIds)]
ModelRoutingPolicy == [updatedAt : Nat, capabilities : SUBSET Capabilities, routes : Seq(ModelRouteTarget),
                       defaultRouteOrder : Seq(RouteIds), overrides : Seq(CapabilityOverride)]

EmptyPolicy == [updatedAt |-> 0, capabilities |-> BuiltIn, routes |-> << >>,
                defaultRouteOrder |-> << >>, overrides |-> << >>]

Ids(routes) == {routes[i].id : i \in DOMAIN routes}
Route(p, id) == CHOOSE r \in ToSet(p.routes) : r.id = id

\* The codes validateModelRoutingPolicy() reports.
Issues(p) ==
  {code \in {"duplicate-route-id"} : Cardinality(Ids(p.routes)) < Len(p.routes)} \cup
  {code \in {"missing-built-in-capability"} : ~(BuiltIn \subseteq p.capabilities)} \cup
  {code \in {"equivalent-capability-collision"} : Aliases \cap p.capabilities # {}} \cup
  {code \in {"duplicate-order-entry"} : ~IsInjective(p.defaultRouteOrder)
     \/ \E o \in ToSet(p.overrides) : ~IsInjective(o.routeOrder)} \cup
  {code \in {"dangling-capability-reference"} :
     \/ \E r \in ToSet(p.routes) : ~(r.capabilities \subseteq p.capabilities)
     \/ \E o \in ToSet(p.overrides) : o.capability \notin p.capabilities} \cup
  {code \in {"dangling-route-reference"} : ~(ToSet(p.defaultRouteOrder) \subseteq Ids(p.routes))
     \/ \E o \in ToSet(p.overrides) : ~(ToSet(o.routeOrder) \subseteq Ids(p.routes))} \cup
  {code \in {"enabled-route-not-ordered"} :
     \E r \in ToSet(p.routes) : r.enabled /\ r.id \notin ToSet(p.defaultRouteOrder)} \cup
  {code \in {"duplicate-capability-override"} :
     \E i, j \in DOMAIN p.overrides : i < j /\ p.overrides[i].capability = p.overrides[j].capability}

PolicyIsValid(p) == Issues(p) = {}

\* What is stored and imported is at least of the form of a policy.
ASSUME RoutingConstants ==
  /\ BuiltIn \subseteq Capabilities /\ MaxEdits \in Nat
  /\ \A p \in Stored : p \in ModelRoutingPolicy
  /\ \A document \in Documents : document.policy \in ModelRoutingPolicy

\* What a document may be reported for besides: fields that are missing, unknown, of a wrong
\* form or look like credentials, records of a wrong kind, and another contract.
FieldCodes == {"prohibited-credential-field", "prohibited-credential-value", "unknown-property", "invalid-object",
  "invalid-required-string", "invalid-stable-id", "invalid-timestamp", "invalid-array"}
RecordCodes == {"invalid-capability-family", "invalid-capability-origin", "invalid-route-kind", "invalid-boolean",
  "invalid-availability-state"}
ContractCodes == {"unsupported-schema-version", "unsupported-policy-profile", "unsupported-catalog-version", "invalid-producer"}
ImportedDocument == [flaws : SUBSET (FieldCodes \cup RecordCodes \cup ContractCodes \cup {"invalid-json"}),
                     policy : ModelRoutingPolicy]
DocumentIssues(document) == document.flaws \cup Issues(document.policy)

FirstOccurrences(s) == Picked(s, {i \in DOMAIN s : \A j \in 1..(i - 1) : s[j] # s[i]})

\* The orders that apply: those made for one of the capabilities, and the one for all of them.
OrdersFor(p, capabilities) ==
  [n \in 1..(Len(p.overrides) + 1) |->
     IF n > Len(p.overrides) THEN p.defaultRouteOrder
     ELSE IF p.overrides[n].capability \in capabilities THEN p.overrides[n].routeOrder ELSE << >>]

\* buildEffectiveRouteOrder()
EffectiveRouteOrder(p, capabilities) == FirstOccurrences(FlattenSeq(OrdersFor(p, capabilities)))

Usable(r) == r.enabled /\ r.available

\* recommendModelRoute(): a result, for a valid policy or not.
Result(status, p, capabilities, exact, partial) ==
  [status |-> status, policyRevision |-> p, required |-> capabilities, exactMatches |-> exact, partialMatches |-> partial]

RecommendModelRoute(p, capabilities) ==
  LET order == EffectiveRouteOrder(p, capabilities)
      usable == {r.id : r \in {x \in ToSet(p.routes) : Usable(x)}}
      Supported(id) == Route(p, id).capabilities \cap capabilities
      exact == Picked(order, {i \in DOMAIN order : order[i] \in usable /\ Supported(order[i]) = capabilities})
      partial == {[route |-> id, missing |-> capabilities \ Supported(id)] :
                    id \in {x \in ToSet(order) \cap usable : Supported(x) \notin {{}, capabilities}}}
  IN IF ~PolicyIsValid(p) THEN Result("invalid-policy", p, capabilities, << >>, {})
     ELSE IF capabilities = {} THEN Result("needs-capabilities", p, capabilities, << >>, {})
     ELSE Result(IF exact = << >> THEN "no-match" ELSE "exact-match", p, capabilities, exact, partial)

-----------------------------------------------------------------------------
RoutingTypeOK ==
  /\ policy \in ModelRoutingPolicy /\ draft \in ModelRoutingPolicy
  /\ staged \in ModelRoutingPolicy \cup {None} /\ selectedOverride \in Capabilities \cup {None}
  /\ ticket \in BOOLEAN /\ required \subseteq Capabilities /\ edits \in 0..MaxEdits
  /\ recommendation # None =>
       recommendation.status \in {"invalid-policy", "needs-capabilities", "exact-match", "no-match"}
  /\ decision # None => decision.route \in RouteIds

\* loadModelRoutingPolicy(): what is stored was valid when it was saved.
RoutingInit ==
  /\ policy \in {p \in Stored : PolicyIsValid(p)} /\ draft = policy
  /\ edits = 0 /\ selectedOverride = None /\ staged = None
  /\ ticket = FALSE /\ required = {}
  /\ recommendation = None /\ recommendationFingerprint = None /\ decision = None

-----------------------------------------------------------------------------
(* The draft.                                                              *)
Edit(d) ==
  /\ edits < MaxEdits
  /\ draft' = d /\ edits' = edits + 1
  /\ UNCHANGED <<policy, selectedOverride, staged>> /\ UNCHANGED sessionVars

UpdateRoute(id, Update(_)) ==
  [draft EXCEPT !.routes = [i \in DOMAIN @ |-> IF @[i].id = id THEN Update(@[i]) ELSE @[i]]]

AddRoute(id) ==
  /\ id \notin Ids(draft.routes)
  /\ Edit([draft EXCEPT !.routes = Append(@, [id |-> id, enabled |-> TRUE, available |-> TRUE, capabilities |-> {}]),
                        !.defaultRouteOrder = Append(@, id)])

\* The routes but one, and an order without it.
RoutesWithout(routes, id) == Picked(routes, {i \in DOMAIN routes : routes[i].id # id})
OrderWithout(order, id) == Picked(order, {i \in DOMAIN order : order[i] # id})
OverrideWithout(o, id) == [o EXCEPT !.routeOrder = OrderWithout(@, id)]

\* Mutant: the orders made for a capability keep the route.
RemovedFromDefault(d, id) ==
  [d EXCEPT !.routes = RoutesWithout(@, id), !.defaultRouteOrder = OrderWithout(@, id)]

Removed(d, id) ==
  [d EXCEPT !.routes = RoutesWithout(@, id),
            !.defaultRouteOrder = OrderWithout(@, id),
            !.overrides = [i \in DOMAIN @ |-> OverrideWithout(@[i], id)]]

RemoveRoute(id) == id \in Ids(draft.routes) /\ Edit(Removed(draft, id))

ToggleEnabled(id) == Edit(UpdateRoute(id, LAMBDA r : [r EXCEPT !.enabled = ~@]))
ToggleAvailable(id) == Edit(UpdateRoute(id, LAMBDA r : [r EXCEPT !.available = ~@]))
ToggleRouteCapability(id, c) ==
  /\ c \in draft.capabilities
  /\ Edit(UpdateRoute(id, LAMBDA r : [r EXCEPT !.capabilities = (@ \ {c}) \cup ({c} \ @)]))

\* moveItem(), one place towards the front.
Moved(order, i) == [order EXCEPT ![i] = order[i - 1], ![i - 1] = order[i]]
MoveDefault(i) ==
  i \in 2..Len(draft.defaultRouteOrder)
  /\ Edit([draft EXCEPT !.defaultRouteOrder = Moved(@, i)])
MoveInOverride(n, i) ==
  n \in DOMAIN draft.overrides /\ i \in 2..Len(draft.overrides[n].routeOrder)
  /\ Edit([draft EXCEPT !.overrides[n].routeOrder = Moved(@, i)])

\* The label of a custom capability must neither be in use nor be equivalent to a built-in.
AddCustomCapability(c) ==
  /\ c \notin draft.capabilities \cup Aliases
  /\ Edit([draft EXCEPT !.capabilities = @ \cup {c}])

SelectOverride(c) ==
  /\ c \in draft.capabilities /\ ~\E o \in ToSet(draft.overrides) : o.capability = c
  /\ selectedOverride' = c
  /\ UNCHANGED <<policy, draft, edits, staged>> /\ UNCHANGED sessionVars

\* The selection is not looked at again: it may be of a draft that has been replaced.
AddCapabilityOverride ==
  /\ selectedOverride # None /\ edits < MaxEdits
  /\ draft' = [draft EXCEPT !.overrides = Append(@, [capability |-> selectedOverride,
                                                     routeOrder |-> draft.defaultRouteOrder])]
  /\ edits' = edits + 1 /\ selectedOverride' = None
  /\ UNCHANGED <<policy, staged>> /\ UNCHANGED sessionVars

RemoveCapabilityOverride(c) ==
  /\ \E o \in ToSet(draft.overrides) : o.capability = c
  /\ Edit([draft EXCEPT !.overrides = Picked(@, {i \in DOMAIN @ : @[i].capability # c})])

\* saveModelRoutingPolicy(): only a valid policy is stored, and then it is in force.
PutInForce(p) == PolicyIsValid(p) /\ policy' = p /\ draft' = p

\* saveDraft(): refused for an invalid draft; storing it may fail, too.
SaveDraft ==
  /\ policy.updatedAt < MaxSaves
  /\ PutInForce([draft EXCEPT !.updatedAt = policy.updatedAt + 1])
  /\ UNCHANGED <<edits, selectedOverride, staged>> /\ UNCHANGED sessionVars

StageImport(document) ==
  /\ staged' = IF DocumentIssues(document) = {} THEN document.policy ELSE None
  /\ UNCHANGED policy /\ UNCHANGED draftVars /\ UNCHANGED sessionVars

ApplyImport ==
  /\ staged # None
  /\ PutInForce(staged) /\ staged' = None
  /\ UNCHANGED <<edits, selectedOverride>> /\ UNCHANGED sessionVars

CancelImport ==
  /\ staged # None /\ staged' = None
  /\ UNCHANGED policy /\ UNCHANGED draftVars /\ UNCHANGED sessionVars

-----------------------------------------------------------------------------
(* The ticket and its recommendation.                                      *)

\* inferRequiredCapabilities(): the rules find any of the built-in capabilities in a text.
Inferences == SUBSET BuiltIn

\* Another ticket, with what is inferred from its text.
SelectTicket(inferred) ==
  /\ ticket' = TRUE /\ required' = inferred
  /\ recommendation' = None /\ recommendationFingerprint' = None /\ decision' = None
  /\ UNCHANGED <<policy, staged>> /\ UNCHANGED draftVars

ToggleRequiredCapability(c) ==
  /\ ticket /\ c \in policy.capabilities
  /\ required' = (required \ {c}) \cup ({c} \ required) /\ decision' = None
  /\ UNCHANGED <<policy, staged, ticket, recommendation, recommendationFingerprint>> /\ UNCHANGED draftVars

\* Mutant: only the policy is compared.
PolicyFingerprint(p, capabilities) == <<p>>

Fingerprint(p, capabilities) == <<p, capabilities>>

EvaluateRecommendation ==
  /\ ticket /\ required # {}
  /\ recommendation' = RecommendModelRoute(policy, required)
  /\ recommendationFingerprint' = Fingerprint(policy, required)
  /\ decision' = None
  /\ UNCHANGED <<policy, staged, ticket, required>> /\ UNCHANGED draftVars

Decide(type, route, missing) ==
  /\ decision' = [type |-> type, route |-> route, required |-> recommendation.required, missing |-> missing,
                  policyRevision |-> recommendation.policyRevision]
  /\ UNCHANGED <<policy, staged, ticket, required, recommendation, recommendationFingerprint>>
  /\ UNCHANGED draftVars

RecommendationIsCurrent ==
  /\ ticket /\ recommendation # None
  /\ recommendationFingerprint = Fingerprint(policy, required)
  /\ recommendation.policyRevision = policy

ConfirmRecommendedRoute ==
  /\ RecommendationIsCurrent /\ recommendation.status = "exact-match"
  /\ Decide("exact-confirmation", Head(recommendation.exactMatches), {})

OverridePartialRoute(id) ==
  /\ RecommendationIsCurrent /\ recommendation.status = "no-match"
  /\ \E match \in recommendation.partialMatches :
       match.route = id /\ Decide("partial-override", id, match.missing)

-----------------------------------------------------------------------------
(* What the page has controls for.                                         *)
TicketControls ==
  \/ \E c \in Capabilities : ToggleRequiredCapability(c)
  \/ EvaluateRecommendation \/ ConfirmRecommendedRoute
  \/ \E id \in RouteIds : OverridePartialRoute(id)

RouteControls == \E id \in Ids(draft.routes) :
  \/ RemoveRoute(id) \/ ToggleEnabled(id) \/ ToggleAvailable(id)
  \/ \E c \in Capabilities : ToggleRouteCapability(id, c)

OrderControls ==
  \/ \E c \in Capabilities : AddCustomCapability(c) \/ SelectOverride(c) \/ RemoveCapabilityOverride(c)
  \/ AddCapabilityOverride
  \/ \E i \in DOMAIN draft.defaultRouteOrder : MoveDefault(i)
  \/ \E n \in DOMAIN draft.overrides : \E i \in DOMAIN draft.overrides[n].routeOrder : MoveInOverride(n, i)

ImportControls == (\E document \in Documents : StageImport(document)) \/ ApplyImport \/ CancelImport

RoutingNext ==
  \/ \E inferred \in Inferences : SelectTicket(inferred)
  \/ \E id \in RouteIds : AddRoute(id)
  \/ SaveDraft \/ TicketControls \/ RouteControls \/ OrderControls \/ ImportControls

-----------------------------------------------------------------------------
(* The operational policy a policy is migrated to.                         *)

\* fallbackOrder
FallbackOrder(p, i) ==
  IF Contains(p.defaultRouteOrder, p.routes[i].id)
  THEN SelectInSeq(p.defaultRouteOrder, LAMBDA id : id = p.routes[i].id) - 1
  ELSE Len(p.defaultRouteOrder) + i - 1

\* migrateModelRoutingPolicyV1ToV2()
Migrated(p) ==
  [capabilities |-> p.capabilities,
   profiles |-> [i \in DOMAIN p.routes |->
     [id |-> p.routes[i].id, adapter |-> "manual", capabilities |-> p.routes[i].capabilities,
      enabled |-> p.routes[i].enabled, behavior |-> "recommend", fallbackOrder |-> FallbackOrder(p, i),
      readiness |-> "unchecked"]],
   defaultProfileOrder |-> p.defaultRouteOrder, overrides |-> p.overrides]

\* validateExecutionProfile(): a tool that is used by hand is never ready to be dispatched to.
ProfileIsValid(x) == x.readiness = "ready" => x.adapter # "manual"

\* validateOperationalRoutingPolicy(): what validateModelRoutingPolicy() asks of routes and
\* orders it asks of profiles, and that a profile's place is its place in the order.
OperationalPolicyIsValid(p2) ==
  /\ PolicyIsValid([updatedAt |-> 0, capabilities |-> p2.capabilities, defaultRouteOrder |-> p2.defaultProfileOrder,
                    overrides |-> p2.overrides, routes |-> p2.profiles])
  /\ \A i \in DOMAIN p2.profiles : Contains(p2.defaultProfileOrder, p2.profiles[i].id) =>
       p2.defaultProfileOrder[p2.profiles[i].fallbackOrder + 1] = p2.profiles[i].id
  /\ \A i \in DOMAIN p2.profiles : ProfileIsValid(p2.profiles[i])

\* preflightOperationalRoute(), without an override and for capabilities that are clear.
Preflight(p2, capabilities) ==
  LET order == EffectiveRouteOrder([defaultRouteOrder |-> p2.defaultProfileOrder, overrides |-> p2.overrides], capabilities)
      Profile(id) == CHOOSE x \in ToSet(p2.profiles) : x.id = id
      exact == Picked(order, {i \in DOMAIN order : capabilities \subseteq Profile(order[i]).capabilities})
      eligible == Picked(exact, {i \in DOMAIN exact : Profile(exact[i]).enabled /\ Profile(exact[i]).readiness = "ready"})
      partial == {id \in ToSet(order) : capabilities \cap Profile(id).capabilities \notin {{}, capabilities}}
      status == IF capabilities = {} THEN "decision-required"
                ELSE IF eligible # << >>
                     THEN IF Profile(Head(eligible)).behavior = "auto-exact" THEN "auto-dispatch-eligible" ELSE "recommend"
                     ELSE IF exact # << >> THEN "unavailable"
                     ELSE IF partial # {} THEN "decision-required" ELSE "unavailable"
  IN [status |-> status, exact |-> exact]

-----------------------------------------------------------------------------
(* Reference: the first place of a route among the orders that apply.      *)
Places(p, capabilities, id) ==
  LET orders == OrdersFor(p, capabilities)
  IN UNION {{n} \X {i \in DOMAIN orders[n] : orders[n][i] = id} : n \in DOMAIN orders}
Precedes(x, y) == x[1] < y[1] \/ (x[1] = y[1] /\ x[2] < y[2])
Preferred(p, capabilities, a, b) ==
  \E x \in Places(p, capabilities, a) : \A y \in Places(p, capabilities, b) : Precedes(x, y)
Eligible(p, capabilities) ==
  {id \in Ids(p.routes) : LET r == Route(p, id) IN
     Usable(r) /\ capabilities \subseteq r.capabilities /\ Places(p, capabilities, id) # {}}

\* A decision is about the policy in force and the capabilities ticked when it is taken,
\* whatever was edited, imported or ticked since the recommendation was shown: an exact
\* one names the eligible route its orders prefer, an override is only taken when no route
\* is eligible and names everything its route lacks.
DecisionIsCurrent == decision' \notin {decision, None} =>
  IF decision'.type = "exact-confirmation"
  THEN /\ decision'.route \in Eligible(policy, required)
       /\ \A other \in Eligible(policy, required) \ {decision'.route} :
            Preferred(policy, required, decision'.route, other)
  ELSE /\ Eligible(policy, required) = {}
       /\ Usable(Route(policy, decision'.route))
       /\ decision'.missing = required \ Route(policy, decision'.route).capabilities
DecisionsAreCurrent == [][DecisionIsCurrent]_routingVars

\* However the draft is edited, its orders name its routes, each once, and a policy in force is
\* always valid: one whose routes are not all ordered may be in the draft, but not saved.
OrdersResolve ==
  /\ Issues(draft) \cap {"duplicate-order-entry", "dangling-route-reference"} = {}
  /\ PolicyIsValid(policy)

\* A migrated policy is valid, dispatches and recommends nothing by itself, and names as
\* exact what the policy prefers, in the same order.
MigrationIsInert ==
  /\ OperationalPolicyIsValid(Migrated(policy))
  /\ \A capabilities \in (SUBSET policy.capabilities) \ {{}} :
       LET preflight == Preflight(Migrated(policy), capabilities) IN
       /\ preflight.status \notin {"auto-dispatch-eligible", "recommend"}
       /\ Eligible(policy, capabilities) \subseteq ToSet(preflight.exact)
       /\ \A i, j \in DOMAIN preflight.exact :
            i < j => Preferred(policy, capabilities, preflight.exact[i], preflight.exact[j])
=============================================================================
