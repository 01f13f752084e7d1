-------------------------- MODULE RoutingConnections --------------------------
(***************************************************************************)
(* The executable routing setup of the companion: connections to engines   *)
(* and their model catalogs (RoutingConnectionService and its repository), *)
(* the policy of version 3 that pages edit copies of, and the OpenRouter   *)
(* key (OpenRouterOAuthService), whose calls await the secret store.       *)
(***************************************************************************)
EXTENDS Absence, Integers, FiniteSets

CONSTANTS
  Engines,      \* adapters, each with one connection
  OpenRouter,   \* the engine whose key the companion keeps
  Profiles,     \* identifiers of profiles
  Pages,        \* browser pages that edit the policy
  MaxVersion,   \* bound of the model: saves of the policy
  MaxAttempts   \* bound of the model: authorizations begun

VARIABLES
  connections,  \* the rows of routing_connections
  catalogs,     \* the stored catalog of a connection
  policyV3,     \* the row of routing_policy_v3
  copies,       \* what each page read or saved last
  refreshes,    \* refresh() calls that await their engine
  key,          \* whether the secret store holds the OpenRouter key
  oauth,        \* the authorization: its state, its callback server, a change not yet polled
  calls,        \* authorization calls that await something
  undone        \* connections that were written after a disconnection overtook the writer

connectionVars == <<connections, catalogs, policyV3, copies, refreshes, key, oauth, calls, undone>>

-----------------------------------------------------------------------------
Connection == [enabled : BOOLEAN, authState : {"unchecked", "ready", "required", "invalid", "unsupported"}]
RoutingProfile == [kind : {"executable", "legacy-manual"}, connection : Engines \cup {None}, enabled : BOOLEAN,
                   readiness : {"unchecked", "ready", "unavailable"}]
PolicyV3 == [version : 0..MaxVersion, profiles : [Profiles -> RoutingProfile \cup {None}], assigned : SUBSET Profiles]

ASSUME ConnectionConstants ==
  /\ OpenRouter \in Engines /\ MaxVersion \in Nat \ {0} /\ MaxAttempts \in Nat
  /\ None \notin Connection /\ None \notin PolicyV3 /\ None \notin RoutingProfile
  /\ None \notin 0..MaxAttempts /\ None \notin 0..MaxVersion /\ None \notin {"fresh", "expired"}

RoutingConnectionsTypeOK ==
  /\ connections \in [Engines -> Connection \cup {None}]
  /\ catalogs \in [Engines -> {None, "fresh", "expired"}]
  /\ policyV3 \in PolicyV3 \cup {None} /\ copies \in [Pages -> PolicyV3 \cup {None}]
  /\ refreshes \subseteq [engine : Engines, step : {"detect", "models"}, overtaken : BOOLEAN]
  /\ key \in BOOLEAN
  /\ oauth \in [state : {"idle", "pending", "ready", "failed", "cancelled"}, server : 0..MaxAttempts \cup {None},
                changed : BOOLEAN, begun : 0..MaxAttempts]
  /\ calls \subseteq [op : {"begin", "callback", "revoke"}, step : {"listen", "exchange", "set", "delete", "stored", "deleted"},
                      attempt : 0..MaxAttempts]
  /\ undone \subseteq Engines

Idle == [state |-> "idle", server |-> None, changed |-> FALSE, begun |-> 0]

RoutingConnectionsInit ==
  /\ connections = [e \in Engines |-> None] /\ catalogs = [e \in Engines |-> None]
  /\ \E legacy \in {{}, {CHOOSE p \in Profiles : TRUE}} :
       policyV3 = IF legacy = {} THEN None
                  ELSE [version |-> 1, assigned |-> {},
                        profiles |-> [p \in Profiles |-> IF p \in legacy
                          THEN [kind |-> "legacy-manual", connection |-> None, enabled |-> FALSE, readiness |-> "unchecked"]
                          ELSE None]]
  /\ copies = [p \in Pages |-> None]
  /\ refreshes = {} /\ key \in BOOLEAN /\ oauth = Idle /\ calls = {} /\ undone = {}

-----------------------------------------------------------------------------
(* Connections.                                                            *)

\* Mutant: a profile is given a state of its connection.
RequiringInvalidated(policy, e) ==
  IF policy = None THEN None
  ELSE [policy EXCEPT !.profiles = [p \in Profiles |->
          IF policy.profiles[p] # None /\ policy.profiles[p].connection = e
          THEN [policy.profiles[p] EXCEPT !.readiness = "required"]
          ELSE policy.profiles[p]]]

\* invalidateDependents(): the profiles of a connection go back to unchecked.  The version
\* of the policy stays.
Invalidated(policy, e) ==
  IF policy = None THEN None
  ELSE [policy EXCEPT !.profiles = [p \in Profiles |->
          IF policy.profiles[p] # None /\ policy.profiles[p].connection = e
          THEN [policy.profiles[p] EXCEPT !.enabled = FALSE, !.readiness = "unchecked"]
          ELSE policy.profiles[p]]]

\* disconnectAdapter()
DisconnectAdapter(e) ==
  /\ connections' = [connections EXCEPT ![e] =
       IF @ = None THEN None ELSE [enabled |-> FALSE, authState |-> "required"]]
  /\ IF connections[e] = None THEN UNCHANGED <<catalogs, policyV3>>
     ELSE /\ catalogs' = [catalogs EXCEPT ![e] = None]
          /\ policyV3' = Invalidated(policyV3, e)
  /\ undone' = undone \ {e}
  /\ refreshes' = {[r EXCEPT !.overtaken = @ \/ r.engine = e] : r \in refreshes}

\* discover(): every engine is looked for, and only then are the rows read and written.
UnsupportedEngines == SUBSET Engines   \* what is found of them
Discover ==
  /\ \E unsupported \in UnsupportedEngines : connections' = [e \in Engines |->
       [enabled |-> FALSE, authState |-> IF e \in unsupported THEN "unsupported" ELSE "unchecked"]]
  /\ UNCHANGED <<catalogs, policyV3, copies, refreshes, key, oauth, calls, undone>>

\* refresh(): the row is read, then the engine is asked who is signed in and for its models,
\* and the row is written back.
StartRefresh(e) ==
  /\ connections[e] # None
  /\ refreshes' = refreshes \cup {[engine |-> e, step |-> "detect", overtaken |-> FALSE]}
  /\ UNCHANGED <<connections, catalogs, policyV3, copies, key, oauth, calls, undone>>

Refreshed(r, row, catalog) ==
  /\ refreshes' = refreshes \ {r}
  /\ connections' = [connections EXCEPT ![r.engine] = row]
  /\ catalogs' = [catalogs EXCEPT ![r.engine] = catalog]
  /\ undone' = IF r.overtaken THEN undone \cup {r.engine} ELSE undone \ {r.engine}
  /\ UNCHANGED <<policyV3, copies, key, oauth, calls>>

GoesOnRefreshing(r) ==
  /\ refreshes' = (refreshes \ {r}) \cup {[r EXCEPT !.step = "models"]}
  /\ UNCHANGED <<connections, catalogs, policyV3, copies, key, oauth, calls, undone>>

AbandonRefresh(r) ==
  /\ r \in refreshes /\ refreshes' = refreshes \ {r}
  /\ UNCHANGED <<connections, catalogs, policyV3, copies, key, oauth, calls, undone>>

\* checkAuthentication(): OpenRouter needs the key, other engines answer for themselves.
CheckAuthentication(r) ==
  /\ r \in refreshes /\ r.step = "detect"
  /\ \/ (r.engine = OpenRouter => key) /\ GoesOnRefreshing(r)
     \/ \E auth \in {"required", "invalid"} :
          /\ r.engine = OpenRouter /\ auth = "invalid" => key
          /\ Refreshed(r, [enabled |-> FALSE, authState |-> auth], catalogs[r.engine])

ListModels(r) ==
  /\ r \in refreshes /\ r.step = "models"
  /\ r.engine = OpenRouter => key
  /\ Refreshed(r, [enabled |-> FALSE, authState |-> "ready"], "fresh")

SetEnabled(e, enabled) ==
  /\ connections[e] # None
  /\ enabled => connections[e].authState = "ready" /\ catalogs[e] = "fresh"
  /\ connections' = [connections EXCEPT ![e].enabled = enabled]
  /\ UNCHANGED <<catalogs, policyV3, copies, refreshes, key, oauth, calls, undone>>

CatalogExpires(e) ==
  /\ catalogs[e] = "fresh" /\ catalogs' = [catalogs EXCEPT ![e] = "expired"]
  /\ UNCHANGED <<connections, policyV3, copies, refreshes, key, oauth, calls, undone>>

-----------------------------------------------------------------------------
(* The policy and the pages that edit it.                                  *)
Version(policy) == IF policy = None THEN 0 ELSE policy.version
\* policy?.policyVersion ?? null
VersionRead(policy) == IF policy = None THEN None ELSE policy.version

\* validateRoutingPolicyV3()
ValidPolicy(policy) ==
  /\ \A p \in Profiles : policy.profiles[p] # None =>
       IF policy.profiles[p].kind = "legacy-manual"
       THEN ~policy.profiles[p].enabled /\ policy.profiles[p].connection = None
       ELSE policy.profiles[p].connection \in {e \in Engines : connections[e] # None}
  /\ \A p \in policy.assigned : policy.profiles[p] # None /\ policy.profiles[p].kind = "executable"

\* Mutant: the version the page read is not compared.
AnyVersion(policy, expected) == ValidPolicy(policy) /\ Version(policyV3) < MaxVersion

\* compareAndSetPolicyV3() saves the policy.
Saves(policy, expected) ==
  ValidPolicy(policy) /\ expected = VersionRead(policyV3) /\ Version(policyV3) < MaxVersion
Stamped(policy) == [policy EXCEPT !.version = Version(policyV3) + 1]

\* persist(): a page saves its copy with a change, and goes on with what was saved.
Persist(page, policy) ==
  /\ Saves(policy, VersionRead(copies[page]))
  /\ policyV3' = Stamped(policy)
  /\ copies' = [copies EXCEPT ![page] = Stamped(policy)]
  /\ UNCHANGED <<connections, catalogs, refreshes, key, oauth, calls, undone>>

Working(page) == IF copies[page] # None THEN copies[page]
                 ELSE [version |-> 0, profiles |-> [p \in Profiles |-> None], assigned |-> {}]

Reload(page) ==
  /\ copies' = [copies EXCEPT ![page] = policyV3]
  /\ UNCHANGED <<connections, catalogs, policyV3, refreshes, key, oauth, calls, undone>>

AddProfile(page, p, e) ==
  /\ Working(page).profiles[p] = None /\ (policyV3 # None => policyV3.profiles[p] = None)
  /\ Persist(page, [Working(page) EXCEPT !.profiles[p] =
       [kind |-> "executable", connection |-> e, enabled |-> TRUE, readiness |-> "unchecked"]])

\* updateAssignment(): the page's copy is changed, or made of the empty policy of version 0, which
\* no save is accepted with.
EditAssignments(page, assigned) ==
  /\ \A p \in assigned : Working(page).profiles[p] # None /\ Working(page).profiles[p].kind = "executable"
  /\ copies' = [copies EXCEPT ![page] = [Working(page) EXCEPT !.assigned = assigned]]
  /\ UNCHANGED <<connections, catalogs, policyV3, refreshes, key, oauth, calls, undone>>

SaveAssignments(page) == Persist(page, Working(page))

RemoveLegacy(page, p) ==
  /\ Working(page).profiles[p] # None /\ Working(page).profiles[p].kind = "legacy-manual"
  /\ Persist(page, [Working(page) EXCEPT !.profiles[p] = None, !.assigned = @ \ {p}])

\* validateProfile(), with or without the model in the connection's catalog.
ProfileReady(profile, offered) ==
  /\ connections[profile.connection] = [enabled |-> TRUE, authState |-> "ready"]
  /\ catalogs[profile.connection] = "fresh" /\ offered

ValidateProfile(p, offered) ==
  /\ policyV3 # None /\ policyV3.profiles[p] # None /\ policyV3.profiles[p].kind = "executable"
  /\ LET profile == policyV3.profiles[p]
         ready == ProfileReady(profile, offered)
         next == [policyV3 EXCEPT !.profiles[p] = [profile EXCEPT !.enabled = ready /\ @,
                                                   !.readiness = IF ready THEN "ready" ELSE "unavailable"]]
     IN Saves(next, VersionRead(policyV3)) /\ policyV3' = Stamped(next)
  /\ UNCHANGED <<connections, catalogs, copies, refreshes, key, oauth, calls, undone>>

-----------------------------------------------------------------------------
(* The OpenRouter authorization.                                           *)
Call(op, step, attempt) == [op |-> op, step |-> step, attempt |-> attempt]
Next1(c, step) == (calls \ {c}) \cup {[c EXCEPT !.step = step]}
Closed(state) == [oauth EXCEPT !.state = state, !.server = None]

Authorization(nextOauth, nextCalls) ==
  /\ oauth' = nextOauth /\ calls' = nextCalls
  /\ UNCHANGED <<connections, catalogs, policyV3, copies, refreshes, key, undone>>

\* begin(): whatever was open is cancelled, and the new callback server is awaited.
Begin ==
  /\ oauth.begun < MaxAttempts
  /\ Authorization([Closed(IF oauth.state = "pending" THEN "cancelled" ELSE oauth.state)
                      EXCEPT !.server = oauth.begun + 1, !.begun = @ + 1],
                   calls \cup {Call("begin", "listen", oauth.begun + 1)})

Listening(c) ==
  /\ c \in calls /\ c.step = "listen"
  /\ Authorization(IF oauth.server = None THEN oauth ELSE [oauth EXCEPT !.state = "pending", !.changed = FALSE],
                   calls \ {c})

\* cancel(), and the timer of five minutes.
Cancel == Authorization(Closed(IF oauth.state = "pending" THEN "cancelled" ELSE oauth.state), calls)
AuthorizationExpires == oauth.state = "pending" /\ Authorization(Closed("failed"), calls)

\* handleCallback(): a request to the callback server.  One that does not carry a code and
\* the state of the attempt fails the authorization, whatever its state.
Callback ==
  /\ oauth.server # None
  /\ \/ oauth.state = "pending" /\ Authorization(oauth, calls \cup {Call("callback", "exchange", oauth.server)})
     \/ Authorization(Closed("failed"), calls)

Exchanged(c, accepted) ==
  /\ c \in calls /\ c.step = "exchange"
  /\ IF accepted THEN Authorization(oauth, Next1(c, "set")) ELSE Authorization(Closed("failed"), calls \ {c})

\* The secret store does what is asked of it, or fails.  It answers in the order it works in.
StoreIsFree == ~\E c \in calls : c.step \in {"stored", "deleted"}

StoreKey(c) ==
  /\ c \in calls /\ c.step = "set" /\ StoreIsFree
  /\ \/ key' = TRUE /\ calls' = Next1(c, "stored")
        /\ UNCHANGED <<connections, catalogs, policyV3, copies, refreshes, oauth, undone>>
     \/ Authorization(Closed("failed"), calls \ {c})

CallbackStored(c) ==
  /\ c \in calls /\ c.step = "stored"
  /\ Authorization([Closed("ready") EXCEPT !.changed = TRUE], calls \ {c})

\* The page asks for the state; the first time it is ready the connection starts over.
PollStatus ==
  /\ oauth.state = "ready" /\ oauth.changed
  /\ oauth' = [oauth EXCEPT !.changed = FALSE]
  /\ DisconnectAdapter(OpenRouter)
  /\ UNCHANGED <<copies, key, calls>>

\* revoke(), and the disconnection the handler goes on with.
StartRevoke ==
  /\ ~\E c \in calls : c.op = "revoke"
  /\ Authorization(oauth, calls \cup {Call("revoke", "delete", 0)})

DeleteKey(c) ==
  /\ c \in calls /\ c.step = "delete" /\ StoreIsFree
  /\ \/ key' = FALSE /\ calls' = Next1(c, "deleted")
        /\ UNCHANGED <<connections, catalogs, policyV3, copies, refreshes, oauth, undone>>
     \/ Authorization(oauth, calls \ {c})

FinishRevoke(c) ==
  /\ c \in calls /\ c.step = "deleted"
  /\ oauth' = Closed("idle") /\ calls' = calls \ {c}
  /\ DisconnectAdapter(OpenRouter)
  /\ UNCHANGED <<copies, key>>

\* The companion stops and starts: what it awaited is forgotten.
RoutingRestart ==
  /\ oauth' = [Idle EXCEPT !.begun = oauth.begun] /\ calls' = {} /\ refreshes' = {}
  /\ undone' = undone \cup {e \in {OpenRouter} : \E c \in calls : c.step = "deleted"}
  /\ UNCHANGED <<connections, catalogs, policyV3, copies, key>>

RoutingConnectionsNext ==
  \/ Discover
  \/ \E e \in Engines : StartRefresh(e) \/ SetEnabled(e, TRUE) \/ SetEnabled(e, FALSE) \/ CatalogExpires(e)
  \/ \E r \in refreshes : CheckAuthentication(r) \/ ListModels(r) \/ AbandonRefresh(r)
  \/ \E page \in Pages : \/ Reload(page)
                         \/ \E p \in Profiles, e \in Engines : AddProfile(page, p, e)
                         \/ \E assigned \in SUBSET Profiles : EditAssignments(page, assigned)
                         \/ SaveAssignments(page)
                         \/ \E p \in Profiles : RemoveLegacy(page, p)
  \/ \E p \in Profiles, offered \in BOOLEAN : ValidateProfile(p, offered)
  \/ Begin \/ Cancel \/ AuthorizationExpires \/ Callback \/ PollStatus \/ StartRevoke
  \/ \E c \in calls : Listening(c) \/ Exchanged(c, TRUE) \/ Exchanged(c, FALSE) \/ StoreKey(c) \/ CallbackStored(c)
                      \/ DeleteKey(c) \/ FinishRevoke(c)
  \/ RoutingRestart

-----------------------------------------------------------------------------
\* An enabled connection was checked and has a catalog, though it may have expired.
EnabledIsBacked == \A e \in Engines : connections[e] # None /\ connections[e].enabled =>
  connections[e].authState = "ready" /\ catalogs[e] # None

\* OpenRouter is enabled only while its key is stored or being removed, unless a check that
\* was under way wrote the connection after it was disconnected.
EnabledHasKey ==
  connections[OpenRouter] # None /\ connections[OpenRouter].enabled /\ OpenRouter \notin undone =>
    key \/ \E c \in calls : c.op = "revoke"

\* Who is told that OpenRouter is connected has its key stored, or is disconnecting it.
ReadyHasKey == oauth.state = "ready" => key \/ \E c \in calls : c.op = "revoke"

\* Two pages edit the policy: a route that one of them saved is not lost when the other
\* saves.  (Executable routes cannot be removed.)
RoutesKept == policyV3 # None => \A p \in Profiles :
  policyV3.profiles[p] # None /\ policyV3.profiles[p].kind = "executable" =>
    policyV3'.profiles[p] # None /\ policyV3'.profiles[p].connection = policyV3.profiles[p].connection
=============================================================================
