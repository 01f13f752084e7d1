---------------------------- MODULE BrowserProofs ----------------------------
(***************************************************************************)
(* Theorems about what a page of the browser drives (MCBrowser), for any   *)
(* number of pages, engines and profiles, and any bounds.                  *)
(*                                                                         *)
(* A scene is a component at work while the others rest, so the invariant  *)
(* of a component is one of all scenes (ScenesStep).                       *)
(***************************************************************************)
EXTENDS MCBrowser, SessionsProofs, WellFoundedInduction, NaturalsInduction

-----------------------------------------------------------------------------
(* Scenes.                                                                 *)

\* A step of a scene is one of each component, or leaves it as it is.
LEMMA ScenesStep ==
  ASSUME [ScenesNext]_scenesVars
  PROVE  /\ [BrowserNext]_browserVars /\ [RoutingNext]_routingVars
         /\ [RoutingConnectionsNext]_connectionVars /\ [GuidedNext]_guidedVars
         /\ [WorkspaceNext]_workspaceVars /\ [LocalNext]_localVars
         /\ [SampleNext]_sampleVars /\ [AttentionNext]_attentionVars /\ scene' = scene
  BY DEF ScenesNext, scenesVars, restVars

\* Codes, nonces and guesses buy no more sessions than they are worth (pairing.ts), whatever
\* pages do.
THEOREM SessionsEarned == ScenesSpec => []SessionsAreEarned
  <1>1. ScenesInit => Earned
    BY EarnedInit DEF ScenesInit
  <1>2. ASSUME Earned, [ScenesNext]_scenesVars PROVE Earned'
    BY <1>2, ScenesStep, EarnedStep
  <1>3. Earned => SessionsAreEarned
    BY EarnedGuesses DEF Earned, SessionsAreEarned
  <1> QED BY <1>1, <1>2, <1>3, PTL DEF ScenesSpec

-----------------------------------------------------------------------------
(* What is picked of a sequence.                                           *)

\* Places of a sequence are numbered without gaps, in their order.
LEMMA KthOfPlaces ==
  ASSUME NEW n \in Nat, NEW places \in SUBSET (1..n)
  PROVE  /\ Cardinality(places) \in Nat
         /\ \A k \in 1..Cardinality(places) :
              KthOf(places, k) \in places /\ Cardinality({j \in places : j <= KthOf(places, k)}) = k
         /\ \A i \in places : \E k \in 1..Cardinality(places) : KthOf(places, k) = i
         /\ \A k, l \in 1..Cardinality(places) : k < l => KthOf(places, k) < KthOf(places, l)
  <1> DEFINE upTo(i) == {j \in places : j <= i}
             rank == [i \in places |-> Cardinality(upTo(i))]
             m == Cardinality(places)
  <1>0. \A i \in places : i \in Nat
    OBVIOUS
  <1>1. IsFiniteSet(1..n)
    BY FS_Interval
  <1>2. IsFiniteSet(places) /\ m \in Nat
    BY <1>1, FS_Subset, FS_CardinalityType
  <1>3. ASSUME NEW i \in places
        PROVE  IsFiniteSet(upTo(i)) /\ Cardinality(upTo(i)) \in 1..m
    <2>1. IsFiniteSet(upTo(i)) /\ Cardinality(upTo(i)) <= m
      BY <1>2, FS_Subset
    <2>2. i \in upTo(i)
      BY <1>3
    <2>3. Cardinality(upTo(i)) # 0
      BY <2>1, <2>2, FS_EmptySet
    <2>4. Cardinality(upTo(i)) \in Nat
      BY <2>1, FS_CardinalityType
    <2> QED BY <1>2, <2>1, <2>3, <2>4
  <1>4. ASSUME NEW i \in places, NEW j \in places, Cardinality(upTo(i)) = Cardinality(upTo(j))
        PROVE  i = j
    <2>1. i \in Nat /\ j \in Nat
      OBVIOUS
    <2>2. CASE i <= j
      <3>1. upTo(i) \subseteq upTo(j)
        <4> SUFFICES ASSUME NEW h \in places, h <= i PROVE h <= j
          OBVIOUS
        <4> QED BY <1>0, <2>1, <2>2
      <3>2. upTo(i) = upTo(j)
        BY <1>3, <1>4, <3>1, FS_Subset
      <3>3. j \in upTo(i)
        BY <2>1, <3>2
      <3> QED BY <2>1, <2>2, <3>3
    <2>3. CASE j <= i
      <3>1. upTo(j) \subseteq upTo(i)
        <4> SUFFICES ASSUME NEW h \in places, h <= j PROVE h <= i
          OBVIOUS
        <4> QED BY <1>0, <2>1, <2>3
      <3>2. upTo(i) = upTo(j)
        BY <1>3, <1>4, <3>1, FS_Subset
      <3>3. i \in upTo(j)
        BY <2>1, <3>2
      <3> QED BY <2>1, <2>3, <3>3
    <2> QED BY <2>1, <2>2, <2>3
  <1>5. rank \in Injection(places, 1..m)
    <2> HIDE DEF upTo, m
    <2>1. rank \in [places -> 1..m]
      BY <1>3
    <2> QED BY <1>4, <2>1 DEF Injection, IsInjective
  <1>6. IsFiniteSet(1..m) /\ Cardinality(1..m) = m
    BY <1>2, FS_Interval
  <1>7. rank \in Surjection(places, 1..m)
    BY <1>5, <1>6, FS_Injection
  <1>8. ASSUME NEW k \in 1..m PROVE KthOf(places, k) \in places /\ Cardinality(upTo(KthOf(places, k))) = k
    <2>1. \E i \in places : rank[i] = k
      BY <1>7 DEF Surjection
    <2>2. \E i \in places : Cardinality({j \in places : j <= i}) = k
      BY <2>1
    <2> QED BY <2>2 DEF KthOf
  <1>9. ASSUME NEW i \in places PROVE \E k \in 1..m : KthOf(places, k) = i
    <2>1. Cardinality(upTo(i)) \in 1..m
      BY <1>3
    <2>2. KthOf(places, Cardinality(upTo(i))) = i
      <3> HIDE DEF upTo
      <3> QED BY <1>4, <1>8, <2>1
    <2> QED BY <2>1, <2>2
  <1>10. ASSUME NEW k \in 1..m, NEW l \in 1..m, k < l PROVE KthOf(places, k) < KthOf(places, l)
    <2> DEFINE i == KthOf(places, k)
               j == KthOf(places, l)
    <2>1. i \in places /\ j \in places /\ Cardinality(upTo(i)) = k /\ Cardinality(upTo(j)) = l
      BY <1>8
    <2> HIDE DEF i, j
    <2>2. i \in Nat /\ j \in Nat /\ IsFiniteSet(upTo(i))
      BY <1>0, <1>3, <2>1
    <2>3. ~(j <= i)
      <3> SUFFICES ASSUME j <= i PROVE FALSE
        OBVIOUS
      <3>1. upTo(j) \subseteq upTo(i)
        <4> SUFFICES ASSUME NEW h \in places, h <= j PROVE h <= i
          OBVIOUS
        <4> QED BY <1>0, <2>2
      <3>2. Cardinality(upTo(j)) <= Cardinality(upTo(i))
        BY <2>2, <3>1, FS_Subset
      <3> QED BY <1>2, <1>10, <2>1, <3>2
    <2>4. i < j
      BY <2>2, <2>3
    <2> QED BY <2>4 DEF i, j
  <1> QED BY <1>2, <1>8, <1>9, <1>10

\* What is picked of a sequence of elements of S is one, of those at the places, each once.
LEMMA PickedSequence ==
  ASSUME NEW S, NEW s \in Seq(S), NEW places \in SUBSET (DOMAIN s)
  PROVE  /\ Picked(s, places) \in Seq(S)
         /\ DOMAIN Picked(s, places) = 1..Cardinality(places)
         /\ \A k \in DOMAIN Picked(s, places) : \E i \in places : Picked(s, places)[k] = s[i]
         /\ \A i \in places : \E k \in DOMAIN Picked(s, places) : Picked(s, places)[k] = s[i]
         /\ \A k, l \in DOMAIN Picked(s, places) : k # l =>
              \E i, j \in places : i # j /\ Picked(s, places)[k] = s[i] /\ Picked(s, places)[l] = s[j]
         /\ \A k, l \in DOMAIN Picked(s, places) : k < l =>
              \E i, j \in places : i < j /\ Picked(s, places)[k] = s[i] /\ Picked(s, places)[l] = s[j]
  <1> DEFINE n == Len(s)
             m == Cardinality(places)
             kth(k) == KthOf(places, k)
             rank(i) == Cardinality({j \in places : j <= i})
  <1>1. n \in Nat /\ DOMAIN s = 1..n /\ \A i \in 1..n : s[i] \in S
    OBVIOUS
  <1> HIDE DEF n
  <1>2. /\ m \in Nat
        /\ \A k \in 1..m : kth(k) \in places /\ rank(kth(k)) = k
        /\ \A i \in places : \E k \in 1..m : kth(k) = i
        /\ \A k, l \in 1..m : k < l => kth(k) < kth(l)
    BY <1>1, KthOfPlaces
  <1>3. Picked(s, places) = [k \in 1..m |-> s[kth(k)]]
    BY DEF Picked
  <1> HIDE DEF m, kth, rank
  <1>4. \A k \in 1..m : s[kth(k)] \in S
    BY <1>1, <1>2
  <1>5. Picked(s, places) \in Seq(S) /\ DOMAIN Picked(s, places) = 1..m
    BY <1>2, <1>3, <1>4
  <1>6. \A k, l \in 1..m : k # l => kth(k) # kth(l)
    BY <1>2
  <1>7. \A k, l \in 1..m : k < l =>
          \E i, j \in places : i < j /\ Picked(s, places)[k] = s[i] /\ Picked(s, places)[l] = s[j]
    BY <1>2, <1>3
  <1>8. /\ \A k \in 1..m : \E i \in places : Picked(s, places)[k] = s[i]
        /\ \A i \in places : \E k \in 1..m : Picked(s, places)[k] = s[i]
        /\ \A k, l \in 1..m : k # l => \E i, j \in places : i # j /\ Picked(s, places)[k] = s[i] /\ Picked(s, places)[l] = s[j]
    BY <1>2, <1>3, <1>6
  <1>9. DOMAIN Picked(s, places) = 1..m /\ m = Cardinality(places)
    BY <1>5 DEF m
  <1> HIDE DEF m
  <1>10. /\ \A k \in DOMAIN Picked(s, places) : \E i \in places : Picked(s, places)[k] = s[i]
         /\ \A i \in places : \E k \in DOMAIN Picked(s, places) : Picked(s, places)[k] = s[i]
    BY <1>8, <1>9
  <1>11. /\ \A k, l \in DOMAIN Picked(s, places) : k # l =>
              \E i, j \in places : i # j /\ Picked(s, places)[k] = s[i] /\ Picked(s, places)[l] = s[j]
         /\ \A k, l \in DOMAIN Picked(s, places) : k < l =>
              \E i, j \in places : i < j /\ Picked(s, places)[k] = s[i] /\ Picked(s, places)[l] = s[j]
    BY <1>7, <1>8, <1>9
  <1> QED BY <1>5, <1>9, <1>10, <1>11

\* It repeats nothing the sequence does not repeat.
LEMMA PickedInjective ==
  ASSUME NEW S, NEW s \in Seq(S), NEW places \in SUBSET (DOMAIN s), IsInjective(s)
  PROVE  IsInjective(Picked(s, places))
  BY PickedSequence DEF IsInjective

-----------------------------------------------------------------------------
(* The connections of the companion and the policy of version 3.           *)

\* What can be said of the rows one by one.
Row(e) == connections[e]
KeyOrRemoval == key \/ \E c \in calls : c.step = "deleted"

\* The secret store holds what an authorization is told was stored, and a key is removed by
\* a revocation alone.
CallsAreShaped == \A c \in calls :
  /\ c.step \in {"delete", "deleted"} => c.op = "revoke"
  /\ c.step = "stored" => key

\* OpenRouter is found signed in, and a page told so, while the key is stored or a revocation
\* has just removed it.
KeyBacksReady ==
  /\ oauth.state = "ready" => KeyOrRemoval
  /\ connections[OpenRouter] # None /\ connections[OpenRouter].authState = "ready" /\ OpenRouter \notin undone => KeyOrRemoval

\* A copy that a page has of a profile is of the same route.
SameRoute(a, b) == (a = None <=> b = None) /\ (a # None => a.kind = b.kind /\ a.connection = b.connection)

\* A copy of the policy is the empty one of version 0, of a version before, or of the routes of
\* the current one.
CopiesAreOld ==
  /\ policyV3 # None => policyV3.version >= 1
  /\ \A page_ \in Pages : copies[page_] # None /\ copies[page_].version # 0 =>
       /\ policyV3 # None /\ copies[page_].version <= policyV3.version
       /\ copies[page_].version = policyV3.version =>
            \A p \in Profiles : SameRoute(copies[page_].profiles[p], policyV3.profiles[p])

ConnectionsInv ==
  /\ RoutingConnectionsTypeOK
  /\ EnabledIsBacked /\ CallsAreShaped /\ KeyBacksReady
  /\ CopiesAreOld

LEMMA ConnectionsInit == RoutingConnectionsInit => ConnectionsInv
  <1> SUFFICES ASSUME RoutingConnectionsInit PROVE ConnectionsInv
    OBVIOUS
  <1>1. policyV3 \in PolicyV3 \cup {None} /\ (policyV3 # None => policyV3.version = 1)
    <2>1. \A legacy : [p \in Profiles |-> IF p \in legacy
                          THEN [kind |-> "legacy-manual", connection |-> None, enabled |-> FALSE, readiness |-> "unchecked"]
                          ELSE None] \in [Profiles -> RoutingProfile \cup {None}]
      BY DEF RoutingProfile
    <2>2. 1 \in 0..MaxVersion
      BY ConnectionConstants
    <2>3. PICK legacy \in SUBSET {CHOOSE p \in Profiles : TRUE} :
            policyV3 = IF legacy = {} THEN None
                       ELSE [version |-> 1, assigned |-> {},
                             profiles |-> [p \in Profiles |-> IF p \in legacy
                               THEN [kind |-> "legacy-manual", connection |-> None, enabled |-> FALSE, readiness |-> "unchecked"]
                               ELSE None]]
      BY DEF RoutingConnectionsInit
    <2>4. CASE legacy = {}
      BY <2>3, <2>4
    <2>5. CASE legacy # {}
      <3> DEFINE held == [p \in Profiles |-> IF p \in legacy
                   THEN [kind |-> "legacy-manual", connection |-> None, enabled |-> FALSE, readiness |-> "unchecked"]
                   ELSE None]
      <3>1. held \in [Profiles -> RoutingProfile \cup {None}] /\ policyV3 = [version |-> 1, assigned |-> {}, profiles |-> held]
        BY <2>1, <2>3, <2>5
      <3> HIDE DEF held
      <3> QED BY <2>2, <3>1 DEF PolicyV3
    <2> QED BY <2>4, <2>5
  <1>2. RoutingConnectionsTypeOK
    <2>1. 0 \in 0..MaxAttempts
      BY ConnectionConstants
    <2> QED BY <1>1, <2>1 DEF RoutingConnectionsInit, RoutingConnectionsTypeOK, Idle
  <1>3. EnabledIsBacked /\ CallsAreShaped /\ KeyBacksReady
    BY ConnectionConstants DEF RoutingConnectionsInit, EnabledIsBacked, CallsAreShaped, KeyBacksReady, Idle
  <1>4. CopiesAreOld
    BY <1>1 DEF RoutingConnectionsInit, CopiesAreOld
  <1> QED BY <1>2, <1>3, <1>4 DEF ConnectionsInv

\* Invalidated() keeps the type of a policy, its version and its routes.
LEMMA InvalidatedTyped ==
  ASSUME NEW q \in PolicyV3 \cup {None}, NEW e
  PROVE  /\ Invalidated(q, e) \in PolicyV3 \cup {None}
         /\ Invalidated(q, e) = None <=> q = None
         /\ q # None => /\ Invalidated(q, e).version = q.version
                        /\ \A p \in Profiles : SameRoute(q.profiles[p], Invalidated(q, e).profiles[p])
  <1>1. CASE q = None
    BY <1>1 DEF Invalidated
  <1>2. CASE q # None
    <2> DEFINE now_ == [p \in Profiles |->
          IF q.profiles[p] # None /\ q.profiles[p].connection = e
          THEN [q.profiles[p] EXCEPT !.enabled = FALSE, !.readiness = "unchecked"]
          ELSE q.profiles[p]]
    <2>1. q \in PolicyV3 /\ q.profiles \in [Profiles -> RoutingProfile \cup {None}]
      BY <1>2 DEF PolicyV3
    <2>2. \A p \in Profiles : now_[p] \in RoutingProfile \cup {None} /\ SameRoute(q.profiles[p], now_[p])
      BY <2>1, ConnectionConstants DEF RoutingProfile, SameRoute
    <2>3. now_ \in [Profiles -> RoutingProfile \cup {None}]
      BY <2>2
    <2>4. Invalidated(q, e) = [q EXCEPT !.profiles = now_]
      BY <1>2 DEF Invalidated
    <2> HIDE DEF now_
    <2>5. [q EXCEPT !.profiles = now_] \in PolicyV3
      BY <2>1, <2>3 DEF PolicyV3
    <2>6. /\ [q EXCEPT !.profiles = now_].version = q.version
          /\ [q EXCEPT !.profiles = now_].profiles = now_
      BY <2>1 DEF PolicyV3
    <2> QED BY <1>2, <2>2, <2>4, <2>5, <2>6, ConnectionConstants
  <1> QED BY <1>1, <1>2

\* DisconnectAdapter() keeps what is known of connections, and ends what was known of its own.
LEMMA DisconnectKeeps ==
  ASSUME ConnectionsInv, NEW e \in Engines, DisconnectAdapter(e)
  PROVE  /\ connections' \in [Engines -> Connection \cup {None}]
         /\ catalogs' \in [Engines -> {None, "fresh", "expired"}]
         /\ policyV3' \in PolicyV3 \cup {None} /\ undone' \subseteq Engines
         /\ refreshes' \subseteq [engine : Engines, step : {"detect", "models"}, overtaken : BOOLEAN]
         /\ EnabledIsBacked'
         /\ connections'[e] # None => connections'[e].authState = "required"
         /\ \A f \in Engines : f # e => connections'[f] = connections[f]
         /\ policyV3' = None <=> policyV3 = None
         /\ policyV3 # None => /\ policyV3'.version = policyV3.version
                               /\ \A p \in Profiles : SameRoute(policyV3.profiles[p], policyV3'.profiles[p])
         /\ undone' = undone \ {e}
  <1>1. RoutingConnectionsTypeOK /\ EnabledIsBacked
    BY DEF ConnectionsInv
  <1>2. [enabled |-> FALSE, authState |-> "required"] \in Connection
    BY DEF Connection
  <1>3. /\ connections \in [Engines -> Connection \cup {None}] /\ catalogs \in [Engines -> {None, "fresh", "expired"}]
        /\ policyV3 \in PolicyV3 \cup {None} /\ undone \subseteq Engines
        /\ refreshes \subseteq [engine : Engines, step : {"detect", "models"}, overtaken : BOOLEAN]
    BY <1>1 DEF RoutingConnectionsTypeOK
  <1>4. /\ connections' = [connections EXCEPT ![e] = IF connections[e] = None THEN None ELSE [enabled |-> FALSE, authState |-> "required"]]
        /\ catalogs' = [catalogs EXCEPT ![e] = None] \/ (catalogs' = catalogs /\ connections[e] = None)
        /\ policyV3' = policyV3 \/ policyV3' = Invalidated(policyV3, e)
        /\ undone' = undone \ {e}
        /\ refreshes' = {[r EXCEPT !.overtaken = @ \/ r.engine = e] : r \in refreshes}
    BY DEF DisconnectAdapter
  <1>5. connections' \in [Engines -> Connection \cup {None}] /\ catalogs' \in [Engines -> {None, "fresh", "expired"}]
    BY <1>2, <1>3, <1>4
  <1>6. /\ policyV3' \in PolicyV3 \cup {None} /\ (policyV3' = None <=> policyV3 = None)
        /\ policyV3 # None => /\ policyV3'.version = policyV3.version
                              /\ \A p \in Profiles : SameRoute(policyV3.profiles[p], policyV3'.profiles[p])
    BY <1>3, <1>4, InvalidatedTyped DEF SameRoute
  <1>7. \A r \in refreshes : [r EXCEPT !.overtaken = @ \/ r.engine = e]
          \in [engine : Engines, step : {"detect", "models"}, overtaken : BOOLEAN]
    BY <1>3
  <1>8. refreshes' \subseteq [engine : Engines, step : {"detect", "models"}, overtaken : BOOLEAN]
    BY <1>4, <1>7
  <1>9. EnabledIsBacked'
    BY <1>1, <1>3, <1>4, ConnectionConstants DEF EnabledIsBacked
  <1>10. /\ connections'[e] # None => connections'[e].authState = "required"
         /\ \A f \in Engines : f # e => connections'[f] = connections[f]
    BY <1>3, <1>4
  <1> QED BY <1>3, <1>4, <1>5, <1>6, <1>8, <1>9, <1>10

\* A policy whose routes stay leaves every copy of it old.
LEMMA CopiesStayOld ==
  ASSUME CopiesAreOld, copies' = copies, policyV3' = None <=> policyV3 = None,
         policyV3 # None => /\ policyV3'.version = policyV3.version
                            /\ \A p \in Profiles : SameRoute(policyV3.profiles[p], policyV3'.profiles[p])
  PROVE  CopiesAreOld'
  BY DEF CopiesAreOld, SameRoute

-----------------------------------------------------------------------------
(* Steps that leave the policy.                                            *)
PolicySame == UNCHANGED <<policyV3, copies>>
AuthorizationSame == UNCHANGED <<key, oauth, calls>>

\* A step of the connections alone.
LEMMA ConnectionSteps ==
  ASSUME ConnectionsInv, PolicySame, AuthorizationSame, undone' \subseteq Engines,
         connections' \in [Engines -> Connection \cup {None}], catalogs' \in [Engines -> {None, "fresh", "expired"}],
         refreshes' \subseteq [engine : Engines, step : {"detect", "models"}, overtaken : BOOLEAN],
         EnabledIsBacked',
         connections'[OpenRouter] # None /\ connections'[OpenRouter].authState = "ready" /\ OpenRouter \notin undone' =>
           \/ key
           \/ connections[OpenRouter] # None /\ connections[OpenRouter].authState = "ready" /\ OpenRouter \notin undone
  PROVE  ConnectionsInv'
  <1>1. RoutingConnectionsTypeOK'
    BY DEF ConnectionsInv, RoutingConnectionsTypeOK, PolicySame, AuthorizationSame
  <1>2. CallsAreShaped' /\ KeyBacksReady' /\ CopiesAreOld'
    BY DEF ConnectionsInv, CallsAreShaped, KeyBacksReady, KeyOrRemoval, CopiesAreOld, PolicySame, AuthorizationSame
  <1> QED BY <1>1, <1>2 DEF ConnectionsInv

LEMMA RefreshedKeeps ==
  ASSUME ConnectionsInv, NEW r \in refreshes, NEW row \in Connection, NEW catalog \in {None, "fresh", "expired"},
         Refreshed(r, row, catalog), ~row.enabled,
         r.engine = OpenRouter /\ row.authState = "ready" => key
  PROVE  ConnectionsInv'
  <1>1. /\ r.engine \in Engines /\ undone \subseteq Engines
        /\ connections \in [Engines -> Connection \cup {None}] /\ catalogs \in [Engines -> {None, "fresh", "expired"}]
        /\ refreshes \subseteq [engine : Engines, step : {"detect", "models"}, overtaken : BOOLEAN]
    BY DEF ConnectionsInv, RoutingConnectionsTypeOK
  <1>2. /\ connections' \in [Engines -> Connection \cup {None}] /\ catalogs' \in [Engines -> {None, "fresh", "expired"}]
        /\ refreshes' \subseteq [engine : Engines, step : {"detect", "models"}, overtaken : BOOLEAN]
        /\ undone' \subseteq Engines
    BY <1>1 DEF Refreshed
  <1>3. EnabledIsBacked'
    BY <1>1 DEF ConnectionsInv, EnabledIsBacked, Refreshed
  <1>4. connections'[OpenRouter] # None /\ connections'[OpenRouter].authState = "ready" /\ OpenRouter \notin undone' =>
           \/ key
           \/ connections[OpenRouter] # None /\ connections[OpenRouter].authState = "ready" /\ OpenRouter \notin undone
    BY <1>1, ConnectionConstants DEF Refreshed
  <1>5. PolicySame /\ AuthorizationSame
    BY DEF Refreshed, PolicySame, AuthorizationSame
  <1> QED BY <1>2, <1>3, <1>4, <1>5, ConnectionSteps

LEMMA RefreshKeeps ==
  ASSUME ConnectionsInv, NEW r \in refreshes, CheckAuthentication(r) \/ ListModels(r) \/ AbandonRefresh(r)
  PROVE  ConnectionsInv'
  <1>1. \A auth \in {"required", "invalid", "ready"} : [enabled |-> FALSE, authState |-> auth] \in Connection
    BY DEF Connection
  <1>2. /\ r.engine \in Engines /\ undone \subseteq Engines /\ catalogs[r.engine] \in {None, "fresh", "expired"}
        /\ refreshes \subseteq [engine : Engines, step : {"detect", "models"}, overtaken : BOOLEAN]
    BY DEF ConnectionsInv, RoutingConnectionsTypeOK
  <1>3. CASE AbandonRefresh(r) \/ GoesOnRefreshing(r)
    <2>1. [r EXCEPT !.step = "models"] \in [engine : Engines, step : {"detect", "models"}, overtaken : BOOLEAN]
      BY <1>2
    <2>2. refreshes' \subseteq [engine : Engines, step : {"detect", "models"}, overtaken : BOOLEAN]
      BY <1>2, <1>3, <2>1 DEF AbandonRefresh, GoesOnRefreshing
    <2>3. UNCHANGED <<connections, catalogs, policyV3, copies, key, oauth, calls, undone>>
      BY <1>3 DEF AbandonRefresh, GoesOnRefreshing
    <2> QED BY <1>2, <2>2, <2>3, ConnectionSteps
          DEF ConnectionsInv, RoutingConnectionsTypeOK, EnabledIsBacked, PolicySame, AuthorizationSame
  <1>4. CASE ListModels(r)
    BY <1>1, <1>4, RefreshedKeeps DEF ListModels
  <1>5. CASE CheckAuthentication(r) /\ ~GoesOnRefreshing(r)
    <2>1. PICK auth \in {"required", "invalid"} : Refreshed(r, [enabled |-> FALSE, authState |-> auth], catalogs[r.engine])
      BY <1>5 DEF CheckAuthentication
    <2> QED BY <1>1, <1>2, <2>1, RefreshedKeeps
  <1> QED BY <1>3, <1>4, <1>5

LEMMA EngineKeeps ==
  ASSUME ConnectionsInv, NEW e \in Engines,
         \/ Discover \/ StartRefresh(e) \/ CatalogExpires(e)
         \/ \E enabled \in BOOLEAN : SetEnabled(e, enabled)
  PROVE  ConnectionsInv'
  <1>1. /\ connections \in [Engines -> Connection \cup {None}] /\ catalogs \in [Engines -> {None, "fresh", "expired"}]
        /\ refreshes \subseteq [engine : Engines, step : {"detect", "models"}, overtaken : BOOLEAN] /\ undone \subseteq Engines
        /\ EnabledIsBacked
    BY DEF ConnectionsInv, RoutingConnectionsTypeOK
  <1>2. CASE Discover
    <2>1. PICK unsupported : connections' = [f \in Engines |->
             [enabled |-> FALSE, authState |-> IF f \in unsupported THEN "unsupported" ELSE "unchecked"]]
      BY <1>2 DEF Discover
    <2>2. connections' \in [Engines -> Connection \cup {None}]
      BY <2>1 DEF Connection
    <2>3. UNCHANGED <<catalogs, policyV3, copies, refreshes, key, oauth, calls, undone>>
      BY <1>2 DEF Discover
    <2>4. EnabledIsBacked'
      BY <2>1 DEF EnabledIsBacked
    <2>5. connections'[OpenRouter].authState # "ready"
      BY <2>1, ConnectionConstants
    <2> QED BY <1>1, <2>2, <2>3, <2>4, <2>5, ConnectionSteps DEF PolicySame, AuthorizationSame
  <1>3. CASE StartRefresh(e)
    <2>1. UNCHANGED <<connections, catalogs, policyV3, copies, key, oauth, calls, undone>>
      BY <1>3 DEF StartRefresh
    <2>2. refreshes' \subseteq [engine : Engines, step : {"detect", "models"}, overtaken : BOOLEAN]
      <3>1. [engine |-> e, step |-> "detect", overtaken |-> FALSE]
              \in [engine : Engines, step : {"detect", "models"}, overtaken : BOOLEAN]
        OBVIOUS
      <3> QED BY <1>1, <1>3, <3>1 DEF StartRefresh
    <2>3. EnabledIsBacked'
      BY <1>1, <2>1 DEF EnabledIsBacked
    <2> QED BY <1>1, <2>1, <2>2, <2>3, ConnectionSteps DEF PolicySame, AuthorizationSame
  <1>4. CASE CatalogExpires(e)
    <2>1. UNCHANGED <<connections, policyV3, copies, refreshes, key, oauth, calls, undone>>
      BY <1>4 DEF CatalogExpires
    <2>2. catalogs' \in [Engines -> {None, "fresh", "expired"}]
      BY <1>1, <1>4 DEF CatalogExpires
    <2>3. \A f \in Engines : catalogs[f] # None => catalogs'[f] # None
      BY <1>1, <1>4, ConnectionConstants DEF CatalogExpires
    <2>4. EnabledIsBacked'
      BY <1>1, <2>1, <2>3 DEF EnabledIsBacked
    <2> QED BY <1>1, <2>1, <2>2, <2>4, ConnectionSteps DEF PolicySame, AuthorizationSame
  <1>5. ASSUME NEW enabled \in BOOLEAN, SetEnabled(e, enabled) PROVE ConnectionsInv'
    <2>1. /\ connections[e] \in Connection /\ connections' = [connections EXCEPT ![e].enabled = enabled]
          /\ enabled => connections[e].authState = "ready" /\ catalogs[e] = "fresh"
          /\ UNCHANGED <<catalogs, policyV3, copies, refreshes, key, oauth, calls, undone>>
      BY <1>1, <1>5 DEF SetEnabled
    <2>2. [connections[e] EXCEPT !.enabled = enabled] \in Connection
      BY <2>1 DEF Connection
    <2>3. connections' = [connections EXCEPT ![e] = [connections[e] EXCEPT !.enabled = enabled]]
      BY <1>1, <2>1
    <2>4. connections' \in [Engines -> Connection \cup {None}]
      BY <1>1, <2>2, <2>3
    <2>5. /\ connections'[e].authState = connections[e].authState /\ connections'[e].enabled = enabled
          /\ \A f \in Engines : f # e => connections'[f] = connections[f]
      BY <1>1, <2>1, <2>3 DEF Connection
    <2>6. EnabledIsBacked'
      BY <1>1, <2>1, <2>5, ConnectionConstants DEF EnabledIsBacked
    <2> QED BY <1>1, <2>1, <2>4, <2>5, <2>6, ConnectionConstants, ConnectionSteps DEF PolicySame, AuthorizationSame
  <1> QED BY <1>2, <1>3, <1>4, <1>5

-----------------------------------------------------------------------------
(* Steps of the policy.                                                    *)

\* Only executable routes cannot be removed; the others and their places go.
RouteStays(a, b) == a # None /\ a.kind = "executable" => b # None /\ b.connection = a.connection
RoutesStay(q, next) == \A p \in Profiles : RouteStays(q.profiles[p], next.profiles[p])

\* What a page saves over the policy is typed, has the next version and is the page's copy;
\* whoever compared the version saved over the routes it knew.
LEMMA StampedTyped ==
  ASSUME ConnectionsInv, NEW q, q \in PolicyV3, Version(policyV3) < MaxVersion
  PROVE  /\ Stamped(q) \in PolicyV3 /\ Stamped(q).profiles = q.profiles
         /\ Stamped(q).version >= 1 /\ Stamped(q).version > Version(policyV3) /\ Stamped(q).version \in Nat
         /\ Version(policyV3) \in Nat
  <1>1. policyV3 \in PolicyV3 \cup {None}
    BY DEF ConnectionsInv, RoutingConnectionsTypeOK
  <1>2. Version(policyV3) \in 0..MaxVersion
    BY <1>1, ConnectionConstants DEF Version, PolicyV3
  <1>3. Version(policyV3) + 1 \in 0..MaxVersion
    BY <1>2, ConnectionConstants
  <1>4. /\ Stamped(q) \in PolicyV3 /\ Stamped(q).profiles = q.profiles
        /\ Stamped(q).version = Version(policyV3) + 1
    BY <1>3 DEF Stamped, PolicyV3
  <1> QED BY <1>2, <1>3, <1>4, ConnectionConstants

\* A step that saves a policy, and gives it to a page if one asked.
LEMMA SavesKeep ==
  ASSUME ConnectionsInv, NEW q, q \in PolicyV3, Version(policyV3) < MaxVersion,
         policyV3' = Stamped(q),
         \/ copies' = copies
         \/ \E g \in Pages : copies' = [copies EXCEPT ![g] = Stamped(q)],
         UNCHANGED <<connections, catalogs, refreshes, key, oauth, calls, undone>>
  PROVE  ConnectionsInv'
  <1>1. /\ Stamped(q) \in PolicyV3 /\ Stamped(q).version >= 1 /\ Stamped(q).version > Version(policyV3)
        /\ Stamped(q).version \in Nat /\ Version(policyV3) \in Nat /\ Stamped(q) # None
    BY StampedTyped, ConnectionConstants
  <1>2. copies \in [Pages -> PolicyV3 \cup {None}] /\ policyV3 \in PolicyV3 \cup {None}
    BY DEF ConnectionsInv, RoutingConnectionsTypeOK
  <1>3. copies' \in [Pages -> PolicyV3 \cup {None}]
    BY <1>1, <1>2
  <1>4. RoutingConnectionsTypeOK'
    BY <1>1, <1>3 DEF ConnectionsInv, RoutingConnectionsTypeOK
  <1>5. EnabledIsBacked' /\ CallsAreShaped' /\ KeyBacksReady'
    BY DEF ConnectionsInv, EnabledIsBacked, CallsAreShaped, KeyBacksReady, KeyOrRemoval
  <1>6. CopiesAreOld'
    <2> SUFFICES ASSUME NEW g \in Pages, copies'[g] # None, copies'[g].version # 0
                 PROVE  /\ copies'[g].version <= policyV3'.version
                        /\ copies'[g].version = policyV3'.version =>
                             \A p \in Profiles : SameRoute(copies'[g].profiles[p], policyV3'.profiles[p])
      BY <1>1 DEF CopiesAreOld
    <2>1. CASE copies'[g] = Stamped(q)
      BY <1>1, <2>1 DEF SameRoute
    <2>2. CASE copies'[g] = copies[g]
      <3>1. copies[g] \in PolicyV3 /\ copies[g].version <= Version(policyV3) /\ copies[g].version \in Nat
        BY <1>2, <2>2, ConnectionConstants DEF ConnectionsInv, CopiesAreOld, Version, PolicyV3
      <3> QED BY <1>1, <2>2, <3>1
    <2> QED BY <1>2, <2>1, <2>2
  <1> QED BY <1>4, <1>5, <1>6 DEF ConnectionsInv

\* The copy a page edits, if it is of the current version, has the current routes.
LEMMA WorkingIsCurrent ==
  ASSUME ConnectionsInv, NEW g \in Pages, VersionRead(copies[g]) = VersionRead(policyV3)
  PROVE  /\ Working(g) \in PolicyV3
         /\ policyV3 # None => \A p \in Profiles : SameRoute(Working(g).profiles[p], policyV3.profiles[p])
  <1>1. copies \in [Pages -> PolicyV3 \cup {None}] /\ policyV3 \in PolicyV3 \cup {None}
    BY DEF ConnectionsInv, RoutingConnectionsTypeOK
  <1>2. CASE copies[g] # None
    <2>1. copies[g] \in PolicyV3 /\ copies[g].version \in 0..MaxVersion
      BY <1>1, <1>2 DEF PolicyV3
    <2>2. policyV3 # None /\ copies[g].version = policyV3.version /\ copies[g].version # 0
      BY <1>1, <1>2, <2>1, ConnectionConstants DEF ConnectionsInv, CopiesAreOld, VersionRead
    <2> QED BY <1>2, <2>1, <2>2 DEF Working, ConnectionsInv, CopiesAreOld
  <1>3. CASE copies[g] = None
    <2>1. policyV3 = None
      BY <1>1, <1>3, ConnectionConstants DEF VersionRead, PolicyV3
    <2>2. 0 \in 0..MaxVersion
      BY ConnectionConstants
    <2>3. [p \in Profiles |-> None] \in [Profiles -> RoutingProfile \cup {None}]
      OBVIOUS
    <2>4. [version |-> 0, profiles |-> [p \in Profiles |-> None], assigned |-> {}] \in PolicyV3
      BY <2>2, <2>3 DEF PolicyV3
    <2> QED BY <1>3, <2>1, <2>4 DEF Working
  <1> QED BY <1>2, <1>3

\* persist() of a policy that has the routes of the page's copy.
LEMMA PersistKeeps ==
  ASSUME ConnectionsInv, NEW g \in Pages, NEW q, q \in PolicyV3, Persist(g, q),
         policyV3 # None => RoutesStay(policyV3, q)
  PROVE  ConnectionsInv' /\ RoutesKept
  <1>1. /\ Version(policyV3) < MaxVersion /\ policyV3' = Stamped(q) /\ copies' = [copies EXCEPT ![g] = Stamped(q)]
        /\ UNCHANGED <<connections, catalogs, refreshes, key, oauth, calls, undone>>
    BY DEF Persist, Saves
  <1>2. ConnectionsInv'
    BY <1>1, SavesKeep
  <1>3. Stamped(q).profiles = q.profiles
    BY <1>1, StampedTyped
  <1> QED BY <1>1, <1>2, <1>3 DEF RoutesKept, RoutesStay, RouteStays

LEMMA AddProfileKeeps ==
  ASSUME ConnectionsInv, NEW g \in Pages, NEW p \in Profiles, NEW e \in Engines, AddProfile(g, p, e)
  PROVE  ConnectionsInv' /\ RoutesKept
  <1> DEFINE route == [kind |-> "executable", connection |-> e, enabled |-> TRUE, readiness |-> "unchecked"]
             q == [Working(g) EXCEPT !.profiles[p] = route]
  <1>1. /\ Persist(g, q) /\ (policyV3 # None => policyV3.profiles[p] = None)
        /\ VersionRead(copies[g]) = VersionRead(policyV3)
    BY DEF AddProfile, Persist, Saves
  <1>2. /\ Working(g) \in PolicyV3
        /\ policyV3 # None => \A r \in Profiles : SameRoute(Working(g).profiles[r], policyV3.profiles[r])
    BY <1>1, WorkingIsCurrent
  <1>3. route \in RoutingProfile
    BY DEF RoutingProfile
  <1>4. Working(g).profiles \in [Profiles -> RoutingProfile \cup {None}]
    BY <1>2 DEF PolicyV3
  <1> HIDE DEF route
  <1>5. /\ q = [Working(g) EXCEPT !.profiles = [Working(g).profiles EXCEPT ![p] = route]]
        /\ [Working(g).profiles EXCEPT ![p] = route] \in [Profiles -> RoutingProfile \cup {None}]
    BY <1>2, <1>3, <1>4 DEF PolicyV3
  <1>6. q \in PolicyV3 /\ q.profiles = [Working(g).profiles EXCEPT ![p] = route]
    BY <1>2, <1>5 DEF PolicyV3
  <1>7. policyV3 # None => RoutesStay(policyV3, q)
    BY <1>1, <1>2, <1>4, <1>6 DEF RoutesStay, RouteStays, SameRoute
  <1> HIDE DEF q
  <1> QED BY <1>1, <1>6, <1>7, PersistKeeps

LEMMA AssignmentsKeep ==
  ASSUME ConnectionsInv, NEW g \in Pages, SaveAssignments(g)
  PROVE  ConnectionsInv' /\ RoutesKept
  <1>1. Persist(g, Working(g)) /\ VersionRead(copies[g]) = VersionRead(policyV3)
    BY DEF SaveAssignments, Persist, Saves
  <1>2. /\ Working(g) \in PolicyV3
        /\ policyV3 # None => \A r \in Profiles : SameRoute(Working(g).profiles[r], policyV3.profiles[r])
    BY <1>1, WorkingIsCurrent
  <1>3. policyV3 # None => RoutesStay(policyV3, Working(g))
    BY <1>2 DEF RoutesStay, RouteStays, SameRoute
  <1> QED BY <1>1, <1>2, <1>3, PersistKeeps

\* Assignments that are edited and not yet saved are of the page alone.
LEMMA EditAssignmentsKeeps ==
  ASSUME ConnectionsInv, NEW g \in Pages, NEW some \in SUBSET Profiles, EditAssignments(g, some)
  PROVE  ConnectionsInv' /\ RoutesKept
  <1> DEFINE q == [Working(g) EXCEPT !.assigned = some]
  <1>1. /\ copies' = [copies EXCEPT ![g] = q]
        /\ UNCHANGED <<connections, catalogs, policyV3, refreshes, key, oauth, calls, undone>>
    BY DEF EditAssignments
  <1>2. copies \in [Pages -> PolicyV3 \cup {None}] /\ policyV3 \in PolicyV3 \cup {None}
    BY DEF ConnectionsInv, RoutingConnectionsTypeOK
  <1>3. Working(g) \in PolicyV3 /\ (Working(g) = copies[g] \/ Working(g).version = 0)
    <2>1. CASE copies[g] # None
      BY <1>2, <2>1 DEF Working
    <2>2. CASE copies[g] = None
      <3>1. 0 \in 0..MaxVersion /\ [p \in Profiles |-> None] \in [Profiles -> RoutingProfile \cup {None}]
        BY ConnectionConstants
      <3>2. [version |-> 0, profiles |-> [p \in Profiles |-> None], assigned |-> {}] \in PolicyV3
        BY <3>1 DEF PolicyV3
      <3> QED BY <2>2, <3>2 DEF Working
    <2> QED BY <2>1, <2>2
  <1>4. q \in PolicyV3 /\ q.version = Working(g).version /\ q.profiles = Working(g).profiles
    BY <1>3 DEF PolicyV3
  <1> HIDE DEF q
  <1>5. copies'[g] = q /\ \A h \in Pages \ {g} : copies'[h] = copies[h]
    BY <1>1, <1>2
  <1>6. RoutingConnectionsTypeOK'
    <2>1. copies' \in [Pages -> PolicyV3 \cup {None}]
      BY <1>1, <1>2, <1>4
    <2> QED BY <1>1, <2>1 DEF ConnectionsInv, RoutingConnectionsTypeOK
  <1>7. EnabledIsBacked' /\ CallsAreShaped' /\ KeyBacksReady'
    BY <1>1 DEF ConnectionsInv, EnabledIsBacked, CallsAreShaped, KeyBacksReady, KeyOrRemoval
  <1>8. q.version # 0 => copies[g] # None /\ q.version = copies[g].version /\ q.profiles = copies[g].profiles
    BY <1>3, <1>4, ConnectionConstants
  <1>9. CopiesAreOld'
    <2> SUFFICES ASSUME NEW h \in Pages, copies'[h] # None, copies'[h].version # 0
                 PROVE  /\ policyV3' # None /\ copies'[h].version <= policyV3'.version
                        /\ copies'[h].version = policyV3'.version =>
                             \A p \in Profiles : SameRoute(copies'[h].profiles[p], policyV3'.profiles[p])
      BY <1>1 DEF ConnectionsInv, CopiesAreOld
    <2>1. /\ copies[h] # None /\ copies'[h].version = copies[h].version
          /\ copies'[h].profiles = copies[h].profiles
      BY <1>5, <1>8
    <2> QED BY <1>1, <2>1 DEF ConnectionsInv, CopiesAreOld
  <1>10. RoutesKept
    BY <1>1 DEF RoutesKept
  <1> QED BY <1>6, <1>7, <1>9, <1>10 DEF ConnectionsInv

LEMMA RemoveLegacyKeeps ==
  ASSUME ConnectionsInv, NEW g \in Pages, NEW p \in Profiles, RemoveLegacy(g, p)
  PROVE  ConnectionsInv' /\ RoutesKept
  <1> DEFINE q == [Working(g) EXCEPT !.profiles[p] = None, !.assigned = @ \ {p}]
  <1>1. Persist(g, q) /\ VersionRead(copies[g]) = VersionRead(policyV3) /\ Working(g).profiles[p].kind = "legacy-manual"
        /\ Working(g).profiles[p] # None
    BY DEF RemoveLegacy, Persist, Saves
  <1>2. /\ Working(g) \in PolicyV3
        /\ policyV3 # None => \A r \in Profiles : SameRoute(Working(g).profiles[r], policyV3.profiles[r])
    BY <1>1, WorkingIsCurrent
  <1>4. Working(g).profiles \in [Profiles -> RoutingProfile \cup {None}] /\ Working(g).assigned \subseteq Profiles
    BY <1>2 DEF PolicyV3
  <1>5. /\ q = [Working(g) EXCEPT !.profiles = [Working(g).profiles EXCEPT ![p] = None], !.assigned = Working(g).assigned \ {p}]
        /\ [Working(g).profiles EXCEPT ![p] = None] \in [Profiles -> RoutingProfile \cup {None}]
    BY <1>2, <1>4 DEF PolicyV3
  <1>6. q \in PolicyV3 /\ q.profiles = [Working(g).profiles EXCEPT ![p] = None]
    BY <1>2, <1>4, <1>5 DEF PolicyV3
  <1>7. policyV3 # None => RoutesStay(policyV3, q)
    <2> SUFFICES ASSUME policyV3 # None, NEW r \in Profiles PROVE RouteStays(policyV3.profiles[r], q.profiles[r])
      BY DEF RoutesStay
    <2> HIDE DEF q
    <2>1. CASE r = p
      BY <1>1, <1>2, <2>1 DEF SameRoute, RouteStays
    <2>2. CASE r # p
      BY <1>2, <1>4, <1>6, <2>2 DEF SameRoute, RouteStays
    <2> QED BY <2>1, <2>2
  <1> HIDE DEF q
  <1> QED BY <1>1, <1>6, <1>7, PersistKeeps

LEMMA ValidateKeeps ==
  ASSUME ConnectionsInv, NEW p \in Profiles, NEW offered \in BOOLEAN, ValidateProfile(p, offered)
  PROVE  ConnectionsInv' /\ RoutesKept
  <1> DEFINE profile == policyV3.profiles[p]
             found(ready) == [profile EXCEPT !.enabled = ready /\ @, !.readiness = IF ready THEN "ready" ELSE "unavailable"]
             q(ready) == [policyV3 EXCEPT !.profiles[p] = found(ready)]
  <1>1. PICK ready \in BOOLEAN : policyV3' = Stamped(q(ready)) /\ Version(policyV3) < MaxVersion
    BY DEF ValidateProfile, Saves, ProfileReady
  <1>2. policyV3 # None /\ profile # None
        /\ UNCHANGED <<connections, catalogs, copies, refreshes, key, oauth, calls, undone>>
    BY DEF ValidateProfile
  <1>3. policyV3 \in PolicyV3 /\ policyV3.profiles \in [Profiles -> RoutingProfile \cup {None}] /\ profile \in RoutingProfile
    BY <1>2 DEF ConnectionsInv, RoutingConnectionsTypeOK, PolicyV3
  <1>4. found(ready) \in RoutingProfile /\ found(ready).connection = profile.connection /\ found(ready) # None
    BY <1>3, ConnectionConstants DEF RoutingProfile
  <1> HIDE DEF found
  <1>5. /\ q(ready) = [policyV3 EXCEPT !.profiles = [policyV3.profiles EXCEPT ![p] = found(ready)]]
        /\ [policyV3.profiles EXCEPT ![p] = found(ready)] \in [Profiles -> RoutingProfile \cup {None}]
    BY <1>3, <1>4 DEF PolicyV3
  <1>6. q(ready) \in PolicyV3 /\ q(ready).profiles = [policyV3.profiles EXCEPT ![p] = found(ready)]
    BY <1>3, <1>5 DEF PolicyV3
  <1> HIDE DEF q
  <1>7. ConnectionsInv' /\ Stamped(q(ready)).profiles = q(ready).profiles
    BY <1>1, <1>2, <1>6, SavesKeep, StampedTyped
  <1>8. RoutesKept
    BY <1>1, <1>3, <1>4, <1>6, <1>7 DEF RoutesKept
  <1> QED BY <1>7, <1>8

LEMMA ReloadKeeps ==
  ASSUME ConnectionsInv, NEW g \in Pages, Reload(g)
  PROVE  ConnectionsInv' /\ RoutesKept
  <1>1. /\ copies' = [copies EXCEPT ![g] = policyV3]
        /\ UNCHANGED <<connections, catalogs, policyV3, refreshes, key, oauth, calls, undone>>
    BY DEF Reload
  <1>2. copies \in [Pages -> PolicyV3 \cup {None}] /\ policyV3 \in PolicyV3 \cup {None}
    BY DEF ConnectionsInv, RoutingConnectionsTypeOK
  <1>3. RoutingConnectionsTypeOK'
    <2>1. copies' \in [Pages -> PolicyV3 \cup {None}]
      BY <1>1, <1>2
    <2> QED BY <1>1, <2>1 DEF ConnectionsInv, RoutingConnectionsTypeOK
  <1>4. EnabledIsBacked' /\ CallsAreShaped' /\ KeyBacksReady'
    BY <1>1 DEF ConnectionsInv, EnabledIsBacked, CallsAreShaped, KeyBacksReady, KeyOrRemoval
  <1>5. policyV3 # None => policyV3.version \in Nat
    BY <1>2 DEF PolicyV3
  <1>6. CopiesAreOld'
    BY <1>1, <1>2, <1>5 DEF ConnectionsInv, CopiesAreOld, SameRoute
  <1>7. RoutesKept
    BY <1>1 DEF RoutesKept
  <1> QED BY <1>3, <1>4, <1>6, <1>7 DEF ConnectionsInv

-----------------------------------------------------------------------------
(* Steps of the authorization.                                             *)
OauthRecord == [state : {"idle", "pending", "ready", "failed", "cancelled"}, server : 0..MaxAttempts \cup {None},
                changed : BOOLEAN, begun : 0..MaxAttempts]
CallRecord == [op : {"begin", "callback", "revoke"},
               step : {"listen", "exchange", "set", "delete", "stored", "deleted"}, attempt : 0..MaxAttempts]

\* A step of the authorization and of the secret store.
LEMMA AuthorizationSteps ==
  ASSUME ConnectionsInv, UNCHANGED <<connections, catalogs, policyV3, copies, refreshes, undone>>,
         oauth' \in OauthRecord, calls' \subseteq CallRecord, key' \in BOOLEAN, CallsAreShaped',
         KeyOrRemoval => KeyOrRemoval', oauth'.state = "ready" => oauth.state = "ready" \/ KeyOrRemoval'
  PROVE  ConnectionsInv'
  <1>1. RoutingConnectionsTypeOK'
    BY DEF ConnectionsInv, RoutingConnectionsTypeOK, OauthRecord, CallRecord
  <1>2. EnabledIsBacked' /\ KeyBacksReady' /\ CopiesAreOld'
    BY DEF ConnectionsInv, EnabledIsBacked, KeyBacksReady, CopiesAreOld
  <1> QED BY <1>1, <1>2 DEF ConnectionsInv

LEMMA AuthorizationTyped ==
  ASSUME ConnectionsInv
  PROVE  /\ oauth \in OauthRecord /\ calls \subseteq CallRecord /\ key \in BOOLEAN
         /\ \A state \in {"idle", "pending", "ready", "failed", "cancelled"} :
              Closed(state) \in OauthRecord /\ Closed(state).state = state /\ Closed(state).begun = oauth.begun
         /\ \A c \in calls : \A step \in {"listen", "exchange", "set", "delete", "stored", "deleted"} :
              /\ [c EXCEPT !.step = step] \in CallRecord
              /\ [c EXCEPT !.step = step].op = c.op /\ [c EXCEPT !.step = step].step = step
  <1>1. oauth \in OauthRecord /\ calls \subseteq CallRecord /\ key \in BOOLEAN
    BY DEF ConnectionsInv, RoutingConnectionsTypeOK, OauthRecord, CallRecord
  <1>2. \A state \in {"idle", "pending", "ready", "failed", "cancelled"} :
          Closed(state) \in OauthRecord /\ Closed(state).state = state /\ Closed(state).begun = oauth.begun
    BY <1>1 DEF Closed, OauthRecord
  <1>3. ASSUME NEW c \in calls, NEW step \in {"listen", "exchange", "set", "delete", "stored", "deleted"}
        PROVE  /\ [c EXCEPT !.step = step] \in CallRecord
               /\ [c EXCEPT !.step = step].op = c.op /\ [c EXCEPT !.step = step].step = step
    BY <1>1 DEF CallRecord
  <1> QED BY <1>1, <1>2, <1>3

LEMMA BeginKeeps ==
  ASSUME ConnectionsInv, Begin
  PROVE  ConnectionsInv'
  <1> DEFINE state == IF oauth.state = "pending" THEN "cancelled" ELSE oauth.state
             next == [Closed(state) EXCEPT !.server = oauth.begun + 1, !.begun = @ + 1]
             call == Call("begin", "listen", oauth.begun + 1)
  <1>1. /\ oauth.begun < MaxAttempts /\ oauth' = next /\ calls' = calls \cup {call}
        /\ UNCHANGED <<connections, catalogs, policyV3, copies, refreshes, key, undone>>
    BY DEF Begin, Authorization
  <1>2. oauth \in OauthRecord /\ calls \subseteq CallRecord /\ key \in BOOLEAN
    BY AuthorizationTyped
  <1>3. oauth.state \in {"idle", "pending", "ready", "failed", "cancelled"} /\ oauth.begun \in 0..MaxAttempts
    BY <1>2 DEF OauthRecord
  <1>4. state \in {"idle", "pending", "ready", "failed", "cancelled"} /\ (state = "ready" => oauth.state = "ready")
    BY <1>3
  <1>5. oauth.begun + 1 \in 0..MaxAttempts
    BY <1>1, <1>3, ConnectionConstants
  <1> HIDE DEF state
  <1>6. Closed(state) \in OauthRecord /\ Closed(state).state = state /\ Closed(state).begun = oauth.begun
    BY <1>4, AuthorizationTyped
  <1>7. next \in OauthRecord /\ next.state = state
    BY <1>5, <1>6 DEF OauthRecord
  <1>8. call \in CallRecord /\ call.step = "listen"
    BY <1>5 DEF Call, CallRecord
  <1> HIDE DEF call, next
  <1>9. calls' \subseteq CallRecord /\ CallsAreShaped' /\ (KeyOrRemoval => KeyOrRemoval')
    BY <1>1, <1>2, <1>8 DEF ConnectionsInv, CallsAreShaped, KeyOrRemoval
  <1> QED BY <1>1, <1>2, <1>4, <1>7, <1>9, AuthorizationSteps

\* An authorization that is closed, with some calls over.
LEMMA ClosedKeeps ==
  ASSUME ConnectionsInv, NEW next, NEW left, left \subseteq calls, \A c \in calls \ left : c.step # "deleted",
         Authorization(next, left), next \in OauthRecord,
         next.state = "ready" => oauth.state = "ready" \/ KeyOrRemoval
  PROVE  ConnectionsInv'
  <1>1. /\ oauth' = next /\ calls' = left
        /\ UNCHANGED <<connections, catalogs, policyV3, copies, refreshes, key, undone>>
    BY DEF Authorization
  <1>2. calls \subseteq CallRecord /\ key \in BOOLEAN
    BY AuthorizationTyped
  <1>3. calls' \subseteq CallRecord /\ CallsAreShaped' /\ (KeyOrRemoval => KeyOrRemoval')
    BY <1>1, <1>2 DEF ConnectionsInv, CallsAreShaped, KeyOrRemoval
  <1> QED BY <1>1, <1>2, <1>3, AuthorizationSteps

LEMMA ClosingKeeps ==
  ASSUME ConnectionsInv,
         \/ Cancel \/ AuthorizationExpires \/ \E c \in calls : Listening(c) \/ CallbackStored(c) \/ Exchanged(c, FALSE)
  PROVE  ConnectionsInv'
  <1> DEFINE states == {"idle", "pending", "ready", "failed", "cancelled"}
  <1>1. /\ oauth \in OauthRecord /\ oauth.state \in states
        /\ \A state \in states : Closed(state) \in OauthRecord /\ Closed(state).state = state
    BY AuthorizationTyped DEF OauthRecord
  <1>2. calls \subseteq calls /\ \A c \in calls \ calls : c.step # "deleted"
    OBVIOUS
  <1>3. CASE Cancel
    <2>1. PICK state \in states : (state = "ready" => oauth.state = "ready") /\ Authorization(Closed(state), calls)
      BY <1>1, <1>3 DEF Cancel
    <2> QED BY <1>1, <1>2, <2>1, ClosedKeeps
  <1>4. CASE AuthorizationExpires
    BY <1>1, <1>2, <1>4, ClosedKeeps DEF AuthorizationExpires
  <1>5. ASSUME NEW c \in calls, Listening(c) \/ CallbackStored(c) \/ Exchanged(c, FALSE) PROVE ConnectionsInv'
    <2>1. CASE Listening(c)
      <3>1. [oauth EXCEPT !.state = "pending", !.changed = FALSE] \in OauthRecord
            /\ [oauth EXCEPT !.state = "pending", !.changed = FALSE].state = "pending"
        BY <1>1 DEF OauthRecord
      <3>2. PICK next \in OauthRecord : Authorization(next, calls \ {c}) /\ (next.state = "ready" => oauth.state = "ready")
        BY <1>1, <2>1, <3>1 DEF Listening
      <3>3. c.step = "listen"
        BY <2>1 DEF Listening
      <3> QED BY <3>2, <3>3, ClosedKeeps
    <2>2. CASE CallbackStored(c)
      <3> DEFINE next == [Closed("ready") EXCEPT !.changed = TRUE]
      <3>1. Closed("ready") \in OauthRecord
        BY <1>1
      <3>2. next \in OauthRecord
        BY <3>1 DEF OauthRecord
      <3>3. c.step = "stored" /\ Authorization(next, calls \ {c}) /\ KeyOrRemoval
        BY <2>2 DEF CallbackStored, ConnectionsInv, CallsAreShaped, KeyOrRemoval
      <3> HIDE DEF next
      <3> QED BY <3>2, <3>3, ClosedKeeps
    <2>3. CASE Exchanged(c, FALSE)
      <3>1. c.step = "exchange" /\ Authorization(Closed("failed"), calls \ {c})
        BY <2>3 DEF Exchanged
      <3> QED BY <1>1, <3>1, ClosedKeeps
    <2> QED BY <1>5, <2>1, <2>2, <2>3
  <1> QED BY <1>3, <1>4, <1>5

LEMMA CallbackKeeps ==
  ASSUME ConnectionsInv, Callback
  PROVE  ConnectionsInv'
  <1>1. /\ oauth \in OauthRecord /\ calls \subseteq CallRecord /\ key \in BOOLEAN
        /\ Closed("failed") \in OauthRecord /\ Closed("failed").state = "failed"
    BY AuthorizationTyped
  <1>2. CASE Authorization(Closed("failed"), calls)
    <2>1. calls \subseteq calls /\ \A c \in calls \ calls : c.step # "deleted"
      OBVIOUS
    <2> QED BY <1>1, <1>2, <2>1, ClosedKeeps
  <1>3. CASE oauth.server # None /\ Authorization(oauth, calls \cup {Call("callback", "exchange", oauth.server)})
    <2>1. Call("callback", "exchange", oauth.server) \in CallRecord
      BY <1>1, <1>3 DEF Call, CallRecord, OauthRecord
    <2>2. Call("callback", "exchange", oauth.server).step = "exchange"
      BY DEF Call
    <2>3. /\ oauth' = oauth /\ calls' = calls \cup {Call("callback", "exchange", oauth.server)}
          /\ UNCHANGED <<connections, catalogs, policyV3, copies, refreshes, key, undone>>
      BY <1>3 DEF Authorization
    <2>4. calls' \subseteq CallRecord /\ CallsAreShaped' /\ (KeyOrRemoval => KeyOrRemoval')
      BY <1>1, <2>1, <2>2, <2>3 DEF ConnectionsInv, CallsAreShaped, KeyOrRemoval
    <2> QED BY <1>1, <2>3, <2>4, AuthorizationSteps
  <1> QED BY <1>2, <1>3 DEF Callback

\* A call goes on to its next step.
LEMMA NextStepKeeps ==
  ASSUME ConnectionsInv, NEW c \in calls, NEW step \in {"set", "stored", "deleted"},
         step = "set" => c.step = "exchange" /\ key' = key,
         step = "stored" => c.step = "set" /\ key' = TRUE,
         step = "deleted" => c.step = "delete" /\ key' = FALSE /\ StoreIsFree,
         oauth' = oauth, calls' = Next1(c, step),
         UNCHANGED <<connections, catalogs, policyV3, copies, refreshes, undone>>
  PROVE  ConnectionsInv'
  <1> DEFINE d == [c EXCEPT !.step = step]
  <1>0. step \in {"listen", "exchange", "set", "delete", "stored", "deleted"}
    OBVIOUS
  <1>1. /\ oauth \in OauthRecord /\ calls \subseteq CallRecord /\ key \in BOOLEAN
        /\ d \in CallRecord /\ d.op = c.op /\ d.step = step
    BY <1>0, AuthorizationTyped
  <1>2. calls' = (calls \ {c}) \cup {d}
    BY DEF Next1
  <1> HIDE DEF d
  <1>3. calls' \subseteq CallRecord /\ key' \in BOOLEAN
    BY <1>1, <1>2
  <1>4. CallsAreShaped'
    BY <1>1, <1>2 DEF ConnectionsInv, CallsAreShaped, StoreIsFree
  <1>5. KeyOrRemoval => KeyOrRemoval'
    BY <1>1, <1>2 DEF KeyOrRemoval
  <1> QED BY <1>1, <1>3, <1>4, <1>5, AuthorizationSteps

LEMMA StoreKeeps ==
  ASSUME ConnectionsInv, NEW c \in calls, Exchanged(c, TRUE) \/ StoreKey(c) \/ DeleteKey(c)
  PROVE  ConnectionsInv'
  <1>1. oauth \in OauthRecord /\ Closed("failed") \in OauthRecord /\ Closed("failed").state = "failed"
    BY AuthorizationTyped
  <1>2. CASE Exchanged(c, TRUE)
    BY <1>2, NextStepKeeps DEF Exchanged, Authorization
  <1>3. CASE StoreKey(c)
    <2>1. CASE key' = TRUE /\ calls' = Next1(c, "stored")
            /\ UNCHANGED <<connections, catalogs, policyV3, copies, refreshes, oauth, undone>>
      BY <1>3, <2>1, NextStepKeeps DEF StoreKey
    <2>2. CASE Authorization(Closed("failed"), calls \ {c})
      BY <1>1, <1>3, <2>2, ClosedKeeps DEF StoreKey
    <2> QED BY <1>3, <2>1, <2>2 DEF StoreKey
  <1>4. CASE DeleteKey(c)
    <2>1. CASE key' = FALSE /\ calls' = Next1(c, "deleted")
            /\ UNCHANGED <<connections, catalogs, policyV3, copies, refreshes, oauth, undone>>
      BY <1>4, <2>1, NextStepKeeps DEF DeleteKey
    <2>2. CASE Authorization(oauth, calls \ {c})
      BY <1>1, <1>4, <2>2, ClosedKeeps DEF DeleteKey
    <2> QED BY <1>4, <2>1, <2>2 DEF DeleteKey
  <1> QED BY <1>2, <1>3, <1>4

LEMMA StartRevokeKeeps ==
  ASSUME ConnectionsInv, StartRevoke
  PROVE  ConnectionsInv'
  <1> DEFINE call == Call("revoke", "delete", 0)
  <1>1. oauth \in OauthRecord /\ calls \subseteq CallRecord /\ key \in BOOLEAN
    BY AuthorizationTyped
  <1>2. 0 \in 0..MaxAttempts
    BY ConnectionConstants
  <1>3. call \in CallRecord /\ call.op = "revoke" /\ call.step = "delete"
    BY <1>2 DEF Call, CallRecord
  <1>4. /\ oauth' = oauth /\ calls' = calls \cup {call}
        /\ UNCHANGED <<connections, catalogs, policyV3, copies, refreshes, key, undone>>
    BY DEF StartRevoke, Authorization
  <1> HIDE DEF call
  <1>5. calls' \subseteq CallRecord /\ CallsAreShaped' /\ (KeyOrRemoval => KeyOrRemoval')
    BY <1>1, <1>3, <1>4 DEF ConnectionsInv, CallsAreShaped, KeyOrRemoval
  <1> QED BY <1>1, <1>4, <1>5, AuthorizationSteps

\* OpenRouter is disconnected: what was known of its key is forgotten.
LEMMA DisconnectSteps ==
  ASSUME ConnectionsInv, DisconnectAdapter(OpenRouter), copies' = copies, key' = key,
         oauth' \in OauthRecord, calls' \subseteq calls,
         oauth'.state = "ready" => KeyOrRemoval'
  PROVE  ConnectionsInv'
  <1>1. OpenRouter \in Engines
    BY ConnectionConstants
  <1>2. /\ connections' \in [Engines -> Connection \cup {None}]
        /\ catalogs' \in [Engines -> {None, "fresh", "expired"}]
        /\ policyV3' \in PolicyV3 \cup {None} /\ undone' \subseteq Engines
        /\ refreshes' \subseteq [engine : Engines, step : {"detect", "models"}, overtaken : BOOLEAN]
        /\ EnabledIsBacked'
        /\ connections'[OpenRouter] # None => connections'[OpenRouter].authState = "required"
    BY <1>1, DisconnectKeeps
  <1>3. RoutingConnectionsTypeOK'
    BY <1>2 DEF ConnectionsInv, RoutingConnectionsTypeOK, OauthRecord
  <1>4. CopiesAreOld'
    <2>1. /\ policyV3' = None <=> policyV3 = None
          /\ policyV3 # None => /\ policyV3'.version = policyV3.version
                               /\ \A p \in Profiles : SameRoute(policyV3.profiles[p], policyV3'.profiles[p])
      BY <1>1, DisconnectKeeps
    <2> QED BY <2>1, CopiesStayOld DEF ConnectionsInv
  <1>5. CallsAreShaped' /\ KeyBacksReady'
    BY <1>2 DEF ConnectionsInv, CallsAreShaped, KeyBacksReady
  <1> QED BY <1>2, <1>3, <1>4, <1>5 DEF ConnectionsInv

\* Its routes stay, though the profiles are to be checked again.
LEMMA DisconnectRoutes ==
  ASSUME ConnectionsInv, DisconnectAdapter(OpenRouter)
  PROVE  RoutesKept
  <1>1. policyV3 # None => \A p \in Profiles : SameRoute(policyV3.profiles[p], policyV3'.profiles[p])
    BY ConnectionConstants, DisconnectKeeps
  <1> QED BY <1>1 DEF RoutesKept, SameRoute

LEMMA PollKeeps ==
  ASSUME ConnectionsInv, PollStatus \/ \E c \in calls : FinishRevoke(c)
  PROVE  ConnectionsInv' /\ RoutesKept
  <1>1. oauth \in OauthRecord /\ Closed("idle") \in OauthRecord /\ Closed("idle").state = "idle"
    BY AuthorizationTyped
  <1>2. CASE PollStatus
    <2>1. [oauth EXCEPT !.changed = FALSE] \in OauthRecord
      BY <1>1 DEF OauthRecord
    <2>2. KeyOrRemoval /\ calls' = calls /\ key' = key
      BY <1>2 DEF PollStatus, ConnectionsInv, KeyBacksReady
    <2>3. KeyOrRemoval'
      BY <2>2 DEF KeyOrRemoval
    <2> QED BY <1>2, <2>1, <2>2, <2>3, DisconnectSteps, DisconnectRoutes DEF PollStatus
  <1>3. ASSUME NEW c \in calls, FinishRevoke(c) PROVE ConnectionsInv' /\ RoutesKept
    BY <1>1, <1>3, DisconnectSteps, DisconnectRoutes DEF FinishRevoke
  <1> QED BY <1>2, <1>3

LEMMA RestartKeeps ==
  ASSUME ConnectionsInv, RoutingRestart
  PROVE  ConnectionsInv'
  <1>1. oauth \in OauthRecord /\ undone \subseteq Engines /\ OpenRouter \in Engines
    BY AuthorizationTyped, ConnectionConstants DEF ConnectionsInv, RoutingConnectionsTypeOK
  <1>2. [Idle EXCEPT !.begun = oauth.begun] \in OauthRecord /\ [Idle EXCEPT !.begun = oauth.begun].state = "idle"
    BY <1>1 DEF OauthRecord, Idle
  <1>3. /\ oauth' = [Idle EXCEPT !.begun = oauth.begun] /\ calls' = {} /\ refreshes' = {}
        /\ UNCHANGED <<connections, catalogs, policyV3, copies, key>>
        /\ undone' = undone \cup {e \in {OpenRouter} : \E c \in calls : c.step = "deleted"}
    BY DEF RoutingRestart
  <1>4. RoutingConnectionsTypeOK'
    BY <1>1, <1>2, <1>3 DEF ConnectionsInv, RoutingConnectionsTypeOK, OauthRecord
  <1>5. EnabledIsBacked' /\ CallsAreShaped' /\ CopiesAreOld'
    BY <1>3 DEF ConnectionsInv, EnabledIsBacked, CallsAreShaped, CopiesAreOld
  <1>6. KeyBacksReady'
    BY <1>2, <1>3 DEF ConnectionsInv, KeyBacksReady, KeyOrRemoval
  <1> QED BY <1>4, <1>5, <1>6 DEF ConnectionsInv

-----------------------------------------------------------------------------
\* A step of the connections keeps the invariant and the routes of the policy.
LEMMA ConnectionsStep ==
  ASSUME ConnectionsInv, [RoutingConnectionsNext]_connectionVars
  PROVE  ConnectionsInv' /\ RoutesKept
  <1>1. ASSUME policyV3' = policyV3 PROVE RoutesKept
    BY <1>1 DEF RoutesKept
  <1>2. CASE UNCHANGED connectionVars
    <2>1. UNCHANGED <<connections, catalogs, policyV3, copies, refreshes, key, oauth, calls, undone>>
      BY <1>2 DEF connectionVars
    <2> QED BY <1>1, <2>1, ConnectionSteps
          DEF ConnectionsInv, RoutingConnectionsTypeOK, EnabledIsBacked, PolicySame, AuthorizationSame
  <1>3. CASE Discover \/ \E e \in Engines : StartRefresh(e) \/ SetEnabled(e, TRUE) \/ SetEnabled(e, FALSE) \/ CatalogExpires(e)
    <2>1. policyV3' = policyV3
      BY <1>3 DEF Discover, StartRefresh, SetEnabled, CatalogExpires
    <2> QED BY <1>1, <1>3, <2>1, EngineKeeps, ConnectionConstants
  <1>4. CASE \E r \in refreshes : CheckAuthentication(r) \/ ListModels(r) \/ AbandonRefresh(r)
    <2>1. policyV3' = policyV3
      BY <1>4 DEF CheckAuthentication, ListModels, AbandonRefresh, GoesOnRefreshing, Refreshed
    <2> QED BY <1>1, <1>4, <2>1, RefreshKeeps
  <1>5. CASE \E g \in Pages : \/ Reload(g)
                              \/ \E p \in Profiles, e \in Engines : AddProfile(g, p, e)
                              \/ \E some \in SUBSET Profiles : EditAssignments(g, some)
                              \/ SaveAssignments(g)
                              \/ \E p \in Profiles : RemoveLegacy(g, p)
    BY <1>5, ReloadKeeps, AddProfileKeeps, EditAssignmentsKeeps, AssignmentsKeep, RemoveLegacyKeeps
  <1>6. CASE \E p \in Profiles, offered \in BOOLEAN : ValidateProfile(p, offered)
    BY <1>6, ValidateKeeps
  <1>7. CASE Begin \/ Cancel \/ AuthorizationExpires \/ Callback \/ StartRevoke \/ RoutingRestart
    <2>1. policyV3' = policyV3
      BY <1>7 DEF Begin, Cancel, AuthorizationExpires, Callback, StartRevoke, RoutingRestart, Authorization
    <2> QED BY <1>1, <1>7, <2>1, BeginKeeps, ClosingKeeps, CallbackKeeps, StartRevokeKeeps, RestartKeeps
  <1>8. CASE PollStatus
    BY <1>8, PollKeeps
  <1>9. CASE \E c \in calls : Listening(c) \/ Exchanged(c, TRUE) \/ Exchanged(c, FALSE) \/ StoreKey(c) \/ CallbackStored(c)
                      \/ DeleteKey(c) \/ FinishRevoke(c)
    <2>1. PICK c \in calls : Listening(c) \/ Exchanged(c, TRUE) \/ Exchanged(c, FALSE) \/ StoreKey(c) \/ CallbackStored(c)
                      \/ DeleteKey(c) \/ FinishRevoke(c)
      BY <1>9
    <2>2. CASE FinishRevoke(c)
      BY <2>2, PollKeeps
    <2>3. CASE ~FinishRevoke(c)
      <3>1. policyV3' = policyV3
        BY <2>1, <2>3 DEF Listening, Exchanged, StoreKey, CallbackStored, DeleteKey, Authorization
      <3> QED BY <1>1, <2>1, <2>3, <3>1, ClosingKeeps, StoreKeeps
    <2> QED BY <2>2, <2>3
  <1> QED BY <1>2, <1>3, <1>4, <1>5, <1>6, <1>7, <1>8, <1>9 DEF RoutingConnectionsNext

\* In every scene.
LEMMA ConnectionsHold == ScenesSpec => []ConnectionsInv
  <1>1. ScenesInit => ConnectionsInv
    BY ConnectionsInit DEF ScenesInit
  <1>2. ConnectionsInv /\ [ScenesNext]_scenesVars => ConnectionsInv'
    BY ScenesStep, ConnectionsStep
  <1> QED BY <1>1, <1>2, PTL DEF ScenesSpec

\* What is enabled was checked, and what needs a key has it (routing-connections.ts,
\* openrouter-oauth.ts), as far as ShownIsBacked is about the connections.
LEMMA ConnectionsBacked ==
  ASSUME ConnectionsInv
  PROVE  EnabledIsBacked /\ EnabledHasKey /\ ReadyHasKey
  <1>1. KeyOrRemoval => key \/ \E c \in calls : c.op = "revoke"
    BY DEF ConnectionsInv, CallsAreShaped, KeyOrRemoval
  <1>2. EnabledIsBacked /\ ReadyHasKey
    BY <1>1 DEF ConnectionsInv, KeyBacksReady, ReadyHasKey
  <1>3. EnabledHasKey
    BY <1>1, <1>2, ConnectionConstants DEF ConnectionsInv, KeyBacksReady, EnabledHasKey, EnabledIsBacked
  <1> QED BY <1>2, <1>3

-----------------------------------------------------------------------------
(* The guided setup.                                                       *)

\* A policy that is held is of a version before, or the current one.
OldSetup(p) == p # None =>
  /\ p.version >= 1 /\ p.version <= SetupVersion(setup)
  /\ p.version = SetupVersion(setup) => p = setup

\* Its profiles are called ready where a check found them so, and by hand is not automatic.
Sound(p) == p # None => \A id \in GuideIds : p.profiles[id] # None =>
  /\ p.profiles[id].readiness = "ready" => <<id, p.profiles[id].config>> \in checked
  /\ p.profiles[id].mode = "auto-exact" => p.profiles[id].config # ByHand
Held(p) == OldSetup(p) /\ Sound(p)

\* A policy that takes nothing from another and differs from it in one profile at the most.
Extending(p, q) ==
  /\ ProfilesOf(p) \subseteq ProfilesOf(q) /\ ToSet(p.order) \subseteq ToSet(q.order)
  /\ \E id \in GuideIds : \A i \in GuideIds \ {id} : q.profiles[i] = p.profiles[i]
Edits(q) ==
  /\ q # None /\ q.version <= SetupVersion(setup)
  /\ setup # None /\ q.version = SetupVersion(setup) => Extending(setup, q)

\* What is sent with a call, and what was read for it, is of its time.
CheckHolds(c) ==
  /\ c.sent # None /\ c.id # None /\ OldSetup(c.sent)
  /\ c.step = "checking" => c.answer # None /\ c.answer.profiles[c.id] # None /\ c.sent.version <= c.answer.version
CallHolds(c) ==
  /\ Held(c.answer) /\ Sound(c.sent)
  /\ c.step = "answered" => c.page # None
  /\ c.kind = "save" => c.id # None
  /\ c.kind \in {"save", "move"} => Edits(c.sent)
  /\ c.kind = "validate" => CheckHolds(c)
  /\ c.kind \in {"preview", "commit"} => c.sent = Legacy

SetupHolds == Held(setup) /\ (setup # None => ValidSetup(setup))

\* The inductive invariant.
GuidedInv ==
  /\ GuidedTypeOK /\ Placed \in legacyRoutes
  /\ SetupHolds /\ Held(migratedSetup)
  /\ \A g \in Guides : Held(guides[g].policy)
  /\ \A c \in guideCalls : CallHolds(c)

\* A call that is asked is a call.
LEMMA AskTyped ==
  ASSUME NEW g \in Guides, NEW kind \in {"open", "reload", "save", "move", "validate", "preview", "commit"},
         NEW sent \in Setup \cup {None}, NEW id \in GuideIds \cup {None}
  PROVE  /\ Ask(g, kind, sent, id) \in GuideCall
         /\ Ask(g, kind, sent, id).kind = kind /\ Ask(g, kind, sent, id).sent = sent
         /\ Ask(g, kind, sent, id).id = id /\ Ask(g, kind, sent, id).step = "asked"
         /\ Ask(g, kind, sent, id).answer = None
  BY DEF Ask, GuideCall

LEMMA NothingHeld == Held(None) /\ Sound(None)
  BY DEF Held, OldSetup, Sound

LEMMA GuidedStart == GuidedInit => GuidedInv
  <1> SUFFICES ASSUME GuidedInit PROVE GuidedInv
    OBVIOUS
  <1>1. /\ Placed \in legacyRoutes /\ legacyRoutes \subseteq {Placed, Unplaced}
        /\ setup = None /\ migratedSetup = None /\ checked = {}
        /\ guides = [g \in Guides |-> [policy |-> None, saved |-> None, previewed |-> FALSE]]
        /\ guideCalls = {Ask(g, "open", None, None) : g \in Guides}
    BY DEF GuidedInit
  <1>2. \A g \in Guides : /\ Ask(g, "open", None, None) \in GuideCall /\ Ask(g, "open", None, None).kind = "open"
                          /\ Ask(g, "open", None, None).sent = None /\ Ask(g, "open", None, None).answer = None
                          /\ Ask(g, "open", None, None).step = "asked"
    BY AskTyped
  <1>3. guides \in [Guides -> Guide]
    <2>1. [policy |-> None, saved |-> None, previewed |-> FALSE] \in Guide
      BY DEF Guide
    <2> QED BY <1>1, <2>1
  <1>4. GuidedTypeOK
    BY <1>1, <1>2, <1>3 DEF GuidedTypeOK
  <1>5. \A c \in guideCalls : CallHolds(c)
    BY <1>1, <1>2, NothingHeld DEF CallHolds
  <1>6. SetupHolds /\ Held(migratedSetup) /\ \A g \in Guides : Held(guides[g].policy)
    BY <1>1, NothingHeld DEF SetupHolds
  <1> QED BY <1>1, <1>4, <1>5, <1>6 DEF GuidedInv

\* A policy has its version, its profiles and its order.
LEMMA SetupTyped ==
  ASSUME NEW p \in Setup
  PROVE  /\ p # None /\ p.version \in 0..MaxSetups /\ p.version \in Nat /\ SetupVersion(p) = p.version
         /\ p.profiles \in [GuideIds -> ExecutionProfile \cup {None}] /\ p.order \in Seq(GuideIds)
  <1>1. p # None
    BY GuidedConstants
  <1>2. p.version \in 0..MaxSetups /\ p.profiles \in [GuideIds -> ExecutionProfile \cup {None}] /\ p.order \in Seq(GuideIds)
    BY DEF Setup
  <1> QED BY <1>1, <1>2, GuidedConstants DEF SetupVersion

-----------------------------------------------------------------------------
(* What was held stays so.                                                 *)

\* The policy stays or has a later version, and what was checked stays checked.
GoesOn ==
  /\ checked \subseteq checked' /\ legacyRoutes' = legacyRoutes
  /\ setup' = setup \/ (setup' \in Setup /\ setup'.version > SetupVersion(setup))

LEMMA VersionTyped ==
  ASSUME GuidedInv
  PROVE  setup \in Setup \cup {None} /\ SetupVersion(setup) \in Nat
  BY SetupTyped DEF GuidedInv, GuidedTypeOK, SetupVersion

LEMMA HeldStays ==
  ASSUME GuidedInv, GoesOn, NEW p \in Setup \cup {None}
  PROVE  /\ OldSetup(p) => OldSetup(p)'
         /\ Sound(p) => Sound(p)'
         /\ Held(p) => Held(p)'
         /\ Edits(p) => Edits(p)'
  <1>1. SetupVersion(setup) \in Nat /\ setup \in Setup \cup {None}
    BY VersionTyped
  <1>2. Sound(p) => Sound(p)'
    BY DEF Sound, GoesOn
  <1>3. CASE setup' = setup
    <2>1. SetupVersion(setup)' = SetupVersion(setup)
      BY <1>3 DEF SetupVersion
    <2>2. (OldSetup(p) => OldSetup(p)') /\ (Edits(p) => Edits(p)')
      BY <1>3, <2>1 DEF OldSetup, Edits
    <2> QED BY <1>2, <2>2 DEF Held
  <1>4. CASE setup' # setup
    <2>1. /\ setup' \in Setup /\ setup'.version > SetupVersion(setup) /\ setup' # None
          /\ SetupVersion(setup)' = setup'.version /\ setup'.version \in Nat
      BY <1>4, SetupTyped DEF GoesOn, SetupVersion
    <2>2. p # None => p.version \in Nat
      BY SetupTyped
    <2>3. (OldSetup(p) => OldSetup(p)') /\ (Edits(p) => Edits(p)')
      BY <1>1, <2>1, <2>2 DEF OldSetup, Edits
    <2> QED BY <1>2, <2>3 DEF Held
  <1> QED BY <1>3, <1>4

LEMMA CallStays ==
  ASSUME GuidedInv, GoesOn, NEW c \in GuideCall, CallHolds(c)
  PROVE  CallHolds(c)'
  <1>1. c.answer \in Setup \cup {None} /\ c.sent \in Setup \cup {None}
    BY DEF GuideCall
  <1>2. /\ Held(c.answer)' /\ Sound(c.sent)'
        /\ OldSetup(c.sent) => OldSetup(c.sent)'
        /\ Edits(c.sent) => Edits(c.sent)'
    BY <1>1, HeldStays DEF CallHolds
  <1>3. Legacy' = Legacy
    BY DEF Legacy, GoesOn
  <1>4. CheckHolds(c) => CheckHolds(c)'
    BY <1>2 DEF CheckHolds
  <1> QED BY <1>2, <1>3, <1>4 DEF CallHolds

\* A step whose policy goes on, and whose new calls hold.
LEMMA GuidedSteps ==
  ASSUME GuidedInv, GoesOn, GuidedTypeOK', SetupHolds', Held(migratedSetup)',
         \A g \in Guides : Held(guides[g].policy)',
         \A c \in guideCalls' \ guideCalls : CallHolds(c)'
  PROVE  GuidedInv'
  <1>1. \A c \in guideCalls : CallHolds(c)'
    BY CallStays DEF GuidedInv, GuidedTypeOK
  <1>2. (\A c \in guideCalls : CallHolds(c))'
    BY <1>1
  <1> QED BY <1>2 DEF GuidedInv, GoesOn

\* A step of the pages alone.
LEMMA PageSteps ==
  ASSUME GuidedInv, UNCHANGED <<setup, legacyRoutes, migratedSetup, checked>>,
         guides' \in [Guides -> Guide], \A g \in Guides : Held(guides'[g].policy),
         guideCalls' \subseteq GuideCall, \A c \in guideCalls' \ guideCalls : CallHolds(c)
  PROVE  GuidedInv'
  <1>1. GoesOn
    BY DEF GoesOn
  <1>2. GuidedTypeOK'
    BY DEF GuidedInv, GuidedTypeOK
  <1>3. /\ setup \in Setup \cup {None} /\ migratedSetup \in Setup \cup {None}
        /\ \A g \in Guides : guides'[g].policy \in Setup \cup {None}
    BY DEF GuidedInv, GuidedTypeOK, Guide
  <1>4. SetupHolds'
    BY DEF GuidedInv, SetupHolds, Held, OldSetup, Sound, SetupVersion, ValidSetup
  <1>5. Held(migratedSetup)'
    BY DEF GuidedInv, Held, OldSetup, Sound, SetupVersion
  <1>6. \A g \in Guides : Held(guides[g].policy)'
    BY DEF Held, OldSetup, Sound, SetupVersion
  <1>7. ASSUME NEW c \in guideCalls' \ guideCalls PROVE CallHolds(c)'
    BY <1>1, CallStays
  <1> QED BY <1>1, <1>2, <1>4, <1>5, <1>6, <1>7, GuidedSteps

\* An answer puts a call that is answered in the place of one, or drops it with its page.
LEMMA AnsweredTyped ==
  ASSUME GuidedInv, NEW c \in guideCalls, NEW outcome \in {"ok", "conflict", "failed"}, NEW answer \in Setup \cup {None},
         AnsweredGuide(c, outcome, answer)
  PROVE  /\ guideCalls' \subseteq GuideCall
         /\ \A d \in guideCalls' \ guideCalls :
              /\ d \in GuideCall /\ d.page # None /\ d.step = "answered" /\ d.answer = answer
              /\ d.kind = c.kind /\ d.sent = c.sent /\ d.id = c.id
  <1> DEFINE d == [c EXCEPT !.step = "answered", !.outcome = outcome, !.answer = answer]
  <1>1. c \in GuideCall /\ guideCalls \subseteq GuideCall
    BY DEF GuidedInv, GuidedTypeOK
  <1>2. d \in GuideCall /\ d.page = c.page /\ d.step = "answered" /\ d.answer = answer
        /\ d.kind = c.kind /\ d.sent = c.sent /\ d.id = c.id
    BY <1>1 DEF GuideCall
  <1>3. \A e \in guideCalls' : e \in guideCalls \/ (e = d /\ c.page # None)
    BY DEF AnsweredGuide
  <1> HIDE DEF d
  <1> QED BY <1>1, <1>2, <1>3

\* The page asks the companion.
LEMMA AskKeeps ==
  ASSUME GuidedInv, NEW g \in Guides, NEW kind \in {"open", "reload", "save", "move", "validate", "preview", "commit"},
         NEW sent, sent \in Setup \cup {None}, NEW id, id \in GuideIds \cup {None}, AsksCompanion(g, kind, sent, id),
         Sound(sent), kind = "save" => id # None, kind \in {"save", "move"} => Edits(sent),
         kind = "validate" => sent # None /\ id # None /\ OldSetup(sent),
         kind \in {"preview", "commit"} => sent = Legacy
  PROVE  GuidedInv'
  <1> DEFINE c == Ask(g, kind, sent, id)
  <1>1. c \in GuideCall /\ c.kind = kind /\ c.sent = sent /\ c.id = id /\ c.step = "asked" /\ c.answer = None
    BY AskTyped
  <1>2. /\ guideCalls' = guideCalls \cup {c}
        /\ UNCHANGED <<setup, legacyRoutes, migratedSetup, guides, checked>>
    BY DEF AsksCompanion
  <1> HIDE DEF c
  <1>3. CallHolds(c)
    BY <1>1, NothingHeld DEF CallHolds, CheckHolds
  <1>4. guides \in [Guides -> Guide] /\ guideCalls \subseteq GuideCall /\ \A h \in Guides : Held(guides[h].policy)
    BY DEF GuidedInv, GuidedTypeOK
  <1> QED BY <1>1, <1>2, <1>3, <1>4, PageSteps

\* What a page shows: a policy, or none to start from.
LEMMA ShownTyped ==
  ASSUME GuidedInv, NEW g \in Guides
  PROVE  /\ guides[g].policy \in Setup \cup {None} /\ guides[g].saved \in GuideIds \cup {None}
         /\ Held(guides[g].policy)
         /\ Base(guides[g].policy) \in Setup
         /\ Sound(Base(guides[g].policy))
         /\ Base(guides[g].policy).version <= SetupVersion(setup)
         /\ setup # None /\ Base(guides[g].policy).version = SetupVersion(setup) => Base(guides[g].policy) = setup
  <1>1. guides[g] \in Guide /\ Held(guides[g].policy)
    BY DEF GuidedInv, GuidedTypeOK
  <1>2. guides[g].policy \in Setup \cup {None} /\ guides[g].saved \in GuideIds \cup {None}
    BY <1>1 DEF Guide
  <1>3. CASE guides[g].policy # None
    BY <1>1, <1>2, <1>3 DEF Base, Held, OldSetup
  <1>4. CASE guides[g].policy = None
    <2> DEFINE base == [version |-> 0, profiles |-> [id \in GuideIds |-> None], order |-> << >>]
    <2>1. base \in Setup
      <3>1. 0 \in 0..MaxSetups /\ [id \in GuideIds |-> None] \in [GuideIds -> ExecutionProfile \cup {None}] /\ << >> \in Seq(GuideIds)
        BY GuidedConstants
      <3> QED BY <3>1 DEF Setup
    <2>2. Base(guides[g].policy) = base
      BY <1>4 DEF Base
    <2>3. Sound(base)
      BY DEF Sound
    <2>4. SetupVersion(setup) \in Nat /\ (setup # None => SetupVersion(setup) >= 1)
      BY VersionTyped DEF GuidedInv, SetupHolds, Held, OldSetup, SetupVersion
    <2>5. base.version = 0
      OBVIOUS
    <2> HIDE DEF base
    <2> QED BY <1>1, <1>2, <2>1, <2>2, <2>3, <2>4, <2>5
  <1> QED BY <1>1, <1>2, <1>3, <1>4

\* Places that are added or exchanged empty none.
LEMMA AppendPlaces ==
  ASSUME NEW s \in Seq(GuideIds), NEW id \in GuideIds
  PROVE  Append(s, id) \in Seq(GuideIds) /\ ToSet(s) \subseteq ToSet(Append(s, id))
  BY DEF ToSet

LEMMA ExchangePlaces ==
  ASSUME NEW s \in Seq(GuideIds), NEW i \in 2..Len(s)
  PROVE  LET t == [s EXCEPT ![i] = s[i - 1], ![i - 1] = s[i]]
         IN t \in Seq(GuideIds) /\ ToSet(s) \subseteq ToSet(t)
  <1> DEFINE t == [s EXCEPT ![i] = s[i - 1], ![i - 1] = s[i]]
  <1>1. /\ s \in [1..Len(s) -> GuideIds] /\ Len(s) \in Nat /\ i \in 1..Len(s) /\ i - 1 \in 1..Len(s)
    OBVIOUS
  <1>2. t \in [1..Len(s) -> GuideIds]
    BY <1>1
  <1>3. t \in Seq(GuideIds)
    BY <1>1, <1>2
  <1>4. /\ t[i] = s[i - 1] /\ t[i - 1] = s[i]
        /\ \A j \in 1..Len(s) : j # i /\ j # i - 1 => t[j] = s[j]
    BY <1>1
  <1> HIDE DEF t
  <1>5. DOMAIN s = 1..Len(s) /\ DOMAIN t = 1..Len(s)
    BY <1>1, <1>2
  <1>6. ASSUME NEW j \in DOMAIN s PROVE \E k \in DOMAIN t : t[k] = s[j]
    <2>1. CASE j = i
      BY <1>1, <1>4, <1>5, <2>1
    <2>2. CASE j = i - 1
      BY <1>1, <1>4, <1>5, <2>2
    <2>3. CASE j # i /\ j # i - 1
      BY <1>4, <1>5, <1>6, <2>3
    <2> QED BY <2>1, <2>2, <2>3
  <1>7. ToSet(s) \subseteq ToSet(t)
    BY <1>6 DEF ToSet
  <1> QED BY <1>3, <1>7 DEF t

LEMMA SaveProfileKeeps ==
  ASSUME GuidedInv, NEW g \in Guides, NEW form \in Forms, SaveProfile(g, form.config, form.mode)
  PROVE  GuidedInv'
  <1> DEFINE base == Base(guides[g].policy)
             selected == guides[g].saved
             existing == IF selected = None THEN None ELSE base.profiles[selected]
             built == BuildProfile(existing, form.config, form.mode)
  <1>1. PICK id \in IF existing # None THEN {selected} ELSE GuideIds \ Used :
          AsksCompanion(g, "save", [base EXCEPT !.profiles[id] = built,
                                !.order = IF existing # None THEN @ ELSE Append(@, id)], id)
    BY DEF SaveProfile
  <1>2. /\ base \in Setup /\ Sound(base) /\ base.version <= SetupVersion(setup) /\ selected \in GuideIds \cup {None}
        /\ setup # None /\ base.version = SetupVersion(setup) => base = setup
    BY ShownTyped
  <1> DEFINE places == IF existing # None THEN base.order ELSE Append(base.order, id)
             held == [base.profiles EXCEPT ![id] = built]
             q == [base EXCEPT !.profiles = held, !.order = places]
  <1>3. id \in GuideIds /\ (existing # None => id = selected /\ selected # None) /\ existing \in ExecutionProfile \cup {None}
    <2>1. existing # None => selected \in GuideIds
      BY <1>2
    <2> QED BY <1>1, <1>2, <2>1, SetupTyped
  <1>4. form.config \in Configurations /\ form.mode \in Modes
    BY GuidedConstants
  <1> HIDE DEF base, existing
  <1>5. base.profiles \in [GuideIds -> ExecutionProfile \cup {None}] /\ base.order \in Seq(GuideIds)
    BY <1>2, SetupTyped
  <1>6. KeptReadiness(existing, form.config) \in {"unchecked", "ready", "unavailable"}
    BY <1>3 DEF KeptReadiness, ExecutionProfile
  <1>7. built \in ExecutionProfile
    BY <1>4, <1>6 DEF BuildProfile, ExecutionProfile, Modes
  <1>8. places \in Seq(GuideIds) /\ ToSet(base.order) \subseteq ToSet(places)
    BY <1>3, <1>5, AppendPlaces
  <1>9. built # None /\ held \in [GuideIds -> ExecutionProfile \cup {None}]
    BY <1>5, <1>7, GuidedConstants
  <1>10. q = [base EXCEPT !.profiles[id] = built, !.order = IF existing # None THEN @ ELSE Append(@, id)]
    BY <1>2 DEF Setup
  <1> HIDE DEF places
  <1>11. q \in Setup /\ q.version = base.version /\ q.profiles = held /\ q.order = places
    BY <1>2, <1>8, <1>9 DEF Setup
  <1>12. /\ built.readiness = "ready" => <<id, built.config>> \in checked
         /\ built.mode = "auto-exact" => built.config # ByHand
    <2>1. /\ built.config = form.config /\ built.readiness = KeptReadiness(existing, form.config)
          /\ built.mode = IF form.config = ByHand /\ form.mode = "auto-exact" THEN "recommend" ELSE form.mode
      BY DEF BuildProfile
    <2>2. built.readiness = "ready" => existing # None /\ existing.config = form.config /\ existing.readiness = "ready"
      BY <2>1 DEF KeptReadiness
    <2>3. existing # None => existing = base.profiles[id]
      BY <1>3 DEF existing
    <2>4. base # None
      BY <1>2, SetupTyped
    <2>5. existing # None /\ existing.readiness = "ready" => <<id, existing.config>> \in checked
      BY <1>2, <1>3, <2>3, <2>4 DEF Sound
    <2>6. built.mode = "auto-exact" => built.config # ByHand
      BY <2>1
    <2> HIDE DEF built
    <2> QED BY <2>1, <2>2, <2>5, <2>6
  <1> HIDE DEF built
  <1>13. /\ held[id] = built /\ \A i \in GuideIds \ {id} : held[i] = base.profiles[i]
    BY <1>3, <1>5
  <1> HIDE DEF held
  <1>14. Sound(q)
    <2> SUFFICES ASSUME NEW i \in GuideIds, q.profiles[i] # None
                 PROVE  /\ q.profiles[i].readiness = "ready" => <<i, q.profiles[i].config>> \in checked
                        /\ q.profiles[i].mode = "auto-exact" => q.profiles[i].config # ByHand
      BY DEF Sound
    <2>1. CASE i = id
      BY <1>11, <1>12, <1>13, <2>1
    <2>2. CASE i # id
      BY <1>2, <1>11, <1>13, <2>2, SetupTyped DEF Sound
    <2> QED BY <2>1, <2>2
  <1>15. Extending(base, q)
    BY <1>3, <1>8, <1>9, <1>11, <1>13 DEF Extending, ProfilesOf
  <1>16. Edits(q)
    BY <1>2, <1>11, <1>15, SetupTyped DEF Edits
  <1>17. AsksCompanion(g, "save", q, id) /\ id # None
    BY <1>1, <1>3, <1>10, GuidedConstants
  <1> HIDE DEF q
  <1> QED BY <1>3, <1>11, <1>14, <1>16, <1>17, AskKeeps

LEMMA MoveProfileKeeps ==
  ASSUME GuidedInv, NEW g \in Guides, NEW i, MoveProfile(g, i)
  PROVE  GuidedInv'
  <1> DEFINE p == guides[g].policy
             t == [p.order EXCEPT ![i] = p.order[i - 1], ![i - 1] = p.order[i]]
             q == [p EXCEPT !.order = t]
  <1>1. p # None /\ i \in 2..Len(p.order) /\ AsksCompanion(g, "move", [p EXCEPT !.order = [@ EXCEPT ![i] = p.order[i - 1], ![i - 1] = p.order[i]]], None)
    BY DEF MoveProfile
  <1>2. p \in Setup /\ Held(p) /\ p.order \in Seq(GuideIds)
    BY <1>1, ShownTyped, SetupTyped
  <1>3. q = [p EXCEPT !.order = [@ EXCEPT ![i] = p.order[i - 1], ![i - 1] = p.order[i]]]
    BY <1>2 DEF Setup
  <1>4. t \in Seq(GuideIds) /\ ToSet(p.order) \subseteq ToSet(t)
    BY <1>1, <1>2, ExchangePlaces
  <1> HIDE DEF p, t
  <1>5. q \in Setup /\ q.version = p.version /\ q.profiles = p.profiles /\ q.order = t
    BY <1>2, <1>4 DEF Setup
  <1>6. AsksCompanion(g, "move", q, None)
    BY <1>1, <1>3 DEF p, t
  <1> HIDE DEF q
  <1>7. Sound(q) /\ q # None
    BY <1>2, <1>5, SetupTyped DEF Held, Sound
  <1>8. Extending(p, q)
    BY <1>4, <1>5, GuidedConstants DEF Extending, ProfilesOf
  <1>9. Edits(q)
    BY <1>1, <1>2, <1>5, <1>7, <1>8 DEF Edits, Held, OldSetup
  <1> QED BY <1>5, <1>6, <1>7, <1>9, AskKeeps

\* What a browser held before, as an operational policy.
LEMMA LegacyTyped ==
  ASSUME GuidedInv
  PROVE  /\ Legacy \in Setup /\ Sound(Legacy) /\ Legacy.version = 0
         /\ Legacy.order = <<Placed>> /\ Placed \in ProfilesOf(Legacy)
         /\ \A id \in ProfilesOf(Legacy) : /\ Legacy.profiles[id].readiness = "unchecked"
                                           /\ Legacy.profiles[id].mode # "off" => id = Placed
  <1> DEFINE row(id) == [config |-> ByHand, mode |-> IF id = Placed THEN "recommend" ELSE "off", readiness |-> "unchecked"]
             rows == [id \in GuideIds |-> IF id \notin legacyRoutes THEN None ELSE row(id)]
  <1>1. \A id \in GuideIds : row(id) \in ExecutionProfile /\ row(id) # None
    BY GuidedConstants DEF ExecutionProfile, Modes, Configurations
  <1>2. Legacy = [version |-> 0, order |-> <<Placed>>, profiles |-> rows]
    BY DEF Legacy
  <1>3. \A id \in GuideIds : rows[id] # None => /\ rows[id].readiness = "unchecked"
                                                /\ rows[id].mode = IF id = Placed THEN "recommend" ELSE "off"
    OBVIOUS
  <1>4. rows \in [GuideIds -> ExecutionProfile \cup {None}] /\ rows[Placed] # None
    BY <1>1, GuidedConstants DEF GuidedInv
  <1> HIDE DEF rows
  <1>5. 0 \in 0..MaxSetups /\ <<Placed>> \in Seq(GuideIds) /\ Placed \in GuideIds
    BY GuidedConstants
  <1>6. Legacy \in Setup
    BY <1>2, <1>4, <1>5 DEF Setup
  <1>7. Legacy.version = 0 /\ Legacy.order = <<Placed>> /\ Legacy.profiles = rows
    BY <1>2
  <1>8. Sound(Legacy)
    BY <1>3, <1>7 DEF Sound
  <1>9. Placed \in ProfilesOf(Legacy)
    BY <1>4, <1>5, <1>7 DEF ProfilesOf
  <1> QED BY <1>3, <1>6, <1>7, <1>8, <1>9 DEF ProfilesOf

LEMMA AskingKeeps ==
  ASSUME GuidedInv, NEW g \in Guides,
         ValidateConnection(g) \/ PreviewMigration(g) \/ ConfirmMigration(g) \/ \E id \in GuideIds : ChooseExistingProfile(g, id)
  PROVE  GuidedInv'
  <1>1. /\ guides[g].policy \in Setup \cup {None} /\ guides[g].saved \in GuideIds \cup {None} /\ Held(guides[g].policy)
    BY ShownTyped
  <1>2. CASE ValidateConnection(g)
    BY <1>1, <1>2, AskKeeps DEF ValidateConnection, Held
  <1>3. CASE PreviewMigration(g)
    BY <1>3, LegacyTyped, AskKeeps DEF PreviewMigration
  <1>4. CASE ConfirmMigration(g)
    BY <1>4, LegacyTyped, AskKeeps DEF ConfirmMigration
  <1>5. ASSUME NEW id \in GuideIds, ChooseExistingProfile(g, id) PROVE GuidedInv'
    <2>1. /\ guides \in [Guides -> Guide] /\ guideCalls \subseteq GuideCall /\ \A h \in Guides : Held(guides[h].policy)
      BY DEF GuidedInv, GuidedTypeOK
    <2>2. /\ guides' = [guides EXCEPT ![g] = [guides[g] EXCEPT !.saved = id]]
          /\ UNCHANGED <<setup, legacyRoutes, migratedSetup, guideCalls, checked>>
      BY <1>5, <2>1 DEF ChooseExistingProfile
    <2>3. [guides[g] EXCEPT !.saved = id] \in Guide /\ [guides[g] EXCEPT !.saved = id].policy = guides[g].policy
      BY <2>1 DEF Guide
    <2>4. guides' \in [Guides -> Guide] /\ \A h \in Guides : guides'[h].policy = guides[h].policy
      BY <2>1, <2>2, <2>3
    <2> QED BY <2>1, <2>2, <2>4, PageSteps
  <1> QED BY <1>2, <1>3, <1>4, <1>5

LEMMA ReceiveSetupKeeps ==
  ASSUME GuidedInv, NEW c \in guideCalls, ReceiveSetup(c)
  PROVE  GuidedInv'
  <1>1. /\ guides \in [Guides -> Guide] /\ guideCalls \subseteq GuideCall /\ c \in GuideCall /\ CallHolds(c)
        /\ \A h \in Guides : Held(guides[h].policy)
    BY DEF GuidedInv, GuidedTypeOK
  <1>2. c.page \in Guides /\ c.answer \in Setup \cup {None} /\ Held(c.answer) /\ c.id \in GuideIds \cup {None}
    BY <1>1 DEF CallHolds, GuideCall, ReceiveSetup
  <1>3. guides[c.page] \in Guide /\ Held(guides[c.page].policy)
    BY <1>1, <1>2
  <1>4. ShowPolicy(c) \in Guide /\ Held(ShowPolicy(c).policy)
    <2>1. CASE c.kind \notin {"open", "reload"} /\ c.outcome # "ok"
      BY <1>3, <2>1 DEF ShowPolicy
    <2>2. CASE ~(c.kind \notin {"open", "reload"} /\ c.outcome # "ok")
      <3> DEFINE p == IF c.kind = "preview" THEN guides[c.page].policy ELSE c.answer
                 s == IF c.kind = "save" THEN c.id ELSE guides[c.page].saved
                 v == IF c.kind \in {"preview", "commit"} THEN c.kind = "preview" ELSE guides[c.page].previewed
      <3>1. ShowPolicy(c) = [policy |-> p, saved |-> s, previewed |-> v]
        BY <2>2 DEF ShowPolicy
      <3>2. p \in Setup \cup {None} /\ s \in GuideIds \cup {None} /\ v \in BOOLEAN /\ Held(p)
        BY <1>2, <1>3 DEF Guide
      <3> HIDE DEF p, s, v
      <3> QED BY <3>1, <3>2 DEF Guide
    <2> QED BY <2>1, <2>2
  <1>5. /\ guides' = [guides EXCEPT ![c.page] = ShowPolicy(c)]
        /\ guideCalls' \subseteq guideCalls \cup {Ask(c.page, "reload", None, None)}
        /\ UNCHANGED <<setup, legacyRoutes, migratedSetup, checked>>
    BY DEF ReceiveSetup
  <1> DEFINE d == Ask(c.page, "reload", None, None)
  <1>6. d \in GuideCall /\ d.kind = "reload" /\ d.sent = None /\ d.answer = None /\ d.step = "asked"
    BY <1>2, AskTyped
  <1> HIDE DEF d
  <1>7. CallHolds(d)
    BY <1>6, NothingHeld DEF CallHolds
  <1>8. guides' \in [Guides -> Guide] /\ \A h \in Guides : Held(guides'[h].policy)
    BY <1>1, <1>2, <1>4, <1>5
  <1>9. guideCalls' \subseteq GuideCall /\ \A e \in guideCalls' \ guideCalls : CallHolds(e)
    BY <1>1, <1>5, <1>6, <1>7 DEF d
  <1> QED BY <1>5, <1>8, <1>9, PageSteps

LEMMA GiveUpKeeps ==
  ASSUME GuidedInv, NEW c \in guideCalls, GiveUp(c)
  PROVE  GuidedInv'
  <1> DEFINE d == [c EXCEPT !.page = None]
             given == [guides[c.page] EXCEPT !.policy = None]
  <1>1. /\ guides \in [Guides -> Guide] /\ guideCalls \subseteq GuideCall /\ c \in GuideCall /\ CallHolds(c)
        /\ \A h \in Guides : Held(guides[h].policy)
    BY DEF GuidedInv, GuidedTypeOK
  <1>2. c.page \in Guides /\ guides[c.page] \in Guide
    BY <1>1 DEF GiveUp, GuideCall
  <1>3. /\ d \in GuideCall /\ d.kind = c.kind /\ d.sent = c.sent /\ d.id = c.id /\ d.step = c.step /\ d.answer = c.answer
    BY <1>1 DEF GuideCall
  <1>4. given \in Guide /\ given.policy = None
    BY <1>2 DEF Guide
  <1>5. /\ guides' = guides \/ guides' = [guides EXCEPT ![c.page] = given]
        /\ \A e \in guideCalls' : e \in guideCalls \/ (e = d /\ c.step # "answered")
        /\ UNCHANGED <<setup, legacyRoutes, migratedSetup, checked>>
    BY <1>1, <1>2 DEF GiveUp
  <1> HIDE DEF d, given
  <1>6. guides' \in [Guides -> Guide] /\ \A h \in Guides : Held(guides'[h].policy)
    BY <1>1, <1>2, <1>4, <1>5, NothingHeld
  <1>7. c.step # "answered" => CallHolds(d)
    BY <1>1, <1>3 DEF CallHolds, CheckHolds
  <1> QED BY <1>1, <1>3, <1>5, <1>6, <1>7, PageSteps

-----------------------------------------------------------------------------
(* Steps of the companion.                                                 *)

\* The companion answers, and stores or checks something with it.
LEMMA AnswerSteps ==
  ASSUME GuidedInv, GoesOn, NEW c \in guideCalls, NEW outcome \in {"ok", "conflict", "failed"},
         NEW answer, answer \in Setup \cup {None}, AnsweredGuide(c, outcome, answer), guides' = guides,
         setup' \in Setup \cup {None}, migratedSetup' \in Setup \cup {None}, checked' \subseteq GuideIds \X PiModels,
         SetupHolds', Held(migratedSetup)', Held(answer)'
  PROVE  GuidedInv'
  <1>1. /\ guideCalls' \subseteq GuideCall
        /\ \A d \in guideCalls' \ guideCalls :
              /\ d \in GuideCall /\ d.page # None /\ d.step = "answered" /\ d.answer = answer
              /\ d.kind = c.kind /\ d.sent = c.sent /\ d.id = c.id
    BY AnsweredTyped
  <1>2. c \in GuideCall /\ CallHolds(c) /\ guides \in [Guides -> Guide] /\ legacyRoutes \subseteq {Placed, Unplaced}
    BY DEF GuidedInv, GuidedTypeOK
  <1>3. GuidedTypeOK'
    BY <1>1, <1>2 DEF GuidedTypeOK, GoesOn
  <1>4. CallHolds(c)'
    BY <1>2, CallStays
  <1>5. ASSUME NEW d \in guideCalls' \ guideCalls PROVE CallHolds(d)'
    BY <1>1, <1>4 DEF CallHolds, CheckHolds
  <1>6. \A g \in Guides : Held(guides[g].policy)'
    <2> SUFFICES ASSUME NEW g \in Guides PROVE Held(guides[g].policy)'
      OBVIOUS
    <2>1. PICK p \in Setup \cup {None} : p = guides[g].policy
      BY <1>2 DEF Guide
    <2>2. Held(p)
      BY <2>1 DEF GuidedInv
    <2>3. Held(p)'
      BY <2>2, HeldStays
    <2>4. p = guides'[g].policy
      BY <2>1
    <2> QED BY <2>3, <2>4 DEF Held, OldSetup, Sound
  <1> QED BY <1>3, <1>5, <1>6, GuidedSteps

\* The companion answers without storing anything.
LEMMA AnswerOnly ==
  ASSUME GuidedInv, NEW c \in guideCalls, NEW outcome \in {"ok", "conflict", "failed"},
         NEW answer, answer \in {None, setup, migratedSetup}, AnsweredGuide(c, outcome, answer),
         checked' \subseteq GuideIds \X PiModels, checked \subseteq checked',
         UNCHANGED <<setup, legacyRoutes, migratedSetup, guides>>
  PROVE  GuidedInv'
  <1>1. GoesOn
    BY DEF GoesOn
  <1>2. setup \in Setup \cup {None} /\ migratedSetup \in Setup \cup {None} /\ Held(setup) /\ Held(migratedSetup)
    BY DEF GuidedInv, GuidedTypeOK, SetupHolds
  <1>3. PICK p \in Setup \cup {None} : p = setup
    BY <1>2
  <1>4. PICK m \in Setup \cup {None} : m = migratedSetup
    BY <1>2
  <1>5. Held(p)' /\ Held(m)'
    BY <1>1, <1>2, <1>3, <1>4, HeldStays
  <1>6. Held(setup)' /\ Held(migratedSetup)'
    BY <1>3, <1>4, <1>5 DEF Held, OldSetup, Sound
  <1>7. Held(answer)'
    BY <1>3, <1>4, <1>5, NothingHeld DEF Held, OldSetup, Sound
  <1>8. SetupHolds'
    BY <1>6 DEF GuidedInv, SetupHolds, ValidSetup, ProfilesOf
  <1> QED BY <1>1, <1>2, <1>6, <1>7, <1>8, AnswerSteps

\* The companion stores the next version and answers with it.
LEMMA StoreSteps ==
  ASSUME GuidedInv, NEW c \in guideCalls, NEW stored \in Setup, AnsweredGuide(c, "ok", stored), setup' = stored,
         stored.version > SetupVersion(setup), ValidSetup(stored), Sound(stored)',
         checked' \subseteq GuideIds \X PiModels, checked \subseteq checked',
         migratedSetup' \in {migratedSetup, stored}, UNCHANGED <<legacyRoutes, guides>>
  PROVE  GuidedInv'
  <1>1. GoesOn /\ SetupVersion(setup) \in Nat /\ stored.version \in Nat
    BY VersionTyped, SetupTyped DEF GoesOn
  <1>2. migratedSetup \in Setup \cup {None} /\ Held(migratedSetup)
    BY DEF GuidedInv, GuidedTypeOK
  <1>3. Held(stored)'
    BY <1>1, SetupTyped DEF Held, OldSetup, SetupVersion
  <1>4. PICK m \in Setup \cup {None} : m = migratedSetup
    BY <1>2
  <1>5. Held(m)'
    BY <1>1, <1>2, <1>4, HeldStays
  <1>6. Held(migratedSetup)'
    BY <1>3, <1>4, <1>5 DEF Held, OldSetup, Sound
  <1>7. SetupHolds'
    BY <1>3 DEF SetupHolds, Held, OldSetup, Sound, ValidSetup, ProfilesOf
  <1> QED BY <1>1, <1>2, <1>3, <1>6, <1>7, AnswerSteps

\* compareAndSetPolicy() stamps a policy with the next version.
LEMMA CompareKeeps ==
  ASSUME GuidedInv, NEW c \in guideCalls, NEW q, q \in Setup, NEW expected, CompareAndSetPolicy(c, q, expected),
         SetupVersion(setup) < MaxSetups, IsCurrent(expected) => ValidSetup(q) /\ Sound(q)',
         checked' \subseteq GuideIds \X PiModels, checked \subseteq checked',
         UNCHANGED <<legacyRoutes, migratedSetup, guides>>
  PROVE  /\ GuidedInv'
         /\ IsCurrent(expected) => /\ setup'.version = SetupVersion(setup) + 1
                                   /\ setup'.profiles = q.profiles /\ setup'.order = q.order
         /\ ~IsCurrent(expected) => setup' = setup
  <1>1. CASE ~IsCurrent(expected)
    BY <1>1, AnswerOnly DEF CompareAndSetPolicy
  <1>2. CASE IsCurrent(expected)
    <2> DEFINE stored == [q EXCEPT !.version = SetupVersion(setup) + 1]
    <2>1. setup' = stored /\ AnsweredGuide(c, "ok", stored)
      BY <1>2 DEF CompareAndSetPolicy
    <2>2. SetupVersion(setup) \in Nat /\ SetupVersion(setup) + 1 \in 0..MaxSetups
      BY VersionTyped, GuidedConstants
    <2>3. /\ stored \in Setup /\ stored.version = SetupVersion(setup) + 1
          /\ stored.profiles = q.profiles /\ stored.order = q.order
      BY <2>2 DEF Setup
    <2>4. PICK s \in Setup : s = stored
      BY <2>3
    <2> HIDE DEF stored
    <2>5. ValidSetup(s)
      BY <1>2, <2>3, <2>4 DEF ValidSetup, ProfilesOf
    <2>6. Sound(s)'
      BY <1>2, <2>3, <2>4, SetupTyped DEF Sound
    <2>7. s.version > SetupVersion(setup)
      BY <2>2, <2>3, <2>4
    <2>8. GuidedInv'
      BY <2>1, <2>4, <2>5, <2>6, <2>7, StoreSteps
    <2> QED BY <1>2, <2>1, <2>3, <2>8
  <1> QED BY <1>1, <1>2

\* A policy that differs in one profile at the most.
LEMMA OneDiffers ==
  ASSUME GuidedInv, setup # None, NEW q \in Setup, Extending(setup, q),
         setup'.version = setup.version + 1, setup'.profiles = q.profiles, setup'.order = q.order
  PROVE  SetupStays
  <1>1. PICK id \in GuideIds : \A i \in GuideIds \ {id} : q.profiles[i] = setup.profiles[i]
    BY DEF Extending
  <1>2. {i \in GuideIds : setup'.profiles[i] # setup.profiles[i]} \subseteq {id}
    BY <1>1
  <1>3. Cardinality({id}) = 1 /\ IsFiniteSet({id})
    BY FS_Singleton
  <1>4. Cardinality({i \in GuideIds : setup'.profiles[i] # setup.profiles[i]}) <= 1
    BY <1>2, <1>3, FS_Subset
  <1>5. ProfilesOf(setup) \subseteq ProfilesOf(setup') /\ ToSet(setup.order) \subseteq ToSet(setup'.order)
    BY DEF Extending, ProfilesOf
  <1> QED BY <1>4, <1>5 DEF SetupStays

LEMMA PutPolicyKeeps ==
  ASSUME GuidedInv, NEW c \in guideCalls, PutPolicy(c)
  PROVE  GuidedInv' /\ SetupStays
  <1>1. c \in GuideCall /\ CallHolds(c) /\ checked \subseteq GuideIds \X PiModels
    BY DEF GuidedInv, GuidedTypeOK
  <1>2. c.sent \in Setup /\ Sound(c.sent) /\ Edits(c.sent)
    BY <1>1 DEF CallHolds, GuideCall, PutPolicy, Edits
  <1>3. CASE CompareAndSetPolicy(c, c.sent, c.sent.version) /\ ValidSetup(c.sent)
    <2>1. PICK q \in Setup : q = c.sent
      BY <1>2
    <2>2. UNCHANGED <<legacyRoutes, guides, checked, migratedSetup>> /\ SetupVersion(setup) < MaxSetups
      BY DEF PutPolicy
    <2>3. Sound(q)'
      BY <1>2, <2>1, <2>2 DEF Sound
    <2>4. /\ GuidedInv'
          /\ IsCurrent(q.version) => /\ setup'.version = SetupVersion(setup) + 1
                                          /\ setup'.profiles = q.profiles /\ setup'.order = q.order
          /\ ~IsCurrent(q.version) => setup' = setup
      BY <1>1, <1>3, <2>1, <2>2, <2>3, CompareKeeps
    <2>5. SetupStays
      <3>1. CASE setup # None /\ IsCurrent(q.version)
        <4>1. Extending(setup, q) /\ SetupVersion(setup) = setup.version
          BY <1>2, <2>1, <3>1 DEF Edits, IsCurrent, SetupVersion
        <4> QED BY <2>4, <3>1, <4>1, OneDiffers
      <3>2. CASE ~(setup # None /\ IsCurrent(q.version))
        BY <2>4, <3>2 DEF SetupStays
      <3> QED BY <3>1, <3>2
    <2> QED BY <2>4, <2>5
  <1>4. CASE AnsweredGuide(c, "failed", None) /\ UNCHANGED setup
    BY <1>1, <1>4, AnswerOnly DEF PutPolicy, SetupStays
  <1> QED BY <1>3, <1>4 DEF PutPolicy

LEMMA FinishCheckKeeps ==
  ASSUME GuidedInv, NEW c \in guideCalls, NEW found \in BOOLEAN, FinishCheck(c, found)
  PROVE  GuidedInv' /\ SetupStays
  <1> DEFINE config == c.answer.profiles[c.id].config
             ready == found /\ config # ByHand
             readiness == IF ready THEN "ready" ELSE "unavailable"
  <1>1. /\ c \in GuideCall /\ CallHolds(c) /\ checked \subseteq GuideIds \X PiModels /\ setup \in Setup \cup {None}
        /\ SetupHolds
    BY DEF GuidedInv, GuidedTypeOK
  <1>2. /\ c.kind = "validate" /\ c.step = "checking" /\ SetupVersion(setup) < MaxSetups
        /\ ApplyReadiness(c, readiness)
        /\ checked' = checked \cup {x \in {<<c.id, config>>} : ready}
        /\ UNCHANGED <<legacyRoutes, migratedSetup, guides>>
    BY DEF FinishCheck
  <1>3. /\ c.sent \in Setup /\ c.id \in GuideIds /\ c.answer \in Setup /\ c.answer.profiles[c.id] \in ExecutionProfile
        /\ c.sent.version <= c.answer.version /\ OldSetup(c.answer) /\ OldSetup(c.sent)
    BY <1>1, <1>2, SetupTyped DEF CallHolds, CheckHolds, Held, GuideCall
  <1>4. config \in Configurations
    BY <1>3 DEF ExecutionProfile
  <1>5. checked' \subseteq GuideIds \X PiModels /\ checked \subseteq checked' /\ (ready => <<c.id, config>> \in checked')
    BY <1>1, <1>2, <1>3, <1>4 DEF Configurations
  <1>6. CASE AnsweredGuide(c, "conflict", None) /\ UNCHANGED setup
    BY <1>2, <1>5, <1>6, AnswerOnly DEF SetupStays
  <1>7. CASE AnsweredGuide(c, "failed", None) /\ UNCHANGED setup
    BY <1>2, <1>5, <1>7, AnswerOnly DEF SetupStays
  <1>8. CASE /\ setup # None /\ IsCurrent(c.sent.version) /\ setup.profiles[c.id] # None
             /\ CompareAndSetPolicy(c, [setup EXCEPT !.profiles[c.id].readiness = readiness], c.sent.version)
    <2> DEFINE row == [setup.profiles[c.id] EXCEPT !.readiness = readiness]
               rows == [setup.profiles EXCEPT ![c.id] = row]
               q == [setup EXCEPT !.profiles = rows]
    <2>1. setup \in Setup /\ setup.profiles \in [GuideIds -> ExecutionProfile \cup {None}] /\ setup.profiles[c.id] \in ExecutionProfile
      BY <1>1, <1>3, <1>8, SetupTyped
    <2>2. [setup EXCEPT !.profiles[c.id].readiness = readiness] = q
      BY <2>1 DEF Setup
    <2>3. readiness \in {"ready", "unavailable"}
      OBVIOUS
    <2>4. c.answer = setup
      <3>1. SetupVersion(setup) = setup.version /\ c.sent.version = setup.version /\ c.answer.version = setup.version
        BY <1>3, <1>8, <2>1, SetupTyped DEF IsCurrent, OldSetup
      <3> QED BY <1>3, <3>1, SetupTyped DEF OldSetup
    <2>5. readiness = "ready" => <<c.id, setup.profiles[c.id].config>> \in checked' /\ setup.profiles[c.id].config # ByHand
      BY <1>5, <2>4
    <2> HIDE DEF readiness, ready, config
    <2>6. /\ row \in ExecutionProfile /\ row # None /\ row.readiness = readiness
          /\ row.config = setup.profiles[c.id].config /\ row.mode = setup.profiles[c.id].mode
      BY <2>1, <2>3, GuidedConstants DEF ExecutionProfile
    <2> HIDE DEF row
    <2>7. /\ rows \in [GuideIds -> ExecutionProfile \cup {None}] /\ rows[c.id] = row
          /\ \A i \in GuideIds \ {c.id} : rows[i] = setup.profiles[i]
      BY <1>3, <2>1, <2>6
    <2> HIDE DEF rows
    <2>8. q \in Setup /\ q.profiles = rows /\ q.order = setup.order
      BY <2>1, <2>7 DEF Setup
    <2> HIDE DEF q
    <2>9. ProfilesOf(q) = ProfilesOf(setup)
      BY <1>8, <2>6, <2>7, <2>8 DEF ProfilesOf
    <2>10. ValidSetup(q)
      <3>1. ValidSetup(setup)
        BY <1>1, <1>8 DEF SetupHolds
      <3>2. IsInjective(q.order) /\ ToSet(q.order) \subseteq ProfilesOf(q)
        BY <2>8, <2>9, <3>1 DEF ValidSetup
      <3>3. ASSUME NEW i \in ProfilesOf(q)
            PROVE  /\ q.profiles[i].mode # "off" => i \in ToSet(q.order)
                   /\ q.profiles[i].readiness = "ready" => q.profiles[i].config # ByHand
        <4>1. i \in ProfilesOf(setup) /\ i \in GuideIds
          BY <2>9 DEF ProfilesOf
        <4>2. CASE i = c.id
          BY <2>5, <2>6, <2>7, <2>8, <3>1, <4>1, <4>2 DEF ValidSetup
        <4>3. CASE i # c.id
          BY <2>7, <2>8, <3>1, <4>1, <4>3 DEF ValidSetup
        <4> QED BY <4>2, <4>3
      <3> QED BY <3>2, <3>3 DEF ValidSetup
    <2>11. PICK s \in Setup : s = q
      BY <2>8
    <2>12. Sound(s)'
      <3> SUFFICES ASSUME NEW i \in GuideIds, s.profiles[i] # None
                   PROVE  /\ s.profiles[i].readiness = "ready" => <<i, s.profiles[i].config>> \in checked'
                          /\ s.profiles[i].mode = "auto-exact" => s.profiles[i].config # ByHand
        BY DEF Sound
      <3>1. Sound(setup)
        BY <1>1 DEF SetupHolds, Held
      <3>2. CASE i = c.id
        BY <1>8, <2>5, <2>6, <2>7, <2>8, <2>11, <3>1, <3>2 DEF Sound
      <3>3. CASE i # c.id
        BY <1>5, <1>8, <2>7, <2>8, <2>11, <3>1, <3>3 DEF Sound
      <3> QED BY <3>2, <3>3
    <2>13. CompareAndSetPolicy(c, s, c.sent.version) /\ ValidSetup(s)
      BY <1>8, <2>2, <2>10, <2>11
    <2>14. GuidedInv' /\ setup'.version = SetupVersion(setup) + 1 /\ setup'.profiles = s.profiles /\ setup'.order = s.order
      BY <1>2, <1>5, <1>8, <2>12, <2>13, CompareKeeps
    <2>15. Extending(setup, s) /\ SetupVersion(setup) = setup.version
      BY <1>3, <1>8, <2>7, <2>8, <2>9, <2>11 DEF Extending, SetupVersion
    <2> QED BY <1>8, <2>14, <2>15, OneDiffers
  <1> QED BY <1>2, <1>6, <1>7, <1>8 DEF ApplyReadiness

LEMMA StartCheckKeeps ==
  ASSUME GuidedInv, NEW c \in guideCalls, StartCheck(c)
  PROVE  GuidedInv' /\ SetupStays
  <1>1. /\ c \in GuideCall /\ CallHolds(c) /\ guideCalls \subseteq GuideCall /\ setup \in Setup \cup {None}
        /\ checked \subseteq GuideIds \X PiModels /\ SetupHolds
        /\ guides \in [Guides -> Guide] /\ \A g \in Guides : Held(guides[g].policy)
    BY DEF GuidedInv, GuidedTypeOK
  <1>2. c.kind = "validate" /\ c.step = "asked" /\ UNCHANGED <<setup, legacyRoutes, migratedSetup, guides, checked>>
    BY DEF StartCheck
  <1>3. CASE AnsweredGuide(c, "failed", None)
    BY <1>1, <1>2, <1>3, AnswerOnly DEF SetupStays
  <1>4. CASE /\ setup # None /\ setup.profiles[c.id] # None
             /\ guideCalls' = (guideCalls \ {c}) \cup {[c EXCEPT !.step = "checking", !.answer = setup]}
    <2> DEFINE d == [c EXCEPT !.step = "checking", !.answer = setup]
    <2>1. /\ d \in GuideCall /\ d.kind = c.kind /\ d.sent = c.sent /\ d.id = c.id /\ d.step = "checking" /\ d.answer = setup
      BY <1>1 DEF GuideCall
    <2> HIDE DEF d
    <2>2. Held(setup)
      BY <1>1 DEF SetupHolds
    <2>3. c.sent.version <= setup.version
      BY <1>1, <1>2, <1>4 DEF CallHolds, CheckHolds, OldSetup, SetupVersion
    <2>4. CallHolds(d)
      BY <1>1, <1>2, <1>4, <2>1, <2>2, <2>3 DEF CallHolds, CheckHolds
    <2>5. GuidedInv'
      BY <1>1, <1>2, <1>4, <2>1, <2>4, PageSteps DEF d
    <2> QED BY <1>2, <2>5 DEF SetupStays
  <1> QED BY <1>3, <1>4 DEF StartCheck

LEMMA CommitKeeps ==
  ASSUME GuidedInv, NEW c \in guideCalls, CommitSetup(c)
  PROVE  GuidedInv' /\ SetupStays
  <1>1. c \in GuideCall /\ CallHolds(c) /\ checked \subseteq GuideIds \X PiModels
    BY DEF GuidedInv, GuidedTypeOK
  <1>2. c.kind = "commit" /\ UNCHANGED <<legacyRoutes, guides, checked>> /\ c.sent = Legacy
    BY <1>1 DEF CommitSetup, CallHolds
  <1>3. CASE AnsweredGuide(c, "ok", migratedSetup) /\ UNCHANGED <<setup, migratedSetup>>
    BY <1>1, <1>2, <1>3, AnswerOnly DEF SetupStays
  <1>4. CASE AnsweredGuide(c, "conflict", None) /\ UNCHANGED <<setup, migratedSetup>>
    BY <1>1, <1>2, <1>4, AnswerOnly DEF SetupStays
  <1>5. CASE /\ setup = None /\ setup' = [c.sent EXCEPT !.version = 1] /\ migratedSetup' = [c.sent EXCEPT !.version = 1]
             /\ AnsweredGuide(c, "ok", [c.sent EXCEPT !.version = 1])
    <2> DEFINE stored == [c.sent EXCEPT !.version = 1]
    <2>1. /\ Legacy \in Setup /\ Sound(Legacy) /\ Legacy.order = <<Placed>> /\ Placed \in ProfilesOf(Legacy)
          /\ \A id \in ProfilesOf(Legacy) : /\ Legacy.profiles[id].readiness = "unchecked"
                                            /\ Legacy.profiles[id].mode # "off" => id = Placed
      BY LegacyTyped
    <2>2. 1 \in 0..MaxSetups
      BY GuidedConstants
    <2>3. stored \in Setup /\ stored.version = 1 /\ stored.profiles = Legacy.profiles /\ stored.order = Legacy.order
      BY <1>2, <2>1, <2>2 DEF Setup
    <2>4. PICK s \in Setup : s = stored
      BY <2>3
    <2> HIDE DEF stored
    <2>5. ProfilesOf(s) = ProfilesOf(Legacy) /\ s.order = <<Placed>>
      BY <2>1, <2>3, <2>4 DEF ProfilesOf
    <2>6. IsInjective(s.order) /\ ToSet(s.order) = {Placed}
      BY <2>5 DEF IsInjective, ToSet
    <2>7. ValidSetup(s)
      BY <2>1, <2>3, <2>4, <2>5, <2>6 DEF ValidSetup
    <2>8. Sound(s)'
      BY <1>2, <2>1, <2>3, <2>4, SetupTyped DEF Sound
    <2>9. s.version > SetupVersion(setup)
      BY <1>5, <2>3, <2>4 DEF SetupVersion
    <2>10. GuidedInv'
      BY <1>1, <1>2, <1>5, <2>4, <2>7, <2>8, <2>9, StoreSteps DEF stored
    <2> QED BY <1>5, <2>10 DEF SetupStays
  <1> QED BY <1>3, <1>4, <1>5 DEF CommitSetup

LEMMA AnswersKeep ==
  ASSUME GuidedInv, NEW c \in guideCalls, AnswerPolicy(c) \/ AnswerPreview(c)
  PROVE  GuidedInv' /\ SetupStays
  <1>1. checked \subseteq GuideIds \X PiModels
    BY DEF GuidedInv, GuidedTypeOK
  <1>2. CASE AnswerPolicy(c)
    BY <1>1, <1>2, AnswerOnly DEF AnswerPolicy, SetupStays
  <1>3. CASE AnswerPreview(c)
    BY <1>1, <1>3, AnswerOnly DEF AnswerPreview, SetupStays
  <1> QED BY <1>2, <1>3

-----------------------------------------------------------------------------
\* A step of the guided setup keeps the invariant, and writes over nobody.
LEMMA GuidedStep ==
  ASSUME GuidedInv, [GuidedNext]_guidedVars
  PROVE  GuidedInv' /\ SetupStays
  <1>1. ASSUME setup' = setup PROVE SetupStays
    BY <1>1 DEF SetupStays
  <1>2. CASE UNCHANGED guidedVars
    <2>1. UNCHANGED <<setup, legacyRoutes, migratedSetup, guides, guideCalls, checked>>
      BY <1>2 DEF guidedVars
    <2>2. guides \in [Guides -> Guide] /\ guideCalls \subseteq GuideCall /\ \A g \in Guides : Held(guides[g].policy)
      BY DEF GuidedInv, GuidedTypeOK
    <2> QED BY <1>1, <2>1, <2>2, PageSteps
  <1>3. ASSUME NEW g \in Guides,
               \/ \E form \in Forms : SaveProfile(g, form.config, form.mode)
               \/ \E i \in 2..Cardinality(GuideIds) : MoveProfile(g, i)
               \/ ValidateConnection(g) \/ PreviewMigration(g) \/ ConfirmMigration(g)
               \/ \E id \in GuideIds : ChooseExistingProfile(g, id)
        PROVE  GuidedInv' /\ SetupStays
    <2>1. setup' = setup
      BY <1>3 DEF SaveProfile, MoveProfile, ValidateConnection, PreviewMigration, ConfirmMigration, ChooseExistingProfile, AsksCompanion
    <2> QED BY <1>1, <1>3, <2>1, SaveProfileKeeps, MoveProfileKeeps, AskingKeeps
  <1>4. ASSUME NEW c \in guideCalls, ReceiveSetup(c) \/ GiveUp(c)
        PROVE  GuidedInv' /\ SetupStays
    <2>1. setup' = setup
      BY <1>4 DEF ReceiveSetup, GiveUp
    <2> QED BY <1>1, <1>4, <2>1, ReceiveSetupKeeps, GiveUpKeeps
  <1>5. ASSUME NEW c \in guideCalls,
               \/ AnswerPolicy(c) \/ PutPolicy(c) \/ StartCheck(c) \/ AnswerPreview(c) \/ CommitSetup(c)
               \/ \E found \in BOOLEAN : FinishCheck(c, found)
        PROVE  GuidedInv' /\ SetupStays
    BY <1>5, AnswersKeep, PutPolicyKeeps, StartCheckKeeps, CommitKeeps, FinishCheckKeeps
  <1> QED BY <1>2, <1>3, <1>4, <1>5 DEF GuidedNext

\* What is ready was checked, the order is in order, and a version names one policy.
LEMMA GuidedSafe ==
  ASSUME GuidedInv
  PROVE  ReadyWasChecked /\ SetupIsOrdered /\ VersionNamesPolicy
  <1>1. ReadyWasChecked /\ SetupIsOrdered
    BY DEF GuidedInv, SetupHolds, Held, Sound, ReadyWasChecked, SetupIsOrdered, ProfilesOf
  <1>2. VersionNamesPolicy
    <2> SUFFICES ASSUME NEW g \in Guides, SetupVersion(guides[g].policy) = SetupVersion(setup)
                 PROVE  guides[g].policy = setup
      BY DEF VersionNamesPolicy
    <2>1. Held(guides[g].policy) /\ Held(setup)
      BY DEF GuidedInv, SetupHolds
    <2>2. guides[g].policy \in Setup \cup {None} /\ setup \in Setup \cup {None}
      BY ShownTyped, VersionTyped
    <2> QED BY <2>1, <2>2, SetupTyped DEF Held, OldSetup, SetupVersion
  <1> QED BY <1>1, <1>2

LEMMA GuidedHold == ScenesSpec => []GuidedInv
  <1>1. ScenesInit => GuidedInv
    BY GuidedStart DEF ScenesInit
  <1>2. GuidedInv /\ [ScenesNext]_scenesVars => GuidedInv'
    BY ScenesStep, GuidedStep
  <1> QED BY <1>1, <1>2, PTL DEF ScenesSpec

\* No page writes over a route or a profile that another page saved, in either setup
\* (the compare-and-set of routing-repository.ts).
THEOREM PoliciesStayed == ScenesSpec => PoliciesStay
  <1>1. ConnectionsInv /\ GuidedInv /\ [ScenesNext]_scenesVars
          => [RoutesKept /\ SetupStays]_<<scene, connectionVars, guidedVars>>
    BY ScenesStep, ConnectionsStep, GuidedStep
  <1> QED BY <1>1, ConnectionsHold, GuidedHold, PTL DEF ScenesSpec, PoliciesStay

-----------------------------------------------------------------------------
(* The least of a set, and the orders a policy has one after the other.    *)

\* The principle of the least number, in terms of sets.
LEMMA LeastOf ==
  ASSUME NEW T, T \subseteq Nat, T # {}
  PROVE  \E x \in T : \A y \in T : x <= y
  <1>1. PICK R : IsWellFoundedOn(R, Nat) /\ \A x, y \in Nat : y < x => <<y, x>> \in R
    <2>1. \A x, y \in Nat : y < x => <<y, x>> \in OpToRel(<, Nat)
      BY DEF OpToRel
    <2> QED BY <2>1, NatLessThanWellFounded
  <1>2. PICK x \in T : \A y \in T : ~(<<y, x>> \in R)
    BY <1>1, WFMin
  <1>3. ASSUME NEW y \in T PROVE x <= y
    <2>1. x \in Nat /\ y \in Nat
      OBVIOUS
    <2>2. ~(<<y, x>> \in R)
      BY <1>2
    <2>3. ~(y < x)
      BY <1>1, <2>1, <2>2
    <2> QED BY <2>1, <2>3
  <1> QED BY <1>3

\* FlattenSeq() puts one sequence after the other.
LEMMA FlattenSteps ==
  ASSUME NEW S, NEW ss \in Seq(Seq(S)), Len(ss) # 0
  PROVE  \E f \in [1..Len(ss) -> Seq(S)] :
           /\ FlattenSeq(ss) = f[Len(ss)]
           /\ \A i \in 1..Len(ss) : f[i] = IF i = 1 THEN ss[i] ELSE f[i - 1] \o ss[i]
  <1> DEFINE n == Len(ss)
             Goes(g, m) == \A i \in 1..m : g[i] = IF i = 1 THEN ss[i] ELSE g[i - 1] \o ss[i]
             Upto(m) == \E g \in [1..m -> Seq(S)] : Goes(g, m)
  <1>1. n \in Nat /\ n >= 1 /\ \A i \in 1..n : ss[i] \in Seq(S)
    OBVIOUS
  <1> HIDE DEF n
  <1>2. Upto(n)
    <2> SUFFICES ASSUME ~Upto(n) PROVE FALSE
      OBVIOUS
    <2> DEFINE T == {m \in 1..n : ~Upto(m)}
    <2>1. n \in T
      BY <1>1
    <2>2. PICK m \in T : \A k \in T : m <= k
      <3>1. T \subseteq Nat
        BY <1>1
      <3> HIDE DEF T
      <3> QED BY <2>1, <3>1, LeastOf
    <2>3. m \in 1..n /\ ~Upto(m)
      OBVIOUS
    <2>4. CASE m = 1
      <3> DEFINE g == [i \in 1..1 |-> ss[1]]
      <3>1. g \in [1..1 -> Seq(S)]
        BY <1>1, <2>3
      <3>2. \A i \in 1..1 : i = 1 /\ g[i] = ss[i]
        OBVIOUS
      <3>3. Goes(g, 1)
        BY <3>2
      <3> HIDE DEF g
      <3> QED BY <2>3, <2>4, <3>1, <3>3
    <2>5. CASE m # 1
      <3>0. m \in Nat /\ m > 1 /\ m - 1 \in 1..n /\ ~(m <= m - 1)
        BY <1>1, <2>3, <2>5
      <3>1. m - 1 \in 1..n /\ m - 1 \notin T
        <4> HIDE DEF T
        <4> QED BY <2>2, <3>0
      <3>2. PICK g \in [1..(m - 1) -> Seq(S)] : Goes(g, m - 1)
        BY <3>1
      <3> DEFINE h == [i \in 1..m |-> IF i = m THEN g[m - 1] \o ss[m] ELSE g[i]]
      <3>3. m - 1 \in 1..(m - 1) /\ \A i \in 1..m : i # m => i \in 1..(m - 1)
        BY <1>1, <2>3, <2>5
      <3>4. g[m - 1] \in Seq(S) /\ ss[m] \in Seq(S)
        BY <1>1, <2>3, <3>2, <3>3
      <3>5. h \in [1..m -> Seq(S)]
        BY <3>2, <3>3, <3>4
      <3>6. h[m] = h[m - 1] \o ss[m]
        <4>1. m - 1 \in 1..m /\ m - 1 # m /\ m \in 1..m
          BY <3>0
        <4> QED BY <4>1
      <3>7. ASSUME NEW i \in 1..(m - 1) PROVE h[i] = IF i = 1 THEN ss[i] ELSE h[i - 1] \o ss[i]
        <4>1. h[i] = g[i] /\ (i # 1 => h[i - 1] = g[i - 1])
          <5>1. i \in 1..m /\ i # m /\ (i # 1 => i - 1 \in 1..m /\ i - 1 # m)
            BY <3>0
          <5> QED BY <5>1
        <4> QED BY <3>2, <3>7, <4>1
      <3> HIDE DEF h
      <3>8. Goes(h, m)
        BY <2>5, <3>3, <3>6, <3>7
      <3> QED BY <2>3, <3>5, <3>8
    <2> QED BY <2>4, <2>5
  <1>3. PICK g \in [1..n -> Seq(S)] : Goes(g, n)
    BY <1>2
  <1>4. g = [i \in 1..n |-> IF i = 1 THEN ss[i] ELSE g[i - 1] \o ss[i]]
    BY <1>3
  <1> DEFINE f == CHOOSE h : h = [i \in 1..n |-> IF i = 1 THEN ss[i] ELSE h[i - 1] \o ss[i]]
  <1>5. f = [i \in 1..n |-> IF i = 1 THEN ss[i] ELSE f[i - 1] \o ss[i]]
    BY <1>4
  <1>6. FlattenSeq(ss) = f[n]
    BY <1>1 DEF FlattenSeq, n
  <1> HIDE DEF f
  <1>7. \A i \in 1..n : f[i] = IF i = 1 THEN ss[i] ELSE f[i - 1] \o ss[i]
    BY <1>5
  <1>8. \A i \in 1..n : f[i] = g[i]
    <2> SUFFICES ASSUME {i \in 1..n : f[i] # g[i]} # {} PROVE FALSE
      OBVIOUS
    <2>1. PICK i \in {k \in 1..n : f[k] # g[k]} : \A k \in {l \in 1..n : f[l] # g[l]} : i <= k
      <3>1. {k \in 1..n : f[k] # g[k]} \subseteq Nat
        BY <1>1
      <3> QED BY <3>1, LeastOf
    <2>2. i # 1 => f[i - 1] = g[i - 1]
      BY <1>1, <2>1
    <2> QED BY <1>3, <1>7, <2>1, <2>2
  <1>9. f \in [1..n -> Seq(S)]
    BY <1>3, <1>5, <1>8
  <1> QED BY <1>6, <1>7, <1>9 DEF n

\* The elements of t are those of the first n sequences of ss, by block and place in it.
Placed1(ss, t, n, blk, off) ==
  /\ \A k \in 1..Len(t) : blk[k] \in 1..n /\ off[k] \in 1..Len(ss[blk[k]]) /\ t[k] = ss[blk[k]][off[k]]
  /\ \A k, l \in 1..Len(t) : k < l => blk[k] < blk[l] \/ (blk[k] = blk[l] /\ off[k] < off[l])
  /\ \A b \in 1..n : \A o \in 1..Len(ss[b]) : \E k \in 1..Len(t) : blk[k] = b /\ off[k] = o
InBlocks(ss, t, n) == \E blk, off \in [1..Len(t) -> Nat] : Placed1(ss, t, n, blk, off)

LEMMA FirstBlock ==
  ASSUME NEW S, NEW ss, ss[1] \in Seq(S)
  PROVE  InBlocks(ss, ss[1], 1)
  <1> DEFINE t == ss[1]
             blk == [k \in 1..Len(t) |-> 1]
             off == [k \in 1..Len(t) |-> k]
  <1>1. t \in Seq(S) /\ Len(t) \in Nat
    OBVIOUS
  <1>2. blk \in [1..Len(t) -> Nat] /\ off \in [1..Len(t) -> Nat]
    BY <1>1
  <1>3. \A k \in 1..Len(t) : blk[k] = 1 /\ off[k] = k
    OBVIOUS
  <1>4. \A b \in 1..1 : b = 1
    OBVIOUS
  <1> HIDE DEF blk, off
  <1>5. Placed1(ss, t, 1, blk, off)
    BY <1>1, <1>3, <1>4 DEF Placed1
  <1> QED BY <1>2, <1>5 DEF InBlocks

LEMMA NextBlock ==
  ASSUME NEW S, NEW ss, NEW n \in Nat, n > 1, NEW t \in Seq(S), ss[n] \in Seq(S),
         \A i \in 1..(n - 1) : ss[i] \in Seq(S),
         InBlocks(ss, t, n - 1)
  PROVE  InBlocks(ss, t \o ss[n], n)
  <1>1. PICK blk, off \in [1..Len(t) -> Nat] : Placed1(ss, t, n - 1, blk, off)
    BY DEF InBlocks
  <1> DEFINE s == ss[n]
             m == Len(t)
             h == Len(s)
             r == t \o s
             blk2 == [k \in 1..(m + h) |-> IF k <= m THEN blk[k] ELSE n]
             off2 == [k \in 1..(m + h) |-> IF k <= m THEN off[k] ELSE k - m]
  <1>2. /\ s \in Seq(S) /\ m \in Nat /\ h \in Nat /\ Len(r) = m + h
        /\ \A k \in 1..m : r[k] = t[k]
        /\ \A k \in 1..(m + h) : k > m => k - m \in 1..h /\ r[k] = s[k - m]
    OBVIOUS
  <1>3. blk2 \in [1..(m + h) -> Nat] /\ off2 \in [1..(m + h) -> Nat]
    BY <1>2
  <1>4. \A k \in 1..m : k \in 1..(m + h) /\ blk2[k] = blk[k] /\ off2[k] = off[k]
    BY <1>2
  <1>5. \A k \in 1..(m + h) : k > m => blk2[k] = n /\ off2[k] = k - m
    BY <1>2
  <1>6. \A k \in 1..(m + h) : k \in 1..m \/ k > m
    BY <1>2
  <1> HIDE DEF m, h, r, blk2, off2
  <1>7. ASSUME NEW k \in 1..(m + h)
        PROVE  blk2[k] \in 1..n /\ off2[k] \in 1..Len(ss[blk2[k]]) /\ r[k] = ss[blk2[k]][off2[k]]
    <2>1. CASE k \in 1..m
      <3>1. blk[k] \in 1..(n - 1) /\ off[k] \in 1..Len(ss[blk[k]]) /\ t[k] = ss[blk[k]][off[k]]
        BY <1>1, <2>1 DEF Placed1, m
      <3> QED BY <1>2, <1>4, <2>1, <3>1
    <2>2. CASE k > m
      <3>1. blk2[k] = n /\ off2[k] = k - m /\ n \in 1..n
        BY <1>5, <2>2
      <3>2. k - m \in 1..Len(ss[n]) /\ r[k] = ss[n][k - m]
        BY <1>2, <2>2 DEF h
      <3> QED BY <3>1, <3>2
    <2> QED BY <1>6, <2>1, <2>2
  <1>8. ASSUME NEW k \in 1..(m + h), NEW l \in 1..(m + h), k < l
        PROVE  blk2[k] < blk2[l] \/ (blk2[k] = blk2[l] /\ off2[k] < off2[l])
    <2>1. CASE k \in 1..m /\ l \in 1..m
      BY <1>1, <1>4, <1>8, <2>1 DEF Placed1, m
    <2>2. CASE k \in 1..m /\ l > m
      <3>1. blk[k] \in 1..(n - 1)
        BY <1>1, <2>2 DEF Placed1, m
      <3> QED BY <1>4, <1>5, <2>2, <3>1
    <2>3. CASE k > m /\ l > m
      BY <1>2, <1>5, <1>8, <2>3
    <2>4. ~(k > m /\ l \in 1..m)
      BY <1>2, <1>8
    <2> QED BY <1>6, <2>1, <2>2, <2>3, <2>4
  <1>9. ASSUME NEW b \in 1..n, NEW o \in 1..Len(ss[b])
        PROVE  \E k \in 1..(m + h) : blk2[k] = b /\ off2[k] = o
    <2>1. CASE b = n
      <3>1. m + o \in 1..(m + h) /\ m + o > m /\ (m + o) - m = o
        BY <1>2, <2>1 DEF h
      <3> QED BY <1>5, <2>1, <3>1
    <2>2. CASE b # n
      <3>1. b \in 1..(n - 1)
        BY <2>2
      <3>2. PICK k \in 1..m : blk[k] = b /\ off[k] = o
        BY <1>1, <3>1 DEF Placed1, m
      <3> QED BY <1>4, <3>2
    <2> QED BY <2>1, <2>2
  <1>10. Placed1(ss, r, n, blk2, off2)
    BY <1>2, <1>7, <1>8, <1>9 DEF Placed1
  <1> QED BY <1>2, <1>3, <1>10 DEF InBlocks, r

LEMMA FlattenOrder ==
  ASSUME NEW S, NEW ss \in Seq(Seq(S)), Len(ss) # 0
  PROVE  FlattenSeq(ss) \in Seq(S) /\ InBlocks(ss, FlattenSeq(ss), Len(ss))
  <1> DEFINE n == Len(ss)
  <1>1. n \in Nat /\ n >= 1 /\ \A i \in 1..n : ss[i] \in Seq(S)
    OBVIOUS
  <1>2. PICK f \in [1..n -> Seq(S)] :
          /\ FlattenSeq(ss) = f[n]
          /\ \A i \in 1..n : f[i] = IF i = 1 THEN ss[i] ELSE f[i - 1] \o ss[i]
    BY FlattenSteps
  <1> HIDE DEF n
  <1>3. InBlocks(ss, f[n], n)
    <2> SUFFICES ASSUME ~InBlocks(ss, f[n], n) PROVE FALSE
      OBVIOUS
    <2> DEFINE T == {m \in 1..n : ~InBlocks(ss, f[m], m)}
    <2>1. n \in T /\ T \subseteq Nat
      BY <1>1
    <2>2. PICK m \in T : \A k \in T : m <= k
      <3> HIDE DEF T
      <3> QED BY <2>1, LeastOf
    <2>3. m \in 1..n /\ ~InBlocks(ss, f[m], m)
      OBVIOUS
    <2>4. CASE m = 1
      BY <1>1, <1>2, <2>3, <2>4, FirstBlock
    <2>5. CASE m # 1
      <3>1. m \in Nat /\ m > 1 /\ m - 1 \in 1..n /\ ~(m <= m - 1) /\ \A i \in 1..(m - 1) : i \in 1..n
        BY <1>1, <2>3, <2>5
      <3>2. InBlocks(ss, f[m - 1], m - 1)
        <4>1. m - 1 \notin T
          <5> HIDE DEF T
          <5> QED BY <2>2, <3>1
        <4> QED BY <3>1, <4>1
      <3>3. f[m] = f[m - 1] \o ss[m] /\ f[m - 1] \in Seq(S) /\ ss[m] \in Seq(S)
        BY <1>1, <1>2, <2>3, <2>5, <3>1
      <3>4. \A i \in 1..(m - 1) : ss[i] \in Seq(S)
        BY <1>1, <3>1
      <3> QED BY <2>3, <3>1, <3>2, <3>3, <3>4, NextBlock
    <2> QED BY <2>4, <2>5
  <1>4. f[n] \in Seq(S)
    BY <1>1, <1>2
  <1> QED BY <1>2, <1>3, <1>4 DEF n

-----------------------------------------------------------------------------
(* The order that applies.                                                 *)

LEMMA OrdersTyped ==
  ASSUME NEW p, p.defaultRouteOrder \in Seq(RouteIds), p.overrides \in Seq(CapabilityOverride), NEW wanted
  PROVE  OrdersFor(p, wanted) \in Seq(Seq(RouteIds)) /\ Len(OrdersFor(p, wanted)) # 0
  <1> DEFINE n == Len(p.overrides)
             one(i) == IF i > n THEN p.defaultRouteOrder
                       ELSE IF p.overrides[i].capability \in wanted THEN p.overrides[i].routeOrder ELSE << >>
  <1>1. n \in Nat /\ \A i \in 1..n : p.overrides[i].routeOrder \in Seq(RouteIds)
    <2>1. n \in Nat /\ \A i \in 1..n : p.overrides[i] \in CapabilityOverride
      OBVIOUS
    <2> HIDE DEF n
    <2> QED BY <2>1 DEF CapabilityOverride
  <1>2. << >> \in Seq(RouteIds)
    OBVIOUS
  <1>3. \A i \in 1..(n + 1) : one(i) \in Seq(RouteIds)
    BY <1>1, <1>2
  <1>4. OrdersFor(p, wanted) = [i \in 1..(n + 1) |-> one(i)]
    BY DEF OrdersFor
  <1> HIDE DEF n, one
  <1> QED BY <1>1, <1>3, <1>4

LEMMA PlacesAre ==
  ASSUME NEW p, NEW wanted, NEW id
  PROVE  LET orders == OrdersFor(p, wanted)
         IN /\ \A b \in DOMAIN orders : \A o \in DOMAIN orders[b] : orders[b][o] = id => <<b, o>> \in Places(p, wanted, id)
            /\ \A y \in Places(p, wanted, id) :
                 y[1] \in DOMAIN orders /\ y[2] \in DOMAIN orders[y[1]] /\ orders[y[1]][y[2]] = id
  <1> DEFINE orders == OrdersFor(p, wanted)
             at(n) == {i \in DOMAIN orders[n] : orders[n][i] = id}
             rows == {{n} \X at(n) : n \in DOMAIN orders}
  <1>1. Places(p, wanted, id) = UNION rows
    BY DEF Places
  <1>2. ASSUME NEW b \in DOMAIN orders, NEW o \in DOMAIN orders[b], orders[b][o] = id
        PROVE  <<b, o>> \in Places(p, wanted, id)
    <2>1. o \in at(b)
      BY <1>2
    <2> HIDE DEF at
    <2>2. <<b, o>> \in {b} \X at(b) /\ {b} \X at(b) \in rows
      BY <2>1
    <2> HIDE DEF rows
    <2> QED BY <1>1, <2>2
  <1>3. ASSUME NEW y \in Places(p, wanted, id)
        PROVE  y[1] \in DOMAIN orders /\ y[2] \in DOMAIN orders[y[1]] /\ orders[y[1]][y[2]] = id
    <2>1. PICK n \in DOMAIN orders : y \in {n} \X at(n)
      BY <1>1
    <2>2. y[1] = n /\ y[2] \in at(n)
      <3> HIDE DEF at
      <3> QED BY <2>1
    <2> QED BY <2>2
  <1> QED BY <1>2, <1>3

\* The order has every route that has a place, by their first places.
LEMMA OrderFacts ==
  ASSUME NEW p, p.defaultRouteOrder \in Seq(RouteIds), p.overrides \in Seq(CapabilityOverride), NEW wanted
  PROVE  LET order == EffectiveRouteOrder(p, wanted)
         IN /\ order \in Seq(RouteIds)
            /\ \A id : Places(p, wanted, id) # {} <=> \E k \in DOMAIN order : order[k] = id
            /\ \A k, l \in DOMAIN order : k < l => Preferred(p, wanted, order[k], order[l])
  <1> DEFINE orders == OrdersFor(p, wanted)
             flat == FlattenSeq(orders)
             firsts == {i \in DOMAIN flat : \A j \in 1..(i - 1) : flat[j] # flat[i]}
             order == Picked(flat, firsts)
  <1>1. orders \in Seq(Seq(RouteIds)) /\ Len(orders) # 0
    BY OrdersTyped
  <1>2. flat \in Seq(RouteIds) /\ InBlocks(orders, flat, Len(orders))
    BY <1>1, FlattenOrder
  <1>3. PICK blk, off \in [1..Len(flat) -> Nat] : Placed1(orders, flat, Len(orders), blk, off)
    BY <1>2 DEF InBlocks
  <1>4. EffectiveRouteOrder(p, wanted) = order
    BY DEF EffectiveRouteOrder, FirstOccurrences
  <1>5. \A id : \A y \in Places(p, wanted, id) : y[1] \in DOMAIN orders /\ y[2] \in DOMAIN orders[y[1]] /\ orders[y[1]][y[2]] = id
    BY PlacesAre
  <1>6. \A b \in DOMAIN orders : \A o \in DOMAIN orders[b] : <<b, o>> \in Places(p, wanted, orders[b][o])
    BY PlacesAre
  <1>7. /\ DOMAIN orders = 1..Len(orders) /\ \A b \in DOMAIN orders : DOMAIN orders[b] = 1..Len(orders[b])
        /\ DOMAIN flat = 1..Len(flat) /\ Len(flat) \in Nat
    BY <1>1, <1>2
  <1> HIDE DEF orders, flat
  <1>8. /\ order \in Seq(RouteIds)
        /\ \A k \in DOMAIN order : \E i \in firsts : order[k] = flat[i]
        /\ \A i \in firsts : \E k \in DOMAIN order : order[k] = flat[i]
        /\ \A k, l \in DOMAIN order : k < l => \E i, j \in firsts : i < j /\ order[k] = flat[i] /\ order[l] = flat[j]
    <2>1. firsts \in SUBSET (DOMAIN flat)
      OBVIOUS
    <2> HIDE DEF firsts
    <2> QED BY <1>2, <2>1, PickedSequence
  <1>9. \A i \in DOMAIN flat : <<blk[i], off[i]>> \in Places(p, wanted, flat[i])
    <2> SUFFICES ASSUME NEW i \in DOMAIN flat PROVE <<blk[i], off[i]>> \in Places(p, wanted, flat[i])
      OBVIOUS
    <2>1. blk[i] \in 1..Len(orders) /\ off[i] \in 1..Len(orders[blk[i]]) /\ flat[i] = orders[blk[i]][off[i]]
      BY <1>3, <1>7 DEF Placed1
    <2>2. blk[i] \in DOMAIN orders /\ off[i] \in DOMAIN orders[blk[i]]
      BY <1>7, <2>1
    <2> QED BY <1>6, <2>1, <2>2
  <1>10. ASSUME NEW id, NEW y \in Places(p, wanted, id)
         PROVE  \E k \in DOMAIN flat : blk[k] = y[1] /\ off[k] = y[2] /\ flat[k] = id
    <2>1. y[1] \in 1..Len(orders) /\ y[2] \in 1..Len(orders[y[1]]) /\ orders[y[1]][y[2]] = id
      BY <1>5, <1>7
    <2>2. PICK k \in 1..Len(flat) : blk[k] = y[1] /\ off[k] = y[2]
      BY <1>3, <2>1 DEF Placed1
    <2>3. flat[k] = orders[blk[k]][off[k]]
      BY <1>3 DEF Placed1
    <2> QED BY <1>7, <2>1, <2>2, <2>3
  <1>11. ASSUME NEW i \in DOMAIN flat
         PROVE  \E j \in firsts : flat[j] = flat[i]
    <2> DEFINE T == {j \in DOMAIN flat : flat[j] = flat[i]}
    <2>1. i \in T /\ T \subseteq Nat
      BY <1>7
    <2>2. PICK j \in T : \A k \in T : j <= k
      <3> HIDE DEF T
      <3> QED BY <2>1, LeastOf
    <2>3. j \in DOMAIN flat /\ flat[j] = flat[i] /\ j \in 1..Len(flat)
      BY <1>7
    <2>4. ASSUME NEW k \in 1..(j - 1) PROVE flat[k] # flat[j]
      <3>1. k \in DOMAIN flat /\ ~(j <= k)
        BY <1>7, <2>3
      <3>2. k \notin T
        <4> HIDE DEF T
        <4> QED BY <2>2, <3>1
      <3> QED BY <2>3, <3>1, <3>2
    <2>5. j \in firsts
      BY <2>3, <2>4
    <2> QED BY <2>3, <2>5
  <1>12. ASSUME NEW k \in DOMAIN order, NEW l \in DOMAIN order, k < l
         PROVE  Preferred(p, wanted, order[k], order[l])
    <2>1. PICK i \in firsts, j \in firsts : i < j /\ order[k] = flat[i] /\ order[l] = flat[j]
      BY <1>8, <1>12
    <2> DEFINE x == <<blk[i], off[i]>>
    <2>2. i \in 1..Len(flat) /\ j \in 1..Len(flat) /\ \A h \in 1..(j - 1) : flat[h] # flat[j]
      BY <1>7
    <2>3. x \in Places(p, wanted, order[k])
      BY <1>7, <1>9, <2>1, <2>2
    <2>4. ASSUME NEW y \in Places(p, wanted, order[l]) PROVE Precedes(x, y)
      <3>1. PICK h \in DOMAIN flat : blk[h] = y[1] /\ off[h] = y[2] /\ flat[h] = flat[j]
        BY <1>10, <2>1
      <3>2. h \in 1..Len(flat) /\ h >= j
        BY <1>7, <2>2, <3>1
      <3>3. i < h
        BY <1>7, <2>1, <2>2, <3>2
      <3>4. blk[i] < blk[h] \/ (blk[i] = blk[h] /\ off[i] < off[h])
        BY <1>3, <2>2, <3>2, <3>3 DEF Placed1
      <3> QED BY <3>1, <3>4 DEF Precedes
    <2> HIDE DEF x
    <2> QED BY <2>3, <2>4 DEF Preferred
  <1>13. ASSUME NEW id
         PROVE  Places(p, wanted, id) # {} <=> \E k \in DOMAIN order : order[k] = id
    <2>1. ASSUME NEW y \in Places(p, wanted, id) PROVE \E k \in DOMAIN order : order[k] = id
      <3> HIDE DEF order, firsts
      <3> QED BY <1>8, <1>10, <1>11
    <2>2. ASSUME NEW k \in DOMAIN order, order[k] = id PROVE Places(p, wanted, id) # {}
      <3>1. PICK i \in firsts : order[k] = flat[i]
        BY <1>8
      <3>2. i \in DOMAIN flat
        OBVIOUS
      <3> HIDE DEF order, firsts
      <3> QED BY <1>9, <2>2, <3>1, <3>2
    <2> QED BY <2>1, <2>2
  <1> HIDE DEF order, firsts
  <1> QED BY <1>4, <1>8, <1>12, <1>13

-----------------------------------------------------------------------------
(* What is recommended.                                                    *)

\* The orders of a policy name its routes, each once.
OrderResolves(order, routes) == IsInjective(order) /\ \A i \in DOMAIN order : order[i] \in Ids(routes)

OrdersOf(p) ==
  /\ OrderResolves(p.defaultRouteOrder, p.routes)
  /\ \A n \in DOMAIN p.overrides : OrderResolves(p.overrides[n].routeOrder, p.routes)

LEMMA NoOrderIssues ==
  ASSUME NEW p
  PROVE  Issues(p) \cap {"duplicate-order-entry", "dangling-route-reference"} = {} <=> OrdersOf(p)
  <1> DEFINE twice == {issue \in {"duplicate-order-entry"} : ~IsInjective(p.defaultRouteOrder)
                         \/ \E o \in ToSet(p.overrides) : ~IsInjective(o.routeOrder)}
             dangling == {issue \in {"dangling-route-reference"} : ~(ToSet(p.defaultRouteOrder) \subseteq Ids(p.routes))
                         \/ \E o \in ToSet(p.overrides) : ~(ToSet(o.routeOrder) \subseteq Ids(p.routes))}
  <1>1. Issues(p) \cap {"duplicate-order-entry", "dangling-route-reference"} = twice \cup dangling
    BY DEF Issues
  <1>2. twice = {} <=> /\ IsInjective(p.defaultRouteOrder)
                       /\ \A n \in DOMAIN p.overrides : IsInjective(p.overrides[n].routeOrder)
    BY DEF ToSet
  <1>3. dangling = {} <=> /\ \A i \in DOMAIN p.defaultRouteOrder : p.defaultRouteOrder[i] \in Ids(p.routes)
                          /\ \A n \in DOMAIN p.overrides : \A i \in DOMAIN p.overrides[n].routeOrder :
                               p.overrides[n].routeOrder[i] \in Ids(p.routes)
    BY DEF ToSet
  <1> HIDE DEF twice, dangling
  <1> QED BY <1>1, <1>2, <1>3 DEF OrdersOf, OrderResolves

LEMMA NoIssues ==
  ASSUME NEW p
  PROVE  PolicyIsValid(p) <=>
           /\ ~(Cardinality(Ids(p.routes)) < Len(p.routes))
           /\ BuiltIn \subseteq p.capabilities /\ Aliases \cap p.capabilities = {}
           /\ OrdersOf(p)
           /\ \A i \in DOMAIN p.routes : p.routes[i].capabilities \subseteq p.capabilities
           /\ \A n \in DOMAIN p.overrides : p.overrides[n].capability \in p.capabilities
           /\ \A i \in DOMAIN p.routes : p.routes[i].enabled =>
                \E k \in DOMAIN p.defaultRouteOrder : p.defaultRouteOrder[k] = p.routes[i].id
           /\ ~\E i, j \in DOMAIN p.overrides : i < j /\ p.overrides[i].capability = p.overrides[j].capability
  <1> DEFINE codes == {"duplicate-order-entry", "dangling-route-reference"}
  <1>1. /\ "duplicate-route-id" \notin Issues(p) <=> ~(Cardinality(Ids(p.routes)) < Len(p.routes))
        /\ "missing-built-in-capability" \notin Issues(p) <=> BuiltIn \subseteq p.capabilities
        /\ "equivalent-capability-collision" \notin Issues(p) <=> Aliases \cap p.capabilities = {}
        /\ "duplicate-capability-override" \notin Issues(p) <=>
             ~\E i, j \in DOMAIN p.overrides : i < j /\ p.overrides[i].capability = p.overrides[j].capability
    BY DEF Issues
  <1>2. "dangling-capability-reference" \notin Issues(p) <=>
             /\ \A i \in DOMAIN p.routes : p.routes[i].capabilities \subseteq p.capabilities
             /\ \A n \in DOMAIN p.overrides : p.overrides[n].capability \in p.capabilities
    BY DEF Issues, ToSet
  <1>3. "enabled-route-not-ordered" \notin Issues(p) <=>
           \A i \in DOMAIN p.routes : p.routes[i].enabled =>
                \E k \in DOMAIN p.defaultRouteOrder : p.defaultRouteOrder[k] = p.routes[i].id
    BY DEF Issues, ToSet
  <1>4. Issues(p) \subseteq {"duplicate-route-id", "missing-built-in-capability", "equivalent-capability-collision",
          "duplicate-capability-override", "dangling-capability-reference", "enabled-route-not-ordered"} \cup codes
    BY DEF Issues
  <1>5. Issues(p) \cap codes = {} <=> OrdersOf(p)
    BY NoOrderIssues
  <1>6. Issues(p) = {} <=>
          /\ Issues(p) \cap codes = {}
          /\ "duplicate-route-id" \notin Issues(p) /\ "missing-built-in-capability" \notin Issues(p)
          /\ "equivalent-capability-collision" \notin Issues(p) /\ "duplicate-capability-override" \notin Issues(p)
          /\ "dangling-capability-reference" \notin Issues(p) /\ "enabled-route-not-ordered" \notin Issues(p)
    BY <1>4
  <1> QED BY <1>1, <1>2, <1>3, <1>5, <1>6 DEF PolicyIsValid

\* The routes of a policy without issues have ids of their own.
LEMMA RoutesDiffer ==
  ASSUME NEW S, NEW routes \in Seq(S), ~(Cardinality(Ids(routes)) < Len(routes))
  PROVE  \A i, j \in DOMAIN routes : routes[i].id = routes[j].id => i = j
  <1> DEFINE n == Len(routes)
             f == [i \in 1..n |-> routes[i].id]
  <1>1. n \in Nat /\ DOMAIN routes = 1..n
    OBVIOUS
  <1>2. IsFiniteSet(1..n) /\ Cardinality(1..n) = n
    BY <1>1, FS_Interval
  <1>3. f \in Surjection(1..n, Ids(routes))
    BY <1>1 DEF Surjection, Ids
  <1>4. IsFiniteSet(Ids(routes)) /\ Cardinality(Ids(routes)) <= n
        /\ (Cardinality(Ids(routes)) = n <=> f \in Injection(1..n, Ids(routes)))
    BY <1>2, <1>3, FS_Surjection
  <1>5. Cardinality(Ids(routes)) \in Nat
    BY <1>4, FS_CardinalityType
  <1>6. f \in Injection(1..n, Ids(routes))
    BY <1>1, <1>4, <1>5
  <1>7. \A i, j \in 1..n : f[i] = f[j] => i = j
    BY <1>6 DEF Injection, IsInjective
  <1>8. \A i \in 1..n : f[i] = routes[i].id
    OBVIOUS
  <1> QED BY <1>1, <1>7, <1>8

\* By its id a route is found.
LEMMA RouteFound ==
  ASSUME NEW p \in ModelRoutingPolicy, PolicyIsValid(p), NEW i \in DOMAIN p.routes
  PROVE  Route(p, p.routes[i].id) = p.routes[i] /\ p.routes[i] \in ModelRouteTarget
  <1>1. p.routes \in Seq(ModelRouteTarget)
    BY DEF ModelRoutingPolicy
  <1>2. \A k, j \in DOMAIN p.routes : p.routes[k].id = p.routes[j].id => k = j
    BY <1>1, NoIssues, RoutesDiffer
  <1>3. \A r \in ToSet(p.routes) : r.id = p.routes[i].id => r = p.routes[i]
    BY <1>2 DEF ToSet
  <1>4. p.routes[i] \in ToSet(p.routes)
    BY DEF ToSet
  <1>5. p.routes[i] \in ModelRouteTarget
    BY <1>1
  <1> QED BY <1>3, <1>4, <1>5 DEF Route

\* What is picked of an order stays in order.
Ranks(p, wanted, s) ==
  s \in Seq(RouteIds) /\ \A k, l \in DOMAIN s : k < l => Preferred(p, wanted, s[k], s[l])

LEMMA PickedRanks ==
  ASSUME NEW p, NEW wanted, NEW s, Ranks(p, wanted, s), NEW kept \in SUBSET (DOMAIN s)
  PROVE  /\ Ranks(p, wanted, Picked(s, kept))
         /\ \A id : (\E k \in DOMAIN Picked(s, kept) : Picked(s, kept)[k] = id) <=> \E i \in kept : s[i] = id
  <1>1. s \in Seq(RouteIds)
    BY DEF Ranks
  <1>2. /\ Picked(s, kept) \in Seq(RouteIds)
        /\ \A k \in DOMAIN Picked(s, kept) : \E i \in kept : Picked(s, kept)[k] = s[i]
        /\ \A i \in kept : \E k \in DOMAIN Picked(s, kept) : Picked(s, kept)[k] = s[i]
        /\ \A k, l \in DOMAIN Picked(s, kept) : k < l => \E i, j \in kept : i < j /\ Picked(s, kept)[k] = s[i] /\ Picked(s, kept)[l] = s[j]
    BY <1>1, PickedSequence
  <1>3. \A k, l \in DOMAIN Picked(s, kept) : k < l => Preferred(p, wanted, Picked(s, kept)[k], Picked(s, kept)[l])
    BY <1>2 DEF Ranks
  <1>4. \A id : (\E k \in DOMAIN Picked(s, kept) : Picked(s, kept)[k] = id) <=> \E i \in kept : s[i] = id
    BY <1>2
  <1> QED BY <1>2, <1>3, <1>4 DEF Ranks

\* The order that applies names routes of the policy.
LEMMA OrderNames ==
  ASSUME NEW p \in ModelRoutingPolicy, PolicyIsValid(p), NEW wanted
  PROVE  LET order == EffectiveRouteOrder(p, wanted)
         IN /\ Ranks(p, wanted, order)
            /\ \A id : Places(p, wanted, id) # {} <=> \E k \in DOMAIN order : order[k] = id
            /\ \A k \in DOMAIN order : \E i \in DOMAIN p.routes : order[k] = p.routes[i].id
  <1> DEFINE order == EffectiveRouteOrder(p, wanted)
             orders == OrdersFor(p, wanted)
  <1>1. p.defaultRouteOrder \in Seq(RouteIds) /\ p.overrides \in Seq(CapabilityOverride)
    BY DEF ModelRoutingPolicy
  <1>2. /\ order \in Seq(RouteIds)
        /\ \A id : Places(p, wanted, id) # {} <=> \E k \in DOMAIN order : order[k] = id
        /\ \A k, l \in DOMAIN order : k < l => Preferred(p, wanted, order[k], order[l])
    BY <1>1, OrderFacts
  <1>3. ASSUME NEW id, NEW y \in Places(p, wanted, id) PROVE id \in Ids(p.routes)
    <2>1. y[1] \in DOMAIN orders /\ y[2] \in DOMAIN orders[y[1]] /\ orders[y[1]][y[2]] = id
      BY PlacesAre
    <2>2. PICK n : n = y[1]
      OBVIOUS
    <2>3. Len(p.overrides) \in Nat /\ DOMAIN p.overrides = 1..Len(p.overrides)
      BY <1>1
    <2>4. n \in 1..(Len(p.overrides) + 1)
      BY <2>1, <2>2 DEF OrdersFor
    <2>5. orders[n] = IF n > Len(p.overrides) THEN p.defaultRouteOrder
            ELSE IF p.overrides[n].capability \in wanted THEN p.overrides[n].routeOrder ELSE << >>
      BY <2>4 DEF OrdersFor
    <2>6. OrdersOf(p)
      BY NoIssues
    <2>7. CASE n > Len(p.overrides)
      BY <2>1, <2>2, <2>5, <2>6, <2>7 DEF OrdersOf, OrderResolves
    <2>8. CASE ~(n > Len(p.overrides))
      <3>1. n \in DOMAIN p.overrides
        BY <2>3, <2>4, <2>8
      <3>2. orders[n] = p.overrides[n].routeOrder \/ orders[n] = << >>
        BY <2>5, <2>8
      <3>3. DOMAIN << >> = {}
        OBVIOUS
      <3>4. orders[n] = p.overrides[n].routeOrder
        BY <2>1, <2>2, <3>2, <3>3
      <3> QED BY <2>1, <2>2, <2>6, <3>1, <3>4 DEF OrdersOf, OrderResolves
    <2> QED BY <2>7, <2>8
  <1>4. \A k \in DOMAIN order : order[k] \in Ids(p.routes)
    BY <1>2, <1>3
  <1> QED BY <1>2, <1>4 DEF Ranks, Ids

\* What is recommended for a valid policy is what its orders prefer among the eligible routes.
LEMMA Recommended ==
  ASSUME NEW p \in ModelRoutingPolicy, PolicyIsValid(p), NEW wanted, wanted # {}
  PROVE  LET result == RecommendModelRoute(p, wanted)
         IN /\ result.status \in {"exact-match", "no-match"} /\ result.required = wanted /\ result.policyRevision = p
            /\ result.status = "exact-match" =>
                 /\ Head(result.exactMatches) \in Eligible(p, wanted)
                 /\ \A other \in Eligible(p, wanted) \ {Head(result.exactMatches)} :
                      Preferred(p, wanted, Head(result.exactMatches), other)
            /\ result.status = "no-match" =>
                 /\ Eligible(p, wanted) = {}
                 /\ \A match \in result.partialMatches :
                      /\ match.route \in RouteIds /\ Usable(Route(p, match.route))
                      /\ match.missing = wanted \ Route(p, match.route).capabilities
  <1> DEFINE order == EffectiveRouteOrder(p, wanted)
             usable == {r.id : r \in {x \in ToSet(p.routes) : Usable(x)}}
             Supported(id) == Route(p, id).capabilities \cap wanted
             kept == {i \in DOMAIN order : order[i] \in usable /\ Supported(order[i]) = wanted}
             exact == Picked(order, kept)
             partial == {[route |-> id, missing |-> wanted \ Supported(id)] :
                           id \in {x \in ToSet(order) \cap usable : Supported(x) \notin {{}, wanted}}}
             result == RecommendModelRoute(p, wanted)
  <1>1. result = Result(IF exact = << >> THEN "no-match" ELSE "exact-match", p, wanted, exact, partial)
    BY DEF RecommendModelRoute
  <1>2. /\ result.status = (IF exact = << >> THEN "no-match" ELSE "exact-match")
        /\ result.required = wanted /\ result.policyRevision = p
        /\ result.exactMatches = exact /\ result.partialMatches = partial
    <2> HIDE DEF result, exact, partial
    <2> QED BY <1>1 DEF Result
  <1>3. /\ Ranks(p, wanted, order)
        /\ \A id : Places(p, wanted, id) # {} <=> \E k \in DOMAIN order : order[k] = id
        /\ \A k \in DOMAIN order : \E i \in DOMAIN p.routes : order[k] = p.routes[i].id
    BY OrderNames
  <1>4. \A i \in DOMAIN p.routes : Route(p, p.routes[i].id) = p.routes[i] /\ p.routes[i] \in ModelRouteTarget
    BY RouteFound
  <1> HIDE DEF result, order
  <1>5. \A id : id \in usable => id \in Ids(p.routes) /\ Usable(Route(p, id))
    BY <1>4 DEF ToSet, Ids
  <1>6. \A id \in Ids(p.routes) : Usable(Route(p, id)) => id \in usable
    BY <1>4 DEF ToSet, Ids
  <1> HIDE DEF usable
  <1>7. \A id : id \in Eligible(p, wanted) <=>
          id \in usable /\ Supported(id) = wanted /\ \E k \in DOMAIN order : order[k] = id
    <2>1. \A id : id \in Eligible(p, wanted) <=>
            id \in Ids(p.routes) /\ Usable(Route(p, id)) /\ wanted \subseteq Route(p, id).capabilities /\ Places(p, wanted, id) # {}
      BY DEF Eligible
    <2>2. \A id : wanted \subseteq Route(p, id).capabilities <=> Supported(id) = wanted
      OBVIOUS
    <2> HIDE DEF Supported
    <2> QED BY <1>3, <1>5, <1>6, <2>1, <2>2
  <1>8. /\ Ranks(p, wanted, exact)
        /\ \A id : (\E k \in DOMAIN exact : exact[k] = id) <=> id \in Eligible(p, wanted)
    <2>1. /\ Ranks(p, wanted, exact)
          /\ \A id : (\E k \in DOMAIN exact : exact[k] = id) <=> \E i \in kept : order[i] = id
      <3>1. kept \in SUBSET (DOMAIN order)
        OBVIOUS
      <3>2. Ranks(p, wanted, order) /\ exact = Picked(order, kept)
        BY <1>3
      <3> HIDE DEF kept, exact
      <3>3. /\ Ranks(p, wanted, Picked(order, kept))
            /\ \A id : (\E k \in DOMAIN Picked(order, kept) : Picked(order, kept)[k] = id) <=> \E i \in kept : order[i] = id
        BY <3>1, <3>2, PickedRanks
      <3> QED BY <3>2, <3>3
    <2>2. \A id : (\E i \in kept : order[i] = id) <=> id \in Eligible(p, wanted)
      <3> HIDE DEF Supported
      <3> QED BY <1>7
    <2> HIDE DEF exact, kept
    <2> QED BY <2>1, <2>2
  <1> HIDE DEF exact
  <1>9. ASSUME exact # << >>
        PROVE  /\ Head(exact) \in Eligible(p, wanted)
               /\ \A other \in Eligible(p, wanted) \ {Head(exact)} : Preferred(p, wanted, Head(exact), other)
    <2>1. exact \in Seq(RouteIds)
      BY <1>8 DEF Ranks
    <2>2. Head(exact) = exact[1] /\ 1 \in DOMAIN exact /\ \A l \in DOMAIN exact : l # 1 => 1 < l
      BY <1>9, <2>1
    <2>3. ASSUME NEW other \in Eligible(p, wanted) \ {Head(exact)} PROVE Preferred(p, wanted, Head(exact), other)
      <3>1. PICK l \in DOMAIN exact : exact[l] = other
        BY <1>8
      <3> QED BY <1>8, <2>2, <3>1 DEF Ranks
    <2> QED BY <1>8, <2>2, <2>3
  <1>10. ASSUME exact = << >> PROVE Eligible(p, wanted) = {}
    <2>1. DOMAIN exact = {}
      BY <1>10
    <2> QED BY <1>8, <2>1
  <1>11. ASSUME NEW match \in partial
         PROVE  /\ match.route \in RouteIds /\ Usable(Route(p, match.route))
                /\ match.missing = wanted \ Route(p, match.route).capabilities
    <2>1. PICK id \in ToSet(order) \cap usable : match = [route |-> id, missing |-> wanted \ Supported(id)]
      OBVIOUS
    <2>2. match.route = id /\ match.missing = wanted \ Route(p, id).capabilities
      BY <2>1
    <2>3. id \in RouteIds
      <3>1. PICK i \in DOMAIN p.routes : id = p.routes[i].id
        BY <1>5 DEF Ids
      <3> QED BY <1>4, <3>1 DEF ModelRouteTarget
    <2> QED BY <1>5, <2>2, <2>3
  <1> HIDE DEF partial
  <1> QED BY <1>2, <1>9, <1>10, <1>11 DEF result

-----------------------------------------------------------------------------
(* The policy that is migrated.                                            *)

LEMMA MigratedIs ==
  ASSUME NEW p \in ModelRoutingPolicy
  PROVE  /\ Migrated(p).capabilities = p.capabilities /\ Migrated(p).defaultProfileOrder = p.defaultRouteOrder
         /\ Migrated(p).overrides = p.overrides
         /\ DOMAIN Migrated(p).profiles = DOMAIN p.routes /\ Len(Migrated(p).profiles) = Len(p.routes)
         /\ \A i \in DOMAIN p.routes :
              LET profile == Migrated(p).profiles[i]
              IN /\ profile.id = p.routes[i].id /\ profile.capabilities = p.routes[i].capabilities
                 /\ profile.enabled = p.routes[i].enabled /\ profile.readiness = "unchecked"
                 /\ profile.fallbackOrder = FallbackOrder(p, i)
  <1> DEFINE one(i) == [id |-> p.routes[i].id, adapter |-> "manual", capabilities |-> p.routes[i].capabilities,
                        enabled |-> p.routes[i].enabled, behavior |-> "recommend", fallbackOrder |-> FallbackOrder(p, i),
                        readiness |-> "unchecked"]
             profiles == [i \in DOMAIN p.routes |-> one(i)]
  <1>1. \A i : /\ one(i).id = p.routes[i].id /\ one(i).capabilities = p.routes[i].capabilities
               /\ one(i).enabled = p.routes[i].enabled /\ one(i).readiness = "unchecked"
               /\ one(i).fallbackOrder = FallbackOrder(p, i)
    OBVIOUS
  <1>2. Migrated(p) = [capabilities |-> p.capabilities, profiles |-> profiles,
                       defaultProfileOrder |-> p.defaultRouteOrder, overrides |-> p.overrides]
    BY DEF Migrated
  <1> HIDE DEF one
  <1>3. Len(p.routes) \in Nat /\ DOMAIN p.routes = 1..Len(p.routes)
    BY DEF ModelRoutingPolicy
  <1>4. Len(profiles) = Len(p.routes)
    BY <1>3
  <1> QED BY <1>1, <1>2, <1>4

\* The migrated policy is as valid as the one it comes from.
LEMMA MigratedIsValid ==
  ASSUME NEW p \in ModelRoutingPolicy, PolicyIsValid(p)
  PROVE  OperationalPolicyIsValid(Migrated(p))
  <1> DEFINE operational == Migrated(p)
             q == [updatedAt |-> 0, capabilities |-> operational.capabilities, defaultRouteOrder |-> operational.defaultProfileOrder,
                   overrides |-> operational.overrides, routes |-> operational.profiles]
  <1>1. /\ operational.capabilities = p.capabilities /\ operational.defaultProfileOrder = p.defaultRouteOrder
        /\ operational.overrides = p.overrides
        /\ DOMAIN operational.profiles = DOMAIN p.routes /\ Len(operational.profiles) = Len(p.routes)
        /\ \A i \in DOMAIN p.routes :
              /\ operational.profiles[i].id = p.routes[i].id /\ operational.profiles[i].capabilities = p.routes[i].capabilities
              /\ operational.profiles[i].enabled = p.routes[i].enabled /\ operational.profiles[i].readiness = "unchecked"
              /\ operational.profiles[i].fallbackOrder = FallbackOrder(p, i)
    BY MigratedIs
  <1> HIDE DEF operational
  <1>2. /\ q.capabilities = p.capabilities /\ q.defaultRouteOrder = p.defaultRouteOrder
        /\ q.overrides = p.overrides /\ q.routes = operational.profiles
    BY <1>1
  <1> HIDE DEF q
  <1>3. Ids(q.routes) = Ids(p.routes) /\ Len(q.routes) = Len(p.routes) /\ DOMAIN q.routes = DOMAIN p.routes
    BY <1>1, <1>2 DEF Ids
  <1>4. OrdersOf(q) <=> OrdersOf(p)
    BY <1>2, <1>3 DEF OrdersOf, OrderResolves
  <1>5. PolicyIsValid(q)
    BY <1>1, <1>2, <1>3, <1>4, NoIssues
  <1>6. ASSUME NEW i \in DOMAIN operational.profiles, Contains(operational.defaultProfileOrder, operational.profiles[i].id)
        PROVE  operational.defaultProfileOrder[operational.profiles[i].fallbackOrder + 1] = operational.profiles[i].id
    <2> DEFINE order == p.defaultRouteOrder
               id == p.routes[i].id
               I == {k \in 1..Len(order) : order[k] = id}
    <2>1. Contains(order, id) /\ operational.profiles[i].fallbackOrder = FallbackOrder(p, i) /\ operational.profiles[i].id = id
      BY <1>1, <1>6
    <2>2. I # {} /\ I \subseteq Nat
      BY <2>1 DEF Contains
    <2>3. Min(I) \in I
      <3> HIDE DEF I
      <3>1. \E x \in I : \A y \in I : x <= y
        BY <2>2, LeastOf
      <3> QED BY <3>1 DEF Min
    <2>4. FallbackOrder(p, i) = Min(I) - 1
      BY <2>1, <2>2 DEF FallbackOrder, SelectInSeq
    <2>5. PICK k : k = Min(I)
      OBVIOUS
    <2>6. k \in Nat /\ order[k] = id
      BY <2>2, <2>3, <2>5
    <2>7. (k - 1) + 1 = k
      BY <2>6
    <2> QED BY <1>1, <2>1, <2>4, <2>5, <2>6, <2>7
  <1>7. \A i \in DOMAIN operational.profiles : ProfileIsValid(operational.profiles[i])
    BY <1>1 DEF ProfileIsValid
  <1> QED BY <1>5, <1>6, <1>7 DEF OperationalPolicyIsValid, q, operational

\* It does nothing by itself, and names what the policy prefers.
LEMMA MigratedPreflight ==
  ASSUME NEW p \in ModelRoutingPolicy, PolicyIsValid(p), NEW wanted
  PROVE  LET preflight == Preflight(Migrated(p), wanted)
         IN /\ preflight.status \notin {"auto-dispatch-eligible", "recommend"}
            /\ Eligible(p, wanted) \subseteq ToSet(preflight.exact)
            /\ \A i, j \in DOMAIN preflight.exact :
                 i < j => Preferred(p, wanted, preflight.exact[i], preflight.exact[j])
  <1> DEFINE operational == Migrated(p)
             order == EffectiveRouteOrder([defaultRouteOrder |-> operational.defaultProfileOrder, overrides |-> operational.overrides], wanted)
             Profile(id) == CHOOSE x \in ToSet(operational.profiles) : x.id = id
             kept == {i \in DOMAIN order : wanted \subseteq Profile(order[i]).capabilities}
             exact == Picked(order, kept)
             ready == {i \in DOMAIN exact : Profile(exact[i]).enabled /\ Profile(exact[i]).readiness = "ready"}
             eligible == Picked(exact, ready)
             preflight == Preflight(Migrated(p), wanted)
  <1>1. order = EffectiveRouteOrder(p, wanted)
    <2>1. operational.defaultProfileOrder = p.defaultRouteOrder /\ operational.overrides = p.overrides
      BY MigratedIs
    <2> HIDE DEF operational
    <2> QED BY <2>1 DEF EffectiveRouteOrder, OrdersFor
  <1>2. /\ Ranks(p, wanted, order)
        /\ \A id : Places(p, wanted, id) # {} <=> \E k \in DOMAIN order : order[k] = id
        /\ \A k \in DOMAIN order : \E i \in DOMAIN p.routes : order[k] = p.routes[i].id
    <2> HIDE DEF order
    <2> QED BY <1>1, OrderNames
  <1>3. ASSUME NEW i \in DOMAIN p.routes
        PROVE  /\ Profile(p.routes[i].id).capabilities = p.routes[i].capabilities
               /\ Profile(p.routes[i].id).readiness = "unchecked"
    <2>1. /\ DOMAIN operational.profiles = DOMAIN p.routes
          /\ \A k \in DOMAIN p.routes :
               /\ operational.profiles[k].id = p.routes[k].id /\ operational.profiles[k].capabilities = p.routes[k].capabilities
               /\ operational.profiles[k].readiness = "unchecked"
      BY MigratedIs
    <2> HIDE DEF operational
    <2>2. \A k, j \in DOMAIN p.routes : p.routes[k].id = p.routes[j].id => k = j
      <3>1. p.routes \in Seq(ModelRouteTarget)
        BY DEF ModelRoutingPolicy
      <3> QED BY <3>1, NoIssues, RoutesDiffer
    <2>3. operational.profiles[i] \in ToSet(operational.profiles) /\ \A x \in ToSet(operational.profiles) : x.id = p.routes[i].id => x = operational.profiles[i]
      BY <2>1, <2>2 DEF ToSet
    <2>4. Profile(p.routes[i].id) = operational.profiles[i]
      BY <2>1, <2>3
    <2> QED BY <2>1, <2>4
  <1>4. preflight.exact = exact /\ (eligible = << >> => preflight.status \notin {"auto-dispatch-eligible", "recommend"})
    BY DEF Preflight
  <1> HIDE DEF order, Profile, preflight
  <1>5. /\ Ranks(p, wanted, exact)
        /\ \A id : (\E k \in DOMAIN exact : exact[k] = id) <=> \E i \in kept : order[i] = id
    <2>1. kept \in SUBSET (DOMAIN order)
      OBVIOUS
    <2> HIDE DEF kept
    <2> QED BY <1>2, <2>1, PickedRanks
  <1>6. \A k \in DOMAIN exact : \E i \in DOMAIN p.routes : exact[k] = p.routes[i].id
    <2> HIDE DEF exact
    <2> QED BY <1>2, <1>5
  <1>7. ready = {}
    <2> HIDE DEF exact
    <2> QED BY <1>3, <1>6
  <1>8. eligible = << >>
    <2>1. Cardinality({}) = 0 /\ 1..0 = {}
      BY FS_EmptySet
    <2> HIDE DEF exact, ready
    <2> QED BY <1>7, <2>1 DEF Picked
  <1>9. Eligible(p, wanted) \subseteq ToSet(exact)
    <2> SUFFICES ASSUME NEW id \in Eligible(p, wanted) PROVE \E k \in DOMAIN exact : exact[k] = id
      BY DEF ToSet
    <2>1. id \in Ids(p.routes) /\ wanted \subseteq Route(p, id).capabilities /\ Places(p, wanted, id) # {}
      BY DEF Eligible
    <2>2. PICK i \in DOMAIN p.routes : id = p.routes[i].id
      BY <2>1 DEF Ids
    <2>3. Profile(id).capabilities = Route(p, id).capabilities
      BY <1>3, <2>2, RouteFound
    <2>4. PICK k \in DOMAIN order : order[k] = id
      BY <1>2, <2>1
    <2>5. k \in kept
      BY <2>1, <2>3, <2>4
    <2> HIDE DEF exact, kept
    <2> QED BY <1>5, <2>4, <2>5
  <1> HIDE DEF exact, eligible
  <1> QED BY <1>4, <1>5, <1>8, <1>9 DEF Ranks, preflight

LEMMA MigrationInert ==
  ASSUME policy \in ModelRoutingPolicy, PolicyIsValid(policy)
  PROVE  MigrationIsInert
  BY MigratedIsValid, MigratedPreflight DEF MigrationIsInert

-----------------------------------------------------------------------------
(* Policies that are edited.                                               *)

LEMMA FieldsTyped ==
  ASSUME NEW d \in ModelRoutingPolicy
  PROVE  /\ d.updatedAt \in Nat /\ d.capabilities \in SUBSET Capabilities /\ d.routes \in Seq(ModelRouteTarget)
         /\ d.defaultRouteOrder \in Seq(RouteIds) /\ d.overrides \in Seq(CapabilityOverride)
  BY DEF ModelRoutingPolicy

\* Orders resolve to more routes.
LEMMA ResolvesToMore ==
  ASSUME NEW order, NEW routes, NEW more, OrderResolves(order, routes), Ids(routes) \subseteq Ids(more)
  PROVE  OrderResolves(order, more)
  BY DEF OrderResolves

\* Routes that are edited in place.
LEMMA UpdateResolves ==
  ASSUME NEW d \in ModelRoutingPolicy, OrdersOf(d), NEW routes \in Seq(ModelRouteTarget),
         DOMAIN routes = DOMAIN d.routes, \A i \in DOMAIN routes : routes[i].id = d.routes[i].id
  PROVE  [d EXCEPT !.routes = routes] \in ModelRoutingPolicy /\ OrdersOf([d EXCEPT !.routes = routes])
  <1> DEFINE e == [d EXCEPT !.routes = routes]
  <1>1. e \in ModelRoutingPolicy /\ e.routes = routes /\ e.defaultRouteOrder = d.defaultRouteOrder /\ e.overrides = d.overrides
    BY DEF ModelRoutingPolicy
  <1>2. Ids(routes) = Ids(d.routes)
    BY DEF Ids
  <1> HIDE DEF e
  <1>3. OrdersOf(e)
    BY <1>1, <1>2 DEF OrdersOf, OrderResolves
  <1> QED BY <1>1, <1>3 DEF e

LEMMA RouteUpdated ==
  ASSUME NEW d \in ModelRoutingPolicy, OrdersOf(d), NEW routes, DOMAIN routes = DOMAIN d.routes,
         \A i \in DOMAIN d.routes : routes[i] \in ModelRouteTarget /\ routes[i].id = d.routes[i].id,
         routes = [i \in DOMAIN d.routes |-> routes[i]]
  PROVE  [d EXCEPT !.routes = routes] \in ModelRoutingPolicy /\ OrdersOf([d EXCEPT !.routes = routes])
  <1>1. Len(d.routes) \in Nat /\ DOMAIN d.routes = 1..Len(d.routes)
    BY FieldsTyped
  <1>2. routes \in Seq(ModelRouteTarget)
    BY <1>1
  <1> QED BY <1>2, UpdateResolves

LEMMA ToggleResolves ==
  ASSUME NEW d \in ModelRoutingPolicy, OrdersOf(d), NEW id, NEW routes,
         \/ routes = [i \in DOMAIN d.routes |-> IF d.routes[i].id = id THEN [d.routes[i] EXCEPT !.enabled = ~@] ELSE d.routes[i]]
         \/ routes = [i \in DOMAIN d.routes |-> IF d.routes[i].id = id THEN [d.routes[i] EXCEPT !.available = ~@] ELSE d.routes[i]]
         \/ \E c \in Capabilities : routes = [i \in DOMAIN d.routes |-> IF d.routes[i].id = id
              THEN [d.routes[i] EXCEPT !.capabilities = (@ \ {c}) \cup ({c} \ @)] ELSE d.routes[i]]
  PROVE  [d EXCEPT !.routes = routes] \in ModelRoutingPolicy /\ OrdersOf([d EXCEPT !.routes = routes])
  <1>1. \A i \in DOMAIN d.routes : d.routes[i] \in ModelRouteTarget
    BY FieldsTyped
  <1>2. ASSUME NEW r \in ModelRouteTarget
        PROVE  /\ [r EXCEPT !.enabled = ~@] \in ModelRouteTarget /\ [r EXCEPT !.enabled = ~@].id = r.id
               /\ [r EXCEPT !.available = ~@] \in ModelRouteTarget /\ [r EXCEPT !.available = ~@].id = r.id
    BY DEF ModelRouteTarget
  <1>3. ASSUME NEW r \in ModelRouteTarget, NEW c \in Capabilities
        PROVE  /\ [r EXCEPT !.capabilities = (@ \ {c}) \cup ({c} \ @)] \in ModelRouteTarget
               /\ [r EXCEPT !.capabilities = (@ \ {c}) \cup ({c} \ @)].id = r.id
    BY DEF ModelRouteTarget
  <1>4. /\ DOMAIN routes = DOMAIN d.routes /\ routes = [i \in DOMAIN d.routes |-> routes[i]]
        /\ \A i \in DOMAIN d.routes : routes[i] \in ModelRouteTarget /\ routes[i].id = d.routes[i].id
    <2>1. CASE routes = [i \in DOMAIN d.routes |-> IF d.routes[i].id = id THEN [d.routes[i] EXCEPT !.enabled = ~@] ELSE d.routes[i]]
      BY <1>1, <1>2, <2>1
    <2>2. CASE routes = [i \in DOMAIN d.routes |-> IF d.routes[i].id = id THEN [d.routes[i] EXCEPT !.available = ~@] ELSE d.routes[i]]
      BY <1>1, <1>2, <2>2
    <2>3. CASE \E c \in Capabilities : routes = [i \in DOMAIN d.routes |-> IF d.routes[i].id = id
                 THEN [d.routes[i] EXCEPT !.capabilities = (@ \ {c}) \cup ({c} \ @)] ELSE d.routes[i]]
      BY <1>1, <1>3, <2>3
    <2> QED BY <2>1, <2>2, <2>3
  <1> QED BY <1>4, RouteUpdated

\* A route is added behind the others.
LEMMA AddResolves ==
  ASSUME NEW d \in ModelRoutingPolicy, OrdersOf(d), NEW id \in RouteIds, id \notin Ids(d.routes), NEW r \in ModelRouteTarget,
         r.id = id
  PROVE  LET e == [d EXCEPT !.routes = Append(@, r), !.defaultRouteOrder = Append(@, id)]
         IN e \in ModelRoutingPolicy /\ OrdersOf(e)
  <1> DEFINE routes == Append(d.routes, r)
             order == Append(d.defaultRouteOrder, id)
             e == [d EXCEPT !.routes = Append(@, r), !.defaultRouteOrder = Append(@, id)]
             n == Len(d.routes)
             m == Len(d.defaultRouteOrder)
  <1>1. /\ routes \in Seq(ModelRouteTarget) /\ order \in Seq(RouteIds) /\ n \in Nat /\ m \in Nat
        /\ DOMAIN d.routes = 1..n /\ DOMAIN routes = 1..(n + 1) /\ routes[n + 1] = r /\ \A i \in 1..n : routes[i] = d.routes[i]
        /\ DOMAIN d.defaultRouteOrder = 1..m /\ DOMAIN order = 1..(m + 1) /\ order[m + 1] = id
        /\ \A i \in 1..m : order[i] = d.defaultRouteOrder[i]
    BY FieldsTyped
  <1>2. e = [d EXCEPT !.routes = routes, !.defaultRouteOrder = order]
    OBVIOUS
  <1> HIDE DEF routes, order, n, m, e
  <1>3. e \in ModelRoutingPolicy /\ e.routes = routes /\ e.defaultRouteOrder = order /\ e.overrides = d.overrides
    BY <1>1, <1>2 DEF ModelRoutingPolicy
  <1>4. Ids(d.routes) \subseteq Ids(routes) /\ id \in Ids(routes)
    <2>1. n + 1 \in DOMAIN routes /\ \A i \in DOMAIN d.routes : i \in DOMAIN routes
      BY <1>1
    <2> QED BY <1>1, <2>1 DEF Ids
  <1>5. OrderResolves(order, routes)
    <2>1. OrderResolves(d.defaultRouteOrder, d.routes)
      BY DEF OrdersOf
    <2>2. \A i \in 1..(m + 1) : i \in 1..m \/ i = m + 1
      BY <1>1
    <2>3. \A i \in 1..m : order[i] \in Ids(d.routes)
      BY <1>1, <2>1 DEF OrderResolves
    <2>4. \A i, j \in 1..m : order[i] = order[j] => i = j
      BY <1>1, <2>1 DEF OrderResolves, IsInjective
    <2>5. \A i, j \in 1..(m + 1) : order[i] = order[j] => i = j
      BY <1>1, <2>2, <2>3, <2>4
    <2>6. \A i \in 1..(m + 1) : order[i] \in Ids(routes)
      BY <1>1, <1>4, <2>2, <2>3
    <2> QED BY <1>1, <2>5, <2>6 DEF OrderResolves, IsInjective
  <1>6. \A n_ \in DOMAIN d.overrides : OrderResolves(d.overrides[n_].routeOrder, routes)
    BY <1>4, ResolvesToMore DEF OrdersOf
  <1>7. OrdersOf(e)
    BY <1>3, <1>5, <1>6 DEF OrdersOf
  <1> QED BY <1>3, <1>7 DEF e

\* An order without a route, for routes without it.
LEMMA WithoutResolves ==
  ASSUME NEW S, NEW routes \in Seq(S), NEW order \in Seq(RouteIds), NEW id, OrderResolves(order, routes)
  PROVE  OrderWithout(order, id) \in Seq(RouteIds) /\ OrderResolves(OrderWithout(order, id), RoutesWithout(routes, id))
  <1> DEFINE kept == {i \in DOMAIN order : order[i] # id}
             left == {i \in DOMAIN routes : routes[i].id # id}
             p == Picked(order, kept)
             q == Picked(routes, left)
  <1>1. /\ p \in Seq(RouteIds)
        /\ \A k \in DOMAIN p : \E i \in kept : p[k] = order[i]
        /\ \A k, l \in DOMAIN p : k # l => \E i, j \in kept : i # j /\ p[k] = order[i] /\ p[l] = order[j]
    <2>1. kept \in SUBSET (DOMAIN order)
      OBVIOUS
    <2> HIDE DEF kept
    <2> QED BY <2>1, PickedSequence
  <1>2. \A i \in left : \E k \in DOMAIN q : q[k] = routes[i]
    <2>1. left \in SUBSET (DOMAIN routes)
      OBVIOUS
    <2> HIDE DEF left
    <2> QED BY <2>1, PickedSequence
  <1>3. OrderWithout(order, id) = p /\ RoutesWithout(routes, id) = q
    BY DEF OrderWithout, RoutesWithout
  <1> HIDE DEF p, q
  <1>4. \A x \in Ids(routes) : x # id => x \in Ids(q)
    <2> SUFFICES ASSUME NEW i \in DOMAIN routes, routes[i].id # id PROVE routes[i].id \in Ids(q)
      BY DEF Ids
    <2> QED BY <1>2 DEF Ids
  <1>5. \A k \in DOMAIN p : p[k] \in Ids(q)
    BY <1>1, <1>4 DEF OrderResolves
  <1>6. IsInjective(p)
    BY <1>1 DEF OrderResolves, IsInjective
  <1> QED BY <1>1, <1>3, <1>5, <1>6 DEF OrderResolves

LEMMA RemovedResolves ==
  ASSUME NEW d \in ModelRoutingPolicy, OrdersOf(d), NEW id
  PROVE  Removed(d, id) \in ModelRoutingPolicy /\ OrdersOf(Removed(d, id))
  <1> DEFINE routes == RoutesWithout(d.routes, id)
             order == OrderWithout(d.defaultRouteOrder, id)
             one(n) == OverrideWithout(d.overrides[n], id)
             overrides == [n \in DOMAIN d.overrides |-> one(n)]
             e == Removed(d, id)
  <1>1. /\ d.routes \in Seq(ModelRouteTarget) /\ d.defaultRouteOrder \in Seq(RouteIds) /\ d.overrides \in Seq(CapabilityOverride)
    BY FieldsTyped
  <1>2. routes \in Seq(ModelRouteTarget)
    <2> DEFINE left == {i \in DOMAIN d.routes : d.routes[i].id # id}
    <2>1. left \in SUBSET (DOMAIN d.routes) /\ routes = Picked(d.routes, left)
      BY DEF RoutesWithout
    <2> HIDE DEF left, routes
    <2> QED BY <1>1, <2>1, PickedSequence
  <1>3. order \in Seq(RouteIds) /\ OrderResolves(order, routes)
    BY <1>1, WithoutResolves DEF OrdersOf
  <1>4. ASSUME NEW n \in DOMAIN d.overrides
        PROVE  /\ one(n) \in CapabilityOverride /\ OrderResolves(one(n).routeOrder, routes)
    <2>1. PICK o : o = d.overrides[n]
      OBVIOUS
    <2>2. o \in CapabilityOverride
      BY <1>1, <2>1
    <2>3. OrderResolves(o.routeOrder, d.routes)
      BY <2>1 DEF OrdersOf
    <2>4. o.routeOrder \in Seq(RouteIds)
      BY <2>2 DEF CapabilityOverride
    <2>5. OrderWithout(o.routeOrder, id) \in Seq(RouteIds) /\ OrderResolves(OrderWithout(o.routeOrder, id), routes)
      BY <1>1, <2>3, <2>4, WithoutResolves
    <2>6. one(n) = [o EXCEPT !.routeOrder = OrderWithout(@, id)]
      BY <2>1 DEF OverrideWithout
    <2> HIDE DEF one, routes
    <2>7. one(n) \in CapabilityOverride /\ one(n).routeOrder = OrderWithout(o.routeOrder, id)
      BY <2>2, <2>5, <2>6 DEF CapabilityOverride
    <2> QED BY <2>5, <2>7
  <1>5. e = [d EXCEPT !.routes = routes, !.defaultRouteOrder = order, !.overrides = overrides]
    BY DEF Removed
  <1>6. Len(d.overrides) \in Nat /\ DOMAIN d.overrides = 1..Len(d.overrides)
    BY <1>1
  <1> HIDE DEF routes, order, one, e
  <1>7. overrides \in Seq(CapabilityOverride) /\ DOMAIN overrides = DOMAIN d.overrides
    BY <1>4, <1>6
  <1>8. \A n \in DOMAIN overrides : OrderResolves(overrides[n].routeOrder, routes)
    BY <1>4, <1>7
  <1> HIDE DEF overrides
  <1>9. e \in ModelRoutingPolicy /\ e.routes = routes /\ e.defaultRouteOrder = order /\ e.overrides = overrides
    BY <1>2, <1>3, <1>5, <1>7 DEF ModelRoutingPolicy
  <1>10. OrdersOf(e)
    BY <1>3, <1>8, <1>9 DEF OrdersOf
  <1> QED BY <1>9, <1>10 DEF e

\* A route moves forward in an order.
LEMMA MovedResolves ==
  ASSUME NEW routes, NEW order \in Seq(RouteIds), OrderResolves(order, routes), NEW i \in 2..Len(order)
  PROVE  Moved(order, i) \in Seq(RouteIds) /\ OrderResolves(Moved(order, i), routes)
  <1> DEFINE n == Len(order)
             s == Moved(order, i)
  <1>1. n \in Nat /\ DOMAIN order = 1..n /\ i \in 1..n /\ i - 1 \in 1..n /\ i # i - 1
        /\ \A k \in 1..n : order[k] \in RouteIds
    OBVIOUS
  <1> HIDE DEF n
  <1>2. /\ DOMAIN s = 1..n /\ s[i] = order[i - 1] /\ s[i - 1] = order[i]
        /\ \A k \in 1..n : k # i /\ k # i - 1 => s[k] = order[k]
        /\ s = [k \in 1..n |-> s[k]]
    BY <1>1 DEF Moved
  <1> HIDE DEF s
  <1>3. \A k \in 1..n : s[k] \in RouteIds
    BY <1>1, <1>2
  <1>4. s \in Seq(RouteIds)
    BY <1>1, <1>2, <1>3
  <1>5. \A k, l \in 1..n : order[k] = order[l] => k = l
    BY <1>1 DEF OrderResolves, IsInjective
  <1>6. \A k, l \in 1..n : s[k] = s[l] => k = l
    BY <1>1, <1>2, <1>5
  <1>7. \A k \in 1..n : s[k] \in Ids(routes)
    BY <1>1, <1>2 DEF OrderResolves
  <1> QED BY <1>2, <1>4, <1>6, <1>7 DEF OrderResolves, IsInjective, s

\* The orders made for capabilities are others.
LEMMA OverridesResolve ==
  ASSUME NEW d \in ModelRoutingPolicy, OrdersOf(d), NEW overrides \in Seq(CapabilityOverride),
         \A n \in DOMAIN overrides : OrderResolves(overrides[n].routeOrder, d.routes)
  PROVE  [d EXCEPT !.overrides = overrides] \in ModelRoutingPolicy /\ OrdersOf([d EXCEPT !.overrides = overrides])
  <1> DEFINE e == [d EXCEPT !.overrides = overrides]
  <1>1. e \in ModelRoutingPolicy /\ e.routes = d.routes /\ e.defaultRouteOrder = d.defaultRouteOrder /\ e.overrides = overrides
    BY DEF ModelRoutingPolicy
  <1> HIDE DEF e
  <1>2. OrdersOf(e)
    BY <1>1 DEF OrdersOf
  <1> QED BY <1>1, <1>2 DEF e

LEMMA MoveDefaultResolves ==
  ASSUME NEW d \in ModelRoutingPolicy, OrdersOf(d), NEW i \in 2..Len(d.defaultRouteOrder)
  PROVE  LET e == [d EXCEPT !.defaultRouteOrder = Moved(@, i)] IN e \in ModelRoutingPolicy /\ OrdersOf(e)
  <1> DEFINE order == Moved(d.defaultRouteOrder, i)
             e == [d EXCEPT !.defaultRouteOrder = Moved(@, i)]
  <1>1. order \in Seq(RouteIds) /\ OrderResolves(order, d.routes)
    BY FieldsTyped, MovedResolves DEF OrdersOf
  <1>2. e = [d EXCEPT !.defaultRouteOrder = order]
    OBVIOUS
  <1> HIDE DEF order, e
  <1>3. e \in ModelRoutingPolicy /\ e.routes = d.routes /\ e.defaultRouteOrder = order /\ e.overrides = d.overrides
    BY <1>1, <1>2 DEF ModelRoutingPolicy
  <1>4. OrdersOf(e)
    BY <1>1, <1>3 DEF OrdersOf
  <1> QED BY <1>3, <1>4 DEF e

LEMMA MoveInOverrideResolves ==
  ASSUME NEW d \in ModelRoutingPolicy, OrdersOf(d), NEW n \in DOMAIN d.overrides, NEW i \in 2..Len(d.overrides[n].routeOrder)
  PROVE  LET e == [d EXCEPT !.overrides[n].routeOrder = Moved(@, i)] IN e \in ModelRoutingPolicy /\ OrdersOf(e)
  <1> DEFINE o == d.overrides[n]
             moved == [o EXCEPT !.routeOrder = Moved(@, i)]
             overrides == [d.overrides EXCEPT ![n] = moved]
             e == [d EXCEPT !.overrides[n].routeOrder = Moved(@, i)]
  <1>1. d.overrides \in Seq(CapabilityOverride) /\ OrderResolves(o.routeOrder, d.routes)
    BY FieldsTyped DEF OrdersOf
  <1>2. o \in CapabilityOverride /\ o.routeOrder \in Seq(RouteIds)
    <2>1. o \in CapabilityOverride
      BY <1>1
    <2> HIDE DEF o
    <2> QED BY <2>1 DEF CapabilityOverride
  <1>3. Moved(o.routeOrder, i) \in Seq(RouteIds) /\ OrderResolves(Moved(o.routeOrder, i), d.routes)
    BY <1>1, <1>2, MovedResolves
  <1>4. moved \in CapabilityOverride /\ moved.routeOrder = Moved(o.routeOrder, i)
    BY <1>2, <1>3 DEF CapabilityOverride
  <1>5. e = [d EXCEPT !.overrides = overrides]
    OBVIOUS
  <1> HIDE DEF o, moved
  <1>6. overrides \in Seq(CapabilityOverride) /\ DOMAIN overrides = DOMAIN d.overrides
    BY <1>1, <1>4
  <1>7. \A h \in DOMAIN overrides : OrderResolves(overrides[h].routeOrder, d.routes)
    BY <1>1, <1>3, <1>4, <1>6 DEF OrdersOf
  <1> HIDE DEF overrides, e
  <1> QED BY <1>5, <1>6, <1>7, OverridesResolve DEF e

\* Its other fields are.
LEMMA CapabilityResolves ==
  ASSUME NEW d \in ModelRoutingPolicy, OrdersOf(d), NEW c \in Capabilities, NEW at \in Nat
  PROVE  /\ [d EXCEPT !.capabilities = @ \cup {c}] \in ModelRoutingPolicy
         /\ OrdersOf([d EXCEPT !.capabilities = @ \cup {c}])
         /\ [d EXCEPT !.updatedAt = at] \in ModelRoutingPolicy
         /\ OrdersOf([d EXCEPT !.updatedAt = at])
  <1> DEFINE e == [d EXCEPT !.capabilities = @ \cup {c}]
             f == [d EXCEPT !.updatedAt = at]
  <1>1. e \in ModelRoutingPolicy /\ e.routes = d.routes /\ e.defaultRouteOrder = d.defaultRouteOrder /\ e.overrides = d.overrides
    BY DEF ModelRoutingPolicy
  <1>2. f \in ModelRoutingPolicy /\ f.routes = d.routes /\ f.defaultRouteOrder = d.defaultRouteOrder /\ f.overrides = d.overrides
    BY DEF ModelRoutingPolicy
  <1> HIDE DEF e, f
  <1>3. OrdersOf(e) /\ OrdersOf(f)
    BY <1>1, <1>2 DEF OrdersOf
  <1> QED BY <1>1, <1>2, <1>3 DEF e, f

LEMMA AddOverrideResolves ==
  ASSUME NEW d \in ModelRoutingPolicy, OrdersOf(d), NEW c \in Capabilities
  PROVE  LET e == [d EXCEPT !.overrides = Append(@, [capability |-> c, routeOrder |-> d.defaultRouteOrder])]
         IN e \in ModelRoutingPolicy /\ OrdersOf(e)
  <1> DEFINE o == [capability |-> c, routeOrder |-> d.defaultRouteOrder]
             overrides == Append(d.overrides, o)
             e == [d EXCEPT !.overrides = Append(@, [capability |-> c, routeOrder |-> d.defaultRouteOrder])]
             m == Len(d.overrides)
  <1>1. o \in CapabilityOverride /\ o.routeOrder = d.defaultRouteOrder
    BY FieldsTyped DEF CapabilityOverride
  <1>2. e = [d EXCEPT !.overrides = overrides]
    OBVIOUS
  <1> HIDE DEF o
  <1>3. /\ overrides \in Seq(CapabilityOverride) /\ m \in Nat /\ DOMAIN d.overrides = 1..m
        /\ DOMAIN overrides = 1..(m + 1) /\ overrides[m + 1] = o /\ \A h \in 1..m : overrides[h] = d.overrides[h]
    BY <1>1, FieldsTyped
  <1> HIDE DEF overrides, m, e
  <1>4. \A h \in DOMAIN overrides : h \in 1..m \/ h = m + 1
    BY <1>3
  <1>5. \A h \in DOMAIN overrides : OrderResolves(overrides[h].routeOrder, d.routes)
    BY <1>1, <1>3, <1>4 DEF OrdersOf
  <1> QED BY <1>2, <1>3, <1>5, OverridesResolve DEF e

LEMMA RemoveOverrideResolves ==
  ASSUME NEW d \in ModelRoutingPolicy, OrdersOf(d), NEW c
  PROVE  LET e == [d EXCEPT !.overrides = Picked(@, {i \in DOMAIN @ : @[i].capability # c})]
         IN e \in ModelRoutingPolicy /\ OrdersOf(e)
  <1> DEFINE left == {i \in DOMAIN d.overrides : d.overrides[i].capability # c}
             overrides == Picked(d.overrides, left)
             e == [d EXCEPT !.overrides = Picked(@, {i \in DOMAIN @ : @[i].capability # c})]
  <1>1. e = [d EXCEPT !.overrides = overrides]
    OBVIOUS
  <1>2. left \in SUBSET (DOMAIN d.overrides) /\ d.overrides \in Seq(CapabilityOverride)
    BY FieldsTyped
  <1>3. /\ overrides \in Seq(CapabilityOverride)
        /\ \A k \in DOMAIN overrides : \E i \in left : overrides[k] = d.overrides[i]
    <2> HIDE DEF left
    <2> QED BY <1>2, PickedSequence
  <1> HIDE DEF overrides, e, left
  <1>4. \A h \in DOMAIN overrides : OrderResolves(overrides[h].routeOrder, d.routes)
    BY <1>2, <1>3 DEF OrdersOf
  <1> QED BY <1>1, <1>3, <1>4, OverridesResolve DEF e

-----------------------------------------------------------------------------
(* The component's invariant.                                              *)

\* A policy of that form, whose orders resolve.
Resolving(p) == p \in ModelRoutingPolicy /\ OrdersOf(p)

\* The recommendation on show was made for a valid policy, and carries the fingerprint of what
\* it was made for.
RecommendationIsMade ==
  recommendation # None =>
    \E p \in ModelRoutingPolicy, wanted \in SUBSET Capabilities :
      /\ PolicyIsValid(p) /\ wanted # {}
      /\ recommendation = RecommendModelRoute(p, wanted) /\ recommendationFingerprint = Fingerprint(p, wanted)

RoutingInv ==
  /\ policy \in ModelRoutingPolicy /\ PolicyIsValid(policy)
  /\ Resolving(draft)
  /\ staged # None => staged \in ModelRoutingPolicy /\ PolicyIsValid(staged)
  /\ selectedOverride \in Capabilities \cup {None}
  /\ ticket \in BOOLEAN /\ required \subseteq Capabilities /\ edits \in 0..MaxEdits
  /\ RecommendationIsMade
  /\ decision # None => decision.route \in RouteIds

\* What a page edits, and what of it is stored.
EditedWell ==
  /\ policy \in ModelRoutingPolicy /\ PolicyIsValid(policy)
  /\ Resolving(draft)
  /\ staged # None => staged \in ModelRoutingPolicy /\ PolicyIsValid(staged)
  /\ selectedOverride \in Capabilities \cup {None} /\ edits \in 0..MaxEdits

\* What is recommended and decided.
DecidedWell ==
  /\ ticket \in BOOLEAN /\ required \subseteq Capabilities
  /\ RecommendationIsMade
  /\ decision # None => decision.route \in RouteIds

LEMMA ValidResolves ==
  ASSUME NEW p \in ModelRoutingPolicy, PolicyIsValid(p)
  PROVE  Resolving(p)
  BY NoIssues DEF Resolving

LEMMA RoutingStart == RoutingInit => RoutingInv
  <1> SUFFICES ASSUME RoutingInit PROVE RoutingInv
    OBVIOUS
  <1>1. policy \in ModelRoutingPolicy /\ PolicyIsValid(policy)
    BY RoutingConstants DEF RoutingInit
  <1>2. Resolving(draft)
    BY <1>1, ValidResolves DEF RoutingInit
  <1>3. /\ staged = None /\ selectedOverride = None /\ required = {} /\ decision = None /\ ticket \in BOOLEAN
        /\ RecommendationIsMade
    BY DEF RoutingInit, RecommendationIsMade
  <1>4. edits \in 0..MaxEdits
    BY RoutingConstants DEF RoutingInit
  <1> QED BY <1>1, <1>2, <1>3, <1>4 DEF RoutingInv

LEMMA EditKeeps ==
  ASSUME RoutingInv, NEW d, Resolving(d), Edit(d)
  PROVE  EditedWell' /\ UNCHANGED sessionVars
  <1>1. Resolving(draft)'
    BY DEF Edit, Resolving
  <1>2. edits' \in 0..MaxEdits
    BY RoutingConstants DEF RoutingInv, Edit
  <1> QED BY <1>1, <1>2 DEF Edit, RoutingInv, EditedWell, sessionVars

LEMMA SessionStays ==
  ASSUME RoutingInv, UNCHANGED sessionVars
  PROVE  DecidedWell'
  BY DEF RoutingInv, DecidedWell, sessionVars, RecommendationIsMade

LEMMA DraftStays ==
  ASSUME RoutingInv, UNCHANGED <<policy, staged>>, UNCHANGED draftVars
  PROVE  EditedWell'
  BY DEF RoutingInv, EditedWell, draftVars, Resolving

LEMMA TogglesKeep ==
  ASSUME RoutingInv, NEW id,
         ToggleEnabled(id) \/ ToggleAvailable(id) \/ \E c \in Capabilities : ToggleRouteCapability(id, c)
  PROVE  EditedWell' /\ UNCHANGED sessionVars
  <1> USE DEF RoutingInv
  <1>1. CASE ToggleEnabled(id)
    <2> DEFINE routes == [i \in DOMAIN draft.routes |-> IF draft.routes[i].id = id
                            THEN [draft.routes[i] EXCEPT !.enabled = ~@] ELSE draft.routes[i]]
    <2>1. Edit([draft EXCEPT !.routes = routes])
      BY <1>1 DEF ToggleEnabled, UpdateRoute
    <2>2. Resolving([draft EXCEPT !.routes = routes])
      BY ToggleResolves DEF Resolving
    <2> HIDE DEF routes
    <2> QED BY <2>1, <2>2, EditKeeps
  <1>2. CASE ToggleAvailable(id)
    <2> DEFINE routes == [i \in DOMAIN draft.routes |-> IF draft.routes[i].id = id
                            THEN [draft.routes[i] EXCEPT !.available = ~@] ELSE draft.routes[i]]
    <2>1. Edit([draft EXCEPT !.routes = routes])
      BY <1>2 DEF ToggleAvailable, UpdateRoute
    <2>2. Resolving([draft EXCEPT !.routes = routes])
      BY ToggleResolves DEF Resolving
    <2> HIDE DEF routes
    <2> QED BY <2>1, <2>2, EditKeeps
  <1>3. ASSUME NEW c \in Capabilities, ToggleRouteCapability(id, c) PROVE EditedWell' /\ UNCHANGED sessionVars
    <2> DEFINE routes == [i \in DOMAIN draft.routes |-> IF draft.routes[i].id = id
                            THEN [draft.routes[i] EXCEPT !.capabilities = (@ \ {c}) \cup ({c} \ @)] ELSE draft.routes[i]]
    <2>1. Edit([draft EXCEPT !.routes = routes])
      BY <1>3 DEF ToggleRouteCapability, UpdateRoute
    <2>2. Resolving([draft EXCEPT !.routes = routes])
      BY ToggleResolves DEF Resolving
    <2> HIDE DEF routes
    <2> QED BY <2>1, <2>2, EditKeeps
  <1> QED BY <1>1, <1>2, <1>3

LEMMA AddRouteKeeps ==
  ASSUME RoutingInv, NEW id \in RouteIds, AddRoute(id)
  PROVE  EditedWell' /\ UNCHANGED sessionVars
  <1> DEFINE r == [id |-> id, enabled |-> TRUE, available |-> TRUE, capabilities |-> {}]
             e == [draft EXCEPT !.routes = Append(@, r), !.defaultRouteOrder = Append(@, id)]
  <1>1. r \in ModelRouteTarget /\ r.id = id
    BY DEF ModelRouteTarget
  <1>2. Edit(e) /\ id \notin Ids(draft.routes)
    BY DEF AddRoute
  <1> HIDE DEF r
  <1>3. Resolving(e)
    BY <1>1, <1>2, AddResolves DEF RoutingInv, Resolving
  <1> HIDE DEF e
  <1> QED BY <1>2, <1>3, EditKeeps

LEMMA EditsKeep ==
  ASSUME RoutingInv,
         \/ \E id : RemoveRoute(id)
         \/ \E i : MoveDefault(i)
         \/ \E n, i : MoveInOverride(n, i)
         \/ \E c \in Capabilities : AddCustomCapability(c)
         \/ \E c : RemoveCapabilityOverride(c)
  PROVE  EditedWell' /\ UNCHANGED sessionVars
  <1>0. draft \in ModelRoutingPolicy /\ OrdersOf(draft)
    BY DEF RoutingInv, Resolving
  <1>1. ASSUME NEW id, RemoveRoute(id) PROVE EditedWell' /\ UNCHANGED sessionVars
    BY <1>0, <1>1, RemovedResolves, EditKeeps DEF RemoveRoute, Resolving
  <1>2. ASSUME NEW i, MoveDefault(i) PROVE EditedWell' /\ UNCHANGED sessionVars
    <2> DEFINE e == [draft EXCEPT !.defaultRouteOrder = Moved(@, i)]
    <2>1. i \in 2..Len(draft.defaultRouteOrder) /\ Edit(e)
      BY <1>2 DEF MoveDefault
    <2>2. Resolving(e)
      BY <1>0, <2>1, MoveDefaultResolves DEF Resolving
    <2> HIDE DEF e
    <2> QED BY <2>1, <2>2, EditKeeps
  <1>3. ASSUME NEW n, NEW i, MoveInOverride(n, i) PROVE EditedWell' /\ UNCHANGED sessionVars
    <2> DEFINE e == [draft EXCEPT !.overrides[n].routeOrder = Moved(@, i)]
    <2>1. n \in DOMAIN draft.overrides /\ i \in 2..Len(draft.overrides[n].routeOrder) /\ Edit(e)
      BY <1>3 DEF MoveInOverride
    <2>2. Resolving(e)
      BY <1>0, <2>1, MoveInOverrideResolves DEF Resolving
    <2> HIDE DEF e
    <2> QED BY <2>1, <2>2, EditKeeps
  <1>4. ASSUME NEW c \in Capabilities, AddCustomCapability(c) PROVE EditedWell' /\ UNCHANGED sessionVars
    <2> DEFINE e == [draft EXCEPT !.capabilities = @ \cup {c}]
    <2>1. Edit(e)
      BY <1>4 DEF AddCustomCapability
    <2>2. Resolving(e)
      <3>1. 0 \in Nat
        OBVIOUS
      <3> QED BY <1>0, <3>1, CapabilityResolves DEF Resolving
    <2> HIDE DEF e
    <2> QED BY <2>1, <2>2, EditKeeps
  <1>5. ASSUME NEW c, RemoveCapabilityOverride(c) PROVE EditedWell' /\ UNCHANGED sessionVars
    <2> DEFINE e == [draft EXCEPT !.overrides = Picked(@, {i \in DOMAIN @ : @[i].capability # c})]
    <2>1. Edit(e)
      BY <1>5 DEF RemoveCapabilityOverride
    <2>2. Resolving(e)
      BY <1>0, RemoveOverrideResolves DEF Resolving
    <2> HIDE DEF e
    <2> QED BY <2>1, <2>2, EditKeeps
  <1> QED BY <1>1, <1>2, <1>3, <1>4, <1>5

LEMMA AddOverrideKeeps ==
  ASSUME RoutingInv, AddCapabilityOverride
  PROVE  EditedWell' /\ UNCHANGED sessionVars
  <1> DEFINE e == [draft EXCEPT !.overrides = Append(@, [capability |-> selectedOverride,
                                                         routeOrder |-> draft.defaultRouteOrder])]
  <1>1. draft' = e /\ selectedOverride \in Capabilities
    BY DEF AddCapabilityOverride, RoutingInv
  <1>2. Resolving(e)
    BY <1>1, AddOverrideResolves DEF RoutingInv, Resolving
  <1> HIDE DEF e
  <1>3. Resolving(draft)'
    BY <1>1, <1>2 DEF Resolving
  <1>4. edits' \in 0..MaxEdits
    BY RoutingConstants DEF RoutingInv, AddCapabilityOverride
  <1> QED BY <1>3, <1>4 DEF AddCapabilityOverride, RoutingInv, EditedWell, sessionVars

LEMMA SavesKeepValid ==
  ASSUME RoutingInv, SaveDraft \/ ApplyImport \/ (\E document \in Documents : StageImport(document))
                     \/ \E c \in Capabilities : SelectOverride(c)
  PROVE  EditedWell' /\ UNCHANGED sessionVars
  <1>1. CASE SaveDraft
    <2> DEFINE next == [draft EXCEPT !.updatedAt = policy.updatedAt + 1]
    <2>1. policy.updatedAt + 1 \in Nat
      BY FieldsTyped DEF RoutingInv
    <2>2. next \in ModelRoutingPolicy
      <3> HIDE DEF next
      <3>1. next = [draft EXCEPT !.updatedAt = policy.updatedAt + 1]
        BY DEF next
      <3> QED BY <2>1, <3>1 DEF RoutingInv, Resolving, ModelRoutingPolicy
    <2>3. PolicyIsValid(next) /\ policy' = next /\ draft' = next
      BY <1>1 DEF SaveDraft, PutInForce
    <2> HIDE DEF next
    <2>4. Resolving(next)
      BY <2>2, <2>3, ValidResolves
    <2>5. Resolving(draft)' /\ PolicyIsValid(policy)' /\ policy' \in ModelRoutingPolicy
      BY <2>2, <2>3, <2>4 DEF Resolving, PolicyIsValid
    <2> QED BY <1>1, <2>5 DEF SaveDraft, RoutingInv, EditedWell, sessionVars
  <1>2. CASE ApplyImport
    <2>1. PICK p : p = staged
      OBVIOUS
    <2>2. p \in ModelRoutingPolicy /\ PolicyIsValid(p) /\ policy' = p /\ draft' = p /\ staged' = None
      BY <1>2, <2>1 DEF ApplyImport, PutInForce, RoutingInv
    <2>3. Resolving(p)
      BY <2>2, ValidResolves
    <2>4. Resolving(draft)' /\ PolicyIsValid(policy)' /\ policy' \in ModelRoutingPolicy
      BY <2>2, <2>3 DEF Resolving, PolicyIsValid
    <2> QED BY <1>2, <2>2, <2>4 DEF ApplyImport, RoutingInv, EditedWell, sessionVars
  <1>3. ASSUME NEW document \in Documents, StageImport(document) PROVE EditedWell' /\ UNCHANGED sessionVars
    <2>1. document.policy \in ModelRoutingPolicy
      BY RoutingConstants
    <2>2. DocumentIssues(document) = {} => PolicyIsValid(document.policy)
      BY DEF DocumentIssues, PolicyIsValid
    <2>3. staged' # None => staged' \in ModelRoutingPolicy /\ PolicyIsValid(staged)'
      BY <1>3, <2>1, <2>2 DEF StageImport, PolicyIsValid
    <2> QED BY <1>3, <2>3 DEF StageImport, RoutingInv, EditedWell, sessionVars, draftVars, Resolving
  <1>4. ASSUME NEW c \in Capabilities, SelectOverride(c) PROVE EditedWell' /\ UNCHANGED sessionVars
    BY <1>4 DEF SelectOverride, RoutingInv, EditedWell, sessionVars, Resolving
  <1> QED BY <1>1, <1>2, <1>3, <1>4

-----------------------------------------------------------------------------
(* Recommendations and decisions.                                          *)

LEMMA EvaluateKeeps ==
  ASSUME RoutingInv, EvaluateRecommendation
  PROVE  DecidedWell'
  <1>1. PICK p, wanted : p = policy /\ wanted = required
    OBVIOUS
  <1>2. /\ p \in ModelRoutingPolicy /\ PolicyIsValid(p) /\ wanted \in SUBSET Capabilities /\ wanted # {}
        /\ recommendation' = RecommendModelRoute(p, wanted) /\ recommendationFingerprint' = Fingerprint(p, wanted)
    BY <1>1 DEF EvaluateRecommendation, RoutingInv
  <1>3. RecommendationIsMade'
    BY <1>2 DEF RecommendationIsMade
  <1> QED BY <1>3 DEF EvaluateRecommendation, RoutingInv, DecidedWell

LEMMA SelectsKeep ==
  ASSUME RoutingInv, (\E inferred \in Inferences : SelectTicket(inferred)) \/ \E c \in Capabilities : ToggleRequiredCapability(c)
  PROVE  DecidedWell' /\ UNCHANGED <<policy, staged>> /\ UNCHANGED draftVars
  BY RoutingConstants DEF SelectTicket, ToggleRequiredCapability, RoutingInv, DecidedWell, Inferences, RecommendationIsMade

\* A current recommendation is that for the policy in force and what is ticked.
LEMMA CurrentRecommendation ==
  ASSUME RoutingInv, RecommendationIsCurrent
  PROVE  recommendation = RecommendModelRoute(policy, required) /\ required # {}
  <1>1. PICK p \in ModelRoutingPolicy, wanted \in SUBSET Capabilities :
          /\ wanted # {}
          /\ recommendation = RecommendModelRoute(p, wanted) /\ recommendationFingerprint = Fingerprint(p, wanted)
    BY DEF RoutingInv, RecommendationIsMade, RecommendationIsCurrent
  <1>2. p = policy /\ wanted = required
    BY <1>1 DEF RecommendationIsCurrent, Fingerprint
  <1> QED BY <1>1, <1>2

LEMMA ConfirmDecides ==
  ASSUME RoutingInv, ConfirmRecommendedRoute
  PROVE  DecidedWell' /\ DecisionIsCurrent /\ UNCHANGED <<policy, staged>> /\ UNCHANGED draftVars
  <1> DEFINE route == Head(recommendation.exactMatches)
  <1>1. recommendation = RecommendModelRoute(policy, required) /\ required # {}
    BY CurrentRecommendation DEF ConfirmRecommendedRoute
  <1>2. /\ Head(recommendation.exactMatches) \in Eligible(policy, required)
        /\ \A other \in Eligible(policy, required) \ {Head(recommendation.exactMatches)} :
             Preferred(policy, required, Head(recommendation.exactMatches), other)
    BY <1>1, Recommended DEF RoutingInv, ConfirmRecommendedRoute
  <1>3. /\ decision' = [type |-> "exact-confirmation", route |-> route, required |-> recommendation.required,
                        missing |-> {}, policyRevision |-> recommendation.policyRevision]
        /\ UNCHANGED <<policy, staged, ticket, required, recommendation, recommendationFingerprint>> /\ UNCHANGED draftVars
    BY DEF ConfirmRecommendedRoute, Decide
  <1>4. route \in Eligible(policy, required)
        /\ \A other \in Eligible(policy, required) \ {route} : Preferred(policy, required, route, other)
    BY <1>2
  <1>5. route \in RouteIds
    <2>1. \A i \in DOMAIN policy.routes : policy.routes[i].id \in RouteIds
      <3>1. policy.routes \in Seq(ModelRouteTarget)
        BY FieldsTyped DEF RoutingInv
      <3>2. \A r \in ModelRouteTarget : r.id \in RouteIds
        BY DEF ModelRouteTarget
      <3> QED BY <3>1, <3>2
    <2> HIDE DEF route
    <2> QED BY <1>4, <2>1 DEF Eligible, Ids
  <1> HIDE DEF route
  <1>6. decision'.type = "exact-confirmation" /\ decision'.route = route
    BY <1>3
  <1>7. DecisionIsCurrent
    BY <1>4, <1>6 DEF DecisionIsCurrent
  <1>8. DecidedWell'
    BY <1>3, <1>5, <1>6 DEF DecidedWell, RoutingInv, RecommendationIsMade
  <1> QED BY <1>3, <1>7, <1>8

LEMMA OverrideDecides ==
  ASSUME RoutingInv, NEW id, OverridePartialRoute(id)
  PROVE  DecidedWell' /\ DecisionIsCurrent /\ UNCHANGED <<policy, staged>> /\ UNCHANGED draftVars
  <1>1. recommendation = RecommendModelRoute(policy, required) /\ required # {}
    BY CurrentRecommendation DEF OverridePartialRoute
  <1>2. PICK match \in recommendation.partialMatches :
          match.route = id /\ Decide("partial-override", id, match.missing)
    BY DEF OverridePartialRoute
  <1>3. /\ Eligible(policy, required) = {}
        /\ match.route \in RouteIds /\ Usable(Route(policy, match.route))
        /\ match.missing = required \ Route(policy, match.route).capabilities
    BY <1>1, <1>2, Recommended DEF RoutingInv, OverridePartialRoute
  <1>4. /\ decision' = [type |-> "partial-override", route |-> id, required |-> recommendation.required,
                        missing |-> match.missing, policyRevision |-> recommendation.policyRevision]
        /\ UNCHANGED <<policy, staged, ticket, required, recommendation, recommendationFingerprint>> /\ UNCHANGED draftVars
    BY <1>2 DEF Decide
  <1>5. decision'.type = "partial-override" /\ decision'.route = id /\ decision'.missing = match.missing
    BY <1>4
  <1>6. DecisionIsCurrent
    BY <1>2, <1>3, <1>5 DEF DecisionIsCurrent
  <1>7. DecidedWell'
    BY <1>2, <1>3, <1>4, <1>5 DEF DecidedWell, RoutingInv, RecommendationIsMade
  <1> QED BY <1>4, <1>6, <1>7

LEMMA NothingDecided ==
  ASSUME decision' \in {decision, None}
  PROVE  DecisionIsCurrent
  BY DEF DecisionIsCurrent

LEMMA RoutingKept ==
  ASSUME EditedWell', DecidedWell'
  PROVE  RoutingInv'
  BY DEF EditedWell, DecidedWell, RoutingInv

LEMMA RoutingStep ==
  ASSUME RoutingInv, [RoutingNext]_routingVars
  PROVE  RoutingInv' /\ DecisionIsCurrent
  <1>1. ASSUME EditedWell', UNCHANGED sessionVars PROVE RoutingInv' /\ DecisionIsCurrent
    <2>1. decision' \in {decision, None}
      BY <1>1 DEF sessionVars
    <2> QED BY <1>1, <2>1, SessionStays, NothingDecided, RoutingKept
  <1>2. ASSUME DecidedWell', DecisionIsCurrent, UNCHANGED <<policy, staged>>, UNCHANGED draftVars PROVE RoutingInv' /\ DecisionIsCurrent
    BY <1>2, DraftStays, RoutingKept
  <1>3. CASE UNCHANGED routingVars
    <2>1. UNCHANGED sessionVars /\ UNCHANGED <<policy, staged>> /\ UNCHANGED draftVars
      BY <1>3 DEF routingVars, sessionVars, draftVars
    <2> QED BY <1>1, <2>1, DraftStays
  <1>4. ASSUME NEW id, (id \in RouteIds /\ AddRoute(id)) \/ RemoveRoute(id) PROVE RoutingInv' /\ DecisionIsCurrent
    BY <1>1, <1>4, AddRouteKeeps, EditsKeep
  <1>5. ASSUME NEW id \in RouteIds, OverridePartialRoute(id) PROVE RoutingInv' /\ DecisionIsCurrent
    BY <1>2, <1>5, OverrideDecides
  <1>6. ASSUME NEW id \in Ids(draft.routes),
               ToggleEnabled(id) \/ ToggleAvailable(id) \/ \E c \in Capabilities : ToggleRouteCapability(id, c)
        PROVE RoutingInv' /\ DecisionIsCurrent
    BY <1>1, <1>6, TogglesKeep
  <1>7. ASSUME (\E i : MoveDefault(i)) \/ \E n, i : MoveInOverride(n, i) PROVE RoutingInv' /\ DecisionIsCurrent
    BY <1>1, <1>7, EditsKeep
  <1>8. ASSUME NEW c \in Capabilities, AddCustomCapability(c) \/ RemoveCapabilityOverride(c) PROVE RoutingInv' /\ DecisionIsCurrent
    BY <1>1, <1>8, EditsKeep
  <1>9. ASSUME NEW c \in Capabilities, SelectOverride(c) PROVE RoutingInv' /\ DecisionIsCurrent
    BY <1>1, <1>9, SavesKeepValid
  <1>10. ASSUME (\E c \in Capabilities : ToggleRequiredCapability(c)) \/ (\E inferred \in Inferences : SelectTicket(inferred))
         PROVE RoutingInv' /\ DecisionIsCurrent
    <2>1. decision' \in {decision, None}
      BY <1>10 DEF ToggleRequiredCapability, SelectTicket
    <2> QED BY <1>2, <1>10, <2>1, SelectsKeep, NothingDecided
  <1>11. CASE AddCapabilityOverride
    BY <1>1, <1>11, AddOverrideKeeps
  <1>12. CASE SaveDraft \/ ApplyImport \/ \E document \in Documents : StageImport(document)
    BY <1>1, <1>12, SavesKeepValid
  <1>13. CASE EvaluateRecommendation
    <2>1. decision' \in {decision, None} /\ UNCHANGED <<policy, staged>> /\ UNCHANGED draftVars
      BY <1>13 DEF EvaluateRecommendation
    <2> QED BY <1>2, <1>13, <2>1, EvaluateKeeps, NothingDecided
  <1>14. CASE ConfirmRecommendedRoute
    BY <1>2, <1>14, ConfirmDecides
  <1>15. CASE CancelImport
    <2>1. EditedWell' /\ UNCHANGED sessionVars
      BY <1>15 DEF CancelImport, RoutingInv, EditedWell, draftVars, Resolving
    <2> QED BY <1>1, <2>1
  <1>16. CASE TicketControls
    BY <1>5, <1>10, <1>13, <1>14, <1>16 DEF TicketControls
  <1>17. CASE RouteControls
    BY <1>4, <1>6, <1>17 DEF RouteControls
  <1>18. CASE OrderControls
    BY <1>7, <1>8, <1>9, <1>11, <1>18 DEF OrderControls
  <1>19. CASE ImportControls
    BY <1>12, <1>15, <1>19 DEF ImportControls
  <1> QED BY <1>3, <1>4, <1>10, <1>12, <1>16, <1>17, <1>18, <1>19 DEF RoutingNext

LEMMA RoutingSafe ==
  ASSUME RoutingInv
  PROVE  OrdersResolve /\ MigrationIsInert
  BY NoOrderIssues, MigrationInert DEF RoutingInv, Resolving, OrdersResolve
LEMMA RoutingHolds == ScenesSpec => []RoutingInv
  <1>1. ScenesInit => RoutingInv
    BY RoutingStart DEF ScenesInit
  <1>2. RoutingInv /\ [ScenesNext]_scenesVars => RoutingInv'
    BY ScenesStep, RoutingStep
  <1> QED BY <1>1, <1>2, PTL DEF ScenesSpec

\* Whatever was edited, imported or ticked since a recommendation was shown, a decision is about
\* the policy in force and the capabilities ticked when it is taken, and names the eligible route
\* their orders prefer (recommendModelRoute() and the handlers of ModelRoutingView.tsx).
THEOREM DecisionsStayCurrent == ScenesSpec => DecisionsAreCurrent
  <1>1. RoutingInv /\ [ScenesNext]_scenesVars => [DecisionIsCurrent]_routingVars
    BY ScenesStep, RoutingStep
  <1> QED BY <1>1, RoutingHolds, PTL DEF ScenesSpec, DecisionsAreCurrent

\* The orders of a draft and of the guided setup name what is there, each once, a policy in force
\* is valid, and one that is migrated is valid, does nothing by itself and prefers what it
\* preferred (model-routing.ts).
THEOREM PoliciesStayResolved == ScenesSpec => []PoliciesResolve
  <1>1. RoutingInv /\ GuidedInv => PoliciesResolve
    BY RoutingSafe, GuidedSafe DEF PoliciesResolve
  <1> QED BY <1>1, RoutingHolds, GuidedHold, PTL

-----------------------------------------------------------------------------
(* The work a browser keeps.                                               *)

Storage == [tickets : [WorkCases -> WorkTickets \cup {None}], activities : {None} \cup [Workers -> {"idle", "working"}],
            mails : SUBSET Mails]

EventTyped(e) == e.to \in WorkStatuses \cup {None} /\ e.entries \subseteq Entries

\* An event this browser recorded itself, or took of a receipt, can be exported.
Exportable(e) == e.actor # None /\ e.sound /\ e.source = "mnemosync" /\ EventTyped(e)

\* What a status of a ticket rests on.
Told(events, c, t) == t # None => t.status = t.born \/ \E i \in 1..Len(events) : events[i].case = c /\ events[i].to = t.status

EventsInOrder(events) == \A i \in 1..Len(events) : events[i].id \in Nat => events[i].id <= i
EventsExportable(events) == \A i \in 1..Len(events) : events[i] \in Foreign \/ Exportable(events[i])
IdsOnce(events) == \A i, j \in 1..Len(events) : events[i].id = events[j].id => i = j \/ events[i].id \in RunCases

\* The inductive invariant.
LocalInv ==
  /\ local \in Storage /\ seeded \in BOOLEAN
  /\ \E S : ledger \in Seq(S)
  /\ StatusIsRecorded
  /\ EventsInOrder(ledger) /\ EventsExportable(ledger) /\ EventsAreOnce

LEMMA DemoTyped == Demo \in Storage /\ \A c \in WorkCases : Told(<< >>, c, Sanitized(Demo.tickets[c]))
  <1>1. \A status \in WorkStatuses, worker \in Workers : NewWork(status, worker, {}) \in WorkTickets
    BY DEF NewWork, WorkTickets
  <1>2. NewWork("in-progress", "Codex", {}) \in WorkTickets
    BY <1>1 DEF WorkStatuses, Workers
  <1>3. Demo \in Storage
    BY <1>2 DEF Demo, Storage
  <1>4. ASSUME NEW c \in WorkCases PROVE Told(<< >>, c, Sanitized(Demo.tickets[c]))
    <2>1. Demo.tickets[c] \in {NewWork("in-progress", "Codex", {}), None}
      BY DEF Demo
    <2>2. CASE Demo.tickets[c] = None
      BY <2>2 DEF Sanitized, Told
    <2>3. CASE Demo.tickets[c] = NewWork("in-progress", "Codex", {})
      BY <2>3 DEF Sanitized, Told, NewWork, WorkStatuses
    <2> QED BY <2>1, <2>2, <2>3
  <1> QED BY <1>3, <1>4

\* Reading twice is reading once.
LEMMA SanitizedTyped ==
  ASSUME NEW t \in WorkTickets \cup {None}
  PROVE  /\ Sanitized(t) \in WorkTickets \cup {None}
         /\ Sanitized(Sanitized(t)) = Sanitized(t)
         /\ Sanitized(t) # None => Sanitized(t) \in WorkTickets /\ Sanitized(t).status \in WorkStatuses
  <1>1. CASE t = None
    BY <1>1 DEF Sanitized
  <1>2. CASE t \in WorkTickets /\ t # None
    <2> DEFINE r == [t EXCEPT !.status = IF @ \in WorkStatuses THEN @ ELSE "todo", !.whole = TRUE, !.plan = SanitizedPlan(@)]
    <2>1. Sanitized(t) = r
      BY <1>2 DEF Sanitized
    <2>2. "todo" \in WorkStatuses
      BY DEF WorkStatuses
    <2>3. SanitizedPlan(t.plan) \in {None, "sound", "strange"} /\ SanitizedPlan(SanitizedPlan(t.plan)) = SanitizedPlan(t.plan)
      BY <1>2 DEF WorkTickets, SanitizedPlan
    <2>4. r \in WorkTickets /\ r.status \in WorkStatuses /\ r.whole = TRUE /\ r.plan = SanitizedPlan(t.plan)
      BY <1>2, <2>2, <2>3 DEF WorkTickets
    <2> HIDE DEF r
    <2>5. [r EXCEPT !.status = IF @ \in WorkStatuses THEN @ ELSE "todo", !.whole = TRUE, !.plan = SanitizedPlan(@)] = r
      BY <2>3, <2>4 DEF WorkTickets
    <2>6. Sanitized(r) = r
      BY <2>5 DEF Sanitized
    <2> QED BY <2>1, <2>4, <2>6
  <1> QED BY <1>1, <1>2

\* What is read is what a ticket should be, and can be written back.
LEMMA LoadedTyped ==
  ASSUME local \in Storage, seeded \in BOOLEAN
  PROVE  /\ Seeded \in Storage
         /\ LoadedTickets \in [WorkCases -> WorkTickets \cup {None}]
         /\ \A c \in WorkCases : LoadedTickets[c] = Sanitized(Seeded.tickets[c]) /\ Sanitized(LoadedTickets[c]) = LoadedTickets[c]
         /\ \A c \in WorkCases : LoadedTickets[c] # None =>
              LoadedTickets[c] \in WorkTickets /\ LoadedTickets[c].status \in WorkStatuses
  <1>1. Seeded \in Storage
    BY DemoTyped DEF Seeded
  <1>2. \A c \in WorkCases : Seeded.tickets[c] \in WorkTickets \cup {None}
    BY <1>1 DEF Storage
  <1> QED BY <1>1, <1>2, SanitizedTyped DEF LoadedTickets

\* A ledger that goes on tells what it told.
LEMMA ToldStays ==
  ASSUME NEW S, NEW events \in Seq(S), NEW more \in Seq(S), NEW c, NEW t, Told(events, c, t)
  PROVE  Told(events \o more, c, t)
  <1>1. \A i \in 1..Len(events) : i \in 1..Len(events \o more) /\ (events \o more)[i] = events[i]
    OBVIOUS
  <1> QED BY <1>1 DEF Told

LedgerInv == (\E S : ledger \in Seq(S)) /\ EventsInOrder(ledger) /\ EventsExportable(ledger) /\ EventsAreOnce
LedgerStep == LedgerInv' /\ \A c \in WorkCases : \A t : Told(ledger, c, t) => Told(ledger', c, t)

\* A recorded event has a new number, or is that of a run.
LEMMA RecordKeeps ==
  ASSUME LedgerInv, NEW e, ledger' = Append(ledger, e), e.id = Len(ledger) + 1 \/ e.id \in RunCases, Exportable(e)
  PROVE  /\ LedgerStep
         /\ \A t : e.to = t.status => Told(ledger', e.case, t)
  <1>1. PICK S : ledger \in Seq(S)
    BY DEF LedgerInv
  <1> DEFINE n == Len(ledger)
             T == S \cup {e}
  <1>2. ledger \in Seq(T) /\ n \in Nat
    BY <1>1
  <1>3. /\ ledger' \in Seq(T) /\ Len(ledger') = n + 1 /\ ledger'[n + 1] = e
        /\ \A i \in 1..n : ledger'[i] = ledger[i]
    BY <1>2
  <1> HIDE DEF n, T
  <1>4. \A i \in 1..(n + 1) : i \in 1..n \/ i = n + 1
    BY <1>2
  <1>5. EventsInOrder(ledger)'
    BY <1>2, <1>3, <1>4, LocalConstants DEF LedgerInv, EventsInOrder, n
  <1>6. EventsExportable(ledger)'
    BY <1>3, <1>4 DEF LedgerInv, EventsExportable, n
  <1>7. EventsAreOnce'
    <2>1. \A i \in 1..n : e.id = n + 1 => ledger[i].id # e.id
      BY <1>2 DEF LedgerInv, EventsInOrder, n
    <2> QED BY <1>2, <1>3, <1>4, <2>1 DEF LedgerInv, EventsAreOnce, n
  <1>8. \A c, t : Told(ledger, c, t) => Told(ledger', c, t)
    BY <1>2, <1>3 DEF Told, n
  <1>9. \A t : e.to = t.status => Told(ledger', e.case, t)
    <2>1. n + 1 \in 1..Len(ledger')
      BY <1>2, <1>3
    <2> QED BY <1>3, <2>1 DEF Told
  <1> QED BY <1>3, <1>5, <1>6, <1>7, <1>8, <1>9 DEF LedgerStep, LedgerInv

\* A file adds the events it has that are new, each once.
LEMMA ImportKeeps ==
  ASSUME LedgerInv, NEW lines \in TelemetryFiles, ImportTelemetry(lines)
  PROVE  LedgerStep
  <1>1. PICK S : ledger \in Seq(S)
    BY DEF LedgerInv
  <1>2. PICK T : /\ lines \in Seq(T)
                 /\ \A i \in 1..Len(lines) : (lines[i] \in Foreign \/ Exportable(lines[i]))
                 /\ lines = ledger \/ \A i \in 1..Len(lines) : lines[i].id \notin Nat
    <2> DEFINE others == Foreign \cup {ReceiptEvent(r) : r \in Receipts}
    <2>1. ASSUME NEW r \in Receipts PROVE Exportable(ReceiptEvent(r)) /\ ReceiptEvent(r).id \notin Nat
      BY LocalConstants DEF Exportable, EventTyped, ReceiptEvent, WorkEvent
    <2>2. \A e \in others : (e \in Foreign \/ Exportable(e)) /\ e.id \notin Nat
      BY <2>1, LocalConstants
    <2> HIDE DEF others
    <2>3. CASE lines = ledger
      BY <1>1, <2>3 DEF LedgerInv, EventsExportable
    <2>4. ASSUME NEW e \in others, lines = <<e>> \/ lines = <<e, e>>
          PROVE  /\ lines \in Seq(others)
                 /\ \A i \in 1..Len(lines) : (lines[i] \in Foreign \/ Exportable(lines[i]))
                 /\ \A i \in 1..Len(lines) : lines[i].id \notin Nat
      <3>1. CASE lines = <<e>>
        <4>1. lines \in Seq(others) /\ Len(lines) = 1 /\ lines[1] = e
          BY <3>1
        <4> QED BY <2>2, <4>1
      <3>2. CASE lines = <<e, e>>
        <4>1. lines \in Seq(others) /\ Len(lines) = 2 /\ lines[1] = e /\ lines[2] = e
          BY <3>2
        <4> QED BY <2>2, <4>1
      <3> QED BY <2>4, <3>1, <3>2
    <2>5. lines = ledger \/ \E e \in others : lines = <<e>> \/ lines = <<e, e>>
      BY DEF TelemetryFiles, others
    <2> QED BY <2>3, <2>4, <2>5
  <1> DEFINE U == S \cup T
             new == NewLines(ledger, lines)
             more == Picked(lines, new)
             n == Len(ledger)
             m == Len(more)
  <1>3. ledger \in Seq(U) /\ lines \in Seq(U) /\ n \in Nat
    BY <1>1, <1>2
  <1>4. new \in SUBSET (DOMAIN lines)
    BY <1>3 DEF NewLines
  <1>5. \A i \in new : lines[i].id \notin Nat
    BY <1>2, <1>3, <1>4 DEF NewLines
  <1>6. \A i \in new : \A j \in 1..n : ledger[j].id # lines[i].id
    BY DEF NewLines
  <1>7. \A i, j \in new : i # j => lines[i].id # lines[j].id
    <2>1. ASSUME NEW i \in new, NEW j \in new, i < j PROVE lines[i].id # lines[j].id
      <3>1. i \in Nat /\ j \in Nat /\ i \in 1..(j - 1)
        BY <1>3, <1>4, <2>1
      <3> QED BY <3>1 DEF NewLines
    <2>2. \A i, j \in new : i # j => i < j \/ j < i
      BY <1>3, <1>4
    <2> QED BY <2>1, <2>2
  <1> HIDE DEF new, U
  <1>8. /\ more \in Seq(U)
        /\ \A k \in 1..m : \E i \in new : more[k] = lines[i]
        /\ \A k, l \in 1..m : k # l => \E i, j \in new : i # j /\ more[k] = lines[i] /\ more[l] = lines[j]
    <2>1. /\ more \in Seq(U)
          /\ \A k \in DOMAIN more : \E i \in new : more[k] = lines[i]
          /\ \A k, l \in DOMAIN more : k # l => \E i, j \in new : i # j /\ more[k] = lines[i] /\ more[l] = lines[j]
      BY <1>3, <1>4, PickedSequence
    <2> HIDE DEF more
    <2>2. DOMAIN more = 1..m
      BY <2>1
    <2> QED BY <2>1, <2>2
  <1>9. ledger' = ledger \o more
    BY DEF ImportTelemetry, Taken, new
  <1> HIDE DEF more
  <1>10. /\ ledger' \in Seq(U) /\ Len(ledger') = n + m /\ m \in Nat
         /\ \A i \in 1..n : ledger'[i] = ledger[i]
         /\ \A i \in 1..(n + m) : i \in 1..n \/ (i - n \in 1..m /\ ledger'[i] = more[i - n])
    BY <1>3, <1>8, <1>9
  <1> HIDE DEF n, m
  <1>11. EventsInOrder(ledger)'
    <2>1. \A k \in 1..m : more[k].id \notin Nat
      BY <1>5, <1>8
    <2>2. \A i \in 1..n : ledger[i].id \in Nat => ledger[i].id <= i
      BY DEF LedgerInv, EventsInOrder, n
    <2>3. \A i \in 1..(n + m) : ledger'[i].id \in Nat => ledger'[i].id <= i
      BY <1>10, <2>1, <2>2
    <2> QED BY <1>10, <2>3 DEF EventsInOrder
  <1>12. EventsExportable(ledger)'
    <2>1. \A k \in 1..m : more[k] \in Foreign \/ Exportable(more[k])
      BY <1>2, <1>3, <1>4, <1>8
    <2> QED BY <1>10, <2>1 DEF LedgerInv, EventsExportable, n
  <1>13. EventsAreOnce'
    <2> SUFFICES ASSUME NEW i \in 1..(n + m), NEW j \in 1..(n + m), ledger'[i].id = ledger'[j].id
                 PROVE  i = j \/ ledger'[i].id \in RunCases
      BY <1>10 DEF EventsAreOnce
    <2>1. \A k \in 1..m : \A h \in 1..n : more[k].id # ledger[h].id
      BY <1>6, <1>8
    <2>2. \A k, l \in 1..m : k # l => more[k].id # more[l].id
      BY <1>7, <1>8
    <2>3. CASE i \in 1..n /\ j \in 1..n
      BY <1>10, <2>3 DEF LedgerInv, EventsAreOnce, n
    <2>4. CASE ~(i \in 1..n) /\ ~(j \in 1..n)
      <3>1. i - n = j - n
        BY <1>10, <2>2, <2>4
      <3> QED BY <1>3, <1>10, <3>1 DEF n
    <2> QED BY <1>10, <2>1, <2>3, <2>4
  <1>14. \A c, t : Told(ledger, c, t) => Told(ledger', c, t)
    <2>1. 1..n \subseteq 1..(n + m)
      BY <1>3, <1>10 DEF n
    <2> QED BY <1>10, <2>1 DEF Told, n
  <1> QED BY <1>10, <1>11, <1>12, <1>13, <1>14 DEF LedgerStep, LedgerInv

\* What is read of the storage is as before, but for the tickets of changed.
Rereads(changed) ==
  /\ local' \in Storage /\ seeded' \in BOOLEAN
  /\ \A c \in WorkCases : LoadedTickets'[c] = LoadedTickets[c] \/ LoadedTickets'[c] = changed[c]

\* A storage that is as it was read, with other tickets or not.
LEMMA RereadTickets ==
  ASSUME local \in Storage, seeded \in BOOLEAN, NEW changed \in [WorkCases -> WorkTickets \cup {None}],
         \A c \in WorkCases : Sanitized(changed[c]) = changed[c],
         local' \in Storage, seeded' \in BOOLEAN,
         \/ seeded' /\ local'.tickets \in {changed, Seeded.tickets}
         \/ seeded' = seeded /\ local'.tickets = local.tickets
         \/ ~seeded /\ ~seeded'
  PROVE  Rereads(changed)
  <1>1. LoadedTickets' = [c \in WorkCases |-> Sanitized(Seeded'.tickets[c])]
    BY DEF LoadedTickets, Seeded, Sanitized, SanitizedPlan, Demo
  <1>2. \A c \in WorkCases : LoadedTickets[c] = Sanitized(Seeded.tickets[c])
    BY DEF LoadedTickets
  <1>3. Seeded'.tickets \in {changed, Seeded.tickets}
    BY DEF Seeded
  <1> QED BY <1>1, <1>2, <1>3 DEF Rereads

LEMMA SaveRereads ==
  ASSUME local \in Storage, seeded \in BOOLEAN, NEW changed \in [WorkCases -> WorkTickets \cup {None}],
         \A c \in WorkCases : Sanitized(changed[c]) = changed[c], SaveTickets(changed)
  PROVE  Rereads(changed)
  <1>1. PICK kept \in BOOLEAN : local' = IF kept THEN [Seeded EXCEPT !.tickets = changed] ELSE Seeded
    BY DEF SaveTickets
  <1>2. Seeded \in Storage
    BY LoadedTyped
  <1>3. local' \in Storage /\ local'.tickets \in {changed, Seeded.tickets}
    BY <1>1, <1>2 DEF Storage
  <1>4. seeded' = TRUE
    BY DEF SaveTickets
  <1> QED BY <1>3, <1>4, RereadTickets

\* The tickets that are read, with another one at c.
LEMMA ChangedTyped ==
  ASSUME local \in Storage, seeded \in BOOLEAN, NEW c \in WorkCases, NEW t \in WorkTickets \cup {None},
         t # None => t.status \in WorkStatuses /\ t.whole = TRUE /\ SanitizedPlan(t.plan) = t.plan
  PROVE  LET changed == [LoadedTickets EXCEPT ![c] = t]
         IN /\ changed \in [WorkCases -> WorkTickets \cup {None}]
            /\ \A d \in WorkCases : Sanitized(changed[d]) = changed[d] /\ changed[d] = IF d = c THEN t ELSE LoadedTickets[d]
  <1> DEFINE changed == [LoadedTickets EXCEPT ![c] = t]
  <1>1. /\ changed \in [WorkCases -> WorkTickets \cup {None}]
        /\ \A d \in WorkCases : changed[d] = IF d = c THEN t ELSE LoadedTickets[d]
    BY LoadedTyped
  <1>2. Sanitized(t) = t
    <2>1. CASE t = None
      BY <2>1 DEF Sanitized
    <2>2. CASE t # None
      <3>1. [t EXCEPT !.status = IF @ \in WorkStatuses THEN @ ELSE "todo", !.whole = TRUE, !.plan = SanitizedPlan(@)] = t
        BY <2>2 DEF WorkTickets
      <3> QED BY <2>2, <3>1 DEF Sanitized
    <2> QED BY <2>1, <2>2
  <1>3. \A d \in WorkCases : Sanitized(changed[d]) = changed[d]
    BY <1>1, <1>2, LoadedTyped
  <1> QED BY <1>1, <1>3

\* A ticket that is read is as it should be, also with another status, note, decision or artifact.
LEMMA LoadedSound ==
  ASSUME local \in Storage, seeded \in BOOLEAN, NEW c \in WorkCases, LoadedTickets[c] # None
  PROVE  LET t == LoadedTickets[c]
         IN t \in WorkTickets /\ t.status \in WorkStatuses /\ t.whole = TRUE /\ SanitizedPlan(t.plan) = t.plan
  <1>1. Seeded.tickets[c] \in WorkTickets \cup {None} /\ LoadedTickets[c] = Sanitized(Seeded.tickets[c])
    BY LoadedTyped DEF Storage
  <1>2. Seeded.tickets[c] \in WorkTickets
    BY <1>1 DEF Sanitized
  <1>3. LoadedTickets[c].whole = TRUE /\ LoadedTickets[c].plan = SanitizedPlan(Seeded.tickets[c].plan)
    BY <1>1, <1>2 DEF Sanitized, WorkTickets
  <1> QED BY <1>3, LoadedTyped DEF SanitizedPlan

\* The ledger tells of all that is read.
LEMMA TellingKeeps ==
  ASSUME LocalInv, NEW changed, Rereads(changed), LedgerStep,
         \A c \in WorkCases : changed[c] = LoadedTickets[c] \/ Told(ledger', c, changed[c])
  PROVE  LocalInv'
  <1>1. \A c \in WorkCases : Told(ledger, c, LoadedTickets[c])
    BY DEF LocalInv, StatusIsRecorded, Told
  <1>2. \A c \in WorkCases : Told(ledger', c, LoadedTickets'[c])
    BY <1>1 DEF Rereads, LedgerStep
  <1>3. StatusIsRecorded'
    BY <1>2 DEF StatusIsRecorded, Told
  <1> QED BY <1>3 DEF LocalInv, Rereads, LedgerStep, LedgerInv

LEMMA LedgerStays ==
  ASSUME LocalInv, UNCHANGED ledger
  PROVE  LedgerStep
  BY DEF LocalInv, LedgerStep, LedgerInv, EventsInOrder, EventsExportable, EventsAreOnce

\* A step that is not about tickets.
LEMMA AsideKeeps ==
  ASSUME LocalInv, LedgerStep, local' \in Storage, seeded' \in BOOLEAN,
         \/ seeded' /\ local'.tickets = Seeded.tickets
         \/ seeded' = seeded /\ local'.tickets = local.tickets
         \/ ~seeded /\ ~seeded'
  PROVE  LocalInv'
  <1>1. local \in Storage /\ seeded \in BOOLEAN
    BY DEF LocalInv
  <1>2. /\ LoadedTickets \in [WorkCases -> WorkTickets \cup {None}]
        /\ \A c \in WorkCases : Sanitized(LoadedTickets[c]) = LoadedTickets[c]
    BY <1>1, LoadedTyped
  <1>3. Rereads(LoadedTickets)
    BY <1>1, <1>2, RereadTickets
  <1> QED BY <1>3, TellingKeeps

\* An event this browser records of a ticket.
LEMMA RecordSteps ==
  ASSUME LocalInv, NEW c, NEW to \in WorkStatuses \cup {None}, NEW entries \in SUBSET Entries, Record(c, to, entries)
  PROVE  LedgerStep /\ \A t : to = t.status => Told(ledger', c, t)
  <1> DEFINE e == WorkEvent(Len(ledger) + 1, c, to, {<<"ticket", c>>}, entries, "Henry")
  <1>1. Exportable(e) /\ e.id = Len(ledger) + 1 /\ e.to = to /\ e.case = c
    BY LocalConstants DEF Exportable, EventTyped, WorkEvent
  <1>2. ledger' = Append(ledger, e) /\ LedgerInv
    BY DEF Record, LocalInv, LedgerInv
  <1> HIDE DEF e
  <1> QED BY <1>1, <1>2, RecordKeeps

\* A ticket that is new, changed or gone.
LEMMA SaveKeeps ==
  ASSUME LocalInv, NEW c \in WorkCases, NEW t \in WorkTickets \cup {None},
         t # None => t.status \in WorkStatuses /\ t.whole = TRUE /\ SanitizedPlan(t.plan) = t.plan,
         SaveTickets([LoadedTickets EXCEPT ![c] = t]), LedgerStep,
         t = LoadedTickets[c] \/ Told(ledger', c, t)
  PROVE  LocalInv'
  <1>1. local \in Storage /\ seeded \in BOOLEAN
    BY DEF LocalInv
  <1>2. PICK changed : changed = [LoadedTickets EXCEPT ![c] = t]
    OBVIOUS
  <1>3. /\ changed \in [WorkCases -> WorkTickets \cup {None}]
        /\ \A d \in WorkCases : Sanitized(changed[d]) = changed[d] /\ changed[d] = IF d = c THEN t ELSE LoadedTickets[d]
    BY <1>1, <1>2, ChangedTyped
  <1>4. Rereads(changed)
    BY <1>1, <1>2, <1>3, SaveRereads
  <1>5. \A d \in WorkCases : changed[d] = LoadedTickets[d] \/ Told(ledger', d, changed[d])
    BY <1>3
  <1> QED BY <1>4, <1>5, TellingKeeps

LEMMA ChangeKeeps ==
  ASSUME LocalInv, NEW c \in WorkCases, NEW t, NEW to \in WorkStatuses \cup {None}, NEW entries \in SUBSET Entries,
         ChangeWork(c, t, to, entries),
         LoadedTickets[c] # None =>
           /\ t \in WorkTickets /\ t.status \in WorkStatuses /\ t.whole = TRUE /\ SanitizedPlan(t.plan) = t.plan
           /\ to = t.status \/ (t.status = LoadedTickets[c].status /\ t.born = LoadedTickets[c].born)
  PROVE  LocalInv'
  <1>1. local \in Storage /\ seeded \in BOOLEAN
    BY DEF LocalInv
  <1>2. LoadedTickets \in [WorkCases -> WorkTickets \cup {None}]
    BY <1>1, LoadedTyped
  <1>3. CASE LoadedTickets[c] = None
    <2>1. SaveTickets([LoadedTickets EXCEPT ![c] = None]) /\ UNCHANGED ledger
      BY <1>2, <1>3 DEF ChangeWork
    <2> QED BY <1>3, <2>1, LedgerStays, SaveKeeps
  <1>4. CASE LoadedTickets[c] # None
    <2>1. SaveTickets([LoadedTickets EXCEPT ![c] = t]) /\ Record(c, to, entries)
      BY <1>2, <1>4 DEF ChangeWork
    <2>2. LedgerStep /\ \A u : to = u.status => Told(ledger', c, u)
      BY <2>1, RecordSteps
    <2>3. Told(ledger, c, LoadedTickets[c])
      BY DEF LocalInv, StatusIsRecorded, Told
    <2>4. Told(ledger', c, LoadedTickets[c])
      BY <2>2, <2>3 DEF LedgerStep
    <2>5. Told(ledger', c, t)
      BY <1>4, <2>2, <2>4 DEF Told
    <2> QED BY <1>4, <2>1, <2>2, <2>5, SaveKeeps
  <1> QED BY <1>3, <1>4

\* With another status, note, decision or artifact.
LEMMA CreateKeeps ==
  ASSUME LocalInv, NEW c, NEW status \in WorkStatuses, NEW worker \in Workers, NEW notes \in SUBSET Entries,
         CreateWork(c, status, worker, notes)
  PROVE  LocalInv'
  <1> DEFINE t == NewWork(status, worker, notes)
  <1>1. /\ t \in WorkTickets /\ t.status \in WorkStatuses /\ t.whole = TRUE /\ SanitizedPlan(t.plan) = t.plan
        /\ t.status = t.born
    BY LocalConstants DEF NewWork, WorkTickets, SanitizedPlan
  <1>2. c \in WorkCases /\ SaveTickets([LoadedTickets EXCEPT ![c] = t])
    BY DEF CreateWork
  <1>3. LedgerStep
    BY LedgerStays, RecordSteps DEF CreateWork
  <1>4. Told(ledger', c, t)
    BY <1>1 DEF Told
  <1> HIDE DEF t
  <1> QED BY <1>1, <1>2, <1>3, <1>4, SaveKeeps

LEMMA UpdateStatusKeeps ==
  ASSUME LocalInv, NEW c \in WorkCases, NEW status \in WorkStatuses, UpdateTicketStatus(c, status)
  PROVE  LocalInv'
  <1>1. PICK r : r = [LoadedTickets[c] EXCEPT !.status = status]
    OBVIOUS
  <1>2. ChangeWork(c, r, status, {})
    BY <1>1 DEF UpdateTicketStatus
  <1>3. LoadedTickets[c] # None => r \in WorkTickets /\ r.status = status /\ r.whole = TRUE /\ SanitizedPlan(r.plan) = r.plan
    <2>1. local \in Storage /\ seeded \in BOOLEAN
      BY DEF LocalInv
    <2> SUFFICES ASSUME LoadedTickets[c] # None
                 PROVE  r \in WorkTickets /\ r.status = status /\ r.whole = TRUE /\ SanitizedPlan(r.plan) = r.plan
      OBVIOUS
    <2>2. PICK t : t = LoadedTickets[c]
      OBVIOUS
    <2>3. t \in WorkTickets /\ t.whole = TRUE /\ SanitizedPlan(t.plan) = t.plan
      BY <2>1, <2>2, LoadedSound
    <2>4. r = [t EXCEPT !.status = status]
      BY <1>1, <2>2
    <2>5. r \in WorkTickets /\ r.status = status /\ r.whole = t.whole /\ r.plan = t.plan
      BY <2>3, <2>4 DEF WorkTickets
    <2> QED BY <2>3, <2>5
  <1>4. status \in WorkStatuses \cup {None} /\ {} \in SUBSET Entries
    OBVIOUS
  <1> QED BY <1>2, <1>3, <1>4, ChangeKeeps

\* A ticket grows by an entry, whatever part of it takes it.
LEMMA GrownKeeps ==
  ASSUME LocalInv, NEW c \in WorkCases, NEW e \in Entries, NEW entries \in SUBSET Entries, NEW r,
         ChangeWork(c, r, None, entries),
         \/ r = [LoadedTickets[c] EXCEPT !.notes = @ \cup {e}]
         \/ r = [LoadedTickets[c] EXCEPT !.decisions = @ \cup {e}]
         \/ r = [LoadedTickets[c] EXCEPT !.artifacts = @ \cup {e}]
  PROVE  LocalInv'
  <1>1. LoadedTickets[c] # None =>
          /\ r \in WorkTickets /\ r.status \in WorkStatuses /\ r.whole = TRUE /\ SanitizedPlan(r.plan) = r.plan
          /\ r.status = LoadedTickets[c].status /\ r.born = LoadedTickets[c].born
    <2> SUFFICES ASSUME LoadedTickets[c] # None
                 PROVE  /\ r \in WorkTickets /\ r.status \in WorkStatuses /\ r.whole = TRUE /\ SanitizedPlan(r.plan) = r.plan
                        /\ r.status = LoadedTickets[c].status /\ r.born = LoadedTickets[c].born
      OBVIOUS
    <2>1. local \in Storage /\ seeded \in BOOLEAN
      BY DEF LocalInv
    <2>2. PICK t : t = LoadedTickets[c]
      OBVIOUS
    <2>3. t \in WorkTickets /\ t.status \in WorkStatuses /\ t.whole = TRUE /\ SanitizedPlan(t.plan) = t.plan
      BY <2>1, <2>2, LoadedSound
    <2>4. \/ r = [t EXCEPT !.notes = @ \cup {e}]
          \/ r = [t EXCEPT !.decisions = @ \cup {e}]
          \/ r = [t EXCEPT !.artifacts = @ \cup {e}]
      BY <2>2
    <2>5. /\ r \in WorkTickets /\ r.status \in WorkStatuses /\ r.whole = TRUE /\ SanitizedPlan(r.plan) = r.plan
          /\ r.status = t.status /\ r.born = t.born
      <3>1. CASE r = [t EXCEPT !.notes = @ \cup {e}]
        BY <2>3, <3>1 DEF WorkTickets
      <3>2. CASE r = [t EXCEPT !.decisions = @ \cup {e}]
        BY <2>3, <3>2 DEF WorkTickets
      <3>3. CASE r = [t EXCEPT !.artifacts = @ \cup {e}]
        BY <2>3, <3>3 DEF WorkTickets
      <3> QED BY <2>4, <3>1, <3>2, <3>3
    <2> QED BY <2>2, <2>5
  <1>2. None \in WorkStatuses \cup {None}
    OBVIOUS
  <1> QED BY <1>1, <1>2, ChangeKeeps

LEMMA AddEntryKeeps ==
  ASSUME LocalInv, NEW c \in WorkCases, NEW e \in Entries,
         AddWorkNote(c, e) \/ AddDecisionLogEntry(c, e) \/ AddArtifact(c, e)
  PROVE  LocalInv'
  <1>0. {e} \in SUBSET Entries /\ {} \in SUBSET Entries
    OBVIOUS
  <1>1. CASE AddWorkNote(c, e)
    <2>1. PICK r : r = [LoadedTickets[c] EXCEPT !.notes = @ \cup {e}]
      OBVIOUS
    <2>2. ChangeWork(c, r, None, {e})
      BY <1>1, <2>1, Zenon DEF AddWorkNote
    <2> QED BY <1>0, <2>1, <2>2, GrownKeeps, Zenon
  <1>2. CASE AddDecisionLogEntry(c, e)
    <2>1. PICK r : r = [LoadedTickets[c] EXCEPT !.decisions = @ \cup {e}]
      OBVIOUS
    <2>2. ChangeWork(c, r, None, {})
      BY <1>2, <2>1, Zenon DEF AddDecisionLogEntry
    <2> QED BY <1>0, <2>1, <2>2, GrownKeeps, Zenon
  <1>3. CASE AddArtifact(c, e)
    <2>1. PICK r : r = [LoadedTickets[c] EXCEPT !.artifacts = @ \cup {e}]
      OBVIOUS
    <2>2. ChangeWork(c, r, None, {e})
      BY <1>3, <2>1, Zenon DEF AddArtifact
    <2> QED BY <1>0, <2>1, <2>2, GrownKeeps, Zenon
  <1> QED BY <1>1, <1>2, <1>3

LEMMA DeleteKeeps ==
  ASSUME LocalInv, NEW c \in WorkCases, DeleteWork(c)
  PROVE  LocalInv'
  <1>1. LedgerStep /\ Told(ledger', c, None)
    BY LedgerStays DEF DeleteWork, Told
  <1> QED BY <1>1, SaveKeeps DEF DeleteWork

\* Seeding that fails, agents, mail and records that fail.
LEMMA OtherLocalKeeps ==
  ASSUME LocalInv,
         \/ SeedingFails \/ \E c \in WorkCases : RecordFails(c)
         \/ \E w \in Workers, state \in {"idle", "working"} : UpdateAgentState(w, state)
         \/ \E threads \in SUBSET Mails : IngestEmails(threads)
  PROVE  LocalInv'
  <1>1. local \in Storage /\ seeded \in BOOLEAN /\ Seeded \in Storage
    BY LoadedTyped DEF LocalInv
  <1>2. CASE SeedingFails
    <2>1. ~seeded /\ ~seeded' /\ seeded' \in BOOLEAN /\ UNCHANGED ledger
      BY <1>1, <1>2 DEF SeedingFails
    <2>2. local' \in Storage
      BY <1>1, <1>2, DemoTyped DEF SeedingFails, Storage
    <2> QED BY <2>1, <2>2, LedgerStays, AsideKeeps
  <1>3. ASSUME NEW c \in WorkCases, RecordFails(c) PROVE LocalInv'
    BY <1>1, <1>3, LedgerStays, AsideKeeps DEF RecordFails
  <1>4. ASSUME NEW w \in Workers, NEW state \in {"idle", "working"}, UpdateAgentState(w, state) PROVE LocalInv'
    <2> DEFINE idle == [Seeded EXCEPT !.activities = [v \in Workers |-> "idle"]]
    <2>1. UNCHANGED ledger
      BY <1>4 DEF UpdateAgentState
    <2>2. CASE local.activities = None
      <3>1. idle \in Storage /\ idle.activities = [v \in Workers |-> "idle"] /\ idle.tickets = Seeded.tickets
        BY <1>1 DEF Storage
      <3>2. seeded' = TRUE /\ local' \in {[idle EXCEPT !.activities[w] = state], Seeded}
        BY <1>1, <1>4, <2>2 DEF UpdateAgentState
      <3> HIDE DEF idle
      <3>3. [idle EXCEPT !.activities[w] = state] \in Storage /\ [idle EXCEPT !.activities[w] = state].tickets = Seeded.tickets
        BY <3>1 DEF Storage
      <3> QED BY <1>1, <2>1, <3>2, <3>3, LedgerStays, AsideKeeps
    <2>3. CASE local.activities # None
      <3>1. seeded' = seeded /\ local' \in {[local EXCEPT !.activities[w] = state], local}
        BY <1>1, <1>4, <2>3 DEF UpdateAgentState
      <3>2. local.activities \in [Workers -> {"idle", "working"}]
        BY <1>1, <2>3 DEF Storage
      <3>3. [local EXCEPT !.activities[w] = state] \in Storage /\ [local EXCEPT !.activities[w] = state].tickets = local.tickets
        BY <1>1, <3>2 DEF Storage
      <3> QED BY <1>1, <2>1, <3>1, <3>3, LedgerStays, AsideKeeps
    <2> QED BY <2>2, <2>3
  <1>5. ASSUME NEW threads \in SUBSET Mails, IngestEmails(threads) PROVE LocalInv'
    <2>1. seeded' = TRUE /\ UNCHANGED ledger /\ local' \in {[Seeded EXCEPT !.mails = @ \cup threads], Seeded}
      BY <1>5 DEF IngestEmails
    <2>2. [Seeded EXCEPT !.mails = @ \cup threads] \in Storage /\ [Seeded EXCEPT !.mails = @ \cup threads].tickets = Seeded.tickets
      BY <1>1 DEF Storage
    <2> QED BY <1>1, <2>1, <2>2, LedgerStays, AsideKeeps
  <1> QED BY <1>2, <1>3, <1>4, <1>5

\* Runs, dispositions and files add to the ledger alone.
LEMMA LedgerKeeps ==
  ASSUME LocalInv,
         \/ \E r \in RunCases : RecordRun(r)
         \/ \E c \in WorkCases \ RunCases, r \in Receipts : RecordDisposition(c, r)
         \/ \E lines \in TelemetryFiles : ImportTelemetry(lines)
  PROVE  LocalInv'
  <1>1. LedgerInv
    BY DEF LocalInv, LedgerInv
  <1>2. UNCHANGED <<local, seeded>>
    BY DEF RecordRun, RecordDisposition, ImportTelemetry
  <1>3. ASSUME NEW r \in RunCases, RecordRun(r) PROVE LedgerStep
    <2>1. PICK e : e = WorkEvent(r, r, None, {<<"reconciliation-run", r>>}, {}, "FindMnemo")
      OBVIOUS
    <2>2. Exportable(e) /\ e.id \in RunCases
      BY <2>1, LocalConstants DEF Exportable, EventTyped, WorkEvent
    <2> QED BY <1>1, <1>3, <2>1, <2>2, RecordKeeps DEF RecordRun
  <1>4. ASSUME NEW c, NEW r, RecordDisposition(c, r) PROVE LedgerStep
    <2>1. PICK e : e = WorkEvent(Len(ledger) + 1, c, None, {<<"ticket", c>>, <<"ai-receipt", r.id>>}, {}, "Henry")
      OBVIOUS
    <2>2. Exportable(e) /\ e.id = Len(ledger) + 1
      BY <2>1, LocalConstants DEF Exportable, EventTyped, WorkEvent
    <2> QED BY <1>1, <1>4, <2>1, <2>2, RecordKeeps DEF RecordDisposition
  <1>5. LedgerStep
    BY <1>1, <1>3, <1>4, ImportKeeps
  <1> QED BY <1>2, <1>5, AsideKeeps DEF LocalInv

LEMMA LocalStart ==
  ASSUME LocalInit
  PROVE  LocalInv
  <1>1. local \in Storage
    <2> DEFINE t == [NewWork("todo", "Pi", {}) EXCEPT !.status = None, !.whole = FALSE, !.plan = "strange"]
    <2>1. t \in WorkTickets
      BY DEF NewWork, WorkTickets, WorkStatuses, Workers
    <2>2. [Demo EXCEPT !.tickets = [c \in WorkCases |-> IF c \in DemoCases THEN t ELSE None]] \in Storage
      BY <2>1, DemoTyped DEF Storage
    <2>3. [tickets |-> [c \in WorkCases |-> None], activities |-> None, mails |-> {}] \in Storage
      BY DEF Storage
    <2> QED BY <2>2, <2>3 DEF LocalInit, Older
  <1>2. ledger = << >> /\ seeded \in BOOLEAN
    BY DEF LocalInit
  <1>3. ledger \in Seq({}) /\ Len(ledger) = 0
    BY <1>2
  <1>4. ASSUME NEW c \in WorkCases PROVE Told(<< >>, c, LoadedTickets[c])
    <2>1. CASE ~seeded
      BY <2>1, DemoTyped DEF LoadedTickets, Seeded
    <2>2. CASE seeded
      <3> DEFINE t == [NewWork("todo", "Pi", {}) EXCEPT !.status = None, !.whole = FALSE, !.plan = "strange"]
      <3>1. local.tickets[c] \in {None, t}
        <4> DEFINE older == [Demo EXCEPT !.tickets = [d \in WorkCases |-> IF d \in DemoCases THEN t ELSE None]]
                   unused == [tickets |-> [d \in WorkCases |-> None], activities |-> None, mails |-> {}]
        <4>1. older.tickets = [d \in WorkCases |-> IF d \in DemoCases THEN t ELSE None]
          BY DEF Demo
        <4>2. unused.tickets[c] = None
          OBVIOUS
        <4>3. local = older \/ local = unused
          BY DEF LocalInit, Older
        <4> HIDE DEF older, unused, t
        <4> QED BY <4>1, <4>2, <4>3
      <3>2. Sanitized(t) # None => Sanitized(t).status = Sanitized(t).born
        BY LocalConstants DEF Sanitized, NewWork, WorkStatuses
      <3>3. LoadedTickets[c] = Sanitized(local.tickets[c])
        BY <2>2 DEF LoadedTickets, Seeded
      <3>4. Sanitized(None) = None
        BY DEF Sanitized
      <3> QED BY <3>1, <3>2, <3>3, <3>4 DEF Told
    <2> QED BY <1>2, <2>1, <2>2
  <1>5. StatusIsRecorded
    BY <1>2, <1>4 DEF StatusIsRecorded, Told
  <1> QED BY <1>1, <1>2, <1>3, <1>5 DEF LocalInv, EventsInOrder, EventsExportable, EventsAreOnce

\* A step of whoever uses the storage keeps the invariant.
LEMMA LocalStep ==
  ASSUME LocalInv, [LocalNext]_localVars
  PROVE  LocalInv'
  <1>1. CASE UNCHANGED localVars
    <2>1. UNCHANGED <<local, seeded, ledger>>
      BY <1>1 DEF localVars
    <2> QED BY <2>1, LedgerStays, AsideKeeps DEF LocalInv
  <1>2. ASSUME NEW c \in WorkCases, NEW e \in Entries,
               \/ CreateWork(c, "todo", "Pi", {}) \/ CreateWork(c, "in-progress", "Codex", {e})
               \/ AddWorkNote(c, e) \/ AddDecisionLogEntry(c, e) \/ AddArtifact(c, e)
        PROVE  LocalInv'
    <2>1. /\ "todo" \in WorkStatuses /\ "in-progress" \in WorkStatuses /\ "Pi" \in Workers /\ "Codex" \in Workers
          /\ {} \in SUBSET Entries /\ {e} \in SUBSET Entries
      BY DEF WorkStatuses, Workers
    <2> QED BY <1>2, <2>1, CreateKeeps, AddEntryKeeps
  <1>3. ASSUME NEW c \in WorkCases, NEW status \in WorkStatuses, UpdateTicketStatus(c, status) PROVE LocalInv'
    BY <1>3, UpdateStatusKeeps
  <1> QED BY <1>1, <1>2, <1>3, DeleteKeeps, OtherLocalKeeps, LedgerKeeps DEF LocalNext

-----------------------------------------------------------------------------
(* The export of that work.                                                *)

LEMMA JoinedHolds ==
  ASSUME NEW parts
  PROVE  /\ \A p \in parts : p.objects \subseteq Joined(parts).objects /\ p.links \subseteq Joined(parts).links
         /\ \A l \in Joined(parts).links : \E p \in parts : l \in p.links
  BY DEF Joined, Part

\* The links of a part lie among its objects and others.
Joins(part, others) == \A l \in part.links : {l.from, l.to} \subseteq part.objects \cup others

LEMMA HangingJoins ==
  ASSUME NEW from, NEW type, NEW objects
  PROVE  /\ Hanging(from, type, objects).objects = objects
         /\ \A others : from \in others => Joins(Hanging(from, type, objects), others)
  BY DEF Joins, Hanging, Part, Link

LEMMA JoinedJoins ==
  ASSUME NEW parts, NEW others, \A p \in parts : Joins(p, others \cup Joined(parts).objects)
  PROVE  Joins(Joined(parts), others)
  BY JoinedHolds DEF Joins

\* What is exported of stored work is closed.
LEMMA WorkJoins == Joins(WorkPart, {})
  <1> DEFINE parts == {TicketPart(c) : c \in StoredWork} \cup {NotePart(c) : c \in StoredWork} \cup {DecisionPart(c) : c \in StoredWork}
                        \cup {ArtifactPart(c) : c \in StoredWork} \cup {ActivityPart, EmailPart, ProgressPart}
             all == {} \cup Joined(parts).objects
  <1>1. ASSUME NEW c \in StoredWork
        PROVE  TicketObject(c) \in all /\ Joins(TicketPart(c), all)
    <2> DEFINE ticketOnly == Part({TicketObject(c)}, {})
               agent == Hanging(TicketObject(c), "created-by", {Agent(local.tickets[c].source)})
    <2>1. TicketPart(c) = Joined({ticketOnly, agent}) /\ ticketOnly.objects = {TicketObject(c)} /\ ticketOnly.links = {}
      BY DEF TicketPart, Part
    <2>2. \A others : TicketObject(c) \in others => Joins(agent, others)
      BY HangingJoins
    <2> HIDE DEF ticketOnly, agent
    <2>3. TicketObject(c) \in TicketPart(c).objects
      BY <2>1, JoinedHolds
    <2>4. TicketPart(c) \in parts
      OBVIOUS
    <2>5. TicketObject(c) \in all
      <3> HIDE DEF parts
      <3> QED BY <2>3, <2>4, JoinedHolds
    <2>6. \A p \in {ticketOnly, agent} : Joins(p, all \cup Joined({ticketOnly, agent}).objects)
      <3> HIDE DEF all
      <3>1. Joins(ticketOnly, all \cup Joined({ticketOnly, agent}).objects)
        BY <2>1 DEF Joins
      <3> QED BY <2>2, <2>5, <3>1
    <2> HIDE DEF all
    <2> QED BY <2>1, <2>5, <2>6, JoinedJoins
  <1>2. ASSUME NEW c \in StoredWork
        PROVE  Joins(NotePart(c), all) /\ Joins(DecisionPart(c), all) /\ Joins(ArtifactPart(c), all)
    <2> HIDE DEF all
    <2> QED BY <1>1, <1>2, HangingJoins DEF NotePart, DecisionPart, ArtifactPart
  <1>3. Joins(ActivityPart, all) /\ Joins(EmailPart, all) /\ Joins(ProgressPart, all)
    <2> HIDE DEF all
    <2>1. Joins(EmailPart, all)
      BY DEF Joins, EmailPart, Part
    <2>2. Joins(ProgressPart, all)
      <3> DEFINE one(p) == Part({<<"project-progress", p>>, <<"artifact", p>>},
                                {Link(<<"project-progress", p>>, "attached-artifact", <<"artifact", p>>)})
                 items == {one(p) : p \in progress}
      <3>1. \A p : Joins(one(p), all \cup Joined(items).objects)
        BY DEF Joins, Part, Link
      <3>2. ProgressPart = Joined(items)
        BY DEF ProgressPart
      <3>3. \A p \in items : Joins(p, all \cup Joined(items).objects)
        <4> HIDE DEF one
        <4> QED BY <3>1
      <3> HIDE DEF items
      <3> QED BY <3>2, <3>3, JoinedJoins
    <2>3. Joins(ActivityPart, all)
      <3> DEFINE one(w) == Part({<<"agent-activity", w>>, Agent(w)},
                                {Link(<<"agent-activity", w>>, "performed-by", Agent(w))})
                 each == {one(w) : w \in Workers}
      <3>1. \A w : Joins(one(w), all \cup Joined(each).objects)
        BY DEF Joins, Part, Link
      <3>2. ActivityPart = Joined(each) \/ ActivityPart = Part({}, {})
        BY DEF ActivityPart
      <3>3. Joins(Part({}, {}), all)
        BY DEF Joins, Part
      <3>4. \A p \in each : Joins(p, all \cup Joined(each).objects)
        <4> HIDE DEF one
        <4> QED BY <3>1
      <3> HIDE DEF each
      <3> QED BY <3>2, <3>3, <3>4, JoinedJoins
    <2> QED BY <2>1, <2>2, <2>3
  <1>4. \A p \in parts : Joins(p, all)
    <2> HIDE DEF all
    <2> QED BY <1>1, <1>2, <1>3
  <1>5. WorkPart = Joined(parts)
    BY DEF WorkPart
  <1> HIDE DEF parts
  <1> QED BY <1>4, <1>5, JoinedJoins

\* An event and what it refers to.
LEMMA EventJoins ==
  ASSUME NEW e, NEW exported
  PROVE  /\ Joins(EventPart(e, exported), exported)
         /\ {<<"evidence", e.id, n>> : n \in e.entries} \subseteq EventPart(e, exported).objects
  <1> DEFINE by == Part({EventObject(e), Agent(e.actor)}, {Link(EventObject(e), "performed-by", Agent(e.actor))})
             about == Part({}, {Link(EventObject(e), "references", o) : o \in Referred(e, exported)})
             backed == Hanging(EventObject(e), "has-evidence", {<<"evidence", e.id, n>> : n \in e.entries})
             all == exported \cup Joined({by, about, backed}).objects
  <1>1. /\ EventObject(e) \in by.objects
        /\ \A others : EventObject(e) \in others => Joins(by, others)
        /\ \A others : EventObject(e) \in others /\ exported \subseteq others => Joins(about, others)
    BY DEF Joins, Part, Link, Referred
  <1>2. /\ backed.objects = {<<"evidence", e.id, n>> : n \in e.entries}
        /\ \A others : EventObject(e) \in others => Joins(backed, others)
    BY HangingJoins
  <1>3. EventPart(e, exported) = Joined({by, about, backed})
    BY DEF EventPart
  <1> HIDE DEF by, about, backed
  <1>4. by.objects \subseteq Joined({by, about, backed}).objects /\ backed.objects \subseteq Joined({by, about, backed}).objects
    BY JoinedHolds
  <1>5. \A p \in {by, about, backed} : Joins(p, all)
    BY <1>1, <1>2, <1>4
  <1> QED BY <1>2, <1>3, <1>4, <1>5, JoinedJoins

\* An export refers to nothing it does not hold.
LEMMA ExportCloses == ExportIsClosed
  <1> DEFINE exported == WorkPart
             parts == {exported} \cup {EventPart(e, exported.objects) : e \in Recorded}
             all == {} \cup Joined(parts).objects
  <1>1. ObservedBundle.parts = Joined(parts)
    BY DEF ObservedBundle
  <1>2. ObservedBundle.evidence = UNION {{<<"evidence", e.id, n>> : n \in e.entries} : e \in Recorded}
    BY DEF ObservedBundle
  <1>3. exported.objects \subseteq all
    <2>1. exported \in parts
      OBVIOUS
    <2> HIDE DEF parts
    <2> QED BY <2>1, JoinedHolds
  <1>4. Joins(exported, all)
    BY <1>3, WorkJoins DEF Joins
  <1>5. ASSUME NEW e \in Recorded
        PROVE  /\ Joins(EventPart(e, exported.objects), all)
               /\ {<<"evidence", e.id, n>> : n \in e.entries} \subseteq all
    <2>1. EventPart(e, exported.objects) \in parts
      OBVIOUS
    <2> HIDE DEF parts, exported
    <2>2. EventPart(e, exported.objects).objects \subseteq all
      BY <2>1, JoinedHolds
    <2>3. Joins(EventPart(e, exported.objects), exported.objects)
      BY EventJoins
    <2>4. {<<"evidence", e.id, n>> : n \in e.entries} \subseteq EventPart(e, exported.objects).objects
      BY EventJoins
    <2> HIDE DEF all
    <2> QED BY <1>3, <2>2, <2>3, <2>4 DEF Joins
  <1>6. \A p \in parts : Joins(p, all)
    <2> HIDE DEF all, exported
    <2> QED BY <1>4, <1>5
  <1>7. ObservedBundle.evidence \subseteq all
    <2> HIDE DEF all
    <2> QED BY <1>2, <1>5
  <1> HIDE DEF parts
  <1>8. Joins(Joined(parts), {})
    BY <1>6, JoinedJoins
  <1> QED BY <1>1, <1>7, <1>8 DEF ExportIsClosed, Joins

\* What this browser recorded itself it can download.
LEMMA OwnWorkDownloads ==
  ASSUME LocalInv
  PROVE  OwnWorkIsDownloaded
  <1> SUFFICES ASSUME \A e \in Recorded : e \notin Foreign, \A c \in StoredWork : local.tickets[c].whole
               PROVE  DownloadOutcome = "downloaded"
    BY DEF OwnWorkIsDownloaded
  <1>1. \A e \in Recorded : Exportable(e)
    BY DEF Recorded, LocalInv, EventsExportable
  <1>2. ~Throws
    BY <1>1 DEF Throws, Exportable
  <1>3. WellFormed(ObservedBundle)
    BY <1>1 DEF WellFormed, Exportable
  <1>4. "mnemosync" \in SourceTypes
    BY <1>1 DEF SourceTypes, Exportable
  <1>5. ObservedBundle.acceptedSourceTypes = SourceTypes
    BY DEF ObservedBundle
  <1> QED BY <1>2, <1>3, <1>4, <1>5 DEF DownloadOutcome, ValidExport

LEMMA LocalHold == ScenesSpec => []LocalInv
  <1>1. ScenesInit => LocalInv
    BY LocalStart DEF ScenesInit
  <1>2. LocalInv /\ [ScenesNext]_scenesVars => LocalInv'
    BY ScenesStep, LocalStep
  <1> QED BY <1>1, <1>2, PTL DEF ScenesSpec

\* Work can be carried out of the browser whole, and brought in again once (storage.ts,
\* ontology.ts), whatever writes fail; the own work at least while no imported event of someone
\* else is in the ledger.
THEOREM WorkStaysPortable == ScenesSpec => []WorkIsPortable
  <1>1. LocalInv => WorkIsPortable
    BY ExportCloses, OwnWorkDownloads DEF LocalInv, WorkIsPortable
  <1> QED BY <1>1, LocalHold, PTL

-----------------------------------------------------------------------------
(* What a page shows.                                                      *)

LEMMA SessionsHold == ScenesSpec => [](Earned /\ Served)
  <1>1. ScenesInit => Earned /\ Served
    BY EarnedInit, ServedInit DEF ScenesInit
  <1>2. Earned /\ Served /\ [ScenesNext]_scenesVars => (Earned /\ Served)'
    BY ScenesStep, ServedStep
  <1> QED BY <1>1, <1>2, PTL DEF ScenesSpec

\* A connected page has its session, an enabled engine its key, a ready profile its check and a
\* ticket its status from what the companion and the ledger hold.
THEOREM WhatIsShownIsBacked == ScenesSpec => []ShownIsBacked
  <1>1. Earned /\ Served /\ ConnectionsInv /\ GuidedInv /\ LocalInv => ShownIsBacked
    BY ServedPage, ConnectionsBacked, GuidedSafe DEF LocalInv, ShownIsBacked
  <1> QED BY <1>1, SessionsHold, ConnectionsHold, GuidedHold, LocalHold, PTL

-----------------------------------------------------------------------------
(* The tickets a page shows.                                               *)

\* A copy of a ticket has a time the ticket had, and one of the present time has every note that
\* is stored, while no two changes of the ticket had one time.
Copied(c) ==
  /\ c \in TicketCopy /\ c.version \in dates[c.id]
  /\ c.id \notin redated /\ store[c.id] # None /\ c.version = store[c.id].version => store[c.id].notes \subseteq c.notes

Copies(list) == list \in Seq(TicketCopy) /\ \A i \in DOMAIN list : Copied(list[i])
Twice(list) == \E i, j \in DOMAIN list : i # j /\ list[i].id = list[j].id

StoreHolds ==
  /\ store \in [TicketIds -> TicketCopy \cup {None}]
  /\ dates \in [TicketIds -> SUBSET (1..MaxClock)] /\ redated \subseteq TicketIds
  /\ \A t \in TicketIds : store[t] # None => store[t].id = t /\ store[t].version \in dates[t]

\* What a request carries and brings.
Carries(r) ==
  /\ r.ask \in Asked
  /\ r.ask.kind = "update" => Copied(r.ask.ticket)
  /\ r.outcome = None \/ (r.outcome \in Outcome /\ Copies(r.outcome.tickets))
  /\ r.outcome # None /\ r.ask.kind = "list" => ~Twice(r.outcome.tickets)
  /\ r.outcome # None /\ r.outcome.ok /\ r.ask.kind \in {"create", "update"} => Len(r.outcome.tickets) = 1

RequestsHold ==
  /\ IsFiniteSet(inFlight) /\ Cardinality(inFlight) <= MaxInFlight
  /\ \A r \in inFlight : r = [id |-> r.id, ask |-> r.ask, outcome |-> r.outcome] /\ r.id \in 1..MaxInFlight /\ Carries(r)

\* A page that shows a ticket twice does not call it current, has listed again or will do so when
\* it renders, unless answers were rendered together.
TwiceIsSeen ==
  Twice(shown) =>
    \/ joined \/ shownState # "current"
    \/ \E r \in inFlight : r.ask.kind = "list"
    \/ toRender /\ Len(shown) # Len(rendered)

WorkspaceInv ==
  /\ StoreHolds /\ RequestsHold
  /\ Copies(shown) /\ shownState \in ShownStates
  /\ Copies(rendered) /\ toRender \in BOOLEAN /\ joined \in BOOLEAN
  /\ (~toRender => rendered = shown)
  /\ TwiceIsSeen

\* A copy is of what was stored then: what is stored later has another time, or the ticket has
\* had one time twice.
LEMMA CopiesStayCopied ==
  ASSUME StoreHolds, NEW id \in TicketIds, (\E notes, at : Put(id, notes, at)) \/ Drop(id) \/ UNCHANGED storeVars
  PROVE  /\ \A c : Copied(c) => Copied(c)'
         /\ \A list : Copies(list) => Copies(list)'
  <1>1. ASSUME NEW c, Copied(c) PROVE Copied(c)'
    <2>1. c \in TicketCopy /\ c.id \in TicketIds
      BY <1>1 DEF Copied, TicketCopy
    <2>2. ASSUME NEW notes, NEW at, Put(id, notes, at) PROVE Copied(c)'
      <3>1. PICK new : new = [id |-> id, version |-> at, notes |-> notes]
        OBVIOUS
      <3>2. store' = [store EXCEPT ![id] = new] /\ new.version = at
        BY <2>2, <3>1 DEF Put
      <3>3. c.version \in dates'[c.id] /\ redated \subseteq redated'
        BY <1>1, <2>1, <2>2 DEF Put, Copied, StoreHolds
      <3>4. CASE c.id = id
        <4>1. c.version = at => id \in redated'
          BY <1>1, <2>2, <3>4 DEF Put, Copied
        <4> QED BY <2>1, <3>2, <3>3, <3>4, <4>1 DEF Copied, StoreHolds
      <3>5. CASE c.id # id
        BY <1>1, <2>1, <3>2, <3>3, <3>5 DEF Copied, StoreHolds
      <3> QED BY <3>4, <3>5
    <2>3. CASE Drop(id)
      BY <1>1, <2>1, <2>3 DEF Drop, Copied, StoreHolds
    <2>4. CASE UNCHANGED storeVars
      BY <1>1, <2>4 DEF Copied, storeVars
    <2> QED BY <2>2, <2>3, <2>4
  <1> QED BY <1>1 DEF Copies

LEMMA PutHolds ==
  ASSUME StoreHolds, NEW id \in TicketIds, NEW notes \in SUBSET Notes, NEW at \in 1..MaxClock, Put(id, notes, at)
  PROVE  StoreHolds' /\ \E c : store'[id] = c /\ c.id = id /\ c.notes = notes /\ Copied(c)'
  <1>1. PICK new : new = [id |-> id, version |-> at, notes |-> notes]
    OBVIOUS
  <1>2. new \in TicketCopy /\ new.id = id /\ new.version = at /\ new.notes = notes
    BY <1>1 DEF TicketCopy
  <1>3. /\ store' \in [TicketIds -> TicketCopy \cup {None}] /\ store'[id] = new
        /\ \A t \in TicketIds \ {id} : store'[t] = store[t]
    BY <1>1, <1>2 DEF StoreHolds, Put
  <1>4. /\ dates' \in [TicketIds -> SUBSET (1..MaxClock)] /\ at \in dates'[id]
        /\ \A t \in TicketIds : dates[t] \subseteq dates'[t]
    BY DEF StoreHolds, Put
  <1>5. redated' \subseteq TicketIds
    BY DEF StoreHolds, Put
  <1>6. StoreHolds'
    BY <1>2, <1>3, <1>4, <1>5 DEF StoreHolds
  <1>7. Copied(new)'
    BY <1>2, <1>3, <1>4 DEF Copied
  <1> QED BY <1>2, <1>3, <1>6, <1>7

LEMMA DropHolds ==
  ASSUME StoreHolds, NEW id \in TicketIds, Drop(id)
  PROVE  StoreHolds'
  BY DEF StoreHolds, Drop

\* A list has each ticket that is stored, once.
LEMMA ListedOnce ==
  ASSUME StoreHolds, NEW list \in Listings
  PROVE  Copies(list) /\ ~Twice(list)
  <1> DEFINE kept == {store[t] : t \in {u \in TicketIds : Kept(u)}}
             n == Cardinality(kept)
  <1>1. \A copy \in kept : copy \in TicketCopy /\ Copied(copy) /\ copy = store[copy.id]
    BY DEF StoreHolds, Copied, Kept
  <1>2. n \in Nat
    <2>1. IsFiniteSet({u \in TicketIds : Kept(u)})
      BY WorkspaceConstants, FS_Subset
    <2>2. IsFiniteSet(kept)
      <3>1. PICK ids : ids = {u \in TicketIds : Kept(u)}
        OBVIOUS
      <3>2. PICK f : f = [u \in ids |-> store[u]]
        OBVIOUS
      <3>3. f \in Surjection(ids, kept)
        BY <3>1, <3>2 DEF Surjection
      <3> QED BY <2>1, <3>1, <3>3, FS_Surjection
    <2> QED BY <2>2, FS_CardinalityType
  <1>3. list \in [1..n -> kept] /\ \A i, j \in 1..n : i < j => list[i] # list[j]
    BY DEF Listings
  <1> HIDE DEF kept, n
  <1>4. list \in Seq(TicketCopy) /\ DOMAIN list = 1..n
    BY <1>1, <1>2, <1>3
  <1>5. Copies(list)
    BY <1>1, <1>3, <1>4 DEF Copies
  <1>6. \A i, j \in 1..n : i # j => list[i] # list[j]
    BY <1>2, <1>3
  <1>7. ~Twice(list)
    BY <1>1, <1>3, <1>4, <1>6 DEF Twice
  <1> QED BY <1>5, <1>7

-----------------------------------------------------------------------------
(* Requests.                                                               *)

\* There is a number for one more request.
LEMMA SentTyped ==
  ASSUME NEW requests, IsFiniteSet(requests), Cardinality(requests) < MaxInFlight, NEW ask,
         \A r \in requests : r.id \in 1..MaxInFlight
  PROVE  \E n \in 1..MaxInFlight : Sent(requests, ask) = requests \cup {[id |-> n, ask |-> ask, outcome |-> None]}
  <1> DEFINE free == {n \in 1..(MaxInFlight + 1) : \A r \in requests : r.id # n}
             used == {r.id : r \in requests}
  <1>1. MaxInFlight \in Nat /\ Cardinality(requests) \in Nat
    BY WorkspaceConstants, FS_CardinalityType
  <1>2. IsFiniteSet(used) /\ Cardinality(used) <= Cardinality(requests)
    <2> DEFINE f == [r \in requests |-> r.id]
    <2>1. f \in Surjection(requests, used)
      BY DEF Surjection
    <2> QED BY <2>1, FS_Surjection
  <1>3. PICK n \in 1..MaxInFlight : n \notin used
    <2> SUFFICES ASSUME 1..MaxInFlight \subseteq used PROVE FALSE
      OBVIOUS
    <2>1. Cardinality(1..MaxInFlight) = MaxInFlight
      BY <1>1, FS_Interval
    <2>2. Cardinality(1..MaxInFlight) <= Cardinality(used)
      BY <1>2, FS_Subset
    <2>3. Cardinality(used) \in Nat
      BY <1>2, FS_CardinalityType
    <2> HIDE DEF used
    <2> QED BY <1>1, <1>2, <2>1, <2>2, <2>3
  <1>4. n \in free /\ free \subseteq Nat
    BY <1>1, <1>3
  <1> HIDE DEF free, used
  <1>5. PICK k \in free : \A j \in free : k <= j
    BY <1>4, LeastOf
  <1>6. Min(free) \in free /\ Min(free) <= n
    <2>1. \E x \in free : \A y \in free : x <= y
      BY <1>5
    <2>2. Min(free) = CHOOSE x \in free : \A y \in free : x <= y
      BY DEF Min
    <2> QED BY <1>4, <2>1, <2>2
  <1>7. Min(free) \in 1..MaxInFlight
    <2>1. Min(free) \in 1..(MaxInFlight + 1)
      BY <1>6 DEF free
    <2> QED BY <1>1, <1>6, <2>1
  <1> QED BY <1>7 DEF Sent, free

\* A request that is sent carries what it was sent with.
LEMMA SentHolds ==
  ASSUME MaxInFlight \in Nat, NEW requests, requests \subseteq inFlight, RequestsHold, Cardinality(requests) < MaxInFlight,
         NEW ask \in Asked, (ask.kind = "update" => Copied(ask.ticket))', inFlight' = Sent(requests, ask),
         \A c : Copied(c) => Copied(c)', \A list : Copies(list) => Copies(list)'
  PROVE  RequestsHold' /\ requests \subseteq inFlight' /\ \E r \in inFlight' : r.ask = ask
  <1>1. IsFiniteSet(requests) /\ \A r \in requests : r.id \in 1..MaxInFlight
    BY FS_Subset DEF RequestsHold
  <1>2. PICK n \in 1..MaxInFlight : inFlight' = requests \cup {[id |-> n, ask |-> ask, outcome |-> None]}
    BY <1>1, SentTyped
  <1>3. PICK q : q = [id |-> n, ask |-> ask, outcome |-> None]
    OBVIOUS
  <1>4. IsFiniteSet(inFlight') /\ Cardinality(inFlight') <= MaxInFlight
    <2>1. IsFiniteSet(requests \cup {q}) /\ (Cardinality(requests \cup {q}) = Cardinality(requests)
                                              \/ Cardinality(requests \cup {q}) = Cardinality(requests) + 1)
      BY <1>1, FS_AddElement
    <2>2. Cardinality(requests) \in Nat
      BY <1>1, FS_CardinalityType
    <2> QED BY <1>2, <1>3, <2>1, <2>2
  <1>5. ASSUME NEW r \in inFlight'
        PROVE  (r = [id |-> r.id, ask |-> r.ask, outcome |-> r.outcome] /\ r.id \in 1..MaxInFlight /\ Carries(r))'
    <2>1. CASE r \in requests
      <3>1. Carries(r)
        BY <2>1 DEF RequestsHold
      <3>2. Carries(r)'
        BY <3>1 DEF Carries
      <3> QED BY <2>1, <3>2 DEF RequestsHold
    <2>2. CASE r = q
      <3>1. r.id = n /\ r.ask = ask /\ r.outcome = None
        BY <1>3, <2>2
      <3>2. Carries(r)'
        BY <3>1 DEF Carries
      <3> QED BY <1>3, <2>2, <3>1, <3>2
    <2> QED BY <1>2, <1>3, <2>1, <2>2
  <1>6. q \in inFlight' /\ q.ask = ask
    BY <1>2, <1>3
  <1>7. RequestsHold'
    BY <1>4, <1>5 DEF RequestsHold
  <1> QED BY <1>2, <1>6, <1>7

-----------------------------------------------------------------------------
(* The companion serves, others write.                                     *)

\* An answer that is put into a request.
LEMMA ResolvesHolds ==
  ASSUME RequestsHold, NEW r \in inFlight, NEW outcome, Resolves(r, outcome),
         \A c : Copied(c) => Copied(c)', \A list : Copies(list) => Copies(list)',
         outcome \in Outcome, Copies(outcome.tickets)',
         r.ask.kind = "list" => ~Twice(outcome.tickets),
         outcome.ok /\ r.ask.kind \in {"create", "update"} => Len(outcome.tickets) = 1
  PROVE  RequestsHold' /\ ((\E q \in inFlight : q.ask.kind = "list") => \E q \in inFlight' : q.ask.kind = "list")
  <1>1. PICK s : s = [r EXCEPT !.outcome = outcome]
    OBVIOUS
  <1>2. r = [id |-> r.id, ask |-> r.ask, outcome |-> r.outcome] /\ r.id \in 1..MaxInFlight /\ Carries(r)
    BY DEF RequestsHold
  <1>3. /\ s = [id |-> s.id, ask |-> s.ask, outcome |-> s.outcome]
        /\ s.id = r.id /\ s.ask = r.ask /\ s.outcome = outcome
    BY <1>1, <1>2
  <1>4. inFlight' = (inFlight \ {r}) \cup {s}
    BY <1>1 DEF Resolves
  <1>5. IsFiniteSet(inFlight') /\ Cardinality(inFlight') <= MaxInFlight
    <2>0. PICK others : others = inFlight \ {r}
      OBVIOUS
    <2>1. IsFiniteSet(others) /\ Cardinality(others) = Cardinality(inFlight) - 1
      BY <2>0, FS_RemoveElement DEF RequestsHold
    <2>2. Cardinality(others) \in Nat /\ Cardinality(inFlight) \in Nat /\ MaxInFlight \in Nat
      BY <2>1, FS_CardinalityType, WorkspaceConstants DEF RequestsHold
    <2>3. IsFiniteSet(others \cup {s}) /\ Cardinality(others \cup {s}) <= Cardinality(others) + 1
      <3>1. Cardinality(others \cup {s}) \in {Cardinality(others), Cardinality(others) + 1}
        BY <2>1, FS_AddElement
      <3> QED BY <2>1, <2>2, <3>1, FS_AddElement
    <2>4. inFlight' = others \cup {s}
      BY <1>4, <2>0
    <2>5. Cardinality(others \cup {s}) \in Nat
      BY <2>3, FS_CardinalityType
    <2> QED BY <2>1, <2>2, <2>3, <2>4, <2>5 DEF RequestsHold
  <1>6. ASSUME NEW q \in inFlight'
        PROVE  (q = [id |-> q.id, ask |-> q.ask, outcome |-> q.outcome] /\ q.id \in 1..MaxInFlight /\ Carries(q))'
    <2>1. CASE q \in inFlight
      <3>1. Carries(q)'
        BY <2>1 DEF RequestsHold, Carries
      <3> QED BY <2>1, <3>1 DEF RequestsHold
    <2>2. CASE q = s
      <3>1. Carries(q)'
        BY <1>2, <1>3, <2>2 DEF Carries
      <3> QED BY <1>2, <1>3, <2>2, <3>1
    <2> QED BY <1>4, <2>1, <2>2
  <1>7. RequestsHold'
    BY <1>5, <1>6 DEF RequestsHold
  <1>8. (\E q \in inFlight : q.ask.kind = "list") => \E q \in inFlight' : q.ask.kind = "list"
    BY <1>3, <1>4
  <1> QED BY <1>7, <1>8

\* An answer of one ticket, or of none.
LEMMA OneCopied ==
  ASSUME NEW c, Copied(c)
  PROVE  Copies(<<c>>) /\ Len(<<c>>) = 1
  <1>1. c \in TicketCopy
    BY DEF Copied
  <1> QED BY <1>1 DEF Copies

LEMMA OutcomeTyped ==
  /\ Failure \in Outcome /\ Failure.tickets = << >> /\ Failure.ok = FALSE /\ Copies(<< >>) /\ ~Twice(<< >>)
  /\ \A list \in Seq(TicketCopy) : Success(list) \in Outcome /\ Success(list).tickets = list
  BY DEF Failure, Success, Outcome, Copies, Twice

LEMMA PutKeepsNotes ==
  ASSUME StoreHolds, NEW id \in TicketIds, NEW notes, NEW at, Put(id, notes, at),
         id \notin redated /\ store[id] # None => store[id].notes \subseteq notes
  PROVE  NotesKept
  <1>1. redated \subseteq redated'
    BY DEF Put
  <1> QED BY <1>1 DEF StoreHolds, Put, NotesKept

LEMMA SeenStays ==
  ASSUME WorkspaceInv, UNCHANGED <<shown, shownState, renderVars>>, StoreHolds', RequestsHold',
         \A list : Copies(list) => Copies(list)',
         (\E q \in inFlight : q.ask.kind = "list") => \E q \in inFlight' : q.ask.kind = "list"
  PROVE  WorkspaceInv'
  <1>1. PICK list, before : list = shown /\ before = rendered
    OBVIOUS
  <1>2. Copies(list)' /\ shown' = list /\ Copies(before)' /\ rendered' = before
    BY <1>1 DEF WorkspaceInv, renderVars
  <1>3. Copies(shown)' /\ Copies(rendered)'
    BY <1>2 DEF Copies
  <1>4. TwiceIsSeen'
    BY DEF WorkspaceInv, TwiceIsSeen, Twice, renderVars
  <1> QED BY <1>3, <1>4 DEF WorkspaceInv, renderVars

LEMMA ServeTicketsKeeps ==
  ASSUME WorkspaceInv, NEW r \in inFlight, ServeTickets(r)
  PROVE  WorkspaceInv' /\ NotesKept
  <1>0. StoreHolds /\ RequestsHold /\ UNCHANGED <<shown, shownState, renderVars>> /\ r.ask \in Asked
    BY DEF WorkspaceInv, RequestsHold, Carries, ServeTickets
  <1>2. ASSUME Refuses(r) PROVE WorkspaceInv' /\ NotesKept
    <2>1. UNCHANGED storeVars /\ Resolves(r, Failure)
      BY <1>2 DEF Refuses
    <2>2. \A c : Copied(c) => Copied(c)'
      BY <2>1 DEF Copied, storeVars
    <2>3. \A list : Copies(list) => Copies(list)'
      BY <2>2 DEF Copies
    <2>4. PICK outcome : outcome = Failure
      OBVIOUS
    <2>5. outcome \in Outcome /\ outcome.tickets = << >> /\ outcome.ok = FALSE /\ ~Twice(outcome.tickets)
      BY <2>4, OutcomeTyped
    <2>6. Copies(outcome.tickets)'
      BY <2>3, <2>5, OutcomeTyped
    <2>7. RequestsHold' /\ ((\E q \in inFlight : q.ask.kind = "list") => \E q \in inFlight' : q.ask.kind = "list")
      BY <1>0, <2>1, <2>2, <2>3, <2>4, <2>5, <2>6, ResolvesHolds
    <2>8. StoreHolds'
      BY <1>0, <2>1 DEF StoreHolds, storeVars
    <2> QED BY <1>0, <2>1, <2>3, <2>7, <2>8, SeenStays DEF NotesKept, storeVars
  <1>3. CASE r.ask.kind = "list"
    <2>1. PICK list \in Listings : Resolves(r, Success(list)) /\ UNCHANGED storeVars
      BY <1>3 DEF ServeTickets
    <2>2. \A c : Copied(c) => Copied(c)'
      BY <2>1 DEF Copied, storeVars
    <2>3. \A tickets : Copies(tickets) => Copies(tickets)'
      BY <2>2 DEF Copies
    <2>5. Copies(list) /\ ~Twice(list) /\ list \in Seq(TicketCopy)
      BY <1>0, ListedOnce DEF Copies
    <2>6. PICK outcome : outcome = Success(list)
      OBVIOUS
    <2>7. outcome \in Outcome /\ outcome.tickets = list
      BY <2>5, <2>6, OutcomeTyped
    <2>8. Copies(outcome.tickets)'
      BY <2>3, <2>5, <2>7
    <2>9. RequestsHold' /\ ((\E q \in inFlight : q.ask.kind = "list") => \E q \in inFlight' : q.ask.kind = "list")
      BY <1>0, <1>3, <2>1, <2>2, <2>3, <2>5, <2>6, <2>7, <2>8, ResolvesHolds
    <2>10. StoreHolds'
      BY <1>0, <2>1 DEF StoreHolds, storeVars
    <2> QED BY <1>0, <2>1, <2>3, <2>9, <2>10, SeenStays DEF NotesKept, storeVars
  <1>4. ASSUME NEW id \in TicketIds, NEW notes \in SUBSET Notes, NEW at \in 1..MaxClock, Put(id, notes, at), Resolves(r, Success(<<store'[id]>>)),
               r.ask.kind \in {"create", "update"}, id \notin redated /\ store[id] # None => store[id].notes \subseteq notes
        PROVE  WorkspaceInv' /\ NotesKept
    <2>1. (\A c : Copied(c) => Copied(c)') /\ (\A list : Copies(list) => Copies(list)')
      BY <1>0, <1>4, CopiesStayCopied
    <2>2. StoreHolds'
      BY <1>0, <1>4, PutHolds
    <2>3. PICK c : store'[id] = c /\ Copied(c)'
      BY <1>0, <1>4, PutHolds
    <2>4. PICK outcome : outcome = Success(<<c>>)
      OBVIOUS
    <2>5. c \in TicketCopy
      BY <2>3 DEF Copied
    <2>6. outcome \in Outcome /\ outcome.tickets = <<c>> /\ Len(<<c>>) = 1
      <3>1. <<c>> \in Seq(TicketCopy) /\ Len(<<c>>) = 1
        BY <2>5
      <3>2. PICK one : one = <<c>>
        OBVIOUS
      <3> QED BY <2>4, <3>1, <3>2, OutcomeTyped
    <2>7. Copies(outcome.tickets)'
      BY <2>3, <2>5, <2>6 DEF Copies
    <2>8. RequestsHold' /\ ((\E q \in inFlight : q.ask.kind = "list") => \E q \in inFlight' : q.ask.kind = "list")
      BY <1>0, <1>4, <2>1, <2>3, <2>4, <2>6, <2>7, ResolvesHolds
    <2> QED BY <1>0, <1>4, <2>1, <2>2, <2>8, SeenStays, PutKeepsNotes
  <1>5. CASE r.ask.kind = "create"
    <2>1. r.ask.id \in TicketIds
      BY <1>0, <1>5 DEF Asked
    <2>2. CASE Kept(r.ask.id)
      BY <1>2, <1>5, <2>2 DEF ServeTickets
    <2>3. CASE ~Kept(r.ask.id)
      <3>1. PICK at \in 1..MaxClock :
              Put(r.ask.id, {}, at) /\ Resolves(r, Success(<<store'[r.ask.id]>>)) /\ store[r.ask.id] = None
        BY <1>5, <2>3 DEF ServeTickets, Kept
      <3> QED BY <1>4, <1>5, <2>1, <3>1
    <2> QED BY <2>2, <2>3
  <1>6. CASE r.ask.kind = "update"
    <2>1. Copied(r.ask.ticket)
      BY <1>6 DEF WorkspaceInv, RequestsHold, Carries
    <2>2. r.ask.ticket.id \in TicketIds /\ r.ask.ticket.notes \in SUBSET Notes
      BY <2>1 DEF Copied, TicketCopy
    <2>3. CASE IsLatest(r.ask.ticket)
      <3>1. PICK at \in 1..MaxClock :
              Put(r.ask.ticket.id, r.ask.ticket.notes, at) /\ Resolves(r, Success(<<store'[r.ask.ticket.id]>>))
        BY <1>6, <2>3 DEF ServeTickets
      <3>2. r.ask.ticket.id \notin redated /\ store[r.ask.ticket.id] # None => store[r.ask.ticket.id].notes \subseteq r.ask.ticket.notes
        BY <2>1, <2>3 DEF IsLatest, Kept, Copied
      <3> QED BY <1>4, <1>6, <2>2, <3>1, <3>2
    <2>4. CASE ~IsLatest(r.ask.ticket)
      BY <1>2, <1>6, <2>4 DEF ServeTickets
    <2> QED BY <2>3, <2>4
  <1>7. CASE r.ask.kind = "delete"
    <2>1. r.ask.id \in TicketIds
      BY <1>0, <1>7 DEF Asked
    <2>2. CASE ~Kept(r.ask.id)
      BY <1>2, <1>7, <2>2 DEF ServeTickets
    <2>3. CASE Kept(r.ask.id)
      <3>1. Drop(r.ask.id) /\ Resolves(r, Success(<< >>))
        BY <1>7, <2>3 DEF ServeTickets
      <3>2. (\A c : Copied(c) => Copied(c)') /\ (\A list : Copies(list) => Copies(list)')
        BY <1>0, <2>1, <3>1, CopiesStayCopied
      <3>3. StoreHolds'
        BY <1>0, <2>1, <3>1, DropHolds
      <3>4. PICK outcome : outcome = Success(<< >>)
        OBVIOUS
      <3>5. outcome \in Outcome /\ outcome.tickets = << >> /\ ~Twice(outcome.tickets)
        <4>1. << >> \in Seq(TicketCopy)
          OBVIOUS
        <4>2. PICK none : none = << >>
          OBVIOUS
        <4>3. Success(none) \in Outcome /\ Success(none).tickets = none
          BY <4>1, <4>2, OutcomeTyped
        <4> QED BY <3>4, <4>2, <4>3, OutcomeTyped
      <3>6. Copies(outcome.tickets)'
        BY <3>2, <3>5, OutcomeTyped
      <3>7. RequestsHold' /\ ((\E q \in inFlight : q.ask.kind = "list") => \E q \in inFlight' : q.ask.kind = "list")
        BY <1>0, <1>7, <3>1, <3>2, <3>4, <3>5, <3>6, ResolvesHolds
      <3>8. NotesKept
        BY <1>0, <2>1, <3>1 DEF NotesKept, Drop, StoreHolds
      <3> QED BY <1>0, <3>2, <3>3, <3>7, <3>8, SeenStays
    <2> QED BY <2>2, <2>3
  <1>8. r.ask.kind \in {"list", "create", "update", "delete"}
    BY <1>0 DEF Asked
  <1> QED BY <1>3, <1>5, <1>6, <1>7, <1>8

LEMMA OthersKeep ==
  ASSUME WorkspaceInv, NEW t \in TicketIds,
         \/ \E n \in Notes : OthersWrite(t, (IF Kept(t) THEN store[t].notes ELSE {}) \cup {n})
         \/ OthersDelete(t)
  PROVE  WorkspaceInv' /\ NotesKept
  <1>0. StoreHolds /\ RequestsHold
    BY DEF WorkspaceInv
  <1>1. ASSUME UNCHANGED inFlight, \A c : Copied(c) => Copied(c)', \A list : Copies(list) => Copies(list)' PROVE RequestsHold'
    <2>1. \A r \in inFlight : Carries(r)'
      BY <1>0, <1>1 DEF RequestsHold, Carries
    <2> QED BY <1>0, <1>1, <2>1 DEF RequestsHold
  <1>2. ASSUME NEW n \in Notes, OthersWrite(t, (IF Kept(t) THEN store[t].notes ELSE {}) \cup {n})
        PROVE  WorkspaceInv' /\ NotesKept
    <2>1. PICK notes : notes = (IF Kept(t) THEN store[t].notes ELSE {}) \cup {n}
      OBVIOUS
    <2>2. notes \in SUBSET Notes
      <3>1. Kept(t) => store[t].notes \subseteq Notes
        BY <1>0 DEF StoreHolds, Kept, TicketCopy
      <3> QED BY <2>1, <3>1
    <2>3. PICK at \in 1..MaxClock :
            /\ Put(t, notes, at) /\ UNCHANGED <<shown, shownState, renderVars, inFlight>>
            /\ store[t] # None => store[t].notes \subseteq notes
      BY <1>2, <2>1 DEF OthersWrite, Kept
    <2>4. (\A c : Copied(c) => Copied(c)') /\ (\A list : Copies(list) => Copies(list)')
      BY <1>0, <2>3, CopiesStayCopied
    <2>5. StoreHolds' /\ NotesKept
      BY <1>0, <2>2, <2>3, PutHolds, PutKeepsNotes
    <2> QED BY <1>1, <2>3, <2>4, <2>5, SeenStays
  <1>3. CASE OthersDelete(t)
    <2>1. Drop(t) /\ UNCHANGED <<shown, shownState, renderVars, inFlight>>
      BY <1>3 DEF OthersDelete
    <2>2. (\A c : Copied(c) => Copied(c)') /\ (\A list : Copies(list) => Copies(list)')
      BY <1>0, <2>1, CopiesStayCopied
    <2>3. StoreHolds'
      BY <1>0, <2>1, DropHolds
    <2>4. NotesKept
      BY <1>0, <2>1 DEF NotesKept, Drop, StoreHolds
    <2> QED BY <1>1, <2>1, <2>2, <2>3, <2>4, SeenStays
  <1> QED BY <1>2, <1>3

-----------------------------------------------------------------------------
(* The page.                                                               *)

LEMMA NothingStored ==
  ASSUME UNCHANGED storeVars
  PROVE  /\ \A c : Copied(c) => Copied(c)'
         /\ \A list : Copies(list) => Copies(list)'
         /\ StoreHolds => StoreHolds'
         /\ NotesKept
  BY DEF Copied, Copies, StoreHolds, NotesKept, storeVars

LEMMA RequestEnds ==
  ASSUME RequestsHold, NEW r \in inFlight
  PROVE  /\ inFlight \ {r} \subseteq inFlight /\ IsFiniteSet(inFlight \ {r})
         /\ Cardinality(inFlight \ {r}) < MaxInFlight /\ MaxInFlight \in Nat
  <1>1. PICK others : others = inFlight \ {r}
    OBVIOUS
  <1>2. IsFiniteSet(others) /\ Cardinality(others) = Cardinality(inFlight) - 1
    BY <1>1, FS_RemoveElement DEF RequestsHold
  <1>3. Cardinality(others) \in Nat /\ Cardinality(inFlight) \in Nat /\ MaxInFlight \in Nat
    BY <1>2, FS_CardinalityType, WorkspaceConstants DEF RequestsHold
  <1> QED BY <1>1, <1>2, <1>3 DEF RequestsHold

\* Without a request the others are what they were.
LEMMA FewerHold ==
  ASSUME RequestsHold, NEW r \in inFlight, inFlight' = inFlight \ {r}, UNCHANGED storeVars
  PROVE  RequestsHold'
  <1>1. PICK others : others = inFlight \ {r}
    OBVIOUS
  <1>2. IsFiniteSet(others) /\ Cardinality(others) < MaxInFlight /\ Cardinality(others) \in Nat /\ MaxInFlight \in Nat
    BY <1>1, RequestEnds, FS_CardinalityType
  <1>3. \A q \in inFlight : Carries(q)'
    BY NothingStored DEF RequestsHold, Carries
  <1> QED BY <1>1, <1>2, <1>3 DEF RequestsHold

LEMMA ListAsked ==
  ASSUME NEW list, Copies(list)
  PROVE  ListAsk(list) \in Asked /\ ListAsk(list).kind = "list"
  <1>1. Len(list) \in Nat
    BY DEF Copies
  <1> QED BY <1>1 DEF ListAsk, Asked

\* What an answer makes of the tickets shows one twice only where a list is not what answered, and
\* then the number differs from what was shown, or it was shown twice before.
LEMMA ShowsKeeps ==
  ASSUME WorkspaceInv, NEW r \in inFlight, NEW list, NEW state \in ShownStates, Shows(r, list, state),
         UNCHANGED storeVars, Copies(list),
         Twice(list) => /\ r.ask.kind # "list"
                        /\ Len(list) # Len(shown) \/ (Twice(shown) /\ state = shownState)
  PROVE  WorkspaceInv'
  <1>0. StoreHolds /\ RequestsHold /\ TwiceIsSeen /\ Copies(rendered) /\ (~toRender => rendered = shown)
    BY DEF WorkspaceInv
  <1>1. /\ inFlight' = inFlight \ {r} /\ shown' = list /\ shownState' = state
        /\ toRender' = TRUE /\ joined' = (r.ask.kind # "list" /\ (joined \/ toRender)) /\ rendered' = rendered
    BY DEF Shows
  <1>2. Copies(list)' /\ StoreHolds' /\ RequestsHold'
    BY <1>0, <1>1, NothingStored, FewerHold
  <1>3. PICK before : before = rendered
    OBVIOUS
  <1>4. Copies(before)' /\ rendered' = before
    BY <1>0, <1>1, <1>3, NothingStored
  <1>5. Copies(shown)' /\ Copies(rendered)'
    BY <1>1, <1>2, <1>4 DEF Copies
  <1>6. TwiceIsSeen'
    <2> SUFFICES ASSUME Twice(list), ~joined', state = "current", ~\E q \in inFlight' : q.ask.kind = "list"
                 PROVE  Len(list) # Len(rendered)
      BY <1>1 DEF TwiceIsSeen, Twice
    <2>1. ~joined /\ ~toRender /\ rendered = shown
      BY <1>0, <1>1
    <2>2. Twice(shown) /\ state = shownState => FALSE
      BY <1>0, <1>1, <2>1 DEF TwiceIsSeen
    <2> QED BY <2>1, <2>2
  <1>7. joined' \in BOOLEAN
    BY <1>1
  <1> QED BY <1>1, <1>2, <1>5, <1>6, <1>7 DEF WorkspaceInv

LEMMA AnsweredKeeps ==
  ASSUME WorkspaceInv, NEW r \in inFlight, Answered(r)
  PROVE  WorkspaceInv' /\ NotesKept
  <1>0. /\ Carries(r) /\ r.ask.kind \in {"list", "create", "update", "delete"} /\ Copies(shown)
        /\ r.outcome # None /\ r.outcome.ok /\ UNCHANGED storeVars
        /\ shownState \in ShownStates /\ "current" \in ShownStates
    BY DEF WorkspaceInv, RequestsHold, Carries, Asked, Answered, ShownStates
  <1>1. PICK tickets : tickets = r.outcome.tickets
    OBVIOUS
  <1>2. Copies(tickets) /\ tickets \in Seq(TicketCopy) /\ shown \in Seq(TicketCopy)
    BY <1>0, <1>1 DEF Carries, Copies
  <1>3. CASE r.ask.kind = "list"
    <2>1. Shows(r, tickets, "current")
      BY <1>1, <1>3 DEF Answered
    <2>2. ~Twice(tickets)
      BY <1>0, <1>1, <1>3 DEF Carries
    <2> QED BY <1>0, <1>2, <2>1, <2>2, ShowsKeeps, NothingStored
  <1>4. CASE r.ask.kind = "create"
    <2>1. Shows(r, shown \o tickets, "current")
      BY <1>1, <1>4 DEF Answered
    <2>2. Len(tickets) = 1
      BY <1>0, <1>1, <1>4 DEF Carries
    <2>0. /\ shown \o tickets \in Seq(TicketCopy)
          /\ Len(shown \o tickets) = Len(shown) + Len(tickets)
      BY <1>2
    <2>3. PICK list : list = shown \o tickets
      OBVIOUS
    <2>4. list \in Seq(TicketCopy) /\ Len(list) = Len(shown) + 1 /\ Len(shown) \in Nat
      BY <1>2, <2>0, <2>2, <2>3
    <2>5. \A i \in 1..Len(list) : list[i] = IF i <= Len(shown) THEN shown[i] ELSE tickets[i - Len(shown)]
      BY <1>2, <2>2, <2>3
    <2>6. \A i \in 1..Len(list) : (i <= Len(shown) => i \in 1..Len(shown)) /\ (~(i <= Len(shown)) => i - Len(shown) = 1)
      BY <2>4
    <2>7. \A i \in 1..Len(list) : Copied(list[i])
      BY <1>0, <1>2, <2>2, <2>5, <2>6 DEF Copies
    <2>8. Copies(list)
      BY <2>4, <2>7 DEF Copies
    <2>9. Len(list) # Len(shown)
      BY <2>4
    <2> QED BY <1>0, <1>4, <2>1, <2>3, <2>8, <2>9, ShowsKeeps, NothingStored
  <1>5. CASE r.ask.kind = "delete"
    <2> DEFINE left == {i \in DOMAIN shown : shown[i].id # r.ask.id}
               list == Picked(shown, left)
    <2>1. Shows(r, list, shownState)
      BY <1>5 DEF Answered
    <2>2. left \in SUBSET (DOMAIN shown)
      OBVIOUS
    <2> HIDE DEF left
    <2>3. /\ list \in Seq(TicketCopy)
          /\ \A k \in DOMAIN list : \E i \in left : list[k] = shown[i]
          /\ \A k, l \in DOMAIN list : k # l => \E i, j \in left : i # j /\ list[k] = shown[i] /\ list[l] = shown[j]
      BY <1>2, <2>2, PickedSequence
    <2> HIDE DEF list
    <2>4. Copies(list)
      BY <1>0, <2>2, <2>3 DEF Copies
    <2>5. Twice(list) => Twice(shown)
      BY <2>2, <2>3 DEF Twice
    <2> QED BY <1>0, <1>5, <2>1, <2>4, <2>5, ShowsKeeps, NothingStored
  <1>6. CASE r.ask.kind = "update"
    <2>1. PICK updated : updated = tickets[1]
      OBVIOUS
    <2> DEFINE list == [i \in DOMAIN shown |-> IF shown[i].id = updated.id THEN updated ELSE shown[i]]
    <2>2. Shows(r, list, shownState)
      BY <1>1, <1>6, <2>1 DEF Answered
    <2>3. Copied(updated) /\ updated \in TicketCopy
      <3>1. Len(tickets) = 1
        BY <1>0, <1>1, <1>6 DEF Carries
      <3>2. 1 \in DOMAIN tickets
        BY <1>2, <3>1
      <3> QED BY <1>2, <2>1, <3>2 DEF Copies
    <2>4. /\ list \in Seq(TicketCopy) /\ DOMAIN list = DOMAIN shown
          /\ \A i \in DOMAIN shown : list[i] \in {updated, shown[i]} /\ list[i].id = shown[i].id
      <3>1. Len(shown) \in Nat /\ DOMAIN shown = 1..Len(shown) /\ \A i \in DOMAIN shown : shown[i] \in TicketCopy
        BY <1>2
      <3> QED BY <2>3, <3>1
    <2> HIDE DEF list
    <2>5. Copies(list)
      BY <1>0, <2>3, <2>4 DEF Copies
    <2>6. Twice(list) => Twice(shown)
      BY <2>4 DEF Twice
    <2> QED BY <1>0, <1>6, <2>2, <2>5, <2>6, ShowsKeeps, NothingStored
  <1> QED BY <1>0, <1>3, <1>4, <1>5, <1>6

\* A list of tickets stays one of copies while the companion stores nothing.
LEMMA ListsStay ==
  ASSUME WorkspaceInv, UNCHANGED storeVars, shown' = shown, rendered' \in {shown, rendered}
  PROVE  Copies(shown)' /\ Copies(rendered)'
  <1>1. PICK list, before : list = shown /\ before = rendered'
    OBVIOUS
  <1>2. Copies(list)' /\ Copies(before)' /\ shown' = list /\ rendered' = before
    BY <1>1, NothingStored DEF WorkspaceInv
  <1> QED BY <1>2 DEF Copies

LEMMA FailsKeep ==
  ASSUME WorkspaceInv, NEW r \in inFlight, AnswerFails(r)
  PROVE  WorkspaceInv' /\ NotesKept
  <1>1. inFlight' = inFlight \ {r} /\ UNCHANGED <<storeVars, shown, renderVars>> /\ shownState' \in {"stale", "error"}
    BY DEF AnswerFails
  <1>2. StoreHolds' /\ NotesKept /\ RequestsHold'
    BY <1>1, NothingStored, FewerHold DEF WorkspaceInv
  <1>3. Copies(shown)' /\ Copies(rendered)'
    BY <1>1, ListsStay DEF renderVars
  <1>4. TwiceIsSeen' /\ shownState' \in ShownStates
    BY <1>1 DEF TwiceIsSeen, ShownStates
  <1> QED BY <1>1, <1>2, <1>3, <1>4 DEF WorkspaceInv, renderVars

LEMMA AsksKeep ==
  ASSUME WorkspaceInv, Cardinality(inFlight) < MaxInFlight, NEW ask \in Asked, ask.kind = "update" => Copied(ask.ticket),
         Asks(ask), shownState' \in {shownState, Loading(shownState)}
  PROVE  WorkspaceInv' /\ NotesKept
  <1>1. UNCHANGED <<storeVars, shown, renderVars>> /\ inFlight' = Sent(inFlight, ask)
    BY DEF Asks
  <1>2. /\ StoreHolds' /\ NotesKept /\ \A list : Copies(list) => Copies(list)'
        /\ \A c : Copied(c) => Copied(c)'
    BY <1>1, NothingStored DEF WorkspaceInv
  <1>3. (ask.kind = "update" => Copied(ask.ticket))'
    BY <1>2
  <1>4. PICK requests : requests = inFlight
    OBVIOUS
  <1>5. inFlight' = Sent(requests, ask) /\ requests \subseteq inFlight /\ Cardinality(requests) < MaxInFlight /\ RequestsHold
        /\ MaxInFlight \in Nat
    BY <1>1, <1>4, WorkspaceConstants DEF WorkspaceInv
  <1>6. RequestsHold' /\ inFlight \subseteq inFlight'
    BY <1>2, <1>3, <1>4, <1>5, SentHolds
  <1>7. Copies(shown)' /\ Copies(rendered)'
    BY <1>1, ListsStay DEF renderVars
  <1>8. TwiceIsSeen' /\ shownState' \in ShownStates
    BY <1>1, <1>6 DEF WorkspaceInv, TwiceIsSeen, Twice, ShownStates, Loading, renderVars
  <1> QED BY <1>1, <1>2, <1>6, <1>7, <1>8 DEF WorkspaceInv, renderVars

\* A render of another number of tickets asks for them again; one of the same number hides no
\* ticket that is shown twice.
LEMMA RenderKeeps ==
  ASSUME WorkspaceInv, Render
  PROVE  WorkspaceInv' /\ NotesKept
  <1>0. StoreHolds /\ RequestsHold /\ TwiceIsSeen /\ Copies(shown) /\ shownState \in ShownStates /\ joined \in BOOLEAN
    BY DEF WorkspaceInv
  <1>1. rendered' = shown /\ toRender' = FALSE /\ UNCHANGED <<storeVars, shown, joined>>
    BY DEF Render, Rendered
  <1>2. StoreHolds' /\ NotesKept /\ Copies(shown)' /\ Copies(rendered)'
    BY <1>0, <1>1, NothingStored, ListsStay
  <1>3. CASE Len(shown) = Len(rendered)
    <2>1. UNCHANGED <<shownState, inFlight>>
      BY <1>3 DEF Render
    <2>2. \A q \in inFlight : Carries(q)'
      BY <1>0, <1>1, NothingStored DEF RequestsHold, Carries
    <2>3. RequestsHold'
      BY <1>0, <2>1, <2>2 DEF RequestsHold
    <2>4. TwiceIsSeen'
      BY <1>0, <1>1, <1>3, <2>1 DEF TwiceIsSeen, Twice
    <2> QED BY <1>0, <1>1, <1>2, <2>1, <2>3, <2>4 DEF WorkspaceInv
  <1>4. CASE Len(shown) # Len(rendered)
    <2>1. /\ Cardinality(inFlight) < MaxInFlight
          /\ inFlight' = Sent(inFlight, ListAsk(shown)) /\ shownState' = Loading(shownState)
      BY <1>4 DEF Render
    <2>2. PICK requests, ask : requests = inFlight /\ ask = ListAsk(shown)
      OBVIOUS
    <2>3. ask \in Asked /\ ask.kind = "list"
      BY <1>0, <2>2, ListAsked
    <2>4. RequestsHold' /\ \E q \in inFlight' : q.ask = ask
      BY <1>0, <1>1, <2>1, <2>2, <2>3, NothingStored, SentHolds, WorkspaceConstants
    <2>5. TwiceIsSeen' /\ shownState' \in ShownStates
      BY <1>0, <2>1, <2>3, <2>4 DEF TwiceIsSeen, Loading, ShownStates
    <2> QED BY <1>0, <1>1, <1>2, <2>4, <2>5 DEF WorkspaceInv
  <1> QED BY <1>3, <1>4

LEMMA PageAsksKeep ==
  ASSUME WorkspaceInv, Cardinality(inFlight) < MaxInFlight,
         \/ RefreshTickets
         \/ \E t \in TicketIds : CreateOnPage(t)
         \/ \E i \in DOMAIN rendered : DeleteOnPage(rendered[i])
         \/ \E i \in DOMAIN rendered, added \in {{}} \cup {{n} : n \in Notes} : ChangeOnPage(rendered[i], added)
  PROVE  WorkspaceInv' /\ NotesKept
  <1>1. CASE RefreshTickets
    <2>1. PICK ask : ask = ListAsk(rendered)
      OBVIOUS
    <2>2. ask \in Asked /\ ask.kind = "list"
      BY <2>1, ListAsked DEF WorkspaceInv
    <2> QED BY <1>1, <2>1, <2>2, AsksKeep DEF RefreshTickets
  <1>2. ASSUME NEW id \in TicketIds, NEW kind \in {"create", "delete"}, Asks([kind |-> kind, id |-> id]), UNCHANGED shownState
        PROVE  WorkspaceInv' /\ NotesKept
    <2>1. PICK ask : ask = [kind |-> kind, id |-> id]
      OBVIOUS
    <2>2. ask \in Asked /\ ask.kind # "update"
      BY <2>1 DEF Asked
    <2> QED BY <1>2, <2>1, <2>2, AsksKeep
  <1>3. \A i \in DOMAIN rendered : Copied(rendered[i]) /\ rendered[i] \in TicketCopy /\ rendered[i].id \in TicketIds
    BY DEF WorkspaceInv, Copies, Copied, TicketCopy
  <1>4. ASSUME NEW i \in DOMAIN rendered, NEW added \in {{}} \cup {{n} : n \in Notes}, ChangeOnPage(rendered[i], added)
        PROVE  WorkspaceInv' /\ NotesKept
    <2>1. PICK c : c = rendered[i]
      OBVIOUS
    <2>2. PICK sent : sent = [c EXCEPT !.notes = @ \cup added]
      OBVIOUS
    <2>3. PICK ask : ask = [kind |-> "update", ticket |-> sent]
      OBVIOUS
    <2>4. Asks(ask) /\ UNCHANGED shownState
      BY <1>4, <2>1, <2>2, <2>3 DEF ChangeOnPage
    <2>5. Copied(c) /\ c \in TicketCopy /\ added \subseteq Notes
      BY <1>3, <2>1
    <2>6. sent \in TicketCopy /\ sent.id = c.id /\ sent.version = c.version /\ c.notes \subseteq sent.notes
      BY <2>2, <2>5 DEF TicketCopy
    <2>7. Copied(sent)
      BY <2>5, <2>6 DEF Copied
    <2>8. ask \in Asked /\ ask.ticket = sent
      BY <2>3, <2>6 DEF Asked
    <2> QED BY <2>4, <2>7, <2>8, AsksKeep
  <1>5. ASSUME NEW t \in TicketIds, CreateOnPage(t) PROVE WorkspaceInv' /\ NotesKept
    BY <1>2, <1>5 DEF CreateOnPage
  <1>6. ASSUME NEW i \in DOMAIN rendered, DeleteOnPage(rendered[i]) PROVE WorkspaceInv' /\ NotesKept
    BY <1>2, <1>3, <1>6 DEF DeleteOnPage
  <1> QED BY <1>1, <1>4, <1>5, <1>6

LEMMA WorkspaceStep ==
  ASSUME WorkspaceInv, [WorkspaceNext]_workspaceVars
  PROVE  WorkspaceInv' /\ NotesKept
  <1>1. CASE UNCHANGED workspaceVars
    <2>1. UNCHANGED <<storeVars, shown, shownState, renderVars, inFlight>>
      BY <1>1 DEF workspaceVars
    <2>2. \A r : Carries(r) => Carries(r)'
      BY <2>1, NothingStored DEF Carries
    <2>3. RequestsHold'
      BY <2>1, <2>2 DEF WorkspaceInv, RequestsHold
    <2> QED BY <2>1, <2>3, NothingStored, SeenStays DEF WorkspaceInv
  <1>2. CASE WorkspaceNext
    BY <1>2, ServeTicketsKeeps, AnsweredKeeps, FailsKeep, RenderKeeps, PageAsksKeep, OthersKeep DEF WorkspaceNext
  <1> QED BY <1>1, <1>2

LEMMA WorkspaceStart ==
  ASSUME WorkspaceInit
  PROVE  WorkspaceInv
  <1>1. /\ Copies(shown) /\ ~Twice(shown) /\ shownState \in ShownStates
        /\ rendered = shown /\ toRender \in BOOLEAN /\ joined \in BOOLEAN
    <2>1. PICK none : none = << >>
      OBVIOUS
    <2>2. Copies(none) /\ ~Twice(none)
      BY <2>1, OutcomeTyped
    <2> QED BY <2>1, <2>2 DEF WorkspaceInit, ShownStates
  <1>2. StoreHolds
    BY WorkspaceConstants DEF WorkspaceInit, StoreHolds
  <1>3. PICK ask : ask = ListAsk(rendered)
    OBVIOUS
  <1>4. ask \in Asked /\ ask.kind = "list"
    BY <1>1, <1>3, ListAsked
  <1>5. MaxInFlight \in Nat \ {0} /\ IsFiniteSet({}) /\ Cardinality({}) = 0
    BY WorkspaceConstants, FS_EmptySet
  <1>6. PICK n \in 1..MaxInFlight : Sent({}, ask) = {} \cup {[id |-> n, ask |-> ask, outcome |-> None]}
    <2>1. PICK requests : requests = {}
      OBVIOUS
    <2>2. IsFiniteSet(requests) /\ Cardinality(requests) < MaxInFlight
      BY <1>5, <2>1
    <2> QED BY <2>1, <2>2, SentTyped
  <1>7. PICK r : r = [id |-> n, ask |-> ask, outcome |-> None]
    OBVIOUS
  <1>8. inFlight = {r} /\ r.id = n /\ r.ask = ask /\ r.outcome = None
    BY <1>3, <1>6, <1>7 DEF WorkspaceInit
  <1>9. IsFiniteSet({r}) /\ Cardinality({r}) = 1
    BY FS_Singleton
  <1>10. Carries(r)
    BY <1>4, <1>8 DEF Carries
  <1>11. RequestsHold
    BY <1>5, <1>7, <1>8, <1>9, <1>10 DEF RequestsHold
  <1> QED BY <1>1, <1>2, <1>11 DEF WorkspaceInv, TwiceIsSeen

LEMMA WorkspaceTyped ==
  ASSUME WorkspaceInv
  PROVE  WorkspaceTypeOK /\ RestingPageIsClean
  <1>1. /\ shown \in Seq(TicketCopy) /\ rendered \in Seq(TicketCopy) /\ store \in [TicketIds -> TicketCopy \cup {None}]
        /\ dates \in [TicketIds -> SUBSET (1..MaxClock)] /\ redated \subseteq TicketIds
        /\ shownState \in ShownStates /\ toRender \in BOOLEAN /\ joined \in BOOLEAN
    BY DEF WorkspaceInv, Copies, StoreHolds
  <1>2. \A r \in inFlight : r \in [id : 1..MaxInFlight, ask : Asked, outcome : Outcome \cup {None}]
    BY DEF WorkspaceInv, RequestsHold, Carries
  <1>3. RestingPageIsClean
    BY DEF WorkspaceInv, TwiceIsSeen, Twice, RestingPageIsClean
  <1> QED BY <1>1, <1>2, <1>3 DEF WorkspaceTypeOK

-----------------------------------------------------------------------------
(* The sample.                                                             *)
IsSample(data) == data \in Workspaces /\ \A i \in Samples \cup Added : data[i] # None => data[i].origin = "demo"

SampleInv ==
  /\ session \in Workspaces \cup {None}
  /\ sample = None \/ IsSample(sample)

LEMMA TodoIsSample ==
  /\ SampleTicket("todo") \in SampleTickets /\ SampleTicket("todo").origin = "demo"
  /\ [SampleTicket("todo") EXCEPT !.origin = "browser-ui"] \in SampleTickets
  <1>1. ("todo" = "done") = FALSE
    OBVIOUS
  <1>2. SampleTicket("todo") = [origin |-> "demo", status |-> "todo", done |-> FALSE, notes |-> 0]
    BY <1>1 DEF SampleTicket
  <1>3. ASSUME NEW origin \in {"demo", "browser-ui"}
        PROVE  [origin |-> origin, status |-> "todo", done |-> FALSE, notes |-> 0] \in SampleTickets
    <2>1. PICK one : one = [origin |-> origin, status |-> "todo", done |-> FALSE, notes |-> 0]
      OBVIOUS
    <2>2. one \in [origin : {"demo", "browser-ui"}, status : {"todo", "done"}, done : BOOLEAN, notes : 0..1]
      BY <2>1
    <2>3. one.done = FALSE /\ one.status = "todo"
      BY <2>1
    <2>4. one.done = (one.status = "done")
      BY <1>1, <2>3
    <2> QED BY <2>1, <2>2, <2>4 DEF SampleTickets
  <1>4. PICK todo : todo = [origin |-> "demo", status |-> "todo", done |-> FALSE, notes |-> 0]
    OBVIOUS
  <1>5. todo.origin = "demo" /\ todo \in SampleTickets
    BY <1>3, <1>4
  <1>6. PICK strange : strange = [todo EXCEPT !.origin = "browser-ui"]
    OBVIOUS
  <1>7. /\ strange \in [origin : {"demo", "browser-ui"}, status : {"todo", "done"}, done : BOOLEAN, notes : 0..1]
        /\ strange.done = todo.done /\ strange.status = todo.status
    BY <1>5, <1>6 DEF SampleTickets
  <1>8. strange \in SampleTickets
    BY <1>5, <1>7 DEF SampleTickets
  <1> QED BY <1>2, <1>4, <1>5, <1>6, <1>8

LEMMA CanonicalIsSample == IsSample(CanonicalSample)
  <1>1. PICK todo : todo = SampleTicket("todo")
    OBVIOUS
  <1>2. todo \in SampleTickets /\ todo.origin = "demo"
    BY <1>1, TodoIsSample
  <1>3. CanonicalSample = [i \in Samples \cup Added |-> IF i \in Samples THEN todo ELSE None]
    BY <1>1 DEF CanonicalSample
  <1> QED BY <1>2, <1>3 DEF IsSample, Workspaces

LEMMA SampleStart == SampleInit => SampleInv
  <1> SUFFICES ASSUME SampleInit PROVE SampleInv
    OBVIOUS
  <1>1. Strange \subseteq Workspaces
    <2> SUFFICES ASSUME NEW i \in Samples
                 PROVE  [CanonicalSample EXCEPT ![i] = [SampleTicket("todo") EXCEPT !.origin = "browser-ui"]] \in Workspaces
      BY DEF Strange
    <2> QED BY TodoIsSample, CanonicalIsSample DEF IsSample, Workspaces
  <1> QED BY <1>1 DEF SampleInit, SampleInv

LEMMA SaveSampleKeeps ==
  ASSUME SampleInv, NEW data, IsSample(data), SaveSample(data)
  PROVE  SampleInv'
  <1>1. IsSample(data)'
    BY DEF IsSample
  <1>2. sample' = data /\ session' \in Workspaces \cup {None}
    BY DEF SaveSample, SampleInv, IsSample
  <1> QED BY <1>1, <1>2 DEF SampleInv, IsSample

LEMMA SampleStep ==
  ASSUME SampleInv, [SampleNext]_sampleVars
  PROVE  SampleInv'
  <1>1. CASE UNCHANGED sampleVars
    BY <1>1 DEF sampleVars, SampleInv, IsSample
  <1>2. CASE LoadSample
    <2>1. CASE UsableSample(session)
      BY <1>2, <2>1 DEF LoadSample, UsableSample, IsSampleData, SampleInv, IsSample
    <2>2. CASE ~UsableSample(session)
      BY <1>2, <2>2, CanonicalIsSample, SaveSampleKeeps DEF LoadSample
    <2> QED BY <2>1, <2>2
  <1>3. CASE ResetSample
    BY <1>3, CanonicalIsSample DEF ResetSample, SampleInv, IsSample
  <1>4. ASSUME NEW i \in Samples \cup Added, NEW value \in SampleTickets \cup {None},
               value # None => value.origin = "demo",
               ShowsSample, SaveSample([sample EXCEPT ![i] = value])
        PROVE  SampleInv'
    <2>1. PICK data : data = [sample EXCEPT ![i] = value]
      OBVIOUS
    <2>2. IsSample(data)
      BY <1>4, <2>1 DEF SampleInv, IsSample, ShowsSample, Workspaces
    <2> QED BY <1>4, <2>1, <2>2, SaveSampleKeeps
  <1>5. ASSUME NEW i \in Samples \cup Added, ShowsSample, sample[i] # None
        PROVE  sample[i] \in SampleTickets /\ sample[i].origin = "demo"
    BY <1>5 DEF SampleInv, IsSample, ShowsSample, Workspaces
  <1>6. ASSUME NEW i \in Added, CreateSampleTicket(i) PROVE SampleInv'
    <2>1. PICK value : value = SampleTicket("todo")
      OBVIOUS
    <2>2. value \in SampleTickets /\ value.origin = "demo"
      BY <2>1, TodoIsSample
    <2> QED BY <1>4, <1>6, <2>1, <2>2 DEF CreateSampleTicket
  <1>7. ASSUME NEW i \in Samples \cup Added, NEW status \in {"todo", "done"}, UpdateSampleTicketStatus(i, status)
        PROVE  SampleInv'
    <2>1. PICK value : value = [sample[i] EXCEPT !.status = status, !.done = status = "done"]
      OBVIOUS
    <2>2. value \in SampleTickets /\ value.origin = "demo"
      BY <1>5, <1>7, <2>1 DEF UpdateSampleTicketStatus, SampleTickets
    <2>3. [sample EXCEPT ![i].status = status, ![i].done = status = "done"] = [sample EXCEPT ![i] = value]
      BY <1>7, <2>1 DEF SampleInv, IsSample, Workspaces, UpdateSampleTicketStatus, ShowsSample
    <2> QED BY <1>4, <1>7, <2>2, <2>3 DEF UpdateSampleTicketStatus
  <1>8. ASSUME NEW i \in Samples \cup Added, AddSampleWorkNote(i) PROVE SampleInv'
    <2>1. PICK value : value = [sample[i] EXCEPT !.notes = 1]
      OBVIOUS
    <2>2. value \in SampleTickets /\ value.origin = "demo"
      BY <1>5, <1>8, <2>1 DEF AddSampleWorkNote, SampleTickets
    <2>3. [sample EXCEPT ![i].notes = 1] = [sample EXCEPT ![i] = value]
      BY <1>8, <2>1
    <2> QED BY <1>4, <1>8, <2>2, <2>3 DEF AddSampleWorkNote
  <1>9. ASSUME NEW i \in Samples \cup Added, DeleteSampleTicket(i) PROVE SampleInv'
    BY <1>4, <1>9 DEF DeleteSampleTicket
  <1> QED BY <1>1, <1>2, <1>3, <1>6, <1>7, <1>8, <1>9 DEF SampleNext

LEMMA SampleIsSafe ==
  ASSUME SampleInv
  PROVE  SampleTypeOK /\ SampleIsFictional
  BY DEF SampleInv, SampleTypeOK, SampleIsFictional, IsSample, ShowsSample

-----------------------------------------------------------------------------
(* The queue of attention.                                                 *)
AttentionInv ==
  /\ work \in [Works -> QueuedWork] /\ assigned \in Assignments
  /\ letters \in [Letters -> [state : LetterStates, receivedAt : Nat]]
  /\ checks \in [Feeds -> CheckStates \cup {None}]
  /\ today \in Nat
  /\ \A t \in Works : (work[t].resolvedAt # None) <=> (work[t].status = "done")

LEMMA AttentionStart == AttentionInit => AttentionInv
  <1> SUFFICES ASSUME AttentionInit PROVE AttentionInv
    OBVIOUS
  <1>1. PICK first \in Arrangements : work = first.work /\ assigned = first.assigned
    BY DEF AttentionInit
  <1> QED BY <1>1, AttentionConstants DEF AttentionInit, AttentionInv

LEMMA AttentionStep ==
  ASSUME AttentionInv, [AttentionNext]_attentionVars
  PROVE  AttentionInv'
  <1> USE DEF AttentionInv
  <1>1. CASE UNCHANGED attentionVars
    BY <1>1 DEF attentionVars
  <1>2. ASSUME NEW t \in Works, NEW status \in {"todo", "done"}, NEW at \in Nat \cup {None},
               (at # None) <=> (status = "done"), UNCHANGED <<assigned, letters, checks, today>>,
               work' = [work EXCEPT ![t].status = status, ![t].resolvedAt = at, ![t].changedAt = today]
        PROVE  AttentionInv'
    <2>1. PICK one : one = [work[t] EXCEPT !.status = status, !.resolvedAt = at, !.changedAt = today]
      OBVIOUS
    <2>2. work[t] \in QueuedWork
      OBVIOUS
    <2>3. one \in QueuedWork /\ one.status = status /\ one.resolvedAt = at
      BY <2>1, <2>2 DEF QueuedWork
    <2>4. work' = [work EXCEPT ![t] = one]
      BY <1>2, <2>1
    <2>5. \A u \in Works : (work'[u].resolvedAt # None) <=> (work'[u].status = "done")
      <3> SUFFICES ASSUME NEW u \in Works PROVE (work'[u].resolvedAt # None) <=> (work'[u].status = "done")
        OBVIOUS
      <3>1. CASE u = t
        BY <1>2, <2>3, <2>4, <3>1
      <3>2. CASE u # t
        BY <2>4, <3>2
      <3> QED BY <3>1, <3>2
    <2>6. work' \in [Works -> QueuedWork]
      BY <2>3, <2>4
    <2> QED BY <1>2, <2>5, <2>6
  <1>3. ASSUME NEW t \in Works, MarkDone(t) PROVE AttentionInv'
    <2>1. today \in Nat \cup {None} /\ (today # None) <=> ("done" = "done")
      BY AttentionConstants
    <2>2. work' = [work EXCEPT ![t].status = "done", ![t].resolvedAt = today, ![t].changedAt = today]
          /\ UNCHANGED <<assigned, letters, checks, today>>
      BY <1>3 DEF MarkDone
    <2> QED BY <1>2, <2>1, <2>2
  <1>4. ASSUME NEW t \in Works, Reopen(t) PROVE AttentionInv'
    <2>1. None \in Nat \cup {None} /\ (None # None) <=> ("todo" = "done")
      OBVIOUS
    <2>2. work' = [work EXCEPT ![t].status = "todo", ![t].resolvedAt = None, ![t].changedAt = today]
          /\ UNCHANGED <<assigned, letters, checks, today>>
      BY <1>4 DEF Reopen
    <2> QED BY <1>2, <2>1, <2>2
  <1>5. ASSUME NEW t \in Works, NEW state \in AgentStates, AgentReports(t, state) PROVE AttentionInv'
    <2>1. PICK one : one = [work[t] EXCEPT !.changedAt = today]
      OBVIOUS
    <2>2. work[t] \in QueuedWork
      OBVIOUS
    <2>3. one \in QueuedWork /\ one.status = work[t].status /\ one.resolvedAt = work[t].resolvedAt
      BY <2>1, <2>2 DEF QueuedWork
    <2>4. work' = [work EXCEPT ![t] = one] /\ assigned' = [assigned EXCEPT ![t] = state]
          /\ UNCHANGED <<letters, checks, today>>
      BY <1>5, <2>1 DEF AgentReports
    <2>5. assigned' \in Assignments
      BY <2>4 DEF Assignments
    <2> QED BY <2>3, <2>4, <2>5
  <1>6. ASSUME NEW l \in Letters, MailArrives(l) \/ \E state \in LetterStates : DecideLetter(l, state)
        PROVE AttentionInv'
    BY <1>6 DEF MailArrives, DecideLetter, LetterStates
  <1>7. ASSUME NEW f \in Feeds, NEW state \in CheckStates, CheckEnds(f, state) PROVE AttentionInv'
    BY <1>7 DEF CheckEnds
  <1>8. CASE DayPasses
    BY <1>8 DEF DayPasses
  <1> QED BY <1>1, <1>3, <1>4, <1>5, <1>6, <1>7, <1>8 DEF AttentionNext

\* What each ticket, letter and source is queued as.
LEMMA TicketQueued ==
  ASSUME AttentionInv, NEW t \in Works, TicketItem(t) # None
  PROVE  /\ TicketItem(t) \in AttentionItems /\ TicketItem(t).ref = t
         /\ TicketItem(t).at # None /\ TicketItem(t).rank # 3
  <1>1. work[t].changedAt \in Nat /\ t \in Refs /\ assigned[t] \in AgentStates \cup {None} /\ None \notin Nat
    BY AttentionConstants DEF AttentionInv, QueuedWork, Refs, Assignments
  <1>2. ASSUME NEW rank \in {0, 1, 4, 5, 6}, NEW bucket \in {"needs-action", "waiting", "recently-resolved"},
               NEW priority \in {"critical", "high", "normal", "low"},
               TicketItem(t) = AttentionItem(t, rank, bucket, priority, work[t].changedAt)
        PROVE  /\ TicketItem(t) \in AttentionItems /\ TicketItem(t).ref = t
               /\ TicketItem(t).at # None /\ TicketItem(t).rank # 3
    BY <1>1, <1>2 DEF AttentionItem, AttentionItems
  <1>3. CASE assigned[t] \in {None, "running"}
    BY <1>2, <1>3 DEF TicketItem, PlainItem
  <1>4. CASE assigned[t] \notin {None, "running"}
    BY <1>1, <1>2, <1>4 DEF TicketItem, AgentItem, AgentStates
  <1> QED BY <1>3, <1>4

LEMMA LetterQueued ==
  ASSUME AttentionInv, NEW l \in Letters, GmailItem(l) # None
  PROVE  /\ GmailItem(l) \in AttentionItems /\ GmailItem(l).ref = l
         /\ GmailItem(l).at # None /\ GmailItem(l).rank # 3
         /\ GmailItem(l).rank = 5 => GmailItem(l).priority = "low"
  BY AttentionConstants
  DEF AttentionInv, LetterStates, GmailItem, Deferred, AttentionItem, AttentionItems, Refs

LEMMA SourceQueued ==
  ASSUME AttentionInv, NEW f \in Feeds, SourceItem(f) # None
  PROVE  /\ SourceItem(f) \in AttentionItems /\ SourceItem(f).ref = f /\ SourceItem(f).at = None
         /\ SourceItem(f).rank = 3 \/ (SourceItem(f).rank = 5 /\ SourceItem(f).priority = "normal")
  BY AttentionConstants
  DEF AttentionInv, CheckStates, SourceItem, AttentionItem, AttentionItems, Refs

LEMMA OpenIsQueued ==
  ASSUME AttentionInv, NEW t \in Works, work[t].status # "done"
  PROVE  TicketItem(t) # None
  <1>1. \A ref \in Refs, rank \in Nat, bucket \in {"needs-action", "waiting", "recently-resolved"},
           priority \in {"critical", "high", "normal", "low"}, at \in Nat \cup {None} :
          AttentionItem(ref, rank, bucket, priority, at) # None
    BY AttentionConstants DEF AttentionItem, AttentionItems
  <1>2. work[t].status \in {"todo", "in-progress", "blocked"} /\ work[t].changedAt \in Nat /\ t \in Refs
        /\ assigned[t] \in AgentStates \cup {None}
    BY DEF AttentionInv, QueuedWork, Refs, Assignments
  <1> QED BY <1>1, <1>2 DEF TicketItem, AgentItem, PlainItem, AgentStates

\* An item is queued for one ticket, letter or source.
LEMMA ItemsQueued ==
  ASSUME AttentionInv
  PROVE  /\ Queue \subseteq AttentionItems
         /\ \A a, b \in Queue : a.ref = b.ref => a = b
         /\ \A a \in Queue :
              \/ a.ref \in Works /\ a.at # None /\ a.rank # 3
              \/ a.ref \in Letters /\ a.at # None /\ a.rank # 3 /\ (a.rank = 5 => a.priority = "low")
              \/ a.ref \in Feeds /\ a.at = None /\ (a.rank = 3 \/ (a.rank = 5 /\ a.priority = "normal"))
  <1>1. \A a \in Queue :
          \/ a.ref \in Works /\ a = TicketItem(a.ref) /\ a # None
          \/ a.ref \in Letters /\ a = GmailItem(a.ref) /\ a # None
          \/ a.ref \in Feeds /\ a = SourceItem(a.ref) /\ a # None
    BY TicketQueued, LetterQueued, SourceQueued DEF Queue
  <1>2. ASSUME NEW a \in Queue, NEW b \in Queue, a.ref = b.ref PROVE a = b
    BY <1>1, <1>2, AttentionConstants
  <1>3. ASSUME NEW a \in Queue
        PROVE  /\ a \in AttentionItems
               /\ \/ a.ref \in Works /\ a.at # None /\ a.rank # 3
                  \/ a.ref \in Letters /\ a.at # None /\ a.rank # 3 /\ (a.rank = 5 => a.priority = "low")
                  \/ a.ref \in Feeds /\ a.at = None /\ (a.rank = 3 \/ (a.rank = 5 /\ a.priority = "normal"))
    <2>1. CASE a.ref \in Works /\ a = TicketItem(a.ref) /\ a # None
      BY <2>1, TicketQueued
    <2>2. CASE a.ref \in Letters /\ a = GmailItem(a.ref) /\ a # None
      BY <2>2, LetterQueued
    <2>3. CASE a.ref \in Feeds /\ a = SourceItem(a.ref) /\ a # None
      BY <2>3, SourceQueued
    <2> QED BY <1>1, <2>1, <2>2, <2>3
  <1> QED BY <1>2, <1>3

\* Of two items of one rank and priority only a source and a ticket can differ in having a date,
\* and then their names decide, which put the source first.
LEMMA QueueOrdered ==
  ASSUME AttentionInv
  PROVE  QueueHasAnOrder
  <1>1. \A ref \in Refs : \E i \in 1..Len(Names) : Names[i] = ref
    BY AttentionConstants
  <1>2. PICK place : place = [ref \in Refs |-> CHOOSE i \in 1..Len(Names) : Names[i] = ref]
    OBVIOUS
  <1>3. \A ref \in Refs : place[ref] \in 1..Len(Names) /\ Names[place[ref]] = ref
    BY <1>1, <1>2
  <1>4. Len(Names) \in Nat /\ DOMAIN Names = 1..Len(Names)
    BY AttentionConstants
  <1>5. \A i \in 1..Len(Names) : Names[i] \in Refs /\ place[Names[i]] = i
    BY <1>3, <1>4, AttentionConstants
  <1>6. \A ref \in Refs : place[ref] \in Nat
    BY <1>3, <1>4
  <1>7. \A a, b : a.ref \in Refs /\ b.ref \in Refs => (NameBefore(a, b) <=> place[a.ref] < place[b.ref])
    BY <1>3, <1>4, <1>5 DEF NameBefore
  <1>8. \A r, q \in Refs : (place[r] = place[q] => r = q) /\ (r \in Feeds /\ q \in Works => place[r] < place[q])
    BY <1>3, <1>4, AttentionConstants
  <1>9. \A a \in Queue :
          /\ a.ref \in Refs /\ a.rank \in Nat /\ a.priority \in {"critical", "high", "normal", "low"}
          /\ a.at # None => a.at \in Nat
    BY ItemsQueued DEF AttentionItems
  <1>10. \A p, q \in {"critical", "high", "normal", "low"} :
           PriorityOrder[p] \in Nat /\ (PriorityOrder[p] = PriorityOrder[q] => p = q)
    BY DEF PriorityOrder
  <1> DEFINE Earlier(a, b) ==
        IF a.at # None /\ b.at # None /\ a.at # b.at THEN a.at > b.at ELSE place[a.ref] < place[b.ref]
      Alike(a, b) == a.rank = b.rank /\ a.priority = b.priority
  <1>11. \A a, b \in Queue :
           Before(a, b) <=> \/ a.rank < b.rank
                            \/ a.rank = b.rank /\ PriorityOrder[a.priority] < PriorityOrder[b.priority]
                            \/ Alike(a, b) /\ Earlier(a, b)
    BY <1>7, <1>9 DEF Before
  <1>12. \A a, b \in Queue : Alike(a, b) /\ a.at = None /\ b.at # None => place[a.ref] < place[b.ref]
    BY ItemsQueued, <1>8, <1>9
  <1>13. \A a, b \in Queue : a # b /\ Alike(a, b) => (Earlier(a, b) <=> ~Earlier(b, a))
    <2>1. \A a, b \in Queue : a # b => place[a.ref] # place[b.ref]
      BY ItemsQueued, <1>8, <1>9
    <2> QED BY <1>6, <1>9, <2>1
  <1>14. ASSUME NEW a \in Queue, NEW b \in Queue, NEW c \in Queue, Alike(a, b), Alike(b, c), Earlier(a, b), Earlier(b, c)
         PROVE  Earlier(a, c)
    <2>1. place[a.ref] \in Nat /\ place[b.ref] \in Nat /\ place[c.ref] \in Nat
      BY <1>6, <1>9
    <2>2. \A x, y \in {a, b, c} : x.at = None /\ y.at # None => place[x.ref] < place[y.ref]
      BY <1>12, <1>14
    <2>3. CASE a.at = None \/ b.at = None \/ c.at = None
      BY <1>9, <1>14, <2>1, <2>2, <2>3
    <2>4. CASE a.at # None /\ b.at # None /\ c.at # None
      BY <1>9, <1>14, <2>1, <2>4
    <2> QED BY <2>3, <2>4
  <1> HIDE DEF Earlier
  <1>15. ASSUME NEW a \in Queue, NEW b \in Queue
         PROVE  a # b => (Before(a, b) <=> ~Before(b, a))
    <2> DEFINE i == PriorityOrder[a.priority]
               j == PriorityOrder[b.priority]
    <2>1. i \in Nat /\ j \in Nat /\ (i = j => a.priority = b.priority) /\ a.rank \in Nat /\ b.rank \in Nat
      BY <1>9, <1>10
    <2> HIDE DEF i, j
    <2>2. Before(a, b) <=> a.rank < b.rank \/ (a.rank = b.rank /\ i < j) \/ (Alike(a, b) /\ Earlier(a, b))
      BY <1>11 DEF i, j
    <2>3. Before(b, a) <=> b.rank < a.rank \/ (a.rank = b.rank /\ j < i) \/ (Alike(a, b) /\ Earlier(b, a))
      BY <1>11 DEF i, j
    <2>4. Alike(a, b) => i = j
      BY DEF i, j
    <2> QED BY <1>13, <2>1, <2>2, <2>3, <2>4
  <1>16. ASSUME NEW a \in Queue, NEW b \in Queue, NEW c \in Queue, Before(a, b), Before(b, c)
         PROVE  Before(a, c)
    <2> DEFINE i == PriorityOrder[a.priority]
               j == PriorityOrder[b.priority]
               k == PriorityOrder[c.priority]
    <2>1. i \in Nat /\ j \in Nat /\ k \in Nat /\ a.rank \in Nat /\ b.rank \in Nat /\ c.rank \in Nat
      BY <1>9, <1>10
    <2> HIDE DEF i, j, k
    <2>2. a.rank < b.rank \/ (a.rank = b.rank /\ i < j) \/ (Alike(a, b) /\ Earlier(a, b))
      BY <1>11, <1>16 DEF i, j
    <2>3. b.rank < c.rank \/ (b.rank = c.rank /\ j < k) \/ (Alike(b, c) /\ Earlier(b, c))
      BY <1>11, <1>16 DEF j, k
    <2>4. Before(a, c) <=> a.rank < c.rank \/ (a.rank = c.rank /\ i < k) \/ (Alike(a, c) /\ Earlier(a, c))
      BY <1>11 DEF i, k
    <2>5. (Alike(a, b) => i = j) /\ (Alike(b, c) => j = k) /\ (Alike(a, b) /\ Alike(b, c) => Alike(a, c))
      BY DEF i, j, k
    <2> QED BY <1>14, <2>1, <2>2, <2>3, <2>4, <2>5
  <1> QED BY <1>15, <1>16 DEF QueueHasAnOrder

\* What is behind tickets is the least set that leads on to nothing else.
LEMMA BehindIsLeast ==
  ASSUME AttentionInv, NEW ts \in SUBSET Works
  PROVE  /\ BehindOf(ts) \subseteq Works /\ ts \subseteq BehindOf(ts) /\ LeadsOn(BehindOf(ts))
         /\ \A c \in SUBSET Works : ts \subseteq c /\ LeadsOn(c) => BehindOf(ts) \subseteq c
  <1>1. \A t \in Works : work[t].blockers \ {Gone} \subseteq Works
    BY AttentionConstants DEF AttentionInv, QueuedWork
  <1>2. LeadsOn(BehindOf(ts))
    <2>1. ASSUME NEW t \in BehindOf(ts), NEW b \in work[t].blockers \ {Gone}
          PROVE  b \in BehindOf(ts)
      <3>1. t \in Works /\ \A c \in SUBSET Works : ts \subseteq c /\ LeadsOn(c) => t \in c
        BY DEF BehindOf
      <3>2. ASSUME NEW c \in SUBSET Works, ts \subseteq c, LeadsOn(c) PROVE b \in c
        BY <3>1, <3>2 DEF LeadsOn
      <3>3. b \in Works
        BY <1>1, <3>1
      <3> QED BY <3>2, <3>3 DEF BehindOf
    <2> QED BY <2>1 DEF LeadsOn
  <1> QED BY <1>2 DEF BehindOf

\* Somewhere behind a ticket that waits, following those that wait themselves, is the cause:
\* each step leaves fewer tickets behind.
LEMMA WaitingCaused ==
  ASSUME AttentionInv
  PROVE  WaitingHasCause
  <1> DEFINE Waits(u) == TicketItem(u) # None /\ TicketItem(u).bucket = "waiting"
             Cause(u) == \/ TicketItem(u) # None /\ TicketItem(u).bucket = "needs-action"
                         \/ assigned[u] = "waiting" \/ Gone \in work[u].blockers \/ Circular(u)
             Blockers(u) == work[u].blockers \ {Gone}
             Size(u) == Cardinality(BehindOf(Blockers(u)))
  <1> SUFFICES ASSUME NEW t \in Works, Waits(t), \A u \in BehindOf({t}) : ~Cause(u)
               PROVE  FALSE
    BY DEF WaitingHasCause
  <1>1. PICK behind : behind = BehindOf({t})
    OBVIOUS
  <1>2. behind \subseteq Works /\ t \in behind /\ LeadsOn(behind) /\ \A u \in behind : ~Cause(u)
    BY <1>1, BehindIsLeast
  <1>3. \A u \in Works : Blockers(u) \in SUBSET Works
    BY AttentionConstants DEF AttentionInv, QueuedWork
  <1>4. \A u \in Works : Size(u) \in Nat /\ IsFiniteSet(BehindOf(Blockers(u)))
    <2> SUFFICES ASSUME NEW u \in Works PROVE Size(u) \in Nat /\ IsFiniteSet(BehindOf(Blockers(u)))
      OBVIOUS
    <2>1. BehindOf(Blockers(u)) \subseteq Works
      BY <1>3, BehindIsLeast
    <2>2. IsFiniteSet(BehindOf(Blockers(u)))
      BY <2>1, AttentionConstants, FS_Subset
    <2> QED BY <2>2, FS_CardinalityType
  \* A ticket that waits without a cause waits for one that is there and is not done.
  <1>5. ASSUME NEW u \in behind, Waits(u)
        PROVE  \E b \in Blockers(u) : work[b].status # "done"
    <2>1. u \in Works /\ assigned[u] \in AgentStates \cup {None} /\ ~Cause(u)
      BY <1>2 DEF AttentionInv, Assignments
    <2>2. Unresolved(u)
      <3>1. CASE assigned[u] \in {None, "running"}
        BY <1>5, <2>1, <3>1 DEF TicketItem, PlainItem, AttentionItem
      <3>2. CASE assigned[u] \in {"needs-action", "blocked", "stale"}
        BY <1>5, <2>1, <3>2, AttentionConstants DEF TicketItem, AgentItem, AttentionItem, AgentStates
      <3> QED BY <2>1, <3>1, <3>2 DEF AgentStates
    <2> QED BY <2>1, <2>2 DEF Unresolved
  <1>6. ASSUME NEW u \in behind, Waits(u)
        PROVE  \E b \in behind : Waits(b) /\ Size(b) < Size(u)
    <2>1. PICK b \in Blockers(u) : work[b].status # "done"
      BY <1>5, <1>6
    <2>2. u \in Works /\ b \in behind /\ b \in Works /\ ~Cause(b)
      BY <1>2, <2>1 DEF LeadsOn
    <2>3. TicketItem(b) # None /\ TicketItem(b) \in AttentionItems /\ assigned[b] \in AgentStates \cup {None}
      BY <2>1, <2>2, OpenIsQueued, TicketQueued DEF AttentionInv, Assignments
    <2>4. TicketItem(b).bucket # "recently-resolved"
      BY <2>1, <2>3 DEF TicketItem, AgentItem, PlainItem, AttentionItem, AgentStates
    <2>5. Waits(b)
      BY <2>2, <2>3, <2>4 DEF AttentionItems
    <2>6. /\ BehindOf(Blockers(u)) \subseteq Works /\ Blockers(u) \subseteq BehindOf(Blockers(u))
          /\ LeadsOn(BehindOf(Blockers(u)))
          /\ \A c \in SUBSET Works : Blockers(b) \subseteq c /\ LeadsOn(c) => BehindOf(Blockers(b)) \subseteq c
      BY <1>3, <2>2, BehindIsLeast
    <2>7. b \in BehindOf(Blockers(u)) /\ Blockers(b) \subseteq BehindOf(Blockers(u))
      BY <2>1, <2>6 DEF LeadsOn
    <2>8. BehindOf(Blockers(b)) \subseteq BehindOf(Blockers(u))
      BY <2>6, <2>7
    <2>9. b \notin BehindOf(Blockers(b))
      BY <2>2 DEF Circular
    <2>10. BehindOf(Blockers(b)) # BehindOf(Blockers(u))
      BY <2>7, <2>9
    <2>11. Size(b) < Size(u)
      <3> DEFINE less == BehindOf(Blockers(b))
                 more == BehindOf(Blockers(u))
      <3>1. IsFiniteSet(more) /\ less \subseteq more /\ less # more
        BY <1>4, <2>2, <2>8, <2>10
      <3>2. Size(b) = Cardinality(less) /\ Size(u) = Cardinality(more)
        OBVIOUS
      <3> HIDE DEF less, more, Size
      <3>3. Cardinality(less) < Cardinality(more)
        <4>1. Cardinality(less) <= Cardinality(more) /\ (Cardinality(less) = Cardinality(more) => less = more)
          BY <3>1, FS_Subset
        <4>2. Cardinality(less) \in Nat /\ Cardinality(more) \in Nat
          BY <3>1, FS_Subset, FS_CardinalityType
        <4> QED BY <3>1, <4>1, <4>2
      <3> QED BY <3>2, <3>3
    <2> QED BY <2>2, <2>5, <2>11
  <1> DEFINE sizes == {Size(u) : u \in {v \in behind : Waits(v)}}
  <1>7. sizes \subseteq Nat /\ sizes # {}
    BY <1>2, <1>4
  <1> HIDE DEF Size, Waits
  <1>8. PICK x \in sizes : \A y \in sizes : x <= y
    <2> HIDE DEF sizes
    <2> QED BY <1>7, LeastOf
  <1>9. PICK u \in behind : Waits(u) /\ Size(u) = x
    BY <1>8
  <1>10. PICK b \in behind : Waits(b) /\ Size(b) < Size(u)
    BY <1>6, <1>9
  <1>11. Size(b) \in sizes /\ Size(b) \in Nat /\ Size(u) \in Nat
    BY <1>2, <1>4, <1>10
  <1> QED BY <1>8, <1>9, <1>10, <1>11

LEMMA AttentionSafe ==
  ASSUME AttentionInv
  PROVE  AttentionTypeOK /\ OpenWorkIsQueued /\ WaitingHasCause /\ QueueHasAnOrder
  BY ItemsQueued, OpenIsQueued, WaitingCaused, QueueOrdered DEF AttentionInv, AttentionTypeOK, OpenWorkIsQueued

-----------------------------------------------------------------------------
(* Pages.                                                                  *)

LEMMA WorkspaceHolds == ScenesSpec => []WorkspaceInv
  <1>1. ScenesInit => WorkspaceInv
    BY WorkspaceStart DEF ScenesInit
  <1>2. WorkspaceInv /\ [ScenesNext]_scenesVars => WorkspaceInv'
    BY ScenesStep, WorkspaceStep
  <1> QED BY <1>1, <1>2, PTL DEF ScenesSpec

LEMMA SampleHolds == ScenesSpec => []SampleInv
  <1>1. ScenesInit => SampleInv
    BY SampleStart DEF ScenesInit
  <1>2. SampleInv /\ [ScenesNext]_scenesVars => SampleInv'
    BY ScenesStep, SampleStep
  <1> QED BY <1>1, <1>2, PTL DEF ScenesSpec

LEMMA AttentionHolds == ScenesSpec => []AttentionInv
  <1>1. ScenesInit => AttentionInv
    BY AttentionStart DEF ScenesInit
  <1>2. AttentionInv /\ [ScenesNext]_scenesVars => AttentionInv'
    BY ScenesStep, AttentionStep
  <1> QED BY <1>1, <1>2, PTL DEF ScenesSpec

\* A page that sends whole tickets takes no note away that someone else has added (App.tsx,
\* the ticket routes), unless two changes of that ticket had one time: otherwise a copy with the
\* time of the stored ticket has every note that is stored.
THEOREM NotesNeverLost == ScenesSpec => NotesStay
  <1>1. WorkspaceInv /\ [ScenesNext]_scenesVars => [NotesKept]_workspaceVars
    BY ScenesStep, WorkspaceStep
  <1> QED BY <1>1, WorkspaceHolds, PTL DEF ScenesSpec, NotesStay

\* A page at rest shows no ticket twice unless one render joined answers (App.tsx), a setup shown
\* as saved is the one that is
\* stored (routing-setup.ts), a sample is fictional whatever the storage holds
\* (sample-repository.ts), and the queue has all open work, with its cause, in an order
\* (attention-workspace.ts).
THEOREM PagesStayClean == ScenesSpec => []PagesAreClean
  <1>1. WorkspaceInv /\ GuidedInv /\ SampleInv /\ AttentionInv => PagesAreClean
    BY WorkspaceTyped, GuidedSafe, SampleIsSafe, AttentionSafe DEF PagesAreClean
  <1> QED BY <1>1, WorkspaceHolds, GuidedHold, SampleHolds, AttentionHolds, PTL

LEMMA RoutingTyped ==
  ASSUME RoutingInv
  PROVE  RoutingTypeOK
  <1>1. recommendation # None => recommendation.status \in {"exact-match", "no-match"}
    <2> SUFFICES ASSUME NEW p \in ModelRoutingPolicy, NEW wanted, PolicyIsValid(p), wanted # {}
                 PROVE  RecommendModelRoute(p, wanted).status \in {"exact-match", "no-match"}
      BY DEF RoutingInv, RecommendationIsMade
    <2> QED BY Recommended
  <1>2. draft \in ModelRoutingPolicy
    BY DEF RoutingInv, Resolving
  <1> QED BY <1>1, <1>2 DEF RoutingInv, RoutingTypeOK

LEMMA ProgressHolds == ScenesSpec => [](progress \subseteq Progress)
  <1>1. ScenesInit => progress \subseteq Progress
    BY DEF ScenesInit, LocalInit
  <1>2. [LocalNext]_localVars => progress' = progress
    BY DEF LocalNext, localVars, SeedingFails, CreateWork, AddWorkNote, AddDecisionLogEntry, AddArtifact,
           UpdateTicketStatus, ChangeWork, RecordRun, RecordDisposition, ImportTelemetry, RecordFails, DeleteWork,
           UpdateAgentState, IngestEmails
  <1>3. progress \subseteq Progress /\ [ScenesNext]_scenesVars => (progress \subseteq Progress)'
    BY <1>2, ScenesStep
  <1> QED BY <1>1, <1>3, PTL DEF ScenesSpec

LEMMA LocalTyped ==
  ASSUME LocalInv, progress \subseteq Progress
  PROVE  LocalTypeOK
  <1>1. \A i \in 1..Len(ledger) : EventTyped(ledger[i])
    BY LocalConstants DEF LocalInv, EventsExportable, Exportable, EventTyped
  <1> QED BY <1>1 DEF LocalInv, LocalTypeOK, Storage, EventTyped

\* The state of each part is of its type.
THEOREM ScenesTyped == ScenesSpec => []ScenesTypeOK
  <1>1. /\ Served /\ RoutingInv /\ ConnectionsInv /\ GuidedInv /\ WorkspaceInv
        /\ LocalInv /\ progress \subseteq Progress /\ SampleInv /\ AttentionInv
        /\ scene \in {"session", "policy", "connections", "guided", "workspace", "local", "sample", "attention"}
        => ScenesTypeOK
    BY RoutingTyped, WorkspaceTyped, LocalTyped, SampleIsSafe, AttentionSafe
    DEF ScenesTypeOK, Served, ConnectionsInv, GuidedInv
  <1>2. ScenesSpec => [](scene \in {"session", "policy", "connections", "guided", "workspace", "local", "sample", "attention"})
    <2> DEFINE OneScene ==
          scene \in {"session", "policy", "connections", "guided", "workspace", "local", "sample", "attention"}
    <2>1. ScenesInit => OneScene
      BY DEF ScenesInit
    <2>2. OneScene /\ [ScenesNext]_scenesVars => OneScene'
      BY DEF ScenesNext, scenesVars
    <2> HIDE DEF OneScene
    <2>3. ScenesSpec => []OneScene
      BY <2>1, <2>2, PTL DEF ScenesSpec
    <2> QED BY <2>3 DEF OneScene
  <1> QED BY <1>1, <1>2, SessionsHold, RoutingHolds, ConnectionsHold, GuidedHold, WorkspaceHolds, LocalHold,
             ProgressHolds, SampleHolds, AttentionHolds, PTL
=============================================================================
