----------------------------- MODULE GuidedRouting -----------------------------
(***************************************************************************)
(* The guided setup of routing: pages (GuidedRoutingSetup.tsx) save        *)
(* profiles into the operational policy of the companion, order them, have *)
(* them checked and migrate what the browser held before                   *)
(* (RoutingRepository).  A page makes one call at a time beside the read   *)
(* it opened with; its answer may arrive late or not at all.               *)
(*                                                                         *)
(* A configuration is an adapter, provider, model and effort together;     *)
(* names, capabilities and catalogs are left out.                          *)
(***************************************************************************)
EXTENDS Absence, Integers, SequencesExt

CONSTANTS
  Guides,          \* the pages
  PiModels,        \* configurations Pi can execute
  ByHand,          \* a configuration that is only recommended
  Forms,           \* what a form may hold: a configuration, and whether it is enabled and automatic
  GuideIds,        \* identifiers of profiles
  Unplaced,        \* the disabled route of the browser's policy, which has no place in its order
  Placed,          \* its other route
  MaxSetups        \* bound of the model: versions of the policy

VARIABLES
  setup,           \* the stored policy
  legacyRoutes,    \* the routes of the policy the browser held before
  migratedSetup,   \* what the migration of the browser's policy gave
  guides,          \* what a page shows: the policy, the profile saved last, a preview
  guideCalls,      \* calls of pages under way, of None once the page has given it up
  checked          \* history: the configurations a check found ready, by profile

guidedVars == <<setup, legacyRoutes, migratedSetup, guides, guideCalls, checked>>

-----------------------------------------------------------------------------
Modes == {"off", "recommend", "auto-exact"}   \* enabled and behavior
Configurations == PiModels \cup {ByHand}
ExecutionProfile == [config : Configurations, mode : Modes, readiness : {"unchecked", "ready", "unavailable"}]
Setup == [version : 0..MaxSetups, profiles : [GuideIds -> ExecutionProfile \cup {None}], order : Seq(GuideIds)]
Guide == [policy : Setup \cup {None}, saved : GuideIds \cup {None}, previewed : BOOLEAN]
GuideCall == [page : Guides \cup {None}, kind : {"open", "reload", "save", "move", "validate", "preview", "commit"},
              step : {"asked", "checking", "answered"}, sent : Setup \cup {None}, id : GuideIds \cup {None},
              outcome : {None, "ok", "conflict", "failed"}, answer : Setup \cup {None}]

ASSUME GuidedConstants ==
  /\ Placed \in GuideIds /\ Unplaced \in GuideIds /\ Placed # Unplaced
  /\ ByHand \notin PiModels /\ Forms \subseteq [config : Configurations, mode : Modes]
  /\ MaxSetups \in Nat \ {0}
  /\ None \notin ExecutionProfile /\ None \notin Setup /\ None \notin GuideIds /\ None \notin Guides

SetupVersion(p) == IF p = None THEN 0 ELSE p.version
ProfilesOf(p) == {id \in GuideIds : p.profiles[id] # None}
Base(p) == IF p # None THEN p ELSE [version |-> 0, profiles |-> [id \in GuideIds |-> None], order |-> << >>]

GuidedTypeOK ==
  /\ setup \in Setup \cup {None} /\ migratedSetup \in Setup \cup {None}
  /\ legacyRoutes \subseteq {Placed, Unplaced}
  /\ guides \in [Guides -> Guide] /\ guideCalls \subseteq GuideCall
  /\ checked \subseteq GuideIds \X PiModels

Ask(g, kind, sent, id) ==
  [page |-> g, kind |-> kind, step |-> "asked", sent |-> sent, id |-> id, outcome |-> None, answer |-> None]

GuidedInit ==
  /\ legacyRoutes \in {{Placed}, {Placed, Unplaced}}
  /\ setup = None /\ migratedSetup = None /\ checked = {}
  /\ guides = [g \in Guides |-> [policy |-> None, saved |-> None, previewed |-> FALSE]]
  /\ guideCalls = {Ask(g, "open", None, None) : g \in Guides}

-----------------------------------------------------------------------------
(* A page.                                                                 *)
Busy(g) == \E c \in guideCalls : c.page = g /\ c.kind # "open"
AsksCompanion(g, kind, sent, id) ==
  /\ ~Busy(g) /\ guideCalls' = guideCalls \cup {Ask(g, kind, sent, id)}
  /\ UNCHANGED <<setup, legacyRoutes, migratedSetup, guides, checked>>

\* buildProfile() keeps a readiness only for the configuration it was found for.
KeptReadiness(existing, config) ==
  IF existing # None /\ existing.config = config THEN existing.readiness ELSE "unchecked"
BuildProfile(existing, config, mode) ==
  [config |-> config, readiness |-> KeptReadiness(existing, config),
   mode |-> IF config = ByHand /\ mode = "auto-exact" THEN "recommend" ELSE mode]

\* Pages give a profile its place in the order as its fallback order, and that of one without a
\* place is -1: neither the page nor the companion accepts it.
EveryProfileIsPlaced(p) == ProfilesOf(p) \subseteq ToSet(p.order)

\* Identifiers no policy has seen: safeId() draws them at random.
Used ==
  UNION {IF p = None THEN {} ELSE ProfilesOf(p) : p \in {setup, migratedSetup} \cup {guides[g].policy : g \in Guides}
           \cup {c.sent : c \in guideCalls} \cup {c.answer : c \in guideCalls}}
    \cup {Unplaced, Placed}

\* saveProfile(), with what the form holds.  The profile saved last is written again as long
\* as the policy on show has it; otherwise the profile is a new one.
SaveProfile(g, config, mode) ==
  LET base == Base(guides[g].policy)
      selected == guides[g].saved
      existing == IF selected = None THEN None ELSE base.profiles[selected]
  IN \E id \in IF existing # None THEN {selected} ELSE GuideIds \ Used :
       LET next == [base EXCEPT !.profiles[id] = BuildProfile(existing, config, mode),
                                !.order = IF existing # None THEN @ ELSE Append(@, id)]
       IN EveryProfileIsPlaced(next) /\ AsksCompanion(g, "save", next, id)

\* moveProfile(): the profile at i towards the front, or the one before it towards the end.
MoveProfile(g, i) ==
  LET p == guides[g].policy IN
  /\ p # None /\ i \in 2..Len(p.order)
  /\ AsksCompanion(g, "move", [p EXCEPT !.order = [@ EXCEPT ![i] = p.order[i - 1], ![i - 1] = p.order[i]]], None)

ValidateConnection(g) ==
  /\ guides[g].saved # None /\ guides[g].policy # None
  /\ AsksCompanion(g, "validate", guides[g].policy, guides[g].saved)

\* The browser's policy as an operational one: nothing in it is automatic or ready.
Legacy ==
  [version |-> 0, order |-> <<Placed>>,
   profiles |-> [id \in GuideIds |->
     IF id \notin legacyRoutes THEN None
     ELSE [config |-> ByHand, mode |-> IF id = Placed THEN "recommend" ELSE "off", readiness |-> "unchecked"]]]
PreviewMigration(g) ==
  guides[g].policy = None /\ ~guides[g].previewed /\ AsksCompanion(g, "preview", Legacy, None)
ConfirmMigration(g) ==
  guides[g].policy = None /\ guides[g].previewed /\ AsksCompanion(g, "commit", Legacy, None)

\* chooseExistingProfile(): it is open while a call is under way.
ChooseExistingProfile(g, id) ==
  /\ guides[g].policy # None /\ guides[g].policy.profiles[id] # None
  /\ guides' = [guides EXCEPT ![g].saved = id]
  /\ UNCHANGED <<setup, legacyRoutes, migratedSetup, guideCalls, checked>>

\* What an answer does to the page.  After a conflict it reads the policy again.
ShowPolicy(c) ==
  IF c.kind \notin {"open", "reload"} /\ c.outcome # "ok" THEN guides[c.page]
  ELSE [policy |-> IF c.kind = "preview" THEN guides[c.page].policy ELSE c.answer,
        saved |-> IF c.kind = "save" THEN c.id ELSE guides[c.page].saved,
        previewed |-> IF c.kind \in {"preview", "commit"} THEN c.kind = "preview" ELSE guides[c.page].previewed]
ReceiveSetup(c) ==
  /\ c \in guideCalls /\ c.step = "answered"
  /\ guides' = [guides EXCEPT ![c.page] = ShowPolicy(c)]
  /\ guideCalls' = (guideCalls \ {c}) \cup
       {d \in {Ask(c.page, "reload", None, None)} : c.outcome = "conflict" /\ c.kind # "commit"}
  /\ UNCHANGED <<setup, legacyRoutes, migratedSetup, checked>>

\* The connection fails: the page goes on, and so does the companion with what it was sent.
\* A page whose first read fails shows that there is no policy, whatever it saved meanwhile.
GiveUp(c) ==
  /\ c \in guideCalls /\ c.page # None
  /\ guides' = IF c.kind = "open" THEN [guides EXCEPT ![c.page].policy = None] ELSE guides
  /\ guideCalls' = (guideCalls \ {c}) \cup
       {d \in {[c EXCEPT !.page = None]} : c.step # "answered" /\ c.kind \notin {"open", "reload", "preview"}}
  /\ UNCHANGED <<setup, legacyRoutes, migratedSetup, checked>>

-----------------------------------------------------------------------------
(* The companion.                                                          *)
AnsweredGuide(c, outcome, answer) ==
  guideCalls' = (guideCalls \ {c}) \cup
    {d \in {[c EXCEPT !.step = "answered", !.outcome = outcome, !.answer = answer]} : c.page # None}

AnswerPolicy(c) ==
  /\ c.kind \in {"open", "reload"} /\ c.step = "asked" /\ AnsweredGuide(c, "ok", setup)
  /\ UNCHANGED <<setup, legacyRoutes, migratedSetup, guides, checked>>

\* validateOperationalPolicyForCompanion()
ValidSetup(p) ==
  /\ IsInjective(p.order) /\ ToSet(p.order) \subseteq ProfilesOf(p)
  /\ \A id \in ProfilesOf(p) : /\ p.profiles[id].mode # "off" => id \in ToSet(p.order)
                               /\ p.profiles[id].readiness = "ready" => p.profiles[id].config # ByHand

\* The version that was edited or checked is still the current one.
IsCurrent(expected) == expected = SetupVersion(setup)

\* compareAndSetPolicy()
CompareAndSetPolicy(c, next, expected) ==
  IF ~IsCurrent(expected) THEN AnsweredGuide(c, "conflict", None) /\ UNCHANGED setup
  ELSE LET stored == [next EXCEPT !.version = SetupVersion(setup) + 1] IN
       setup' = stored /\ AnsweredGuide(c, "ok", stored)

PutPolicy(c) ==
  /\ c.kind \in {"save", "move"} /\ c.step = "asked" /\ SetupVersion(setup) < MaxSetups
  /\ IF ValidSetup(c.sent) /\ EveryProfileIsPlaced(c.sent) THEN CompareAndSetPolicy(c, c.sent, c.sent.version)
     ELSE AnsweredGuide(c, "failed", None) /\ UNCHANGED setup
  /\ UNCHANGED <<legacyRoutes, migratedSetup, guides, checked>>

\* A check reads the profile and asks the tool for its models.
StartCheck(c) ==
  /\ c.kind = "validate" /\ c.step = "asked"
  /\ IF setup = None \/ (setup # None /\ setup.profiles[c.id] = None) THEN AnsweredGuide(c, "failed", None)
     ELSE guideCalls' = (guideCalls \ {c}) \cup
            {[c EXCEPT !.step = "checking", !.answer = setup]}   \* the policy that was read
  /\ UNCHANGED <<setup, legacyRoutes, migratedSetup, guides, checked>>

\* applyReadiness(), of the profile that was read, to the policy as it is then.
ApplyReadiness(c, readiness) ==
  IF setup = None \/ (setup # None /\ ~IsCurrent(c.sent.version)) THEN AnsweredGuide(c, "conflict", None) /\ UNCHANGED setup
  ELSE IF setup.profiles[c.id] = None THEN AnsweredGuide(c, "failed", None) /\ UNCHANGED setup
  ELSE CompareAndSetPolicy(c, [setup EXCEPT !.profiles[c.id].readiness = readiness], c.sent.version)

FinishCheck(c, found) ==
  /\ c.kind = "validate" /\ c.step = "checking" /\ SetupVersion(setup) < MaxSetups
  /\ LET config == c.answer.profiles[c.id].config
         ready == found /\ config # ByHand
     IN /\ ApplyReadiness(c, IF ready THEN "ready" ELSE "unavailable")
        /\ checked' = checked \cup {x \in {<<c.id, config>>} : ready}
  /\ UNCHANGED <<legacyRoutes, migratedSetup, guides>>

AnswerPreview(c) ==
  /\ c.kind = "preview" /\ c.step = "asked"
  /\ AnsweredGuide(c, IF ValidSetup(c.sent) THEN "ok" ELSE "failed", None)
  /\ UNCHANGED <<setup, legacyRoutes, migratedSetup, guides, checked>>

\* commitMigration(): once migrated, the result is repeated as it was, whatever has been
\* saved since.
CommitSetup(c) ==
  /\ c.kind = "commit" /\ c.step = "asked"
  /\ IF migratedSetup # None THEN AnsweredGuide(c, "ok", migratedSetup) /\ UNCHANGED <<setup, migratedSetup>>
     ELSE IF setup # None THEN AnsweredGuide(c, "conflict", None) /\ UNCHANGED <<setup, migratedSetup>>
     ELSE LET stored == [c.sent EXCEPT !.version = 1] IN
          setup' = stored /\ migratedSetup' = stored /\ AnsweredGuide(c, "ok", stored)
  /\ UNCHANGED <<legacyRoutes, guides, checked>>

-----------------------------------------------------------------------------
GuidedNext ==
  \/ \E g \in Guides :
       \/ \E form \in Forms : SaveProfile(g, form.config, form.mode)
       \/ \E i \in 2..Cardinality(GuideIds) : MoveProfile(g, i)
       \/ ValidateConnection(g) \/ PreviewMigration(g) \/ ConfirmMigration(g)
       \/ \E id \in GuideIds : ChooseExistingProfile(g, id)
  \/ \E c \in guideCalls :
       \/ AnswerPolicy(c) \/ PutPolicy(c) \/ StartCheck(c) \/ AnswerPreview(c) \/ CommitSetup(c) \/ ReceiveSetup(c) \/ GiveUp(c)
       \/ \E found \in BOOLEAN : FinishCheck(c, found)

-----------------------------------------------------------------------------
(* Properties.                                                             *)

\* A profile is only called ready in a configuration that a check of this profile found
\* ready, however its configuration was edited back and forth by pages while the tool was
\* asked (buildProfile(), applyReadiness()).
ReadyWasChecked ==
  setup # None => \A id \in ProfilesOf(setup) :
    setup.profiles[id].readiness = "ready" => <<id, setup.profiles[id].config>> \in checked

\* Saves, moves, checks and migrations of several pages lose no profile, change one at the
\* most, and leave no place empty: nobody writes over what another page saved since.
SetupStays ==
  setup # None => \/ setup' = setup
                  \/ /\ setup'.version = setup.version + 1
                     /\ ProfilesOf(setup) \subseteq ProfilesOf(setup')
                     /\ ToSet(setup.order) \subseteq ToSet(setup'.order)
                     /\ Cardinality({id \in GuideIds : setup'.profiles[id] # setup.profiles[id]}) <= 1

\* A version names one policy: what a page at rest shows under the current version is the
\* current policy, whichever answers came late.
VersionNamesPolicy ==
  \A g \in Guides : SetupVersion(guides[g].policy) = SetupVersion(setup) => guides[g].policy = setup

\* What is enabled has a place in the order, each place names a profile, and nothing that is
\* done by hand is automatic.
SetupIsOrdered ==
  setup # None =>
    /\ ValidSetup(setup)
    /\ \A id \in ProfilesOf(setup) : setup.profiles[id].mode = "auto-exact" => setup.profiles[id].config # ByHand
=============================================================================
