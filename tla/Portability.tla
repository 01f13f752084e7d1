-------------------------------- MODULE Portability --------------------------------
(***************************************************************************)
(* Moving work between companions: bundles that are exported, previewed    *)
(* and imported, and the migration of the tickets an earlier version left  *)
(* in a browser.  Tickets change between a preview and its commit.         *)
(***************************************************************************)
EXTENDS Absence, Naturals, Sequences, SequencesExt, FiniteSets

CONSTANTS
  PortIds,        \* ids of tickets
  LegacyIds,      \* those of tickets in the browser's storage
  CommitKeys,     \* idempotency keys of commits
  OtherBundles,   \* bundles of other companions, and files that are none
  MaxPlans, MaxReceipts

VARIABLES
  kept,           \* the tickets of the companion
  routed,         \* it has a routing policy
  files,          \* the bundles there are to import
  plans,          \* the previewed imports, oldest first
  receipts,       \* the receipts of commits by their keys, oldest first
  legacy,         \* the tickets in the browser's storage
  offered,        \* those a page has previewed, None before
  linkedLegacy,   \* those a ticket of the companion comes from
  migration       \* what the migration kept of its first commit

portabilityVars == <<kept, routed, files, plans, receipts, legacy, offered, linkedLegacy, migration>>
bundleVars == <<files, plans, receipts>>
legacyVars == <<legacy, offered, linkedLegacy, migration>>

ImportCategories == {"tickets-work", "routing-policy"}
ExportOnly == {"decisions-receipts", "model-usage", "email-metadata"}

\* `done` is the completion time a ticket has, or not.
Ported(id, text, origin, done) == [id |-> id, text |-> text, origin |-> origin, done |-> done]

\* `sound`: the profile, the versions and every key and value may be read.  An entry of the
\* list is a ticket, or None for what lacks an id or a date.
Bundle(has, entries) ==
  [has |-> has, sound |-> TRUE, isList |-> TRUE, entries |-> entries, policySound |-> TRUE]

\* The tickets there may be, and the bundles.
PortedRecords(ids) ==
  [id : ids, text : {1, 2}, origin : {"browser-ui", "demo", "imported"}, done : BOOLEAN]
Bundles ==
  [has : SUBSET (ImportCategories \cup ExportOnly), sound : BOOLEAN, isList : BOOLEAN,
   entries : Seq(PortedRecords(PortIds) \cup {None}), policySound : BOOLEAN]

ASSUME PortabilityConstants ==
  /\ IsFiniteSet(PortIds) /\ LegacyIds \subseteq PortIds
  /\ OtherBundles \subseteq Bundles
  /\ None \notin PortedRecords({None}) \cup PortedRecords(PortIds)
  /\ MaxPlans \in Nat \ {0} /\ MaxReceipts \in Nat

PortabilityInit ==
  /\ kept \in [PortIds -> {None} \cup {Ported(None, 1, origin, FALSE) : origin \in {"browser-ui", "demo"}}]
  /\ routed \in BOOLEAN
  /\ files = OtherBundles
  /\ plans = << >> /\ receipts = << >>
  /\ legacy \in [LegacyIds -> {None, "sound", "private"}]
  /\ offered = None /\ linkedLegacy = {} /\ migration = None

-----------------------------------------------------------------------------
(* Exporting.                                                              *)
\* Sample tickets stay; where there is no policy, none is written.
Operational == {id \in PortIds : kept[id] # None /\ kept[id].origin # "demo"}
ExportedEntries ==
  LET ids == SetToSeq(Operational)
  IN [i \in 1..Len(ids) |-> [kept[ids[i]] EXCEPT !.id = ids[i]]]

CreateBundle(categories) ==
  /\ files' = files \cup
       {[Bundle(categories, IF "tickets-work" \in categories THEN ExportedEntries ELSE << >>)
           EXCEPT !.policySound = routed]}
  /\ UNCHANGED <<kept, routed, plans, receipts>> /\ UNCHANGED legacyVars

-----------------------------------------------------------------------------
(* Importing.                                                              *)
\* What is stored of an entry: it is imported, and its completion is not taken over.
StoredEntry(entry) == Ported(None, entry.text, "imported", FALSE)

NoCounts == [added |-> 0, skipped |-> 0, conflicts |-> 0, excluded |-> 0, failed |-> 0]
Counted(counts, what) == [counts EXCEPT ![what] = @ + 1]

\* How an entry is counted against the tickets there are.
Class(tickets, entry) ==
  CASE entry = None -> "excluded"
    [] entry # None /\ tickets[entry.id] = None -> "added"
    [] entry # None /\ tickets[entry.id] = [entry EXCEPT !.id = None, !.origin = "imported"] -> "skipped"
    [] OTHER -> "conflicts"

\* A preview counts every entry against what is there before.
PreviewTickets(bundle) ==
  IF ~bundle.isList THEN [NoCounts EXCEPT !.failed = 1]
  ELSE FoldLeft(LAMBDA counts, entry : Counted(counts, Class(kept, entry)), NoCounts, bundle.entries)

PreviewPolicy(bundle) ==
  Counted(NoCounts, CASE ~bundle.policySound -> "failed"
                      [] bundle.policySound /\ routed -> "conflicts"
                      [] OTHER -> "added")

Live(plan) == ~plan.used /\ ~plan.expired
LivePlans(all) == FoldLeft(LAMBDA live, plan : IF Live(plan) THEN Append(live, plan) ELSE live, << >>, all)
PrunedPlans(all) ==
  LET live == LivePlans(all)
  IN IF Len(live) < MaxPlans THEN live ELSE SubSeq(live, Len(live) - MaxPlans + 2, Len(live))

PreviewImport(bundle) ==
  /\ plans' = IF bundle.sound
                THEN Append(PrunedPlans(plans),
                            [bundle |-> bundle, tickets |-> PreviewTickets(bundle),
                             policy |-> PreviewPolicy(bundle), used |-> FALSE, expired |-> FALSE])
                ELSE PrunedPlans(plans)
  /\ UNCHANGED <<kept, routed, files, receipts>> /\ UNCHANGED legacyVars

\* Entries are taken one by one; what is there is never replaced.
TakeEntry(result, entry) ==
  LET class == Class(result.tickets, entry)
  IN [tickets |-> IF class = "added" THEN [result.tickets EXCEPT ![entry.id] = StoredEntry(entry)]
                  ELSE result.tickets,
      counts |-> Counted(result.counts, class)]
ImportTickets(plan) ==
  FoldLeft(TakeEntry, [tickets |-> kept, counts |-> NoCounts], plan.bundle.entries)

ImportPolicy(plan) ==
  Counted(NoCounts, CASE routed -> "conflicts"
                      [] ~routed /\ plan.bundle.policySound -> "added"
                      [] OTHER -> "failed")

\* The receipt a key has; a repeated commit is answered with it.
ReceiptOf(key) == {r \in Range(receipts) : r.key = key}

\* A list that is none throws, after the categories before it were imported.
CommitThrows(categories, plan) ==
  "tickets-work" \in categories /\ "tickets-work" \in plan.bundle.has /\ ~plan.bundle.isList

Receipt(key, tickets, policy, missing) ==
  LET failed == missing # {} \/ policy.failed > 0
      added == tickets.added + policy.added
      partial == failed \/ tickets.conflicts + tickets.excluded + policy.conflicts > 0
  IN [key |-> key, tickets |-> tickets, policy |-> policy,
      outcome |-> CASE failed /\ added = 0 -> "failed" [] partial /\ ~(failed /\ added = 0) -> "partial"
                    [] OTHER -> "complete"]

Remembered(receipt) ==
  LET all == Append(receipts, receipt)
  IN IF Len(all) > MaxReceipts THEN Tail(all) ELSE all

\* Categories are imported in the order they are asked for: the policy may come first.
CommitImport(i, key, categories, policyFirst) ==
  LET plan == plans[i]
      takesTickets == "tickets-work" \in categories \cap plan.bundle.has
      takesPolicy == "routing-policy" \in categories \cap plan.bundle.has
      tickets == IF takesTickets THEN ImportTickets(plan) ELSE [tickets |-> kept, counts |-> NoCounts]
      policy == IF takesPolicy THEN ImportPolicy(plan) ELSE NoCounts
  IN /\ ReceiptOf(key) = {} /\ Live(plan) /\ categories # {}
     /\ policyFirst => ImportCategories \subseteq categories
     /\ routed' = (routed \/ (policy.added > 0 /\ (CommitThrows(categories, plan) => policyFirst)))
     /\ IF CommitThrows(categories, plan)
          THEN /\ plans' = LivePlans(plans)
               /\ UNCHANGED <<kept, receipts>>
          ELSE /\ plans' = LivePlans([plans EXCEPT ![i].used = TRUE])
               /\ kept' = tickets.tickets
               /\ receipts' = Remembered(Receipt(key, tickets.counts, policy,
                                                 (categories \ plan.bundle.has) \cup (categories \cap ExportOnly)))
     /\ UNCHANGED files /\ UNCHANGED legacyVars

-----------------------------------------------------------------------------
(* The migration of a browser's tickets.                                   *)
PreviewMigration ==
  /\ offered' = legacy
  /\ UNCHANGED <<kept, routed, legacy, linkedLegacy, migration>> /\ UNCHANGED bundleVars

Sound(l) == offered[l] = "sound"
Eligible == {l \in LegacyIds : Sound(l) /\ l \notin linkedLegacy /\ kept[l] = None}

\* The browser's one key answers every later commit with the first result.
CommitMigration ==
  /\ offered # None
  /\ IF migration # None THEN UNCHANGED <<kept, linkedLegacy, migration>>
     ELSE /\ kept' = [id \in PortIds |-> IF id \in Eligible THEN Ported(None, 1, "imported", FALSE) ELSE kept[id]]
          /\ linkedLegacy' = linkedLegacy \cup Eligible
          /\ migration' = Cardinality(Eligible)
  /\ UNCHANGED <<routed, legacy, offered>> /\ UNCHANGED bundleVars

-----------------------------------------------------------------------------
(* Everything else.                                                        *)
PlanExpires(i) ==
  /\ ~plans[i].expired
  /\ plans' = [j \in 1..Len(plans) |-> IF j <= i THEN [plans[j] EXCEPT !.expired = TRUE] ELSE plans[j]]
  /\ UNCHANGED <<kept, routed, files, receipts>> /\ UNCHANGED legacyVars

\* Plans and receipts are in memory only.
ForgetPlans ==
  /\ plans' = << >> /\ receipts' = << >>
  /\ UNCHANGED <<kept, routed, files>> /\ UNCHANGED legacyVars

PersonWrites(id) ==
  /\ kept' = [kept EXCEPT ![id] = Ported(None, 2, IF @ = None THEN "browser-ui" ELSE @.origin, TRUE)]
  /\ UNCHANGED routed /\ UNCHANGED bundleVars /\ UNCHANGED legacyVars

\* A deleted ticket takes its link along.
PersonDeletes(id) ==
  /\ kept[id] # None
  /\ kept' = [kept EXCEPT ![id] = None] /\ linkedLegacy' = linkedLegacy \ {id}
  /\ UNCHANGED <<routed, legacy, offered, migration>> /\ UNCHANGED bundleVars

DataRequests ==
  \/ \E categories \in SUBSET ImportCategories \ {{}} : CreateBundle(categories)
  \/ \E bundle \in files : PreviewImport(bundle)
  \/ \E i \in 1..Len(plans), key \in CommitKeys, policyFirst \in BOOLEAN,
       categories \in (SUBSET ImportCategories) \cup {{"tickets-work", "model-usage"}} :
       CommitImport(i, key, categories, policyFirst)

PortabilityNext ==
  \/ DataRequests
  \/ PreviewMigration \/ CommitMigration
  \/ \E i \in 1..Len(plans) : PlanExpires(i)
  \/ ForgetPlans
  \/ \E id \in PortIds : PersonWrites(id) \/ PersonDeletes(id)

PortabilityTypeOK ==
  /\ \A id \in PortIds : kept[id] # None =>
       kept[id].origin \in {"browser-ui", "demo", "imported"} /\ kept[id].done \in BOOLEAN
  /\ Len(plans) <= MaxPlans /\ Len(receipts) <= MaxReceipts
  /\ linkedLegacy \subseteq {l \in LegacyIds : kept[l] # None}

-----------------------------------------------------------------------------
(* Properties.                                                             *)
\* Whatever was previewed when, an import or a migration adds what is not there and changes
\* nothing that is, and its receipt counts exactly what it added.
ImportKeepsAndCounts ==
  LET new == {id \in PortIds : kept[id] = None /\ kept'[id] # None}
      told == receipts' # receipts /\ receipts' # << >>
  IN /\ told \/ migration' # migration \/ plans' # plans =>
          \A id \in PortIds : kept[id] # None => kept'[id] = kept[id]
     /\ told => receipts'[Len(receipts')].tickets.added = Cardinality(new)
     /\ told /\ receipts'[Len(receipts')].outcome = "complete" => \A id \in new : kept'[id].origin = "imported"
=============================================================================
