-------------------------------- MODULE Installation --------------------------------
(***************************************************************************)
(* The database on a person's computer: the companions that open it and    *)
(* bring it to the present schema, and the desktop program that            *)
(* adopts what an earlier one left.                                        *)
(***************************************************************************)
EXTENDS Absence, Naturals

CONSTANTS
  Companions,     \* processes that serve the data; Adopter opens it too
  Adopter,
  Latest          \* the present schema

ASSUME LatestIsVersion == Latest \in Nat \ {0}

VARIABLES
  database,  \* its schema version, the migrations its tables have seen and whether it is sound
  copies,    \* the copies made before a migration and before an adoption
  openers,   \* for each process its step and the version it goes on from
  port,      \* the companion that listens, "stranger", or None
  adoption,  \* the desktop's step, and what it saw of the database
  receipt    \* what was adopted, or None

schemaVars == <<database, copies, openers, port, adoption, receipt>>

Openers == Companions \cup {Adopter}
Versions == 0..Latest + 1
Database(version, applied, sound) == [version |-> version, applied |-> applied, sound |-> sound]
Fit(d) == d.sound /\ d.version <= Latest

ASSUME NoneIsNoDatabase ==
  /\ None \notin [version : Versions, applied : SUBSET (1..Latest), sound : BOOLEAN]
  /\ None \notin [database : BOOLEAN] /\ Adopter \notin Companions

SchemaInit ==
  /\ database \in {None, Database(Latest + 1, 1..Latest, TRUE), Database(Latest, 1..Latest, FALSE)}
                    \cup {Database(v, 1..v, TRUE) : v \in 1..Latest}
  /\ copies = [migration |-> None, adoption |-> None]
  /\ openers = [o \in Openers |-> [step |-> "idle", from |-> 0]]
  /\ port \in {None, "stranger"}
  /\ adoption = [step |-> "idle", saw |-> None] /\ receipt = None

-----------------------------------------------------------------------------
(* Opening the database.  What one process does at once another may do     *)
(* between two of its transactions.                                        *)
StepTo(o, step) == openers' = [openers EXCEPT ![o].step = step]

\* The port is looked at first: one in use is the end of the start.
ProbePort(c) ==
  /\ openers[c].step = "idle" /\ port = None /\ StepTo(c, "probed")
  /\ UNCHANGED <<database, copies, port, adoption, receipt>>

\* A companion copies the database as it is, sound or not, over the copy of its last start.
CopyDatabase(c) ==
  /\ openers[c].step = "probed" /\ StepTo(c, "copied")
  /\ copies' = IF database = None THEN copies ELSE [copies EXCEPT !.migration = database]
  /\ UNCHANGED <<database, port, adoption, receipt>>

\* An unsound or newer database is left; the version read here is the one migrated from.
ReadVersion(o) ==
  /\ openers[o].step = "copied"
  /\ IF database # None /\ ~Fit(database) THEN StepTo(o, "failed") /\ UNCHANGED database
     ELSE /\ database' = IF database = None THEN Database(0, {}, TRUE) ELSE database
          /\ openers' = [openers EXCEPT ![o] = [step |-> "migrating", from |-> database'.version]]
  /\ UNCHANGED <<copies, port, adoption, receipt>>

\* Each migration and the version it leads to are one transaction, that may be refused.
Migrate(o) ==
  LET next == openers[o].from + 1 IN
  /\ openers[o].step = "migrating" /\ openers[o].from < Latest
  /\ \/ /\ database' = [database EXCEPT !.version = next, !.applied = @ \cup {next}]
        /\ openers' = [openers EXCEPT ![o].from = next]
     \/ StepTo(o, "failed") /\ UNCHANGED database
  /\ UNCHANGED <<copies, port, adoption, receipt>>

\* What was running when the database was left is now interrupted.
FinishOpening(o) ==
  /\ openers[o].step = "migrating" /\ openers[o].from = Latest /\ StepTo(o, "open")
  /\ UNCHANGED <<database, copies, port, adoption, receipt>>

\* The port may have been taken since.
Listen(c) ==
  /\ openers[c].step = "open"
  /\ IF port = None THEN port' = c /\ StepTo(c, "listening") ELSE StepTo(c, "failed") /\ UNCHANGED port
  /\ UNCHANGED <<database, copies, adoption, receipt>>

LeaveDatabase(c) ==
  /\ openers[c].step # "idle" /\ StepTo(c, "idle")
  /\ port' = IF port = c THEN None ELSE port
  /\ UNCHANGED <<database, copies, adoption, receipt>>

-----------------------------------------------------------------------------
(* Adoption.                                                               *)
\* A listener of the own protocol is to be stopped first, any other, or a database that is not
\* fit, is the end; without the need of a migration the receipt is all there is to write.
AdoptionState(listener) ==
  IF (database # None /\ ~Fit(database)) \/ listener = "stranger" THEN "blocked"
  ELSE IF listener \in Companions THEN "requires-stop"
  ELSE IF receipt # None THEN "already-adopted"
  ELSE IF database = None THEN "fresh" ELSE "ready"
BackupRequired == database # None /\ database.version < Latest

\* A listener that does not answer in time is unknown.
InspectForAdoption(answered) ==
  LET state == AdoptionState(IF port # None /\ ~answered THEN "stranger" ELSE port) IN
  /\ adoption.step = "idle"
  /\ adoption' = [step |-> IF state \notin {"ready", "fresh"} THEN "idle"
                           ELSE IF BackupRequired THEN "copying" ELSE "recording",
                  saw |-> IF state \in {"ready", "fresh"} THEN database ELSE None]
  /\ UNCHANGED <<database, copies, openers, port, receipt>>

CopyForAdoption ==
  /\ adoption.step = "copying" /\ adoption' = [adoption EXCEPT !.step = "migrating"]
  /\ copies' = [copies EXCEPT !.adoption = database] /\ StepTo(Adopter, "copied")
  /\ UNCHANGED <<database, port, receipt>>

\* A migration that failed leaves no receipt.
FinishMigration ==
  /\ adoption.step = "migrating" /\ openers[Adopter].step \in {"open", "failed"}
  /\ StepTo(Adopter, "idle")
  /\ adoption' = IF openers[Adopter].step = "open" THEN [adoption EXCEPT !.step = "recording"]
                 ELSE [step |-> "idle", saw |-> None]
  /\ UNCHANGED <<database, copies, port, receipt>>

RecordAdoption ==
  /\ adoption.step = "recording" /\ adoption' = [step |-> "idle", saw |-> None]
  /\ receipt' = [database |-> adoption.saw # None]
  /\ UNCHANGED <<database, copies, openers, port>>

AdoptionEnds ==
  /\ adoption.step # "idle" /\ adoption' = [step |-> "idle", saw |-> None] /\ StepTo(Adopter, "idle")
  /\ UNCHANGED <<database, copies, port, receipt>>

SchemaNext ==
  \/ \E c \in Companions : ProbePort(c) \/ CopyDatabase(c) \/ Listen(c) \/ LeaveDatabase(c)
  \/ \E o \in Openers : ReadVersion(o) \/ Migrate(o) \/ FinishOpening(o)
  \/ \E answered \in BOOLEAN : InspectForAdoption(answered)
  \/ CopyForAdoption \/ FinishMigration \/ RecordAdoption \/ AdoptionEnds

SchemaSpec == SchemaInit /\ [][SchemaNext]_schemaVars

SchemaTypeOK ==
  /\ database # None => database.version \in Versions /\ database.applied \subseteq 1..Latest
  /\ \A o \in Openers : openers[o].step \in {"idle", "probed", "copied", "migrating", "open", "listening", "failed"}
  /\ adoption.step \in {"idle", "copying", "migrating", "recording"}
  /\ port # None => port = "stranger" \/ openers[port].step = "listening"

-----------------------------------------------------------------------------
(* Properties of the schema.                                               *)
\* The tables have seen every migration up to the version written, and who works on them all of
\* them, also when another process wrote an older version back meanwhile.
SchemaIsWhole ==
  /\ database # None => 1..database.version \cap 1..Latest \subseteq database.applied
  /\ \A o \in Openers : openers[o].step \in {"open", "listening"} => 1..Latest = database.applied

\* What was adopted has the present schema, and the copy made before is of an earlier one.
AdoptedIsMigrated ==
  /\ receipt # None /\ receipt.database => database.applied = 1..Latest
  /\ copies.adoption # None => Fit(copies.adoption)

\* A database that is damaged, or of a later program, is left as it is.
UnfitIsLeft == database # None /\ ~Fit(database) => database' = database
=============================================================================
