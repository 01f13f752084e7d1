---------------------------- MODULE ServicesProofs ----------------------------
(***************************************************************************)
(* Theorems about services of the companion (MCServices): the schema of    *)
(* its database, the connection of mail, the folders, the runs over the    *)
(* sources, what is left when it is removed and the moving of work between *)
(* companions, for any number of each, any contents and any limits, and    *)
(* about the twelve services together.                                     *)
(*                                                                         *)
(* Each service has an inductive invariant of its own, here or in          *)
(* AgentServicesProofs; a behaviour is one of one service while the others *)
(* rest, so each is one of the services together.                          *)
(***************************************************************************)
EXTENDS MCServices, AgentServicesProofs

-----------------------------------------------------------------------------
(* The schema of the database.                                             *)
Steps == {"idle", "probed", "copied", "migrating", "open", "listening", "failed"}
DatabaseRecord == [version : Versions, applied : SUBSET (1..Latest), sound : BOOLEAN]

\* The rows of the model, with the domains SchemaTypeOK leaves out.
SchemaTyped ==
  /\ database = None \/ database \in DatabaseRecord
  /\ copies.adoption = None \/ copies.adoption \in DatabaseRecord
  /\ copies = [migration |-> copies.migration, adoption |-> copies.adoption]
  /\ openers \in [Openers -> [step : Steps, from : 0..Latest]]
  /\ adoption = [step |-> adoption.step, saw |-> adoption.saw]
  /\ adoption.step \in {"idle", "copying", "migrating", "recording"}
  /\ receipt = None \/ receipt \in [database : BOOLEAN]

\* A process that works on the database has found it fit and applied what it counted.
WorkedOn ==
  /\ database # None => 1..database.version \cap 1..Latest \subseteq database.applied
  /\ \A o \in Openers : openers[o].step \in {"migrating", "open", "listening"} =>
       /\ database # None /\ Fit(database)
       /\ 1..openers[o].from \subseteq database.applied
       /\ openers[o].step # "migrating" => openers[o].from = Latest

\* An adoption goes on with a fit database, and records one of the present schema.
AdoptionFits ==
  /\ adoption.step = "copying" => database # None /\ Fit(database)
  /\ adoption.step = "recording" /\ adoption.saw # None =>
       database # None /\ 1..Latest \subseteq database.applied
  /\ receipt # None /\ receipt.database => database # None /\ 1..Latest \subseteq database.applied
  /\ copies.adoption # None => Fit(copies.adoption)

\* The inductive invariant.
Whole == SchemaTyped /\ WorkedOn /\ AdoptionFits

\* What a step may do to the database: nothing, create it, or one migration of a fit one.
DatabaseStep ==
  \/ database' = database
  \/ database = None /\ database' = Database(0, {}, TRUE)
  \/ /\ database # None /\ database' # None /\ Fit(database) /\ Fit(database')
     /\ database' \in DatabaseRecord
     /\ database.applied \subseteq database'.applied
     /\ 1..database'.version \subseteq database'.applied

\* A new database is fit, and at version 0.
LEMMA NewDatabase ==
  LET d == Database(0, {}, TRUE) IN
  d \in DatabaseRecord /\ d # None /\ Fit(d) /\ d.version = 0
  <1> DEFINE d == Database(0, {}, TRUE)
  <1>1. Latest \in Nat \ {0}
    BY LatestIsVersion
  <1>2. d.version = 0 /\ d.applied = {} /\ d.sound = TRUE
    BY DEF Database
  <1>3. d \in DatabaseRecord
    BY <1>1 DEF Database, DatabaseRecord, Versions
  <1>4. d # None
    BY <1>3, NoneIsNoDatabase DEF DatabaseRecord
  <1>5. Fit(d)
    <2> HIDE DEF d
    <2> QED  BY <1>1, <1>2 DEF Fit
  <1> QED  BY <1>2, <1>3, <1>4, <1>5

LEMMA WholeInit == SchemaInit => Whole
  <1> SUFFICES ASSUME SchemaInit PROVE Whole
    OBVIOUS
  <1>1. /\ database = None \/ database \in DatabaseRecord
        /\ database # None => 1..database.version \cap 1..Latest \subseteq database.applied
    <2>0. Latest \in Nat \ {0}
      BY LatestIsVersion
    <2>1. CASE database = None
      BY <2>1
    <2>2. CASE database = Database(Latest + 1, 1..Latest, TRUE)
      BY <2>0, <2>2 DEF Database, DatabaseRecord, Versions
    <2>3. CASE database = Database(Latest, 1..Latest, FALSE)
      BY <2>0, <2>3 DEF Database, DatabaseRecord, Versions
    <2>4. ASSUME NEW v \in 1..Latest, database = Database(v, 1..v, TRUE)
          PROVE  database \in DatabaseRecord /\ 1..database.version \subseteq database.applied
      BY <2>0, <2>4 DEF Database, DatabaseRecord, Versions
    <2> QED  BY <2>1, <2>2, <2>3, <2>4 DEF SchemaInit
  <1>2. SchemaTyped
    BY <1>1, LatestIsVersion DEF SchemaInit, SchemaTyped, Steps
  <1> QED  BY <1>1, <1>2 DEF SchemaInit, Whole, WorkedOn, AdoptionFits

\* A step that leaves the database, the copy and the adoption alone and lets a process count on
\* no more than is so keeps the invariant.
LEMMA OpenerMoves ==
  ASSUME Whole, NEW o \in Openers, NEW step \in Steps, NEW from \in 0..Latest,
         openers' = [openers EXCEPT ![o] = [step |-> step, from |-> from]],
         UNCHANGED <<adoption, receipt>>, DatabaseStep, copies'.adoption = copies.adoption,
         copies' = [migration |-> copies'.migration, adoption |-> copies'.adoption],
         step \in {"migrating", "open", "listening"} =>
           /\ database' # None /\ Fit(database')
           /\ 1..from \subseteq database'.applied
           /\ step # "migrating" => from = Latest
  PROVE  Whole'
  <1>1. /\ database = None \/ database \in DatabaseRecord
        /\ database' = None \/ database' \in DatabaseRecord
        /\ database # None => database' # None /\ database.applied \subseteq database'.applied
        /\ database # None /\ Fit(database) => Fit(database')
    <2>1. database = None \/ database \in DatabaseRecord
      BY DEF Whole, SchemaTyped
    <2>2. CASE database' = database
      BY <2>1, <2>2
    <2>3. CASE database = None /\ database' = Database(0, {}, TRUE)
      BY <2>3, LatestIsVersion DEF Database, DatabaseRecord, Versions
    <2>4. CASE /\ database # None /\ database' # None /\ Fit(database) /\ Fit(database')
               /\ database' \in DatabaseRecord
               /\ database.applied \subseteq database'.applied
               /\ 1..database'.version \subseteq database'.applied
      BY <2>1, <2>4
    <2> QED  BY <2>2, <2>3, <2>4 DEF DatabaseStep
  <1>2. database' # None => 1..database'.version \cap 1..Latest \subseteq database'.applied
    BY <1>1, LatestIsVersion, NoneIsNoDatabase DEF Whole, WorkedOn, DatabaseStep, Database
  <1>3. /\ openers' \in [Openers -> [step : Steps, from : 0..Latest]]
        /\ openers'[o] = [step |-> step, from |-> from]
        /\ \A p \in Openers \ {o} : openers'[p] = openers[p]
    BY DEF Whole, SchemaTyped
  <1>4. SchemaTyped'
    BY <1>1, <1>3 DEF Whole, SchemaTyped
  <1>5. WorkedOn'
    <2> SUFFICES ASSUME NEW p \in Openers,
                        openers'[p].step \in {"migrating", "open", "listening"}
                 PROVE  /\ database' # None /\ Fit(database')
                        /\ 1..openers'[p].from \subseteq database'.applied
                        /\ openers'[p].step # "migrating" => openers'[p].from = Latest
      BY <1>2 DEF WorkedOn
    <2>1. CASE p = o
      BY <1>3, <2>1
    <2>2. CASE p # o
      BY <1>1, <1>3, <2>2 DEF Whole, WorkedOn
    <2> QED  BY <2>1, <2>2
  <1>6. AdoptionFits'
    BY <1>1 DEF Whole, AdoptionFits
  <1> QED  BY <1>4, <1>5, <1>6 DEF Whole

\* Whoever opens or leaves the database keeps it whole.
LEMMA OpenersKeep ==
  ASSUME Whole,
         \/ \E c \in Companions : ProbePort(c) \/ CopyDatabase(c) \/ Listen(c) \/ LeaveDatabase(c)
         \/ \E o \in Openers : ReadVersion(o) \/ Migrate(o) \/ FinishOpening(o)
  PROVE  Whole' /\ DatabaseStep
  <1> Companions \subseteq Openers
    BY DEF Openers
  <1>0. /\ openers \in [Openers -> [step : Steps, from : 0..Latest]]
        /\ database = None \/ database \in DatabaseRecord
    BY DEF Whole, SchemaTyped
  <1>1. ASSUME NEW o \in Openers, NEW step \in Steps, StepTo(o, step), database' = database,
               UNCHANGED <<adoption, receipt>>, copies'.adoption = copies.adoption,
               copies' = [migration |-> copies'.migration, adoption |-> copies'.adoption],
               step \in {"migrating", "open", "listening"} =>
                 /\ openers[o].step \in {"migrating", "open", "listening"}
                 /\ step # "migrating" => openers[o].from = Latest
        PROVE  Whole' /\ DatabaseStep
    <2> DEFINE from == openers[o].from
    <2>1. from \in 0..Latest /\ openers' = [openers EXCEPT ![o] = [step |-> step, from |-> from]]
      <3>1. openers[o] \in [step : Steps, from : 0..Latest]
        BY <1>0
      <3>2. [openers[o] EXCEPT !.step = step] = [step |-> step, from |-> from]
        BY <3>1
      <3>3. openers' = [openers EXCEPT ![o] = [openers[o] EXCEPT !.step = step]]
        BY <1>1 DEF StepTo
      <3> QED  BY <3>1, <3>2, <3>3
    <2>2. DatabaseStep
      BY <1>1 DEF DatabaseStep
    <2>3. step \in {"migrating", "open", "listening"} =>
            /\ database' # None /\ Fit(database') /\ 1..from \subseteq database'.applied
            /\ step # "migrating" => from = Latest
      BY <1>1 DEF Whole, WorkedOn
    <2> HIDE DEF from
    <2> QED  BY <1>1, <2>1, <2>2, <2>3, OpenerMoves
  <1>c. UNCHANGED copies =>
          /\ copies'.adoption = copies.adoption
          /\ copies' = [migration |-> copies'.migration, adoption |-> copies'.adoption]
    BY DEF Whole, SchemaTyped
  <1>2. ASSUME NEW c \in Companions, ProbePort(c)
        PROVE  Whole' /\ DatabaseStep
    BY <1>1, <1>2, <1>c DEF ProbePort, Steps
  <1>3. ASSUME NEW c \in Companions, CopyDatabase(c)
        PROVE  Whole' /\ DatabaseStep
    <2>1. /\ copies'.adoption = copies.adoption
          /\ copies' = [migration |-> copies'.migration, adoption |-> copies'.adoption]
      <3>1. copies = [migration |-> copies.migration, adoption |-> copies.adoption]
        BY DEF Whole, SchemaTyped
      <3>2. copies' = copies \/ copies' = [copies EXCEPT !.migration = database]
        BY <1>3 DEF CopyDatabase
      <3> QED  BY <3>1, <3>2
    <2>2. StepTo(c, "copied") /\ UNCHANGED <<database, adoption, receipt>> /\ "copied" \in Steps
      BY <1>3 DEF CopyDatabase, Steps
    <2> QED  BY <1>1, <2>1, <2>2
  <1>4. ASSUME NEW c \in Companions, Listen(c)
        PROVE  Whole' /\ DatabaseStep
    BY <1>1, <1>4, <1>c DEF Listen, Steps, Whole, WorkedOn
  <1>5. ASSUME NEW c \in Companions, LeaveDatabase(c)
        PROVE  Whole' /\ DatabaseStep
    BY <1>1, <1>5, <1>c DEF LeaveDatabase, Steps
  <1>6. ASSUME NEW o \in Openers, ReadVersion(o)
        PROVE  Whole' /\ DatabaseStep
    <2>1. CASE database # None /\ ~Fit(database)
      BY <1>1, <1>6, <1>c, <2>1 DEF ReadVersion, Steps
    <2>2. CASE ~(database # None /\ ~Fit(database))
      <3> DEFINE from == database'.version
      <3>1. /\ database' = IF database = None THEN Database(0, {}, TRUE) ELSE database
            /\ openers' = [openers EXCEPT ![o] = [step |-> "migrating", from |-> from]]
            /\ UNCHANGED <<copies, adoption, receipt>>
        BY <1>6, <2>2 DEF ReadVersion
      <3>2. /\ database' # None /\ Fit(database') /\ from \in 0..Latest
            /\ 1..from \subseteq database'.applied /\ DatabaseStep
        <4>1. CASE database = None
          <5>1. database' = Database(0, {}, TRUE)
            BY <3>1, <4>1
          <5>2. from = 0 /\ database' # None /\ Fit(database')
            BY <5>1, NewDatabase
          <5>3. 1..from = {} /\ from \in 0..Latest
            BY <5>2, LatestIsVersion
          <5>4. DatabaseStep
            BY <4>1, <5>1 DEF DatabaseStep
          <5> QED  BY <5>2, <5>3, <5>4
        <4>2. CASE database # None
          <5>1. database' = database /\ Fit(database) /\ database \in DatabaseRecord
            BY <1>0, <2>2, <3>1, <4>2
          <5>2. from \in 0..Latest
            BY <5>1, LatestIsVersion DEF Fit, DatabaseRecord, Versions
          <5>3. 1..database.version \cap 1..Latest \subseteq database.applied
            BY <4>2 DEF Whole, WorkedOn
          <5> QED  BY <4>2, <5>1, <5>2, <5>3, LatestIsVersion DEF DatabaseStep
        <4> QED  BY <4>1, <4>2
      <3> HIDE DEF from
      <3>3. "migrating" \in Steps
        BY DEF Steps
      <3> QED  BY <1>c, <3>1, <3>2, <3>3, OpenerMoves
    <2> QED  BY <2>1, <2>2
  <1>7. ASSUME NEW o \in Openers, Migrate(o)
        PROVE  Whole' /\ DatabaseStep
    <2> DEFINE next == openers[o].from + 1
    <2>1. CASE StepTo(o, "failed") /\ UNCHANGED database
      BY <1>1, <1>7, <1>c, <2>1 DEF Migrate, Steps
    <2>2. CASE /\ database' = [database EXCEPT !.version = next, !.applied = @ \cup {next}]
               /\ openers' = [openers EXCEPT ![o].from = next]
      <3>1. /\ openers[o].step = "migrating" /\ openers[o].from < Latest
            /\ openers[o].from \in 0..Latest /\ UNCHANGED <<copies, adoption, receipt>>
        BY <1>0, <1>7 DEF Migrate
      <3>2. /\ next \in 1..Latest /\ Latest \in Nat /\ 1..next = 1..(openers[o].from) \cup {next}
        BY <3>1, LatestIsVersion
      <3>3. /\ database \in DatabaseRecord /\ Fit(database)
            /\ 1..(openers[o].from) \subseteq database.applied
        BY <1>0, <3>1 DEF Whole, WorkedOn
      <3>4. /\ database' = [version |-> next, applied |-> database.applied \cup {next},
                            sound |-> database.sound]
            /\ openers' = [openers EXCEPT ![o] = [step |-> "migrating", from |-> next]]
        <4> HIDE DEF next
        <4>1. openers[o] = [step |-> "migrating", from |-> openers[o].from]
          BY <1>0, <3>1
        <4>2. openers' = [openers EXCEPT ![o] = [openers[o] EXCEPT !.from = next]]
          BY <2>2
        <4>3. [openers[o] EXCEPT !.from = next] = [step |-> "migrating", from |-> next]
          BY <4>1
        <4>4. database = [version |-> database.version, applied |-> database.applied,
                          sound |-> database.sound]
          BY <3>3 DEF DatabaseRecord
        <4> QED  BY <2>2, <4>2, <4>3, <4>4
      <3> HIDE DEF next
      <3>5. /\ database' \in DatabaseRecord /\ Fit(database')
            /\ 1..next \subseteq database'.applied /\ database.applied \subseteq database'.applied
            /\ database'.version = next
        BY <3>2, <3>3, <3>4 DEF DatabaseRecord, Fit, Versions
      <3>6. DatabaseStep /\ database' # None
        BY <3>3, <3>5, NoneIsNoDatabase DEF DatabaseStep, DatabaseRecord
      <3>7. "migrating" \in Steps /\ next \in 0..Latest
        BY <3>2 DEF Steps
      <3> QED  BY <1>c, <3>1, <3>4, <3>5, <3>6, <3>7, OpenerMoves
    <2> QED  BY <1>7, <2>1, <2>2, Zenon DEF Migrate
  <1>8. ASSUME NEW o \in Openers, FinishOpening(o)
        PROVE  Whole' /\ DatabaseStep
    BY <1>1, <1>8, <1>c DEF FinishOpening, Steps
  <1> QED  BY <1>2, <1>3, <1>4, <1>5, <1>6, <1>7, <1>8

\* The desktop program inspects, copies, waits for the migration and writes its receipt.
LEMMA AdoptionKeeps ==
  ASSUME Whole,
         \/ \E answered \in BOOLEAN : InspectForAdoption(answered)
         \/ CopyForAdoption \/ FinishMigration \/ RecordAdoption \/ AdoptionEnds
  PROVE  Whole' /\ database' = database
  <1>0. /\ SchemaTyped /\ WorkedOn /\ AdoptionFits /\ database' = database
        /\ openers \in [Openers -> [step : Steps, from : 0..Latest]] /\ Adopter \in Openers
        /\ database = None \/ database \in DatabaseRecord
    BY DEF Whole, SchemaTyped, Openers, InspectForAdoption, CopyForAdoption, FinishMigration,
       RecordAdoption, AdoptionEnds
  <1>1. ASSUME NEW step \in {"idle", "copied"}, StepTo(Adopter, step)
        PROVE  /\ openers' \in [Openers -> [step : Steps, from : 0..Latest]] /\ WorkedOn'
    <2>1. /\ openers' \in [Openers -> [step : Steps, from : 0..Latest]]
          /\ openers'[Adopter].step = step
          /\ \A o \in Openers \ {Adopter} : openers'[o] = openers[o]
      BY <1>0, <1>1 DEF StepTo, Steps
    <2> QED  BY <1>0, <1>1, <2>1 DEF WorkedOn
  <1>2. UNCHANGED openers => /\ WorkedOn'
                             /\ openers' \in [Openers -> [step : Steps, from : 0..Latest]]
    BY <1>0 DEF WorkedOn
  <1>3. ASSUME NEW answered \in BOOLEAN, InspectForAdoption(answered)
        PROVE  SchemaTyped' /\ WorkedOn' /\ AdoptionFits'
    <2>1. UNCHANGED <<database, copies, openers, port, receipt>>
      BY <1>3 DEF InspectForAdoption
    <2> DEFINE state == AdoptionState(IF port # None /\ ~answered THEN "stranger" ELSE port)
               good == state \in {"ready", "fresh"}
    <2>2. good => database = None \/ Fit(database)
      BY DEF AdoptionState
    <2>3. adoption' = [step |-> IF state \notin {"ready", "fresh"} THEN "idle"
                                ELSE IF BackupRequired THEN "copying" ELSE "recording",
                       saw |-> IF state \in {"ready", "fresh"} THEN database ELSE None]
      BY <1>3 DEF InspectForAdoption
    <2> HIDE DEF state
    <2>4. \/ adoption'.step = "idle"
          \/ good /\ adoption'.step = "copying" /\ BackupRequired
          \/ good /\ adoption'.step = "recording" /\ ~BackupRequired
      <3>1. CASE ~good
        BY <2>3, <3>1
      <3>2. CASE good /\ BackupRequired
        BY <2>3, <3>2
      <3>3. CASE good /\ ~BackupRequired
        BY <2>3, <3>3
      <3> QED  BY <3>1, <3>2, <3>3
    <2>5. adoption'.saw = IF good THEN database ELSE None
      BY <2>3
    <2>6. good /\ ~BackupRequired /\ database # None => 1..Latest \subseteq database.applied
      <3> SUFFICES ASSUME good, ~BackupRequired, database # None
                   PROVE  1..Latest \subseteq database.applied
        OBVIOUS
      <3>1. database.version = Latest
        BY <1>0, <2>2, LatestIsVersion DEF BackupRequired, Fit, DatabaseRecord, Versions
      <3> QED  BY <1>0, <3>1 DEF WorkedOn
    <2>7. SchemaTyped'
      <3>1. /\ adoption' = [step |-> adoption'.step, saw |-> adoption'.saw]
        BY <2>3
      <3> QED  BY <1>0, <2>1, <2>4, <3>1 DEF SchemaTyped
    <2>8. AdoptionFits'
      BY <1>0, <2>1, <2>2, <2>4, <2>5, <2>6 DEF AdoptionFits, BackupRequired
    <2> QED  BY <1>2, <2>1, <2>7, <2>8
  <1>4. CASE CopyForAdoption
    <2>1. /\ adoption.step = "copying" /\ adoption' = [adoption EXCEPT !.step = "migrating"]
          /\ copies' = [copies EXCEPT !.adoption = database] /\ StepTo(Adopter, "copied")
          /\ UNCHANGED <<database, port, receipt>>
      BY <1>4 DEF CopyForAdoption
    <2>2. database # None /\ Fit(database) /\ database \in DatabaseRecord
      BY <1>0, <2>1 DEF AdoptionFits
    <2>3. /\ copies' = [migration |-> copies'.migration, adoption |-> copies'.adoption]
          /\ copies'.adoption = database
          /\ adoption' = [step |-> "migrating", saw |-> adoption.saw]
      BY <1>0, <2>1 DEF SchemaTyped
    <2>4. SchemaTyped' /\ AdoptionFits'
      BY <1>0, <1>1, <2>1, <2>2, <2>3 DEF SchemaTyped, AdoptionFits
    <2> QED  BY <1>0, <1>1, <2>1, <2>4 DEF Whole
  <1>5. CASE FinishMigration
    <2>1. /\ openers[Adopter].step \in {"open", "failed"} /\ StepTo(Adopter, "idle")
          /\ UNCHANGED <<database, copies, port, receipt>>
          /\ adoption' = IF openers[Adopter].step = "open"
                         THEN [adoption EXCEPT !.step = "recording"] ELSE [step |-> "idle", saw |-> None]
      BY <1>5 DEF FinishMigration
    <2>2. openers[Adopter].step = "open" => database # None /\ 1..Latest \subseteq database.applied
      BY <1>0 DEF WorkedOn
    <2>3. \/ adoption' = [step |-> "idle", saw |-> None]
          \/ /\ adoption' = [step |-> "recording", saw |-> adoption.saw]
             /\ openers[Adopter].step = "open"
      BY <1>0, <2>1 DEF SchemaTyped
    <2>4. SchemaTyped' /\ AdoptionFits'
      BY <1>0, <1>1, <2>1, <2>2, <2>3 DEF SchemaTyped, AdoptionFits
    <2> QED  BY <1>0, <1>1, <2>1, <2>4 DEF Whole
  <1>6. CASE RecordAdoption
    <2>1. /\ adoption.step = "recording" /\ adoption' = [step |-> "idle", saw |-> None]
          /\ receipt' = [database |-> adoption.saw # None]
          /\ UNCHANGED <<database, copies, openers, port>>
      BY <1>6 DEF RecordAdoption
    <2>2. SchemaTyped' /\ AdoptionFits'
      BY <1>0, <1>2, <2>1 DEF SchemaTyped, AdoptionFits
    <2> QED  BY <1>0, <1>2, <2>1, <2>2 DEF Whole
  <1>7. CASE AdoptionEnds
    <2>1. /\ adoption' = [step |-> "idle", saw |-> None] /\ StepTo(Adopter, "idle")
          /\ UNCHANGED <<database, copies, port, receipt>>
      BY <1>7 DEF AdoptionEnds
    <2>2. SchemaTyped' /\ AdoptionFits'
      BY <1>0, <1>1, <2>1 DEF SchemaTyped, AdoptionFits
    <2> QED  BY <1>0, <1>1, <2>1, <2>2 DEF Whole
  <1> QED  BY <1>0, <1>3, <1>4, <1>5, <1>6, <1>7 DEF Whole

\* Every step keeps the invariant, and does to the database what DatabaseStep says.
LEMMA WholeStep == Whole /\ [SchemaNext]_schemaVars => Whole' /\ DatabaseStep
  <1> SUFFICES ASSUME Whole, [SchemaNext]_schemaVars PROVE Whole' /\ DatabaseStep
    OBVIOUS
  <1>1. CASE UNCHANGED schemaVars
    BY <1>1 DEF schemaVars, Whole, SchemaTyped, WorkedOn, AdoptionFits, DatabaseStep
  <1>2. ASSUME database' = database PROVE DatabaseStep
    BY <1>2 DEF DatabaseStep
  <1> QED  BY <1>1, <1>2, OpenersKeep, AdoptionKeeps DEF SchemaNext

LEMMA WholeSafe == Whole => SchemaIsWhole /\ AdoptedIsMigrated
  <1> SUFFICES ASSUME Whole PROVE SchemaIsWhole /\ AdoptedIsMigrated
    OBVIOUS
  <1>1. \A o \in Openers : openers[o].step \in {"open", "listening"} => 1..Latest = database.applied
    <2> SUFFICES ASSUME NEW o \in Openers, openers[o].step \in {"open", "listening"}
                 PROVE  1..Latest = database.applied
      OBVIOUS
    <2>1. database # None /\ openers[o].from = Latest /\ 1..openers[o].from \subseteq database.applied
      BY DEF Whole, WorkedOn
    <2>2. database.applied \subseteq 1..Latest
      BY <2>1 DEF Whole, SchemaTyped, DatabaseRecord
    <2> QED  BY <2>1, <2>2
  <1>2. SchemaIsWhole
    BY <1>1 DEF Whole, WorkedOn, SchemaIsWhole
  <1>3. AdoptedIsMigrated
    BY DEF Whole, AdoptionFits, SchemaTyped, DatabaseRecord, AdoptedIsMigrated
  <1> QED  BY <1>2, <1>3

\* However many companions open the database at once and write back what version they came to,
\* its tables have seen every migration up to that version, and who serves it all of them.
THEOREM SchemaStaysWhole == SchemaSpec => []SchemaIsWhole
  BY WholeSafe, WholeInit, WholeStep, PTL DEF SchemaSpec

\* What was adopted has every migration, and the copy made before is of a fit database.
THEOREM AdoptionsAreWhole == SchemaSpec => []AdoptedIsMigrated
  BY WholeSafe, WholeInit, WholeStep, PTL DEF SchemaSpec

LEMMA UnfitLeft == Whole /\ [SchemaNext]_schemaVars => UnfitIsLeft
  BY WholeStep DEF UnfitIsLeft, DatabaseStep

\* No step changes a database that is damaged or of a later program.
THEOREM UnfitStays == SchemaSpec => [][UnfitIsLeft]_schemaVars
  <1>2. Whole /\ [SchemaNext]_schemaVars => [UnfitIsLeft]_schemaVars
    BY UnfitLeft
  <1> QED  BY <1>2, WholeInit, WholeStep, PTL DEF SchemaSpec

-----------------------------------------------------------------------------
(* The connection to Gmail.                                                *)
AttemptSteps == {"unused", "beginning", "waiting", "exchanging", "storing", "ended"}
CallStates == [step : {"idle", "reading"}, token : {None}] \cup [step : {"refreshing", "storing"}, token : Attempts]
DisconnectStates == [step : {"idle", "reading", "revoking", "deleting"}, token : Attempts \cup {None}]

CredentialsTyped ==
  /\ stored \in Attempts \cup {None} /\ access \in Attempts \cup {None}
  /\ pendingAttempt \in Attempts \cup {None} /\ granted \subseteq Attempts
  /\ capability \in Capabilities
  /\ attempts \in [Attempts -> AttemptSteps]
  /\ calls \in [TokenCalls -> CallStates]
  /\ disconnects \in [Disconnects -> DisconnectStates]

\* A call that Google was asked for may bring a token.
CallsIncoming == \E c \in TokenCalls : calls[c].step \in {"refreshing", "storing"}

\* A disconnect that no token overlapped has cleared the memory when it deletes, and when it
\* has ended no call is left that could put a token back.
CredentialsInv ==
  /\ CredentialsTyped
  /\ PendingAttemptIsOpen
  /\ Incoming => Disconnecting \subseteq overlapped
  /\ \A d \in Disconnects : disconnects[d].step = "deleting" /\ d \notin overlapped => access = None
  /\ cutOff => stored = None /\ access = None /\ ~CallsIncoming

LEMMA CredentialsStart == CredentialsInit => CredentialsInv
  <1> SUFFICES ASSUME CredentialsInit PROVE CredentialsInv
    OBVIOUS
  <1>1. CredentialsTyped
    BY DEF CredentialsInit, CredentialsTyped, AttemptSteps, CallStates, DisconnectStates, Idle, Capabilities
  <1>2. ~Incoming
    BY DEF CredentialsInit, Incoming, Idle
  <1> QED BY <1>1, <1>2 DEF CredentialsInit, CredentialsInv, PendingAttemptIsOpen, Idle

\* What an attempt does to itself alone.
LEMMA AttemptsKeep ==
  ASSUME CredentialsInv, NEW a \in Attempts,
         \/ StartConnect(a) \/ \E ok \in BOOLEAN : Begun(a, ok) \/ Exchanged(a, ok)
         \/ \E answer \in {"code", "denied", "strange", "timeout"} : CallbackServed(a, answer)
  PROVE  CredentialsInv'
  <1>1. /\ UNCHANGED <<capability, stored, access, calls, disconnects, cutOff>>
        /\ granted' \in {granted, granted \cup {a}}
        /\ \E step \in AttemptSteps : attempts' = [attempts EXCEPT ![a] = step]
    BY DEF StartConnect, Begun, Exchanged, CallbackServed, End, AttemptSteps, tokenVars
  <1>2. attempts' \in [Attempts -> AttemptSteps] /\ \A b \in Attempts \ {a} : attempts'[b] = attempts[b]
    BY <1>1 DEF CredentialsInv, CredentialsTyped
  <1>3. /\ pendingAttempt' \in Attempts \cup {None}
        /\ pendingAttempt' = a => attempts'[a] \in {"waiting", "exchanging", "storing"}
        /\ pendingAttempt' \in {pendingAttempt, None, a}
    <2>1. CASE StartConnect(a)
      BY <1>1, <2>1, CredentialsConstants DEF StartConnect, CredentialsInv, CredentialsTyped
    <2>2. ASSUME NEW ok \in BOOLEAN, Begun(a, ok)
          PROVE  /\ pendingAttempt' \in {pendingAttempt, a}
                 /\ pendingAttempt' = a => attempts'[a] \in {"waiting", "exchanging", "storing"}
      BY <2>2, CredentialsConstants DEF Begun, CredentialsInv, CredentialsTyped, PendingAttemptIsOpen
    <2>3. ASSUME NEW ok \in BOOLEAN, Exchanged(a, ok)
          PROVE  /\ pendingAttempt' \in {pendingAttempt, None}
                 /\ pendingAttempt' = a => attempts'[a] \in {"waiting", "exchanging", "storing"}
      BY <2>3, CredentialsConstants DEF Exchanged, End, CredentialsInv, CredentialsTyped, PendingAttemptIsOpen
    <2>4. ASSUME NEW answer \in {"code", "denied", "strange", "timeout"}, CallbackServed(a, answer)
          PROVE  /\ pendingAttempt' \in {pendingAttempt, None}
                 /\ pendingAttempt' = a => attempts'[a] \in {"waiting", "exchanging", "storing"}
      BY <2>4, CredentialsConstants DEF CallbackServed, End, CredentialsInv, CredentialsTyped, PendingAttemptIsOpen
    <2> QED BY <2>1, <2>2, <2>3, <2>4 DEF CredentialsInv, CredentialsTyped
  <1>4. PendingAttemptIsOpen'
    BY <1>2, <1>3 DEF CredentialsInv, PendingAttemptIsOpen, CredentialsTyped
  <1>5. Incoming' => Disconnecting' \subseteq overlapped'
    <2>1. CASE StartConnect(a) \/ \E ok \in BOOLEAN : Begun(a, ok)
      <3>1. overlapped' = overlapped /\ attempts'[a] \notin {"exchanging", "storing"}
        BY <2>1 DEF StartConnect, Begun, CredentialsInv, CredentialsTyped
      <3>2. Incoming' => Incoming
        BY <1>1, <1>2, <3>1 DEF Incoming
      <3> QED BY <1>1, <3>1, <3>2 DEF CredentialsInv, Disconnecting
    <2>2. CASE NoteOverlap
      BY <1>1, <2>2 DEF NoteOverlap, Disconnecting
    <2> QED BY <2>1, <2>2 DEF Exchanged, CallbackServed
  <1>6. overlapped \subseteq overlapped'
    BY DEF StartConnect, Begun, Exchanged, CallbackServed, NoteOverlap
  <1> QED BY <1>1, <1>2, <1>3, <1>4, <1>5, <1>6 DEF CredentialsInv, CredentialsTyped, CallsIncoming

\* Whatever stores a token was on its way in, so that every disconnect under way counts as met.
LEMMA AcceptKeeps ==
  ASSUME CredentialsInv, NEW token \in Attempts, NEW hasRefresh \in BOOLEAN, NEW outcome \in WriteOutcomes,
         Accept(token, hasRefresh, outcome), Incoming, NoteOverlap,
         UNCHANGED <<capability, disconnects>>, granted' = granted,
         attempts' \in [Attempts -> AttemptSteps], calls' \in [TokenCalls -> CallStates],
         pendingAttempt' \in Attempts \cup {None}, PendingAttemptIsOpen', ~cutOff'
  PROVE  CredentialsInv'
  <1>1. stored' \in Attempts \cup {None} /\ access' \in Attempts \cup {None}
    BY DEF Accept, StoredAfter, CredentialsInv, CredentialsTyped
  <1>2. CredentialsTyped'
    BY <1>1 DEF CredentialsInv, CredentialsTyped
  <1>3. Disconnecting \subseteq overlapped /\ overlapped \subseteq overlapped'
    BY DEF CredentialsInv, NoteOverlap
  <1>4. \A d \in Disconnects : disconnects'[d].step = "deleting" => d \in overlapped'
    BY <1>3 DEF Disconnecting
  <1>5. Disconnecting' \subseteq overlapped'
    BY <1>3 DEF Disconnecting
  <1> QED BY <1>2, <1>4, <1>5 DEF CredentialsInv

\* A consent stores its token.
LEMMA ConsentKeeps ==
  ASSUME CredentialsInv, NEW a \in Attempts, NEW outcome \in WriteOutcomes, ConnectStored(a, outcome)
  PROVE  CredentialsInv'
  <1>1. /\ Accept(a, TRUE, outcome) /\ NoteOverlap /\ ~cutOff'
        /\ UNCHANGED <<capability, disconnects>> /\ granted' = granted /\ calls' = calls
    BY DEF ConnectStored
  <1>2. Incoming
    BY DEF ConnectStored, Incoming
  <1>3. /\ attempts' = [attempts EXCEPT ![a] = "ended"]
        /\ pendingAttempt' = IF pendingAttempt = a THEN None ELSE pendingAttempt
    BY DEF ConnectStored, End
  <1>4. /\ attempts' \in [Attempts -> AttemptSteps] /\ calls' \in [TokenCalls -> CallStates]
        /\ pendingAttempt' \in Attempts \cup {None} /\ PendingAttemptIsOpen'
    BY <1>1, <1>3 DEF CredentialsInv, CredentialsTyped, PendingAttemptIsOpen, AttemptSteps
  <1> QED BY <1>1, <1>2, <1>4, AcceptKeeps

\* A request for an access token.
LEMMA CallsKeep ==
  ASSUME CredentialsInv, NEW c \in TokenCalls,
         \/ CallAccessToken(c) \/ RefreshRead(c)
         \/ \E ok, rotated \in BOOLEAN : Refreshed(c, ok, rotated)
         \/ \E outcome \in WriteOutcomes : RefreshStored(c, outcome)
  PROVE  CredentialsInv'
  <1>1. UNCHANGED <<capability, granted, attempts, pendingAttempt, disconnects, cutOff>>
    BY DEF CallAccessToken, RefreshRead, Refreshed, RefreshStored, tokenVars
  <1>2. calls[c] \in CallStates /\ calls[c].token \in Attempts \cup {None} /\ PendingAttemptIsOpen'
    BY <1>1 DEF CredentialsInv, CredentialsTyped, CallStates, PendingAttemptIsOpen
  <1>3. ASSUME UNCHANGED <<stored, access>>, NEW call \in CallStates, calls' = [calls EXCEPT ![c] = call],
               overlapped \subseteq overlapped', Incoming' => Disconnecting \subseteq overlapped',
               cutOff => call.step \notin {"refreshing", "storing"}
        PROVE  CredentialsInv'
    <2>1. CredentialsTyped'
      BY <1>1, <1>3 DEF CredentialsInv, CredentialsTyped
    <2>2. cutOff => ~CallsIncoming'
      BY <1>3 DEF CredentialsInv, CredentialsTyped, CallsIncoming
    <2>3. Disconnecting' = Disconnecting
      BY <1>1 DEF Disconnecting
    <2> QED BY <1>1, <1>2, <1>3, <2>1, <2>2, <2>3 DEF CredentialsInv
  <1>i. Idle \in CallStates /\ Idle.step = "idle"
    BY DEF Idle, CallStates
  <1>4. CASE CallAccessToken(c)
    <2>1. /\ Step("reading", None) \in CallStates /\ Step("reading", None).step = "reading"
          /\ calls' = [calls EXCEPT ![c] = Step("reading", None)]
          /\ UNCHANGED <<stored, access, overlapped>>
      BY <1>4 DEF CallAccessToken, tokenVars, Step, CallStates
    <2>2. calls'[c].step = "reading" /\ \A b \in TokenCalls \ {c} : calls'[b] = calls[b]
      BY <2>1 DEF CredentialsInv, CredentialsTyped
    <2>3. Incoming' => Incoming
      BY <1>1, <2>2 DEF Incoming
    <2> QED BY <1>3, <2>1, <2>3 DEF CredentialsInv
  <1>5. CASE RefreshRead(c)
    <2>1. PICK call : call = IF stored = None THEN Idle ELSE Step("refreshing", stored)
      OBVIOUS
    <2>2. call \in CallStates /\ (stored = None => call.step = "idle")
      BY <1>i, <2>1 DEF Step, CallStates, CredentialsInv, CredentialsTyped
    <2>3. calls' = [calls EXCEPT ![c] = call] /\ UNCHANGED <<stored, access>> /\ NoteOverlap
      BY <1>5, <2>1 DEF RefreshRead, tokenVars
    <2>4. overlapped \subseteq overlapped' /\ (Incoming' => Disconnecting \subseteq overlapped')
      BY <2>3 DEF NoteOverlap
    <2> QED BY <1>3, <2>2, <2>3, <2>4 DEF CredentialsInv
  <1>6. ASSUME NEW ok \in BOOLEAN, NEW rotated \in BOOLEAN, Refreshed(c, ok, rotated)
        PROVE  CredentialsInv'
    <2>1. PICK token : token = calls[c].token
      OBVIOUS
    <2>2. PICK call : call = IF ok /\ rotated THEN Step("storing", token) ELSE Idle
      OBVIOUS
    <2>3. /\ call \in CallStates /\ calls' = [calls EXCEPT ![c] = call]
          /\ NoteOverlap /\ calls[c].step = "refreshing" /\ (ok => token \in Attempts)
          /\ IF ok /\ ~rotated THEN Accept(token, FALSE, "written") ELSE UNCHANGED <<stored, access>>
      <3>0. calls[c].step = "refreshing"
        BY <1>6 DEF Refreshed
      <3>1. call \in CallStates
        BY <1>2, <1>i, <2>1, <2>2, <3>0 DEF Step, CallStates
      <3>2. calls' = [calls EXCEPT ![c] = call]
        BY <1>6, <2>1, <2>2 DEF Refreshed
      <3> QED BY <1>6, <2>1, <3>1, <3>2 DEF Refreshed, CredentialsInv, CredentialsTyped
    <2>4. Incoming /\ ~cutOff
      BY <2>3 DEF Incoming, CredentialsInv, CallsIncoming
    <2>5. calls' \in [TokenCalls -> CallStates]
      BY <2>3 DEF CredentialsInv, CredentialsTyped
    <2>6. overlapped \subseteq overlapped' /\ (Incoming' => Disconnecting \subseteq overlapped')
      BY <2>3 DEF NoteOverlap
    <2>7. CASE ok /\ ~rotated
      <3>1. "written" \in WriteOutcomes /\ FALSE \in BOOLEAN
        BY DEF WriteOutcomes
      <3>2. attempts' \in [Attempts -> AttemptSteps] /\ pendingAttempt' \in Attempts \cup {None} /\ ~cutOff'
        BY <1>1, <2>4 DEF CredentialsInv, CredentialsTyped
      <3> QED BY <1>1, <1>2, <2>3, <2>4, <2>5, <2>7, <3>1, <3>2, AcceptKeeps
    <2>8. CASE ~(ok /\ ~rotated)
      BY <1>3, <2>3, <2>4, <2>6, <2>8
    <2> QED BY <2>7, <2>8
  <1>7. ASSUME NEW outcome \in WriteOutcomes, RefreshStored(c, outcome)
        PROVE  CredentialsInv'
    <2>1. PICK token : token = calls[c].token
      OBVIOUS
    <2>2. /\ Accept(token, TRUE, outcome) /\ calls' = [calls EXCEPT ![c] = Idle]
          /\ NoteOverlap /\ calls[c].step = "storing"
      BY <1>7, <2>1 DEF RefreshStored
    <2>3. Incoming /\ ~cutOff
      BY <2>2, CredentialsConstants DEF Incoming, CredentialsInv, CallsIncoming
    <2>4. calls' \in [TokenCalls -> CallStates]
      BY <1>i, <2>2 DEF CredentialsInv, CredentialsTyped
    <2>5. attempts' \in [Attempts -> AttemptSteps] /\ pendingAttempt' \in Attempts \cup {None} /\ ~cutOff'
      BY <1>1, <2>3 DEF CredentialsInv, CredentialsTyped
    <2>6. token \in Attempts /\ TRUE \in BOOLEAN
      BY <1>2, <2>1, <2>2 DEF CallStates
    <2> QED BY <1>1, <1>2, <2>2, <2>3, <2>4, <2>5, <2>6, AcceptKeeps
  <1> QED BY <1>4, <1>5, <1>6, <1>7

\* A request to disconnect.
LEMMA DisconnectsKeep ==
  ASSUME CredentialsInv, NEW d \in Disconnects,
         \/ Disconnect(d) \/ DisconnectRead(d)
         \/ \E ok \in BOOLEAN : RevokeAnswered(d, ok) \/ DisconnectDeleted(d, ok)
  PROVE  CredentialsInv'
  <1>1. UNCHANGED <<capability, attempts, pendingAttempt, calls>> /\ granted' \subseteq granted
    BY DEF Disconnect, DisconnectRead, RevokeAnswered, DisconnectDeleted, tokenVars
  <1>2. /\ PendingAttemptIsOpen' /\ Incoming' = Incoming /\ CallsIncoming' = CallsIncoming
        /\ disconnects[d] \in DisconnectStates
    BY <1>1 DEF CredentialsInv, CredentialsTyped, PendingAttemptIsOpen, Incoming, CallsIncoming
  <1>3. ASSUME NEW went \in DisconnectStates, disconnects' = [disconnects EXCEPT ![d] = went],
               stored' \in {stored, None}, access' \in {access, None},
               \/ overlapped' = overlapped /\ (disconnects[d].step # "idle" \/ went.step = "idle")
               \/ overlapped' \in {overlapped, overlapped \cup {d}, overlapped \ {d}} /\ (Incoming => d \in overlapped')
                  /\ disconnects[d].step = "idle",
               went.step = "deleting" => access' = None \/ (disconnects[d].step = "deleting"),
               cutOff' => cutOff \/ (stored' = None /\ access' = None /\ ~CallsIncoming)
        PROVE  CredentialsInv'
    <2>1. /\ disconnects' \in [Disconnects -> DisconnectStates] /\ disconnects'[d] = went
          /\ \A b \in Disconnects \ {d} : disconnects'[b] = disconnects[b]
      BY <1>3 DEF CredentialsInv, CredentialsTyped
    <2>2. CredentialsTyped'
      BY <1>1, <1>3, <2>1 DEF CredentialsInv, CredentialsTyped
    <2>3. Incoming => Disconnecting' \subseteq overlapped'
      BY <1>3, <2>1 DEF CredentialsInv, Disconnecting
    <2>4. \A b \in Disconnects : disconnects'[b].step = "deleting" /\ b \notin overlapped' => access' = None
      BY <1>3, <2>1 DEF CredentialsInv
    <2> QED BY <1>2, <1>3, <2>2, <2>3, <2>4 DEF CredentialsInv
  <1>4. CASE Disconnect(d)
    <2>1. /\ Step("reading", None) \in DisconnectStates /\ Step("reading", None).step = "reading"
          /\ disconnects[d].step = "idle" /\ UNCHANGED <<stored, access, cutOff>>
          /\ disconnects' = [disconnects EXCEPT ![d] = Step("reading", None)]
          /\ overlapped' = IF Incoming THEN overlapped \cup {d} ELSE overlapped \ {d}
      BY <1>4 DEF Disconnect, tokenVars, Step, Idle, DisconnectStates
    <2> QED BY <1>3, <2>1
  <1>5. CASE DisconnectRead(d)
    <2>1. PICK went : went = Step(IF stored = None THEN "deleting" ELSE "revoking", stored)
      OBVIOUS
    <2>2. /\ went \in DisconnectStates /\ (went.step = "deleting" => stored = None)
          /\ disconnects[d].step = "reading" /\ UNCHANGED <<stored, overlapped, cutOff>>
          /\ disconnects' = [disconnects EXCEPT ![d] = went]
          /\ access' = IF stored = None THEN None ELSE access
      BY <1>5, <2>1 DEF DisconnectRead, Step, DisconnectStates, CredentialsInv, CredentialsTyped
    <2> QED BY <1>3, <2>2
  <1>6. ASSUME NEW ok \in BOOLEAN, RevokeAnswered(d, ok)
        PROVE  CredentialsInv'
    <2>1. PICK went : went = IF ok THEN Step("deleting", disconnects[d].token) ELSE Idle
      OBVIOUS
    <2>2. /\ went \in DisconnectStates /\ (went.step = "deleting" => ok)
      BY <1>2, <2>1 DEF Step, Idle, DisconnectStates
    <2>3. /\ disconnects[d].step = "revoking" /\ UNCHANGED <<stored, overlapped, cutOff>>
          /\ disconnects' = [disconnects EXCEPT ![d] = went]
          /\ access' = IF ok THEN None ELSE access
      BY <1>6, <2>1 DEF RevokeAnswered
    <2> QED BY <1>3, <2>2, <2>3
  <1>7. ASSUME NEW ok \in BOOLEAN, DisconnectDeleted(d, ok)
        PROVE  CredentialsInv'
    <2>1. /\ Idle \in DisconnectStates /\ Idle.step = "idle"
      BY DEF Idle, DisconnectStates
    <2>2. /\ disconnects[d].step = "deleting" /\ UNCHANGED <<access, overlapped>>
          /\ stored' = IF ok THEN None ELSE stored
          /\ disconnects' = [disconnects EXCEPT ![d] = Idle]
          /\ cutOff' = (cutOff \/ (ok /\ d \notin overlapped))
      BY <1>7 DEF DisconnectDeleted
    <2>3. d \notin overlapped => access = None /\ ~CallsIncoming
      BY <2>2 DEF CredentialsInv, Incoming, CallsIncoming, Disconnecting
    <2> QED BY <1>3, <2>1, <2>2, <2>3
  <1> QED BY <1>4, <1>5, <1>6, <1>7

\* The token in memory expires, Google revokes, the companion starts again.
LEMMA OthersKeepCredentials ==
  ASSUME CredentialsInv,
         \/ AccessExpires \/ \E a \in Attempts : GoogleRevokes(a)
         \/ \E secured, same, deleted \in BOOLEAN : RestartServices(ProbeResult(secured, same, deleted))
  PROVE  CredentialsInv'
  <1>1. CASE AccessExpires \/ \E a \in Attempts : GoogleRevokes(a)
    <2>1. /\ UNCHANGED <<capability, stored, attempts, pendingAttempt, calls, disconnects, overlapped, cutOff>>
          /\ access' \in {access, None} /\ granted' \subseteq granted
      BY <1>1 DEF AccessExpires, GoogleRevokes, requestVars
    <2> QED BY <2>1 DEF CredentialsInv, CredentialsTyped, PendingAttemptIsOpen, Incoming, Disconnecting, CallsIncoming
  <1>2. ASSUME NEW secured \in BOOLEAN, NEW same \in BOOLEAN, NEW deleted \in BOOLEAN,
               RestartServices(ProbeResult(secured, same, deleted))
        PROVE  CredentialsInv'
    <2>1. /\ UNCHANGED <<stored, granted, overlapped, cutOff>> /\ access' = None /\ pendingAttempt' = None
          /\ attempts' = [a \in Attempts |-> IF attempts[a] = "unused" THEN "unused" ELSE "ended"]
          /\ calls' = [c \in TokenCalls |-> Idle] /\ disconnects' = [d \in Disconnects |-> Idle]
          /\ capability' \in Capabilities
      BY <1>2 DEF RestartServices, ProbeResult, Capabilities
    <2>2. Idle \in CallStates /\ Idle \in DisconnectStates /\ Idle.step = "idle"
      BY DEF Idle, CallStates, DisconnectStates
    <2>3. CredentialsTyped'
      BY <2>1, <2>2 DEF CredentialsInv, CredentialsTyped, AttemptSteps
    <2>4. ~Incoming' /\ ~CallsIncoming'
      BY <2>1, <2>2 DEF Incoming, CallsIncoming
    <2>5. \A d \in Disconnects : disconnects'[d].step = "idle"
      BY <2>1, <2>2
    <2> QED BY <2>1, <2>3, <2>4, <2>5 DEF CredentialsInv, PendingAttemptIsOpen
  <1> QED BY <1>1, <1>2

LEMMA CredentialsStep == CredentialsInv /\ [CredentialsNext]_credentialVars => CredentialsInv'
  <1> SUFFICES ASSUME CredentialsInv, [CredentialsNext]_credentialVars PROVE CredentialsInv'
    OBVIOUS
  <1>1. CASE UNCHANGED credentialVars
    BY <1>1 DEF credentialVars, CredentialsInv, CredentialsTyped, PendingAttemptIsOpen, Incoming, Disconnecting, CallsIncoming
  <1>2. CASE CredentialsNext
    <2>1. CASE GmailRequests
      BY <2>1, AttemptsKeep, CallsKeep, DisconnectsKeep DEF GmailRequests
    <2> QED BY <1>2, <2>1, AttemptsKeep, ConsentKeeps, CallsKeep, DisconnectsKeep, OthersKeepCredentials DEF CredentialsNext
  <1> QED BY <1>1, <1>2

\* What the invariant says of the choices of a person.
LEMMA DisconnectsLast == CredentialsInv => DisconnectIsFinal /\ PendingAttemptIsOpen /\ CredentialsTypeOK
  BY DEF CredentialsInv, CredentialsTyped, DisconnectIsFinal, CredentialsTypeOK, AttemptSteps

-----------------------------------------------------------------------------
(* The project folders.                                                    *)
FolderRow == [place : Places, state : {"active", "paused"}, kind : Kinds \cup {"unavailable"}, enriched : BOOLEAN]
Detected == [place : Places, kind : Kinds \cup {"unavailable"}]
FolderList == [FolderIds -> FolderRow \cup {None}]
CheckEntry == [id : FolderIds, place : Places, enriched : BOOLEAN]
CheckedFolder == [id : FolderIds, enriched : BOOLEAN, detection : Detected]
FolderCheck == [todo : SUBSET CheckEntry, at : CheckedFolder \cup {None}]
Selected == [items : SUBSET [detection : Detected, relationship : {"duplicate", "new"}],
             committed : (SUBSET FolderIds) \cup {None}, expired : BOOLEAN]

FoldersTyped ==
  /\ folders \in FolderList
  /\ previews \in Seq(Selected)
  /\ check \in FolderCheck \cup {None}
  /\ wanted \in [FolderIds -> {"none", "active", "paused", "removed"}]
  /\ readBefore \subseteq FolderIds
  /\ folderSource \in BOOLEAN /\ companionUp \in BOOLEAN

\* A place has one folder at most.
PlacesAreOnce == \A f, g \in FolderIds : folders[f] # None /\ folders[g] # None /\ folders[f].place = folders[g].place => f = g

\* A folder is there once it was wanted, until a person removes it; what a check has read of one
\* that was removed since is remembered.
FoldersFollow ==
  /\ FolderChoicesStand
  /\ \A f \in FolderIds : folders[f] = None => wanted[f] \in {"none", "removed"}
  /\ \A f \in BeingRead : folders[f] = None => wanted[f] = "removed" /\ f \in readBefore

FoldersInv == FoldersTyped /\ PlacesAreOnce /\ FoldersFollow

LEMMA FoldersStart == FoldersInit => FoldersInv
  <1> SUFFICES ASSUME FoldersInit PROVE FoldersInv
    OBVIOUS
  <1>1. folders = [f \in FolderIds |-> None] /\ previews = << >> /\ check = None
    BY DEF FoldersInit
  <1>2. BeingRead = {} /\ previews \in Seq(Selected)
    BY <1>1 DEF BeingRead
  <1>3. FoldersTyped
    BY <1>1, <1>2 DEF FoldersInit, FoldersTyped, FolderList
  <1> QED BY <1>1, <1>2, <1>3 DEF FoldersInit, FoldersInv, PlacesAreOnce, FoldersFollow, FolderChoicesStand

\* What a check reads are folders.
LEMMA ReadAreFolders == FoldersTyped => BeingRead \subseteq FolderIds
  <1> SUFFICES ASSUME FoldersTyped, NEW f \in BeingRead PROVE f \in FolderIds
    OBVIOUS
  <1>1. check \in FolderCheck /\ check # None
    BY DEF FoldersTyped, BeingRead
  <1>2. CASE \E entry \in check.todo : entry.id = f
    BY <1>1, <1>2 DEF FolderCheck, CheckEntry
  <1>3. CASE check.at # None /\ check.at.id = f
    BY <1>1, <1>3 DEF FolderCheck, CheckedFolder
  <1> QED BY <1>1, <1>2, <1>3 DEF BeingRead

LEMMA InspectDetects ==
  ASSUME NEW place \in Places
  PROVE  Inspect(place) \in Detected
  BY DEF Inspect, Detected, Real

\* The row a check or a start writes: nobody else's state changes, and a row that is made is new.
LEMMA UpsertedRows ==
  ASSUME NEW all \in FolderList, NEW id \in FolderIds, NEW detection \in Detected, NEW e \in BOOLEAN,
         ~Clashes(all, id, detection),
         \A f, g \in FolderIds : all[f] # None /\ all[g] # None /\ all[f].place = all[g].place => f = g
  PROVE  LET table == Upserted(all, id, detection, e) IN
         /\ table \in FolderList
         /\ \A f \in FolderIds : all[f] # None => table[f] # None /\ table[f].state = all[f].state /\ table[f].place = all[f].place
         /\ \A f \in FolderIds : all[f] = None /\ table[f] # None =>
              f = id /\ table[f].state = "active" /\ table[f].place = detection.place /\ FolderAt(all, detection.place) = {}
  <1> DEFINE table == Upserted(all, id, detection, e)
  <1>0. \A f \in FolderIds : all[f] \in FolderRow \cup {None}
    BY DEF FolderList
  <1>n. None \notin FolderRow /\ None \notin Detected
    BY FolderConstants DEF FolderRow, Detected, Kinds
  <1>1. CASE FolderAt(all, detection.place) = {}
    <2>1. PICK row : row = Folder(detection.place, "active", detection.kind, e)
      OBVIOUS
    <2>2. row \in FolderRow /\ row.state = "active" /\ row.place = detection.place
      BY <2>1 DEF Folder, FolderRow, Detected
    <2>3. table = [all EXCEPT ![id] = row] /\ all[id] = None
      BY <1>1, <2>1 DEF Upserted, Clashes
    <2> HIDE DEF table
    <2>4. /\ table \in FolderList /\ table[id] = row /\ \A f \in FolderIds \ {id} : table[f] = all[f]
      BY <2>2, <2>3 DEF FolderList
    <2> QED BY <1>1, <2>2, <2>3, <2>4 DEF table
  <1>2. CASE FolderAt(all, detection.place) # {}
    <2>1. table = [f \in FolderIds |-> IF f \in FolderAt(all, detection.place)
                    THEN [all[f] EXCEPT !.kind = detection.kind, !.enriched = e] ELSE all[f]]
      BY <1>2 DEF Upserted
    <2> HIDE DEF table
    <2>2. ASSUME NEW f \in FolderIds
          PROVE  /\ table[f] \in FolderRow \cup {None} /\ (table[f] = None <=> all[f] = None)
                 /\ all[f] # None => table[f].state = all[f].state /\ table[f].place = all[f].place
      <3>1. CASE f \in FolderAt(all, detection.place)
        <4>1. all[f] \in FolderRow /\ all[f] # None
          BY <1>0, <3>1 DEF FolderAt
        <4>2. table[f] = [all[f] EXCEPT !.kind = detection.kind, !.enriched = e]
          BY <2>1, <3>1
        <4>3. table[f] \in FolderRow /\ table[f].state = all[f].state /\ table[f].place = all[f].place
          BY <4>1, <4>2 DEF FolderRow, Detected
        <4> QED BY <1>n, <4>1, <4>3
      <3>2. CASE f \notin FolderAt(all, detection.place)
        BY <1>0, <2>1, <3>2
      <3> QED BY <3>1, <3>2
    <2>3. table \in FolderList
      <3>1. table = [f \in FolderIds |-> table[f]]
        BY <2>1
      <3> QED BY <2>2, <3>1 DEF FolderList
    <2> QED BY <2>2, <2>3 DEF table
  <1> QED BY <1>1, <1>2

LEMMA PreviewsKeep ==
  ASSUME FoldersInv,
         \/ \E places \in SUBSET Places : PreviewFolders(places)
         \/ \E i \in 1..Len(previews) : PreviewExpires(i)
  PROVE  FoldersInv'
  <1>1. UNCHANGED <<folders, check, folderSource, companionUp, wanted, readBefore>>
    BY DEF PreviewFolders, PreviewExpires
  <1>2. previews' \in Seq(Selected)
    <2>0. previews \in Seq(Selected)
      BY DEF FoldersInv, FoldersTyped
    <2>1. ASSUME NEW places \in SUBSET Places, PreviewFolders(places)
          PROVE  previews' \in Seq(Selected)
      <3>0. PICK items : items = {[detection |-> Inspect(q), relationship |-> Relationship(Inspect(q).place)] : q \in places}
        OBVIOUS
      <3>1. PICK p : p = [items |-> items, committed |-> None, expired |-> FALSE]
        OBVIOUS
      <3>2. \A q \in places : [detection |-> Inspect(q), relationship |-> Relationship(Inspect(q).place)]
                                \in [detection : Detected, relationship : {"duplicate", "new"}]
        BY InspectDetects DEF Relationship
      <3>5. items \subseteq [detection : Detected, relationship : {"duplicate", "new"}]
        BY <3>0, <3>2
      <3>3. p \in Selected
        <4>1. (SUBSET FolderIds) \cup {None} # {} /\ None \in (SUBSET FolderIds) \cup {None} /\ FALSE \in BOOLEAN
          OBVIOUS
        <4> QED BY <3>1, <3>5, <4>1 DEF Selected
      <3>4. previews' = Append(previews, p)
        BY <2>1, <3>0, <3>1 DEF PreviewFolders
      <3> QED BY <2>0, <3>3, <3>4
    <2>2. ASSUME NEW i \in 1..Len(previews), PreviewExpires(i)
          PROVE  previews' \in Seq(Selected)
      <3>1. previews[i] \in Selected
        BY <2>0
      <3>2. PICK p : p = [previews[i] EXCEPT !.expired = TRUE]
        OBVIOUS
      <3>3. p \in Selected
        BY <3>1, <3>2 DEF Selected
      <3>4. previews' = [previews EXCEPT ![i] = p]
        BY <2>2, <3>2 DEF PreviewExpires
      <3> QED BY <2>0, <3>3, <3>4
    <2> QED BY <2>1, <2>2
  <1> QED BY <1>1, <1>2 DEF FoldersInv, FoldersTyped, PlacesAreOnce, FoldersFollow, FolderChoicesStand, BeingRead

LEMMA RequestsKeepFolders ==
  ASSUME FoldersInv, FolderRequests
  PROVE  FoldersInv'
  <1>t. /\ folders \in FolderList /\ \A f \in FolderIds : folders[f] \in FolderRow \cup {None}
        /\ None \notin FolderRow
    BY FolderConstants DEF FoldersInv, FoldersTyped, FolderList, FolderRow, Kinds
  <1>1. ASSUME NEW f \in FolderIds, NEW state \in {"active", "paused"}, NEW e \in BOOLEAN, UpdateFolder(f, state, e)
        PROVE  FoldersInv'
    <2>1. /\ folders[f] \in FolderRow /\ UNCHANGED <<previews, check, folderSource, companionUp, readBefore>>
          /\ wanted' = [wanted EXCEPT ![f] = state]
      BY <1>1, <1>t DEF UpdateFolder
    <2>2. PICK row : row = [[folders[f] EXCEPT !.state = state] EXCEPT !.enriched = e]
      OBVIOUS
    <2>3. row \in FolderRow /\ row.state = state /\ row.place = folders[f].place
      BY <2>1, <2>2 DEF FolderRow
    <2>4. folders' = [folders EXCEPT ![f] = row]
      BY <1>1, <1>t, <2>2 DEF UpdateFolder, FolderList
    <2>5. /\ folders' \in FolderList /\ folders'[f] = row /\ \A g \in FolderIds \ {f} : folders'[g] = folders[g]
      BY <1>t, <2>3, <2>4 DEF FolderList
    <2>6. /\ wanted' \in [FolderIds -> {"none", "active", "paused", "removed"}] /\ wanted'[f] = state
          /\ \A g \in FolderIds \ {f} : wanted'[g] = wanted[g]
      BY <2>1 DEF FoldersInv, FoldersTyped
    <2>7. FoldersTyped'
      BY <2>1, <2>5, <2>6 DEF FoldersInv, FoldersTyped
    <2>8. PlacesAreOnce'
      BY <1>t, <2>1, <2>3, <2>5 DEF FoldersInv, PlacesAreOnce
    <2>9. FoldersFollow'
      <3>1. BeingRead' = BeingRead /\ row # None /\ folders[f] # None
        BY <1>t, <2>1, <2>3 DEF BeingRead
      <3>2. FolderChoicesStand'
        BY <2>1, <2>3, <2>5, <2>6, <3>1 DEF FoldersInv, FoldersFollow, FolderChoicesStand
      <3>3. \A g \in FolderIds : folders'[g] = None => folders[g] = None /\ wanted'[g] = wanted[g]
        BY <2>5, <2>6, <3>1
      <3>4. \A g \in BeingRead : g \in FolderIds
        BY ReadAreFolders DEF FoldersInv
      <3> QED BY <2>1, <3>1, <3>2, <3>3, <3>4 DEF FoldersInv, FoldersFollow
    <2> QED BY <2>7, <2>8, <2>9 DEF FoldersInv
  <1>2. ASSUME NEW f \in FolderIds, RemoveFolder(f)
        PROVE  FoldersInv'
    <2>1. /\ UNCHANGED <<previews, check, folderSource, companionUp>> /\ folders' = [folders EXCEPT ![f] = None]
          /\ wanted' = [wanted EXCEPT ![f] = "removed"]
          /\ readBefore' = IF f \in BeingRead THEN readBefore \cup {f} ELSE readBefore
      BY <1>2 DEF RemoveFolder
    <2>2. /\ folders' \in FolderList /\ folders'[f] = None /\ \A g \in FolderIds \ {f} : folders'[g] = folders[g]
      BY <1>t, <2>1 DEF FolderList
    <2>3. /\ wanted' \in [FolderIds -> {"none", "active", "paused", "removed"}] /\ wanted'[f] = "removed"
          /\ \A g \in FolderIds \ {f} : wanted'[g] = wanted[g]
      BY <2>1 DEF FoldersInv, FoldersTyped
    <2>4. FoldersTyped'
      BY <2>1, <2>2, <2>3 DEF FoldersInv, FoldersTyped
    <2>5. PlacesAreOnce'
      BY <2>2 DEF FoldersInv, PlacesAreOnce
    <2>6. FoldersFollow'
      <3>1. BeingRead' = BeingRead
        BY <2>1 DEF BeingRead
      <3> QED BY <2>1, <2>2, <2>3, <3>1 DEF FoldersInv, FoldersFollow, FolderChoicesStand
    <2> QED BY <2>4, <2>5, <2>6 DEF FoldersInv
  <1> QED BY <1>1, <1>2 DEF FolderRequests

\* A check lists the active folders and reads them; what it writes of one that is gone makes it new.
LEMMA ChecksKeep ==
  ASSUME FoldersInv,
         \/ StartCheck \/ EndCheck \/ \E readable \in BOOLEAN : FolderRead(readable)
         \/ check # None /\ \E entry \in check.todo : ReadFolder(entry)
  PROVE  FoldersInv'
  <1>t. /\ folders \in FolderList /\ \A f \in FolderIds : folders[f] \in FolderRow \cup {None}
        /\ None \notin FolderRow /\ None \notin FolderCheck /\ None \notin CheckedFolder
        /\ check \in FolderCheck \cup {None}
    BY FolderConstants DEF FoldersInv, FoldersTyped, FolderList, FolderRow, Kinds, FolderCheck, CheckedFolder, CheckEntry, Detected
  <1>1. ASSUME UNCHANGED <<folders, previews, folderSource, companionUp, wanted, readBefore>>,
               check' \in FolderCheck \cup {None},
               \A f \in BeingRead' : f \in BeingRead \/ folders[f] # None
        PROVE  FoldersInv'
    BY <1>1 DEF FoldersInv, FoldersTyped, PlacesAreOnce, FoldersFollow, FolderChoicesStand
  <1>2. CASE StartCheck
    <2> DEFINE active == {f \in FolderIds : folders[f] # None /\ folders[f].state = "active"}
               todo == {[id |-> f, place |-> folders[f].place, enriched |-> folders[f].enriched] : f \in active}
    <2>1. /\ check' = [todo |-> todo, at |-> None]
          /\ UNCHANGED <<folders, previews, folderSource, companionUp, wanted, readBefore>>
      BY <1>2 DEF StartCheck
    <2>2. \A e \in todo : e \in CheckEntry /\ folders[e.id] # None
      <3> SUFFICES ASSUME NEW f \in active
                   PROVE  LET e == [id |-> f, place |-> folders[f].place, enriched |-> folders[f].enriched] IN
                          e \in CheckEntry /\ folders[e.id] # None
        OBVIOUS
      <3>1. f \in FolderIds /\ folders[f] # None /\ folders[f] \in FolderRow
        BY <1>t
      <3>2. folders[f].place \in Places /\ folders[f].enriched \in BOOLEAN
        BY <3>1 DEF FolderRow
      <3> QED BY <3>1, <3>2 DEF CheckEntry
    <2> HIDE DEF todo
    <2>3. check' \in FolderCheck /\ check'.todo = todo /\ check'.at = None
      BY <2>1, <2>2 DEF FolderCheck
    <2>4. \A f \in BeingRead' : folders[f] # None
      BY <1>t, <2>2, <2>3 DEF BeingRead
    <2> QED BY <1>1, <2>1, <2>3, <2>4
  <1>3. CASE EndCheck
    BY <1>1, <1>3 DEF EndCheck, BeingRead
  <1>4. ASSUME check # None, NEW entry \in check.todo, ReadFolder(entry)
        PROVE  FoldersInv'
    <2>1. check \in FolderCheck /\ entry \in CheckEntry /\ entry.id \in FolderIds /\ entry.place \in Places
      BY <1>4, <1>t DEF FolderCheck, CheckEntry
    <2>2. PICK at : at = [id |-> entry.id, enriched |-> entry.enriched, detection |-> Inspect(entry.place)]
      OBVIOUS
    <2>3. at \in CheckedFolder /\ at.id = entry.id
      BY <2>1, <2>2, InspectDetects DEF CheckedFolder, CheckEntry
    <2>4. /\ check' = [[check EXCEPT !.todo = @ \ {entry}] EXCEPT !.at = at] /\ check.at = None
          /\ UNCHANGED <<folders, previews, folderSource, companionUp, wanted, readBefore>>
      BY <1>4, <2>2 DEF ReadFolder
    <2>5. check' \in FolderCheck /\ check'.todo = check.todo \ {entry} /\ check'.at = at
      BY <2>1, <2>3, <2>4 DEF FolderCheck
    <2>6. BeingRead' \subseteq BeingRead
      <3> SUFFICES ASSUME NEW f \in BeingRead' PROVE f \in BeingRead
        OBVIOUS
      <3>1. f \in FolderIds /\ ((\E e \in check.todo : e.id = f) \/ f = entry.id)
        BY <1>t, <2>1, <2>3, <2>5 DEF BeingRead
      <3> QED BY <1>4, <2>1, <3>1 DEF BeingRead
    <2> QED BY <1>1, <2>4, <2>5, <2>6
  <1>5. ASSUME NEW readable \in BOOLEAN, FolderRead(readable)
        PROVE  FoldersInv'
    <2>1. PICK at : at = check.at
      OBVIOUS
    <2>2. at \in CheckedFolder /\ check \in FolderCheck /\ check # None /\ at # None
      BY <1>5, <1>t, <2>1 DEF FolderRead, FolderCheck
    <2>3. at.id \in FolderIds /\ at.detection \in Detected /\ at.enriched \in BOOLEAN /\ at.id \in BeingRead
      BY <2>1, <2>2 DEF CheckedFolder, BeingRead
    <2>4. /\ check' = IF Clashes(folders, at.id, at.detection) \/ ~readable THEN None ELSE [check EXCEPT !.at = None]
          /\ folders' = IF Clashes(folders, at.id, at.detection) THEN folders ELSE Upserted(folders, at.id, at.detection, at.enriched)
          /\ UNCHANGED <<previews, folderSource, companionUp, wanted, readBefore>>
      BY <1>5, <2>1 DEF FolderRead
    <2>5. check' \in FolderCheck \cup {None} /\ BeingRead' \subseteq BeingRead
      <3>1. CASE check' = None
        BY <3>1 DEF BeingRead
      <3>2. CASE check' = [check EXCEPT !.at = None]
        <4>1. check' \in FolderCheck /\ check'.todo = check.todo /\ check'.at = None
          BY <2>2, <3>2 DEF FolderCheck
        <4> QED BY <2>2, <4>1 DEF BeingRead
      <3> QED BY <2>4, <3>1, <3>2
    <2>6. CASE Clashes(folders, at.id, at.detection)
      BY <1>1, <2>4, <2>5, <2>6
    <2>7. CASE ~Clashes(folders, at.id, at.detection)
      <3>1. /\ folders' \in FolderList
            /\ \A f \in FolderIds : folders[f] # None => folders'[f] # None /\ folders'[f].state = folders[f].state
                                                         /\ folders'[f].place = folders[f].place
            /\ \A f \in FolderIds : folders[f] = None /\ folders'[f] # None =>
                 f = at.id /\ folders'[f].state = "active" /\ folders'[f].place = at.detection.place
                 /\ FolderAt(folders, at.detection.place) = {}
        BY <1>t, <2>3, <2>4, <2>7, UpsertedRows DEF FoldersInv, PlacesAreOnce
      <3>2. FoldersTyped'
        BY <2>4, <2>5, <3>1 DEF FoldersInv, FoldersTyped
      <3>3. PlacesAreOnce'
        BY <3>1 DEF FoldersInv, PlacesAreOnce, FolderAt
      <3>4. FolderChoicesStand'
        BY <2>3, <2>4, <3>1 DEF FoldersInv, FoldersFollow, FolderChoicesStand
      <3>5. FoldersFollow'
        BY <2>4, <2>5, <3>1, <3>4 DEF FoldersInv, FoldersFollow, BeingRead
      <3> QED BY <3>2, <3>3, <3>5 DEF FoldersInv
    <2> QED BY <2>6, <2>7
  <1> QED BY <1>2, <1>3, <1>4, <1>5

\* A commit renews the rows it found and adds folders that were never there.
LEMMA CommitsKeep ==
  ASSUME FoldersInv, NEW i \in 1..Len(previews), NEW confirmed \in BOOLEAN, NEW named \in SUBSET Places,
         NEW ids \in [named -> FolderIds], CommitFolders(i, confirmed, ids)
  PROVE  FoldersInv'
  <1>t. /\ folders \in FolderList /\ \A f \in FolderIds : folders[f] \in FolderRow \cup {None}
        /\ None \notin FolderRow /\ previews \in Seq(Selected)
    BY FolderConstants DEF FoldersInv, FoldersTyped, FolderList, FolderRow, Kinds
  <1>s. previews[i] \in Selected
    BY <1>t
  <1> DEFINE detections == {item.detection : item \in previews[i].items}
             new == {d \in detections : FolderAt(folders, d.place) = {}}
             found(f) == CHOOSE d \in detections : d.place = folders[f].place
             touched == UNION {FolderAt(folders, d.place) : d \in detections}
             added == {ids[p] : p \in DOMAIN ids}
             row(f) == CASE f \in touched -> [folders[f] EXCEPT !.kind = found(f).kind, !.enriched = found(f).kind = "sdd"]
                         [] f \in added ->
                              LET d == CHOOSE e \in new : ids[e.place] = f IN Folder(d.place, "active", d.kind, d.kind = "sdd")
                         [] OTHER -> folders[f]
  <1>1. detections \subseteq Detected
    <2> SUFFICES ASSUME NEW item \in previews[i].items PROVE item.detection \in Detected
      BY SMTT(30)
    <2> QED BY <1>s DEF Selected
  <1>2. /\ DOMAIN ids = {d.place : d \in new} /\ \A p, q \in DOMAIN ids : p # q => ids[p] # ids[q]
        /\ \A p \in DOMAIN ids : folders[ids[p]] = None /\ wanted[ids[p]] = "none" /\ ids[p] \notin LegacyFolders
    BY Zenon DEF CommitFolders
  <1>3. folders' = [f \in FolderIds |-> row(f)]
    BY Zenon DEF CommitFolders
  <1>4. /\ wanted' = [f \in FolderIds |-> IF \E p \in DOMAIN ids : ids[p] = f THEN "active" ELSE wanted[f]]
        /\ previews' = [previews EXCEPT ![i].committed = touched \cup added]
        /\ folderSource' = TRUE /\ UNCHANGED <<check, companionUp, readBefore>>
    BY Zenon DEF CommitFolders
  <1>5. \A f \in touched : f \in FolderIds /\ folders[f] # None /\ f \notin added
                           /\ \E d \in detections : d.place = folders[f].place
    BY <1>2 DEF FolderAt
  <1>6. \A f \in added : f \in FolderIds /\ folders[f] = None /\ wanted[f] = "none" /\ \E e \in new : ids[e.place] = f
    BY <1>2
  <1> HIDE DEF touched, added, found, row
  <1>7. ASSUME NEW f \in touched
        PROVE  /\ folders'[f] \in FolderRow
               /\ folders'[f].state = folders[f].state /\ folders'[f].place = folders[f].place
    <2>1. f \in FolderIds /\ folders[f] \in FolderRow
      BY <1>5, <1>7, <1>t
    <2>2. PICK d : d = found(f)
      OBVIOUS
    <2>3. d \in Detected
      BY <1>1, <1>5, <1>7, <2>2 DEF found
    <2>4. folders'[f] = [folders[f] EXCEPT !.kind = d.kind, !.enriched = d.kind = "sdd"]
      <3>1. folders'[f] = row(f)
        BY <1>3, <2>1
      <3> QED BY <1>5, <1>7, <2>2, <3>1 DEF row
    <2> QED BY <2>1, <2>3, <2>4 DEF FolderRow, Detected
  <1>8. ASSUME NEW f \in added
        PROVE  \E d \in new : ids[d.place] = f /\ folders'[f] = Folder(d.place, "active", d.kind, d.kind = "sdd")
    <2>1. f \in FolderIds /\ f \notin touched
      BY <1>5, <1>6, <1>8
    <2>2. PICK d : d = CHOOSE e \in new : ids[e.place] = f
      OBVIOUS
    <2>3. d \in new /\ ids[d.place] = f
      BY <1>6, <1>8, <2>2
    <2>4. folders'[f] = Folder(d.place, "active", d.kind, d.kind = "sdd")
      <3>1. folders'[f] = row(f)
        BY <1>3, <2>1
      <3> QED BY <1>8, <2>1, <2>2, <3>1 DEF row
    <2> QED BY <2>3, <2>4
  <1>9. ASSUME NEW f \in FolderIds, f \notin touched, f \notin added
        PROVE  folders'[f] = folders[f]
    <2>1. folders'[f] = row(f)
      BY <1>3
    <2> QED BY <1>9, <2>1 DEF row
  <1>10. \A f \in added : folders'[f] \in FolderRow /\ folders'[f].state = "active" /\ folders'[f] # None
                          /\ FolderAt(folders, folders'[f].place) = {} /\ ids[folders'[f].place] = f
                          /\ folders'[f].place \in DOMAIN ids
    <2> SUFFICES ASSUME NEW f \in added
                 PROVE  /\ folders'[f] \in FolderRow /\ folders'[f].state = "active" /\ folders'[f] # None
                        /\ FolderAt(folders, folders'[f].place) = {} /\ ids[folders'[f].place] = f
                        /\ folders'[f].place \in DOMAIN ids
      OBVIOUS
    <2>1. PICK d \in new : ids[d.place] = f /\ folders'[f] = Folder(d.place, "active", d.kind, d.kind = "sdd")
      BY <1>8
    <2>2. d \in Detected /\ FolderAt(folders, d.place) = {} /\ d.place \in DOMAIN ids
      BY <1>1, <1>2
    <2>3. folders'[f] \in FolderRow /\ folders'[f].state = "active" /\ folders'[f].place = d.place
      BY <2>1, <2>2 DEF Folder, FolderRow, Detected
    <2> QED BY <1>t, <2>1, <2>2, <2>3
  <1>11. FoldersTyped'
    <2>1. \A f \in FolderIds : folders'[f] \in FolderRow \cup {None}
      BY <1>t, <1>7, <1>9, <1>10
    <2>2. folders' = [f \in FolderIds |-> folders'[f]]
      BY <1>3
    <2>3. folders' \in FolderList
      BY <2>1, <2>2 DEF FolderList
    <2>4. previews' \in Seq(Selected)
      <3>1. PICK committed : committed = touched \cup added
        OBVIOUS
      <3>2. committed \in SUBSET FolderIds
        BY <1>5, <1>6, <3>1
      <3>3. PICK p : p = [previews[i] EXCEPT !.committed = committed]
        OBVIOUS
      <3>4. p \in Selected
        BY <1>s, <3>2, <3>3 DEF Selected
      <3>5. previews' = [previews EXCEPT ![i] = p]
        BY <1>4, <3>1, <3>3
      <3> QED BY <1>t, <3>4, <3>5
    <2> QED BY <1>4, <2>3, <2>4 DEF FoldersInv, FoldersTyped
  <1>12. PlacesAreOnce'
    <2> SUFFICES ASSUME NEW f \in FolderIds, NEW g \in FolderIds, folders'[f] # None, folders'[g] # None,
                        folders'[f].place = folders'[g].place
                 PROVE  f = g
      BY DEF PlacesAreOnce
    <2>1. \A h \in FolderIds : h \notin added /\ folders'[h] # None =>
            folders[h] # None /\ folders'[h].place = folders[h].place
      BY <1>5, <1>7, <1>9
    <2>2. CASE f \notin added /\ g \notin added
      BY <2>1, <2>2 DEF FoldersInv, PlacesAreOnce
    <2>3. CASE f \in added /\ g \in added
      BY <1>10, <2>3
    <2>4. CASE f \in added /\ g \notin added
      BY <1>10, <2>1, <2>4 DEF FolderAt
    <2>5. CASE f \notin added /\ g \in added
      BY <1>10, <2>1, <2>5 DEF FolderAt
    <2> QED BY <2>2, <2>3, <2>4, <2>5
  <1>13. FoldersFollow'
    <2>1. \A f \in FolderIds : wanted'[f] = IF f \in added THEN "active" ELSE wanted[f]
      <3>1. \A f : f \in added <=> \E p \in DOMAIN ids : ids[p] = f
        BY DEF added
      <3> QED BY <1>4, <3>1
    <2>2. BeingRead' = BeingRead /\ BeingRead \subseteq FolderIds
      BY <1>4, ReadAreFolders DEF BeingRead, FoldersInv
    <2>3. FolderChoicesStand'
      <3> SUFFICES ASSUME NEW f \in FolderIds, folders'[f] # None
                   PROVE  folders'[f].state = wanted'[f] \/ (wanted'[f] = "removed" /\ f \in readBefore' \cup LegacyFolders)
        BY DEF FolderChoicesStand
      <3>1. CASE f \in added
        BY <1>10, <2>1, <3>1
      <3>2. CASE f \notin added
        <4>1. folders[f] # None /\ folders'[f].state = folders[f].state
          BY <1>5, <1>7, <1>9, <3>2
        <4> QED BY <1>4, <2>1, <3>2, <4>1 DEF FoldersInv, FoldersFollow, FolderChoicesStand
      <3> QED BY <3>1, <3>2
    <2>4. \A f \in FolderIds : folders'[f] = None => folders[f] = None /\ wanted'[f] = wanted[f]
      BY <1>t, <1>7, <1>9, <1>10, <2>1
    <2> QED BY <1>4, <2>2, <2>3, <2>4 DEF FoldersInv, FoldersFollow
  <1> QED BY <1>11, <1>12, <1>13 DEF FoldersInv

\* A start renews or adds the row of an earlier folder, and forgets previews and the check.
LEMMA StartsKeep ==
  ASSUME FoldersInv, NEW f \in LegacyFolders, RestartWithFolders(f)
  PROVE  FoldersInv'
  <1>t. /\ folders \in FolderList /\ \A g \in FolderIds : folders[g] \in FolderRow \cup {None}
        /\ f \in FolderIds /\ LegacyIdOf[f] \in Places
    BY FolderConstants DEF FoldersInv, FoldersTyped, FolderList
  <1>1. PICK detection : detection = Inspect(LegacyIdOf[f])
    OBVIOUS
  <1>2. detection \in Detected
    BY <1>1, <1>t, InspectDetects
  <1>3. /\ folders' = IF Clashes(folders, f, detection) THEN folders ELSE Upserted(folders, f, detection, TRUE)
        /\ wanted' = IF wanted[f] = "none" /\ folders'[f] # None THEN [wanted EXCEPT ![f] = "active"] ELSE wanted
        /\ companionUp' \in BOOLEAN /\ folderSource' \in BOOLEAN
        /\ previews' = << >> /\ check' = None /\ readBefore' = readBefore
    BY <1>1 DEF RestartWithFolders, FoldersInv, FoldersTyped
  <1>4. /\ folders' \in FolderList
        /\ \A g \in FolderIds : folders[g] # None => folders'[g] # None /\ folders'[g].state = folders[g].state
                                                     /\ folders'[g].place = folders[g].place
        /\ \A g \in FolderIds : folders[g] = None /\ folders'[g] # None =>
             g = f /\ folders'[g].state = "active" /\ folders'[g].place = detection.place
             /\ FolderAt(folders, detection.place) = {}
    <2>1. CASE Clashes(folders, f, detection)
      BY <1>3, <1>t, <2>1
    <2>2. CASE ~Clashes(folders, f, detection)
      <3>1. PICK e : e = TRUE
        OBVIOUS
      <3>2. folders' = Upserted(folders, f, detection, e) /\ e \in BOOLEAN
        BY <1>3, <2>2, <3>1
      <3>3. \A g, h \in FolderIds : folders[g] # None /\ folders[h] # None /\ folders[g].place = folders[h].place => g = h
        BY DEF FoldersInv, PlacesAreOnce
      <3> QED BY <1>2, <1>t, <2>2, <3>2, <3>3, UpsertedRows
    <2> QED BY <2>1, <2>2
  <1>5. /\ wanted' \in [FolderIds -> {"none", "active", "paused", "removed"}]
        /\ \A g \in FolderIds \ {f} : wanted'[g] = wanted[g]
        /\ wanted'[f] = IF wanted[f] = "none" /\ folders'[f] # None THEN "active" ELSE wanted[f]
    BY <1>3, <1>t DEF FoldersInv, FoldersTyped
  <1>6. BeingRead' = {} /\ previews' \in Seq(Selected)
    BY <1>3 DEF BeingRead
  <1>7. FoldersTyped'
    BY <1>3, <1>4, <1>5, <1>6 DEF FoldersInv, FoldersTyped
  <1>8. PlacesAreOnce'
    BY <1>4 DEF FoldersInv, PlacesAreOnce, FolderAt
  <1>9. FolderChoicesStand'
    <2> SUFFICES ASSUME NEW g \in FolderIds, folders'[g] # None
                 PROVE  folders'[g].state = wanted'[g] \/ (wanted'[g] = "removed" /\ g \in readBefore' \cup LegacyFolders)
      BY DEF FolderChoicesStand
    <2>1. CASE folders[g] = None
      BY <1>4, <1>5, <1>t, <2>1 DEF FoldersInv, FoldersFollow
    <2>2. CASE folders[g] # None
      <3>1. folders[g] \in FolderRow /\ folders[g].state # "none"
        BY <1>t, <2>2 DEF FolderRow
      <3>2. folders[g].state = wanted[g] \/ (wanted[g] = "removed" /\ g \in readBefore \cup LegacyFolders)
        BY <2>2 DEF FoldersInv, FoldersFollow, FolderChoicesStand
      <3>3. wanted'[g] = wanted[g]
        BY <1>5, <3>1, <3>2
      <3> QED BY <1>3, <1>4, <2>2, <3>2, <3>3
    <2> QED BY <2>1, <2>2
  <1>10. \A g \in FolderIds : folders'[g] = None => wanted'[g] \in {"none", "removed"}
    BY <1>4, <1>5, <1>t DEF FoldersInv, FoldersFollow
  <1> QED BY <1>6, <1>7, <1>8, <1>9, <1>10 DEF FoldersInv, FoldersFollow

LEMMA FoldersStep == FoldersInv /\ [FoldersNext]_folderVars => FoldersInv'
  <1> SUFFICES ASSUME FoldersInv, [FoldersNext]_folderVars PROVE FoldersInv'
    OBVIOUS
  <1>1. ASSUME UNCHANGED <<folders, previews, check, folderSource, companionUp, wanted, readBefore>>
        PROVE  FoldersInv'
    BY <1>1 DEF FoldersInv, FoldersTyped, PlacesAreOnce, FoldersFollow, FolderChoicesStand, BeingRead
  <1>2. CASE UNCHANGED folderVars
    BY <1>1, <1>2 DEF folderVars
  <1>3. ASSUME NEW place \in Places, NEW content \in Kinds \cup {None}, DiskChanges(place, content)
        PROVE  FoldersInv'
    BY <1>1, <1>3 DEF DiskChanges
  <1> QED BY <1>2, <1>3, PreviewsKeep, RequestsKeepFolders, ChecksKeep, CommitsKeep, StartsKeep DEF FoldersNext

\* What the invariant says of a person's choices.
LEMMA FoldersStand == FoldersInv => FolderChoicesStand
  BY DEF FoldersInv, FoldersFollow

-----------------------------------------------------------------------------
(* Reconciliation.                                                         *)
AnySource == WorkSources \cup {Unknown}

\* A run that was given up or goes on has a result or is to check what it was asked for, what it
\* reads is left, and what is switched off is of no class.
RunIsSound(run) ==
  /\ run.left \subseteq run.wanted
  /\ run.reading # None => run.state = "running" /\ run.reading.source \in run.left
  /\ \A s \in AnySource : run.results[s] # None =>
       s \in run.wanted /\ (run.results[s].state = "skipped" => run.results[s].class = None)
  /\ run.state = "running" => \A s \in run.wanted : s \in run.left \/ run.results[s] # None

\* A run is complete as CompleteIsEarned says.
RunIsEarned(run) == run.state = "complete" =>
  /\ \A s \in run.wanted :
       /\ run.results[s] # None /\ run.results[s].state \in {"checked", "skipped"}
       /\ run.results[s].class \notin {"duplicate", "unresolved"}
  /\ \E s \in run.wanted : run.results[s].state = "checked"

RunsSound ==
  /\ runs \in [CheckRuns -> Run \cup {None}]
  /\ history \in Seq(CheckRuns) /\ \A n \in 1..Len(history) : runs[history[n]] \in Run
  /\ \A r \in CheckRuns : runs[r] # None => runs[r] \in Run /\ RunIsSound(runs[r]) /\ RunIsEarned(runs[r])

\* The rows, and that of the own tickets nothing is made.
RowsSound ==
  /\ origins \in [WorkSources -> Origin \cup {None}] /\ descriptors \in [WorkSources -> Setting]
  /\ saved \in [WorkSources -> Fingerprints \cup {None}]
  /\ made \in [WorkSources -> Fingerprints \cup {None}]
  /\ linked \in [WorkSources -> Fingerprints \cup {Untouched, None}]
  /\ made[TicketSource] = None
  /\ ChangesReachTickets

ReconciliationInv == RunsSound /\ RowsSound

LEMMA ReconciliationStart == ReconciliationInit => ReconciliationInv
  <1> SUFFICES ASSUME ReconciliationInit PROVE ReconciliationInv
    OBVIOUS
  <1>1. RunsSound
    BY DEF ReconciliationInit, RunsSound
  <1>2. origins \in [WorkSources -> Origin \cup {None}]
    BY DEF ReconciliationInit, Origin, Flaws
  <1>3. descriptors \in [WorkSources -> Setting]
    BY DEF ReconciliationInit, Defaults, Setting, Policies
  <1>4. RowsSound
    BY <1>2, <1>3, ReconciliationConstants DEF ReconciliationInit, RowsSound, ChangesReachTickets
  <1> QED BY <1>1, <1>4 DEF ReconciliationInv

\* What a step does to the row of one run.
LEMMA RunWritten ==
  ASSUME RunsSound, NEW r \in CheckRuns, NEW run \in Run, RunIsSound(run), RunIsEarned(run),
         runs' = [runs EXCEPT ![r] = run], UNCHANGED history
  PROVE  RunsSound'
  <1>1. runs' \in [CheckRuns -> Run \cup {None}]
    BY DEF RunsSound
  <1>2. history' \in Seq(CheckRuns) /\ \A n \in 1..Len(history') : history'[n] \in CheckRuns
    BY DEF RunsSound
  <1>3. \A n \in 1..Len(history') : runs'[history'[n]] \in Run
    BY <1>2 DEF RunsSound
  <1>4. ASSUME NEW q \in CheckRuns, runs'[q] # None
        PROVE  runs'[q] \in Run /\ RunIsSound(runs'[q]) /\ RunIsEarned(runs'[q])
    BY <1>4 DEF RunsSound
  <1>5. \A q \in CheckRuns : runs[q]' # None => runs[q]' \in Run /\ RunIsSound(runs[q])' /\ RunIsEarned(runs[q])'
    BY <1>4 DEF RunIsSound, RunIsEarned
  <1> QED BY <1>1, <1>2, <1>3, <1>5 DEF RunsSound

LEMMA RunsRest ==
  ASSUME RunsSound, UNCHANGED <<runs, history>>
  PROVE  RunsSound'
  BY DEF RunsSound, RunIsSound, RunIsEarned

\* A run that starts.
LEMMA StartedKeeps ==
  ASSUME RunsSound, NEW r \in CheckRuns, NEW asks \in SUBSET AnySource, Started(r, asks)
  PROVE  RunsSound'
  <1> DEFINE run == [state |-> "running", wanted |-> asks, left |-> asks, reading |-> None,
                     results |-> [s \in WorkSources \cup {Unknown} |-> None]]
  <1>1. run \in Run
    BY DEF Run, AnySource
  <1>2. RunIsSound(run) /\ RunIsEarned(run)
    BY DEF RunIsSound, RunIsEarned, AnySource
  <1>3. runs' = [runs EXCEPT ![r] = run] /\ history' = <<r>> \o history
    BY DEF Started
  <1> HIDE DEF run
  <1>4. runs' \in [CheckRuns -> Run \cup {None}] /\ runs'[r] = run
    BY <1>1, <1>3 DEF RunsSound
  <1>5. history' \in Seq(CheckRuns) /\ \A n \in 1..Len(history') : history'[n] = r \/ \E k \in 1..Len(history) : history'[n] = history[k]
    <2>1. history \in Seq(CheckRuns) /\ <<r>> \in Seq(CheckRuns) /\ Len(<<r>>) = 1 /\ <<r>>[1] = r
      BY DEF RunsSound
    <2>2. history' \in Seq(CheckRuns) /\ Len(history') = 1 + Len(history)
          /\ \A n \in 1..Len(history') : history'[n] = IF n <= 1 THEN <<r>>[n] ELSE history[n - 1]
      BY <1>3, <2>1, ConcatProperties
    <2>3. ASSUME NEW n \in 1..Len(history')
          PROVE  history'[n] = r \/ \E k \in 1..Len(history) : history'[n] = history[k]
      <3>1. CASE n = 1
        <4>1. history'[n] = <<r>>[n]
          BY <2>2, <3>1
        <4> QED BY <2>1, <3>1, <4>1
      <3>2. CASE n # 1
        <4>1. Len(history) \in Nat
          BY <2>1
        <4>2. n - 1 \in 1..Len(history) /\ history'[n] = history[n - 1]
          BY <2>2, <3>2, <4>1
        <4> QED BY <4>2
      <3> QED BY <3>1, <3>2
    <2> QED BY <2>2, <2>3
  <1>6. \A n \in 1..Len(history') : runs'[history'[n]] \in Run
    <2> SUFFICES ASSUME NEW n \in 1..Len(history') PROVE runs'[history'[n]] \in Run
      OBVIOUS
    <2>1. CASE history'[n] = r
      BY <1>1, <1>4, <2>1
    <2>2. ASSUME NEW k \in 1..Len(history), history'[n] = history[k] PROVE runs'[history'[n]] \in Run
      <3>1. history[k] \in CheckRuns /\ runs[history[k]] \in Run
        BY DEF RunsSound
      <3> QED BY <1>1, <1>3, <2>2, <3>1 DEF RunsSound
    <2> QED BY <1>5, <2>1, <2>2
  <1>7. ASSUME NEW q \in CheckRuns, runs'[q] # None
        PROVE  runs'[q] \in Run /\ RunIsSound(runs'[q]) /\ RunIsEarned(runs'[q])
    BY <1>1, <1>2, <1>3, <1>7 DEF RunsSound
  <1>8. \A q \in CheckRuns : runs[q]' # None => runs[q]' \in Run /\ RunIsSound(runs[q])' /\ RunIsEarned(runs[q])'
    BY <1>7 DEF RunIsSound, RunIsEarned
  <1> QED BY <1>4, <1>5, <1>6, <1>8 DEF RunsSound

\* What a retry asks for was asked for before.
LEMMA RetryKeeps ==
  ASSUME RunsSound, NEW prior \in CheckRuns, runs[prior] \in Run, NEW r \in CheckRuns, NEW requested, RetryRun(prior, r, requested)
  PROVE  RunsSound' /\ UNCHANGED <<origins, descriptors, saved, made, linked>> /\ runs[r] = None
         /\ \A q \in CheckRuns \ {r} : runs'[q] = runs[q]
  <1>1. runs[prior].wanted \in SUBSET AnySource
    BY DEF Run, AnySource
  <1>2. PICK asks \in SUBSET AnySource : Started(r, asks)
    BY <1>1 DEF RetryRun
  <1> QED BY <1>2, StartedKeeps DEF Started, RunsSound

\* Every way a run is started.
Starts ==
  \/ RunsAsked
  \/ \E r \in CheckRuns, requested \in Wishes : FirstRefresh(r, requested)

LEMMA RunsStartKeep ==
  ASSUME RunsSound, Starts
  PROVE  RunsSound' /\ UNCHANGED <<origins, descriptors, saved, made, linked>>
         /\ \A q \in CheckRuns : runs[q] # None => runs'[q] = runs[q]
  <1>1. ASSUME NEW r \in CheckRuns, NEW asks \in SUBSET AnySource, Started(r, asks)
        PROVE  RunsSound' /\ UNCHANGED <<origins, descriptors, saved, made, linked>>
               /\ \A q \in CheckRuns : runs[q] # None => runs'[q] = runs[q]
    BY <1>1, StartedKeeps DEF Started, RunsSound
  <1>2. ASSUME NEW requested \in Wishes PROVE requested \in SUBSET AnySource
    BY ReconciliationConstants DEF AnySource
  <1>3. WorkSources \in SUBSET AnySource /\ {TicketSource} \cup Offered \in SUBSET AnySource
    BY ReconciliationConstants DEF AnySource, Offered
  <1>4. ASSUME NEW r \in CheckRuns, NEW requested \in Wishes, StartRun(r, requested)
        PROVE  \E asks \in SUBSET AnySource : Started(r, asks)
    BY <1>2, <1>3, <1>4 DEF StartRun
  <1>5. ASSUME NEW r \in CheckRuns, NEW requested \in Wishes, FirstRefresh(r, requested)
        PROVE  \E asks \in SUBSET AnySource : Started(r, asks)
    BY <1>3, <1>5 DEF FirstRefresh
  <1>6. ASSUME NEW prior \in CheckRuns, NEW r \in CheckRuns, runs[prior] # None, RetryRun(prior, r, {})
        PROVE  RunsSound' /\ UNCHANGED <<origins, descriptors, saved, made, linked>>
               /\ \A q \in CheckRuns : runs[q] # None => runs'[q] = runs[q]
    <2>1. runs[prior] \in Run
      BY <1>6 DEF RunsSound
    <2> QED BY <1>6, <2>1, RetryKeeps
  <1>7. ASSUME NEW r \in CheckRuns, NEW s \in WorkSources, RetrySource(r, s)
        PROVE  RunsSound' /\ UNCHANGED <<origins, descriptors, saved, made, linked>>
               /\ \A q \in CheckRuns : runs[q] # None => runs'[q] = runs[q]
    <2>1. PICK prior : prior = history[1]
      OBVIOUS
    <2>2. history # << >> /\ RetryRun(prior, r, {s})
      BY <1>7, <2>1 DEF RetrySource
    <2>3. prior \in CheckRuns /\ runs[prior] \in Run
      <3>1. 1 \in 1..Len(history)
        BY <2>2 DEF RunsSound
      <3> QED BY <2>1, <3>1 DEF RunsSound
    <2> QED BY <2>2, <2>3, RetryKeeps
  <1> QED BY <1>1, <1>4, <1>5, <1>6, <1>7 DEF Starts, RunsAsked

\* A restart gives up the runs under way.
LEMMA RestartKeepsRuns ==
  ASSUME RunsSound, RestartCompanion
  PROVE  RunsSound'
  <1> DEFINE row(r) == IF Interrupted(r) THEN [runs[r] EXCEPT !.state = "failed", !.left = {}, !.reading = None] ELSE runs[r]
  <1>1. runs' = [r \in CheckRuns |-> row(r)] /\ UNCHANGED history
    BY DEF RestartCompanion
  <1>2. ASSUME NEW r \in CheckRuns, Interrupted(r)
        PROVE  row(r) \in Run /\ RunIsSound(row(r)) /\ RunIsEarned(row(r))
    <2>1. runs[r] \in Run /\ RunIsSound(runs[r])
      BY <1>2 DEF RunsSound, Interrupted
    <2>2. PICK run : run = [runs[r] EXCEPT !.state = "failed", !.left = {}, !.reading = None]
      OBVIOUS
    <2>3. /\ run \in Run /\ run.state = "failed" /\ run.left = {} /\ run.reading = None
          /\ run.wanted = runs[r].wanted /\ run.results = runs[r].results
      BY <2>1, <2>2 DEF Run, EndedStates
    <2>4. RunIsSound(run) /\ RunIsEarned(run)
      BY <2>1, <2>3 DEF RunIsSound, RunIsEarned
    <2> QED BY <1>2, <2>2, <2>3, <2>4
  <1>3. ASSUME NEW r \in CheckRuns, ~Interrupted(r)
        PROVE  row(r) = runs[r]
    BY <1>3
  <1> HIDE DEF row
  <1>4. \A r \in CheckRuns : runs'[r] = row(r)
    BY <1>1
  <1>5. ASSUME NEW r \in CheckRuns
        PROVE  /\ runs'[r] \in Run \cup {None} /\ (runs[r] \in Run => runs'[r] \in Run)
               /\ runs'[r] # None => runs'[r] \in Run /\ RunIsSound(runs'[r]) /\ RunIsEarned(runs'[r])
    <2>1. CASE Interrupted(r)
      <3>1. PICK run : run = row(r)
        OBVIOUS
      <3>2. run \in Run /\ RunIsSound(run) /\ RunIsEarned(run) /\ runs'[r] = run
        BY <1>2, <1>4, <2>1, <3>1
      <3> QED BY <3>2
    <2>2. CASE ~Interrupted(r)
      BY <1>3, <1>4, <2>2 DEF RunsSound
    <2> QED BY <2>1, <2>2
  <1>6. runs' \in [CheckRuns -> Run \cup {None}]
    BY <1>1, <1>4, <1>5
  <1>7. \A q \in CheckRuns : runs[q]' # None => runs[q]' \in Run /\ RunIsSound(runs[q])' /\ RunIsEarned(runs[q])'
    BY <1>5 DEF RunIsSound, RunIsEarned
  <1>8. \A n \in 1..Len(history) : history[n] \in CheckRuns /\ runs[history[n]] \in Run
    BY DEF RunsSound
  <1>9. history' \in Seq(CheckRuns) /\ \A n \in 1..Len(history') : runs'[history'[n]] \in Run
    BY <1>1, <1>5, <1>8 DEF RunsSound
  <1> QED BY <1>6, <1>7, <1>9 DEF RunsSound

\* A run of which a source has its result.
LEMMA ResultedKeeps ==
  ASSUME RunsSound, NEW r \in CheckRuns, NEW s \in AnySource, runs[r] # None, runs[r].state = "running",
         s \in runs[r].left, NEW state \in {"checked", "failed", "skipped", "unavailable"},
         NEW class \in Classes \cup {None}, state = "skipped" => class = None,
         Resulted(r, s, state, class), UNCHANGED history
  PROVE  RunsSound'
  <1>1. runs[r] \in Run /\ RunIsSound(runs[r])
    BY DEF RunsSound
  <1>2. PICK result : result = [state |-> state, class |-> class]
    OBVIOUS
  <1>3. result \in SourceResult /\ result # None /\ result.state = state /\ result.class = class
    BY <1>2, ResultConstants DEF SourceResult
  <1>4. PICK run : run = [runs[r] EXCEPT !.left = @ \ {s}, !.reading = None, !.results[s] = result]
    OBVIOUS
  <1>5. runs' = [runs EXCEPT ![r] = run]
    BY <1>2, <1>4 DEF Resulted, RunsSound
  <1>6. PICK results : results = [runs[r].results EXCEPT ![s] = result]
    OBVIOUS
  <1>7. results \in [WorkSources \cup {Unknown} -> SourceResult \cup {None}]
    <2>1. runs[r].results \in [WorkSources \cup {Unknown} -> SourceResult \cup {None}]
      BY <1>1 DEF Run
    <2> QED BY <1>3, <1>6, <2>1 DEF AnySource
  <1>8. /\ run.state = "running" /\ run.wanted = runs[r].wanted /\ run.left = runs[r].left \ {s}
        /\ run.reading = None /\ run.results = results /\ run \in Run
    <2>1. run = [state |-> runs[r].state, wanted |-> runs[r].wanted, left |-> runs[r].left \ {s},
                 reading |-> None, results |-> results]
      BY <1>1, <1>4, <1>6 DEF Run
    <2>2. runs[r].left \ {s} \in SUBSET (WorkSources \cup {Unknown}) /\ runs[r].wanted \in SUBSET (WorkSources \cup {Unknown})
      BY <1>1 DEF Run
    <2> QED BY <1>7, <2>1, <2>2 DEF Run
  <1>9. \A q \in AnySource : run.results[q] = IF q = s THEN result ELSE runs[r].results[q]
    <2>1. runs[r].results \in [WorkSources \cup {Unknown} -> SourceResult \cup {None}]
      BY <1>1 DEF Run
    <2> QED BY <1>6, <1>8, <2>1 DEF AnySource
  <1>10. RunIsSound(run)
    <2>1. runs[r].wanted \subseteq AnySource
      BY <1>1 DEF Run, AnySource
    <2>2. s \in runs[r].wanted
      BY <1>1 DEF RunIsSound
    <2> QED BY <1>1, <1>3, <1>8, <1>9, <2>1, <2>2 DEF RunIsSound
  <1>11. RunIsEarned(run)
    BY <1>8 DEF RunIsEarned
  <1> QED BY <1>5, <1>8, <1>10, <1>11, RunWritten

\* A run asks and reads a source.
LEMMA ReadingKeeps ==
  ASSUME RunsSound, RowsSound, NEW r \in CheckRuns,
         (\E s \in AnySource : AskSource(r, s)) \/ ReadSource(r)
  PROVE  RunsSound'
  <1>1. /\ runs[r] # None /\ runs[r] \in Run /\ RunIsSound(runs[r]) /\ RunIsEarned(runs[r])
        /\ UNCHANGED history
    BY DEF RunsSound, AskSource, ReadSource, Executes, Checks
  <1>2. ASSUME NEW reading \in Reading, runs' = [runs EXCEPT ![r].reading = reading],
               runs[r].state = "running", reading.source \in runs[r].left
        PROVE  RunsSound'
    <2>1. PICK run : run = [runs[r] EXCEPT !.reading = reading]
      OBVIOUS
    <2>2. /\ run \in Run /\ run.state = "running" /\ run.wanted = runs[r].wanted /\ run.left = runs[r].left
          /\ run.reading = reading /\ run.results = runs[r].results
      BY <1>1, <1>2, <2>1 DEF Run
    <2>3. RunIsSound(run) /\ RunIsEarned(run)
      BY <1>1, <1>2, <2>2 DEF RunIsSound, RunIsEarned
    <2>4. runs' = [runs EXCEPT ![r] = run]
      BY <1>2, <2>1 DEF RunsSound
    <2> QED BY <1>1, <2>2, <2>3, <2>4, RunWritten
  <1>3. ASSUME NEW s \in AnySource, AskSource(r, s)
        PROVE  RunsSound'
    <2>1. PICK reading : reading = [source |-> s, setting |-> descriptors[s], read |-> FALSE, found |-> None]
      OBVIOUS
    <2>2. s \in WorkSources /\ descriptors[s] \in Setting
      BY <1>3 DEF AskSource, AnySource, RowsSound
    <2>3. reading \in Reading /\ reading.source = s
      BY <2>1, <2>2 DEF Reading
    <2>4. runs' = [runs EXCEPT ![r].reading = reading] /\ runs[r].state = "running" /\ s \in runs[r].left
      BY <1>3, <2>1 DEF AskSource, Executes
    <2> QED BY <1>2, <2>3, <2>4
  <1>4. CASE ReadSource(r)
    <2>1. runs[r].reading \in Reading /\ runs[r].state = "running" /\ runs[r].reading.source \in runs[r].left
      BY <1>1, <1>4 DEF ReadSource, Checks, Run, RunIsSound
    <2>2. PICK found : found = origins[runs[r].reading.source]
      OBVIOUS
    <2>3. found \in Origin \cup {None}
      BY <2>1, <2>2 DEF RowsSound, Reading
    <2>4. PICK reading : reading = [runs[r].reading EXCEPT !.read = TRUE, !.found = found]
      OBVIOUS
    <2>5. reading \in Reading /\ reading.source = runs[r].reading.source
      BY <2>1, <2>3, <2>4 DEF Reading
    <2>6. runs' = [runs EXCEPT ![r].reading = reading]
      <3>1. runs' = [runs EXCEPT ![r].reading.read = TRUE, ![r].reading.found = found]
        BY <1>4, <2>2 DEF ReadSource
      <3> QED BY <1>1, <2>1, <2>4, <3>1 DEF RunsSound, Run, Reading
    <2> QED BY <1>2, <2>1, <2>5, <2>6
  <1> QED BY <1>3, <1>4

\* What a check commits.
LEMMA CommitKeeps ==
  ASSUME RowsSound, NEW s \in WorkSources, NEW setting \in Setting, NEW found \in Origin,
         CommitSource(s, found, Classified(s, setting, found)),
         descriptors' \in [WorkSources -> Setting], UNCHANGED origins
  PROVE  RowsSound'
  <1>1. PICK class : class = Classified(s, setting, found)
    OBVIOUS
  <1>2. /\ class = "added" => s # TicketSource /\ ~HasLink(s) /\ found.flaw # "unsourced"
        /\ class = "updated" => s # TicketSource /\ HasLink(s) /\ found.flaw # "unsourced"
        /\ class = "unchanged" => s = TicketSource \/ (HasLink(s) /\ saved[s] \in {None, found.fingerprint})
        /\ class = "unresolved" => found.flaw = "unsourced" \/ (s # TicketSource /\ ~HasLink(s))
        /\ class \in Classes
    BY <1>1 DEF Classified, Classes
  <1>3. found.fingerprint \in Fingerprints /\ None \notin Fingerprints
    BY ReconciliationConstants DEF Origin
  <1>4. /\ CASE class = "added" -> made' = [made EXCEPT ![s] = found.fingerprint] /\ UNCHANGED linked
              [] class = "updated" -> UpdateLinkedTicket(s, found)
              [] OTHER -> UNCHANGED <<made, linked>>
        /\ saved' = IF Records(class) /\ found.flaw # "unsourced" THEN [saved EXCEPT ![s] = found.fingerprint] ELSE saved
    BY <1>1 DEF CommitSource
  <1>5. /\ saved \in [WorkSources -> Fingerprints \cup {None}] /\ made \in [WorkSources -> Fingerprints \cup {None}]
        /\ linked \in [WorkSources -> Fingerprints \cup {Untouched, None}]
        /\ made[TicketSource] = None /\ \A q \in WorkSources : made[q] # None => made[q] = saved[q]
        /\ TicketSource \in WorkSources
    BY ReconciliationConstants DEF RowsSound, ChangesReachTickets
  <1>6. /\ saved' \in [WorkSources -> Fingerprints \cup {None}] /\ made' \in [WorkSources -> Fingerprints \cup {None}]
        /\ linked' \in [WorkSources -> Fingerprints \cup {Untouched, None}]
        /\ made'[TicketSource] = None /\ \A q \in WorkSources : made'[q] # None => made'[q] = saved'[q]
    <2>1. CASE class = "added"
      <3>1. made' = [made EXCEPT ![s] = found.fingerprint] /\ UNCHANGED linked /\ saved' = [saved EXCEPT ![s] = found.fingerprint]
        BY <1>2, <1>4, <2>1 DEF Records
      <3> QED BY <1>2, <1>3, <1>5, <2>1, <3>1
    <2>2. CASE class = "updated"
      <3>1. UpdateLinkedTicket(s, found) /\ saved' = [saved EXCEPT ![s] = found.fingerprint]
        BY <1>2, <1>4, <2>2 DEF Records
      <3>2. CASE made[s] # None
        <4>1. made' = [made EXCEPT ![s] = found.fingerprint] /\ UNCHANGED linked
          BY <3>1, <3>2 DEF UpdateLinkedTicket
        <4> QED BY <1>2, <1>3, <1>5, <2>2, <3>1, <4>1
      <3>3. CASE made[s] = None
        <4>1. linked' = [linked EXCEPT ![s] = found.fingerprint] /\ UNCHANGED made
          BY <3>1, <3>3 DEF UpdateLinkedTicket
        <4> QED BY <1>2, <1>3, <1>5, <2>2, <3>1, <3>3, <4>1
      <3> QED BY <3>2, <3>3
    <2>3. CASE class \notin {"added", "updated"}
      <3>1. UNCHANGED <<made, linked>>
        BY <1>4, <2>3
      <3>2. CASE class \in {"unchanged", "unresolved"} /\ found.flaw # "unsourced"
        <4>1. saved' = [saved EXCEPT ![s] = found.fingerprint]
          BY <1>4, <3>2 DEF Records
        <4>2. made[s] # None => made[s] = found.fingerprint
          BY <1>2, <1>5, <3>2 DEF HasLink
        <4> QED BY <1>3, <1>5, <3>1, <4>1, <4>2
      <3>3. CASE ~(class \in {"unchanged", "unresolved"} /\ found.flaw # "unsourced")
        <4>1. saved' = saved
          BY <1>2, <1>4, <2>3, <3>3 DEF Records, Classes
        <4> QED BY <1>5, <3>1, <4>1
      <3> QED BY <3>2, <3>3
    <2> QED BY <2>1, <2>2, <2>3
  <1>7. ChangesReachTickets'
    BY <1>6 DEF ChangesReachTickets
  <1> QED BY <1>6, <1>7 DEF RowsSound

\* A check ends.
LEMMA FinishKeeps ==
  ASSUME RunsSound, RowsSound, NEW r \in CheckRuns, FailSource(r) \/ \E complete \in BOOLEAN : FinishSource(r, complete)
  PROVE  RunsSound' /\ RowsSound'
  <1>1. /\ runs[r] # None /\ runs[r] \in Run /\ RunIsSound(runs[r])
        /\ runs[r].reading \in Reading /\ runs[r].state = "running" /\ runs[r].reading.source \in runs[r].left
    BY DEF RunsSound, FailSource, FinishSource, Checks, Run, RunIsSound
  <1>2. PICK reading : reading = runs[r].reading
    OBVIOUS
  <1>3. reading.source \in WorkSources /\ reading.source \in AnySource /\ reading.setting \in Setting /\ reading.found \in Origin \cup {None}
    BY <1>1, <1>2 DEF Reading, AnySource
  <1>4. descriptors' = [descriptors EXCEPT ![reading.source] = reading.setting] /\ UNCHANGED <<origins, history>>
    BY <1>2 DEF FailSource, FinishSource
  <1>5. descriptors' \in [WorkSources -> Setting]
    BY <1>3, <1>4 DEF RowsSound
  <1>6. ASSUME UNCHANGED <<saved, made, linked>> PROVE RowsSound'
    BY <1>4, <1>5, <1>6 DEF RowsSound, ChangesReachTickets
  <1>7. CASE FailSource(r)
    <2>1. Resulted(r, reading.source, "failed", None) /\ UNCHANGED <<saved, made, linked>>
      BY <1>2, <1>7 DEF FailSource
    <2>2. None \in Classes \cup {None}
      OBVIOUS
    <2>3. reading.source \in runs[r].left
      BY <1>1, <1>2
    <2>4. RunsSound'
      BY <1>1, <1>3, <1>4, <2>1, <2>2, <2>3, ResultedKeeps
    <2> QED BY <1>6, <2>1, <2>4
  <1>8. ASSUME NEW complete \in BOOLEAN, FinishSource(r, complete)
        PROVE  RunsSound' /\ RowsSound'
    <2>1. PICK class : class = IF reading.found = None THEN None ELSE Classified(reading.source, reading.setting, reading.found)
      OBVIOUS
    <2>2. class \in Classes \cup {None}
      BY <2>1 DEF Classified, Classes
    <2>3. PICK state : state = IF complete THEN "checked" ELSE "failed"
      OBVIOUS
    <2>4. /\ IF reading.found = None THEN UNCHANGED <<saved, made, linked>> ELSE CommitSource(reading.source, reading.found, class)
          /\ Resulted(r, reading.source, state, class)
      BY <1>2, <1>8, <2>1, <2>3 DEF FinishSource
    <2>5. state \in {"checked", "failed", "skipped", "unavailable"} /\ state # "skipped" /\ reading.source \in runs[r].left
      BY <1>1, <1>2, <2>3
    <2>6. RunsSound'
      BY <1>1, <1>3, <1>4, <2>2, <2>4, <2>5, ResultedKeeps
    <2>7. CASE reading.found = None
      BY <1>6, <2>4, <2>6, <2>7
    <2>8. CASE reading.found # None
      <3>1. /\ CommitSource(reading.source, reading.found, Classified(reading.source, reading.setting, reading.found))
            /\ reading.found \in Origin
        BY <1>3, <2>1, <2>4, <2>8
      <3> QED BY <1>3, <1>4, <1>5, <2>6, <3>1, CommitKeeps
    <2> QED BY <2>7, <2>8
  <1> QED BY <1>7, <1>8

\* A run that ends is complete only when it earned it.
LEMMA FinishRunKeeps ==
  ASSUME RunsSound, NEW r \in CheckRuns, FinishRun(r)
  PROVE  RunsSound'
  <1>1. /\ runs[r] # None /\ runs[r] \in Run /\ RunIsSound(runs[r]) /\ runs[r].state = "running"
        /\ runs[r].left = {} /\ runs[r].reading = None /\ UNCHANGED history
    BY DEF RunsSound, FinishRun
  <1>2. PICK results : results = runs[r].results
    OBVIOUS
  <1>3. results \in [AnySource -> SourceResult \cup {None}] /\ DOMAIN results = AnySource /\ runs[r].wanted \subseteq AnySource
    BY <1>1, <1>2 DEF Run, AnySource
  <1>4. PICK verdict : verdict = Verdict(results)
    OBVIOUS
  <1>5. verdict \in EndedStates
    BY <1>4 DEF Verdict, EndedStates
  <1>6. PICK run : run = [runs[r] EXCEPT !.state = verdict]
    OBVIOUS
  <1>7. /\ run \in Run /\ run.state = verdict /\ run.wanted = runs[r].wanted /\ run.left = {}
        /\ run.reading = None /\ run.results = results
    BY <1>1, <1>2, <1>5, <1>6 DEF Run
  <1>8. runs' = [runs EXCEPT ![r] = run]
    BY <1>2, <1>4, <1>6 DEF FinishRun, RunsSound
  <1>9. RunIsSound(run)
    BY <1>1, <1>2, <1>5, <1>7 DEF RunIsSound, EndedStates
  <1>10. RunIsEarned(run)
    <2> SUFFICES ASSUME verdict = "complete"
                 PROVE  /\ \A s \in runs[r].wanted :
                             /\ results[s] # None /\ results[s].state \in {"checked", "skipped"}
                             /\ results[s].class \notin {"duplicate", "unresolved"}
                        /\ \E s \in runs[r].wanted : results[s].state = "checked"
      BY <1>7 DEF RunIsEarned
    <2> DEFINE enabled == {s \in DOMAIN results : results[s] # None /\ results[s].state # "skipped"}
    <2>1. /\ ~ \A s \in enabled : results[s].state # "checked"
          /\ ~ \E s \in enabled : results[s].state # "checked" \/ HasGap(results[s])
      BY <1>4 DEF Verdict
    <2>2. \A s \in runs[r].wanted : results[s] # None
      BY <1>1, <1>2 DEF RunIsSound
    <2>3. \E s \in runs[r].wanted : results[s].state = "checked"
      BY <1>1, <1>2, <1>3, <2>1 DEF RunIsSound
    <2>4. ASSUME NEW s \in runs[r].wanted
          PROVE  results[s].state \in {"checked", "skipped"} /\ results[s].class \notin {"duplicate", "unresolved"}
      <3>1. CASE results[s].state = "skipped"
        <4>1. results[s].class = None
          BY <1>1, <1>2, <1>3, <2>2, <3>1 DEF RunIsSound
        <4> QED BY <3>1, <4>1, ResultConstants DEF Classes
      <3>2. CASE results[s].state # "skipped"
        <4>1. s \in enabled
          BY <1>3, <2>2, <3>2
        <4> QED BY <2>1, <2>2, <4>1 DEF HasGap
      <3> QED BY <3>1, <3>2
    <2> QED BY <2>2, <2>3, <2>4
  <1> QED BY <1>1, <1>7, <1>8, <1>9, <1>10, RunWritten

LEMMA ReconciliationStep == ReconciliationInv /\ [ReconciliationNext]_reconciliationVars => ReconciliationInv'
  <1> SUFFICES ASSUME ReconciliationInv, [ReconciliationNext]_reconciliationVars PROVE ReconciliationInv'
    OBVIOUS
  <1>0. RunsSound /\ RowsSound
    BY DEF ReconciliationInv
  <1>r. ASSUME UNCHANGED <<origins, descriptors, saved, made, linked>> PROVE RowsSound'
    BY <1>0, <1>r DEF RowsSound, ChangesReachTickets
  <1>1. CASE UNCHANGED reconciliationVars
    BY <1>0, <1>1, <1>r, RunsRest DEF reconciliationVars, ReconciliationInv
  <1>2. CASE Starts
    BY <1>0, <1>2, <1>r, RunsStartKeep DEF ReconciliationInv
  <1>3. CASE RestartCompanion
    BY <1>0, <1>3, <1>r, RestartKeepsRuns DEF ReconciliationInv, RestartCompanion
  <1>4. ASSUME NEW r \in CheckRuns, ExecuteSource(r) PROVE ReconciliationInv'
    <2>1. ASSUME NEW s \in AnySource, PassSource(r, s) PROVE ReconciliationInv'
      <3>1. /\ runs[r] # None /\ runs[r].state = "running" /\ s \in runs[r].left
            /\ UNCHANGED <<origins, descriptors, history, saved, made, linked>>
        BY <2>1 DEF PassSource, Executes
      <3>2. PICK state \in {"skipped", "unavailable"} : Resulted(r, s, state, None)
        BY <2>1 DEF PassSource
      <3>3. state \in {"checked", "failed", "skipped", "unavailable"} /\ None \in Classes \cup {None}
        OBVIOUS
      <3>4. RunsSound'
        BY <1>0, <3>1, <3>2, <3>3, ResultedKeeps
      <3> QED BY <1>r, <3>1, <3>4 DEF ReconciliationInv
    <2>2. CASE (\E s \in AnySource : AskSource(r, s)) \/ ReadSource(r)
      <3>1. UNCHANGED <<origins, descriptors, saved, made, linked>>
        BY <2>2 DEF AskSource, ReadSource
      <3> QED BY <1>0, <1>r, <2>2, <3>1, ReadingKeeps DEF ReconciliationInv
    <2>3. CASE FailSource(r) \/ \E complete \in BOOLEAN : FinishSource(r, complete)
      BY <1>0, <2>3, FinishKeeps DEF ReconciliationInv
    <2> QED BY <1>4, <2>1, <2>2, <2>3 DEF ExecuteSource, AnySource
  <1>5. ASSUME NEW r \in CheckRuns, FinishRun(r) PROVE ReconciliationInv'
    BY <1>0, <1>5, <1>r, FinishRunKeeps DEF ReconciliationInv, FinishRun
  <1>6. ASSUME NEW s \in WorkSources,
               \/ \E origin \in Origin \cup {None} : OriginChanges(s, origin)
               \/ \E setting \in Setting : ConfigureSource(s, setting)
               \/ DeleteMadeTicket(s) \/ DeleteLinkedTicket(s)
        PROVE  ReconciliationInv'
    <2>1. UNCHANGED <<runs, history, saved>>
      BY <1>6 DEF OriginChanges, ConfigureSource, DeleteMadeTicket, DeleteLinkedTicket
    <2>2. /\ origins' \in [WorkSources -> Origin \cup {None}] /\ descriptors' \in [WorkSources -> Setting]
          /\ linked' \in [WorkSources -> Fingerprints \cup {Untouched, None}]
          /\ made' \in [WorkSources -> Fingerprints \cup {None}] /\ \A q \in WorkSources : made'[q] \in {made[q], None}
      BY <1>0, <1>6 DEF OriginChanges, ConfigureSource, DeleteMadeTicket, DeleteLinkedTicket, RowsSound
    <2>3. RowsSound'
      BY <1>0, <2>1, <2>2, ReconciliationConstants DEF RowsSound, ChangesReachTickets
    <2> QED BY <1>0, <2>1, <2>3, RunsRest DEF ReconciliationInv
  <1>7. CASE LinkMail
    <2>1. UNCHANGED <<origins, descriptors, runs, history, saved, made>> /\ linked' = [linked EXCEPT ![MailSource] = Untouched]
      BY <1>7 DEF LinkMail
    <2>2. linked' \in [WorkSources -> Fingerprints \cup {Untouched, None}]
      BY <1>0, <2>1 DEF RowsSound
    <2>3. RowsSound'
      BY <1>0, <2>1, <2>2 DEF RowsSound, ChangesReachTickets
    <2> QED BY <1>0, <2>1, <2>3, RunsRest DEF ReconciliationInv
  <1> QED BY <1>1, <1>2, <1>3, <1>4, <1>5, <1>6, <1>7 DEF ReconciliationNext, Starts

\* No step writes the row of a run that has ended.
LEMMA VerdictsKept ==
  ReconciliationInv /\ [ReconciliationNext]_reconciliationVars =>
    \A r \in CheckRuns : runs[r] # None /\ runs[r].state \in EndedStates => runs'[r] = runs[r]
  <1> SUFFICES ASSUME ReconciliationInv, [ReconciliationNext]_reconciliationVars,
                      NEW q \in CheckRuns, runs[q] # None, runs[q].state \in EndedStates
               PROVE  runs'[q] = runs[q]
    OBVIOUS
  <1>0. RunsSound /\ runs \in [CheckRuns -> Run \cup {None}] /\ runs[q].state # "running"
    BY DEF ReconciliationInv, RunsSound, EndedStates
  <1>1. CASE Starts
    BY <1>0, <1>1, RunsStartKeep
  <1>2. CASE RestartCompanion
    BY <1>0, <1>2 DEF RestartCompanion, Interrupted
  <1>3. ASSUME NEW r \in CheckRuns, runs[r] # None, runs[r].state = "running",
               \A p \in CheckRuns \ {r} : runs'[p] = runs[p]
        PROVE  runs'[q] = runs[q]
    BY <1>0, <1>3
  <1>4. ASSUME NEW r \in CheckRuns, ExecuteSource(r) \/ FinishRun(r)
        PROVE  runs'[q] = runs[q]
    <2>1. runs[r] # None /\ (runs[r].state = "running" \/ runs[r].reading # None)
      BY <1>4 DEF ExecuteSource, FinishRun, PassSource, AskSource, ReadSource, FailSource, FinishSource, Executes, Checks
    <2>2. runs[r].state = "running"
      BY <2>1, SMTT(30) DEF ReconciliationInv, RunsSound, RunIsSound
    <2>3. \A p \in CheckRuns \ {r} : runs'[p] = runs[p]
      BY <1>0, <1>4, Zenon DEF ExecuteSource, FinishRun, PassSource, AskSource, ReadSource, FailSource, FinishSource, Resulted
    <2> QED BY <1>3, <2>1, <2>2, <2>3
  <1>5. CASE UNCHANGED runs
    BY <1>5
  <1> QED BY <1>1, <1>2, <1>4, <1>5 DEF ReconciliationNext, Starts, OriginChanges, ConfigureSource, DeleteMadeTicket,
             DeleteLinkedTicket, LinkMail, reconciliationVars

\* What the invariant says of runs and tickets.
LEMMA ReconciliationSafe == ReconciliationInv => ChangesReachTickets /\ CompleteIsEarned
  BY DEF ReconciliationInv, RowsSound, RunsSound, RunIsEarned, CompleteIsEarned

-----------------------------------------------------------------------------
(* What is left of the data.                                               *)
\* What a record says it covers, and what it may be beside the plan on disk, the number of
\* plans, a credential and a directory.
Covers(r) == IF r.plan = None THEN Preserve ELSE r.plan.choice
Nothing == {"none", "anew"}
FitsIn(r, onDisk, n, cred, left) ==
  /\ r \in UninstallRecords(n)
  /\ r.step \in {"judging", "renaming"} => r.found # None
  /\ r.found # None /\ onDisk # None /\ r.found.id = n => r.found = onDisk
  /\ r.step = "renaming" /\ r.found.choice = Erase => r.found.confirmed
  /\ r.plan # None /\ r.plan.choice = Erase => r.plan.confirmed
  /\ r.step \in {"revoking", "looking", "erasing", "counting"} => Covers(r) # Preserve
  /\ r.step \in {"erasing", "counting"} => Covers(r) = Erase
  /\ r.step \in {"looking", "erasing", "counting"} => cred # "stored"
  /\ r.step = "counting" => left \in Nothing
  /\ r.result = "completed" => /\ r.step = "ended"
                               /\ Covers(r) # Preserve => cred # "stored"
                               /\ Covers(r) = Erase => left \in Nothing

\* The plan on disk is the last that was prepared, and was not used yet.
StoredFits ==
  /\ RemovalTypeOK /\ prepared \in Nat
  /\ plan # None => plan.id = prepared /\ prepared \notin consumed \cup goneBy
RemovalFits ==
  /\ StoredFits
  /\ \A u \in Uninstallers : FitsIn(uninstallers[u], plan, prepared, credential, remaining)

LEMMA RemovalStart == RemovalInit => RemovalFits
  <1> SUFFICES ASSUME RemovalInit PROVE RemovalFits
    OBVIOUS
  <1>1. AtRest \in UninstallRecords(0) /\ AtRest.step = "idle" /\ AtRest.found = None /\ AtRest.plan = None /\ AtRest.result = None
    BY DEF AtRest, UninstallRecords, UninstallSteps
  <1>2. \A u \in Uninstallers : uninstallers[u] = AtRest /\ uninstallers \in [Uninstallers -> UninstallRecords(0)]
    BY <1>1 DEF RemovalInit
  <1>3. RemovalTypeOK /\ prepared = 0 /\ plan = None
    BY <1>1 DEF RemovalInit, RemovalTypeOK, Unshown, UninstallChoices
  <1> QED BY <1>1, <1>2, <1>3, NoneIsNoEnd DEF RemovalFits, StoredFits, FitsIn, UninstallEnds

\* A record still fits when a plan was prepared or is gone, when a credential was onDisk that it
\* may find, and when no data is there again that was gone.
LEMMA RecordStays ==
  ASSUME NEW r, NEW onDisk, NEW onDisk2, NEW n \in Nat, NEW more \in Nat, NEW cred, NEW cred2, NEW left, NEW left2,
         FitsIn(r, onDisk, n, cred, left),
         (more = n /\ onDisk2 \in {onDisk, None}) \/ more = n + 1,
         cred2 = "stored" => cred = "stored" \/ r.step = "idle",
         left \in Nothing => left2 \in Nothing
  PROVE  FitsIn(r, onDisk2, more, cred2, left2)
  <1>1. r \in UninstallRecords(more)
    <2>1. PlansTo(n) \subseteq PlansTo(more) /\ 1..n \subseteq 1..more
      BY DEF PlansTo
    <2> QED BY <2>1 DEF FitsIn, UninstallRecords
  <1>2. r.found # None /\ onDisk2 # None /\ r.found.id = more => r.found = onDisk2
    <2>1. r.found # None => r.found.id \in 1..n
      BY DEF FitsIn, UninstallRecords, PlansTo
    <2> QED BY <2>1 DEF FitsIn
  <1> QED BY <1>1, <1>2 DEF FitsIn

\* Where one uninstaller moves, those that stay still fit.
LEMMA OneUninstallerMoves ==
  ASSUME RemovalFits, NEW u \in Uninstallers, NEW r,
         uninstallers' = [uninstallers EXCEPT ![u] = r],
         prepared' = prepared, plan' \in {plan, None}, credential' \in {credential, "none"},
         remaining \in Nothing => remaining' \in Nothing,
         FitsIn(r, plan', prepared', credential', remaining')
  PROVE  /\ uninstallers' \in [Uninstallers -> UninstallRecords(prepared')] /\ uninstallers'[u] = r
         /\ \A v \in Uninstallers : FitsIn(uninstallers'[v], plan', prepared', credential', remaining')
  <1>1. uninstallers \in [Uninstallers -> UninstallRecords(prepared)] /\ prepared \in Nat
    BY DEF RemovalFits, StoredFits, RemovalTypeOK
  <1>2. r \in UninstallRecords(prepared')
    BY DEF FitsIn
  <1>3. ASSUME NEW v \in Uninstallers, v # u
        PROVE  FitsIn(uninstallers'[v], plan', prepared', credential', remaining')
    <2>1. uninstallers'[v] = uninstallers[v] /\ FitsIn(uninstallers[v], plan, prepared, credential, remaining)
      BY <1>1, <1>3 DEF RemovalFits
    <2> QED BY <1>1, <2>1, RecordStays
  <1> QED BY <1>1, <1>2, <1>3

\* Steps of the program leave the uninstallers alone.
LEMMA WindowKeeps ==
  ASSUME RemovalFits,
         \/ \E choice \in UninstallChoices : Choose(choice)
         \/ Confirm \/ Prepare \/ RemovalExpires \/ CompanionWrites \/ QuitDesktop \/ StartDesktop
  PROVE  RemovalFits' /\ RemovalWasChosen /\ PlanIsUsedOnce
  <1>1. UNCHANGED <<consumed, goneBy, uninstallers>>
    BY DEF Choose, Confirm, Prepare, RemovalExpires, CompanionWrites, QuitDesktop, StartDesktop
  <1>2. /\ window' \in [choice : UninstallChoices, confirmed : BOOLEAN] /\ desktopRuns' \in BOOLEAN
        /\ \/ prepared' = prepared /\ plan' = plan
           \/ prepared' = prepared + 1 /\ plan' \in PlansTo(prepared') /\ plan'.id = prepared'
        /\ lapsed' \in 0..prepared'
    <2>1. /\ window \in [choice : UninstallChoices, confirmed : BOOLEAN] /\ desktopRuns \in BOOLEAN
          /\ lapsed \in 0..prepared /\ prepared \in Nat
      BY DEF RemovalFits, StoredFits, RemovalTypeOK
    <2>2. Unshown \in [choice : UninstallChoices, confirmed : BOOLEAN]
      BY DEF Unshown, UninstallChoices
    <2>3. CASE \E choice \in UninstallChoices : Choose(choice)
      BY <2>1, <2>3 DEF Choose
    <2>4. CASE Confirm
      BY <2>1, <2>4 DEF Confirm
    <2>5. CASE Prepare
      <3>1. plan' = [id |-> prepared + 1, choice |-> window.choice, confirmed |-> window.confirmed]
            /\ prepared' = prepared + 1 /\ UNCHANGED <<window, desktopRuns, lapsed>>
        BY <2>5 DEF Prepare
      <3>2. plan' \in PlansTo(prepared') /\ plan'.id = prepared'
        BY <2>1, <3>1 DEF PlansTo
      <3> QED BY <2>1, <3>1, <3>2
    <2>6. CASE RemovalExpires
      BY <2>1, <2>6 DEF RemovalExpires
    <2>7. CASE CompanionWrites \/ StartDesktop
      BY <2>1, <2>7 DEF CompanionWrites, StartDesktop
    <2>8. CASE QuitDesktop
      BY <2>1, <2>2, <2>8 DEF QuitDesktop
    <2> QED BY <2>3, <2>4, <2>5, <2>6, <2>7, <2>8
  <1>3. /\ remaining' = remaining \/ (remaining = "none" /\ remaining' = "anew")
        /\ credential' = credential \/ credential' = "anew" \/ (credential' = "stored" /\ Applying = {})
    BY DEF Choose, Confirm, Prepare, RemovalExpires, CompanionWrites, QuitDesktop, StartDesktop, Recreated
  <1>4. /\ credential \in {"none", "stored", "anew"} /\ remaining \in {"whole", "part", "none", "anew"}
        /\ plan \in PlansTo(prepared) \cup {None} /\ prepared \in Nat
        /\ consumed \subseteq 1..prepared /\ goneBy \subseteq 1..prepared
        /\ uninstallers \in [Uninstallers -> UninstallRecords(prepared)]
        /\ plan # None => plan.id = prepared /\ prepared \notin consumed \cup goneBy
    BY DEF RemovalFits, StoredFits, RemovalTypeOK
  <1>5. ASSUME NEW v \in Uninstallers
        PROVE  FitsIn(uninstallers'[v], plan', prepared', credential', remaining')
    <2>1. FitsIn(uninstallers[v], plan, prepared, credential, remaining) /\ uninstallers'[v] = uninstallers[v]
      BY <1>1 DEF RemovalFits
    <2>2. credential' = "stored" => credential = "stored" \/ uninstallers[v].step = "idle"
      BY <1>3 DEF Applying
    <2>3. remaining \in Nothing => remaining' \in Nothing
      BY <1>3 DEF Nothing
    <2>4. prepared' \in Nat /\ ((prepared' = prepared /\ plan' \in {plan, None}) \/ prepared' = prepared + 1)
      BY <1>2, <1>4
    <2> QED BY <1>4, <2>1, <2>2, <2>3, <2>4, RecordStays
  <1>6. uninstallers' \in [Uninstallers -> UninstallRecords(prepared')]
    BY <1>1, <1>4, <1>5 DEF FitsIn
  <1>7. prepared' \in Nat /\ consumed' \subseteq 1..prepared' /\ goneBy' \subseteq 1..prepared'
    BY <1>1, <1>2, <1>4
  <1>8. plan' # None => plan'.id = prepared' /\ prepared' \notin consumed' \cup goneBy'
    BY <1>1, <1>2, <1>4
  <1>9. RemovalFits'
    BY <1>2, <1>3, <1>4, <1>5, <1>6, <1>7, <1>8 DEF RemovalFits, StoredFits, RemovalTypeOK
  <1>10. RemovalWasChosen
    <2>1. ~(remaining' # remaining /\ remaining' \in {"part", "none"}) /\ ~(credential # "none" /\ credential' = "none")
      BY <1>3
    <2>2. \A u \in Uninstallers : Choice(u)' = Covers(uninstallers'[u])
      BY DEF Choice, Covers
    <2> QED BY <1>5, <2>1, <2>2 DEF RemovalWasChosen, FitsIn, Nothing
  <1> QED BY <1>1, <1>9, <1>10 DEF PlanIsUsedOnce

\* Installed again nothing is applied.
LEMMA ReinstallKeeps ==
  ASSUME RemovalFits, Reinstall
  PROVE  RemovalFits' /\ RemovalWasChosen /\ PlanIsUsedOnce
  <1>1. AtRest \in UninstallRecords(prepared) /\ AtRest.step = "idle" /\ AtRest.found = None /\ AtRest.plan = None /\ AtRest.result = None
    BY DEF AtRest, UninstallRecords, UninstallSteps
  <1>2. /\ uninstallers' = [u \in Uninstallers |-> AtRest] /\ remaining' = "whole"
        /\ credential' = (IF credential = "anew" THEN "stored" ELSE credential)
        /\ UNCHANGED <<window, desktopRuns, plan, prepared, lapsed, consumed, goneBy>>
    BY DEF Reinstall
  <1>3. uninstallers' \in [Uninstallers -> UninstallRecords(prepared)] /\ \A u \in Uninstallers : uninstallers'[u] = AtRest
    BY <1>1, <1>2
  <1>4. StoredFits'
    BY <1>2, <1>3 DEF RemovalFits, StoredFits, RemovalTypeOK, PlansTo, UninstallRecords
  <1>5. \A u \in Uninstallers : FitsIn(uninstallers'[u], plan', prepared', credential', remaining')
    BY <1>1, <1>2, <1>3, NoneIsNoEnd DEF FitsIn, UninstallEnds
  <1>6. RemovalWasChosen
    BY <1>1, <1>2, <1>3, NoneIsNoEnd DEF RemovalWasChosen, UninstallEnds
  <1> QED BY <1>1, <1>3, <1>4, <1>5, <1>6 DEF RemovalFits, PlanIsUsedOnce

\* What a step of an uninstaller has to do with the files for the properties to hold.
LEMMA UninstallerKeeps ==
  ASSUME RemovalFits, NEW u \in Uninstallers, NEW r,
         uninstallers' = [uninstallers EXCEPT ![u] = r], UNCHANGED <<window, desktopRuns, prepared, lapsed>>,
         plan' \in {plan, None}, credential' \in {credential, "none"},
         remaining' \in {remaining, "none", IF remaining = "whole" THEN "part" ELSE remaining},
         consumed' \subseteq 1..prepared, goneBy' \subseteq 1..prepared,
         plan' # None => UNCHANGED <<consumed, goneBy>>,
         FitsIn(r, plan', prepared, credential', remaining'),
         remaining' # remaining => uninstallers[u].step # "ended" /\ Covers(uninstallers[u]) = Erase,
         credential' # credential => uninstallers[u].step # "ended" /\ Covers(uninstallers[u]) # Preserve,
         \/ r.plan \in {uninstallers[u].plan, None}
         \/ plan # None /\ plan' = None /\ r.plan = uninstallers[u].found
  PROVE  RemovalFits' /\ RemovalWasChosen /\ PlanIsUsedOnce
  <1>1. /\ credential \in {"none", "stored", "anew"} /\ remaining \in {"whole", "part", "none", "anew"}
        /\ plan \in PlansTo(prepared) \cup {None} /\ prepared \in Nat /\ prepared' = prepared
        /\ uninstallers \in [Uninstallers -> UninstallRecords(prepared)]
        /\ plan # None => plan.id = prepared /\ prepared \notin consumed \cup goneBy
        /\ FitsIn(uninstallers[u], plan, prepared, credential, remaining)
    BY DEF RemovalFits, StoredFits, RemovalTypeOK
  <1>2. /\ uninstallers' \in [Uninstallers -> UninstallRecords(prepared')] /\ uninstallers'[u] = r
        /\ \A v \in Uninstallers : FitsIn(uninstallers'[v], plan', prepared', credential', remaining')
    <2>1. remaining \in Nothing => remaining' \in Nothing
      BY DEF Nothing
    <2>2. FitsIn(r, plan', prepared', credential', remaining')
      BY <1>1
    <2> QED BY <1>1, <2>1, <2>2, OneUninstallerMoves
  <1>3. /\ credential' \in {"none", "stored", "anew"} /\ remaining' \in {"whole", "part", "none", "anew"}
        /\ plan' \in PlansTo(prepared') \cup {None} /\ prepared' \in Nat
        /\ consumed' \subseteq 1..prepared' /\ goneBy' \subseteq 1..prepared'
        /\ plan' # None => plan'.id = prepared' /\ prepared' \notin consumed' \cup goneBy'
    BY <1>1
  <1>4. /\ window' \in [choice : UninstallChoices, confirmed : BOOLEAN] /\ desktopRuns' \in BOOLEAN
        /\ lapsed' \in 0..prepared'
    BY DEF RemovalFits, StoredFits, RemovalTypeOK
  <1>5. RemovalFits'
    BY <1>2, <1>3, <1>4 DEF RemovalFits, StoredFits, RemovalTypeOK
  <1>6. RemovalWasChosen
    <2>1. \A v \in Uninstallers : Choice(v)' = Covers(uninstallers'[v]) /\ Choice(v) = Covers(uninstallers[v])
      BY DEF Choice, Covers
    <2>2. Covers(uninstallers[u]) = Erase => uninstallers[u].plan.confirmed
      BY <1>1 DEF FitsIn, Covers, Erase, Preserve
    <2>3. \A v \in Uninstallers : uninstallers'[v].result = "completed" =>
            /\ Choice(v)' # Preserve => credential' # "stored"
            /\ Choice(v)' = Erase => remaining' \in {"none", "anew"}
      BY <1>2, <2>1 DEF FitsIn, Nothing
    <2>4. remaining' # remaining => \E v \in Uninstallers : uninstallers[v].step # "ended" /\ Choice(v) = Erase /\ uninstallers[v].plan.confirmed
      BY <2>1, <2>2
    <2>5. credential' # credential => \E v \in Uninstallers : uninstallers[v].step # "ended" /\ Choice(v) # Preserve
      BY <2>1
    <2> QED BY <2>3, <2>4, <2>5 DEF RemovalWasChosen
  <1>7. PlanIsUsedOnce
    <2>1. \A v \in Uninstallers : v # u => uninstallers'[v] = uninstallers[v]
      BY <1>1
    <2>2. SUFFICES ASSUME r.plan # uninstallers[u].plan, r.plan # None
                   PROVE  /\ plan # None /\ plan' = None /\ plan.id = prepared /\ plan.id \notin consumed
                          /\ r.plan.id = prepared => r.plan = plan /\ r.plan.id \notin goneBy
      BY <1>2, <2>1 DEF PlanIsUsedOnce
    <2>3. plan # None /\ plan' = None /\ r.plan = uninstallers[u].found
      BY <2>2
    <2> QED BY <1>1, <2>2, <2>3 DEF FitsIn
  <1> QED BY <1>5, <1>6, <1>7

\* A step of an uninstaller.
LEMMA UninstallerStep ==
  ASSUME RemovalFits, NEW u \in Uninstallers, UninstallerSteps(u)
  PROVE  RemovalFits' /\ RemovalWasChosen /\ PlanIsUsedOnce
  <1> DEFINE x == uninstallers[u]
  <1> DEFINE To(step) == [x EXCEPT !.step = step]
  <1> DEFINE By(p) == [x EXCEPT !.step = "unregistering", !.name = None, !.found = None, !.plan = p]
  <1> DEFINE Over(result) == [x EXCEPT !.step = "ended", !.result = result]
  <1> DEFINE Same == UNCHANGED <<window, desktopRuns, plan, prepared, lapsed, consumed, goneBy, credential, remaining>>
  <1>1. /\ credential \in {"none", "stored", "anew"} /\ remaining \in {"whole", "part", "none", "anew"}
        /\ plan \in PlansTo(prepared) \cup {None} /\ prepared \in Nat
        /\ consumed \subseteq 1..prepared /\ goneBy \subseteq 1..prepared
        /\ uninstallers \in [Uninstallers -> UninstallRecords(prepared)]
        /\ plan # None => plan.id = prepared /\ prepared \notin consumed \cup goneBy
        /\ FitsIn(x, plan, prepared, credential, remaining) /\ x \in UninstallRecords(prepared)
    BY DEF RemovalFits, StoredFits, RemovalTypeOK
  <1>2. Preserve # Revoke /\ Preserve # Erase /\ Revoke # Erase /\ None # "completed"
        /\ \A p \in PlansTo(prepared) : p.choice \in {Preserve, Revoke, Erase}
    BY NoneIsNoEnd DEF Preserve, Revoke, Erase, PlansTo, UninstallChoices, UninstallEnds
  <1>3. ASSUME NEW r, Same, uninstallers' = [uninstallers EXCEPT ![u] = r],
               FitsIn(r, plan, prepared, credential, remaining), r.plan \in {x.plan, None}
        PROVE  RemovalFits' /\ RemovalWasChosen /\ PlanIsUsedOnce
    BY <1>1, <1>3, UninstallerKeeps
  <1>4. ASSUME NEW p \in PlansTo(prepared) \cup {None}, NEW onDisk, NEW cred, NEW left,
               x.step \notin {"idle", "ended"}, p # None /\ p.choice = Erase => p.confirmed
        PROVE  FitsIn(By(p), onDisk, prepared, cred, left) /\ By(p).plan = p
    BY <1>1, <1>4 DEF FitsIn, UninstallRecords, UninstallSteps
  <1>5. ASSUME x.step \notin {"idle", "ended"}, NEW result \in UninstallEnds \cup {None}, NEW onDisk \in {plan, None},
               NEW cred \in {credential, "none"}, NEW left, remaining \in Nothing => left \in Nothing, result # "completed"
        PROVE  FitsIn(Over(result), onDisk, prepared, cred, left) /\ Over(result).plan = x.plan
    <2>1. Over(result) \in UninstallRecords(prepared)
      BY <1>1 DEF UninstallRecords, UninstallSteps
    <2>2. /\ Over(result).step = "ended" /\ Over(result).found = x.found /\ Over(result).plan = x.plan
          /\ Over(result).result = result
      BY <1>1 DEF UninstallRecords
    <2> HIDE DEF Over
    <2> QED BY <1>1, <1>5, <2>1, <2>2 DEF FitsIn
  <1> HIDE DEF By, Over
  <1>6. CASE Launch(u)
    <2>1. x.step = "idle" /\ Same /\ uninstallers' = [uninstallers EXCEPT ![u] = To("naming")]
      BY <1>6 DEF Launch, Go
    <2>2. FitsIn(To("naming"), plan, prepared, credential, remaining) /\ To("naming").plan = x.plan
      BY <1>1, <2>1 DEF FitsIn, UninstallRecords, UninstallSteps
    <2> QED BY <1>3, <2>1, <2>2
  <1>7. CASE ReadName(u)
    <2>1. x.step = "naming" /\ Same
      BY <1>7 DEF ReadName
    <2>2. CASE plan = None
      <3>1. uninstallers' = [uninstallers EXCEPT ![u] = By(None)]
        BY <1>7, <2>2 DEF ReadName, GoBy, By
      <3> QED BY <1>3, <1>4, <2>1, <3>1
    <2>3. CASE plan # None
      <3> DEFINE r == [x EXCEPT !.step = "reading", !.name = plan.id]
      <3>1. uninstallers' = [uninstallers EXCEPT ![u] = r]
        BY <1>7, <2>3 DEF ReadName
      <3>2. plan.id \in 1..prepared
        BY <1>1, <2>3 DEF PlansTo
      <3>3. FitsIn(r, plan, prepared, credential, remaining) /\ r.plan = x.plan
        BY <1>1, <2>1, <3>2 DEF FitsIn, UninstallRecords, UninstallSteps
      <3> QED BY <1>3, <2>1, <3>1, <3>3
    <2> QED BY <2>2, <2>3
  <1>8. CASE ReadPlan(u)
    <2>1. x.step = "reading" /\ Same
      BY <1>8 DEF ReadPlan
    <2>2. CASE plan = None
      <3>1. uninstallers' = [uninstallers EXCEPT ![u] = By(None)]
        BY <1>8, <2>2 DEF ReadPlan, GoBy, By
      <3> QED BY <1>3, <1>4, <2>1, <3>1
    <2>3. CASE plan # None
      <3> DEFINE r == [x EXCEPT !.step = "judging", !.found = plan]
      <3>1. uninstallers' = [uninstallers EXCEPT ![u] = r]
        BY <1>8, <2>3 DEF ReadPlan
      <3>2. FitsIn(r, plan, prepared, credential, remaining) /\ r.plan = x.plan
        BY <1>1, <2>1, <2>3 DEF FitsIn, UninstallRecords, UninstallSteps
      <3> QED BY <1>3, <2>1, <3>1, <3>2
    <2> QED BY <2>2, <2>3
  <1>9. ASSUME NEW signed \in BOOLEAN, Judge(u, signed)
        PROVE  RemovalFits' /\ RemovalWasChosen /\ PlanIsUsedOnce
    <2>1. x.step = "judging" /\ Same
      BY <1>9 DEF Judge
    <2>2. CASE signed /\ ValidPlan(x.found, x.name)
      <3>1. uninstallers' = [uninstallers EXCEPT ![u] = To("renaming")] /\ (x.found.choice = Erase => x.found.confirmed)
        BY <1>9, <2>2 DEF Judge, Go, ValidPlan
      <3>2. FitsIn(To("renaming"), plan, prepared, credential, remaining) /\ To("renaming").plan = x.plan
        BY <1>1, <2>1, <3>1 DEF FitsIn, UninstallRecords, UninstallSteps
      <3> QED BY <1>3, <2>1, <3>1, <3>2
    <2>3. CASE ~(signed /\ ValidPlan(x.found, x.name))
      <3>1. uninstallers' = [uninstallers EXCEPT ![u] = By(None)]
        BY <1>9, <2>3 DEF Judge, GoBy, By
      <3> QED BY <1>3, <1>4, <2>1, <3>1
    <2> QED BY <2>2, <2>3
  <1>10. ASSUME NEW succeeds \in BOOLEAN, Consume(u, succeeds)
         PROVE  RemovalFits' /\ RemovalWasChosen /\ PlanIsUsedOnce
    <2>1. x.step = "renaming" /\ UNCHANGED <<window, desktopRuns, prepared, lapsed, credential, remaining>>
      BY <1>10 DEF Consume
    <2>2. CASE succeeds /\ plan # None
      <3>1. /\ uninstallers' = [uninstallers EXCEPT ![u] = By(x.found)]
            /\ consumed' = consumed \cup {plan.id} /\ goneBy' = goneBy \cup {x.found.id} /\ plan' = None
        BY <1>10, <2>2 DEF Consume, GoBy, By
      <3>2. x.found \in PlansTo(prepared) /\ x.found.id \in 1..prepared /\ plan.id \in 1..prepared
            /\ (x.found.choice = Erase => x.found.confirmed)
        BY <1>1, <2>1, <2>2 DEF FitsIn, UninstallRecords, PlansTo
      <3>3. FitsIn(By(x.found), plan', prepared, credential', remaining') /\ By(x.found).plan = x.found
        BY <1>4, <2>1, <3>2
      <3>4. consumed' \subseteq 1..prepared /\ goneBy' \subseteq 1..prepared
        BY <1>1, <3>1, <3>2
      <3> QED BY <2>1, <2>2, <3>1, <3>3, <3>4, UninstallerKeeps
    <2>3. CASE ~(succeeds /\ plan # None)
      <3>1. uninstallers' = [uninstallers EXCEPT ![u] = By(None)] /\ Same
        BY <1>10, <2>3 DEF Consume, GoBy, By
      <3> QED BY <1>3, <1>4, <2>1, <3>1
    <2> QED BY <2>2, <2>3
  <1>11. ASSUME NEW succeeds \in BOOLEAN, Unregister(u, succeeds)
         PROVE  RemovalFits' /\ RemovalWasChosen /\ PlanIsUsedOnce
    <2>1. x.step = "unregistering" /\ Same /\ Choice(u) = Covers(x)
      BY <1>11 DEF Unregister, Choice, Covers
    <2>2. CASE ~succeeds
      <3>1. uninstallers' = [uninstallers EXCEPT ![u] = Over("UNINSTALL_INCOMPLETE")]
        BY <1>11, <2>2 DEF Unregister, EndWith, Over
      <3> QED BY <1>3, <1>5, <2>1, <3>1 DEF UninstallEnds
    <2>3. CASE succeeds /\ Choice(u) = Preserve
      <3>1. uninstallers' = [uninstallers EXCEPT ![u] = Over("completed")]
        BY <1>11, <2>3 DEF Unregister, EndWith, Over
      <3>2. FitsIn(Over("completed"), plan, prepared, credential, remaining) /\ Over("completed").plan = x.plan
        BY <1>1, <1>2, <2>1, <2>3 DEF FitsIn, UninstallRecords, UninstallSteps, UninstallEnds, Covers, Over
      <3> QED BY <1>3, <2>1, <3>1, <3>2
    <2>4. CASE succeeds /\ Choice(u) # Preserve
      <3>1. uninstallers' = [uninstallers EXCEPT ![u] = To("revoking")]
        BY <1>11, <2>4 DEF Unregister, Go
      <3>2. FitsIn(To("revoking"), plan, prepared, credential, remaining) /\ To("revoking").plan = x.plan
        BY <1>1, <2>1, <2>4 DEF FitsIn, UninstallRecords, UninstallSteps, Covers
      <3> QED BY <1>3, <2>1, <3>1, <3>2
    <2> QED BY <2>2, <2>3, <2>4
  <1>12. ASSUME NEW succeeds \in BOOLEAN, DeleteCredential(u, succeeds)
         PROVE  RemovalFits' /\ RemovalWasChosen /\ PlanIsUsedOnce
    <2>1. x.step = "revoking" /\ UNCHANGED <<window, desktopRuns, plan, prepared, lapsed, consumed, goneBy, remaining>>
      BY <1>12 DEF DeleteCredential
    <2>2. CASE succeeds
      <3>1. uninstallers' = [uninstallers EXCEPT ![u] = To("looking")] /\ credential' = "none"
        BY <1>12, <2>2 DEF DeleteCredential, Go
      <3>2. FitsIn(To("looking"), plan', prepared, credential', remaining') /\ To("looking").plan = x.plan /\ Covers(x) # Preserve
        BY <1>1, <2>1, <3>1 DEF FitsIn, UninstallRecords, UninstallSteps, Covers
      <3> HIDE DEF To
      <3> QED BY <1>1, <2>1, <3>1, <3>2, UninstallerKeeps
    <2>3. CASE ~succeeds
      <3>1. uninstallers' = [uninstallers EXCEPT ![u] = Over("UNINSTALL_INCOMPLETE")] /\ Same
        BY <1>12, <2>1, <2>3 DEF DeleteCredential, EndWith, Over
      <3> QED BY <1>3, <1>5, <2>1, <3>1 DEF UninstallEnds
    <2> QED BY <2>2, <2>3
  <1>13. CASE LookForCredential(u)
    <2>1. x.step = "looking" /\ Same /\ Choice(u) = Covers(x)
      BY <1>13 DEF LookForCredential, Choice, Covers
    <2>2. CASE credential # "none"
      <3>1. uninstallers' = [uninstallers EXCEPT ![u] = Over("UNINSTALL_CREDENTIAL_DELETE_INCOMPLETE")]
        BY <1>13, <2>2 DEF LookForCredential, EndWith, Over
      <3> QED BY <1>3, <1>5, <2>1, <3>1 DEF UninstallEnds
    <2>3. CASE credential = "none" /\ Choice(u) = Revoke
      <3>1. uninstallers' = [uninstallers EXCEPT ![u] = Over("completed")]
        BY <1>13, <2>3 DEF LookForCredential, EndWith, Over
      <3>2. FitsIn(Over("completed"), plan, prepared, credential, remaining) /\ Over("completed").plan = x.plan
        BY <1>1, <1>2, <2>1, <2>3 DEF FitsIn, UninstallRecords, UninstallSteps, UninstallEnds, Covers, Over
      <3> QED BY <1>3, <2>1, <3>1, <3>2
    <2>4. CASE credential = "none" /\ Choice(u) # Revoke
      <3>1. uninstallers' = [uninstallers EXCEPT ![u] = To("erasing")]
        BY <1>13, <2>4 DEF LookForCredential, Go
      <3>2. Covers(x) = Erase
        BY <1>1, <1>2, <2>1, <2>4 DEF FitsIn, UninstallRecords, Covers
      <3>3. FitsIn(To("erasing"), plan, prepared, credential, remaining) /\ To("erasing").plan = x.plan
        BY <1>1, <1>2, <2>1, <2>4, <3>2 DEF FitsIn, UninstallRecords, UninstallSteps, Covers
      <3> QED BY <1>3, <2>1, <3>1, <3>3
    <2> QED BY <2>2, <2>3, <2>4
  <1>14. ASSUME NEW succeeds \in BOOLEAN, DeleteData(u, succeeds)
         PROVE  RemovalFits' /\ RemovalWasChosen /\ PlanIsUsedOnce
    <2>1. x.step = "erasing" /\ Covers(x) = Erase /\ UNCHANGED <<window, desktopRuns, prepared, lapsed, consumed, goneBy>>
      BY <1>1, <1>14 DEF DeleteData, FitsIn
    <2>2. CASE succeeds
      <3>1. /\ uninstallers' = [uninstallers EXCEPT ![u] = To("counting")]
            /\ credential' = "none" /\ remaining' = "none" /\ plan' = None
        BY <1>14, <2>2 DEF DeleteData, Go
      <3>2. FitsIn(To("counting"), plan', prepared, credential', remaining') /\ To("counting").plan = x.plan
        BY <1>1, <2>1, <3>1 DEF FitsIn, UninstallRecords, UninstallSteps, Covers, Nothing
      <3> HIDE DEF To
      <3> QED BY <1>1, <1>2, <2>1, <3>1, <3>2, UninstallerKeeps
    <2>3. CASE ~succeeds
      <3>1. /\ uninstallers' = [uninstallers EXCEPT ![u] = Over("UNINSTALL_INCOMPLETE")]
            /\ remaining' \in {remaining, IF remaining = "whole" THEN "part" ELSE remaining}
            /\ credential' \in {credential, "none"} /\ plan' \in {plan, None}
        BY <1>14, <2>3 DEF DeleteData, EndWith, Over
      <3>2. remaining \in Nothing => remaining' \in Nothing
        BY <3>1 DEF Nothing
      <3>3. FitsIn(Over("UNINSTALL_INCOMPLETE"), plan', prepared, credential', remaining') /\ Over("UNINSTALL_INCOMPLETE").plan = x.plan
        BY <1>5, <2>1, <3>1, <3>2 DEF UninstallEnds
      <3> QED BY <1>1, <1>2, <2>1, <3>1, <3>3, UninstallerKeeps
    <2> QED BY <2>2, <2>3
  <1>15. ASSUME NEW succeeds \in BOOLEAN, LookForData(u, succeeds)
         PROVE  RemovalFits' /\ RemovalWasChosen /\ PlanIsUsedOnce
    <2>1. x.step = "counting" /\ Same
      BY <1>15 DEF LookForData
    <2>2. CASE succeeds
      <3> DEFINE r == [x EXCEPT !.step = "ended", !.result = "completed", !.deleted = remaining = "none"]
      <3>1. uninstallers' = [uninstallers EXCEPT ![u] = r]
        BY <1>15, <2>2 DEF LookForData
      <3>2. FitsIn(r, plan, prepared, credential, remaining) /\ r.plan = x.plan
        BY <1>1, <1>2, <2>1 DEF FitsIn, UninstallRecords, UninstallSteps, UninstallEnds, Covers
      <3> QED BY <1>3, <2>1, <3>1, <3>2
    <2>3. CASE ~succeeds
      <3>1. uninstallers' = [uninstallers EXCEPT ![u] = Over("UNINSTALL_INCOMPLETE")]
        BY <1>15, <2>3 DEF LookForData, EndWith, Over
      <3> QED BY <1>3, <1>5, <2>1, <3>1 DEF UninstallEnds
    <2> QED BY <2>2, <2>3
  <1>16. CASE UninstallerEnds(u)
    <2>1. x.step \notin {"idle", "ended"} /\ Same /\ uninstallers' = [uninstallers EXCEPT ![u] = To("ended")]
      BY <1>16 DEF UninstallerEnds, Go
    <2>2. FitsIn(To("ended"), plan, prepared, credential, remaining) /\ To("ended").plan = x.plan
      BY <1>1, <2>1 DEF FitsIn, UninstallRecords, UninstallSteps, Covers
    <2> QED BY <1>3, <2>1, <2>2
  <1> QED BY <1>6, <1>7, <1>8, <1>9, <1>10, <1>11, <1>12, <1>13, <1>14, <1>15, <1>16 DEF UninstallerSteps

LEMMA RemovalStep == RemovalFits /\ [RemovalNext]_removalVars => RemovalFits' /\ RemovalWasChosen /\ PlanIsUsedOnce
  <1> SUFFICES ASSUME RemovalFits, [RemovalNext]_removalVars
               PROVE  RemovalFits' /\ RemovalWasChosen /\ PlanIsUsedOnce
    OBVIOUS
  <1>1. CASE UNCHANGED removalVars
    <2>1. RemovalFits'
      BY <1>1 DEF removalVars, RemovalFits, StoredFits, RemovalTypeOK
    <2>2. \A u \in Uninstallers : Choice(u)' = Covers(uninstallers'[u])
      BY DEF Choice, Covers
    <2>3. RemovalWasChosen
      BY <1>1, <2>1, <2>2 DEF removalVars, RemovalWasChosen, RemovalFits, FitsIn, Nothing
    <2> QED BY <1>1, <2>1, <2>3 DEF removalVars, PlanIsUsedOnce
  <1>2. CASE RemovalNext
    BY <1>2, WindowKeeps, ReinstallKeeps, UninstallerStep DEF RemovalNext
  <1> QED BY <1>1, <1>2

-----------------------------------------------------------------------------
(* Moving work between companions.                                         *)
\* The plans that are live, of any sequence of plans.
LivesUpTo(all, S, f) == f = [s \in SUBSET S |->
  IF s = {} THEN << >>
  ELSE IF Live(all[LastOf(s)]) THEN Append(f[s \ {LastOf(s)}], all[LastOf(s)]) ELSE f[s \ {LastOf(s)}]]

LEMMA LivesExist ==
  ASSUME NEW P, NEW all \in Seq(P)
  PROVE  \E f : LivesUpTo(all, DOMAIN all, f)
  <1> DEFINE n == Len(all)
             step == [k \in 1..n |-> [live \in Seq(P) |-> IF Live(all[k]) THEN Append(live, all[k]) ELSE live]]
  <1>1. n \in Nat /\ DOMAIN all = 1..n
    OBVIOUS
  <1>2. step \in [1..n -> [Seq(P) -> Seq(P)]]
    <2>1. ASSUME NEW k \in 1..n, NEW live \in Seq(P)
          PROVE  (IF Live(all[k]) THEN Append(live, all[k]) ELSE live) \in Seq(P)
      <3>1. all[k] \in P
        BY <1>1
      <3>2. Append(live, all[k]) \in Seq(P)
        BY <3>1
      <3> QED BY <3>2
    <2> QED BY <2>1
  <1>3. << >> \in Seq(P)
    OBVIOUS
  <1>4. \A k \in 1..n, live \in Seq(P) : step[k][live] = IF Live(all[k]) THEN Append(live, all[k]) ELSE live
    OBVIOUS
  <1> HIDE DEF step
  <1>5. PICK g \in [SUBSET (1..n) -> Seq(P)] : Folding(n, << >>, step, g)
    BY <1>1, <1>2, <1>3, FoldsExist
  <1>6. ASSUME NEW s \in SUBSET (1..n)
        PROVE  g[s] = IF s = {} THEN << >>
                      ELSE IF Live(all[LastOf(s)]) THEN Append(g[s \ {LastOf(s)}], all[LastOf(s)]) ELSE g[s \ {LastOf(s)}]
    <2>1. CASE s = {}
      BY <1>5, <2>1 DEF Folding
    <2>2. CASE s # {}
      <3>1. LastOf(s) \in 1..n
        BY <1>1, <2>2, LastOfIsOne
      <3>2. g[s \ {LastOf(s)}] \in Seq(P)
        BY <1>5
      <3>3. g[s] = step[LastOf(s)][g[s \ {LastOf(s)}]]
        BY <1>5, <2>2 DEF Folding
      <3> QED BY <1>4, <2>2, <3>1, <3>2, <3>3
    <2> QED BY <2>1, <2>2
  <1> QED BY <1>1, <1>5, <1>6 DEF LivesUpTo

LEMMA LivePlansGoUp ==
  ASSUME NEW P, NEW all \in Seq(P)
  PROVE  \E g : /\ LivePlans(all) = g[Len(all)]
                /\ g[0] = << >>
                /\ \A k \in 0..(Len(all) - 1) : g[k + 1] = IF Live(all[k + 1]) THEN Append(g[k], all[k + 1]) ELSE g[k]
  <1> DEFINE n == Len(all)
             iter[s \in SUBSET (DOMAIN all)] ==
               IF s = {} THEN << >>
               ELSE IF Live(all[LastOf(s)]) THEN Append(iter[s \ {LastOf(s)}], all[LastOf(s)]) ELSE iter[s \ {LastOf(s)}]
             g == [k \in 0..n |-> iter[1..k]]
  <1>1. n \in Nat /\ DOMAIN all = 1..n
    OBVIOUS
  <1>2. LivePlans(all) = iter[DOMAIN all]
    BY SMTT(30) DEF LivePlans, FoldLeft, MapThenFoldSet, Max, LastOf
  <1>3. LivesUpTo(all, 1..n, iter)
    <2>1. \E f : LivesUpTo(all, DOMAIN all, f)
      BY LivesExist
    <2> QED BY <1>1, <2>1, Zenon DEF LivesUpTo
  <1> HIDE DEF iter
  <1>4. iter[1..0] = << >>
    <2>1. 1..0 \in SUBSET (1..n) /\ 1..0 = {}
      OBVIOUS
    <2> QED BY <1>3, <2>1 DEF LivesUpTo
  <1>5. ASSUME NEW k \in 0..(n - 1)
        PROVE  g[k + 1] = IF Live(all[k + 1]) THEN Append(g[k], all[k + 1]) ELSE g[k]
    <2>1. 1..(k + 1) \in SUBSET (1..n) /\ LastOf(1..(k + 1)) = k + 1 /\ (1..(k + 1)) \ {k + 1} = 1..k
      BY <1>1, LastOfUpTo
    <2>2. k + 1 \in 1..(k + 1) /\ k \in 0..n /\ k + 1 \in 0..n
      BY <1>1
    <2>3. iter[1..(k + 1)] = IF Live(all[k + 1]) THEN Append(iter[1..k], all[k + 1]) ELSE iter[1..k]
      BY <1>3, <2>1, <2>2, Zenon DEF LivesUpTo
    <2> QED BY <2>2, <2>3
  <1>6. LivePlans(all) = g[n] /\ g[0] = << >>
    BY <1>1, <1>2, <1>4
  <1> HIDE DEF g
  <1> QED BY <1>5, <1>6

LEMMA LivePlansFit ==
  ASSUME NEW P, NEW all \in Seq(P)
  PROVE  LivePlans(all) \in Seq(P) /\ Len(LivePlans(all)) <= Len(all)
  <1> DEFINE n == Len(all)
  <1>1. PICK g : /\ LivePlans(all) = g[n]
                 /\ g[0] = << >>
                 /\ \A k \in 0..(n - 1) : g[k + 1] = IF Live(all[k + 1]) THEN Append(g[k], all[k + 1]) ELSE g[k]
    BY LivePlansGoUp
  <1> DEFINE T == {k \in 0..n : g[k] \in Seq(P) /\ Len(g[k]) <= k}
  <1>2. n \in Nat /\ \A k \in 1..n : all[k] \in P
    OBVIOUS
  <1>3. 0 \in T
    <2>1. << >> \in Seq(P) /\ Len(<< >>) = 0 /\ 0 \in 0..n
      BY <1>2
    <2>2. g[0] = << >>
      BY <1>1
    <2>3. g[0] \in Seq(P) /\ Len(g[0]) <= 0
      BY <2>1, <2>2
    <2> QED BY <2>1, <2>3
  <1>4. ASSUME NEW k \in 0..(n - 1), k \in T PROVE k + 1 \in T
    <2>1. g[k] \in Seq(P) /\ Len(g[k]) <= k /\ k + 1 \in 1..n /\ k + 1 \in 0..n
      BY <1>2, <1>4
    <2>2. all[k + 1] \in P
      BY <1>2, <2>1
    <2>3. Append(g[k], all[k + 1]) \in Seq(P) /\ Len(Append(g[k], all[k + 1])) = Len(g[k]) + 1 /\ Len(g[k]) \in Nat
      BY <2>1, <2>2
    <2>4. g[k + 1] = IF Live(all[k + 1]) THEN Append(g[k], all[k + 1]) ELSE g[k]
      BY <1>1
    <2>5. g[k + 1] \in Seq(P) /\ Len(g[k + 1]) <= k + 1
      <3> HIDE DEF T
      <3>1. k \in Nat
        OBVIOUS
      <3> QED BY <2>1, <2>3, <2>4, <3>1 DEF Live
    <2> QED BY <2>1, <2>5
  <1>5. n \in T
    <2> HIDE DEF T
    <2>1. 0..n \subseteq T
      BY <1>2, <1>3, <1>4, Counting
    <2> QED BY <1>2, <2>1
  <1> QED BY <1>1, <1>5

PortCounts == [added : Nat, skipped : Nat, conflicts : Nat, excluded : Nat, failed : Nat]
PortTickets == [PortIds -> PortedRecords({None}) \cup {None}]
PortEntries == PortedRecords(PortIds) \cup {None}
PortResults == [tickets : PortTickets, counts : PortCounts]

LEMMA ClassOf ==
  ASSUME NEW tickets \in PortTickets, NEW entry \in PortEntries
  PROVE  /\ entry = None => Class(tickets, entry) = "excluded"
         /\ entry # None /\ tickets[entry.id] = None => Class(tickets, entry) = "added"
         /\ entry # None /\ tickets[entry.id] # None => Class(tickets, entry) \in {"skipped", "conflicts"}
  <1>1. ASSUME entry = None PROVE Class(tickets, entry) = "excluded"
    BY <1>1, Zenon DEF Class
  <1>2. ASSUME entry # None, tickets[entry.id] = None PROVE Class(tickets, entry) = "added"
    <2> DEFINE same == [entry EXCEPT !.id = None, !.origin = "imported"]
    <2>1. same \in PortedRecords({None})
      BY <1>2 DEF PortEntries, PortedRecords
    <2>2. same # None
      BY <2>1, PortabilityConstants
    <2> QED BY <1>2, <2>2, Zenon DEF Class
  <1>3. ASSUME entry # None, tickets[entry.id] # None PROVE Class(tickets, entry) \in {"skipped", "conflicts"}
    BY <1>3, Zenon DEF Class
  <1> QED BY <1>1, <1>2, <1>3

\* What one more entry does: only a ticket that is not there is added, as imported.
LEMMA TakeFits ==
  ASSUME NEW r \in PortResults, NEW entry \in PortEntries
  PROVE  /\ TakeEntry(r, entry) \in PortResults
         /\ \/ /\ entry # None /\ entry.id \in PortIds /\ r.tickets[entry.id] = None
               /\ TakeEntry(r, entry).tickets = [r.tickets EXCEPT ![entry.id] = StoredEntry(entry)]
               /\ TakeEntry(r, entry).counts.added = r.counts.added + 1
               /\ StoredEntry(entry) \in PortedRecords({None}) /\ StoredEntry(entry) # None /\ StoredEntry(entry).origin = "imported"
            \/ TakeEntry(r, entry).tickets = r.tickets /\ TakeEntry(r, entry).counts.added = r.counts.added
  <1> DEFINE class == Class(r.tickets, entry)
             after == [tickets |-> IF class = "added" THEN [r.tickets EXCEPT ![entry.id] = StoredEntry(entry)] ELSE r.tickets,
                       counts |-> Counted(r.counts, class)]
  <1>1. TakeEntry(r, entry) = after
    BY DEF TakeEntry
  <1>2. r.tickets \in PortTickets /\ r.counts \in PortCounts
    BY DEF PortResults
  <1>3. ASSUME NEW what \in {"added", "skipped", "conflicts", "excluded"}
        PROVE  /\ Counted(r.counts, what) \in PortCounts
               /\ what # "added" => Counted(r.counts, what).added = r.counts.added
               /\ Counted(r.counts, "added").added = r.counts.added + 1
    BY <1>2 DEF PortCounts, Counted
  <1>4. CASE class = "added"
    <2>1. entry # None /\ r.tickets[entry.id] = None
      BY <1>2, <1>4, ClassOf, Zenon
    <2>2. entry.id \in PortIds /\ entry.text \in {1, 2}
      BY <2>1 DEF PortEntries, PortedRecords
    <2>3. StoredEntry(entry) \in PortedRecords({None}) /\ StoredEntry(entry).origin = "imported"
      BY <2>2 DEF StoredEntry, Ported, PortedRecords
    <2>4. StoredEntry(entry) # None
      BY <2>3, PortabilityConstants
    <2>5. after.tickets = [r.tickets EXCEPT ![entry.id] = StoredEntry(entry)] /\ after.counts = Counted(r.counts, "added")
      BY <1>4
    <2>6. after.tickets \in PortTickets
      BY <1>2, <2>3, <2>5 DEF PortTickets
    <2>7. after.counts \in PortCounts /\ after.counts.added = r.counts.added + 1
      BY <1>3, <2>5
    <2>8. after \in PortResults
      BY <2>6, <2>7 DEF PortResults
    <2> HIDE DEF after
    <2> QED BY <1>1, <2>1, <2>2, <2>3, <2>4, <2>5, <2>7, <2>8
  <1>5. CASE class # "added"
    <2>1. class \in {"skipped", "conflicts", "excluded"}
      BY <1>2, <1>5, ClassOf, Zenon
    <2>2. after = [tickets |-> r.tickets, counts |-> Counted(r.counts, class)]
      BY <1>5
    <2>3. after.tickets = r.tickets /\ after.counts \in PortCounts /\ after.counts.added = r.counts.added
      BY <1>3, <2>1, <2>2
    <2>4. after \in PortResults
      BY <1>2, <2>2, <2>3 DEF PortResults
    <2> HIDE DEF after
    <2> QED BY <1>1, <2>3, <2>4
  <1> QED BY <1>4, <1>5

-----------------------------------------------------------------------------
TakenUpTo(entries, base, S, f) == f = [s \in SUBSET S |->
  IF s = {} THEN base ELSE TakeEntry(f[s \ {LastOf(s)}], entries[LastOf(s)])]

LEMMA TakenExists ==
  ASSUME NEW entries \in Seq(PortEntries), NEW base \in PortResults
  PROVE  \E f : TakenUpTo(entries, base, DOMAIN entries, f)
  <1> DEFINE n == Len(entries)
             step == [k \in 1..n |-> [r \in PortResults |-> TakeEntry(r, entries[k])]]
  <1>1. n \in Nat /\ DOMAIN entries = 1..n /\ \A k \in 1..n : entries[k] \in PortEntries
    OBVIOUS
  <1>2. step \in [1..n -> [PortResults -> PortResults]]
    <2>1. \A k \in 1..n, r \in PortResults : TakeEntry(r, entries[k]) \in PortResults
      BY <1>1, TakeFits
    <2> QED BY <2>1
  <1>3. \A k \in 1..n, r \in PortResults : step[k][r] = TakeEntry(r, entries[k])
    OBVIOUS
  <1> HIDE DEF step
  <1>4. PICK g \in [SUBSET (1..n) -> PortResults] : Folding(n, base, step, g)
    BY <1>1, <1>2, FoldsExist
  <1>5. ASSUME NEW s \in SUBSET (1..n)
        PROVE  g[s] = IF s = {} THEN base ELSE TakeEntry(g[s \ {LastOf(s)}], entries[LastOf(s)])
    <2>1. CASE s = {}
      BY <1>4, <2>1 DEF Folding
    <2>2. CASE s # {}
      <3>1. LastOf(s) \in 1..n
        BY <1>1, <2>2, LastOfIsOne
      <3>2. g[s \ {LastOf(s)}] \in PortResults
        BY <1>4
      <3>3. g[s] = step[LastOf(s)][g[s \ {LastOf(s)}]]
        BY <1>4, <2>2 DEF Folding
      <3> QED BY <1>3, <2>2, <3>1, <3>2, <3>3
    <2> QED BY <2>1, <2>2
  <1> QED BY <1>1, <1>4, <1>5 DEF TakenUpTo

\* What was taken: what was there is kept, what is new is imported, and counted.
NewIn(r) == {id \in PortIds : kept[id] = None /\ r.tickets[id] # None}
Taken(r) ==
  /\ r \in PortResults
  /\ \A id \in PortIds : kept[id] # None => r.tickets[id] = kept[id]
  /\ \A id \in NewIn(r) : r.tickets[id].origin = "imported"
  /\ r.counts.added = Cardinality(NewIn(r))

LEMMA NothingTaken ==
  ASSUME kept \in PortTickets
  PROVE  Taken([tickets |-> kept, counts |-> NoCounts])
  <1> DEFINE r == [tickets |-> kept, counts |-> NoCounts]
  <1>1. r \in PortResults /\ r.counts.added = 0 /\ r.tickets = kept
    BY DEF PortResults, PortCounts, NoCounts
  <1> HIDE DEF r
  <1>2. NewIn(r) = {}
    BY <1>1 DEF NewIn
  <1>3. r.counts.added = Cardinality(NewIn(r))
    BY <1>1, <1>2, FS_EmptySet
  <1>4. \A id \in NewIn(r) : r.tickets[id].origin = "imported"
    BY <1>2
  <1>5. \A id \in PortIds : kept[id] # None => r.tickets[id] = kept[id]
    BY <1>1
  <1>6. Taken(r)
    BY <1>1, <1>3, <1>4, <1>5, Zenon DEF Taken
  <1> QED BY <1>6 DEF r

LEMMA TakeKeeps ==
  ASSUME kept \in PortTickets, NEW r, Taken(r), NEW entry \in PortEntries
  PROVE  Taken(TakeEntry(r, entry))
  <1> DEFINE s == TakeEntry(r, entry)
  <1>1. r \in PortResults /\ s \in PortResults
    BY TakeFits DEF Taken
  <1>2. CASE s.tickets = r.tickets /\ s.counts.added = r.counts.added
    <2> HIDE DEF s
    <2>1. NewIn(s) = NewIn(r)
      BY <1>2 DEF NewIn
    <2>2. s.counts.added = Cardinality(NewIn(s))
      BY <1>2, <2>1, Zenon DEF Taken
    <2>3. \A id \in NewIn(s) : s.tickets[id].origin = "imported"
      BY <1>2, <2>1, Zenon DEF Taken
    <2>4. \A id \in PortIds : kept[id] # None => s.tickets[id] = kept[id]
      BY <1>2, Zenon DEF Taken
    <2>5. Taken(s)
      BY <1>1, <2>2, <2>3, <2>4, Zenon DEF Taken
    <2> QED BY <2>5 DEF s
  <1>3. CASE /\ entry # None /\ entry.id \in PortIds /\ r.tickets[entry.id] = None
             /\ s.tickets = [r.tickets EXCEPT ![entry.id] = StoredEntry(entry)]
             /\ s.counts.added = r.counts.added + 1
             /\ StoredEntry(entry) \in PortedRecords({None}) /\ StoredEntry(entry) # None /\ StoredEntry(entry).origin = "imported"
    <2> HIDE DEF s
    <2>1. DOMAIN r.tickets = PortIds
      BY <1>1 DEF PortResults, PortTickets
    <2>2. kept[entry.id] = None
      BY <1>3 DEF Taken
    <2>3. NewIn(s) = NewIn(r) \cup {entry.id} /\ entry.id \notin NewIn(r)
      BY <1>3, <2>1, <2>2 DEF NewIn
    <2>4. IsFiniteSet(NewIn(r))
      BY PortabilityConstants, FS_Subset DEF NewIn
    <2>5. Cardinality(NewIn(s)) = Cardinality(NewIn(r)) + 1
      BY <2>3, <2>4, FS_AddElement
    <2>6. \A id \in PortIds : kept[id] # None => s.tickets[id] = kept[id]
      BY <1>3, <2>1, <2>2 DEF Taken
    <2>7. \A id \in NewIn(s) : s.tickets[id].origin = "imported"
      BY <1>3, <2>1, <2>3 DEF Taken, NewIn
    <2>8. r.counts.added = Cardinality(NewIn(r))
      BY DEF Taken
    <2>9. s.counts.added = Cardinality(NewIn(s))
      BY <1>3, <2>5, <2>8
    <2>10. Taken(s)
      BY <1>1, <2>6, <2>7, <2>9, Zenon DEF Taken
    <2> QED BY <2>10 DEF s
  <1> QED BY <1>1, <1>2, <1>3, TakeFits

LEMMA ImportTakes ==
  ASSUME kept \in PortTickets, NEW chosen, chosen.bundle.entries \in Seq(PortEntries)
  PROVE  Taken(ImportTickets(chosen))
  <1> DEFINE entries == chosen.bundle.entries
             n == Len(entries)
             base == [tickets |-> kept, counts |-> NoCounts]
             iter[s \in SUBSET (DOMAIN entries)] ==
               IF s = {} THEN base ELSE TakeEntry(iter[s \ {LastOf(s)}], entries[LastOf(s)])
             T == {k \in 0..n : Taken(iter[1..k])}
  <1>1. n \in Nat /\ DOMAIN entries = 1..n /\ \A k \in 1..n : entries[k] \in PortEntries
    OBVIOUS
  <1>2. ImportTickets(chosen) = iter[DOMAIN entries]
    BY DEF ImportTickets, FoldLeft, MapThenFoldSet, Max, LastOf
  <1>3. Taken(base) /\ base \in PortResults
    BY NothingTaken DEF Taken
  <1> HIDE DEF base
  <1>4. TakenUpTo(entries, base, 1..n, iter)
    <2>1. \E f : TakenUpTo(entries, base, DOMAIN entries, f)
      BY <1>3, TakenExists
    <2> QED BY <1>1, <2>1 DEF TakenUpTo
  <1> HIDE DEF iter, entries
  <1>5. 0 \in T
    <2>1. 1..0 \in SUBSET (1..n) /\ 1..0 = {}
      OBVIOUS
    <2>2. iter[1..0] = base
      BY <1>4, <2>1 DEF TakenUpTo
    <2>3. 0 \in 0..n
      BY <1>1
    <2> QED BY <1>3, <2>2, <2>3
  <1>6. ASSUME NEW k \in 0..(n - 1), k \in T PROVE k + 1 \in T
    <2>1. 1..(k + 1) \in SUBSET (1..n) /\ LastOf(1..(k + 1)) = k + 1 /\ (1..(k + 1)) \ {k + 1} = 1..k
      BY <1>1, LastOfUpTo
    <2>2. k + 1 \in 1..(k + 1) /\ k + 1 \in 0..n /\ k + 1 \in 1..n
      BY <1>1
    <2>3. iter[1..(k + 1)] = TakeEntry(iter[1..k], entries[k + 1])
      BY <1>4, <2>1, <2>2 DEF TakenUpTo
    <2>4. Taken(iter[1..k])
      BY <1>6
    <2>5. Taken(iter[1..(k + 1)])
      BY <1>1, <2>2, <2>3, <2>4, TakeKeeps
    <2> QED BY <2>2, <2>5
  <1>7. n \in T
    <2> HIDE DEF T
    <2>1. 0..n \subseteq T
      BY <1>1, <1>5, <1>6, Counting
    <2> QED BY <1>1, <2>1
  <1> QED BY <1>1, <1>2, <1>7

PlanRecords(T) == [bundle : Bundles, tickets : T, policy : T, used : BOOLEAN, expired : BOOLEAN]
IsPlan(p) == \E T : p \in PlanRecords(T)
PlansFit == (\E P : plans \in Seq(P) /\ \A p \in P : IsPlan(p)) /\ Len(plans) <= MaxPlans
ReceiptsFit == (\E R : receipts \in Seq(R)) /\ Len(receipts) <= MaxReceipts
PortInv ==
  /\ kept \in PortTickets /\ routed \in BOOLEAN
  /\ linkedLegacy \subseteq {l \in LegacyIds : kept[l] # None}
  /\ files \subseteq Bundles
  /\ PlansFit /\ ReceiptsFit

LEMMA PlanChanges ==
  ASSUME NEW p, IsPlan(p)
  PROVE  IsPlan([p EXCEPT !.used = TRUE]) /\ IsPlan([p EXCEPT !.expired = TRUE])
  <1>1. PICK T : p \in PlanRecords(T)
    BY DEF IsPlan
  <1>2. [p EXCEPT !.used = TRUE] \in PlanRecords(T) /\ [p EXCEPT !.expired = TRUE] \in PlanRecords(T)
    BY <1>1 DEF PlanRecords
  <1> QED BY <1>2, Zenon DEF IsPlan

LEMMA PortTyped == PortInv => PortabilityTypeOK
  <1> SUFFICES ASSUME PortInv PROVE PortabilityTypeOK
    OBVIOUS
  <1>1. \A id \in PortIds : kept[id] # None => kept[id].origin \in {"browser-ui", "demo", "imported"} /\ kept[id].done \in BOOLEAN
    BY DEF PortInv, PortTickets, PortedRecords
  <1> QED BY <1>1 DEF PortInv, PlansFit, ReceiptsFit, PortabilityTypeOK

LEMMA PortStart == PortabilityInit => PortInv
  <1> SUFFICES ASSUME PortabilityInit PROVE PortInv
    OBVIOUS
  <1>1. kept \in PortTickets
    <2>1. \A origin \in {"browser-ui", "demo"} : Ported(None, 1, origin, FALSE) \in PortedRecords({None})
      BY DEF PortedRecords, Ported
    <2>2. {None} \cup {Ported(None, 1, origin, FALSE) : origin \in {"browser-ui", "demo"}} \subseteq PortedRecords({None}) \cup {None}
      BY <2>1
    <2> QED BY <2>2 DEF PortabilityInit, PortTickets
  <1>2. PICK P : P = {}
    OBVIOUS
  <1>3. PlansFit /\ ReceiptsFit
    <2>1. plans \in Seq(P) /\ Len(plans) = 0 /\ receipts \in Seq(P) /\ Len(receipts) = 0
      BY DEF PortabilityInit
    <2>2. Len(plans) <= MaxPlans /\ Len(receipts) <= MaxReceipts
      BY <2>1, PortabilityConstants
    <2>3. \A p \in P : IsPlan(p)
      BY <1>2
    <2> QED BY <2>1, <2>2, <2>3, Zenon DEF PlansFit, ReceiptsFit
  <1> QED BY <1>1, <1>3, PortabilityConstants DEF PortabilityInit, PortInv

\* An export is a bundle.
LEMMA ExportsFit ==
  ASSUME PortInv
  PROVE  ExportedEntries \in Seq(PortEntries)
  <1> DEFINE ids == SetToSeq(Operational)
             c == Cardinality(Operational)
  <1>1. IsFiniteSet(Operational)
    BY PortabilityConstants, FS_Subset DEF Operational
  <1>2. c \in Nat /\ ids \in [1..c -> Operational]
    <2>1. c \in Nat /\ ExistsBijection(1..c, Operational)
      BY <1>1, FS_CardinalityType
    <2>2. PICK f \in Bijection(1..c, Operational) : TRUE
      BY <2>1 DEF ExistsBijection
    <2>3. f \in [1..c -> Operational] /\ IsInjective(f)
      BY <2>2 DEF Bijection, Injection, IsInjective
    <2> QED BY <2>1, <2>3 DEF SetToSeq
  <1>3. Len(ids) = c
    BY <1>2
  <1>4. ASSUME NEW i \in 1..c PROVE [kept[ids[i]] EXCEPT !.id = ids[i]] \in PortEntries
    <2>1. ids[i] \in PortIds /\ kept[ids[i]] # None
      BY <1>2 DEF Operational
    <2>2. kept[ids[i]] \in PortedRecords({None})
      BY <2>1 DEF PortInv, PortTickets
    <2> HIDE DEF ids
    <2> QED BY <2>1, <2>2 DEF PortEntries, PortedRecords
  <1> HIDE DEF ids
  <1>5. ExportedEntries = [i \in 1..c |-> [kept[ids[i]] EXCEPT !.id = ids[i]]]
    BY <1>3 DEF ExportedEntries, ids
  <1> QED BY <1>2, <1>4, <1>5

-----------------------------------------------------------------------------
LEMMA PrunedFit ==
  ASSUME NEW P, NEW all \in Seq(P)
  PROVE  PrunedPlans(all) \in Seq(P) /\ Len(PrunedPlans(all)) < MaxPlans
  <1> DEFINE live == LivePlans(all)
             last == SubSeq(live, Len(live) - MaxPlans + 2, Len(live))
  <1>1. live \in Seq(P) /\ Len(live) \in Nat /\ MaxPlans \in Nat \ {0}
    BY LivePlansFit, PortabilityConstants
  <1> HIDE DEF live
  <1>2. CASE Len(live) < MaxPlans
    BY <1>1, <1>2 DEF PrunedPlans, live
  <1>3. CASE ~(Len(live) < MaxPlans)
    <2>1. PrunedPlans(all) = last
      BY <1>3 DEF PrunedPlans, live
    <2>2. Len(live) - MaxPlans + 2 \in 1..(Len(live) + 1) /\ Len(live) \in (Len(live) - MaxPlans + 2 - 1)..Len(live)
      BY <1>1, <1>3
    <2>3. last \in Seq(P) /\ Len(last) = MaxPlans - 1
      BY <1>1, <1>3, <2>2, SubSeqProperties
    <2> HIDE DEF last
    <2> QED BY <1>1, <2>1, <2>3
  <1> QED BY <1>2, <1>3

PortKeeps(n) == \A id \in PortIds : kept[id] # None => n[id] = kept[id]

LEMMA CreateKeeps ==
  ASSUME PortInv, NEW categories \in SUBSET ImportCategories \ {{}}, CreateBundle(categories)
  PROVE  PortInv' /\ ImportKeepsAndCounts
  <1> DEFINE new == [Bundle(categories, IF "tickets-work" \in categories THEN ExportedEntries ELSE << >>) EXCEPT !.policySound = routed]
  <1>1. new \in Bundles
    <2>1. (IF "tickets-work" \in categories THEN ExportedEntries ELSE << >>) \in Seq(PortEntries)
      BY ExportsFit
    <2>2. routed \in BOOLEAN
      BY DEF PortInv
    <2> QED BY <2>1, <2>2 DEF Bundles, Bundle, PortEntries
  <1> HIDE DEF new
  <1>2. files' \subseteq Bundles
    BY <1>1 DEF CreateBundle, PortInv, new
  <1>3. UNCHANGED <<kept, routed, plans, receipts, linkedLegacy, migration>>
    BY DEF CreateBundle, legacyVars
  <1>4. PortInv'
    BY <1>2, <1>3 DEF PortInv, PlansFit, ReceiptsFit, IsPlan
  <1>5. ImportKeepsAndCounts
    BY <1>3 DEF ImportKeepsAndCounts
  <1> QED BY <1>4, <1>5

LEMMA PreviewKeeps ==
  ASSUME PortInv, NEW bundle \in files, PreviewImport(bundle)
  PROVE  PortInv' /\ ImportKeepsAndCounts
  <1> DEFINE chosen == [bundle |-> bundle, tickets |-> PreviewTickets(bundle), policy |-> PreviewPolicy(bundle),
                      used |-> FALSE, expired |-> FALSE]
  <1>1. UNCHANGED <<kept, routed, files, receipts, linkedLegacy, migration>>
    BY DEF PreviewImport, legacyVars
  <1>2. PICK P : plans \in Seq(P) /\ \A p \in P : IsPlan(p)
    BY DEF PortInv, PlansFit
  <1>3. IsPlan(chosen)
    <2>1. chosen \in PlanRecords({PreviewTickets(bundle), PreviewPolicy(bundle)})
      BY DEF PlanRecords, PortInv
    <2> QED BY <2>1, Zenon DEF IsPlan
  <1>4. plans' = IF bundle.sound THEN Append(PrunedPlans(plans), chosen) ELSE PrunedPlans(plans)
    BY DEF PreviewImport
  <1> HIDE DEF chosen
  <1>5. /\ PrunedPlans(plans) \in Seq(P \cup {chosen}) /\ Len(PrunedPlans(plans)) < MaxPlans
        /\ Len(PrunedPlans(plans)) \in Nat /\ MaxPlans \in Nat
    <2>1. PrunedPlans(plans) \in Seq(P) /\ Len(PrunedPlans(plans)) < MaxPlans
      BY <1>2, PrunedFit
    <2> QED BY <2>1, PortabilityConstants
  <1>6. plans' \in Seq(P \cup {chosen}) /\ Len(plans') <= MaxPlans
    BY <1>4, <1>5
  <1>7. PlansFit'
    <2>1. \A p \in P \cup {chosen} : IsPlan(p)
      BY <1>2, <1>3
    <2> QED BY <1>6, <2>1, Zenon DEF PlansFit, IsPlan
  <1>8. PortInv'
    BY <1>1, <1>7 DEF PortInv, ReceiptsFit
  <1>9. ImportKeepsAndCounts
    BY <1>1 DEF ImportKeepsAndCounts
  <1> QED BY <1>8, <1>9

LEMMA CommitImportKeeps ==
  ASSUME PortInv, NEW i \in 1..Len(plans), NEW key \in CommitKeys, NEW policyFirst \in BOOLEAN, NEW categories,
         CommitImport(i, key, categories, policyFirst)
  PROVE  PortInv' /\ ImportKeepsAndCounts
  <1> DEFINE chosen == plans[i]
             takesTickets == "tickets-work" \in categories \cap chosen.bundle.has
             takesPolicy == "routing-policy" \in categories \cap chosen.bundle.has
             tickets == IF takesTickets THEN ImportTickets(chosen) ELSE [tickets |-> kept, counts |-> NoCounts]
             policy == IF takesPolicy THEN ImportPolicy(chosen) ELSE NoCounts
             missing == (categories \ chosen.bundle.has) \cup (categories \cap ExportOnly)
             written == Receipt(key, tickets.counts, policy, missing)
  <1>1. PICK P : plans \in Seq(P) /\ \A p \in P : IsPlan(p)
    BY DEF PortInv, PlansFit
  <1>2. PICK R : receipts \in Seq(R)
    BY DEF PortInv, ReceiptsFit
  <1>3. kept \in PortTickets /\ Len(plans) <= MaxPlans /\ Len(receipts) <= MaxReceipts
    BY DEF PortInv, PlansFit, ReceiptsFit
  <1>4. UNCHANGED <<files, legacy, offered, linkedLegacy, migration>> /\ routed' \in BOOLEAN
    BY DEF CommitImport, legacyVars
  <1>5. chosen \in P /\ IsPlan(chosen)
    BY <1>1
  <1>6. Taken(tickets)
    <2>1. chosen.bundle.entries \in Seq(PortEntries)
      BY <1>5 DEF IsPlan, PlanRecords, Bundles, PortEntries
    <2> HIDE DEF chosen
    <2> QED BY <1>3, <2>1, ImportTakes, NothingTaken
  <1>7. ASSUME NEW Q, NEW all \in Seq(Q), \A p \in Q : IsPlan(p), Len(all) <= MaxPlans, plans' = LivePlans(all)
        PROVE  PlansFit'
    <2>1. plans' \in Seq(Q) /\ Len(plans') <= Len(all) /\ Len(plans') \in Nat /\ Len(all) \in Nat
      BY <1>7, LivePlansFit
    <2>2. Len(plans') <= MaxPlans
      BY <1>7, <2>1, PortabilityConstants
    <2> QED BY <1>7, <2>1, <2>2, Zenon DEF PlansFit, IsPlan
  <1>8. CASE CommitThrows(categories, chosen)
    <2>1. plans' = LivePlans(plans) /\ UNCHANGED <<kept, receipts>>
      BY <1>8 DEF CommitImport
    <2>2. PlansFit'
      BY <1>1, <1>3, <1>7, <2>1
    <2>3. PortInv'
      BY <1>4, <2>1, <2>2 DEF PortInv, ReceiptsFit
    <2>4. ImportKeepsAndCounts
      BY <2>1, <1>4 DEF ImportKeepsAndCounts
    <2> QED BY <2>3, <2>4
  <1>9. CASE ~CommitThrows(categories, chosen)
    <2>1. /\ plans' = LivePlans([plans EXCEPT ![i].used = TRUE])
          /\ kept' = tickets.tickets
          /\ receipts' = Remembered(written)
      BY <1>9 DEF CommitImport
    <2> HIDE DEF chosen, tickets, policy, missing
    <2>2. PlansFit'
      <3> DEFINE spent == [chosen EXCEPT !.used = TRUE]
                 all == [plans EXCEPT ![i].used = TRUE]
      <3>1. IsPlan(spent)
        BY <1>5, PlanChanges
      <3>2. all = [plans EXCEPT ![i] = spent]
        BY DEF chosen
      <3> HIDE DEF spent
      <3>3. all \in Seq(P \cup {spent}) /\ Len(all) = Len(plans)
        BY <1>1, <3>2
      <3> HIDE DEF all
      <3>4. \A p \in P \cup {spent} : IsPlan(p)
        BY <1>1, <3>1
      <3>5. plans' = LivePlans(all)
        BY <2>1 DEF all
      <3> QED BY <1>3, <1>7, <3>3, <3>4, <3>5
    <2>3. receipts' \in Seq(R \cup {written}) /\ Len(receipts') <= MaxReceipts /\ (receipts' # << >> => receipts'[Len(receipts')] = written)
      <3> HIDE DEF written
      <3> DEFINE all == Append(receipts, written)
      <3>1. receipts' = IF Len(all) > MaxReceipts THEN Tail(all) ELSE all
        BY <2>1 DEF Remembered
      <3>2. all \in Seq(R \cup {written}) /\ Len(all) = Len(receipts) + 1 /\ all[Len(all)] = written /\ Len(receipts) \in Nat
        BY <1>2
      <3> HIDE DEF all
      <3>3. CASE Len(all) > MaxReceipts
        <4>1. Tail(all) \in Seq(R \cup {written}) /\ Len(Tail(all)) = Len(all) - 1
          BY <3>2
        <4>2. ASSUME Tail(all) # << >> PROVE Tail(all)[Len(Tail(all))] = written
          BY <3>2, <4>1, <4>2, HeadTailProperties
        <4> QED BY <1>3, <3>1, <3>2, <3>3, <4>1, <4>2, PortabilityConstants
      <3>4. CASE ~(Len(all) > MaxReceipts)
        BY <3>1, <3>2, <3>4, PortabilityConstants
      <3> QED BY <3>3, <3>4
    <2>4. ReceiptsFit'
      BY <2>3, Zenon DEF ReceiptsFit
    <2>5. kept' \in PortTickets /\ PortKeeps(kept') /\ (\A id \in NewIn(tickets) : kept'[id].origin = "imported")
          /\ tickets.counts.added = Cardinality(NewIn(tickets))
      BY <1>6, <2>1 DEF Taken, PortKeeps, PortResults
    <2>6. linkedLegacy' \subseteq {l \in LegacyIds : kept'[l] # None}
      BY <1>4, <2>5, PortabilityConstants DEF PortInv, PortKeeps
    <2>7. files' \subseteq Bundles
      BY <1>4 DEF PortInv
    <2>8. PortInv'
      BY <1>4, <2>2, <2>4, <2>5, <2>6, <2>7, Zenon DEF PortInv, PortTickets, Bundles
    <2>9. ImportKeepsAndCounts
      <3>1. {id \in PortIds : kept[id] = None /\ kept'[id] # None} = NewIn(tickets)
        BY <2>1 DEF NewIn
      <3>2. written.tickets = tickets.counts
        BY DEF Receipt
      <3> HIDE DEF written
      <3> QED BY <2>3, <2>5, <3>1, <3>2 DEF ImportKeepsAndCounts, PortKeeps
    <2> QED BY <2>8, <2>9
  <1> QED BY <1>8, <1>9

LEMMA MigrationKeeps ==
  ASSUME PortInv, PreviewMigration \/ CommitMigration
  PROVE  PortInv' /\ ImportKeepsAndCounts
  <1>1. UNCHANGED <<routed, files, plans, receipts>>
    BY DEF PreviewMigration, CommitMigration, bundleVars
  <1>2. PlansFit' /\ ReceiptsFit'
    BY <1>1, Zenon DEF PortInv, PlansFit, ReceiptsFit, IsPlan
  <1>3. CASE UNCHANGED <<kept, linkedLegacy>>
    <2>1. PortInv'
      BY <1>1, <1>2, <1>3 DEF PortInv
    <2>2. ImportKeepsAndCounts
      BY <1>1, <1>3 DEF ImportKeepsAndCounts
    <2> QED BY <2>1, <2>2
  <1>4. CASE /\ kept' = [id \in PortIds |-> IF id \in Eligible THEN Ported(None, 1, "imported", FALSE) ELSE kept[id]]
             /\ linkedLegacy' = linkedLegacy \cup Eligible
    <2>1. Ported(None, 1, "imported", FALSE) \in PortedRecords({None}) /\ Ported(None, 1, "imported", FALSE) # None
      <3>1. Ported(None, 1, "imported", FALSE) \in PortedRecords({None})
        BY DEF Ported, PortedRecords
      <3> QED BY <3>1, PortabilityConstants
    <2>2. kept' \in PortTickets
      BY <1>4, <2>1 DEF PortInv, PortTickets
    <2>3. PortKeeps(kept') /\ Eligible \subseteq {l \in LegacyIds : kept'[l] # None}
      BY <1>4, <2>1, PortabilityConstants DEF PortKeeps, Eligible
    <2>4. linkedLegacy' \subseteq {l \in LegacyIds : kept'[l] # None}
      BY <1>4, <2>3, PortabilityConstants DEF PortInv, PortKeeps
    <2>5. PortInv'
      BY <1>1, <1>2, <2>2, <2>4 DEF PortInv, PortTickets
    <2>6. ImportKeepsAndCounts
      BY <1>1, <2>3 DEF ImportKeepsAndCounts, PortKeeps
    <2> QED BY <2>5, <2>6
  <1> QED BY <1>3, <1>4 DEF PreviewMigration, CommitMigration

LEMMA ExpiryKeeps ==
  ASSUME PortInv, NEW i \in 1..Len(plans), PlanExpires(i)
  PROVE  PortInv' /\ ImportKeepsAndCounts
  <1>1. PICK P : plans \in Seq(P) /\ \A p \in P : IsPlan(p)
    BY DEF PortInv, PlansFit
  <1>2. UNCHANGED <<kept, routed, files, receipts, linkedLegacy, migration>>
    BY DEF PlanExpires, legacyVars
  <1> DEFINE expired(p) == [p EXCEPT !.expired = TRUE]
             Q == P \cup {expired(p) : p \in P}
  <1>3. ASSUME NEW p \in P PROVE IsPlan(expired(p))
    <2>1. IsPlan(p)
      BY <1>1
    <2> QED BY <2>1, PlanChanges
  <1>4. plans' = [j \in 1..Len(plans) |-> IF j <= i THEN expired(plans[j]) ELSE plans[j]]
    BY DEF PlanExpires
  <1> HIDE DEF expired
  <1>5. plans' \in Seq(Q) /\ Len(plans') = Len(plans)
    BY <1>1, <1>4
  <1>6. \A p \in Q : IsPlan(p)
    BY <1>1, <1>3
  <1>7. PlansFit'
    <2> HIDE DEF Q
    <2>1. Len(plans') <= MaxPlans
      BY <1>5 DEF PortInv, PlansFit
    <2> QED BY <1>5, <1>6, <2>1, Zenon DEF PlansFit, IsPlan
  <1>8. PortInv'
    BY <1>2, <1>7 DEF PortInv, ReceiptsFit
  <1>9. ImportKeepsAndCounts
    BY <1>2 DEF ImportKeepsAndCounts
  <1> QED BY <1>8, <1>9

LEMMA ForgetKeeps ==
  ASSUME PortInv, ForgetPlans
  PROVE  PortInv' /\ ImportKeepsAndCounts
  <1>1. plans' = << >> /\ receipts' = << >> /\ UNCHANGED <<kept, routed, files, linkedLegacy, migration>>
    BY DEF ForgetPlans, legacyVars
  <1>2. PICK P : P = {}
    OBVIOUS
  <1>3. plans' \in Seq(P) /\ Len(plans') = 0 /\ receipts' \in Seq(P) /\ Len(receipts') = 0
    BY <1>1
  <1>4. Len(plans') <= MaxPlans /\ Len(receipts') <= MaxReceipts
    BY <1>3, PortabilityConstants
  <1>5. \A p \in P : IsPlan(p)
    BY <1>2
  <1>6. PlansFit' /\ ReceiptsFit'
    BY <1>3, <1>4, <1>5, Zenon DEF PlansFit, ReceiptsFit, IsPlan
  <1>7. PortInv'
    BY <1>1, <1>6 DEF PortInv
  <1>8. ImportKeepsAndCounts
    BY <1>1 DEF ImportKeepsAndCounts
  <1> QED BY <1>7, <1>8

LEMMA PersonKeeps ==
  ASSUME PortInv, NEW id \in PortIds, PersonWrites(id) \/ PersonDeletes(id)
  PROVE  PortInv' /\ ImportKeepsAndCounts
  <1>1. UNCHANGED <<routed, files, plans, receipts, migration>>
    BY DEF PersonWrites, PersonDeletes, bundleVars, legacyVars
  <1>2. PlansFit' /\ ReceiptsFit'
    BY <1>1, Zenon DEF PortInv, PlansFit, ReceiptsFit, IsPlan
  <1>3. ImportKeepsAndCounts
    BY <1>1 DEF ImportKeepsAndCounts
  <1>4. kept \in PortTickets /\ linkedLegacy \subseteq {l \in LegacyIds : kept[l] # None}
    BY DEF PortInv
  <1>5. kept' \in PortTickets /\ linkedLegacy' \subseteq {l \in LegacyIds : kept'[l] # None}
    <2>1. CASE PersonWrites(id)
      <3> DEFINE new == Ported(None, 2, IF kept[id] = None THEN "browser-ui" ELSE kept[id].origin, TRUE)
      <3>1. new \in PortedRecords({None})
        BY <1>4 DEF PortTickets, PortedRecords, Ported
      <3>2. new # None
        BY <3>1, PortabilityConstants
      <3>3. kept' = [kept EXCEPT ![id] = new] /\ linkedLegacy' = linkedLegacy
        BY <2>1 DEF PersonWrites, legacyVars
      <3> HIDE DEF new
      <3> QED BY <1>4, <3>1, <3>2, <3>3 DEF PortTickets
    <2>2. CASE PersonDeletes(id)
      BY <1>4, <2>2 DEF PersonDeletes, PortTickets
    <2> QED BY <2>1, <2>2
  <1> QED BY <1>1, <1>2, <1>3, <1>5 DEF PortInv, PortTickets

LEMMA PortStep == PortInv /\ [PortabilityNext]_portabilityVars => PortInv' /\ ImportKeepsAndCounts
  <1> SUFFICES ASSUME PortInv, [PortabilityNext]_portabilityVars PROVE PortInv' /\ ImportKeepsAndCounts
    OBVIOUS
  <1>1. CASE UNCHANGED portabilityVars
    <2>1. UNCHANGED <<kept, routed, linkedLegacy, files, plans, receipts, migration>>
      BY <1>1 DEF portabilityVars
    <2>2. PlansFit' /\ ReceiptsFit'
      BY <2>1, Zenon DEF PortInv, PlansFit, ReceiptsFit, IsPlan
    <2> QED BY <2>1, <2>2 DEF PortInv, ImportKeepsAndCounts
  <1>2. CASE PortabilityNext
    <2>1. CASE DataRequests
      <3>1. ASSUME NEW categories \in SUBSET ImportCategories \ {{}}, CreateBundle(categories)
            PROVE  PortInv' /\ ImportKeepsAndCounts
        BY <3>1, CreateKeeps
      <3>2. ASSUME NEW bundle \in files, PreviewImport(bundle)
            PROVE  PortInv' /\ ImportKeepsAndCounts
        BY <3>2, PreviewKeeps
      <3>3. ASSUME NEW i \in 1..Len(plans), NEW key \in CommitKeys, NEW policyFirst \in BOOLEAN,
                   NEW categories \in (SUBSET ImportCategories) \cup {{"tickets-work", "model-usage"}},
                   CommitImport(i, key, categories, policyFirst)
            PROVE  PortInv' /\ ImportKeepsAndCounts
        BY <3>3, CommitImportKeeps
      <3> QED BY <2>1, <3>1, <3>2, <3>3, Zenon DEF DataRequests
    <2>2. CASE PreviewMigration \/ CommitMigration
      BY <2>2, MigrationKeeps
    <2>3. ASSUME NEW i \in 1..Len(plans), PlanExpires(i) PROVE PortInv' /\ ImportKeepsAndCounts
      BY <2>3, ExpiryKeeps
    <2>4. CASE ForgetPlans
      BY <2>4, ForgetKeeps
    <2>5. ASSUME NEW id \in PortIds, PersonWrites(id) \/ PersonDeletes(id) PROVE PortInv' /\ ImportKeepsAndCounts
      BY <2>5, PersonKeeps
    <2> QED BY <1>2, <2>1, <2>2, <2>3, <2>4, <2>5, Zenon DEF PortabilityNext
  <1> QED BY <1>1, <1>2

-----------------------------------------------------------------------------
(* The types of the services' states.                                      *)
\* The companion that has the port listens.
PortIsServed == port # None => port = "stranger" \/ (port \in Companions /\ openers[port].step = "listening")

LEMMA PortStart1 == SchemaInit => PortIsServed
  BY DEF SchemaInit, PortIsServed

LEMMA PortKept == Whole /\ PortIsServed /\ [SchemaNext]_schemaVars => PortIsServed'
  <1> SUFFICES ASSUME Whole, PortIsServed, [SchemaNext]_schemaVars PROVE PortIsServed'
    OBVIOUS
  <1>1. openers \in [Openers -> [step : Steps, from : 0..Latest]] /\ Adopter \notin Companions /\ Companions \subseteq Openers /\ Adopter \in Openers
    BY NoneIsNoDatabase DEF Whole, SchemaTyped, Openers
  <1>2. CASE UNCHANGED schemaVars
    BY <1>2 DEF schemaVars, PortIsServed
  <1>3. ASSUME NEW o \in Openers, UNCHANGED port, openers[o].step # "listening" \/ o = Adopter,
               \A p \in Openers \ {o} : openers'[p] = openers[p]
        PROVE  PortIsServed'
    BY <1>1, <1>3 DEF PortIsServed
  <1>4. ASSUME NEW c \in Companions, ProbePort(c) \/ CopyDatabase(c) PROVE PortIsServed'
    <2>1. UNCHANGED port /\ openers[c].step # "listening" /\ \A p \in Openers \ {c} : openers'[p] = openers[p]
      BY <1>1, <1>4 DEF ProbePort, CopyDatabase, StepTo
    <2> QED BY <1>1, <1>3, <2>1
  <1>5. ASSUME NEW c \in Companions, Listen(c) PROVE PortIsServed'
    <2>1. CASE port = None
      BY <1>1, <1>5, <2>1 DEF Listen, StepTo, PortIsServed
    <2>2. CASE port # None
      <3>1. UNCHANGED port /\ openers[c].step # "listening" /\ \A p \in Openers \ {c} : openers'[p] = openers[p]
        BY <1>1, <1>5, <2>2 DEF Listen, StepTo
      <3> QED BY <1>1, <1>3, <3>1
    <2> QED BY <2>1, <2>2
  <1>6. ASSUME NEW c \in Companions, LeaveDatabase(c) PROVE PortIsServed'
    BY <1>1, <1>6 DEF LeaveDatabase, StepTo, PortIsServed
  <1>7. ASSUME NEW o \in Openers, ReadVersion(o) \/ Migrate(o) \/ FinishOpening(o) PROVE PortIsServed'
    <2>1. UNCHANGED port /\ openers[o].step # "listening" /\ \A p \in Openers \ {o} : openers'[p] = openers[p]
      BY <1>1, <1>7 DEF ReadVersion, Migrate, FinishOpening, StepTo
    <2> QED BY <1>3, <2>1
  <1>8. ASSUME \/ \E answered \in BOOLEAN : InspectForAdoption(answered)
               \/ CopyForAdoption \/ FinishMigration \/ RecordAdoption \/ AdoptionEnds
        PROVE  PortIsServed'
    <2>1. UNCHANGED port /\ \A p \in Openers \ {Adopter} : openers'[p] = openers[p]
      BY <1>1, <1>8 DEF InspectForAdoption, CopyForAdoption, FinishMigration, RecordAdoption, AdoptionEnds, StepTo
    <2> QED BY <1>1, <1>3, <2>1
  <1> QED BY <1>2, <1>4, <1>5, <1>6, <1>7, <1>8 DEF SchemaNext

LEMMA SchemaIsTyped == Whole /\ PortIsServed => SchemaTypeOK
  <1> SUFFICES ASSUME Whole, PortIsServed PROVE SchemaTypeOK
    OBVIOUS
  <1>1. \A o \in Openers : openers[o].step \in {"idle", "probed", "copied", "migrating", "open", "listening", "failed"}
    BY DEF Whole, SchemaTyped, Steps
  <1> QED BY <1>1 DEF Whole, SchemaTyped, DatabaseRecord, PortIsServed, SchemaTypeOK

LEMMA FoldersAreTyped == FoldersInv => FoldersTypeOK
  <1> SUFFICES ASSUME FoldersInv PROVE FoldersTypeOK
    OBVIOUS
  <1>1. \A f \in FolderIds : folders[f] # None =>
          folders[f].state \in {"active", "paused"} /\ folders[f].kind \in Kinds \cup {"unavailable"}
    BY DEF FoldersInv, FoldersTyped, FolderList, FolderRow
  <1>2. ASSUME NEW p \in Places PROVE Cardinality(FolderAt(folders, p)) <= 1
    <2>1. CASE FolderAt(folders, p) = {}
      BY <2>1, FS_EmptySet
    <2>2. CASE FolderAt(folders, p) # {}
      <3>1. PICK f : f \in FolderAt(folders, p)
        BY <2>2
      <3>2. FolderAt(folders, p) = {f}
        BY <3>1 DEF FolderAt, FoldersInv, PlacesAreOnce
      <3>3. Cardinality({f}) = 1
        BY FS_Singleton
      <3> QED BY <3>2, <3>3
    <2> QED BY <2>1, <2>2
  <1> QED BY <1>1, <1>2 DEF FoldersTypeOK

LEMMA RunsAreTyped == ReconciliationInv => ReconciliationTypeOK
  <1> SUFFICES ASSUME ReconciliationInv PROVE ReconciliationTypeOK
    OBVIOUS
  <1>1. ASSUME NEW r \in CheckRuns, runs[r] # None
        PROVE  /\ runs[r].state \in {"running"} \cup EndedStates
               /\ runs[r].left \subseteq runs[r].wanted
               /\ runs[r].reading \in Reading \cup {None}
               /\ \A s \in DOMAIN runs[r].results : runs[r].results[s] \in SourceResult \cup {None}
    <2>1. runs[r] \in Run /\ RunIsSound(runs[r])
      BY <1>1 DEF ReconciliationInv, RunsSound
    <2> QED BY <2>1 DEF Run, RunIsSound
  <1> QED BY <1>1 DEF ReconciliationInv, RowsSound, ReconciliationTypeOK

-----------------------------------------------------------------------------
(* The services together.  A behaviour is one of one service, and the      *)
(* others rest, so each keeps the invariant of its own.                    *)
SceneIsService ==
  scene \in {"integrations", "ingress", "hooks", "usage", "reconciliation", "portability", "credentials", "folders", "processes",
             "conversations", "installation", "removal"}

ServicesInv ==
  /\ SceneIsService
  /\ CredentialsInv /\ FoldersInv /\ Whole /\ PortIsServed /\ ProcessesInv /\ McpInv /\ ReconciliationInv
  /\ Admitted /\ UsageInv /\ IntegrationsInv /\ HooksFit /\ RemovalFits /\ PortInv

LEMMA ServicesStart == ServicesInit => ServicesInv
  <1> SUFFICES ASSUME ServicesInit PROVE ServicesInv
    OBVIOUS
  <1>1. /\ CredentialsInit /\ FoldersInit /\ SchemaInit /\ ProcessesInit /\ McpInit /\ ReconciliationInit
        /\ IngressInit /\ UsageInit /\ IntegrationsInit /\ HookSettingsInit /\ RemovalInit /\ PortabilityInit
    BY DEF ServicesInit
  <1>2. CredentialsInv /\ FoldersInv /\ Whole /\ PortIsServed /\ ProcessesInv /\ McpInv /\ ReconciliationInv
    BY <1>1, CredentialsStart, FoldersStart, WholeInit, PortStart1, ProcessesStart, McpStart, ReconciliationStart
  <1>3. Admitted /\ UsageInv /\ IntegrationsInv /\ HooksFit /\ RemovalFits /\ PortInv
    BY <1>1, AdmittedInit, UsageStarts, IntegrationsStart, HooksStart, RemovalStart, PortStart
  <1>4. SceneIsService
    BY DEF ServicesInit, SceneIsService
  <1> QED BY <1>2, <1>3, <1>4 DEF ServicesInv

\* A step of the program is one of each service, or leaves it alone.
LEMMA OneServiceSteps ==
  ASSUME [ServicesNext]_servicesVars
  PROVE  /\ [CredentialsNext]_credentialVars /\ [FoldersNext]_folderVars /\ [SchemaNext]_schemaVars
         /\ [ProcessesNext]_processVars /\ [McpNext]_mcpVars /\ [ReconciliationNext]_reconciliationVars
         /\ [IngressNext]_ingressVars /\ [UsageNext]_usageVars /\ [IntegrationsNext]_integrationVars
         /\ [HookSettingsNext]_hookVars /\ [RemovalNext]_removalVars /\ [PortabilityNext]_portabilityVars
  <1>1. CASE UNCHANGED servicesVars
    BY <1>1 DEF servicesVars
  <1>2. CASE ServicesNext
    BY <1>2 DEF ServicesNext
  <1> QED BY <1>1, <1>2

LEMMA ServicesStep == ServicesInv /\ [ServicesNext]_servicesVars => ServicesInv'
  <1> SUFFICES ASSUME ServicesInv, [ServicesNext]_servicesVars PROVE ServicesInv'
    OBVIOUS
  <1>1. CredentialsInv' /\ FoldersInv' /\ Whole' /\ PortIsServed'
    BY OneServiceSteps, CredentialsStep, FoldersStep, WholeStep, PortKept DEF ServicesInv
  <1>2. ProcessesInv' /\ McpInv' /\ ReconciliationInv'
    BY OneServiceSteps, ProcessesStep, McpStep, ReconciliationStep DEF ServicesInv
  <1>3. Admitted' /\ UsageInv' /\ IntegrationsInv'
    BY OneServiceSteps, AdmittedStep, UsageStep, IntegrationsStep DEF ServicesInv
  <1>4. HooksFit' /\ RemovalFits' /\ PortInv'
    BY OneServiceSteps, HooksStep, RemovalStep, PortStep DEF ServicesInv
  <1>5. SceneIsService'
    BY DEF ServicesNext, servicesVars, ServicesInv, SceneIsService
  <1> QED BY <1>1, <1>2, <1>3, <1>4, <1>5 DEF ServicesInv

\* Every service's state keeps its type: in particular a folder's place is connected once, the
\* companion that has the port listens, a conversation works on the line it was sent, and plans and
\* receipts of imports keep their limits.
THEOREM ServicesAreTyped == ServicesSpec => []ServicesTypeOK
  <1>1. ASSUME ServicesInv PROVE ServicesTypeOK
    <2>1. IntegrationsTypeOK /\ IngressTypeOK /\ HookSettingsTypeOK /\ UsageTypeOK /\ ReconciliationTypeOK
      BY <1>1, RunsAreTyped, IntegrationsTyped DEF ServicesInv, Admitted, HooksFit, UsageInv
    <2>2. PortabilityTypeOK /\ CredentialsTypeOK /\ FoldersTypeOK /\ ProcessesTypeOK
      BY <1>1, PortTyped, DisconnectsLast, FoldersAreTyped, ProcessesAreTyped DEF ServicesInv
    <2>3. McpTypeOK /\ SchemaTypeOK /\ RemovalTypeOK
      BY <1>1, McpIsTyped, SchemaIsTyped DEF ServicesInv, RemovalFits, StoredFits
    <2>4. SceneIsService
      BY <1>1 DEF ServicesInv
    <2> QED BY <2>1, <2>2, <2>3, <2>4, Zenon DEF ServicesTypeOK, SceneIsService
  <1> QED BY <1>1, ServicesStart, ServicesStep, PTL DEF ServicesSpec

\* No source is served more than its bucket allows, a complete snapshot has an event that answers it
\* and a reporter told that its event counts finds its snapshot complete, a listing nobody wrote
\* under promises no coverage of a surface that cannot report, and the usage that is shown is that
\* of the refresh that counts.
THEOREM ReadingsStayHonest == ServicesSpec => []ReadingsAreHonest
  <1>1. ASSUME ServicesInv PROVE ReadingsAreHonest
    <2>1. RateBounded /\ SnapshotsAnswered
      BY <1>1, AdmittedSafe DEF ServicesInv
    <2>2. CoverageIsHonest /\ UsageHistoryStands
      BY <1>1, CoverageFollows DEF ServicesInv, UsageInv
    <2> QED BY <2>1, <2>2 DEF ReadingsAreHonest
  <1> QED BY <1>1, ServicesStart, ServicesStep, PTL DEF ServicesSpec

\* A person's disconnection is final whatever refresh or callback was under way, a folder that was
\* paused or removed is not brought back by a check, a scan or a restart, and a database is served
\* or adopted with every migration of its version.
THEOREM ChoicesAreKept == ServicesSpec => []ChoicesStand
  <1>1. ASSUME ServicesInv PROVE ChoicesStand
    <2>1. DisconnectIsFinal /\ PendingAttemptIsOpen /\ FolderChoicesStand
      BY <1>1, DisconnectsLast, FoldersStand DEF ServicesInv
    <2>2. SchemaIsWhole /\ AdoptedIsMigrated
      BY <1>1, WholeSafe DEF ServicesInv
    <2> QED BY <2>1, <2>2 DEF ChoicesStand
  <1> QED BY <1>1, ServicesStart, ServicesStep, PTL DEF ServicesSpec

\* A run is complete only when every source it was asked for was checked or switched off, and what
\* it found changed reaches the tickets; an execution ends as its process told and leaves none
\* running; a conversation is answered in order, and told of work only what became of it.
THEOREM RunsStayTruthful == ServicesSpec => []RunsAreTruthful
  <1>1. ASSUME ServicesInv PROVE RunsAreTruthful
    BY <1>1, ReconciliationSafe, ProcessesSafe, McpSafe DEF ServicesInv, RunsAreTruthful
  <1> QED BY <1>1, ServicesStart, ServicesStep, PTL DEF ServicesSpec

\* What a run came to is not rewritten by a later source, an interruption or a retry of it.
THEOREM VerdictsAreFinal == ServicesSpec => VerdictsStand
  <1>1. ASSUME ServicesInv, [ServicesNext]_servicesVars
        PROVE  \A r \in CheckRuns : runs[r] # None /\ runs[r].state \in EndedStates => runs'[r] = runs[r]
    BY <1>1, OneServiceSteps, VerdictsKept DEF ServicesInv
  <1> QED BY <1>1, ServicesStart, ServicesStep, PTL DEF ServicesSpec, VerdictsStand

\* A request that is served alone to its end does what it says, however the earlier ones left the
\* integration.
THEOREM UndisturbedRequestsDo == ServicesSpec => UndisturbedRequestsWork
  <1>1. ASSUME ServicesInv
        PROVE  \A c \in Requests : requests[c] # None /\ requests[c].alone =>
                 LET i == requests[c].id op == requests[c].op IN
                 /\ TokenStored(c) \/ TokenFound(c) =>
                      Verifiable(rows'[i]) /\ i \in tokens /\ (op # "test" => runtime'.capture)
                 /\ RetriesCleared(c) =>
                      /\ ~rows'[i].configured \/ rows'[i].failed
                      /\ ~rows'[i].enabled /\ ~rows'[i].ref /\ i \notin tokens
                 /\ RetriesCleared(c) /\ op = "rollback" /\ requests[c].todo = {} =>
                      ~runtime'.capture /\ tokens = {} /\ \A j \in Integrations : ~rows'[j].enabled /\ ~rows'[j].ref
    BY <1>1, UndisturbedFollows DEF ServicesInv, IntegrationsInv
  <1> QED BY <1>1, ServicesStart, ServicesStep, PTL DEF ServicesSpec, UndisturbedRequestsWork

\* The hooks of others are as they were in a settings file that an installation or a removal
\* replaced, if no agent saved the file after it was read.
THEOREM ForeignHooksAreKept == ServicesSpec => ForeignHooksKept
  <1>1. ASSUME ServicesInv
        PROVE  Replace /\ Unshared =>
                 /\ HooksIn(settings') = HooksIn(settings)
                 /\ \A e \in HookEvents : {g \ {Ours} : g \in settings'[e]} \ {{}} = {g \ {Ours} : g \in Parsed(settings)[e]} \ {{}}
                 /\ IF installer.op = "install" THEN \A e \in HookEvents : \E g \in settings'[e] : Ours \in g
                    ELSE ~OwnedFile(settings')
    BY <1>1, ReplacementKeeps DEF ServicesInv
  <1> QED BY <1>1, ServicesStart, ServicesStep, PTL DEF ServicesSpec, ForeignHooksKept

\* A refresh commits exactly the days it was told of without contradiction, an import adds what is
\* not there and its receipt counts that, an unfit database is left.  However uninstallers overlap with
\* one another and with a program that runs on, data and credential go by a plan prepared for it
\* alone, one that says it completed left nothing the plan covers but what was written beside it,
\* and a stored plan is used up once, by who goes by it or by an earlier one.
THEOREM CommitsStayHonest == ServicesSpec => CommitsAreHonest
  <1>1. ASSUME ServicesInv, [ServicesNext]_servicesVars
        PROVE  /\ CommitWasReported /\ ImportKeepsAndCounts
               /\ UnfitIsLeft /\ RemovalWasChosen /\ PlanIsUsedOnce
    <2>1. CommitWasReported /\ RemovalWasChosen /\ PlanIsUsedOnce
      BY <1>1, OneServiceSteps, UsageStep, RemovalStep DEF ServicesInv
    <2>2. ImportKeepsAndCounts /\ UnfitIsLeft
      BY <1>1, OneServiceSteps, PortStep, UnfitLeft DEF ServicesInv
    <2> QED BY <2>1, <2>2
  <1> QED BY <1>1, ServicesStart, ServicesStep, PTL DEF ServicesSpec, CommitsAreHonest

================================================================================
