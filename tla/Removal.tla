----------------------------------- MODULE Removal -----------------------------------
(***************************************************************************)
(* What is left of the data when the desktop program is uninstalled.  A    *)
(* person chooses and prepares a plan; the uninstallers, which Windows     *)
(* also starts without one, read the plan that is stored, find it valid or *)
(* not and rename it, each of which awaits the file system.  Nothing locks *)
(* them out of one another, and nothing stops the desktop program.         *)
(***************************************************************************)
EXTENDS Absence, Naturals

CONSTANTS
  Uninstallers,  \* processes that are started to apply a plan
  MaxRemovals    \* plans that are prepared

VARIABLES
  window,        \* the choice shown and its second confirmation
  desktopRuns,   \* the program, and the companion in it
  plan,          \* the stored plan, or None
  prepared,      \* the number of plans prepared, the latest's name
  lapsed,        \* how many of them are older than ten minutes
  consumed,      \* the plans whose file was renamed
  goneBy,        \* the plans an uninstaller went by
  uninstallers,  \* of each its step, the name and the plan it read, the one it goes by, its end
  credential,    \* "none", "stored", or "anew" where it was stored beside an uninstaller
  remaining      \* the directory of the data: "whole", "part", "none", or "anew" after it was gone

removalVars == <<window, desktopRuns, plan, prepared, lapsed, consumed, goneBy, uninstallers, credential, remaining>>

Preserve == "preserve-data"
Revoke == "remove-credentials"
Erase == "delete-all-data"
UninstallChoices == {Preserve, Revoke, Erase}
UninstallEnds == {"completed", "UNINSTALL_INCOMPLETE", "UNINSTALL_CREDENTIAL_DELETE_INCOMPLETE"}
ASSUME NoneIsNoEnd == None \notin UninstallEnds

Unshown == [choice |-> Preserve, confirmed |-> FALSE]
AtRest == [step |-> "idle", name |-> None, found |-> None, plan |-> None, result |-> None, deleted |-> FALSE]
Applying == {u \in Uninstallers : uninstallers[u].step # "idle"}

RemovalInit ==
  /\ window = Unshown /\ desktopRuns = TRUE
  /\ plan = None /\ prepared = 0 /\ lapsed = 0 /\ consumed = {} /\ goneBy = {}
  /\ uninstallers = [u \in Uninstallers |-> AtRest]
  /\ credential \in {"none", "stored"} /\ remaining = "whole"

-----------------------------------------------------------------------------
(* The desktop program, its window and its companion.                      *)
Choose(choice) ==
  /\ desktopRuns /\ window.choice # choice
  /\ window' = [choice |-> choice, confirmed |-> window.confirmed /\ choice = Erase]
  /\ UNCHANGED <<desktopRuns, plan, prepared, lapsed, consumed, goneBy, uninstallers, credential, remaining>>

Confirm ==
  /\ desktopRuns /\ window.choice = Erase /\ window' = [window EXCEPT !.confirmed = ~@]
  /\ UNCHANGED <<desktopRuns, plan, prepared, lapsed, consumed, goneBy, uninstallers, credential, remaining>>

\* A write of the program makes the directory again.
Recreated == IF remaining = "none" THEN "anew" ELSE remaining

\* All data is planned to be deleted only after a second confirmation; a plan replaces the last.
Prepare ==
  /\ desktopRuns /\ prepared < MaxRemovals
  /\ window.choice = Erase => window.confirmed
  /\ prepared' = prepared + 1
  /\ plan' = [id |-> prepared', choice |-> window.choice, confirmed |-> window.confirmed]
  /\ remaining' = Recreated
  /\ UNCHANGED <<window, desktopRuns, lapsed, consumed, goneBy, uninstallers, credential>>

\* Ten minutes after the oldest plan that is still good.
RemovalExpires ==
  /\ lapsed < prepared /\ lapsed' = lapsed + 1
  /\ UNCHANGED <<window, desktopRuns, plan, prepared, consumed, goneBy, uninstallers, credential, remaining>>

\* Uninstallers do not stop the companion: it may write to its data, and store a credential.
CompanionWrites ==
  /\ desktopRuns /\ remaining' = Recreated
  /\ credential' \in {credential, IF Applying = {} THEN "stored" ELSE "anew"}
  /\ UNCHANGED <<window, desktopRuns, plan, prepared, lapsed, consumed, goneBy, uninstallers>>

QuitDesktop ==
  /\ desktopRuns /\ desktopRuns' = FALSE /\ window' = Unshown
  /\ UNCHANGED <<plan, prepared, lapsed, consumed, goneBy, uninstallers, credential, remaining>>

StartDesktop ==
  /\ ~desktopRuns /\ desktopRuns' = TRUE
  /\ UNCHANGED <<window, plan, prepared, lapsed, consumed, goneBy, uninstallers, credential, remaining>>

\* Installed again, the program finds what was left, or starts anew: it is the person's data now.
Reinstall ==
  /\ Applying # {} /\ ~desktopRuns /\ \A u \in Applying : uninstallers[u].step = "ended"
  /\ uninstallers' = [u \in Uninstallers |-> AtRest]
  /\ remaining' = "whole" /\ credential' = (IF credential = "anew" THEN "stored" ELSE credential)
  /\ UNCHANGED <<window, desktopRuns, plan, prepared, lapsed, consumed, goneBy>>

-----------------------------------------------------------------------------
(* An uninstaller: the steps between two of its waits.                     *)
Go(u, step) == uninstallers' = [uninstallers EXCEPT ![u].step = step]
GoBy(u, p) == uninstallers' = [uninstallers EXCEPT ![u] = [@ EXCEPT !.step = "unregistering", !.name = None, !.found = None, !.plan = p]]
EndWith(u, result) == uninstallers' = [uninstallers EXCEPT ![u] = [@ EXCEPT !.step = "ended", !.result = result]]

\* From the window, or from Windows.
Launch(u) ==
  /\ uninstallers[u].step = "idle" /\ Go(u, "naming")
  /\ UNCHANGED <<window, desktopRuns, plan, prepared, lapsed, consumed, goneBy, credential, remaining>>

\* Without a plan there is no name, and all is preserved.
ReadName(u) ==
  /\ uninstallers[u].step = "naming"
  /\ IF plan = None THEN GoBy(u, None)
     ELSE uninstallers' = [uninstallers EXCEPT ![u] = [@ EXCEPT !.step = "reading", !.name = plan.id]]
  /\ UNCHANGED <<window, desktopRuns, plan, prepared, lapsed, consumed, goneBy, credential, remaining>>

\* The file is read once more, for the plan.
ReadPlan(u) ==
  /\ uninstallers[u].step = "reading"
  /\ IF plan = None THEN GoBy(u, None)
     ELSE uninstallers' = [uninstallers EXCEPT ![u] = [@ EXCEPT !.step = "judging", !.found = plan]]
  /\ UNCHANGED <<window, desktopRuns, plan, prepared, lapsed, consumed, goneBy, credential, remaining>>

ValidPlan(p, name) == p.id = name /\ p.id > lapsed /\ (p.choice = Erase => p.confirmed)

\* With the key, which may not be readable or not the one the plan was signed with.
Judge(u, signed) ==
  /\ uninstallers[u].step = "judging"
  /\ IF signed /\ ValidPlan(uninstallers[u].found, uninstallers[u].name) THEN Go(u, "renaming") ELSE GoBy(u, None)
  /\ UNCHANGED <<window, desktopRuns, plan, prepared, lapsed, consumed, goneBy, credential, remaining>>

\* Mutant: that another uninstaller has renamed the file is not noticed.
ConsumeAnyway(u, succeeds) ==
  /\ uninstallers[u].step = "renaming"
  /\ IF succeeds
       THEN /\ GoBy(u, uninstallers[u].found)
            /\ consumed' = consumed \cup {uninstallers[u].found.id}
            /\ goneBy' = goneBy \cup {uninstallers[u].found.id} /\ plan' = None
       ELSE GoBy(u, None) /\ UNCHANGED <<plan, consumed, goneBy>>
  /\ UNCHANGED <<window, desktopRuns, prepared, lapsed, credential, remaining>>

\* What is renamed is the file that is there now; a plan whose file may not be renamed counts as none.
Consume(u, succeeds) ==
  /\ uninstallers[u].step = "renaming"
  /\ IF succeeds /\ plan # None
       THEN /\ GoBy(u, uninstallers[u].found)
            /\ consumed' = consumed \cup {plan.id} /\ goneBy' = goneBy \cup {uninstallers[u].found.id} /\ plan' = None
       ELSE GoBy(u, None) /\ UNCHANGED <<plan, consumed, goneBy>>
  /\ UNCHANGED <<window, desktopRuns, prepared, lapsed, credential, remaining>>

Choice(u) == IF uninstallers[u].plan = None THEN Preserve ELSE uninstallers[u].plan.choice

\* The startup entry and the downloaded updates go in any case.
Unregister(u, succeeds) ==
  /\ uninstallers[u].step = "unregistering"
  /\ IF ~succeeds THEN EndWith(u, "UNINSTALL_INCOMPLETE")
     ELSE IF Choice(u) = Preserve THEN EndWith(u, "completed") ELSE Go(u, "revoking")
  /\ UNCHANGED <<window, desktopRuns, plan, prepared, lapsed, consumed, goneBy, credential, remaining>>

DeleteCredential(u, succeeds) ==
  /\ uninstallers[u].step = "revoking"
  /\ IF succeeds THEN credential' = "none" /\ Go(u, "looking")
                 ELSE UNCHANGED credential /\ EndWith(u, "UNINSTALL_INCOMPLETE")
  /\ UNCHANGED <<window, desktopRuns, plan, prepared, lapsed, consumed, goneBy, remaining>>

\* A credential that is there again is the end.
LookForCredential(u) ==
  /\ uninstallers[u].step = "looking"
  /\ IF credential # "none" THEN EndWith(u, "UNINSTALL_CREDENTIAL_DELETE_INCOMPLETE")
     ELSE IF Choice(u) = Revoke THEN EndWith(u, "completed") ELSE Go(u, "erasing")
  /\ UNCHANGED <<window, desktopRuns, plan, prepared, lapsed, consumed, goneBy, credential, remaining>>

\* The whole directory, a plan prepared meanwhile with it.  Where a file may not be deleted any
\* part may be gone.
DeleteData(u, succeeds) ==
  /\ uninstallers[u].step = "erasing"
  /\ IF succeeds THEN remaining' = "none" /\ credential' = "none" /\ plan' = None /\ Go(u, "counting")
     ELSE /\ remaining' \in {remaining, IF remaining = "whole" THEN "part" ELSE remaining}
          /\ credential' \in {credential, "none"} /\ plan' \in {plan, None}
          /\ EndWith(u, "UNINSTALL_INCOMPLETE")
  /\ UNCHANGED <<window, desktopRuns, prepared, lapsed, consumed, goneBy>>

\* It completed, and tells whether the directory is there again.
LookForData(u, succeeds) ==
  /\ uninstallers[u].step = "counting"
  /\ IF succeeds
       THEN uninstallers' = [uninstallers EXCEPT ![u] = [@ EXCEPT !.step = "ended", !.result = "completed", !.deleted = remaining = "none"]]
       ELSE EndWith(u, "UNINSTALL_INCOMPLETE")
  /\ UNCHANGED <<window, desktopRuns, plan, prepared, lapsed, consumed, goneBy, credential, remaining>>

\* The process is ended; what it did stays done.
UninstallerEnds(u) ==
  /\ uninstallers[u].step \notin {"idle", "ended"} /\ Go(u, "ended")
  /\ UNCHANGED <<window, desktopRuns, plan, prepared, lapsed, consumed, goneBy, credential, remaining>>

UninstallerSteps(u) ==
  \/ Launch(u) \/ ReadName(u) \/ ReadPlan(u) \/ LookForCredential(u) \/ UninstallerEnds(u)
  \/ \E succeeds \in BOOLEAN :
       \/ Judge(u, succeeds) \/ Consume(u, succeeds) \/ Unregister(u, succeeds)
       \/ DeleteCredential(u, succeeds) \/ DeleteData(u, succeeds) \/ LookForData(u, succeeds)

RemovalNext ==
  \/ \E choice \in UninstallChoices : Choose(choice)
  \/ Confirm \/ Prepare \/ RemovalExpires \/ CompanionWrites \/ QuitDesktop \/ StartDesktop \/ Reinstall
  \/ \E u \in Uninstallers : UninstallerSteps(u)

PlansTo(n) == [id : 1..n, choice : UninstallChoices, confirmed : BOOLEAN]
UninstallSteps == {"idle", "naming", "reading", "judging", "renaming", "unregistering", "revoking", "looking",
                   "erasing", "counting", "ended"}
UninstallRecords(n) ==
  [step : UninstallSteps, name : 1..n \cup {None}, found : PlansTo(n) \cup {None}, plan : PlansTo(n) \cup {None},
   result : UninstallEnds \cup {None}, deleted : BOOLEAN]
RemovalTypeOK ==
  /\ window \in [choice : UninstallChoices, confirmed : BOOLEAN] /\ desktopRuns \in BOOLEAN
  /\ plan \in PlansTo(prepared) \cup {None}
  /\ lapsed \in 0..prepared /\ consumed \subseteq 1..prepared /\ goneBy \subseteq 1..prepared
  /\ uninstallers \in [Uninstallers -> UninstallRecords(prepared)]
  /\ credential \in {"none", "stored", "anew"} /\ remaining \in {"whole", "part", "none", "anew"}

-----------------------------------------------------------------------------
(* Properties of a removal.                                                *)
\* Data and credential only go where an uninstaller goes by a plan prepared for it, confirmed if it
\* covers all data; one that says it completed its plan left nothing of what the plan covers but
\* what was written beside it.
RemovalWasChosen ==
  /\ remaining' # remaining /\ remaining' \in {"part", "none"} =>
       \E u \in Uninstallers : uninstallers[u].step # "ended" /\ Choice(u) = Erase /\ uninstallers[u].plan.confirmed
  /\ credential # "none" /\ credential' = "none" =>
       \E u \in Uninstallers : uninstallers[u].step # "ended" /\ Choice(u) # Preserve
  /\ \A u \in Uninstallers : uninstallers'[u].result = "completed" =>
       /\ Choice(u)' # Preserve => credential' # "stored"
       /\ Choice(u)' = Erase => remaining' \in {"none", "anew"}

\* Who goes by a plan uses up the one that is stored, which is the last prepared and was never
\* used; it is the one gone by, for the first time, unless another was prepared meanwhile.
PlanIsUsedOnce == \A u \in Uninstallers :
  LET by == uninstallers'[u].plan IN by # uninstallers[u].plan /\ by # None =>
    /\ plan # None /\ plan' = None /\ plan.id = prepared /\ plan.id \notin consumed
    /\ by.id = prepared => by = plan /\ by.id \notin goneBy
=============================================================================
