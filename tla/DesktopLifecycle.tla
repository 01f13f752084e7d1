-------------------------- MODULE DesktopLifecycle --------------------------
(***************************************************************************)
(* The desktop shell that owns the companion on Windows: the controller    *)
(* (desktop/lifecycle/controller.ts), the host it starts and stops         *)
(* (companion-host.ts, server/companion.ts), the update coordinator        *)
(* (update-service.ts), the recovery record (update-recovery.ts) and the   *)
(* tray, window and quit handlers of desktop/main.ts that call them.       *)
(*                                                                         *)
(* The controller runs one operation, a start or a stop, at a time; a      *)
(* second caller is given the first one's result, whatever it asked for.   *)
(* What a caller does after its operation (a restart, a quit, an update,   *)
(* the boot) is remembered in `after'.  Code between two awaits is one     *)
(* action.                                                                 *)
(*                                                                         *)
(* The window accepts the disclosure, downloads and activates, waits for   *)
(* the answer before it offers anything else, and offers what the state it *)
(* was last told of allows.  Its other commands are the tray's and the     *)
(* timer's too, which wait for nothing, so these are asked at any time.    *)
(*                                                                         *)
(* Left out: the login item, diagnostics, uninstalling, what adoption of   *)
(* existing state answers (it only decides whether a start is asked), and  *)
(* the window's cancel button, which is disabled while a download runs.    *)
(***************************************************************************)
EXTENDS Absence, Integers, FiniteSets

CONSTANTS
  Versions,      \* version numbers of releases, in their order
  Signed,        \* releases whose manifest says the signature is verified
  Checks         \* bound: update checks in flight at once

ASSUME LifecycleConstants ==
  /\ Versions \subseteq Nat
  /\ Signed \subseteq Versions
  /\ Checks \in Nat
  /\ None \notin Versions
  /\ None \notin {"start", "stop", "reconcile", "adopt", "download", "activate"}

VARIABLES
  phase,       \* controller: LifecycleState.phase
  companion,   \* controller: LifecycleState.companion.state
  operation,   \* controller: #operation, the one in progress
  after,       \* callers that go on when the operation ends
  accepted,    \* the disclosure is accepted (lifecycle.json)
  booting,     \* what boot() waits for
  server,      \* the companion in this process
  hosted,      \* host: #running is set
  busy,        \* a request keeps a connection of the server open
  update,      \* coordinator: #snapshot
  release,     \* coordinator: #release
  verified,    \* coordinator: the artifact at #downloadPath
  fetched,     \* electron-updater: the artifact it downloaded last
  checking,    \* update checks in flight
  download,    \* the download in flight, or None
  shown,       \* window: the update state it was told of last
  window,      \* window: the command it waits for
  activation,  \* the activation in progress
  recovery,    \* updates/recovery.json
  installed,   \* version of the installed application
  process      \* the desktop process

controllerVars == <<phase, companion, operation, after, accepted, booting>>
hostVars == <<server, hosted, busy>>
updateVars == <<release, verified, fetched, checking, download>>
windowVars == <<shown, window>>
diskVars == <<recovery, installed>>
lifecycleVars == <<controllerVars, hostVars, update, updateVars, windowVars, activation, diskVars, process>>

-----------------------------------------------------------------------------
UpdatePhase ==
  [available |-> "update-available", downloading |-> "update-downloading",
   ready |-> "update-ready", activating |-> "updating"]

UpdatePhases == {UpdatePhase[s] : s \in DOMAIN UpdatePhase}
UpdateStates == {"idle", "checking", "failed"} \cup DOMAIN UpdatePhase

Artifact == [version : Versions, intact : BOOLEAN]
Download == [version : Versions, aborted : BOOLEAN]
Activation == [step : {"quiesce", "backup", "prepare", "install"}, target : Versions \cup {None}]

ASSUME NoneIsNoActivation == None \notin Activation

\* The phase after the controller is told of an update state.
Shown(state, before) ==
  IF state \in DOMAIN UpdatePhase THEN UpdatePhase[state]
  ELSE IF before \in UpdatePhases /\ companion = "healthy" THEN "healthy" ELSE before

\* #set: every listener sees the new state at once.
SetUpdate(state, target) ==
  /\ update' = [state |-> state, target |-> target]
  /\ phase' = Shown(state, phase)

\* The process answers: it is not on its way out.
Answers == process \in {"up", "quitting"}

-----------------------------------------------------------------------------
(***************************************************************************)
(* Start and stop of the companion                                         *)
(***************************************************************************)

\* Nothing the controller or the host knows of runs.
FreshProcess ==
  /\ phase' = IF accepted THEN "stopped" ELSE "first-run"
  /\ companion' = "stopped"
  /\ operation' = None
  /\ after' = {}
  /\ server' = "down"
  /\ hosted' = FALSE
  /\ busy' = FALSE
  /\ update' = [state |-> "idle", target |-> None]
  /\ release' = None
  /\ verified' = None
  /\ fetched' = None
  /\ checking' = 0
  /\ download' = None
  /\ shown' = "idle"
  /\ window' = None
  /\ activation' = None

\* The process ends: what it held in memory is gone.
ProcessEnds ==
  /\ FreshProcess
  /\ booting' = None
  /\ process' = "down"

\* serialize: an operation begins, or its caller joins the one in progress.
Serialize(kind, caller) ==
  IF operation # None
  THEN /\ after' = after \cup caller
       /\ UNCHANGED <<phase, companion, operation, server, hosted>>
  ELSE /\ after' = caller
       /\ operation' = kind
       /\ IF kind = "start"
          THEN /\ phase' = "starting"
               /\ companion' = "starting"
               /\ server' = IF hosted THEN server ELSE "opening"
               /\ UNCHANGED hosted
          ELSE /\ phase' = "stopping"
               /\ companion' = "stopping"
               /\ server' = IF hosted THEN "closing" ELSE server
               /\ hosted' = FALSE

\* Start companion.
Start ==
  /\ Answers
  /\ accepted
  /\ phase # "healthy"
  /\ Serialize("start", {})
  /\ UNCHANGED <<accepted, booting, busy, update, updateVars, windowVars, activation, diskVars, process>>

\* Stop companion, and restart, which starts it again once it has stopped. Both are offered
\* while the companion is healthy; what offers them may be one change behind.
Stop(caller) ==
  /\ Answers
  /\ companion \in {"healthy", "stopping"}
  /\ phase # "stopped"
  /\ Serialize("stop", caller)
  /\ UNCHANGED <<accepted, booting, busy, update, updateVars, windowVars, activation, diskVars, process>>

\* The callers of an operation go on; the caller of a restart begins a start.
Resume(ok, shownPhase, shownCompanion) ==
  /\ after' = {}
  /\ booting' = IF "boot" \in after THEN (IF ok THEN "reconcile" ELSE None) ELSE booting
  /\ activation' = IF "activate" \in after THEN [activation EXCEPT !.step = "backup"] ELSE activation
  /\ process' = IF "quit" \in after THEN "exiting" ELSE process
  /\ window' = IF "window" \in after THEN None ELSE window
  /\ IF "restart" \in after /\ ok /\ shownPhase # "healthy"
     THEN /\ operation' = "start"
          /\ phase' = "starting"
          /\ companion' = "starting"
          /\ server' = "opening"
     ELSE /\ operation' = None
          /\ phase' = shownPhase
          /\ companion' = shownCompanion
          /\ server' = IF ok /\ shownPhase = "healthy" THEN "up" ELSE "down"

\* host.start() resolves: the companion listens, or it ran already.
Started ==
  /\ operation = "start"
  /\ hosted' = TRUE
  /\ Resume(TRUE, "healthy", "healthy")
  /\ UNCHANGED <<accepted, busy, update, updateVars, shown, diskVars>>

\* host.start() rejects: the port is taken, or the database does not open.
StartFails ==
  /\ operation = "start"
  /\ ~hosted
  /\ Resume(FALSE, "failed", "failed")
  /\ UNCHANGED <<accepted, hosted, busy, update, updateVars, shown, diskVars>>

\* The server has no connection left and has closed the database.
Closed ==
  /\ operation = "stop"
  /\ ~busy
  /\ \/ Resume(TRUE, "stopped", "stopped")
     \/ server = "closing" /\ Resume(FALSE, "failed", "failed")
  /\ UNCHANGED <<accepted, hosted, busy, update, updateVars, shown, diskVars>>

\* A request is accepted, is answered, or is cut off a second after the stop.
RequestArrives ==
  /\ server = "up"
  /\ busy' = TRUE
  /\ UNCHANGED <<controllerVars, server, hosted, update, updateVars, windowVars, activation, diskVars, process>>

RequestEnds ==
  /\ busy
  /\ busy' = FALSE
  /\ UNCHANGED <<controllerVars, server, hosted, update, updateVars, windowVars, activation, diskVars, process>>

\* Only idle connections are closed.
ForceCloseIdle ==
  /\ server = "closing"
  /\ ~busy
  /\ RequestEnds

ForceClose ==
  /\ server = "closing"
  /\ RequestEnds

-----------------------------------------------------------------------------
(***************************************************************************)
(* The process                                                             *)
(***************************************************************************)

\* boot(): with the disclosure accepted, and unless existing state has to be looked at,
\* the companion is started.
Boot ==
  /\ process = "down"
  /\ process' = "up"
  /\ \/ /\ accepted
        /\ operation' = "start"
        /\ after' = {"boot"}
        /\ booting' = "start"
        /\ phase' = "starting"
        /\ companion' = "starting"
        /\ server' = "opening"
        /\ UNCHANGED <<hosted, busy, update, updateVars, windowVars, activation>>
     \/ /\ FreshProcess
        /\ booting' = None
  /\ UNCHANGED <<accepted, diskVars>>

\* The window accepts the disclosure.
AcceptDisclosure ==
  /\ Answers
  /\ ~accepted
  /\ accepted' = TRUE
  /\ phase' = "stopped"
  /\ window' = "adopt"
  /\ UNCHANGED <<companion, operation, after, booting, hostVars, update, updateVars, shown,
                 activation, diskVars, process>>

\* Existing state has been looked at: it stands in the way, or the companion is started.
Adopted ==
  /\ Answers
  /\ window = "adopt"
  /\ \/ /\ window' = None
        /\ UNCHANGED <<phase, companion, operation, after, server, hosted>>
     \/ /\ phase # "healthy"
        /\ window' = "start"
        /\ Serialize("start", {"window"})
  /\ UNCHANGED <<accepted, booting, busy, update, updateVars, shown, activation, diskVars, process>>

\* A healthy start is taken for a successful update.
ReconcileHealthy ==
  /\ Answers
  /\ booting = "reconcile"
  /\ booting' = None
  /\ recovery' = IF recovery # None THEN [recovery EXCEPT !.state = "healthy"] ELSE recovery
  /\ UNCHANGED <<phase, companion, operation, after, accepted, hostVars, update, updateVars,
                 windowVars, activation, installed, process>>

\* The first healthy start after an update tells whether it was installed.
Reconcile ==
  /\ Answers
  /\ booting = "reconcile"
  /\ booting' = None
  /\ recovery' = IF recovery # None /\ recovery.state = "activation-pending"
                 THEN [recovery EXCEPT !.state = IF installed = recovery.target THEN "healthy"
                                                 ELSE "recovery-required"]
                 ELSE recovery
  /\ UNCHANGED <<phase, companion, operation, after, accepted, hostVars, update, updateVars,
                 windowVars, activation, installed, process>>

\* Quit: the companion is stopped first.
Quit ==
  /\ process = "up"
  /\ IF phase = "stopped"
     THEN /\ process' = "exiting"
          /\ UNCHANGED <<phase, companion, operation, after, server, hosted>>
     ELSE /\ process' = "quitting"
          /\ Serialize("stop", {"quit"})
  /\ UNCHANGED <<accepted, booting, busy, update, updateVars, windowVars, activation, diskVars>>

Exit ==
  /\ process = "exiting"
  /\ ProcessEnds
  /\ UNCHANGED <<accepted, diskVars>>

\* The session ends, or the process dies.
Dies ==
  /\ process # "down"
  /\ ProcessEnds
  /\ UNCHANGED <<accepted, diskVars>>

-----------------------------------------------------------------------------
(***************************************************************************)
(* Updates                                                                 *)
(***************************************************************************)

\* checkForUpdates(): by the timer, the tray or the window.
Check ==
  /\ Answers
  /\ update.state \notin {"checking", "downloading", "activating"}
  /\ checking < Checks
  /\ checking' = checking + 1
  /\ SetUpdate("checking", None)
  /\ UNCHANGED <<companion, operation, after, accepted, booting, hostVars, release, verified,
                 fetched, download, windowVars, activation, diskVars, process>>

\* The feed names a newer release, or none, or fails.
Checked ==
  /\ checking > 0
  /\ checking' = checking - 1
  /\ \/ \E v \in Versions :
          /\ v > installed
          /\ release' = v
          /\ SetUpdate("available", v)
     \/ \E s \in {"idle", "failed"} :
          /\ SetUpdate(s, None)
          /\ UNCHANGED release
  /\ UNCHANGED <<companion, operation, after, accepted, booting, hostVars, verified, fetched,
                 download, windowVars, activation, diskVars, process>>

\* The window is told of the state.
Show ==
  /\ Answers
  /\ shown # update.state
  /\ shown' = update.state
  /\ UNCHANGED <<controllerVars, hostVars, update, updateVars, window, activation, diskVars, process>>

\* download(), by the window.
StartDownload ==
  /\ Answers
  /\ window = None
  /\ shown = "available"
  /\ accepted
  /\ IF release = None \/ update.state # "available"
     THEN /\ SetUpdate("failed", update.target)
          /\ UNCHANGED <<download, window>>
     ELSE /\ download' = [version |-> release, aborted |-> FALSE]
          /\ window' = "download"
          /\ SetUpdate("downloading", update.target)
  /\ UNCHANGED <<companion, operation, after, accepted, booting, hostVars, release, verified,
                 fetched, checking, shown, activation, diskVars, process>>

\* The hash is not compared.
VerifiesSignature(artifact) ==
  /\ artifact.version = release
  /\ release \in Signed

\* The hash is that of the release checked last, and its signature was verified.
Verifies(artifact) ==
  /\ artifact.intact
  /\ artifact.version = release
  /\ release \in Signed

DownloadFails ==
  SetUpdate(IF download.aborted THEN "available" ELSE "failed", update.target)

\* The updater has written the artifact, or gives up.
Fetched(artifact) ==
  /\ fetched' = artifact
  /\ IF Verifies(artifact)
     THEN /\ verified' = artifact
          /\ SetUpdate("ready", update.target)
     ELSE /\ DownloadFails
          /\ UNCHANGED verified

NotFetched ==
  /\ DownloadFails
  /\ UNCHANGED <<fetched, verified>>

EndDownload ==
  /\ download # None
  /\ \/ \E intact \in BOOLEAN : Fetched([version |-> download.version, intact |-> intact])
     \/ NotFetched
  /\ download' = None
  /\ window' = None
  /\ UNCHANGED <<companion, operation, after, accepted, booting, hostVars, release, checking,
                 shown, activation, diskVars, process>>

\* The five minutes of a download are over.
AbortDownload ==
  /\ download # None
  /\ download' = [download EXCEPT !.aborted = TRUE]
  /\ UNCHANGED <<controllerVars, hostVars, update, release, verified, fetched, checking,
                 windowVars, activation, diskVars, process>>

\* activate(), by the window: the companion is asked to stop, and what the answer is does
\* not matter.
Activate ==
  /\ Answers
  /\ window = None
  /\ shown = "ready"
  /\ accepted
  /\ IF verified = None \/ update.state # "ready"
     THEN /\ SetUpdate("failed", update.target)
          /\ UNCHANGED <<companion, operation, after, server, hosted, window, activation>>
     ELSE /\ update' = [update EXCEPT !.state = "activating"]
          /\ activation' = [step |-> "quiesce", target |-> update.target]
          /\ window' = "activate"
          /\ Serialize("stop", {"activate"})
  /\ UNCHANGED <<accepted, booting, busy, updateVars, shown, diskVars, process>>

\* The database and the settings are being copied; then the recovery record is written.
BackUp ==
  /\ activation # None
  /\ activation.step = "backup"
  /\ activation' = [activation EXCEPT !.step = "prepare"]
  /\ UNCHANGED <<controllerVars, hostVars, update, updateVars, windowVars, diskVars, process>>

\* The record is written whether or not the target is known.
PrepareAnyway ==
  /\ activation # None
  /\ activation.step = "prepare"
  /\ activation' = [activation EXCEPT !.step = "install"]
  /\ recovery' = [state |-> "activation-pending", target |-> activation.target]
  /\ UNCHANGED <<controllerVars, hostVars, update, updateVars, windowVars, installed, process>>

Prepare ==
  /\ activation # None
  /\ activation.step = "prepare"
  /\ activation' = [activation EXCEPT !.step = "install"]
  /\ recovery' = IF activation.target = None THEN recovery
                 ELSE [state |-> "activation-pending", target |-> activation.target]
  /\ UNCHANGED <<controllerVars, hostVars, update, updateVars, windowVars, installed, process>>

ActivationFails ==
  /\ activation # None
  /\ activation.step \in {"backup", "prepare"}
  /\ activation' = None
  /\ window' = None
  /\ SetUpdate("failed", update.target)
  /\ UNCHANGED <<companion, operation, after, accepted, booting, hostVars, updateVars, shown,
                 diskVars, process>>

\* quitAndInstall: the installer of what was fetched last succeeds, or is dismissed.
Install ==
  /\ activation # None
  /\ activation.step = "install"
  /\ ProcessEnds
  /\ installed' \in {installed, fetched.version}
  /\ UNCHANGED <<accepted, recovery>>

-----------------------------------------------------------------------------
LifecycleInit ==
  /\ accepted = FALSE
  /\ phase = "first-run"
  /\ companion = "stopped"
  /\ operation = None
  /\ after = {}
  /\ booting = None
  /\ server = "down"
  /\ hosted = FALSE
  /\ busy = FALSE
  /\ update = [state |-> "idle", target |-> None]
  /\ release = None
  /\ verified = None
  /\ fetched = None
  /\ checking = 0
  /\ download = None
  /\ shown = "idle"
  /\ window = None
  /\ activation = None
  /\ recovery = None
  /\ installed \in Versions
  /\ process = "down"

LifecycleNext ==
  \/ Start
  \/ \E caller \in {{}, {"restart"}} : Stop(caller)
  \/ Started \/ StartFails \/ Closed
  \/ RequestArrives \/ RequestEnds
  \/ Boot \/ AcceptDisclosure \/ Adopted \/ Reconcile \/ Quit \/ Exit \/ Dies
  \/ Check \/ Checked
  \/ Show \/ StartDownload \/ EndDownload \/ AbortDownload
  \/ Activate \/ BackUp \/ Prepare \/ ActivationFails \/ Install

LifecycleSpec == LifecycleInit /\ [][LifecycleNext]_lifecycleVars

\* A stop ends: the server cuts off its last connections, and closes.
\* A process that was told to exit does.
ShutdownFairness ==
  /\ WF_lifecycleVars(ForceClose)
  /\ WF_lifecycleVars(Closed)
  /\ WF_lifecycleVars(Exit)

LiveSpec == LifecycleSpec /\ ShutdownFairness

-----------------------------------------------------------------------------
LifecycleTypeOK ==
  /\ phase \in {"first-run", "stopped", "starting", "healthy", "stopping", "failed"} \cup UpdatePhases
  /\ companion \in {"stopped", "starting", "healthy", "stopping", "failed"}
  /\ operation \in {None, "start", "stop"}
  /\ after \subseteq {"boot", "restart", "quit", "activate", "window"}
  /\ accepted \in BOOLEAN
  /\ booting \in {None, "start", "reconcile"}
  /\ server \in {"down", "opening", "up", "closing"}
  /\ hosted \in BOOLEAN
  /\ busy \in BOOLEAN
  /\ update \in [state : UpdateStates, target : Versions \cup {None}]
  /\ release \in Versions \cup {None}
  /\ verified \in Artifact \cup {None}
  /\ fetched \in Artifact \cup {None}
  /\ checking \in 0..Checks
  /\ download \in Download \cup {None}
  /\ shown \in UpdateStates
  /\ window \in {None, "adopt", "start", "download", "activate"}
  /\ activation \in Activation \cup {None}
  /\ recovery \in [state : {"activation-pending", "healthy", "recovery-required"}, target : Versions] \cup {None}
  /\ installed \in Versions
  /\ process \in {"down", "up", "quitting", "exiting"}

\* What the window and the tray say of the companion is so: a healthy one listens, a
\* stopped or failed one is down, and the host knows the one that runs
\* (controller.ts:61-106, companion-host.ts:21-37).
StatusIsTruthful ==
  /\ companion = "healthy" => server = "up"
  /\ companion \in {"stopped", "failed"} => server = "down"
  /\ phase = "healthy" => companion = "healthy"
  /\ hosted <=> server = "up"

\* What quitAndInstall installs is the artifact whose hash and signature were verified, though
\* it is not told which, and checks and downloads come between (update-service.ts:55-92,
\* electron-update-provider.ts:54-75).
InstallsWhatWasVerified ==
  [][installed' # installed =>
       /\ fetched = verified
       /\ fetched.intact
       /\ fetched.version \in Signed]_lifecycleVars

\* A recovery record that says healthy tells the truth: a companion of that version, or of
\* a later one, has been healthy since (update-recovery.ts:20-24, main.ts:140-143).
HealthyRecordIsInstalled ==
  recovery # None /\ recovery.state = "healthy" => installed >= recovery.target

\* Quitting ends, also when an operation is joined that restarts the companion, unless it
\* waits for a start (main.ts:413-417, companion.ts:318-341).
QuitEnds == (process = "quitting" /\ operation # "start") ~> process = "down"

\* What the status, the tray and the recovery record say is so.
RecordsAreTruthful == StatusIsTruthful /\ HealthyRecordIsInstalled
=============================================================================
