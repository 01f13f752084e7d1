----------------------------- MODULE HookSettings -----------------------------
(***************************************************************************)
(* The settings file of an agent, which FindMnemo shares with the agent and *)
(* with whoever else hooks into it: the operations of                      *)
(* AgentActivityIntegrationInstaller for Claude and Codex.                 *)
(*                                                                         *)
(* Every operation reads the file, works on what it read, copies the file  *)
(* to a backup, writes a temporary file and renames it; each is an await,  *)
(* and the agent may save its settings in between.                         *)
(***************************************************************************)
EXTENDS Absence

CONSTANTS
  HookEvents,  \* events of the agent that hooks may be registered for
  Hooks,       \* hooks of others
  Ours,        \* the hook whose command carries "-Owner findmnemo-agent-activity-v1"
  Unreadable   \* a file that is not a JSON object

VARIABLES
  settings,   \* the file: what is registered, None when there is no file
  backup,     \* the file beside it ending in .findmnemo-backup
  installer   \* the operation under way

hookVars == <<settings, backup, installer>>

-----------------------------------------------------------------------------
\* A group lists the hooks of one matcher; an event has a list of groups, of which only
\* the members matter.
Group == SUBSET (Hooks \cup {Ours})
Registered == [HookEvents -> SUBSET Group]
File == Registered \cup {Unreadable, None}

ASSUME HookConstants == Ours \notin Hooks /\ None \notin Registered

HookSettingsTypeOK ==
  /\ settings \in File /\ backup \in File
  /\ installer \in [op : {"install", "remove"}, at : {"read", "copy", "write"},
                    base : Registered \cup {None}] \cup {None}

HookSettingsInit ==
  /\ settings \in {None, [e \in HookEvents |-> {Hooks}], [e \in HookEvents |-> {{h} : h \in Hooks}]}
  /\ backup = None /\ installer = None

-----------------------------------------------------------------------------
Empty == [e \in HookEvents |-> {}]
Parsed(file) == IF file = None THEN Empty ELSE file
OwnedFile(file) == \E e \in HookEvents : \E g \in Parsed(file)[e] : Ours \in g

\* installJsonHooks(): an event with a hook of ours anywhere is left as it is.
Merged(file) == [e \in HookEvents |->
  IF \E g \in Parsed(file)[e] : Ours \in g THEN Parsed(file)[e] ELSE Parsed(file)[e] \cup {{Ours}}]

\* Mutant: a group with a hook of ours is removed whole.
GroupsStripped(file) == [e \in HookEvents |-> {g \in file[e] : Ours \notin g}]

\* removeJsonHooks(): our hooks, and the groups this leaves empty.
Stripped(file) == [e \in HookEvents |-> {g \ {Ours} : g \in file[e]} \ {{}}]

StartInstall ==
  /\ installer = None
  /\ installer' = [op |-> "install", at |-> "read", base |-> None]
  /\ UNCHANGED <<settings, backup>>

StartRemove ==
  /\ installer = None
  /\ installer' = [op |-> "remove", at |-> "read", base |-> None]
  /\ UNCHANGED <<settings, backup>>

\* What there is to do.  A file that cannot be parsed ends the operation.
ReadSettings ==
  /\ installer # None /\ installer.at = "read"
  /\ installer' =
       IF \/ settings = Unreadable
          \/ installer.op = "install" /\ settings # None /\ Merged(settings) = settings
          \/ installer.op = "remove" /\ (settings = None \/ ~OwnedFile(settings))
       THEN None
       ELSE [installer EXCEPT !.at = IF settings = None THEN "write" ELSE "copy", !.base = settings]
  /\ UNCHANGED <<settings, backup>>

\* The file as it is now; without one the operation fails.
CopyBackup ==
  /\ installer # None /\ installer.at = "copy"
  /\ IF settings = None
     THEN installer' = None /\ UNCHANGED backup
     ELSE backup' = settings /\ installer' = [installer EXCEPT !.at = "write"]
  /\ UNCHANGED settings

\* The temporary file takes the place of the settings; a removal drops the backup.
Replace ==
  /\ installer # None /\ installer.at = "write"
  /\ settings' = IF installer.op = "install" THEN Merged(installer.base) ELSE Stripped(installer.base)
  /\ backup' = IF installer.op = "install" THEN backup ELSE None
  /\ installer' = None

\* FindMnemo ends; the temporary file is of no consequence.
InstallerDies ==
  /\ installer # None
  /\ installer' = None
  /\ UNCHANGED <<settings, backup>>

\* The agent or its user saves the settings, registers a hook, gathers those of an event
\* in one group, drops one, or leaves the file unreadable or deletes it.
AgentSaves ==
  /\ settings # Unreadable
  /\ \/ \E e \in HookEvents :
          \/ \E h \in Hooks : settings' = [Parsed(settings) EXCEPT ![e] = @ \cup {{h}}]
          \/ settings # None /\ settings[e] # {} /\ settings' = [settings EXCEPT ![e] = {UNION @}]
          \/ \E h \in Hooks : settings # None /\ settings' = [settings EXCEPT ![e] = {g \ {h} : g \in @} \ {{}}]
     \/ settings' \in {None, Unreadable}
  /\ UNCHANGED <<backup, installer>>

HookSettingsNext ==
  \/ StartInstall \/ StartRemove
  \/ ReadSettings \/ CopyBackup \/ Replace
  \/ InstallerDies \/ AgentSaves

HookSettingsSpec == HookSettingsInit /\ [][HookSettingsNext]_hookVars

-----------------------------------------------------------------------------
HooksIn(file) == {x \in HookEvents \X Hooks : \E g \in Parsed(file)[x[1]] : x[2] \in g}

\* Nobody saved the settings since the operation read them.
Unshared == settings = installer.base

\* Replacing a file nobody else changed meanwhile keeps every hook of others, in its group;
\* installing leaves ours on every event and removing leaves none, however often either was
\* done or cut off before.
ForeignHooksKept == [][Replace /\ Unshared =>
  /\ HooksIn(settings') = HooksIn(settings)
  /\ \A e \in HookEvents : {g \ {Ours} : g \in settings'[e]} \ {{}} = {g \ {Ours} : g \in Parsed(settings)[e]} \ {{}}
  /\ IF installer.op = "install" THEN \A e \in HookEvents : \E g \in settings'[e] : Ours \in g
     ELSE ~OwnedFile(settings')]_hookVars
=============================================================================
