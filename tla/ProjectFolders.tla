------------------------------- MODULE ProjectFolders -------------------------------
(***************************************************************************)
(* The project folders a person connects: selections are previewed in the  *)
(* desktop window and committed, requests pause, enrich and remove them,   *)
(* checks read them one after another, and every start takes over what an  *)
(* earlier version had registered.                                         *)
(***************************************************************************)
EXTENDS Absence, Naturals, Sequences, FiniteSets

CONSTANTS
  Places,        \* paths
  FolderIds,     \* ids of connected folders
  LegacyIdOf,    \* the ids of the folders of the earlier registry: function from ids to places
  MaxPreviews    \* bound on previews

LegacyFolders == DOMAIN LegacyIdOf

ASSUME FolderConstants ==
  /\ LegacyFolders \subseteq FolderIds /\ LegacyIdOf \in [LegacyFolders -> Places] /\ MaxPreviews \in Nat
  /\ LET kinds == {"sdd", "generic", "unavailable"}
         detected == [place : Places, kind : kinds]
         checked == [id : FolderIds, enriched : BOOLEAN, detection : detected]
         entries == [id : FolderIds, place : Places, enriched : BOOLEAN]
     IN None \notin [place : Places, state : {"active", "paused"}, kind : kinds, enriched : BOOLEAN]
                     \cup detected \cup checked \cup [todo : SUBSET entries, at : checked \cup {None}]

VARIABLES
  disk,          \* what is at a place: a kind of folder, None, or the place a link leads to
  folders,       \* the connected folders by their ids
  previews,      \* the previewed selections, None before
  check,         \* the check under way, or None
  folderSource,  \* the source of folders is enabled
  companionUp,
  wanted,        \* what a person last made of a folder
  readBefore     \* the folders a check had read when a person changed them

folderVars == <<disk, folders, previews, check, folderSource, companionUp, wanted, readBefore>>

\* A repository has no more to report than any other folder.
Kinds == {"sdd", "generic"}
Folder(place, state, kind, enriched) == [place |-> place, state |-> state, kind |-> kind, enriched |-> enriched]

FoldersInit ==
  /\ disk \in [Places -> {None, "sdd", "generic"} \cup Places]
  /\ folders = [f \in FolderIds |-> None]
  /\ previews = << >> /\ check = None
  /\ folderSource = FALSE /\ companionUp = TRUE
  /\ wanted = [f \in FolderIds |-> "none"] /\ readBefore = {}

-----------------------------------------------------------------------------
(* Looking at a place.                                                     *)
Real(place) == IF disk[place] \in Places THEN disk[place] ELSE place

\* A place that cannot be read keeps the name it was asked for.
Inspect(place) ==
  IF disk[Real(place)] \in Kinds THEN [place |-> Real(place), kind |-> disk[Real(place)]]
  ELSE [place |-> place, kind |-> "unavailable"]

FolderAt(all, place) == {f \in FolderIds : all[f] # None /\ all[f].place = place}

\* A folder's place is its key: found by it, it keeps its id and state.  Another folder may
\* hold the id already, and the row is refused.
Clashes(all, id, detection) == FolderAt(all, detection.place) = {} /\ all[id] # None
UpsertedActive(all, id, detection, enriched) ==
  [all EXCEPT ![IF FolderAt(all, detection.place) = {} THEN id ELSE CHOOSE f \in FolderAt(all, detection.place) : TRUE] =
     Folder(detection.place, "active", detection.kind, enriched)]
Upserted(all, id, detection, enriched) ==
  IF FolderAt(all, detection.place) = {}
    THEN [all EXCEPT ![id] = Folder(detection.place, "active", detection.kind, enriched)]
    ELSE [f \in FolderIds |-> IF f \in FolderAt(all, detection.place)
                              THEN [all[f] EXCEPT !.kind = detection.kind, !.enriched = enriched] ELSE all[f]]

-----------------------------------------------------------------------------
(* Selecting folders.                                                      *)
\* Folders that lie in one another count as such only against those connected.
Relationship(place) == IF FolderAt(folders, place) # {} THEN "duplicate" ELSE "new"

PreviewFolders(places) ==
  /\ companionUp /\ places # {} /\ Len(previews) < MaxPreviews
  /\ previews' = Append(previews,
       [items |-> {[detection |-> Inspect(p), relationship |-> Relationship(Inspect(p).place)] : p \in places},
        committed |-> None, expired |-> FALSE])
  /\ UNCHANGED <<disk, folders, check, folderSource, companionUp, wanted, readBefore>>

\* Every detected folder is taken, those already there with what was detected at the preview.
CommitFolders(i, confirmed, ids) ==
  LET items == previews[i].items
      detections == {item.detection : item \in items}
      new == {d \in detections : FolderAt(folders, d.place) = {}}
      found(f) == CHOOSE d \in detections : d.place = folders[f].place
      touched == UNION {FolderAt(folders, d.place) : d \in detections}
  IN /\ companionUp /\ ~previews[i].expired /\ previews[i].committed = None
     /\ confirmed \/ \A item \in items : item.relationship = "new"
     /\ DOMAIN ids = {d.place : d \in new} /\ \A p, q \in DOMAIN ids : p # q => ids[p] # ids[q]
     /\ \A p \in DOMAIN ids : folders[ids[p]] = None /\ wanted[ids[p]] = "none" /\ ids[p] \notin LegacyFolders
     /\ folders' = [f \in FolderIds |->
          CASE f \in touched -> [folders[f] EXCEPT !.kind = found(f).kind, !.enriched = found(f).kind = "sdd"]
            [] f \in {ids[p] : p \in DOMAIN ids} ->
                 LET d == CHOOSE e \in new : ids[e.place] = f IN Folder(d.place, "active", d.kind, d.kind = "sdd")
            [] OTHER -> folders[f]]
     /\ wanted' = [f \in FolderIds |-> IF \E p \in DOMAIN ids : ids[p] = f THEN "active" ELSE wanted[f]]
     /\ previews' = [previews EXCEPT ![i].committed = touched \cup {ids[p] : p \in DOMAIN ids}]
     /\ folderSource' = TRUE
     /\ UNCHANGED <<disk, check, companionUp, readBefore>>

PreviewExpires(i) ==
  /\ ~previews[i].expired
  /\ previews' = [previews EXCEPT ![i].expired = TRUE]
  /\ UNCHANGED <<disk, folders, check, folderSource, companionUp, wanted, readBefore>>

-----------------------------------------------------------------------------
(* Requests of the browser.                                                *)
BeingRead == IF check = None THEN {} ELSE {f \in FolderIds : \E entry \in check.todo : entry.id = f}
                                        \cup (IF check.at = None THEN {} ELSE {check.at.id})

UpdateFolder(f, state, enriched) ==
  /\ companionUp /\ folders[f] # None
  /\ folders' = [folders EXCEPT ![f].state = state, ![f].enriched = enriched]
  /\ wanted' = [wanted EXCEPT ![f] = state]
  /\ UNCHANGED <<disk, previews, check, folderSource, companionUp, readBefore>>

RemoveFolder(f) ==
  /\ companionUp /\ folders[f] # None
  /\ folders' = [folders EXCEPT ![f] = None]
  /\ wanted' = [wanted EXCEPT ![f] = "removed"]
  /\ readBefore' = IF f \in BeingRead THEN readBefore \cup {f} ELSE readBefore
  /\ UNCHANGED <<disk, previews, check, folderSource, companionUp>>

FolderRequests ==
  \E f \in FolderIds : RemoveFolder(f) \/ \E state \in {"active", "paused"}, e \in BOOLEAN : UpdateFolder(f, state, e)

-----------------------------------------------------------------------------
(* A check: the active folders are listed once, then read one by one.      *)
\* Without an active folder a check fails.
StartCheck ==
  LET active == {f \in FolderIds : folders[f] # None /\ folders[f].state = "active"}
  IN /\ companionUp /\ folderSource /\ check = None /\ active # {}
     /\ check' = [todo |-> {[id |-> f, place |-> folders[f].place, enriched |-> folders[f].enriched] : f \in active}, at |-> None]
     /\ UNCHANGED <<disk, folders, previews, folderSource, companionUp, wanted, readBefore>>

ReadFolder(entry) ==
  /\ check # None /\ check.at = None /\ entry \in check.todo
  /\ check' = [check EXCEPT !.todo = @ \ {entry},
                            !.at = [id |-> entry.id, enriched |-> entry.enriched, detection |-> Inspect(entry.place)]]
  /\ UNCHANGED <<disk, folders, previews, folderSource, companionUp, wanted, readBefore>>

\* The specifications of a folder are read when it has some and they are wanted.
Enriches(at) == at.detection.kind = "sdd" /\ at.enriched

\* The detection is written with what the list said of the folder; a refused row and unreadable
\* specifications fail the check.
FolderRead(readable) ==
  LET at == check.at
      refused == Clashes(folders, at.id, at.detection)
  IN /\ check # None /\ check.at # None /\ (~readable => Enriches(at))
     /\ folders' = IF refused THEN folders ELSE Upserted(folders, at.id, at.detection, at.enriched)
     /\ check' = IF refused \/ ~readable THEN None ELSE [check EXCEPT !.at = None]
     /\ UNCHANGED <<disk, previews, folderSource, companionUp, wanted, readBefore>>

EndCheck ==
  /\ check # None /\ check.at = None /\ check.todo = {}
  /\ check' = None
  /\ UNCHANGED <<disk, folders, previews, folderSource, companionUp, wanted, readBefore>>

-----------------------------------------------------------------------------
(* Starts, and the disk.                                                   *)
\* A start inspects the folders of the earlier registry, which is never cleared, and enables
\* their enrichment and the source; a row that is refused ends it.
RestartWithFolders(f) ==
  LET detection == Inspect(LegacyIdOf[f])
      refused == Clashes(folders, f, detection)
  IN /\ f \in LegacyFolders
     /\ companionUp' = ~refused
     /\ folders' = IF refused THEN folders ELSE Upserted(folders, f, detection, TRUE)
     /\ folderSource' = (folderSource \/ ~refused)
     /\ wanted' = IF wanted[f] = "none" /\ folders'[f] # None THEN [wanted EXCEPT ![f] = "active"] ELSE wanted
     /\ previews' = << >> /\ check' = None
     /\ UNCHANGED <<disk, readBefore>>

\* A folder appears, goes away, or gets specifications.
DiskChanges(place, content) ==
  /\ disk[place] \notin Places /\ disk[place] # content
  /\ disk' = [disk EXCEPT ![place] = content]
  /\ UNCHANGED <<folders, previews, check, folderSource, companionUp, wanted, readBefore>>

FoldersNext ==
  \/ \E places \in SUBSET Places : PreviewFolders(places)
  \/ \E i \in 1..Len(previews) : PreviewExpires(i)
       \/ \E confirmed \in BOOLEAN, named \in SUBSET Places : \E ids \in [named -> FolderIds] : CommitFolders(i, confirmed, ids)
  \/ FolderRequests
  \/ StartCheck \/ EndCheck \/ \E readable \in BOOLEAN : FolderRead(readable)
  \/ check # None /\ \E entry \in check.todo : ReadFolder(entry)
  \/ \E f \in LegacyFolders : RestartWithFolders(f)
  \/ \E place \in Places, content \in Kinds \cup {None} : DiskChanges(place, content)

FoldersTypeOK ==
  /\ \A f \in FolderIds : folders[f] # None =>
       folders[f].state \in {"active", "paused"} /\ folders[f].kind \in Kinds \cup {"unavailable"}
  /\ \A p \in Places : Cardinality(FolderAt(folders, p)) <= 1

-----------------------------------------------------------------------------
(* Properties.                                                             *)
\* Nothing but a person switches a paused folder on, and a removed one comes back only when a
\* check had already read its row or the earlier registry lists it, whatever checks, commits
\* and starts write.
FolderChoicesStand ==
  \A f \in FolderIds : folders[f] # None =>
    folders[f].state = wanted[f] \/ (wanted[f] = "removed" /\ f \in readBefore \cup LegacyFolders)
=============================================================================
