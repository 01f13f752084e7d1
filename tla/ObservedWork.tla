------------------------------- MODULE ObservedWork -------------------------------
(***************************************************************************)
(* The export of a browser's work as a bundle of objects, links between    *)
(* them and evidence, and its validation before it is downloaded.          *)
(***************************************************************************)
EXTENDS LocalWork, FiniteSets

Link(from, type, to) == [from |-> from, type |-> type, to |-> to]
Part(objects, links) == [objects |-> objects, links |-> links]
Joined(parts) ==
  Part(UNION {p.objects : p \in parts}, UNION {p.links : p \in parts})

-----------------------------------------------------------------------------
(* The storage is read as it is, without seeding or repairing it.          *)
Agent(w) == <<"actor", w>>
TicketObject(c) == <<"ticket", c>>
StoredWork == {c \in WorkCases : local.tickets[c] # None}

\* An object with a link to it.
Hanging(from, type, objects) == Part(objects, {Link(from, type, o) : o \in objects})

TicketPart(c) ==
  Joined({Part({TicketObject(c)}, {}), Hanging(TicketObject(c), "created-by", {Agent(local.tickets[c].source)})})

NotePart(c) ==
  Hanging(TicketObject(c), "has-evidence", {<<"evidence", c, e>> : e \in local.tickets[c].notes})

DecisionPart(c) ==
  Hanging(TicketObject(c), "records-decision", {<<"decision", c, e>> : e \in local.tickets[c].decisions})

ArtifactPart(c) ==
  Hanging(TicketObject(c), "attached-artifact", {<<"artifact", c, e>> : e \in local.tickets[c].artifacts})

ActivityPart ==
  IF local.activities = None THEN Part({}, {})
  ELSE Joined({Part({<<"agent-activity", w>>, Agent(w)},
                    {Link(<<"agent-activity", w>>, "performed-by", Agent(w))}) : w \in Workers})

EmailPart == Part({<<"email", m>> : m \in local.mails}, {})

\* Each item has an artifact of its own.
ProgressPart ==
  Joined({Part({<<"project-progress", p>>, <<"artifact", p>>},
               {Link(<<"project-progress", p>>, "attached-artifact", <<"artifact", p>>)}) : p \in progress})

-----------------------------------------------------------------------------
(* Events refer to objects by other names.                                 *)
EventObject(e) == <<"event", e.id>>
Recorded == {ledger[i] : i \in 1..Len(ledger)}

ObjectOf(subject) ==
  CASE subject[1] = "ticket" -> subject
    [] subject[1] = "ai-receipt" -> <<"receipt", subject[2]>>
    [] subject[1] = "project-progress" -> subject
    [] OTHER -> None

\* What an event refers to is linked when it is exported.
Referred(e, exported) == {ObjectOf(s) : s \in e.subjects} \cap exported

EventPart(e, exported) ==
  Joined({Part({EventObject(e), Agent(e.actor)}, {Link(EventObject(e), "performed-by", Agent(e.actor))}),
          Part({}, {Link(EventObject(e), "references", o) : o \in Referred(e, exported)}),
          Hanging(EventObject(e), "has-evidence", {<<"evidence", e.id, n>> : n \in e.entries})})

WorkPart ==
  Joined({TicketPart(c) : c \in StoredWork} \cup {NotePart(c) : c \in StoredWork} \cup {DecisionPart(c) : c \in StoredWork}
           \cup {ArtifactPart(c) : c \in StoredWork} \cup {ActivityPart, EmailPart, ProgressPart})

-----------------------------------------------------------------------------
(* Reading an event without an actor, or a ticket without its lists, throws. *)
Throws == \/ \E e \in Recorded : e.actor = None
          \/ \E c \in StoredWork : ~local.tickets[c].whole

SourceTypes ==
  LET types == {e.source : e \in Recorded}
  IN IF types = {} THEN {"mnemosync"} ELSE types

\* The bundle, unless reading throws.
ObservedBundle ==
  LET exported == WorkPart
  IN [parts |-> Joined({exported} \cup {EventPart(e, exported.objects) : e \in Recorded}),
      evidence |-> UNION {{<<"evidence", e.id, n>> : n \in e.entries} : e \in Recorded},
      acceptedSourceTypes |-> SourceTypes,
      sourceEventIds |-> [i \in 1..Len(ledger) |-> ledger[i].id]]

\* Every object and link has a label and a known truth state.
WellFormed(bundle) == \A e \in Recorded : EventObject(e) \in bundle.parts.objects => e.sound

ValidExport(bundle) == WellFormed(bundle) /\ "mnemosync" \in bundle.acceptedSourceTypes

\* What the button does: it throws, refuses in silence or downloads.
DownloadOutcome ==
  IF Throws THEN "throws" ELSE IF ValidExport(ObservedBundle) THEN "downloaded" ELSE "refused"

-----------------------------------------------------------------------------
(* Properties.                                                             *)
\* An export refers to nothing it does not hold: links join exported objects, evidence is of
\* exported events, also when tickets were deleted that events are about.
ExportIsClosed ==
  LET bundle == ObservedBundle
  IN ~Throws =>
       /\ \A l \in bundle.parts.links : {l.from, l.to} \subseteq bundle.parts.objects
       /\ bundle.evidence \subseteq bundle.parts.objects

\* Only what was imported or left by an earlier version can keep work from being downloaded.
OwnWorkIsDownloaded ==
  (/\ \A e \in Recorded : e \notin Foreign
   /\ \A c \in StoredWork : local.tickets[c].whole) => DownloadOutcome = "downloaded"
=============================================================================
