-------------------------------- MODULE SampleWork --------------------------------
(***************************************************************************)
(* The sample workspace: fictional tickets a visitor may change, kept for  *)
(* the browser session as far as the session storage takes them.           *)
(***************************************************************************)
EXTENDS Absence, Naturals

CONSTANTS
  Samples,        \* tickets of the canonical sample
  Added           \* ids of tickets a visitor adds

SampleTickets ==
  {one \in [origin : {"demo", "browser-ui"}, status : {"todo", "done"}, done : BOOLEAN, notes : 0..1] :
     one.done = (one.status = "done")}
Workspaces == [Samples \cup Added -> SampleTickets \cup {None}]

ASSUME SampleConstants == None \notin SampleTickets \cup Workspaces

VARIABLES sample, session     \* what the page shows, what the session storage holds

sampleVars == <<sample, session>>

SampleTicket(status) == [origin |-> "demo", status |-> status, done |-> status = "done", notes |-> 0]

CanonicalSample ==
  [i \in Samples \cup Added |-> IF i \in Samples THEN SampleTicket("todo") ELSE None]

\* What another version of the application, or another program, may have left there.
Strange ==
  {[CanonicalSample EXCEPT ![i] = [SampleTicket("todo") EXCEPT !.origin = "browser-ui"]] : i \in Samples}

\* Only fictional tickets.
IsSampleData(data) == \A i \in Samples \cup Added : data[i] # None => data[i].origin = "demo"

UsableSample(data) == data # None /\ IsSampleData(data)

\* Storing is best effort: the page goes on with what it could not store.
SaveSample(data) == sample' = data /\ session' \in {data, session}

\* Opened or reloaded: what is stored, if it is a sample, or the canonical one.
LoadSample ==
  IF UsableSample(session) THEN sample' = session /\ UNCHANGED session
  ELSE SaveSample(CanonicalSample)

ResetSample ==
  /\ sample' = CanonicalSample
  /\ session' \in {CanonicalSample, None, session}

SampleInit ==
  /\ session \in {None} \cup Strange
  /\ sample = None

ShowsSample == sample # None
CreateSampleTicket(i) ==
  /\ ShowsSample /\ sample[i] = None
  /\ SaveSample([sample EXCEPT ![i] = SampleTicket("todo")])

UpdateSampleTicketStatus(i, status) ==
  /\ ShowsSample /\ sample[i] # None
  /\ SaveSample([sample EXCEPT ![i].status = status, ![i].done = status = "done"])

AddSampleWorkNote(i) ==
  /\ ShowsSample /\ sample[i] # None /\ sample[i].notes = 0
  /\ SaveSample([sample EXCEPT ![i].notes = 1])

DeleteSampleTicket(i) ==
  /\ ShowsSample /\ sample[i] # None
  /\ SaveSample([sample EXCEPT ![i] = None])

SampleNext ==
  \/ LoadSample
  \/ ShowsSample /\ ResetSample
  \/ \E i \in Added : CreateSampleTicket(i)
  \/ \E i \in Samples \cup Added :
       \/ \E status \in {"todo", "done"} : UpdateSampleTicketStatus(i, status)
       \/ AddSampleWorkNote(i) \/ DeleteSampleTicket(i)

SampleTypeOK == {sample, session} \subseteq Workspaces \cup {None}

\* A page that calls its tickets fictional shows no other, whatever the storage held and
\* however often storing failed.
SampleIsFictional == ShowsSample => \A i \in Samples \cup Added : sample[i] # None => sample[i].origin = "demo"
=============================================================================
