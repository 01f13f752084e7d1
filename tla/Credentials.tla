-------------------------------- MODULE Credentials --------------------------------
(***************************************************************************)
(* The companion's connection to Gmail: a refresh token in the operating   *)
(* system's secret store, an access token in memory, and the requests that *)
(* connect, disconnect and use them, each waiting for the store and for    *)
(* Google between its steps.                                               *)
(***************************************************************************)
EXTENDS Absence, Naturals, FiniteSets

CONSTANTS
  Attempts,      \* authorizations begun; each names the connection it makes
  TokenCalls,    \* requests that need an access token
  Disconnects,   \* requests that revoke the connection
  MaxStarts      \* bound on starts of the companion

ASSUME CredentialsConstants == None \notin Attempts /\ MaxStarts \in Nat

VARIABLES
  capability,    \* what opening the secret store came to
  stored,        \* the connection whose refresh token is in the store
  access,        \* the one whose access token is in memory
  granted,       \* the connections Google still honours
  attempts, pendingAttempt,
  calls, disconnects,
  starts,
  overlapped,    \* disconnects that met a token on its way in
  cutOff         \* a disconnect that met none has ended, and no consent since

credentialVars == <<capability, stored, access, granted, attempts, pendingAttempt, calls, disconnects,
                    starts, overlapped, cutOff>>
tokenVars == <<stored, access, granted>>
requestVars == <<attempts, pendingAttempt, calls, disconnects>>

\* A native store is tried with a secret of no meaning, which is deleted again.
Capabilities == {"available", "permission-required", "locked", "unavailable", "unsupported"}
ProbeResult(saved, same, deleted) == IF saved /\ same /\ deleted THEN "available" ELSE "unavailable"

Idle == [step |-> "idle", token |-> None]
Step(step, token) == [step |-> step, token |-> token]

CredentialsInit ==
  /\ capability \in {"available", "locked"}
  /\ stored = None /\ access = None /\ granted = {}
  /\ attempts = [a \in Attempts |-> "unused"] /\ pendingAttempt = None
  /\ calls = [c \in TokenCalls |-> Idle] /\ disconnects = [d \in Disconnects |-> Idle]
  /\ starts = 1 /\ overlapped = {} /\ cutOff = FALSE

Available == capability = "available"

\* What may put a token into the store or into memory after a disconnect read them.
Incoming == (\E c \in TokenCalls : calls[c].step \in {"refreshing", "storing"})
            \/ (\E a \in Attempts : attempts[a] \in {"exchanging", "storing"})
Disconnecting == {d \in Disconnects : disconnects[d].step # "idle"}
NoteOverlap == overlapped' = IF Incoming' THEN overlapped \cup Disconnecting ELSE overlapped

-----------------------------------------------------------------------------
(* The secret store: a write may fail before the secret is there, or after *)
(* when its access cannot be restricted.                                   *)
WriteOutcomes == {"written", "failed", "unrestricted"}
StoredAfter(outcome, token) == IF outcome = "failed" THEN stored ELSE token

\* accept() stores first; memory changes only when that succeeded.
Accept(token, hasRefresh, outcome) ==
  /\ stored' = IF hasRefresh THEN StoredAfter(outcome, token) ELSE stored
  /\ access' = IF hasRefresh => outcome = "written" THEN token ELSE access

-----------------------------------------------------------------------------
(* Connecting.                                                             *)
\* Without a pending attempt a new one opens its callback.
StartConnect(a) ==
  /\ Available /\ pendingAttempt = None /\ attempts[a] = "unused"
  /\ attempts' = [attempts EXCEPT ![a] = "beginning"]
  /\ UNCHANGED <<capability, pendingAttempt, calls, disconnects, starts, overlapped, cutOff>> /\ UNCHANGED tokenVars

Begun(a, listening) ==
  /\ attempts[a] = "beginning"
  /\ attempts' = [attempts EXCEPT ![a] = IF listening THEN "waiting" ELSE "ended"]
  /\ pendingAttempt' = IF listening THEN a ELSE pendingAttempt
  /\ UNCHANGED <<capability, calls, disconnects, starts, overlapped, cutOff>> /\ UNCHANGED tokenVars

\* The end of the pending attempt makes room for the next.
End(a) ==
  /\ attempts' = [attempts EXCEPT ![a] = "ended"]
  /\ pendingAttempt' = IF pendingAttempt = a THEN None ELSE pendingAttempt

\* The first request at the callback decides: the code of this attempt, or whatever else.
CallbackServed(a, answer) ==
  /\ attempts[a] = "waiting"
  /\ IF answer = "code"
       THEN attempts' = [attempts EXCEPT ![a] = "exchanging"] /\ UNCHANGED pendingAttempt
       ELSE End(a)
  /\ UNCHANGED <<capability, calls, disconnects, starts, cutOff>> /\ UNCHANGED tokenVars
  /\ NoteOverlap

Exchanged(a, ok) ==
  /\ attempts[a] = "exchanging"
  /\ IF ok THEN /\ granted' = granted \cup {a}
                /\ attempts' = [attempts EXCEPT ![a] = "storing"] /\ UNCHANGED pendingAttempt
     ELSE End(a) /\ UNCHANGED granted
  /\ UNCHANGED <<capability, stored, access, calls, disconnects, starts, cutOff>>
  /\ NoteOverlap

ConnectStored(a, outcome) ==
  /\ attempts[a] = "storing"
  /\ Accept(a, TRUE, outcome) /\ End(a) /\ cutOff' = FALSE
  /\ UNCHANGED <<capability, granted, calls, disconnects, starts>>
  /\ NoteOverlap

-----------------------------------------------------------------------------
(* Using the connection.                                                   *)
\* A token in memory is handed out at once.
CallAccessToken(c) ==
  /\ Available /\ calls[c] = Idle /\ access = None
  /\ calls' = [calls EXCEPT ![c] = Step("reading", None)]
  /\ UNCHANGED <<capability, attempts, pendingAttempt, disconnects, starts, overlapped, cutOff>> /\ UNCHANGED tokenVars

RefreshRead(c) ==
  /\ calls[c].step = "reading"
  /\ calls' = [calls EXCEPT ![c] = IF stored = None THEN Idle ELSE Step("refreshing", stored)]
  /\ UNCHANGED <<capability, attempts, pendingAttempt, disconnects, starts, cutOff>> /\ UNCHANGED tokenVars
  /\ NoteOverlap

\* Google answers for a connection it honours, with a new refresh token or without.
Refreshed(c, ok, rotated) ==
  LET token == calls[c].token IN
  /\ calls[c].step = "refreshing" /\ (ok => token \in granted)
  /\ calls' = [calls EXCEPT ![c] = IF ok /\ rotated THEN Step("storing", token) ELSE Idle]
  /\ IF ok /\ ~rotated THEN Accept(token, FALSE, "written") ELSE UNCHANGED <<stored, access>>
  /\ UNCHANGED <<capability, granted, attempts, pendingAttempt, disconnects, starts, cutOff>>
  /\ NoteOverlap

RefreshStored(c, outcome) ==
  /\ calls[c].step = "storing"
  /\ Accept(calls[c].token, TRUE, outcome)
  /\ calls' = [calls EXCEPT ![c] = Idle]
  /\ UNCHANGED <<capability, granted, attempts, pendingAttempt, disconnects, starts, cutOff>>
  /\ NoteOverlap

-----------------------------------------------------------------------------
(* Disconnecting.                                                          *)
\* Without a store the request is answered as if it were done.
Disconnect(d) ==
  /\ Available /\ disconnects[d] = Idle
  /\ disconnects' = [disconnects EXCEPT ![d] = Step("reading", None)]
  /\ overlapped' = IF Incoming THEN overlapped \cup {d} ELSE overlapped \ {d}
  /\ UNCHANGED <<capability, attempts, pendingAttempt, calls, starts, cutOff>> /\ UNCHANGED tokenVars

DisconnectRead(d) ==
  /\ disconnects[d].step = "reading"
  /\ disconnects' = [disconnects EXCEPT ![d] = Step(IF stored = None THEN "deleting" ELSE "revoking", stored)]
  /\ access' = IF stored = None THEN None ELSE access
  /\ UNCHANGED <<capability, stored, granted, attempts, pendingAttempt, calls, starts, overlapped, cutOff>>

\* Unless Google agrees, or knows the token no more, everything stays.
RevokeAnswered(d, ok) ==
  /\ disconnects[d].step = "revoking"
  /\ granted' = IF ok THEN granted \ {disconnects[d].token} ELSE granted
  /\ disconnects' = [disconnects EXCEPT ![d] = IF ok THEN Step("deleting", @.token) ELSE Idle]
  /\ access' = IF ok THEN None ELSE access
  /\ UNCHANGED <<capability, stored, attempts, pendingAttempt, calls, starts, overlapped, cutOff>>

DisconnectDeleted(d, ok) ==
  /\ disconnects[d].step = "deleting"
  /\ stored' = IF ok THEN None ELSE stored
  /\ disconnects' = [disconnects EXCEPT ![d] = Idle]
  /\ cutOff' = (cutOff \/ (ok /\ d \notin overlapped))
  /\ UNCHANGED <<capability, access, granted, attempts, pendingAttempt, calls, starts, overlapped>>

-----------------------------------------------------------------------------
(* Everything else.                                                        *)
AccessExpires ==
  /\ access # None /\ access' = None
  /\ UNCHANGED <<capability, stored, granted, starts, overlapped, cutOff>> /\ UNCHANGED requestVars

GoogleRevokes(a) ==
  /\ a \in granted /\ granted' = granted \ {a}
  /\ UNCHANGED <<capability, stored, access, starts, overlapped, cutOff>> /\ UNCHANGED requestVars

\* Only the store outlives the companion, which may fail to open it.
RestartServices(opened) ==
  /\ starts < MaxStarts /\ starts' = starts + 1
  /\ capability' = opened
  /\ access' = None /\ pendingAttempt' = None
  /\ attempts' = [a \in Attempts |-> IF attempts[a] = "unused" THEN "unused" ELSE "ended"]
  /\ calls' = [c \in TokenCalls |-> Idle] /\ disconnects' = [d \in Disconnects |-> Idle]
  /\ UNCHANGED <<stored, granted, overlapped, cutOff>>

GmailRequests ==
  \/ \E a \in Attempts : StartConnect(a)
  \/ \E d \in Disconnects : Disconnect(d)
  \/ \E c \in TokenCalls : CallAccessToken(c)

CredentialsNext ==
  \/ GmailRequests
  \/ \E a \in Attempts, ok \in BOOLEAN : Begun(a, ok) \/ Exchanged(a, ok)
  \/ \E a \in Attempts, answer \in {"code", "denied", "strange", "timeout"} : CallbackServed(a, answer)
  \/ \E a \in Attempts, outcome \in WriteOutcomes : ConnectStored(a, outcome)
  \/ \E c \in TokenCalls : RefreshRead(c)
  \/ \E c \in TokenCalls, ok, rotated \in BOOLEAN : Refreshed(c, ok, rotated)
  \/ \E c \in TokenCalls, outcome \in WriteOutcomes : RefreshStored(c, outcome)
  \/ \E d \in Disconnects : DisconnectRead(d)
  \/ \E d \in Disconnects, ok \in BOOLEAN : RevokeAnswered(d, ok) \/ DisconnectDeleted(d, ok)
  \/ AccessExpires
  \/ \E a \in Attempts : GoogleRevokes(a)
  \/ \E saved, same, deleted \in BOOLEAN : RestartServices(ProbeResult(saved, same, deleted))

CredentialsTypeOK ==
  /\ capability \in Capabilities
  /\ {stored, access, pendingAttempt} \subseteq Attempts \cup {None} /\ granted \subseteq Attempts
  /\ \A a \in Attempts : attempts[a] \in {"unused", "beginning", "waiting", "exchanging", "storing", "ended"}

-----------------------------------------------------------------------------
(* Properties.                                                             *)
\* After a disconnect that no token on its way in overlapped, none is stored or in memory
\* until a person consents again, whatever fails or is asked for in between.
DisconnectIsFinal == cutOff => stored = None /\ access = None

\* The attempt a second page is sent to is one that has not ended.
PendingAttemptIsOpen == pendingAttempt # None => attempts[pendingAttempt] \in {"waiting", "exchanging", "storing"}
=============================================================================
