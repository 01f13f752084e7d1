------------------------------- MODULE Sessions -------------------------------
(***************************************************************************)
(* PairingService: the pairing code shown in the desktop window, the nonce *)
(* a page served by the companion carries, and the sessions both are       *)
(* exchanged for.  Everything is kept in memory, and every call is         *)
(* synchronous.                                                            *)
(***************************************************************************)
EXTENDS Absence, Integers, FiniteSets

CONSTANTS
  Browsers,     \* pages, each with a nonce of its own
  CodeTtl,      \* 5 minutes
  SessionTtl,   \* 15 minutes
  Cooldown,     \* 1 minute
  MaxFailures,  \* 5
  MaxNow,       \* bound of the model: readings of the clock
  MaxIssued     \* bound of the model: codes, nonces and tokens issued, each

ASSUME SessionConstants ==
  /\ CodeTtl \in Nat \ {0} /\ SessionTtl \in Nat \ {0} /\ Cooldown \in Nat \ {0}
  /\ MaxFailures \in Nat \ {0} /\ MaxNow \in Nat /\ MaxIssued \in Nat \ {0}

VARIABLES
  now,
  code,           \* the pairing code: which one it is, when it expires and whether it was used
  bootstrap,      \* the same for the nonce of the page served last
  sessions,       \* the session of every token issued so far
  failedAttempts,
  cooldownUntil,
  guesses,        \* wrong guesses that were compared with the code
  epoch           \* tokens issued before the companion was started

pairingVars == <<now, code, bootstrap, sessions, failedAttempts, cooldownUntil, guesses, epoch>>

-----------------------------------------------------------------------------
PairingCodeRecord == [id : 1..MaxIssued, issuedAt : Nat, used : BOOLEAN]
SessionRecord == [browser : Browsers, expiresAt : Nat, origin : {"code", "bootstrap"} \X (1..MaxIssued)]

SessionsTypeOK ==
  /\ now \in 0..MaxNow
  /\ code \in PairingCodeRecord /\ bootstrap \in PairingCodeRecord
  /\ \E n \in 0..MaxIssued : sessions \in [1..n -> SessionRecord \cup {None}]
  /\ failedAttempts \in Nat /\ cooldownUntil \in Nat /\ guesses \in Nat
  /\ epoch \in 0..MaxIssued

SessionsInit ==
  /\ now = 0 /\ epoch = 0
  /\ code = [id |-> 1, issuedAt |-> 0, used |-> FALSE] /\ bootstrap = code
  /\ sessions = << >>
  /\ failedAttempts = 0 /\ cooldownUntil = 0 /\ guesses = 0

Tokens == DOMAIN sessions
NewToken == Cardinality(Tokens) + 1
Live(t) == t \in Tokens /\ sessions[t] # None

\* Another record takes the place of an issued code or nonce.
Reissued(record) == [id |-> record.id + 1, issuedAt |-> now, used |-> FALSE]
Opened(origin, b) == [t \in 1..NewToken |->
  IF t = NewToken THEN [browser |-> b, expiresAt |-> now + SessionTtl, origin |-> origin] ELSE sessions[t]]

-----------------------------------------------------------------------------
TimePasses == now < MaxNow /\ now' = now + 1
  /\ UNCHANGED <<code, bootstrap, sessions, failedAttempts, cooldownUntil, guesses, epoch>>

\* issueCode(), also asked for by the desktop window (refreshPairingCode).
IssueCode ==
  /\ code.id < MaxIssued
  /\ code' = Reissued(code)
  /\ failedAttempts' = 0 /\ cooldownUntil' = 0 /\ guesses' = 0
  /\ UNCHANGED <<now, bootstrap, sessions, epoch>>

\* issueLocalBootstrap(), for every page served.
IssueLocalBootstrap ==
  /\ bootstrap.id < MaxIssued
  /\ bootstrap' = Reissued(bootstrap)
  /\ UNCHANGED <<now, code, sessions, failedAttempts, cooldownUntil, guesses, epoch>>

\* exchange(), while it is not cooling down: a guess of code n by browser b.
Accepted(record, n) == ~record.used /\ now < record.issuedAt + CodeTtl /\ record.id = n

Exchange(n, b) ==
  /\ now >= cooldownUntil /\ Accepted(code, n) /\ NewToken <= MaxIssued
  /\ code' = [code EXCEPT !.used = TRUE]
  /\ failedAttempts' = 0
  /\ sessions' = Opened(<<"code", n>>, b)
  /\ UNCHANGED <<now, bootstrap, cooldownUntil, guesses, epoch>>

\* failAttempt(): the end of the cooldown and the failures counted so far.
CooldownAfter(failures) ==
  <<IF failures >= MaxFailures THEN now + Cooldown ELSE cooldownUntil, failures>>

\* A guess that is compared with a current code and is wrong.  Any other guess is refused
\* without being counted.
Guess(n) ==
  /\ now >= cooldownUntil
  /\ ~code.used /\ now < code.issuedAt + CodeTtl /\ code.id # n
  /\ cooldownUntil' = CooldownAfter(failedAttempts + 1)[1]
  /\ failedAttempts' = CooldownAfter(failedAttempts + 1)[2]
  /\ guesses' = guesses + 1
  /\ UNCHANGED <<now, code, bootstrap, sessions, epoch>>

\* exchangeLocalBootstrap()
ExchangeLocalBootstrap(n, b) ==
  /\ Accepted(bootstrap, n) /\ NewToken <= MaxIssued
  /\ bootstrap' = [bootstrap EXCEPT !.used = TRUE]
  /\ sessions' = Opened(<<"bootstrap", n>>, b)
  /\ UNCHANGED <<now, code, failedAttempts, cooldownUntil, guesses, epoch>>

\* validate(): an expired session is dropped when it is looked at.
Valid(t, b) == Live(t) /\ now < sessions[t].expiresAt /\ sessions[t].browser = b
Validated(t) == IF Live(t) /\ now >= sessions[t].expiresAt THEN [sessions EXCEPT ![t] = None] ELSE sessions

\* Mutant: the session that is rotated stays.
RotatedBeside(t) == Opened(sessions[t].origin, sessions[t].browser)

\* rotate()
Rotated(t) == [Opened(sessions[t].origin, sessions[t].browser) EXCEPT ![t] = None]

\* revoke()
Revoked(t) == IF t \in Tokens THEN [sessions EXCEPT ![t] = None] ELSE sessions

UseSessions(next) ==
  /\ sessions' = next
  /\ UNCHANGED <<now, code, bootstrap, failedAttempts, cooldownUntil, guesses, epoch>>

\* The companion is started again: a new service with a new code and nonce.
StartedAgain ==
  /\ code.id < MaxIssued /\ bootstrap.id < MaxIssued
  /\ code' = Reissued(code) /\ bootstrap' = Reissued(bootstrap)
  /\ sessions' = [t \in Tokens |-> None] /\ epoch' = Cardinality(Tokens)
  /\ failedAttempts' = 0 /\ cooldownUntil' = 0 /\ guesses' = 0
  /\ UNCHANGED now

-----------------------------------------------------------------------------
\* Whatever is exchanged, rotated, revoked and restarted in between: a code or a nonce
\* never has two sessions at once.
OneSessionPerOrigin == \A t, u \in Tokens :
  Live(t) /\ Live(u) /\ sessions[t].origin = sessions[u].origin => t = u

\* A code is compared with MaxFailures wrong guesses, and with one more for every cooldown
\* that has passed since it was issued.
GuessesBounded == guesses * Cooldown <= MaxFailures * Cooldown + (now - code.issuedAt)
=============================================================================
