---------------------------- MODULE SessionsProofs ----------------------------
(***************************************************************************)
(* Theorems about Sessions and BrowserSession, for any number of pages,    *)
(* codes, nonces and tokens, and any lengths of time.                      *)
(*                                                                         *)
(* That guesses are bounded rests on what a cooldown is worth: once the    *)
(* first MaxFailures guesses are spent, each further one needs the clock   *)
(* to pass the end of the last cooldown (GuessesEarned).                   *)
(*                                                                         *)
(* That a page which shows itself connected is served rests on the tokens  *)
(* its handlers were given: each is honoured until it expires and is in no *)
(* other hands, so no other handler ends it (Served).                      *)
(***************************************************************************)
EXTENDS BrowserSession, FiniteSetTheorems, TLAPS

\* The guesses spent so far are those the cooldowns until the present one allow.
GuessesEarned ==
  /\ code.issuedAt <= now /\ cooldownUntil <= now + Cooldown
  /\ ~code.used => guesses = failedAttempts
  /\ guesses < MaxFailures
       \/ guesses * Cooldown <= (MaxFailures - 1) * Cooldown + (cooldownUntil - code.issuedAt)

\* A session is of a code or a nonce that was used.
OriginUsed(record, n) == n < record.id \/ (n = record.id /\ record.used)
OriginsUsed == \A t \in Tokens : Live(t) =>
  \/ \E n \in 1..MaxIssued : sessions[t].origin = <<"code", n>> /\ OriginUsed(code, n)
  \/ \E n \in 1..MaxIssued : sessions[t].origin = <<"bootstrap", n>> /\ OriginUsed(bootstrap, n)

\* The inductive invariant.
Earned ==
  /\ SessionsTypeOK
  /\ GuessesEarned
  /\ OriginsUsed
  /\ OneSessionPerOrigin

-----------------------------------------------------------------------------
(* Tokens.                                                                 *)

\* The tokens issued so far are numbered from 1, and the next one is not among them.
LEMMA TokensNumbered ==
  ASSUME SessionsTypeOK
  PROVE  \E n \in 0..MaxIssued : Tokens = 1..n /\ NewToken = n + 1
  <1>1. PICK n \in 0..MaxIssued : sessions \in [1..n -> SessionRecord \cup {None}]
    BY DEF SessionsTypeOK
  <1>2. Tokens = 1..n
    BY <1>1 DEF Tokens
  <1>3. Cardinality(1..n) = n
    BY FS_Interval, SessionConstants
  <1> QED  BY <1>2, <1>3 DEF NewToken

\* A record that takes the place of another, or is used: what was used stays so.
Later ==
  /\ code.id < code'.id \/ (code.id = code'.id /\ (code.used => code'.used))
  /\ bootstrap.id < bootstrap'.id
       \/ (bootstrap.id = bootstrap'.id /\ (bootstrap.used => bootstrap'.used))

\* What was used of a record stays used.
LEMMA UsedStays ==
  ASSUME SessionsTypeOK, SessionsTypeOK', Later, NEW n \in 1..MaxIssued
  PROVE  /\ OriginUsed(code, n) => OriginUsed(code, n)'
         /\ OriginUsed(bootstrap, n) => OriginUsed(bootstrap, n)'
  <1>1. /\ code.id \in Nat /\ code'.id \in Nat /\ bootstrap.id \in Nat /\ bootstrap'.id \in Nat
        /\ n \in Nat
    BY SessionConstants DEF SessionsTypeOK, PairingCodeRecord
  <1> QED  BY <1>1 DEF Later, OriginUsed

\* Sessions that end take nothing with them.
LEMMA SessionsEnd ==
  ASSUME SessionsTypeOK, OriginsUsed, OneSessionPerOrigin, SessionsTypeOK', Later,
         Tokens' = Tokens, \A t \in Tokens : sessions'[t] \in {sessions[t], None}
  PROVE  OriginsUsed' /\ OneSessionPerOrigin'
  <1>1. \A t \in Tokens : Live(t)' => Live(t) /\ sessions'[t] = sessions[t]
    BY DEF Live
  <1>2. OriginsUsed'
    <2> SUFFICES ASSUME NEW t \in Tokens, Live(t)'
                 PROVE  \/ \E n \in 1..MaxIssued :
                             sessions'[t].origin = <<"code", n>> /\ OriginUsed(code, n)'
                        \/ \E n \in 1..MaxIssued :
                             sessions'[t].origin = <<"bootstrap", n>> /\ OriginUsed(bootstrap, n)'
      BY DEF OriginsUsed
    <2> QED  BY <1>1, UsedStays DEF OriginsUsed
  <1>3. OneSessionPerOrigin'
    BY <1>1 DEF OneSessionPerOrigin
  <1> QED  BY <1>2, <1>3

\* A session more, of an origin that was used for it or whose session it replaces, is the only
\* one of it.
LEMMA SessionOpens ==
  ASSUME SessionsTypeOK, OriginsUsed, OneSessionPerOrigin, SessionsTypeOK', Later,
         NEW origin, Tokens' = Tokens \cup {NewToken}, NewToken \notin Tokens,
         sessions'[NewToken].origin = origin,
         \A t \in Tokens : sessions'[t] \in {sessions[t], None},
         \A t \in Tokens : Live(t) /\ sessions[t].origin = origin => sessions'[t] = None,
         \/ \E n \in 1..MaxIssued : origin = <<"code", n>> /\ OriginUsed(code, n)'
         \/ \E n \in 1..MaxIssued : origin = <<"bootstrap", n>> /\ OriginUsed(bootstrap, n)'
  PROVE  OriginsUsed' /\ OneSessionPerOrigin'
  <1>1. \A t \in Tokens : Live(t)' => Live(t) /\ sessions'[t] = sessions[t]
    BY DEF Live
  <1>2. OriginsUsed'
    <2> SUFFICES ASSUME NEW t \in Tokens', Live(t)'
                 PROVE  \/ \E n \in 1..MaxIssued :
                             sessions'[t].origin = <<"code", n>> /\ OriginUsed(code, n)'
                        \/ \E n \in 1..MaxIssued :
                             sessions'[t].origin = <<"bootstrap", n>> /\ OriginUsed(bootstrap, n)'
      BY DEF OriginsUsed
    <2>1. CASE t = NewToken
      BY <2>1
    <2>2. CASE t \in Tokens
      BY <1>1, <2>2, UsedStays DEF OriginsUsed
    <2> QED  BY <2>1, <2>2
  <1>3. OneSessionPerOrigin'
    <2> SUFFICES ASSUME NEW t \in Tokens', NEW u \in Tokens', Live(t)', Live(u)',
                        sessions'[t].origin = sessions'[u].origin
                 PROVE  t = u
      BY DEF OneSessionPerOrigin
    <2>1. CASE t \in Tokens /\ u \in Tokens
      BY <1>1, <2>1 DEF OneSessionPerOrigin
    <2>2. CASE t \in Tokens /\ u = NewToken
      BY <1>1, <2>2 DEF Live
    <2>3. CASE t = NewToken /\ u \in Tokens
      BY <1>1, <2>3 DEF Live
    <2>4. CASE t = NewToken /\ u = NewToken
      BY <2>4
    <2> QED  BY <2>1, <2>2, <2>3, <2>4
  <1> QED  BY <1>2, <1>3

\* The token of a session that is opened is the next one.
LEMMA OpenedTyped ==
  ASSUME SessionsTypeOK, NEW b \in Browsers, NewToken <= MaxIssued,
         NEW origin \in {"code", "bootstrap"} \X (1..MaxIssued)
  PROVE  /\ \E n \in 0..MaxIssued : Opened(origin, b) \in [1..n -> SessionRecord \cup {None}]
         /\ DOMAIN Opened(origin, b) = Tokens \cup {NewToken} /\ NewToken \notin Tokens
         /\ Opened(origin, b)[NewToken].origin = origin
         /\ \A t \in Tokens : Opened(origin, b)[t] = sessions[t]
  <1>1. PICK n \in 0..MaxIssued : Tokens = 1..n /\ NewToken = n + 1
    BY TokensNumbered
  <1>2. /\ 1..NewToken = Tokens \cup {NewToken} /\ NewToken \notin Tokens
        /\ NewToken \in 0..MaxIssued /\ NewToken \in 1..NewToken
    BY <1>1, SessionConstants
  <1>3. now + SessionTtl \in Nat
    BY SessionConstants DEF SessionsTypeOK
  <1>4. [browser |-> b, expiresAt |-> now + SessionTtl, origin |-> origin] \in SessionRecord
    BY <1>3 DEF SessionRecord
  <1>5. \A t \in Tokens : sessions[t] \in SessionRecord \cup {None}
    BY DEF SessionsTypeOK, Tokens
  <1>6. Opened(origin, b) \in [1..NewToken -> SessionRecord \cup {None}]
    BY <1>2, <1>4, <1>5 DEF Opened
  <1> QED  BY <1>2, <1>6 DEF Opened

-----------------------------------------------------------------------------
(* Steps.                                                                  *)

\* A step that changes neither codes nor nonces nor the guesses nor the sessions but by
\* ending some.
LEMMA SomeEnd ==
  ASSUME Earned, NEW T, UseSessions([t \in Tokens |-> IF t \in T THEN None ELSE sessions[t]])
  PROVE  Earned'
  <1> DEFINE next == [t \in Tokens |-> IF t \in T THEN None ELSE sessions[t]]
  <1>1. /\ sessions' = next
        /\ UNCHANGED <<now, code, bootstrap, failedAttempts, cooldownUntil, guesses, epoch>>
    BY DEF UseSessions
  <1>2. SessionsTypeOK'
    <2>1. PICK n \in 0..MaxIssued : sessions \in [1..n -> SessionRecord \cup {None}]
      BY DEF Earned, SessionsTypeOK
    <2>2. next \in [1..n -> SessionRecord \cup {None}]
      BY <2>1 DEF Tokens
    <2> HIDE DEF next
    <2> QED  BY <1>1, <2>2 DEF Earned, SessionsTypeOK
  <1>3. Tokens' = Tokens /\ \A t \in Tokens : sessions'[t] \in {sessions[t], None}
    BY <1>1 DEF Tokens
  <1> HIDE DEF next
  <1>4. OriginsUsed' /\ OneSessionPerOrigin'
    BY <1>1, <1>2, <1>3, SessionsEnd DEF Earned, Later
  <1>5. GuessesEarned'
    BY <1>1 DEF Earned, GuessesEarned
  <1> QED  BY <1>2, <1>4, <1>5 DEF Earned

\* validate() and revoke() end at most one session.
LEMMA UseKeeps ==
  ASSUME Earned, NEW t, UseSessions(Revoked(t)) \/ UseSessions(Validated(t))
  PROVE  Earned'
  <1> DEFINE Ended(T) == [u \in Tokens |-> IF u \in T THEN None ELSE sessions[u]]
  <1>1. sessions = [u \in Tokens |-> sessions[u]]
    BY DEF Earned, SessionsTypeOK, Tokens
  <1>2. sessions = Ended({})
    BY <1>1
  <1>3. t \in Tokens => [sessions EXCEPT ![t] = None] = Ended({t})
    BY <1>1 DEF Tokens
  <1>4. \E T \in {{}, {t}} : Revoked(t) = Ended(T)
    BY <1>2, <1>3 DEF Revoked
  <1>5. \E T \in {{}, {t}} : Validated(t) = Ended(T)
    BY <1>2, <1>3 DEF Validated, Live
  <1>6. \E T \in {{}, {t}} : UseSessions(Ended(T))
    BY <1>4, <1>5
  <1> QED  BY <1>6, SomeEnd

\* rotate() opens a session in the place of another.
LEMMA RotateKeeps ==
  ASSUME Earned, NEW t, Live(t), NewToken <= MaxIssued, UseSessions(Rotated(t))
  PROVE  Earned'
  <1> DEFINE origin == sessions[t].origin
             opened == Opened(origin, sessions[t].browser)
  <1>1. SessionsTypeOK /\ t \in Tokens /\ sessions[t] \in SessionRecord
    BY DEF Earned, SessionsTypeOK, Live, Tokens
  <1>2. sessions[t].browser \in Browsers /\ origin \in {"code", "bootstrap"} \X (1..MaxIssued)
    BY <1>1 DEF SessionRecord
  <1> HIDE DEF origin
  <1>3. /\ \E n \in 0..MaxIssued : opened \in [1..n -> SessionRecord \cup {None}]
        /\ DOMAIN opened = Tokens \cup {NewToken} /\ NewToken \notin Tokens
        /\ opened[NewToken].origin = origin
        /\ \A u \in Tokens : opened[u] = sessions[u]
    BY <1>1, <1>2, OpenedTyped
  <1> HIDE DEF opened
  <1>4. /\ sessions' = [opened EXCEPT ![t] = None]
        /\ UNCHANGED <<now, code, bootstrap, failedAttempts, cooldownUntil, guesses, epoch>>
    BY DEF UseSessions, Rotated, opened, origin
  <1>5. SessionsTypeOK'
    <2>1. PICK n \in 0..MaxIssued : opened \in [1..n -> SessionRecord \cup {None}]
      BY <1>3
    <2>2. sessions' \in [1..n -> SessionRecord \cup {None}]
      BY <1>4, <2>1
    <2> QED  BY <1>1, <1>4, <2>2 DEF SessionsTypeOK
  <1>6. /\ Tokens' = Tokens \cup {NewToken}
        /\ t # NewToken /\ sessions'[NewToken].origin = origin
        /\ \A u \in Tokens : sessions'[u] = IF u = t THEN None ELSE sessions[u]
    <2>1. opened \in [Tokens \cup {NewToken} -> SessionRecord \cup {None}]
      BY <1>3
    <2> QED  BY <1>1, <1>3, <1>4, <2>1 DEF Tokens
  <1>7. \A u \in Tokens : Live(u) /\ sessions[u].origin = origin => sessions'[u] = None
    BY <1>1, <1>6 DEF Earned, OneSessionPerOrigin, origin
  <1>8. \/ \E n \in 1..MaxIssued : origin = <<"code", n>> /\ OriginUsed(code, n)'
        \/ \E n \in 1..MaxIssued : origin = <<"bootstrap", n>> /\ OriginUsed(bootstrap, n)'
    BY <1>1, <1>4 DEF Earned, OriginsUsed, OriginUsed, origin
  <1>9. Later /\ OriginsUsed /\ OneSessionPerOrigin
    BY <1>4 DEF Later, Earned
  <1>10. OriginsUsed' /\ OneSessionPerOrigin'
    BY <1>1, <1>3, <1>5, <1>6, <1>7, <1>8, <1>9, SessionOpens
  <1>11. GuessesEarned'
    BY <1>4 DEF Earned, GuessesEarned
  <1> QED  BY <1>5, <1>10, <1>11 DEF Earned

\* exchange() and exchangeLocalBootstrap() use up what they are given.
LEMMA ExchangeKeeps ==
  ASSUME Earned, NEW n, NEW b \in Browsers, Exchange(n, b) \/ ExchangeLocalBootstrap(n, b)
  PROVE  Earned'
  <1>1. SessionsTypeOK /\ OriginsUsed /\ OneSessionPerOrigin /\ GuessesEarned
    BY DEF Earned
  <1>2. PICK kind \in {"code", "bootstrap"} :
          /\ NewToken <= MaxIssued /\ sessions' = Opened(<<kind, n>>, b)
          /\ kind = "code" => Exchange(n, b)
          /\ kind = "bootstrap" => ExchangeLocalBootstrap(n, b)
    BY DEF Exchange, ExchangeLocalBootstrap
  <1>3. /\ code.id \in 1..MaxIssued /\ bootstrap.id \in 1..MaxIssued
        /\ code \in PairingCodeRecord /\ bootstrap \in PairingCodeRecord
    BY <1>1 DEF SessionsTypeOK, PairingCodeRecord
  <1>4. n \in 1..MaxIssued
    BY <1>2, <1>3 DEF Exchange, ExchangeLocalBootstrap, Accepted
  <1> DEFINE origin == <<kind, n>>
  <1>5. origin \in {"code", "bootstrap"} \X (1..MaxIssued)
    BY <1>4
  <1> HIDE DEF origin
  <1>6. /\ \E k \in 0..MaxIssued : sessions' \in [1..k -> SessionRecord \cup {None}]
        /\ Tokens' = Tokens \cup {NewToken} /\ NewToken \notin Tokens
        /\ sessions'[NewToken].origin = origin
        /\ \A t \in Tokens : sessions'[t] = sessions[t]
    <2>1. sessions' = Opened(origin, b)
      BY <1>2 DEF origin
    <2>2. /\ \E k \in 0..MaxIssued : Opened(origin, b) \in [1..k -> SessionRecord \cup {None}]
          /\ DOMAIN Opened(origin, b) = Tokens \cup {NewToken} /\ NewToken \notin Tokens
          /\ Opened(origin, b)[NewToken].origin = origin
          /\ \A t \in Tokens : Opened(origin, b)[t] = sessions[t]
      BY <1>1, <1>2, <1>5, OpenedTyped
    <2>3. Tokens' = DOMAIN Opened(origin, b)
      BY <2>1 DEF Tokens
    <2> QED  BY <2>1, <2>2, <2>3
  <1>7. CASE kind = "code"
    <2>1. /\ code' = [code EXCEPT !.used = TRUE] /\ failedAttempts' = 0
          /\ UNCHANGED <<now, bootstrap, cooldownUntil, guesses, epoch>>
          /\ ~code.used /\ code.id = n
      BY <1>2, <1>7 DEF Exchange, Accepted
    <2>2. /\ code'.used /\ code'.id = n /\ code'.issuedAt = code.issuedAt
          /\ code' \in PairingCodeRecord
      BY <1>3, <2>1 DEF PairingCodeRecord
    <2>3. SessionsTypeOK'
      BY <1>1, <1>6, <2>1, <2>2 DEF SessionsTypeOK
    <2>4. Later
      BY <1>3, <2>1, <2>2 DEF Later
    <2>5. \A t \in Tokens : Live(t) => sessions[t].origin # origin
      <3>1. ~OriginUsed(code, n)
        BY <1>3, <2>1 DEF OriginUsed
      <3> QED  BY <1>7, <3>1, <1>1 DEF OriginsUsed, origin
    <2>6. \E k \in 1..MaxIssued : origin = <<"code", k>> /\ OriginUsed(code, k)'
      BY <1>4, <1>7, <2>2 DEF OriginUsed, origin
    <2>7. OriginsUsed' /\ OneSessionPerOrigin'
      BY <1>1, <1>6, <2>3, <2>4, <2>5, <2>6, SessionOpens
    <2>8. GuessesEarned'
      BY <1>1, <2>1, <2>2 DEF GuessesEarned
    <2> QED  BY <2>3, <2>7, <2>8 DEF Earned
  <1>8. CASE kind = "bootstrap"
    <2>1. /\ bootstrap' = [bootstrap EXCEPT !.used = TRUE]
          /\ UNCHANGED <<now, code, failedAttempts, cooldownUntil, guesses, epoch>>
          /\ ~bootstrap.used /\ bootstrap.id = n
      BY <1>2, <1>8 DEF ExchangeLocalBootstrap, Accepted
    <2>2. bootstrap'.used /\ bootstrap'.id = n /\ bootstrap' \in PairingCodeRecord
      BY <1>3, <2>1 DEF PairingCodeRecord
    <2>3. SessionsTypeOK'
      BY <1>1, <1>6, <2>1, <2>2 DEF SessionsTypeOK
    <2>4. Later
      BY <1>3, <2>1, <2>2 DEF Later
    <2>5. \A t \in Tokens : Live(t) => sessions[t].origin # origin
      <3>1. ~OriginUsed(bootstrap, n)
        BY <1>3, <2>1 DEF OriginUsed
      <3> QED  BY <1>8, <3>1, <1>1 DEF OriginsUsed, origin
    <2>6. \E k \in 1..MaxIssued : origin = <<"bootstrap", k>> /\ OriginUsed(bootstrap, k)'
      BY <1>4, <1>8, <2>2 DEF OriginUsed, origin
    <2>7. OriginsUsed' /\ OneSessionPerOrigin'
      BY <1>1, <1>6, <2>3, <2>4, <2>5, <2>6, SessionOpens
    <2>8. GuessesEarned'
      BY <1>1, <2>1 DEF GuessesEarned
    <2> QED  BY <2>3, <2>7, <2>8 DEF Earned
  <1> QED  BY <1>7, <1>8

\* A wrong guess is paid for by a failure that is left, or by the cooldown that has passed.
LEMMA GuessKeeps ==
  ASSUME Earned, NEW n, Guess(n)
  PROVE  Earned'
  <1>1. SessionsTypeOK /\ GuessesEarned /\ OriginsUsed /\ OneSessionPerOrigin
    BY DEF Earned
  <1>2. /\ now \in Nat /\ code.issuedAt \in Nat /\ cooldownUntil \in Nat
        /\ guesses \in Nat /\ failedAttempts \in Nat
        /\ Cooldown \in Nat \ {0} /\ MaxFailures \in Nat \ {0}
    BY <1>1, SessionConstants DEF SessionsTypeOK, PairingCodeRecord
  <1>3. /\ now >= cooldownUntil /\ ~code.used /\ guesses = failedAttempts
        /\ guesses' = guesses + 1 /\ failedAttempts' = failedAttempts + 1
        /\ cooldownUntil' = IF failedAttempts + 1 >= MaxFailures THEN now + Cooldown
                            ELSE cooldownUntil
        /\ UNCHANGED <<now, code, bootstrap, sessions, epoch>>
    BY <1>1 DEF Guess, CooldownAfter, GuessesEarned
  <1>4. SessionsTypeOK'
    BY <1>1, <1>2, <1>3 DEF SessionsTypeOK
  <1>5. GuessesEarned'
    <2>1. code.issuedAt <= now /\ cooldownUntil <= now + Cooldown
      BY <1>1 DEF GuessesEarned
    <2>2. CASE guesses + 1 < MaxFailures
      BY <1>2, <1>3, <2>1, <2>2 DEF GuessesEarned
    <2>3. CASE guesses + 1 >= MaxFailures
      <3>1. cooldownUntil' = now + Cooldown
        BY <1>3, <2>3
      <3>2. (guesses + 1) * Cooldown
              <= (MaxFailures - 1) * Cooldown + (now + Cooldown - code.issuedAt)
        <4>1. CASE guesses < MaxFailures
          <5>1. guesses + 1 = (MaxFailures - 1) + 1
            BY <1>2, <2>3, <4>1
          <5>2. ((MaxFailures - 1) + 1) * Cooldown = (MaxFailures - 1) * Cooldown + Cooldown
            BY <1>2
          <5> QED  BY <1>2, <2>1, <5>1, <5>2
        <4>2. CASE ~(guesses < MaxFailures)
          <5>1. guesses * Cooldown
                  <= (MaxFailures - 1) * Cooldown + (cooldownUntil - code.issuedAt)
            BY <1>1, <4>2 DEF GuessesEarned
          <5>2. (guesses + 1) * Cooldown = guesses * Cooldown + Cooldown
            BY <1>2
          <5>3. /\ guesses * Cooldown \in Int /\ (MaxFailures - 1) * Cooldown \in Int
                /\ cooldownUntil - code.issuedAt <= now - code.issuedAt
            BY <1>2, <1>3
          <5> QED  BY <1>2, <5>1, <5>2, <5>3
        <4> QED  BY <4>1, <4>2
      <3> QED  BY <1>2, <1>3, <2>1, <3>1, <3>2 DEF GuessesEarned
    <2> QED  BY <1>2, <2>2, <2>3
  <1>6. OriginsUsed' /\ OneSessionPerOrigin'
    BY <1>1, <1>3 DEF OriginsUsed, OriginUsed, OneSessionPerOrigin, Tokens, Live
  <1> QED  BY <1>4, <1>5, <1>6 DEF Earned

\* A moment that is near enough stays so as time goes on.
LEMMA StillWithin ==
  ASSUME NEW at \in Nat, NEW from \in Nat, NEW to \in Nat, NEW most \in Nat,
         at <= from + most, to >= from
  PROVE  at <= to + most
  OBVIOUS

\* The clock, and codes and nonces that are issued.
LEMMA IssueKeeps ==
  ASSUME Earned, TimePasses \/ IssueCode \/ IssueLocalBootstrap
  PROVE  Earned'
  <1>1. SessionsTypeOK /\ GuessesEarned /\ OriginsUsed /\ OneSessionPerOrigin
    BY DEF Earned
  <1>2. /\ now \in Nat /\ cooldownUntil \in Nat /\ guesses \in Nat
        /\ code \in PairingCodeRecord /\ bootstrap \in PairingCodeRecord
        /\ Cooldown \in Nat \ {0} /\ MaxFailures \in Nat \ {0} /\ MaxNow \in Nat
        /\ MaxIssued \in Nat
    BY <1>1, SessionConstants DEF SessionsTypeOK
  <1>3. /\ sessions' = sessions /\ epoch' = epoch /\ now' \in {now, now + 1}
        /\ code' \in {code, Reissued(code)} /\ bootstrap' \in {bootstrap, Reissued(bootstrap)}
    BY DEF TimePasses, IssueCode, IssueLocalBootstrap
  <1>4. /\ code' \in PairingCodeRecord /\ bootstrap' \in PairingCodeRecord
        /\ code'.issuedAt <= now'
    <2>1. code.id \in 1..MaxIssued /\ bootstrap.id \in 1..MaxIssued /\ code.issuedAt \in Nat
      BY <1>2 DEF PairingCodeRecord
    <2>2. /\ code.id < MaxIssued => Reissued(code) \in PairingCodeRecord
          /\ bootstrap.id < MaxIssued => Reissued(bootstrap) \in PairingCodeRecord
          /\ Reissued(code).issuedAt = now
      BY <1>2, <2>1 DEF PairingCodeRecord, Reissued
    <2>3. code.issuedAt <= now
      BY <1>1 DEF GuessesEarned
    <2>4. CASE TimePasses
      BY <1>2, <2>1, <2>3, <2>4 DEF TimePasses
    <2>5. CASE IssueCode
      BY <1>2, <2>2, <2>5 DEF IssueCode
    <2>6. CASE IssueLocalBootstrap
      BY <1>2, <2>2, <2>3, <2>6 DEF IssueLocalBootstrap
    <2> QED  BY <2>4, <2>5, <2>6
  <1>5. SessionsTypeOK'
    <2>1. /\ now' \in 0..MaxNow /\ failedAttempts' \in Nat
          /\ cooldownUntil' \in Nat /\ guesses' \in Nat
      BY <1>1, <1>2 DEF TimePasses, IssueCode, IssueLocalBootstrap, SessionsTypeOK
    <2> QED  BY <1>1, <1>3, <1>4, <2>1 DEF SessionsTypeOK
  <1>6. Later
    BY <1>2, <1>3 DEF Later, Reissued, PairingCodeRecord
  <1>7. OriginsUsed' /\ OneSessionPerOrigin'
    <2>1. Tokens' = Tokens /\ \A t \in Tokens : sessions'[t] \in {sessions[t], None}
      BY <1>3 DEF Tokens
    <2> QED  BY <1>1, <1>5, <1>6, <2>1, SessionsEnd
  <1>8. GuessesEarned'
    <2>1. CASE TimePasses \/ IssueLocalBootstrap
      <3>1. UNCHANGED <<code, failedAttempts, cooldownUntil, guesses>> /\ now' >= now
        BY <1>2, <2>1 DEF TimePasses, IssueLocalBootstrap
      <3>2. now' \in Nat
        BY <1>2, <1>3
      <3>3. cooldownUntil' <= now' + Cooldown
        <4>1. cooldownUntil <= now + Cooldown
          BY <1>1 DEF GuessesEarned
        <4>2. /\ cooldownUntil' = cooldownUntil /\ now' >= now
              /\ now \in Nat /\ Cooldown \in Nat /\ cooldownUntil \in Nat
          BY <1>2, <3>1
        <4> QED  BY <3>2, <4>1, <4>2, StillWithin
      <3>4. /\ ~code.used => guesses = failedAttempts
            /\ guesses < MaxFailures
                 \/ guesses * Cooldown
                      <= (MaxFailures - 1) * Cooldown + (cooldownUntil - code.issuedAt)
        BY <1>1 DEF GuessesEarned
      <3> QED  BY <1>4, <3>1, <3>3, <3>4 DEF GuessesEarned
    <2>2. CASE IssueCode
      BY <1>2, <1>4, <2>2 DEF IssueCode, GuessesEarned
    <2> QED  BY <2>1, <2>2
  <1> QED  BY <1>5, <1>7, <1>8 DEF Earned

\* A companion that is started again honours nothing of before.
LEMMA StartKeeps ==
  ASSUME Earned, StartedAgain
  PROVE  Earned'
  <1>1. SessionsTypeOK
    BY DEF Earned
  <1>2. /\ now' = now /\ failedAttempts' = 0 /\ cooldownUntil' = 0 /\ guesses' = 0
        /\ code' = Reissued(code) /\ bootstrap' = Reissued(bootstrap)
        /\ sessions' = [t \in Tokens |-> None] /\ epoch' = Cardinality(Tokens)
        /\ code.id < MaxIssued /\ bootstrap.id < MaxIssued
    BY DEF StartedAgain
  <1>3. PICK n \in 0..MaxIssued : Tokens = 1..n /\ NewToken = n + 1
    BY <1>1, TokensNumbered
  <1>4. Cardinality(Tokens) = n
    BY <1>3, FS_Interval, SessionConstants
  <1>5. /\ code' \in PairingCodeRecord /\ bootstrap' \in PairingCodeRecord /\ now \in Nat
        /\ code'.issuedAt = now
    BY <1>1, <1>2, SessionConstants DEF SessionsTypeOK, PairingCodeRecord, Reissued
  <1>6. SessionsTypeOK'
    <2>1. sessions' \in [1..n -> SessionRecord \cup {None}]
      BY <1>2, <1>3
    <2> QED  BY <1>1, <1>2, <1>4, <1>5, <2>1 DEF SessionsTypeOK
  <1>7. \A t \in Tokens' : ~Live(t)'
    BY <1>2 DEF Tokens, Live
  <1>8. OriginsUsed' /\ OneSessionPerOrigin'
    BY <1>7 DEF OriginsUsed, OneSessionPerOrigin
  <1>9. GuessesEarned'
    BY <1>2, <1>5, SessionConstants DEF GuessesEarned
  <1> QED  BY <1>6, <1>8, <1>9 DEF Earned

-----------------------------------------------------------------------------
(* Theorems.                                                               *)

\* At first a code and a nonce are issued, and nothing else.
LEMMA EarnedInit ==
  ASSUME BrowserInit
  PROVE  Earned
  <1>1. SessionsInit
    BY DEF BrowserInit
  <1>2. sessions \in [1..0 -> SessionRecord \cup {None}] /\ Tokens = {}
    BY <1>1 DEF SessionsInit, Tokens
  <1>3. 0 \in 0..MaxIssued /\ 0 \in 0..MaxNow /\ 1 \in 1..MaxIssued
    BY SessionConstants
  <1>4. SessionsTypeOK
    BY <1>1, <1>2, <1>3 DEF SessionsInit, SessionsTypeOK, PairingCodeRecord
  <1>5. GuessesEarned
    BY <1>1, SessionConstants DEF SessionsInit, GuessesEarned
  <1> QED  BY <1>2, <1>4, <1>5 DEF Earned, OriginsUsed, OneSessionPerOrigin

\* Every step of a page, of other pages and of the companion keeps the invariant.
LEMMA EarnedStep ==
  ASSUME Earned, [BrowserNext]_browserVars
  PROVE  Earned'
  <1>1. ASSUME UNCHANGED pairingVars PROVE Earned'
    BY <1>1 DEF Earned, pairingVars, SessionsTypeOK, GuessesEarned, OriginsUsed, OriginUsed,
                OneSessionPerOrigin, Tokens, Live
  <1>2. CASE Connect \/ RotationDue \/ Disconnect \/ (\E n \in 1..MaxIssued : Pair(n))
    <2>1. UNCHANGED pairingVars
      BY <1>2 DEF Connect, RotationDue, Disconnect, Pair, Start, pairingVars
    <2> QED  BY <1>1, <2>1
  <1>3. ASSUME NEW f \in flows, Serve(f) PROVE Earned'
    <2>1. \/ UNCHANGED pairingVars
          \/ Exchange(f.token, Page) \/ ExchangeLocalBootstrap(f.token, Page)
          \/ Guess(f.token)
          \/ Valid(f.token, Page) /\ NewToken <= MaxIssued /\ UseSessions(Rotated(f.token))
          \/ UseSessions(Revoked(f.token)) \/ UseSessions(Validated(f.token))
      BY <1>3 DEF Serve
    <2>2. Valid(f.token, Page) => Live(f.token)
      BY DEF Valid
    <2> QED  BY <1>1, <2>1, <2>2, ExchangeKeeps, GuessKeeps, RotateKeeps, UseKeeps, BrowserConstants
  <1>4. ASSUME NEW f \in flows, Fail(f) \/ Receive(f) PROVE Earned'
    <2>1. UNCHANGED pairingVars
      BY <1>4 DEF Fail, Receive, pairingVars
    <2> QED  BY <1>1, <2>1
  <1>5. CASE World
    <2>1. CASE TimePasses \/ IssueCode \/ IssueLocalBootstrap
      BY <2>1, IssueKeeps
    <2>2. ASSUME NEW b \in Browsers,
                 Exchange(code.id, b) \/ ExchangeLocalBootstrap(bootstrap.id, b)
          PROVE  Earned'
      BY <2>2, ExchangeKeeps
    <2>3. ASSUME NEW t \in Tokens, Live(t),
                 UseSessions(Revoked(t)) \/ (NewToken <= MaxIssued /\ UseSessions(Rotated(t)))
          PROVE  Earned'
      BY <2>3, UseKeeps, RotateKeeps
    <2> QED  BY <1>5, <2>1, <2>2, <2>3 DEF World
  <1>6. CASE CompanionStops
    BY <1>1, <1>6 DEF CompanionStops, pairingVars
  <1>7. CASE CompanionStarts
    BY <1>7, StartKeeps DEF CompanionStarts
  <1>8. CASE UNCHANGED browserVars
    BY <1>1, <1>8 DEF browserVars, pairingVars
  <1> QED  BY <1>2, <1>3, <1>4, <1>5, <1>6, <1>7, <1>8 DEF BrowserNext

\* Codes, nonces, sessions and the clock keep their types.
THEOREM TypeCorrect == BrowserSpec => []SessionsTypeOK
  <1>1. Earned => SessionsTypeOK
    BY DEF Earned
  <1> QED  BY <1>1, EarnedInit, EarnedStep, PTL DEF BrowserSpec

\* Whatever pages exchange, rotate and revoke, and however often the companion is started, a code
\* or a nonce never has two sessions at once.
THEOREM OneSessionEach == BrowserSpec => []OneSessionPerOrigin
  <1>1. Earned => OneSessionPerOrigin
    BY DEF Earned
  <1> QED  BY <1>1, EarnedInit, EarnedStep, PTL DEF BrowserSpec

\* What the invariant says of the guesses.
LEMMA EarnedGuesses ==
  ASSUME Earned
  PROVE  GuessesBounded
  <1>1. /\ now \in Nat /\ code.issuedAt \in Nat /\ cooldownUntil \in Nat /\ guesses \in Nat
        /\ Cooldown \in Nat \ {0} /\ MaxFailures \in Nat \ {0}
    BY SessionConstants DEF Earned, SessionsTypeOK, PairingCodeRecord
  <1>2. code.issuedAt <= now /\ cooldownUntil <= now + Cooldown
    BY DEF Earned, GuessesEarned
  <1>3. CASE guesses < MaxFailures
    <2>1. guesses * Cooldown <= MaxFailures * Cooldown
      BY <1>1, <1>3
    <2>2. guesses * Cooldown \in Int /\ MaxFailures * Cooldown \in Int
      BY <1>1
    <2> QED  BY <1>1, <1>2, <2>1, <2>2 DEF GuessesBounded
  <1>4. CASE ~(guesses < MaxFailures)
    <2>1. guesses * Cooldown <= (MaxFailures - 1) * Cooldown + (cooldownUntil - code.issuedAt)
      BY <1>4 DEF Earned, GuessesEarned
    <2>2. MaxFailures * Cooldown = (MaxFailures - 1) * Cooldown + Cooldown
      BY <1>1
    <2>3. guesses * Cooldown \in Int /\ (MaxFailures - 1) * Cooldown \in Int
      BY <1>1
    <2> QED  BY <1>1, <1>2, <2>1, <2>2, <2>3 DEF GuessesBounded
  <1> QED  BY <1>3, <1>4

\* A code is compared with no more wrong guesses than MaxFailures and one for every cooldown
\* that has passed, for any lengths of time.
THEOREM GuessesAreFew == BrowserSpec => []GuessesBounded
  BY EarnedGuesses, EarnedInit, EarnedStep, PTL DEF BrowserSpec

-----------------------------------------------------------------------------
(* The session of a page.                                                  *)

\* A token of the page: its session is the page's and ends when the page takes it to, and it
\* is honoured until then, or until the companion is started again.
Known(t, expiresAt) == t \in Tokens /\ (Live(t) => sessions[t].browser = Page /\ sessions[t].expiresAt = expiresAt)
Honoured(t, expiresAt) == Known(t, expiresAt) /\ (Live(t) \/ t <= epoch \/ now >= expiresAt)

\* A handler that has been given a session, and may still take it over.
Gained(f) == \/ f.awaits \in {"bootstrap", "exchange", "rotate"} /\ f.answer = "ok"
             \/ f.awaits = "status" /\ f.answer \in {None, "ok"}
Uses(f) == f.op \in {"rotate", "disconnect"}

\* A handler that makes up for a session that the page shows and that has ended.
Replaces(f) == f.op = "rotate" \/ (f.op = "disconnect" /\ f.answer = "ok")

Fits(f) == /\ f.awaits = "rotate" => f.op = "rotate"
           /\ f.op = "rotate" => f.awaits \in {"rotate", "status"}
           /\ f.op = "disconnect" <=> f.awaits = "revoke"
FlowsFit == \A f \in flows : Fits(f)
FlowsHonoured == \A f \in flows :
  /\ Gained(f) => Honoured(f.token, f.expiresAt)
  /\ Uses(f) => f.token \in Tokens
PageHonoured ==
  /\ page.token # None => page.token \in Tokens
  /\ page.state = "connected" =>
       /\ page.token # None /\ Known(page.token, page.expiresAt)
       /\ Honoured(page.token, page.expiresAt) \/ \E f \in flows : Replaces(f)

\* A session that a handler was given is in no other hands.
GainedOnce == \A f \in flows : Gained(f) =>
  f.token # page.token /\ \A g \in flows : g # f /\ (Gained(g) \/ Uses(g)) => g.token # f.token

\* The tokens of a companion that has ended are of those issued.
EpochIssued == epoch = 0 \/ epoch \in Tokens

\* The inductive invariant.
Served == BrowserTypeOK /\ EpochIssued /\ FlowsFit /\ FlowsHonoured /\ PageHonoured /\ GainedOnce

\* What a step does to sessions: those of K are ended, beside those that expired, that other
\* pages had, and that a companion had that is started again.
SessionsChange(K) ==
  /\ Tokens \subseteq Tokens' /\ now <= now' /\ epoch <= epoch'
  /\ epoch' = epoch \/ epoch' \in Tokens'
  /\ \A t \in Tokens : Live(t)' => Live(t) /\ sessions'[t] = sessions[t]
  /\ \A t \in Tokens : Live(t) /\ ~Live(t)' =>
       t \in K \/ t <= epoch' \/ sessions[t].browser # Page \/ now >= sessions[t].expiresAt

LEMMA HonouredStays ==
  ASSUME Earned, Earned', NEW K, SessionsChange(K), NEW t, NEW at \in Nat
  PROVE  /\ t \in Tokens => t \in Tokens'
         /\ Known(t, at) => Known(t, at)'
         /\ Honoured(t, at) /\ t \notin K => Honoured(t, at)'
  <1>1. now \in Nat /\ now' \in Nat /\ epoch \in Nat /\ epoch' \in Nat
    BY SessionConstants DEF Earned, SessionsTypeOK
  <1>2. t \in Tokens => t \in Nat
    BY TokensNumbered DEF Earned
  <1>3. t \in Tokens => t \in Tokens'
    BY DEF SessionsChange
  <1>4. Known(t, at) => Known(t, at)'
    BY <1>3 DEF Known, SessionsChange
  <1>5. Honoured(t, at) /\ t \notin K => Honoured(t, at)'
    BY <1>1, <1>2, <1>4 DEF Honoured, Known, SessionsChange
  <1> QED BY <1>3, <1>4, <1>5

\* The sessions as they are but for those of K.
LEMMA ChangeByEnding ==
  ASSUME Earned, Earned', NEW K, Tokens' = Tokens, \A t \in Tokens : t \in K \/ sessions'[t] = sessions[t],
         \A t \in Tokens : sessions'[t] \in {None, sessions[t]}, now' >= now, epoch' = epoch
  PROVE  SessionsChange(K)
  <1>1. now \in Nat /\ now' \in Nat /\ epoch \in Nat
    BY SessionConstants DEF Earned, SessionsTypeOK
  <1> QED BY <1>1 DEF SessionsChange, Live

LEMMA ValidatedChange ==
  ASSUME Earned, Earned', NEW t, UseSessions(Validated(t))
  PROVE  SessionsChange({})
  <1>1. now \in Nat /\ epoch \in Nat
    BY SessionConstants DEF Earned, SessionsTypeOK
  <1>2. Tokens' = Tokens /\ \A u \in Tokens : sessions'[u] = IF u = t /\ Live(t) /\ now >= sessions[t].expiresAt THEN None ELSE sessions[u]
    BY DEF UseSessions, Validated, Tokens, Earned, SessionsTypeOK
  <1>3. now' = now /\ epoch' = epoch
    BY DEF UseSessions
  <1> QED BY <1>1, <1>2, <1>3 DEF SessionsChange, Live

LEMMA RevokedChange ==
  ASSUME Earned, Earned', NEW t, UseSessions(Revoked(t))
  PROVE  SessionsChange({t})
  <1>1. now \in Nat /\ now' = now /\ epoch' = epoch
    BY SessionConstants DEF Earned, SessionsTypeOK, UseSessions
  <1>2. Tokens' = Tokens /\ \A u \in Tokens : sessions'[u] = IF u = t THEN None ELSE sessions[u]
    BY DEF UseSessions, Revoked, Tokens, Earned, SessionsTypeOK
  <1> QED BY <1>1, <1>2, ChangeByEnding

\* A session of page b is opened, in the place of that of token t or of none.
LEMMA OpenedChange ==
  ASSUME Earned, Earned', NEW origin \in {"code", "bootstrap"} \X (1..MaxIssued), NEW b \in Browsers, NEW K,
         NewToken <= MaxIssued, K \subseteq Tokens,
         sessions' = [u \in DOMAIN Opened(origin, b) |-> IF u \in K THEN None ELSE Opened(origin, b)[u]],
         now' = now, epoch' = epoch
  PROVE  /\ SessionsChange(K) /\ NewToken \notin Tokens /\ NewToken \in Nat
         /\ NewToken \in Tokens' /\ sessions'[NewToken] # None
         /\ sessions'[NewToken].browser = b /\ sessions'[NewToken].expiresAt = now + SessionTtl
  <1>1. /\ DOMAIN Opened(origin, b) = Tokens \cup {NewToken} /\ NewToken \notin Tokens
        /\ \A t \in Tokens : Opened(origin, b)[t] = sessions[t]
    BY OpenedTyped DEF Earned
  <1>2. now \in Nat /\ epoch \in Nat /\ NewToken \in Nat
    BY TokensNumbered, SessionConstants DEF Earned, SessionsTypeOK
  <1>3. NewToken \in DOMAIN Opened(origin, b) /\ DOMAIN Opened(origin, b) = 1..NewToken
    BY <1>1 DEF Opened
  <1>4. Opened(origin, b)[NewToken] = [browser |-> b, expiresAt |-> now + SessionTtl, origin |-> origin]
    BY <1>3 DEF Opened
  <1> DEFINE opened == Opened(origin, b)
  <1>5. DOMAIN sessions' = Tokens \cup {NewToken} /\ \A u \in Tokens \cup {NewToken} : sessions'[u] = IF u \in K THEN None ELSE opened[u]
    BY <1>1
  <1> HIDE DEF opened
  <1>6. Tokens' = Tokens \cup {NewToken}
    BY <1>5 DEF Tokens
  <1>7. sessions'[NewToken] = [browser |-> b, expiresAt |-> now + SessionTtl, origin |-> origin]
    BY <1>1, <1>4, <1>5 DEF opened
  <1>8. sessions'[NewToken] # None
    <2>1. [browser |-> b, expiresAt |-> now + SessionTtl, origin |-> origin] \in SessionRecord
      BY <1>2, SessionConstants DEF SessionRecord
    <2> QED BY <1>7, <2>1, BrowserConstants
  <1>9. \A t \in Tokens : sessions'[t] = IF t \in K THEN None ELSE sessions[t]
    BY <1>1, <1>5 DEF opened
  <1>10. SessionsChange(K)
    BY <1>2, <1>6, <1>9 DEF SessionsChange, Live
  <1> QED BY <1>1, <1>2, <1>6, <1>7, <1>8, <1>10

LEMMA ServedTyped ==
  ASSUME Served
  PROVE  /\ flows \subseteq Flow /\ page \in PageState
         /\ \A f \in flows : f.token \in Nat /\ f.expiresAt \in Nat
         /\ page.expiresAt \in Nat
  BY DEF Served, BrowserTypeOK, Flow, PageState

\* A handler f goes on as g, with its own token or with one that was not there.
LEMMA ReplaceKeeps ==
  ASSUME Earned, Earned', Served, NEW K, SessionsChange(K), NEW f \in flows, NEW g \in Flow,
         flows' = (flows \ {f}) \cup {g}, up' \in BOOLEAN,
         page' \in PageState, page'.state = page.state, page'.token = page.token, page'.expiresAt = page.expiresAt,
         Fits(g), Replaces(f) => Replaces(g), Uses(g) => Uses(f),
         K = {} \/ (K = {f.token} /\ Uses(f) /\ Replaces(g)),
         \/ g.token = f.token /\ (Gained(g) => Gained(f) /\ g.expiresAt = f.expiresAt /\ K = {})
         \/ g.token \notin Tokens /\ g.token \in Tokens' /\ Honoured(g.token, g.expiresAt)'
         \/ ~Gained(g) /\ ~Uses(g)
  PROVE  Served'
  <1>1. /\ \A h \in flows : h.token \in Nat /\ h.expiresAt \in Nat
        /\ page.expiresAt \in Nat
    BY ServedTyped
  <1>2. \A t : t \in Tokens => t \in Tokens'
    BY DEF SessionsChange
  <1>3. \A h \in flows : Gained(h) => h.token \in Tokens
    BY DEF Served, FlowsHonoured, Honoured, Known
  <1>4. BrowserTypeOK' /\ EpochIssued'
    BY DEF Served, BrowserTypeOK, Earned, EpochIssued, SessionsChange
  <1>5. FlowsFit'
    BY DEF Served, FlowsFit, Fits
  <1>6. \A h \in flows \ {f} : Gained(h) => h.token \notin K
    BY DEF Served, GainedOnce
  <1>7. FlowsHonoured'
    <2>1. ASSUME NEW h \in flows \ {f} PROVE (Gained(h) => Honoured(h.token, h.expiresAt)') /\ (Uses(h) => h.token \in Tokens')
      BY <1>1, <1>2, <1>6, HonouredStays DEF Served, FlowsHonoured
    <2>2. (Gained(g) => Honoured(g.token, g.expiresAt)') /\ (Uses(g) => g.token \in Tokens')
      BY <1>1, <1>2, HonouredStays DEF Served, FlowsHonoured
    <2> QED BY <2>1, <2>2 DEF FlowsHonoured, Gained, Uses, Honoured, Known
  <1>8. PageHonoured'
    <2>1. page.token # None => page'.token \in Tokens'
      BY <1>2 DEF Served, PageHonoured
    <2>2. PICK t, at : t = page.token /\ at = page.expiresAt
      OBVIOUS
    <2>3. at \in Nat
      BY <1>1, <2>2
    <2>4. ASSUME page.state = "connected"
          PROVE  /\ Known(t, at)'
                 /\ Honoured(t, at)' \/ \E h \in flows' : Replaces(h)
      <3>1. Known(t, at) /\ (Honoured(t, at) \/ \E h \in flows : Replaces(h))
        BY <2>2, <2>4 DEF Served, PageHonoured
      <3>2. Known(t, at)' /\ (Honoured(t, at) /\ t \notin K => Honoured(t, at)')
        BY <2>3, <3>1, HonouredStays
      <3>3. t \in K \/ (\E h \in flows : Replaces(h)) => \E h \in flows' : Replaces(h)
        OBVIOUS
      <3> QED BY <3>1, <3>2, <3>3
    <2>5. t = page'.token /\ at = page'.expiresAt
      BY <2>2
    <2>6. PageHonoured' <=> /\ t # None => t \in Tokens'
                            /\ page'.state = "connected" =>
                                 /\ t # None /\ Known(t, at)'
                                 /\ Honoured(t, at)' \/ \E h \in flows' : Replaces(h)
      BY <2>5 DEF PageHonoured, Replaces, Known, Honoured, Live, Tokens
    <2> QED BY <2>1, <2>2, <2>4, <2>6 DEF Served, PageHonoured
  <1>9. GainedOnce'
    <2>1. ASSUME NEW h \in flows', Gained(h)
          PROVE  h.token # page.token
      <3>1. page.token # None => page.token \in Tokens
        BY DEF Served, PageHonoured
      <3>2. CASE h \in flows
        BY <2>1, <3>2 DEF Served, GainedOnce
      <3>3. CASE h = g
        <4>1. g.token \in Nat
          BY DEF Flow
        <4>2. Gained(f) => f.token # page.token
          BY DEF Served, GainedOnce
        <4> QED BY <2>1, <3>1, <3>3, <4>1, <4>2, BrowserConstants
      <3> QED BY <2>1, <3>2, <3>3
    <2>2. ASSUME NEW h \in flows \ {f}, Gained(h), Gained(g) \/ Uses(g)
          PROVE  g.token # h.token
      BY <1>3, <2>2 DEF Served, GainedOnce
    <2>3. ASSUME NEW h \in flows \ {f}, Gained(g), Uses(h)
          PROVE  g.token # h.token
      BY <2>3 DEF Served, GainedOnce, FlowsHonoured
    <2>4. \A h \in flows \ {f} : \A i \in flows \ {f} : Gained(h) /\ h # i /\ (Gained(i) \/ Uses(i)) => i.token # h.token
      BY DEF Served, GainedOnce
    <2> QED BY <2>1, <2>2, <2>3, <2>4 DEF GainedOnce, Gained, Uses
  <1> QED BY <1>4, <1>5, <1>7, <1>8, <1>9 DEF Served

\* The handlers there are, the sessions as they are: one that leaves, and what the page becomes.
LEMMA LeaveKeeps ==
  ASSUME Earned, Served, NEW f \in flows, flows' = flows \ {f}, UNCHANGED <<pairingVars, up>>,
         page' \in PageState,
         \/ page'.state # "connected" /\ page'.token \in {page.token, None}
         \/ page'.state = page.state /\ page'.token = page.token /\ page'.expiresAt = page.expiresAt /\ ~Replaces(f)
         \/ Gained(f) /\ page'.token = f.token /\ page'.expiresAt = f.expiresAt
  PROVE  Served'
  <1>1. Tokens' = Tokens /\ \A t, at : (Known(t, at) <=> Known(t, at)') /\ (Honoured(t, at) <=> Honoured(t, at)')
    BY DEF pairingVars, Tokens, Known, Honoured, Live
  <1>2. BrowserTypeOK' /\ EpochIssued'
    BY DEF Served, BrowserTypeOK, pairingVars, SessionsTypeOK, EpochIssued, Tokens
  <1>3. FlowsFit'
    BY DEF Served, FlowsFit, Fits
  <1>4. FlowsHonoured'
    <2>1. \A h \in flows' : (Gained(h) => Honoured(h.token, h.expiresAt)) /\ (Uses(h) => h.token \in Tokens)
      BY DEF Served, FlowsHonoured
    <2> QED BY <1>1, <2>1 DEF FlowsHonoured, Gained, Uses, pairingVars, Tokens, Known, Honoured, Live
  <1>5. PageHonoured'
    <2>1. page'.token # None => page'.token \in Tokens
      BY DEF Served, PageHonoured, FlowsHonoured, Honoured, Known
    <2>2. ASSUME page'.state = "connected"
          PROVE  /\ page'.token # None /\ Known(page'.token, page'.expiresAt)
                 /\ Honoured(page'.token, page'.expiresAt) \/ \E h \in flows' : Replaces(h)
      <3>1. CASE page'.state = page.state /\ page'.token = page.token /\ page'.expiresAt = page.expiresAt /\ ~Replaces(f)
        BY <2>2, <3>1 DEF Served, PageHonoured
      <3>2. CASE Gained(f) /\ page'.token = f.token /\ page'.expiresAt = f.expiresAt
        BY <3>2, ServedTyped, BrowserConstants DEF Served, FlowsHonoured, Honoured
      <3> QED BY <2>2, <3>1, <3>2
    <2> QED BY <1>1, <2>1, <2>2 DEF PageHonoured, Replaces, pairingVars, Tokens, Known, Honoured, Live
  <1>6. GainedOnce'
    <2>1. \A h \in flows' : Gained(h) => h.token # page'.token
      BY ServedTyped, BrowserConstants DEF Served, GainedOnce, PageHonoured
    <2> QED BY <2>1 DEF Served, GainedOnce, Gained, Uses
  <1> QED BY <1>2, <1>3, <1>4, <1>5, <1>6 DEF Served

\* A request more.
LEMMA StartsKeep ==
  ASSUME Earned, Served, NEW f \in Flow, NEW p \in PageState, Start(f, p), Fits(f), ~Gained(f),
         Uses(f) => page.token # None /\ f.token = page.token,
         p.state = page.state, p.token = page.token, p.expiresAt = page.expiresAt
  PROVE  Served'
  <1>1. Tokens' = Tokens /\ page' = p /\ flows' = flows \cup {f} /\ UNCHANGED <<pairingVars, up>>
    BY DEF Start, pairingVars, Tokens
  <1>2. BrowserTypeOK' /\ EpochIssued'
    BY <1>1 DEF Served, BrowserTypeOK, pairingVars, SessionsTypeOK, EpochIssued, Tokens
  <1>3. FlowsFit'
    BY <1>1 DEF Served, FlowsFit, Fits
  <1>4. FlowsHonoured'
    <2>1. \A h \in flows' : (Gained(h) => Honoured(h.token, h.expiresAt)) /\ (Uses(h) => h.token \in Tokens)
      BY <1>1 DEF Served, FlowsHonoured, PageHonoured
    <2> QED BY <1>1, <2>1 DEF FlowsHonoured, Gained, Uses, pairingVars, Tokens, Known, Honoured, Live
  <1>5. PageHonoured'
    BY <1>1 DEF Served, PageHonoured, Replaces, pairingVars, Tokens, Known, Honoured, Live
  <1>6. GainedOnce'
    BY <1>1 DEF Served, GainedOnce, Gained, Uses
  <1> QED BY <1>2, <1>3, <1>4, <1>5, <1>6 DEF Served

LEMMA SameChange ==
  ASSUME Earned, UNCHANGED pairingVars
  PROVE  SessionsChange({})
  <1>1. now \in Nat /\ epoch \in Nat
    BY SessionConstants DEF Earned, SessionsTypeOK
  <1> QED BY <1>1 DEF SessionsChange, pairingVars, Tokens, Live

\* A session is opened for code or nonce n.
LEMMA ExchangeChange ==
  ASSUME Earned, Earned', NEW n, NEW b \in Browsers, Exchange(n, b) \/ ExchangeLocalBootstrap(n, b)
  PROVE  /\ SessionsChange({}) /\ NewToken \notin Tokens /\ NewToken \in Nat /\ NewToken \in Tokens'
         /\ sessions'[NewToken] # None /\ sessions'[NewToken].browser = b
         /\ sessions'[NewToken].expiresAt = now + SessionTtl
  <1>1. PICK kind \in {"code", "bootstrap"} :
          /\ NewToken <= MaxIssued /\ sessions' = Opened(<<kind, n>>, b)
          /\ kind = "code" => code.id = n
          /\ kind = "bootstrap" => bootstrap.id = n
    BY DEF Exchange, ExchangeLocalBootstrap, Accepted
  <1>2. now' = now /\ epoch' = epoch
    BY DEF Exchange, ExchangeLocalBootstrap
  <1>3. code.id \in 1..MaxIssued /\ bootstrap.id \in 1..MaxIssued
    BY DEF Earned, SessionsTypeOK, PairingCodeRecord
  <1>4. <<kind, n>> \in {"code", "bootstrap"} \X (1..MaxIssued)
    BY <1>1, <1>3
  <1> DEFINE origin == <<kind, n>>
  <1>5. sessions' = Opened(origin, b) /\ origin \in {"code", "bootstrap"} \X (1..MaxIssued)
    BY <1>1, <1>4
  <1> HIDE DEF origin
  <1>6. sessions' = [u \in DOMAIN Opened(origin, b) |-> IF u \in {} THEN None ELSE Opened(origin, b)[u]]
    BY <1>5 DEF Opened
  <1> QED BY <1>1, <1>2, <1>5, <1>6, OpenedChange

\* The session of token t gives way to another.
LEMMA RotatedChange ==
  ASSUME Earned, Earned', NEW t, Live(t), NewToken <= MaxIssued, UseSessions(Rotated(t))
  PROVE  /\ SessionsChange({t}) /\ NewToken \notin Tokens /\ NewToken \in Nat /\ NewToken \in Tokens'
         /\ sessions'[NewToken] # None /\ sessions'[NewToken].browser = sessions[t].browser
         /\ sessions'[NewToken].expiresAt = now + SessionTtl
  <1>1. t \in Tokens /\ sessions[t] \in SessionRecord
    BY DEF Earned, SessionsTypeOK, Live, Tokens
  <1> DEFINE origin == sessions[t].origin
             b == sessions[t].browser
  <1>2. origin \in {"code", "bootstrap"} \X (1..MaxIssued) /\ b \in Browsers
    BY <1>1 DEF SessionRecord
  <1>3. sessions' = [Opened(origin, b) EXCEPT ![t] = None] /\ now' = now /\ epoch' = epoch
    BY DEF UseSessions, Rotated
  <1>4. sessions' = [u \in DOMAIN Opened(origin, b) |-> IF u \in {t} THEN None ELSE Opened(origin, b)[u]]
    BY <1>3 DEF Opened
  <1>5. {t} \subseteq Tokens
    BY <1>1
  <1> HIDE DEF origin, b
  <1>6. /\ SessionsChange({t}) /\ NewToken \notin Tokens /\ NewToken \in Nat /\ NewToken \in Tokens'
        /\ sessions'[NewToken] # None /\ sessions'[NewToken].browser = b
        /\ sessions'[NewToken].expiresAt = now + SessionTtl
    BY <1>2, <1>3, <1>4, <1>5, OpenedChange
  <1> QED BY <1>6 DEF b

LEMMA NewHonoured ==
  ASSUME NEW t, t \in Tokens', sessions'[t] # None, sessions'[t].browser = Page, NEW at, sessions'[t].expiresAt = at
  PROVE  Honoured(t, at)'
  BY DEF Honoured, Known, Live, Tokens

\* An answer of the companion.
LEMMA AnswerTyped ==
  ASSUME Earned, Served, NEW f \in flows, NEW answer \in {"ok", "refused", "failed"}, NEW t \in Nat
  PROVE  [f EXCEPT !.answer = answer, !.token = t, !.expiresAt = now + SessionTtl] \in Flow
  <1>1. f \in Flow /\ now + SessionTtl \in Nat
    BY ServedTyped, SessionConstants DEF Earned, SessionsTypeOK
  <1> QED BY <1>1 DEF Flow

LEMMA ServeKeeps ==
  ASSUME Earned, Earned', Served, NEW f \in flows, Serve(f)
  PROVE  Served'
  <1>1. /\ f \in Flow /\ f.answer = None /\ Fits(f) /\ page \in PageState /\ up \in BOOLEAN
        /\ Uses(f) => f.token \in Tokens
    BY ServedTyped DEF Serve, Served, FlowsFit, BrowserTypeOK, FlowsHonoured
  <1>2. up' = up /\ page' = page
    BY DEF Serve, Answer
  <1> DEFINE answered(answer, t) == [f EXCEPT !.answer = answer, !.token = t, !.expiresAt = now + SessionTtl]
  <1>3. ASSUME NEW answer \in {"ok", "refused", "failed"}, NEW t \in Nat
        PROVE  /\ answered(answer, t) \in Flow /\ Fits(answered(answer, t))
               /\ answered(answer, t).op = f.op /\ answered(answer, t).awaits = f.awaits
               /\ answered(answer, t).answer = answer
               /\ answered(answer, t).token = t /\ answered(answer, t).expiresAt = now + SessionTtl
    <2>1. answered(answer, t) \in Flow
      BY <1>3, AnswerTyped
    <2>2. /\ answered(answer, t).op = f.op /\ answered(answer, t).awaits = f.awaits
          /\ answered(answer, t).answer = answer
          /\ answered(answer, t).token = t /\ answered(answer, t).expiresAt = now + SessionTtl
      BY <1>1 DEF Flow
    <2> QED BY <1>1, <2>1, <2>2 DEF Fits
  <1>4. ASSUME SessionsChange({}), NEW answer \in {"ok", "refused"}, Answer(f, answer, f.token),
               answer = "ok" => f.awaits = "identity"
        PROVE  Served'
    <2>1. flows' = (flows \ {f}) \cup {answered(answer, f.token)}
      BY <1>4 DEF Answer
    <2>2. PICK g : g = answered(answer, f.token)
      OBVIOUS
    <2>3. /\ g \in Flow /\ Fits(g) /\ g.op = f.op /\ g.token = f.token /\ g.awaits = f.awaits
          /\ g.answer = answer
      BY <1>1, <1>3, <2>2 DEF Flow
    <2>4. ~Gained(g)
      BY <1>4, <2>3, BrowserConstants DEF Gained
    <2>5. Replaces(f) => Replaces(g)
      BY <1>1, <2>3, BrowserConstants DEF Replaces
    <2>6. flows' = (flows \ {f}) \cup {g}
      BY <2>1, <2>2
    <2> HIDE DEF answered
    <2> QED BY <1>1, <1>2, <1>4, <2>3, <2>4, <2>5, <2>6, ReplaceKeeps DEF Uses
  <1>5. ASSUME NEW K, K = {} \/ K = {f.token}, K # {} => f.op = "rotate", SessionsChange(K),
               f.awaits \in {"bootstrap", "exchange", "rotate"}, Answer(f, "ok", NewToken),
               NewToken \notin Tokens, NewToken \in Nat, NewToken \in Tokens',
               sessions'[NewToken] # None, sessions'[NewToken].browser = Page,
               sessions'[NewToken].expiresAt = now + SessionTtl
        PROVE  Served'
    <2>1. PICK g, new, at : /\ g = answered("ok", NewToken) /\ new = NewToken /\ at = now + SessionTtl
      OBVIOUS
    <2>2. flows' = (flows \ {f}) \cup {g}
      BY <1>5, <2>1 DEF Answer
    <2>3. /\ g \in Flow /\ Fits(g) /\ g.op = f.op /\ g.token = new /\ g.expiresAt = at
      BY <1>3, <1>5, <2>1
    <2>4. new \notin Tokens /\ new \in Tokens' /\ Honoured(new, at)'
      BY <1>5, <2>1, NewHonoured
    <2>5. Replaces(f) => Replaces(g)
      BY <1>1, <2>3, BrowserConstants DEF Replaces
    <2> HIDE DEF answered
    <2>6. K = {} \/ (K = {f.token} /\ Uses(f) /\ Replaces(g))
      BY <1>5, <2>3 DEF Uses, Replaces
    <2> QED BY <1>1, <1>2, <1>5, <2>2, <2>3, <2>4, <2>5, <2>6, ReplaceKeeps DEF Uses
  <1>6. ASSUME f.awaits = "identity", UNCHANGED pairingVars, Answer(f, "ok", f.token) PROVE Served'
    BY <1>4, <1>6, SameChange
  <1>7. ASSUME UNCHANGED pairingVars \/ Guess(f.token), Answer(f, "refused", f.token) PROVE Served'
    <2>1. SessionsChange({})
      <3>1. CASE Guess(f.token)
        <4>1. UNCHANGED <<now, sessions, epoch>> /\ now \in Nat /\ epoch \in Nat
          BY <3>1, SessionConstants DEF Guess, Earned, SessionsTypeOK
        <4> QED BY <4>1 DEF SessionsChange, Tokens, Live
      <3> QED BY <1>7, <3>1, SameChange
    <2> QED BY <1>4, <1>7, <2>1
  <1>8. ASSUME f.awaits \in {"bootstrap", "exchange"}, Answer(f, "ok", NewToken),
               Exchange(f.token, Page) \/ ExchangeLocalBootstrap(f.token, Page)
        PROVE  Served'
    BY <1>5, <1>8, ExchangeChange, BrowserConstants
  <1>9. ASSUME f.awaits = "rotate", Valid(f.token, Page), NewToken <= MaxIssued,
               UseSessions(Rotated(f.token)), Answer(f, "ok", NewToken)
        PROVE  Served'
    <2>1. Live(f.token) /\ sessions[f.token].browser = Page /\ f.op = "rotate"
      BY <1>1, <1>9 DEF Valid, Fits
    <2> QED BY <1>5, <1>9, <2>1, RotatedChange
  <1>10. ASSUME f.awaits = "revoke", UseSessions(Revoked(f.token)), Answer(f, "ok", f.token)
         PROVE  Served'
    <2>1. PICK g : g = answered("ok", f.token)
      OBVIOUS
    <2>2. flows' = (flows \ {f}) \cup {g}
      BY <1>10, <2>1 DEF Answer
    <2>3. /\ g \in Flow /\ Fits(g) /\ g.op = f.op /\ g.token = f.token /\ g.awaits = "revoke" /\ g.answer = "ok"
      BY <1>1, <1>3, <1>10, <2>1 DEF Flow
    <2>4. f.op = "disconnect" /\ Replaces(g) /\ Uses(f) /\ ~Gained(g)
      BY <1>1, <1>10, <2>3 DEF Replaces, Uses, Fits, Gained
    <2>5. SessionsChange({f.token})
      BY <1>10, RevokedChange
    <2> HIDE DEF answered
    <2> QED BY <1>1, <1>2, <2>2, <2>3, <2>4, <2>5, ReplaceKeeps DEF Uses
  <1>11. ASSUME f.awaits = "status", UNCHANGED pairingVars, flows' = (flows \ {f}) \cup {[f EXCEPT !.answer = "ok"]}
         PROVE  Served'
    <2>1. PICK g : g = [f EXCEPT !.answer = "ok"]
      OBVIOUS
    <2>2. g \in Flow /\ Fits(g) /\ g.op = f.op /\ g.token = f.token /\ g.expiresAt = f.expiresAt
      BY <1>1, <2>1 DEF Flow, Fits
    <2>3. Gained(f) /\ SessionsChange({})
      BY <1>1, <1>11, SameChange DEF Gained
    <2>4. Replaces(f) => Replaces(g)
      BY <1>1, <2>2, BrowserConstants DEF Replaces
    <2> QED BY <1>1, <1>2, <1>11, <2>1, <2>2, <2>3, <2>4, ReplaceKeeps DEF Uses
  <1>12. ASSUME UseSessions(Validated(f.token)), Answer(f, "refused", f.token) PROVE Served'
    BY <1>4, <1>12, ValidatedChange
  <1> HIDE DEF answered
  <1> QED BY <1>6, <1>7, <1>8, <1>9, <1>10, <1>11, <1>12 DEF Serve

LEMMA FailKeeps ==
  ASSUME Earned, Earned', Served, NEW f \in flows, Fail(f)
  PROVE  Served'
  <1>1. f \in Flow /\ f.answer = None /\ Fits(f) /\ page \in PageState /\ up \in BOOLEAN
    BY ServedTyped DEF Fail, Served, FlowsFit, BrowserTypeOK
  <1>2. PICK g : g = [f EXCEPT !.answer = "failed"]
    OBVIOUS
  <1>3. g \in Flow /\ Fits(g) /\ g.op = f.op /\ g.token = f.token /\ ~Gained(g)
    BY <1>1, <1>2, BrowserConstants DEF Flow, Fits, Gained
  <1>4. up' = up /\ page' = page /\ SessionsChange({})
    BY SameChange DEF Fail, pairingVars
  <1>5. Replaces(f) => Replaces(g)
    BY <1>1, <1>3, BrowserConstants DEF Replaces
  <1>6. flows' = (flows \ {f}) \cup {g}
    BY <1>2 DEF Fail
  <1> QED BY <1>1, <1>3, <1>4, <1>5, <1>6, ReplaceKeeps DEF Uses

LEMMA ReceivePageKeeps ==
  ASSUME Earned, Earned', Served, NEW f \in flows, Receive(f)
  PROVE  Served'
  <1>1. /\ f \in Flow /\ f.answer \in {"ok", "refused", "failed"} /\ Fits(f) /\ page \in PageState /\ up \in BOOLEAN
        /\ Uses(f) => f.token \in Tokens
    BY ServedTyped DEF Receive, Served, FlowsFit, BrowserTypeOK, FlowsHonoured, Flow
  <1>2. /\ UNCHANGED <<pairingVars, up>> /\ SessionsChange({})
    BY SameChange DEF Receive, pairingVars
  <1>3. CASE f.answer = "ok" /\ f.awaits = "identity"
    <2>1. f.op \in {"connect", "pair"}
      BY <1>1, <1>3 DEF Fits, Flow
    <2>2. ASSUME page.nonce = None PROVE Served'
      <3>1. flows' = flows \ {f} /\ page' = [page EXCEPT !.state = "pairing-required", !.pending = FALSE, !.identity = TRUE]
        BY <1>3, <2>1, <2>2 DEF Receive, Leave
      <3>2. page' \in PageState /\ page'.state # "connected" /\ page'.token = page.token
        BY <1>1, <3>1 DEF PageState
      <3> QED BY <1>2, <3>1, <3>2, LeaveKeeps
    <2>3. ASSUME page.nonce # None PROVE Served'
      <3>1. PICK g : g = Request("connect", "bootstrap", page.nonce)
        OBVIOUS
      <3>2. flows' = (flows \ {f}) \cup {g} /\ page' = [page EXCEPT !.identity = TRUE]
        BY <1>3, <2>1, <2>3, <3>1 DEF Receive
      <3>3. page.nonce \in Nat
        BY <1>1, <2>3 DEF PageState
      <3>4. g \in Flow /\ Fits(g) /\ ~Gained(g) /\ ~Uses(g)
        BY <3>1, <3>3, BrowserConstants DEF Request, Flow, Fits, Gained, Uses
      <3>5. /\ page' \in PageState /\ page'.state = page.state /\ page'.token = page.token
            /\ page'.expiresAt = page.expiresAt
        BY <1>1, <3>2 DEF PageState
      <3> QED BY <1>1, <1>2, <2>1, <3>2, <3>4, <3>5, ReplaceKeeps DEF Replaces
    <2> QED BY <2>2, <2>3
  <1>4. CASE f.answer = "ok" /\ f.awaits \in {"bootstrap", "exchange", "rotate"}
    <2>1. PICK g : g = [f EXCEPT !.awaits = "status", !.answer = None]
      OBVIOUS
    <2>2. f.op # "disconnect"
      BY <1>1, <1>4 DEF Fits
    <2>3. flows' = (flows \ {f}) \cup {g} /\ page' = page
      BY <1>4, <2>1, <2>2 DEF Receive, GoOn
    <2>4. g \in Flow /\ Fits(g) /\ g.op = f.op /\ g.token = f.token /\ g.expiresAt = f.expiresAt
      BY <1>1, <2>1, <2>2 DEF Flow, Fits
    <2>5. Gained(f)
      BY <1>4 DEF Gained
    <2> QED BY <1>1, <1>2, <2>2, <2>3, <2>4, <2>5, ReplaceKeeps DEF Uses, Replaces
  <1>5. CASE f.answer = "ok" /\ f.awaits = "status"
    <2>1. f.op # "disconnect"
      BY <1>1, <1>5 DEF Fits
    <2>2. flows' = flows \ {f} /\ page' = Verified(f)
      BY <1>5, <2>1 DEF Receive, Leave
    <2>3. page' \in PageState /\ page'.token = f.token /\ page'.expiresAt = f.expiresAt
      BY <1>1, <2>2 DEF Verified, PageState, Flow
    <2>4. Gained(f)
      BY <1>5 DEF Gained
    <2> QED BY <1>2, <2>2, <2>3, <2>4, LeaveKeeps
  <1>6. ASSUME flows' = flows \ {f}, page' = Dropped PROVE Served'
    <2>1. page' \in PageState /\ page'.state # "connected" /\ page'.token = None
      BY <1>1, <1>6 DEF Dropped, PageState
    <2> QED BY <1>2, <1>6, <2>1, LeaveKeeps
  <1>7. CASE f.op = "disconnect"
    <2>1. f.awaits = "revoke"
      BY <1>1, <1>7 DEF Fits
    <2>2. flows' = flows \ {f} /\ page' = IF f.answer = "ok" THEN Dropped ELSE page
      BY <1>7, <2>1 DEF Receive, Leave
    <2>3. CASE f.answer = "ok"
      BY <1>6, <2>2, <2>3
    <2>4. CASE f.answer # "ok"
      BY <1>1, <1>2, <1>7, <2>2, <2>4, LeaveKeeps DEF Replaces
    <2> QED BY <2>3, <2>4
  <1>8. CASE f.answer # "ok" /\ f.op = "rotate"
    BY <1>6, <1>8 DEF Receive, Leave
  <1>9. CASE f.answer # "ok" /\ f.op \in {"connect", "pair"}
    <2>1. flows' = flows \ {f} /\ page' = [page EXCEPT !.state = FailureState(f), !.pending = FALSE]
      BY <1>9 DEF Receive, Leave
    <2>2. page' \in PageState /\ page'.state # "connected" /\ page'.token = page.token
      BY <1>1, <2>1 DEF PageState, FailureState
    <2> QED BY <1>2, <2>1, <2>2, LeaveKeeps
  <1>10. f.awaits = "revoke" => f.op = "disconnect"
    BY <1>1 DEF Fits
  <1> QED BY <1>1, <1>3, <1>4, <1>5, <1>7, <1>8, <1>9, <1>10 DEF Flow

\* What happens elsewhere, and to the handlers that await an answer when the companion stops.
LEMMA ElsewhereKeeps ==
  ASSUME Earned, Earned', Served, SessionsChange({}), up' \in BOOLEAN, page' = page,
         \/ flows' = flows
         \/ flows' = {IF f.answer = None THEN [f EXCEPT !.answer = "failed"] ELSE f : f \in flows}
  PROVE  Served'
  <1> DEFINE after(f) == IF flows' = flows \/ f.answer # None THEN f ELSE [f EXCEPT !.answer = "failed"]
  <1>1. flows' = {after(f) : f \in flows}
    OBVIOUS
  <1>2. ASSUME NEW f \in flows
        PROVE  /\ after(f) \in Flow /\ after(f).op = f.op /\ after(f).awaits = f.awaits
               /\ after(f).token = f.token /\ after(f).expiresAt = f.expiresAt
               /\ Gained(after(f)) => Gained(f)
               /\ Replaces(f) => Replaces(after(f))
    <2>1. f \in Flow
      BY ServedTyped
    <2>2. [f EXCEPT !.answer = "failed"] \in Flow
      BY <2>1 DEF Flow
    <2> QED BY <2>1, <2>2, BrowserConstants DEF Flow, Gained, Replaces
  <1> HIDE DEF after
  <1>3. /\ \A h \in flows : h.token \in Nat /\ h.expiresAt \in Nat
        /\ page.expiresAt \in Nat
    BY ServedTyped
  <1>4. \A t : t \in Tokens => t \in Tokens'
    BY DEF SessionsChange
  <1>5. BrowserTypeOK' /\ EpochIssued'
    BY <1>1, <1>2 DEF Served, BrowserTypeOK, Earned, EpochIssued, SessionsChange
  <1>6. FlowsFit'
    BY <1>1, <1>2 DEF Served, FlowsFit, Fits
  <1>7. FlowsHonoured'
    <2>1. ASSUME NEW f \in flows
          PROVE  (Gained(f) => Honoured(f.token, f.expiresAt)') /\ (Uses(f) => f.token \in Tokens')
      BY <1>3, <1>4, HonouredStays DEF Served, FlowsHonoured
    <2>2. ASSUME NEW g \in flows'
          PROVE  (Gained(g) => Honoured(g.token, g.expiresAt)') /\ (Uses(g) => g.token \in Tokens')
      <3>1. PICK f \in flows : g = after(f)
        BY <1>1
      <3> QED BY <1>2, <2>1, <3>1 DEF Uses
    <2> QED BY <2>2 DEF FlowsHonoured, Gained, Uses, Honoured, Known
  <1>8. PageHonoured'
    <2>1. PICK t, at : t = page.token /\ at = page.expiresAt
      OBVIOUS
    <2>2. at \in Nat
      BY <1>3, <2>1
    <2>3. ASSUME page.state = "connected"
          PROVE  /\ Known(t, at)'
                 /\ Honoured(t, at)' \/ \E h \in flows' : Replaces(h)
      <3>1. Known(t, at) /\ (Honoured(t, at) \/ \E h \in flows : Replaces(h))
        BY <2>1, <2>3 DEF Served, PageHonoured
      <3>2. Known(t, at)' /\ (Honoured(t, at) => Honoured(t, at)')
        BY <2>2, <3>1, HonouredStays
      <3>3. (\E h \in flows : Replaces(h)) => \E h \in flows' : Replaces(h)
        BY <1>1, <1>2
      <3> QED BY <3>1, <3>2, <3>3
    <2>4. t = page'.token /\ at = page'.expiresAt
      BY <2>1
    <2>5. PageHonoured' <=> /\ t # None => t \in Tokens'
                            /\ page'.state = "connected" =>
                                 /\ t # None /\ Known(t, at)'
                                 /\ Honoured(t, at)' \/ \E h \in flows' : Replaces(h)
      BY <2>4 DEF PageHonoured, Replaces, Known, Honoured, Live, Tokens
    <2> QED BY <1>4, <2>1, <2>3, <2>5 DEF Served, PageHonoured
  <1>9. GainedOnce'
    <2>1. ASSUME NEW g \in flows', NEW h \in flows', Gained(g)
          PROVE  g.token # page.token /\ (h # g /\ (Gained(h) \/ Uses(h)) => h.token # g.token)
      <3>1. PICK f \in flows, e \in flows : g = after(f) /\ h = after(e)
        BY <1>1
      <3> QED BY <1>2, <2>1, <3>1 DEF Served, GainedOnce, Uses
    <2> QED BY <2>1 DEF GainedOnce, Gained, Uses
  <1> QED BY <1>5, <1>6, <1>7, <1>8, <1>9 DEF Served

LEMMA WorldChange ==
  ASSUME Earned, Earned', World
  PROVE  SessionsChange({})
  <1>1. now \in Nat /\ epoch \in Nat
    BY SessionConstants DEF Earned, SessionsTypeOK
  <1>2. CASE TimePasses \/ IssueCode \/ IssueLocalBootstrap
    <2>1. sessions' = sessions /\ epoch' = epoch /\ now' \in {now, now + 1}
      BY <1>2 DEF TimePasses, IssueCode, IssueLocalBootstrap
    <2> QED BY <1>1, <2>1 DEF SessionsChange, Tokens, Live
  <1>3. ASSUME NEW b \in Browsers, Exchange(code.id, b) \/ ExchangeLocalBootstrap(bootstrap.id, b)
        PROVE  SessionsChange({})
    BY <1>3, ExchangeChange
  <1>4. ASSUME NEW t \in Tokens, Live(t), sessions[t].browser # Page,
               \/ UseSessions(Revoked(t))
               \/ Valid(t, sessions[t].browser) /\ NewToken <= MaxIssued /\ UseSessions(Rotated(t))
        PROVE  SessionsChange({})
    <2>1. SessionsChange({t})
      BY <1>4, RevokedChange, RotatedChange
    <2> QED BY <1>4, <2>1 DEF SessionsChange
  <1> QED BY <1>2, <1>3, <1>4 DEF World

LEMMA StartsAgainChange ==
  ASSUME Earned, Earned', Served, StartedAgain
  PROVE  SessionsChange({})
  <1>1. PICK n \in 0..MaxIssued : Tokens = 1..n /\ NewToken = n + 1
    BY TokensNumbered DEF Earned
  <1>2. Cardinality(Tokens) = n
    BY <1>1, FS_Interval, SessionConstants
  <1>3. sessions' = [t \in Tokens |-> None] /\ epoch' = n /\ now' = now
    BY <1>2 DEF StartedAgain
  <1>4. now \in Nat /\ epoch \in Nat /\ n \in Nat /\ epoch <= n
    BY SessionConstants, <1>1 DEF Earned, SessionsTypeOK, Served, EpochIssued
  <1>5. Tokens' = Tokens /\ \A t \in Tokens : sessions'[t] = None /\ t <= epoch'
    BY <1>1, <1>3, SessionConstants DEF Tokens
  <1>6. epoch' = epoch \/ epoch' \in Tokens'
    BY <1>1, <1>3, <1>4, <1>5
  <1> QED BY <1>3, <1>4, <1>5, <1>6 DEF SessionsChange, Live

LEMMA ServedInit ==
  ASSUME BrowserInit
  PROVE  Served
  <1>1. SessionsTypeOK
    BY EarnedInit DEF Earned
  <1>2. PICK nonce \in {None, 1} : page = [state |-> "permission-required", token |-> None, expiresAt |-> 0,
          armed |-> FALSE, nonce |-> nonce, pending |-> FALSE, identity |-> FALSE]
    BY DEF BrowserInit
  <1>3. page \in PageState
    BY <1>2 DEF PageState
  <1>4. flows = {} /\ up = TRUE /\ epoch = 0
    BY DEF BrowserInit, SessionsInit
  <1> QED BY <1>1, <1>2, <1>3, <1>4
       DEF Served, BrowserTypeOK, EpochIssued, FlowsFit, FlowsHonoured, PageHonoured, GainedOnce

\* Every step of the page, of other pages and of the companion keeps both invariants.
LEMMA ServedStep ==
  ASSUME Earned, Served, [BrowserNext]_browserVars
  PROVE  Earned' /\ Served'
  <1>1. Earned'
    BY EarnedStep
  <1>2. page \in PageState
    BY ServedTyped
  <1>3. CASE UNCHANGED browserVars
    <2>1. SessionsChange({}) /\ up' \in BOOLEAN /\ page' = page /\ flows' = flows
      BY <1>3, SameChange DEF browserVars, pairingVars, Served, BrowserTypeOK
    <2> QED BY <1>1, <2>1, ElsewhereKeeps
  <1>4. ASSUME NEW n \in Nat, NEW op \in {"connect", "pair"}, NEW awaits \in {"identity", "exchange"}
        PROVE  LET f == Request(op, awaits, n) IN f \in Flow /\ Fits(f) /\ ~Gained(f) /\ ~Uses(f)
    BY BrowserConstants DEF Request, Flow, Fits, Gained, Uses
  <1>5. /\ [page EXCEPT !.pending = TRUE] \in PageState /\ [page EXCEPT !.armed = FALSE] \in PageState
        /\ \A p \in {[page EXCEPT !.pending = TRUE], [page EXCEPT !.armed = FALSE], page} :
             p.state = page.state /\ p.token = page.token /\ p.expiresAt = page.expiresAt
    BY <1>2 DEF PageState
  <1>6. CASE Connect
    BY <1>4, <1>5, <1>6, StartsKeep, <1>1 DEF Connect
  <1>7. ASSUME NEW n \in 1..MaxIssued, Pair(n) PROVE Served'
    <2>1. n \in Nat
      BY SessionConstants
    <2> QED BY <1>4, <1>5, <1>7, <2>1, StartsKeep DEF Pair
  <1>8. ASSUME page.token # None
        PROVE  /\ LET f == Request("rotate", "rotate", page.token)
                   IN f \in Flow /\ Fits(f) /\ ~Gained(f) /\ f.token = page.token
               /\ LET f == Request("disconnect", "revoke", page.token)
                   IN f \in Flow /\ Fits(f) /\ ~Gained(f) /\ f.token = page.token
    <2>1. page.token \in Nat
      BY <1>2, <1>8 DEF PageState
    <2> QED BY <2>1, BrowserConstants DEF Request, Flow, Fits, Gained
  <1>9. CASE RotationDue
    <2>1. page.token # None
      BY <1>9 DEF RotationDue, Served, PageHonoured
    <2> QED BY <1>1, <1>5, <1>8, <1>9, <2>1, StartsKeep DEF RotationDue
  <1>10. CASE Disconnect
    BY <1>1, <1>2, <1>5, <1>8, <1>10, StartsKeep DEF Disconnect
  <1>11. ASSUME NEW f \in flows, Serve(f) \/ Fail(f) \/ Receive(f) PROVE Served'
    BY <1>1, <1>11, ServeKeeps, FailKeeps, ReceivePageKeeps
  <1>12. CASE World
    <2>1. up' \in BOOLEAN /\ page' = page /\ flows' = flows
      BY <1>12 DEF World, Served, BrowserTypeOK
    <2> QED BY <1>1, <1>12, <2>1, WorldChange, ElsewhereKeeps
  <1>13. CASE CompanionStops
    <2>1. UNCHANGED pairingVars /\ up' \in BOOLEAN /\ page' = page /\ flows' = flows
      BY <1>13 DEF CompanionStops, pairingVars
    <2> QED BY <1>1, <2>1, SameChange, ElsewhereKeeps
  <1>14. CASE CompanionStarts
    <2>1. /\ StartedAgain /\ up' \in BOOLEAN /\ page' = page
          /\ flows' = {IF f.answer = None THEN [f EXCEPT !.answer = "failed"] ELSE f : f \in flows}
      BY <1>14 DEF CompanionStarts
    <2> QED BY <1>1, <2>1, StartsAgainChange, ElsewhereKeeps
  <1> QED BY <1>1, <1>3, <1>6, <1>7, <1>9, <1>10, <1>11, <1>12, <1>13, <1>14 DEF BrowserNext

\* What the invariant says of a page that shows itself connected.
LEMMA ServedPage ==
  ASSUME Earned, Served
  PROVE  ConnectedPageIsServed
  <1> SUFFICES ASSUME page.state = "connected", now < page.expiresAt, page.token > epoch, up, ~Live(page.token)
               PROVE  \E f \in flows : f.op \in {"rotate", "disconnect"}
    BY DEF ConnectedPageIsServed
  <1>1. now \in Nat /\ epoch \in Nat /\ page.expiresAt \in Nat
    BY SessionConstants, ServedTyped DEF Earned, SessionsTypeOK
  <1>2. page.token # None /\ page.token \in Tokens /\ page.token \in Nat
    BY TokensNumbered DEF Served, PageHonoured, Earned
  <1> QED BY <1>1, <1>2 DEF Served, PageHonoured, Honoured, Replaces

\* A page that shows itself connected has a session that the companion honours, while none
\* of its own handlers replaces it (OperationalOnboarding), for any lengths of time.
THEOREM ConnectedPagesAreServed == BrowserSpec => []ConnectedPageIsServed
  <1>1. BrowserInit => Earned /\ Served
    BY EarnedInit, ServedInit
  <1>2. Earned /\ Served /\ [BrowserNext]_browserVars => Earned' /\ Served'
    BY ServedStep
  <1>3. Earned /\ Served => ConnectedPageIsServed
    BY ServedPage
  <1> QED BY <1>1, <1>2, <1>3, PTL DEF BrowserSpec
=============================================================================
