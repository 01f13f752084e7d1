---------------------------- MODULE BrowserSession ----------------------------
(***************************************************************************)
(* A page of the browser and its session with the companion: the handlers  *)
(* and the rotation timer of OperationalOnboarding, over the requests of   *)
(* companion-client, composed with PairingService (Sessions).              *)
(*                                                                         *)
(* A request is served at one moment and answered at a later one.  One     *)
(* whose companion has stopped fails.                                      *)
(***************************************************************************)
EXTENDS Sessions

CONSTANTS RotationLead, Page   \* the page, one of Browsers

ASSUME BrowserConstants ==
  /\ RotationLead \in Nat /\ Page \in Browsers
  /\ None \notin Nat \cup SessionRecord /\ None \notin {"ok", "refused", "failed"}

VARIABLES
  up,     \* whether the companion answers
  page,   \* what the page holds: connection state, session, armed timer, nonce, pending
  flows   \* its handlers that await an answer

browserVars == <<now, code, bootstrap, sessions, failedAttempts, cooldownUntil, guesses, epoch, up, page, flows>>

-----------------------------------------------------------------------------
PageState == [state : {"permission-required", "unreachable", "pairing-required", "error", "connected"},
              token : Nat \cup {None}, expiresAt : Nat, armed : BOOLEAN,
              nonce : Nat \cup {None}, pending : BOOLEAN, identity : BOOLEAN]

\* A handler: the request it awaits, with the token it uses or, once served, the token
\* it got.
Flow == [op : {"connect", "pair", "rotate", "disconnect"},
         awaits : {"identity", "bootstrap", "exchange", "rotate", "revoke", "status"},
         token : Nat, expiresAt : Nat, answer : {None, "ok", "refused", "failed"}]

BrowserTypeOK ==
  /\ SessionsTypeOK
  /\ up \in BOOLEAN /\ page \in PageState /\ flows \subseteq Flow

BrowserInit ==
  /\ SessionsInit
  /\ up = TRUE
  /\ \E nonce \in {None, 1} : page = [state |-> "permission-required", token |-> None, expiresAt |-> 0,
       armed |-> FALSE, nonce |-> nonce, pending |-> FALSE, identity |-> FALSE]
  /\ flows = {}

-----------------------------------------------------------------------------
Request(op, awaits, token) ==
  [op |-> op, awaits |-> awaits, token |-> token, expiresAt |-> 0, answer |-> None]

Start(f, p) ==
  /\ flows' = flows \cup {f} /\ page' = p
  /\ UNCHANGED <<now, code, bootstrap, sessions, failedAttempts, cooldownUntil, guesses, epoch, up>>

\* connect(), also called once by a page that carries a nonce.
Connect ==
  /\ ~page.pending /\ page.state \notin {"connected", "pairing-required"}
  /\ Start(Request("connect", "identity", 0), [page EXCEPT !.pending = TRUE])

\* pair(): the person enters code n.
Pair(n) ==
  /\ ~page.pending /\ page.state = "pairing-required"
  /\ Start(Request("pair", "exchange", n), [page EXCEPT !.pending = TRUE])

\* The timer of the session in use, sessionRotationDelay() before it expires.
RotationDue ==
  /\ page.state = "connected" /\ page.armed
  /\ now + RotationLead >= page.expiresAt
  /\ Start(Request("rotate", "rotate", page.token), [page EXCEPT !.armed = FALSE])

Disconnect ==
  /\ page.state = "connected" /\ page.token # None
  /\ ~\E f \in flows : f.op = "disconnect"
  /\ Start(Request("disconnect", "revoke", page.token), page)

\* The companion serves a request and its answer is on its way.
Answer(f, answer, token) ==
  /\ flows' = (flows \ {f}) \cup {[f EXCEPT !.answer = answer, !.token = token, !.expiresAt = now + SessionTtl]}
  /\ UNCHANGED <<up, page>>

Serve(f) ==
  /\ up /\ f \in flows /\ f.answer = None
  /\ \/ f.awaits = "identity" /\ UNCHANGED pairingVars /\ Answer(f, "ok", f.token)
     \/ f.awaits = "bootstrap" /\ ExchangeLocalBootstrap(f.token, Page) /\ Answer(f, "ok", NewToken)
     \/ f.awaits = "bootstrap" /\ ~Accepted(bootstrap, f.token) /\ UNCHANGED pairingVars
        /\ Answer(f, "refused", f.token)
     \/ f.awaits = "exchange" /\ Exchange(f.token, Page) /\ Answer(f, "ok", NewToken)
     \/ f.awaits = "exchange" /\ Guess(f.token) /\ Answer(f, "refused", f.token)
     \/ f.awaits = "exchange" /\ (now < cooldownUntil \/ code.used \/ now >= code.issuedAt + CodeTtl)
        /\ UNCHANGED pairingVars /\ Answer(f, "refused", f.token)
     \/ f.awaits = "rotate" /\ Valid(f.token, Page) /\ NewToken <= MaxIssued
        /\ UseSessions(Rotated(f.token)) /\ Answer(f, "ok", NewToken)
     \/ f.awaits = "revoke" /\ UseSessions(Revoked(f.token)) /\ Answer(f, "ok", f.token)
     \/ f.awaits = "status" /\ Valid(f.token, Page) /\ UNCHANGED pairingVars
        /\ flows' = (flows \ {f}) \cup {[f EXCEPT !.answer = "ok"]} /\ UNCHANGED <<up, page>>
     \/ f.awaits \in {"rotate", "status"} /\ ~Valid(f.token, Page)
        /\ UseSessions(Validated(f.token)) /\ Answer(f, "refused", f.token)

\* The companion is not reachable, or stopped before it answered.
Fail(f) ==
  /\ ~up /\ f \in flows /\ f.answer = None
  /\ flows' = (flows \ {f}) \cup {[f EXCEPT !.answer = "failed"]}
  /\ UNCHANGED <<now, code, bootstrap, sessions, failedAttempts, cooldownUntil, guesses, epoch, up, page>>

-----------------------------------------------------------------------------
GoOn(f, g) == flows' = (flows \ {f}) \cup {g} /\ UNCHANGED page
Leave(f, p) == flows' = flows \ {f} /\ page' = p

\* The state a failed connect() or pair() leaves (classifyConnectionFailure).
FailureState(f) ==
  IF f.answer = "failed" THEN "unreachable"
  ELSE IF f.awaits \in {"bootstrap", "exchange"} THEN "pairing-required" ELSE "error"

\* Mutant: a rotated session is not taken over.
VerifiedOnce(f) == IF f.op = "rotate" THEN [page EXCEPT !.armed = TRUE]
                   ELSE [page EXCEPT !.state = "connected", !.token = f.token, !.expiresAt = f.expiresAt,
                                     !.armed = TRUE, !.pending = FALSE]

\* verifyStatus() succeeded: the session is taken over and its timer armed.
Verified(f) == [page EXCEPT !.state = "connected", !.token = f.token, !.expiresAt = f.expiresAt,
                            !.armed = TRUE, !.pending = @ /\ f.op = "rotate"]

Dropped == [page EXCEPT !.state = "pairing-required", !.token = None, !.armed = FALSE]

\* The page goes on with the answer.
Receive(f) ==
  /\ f \in flows /\ f.answer # None
  /\ CASE f.answer = "ok" /\ f.awaits = "identity" ->
            IF page.nonce = None THEN Leave(f, [page EXCEPT !.state = "pairing-required", !.pending = FALSE, !.identity = TRUE])
            ELSE /\ flows' = (flows \ {f}) \cup {Request("connect", "bootstrap", page.nonce)}
                 /\ page' = [page EXCEPT !.identity = TRUE]
       [] f.answer = "ok" /\ f.awaits \in {"bootstrap", "exchange", "rotate"} ->
            GoOn(f, [f EXCEPT !.awaits = "status", !.answer = None])
       [] f.answer = "ok" /\ f.awaits = "status" -> Leave(f, Verified(f))
       [] f.op = "disconnect" -> Leave(f, IF f.answer = "ok" THEN Dropped ELSE page)
       [] f.answer # "ok" /\ f.op = "rotate" -> Leave(f, Dropped)
       [] f.answer # "ok" /\ f.op \in {"connect", "pair"} ->
            Leave(f, [page EXCEPT !.state = FailureState(f), !.pending = FALSE])
  /\ UNCHANGED <<now, code, bootstrap, sessions, failedAttempts, cooldownUntil, guesses, epoch, up>>

-----------------------------------------------------------------------------
(* The rest of the world: the clock, the desktop window, other pages, and  *)
(* the companion's end and start.                                          *)
World ==
  /\ \/ TimePasses
     \/ up /\ (IssueCode \/ IssueLocalBootstrap)
     \/ up /\ \E b \in Browsers \ {Page} : Exchange(code.id, b) \/ ExchangeLocalBootstrap(bootstrap.id, b)
     \/ up /\ \E t \in Tokens : Live(t) /\ sessions[t].browser # Page
                /\ (UseSessions(Revoked(t)) \/ (Valid(t, sessions[t].browser) /\ NewToken <= MaxIssued /\ UseSessions(Rotated(t))))
  /\ UNCHANGED <<up, page, flows>>

CompanionStops == up /\ up' = FALSE
  /\ UNCHANGED <<now, code, bootstrap, sessions, failedAttempts, cooldownUntil, guesses, epoch, page, flows>>
CompanionStarts == ~up /\ StartedAgain /\ up' = TRUE
  /\ flows' = {IF f.answer = None THEN [f EXCEPT !.answer = "failed"] ELSE f : f \in flows}
  /\ UNCHANGED page

BrowserNext ==
  \/ Connect \/ RotationDue \/ Disconnect
  \/ \E n \in 1..MaxIssued : Pair(n)
  \/ \E f \in flows : Serve(f) \/ Fail(f) \/ Receive(f)
  \/ World \/ CompanionStops \/ CompanionStarts

BrowserSpec == BrowserInit /\ [][BrowserNext]_browserVars

-----------------------------------------------------------------------------
\* A page shown as connected holds a session the companion honours, unless it expired, the
\* companion was started again, or the page's own rotation or disconnection is under way.
ConnectedPageIsServed ==
  page.state = "connected" /\ now < page.expiresAt /\ page.token > epoch /\ up =>
    \/ Live(page.token)
    \/ \E f \in flows : f.op \in {"rotate", "disconnect"}
=============================================================================
