------------------------------ MODULE AuthCode -----------------------------
(***************************************************************************)
(* The authorization codes of one provider and the rows that go with them: *)
(* _oauth2AuthCode, _oauth2PKCE, _oauth2OpenIDConnect and the _oauth2JTI   *)
(* row that marks a code as spent.  A login issues a code, token requests  *)
(* exchange it, and the hourly job cleans up.  Each storage call is one    *)
(* action; fosite (external) fixes their order: code, PKCE, OpenID when a  *)
(* code is issued; code, JTI, PKCE, code, JTI, JTI insert, access token,   *)
(* refresh token, OpenID when it is exchanged; revoke access, revoke       *)
(* refresh when a spent code is presented.  The tokens are kept here only  *)
(* as "the request has one"; RefreshFamily has their rows.                 *)
(***************************************************************************)
EXTENDS Integers, Sequences, FiniteSets

CONSTANTS
  Codes,        \* authorization codes, one request each
  ScopeSets,    \* what requests ask for: subsets of {"openid", "offline"}
  Workers,      \* HTTP handlers that may run at the same time
  None,         \* no code, no worker
  CodeLife,     \* Config.AuthorizeCodeLifespan
  MaxPause,     \* no handler runs for more than this many time units
  MaxTime,      \* bound on the clock
  Enforced,     \* the values of Config.EnforcePKCE, a set of BOOLEANs: FALSE when
                \* only public clients must use it
  Faults        \* TRUE when a storage call may fail

ASSUME NamesAssumption ==
  /\ None \notin Codes /\ None \notin Workers
  /\ ScopeSets \subseteq SUBSET {"openid", "offline"}
ASSUME BoundsAssumption ==
  /\ CodeLife \in Nat /\ MaxPause \in Nat /\ MaxTime \in Nat
  /\ Enforced \subseteq BOOLEAN /\ Faults \in BOOLEAN
\* A login is over before the code it issues expires.
ASSUME LoginAssumption == MaxPause <= CodeLife

VARIABLES
  code,      \* _oauth2AuthCode by code
  pkce,      \* codes with a row in _oauth2PKCE
  oidc,      \* codes with a row in _oauth2OpenIDConnect
  jti,       \* expires_at of the _oauth2JTI row of each code, -1 without one
  access,    \* codes whose request has an access-token row
  refresh,   \* codes whose request has a refresh-token row
  dead,      \* codes whose request has terminal authority (a tombstone)
  now,       \* time.Now()
  pc,        \* the next storage call of each handler
  job,       \* the local state of each handler
  known,     \* history: whether a client got the code, with a challenge or not
  exchanges, \* history: the handlers that went on to issue tokens for the code
  unverified,\* history: codes exchanged without the verifier of their challenge
  replayed,  \* history: codes whose replay was answered with invalid_grant
  failed,    \* history: codes of which a storage call failed
  enforcePKCE \* Config.EnforcePKCE

vars == <<code, pkce, oidc, jti, access, refresh, dead, now, pc, job,
          known, exchanges, unverified, replayed, failed, enforcePKCE>>

-----------------------------------------------------------------------------
NoCode == [present |-> FALSE, exp |-> 0, scopes |-> {}]
CodeRow == [present : BOOLEAN, exp : Nat, scopes : SUBSET {"openid", "offline"}]

Verifiers == {"right", "wrong", "none"}
PCs == {"idle", "mkcode", "mkpkce", "mkoidc", "getcode", "jticheck", "getpkce",
        "delpkce", "getcode2", "jticheck2", "invfind", "insjti", "mkaccess",
        "mkrefresh", "getoidc", "deloidc", "revaccess", "revcommit",
        "revrefresh", "replied"}
Replies == {"none", "code", "error", "invalid_grant", "replay", "tokens", "tokens+id"}

\* exp, scopes: of the code row as the handler read it; since: when it started.
Job == [code : Codes \cup {None}, verifier : Verifiers, challenge : BOOLEAN,
        scopes : SUBSET {"openid", "offline"}, exp : Nat, reply : Replies, since : Nat]
NoJob == [code |-> None, verifier |-> "none", challenge |-> FALSE, scopes |-> {},
          exp |-> 0, reply |-> "none", since |-> 0]

\* A code not yet generated, one no client got (yet), and codes delivered for a
\* request without and with a challenge.
Known == {"unborn", "lost", "plain", "challenged"}

TypeOK ==
  /\ code \in [Codes -> CodeRow]
  /\ pkce \subseteq Codes /\ oidc \subseteq Codes
  /\ jti \in [Codes -> Nat \cup {-1}]
  /\ access \subseteq Codes /\ refresh \subseteq Codes /\ dead \subseteq Codes
  /\ now \in 0..MaxTime
  /\ pc \in [Workers -> PCs]
  /\ job \in [Workers -> Job]
  /\ known \in [Codes -> Known]
  /\ exchanges \in [Codes -> Seq(Workers)]
  /\ unverified \subseteq Codes /\ replayed \subseteq Codes /\ failed \subseteq Codes

Init ==
  /\ code = [c \in Codes |-> NoCode]
  /\ pkce = {} /\ oidc = {}
  /\ jti = [c \in Codes |-> -1]
  /\ access = {} /\ refresh = {} /\ dead = {}
  /\ now = 0
  /\ pc = [w \in Workers |-> "idle"]
  /\ job = [w \in Workers |-> NoJob]
  /\ known = [c \in Codes |-> "unborn"]
  /\ exchanges = [c \in Codes |-> <<>>]
  /\ unverified = {} /\ replayed = {} /\ failed = {}
  /\ enforcePKCE \in Enforced

Goto(w, p) == pc' = [pc EXCEPT ![w] = p]
Reply(w, r) ==
  /\ Goto(w, "replied")
  /\ job' = [job EXCEPT ![w] = [NoJob EXCEPT !.code = job[w].code, !.reply = r,
                                              !.since = job[w].since]]

\* What a step leaves alone.
Rows == <<code, pkce, oidc, jti>>
Tokens == <<access, refresh, dead>>
Past == <<known, exchanges, unverified, replayed, failed, enforcePKCE>>

\* hasJTIModel.
Spent(c) == jti[c] # -1

-----------------------------------------------------------------------------
\* A login issues a code.

BeginIssue(w, c, S, challenge) ==
  /\ pc[w] = "idle" /\ known[c] = "unborn"
  /\ Goto(w, "mkcode")
  /\ job' = [job EXCEPT ![w] = [NoJob EXCEPT !.code = c, !.scopes = S,
                                 !.challenge = challenge, !.since = now]]
  /\ known' = [known EXCEPT ![c] = "lost"]
  /\ UNCHANGED <<Rows, Tokens, now, exchanges, unverified, replayed, failed, enforcePKCE>>

\* The redirect that carries the code.
Deliver(w) ==
  /\ Reply(w, "code")
  /\ known' = [known EXCEPT ![job[w].code] =
                 IF job[w].challenge THEN "challenged" ELSE "plain"]

CodeExpiry == now + CodeLife

\* The code handler runs first; then the PKCE handler refuses a request without
\* a challenge under EnforcePKCE.
CreateAuthorizeCodeSession(w) ==
  LET j == job[w] IN
  /\ pc[w] = "mkcode"
  /\ code' = [code EXCEPT ![j.code] = [present |-> TRUE, exp |-> CodeExpiry,
                                       scopes |-> j.scopes]]
  /\ \/ j.challenge /\ Goto(w, "mkpkce") /\ UNCHANGED <<job, known>>
     \/ ~j.challenge /\ enforcePKCE /\ Reply(w, "error") /\ UNCHANGED known
     \/ /\ ~j.challenge /\ ~enforcePKCE
        /\ IF "openid" \in j.scopes THEN Goto(w, "mkoidc") /\ UNCHANGED <<job, known>>
           ELSE Deliver(w)
  /\ UNCHANGED <<pkce, oidc, jti, Tokens, now, exchanges, unverified, replayed, failed, enforcePKCE>>

CreatePKCERequestSession(w) ==
  LET j == job[w] IN
  /\ pc[w] = "mkpkce"
  /\ pkce' = pkce \cup {j.code}
  /\ IF "openid" \in j.scopes THEN Goto(w, "mkoidc") /\ UNCHANGED <<job, known>>
     ELSE Deliver(w)
  /\ UNCHANGED <<code, oidc, jti, Tokens, now, exchanges, unverified, replayed, failed, enforcePKCE>>

CreateOpenIDConnectSession(w) ==
  /\ pc[w] = "mkoidc"
  /\ oidc' = oidc \cup {job[w].code}
  /\ Deliver(w)
  /\ UNCHANGED <<code, pkce, jti, Tokens, now, exchanges, unverified, replayed, failed, enforcePKCE>>

-----------------------------------------------------------------------------
\* A client presents a code at the token endpoint: NewAccessRequest.

BeginExchange(w, c, v) ==
  /\ pc[w] = "idle" /\ known[c] \in {"plain", "challenged"}
  /\ Goto(w, "getcode")
  /\ job' = [job EXCEPT ![w] = [NoJob EXCEPT !.code = c, !.verifier = v, !.since = now]]
  /\ UNCHANGED <<Rows, Tokens, now, Past>>

\* The row read of GetAuthorizeCodeSession.
GetCode(w) ==
  LET c == job[w].code IN
  /\ pc[w] = "getcode"
  /\ IF code[c].present
     THEN Goto(w, "jticheck") /\
          job' = [job EXCEPT ![w].scopes = code[c].scopes, ![w].exp = code[c].exp]
     ELSE Reply(w, "invalid_grant")
  /\ UNCHANGED <<Rows, Tokens, now, Past>>

\* Its hasJTIModel: a spent code is a replay; an expired one is refused.
CheckSpent(w) ==
  LET c == job[w].code IN
  /\ pc[w] = "jticheck"
  /\ \/ Spent(c) /\ Goto(w, "revaccess") /\ UNCHANGED job
     \/ ~Spent(c) /\ now > job[w].exp /\ Reply(w, "invalid_grant")
     \/ ~Spent(c) /\ now <= job[w].exp /\ Goto(w, "getpkce") /\ UNCHANGED job
  /\ UNCHANGED <<Rows, Tokens, now, Past>>

\* Bug: a code without a PKCE row is taken for one that never had a challenge.
GetPKCEOptional(w) ==
  /\ pc[w] = "getpkce"
  /\ IF job[w].code \in pkce THEN Goto(w, "delpkce") ELSE Goto(w, "getcode2")
  /\ UNCHANGED <<Rows, Tokens, now, job, Past>>

\* GetPKCERequestSession; without a row a verifier is refused, and so is its
\* absence when PKCE is enforced.
GetPKCERequestSession(w) ==
  LET j == job[w] IN
  /\ pc[w] = "getpkce"
  /\ \/ j.code \in pkce /\ Goto(w, "delpkce") /\ UNCHANGED job
     \/ /\ j.code \notin pkce /\ (j.verifier # "none" \/ enforcePKCE)
        /\ Reply(w, "invalid_grant")
     \/ /\ j.code \notin pkce /\ j.verifier = "none" /\ ~enforcePKCE
        /\ Goto(w, "getcode2") /\ UNCHANGED job
  /\ UNCHANGED <<Rows, Tokens, now, Past>>

\* DeletePKCERequestSession, before the verifier is compared.
DeletePKCERequestSession(w) ==
  LET j == job[w] IN
  /\ pc[w] = "delpkce"
  /\ pkce' = pkce \ {j.code}
  /\ IF j.verifier = "right" THEN Goto(w, "getcode2") /\ UNCHANGED job
     ELSE Reply(w, "invalid_grant")
  /\ UNCHANGED <<code, oidc, jti, Tokens, now, Past>>

-----------------------------------------------------------------------------
\* NewAccessResponse.

\* GetAuthorizeCodeSession once more: the row, then the JTI.  A code spent in
\* between is an error here and revokes nothing.
GetCodeAgain(w) ==
  /\ pc[w] = "getcode2"
  /\ IF code[job[w].code].present THEN Goto(w, "jticheck2") /\ UNCHANGED job
     ELSE Reply(w, "error")
  /\ UNCHANGED <<Rows, Tokens, now, Past>>

CheckSpentAgain(w) ==
  /\ pc[w] = "jticheck2"
  /\ IF Spent(job[w].code) THEN Reply(w, "error") ELSE Goto(w, "invfind") /\ UNCHANGED job
  /\ UNCHANGED <<Rows, Tokens, now, Past>>

\* The handler passes the invalidation and goes on to issue tokens.
PassInvalidation(w) ==
  LET j == job[w] IN
  /\ Goto(w, "mkaccess") /\ UNCHANGED job
  /\ exchanges' = [exchanges EXCEPT ![j.code] = Append(@, w)]
  /\ unverified' = IF known[j.code] = "challenged" /\ j.verifier # "right"
                   THEN unverified \cup {j.code} ELSE unverified

\* The row read of InvalidateAuthorizeCodeSession: a missing row "can be
\* considered already deleted", and no JTI row is written.
InvalidateFind(w) ==
  /\ pc[w] = "invfind"
  /\ IF code[job[w].code].present
     THEN Goto(w, "insjti") /\ UNCHANGED <<job, exchanges, unverified>>
     ELSE PassInvalidation(w)
  /\ UNCHANGED <<Rows, Tokens, now, known, replayed, failed, enforcePKCE>>

\* Bug: a JTI row is inserted without the unique index.
InsertJTINotUnique(w) ==
  /\ pc[w] = "insjti"
  /\ jti' = [jti EXCEPT ![job[w].code] = job[w].exp]
  /\ PassInvalidation(w)
  /\ UNCHANGED <<code, pkce, oidc, Tokens, now, known, replayed, failed, enforcePKCE>>

\* Bug: the JTI row expires when it is written instead of with the code.
InsertJTIExpiresNow(w) ==
  LET c == job[w].code IN
  /\ pc[w] = "insjti"
  /\ IF Spent(c) THEN Reply(w, "error") /\ UNCHANGED <<jti, exchanges, unverified>>
     ELSE PassInvalidation(w) /\ jti' = [jti EXCEPT ![c] = now]
  /\ UNCHANGED <<code, pkce, oidc, Tokens, now, known, replayed, failed, enforcePKCE>>

\* newJTIModel; the unique index on provider_prefix and jti refuses a second row.
InsertJTI(w) ==
  LET c == job[w].code IN
  /\ pc[w] = "insjti"
  /\ IF Spent(c) THEN Reply(w, "error") /\ UNCHANGED <<jti, exchanges, unverified>>
     ELSE PassInvalidation(w) /\ jti' = [jti EXCEPT ![c] = job[w].exp]
  /\ UNCHANGED <<code, pkce, oidc, Tokens, now, known, replayed, failed, enforcePKCE>>

\* After the tokens the OpenID handler, when the scope asks for it.
NextAfterTokens(w) ==
  IF "openid" \in job[w].scopes THEN Goto(w, "getoidc") /\ UNCHANGED job
  ELSE Reply(w, "tokens")

\* CreateAccessTokenSession, one transaction.
CreateAccessTokenSession(w) ==
  LET c == job[w].code IN
  /\ pc[w] = "mkaccess"
  /\ \/ c \in dead /\ Reply(w, "error") /\ UNCHANGED access
     \/ /\ c \notin dead
        /\ access' = access \cup {c}
        /\ IF "offline" \in job[w].scopes THEN Goto(w, "mkrefresh") /\ UNCHANGED job
           ELSE NextAfterTokens(w)
  /\ UNCHANGED <<Rows, refresh, dead, now, Past>>

\* Bug: a refresh token refused under terminal authority leaves the access token
\* of its exchange behind.
CreateRefreshKeepsAccess(w) ==
  LET c == job[w].code IN
  /\ pc[w] = "mkrefresh"
  /\ \/ c \in dead \cup refresh /\ Reply(w, "error") /\ UNCHANGED refresh
     \/ c \notin dead \cup refresh /\ refresh' = refresh \cup {c} /\ NextAfterTokens(w)
  /\ UNCHANGED <<Rows, access, dead, now, Past>>

\* CreateRefreshTokenSession, one transaction: under terminal authority it
\* removes the request's access rows, and a request that has a refresh row does
\* not get another.
CreateRefreshTokenSession(w) ==
  LET c == job[w].code IN
  /\ pc[w] = "mkrefresh"
  /\ \/ c \in dead /\ access' = access \ {c} /\ Reply(w, "error") /\ UNCHANGED refresh
     \/ c \notin dead /\ c \in refresh /\ Reply(w, "error") /\ UNCHANGED <<access, refresh>>
     \/ /\ c \notin dead /\ c \notin refresh
        /\ refresh' = refresh \cup {c}
        /\ NextAfterTokens(w)
        /\ UNCHANGED access
  /\ UNCHANGED <<Rows, dead, now, Past>>

\* GetOpenIDConnectSession; without a row the handler is skipped, silently.
GetOpenIDConnectSession(w) ==
  /\ pc[w] = "getoidc"
  /\ IF job[w].code \in oidc THEN Goto(w, "deloidc") /\ UNCHANGED job ELSE Reply(w, "tokens")
  /\ UNCHANGED <<Rows, Tokens, now, Past>>

DeleteOpenIDConnectSession(w) ==
  /\ pc[w] = "deloidc"
  /\ oidc' = oidc \ {job[w].code}
  /\ Reply(w, "tokens+id")
  /\ UNCHANGED <<code, pkce, jti, Tokens, now, Past>>

-----------------------------------------------------------------------------
\* A replay revokes the tokens of the request.  fosite answers it the same way,
\* whatever fails on the way.

\* A call that fails has no effect.
Fails(w) == Faults /\ failed' = failed \cup {job[w].code}
Replayed(w) == Reply(w, "replay") /\ replayed' = replayed \cup {job[w].code}

RevokeAccessToken(w) ==
  /\ pc[w] = "revaccess"
  /\ \/ access' = access \ {job[w].code} /\ UNCHANGED failed
     \/ Fails(w) /\ UNCHANGED access
  /\ Goto(w, "revcommit")
  /\ UNCHANGED <<Rows, refresh, dead, now, job, known, exchanges, unverified, replayed, enforcePKCE>>

\* commitRefreshTerminalAuthority of RevokeRefreshToken.
RevokeCommit(w) ==
  /\ pc[w] = "revcommit"
  /\ \/ /\ dead' = dead \cup {job[w].code} /\ Goto(w, "revrefresh")
        /\ UNCHANGED <<job, replayed, failed>>
     \/ Fails(w) /\ Replayed(w) /\ UNCHANGED dead
  /\ UNCHANGED <<Rows, access, refresh, now, known, exchanges, unverified, enforcePKCE>>

\* revokeRefreshFamilyByRequestID, one transaction: with a refresh row to revoke
\* the access rows of its request go as well.
RevokeRows(w) ==
  LET c == job[w].code IN
  /\ pc[w] = "revrefresh"
  /\ \/ /\ refresh' = refresh \ {c}
        /\ access' = IF c \in refresh THEN access \ {c} ELSE access
        /\ UNCHANGED failed
     \/ Fails(w) /\ UNCHANGED <<access, refresh>>
  /\ Replayed(w)
  /\ UNCHANGED <<Rows, dead, now, known, exchanges, unverified, enforcePKCE>>

-----------------------------------------------------------------------------
Finish(w) ==
  /\ pc[w] = "replied"
  /\ Goto(w, "idle")
  /\ job' = [job EXCEPT ![w] = NoJob]
  /\ UNCHANGED <<Rows, Tokens, now, Past>>

\* A storage call fails before it has any effect, and the request with it.
Abort(w) ==
  /\ Fails(w)
  /\ pc[w] \notin {"idle", "replied", "revaccess", "revcommit", "revrefresh"}
  /\ Reply(w, "error")
  /\ UNCHANGED <<Rows, Tokens, now, known, exchanges, unverified, replayed, enforcePKCE>>

\* registerCleanupJob deletes rows with expires_at < now, one by one; a failure
\* is logged and the next row is taken, so any of them may go first.  The
\* session of a code has no expiry for a PKCE challenge or an ID token yet, so
\* SetRequester stores the zero time with those rows: they always match.
CleanupCode(c) ==
  /\ code[c].present /\ code[c].exp < now
  /\ code' = [code EXCEPT ![c] = NoCode]
  /\ UNCHANGED <<pkce, oidc, jti, Tokens, now, pc, job, Past>>

CleanupJTI(c) ==
  /\ Spent(c) /\ jti[c] < now
  /\ jti' = [jti EXCEPT ![c] = -1]
  /\ UNCHANGED <<code, pkce, oidc, Tokens, now, pc, job, Past>>

CleanupPKCE(c) ==
  /\ c \in pkce
  /\ pkce' = pkce \ {c}
  /\ UNCHANGED <<code, oidc, jti, Tokens, now, pc, job, Past>>

CleanupOpenID(c) ==
  /\ c \in oidc
  /\ oidc' = oidc \ {c}
  /\ UNCHANGED <<code, pkce, jti, Tokens, now, pc, job, Past>>

Cleanup(c) == CleanupCode(c) \/ CleanupJTI(c) \/ CleanupPKCE(c) \/ CleanupOpenID(c)

Running(w) == pc[w] \notin {"idle", "replied"}
Tick ==
  /\ now < MaxTime
  /\ \A w \in Workers : Running(w) => now < job[w].since + MaxPause
  /\ now' = now + 1
  /\ UNCHANGED <<Rows, Tokens, pc, job, Past>>

Handle(w) ==
  \/ CreateAuthorizeCodeSession(w) \/ CreatePKCERequestSession(w)
  \/ CreateOpenIDConnectSession(w) \/ GetCode(w) \/ CheckSpent(w)
  \/ GetPKCERequestSession(w) \/ DeletePKCERequestSession(w) \/ GetCodeAgain(w)
  \/ CheckSpentAgain(w) \/ InvalidateFind(w) \/ InsertJTI(w)
  \/ CreateAccessTokenSession(w) \/ CreateRefreshTokenSession(w)
  \/ GetOpenIDConnectSession(w) \/ DeleteOpenIDConnectSession(w)
  \/ RevokeAccessToken(w) \/ RevokeCommit(w) \/ RevokeRows(w)
  \/ Finish(w) \/ Abort(w)

Next ==
  \/ \E w \in Workers, c \in Codes, S \in ScopeSets, ch \in BOOLEAN : BeginIssue(w, c, S, ch)
  \/ \E w \in Workers, c \in Codes, v \in Verifiers : BeginExchange(w, c, v)
  \/ \E w \in Workers : Handle(w)
  \/ \E c \in Codes : Cleanup(c)
  \/ Tick

Spec == Init /\ [][Next]_vars

-----------------------------------------------------------------------------
\* Properties.

\* As long as a spent code could still be presented in time, its JTI row tells
\* that it is spent, whatever the clean-up job deleted.
SpentIsRemembered ==
  \A c \in Codes : exchanges[c] # <<>> /\ code[c].present /\ now <= code[c].exp => Spent(c)

\* A code is exchanged by one handler while it is valid: the unique index on the JTI
\* decides between handlers that both read the code as unspent, and none gets past
\* InvalidateAuthorizeCodeSession because the job took the row, which that call answers
\* with success. ReplayProtection below is what a pause beyond the expiry breaks.
ValidIsOnce ==
  \A c \in Codes : code[c].present /\ now <= code[c].exp => Len(exchanges[c]) <= 1

\* Under EnforcePKCE, the default, a code issued for a challenge is exchanged only
\* with its verifier, also after the clean-up job or another handler took the PKCE
\* row away.
VerifierRequired == enforcePKCE => unverified = {}

\* A replay sweeps up after the exchange it races: when both have ended and none of
\* their calls failed, a request for offline access has no token row left, also if
\* the exchange stored its tokens between two calls of the replay or after the last.
ReplayLeavesNoRows ==
  \A c \in replayed \ failed :
    "offline" \in code[c].scopes /\ (\A w \in Workers : Running(w) => job[w].code # c) =>
      c \notin access \cup refresh

\* README.md:203: "A cron job runs every hour to clean up expired sessions", so
\* it leaves the challenge and the ID token session of a code that is still valid
\* alone: only the handler of an exchange takes them.
CleanupTakesExpired ==
  [][\A c \in Codes :
       c \in (pkce \ pkce') \cup (oidc \ oidc') /\ code[c].present /\ now <= code[c].exp =>
         \E w \in Workers : pc[w] \in {"delpkce", "deloidc"} /\ job[w].code = c]_vars

-----------------------------------------------------------------------------
\* What the documentation says and the code does not do. No listed run checks
\* these; the README tells how TLC refutes each.

\* README.md:266: "authorization code flow + ID tokens": a code for the openid
\* scope is answered with an ID token.
OpenIDGetsIDToken ==
  \A w \in Workers : pc[w] = "replied" /\ job[w].reply = "tokens" =>
    "openid" \notin code[job[w].code].scopes

\* README.md:215: the JTI rows are there "for replay protection", so one code is
\* exchanged at most once.
ReplayProtection == \A c \in Codes : Len(exchanges[c]) <= 1

\* Without the conditions: a replay whose revocation failed is answered like one
\* that took effect, and the tokens go on working.
Works(c) == c \in (access \cup refresh) \ dead
ReplayKillsTokens == \A c \in replayed : ~Works(c)
=============================================================================
