--------------------------- MODULE AuthCodeProofs ---------------------------
(***************************************************************************)
(* Proofs about AuthCode: a spent code is remembered, a challenge is       *)
(* answered, a replay leaves no token row, a valid code is used once.      *)
(***************************************************************************)
EXTENDS AuthCode, TLAPS

-----------------------------------------------------------------------------
\* Types.

TInv ==
  /\ TypeOK /\ enforcePKCE \in BOOLEAN
  /\ \A w \in Workers : pc[w] # "idle" => job[w].code \in Codes

LEMMA NoJobType == NoJob \in Job
BY DEF NoJob, Job, Verifiers, Replies

LEMMA TypeInit == Init => TInv
<1> SUFFICES ASSUME Init PROVE TInv
  OBVIOUS
<1>1. code \in [Codes -> CodeRow] /\ job \in [Workers -> Job]
  BY NoJobType DEF Init, NoCode, CodeRow
<1>2. pc \in [Workers -> PCs] /\ known \in [Codes -> Known] /\ exchanges \in [Codes -> Seq(Workers)]
  BY DEF Init, PCs, Known
<1>3. TypeOK
  BY <1>1, <1>2, BoundsAssumption DEF Init, TypeOK
<1>4. enforcePKCE \in BOOLEAN
  BY BoundsAssumption DEF Init
<1> QED  BY <1>3, <1>4 DEF TInv, Init

-----------------------------------------------------------------------------
\* What a storage call does to its handler.

Creating == {"mkcode", "mkpkce", "mkoidc"}
Checked == {"getpkce", "delpkce", "getcode2", "jticheck2", "invfind", "insjti"}
Verified == {"getcode2", "jticheck2", "invfind", "insjti"}
\* Handlers that have read the row of their code, and those about to.
Reading == {"jticheck"} \cup Checked
Presenting == {"getcode"} \cup Reading

\* Where a handler comes from, and what it has read by then.
Follows(w) ==
  LET j == job[w] IN
  /\ pc'[w] # "mkcode"
  /\ pc'[w] \in {"mkpkce", "mkoidc"} => pc[w] \in Creating
  /\ pc'[w] \in Presenting => pc[w] \in Presenting
  /\ pc'[w] \in Reading =>
       \/ pc[w] \in Reading /\ job'[w].exp = j.exp
       \/ pc[w] = "getcode" /\ code[j.code].present /\ job'[w].exp = code[j.code].exp
  /\ pc'[w] \in Checked => pc[w] \in Checked \/ (pc[w] = "jticheck" /\ now <= j.exp)
  /\ pc'[w] \in Verified => pc[w] \in Verified \/ j.verifier = "right" \/ ~enforcePKCE
Advances(w) ==
  /\ pc' \in [Workers -> PCs] /\ job' \in [Workers -> Job]
  /\ \A v \in Workers : v # w => pc'[v] = pc[v] /\ job'[v] = job[v]
  /\ pc[w] # "idle"
  /\ pc'[w] # "idle" => job'[w].code = job[w].code /\ job'[w].since = job[w].since
  /\ pc'[w] \in Presenting => job'[w].verifier = job[w].verifier
  /\ Running(w)' => Running(w)
  /\ Follows(w)

LEMMA ReplyAdvances ==
  ASSUME TInv, NEW w \in Workers, pc[w] # "idle", Running(w), NEW r \in Replies, Reply(w, r)
  PROVE  Advances(w) /\ pc'[w] = "replied"
<1>1. pc \in [Workers -> PCs] /\ job \in [Workers -> Job] /\ job[w] \in Job
  BY DEF TInv, TypeOK
<1>2. pc' \in [Workers -> PCs] /\ pc'[w] = "replied" /\ \A v \in Workers : v # w => pc'[v] = pc[v]
  BY <1>1 DEF Reply, Goto, PCs
<1> DEFINE answer == [NoJob EXCEPT !.code = job[w].code, !.reply = r, !.since = job[w].since]
<1>a. answer \in Job
  BY <1>1, NoJobType DEF Job
<1>b. answer.code = job[w].code /\ answer.since = job[w].since
  BY DEF NoJob
<1>3. PICK j \in Job : j = answer /\ j.code = job[w].code /\ j.since = job[w].since
  BY <1>a, <1>b
<1>4. job' = [job EXCEPT ![w] = j]
  BY <1>3 DEF Reply
<1>5. job' \in [Workers -> Job] /\ job'[w] = j /\ \A v \in Workers : v # w => job'[v] = job[v]
  BY <1>1, <1>3, <1>4
<1> QED  BY <1>2, <1>3, <1>5 DEF Advances, Follows, Running, Presenting, Reading, Checked, Verified

\* The next call of a handler; only GetAuthorizeCodeSession adds to its locals.
LEMMA GotoAdvances ==
  ASSUME TInv, NEW w \in Workers, NEW p \in PCs \ {"idle", "replied", "mkcode"}, Goto(w, p),
         UNCHANGED job, Running(w),
         p \in {"mkpkce", "mkoidc"} => pc[w] \in Creating,
         p \in Presenting => pc[w] \in Reading,
         p \in Checked => pc[w] \in Checked \/ (pc[w] = "jticheck" /\ now <= job[w].exp),
         p \in Verified => pc[w] \in Verified \/ job[w].verifier = "right" \/ ~enforcePKCE
  PROVE  Advances(w) /\ pc'[w] = p
<1>1. pc \in [Workers -> PCs] /\ job \in [Workers -> Job]
  BY DEF TInv, TypeOK
<1>2. pc' \in [Workers -> PCs] /\ pc'[w] = p /\ \A v \in Workers : v # w => pc'[v] = pc[v]
  BY <1>1 DEF Goto
<1> QED  BY <1>1, <1>2 DEF Advances, Follows, Running, Presenting, Reading

-----------------------------------------------------------------------------
\* What a storage call does to the tables.

Stored(w) ==
  code' = [code EXCEPT ![job[w].code] = [present |-> TRUE, exp |-> CodeExpiry,
                                         scopes |-> job[w].scopes]]
\* The redirect that carries the code.
Delivers(w) ==
  /\ pc[w] \in Creating /\ pc'[w] = "replied"
  /\ pc[w] = "mkcode" => Stored(w)
  /\ \E k \in {"plain", "challenged"} : known' = [known EXCEPT ![job[w].code] = k]
\* The invalidation lets a handler go on to issue tokens.
Passes(w) ==
  LET c == job[w].code IN
  /\ pc'[w] = "mkaccess"
  /\ exchanges' = [exchanges EXCEPT ![c] = Append(@, w)]
  /\ unverified' = IF known[c] = "challenged" /\ job[w].verifier # "right"
                   THEN unverified \cup {c} ELSE unverified
  /\ \/ pc[w] = "invfind" /\ ~code[c].present /\ UNCHANGED jti
     \/ pc[w] = "insjti" /\ ~Spent(c) /\ jti' = [jti EXCEPT ![c] = job[w].exp]
Writes(w) ==
  /\ UNCHANGED code \/ (pc[w] = "mkcode" /\ Stored(w))
  /\ pc[w] = "mkcode" /\ pc'[w] \in {"mkpkce", "mkoidc"} => Stored(w)
  /\ UNCHANGED known \/ Delivers(w)
  /\ UNCHANGED <<jti, exchanges, unverified>> \/ Passes(w)
  /\ replayed' \subseteq Codes /\ failed' \subseteq Codes /\ dead' \subseteq Codes
  /\ pkce' \subseteq Codes /\ oidc' \subseteq Codes
  /\ access' \subseteq Codes /\ refresh' \subseteq Codes
  /\ UNCHANGED <<now, enforcePKCE>>

LEMMA HandleFacts ==
  ASSUME TInv, NEW w \in Workers, Handle(w)
  PROVE  Advances(w) /\ Writes(w)
<1> DEFINE c == job[w].code
<1>t. /\ pc \in [Workers -> PCs] /\ job \in [Workers -> Job] /\ job[w] \in Job
      /\ code \in [Codes -> CodeRow] /\ enforcePKCE \in BOOLEAN
      /\ pkce \subseteq Codes /\ oidc \subseteq Codes
      /\ access \subseteq Codes /\ refresh \subseteq Codes /\ dead \subseteq Codes
      /\ replayed \subseteq Codes /\ failed \subseteq Codes
  BY DEF TInv, TypeOK
<1>c. pc[w] # "idle" => c \in Codes
  BY DEF TInv
<1>p. {"error", "code", "invalid_grant", "replay", "tokens", "tokens+id"} \subseteq Replies
  BY DEF Replies
<1>r. ASSUME Running(w), NEW r \in Replies, Reply(w, r) PROVE Advances(w) /\ pc'[w] = "replied"
  BY <1>r, ReplyAdvances DEF Running
<1>g. ASSUME Running(w), NEW p \in PCs \ {"idle", "replied", "mkcode"}, Goto(w, p), UNCHANGED job,
             p \in {"mkpkce", "mkoidc"} => pc[w] \in Creating,
             p \in Presenting => pc[w] \in Reading,
             p \in Checked => pc[w] \in Checked \/ (pc[w] = "jticheck" /\ now <= job[w].exp),
             p \in Verified => pc[w] \in Verified \/ job[w].verifier = "right" \/ ~enforcePKCE
      PROVE  Advances(w) /\ pc'[w] = p
  BY <1>g, GotoAdvances
<1> USE DEF Creating, Checked, Verified, Reading, Presenting, Running, PCs
<1>1. CASE CreateAuthorizeCodeSession(w)
  BY <1>1, <1>t, <1>c, <1>p, <1>r, <1>g
     DEF CreateAuthorizeCodeSession, Deliver, Stored, Delivers, Writes, Tokens
<1>2. CASE CreatePKCERequestSession(w)
  BY <1>2, <1>t, <1>c, <1>p, <1>r, <1>g
     DEF CreatePKCERequestSession, Deliver, Delivers, Writes, Tokens
<1>3. CASE CreateOpenIDConnectSession(w)
  BY <1>3, <1>t, <1>c, <1>p, <1>r, <1>g
     DEF CreateOpenIDConnectSession, Deliver, Delivers, Writes, Tokens
<1>4. CASE GetCode(w)
  <2>1. CASE Reply(w, "invalid_grant")
    BY <1>4, <1>t, <1>p, <1>r, <2>1 DEF GetCode, Writes, Rows, Tokens, Past
  <2>2. CASE /\ code[c].present /\ Goto(w, "jticheck")
             /\ job' = [job EXCEPT ![w].scopes = code[c].scopes, ![w].exp = code[c].exp]
    <3>1. code[c] \in CodeRow /\ pc[w] = "getcode"
      BY <1>4, <1>t, <1>c DEF GetCode
    <3> DEFINE j == [job[w] EXCEPT !.scopes = code[c].scopes, !.exp = code[c].exp]
    <3>2. /\ j \in Job /\ j.code = c /\ j.since = job[w].since /\ j.verifier = job[w].verifier
          /\ j.exp = code[c].exp
      BY <1>t, <3>1 DEF Job, CodeRow
    <3>3. job' = [job EXCEPT ![w] = j]
      BY <1>t, <2>2 DEF Job
    <3>4. job' \in [Workers -> Job] /\ job'[w] = j /\ \A v \in Workers : v # w => job'[v] = job[v]
      BY <1>t, <3>2, <3>3
    <3>5. pc' \in [Workers -> PCs] /\ pc'[w] = "jticheck" /\ \A v \in Workers : v # w => pc'[v] = pc[v]
      BY <1>t, <2>2 DEF Goto
    <3>6. Advances(w)
      BY <2>2, <3>1, <3>2, <3>4, <3>5 DEF Advances, Follows
    <3> QED  BY <1>4, <1>t, <3>1, <3>5, <3>6 DEF GetCode, Writes, Rows, Tokens, Past
  <2> QED  BY <1>4, <2>1, <2>2 DEF GetCode
<1>5. CASE CheckSpent(w)
  BY <1>5, <1>t, <1>p, <1>r, <1>g DEF CheckSpent, Writes, Rows, Tokens, Past
<1>6. CASE GetPKCERequestSession(w)
  BY <1>6, <1>t, <1>p, <1>r, <1>g DEF GetPKCERequestSession, Writes, Rows, Tokens, Past
<1>7. CASE DeletePKCERequestSession(w)
  BY <1>7, <1>t, <1>p, <1>r, <1>g DEF DeletePKCERequestSession, Writes, Tokens, Past
<1>8. CASE GetCodeAgain(w)
  BY <1>8, <1>t, <1>p, <1>r, <1>g DEF GetCodeAgain, Writes, Rows, Tokens, Past
<1>9. CASE CheckSpentAgain(w)
  BY <1>9, <1>t, <1>p, <1>r, <1>g DEF CheckSpentAgain, Writes, Rows, Tokens, Past
<1>10. CASE InvalidateFind(w)
  BY <1>10, <1>t, <1>p, <1>r, <1>g DEF InvalidateFind, PassInvalidation, Passes, Writes, Rows, Tokens
<1>11. CASE InsertJTI(w)
  BY <1>11, <1>t, <1>p, <1>r, <1>g DEF InsertJTI, PassInvalidation, Passes, Writes, Tokens
<1>12. CASE CreateAccessTokenSession(w)
  BY <1>12, <1>t, <1>c, <1>p, <1>r, <1>g
     DEF CreateAccessTokenSession, NextAfterTokens, Writes, Rows, Past
<1>13. CASE CreateRefreshTokenSession(w)
  BY <1>13, <1>t, <1>c, <1>p, <1>r, <1>g
     DEF CreateRefreshTokenSession, NextAfterTokens, Writes, Rows, Past
<1>14. CASE GetOpenIDConnectSession(w)
  BY <1>14, <1>t, <1>p, <1>r, <1>g DEF GetOpenIDConnectSession, Writes, Rows, Tokens, Past
<1>15. CASE DeleteOpenIDConnectSession(w)
  BY <1>15, <1>t, <1>p, <1>r, <1>g DEF DeleteOpenIDConnectSession, Writes, Tokens, Past
<1>16. CASE RevokeAccessToken(w)
  BY <1>16, <1>t, <1>c, <1>g DEF RevokeAccessToken, Fails, Writes, Rows
<1>17. CASE RevokeCommit(w)
  BY <1>17, <1>t, <1>c, <1>p, <1>r, <1>g DEF RevokeCommit, Fails, Replayed, Writes, Rows
<1>18. CASE RevokeRows(w)
  BY <1>18, <1>t, <1>c, <1>p, <1>r, <1>g DEF RevokeRows, Fails, Replayed, Writes, Rows
<1>19. CASE Finish(w)
  <2>1. /\ pc' \in [Workers -> PCs] /\ pc'[w] = "idle"
        /\ \A v \in Workers : v # w => pc'[v] = pc[v]
    BY <1>19, <1>t DEF Finish, Goto
  <2>2. job' \in [Workers -> Job] /\ \A v \in Workers : v # w => job'[v] = job[v]
    BY <1>19, <1>t, NoJobType DEF Finish
  <2>3. Advances(w)
    BY <1>19, <2>1, <2>2 DEF Finish, Advances, Follows
  <2> QED  BY <1>19, <1>t, <2>1, <2>3 DEF Finish, Writes, Rows, Tokens, Past
<1>20. CASE Abort(w)
  BY <1>20, <1>t, <1>c, <1>p, <1>r DEF Abort, Fails, Writes, Rows, Tokens
<1> QED
  BY <1>1, <1>2, <1>3, <1>4, <1>5, <1>6, <1>7, <1>8, <1>9, <1>10, <1>11, <1>12, <1>13,
     <1>14, <1>15, <1>16, <1>17, <1>18, <1>19, <1>20 DEF Handle

\* A handler that starts.
LEMMA BeginFacts ==
  ASSUME TInv, NEW w \in Workers, NEW j \in Job, NEW p \in PCs, Goto(w, p),
         job' = [job EXCEPT ![w] = j]
  PROVE  /\ pc' \in [Workers -> PCs] /\ job' \in [Workers -> Job]
         /\ pc'[w] = p /\ job'[w] = j
         /\ \A u \in Workers : u # w => pc'[u] = pc[u] /\ job'[u] = job[u]
BY DEF TInv, TypeOK, Goto

LEMMA IssueFacts ==
  ASSUME TInv, NEW w \in Workers, NEW c \in Codes, NEW S \in ScopeSets, NEW ch \in BOOLEAN,
         BeginIssue(w, c, S, ch)
  PROVE  /\ pc' \in [Workers -> PCs] /\ job' \in [Workers -> Job]
         /\ pc'[w] = "mkcode" /\ job'[w].code = c /\ job'[w].since = now
         /\ \A u \in Workers : u # w => pc'[u] = pc[u] /\ job'[u] = job[u]
<1> DEFINE first == [NoJob EXCEPT !.code = c, !.scopes = S, !.challenge = ch, !.since = now]
<1>0. now \in Nat /\ S \in SUBSET {"openid", "offline"}
  BY NamesAssumption, BoundsAssumption DEF TInv, TypeOK
<1>1. first \in Job
  BY <1>0, NoJobType DEF Job
<1>2. first.code = c /\ first.since = now
  BY DEF NoJob
<1>3. PICK j \in Job : j = first /\ j.code = c /\ j.since = now
  BY <1>1, <1>2
<1>4. Goto(w, "mkcode") /\ job' = [job EXCEPT ![w] = j] /\ "mkcode" \in PCs
  BY <1>3 DEF BeginIssue, PCs
<1> QED  BY <1>3, <1>4, BeginFacts

LEMMA ExchangeFacts ==
  ASSUME TInv, NEW w \in Workers, NEW c \in Codes, NEW v \in Verifiers, BeginExchange(w, c, v)
  PROVE  /\ pc' \in [Workers -> PCs] /\ job' \in [Workers -> Job]
         /\ pc'[w] = "getcode" /\ job'[w].code = c /\ job'[w].since = now
         /\ \A u \in Workers : u # w => pc'[u] = pc[u] /\ job'[u] = job[u]
<1> DEFINE first == [NoJob EXCEPT !.code = c, !.verifier = v, !.since = now]
<1>0. now \in Nat
  BY BoundsAssumption DEF TInv, TypeOK
<1>1. first \in Job
  BY <1>0, NoJobType DEF Job
<1>2. first.code = c /\ first.since = now
  BY DEF NoJob
<1>3. PICK j \in Job : j = first /\ j.code = c /\ j.since = now
  BY <1>1, <1>2
<1>4. Goto(w, "getcode") /\ job' = [job EXCEPT ![w] = j] /\ "getcode" \in PCs
  BY <1>3 DEF BeginExchange, PCs
<1> QED  BY <1>3, <1>4, BeginFacts

LEMMA TypeNext == TInv /\ [Next]_vars => TInv'
<1> SUFFICES ASSUME TInv, [Next]_vars PROVE TInv'
  OBVIOUS
<1>t. TypeOK /\ enforcePKCE \in BOOLEAN /\ \A w \in Workers : pc[w] # "idle" => job[w].code \in Codes
  BY DEF TInv
<1>n. now \in Nat /\ CodeExpiry \in Nat
  BY <1>t, BoundsAssumption DEF TypeOK, CodeExpiry
<1>k. {"unborn", "lost", "plain", "challenged"} \subseteq Known
  BY DEF Known
<1>1. ASSUME NEW w \in Workers, NEW c \in Codes, NEW S \in ScopeSets, NEW ch \in BOOLEAN,
             BeginIssue(w, c, S, ch)
      PROVE  TInv'
  <2>1. /\ pc' \in [Workers -> PCs] /\ job' \in [Workers -> Job]
        /\ pc'[w] = "mkcode" /\ job'[w].code = c
        /\ \A u \in Workers : u # w => pc'[u] = pc[u] /\ job'[u] = job[u]
    BY <1>1, IssueFacts
  <2>2. known' \in [Codes -> Known]
    BY <1>1, <1>t, <1>k DEF BeginIssue, TypeOK
  <2> QED  BY <1>1, <1>t, <2>1, <2>2 DEF BeginIssue, Rows, Tokens, TInv, TypeOK
<1>2. ASSUME NEW w \in Workers, NEW c \in Codes, NEW v \in Verifiers, BeginExchange(w, c, v)
      PROVE  TInv'
  <2>1. /\ pc' \in [Workers -> PCs] /\ job' \in [Workers -> Job]
        /\ pc'[w] = "getcode" /\ job'[w].code = c
        /\ \A u \in Workers : u # w => pc'[u] = pc[u] /\ job'[u] = job[u]
    BY <1>2, ExchangeFacts
  <2> QED  BY <1>2, <1>t, <2>1 DEF BeginExchange, Rows, Tokens, Past, TInv, TypeOK
<1>3. ASSUME NEW w \in Workers, Handle(w) PROVE TInv'
  <2>1. Advances(w) /\ Writes(w)
    BY <1>3, HandleFacts
  <2>2. job[w].code \in Codes /\ job[w] \in Job
    BY <1>t, <2>1 DEF Advances, TypeOK
  <2>3. code' \in [Codes -> CodeRow]
    <3>1. [present |-> TRUE, exp |-> CodeExpiry, scopes |-> job[w].scopes] \in CodeRow
      BY <1>n, <2>2 DEF CodeRow, Job
    <3> QED  BY <1>t, <2>1, <2>2, <3>1 DEF Writes, Stored, TypeOK
  <2>4. known' \in [Codes -> Known]
    <3>1. known \in [Codes -> Known]
      BY <1>t DEF TypeOK
    <3>2. known' = known \/ \E k \in Known : known' = [known EXCEPT ![job[w].code] = k]
      BY <1>k, <2>1 DEF Writes, Delivers
    <3> QED  BY <3>1, <3>2
  <2>5. jti' \in [Codes -> Nat \cup {-1}] /\ exchanges' \in [Codes -> Seq(Workers)] /\ unverified' \subseteq Codes
    <3>1. CASE UNCHANGED <<jti, exchanges, unverified>>
      BY <1>t, <3>1 DEF TypeOK
    <3>2. CASE Passes(w)
      <4>1. jti' \in [Codes -> Nat \cup {-1}] /\ unverified' \subseteq Codes
        BY <1>t, <2>2, <3>2 DEF Passes, TypeOK, Job
      <4>2. Append(exchanges[job[w].code], w) \in Seq(Workers)
        BY <1>t, <2>2 DEF TypeOK
      <4> QED  BY <1>t, <2>2, <3>2, <4>1, <4>2 DEF Passes, TypeOK
    <3> QED  BY <2>1, <3>1, <3>2 DEF Writes
  <2>6. \A u \in Workers : pc'[u] # "idle" => job'[u].code \in Codes
    BY <1>t, <2>1, <2>2 DEF Advances
  <2>7. dead' \subseteq Codes /\ replayed' \subseteq Codes /\ failed' \subseteq Codes
    BY <2>1 DEF Writes
  <2> QED  BY <1>t, <2>1, <2>3, <2>4, <2>5, <2>6, <2>7 DEF Advances, Writes, TInv, TypeOK
<1>4. ASSUME NEW c \in Codes, Cleanup(c) PROVE TInv'
  <2>1. NoCode \in CodeRow
    BY DEF NoCode, CodeRow
  <2>2. code' \in [Codes -> CodeRow] /\ jti' \in [Codes -> Nat \cup {-1}] /\ pkce' \subseteq Codes /\ oidc' \subseteq Codes
    BY <1>t, <1>4, <2>1 DEF Cleanup, CleanupCode, CleanupJTI, CleanupPKCE, CleanupOpenID, TypeOK
  <2>3. UNCHANGED <<Tokens, now, pc, job, Past>>
    BY <1>4 DEF Cleanup, CleanupCode, CleanupJTI, CleanupPKCE, CleanupOpenID
  <2> QED  BY <1>t, <2>2, <2>3 DEF Tokens, Past, TInv, TypeOK
<1>5. CASE Tick
  BY <1>5, <1>t, <1>n, BoundsAssumption DEF Tick, Rows, Tokens, Past, TInv, TypeOK
<1>6. CASE UNCHANGED vars
  BY <1>6, <1>t DEF vars, TInv, TypeOK
<1> QED  BY <1>1, <1>2, <1>3, <1>4, <1>5, <1>6 DEF Next

\* The tables and the handlers of the codes keep their types.
THEOREM TypeCorrect == Spec => []TypeOK
BY TypeInit, TypeNext, PTL DEF Spec, TInv

-----------------------------------------------------------------------------
\* A challenge is answered.

\* Past the PKCE row of an enforced challenge a handler has shown its verifier.
Answered ==
  enforcePKCE =>
    /\ unverified = {}
    /\ \A w \in Workers : pc[w] \in Verified => job[w].verifier = "right"

\* Under EnforcePKCE no challenge is passed over, also when the clean-up or another
\* handler took the PKCE row (GetPKCERequestSession, DeletePKCERequestSession).
THEOREM Challenged == Spec => []VerifierRequired
<1>1. Init => Answered
  BY DEF Init, Answered, Verified
<1>2. ASSUME TInv, Answered, [Next]_vars PROVE Answered'
  <2>1. ASSUME NEW w \in Workers, Handle(w) PROVE Answered'
    <3>1. Advances(w) /\ Writes(w)
      BY <1>2, <2>1, HandleFacts
    <3>2. enforcePKCE => unverified' = {}
      BY <1>2, <3>1 DEF Answered, Advances, Writes, Passes, Verified
    <3>3. enforcePKCE => \A v \in Workers : pc'[v] \in Verified => job'[v].verifier = "right"
      BY <1>2, <3>1 DEF Answered, Advances, Follows, Verified, Presenting, Reading, Checked
    <3> QED  BY <3>1, <3>2, <3>3 DEF Answered, Writes
  <2>2. CASE UNCHANGED <<enforcePKCE, unverified, pc, job>>
    BY <1>2, <2>2 DEF Answered
  <2>3. ASSUME NEW w \in Workers, NEW c \in Codes, NEW S \in ScopeSets, NEW ch \in BOOLEAN,
               BeginIssue(w, c, S, ch)
        PROVE  Answered'
    BY <1>2, <2>3, IssueFacts DEF BeginIssue, Answered, Verified
  <2>4. ASSUME NEW w \in Workers, NEW c \in Codes, NEW v \in Verifiers, BeginExchange(w, c, v)
        PROVE  Answered'
    BY <1>2, <2>4, ExchangeFacts DEF BeginExchange, Past, Answered, Verified
  <2> QED
    BY <1>2, <2>1, <2>2, <2>3, <2>4
       DEF Next, Cleanup, CleanupCode, CleanupJTI, CleanupPKCE, CleanupOpenID, Tick, vars, Past
<1>3. Answered => VerifierRequired
  BY DEF Answered, VerifierRequired
<1> QED  BY <1>1, <1>2, <1>3, TypeInit, TypeNext, PTL DEF Spec

-----------------------------------------------------------------------------
\* A spent code is remembered.

Issued == {"plain", "challenged"}

\* A handler ends within MaxPause.
Timely(w) == Running(w) => job[w].since <= now /\ now <= job[w].since + MaxPause

\* One login at a time creates a code, and its row is there when it is delivered.
Login(w) ==
  LET c == job[w].code IN
  /\ pc[w] \in Creating => known[c] = "lost"
  /\ pc[w] = "mkcode" => ~code[c].present
  /\ pc[w] \in {"mkpkce", "mkoidc"} => code[c].present /\ job[w].since + CodeLife <= code[c].exp
OneLogin == \A v, w \in Workers :
  pc[v] \in Creating /\ pc[w] \in Creating /\ job[v].code = job[w].code => v = w

\* What a handler read of a code still holds, or the code has expired.
Current(w) ==
  LET c == job[w].code IN
  /\ pc[w] \in Presenting => known[c] \in Issued
  /\ pc[w] \in Reading => IF code[c].present THEN code[c].exp = job[w].exp ELSE job[w].exp < now

\* A code is presented, and exchanged, after it was issued; as long as it is
\* valid its JTI row is there and it was exchanged once.
CodeOK(c) ==
  /\ known[c] = "unborn" => ~code[c].present
  /\ exchanges[c] # <<>> => known[c] \in Issued
  /\ exchanges[c] # <<>> /\ code[c].present => jti[c] = code[c].exp \/ code[c].exp < now
  /\ code[c].present => Len(exchanges[c]) <= 1 \/ code[c].exp < now

CodeInv ==
  /\ TInv /\ OneLogin
  /\ \A w \in Workers : Timely(w) /\ Login(w) /\ Current(w)
  /\ \A c \in Codes : CodeOK(c)

LEMMA CodeInit == Init => CodeInv
<1> SUFFICES ASSUME Init PROVE CodeInv
  OBVIOUS
<1>1. OneLogin /\ \A w \in Workers : Timely(w) /\ Login(w) /\ Current(w)
  BY DEF Init, OneLogin, Timely, Running, Login, Current, Creating, Presenting, Reading, Checked
<1>2. \A c \in Codes : CodeOK(c)
  BY DEF Init, NoCode, CodeOK
<1> QED  BY <1>1, <1>2, TypeInit DEF CodeInv

\* A call of a handler, of which the others notice nothing.
LEMMA CodeHandle ==
  ASSUME CodeInv, NEW w \in Workers, Handle(w)
  PROVE  /\ OneLogin' /\ \A v \in Workers : Timely(v)' /\ Login(v)' /\ Current(v)'
         /\ \A c \in Codes : CodeOK(c)'
<1>t. /\ pc \in [Workers -> PCs] /\ job \in [Workers -> Job] /\ code \in [Codes -> CodeRow]
      /\ known \in [Codes -> Known] /\ exchanges \in [Codes -> Seq(Workers)]
      /\ jti \in [Codes -> Nat \cup {-1}] /\ now \in Nat
      /\ \A v \in Workers : pc[v] # "idle" => job[v].code \in Codes
  BY BoundsAssumption DEF CodeInv, TInv, TypeOK
<1>i. /\ OneLogin /\ \A v \in Workers : Timely(v) /\ Login(v) /\ Current(v)
      /\ \A c \in Codes : CodeOK(c)
  BY DEF CodeInv
<1>f. Advances(w) /\ Writes(w) /\ pc[w] # "idle" /\ job[w].code \in Codes
  BY <1>t, HandleFacts DEF CodeInv, Advances
<1>s. job[w].since \in Nat /\ job[w].exp \in Nat /\ CodeLife \in Nat /\ MaxPause \in Nat
  BY <1>t, BoundsAssumption DEF Job
<1> DEFINE d == job[w].code
\* The row of another code does not change; of its own a login writes the first.
<1>1. /\ \A c \in Codes : c # d => code'[c] = code[c] /\ known'[c] = known[c]
                                /\ exchanges'[c] = exchanges[c] /\ jti'[c] = jti[c]
      /\ code'[d] = code[d] \/ (pc[w] = "mkcode" /\ code'[d].present /\ code'[d].exp = now + CodeLife)
  BY <1>t, <1>f DEF Writes, Stored, Delivers, Passes, CodeExpiry
<1>2. \A v \in Workers : Timely(v)'
  BY <1>i, <1>f DEF Timely, Running, Advances, Writes
<1>3. OneLogin'
  BY <1>i, <1>f DEF OneLogin, Advances, Follows, Creating
<1>4. ASSUME NEW v \in Workers, v # w PROVE Login(v)'
  <2>1. CASE pc[v] \in Creating /\ job[v].code = d
    <3>1. known[d] = "lost" /\ pc[w] \notin Creating
      BY <1>i, <1>4, <2>1 DEF Login, OneLogin
    <3>2. UNCHANGED <<code, known>>
      BY <1>f, <3>1 DEF Writes, Delivers, Creating
    <3> QED  BY <1>i, <1>f, <1>4, <3>2 DEF Login, Advances
  <2>2. CASE ~(pc[v] \in Creating /\ job[v].code = d)
    BY <1>i, <1>t, <1>f, <1>1, <1>4, <2>2 DEF Login, Advances, Creating
  <2> QED  BY <2>1, <2>2
<1>5. Login(w)'
  <2>1. CASE pc'[w] \in {"mkpkce", "mkoidc"}
    <3>1. pc[w] \in Creating /\ UNCHANGED known /\ job'[w].code = d /\ job'[w].since = job[w].since
      BY <1>f, <2>1 DEF Advances, Follows, Writes, Delivers
    <3>2. CASE pc[w] = "mkcode"
      <4>1. code'[d].present /\ code'[d].exp = now + CodeLife
        BY <1>t, <1>f, <2>1, <3>2 DEF Writes, Stored, CodeExpiry
      <4>2. job[w].since <= now
        BY <1>i, <3>2 DEF Timely, Running
      <4> QED  BY <1>i, <1>t, <1>s, <2>1, <3>1, <4>1, <4>2 DEF Login
    <3>3. CASE pc[w] # "mkcode"
      BY <1>i, <1>1, <2>1, <3>1, <3>3 DEF Login, Creating
    <3> QED  BY <3>2, <3>3
  <2>2. CASE pc'[w] \notin {"mkpkce", "mkoidc"}
    BY <1>f, <2>2 DEF Advances, Follows, Login, Creating
  <2> QED  BY <2>1, <2>2
<1>6. ASSUME NEW v \in Workers, pc[v] \in Presenting, job[v].code = d
      PROVE  known'[d] = known[d] /\ known[d] \in Issued /\ code'[d] = code[d]
  <2>1. known[d] \in Issued /\ pc[w] \notin Creating
    BY <1>i, <1>6 DEF Current, Login, Issued
  <2> QED  BY <1>f, <1>1, <2>1 DEF Writes, Delivers, Creating
<1>7. ASSUME NEW v \in Workers, v # w PROVE Current(v)'
  <2>1. pc'[v] = pc[v] /\ job'[v] = job[v] /\ UNCHANGED now /\ Current(v)
    BY <1>i, <1>f, <1>7 DEF Advances, Writes
  <2>2. CASE pc[v] \in Presenting
    <3>1. job[v].code \in Codes
      BY <1>t, <2>2 DEF Presenting, Reading, Checked
    <3>2. code'[job[v].code] = code[job[v].code] /\ known'[job[v].code] = known[job[v].code]
      BY <1>1, <1>6, <1>7, <2>2, <3>1
    <3> QED  BY <2>1, <3>2 DEF Current
  <2>3. CASE pc[v] \notin Presenting
    BY <2>1, <2>3 DEF Current, Presenting
  <2> QED  BY <2>2, <2>3
<1>8. Current(w)'
  <2>1. CASE pc'[w] \in Presenting
    <3>1. pc[w] \in Presenting /\ job'[w].code = d /\ UNCHANGED now
      BY <1>f, <2>1 DEF Advances, Follows, Presenting, Reading, Checked, Writes
    <3>2. known'[d] \in Issued /\ code'[d] = code[d]
      BY <1>6, <3>1
    <3>3. pc'[w] \in Reading => IF code[d].present THEN code[d].exp = job'[w].exp ELSE job'[w].exp < now
      BY <1>i, <1>f DEF Advances, Follows, Current
    <3> QED  BY <3>1, <3>2, <3>3 DEF Current
  <2>2. CASE pc'[w] \notin Presenting
    BY <2>2 DEF Current, Presenting
  <2> QED  BY <2>1, <2>2
<1>9. ASSUME NEW c \in Codes PROVE CodeOK(c)'
  <2>n. code[c].exp \in Nat /\ UNCHANGED now
    BY <1>t, <1>f DEF CodeRow, Writes
  <2>1. CASE c # d
    BY <1>i, <1>1, <2>n, <2>1 DEF CodeOK
  <2>2. CASE c = d /\ pc[w] \in Creating
    <3>1. known[c] = "lost" /\ exchanges[c] = <<>> /\ exchanges'[c] = <<>>
      <4>1. known[c] = "lost" /\ exchanges[c] = <<>>
        BY <1>i, <2>2 DEF Login, CodeOK, Issued
      <4> QED  BY <1>f, <2>2, <4>1 DEF Writes, Passes, Creating
    <3>2. known'[c] # "unborn"
      BY <1>t, <1>f, <2>2, <3>1 DEF Writes, Delivers
    <3> QED  BY <3>1, <3>2 DEF CodeOK
  <2>3. CASE c = d /\ pc[w] \notin Creating
    <3>1. UNCHANGED <<code, known>>
      BY <1>f, <2>3 DEF Writes, Delivers, Creating
    <3>2. CASE UNCHANGED <<jti, exchanges>>
      BY <1>i, <2>n, <3>1, <3>2 DEF CodeOK
    <3>3. CASE Passes(w)
      <4>1. pc[w] \in Reading /\ pc[w] \in Presenting
        BY <3>3 DEF Passes, Presenting, Reading, Checked
      <4>2. known[c] \in Issued /\ (code[c].present => code[c].exp = job[w].exp)
        BY <1>i, <2>3, <4>1 DEF Current
      <4>3. exchanges'[c] = Append(exchanges[c], w) /\ Len(exchanges'[c]) = Len(exchanges[c]) + 1
        BY <1>t, <2>3, <3>3 DEF Passes
      <4>4. CASE ~code[c].present
        BY <1>i, <3>1, <4>2, <4>4 DEF CodeOK, Issued
      <4>5. CASE code[c].present
        <5>1. ~Spent(c) /\ jti'[c] = job[w].exp
          BY <1>t, <2>3, <3>3, <4>5 DEF Passes
        <5>2. exchanges[c] = <<>> \/ code[c].exp < now
          BY <1>i, <2>n, <4>5, <5>1 DEF CodeOK, Spent
        <5>3. Len(exchanges'[c]) <= 1 \/ code[c].exp < now
          BY <4>3, <5>2
        <5> QED  BY <2>n, <3>1, <4>2, <4>5, <5>1, <5>3 DEF CodeOK, Issued
      <4> QED  BY <4>4, <4>5
    <3> QED  BY <1>f, <3>2, <3>3 DEF Writes
  <2> QED  BY <2>1, <2>2, <2>3
<1> QED  BY <1>2, <1>3, <1>4, <1>5, <1>7, <1>8, <1>9

LEMMA CodeNext == CodeInv /\ [Next]_vars => CodeInv'
<1> SUFFICES ASSUME CodeInv, [Next]_vars PROVE CodeInv'
  OBVIOUS
<1>t. /\ TInv /\ TInv'
      /\ pc \in [Workers -> PCs] /\ job \in [Workers -> Job] /\ code \in [Codes -> CodeRow]
      /\ known \in [Codes -> Known] /\ jti \in [Codes -> Nat \cup {-1}] /\ now \in Nat
      /\ \A v \in Workers : pc[v] # "idle" => job[v].code \in Codes
  BY TypeNext, BoundsAssumption DEF CodeInv, TInv, TypeOK
<1>i. /\ OneLogin /\ \A v \in Workers : Timely(v) /\ Login(v) /\ Current(v)
      /\ \A c \in Codes : CodeOK(c)
  BY DEF CodeInv
<1>s. /\ CodeLife \in Nat /\ MaxPause \in Nat /\ MaxPause <= CodeLife
      /\ \A v \in Workers : job[v].since \in Nat /\ job[v].exp \in Nat
      /\ \A c \in Codes : code[c].exp \in Nat
  BY <1>t, BoundsAssumption, LoginAssumption DEF Job, CodeRow
<1> DEFINE Rest == /\ OneLogin /\ \A v \in Workers : Timely(v) /\ Login(v) /\ Current(v)
                   /\ \A c \in Codes : CodeOK(c)
<1>1. ASSUME NEW w \in Workers, Handle(w) PROVE Rest'
  BY <1>1, CodeHandle
<1>2. ASSUME NEW w \in Workers, NEW c \in Codes, NEW S \in ScopeSets, NEW ch \in BOOLEAN,
             BeginIssue(w, c, S, ch)
      PROVE  Rest'
  <2>1. /\ pc'[w] = "mkcode" /\ job'[w].code = c /\ job'[w].since = now
        /\ \A u \in Workers : u # w => pc'[u] = pc[u] /\ job'[u] = job[u]
    BY <1>t, <1>2, IssueFacts
  <2>2. /\ known[c] = "unborn" /\ known' = [known EXCEPT ![c] = "lost"]
        /\ UNCHANGED <<code, jti, exchanges, now>>
    BY <1>2 DEF BeginIssue, Rows
  <2>3. ~code[c].present /\ exchanges[c] = <<>>
    BY <1>i, <2>2 DEF CodeOK, Issued
  <2>4. \A u \in Workers : pc[u] \in Creating \cup Presenting => job[u].code \in Codes /\ job[u].code # c
    BY <1>t, <1>i, <2>2 DEF Login, Current, Creating, Presenting, Reading, Checked, Issued
  <2>5. OneLogin'
    BY <1>i, <2>1, <2>4 DEF OneLogin
  <2>6. ASSUME NEW u \in Workers PROVE Timely(u)' /\ Login(u)' /\ Current(u)'
    <3>1. CASE u = w
      BY <1>t, <1>s, <2>1, <2>2, <2>3, <3>1
         DEF Timely, Running, Login, Current, Creating, Presenting, Reading, Checked
    <3>2. CASE u # w
      <4>1. pc[u] \in Creating \cup Presenting => known'[job[u].code] = known[job[u].code]
        BY <1>t, <2>2, <2>4
      <4> QED  BY <1>i, <2>1, <2>2, <3>2, <4>1
               DEF Timely, Running, Login, Current, Creating, Presenting, Reading
    <3> QED  BY <3>1, <3>2
  <2>7. \A k \in Codes : CodeOK(k)'
    BY <1>t, <1>i, <2>2, <2>3 DEF CodeOK
  <2> QED  BY <2>5, <2>6, <2>7
<1>3. ASSUME NEW w \in Workers, NEW c \in Codes, NEW v \in Verifiers, BeginExchange(w, c, v)
      PROVE  Rest'
  <2>1. /\ pc'[w] = "getcode" /\ job'[w].code = c /\ job'[w].since = now
        /\ \A u \in Workers : u # w => pc'[u] = pc[u] /\ job'[u] = job[u]
    BY <1>t, <1>3, ExchangeFacts
  <2>2. known[c] \in Issued /\ UNCHANGED <<code, jti, exchanges, known, now>>
    BY <1>3 DEF BeginExchange, Rows, Past, Issued
  <2>3. OneLogin' /\ \A k \in Codes : CodeOK(k)'
    BY <1>i, <2>1, <2>2 DEF OneLogin, CodeOK, Creating
  <2>4. ASSUME NEW u \in Workers PROVE Timely(u)' /\ Login(u)' /\ Current(u)'
    <3>1. CASE u = w
      BY <1>t, <1>s, <2>1, <2>2, <3>1
         DEF Timely, Running, Login, Current, Creating, Presenting, Reading, Checked
    <3>2. CASE u # w
      BY <1>i, <2>1, <2>2, <3>2 DEF Timely, Running, Login, Current
    <3> QED  BY <3>1, <3>2
  <2> QED  BY <2>3, <2>4
\* The clean-up takes only rows that have expired, and a login ends before its
\* code does.
<1>4. ASSUME NEW c \in Codes, Cleanup(c) PROVE Rest'
  <2>1. UNCHANGED <<pc, job, known, exchanges, now>>
    BY <1>4 DEF Cleanup, CleanupCode, CleanupJTI, CleanupPKCE, CleanupOpenID, Past
  <2>2. /\ \A k \in Codes : code'[k] # code[k] =>
             code[k].present /\ code[k].exp < now /\ ~code'[k].present
        /\ \A k \in Codes : jti'[k] # jti[k] => jti[k] < now
    BY <1>t, <1>4 DEF Cleanup, CleanupCode, CleanupJTI, CleanupPKCE, CleanupOpenID, NoCode
  <2>3. OneLogin'
    BY <1>i, <2>1 DEF OneLogin
  <2>4. ASSUME NEW u \in Workers PROVE Timely(u)' /\ Login(u)' /\ Current(u)'
    <3>1. Timely(u)'
      BY <1>i, <2>1 DEF Timely, Running
    <3>2. Login(u)'
      <4>1. CASE pc[u] \in {"mkpkce", "mkoidc"}
        <5>1. job[u].code \in Codes /\ ~(code[job[u].code].exp < now)
          BY <1>t, <1>i, <1>s, <4>1 DEF Login, Timely, Running
        <5> QED  BY <1>i, <2>1, <2>2, <4>1, <5>1 DEF Login
      <4>2. CASE pc[u] = "mkcode"
        BY <1>t, <1>i, <2>1, <2>2, <4>2 DEF Login
      <4>3. CASE pc[u] \notin Creating
        BY <2>1, <4>3 DEF Login, Creating
      <4> QED  BY <4>1, <4>2, <4>3 DEF Creating
    <3>3. Current(u)'
      <4>1. CASE pc[u] \in Presenting
        <5>1. job[u].code \in Codes
          BY <1>t, <4>1 DEF Presenting, Reading, Checked
        <5> QED  BY <1>i, <2>1, <2>2, <5>1 DEF Current
      <4>2. CASE pc[u] \notin Presenting
        BY <2>1, <4>2 DEF Current, Presenting
      <4> QED  BY <4>1, <4>2
    <3> QED  BY <3>1, <3>2, <3>3
  <2>5. ASSUME NEW k \in Codes PROVE CodeOK(k)'
    BY <1>i, <1>s, <2>1, <2>2 DEF CodeOK
  <2> QED  BY <2>3, <2>4, <2>5
<1>5. ASSUME Tick PROVE Rest'
  <2>1. now' = now + 1 /\ UNCHANGED <<pc, job, known, exchanges, code, jti>>
    BY <1>5 DEF Tick, Rows, Past
  <2>2. \A u \in Workers : Running(u) => now < job[u].since + MaxPause
    BY <1>5 DEF Tick
  <2>3. OneLogin'
    BY <1>i, <2>1 DEF OneLogin
  <2>4. ASSUME NEW u \in Workers PROVE Timely(u)' /\ Login(u)' /\ Current(u)'
    <3>1. Timely(u)'
      BY <1>t, <1>i, <1>s, <2>1, <2>2 DEF Timely, Running
    <3>2. Login(u)'
      BY <1>i, <2>1 DEF Login
    <3>3. Current(u)'
      BY <1>t, <1>i, <1>s, <2>1 DEF Current
    <3> QED  BY <3>1, <3>2, <3>3
  <2>5. ASSUME NEW k \in Codes PROVE CodeOK(k)'
    BY <1>t, <1>i, <1>s, <2>1 DEF CodeOK
  <2> QED  BY <2>3, <2>4, <2>5
<1>6. ASSUME UNCHANGED vars PROVE Rest'
  BY <1>6, <1>i DEF vars, OneLogin, Timely, Running, Login, Current, CodeOK
<1>7. Rest'
  BY <1>1, <1>2, <1>3, <1>4, <1>5, <1>6 DEF Next
<1> QED  BY <1>t, <1>7 DEF CodeInv

\* While a spent code could be presented in time its JTI row is there: the hourly
\* job takes the row of the code no later (InvalidateAuthorizeCodeSession).
THEOREM Remembered == Spec => []SpentIsRemembered
<1>1. CodeInv => SpentIsRemembered
  <2> SUFFICES ASSUME CodeInv, NEW c \in Codes,
                      exchanges[c] # <<>>, code[c].present, now <= code[c].exp
               PROVE  Spent(c)
    BY DEF SpentIsRemembered
  <2>1. code[c].exp \in Nat /\ now \in Nat
    BY BoundsAssumption DEF CodeInv, TInv, TypeOK, CodeRow
  <2> QED  BY <2>1 DEF CodeInv, CodeOK, Spent
<1> QED  BY <1>1, CodeInit, CodeNext, PTL DEF Spec

\* A code that is still valid was exchanged by one handler at most, for handlers of
\* any duration up to its lifetime (the unique index of the JTI table, registerCleanupJob).
THEOREM OnceInTime == Spec => []ValidIsOnce
<1>1. CodeInv => ValidIsOnce
  <2> SUFFICES ASSUME CodeInv, NEW c \in Codes, code[c].present, now <= code[c].exp
               PROVE  Len(exchanges[c]) <= 1
    BY DEF ValidIsOnce
  <2>1. code[c].exp \in Nat /\ now \in Nat
    BY BoundsAssumption DEF CodeInv, TInv, TypeOK, CodeRow
  <2> QED  BY <2>1 DEF CodeInv, CodeOK
<1> QED  BY <1>1, CodeInit, CodeNext, PTL DEF Spec

-----------------------------------------------------------------------------
\* A replay leaves no token row.

\* Handlers that know what the code asks for and have no token yet, and those of
\* an exchange that passed the invalidation.
Carrying == Reading \cup {"mkaccess"}
Minting == {"mkaccess", "mkrefresh"}

\* What a call does to the token rows of its code.
Mints(w) ==
  LET c == job[w].code IN
  /\ \A k \in Codes : k # c =>
       /\ (k \in access' <=> k \in access) /\ (k \in refresh' <=> k \in refresh)
       /\ (k \in dead' <=> k \in dead) /\ (k \in replayed' <=> k \in replayed)
  /\ failed \subseteq failed' /\ dead \subseteq dead'
  /\ c \in access' => c \in access \/ pc[w] = "mkaccess"
  /\ pc'[w] \in Minting => pc[w] \in Carrying
  /\ pc'[w] \in Carrying =>
       \/ pc[w] \in Carrying /\ job'[w].scopes = job[w].scopes
       \/ pc[w] = "getcode" /\ job'[w].scopes = code[c].scopes
  /\ c \notin failed' =>
       /\ c \in replayed' => c \in replayed \/ pc[w] = "revrefresh"
       /\ pc'[w] = "revrefresh" => c \in dead'
       /\ c \in refresh' /\ c \in dead' =>
            pc'[w] = "revrefresh" \/ (c \in refresh /\ c \in dead /\ pc[w] # "revrefresh")
       /\ c \in access' /\ c \notin refresh' =>
            \/ pc'[w] = "mkrefresh"
            \/ c \in access /\ c \notin refresh /\ pc[w] # "mkrefresh"
            \/ pc[w] = "mkaccess" /\ "offline" \notin job[w].scopes

LEMMA MintFacts ==
  ASSUME TInv, NEW w \in Workers, Handle(w)
  PROVE  Mints(w)
<1> DEFINE c == job[w].code
<1>t. /\ pc \in [Workers -> PCs] /\ job \in [Workers -> Job] /\ job[w] \in Job
      /\ pc[w] # "idle" => c \in Codes
  BY DEF TInv, TypeOK
<1>r. ASSUME NEW r \in Replies, Reply(w, r) PROVE pc'[w] = "replied"
  BY <1>t, <1>r DEF Reply, Goto
<1>g. ASSUME NEW p, Goto(w, p) PROVE pc'[w] = p
  BY <1>t, <1>g DEF Goto
<1>p. {"error", "code", "invalid_grant", "replay", "tokens", "tokens+id"} \subseteq Replies
  BY DEF Replies
<1> USE DEF Mints, Minting, Carrying, Reading, Checked
<1>1. CASE CreateAuthorizeCodeSession(w)
  BY <1>1, <1>p, <1>r, <1>g DEF CreateAuthorizeCodeSession, Deliver, Tokens
<1>2. CASE CreatePKCERequestSession(w)
  BY <1>2, <1>p, <1>r, <1>g DEF CreatePKCERequestSession, Deliver, Tokens
<1>3. CASE CreateOpenIDConnectSession(w)
  BY <1>3, <1>p, <1>r, <1>g DEF CreateOpenIDConnectSession, Deliver, Tokens
<1>4. CASE GetCode(w)
  <2>1. CASE Reply(w, "invalid_grant")
    BY <1>4, <1>p, <1>r, <2>1 DEF GetCode, Tokens, Past
  <2>2. CASE /\ code[c].present /\ Goto(w, "jticheck")
             /\ job' = [job EXCEPT ![w].scopes = code[c].scopes, ![w].exp = code[c].exp]
    <3>1. job'[w].scopes = code[c].scopes
      BY <1>t, <2>2 DEF Job
    <3> QED  BY <1>4, <1>g, <2>2, <3>1 DEF GetCode, Tokens, Past
  <2> QED  BY <1>4, <2>1, <2>2 DEF GetCode
<1>5. CASE CheckSpent(w)
  BY <1>5, <1>p, <1>r, <1>g DEF CheckSpent, Tokens, Past
<1>6. CASE GetPKCERequestSession(w)
  BY <1>6, <1>p, <1>r, <1>g DEF GetPKCERequestSession, Tokens, Past
<1>7. CASE DeletePKCERequestSession(w)
  BY <1>7, <1>p, <1>r, <1>g DEF DeletePKCERequestSession, Tokens, Past
<1>8. CASE GetCodeAgain(w)
  BY <1>8, <1>p, <1>r, <1>g DEF GetCodeAgain, Tokens, Past
<1>9. CASE CheckSpentAgain(w)
  BY <1>9, <1>p, <1>r, <1>g DEF CheckSpentAgain, Tokens, Past
<1>10. CASE InvalidateFind(w)
  BY <1>10, <1>g DEF InvalidateFind, PassInvalidation, Tokens
<1>11. CASE InsertJTI(w)
  BY <1>11, <1>p, <1>r, <1>g DEF InsertJTI, PassInvalidation, Tokens
<1>12. CASE CreateAccessTokenSession(w)
  BY <1>12, <1>p, <1>r, <1>g DEF CreateAccessTokenSession, NextAfterTokens, Past
<1>13. CASE CreateRefreshTokenSession(w)
  BY <1>13, <1>p, <1>r, <1>g DEF CreateRefreshTokenSession, NextAfterTokens, Past
<1>14. CASE GetOpenIDConnectSession(w)
  BY <1>14, <1>p, <1>r, <1>g DEF GetOpenIDConnectSession, Tokens, Past
<1>15. CASE DeleteOpenIDConnectSession(w)
  BY <1>15, <1>p, <1>r DEF DeleteOpenIDConnectSession, Tokens, Past
<1>16. CASE RevokeAccessToken(w)
  BY <1>16, <1>g DEF RevokeAccessToken, Fails
<1>17. CASE RevokeCommit(w)
  BY <1>17, <1>p, <1>r, <1>g DEF RevokeCommit, Fails, Replayed
<1>18. CASE RevokeRows(w)
  BY <1>18, <1>p, <1>r DEF RevokeRows, Fails, Replayed
<1>19. CASE Finish(w)
  BY <1>19, <1>g DEF Finish, Tokens, Past
<1>20. CASE Abort(w)
  BY <1>20, <1>p, <1>r DEF Abort, Fails, Tokens
<1> QED
  BY <1>1, <1>2, <1>3, <1>4, <1>5, <1>6, <1>7, <1>8, <1>9, <1>10, <1>11, <1>12, <1>13,
     <1>14, <1>15, <1>16, <1>17, <1>18, <1>19, <1>20 DEF Handle

Offline(c) == "offline" \in code[c].scopes

\* A handler that mints tokens does so for a code that was issued, and knows
\* whether it is for offline access.
Informed(w) ==
  LET c == job[w].code IN
  /\ pc[w] \in Carrying \cup Minting => known[c] \in Issued
  /\ pc[w] \in Carrying /\ Offline(c) => "offline" \in job[w].scopes
\* A refresh row that outlives the tombstone, and an access row without a refresh
\* row, have a handler on the way that will take them with it.
Attended(c) ==
  /\ c \in access => known[c] \in Issued
  /\ c \notin failed /\ c \in refresh /\ c \in dead =>
       \E w \in Workers : pc[w] = "revrefresh" /\ job[w].code = c
  /\ c \notin failed /\ Offline(c) /\ c \in access /\ c \notin refresh =>
       \E w \in Workers : pc[w] = "mkrefresh" /\ job[w].code = c
\* A replay is answered after its tombstone, or after a call that failed.
DeadFirst ==
  /\ \A c \in Codes : c \in replayed /\ c \notin failed => c \in dead
  /\ \A w \in Workers : pc[w] = "revrefresh" /\ job[w].code \notin failed => job[w].code \in dead

SweepInv ==
  /\ CodeInv /\ DeadFirst
  /\ \A w \in Workers : Informed(w)
  /\ \A c \in Codes : Attended(c)

LEMMA SweepInit == Init => SweepInv
<1> SUFFICES ASSUME Init PROVE SweepInv
  OBVIOUS
<1>1. \A w \in Workers : Informed(w)
  BY DEF Init, Informed, Carrying, Minting, Reading, Checked
<1>2. (\A c \in Codes : Attended(c)) /\ DeadFirst
  BY DEF Init, Attended, DeadFirst
<1> QED  BY <1>1, <1>2, CodeInit DEF SweepInv

LEMMA SweepHandle ==
  ASSUME SweepInv, NEW w \in Workers, Handle(w), NEW d \in Codes, d = job[w].code
  PROVE  /\ DeadFirst' /\ \A v \in Workers : Informed(v)'
         /\ \A c \in Codes : Attended(c)'
<1>t. /\ pc \in [Workers -> PCs] /\ job \in [Workers -> Job] /\ code \in [Codes -> CodeRow]
      /\ known \in [Codes -> Known]
      /\ \A v \in Workers : pc[v] # "idle" => job[v].code \in Codes
  BY DEF SweepInv, CodeInv, TInv, TypeOK
<1>i. /\ DeadFirst /\ \A v \in Workers : Informed(v) /\ Login(v) /\ Current(v)
      /\ \A c \in Codes : Attended(c)
  BY DEF SweepInv, CodeInv
<1>f. Advances(w) /\ Writes(w) /\ Mints(w) /\ pc[w] # "idle"
  BY <1>t, HandleFacts, MintFacts DEF SweepInv, CodeInv, Advances
<1>o. \A v \in Workers : v # w => pc'[v] = pc[v] /\ job'[v] = job[v]
  BY <1>f DEF Advances
\* A code that was issued keeps its row, and stays issued.
<1>k. ASSUME NEW c \in Codes, known[c] \in Issued
      PROVE  known'[c] \in Issued /\ code'[c] = code[c]
  <2>1. c = d => pc[w] \notin Creating
    BY <1>i, <1>k DEF Login, Issued
  <2> QED  BY <1>t, <1>f, <1>k, <2>1 DEF Writes, Delivers, Stored, Issued, Creating
<1>1. DeadFirst'
  <2>1. \A c \in Codes : c # d /\ c \in replayed' /\ c \notin failed' => c \in dead'
    BY <1>i, <1>f DEF DeadFirst, Mints
  <2>2. d \in replayed' /\ d \notin failed' => d \in dead'
    BY <1>i, <1>f DEF DeadFirst, Mints
  <2>3. pc'[w] = "revrefresh" => job'[w].code = d
    BY <1>f DEF Advances
  <2>4. ASSUME NEW v \in Workers, pc'[v] = "revrefresh", job'[v].code \notin failed'
        PROVE  job'[v].code \in dead'
    BY <1>i, <1>f, <1>o, <2>3, <2>4 DEF DeadFirst, Mints
  <2> QED  BY <2>1, <2>2, <2>4 DEF DeadFirst
<1>2. ASSUME NEW v \in Workers, v # w PROVE Informed(v)'
  <2>1. CASE pc[v] \in Carrying \cup Minting
    <3>1. job[v].code \in Codes /\ known[job[v].code] \in Issued
      BY <1>t, <1>i, <2>1 DEF Informed, Carrying, Minting, Reading, Checked
    <3>2. known'[job[v].code] \in Issued /\ code'[job[v].code] = code[job[v].code]
      BY <1>k, <3>1
    <3> QED  BY <1>i, <1>o, <1>2, <3>2 DEF Informed, Offline
  <2>2. CASE pc[v] \notin Carrying \cup Minting
    BY <1>o, <1>2, <2>2 DEF Informed
  <2> QED  BY <2>1, <2>2
<1>3. Informed(w)'
  <2>1. CASE pc'[w] \in Carrying \cup Minting
    <3>1. /\ pc[w] \in Carrying \cup {"getcode"} /\ job'[w].code = d
          /\ pc'[w] \in Carrying =>
               \/ pc[w] \in Carrying /\ job'[w].scopes = job[w].scopes
               \/ pc[w] = "getcode" /\ job'[w].scopes = code[d].scopes
      BY <1>f, <2>1 DEF Mints, Advances, Carrying, Minting, Reading, Checked
    <3>2. known[d] \in Issued
      BY <1>i, <3>1 DEF Informed, Current, Presenting
    <3>3. known'[d] \in Issued /\ code'[d] = code[d]
      BY <1>f, <1>k, <3>2
    <3> QED  BY <1>i, <3>1, <3>3 DEF Informed, Offline
  <2>2. CASE pc'[w] \notin Carrying \cup Minting
    BY <2>2 DEF Informed
  <2> QED  BY <2>1, <2>2
<1>4. ASSUME NEW c \in Codes, c # d PROVE Attended(c)'
  <2>1. /\ (c \in access' <=> c \in access) /\ (c \in refresh' <=> c \in refresh)
        /\ (c \in dead' <=> c \in dead) /\ (c \notin failed' => c \notin failed)
    BY <1>f, <1>4 DEF Mints
  <2>2. c \in access => known'[c] \in Issued /\ code'[c] = code[c]
    BY <1>i, <1>k DEF Attended
  <2>3. ASSUME NEW u \in Workers, job[u].code = c PROVE pc'[u] = pc[u] /\ job'[u] = job[u]
    BY <1>o, <1>4, <2>3
  <2>4. c \notin failed' /\ c \in refresh' /\ c \in dead' =>
          \E v \in Workers : pc'[v] = "revrefresh" /\ job'[v].code = c
    BY <1>i, <2>1, <2>3 DEF Attended
  <2>5. c \notin failed' /\ Offline(c)' /\ c \in access' /\ c \notin refresh' =>
          \E v \in Workers : pc'[v] = "mkrefresh" /\ job'[v].code = c
    BY <1>i, <2>1, <2>2, <2>3 DEF Attended, Offline
  <2> QED  BY <2>1, <2>2, <2>4, <2>5 DEF Attended
<1>5. Attended(d)'
  <2>1. d \in access' => known[d] \in Issued
    BY <1>i, <1>f DEF Mints, Attended, Informed, Carrying
  <2>2. d \in access' => known'[d] \in Issued /\ code'[d] = code[d]
    BY <1>f, <1>k, <2>1
  <2>3. ASSUME d \notin failed', d \in refresh', d \in dead'
        PROVE  \E v \in Workers : pc'[v] = "revrefresh" /\ job'[v].code = d
    <3>1. CASE pc'[w] = "revrefresh"
      BY <1>f, <3>1 DEF Advances
    <3>2. CASE d \in refresh /\ d \in dead /\ pc[w] # "revrefresh"
      <4>1. PICK v \in Workers : pc[v] = "revrefresh" /\ job[v].code = d
        BY <1>i, <1>f, <2>3, <3>2 DEF Attended, Mints
      <4> QED  BY <1>o, <3>2, <4>1
    <3> QED  BY <1>f, <2>3, <3>1, <3>2 DEF Mints
  <2>4. ASSUME d \notin failed', Offline(d)', d \in access', d \notin refresh'
        PROVE  \E v \in Workers : pc'[v] = "mkrefresh" /\ job'[v].code = d
    <3>1. CASE pc'[w] = "mkrefresh"
      BY <1>f, <3>1 DEF Advances
    <3>2. CASE d \in access /\ d \notin refresh /\ pc[w] # "mkrefresh"
      <4>1. PICK v \in Workers : pc[v] = "mkrefresh" /\ job[v].code = d
        BY <1>i, <1>f, <2>2, <2>4, <3>2 DEF Attended, Mints, Offline
      <4> QED  BY <1>o, <3>2, <4>1
    <3>3. CASE pc[w] = "mkaccess" /\ "offline" \notin job[w].scopes
      BY <1>i, <2>2, <2>4, <3>3 DEF Informed, Carrying, Offline
    <3> QED  BY <1>f, <2>4, <3>1, <3>2, <3>3 DEF Mints
  <2> QED  BY <2>2, <2>3, <2>4 DEF Attended
<1> QED  BY <1>1, <1>2, <1>3, <1>4, <1>5

LEMMA SweepNext == SweepInv /\ [Next]_vars => SweepInv'
<1> SUFFICES ASSUME SweepInv, [Next]_vars PROVE SweepInv'
  OBVIOUS
<1>t. /\ CodeInv /\ CodeInv' /\ TInv /\ known \in [Codes -> Known] /\ code \in [Codes -> CodeRow]
      /\ \A v \in Workers : pc[v] # "idle" => job[v].code \in Codes
  BY CodeNext DEF SweepInv, CodeInv, TInv, TypeOK
<1>i. /\ DeadFirst /\ (\A v \in Workers : Informed(v)) /\ \A c \in Codes : Attended(c)
  BY DEF SweepInv
<1> DEFINE Rest == /\ DeadFirst /\ (\A v \in Workers : Informed(v))
                   /\ \A c \in Codes : Attended(c)
<1>1. ASSUME NEW w \in Workers, Handle(w) PROVE Rest'
  <2>1. job[w].code \in Codes
    BY <1>t, <1>1, HandleFacts DEF Advances
  <2> QED  BY <1>1, <2>1, SweepHandle
\* A handler that starts takes nothing away, and had nothing to do.
<1>b. ASSUME NEW w \in Workers, pc[w] = "idle",
             \A u \in Workers : u # w => pc'[u] = pc[u] /\ job'[u] = job[u],
             pc'[w] \in {"mkcode", "getcode"},
             UNCHANGED <<code, Tokens, replayed, failed>>,
             \A c \in Codes : known[c] \in Issued => known'[c] \in Issued
      PROVE  Rest'
  <2>1. DeadFirst'
    BY <1>i, <1>b DEF DeadFirst, Tokens
  <2>2. ASSUME NEW u \in Workers PROVE Informed(u)'
    <3>1. pc[u] \in Carrying \cup Minting => job[u].code \in Codes
      BY <1>t DEF Carrying, Minting, Reading, Checked
    <3> QED
      BY <1>i, <1>b, <3>1 DEF Informed, Offline, Carrying, Minting, Reading, Checked
  <2>3. ASSUME NEW c \in Codes PROVE Attended(c)'
    BY <1>i, <1>b DEF Attended, Offline, Tokens
  <2> QED  BY <2>1, <2>2, <2>3
<1>2. ASSUME NEW w \in Workers, NEW c \in Codes, NEW S \in ScopeSets, NEW ch \in BOOLEAN,
             BeginIssue(w, c, S, ch)
      PROVE  Rest'
  <2>1. \A k \in Codes : known[k] \in Issued => known'[k] \in Issued
    BY <1>t, <1>2 DEF BeginIssue, Issued
  <2>2. /\ pc[w] = "idle" /\ pc'[w] = "mkcode"
        /\ \A u \in Workers : u # w => pc'[u] = pc[u] /\ job'[u] = job[u]
        /\ UNCHANGED <<code, Tokens, replayed, failed>>
    BY <1>t, <1>2, IssueFacts DEF BeginIssue, Rows
  <2> QED  BY <1>b, <2>1, <2>2
<1>3. ASSUME NEW w \in Workers, NEW c \in Codes, NEW v \in Verifiers, BeginExchange(w, c, v)
      PROVE  Rest'
  BY <1>t, <1>3, <1>b, ExchangeFacts DEF BeginExchange, Rows, Past
\* The clean-up forgets what a code asked for.
<1>4. ASSUME UNCHANGED <<pc, job, known, Tokens, replayed, failed>>,
             \A c \in Codes : Offline(c)' => Offline(c)
      PROVE  Rest'
  <2>1. DeadFirst'
    BY <1>i, <1>4 DEF DeadFirst, Tokens
  <2>2. ASSUME NEW u \in Workers PROVE Informed(u)'
    <3>1. pc[u] \in Carrying \cup Minting => job[u].code \in Codes
      BY <1>t DEF Carrying, Minting, Reading, Checked
    <3> QED  BY <1>i, <1>4, <3>1 DEF Informed
  <2>3. ASSUME NEW c \in Codes PROVE Attended(c)'
    BY <1>i, <1>4 DEF Attended, Tokens
  <2> QED  BY <2>1, <2>2, <2>3
<1>5. ASSUME NEW c \in Codes, Cleanup(c) PROVE Rest'
  <2>1. UNCHANGED <<pc, job, known, Tokens, replayed, failed>>
    BY <1>5 DEF Cleanup, CleanupCode, CleanupJTI, CleanupPKCE, CleanupOpenID, Past
  <2>2. \A k \in Codes : Offline(k)' => Offline(k)
    BY <1>t, <1>5
       DEF Cleanup, CleanupCode, CleanupJTI, CleanupPKCE, CleanupOpenID, NoCode, Offline
  <2> QED  BY <1>4, <2>1, <2>2
<1>6. ASSUME Tick PROVE Rest'
  BY <1>4, <1>6 DEF Tick, Rows, Past, Offline
<1>7. ASSUME UNCHANGED vars PROVE Rest'
  BY <1>4, <1>7 DEF vars, Tokens, Offline
<1>8. Rest'
  BY <1>1, <1>2, <1>3, <1>5, <1>6, <1>7 DEF Next
<1> QED  BY <1>t, <1>8 DEF SweepInv

\* When a replay and the exchange it races have ended and no call failed, no token
\* row of the request is left, whichever of them stored or removed last
\* (RevokeRefreshToken, CreateRefreshTokenSession).
THEOREM SweptUp == Spec => []ReplayLeavesNoRows
<1>1. SweepInv => ReplayLeavesNoRows
  <2> SUFFICES ASSUME SweepInv, NEW c \in replayed \ failed, Offline(c),
                      \A w \in Workers : Running(w) => job[w].code # c
               PROVE  c \notin access \cup refresh
    BY DEF ReplayLeavesNoRows, Offline
  <2>1. c \in Codes /\ c \in dead /\ Attended(c)
    BY DEF SweepInv, CodeInv, TInv, TypeOK, DeadFirst
  <2>2. \A w \in Workers : pc[w] \in {"revrefresh", "mkrefresh"} => job[w].code # c
    BY DEF Running
  <2> QED  BY <2>1, <2>2 DEF Attended
<1> QED  BY <1>1, SweepInit, SweepNext, PTL DEF Spec
=============================================================================
