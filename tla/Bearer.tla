------------------------------- MODULE Bearer -------------------------------
(***************************************************************************)
(* Validation of a presented bearer token for one grant of one provider:   *)
(*                                                                         *)
(*   attest    ValidateAccessTokenAuthorityAt (access_authority.go)        *)
(*   guard     RevokedTokenGuardAt (middleware.go)                         *)
(*   scope     RequireScopeAt (middleware.go), over fosite's introspection *)
(*   userinfo  api_OAuth2UserInfo: attest, then introspection for the      *)
(*             granted scopes                                              *)
(*                                                                         *)
(* None of them runs in a transaction: a handler makes one query after     *)
(* another while revocation, rotation, clean-up and administrators change  *)
(* the rows. Module RefreshFamily models how those rows change; here each  *)
(* change is one step and the handlers are the subject.                    *)
(***************************************************************************)
EXTENDS Naturals, Sequences, FiniteSets

CONSTANTS
    Handlers,     \* requests
    Access,       \* access tokens of the grant, JWTs
    Refresh,      \* refresh tokens of the grant, opaque
    Scopes,
    Granted,      \* [Access \union Refresh -> SUBSET Scopes]
    Required,     \* scopes a route asks of RequireScopeAt
    Changes       \* the kinds of change the world makes, see World

Tokens == Access \union Refresh

ASSUME BearerAssumption ==
    /\ Access \intersect Refresh = {}
    /\ Granted \in [Tokens -> SUBSET Scopes]
    /\ Required \subseteq Scopes

VARIABLES
    issued,     \* tokens of the grant so far; a token is never issued again
    rows,       \* access tokens with a row in _oauth2Access
    leaf,       \* refresh tokens whose row is active
    terminal,   \* refresh rows of the family are marked reused or revoked
    tomb,       \* the request has a tombstone
    covered,    \* tokens whose expiry the tombstone's is no earlier than
    client,     \* the client's row exists
    user,       \* the user exists and its token key still signs the JWTs
    expired,    \* tokens whose lifetime is over
    req         \* per handler: the request it serves

vars == <<issued, rows, leaf, terminal, tomb, covered, client, user, expired, req>>
World == <<issued, rows, leaf, terminal, tomb, covered, client, user, expired>>

-----------------------------------------------------------------------------
Ops == {"attest", "guard", "scope", "userinfo"}

(* What the handlers read, query by query. "jwt" is FindAuthRecordByToken,
   "family" the refresh rows of assertRefreshFamilyAllowsAccess, "fields" the
   comparison of the row already read with clock, subject, collection and
   session. Subject and collection are fixed when a token is issued. *)
Holds(check, t) ==
    CASE check = "jwt"    -> t \in Access /\ user /\ t \notin expired
      [] check = "row"    -> t \in rows
      [] check = "tomb"   -> ~tomb
      [] check = "family" -> ~terminal
      [] check = "fields" -> t \notin expired
      [] check = "client" -> client

CheckNames == {"jwt", "row", "tomb", "family", "fields", "client"}

\* assertRefreshFamilyAllowsAccess: the tombstone, then the rows.
FamilyAllows == <<"tomb", "family">>

\* Bug: a row that is there is taken for authority.
AttestationByRow == <<"jwt", "row", "fields", "client">>

Attestation == <<"jwt", "row">> \o FamilyAllows \o <<"fields", "client">>

\* Bug: only the refresh rows are consulted, which best-effort cleanup may have
\* left as they were.
GuardRowsOnly == <<"row", "family">>

\* The handler splits the token into three parts first, which an opaque one is
\* not made of: its "row" is never found.
Guard == <<"row">> \o FamilyAllows

\* fosite: GetAccessTokenSession of storage.go, with the client of the stored
\* request, then ValidateAccessToken of strategy.go.
Introspection == <<"row">> \o FamilyAllows \o <<"client", "jwt", "row">> \o FamilyAllows

Checks(op) ==
    CASE op = "guard" -> Guard
      [] op = "scope" -> Introspection
      [] OTHER        -> Attestation

-----------------------------------------------------------------------------
\* Both halves of "live": what any path promises, and what an attestation adds.
Standing(t) == t \in rows /\ ~tomb /\ ~terminal
Live(t)     == Standing(t) /\ client /\ user /\ t \notin expired

Idle == [op |-> "none", token |-> "none", todo |-> <<>>, second |-> FALSE,
         answer |-> "none", scopes |-> {}, standing |-> FALSE, live |-> FALSE]

Answers == {"none", "accepted", "refused", "forbidden"}

Init ==
    /\ issued = {} /\ rows = {} /\ leaf = {}
    /\ terminal = FALSE /\ tomb = FALSE /\ covered = {}
    /\ client = TRUE /\ user = TRUE
    /\ expired = {}
    /\ req = [h \in Handlers |-> Idle]

Update(h, r) == req' = [req EXCEPT ![h] = r] /\ UNCHANGED World

\* A request arrives. `standing' and `live' remember what was true of the token
\* then; RevokedTokenGuardAt is bound behind apis.RequireAuth, which has checked
\* the JWT.
Begin(h) ==
    /\ req[h].op = "none"
    /\ \E op \in Ops, t \in issued :
         /\ op = "guard" => Holds("jwt", t)
         /\ Update(h, [Idle EXCEPT !.op = op, !.token = t, !.todo = Checks(op),
                                   !.standing = Standing(t), !.live = Live(t)])

Finish(h, answer, scopes) ==
    Update(h, [req[h] EXCEPT !.todo = <<>>, !.answer = answer, !.scopes = scopes])

\* "if introspection failed ... return only the subject".
OpenIDForNone(t, scopes) == IF scopes = {} THEN {"openid"} ELSE scopes

\* GetUserInfoClaims: the subject, and the claim groups that are scopes; which
\* claims of a group there are depends on the fields of the user collection.
Claims(scopes) == {"sub"} \union (scopes \intersect {"profile", "email", "phone", "address"})

Enough(t) == Required \subseteq Granted[t]

\* The last check held. An attestation inside /userinfo goes on to introspection.
Complete(h) ==
    LET r == req[h] IN
    CASE r.op = "userinfo" /\ ~r.second ->
           Update(h, [r EXCEPT !.todo = Introspection, !.second = TRUE])
      [] r.op = "userinfo" /\ r.second ->
           Finish(h, "accepted", Claims(OpenIDForNone(r.token, Granted[r.token])))
      [] r.op = "scope" ->
           IF Enough(r.token) THEN Finish(h, "accepted", Granted[r.token])
                              ELSE Finish(h, "forbidden", {})
      [] OTHER -> Finish(h, "accepted", {})

Pass(h) ==
    /\ req[h].todo # <<>> /\ Holds(Head(req[h].todo), req[h].token)
    /\ IF Len(req[h].todo) > 1
         THEN Update(h, [req[h] EXCEPT !.todo = Tail(@)])
         ELSE Complete(h)

\* Bug: the use that introspection reports is not looked at.
RefreshPassesScope(h, t) ==
    IF t \in leaf /\ t \notin expired /\ Enough(t)
      THEN Finish(h, "accepted", Granted[t])
      ELSE Finish(h, "refused", {})

\* fosite goes on with introspection as a refresh token, whatever the hint was,
\* and an active one is found; the middleware refuses any use but access_token.
RefreshRefusedByScope(h, t) == Finish(h, "refused", {})

\* A check failed: the request is refused, but /userinfo is past its attestation
\* when introspection fails and answers with the subject only.
Fail(h) ==
    LET r == req[h] IN
    /\ r.todo # <<>> /\ ~Holds(Head(r.todo), r.token)
    /\ CASE r.second       -> Finish(h, "accepted", Claims(OpenIDForNone(r.token, {})))
         [] r.op = "scope" -> RefreshRefusedByScope(h, r.token)
         [] OTHER          -> Finish(h, "refused", {})

\* The response is written; the request is forgotten.
Return(h) ==
    /\ req[h].answer # "none"
    /\ Update(h, Idle)

-----------------------------------------------------------------------------
(* What happens meanwhile: the committed changes of the other modules. *)

\* Terminal authority commits alone, with an expiry past those of the request's
\* rows; the cleanup of the rows is another transaction, which may fail and roll
\* back.
CommitTerminal ==
    /\ "revoke" \in Changes
    /\ tomb' = TRUE /\ covered' = covered \union rows \union leaf
    /\ UNCHANGED <<issued, rows, leaf, terminal, client, user, expired, req>>

CleanUpFamily ==
    /\ tomb
    /\ terminal' = TRUE /\ leaf' = {} /\ rows' = {}
    /\ UNCHANGED <<issued, tomb, covered, client, user, expired, req>>

\* A refresh: the predecessor is rotated and, unless that fails, the access rows
\* go; only then an access and a refresh token are created, unless the request is
\* terminal.
Rotate ==
    /\ "rotate" \in Changes /\ leaf # {}
    /\ leaf' = {} /\ rows' \in {rows, {}}
    /\ UNCHANGED <<issued, terminal, tomb, covered, client, user, expired, req>>

Issue ==
    /\ leaf = {} /\ rows = {} /\ ~terminal /\ ~tomb
    /\ \E a \in Access \ issued, r \in Refresh \ issued :
         rows' = {a} /\ leaf' = {r} /\ issued' = issued \union {a, r}
    /\ UNCHANGED <<terminal, tomb, covered, client, user, expired, req>>

DeleteClient ==
    /\ "client" \in Changes
    /\ client' = FALSE
    /\ UNCHANGED <<issued, rows, leaf, terminal, tomb, covered, user, expired, req>>

\* A new token key (password change, "log out everywhere") or a deleted user.
InvalidateUser ==
    /\ "user" \in Changes
    /\ user' = FALSE
    /\ UNCHANGED <<issued, rows, leaf, terminal, tomb, covered, client, expired, req>>

Expire(t) ==
    /\ "expire" \in Changes
    /\ expired' = expired \union {t}
    /\ UNCHANGED <<issued, rows, leaf, terminal, tomb, covered, client, user, req>>

\* The hourly job deletes rows of tokens that expired, unless a delete fails; the
\* last of the terminal rows may be among them.
CronRows ==
    /\ \E gone \in SUBSET expired : rows' = rows \ gone /\ leaf' = leaf \ gone
    /\ terminal' \in {terminal, FALSE}
    /\ UNCHANGED <<issued, tomb, covered, client, user, expired, req>>

\* It deletes the tombstone when that has expired, so what it covers has too, and
\* no row of the request is left. Tokens it does not cover, whose rows went before
\* it was committed, may be valid still by their own date.
CronTomb ==
    /\ tomb /\ covered \subseteq expired
    /\ rows = {} /\ leaf = {} /\ ~terminal
    /\ tomb' = FALSE /\ covered' = {}
    /\ UNCHANGED <<issued, rows, leaf, terminal, client, user, expired, req>>

Change ==
    \/ CommitTerminal \/ CleanUpFamily \/ Rotate \/ Issue
    \/ DeleteClient \/ InvalidateUser \/ (\E t \in issued : Expire(t))
    \/ CronRows \/ CronTomb

Handle(h) == Begin(h) \/ Pass(h) \/ Fail(h) \/ Return(h)

Next == Change \/ \E h \in Handlers : Handle(h)

Spec == Init /\ [][Next]_vars

-----------------------------------------------------------------------------
TypeOK ==
    /\ issued \subseteq Tokens /\ rows \subseteq Access /\ leaf \subseteq Refresh
    /\ {terminal, tomb, client, user} \subseteq BOOLEAN
    /\ expired \subseteq Tokens /\ covered \subseteq Tokens
    /\ req \in [Handlers -> [op : Ops \union {"none"}, token : Tokens \union {"none"},
                            todo : Seq(CheckNames), second : BOOLEAN, answer : Answers,
                            scopes : SUBSET (Scopes \union {"sub"}),
                            standing : BOOLEAN, live : BOOLEAN]]

Accepted(h, ops) == req[h].op \in ops /\ req[h].answer = "accepted"

\* "Deleted/revoked/expired rows, deleted clients, ... all fail closed"
\* (access_authority.go): the queries of an attestation see different states of
\* the database, but there was one state, that of the arrival of the request, in
\* which everything they attest held at once.
AttestationWasLive ==
    \A h \in Handlers : Accepted(h, {"attest", "userinfo"}) => req[h].live

\* "every public validation path must consult the same provider-scoped
\* tombstone" (access_authority.go): no path lets through a token whose request
\* was terminal, or whose row was gone, when the request arrived, also while
\* the cleanup of the rows is still to come or has failed. (A request that is
\* paused until the token expires and the hourly job removes the tombstone can
\* still pass.)
PassedWasStanding ==
    \A h \in Handlers :
        Accepted(h, Ops) => req[h].standing \/ req[h].token \in expired

\* "reject anything that is not a bearer access token" (middleware.go), although
\* fosite falls back to refresh tokens.
OnlyAccessTokensPass ==
    \A h \in Handlers : Accepted(h, Ops) => req[h].token \in Access

=============================================================================
