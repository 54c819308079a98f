--------------------------- MODULE RefreshFamily ---------------------------
(***************************************************************************)
(* The refresh-token families of one provider: the rows of _oauth2Refresh, *)
(* _oauth2Access and _oauth2RefreshTombstone, and the request handlers     *)
(* that read and change them.  Every storage call of storage.go is one     *)
(* autocommitted statement or one SQLite transaction after another; each   *)
(* of those is one action here, so the handlers of several clients, the    *)
(* bearer checks and the hourly clean-up interleave between any two.       *)
(*                                                                         *)
(* The order in which a handler makes its storage calls is fosite's        *)
(* (external): Get, Rotate, CreateAccess, CreateRefresh for a refresh      *)
(* grant; Delete, RevokeRefresh, RevokeAccess when Get reports reuse.      *)
(***************************************************************************)
EXTENDS Integers, FiniteSets

CONSTANTS
  Requests,      \* fosite request ids; one authorization grant each
  LegacyRequests,\* requests whose refresh row predates the family columns
  RefreshSigs,   \* refresh-token signatures (the bound on refresh tokens)
  AccessSigs,    \* access-token signatures (the bound on access tokens)
  Endpoints,     \* what clients ask for: the endpoints in use
  Workers,       \* HTTP handlers that may run at the same time
  NoRequest,     \* the request id of an absent row
  NoSig,         \* the empty signature, family_id or parent_refresh_id
  AccessLife,    \* Config.AccessTokenLifespan
  RefreshLife,   \* Config.RefreshTokenLifespan
  CodeLife,      \* Config.AuthorizeCodeLifespan
  TombLife,      \* missingRefreshTombstoneLifetime
  MaxPause,      \* no handler runs for more than this many time units
  MaxTime,       \* bound on the clock
  Faults         \* TRUE when a storage call may fail and a handler may die

ASSUME RequestsAssumption ==
  /\ NoRequest \notin Requests
  /\ LegacyRequests \subseteq Requests
ASSUME SigsAssumption ==
  /\ NoSig \notin RefreshSigs /\ NoSig \notin AccessSigs
  /\ IsFiniteSet(RefreshSigs)
ASSUME TimesAssumption ==
  /\ AccessLife \in Nat /\ RefreshLife \in Nat /\ CodeLife \in Nat
  /\ TombLife \in Nat /\ MaxPause \in Nat /\ MaxTime \in Nat
  /\ Faults \in BOOLEAN
\* A request handler is over long before a tombstone written during it expires.
ASSUME PauseAssumption == MaxPause < TombLife

VARIABLES
  refresh,   \* _oauth2Refresh by signature
  access,    \* _oauth2Access by signature
  tomb,      \* _oauth2RefreshTombstone by request id
  issued,    \* refresh signatures ever stored
  used,      \* access signatures ever stored
  codeAt,    \* when the request's authorization code was spent, -1 before
  now,       \* time.Now()
  pc,        \* the next storage call of each handler
  job,       \* the local state of each handler
  cron,      \* the local state of the clean-up job
  dead       \* history: requests for which a tombstone was ever committed

vars == <<refresh, access, tomb, issued, used, codeAt, now, pc, job, cron, dead>>
store == <<refresh, access, tomb>>
history == <<issued, used, codeAt, now, dead>>

-----------------------------------------------------------------------------
\* Rows.

\* The status column.  "unset" is the empty string, of a row from
\* before the column existed.
Statuses == {"active", "rotated", "revoked", "reused", "unset"}
Terminal == {"reused", "revoked"}

\* RefreshTokenModel.GetStatus: an empty column reads as active.
GetStatus(s) == IF refresh[s].status = "unset" THEN "active" ELSE refresh[s].status

NoRefreshRow == [req |-> NoRequest, family |-> NoSig, status |-> "unset",
                 parent |-> NoSig, rotatedAt |-> 0, exp |-> 0]
NoAccessRow  == [req |-> NoRequest, exp |-> 0]
NoTomb       == [present |-> FALSE, family |-> NoSig, exp |-> 0]

RefreshRow == [req : Requests \cup {NoRequest}, family : RefreshSigs \cup {NoSig},
               status : Statuses, parent : RefreshSigs \cup {NoSig},
               rotatedAt : Nat, exp : Nat]
AccessRow  == [req : Requests \cup {NoRequest}, exp : Nat]
Tomb       == [present : BOOLEAN, family : RefreshSigs \cup {NoSig}, exp : Nat]

RowsOf(q)   == {s \in RefreshSigs : refresh[s].req = q}
AccessOf(q) == {a \in AccessSigs : access[a].req = q}

\* The tables with the rows of a set of signatures deleted.
RefreshWithout(S) == [s \in RefreshSigs |-> IF s \in S THEN NoRefreshRow ELSE refresh[s]]
AccessWithout(S)  == [a \in AccessSigs  |-> IF a \in S THEN NoAccessRow  ELSE access[a]]

\* scopedRefreshArtifactAuthority: the family ids and the expiries of all the
\* refresh and access rows of a request.
ArtifactFamilies(q) == {refresh[s].family : s \in RowsOf(q)} \ {NoSig}
ArtifactExpiries(q) == {refresh[s].exp : s \in RowsOf(q)} \cup {access[a].exp : a \in AccessOf(q)}

-----------------------------------------------------------------------------
\* Handlers.

Ops == {"exchange", "accessonly", "refresh", "revoke", "replay", "check"}
ASSUME EndpointsAssumption == Endpoints \subseteq Ops
PCs == {"idle", "gettomb", "getcommit", "getfamily", "delfind", "delrow",
        "revcommit", "revfamily", "accread", "accdel", "rottomb", "rotcas",
        "reread", "rotcommit", "rotfamily", "mkaccess", "mkrefresh",
        "chktomb", "chkrows", "replied"}
Replies == {"none", "tokens", "inactive", "expired", "serialization", "error",
            "revoked", "granted"}

\* op: the endpoint; sig/req: the token presented and its request; status,
\* family, exp: the row as the handler last read it; cand: the candidate access
\* signature; todo: rows a delete loop still has to visit; then: what follows
\* that loop; since: when the handler started; doomed (history): the request was
\* already dead then.
Job == [op : Ops \cup {"none"}, sig : RefreshSigs \cup {NoSig}, req : Requests \cup {NoRequest},
        status : Statuses \cup {"absent"}, family : RefreshSigs \cup {NoSig},
        exp : Nat, cand : AccessSigs \cup {NoSig}, todo : SUBSET AccessSigs,
        then : {"none", "mkaccess", "inactive", "lost", "revcommit", "done"},
        reply : Replies, since : Nat, doomed : BOOLEAN]

NoJob == [op |-> "none", sig |-> NoSig, req |-> NoRequest, status |-> "absent",
          family |-> NoSig, exp |-> 0, cand |-> NoSig, todo |-> {},
          then |-> "none", reply |-> "none", since |-> 0, doomed |-> FALSE]

Goto(w, p) == pc' = [pc EXCEPT ![w] = p]

\* A granted check is remembered with the expiry of its token.
Reply(w, r) ==
  /\ Goto(w, "replied")
  /\ job' = [job EXCEPT ![w] = [NoJob EXCEPT !.op = job[w].op, !.req = job[w].req,
                !.since = job[w].since, !.doomed = job[w].doomed, !.reply = r,
                !.exp = IF r = "granted" THEN job[w].exp ELSE 0]]

Begin(w, p, j) ==
  /\ pc[w] = "idle" /\ j.op \in Endpoints
  /\ Goto(w, p)
  /\ job' = [job EXCEPT ![w] = [j EXCEPT !.since = now, !.doomed = j.req \in dead]]

\* Bug: a rotation leaves the predecessor's access token.
RotateLeavesAccess(w, next) ==
  /\ Goto(w, IF next = "mkaccess" THEN next ELSE "accread")
  /\ job' = [job EXCEPT ![w].then = next]

\* deleteSessionModelsByRequestID on _oauth2Access reads the rows and then
\* deletes them one by one; the caller continues at "then".
DeleteAccessThen(w, next) ==
  /\ Goto(w, "accread")
  /\ job' = [job EXCEPT ![w].then = next]

-----------------------------------------------------------------------------
\* Terminal authority.

\* (Here and below, an operator marked "Bug:" is a mistake the checks must catch;
\* nothing uses it.)

\* Bug: the tombstone is not consulted.
NeverTerminal(q) == FALSE

\* hasRefreshTerminalAuthority: presence is terminal, also past the expiry.
HasTerminal(q) == tomb[q].present

\* commitRefreshTerminalAuthority fails when the request's rows, its tombstone
\* and the caller do not agree on one family.
ClaimedFamilies(q, fam) ==
  ArtifactFamilies(q) \cup ({fam, tomb[q].family} \ {NoSig})
CommitAllowed(q, fam) == \A f, g \in ClaimedFamilies(q, fam) : f = g

\* Bug: the expiry of the artifacts is ignored.
UncoveredExpiries(q, exp) == {now + TombLife, tomb[q].exp}

\* The tombstone's expiry covers every artifact, and only ever rises.
TombExpiries(q, exp) ==
  {exp, now + TombLife, tomb[q].exp} \cup ArtifactExpiries(q)
CommitTerminal(q, fam, exp) ==
  /\ CommitAllowed(q, fam)
  /\ \E e \in TombExpiries(q, exp) :
       /\ \A x \in TombExpiries(q, exp) : x <= e
       /\ \E f \in RefreshSigs \cup {NoSig} :
            /\ IF ClaimedFamilies(q, fam) = {} THEN f = NoSig ELSE f \in ClaimedFamilies(q, fam)
            /\ tomb' = [tomb EXCEPT ![q] = [present |-> TRUE, family |-> f, exp |-> e]]
  /\ dead' = dead \cup {q}
  /\ UNCHANGED <<refresh, access, issued, used, codeAt, now>>

\* mutateRefreshFamily: one transaction over the rows of the family and the
\* access rows of every request id those rows carry.
MutateFamily(rows, status) ==
  /\ refresh' = [s \in RefreshSigs |->
                   IF s \in rows THEN [refresh[s] EXCEPT !.status = status] ELSE refresh[s]]
  /\ access' = AccessWithout(UNION {AccessOf(refresh[s].req) : s \in rows})
  /\ UNCHANGED <<tomb, history>>

FamilyRows(f) == {s \in RefreshSigs : refresh[s].req # NoRequest /\ refresh[s].family = f}

\* invalidateRefreshFamily, or invalidateLegacyRefreshRow for a row without a
\* family, which fails when that row is gone.
InvalidateAllowed(j) == j.family = NoSig => refresh[j.sig].req # NoRequest
FamilyOfJob(j) == IF j.family = NoSig THEN {j.sig} ELSE FamilyRows(j.family)

\* Bug: a status that no reader of the column knows.
InvalidateUnlisted(j) == MutateFamily(FamilyOfJob(j), "expired")

Invalidate(j) == MutateFamily(FamilyOfJob(j), "reused")

-----------------------------------------------------------------------------
\* GetRefreshTokenSession, and the endpoints that call it.

\* The handler's copy of the row it has just read.
Snapshot(j, s) == [j EXCEPT !.status = GetStatus(s), !.family = refresh[s].family,
                            !.exp = refresh[s].exp]

\* A client presents a refresh token: to be refreshed, to be revoked, or to be
\* introspected ("check").  Without a row Get is ErrNotFound and changes nothing.
PresentRefresh(w, s, endpoint) ==
  /\ endpoint \in {"refresh", "revoke", "check"}
  /\ s \in issued
  /\ refresh[s].req # NoRequest
  /\ Begin(w, "gettomb",
           Snapshot([NoJob EXCEPT !.op = endpoint, !.sig = s, !.req = refresh[s].req], s))
  /\ UNCHANGED <<store, history, cron>>

\* What follows a refresh token that Get accepts: fosite's ValidateRefreshToken
\* and then Rotate for a refresh grant, RevokeRefreshToken for a revocation.
\* (fosite refuses a token whose session expiry has passed.)
GetAccepted(w) ==
  \/ /\ job[w].op = "revoke"
     /\ Goto(w, "revcommit")
     /\ UNCHANGED job
  \/ /\ job[w].op = "refresh" /\ job[w].exp >= now
     /\ Goto(w, "rottomb")
     /\ UNCHANGED job
  \/ /\ job[w].op = "check" /\ job[w].exp >= now
     /\ Reply(w, "granted")
  \/ /\ job[w].op # "revoke" /\ job[w].exp < now
     /\ Reply(w, "expired")

\* What follows ErrInactiveToken from Get: fosite's handleRefreshTokenReuse for
\* a refresh grant, an error reply otherwise.
GetInactive(w) ==
  \/ /\ job[w].op = "refresh"
     /\ Goto(w, "delfind")
     /\ UNCHANGED job
  \/ /\ job[w].op # "refresh"
     /\ Reply(w, "inactive")

\* Bug: reuse is reported without being acted on.
GetTombOnlyReports(w) ==
  /\ pc[w] = "gettomb"
  /\ \/ (HasTerminal(job[w].req) \/ job[w].status # "active") /\ GetInactive(w)
     \/ ~HasTerminal(job[w].req) /\ job[w].status = "active" /\ GetAccepted(w)
  /\ UNCHANGED <<store, history, cron>>

GetTomb(w) ==
  /\ pc[w] = "gettomb"
  /\ \/ HasTerminal(job[w].req) /\ GetInactive(w)
     \/ /\ ~HasTerminal(job[w].req)
        /\ \/ job[w].status = "active" /\ GetAccepted(w)
           \/ job[w].status # "active" /\ Goto(w, "getcommit") /\ UNCHANGED job
  /\ UNCHANGED <<store, history, cron>>

GetCommit(w) ==
  /\ pc[w] = "getcommit"
  /\ \/ /\ CommitTerminal(job[w].req, job[w].family, job[w].exp)
        /\ Goto(w, "getfamily")
        /\ UNCHANGED job
     \/ /\ ~CommitAllowed(job[w].req, job[w].family)
        /\ Reply(w, "error")
        /\ UNCHANGED <<store, history>>
  /\ UNCHANGED cron

GetFamily(w) ==
  /\ pc[w] = "getfamily"
  /\ \/ InvalidateAllowed(job[w]) /\ Invalidate(job[w]) /\ GetInactive(w)
     \/ /\ ~InvalidateAllowed(job[w])
        /\ Reply(w, "error")
        /\ UNCHANGED <<store, history>>
  /\ UNCHANGED cron

-----------------------------------------------------------------------------
\* DeleteRefreshTokenSession: find, then delete unless the row read is terminal.
DeleteFind(w) ==
  /\ pc[w] = "delfind"
  /\ LET s == job[w].sig IN
       IF refresh[s].req = NoRequest \/ GetStatus(s) \in Terminal
       THEN Goto(w, "revcommit") ELSE Goto(w, "delrow")
  /\ UNCHANGED <<store, history, job, cron>>

DeleteRow(w) ==
  /\ pc[w] = "delrow"
  /\ refresh' = RefreshWithout({job[w].sig})
  /\ Goto(w, "revcommit")
  /\ UNCHANGED <<access, tomb, history, job, cron>>

-----------------------------------------------------------------------------
\* RevokeRefreshToken: commitRefreshTerminalAuthority, then
\* revokeRefreshFamilyByRequestID in a transaction of its own.

\* The reuse handler stops at an error; the revocation endpoint carries on with
\* RevokeAccessToken; the replayed-code handler has nothing left to do.
RevokeFailed(w) ==
  \/ job[w].op = "refresh" /\ Reply(w, "error")
  \/ job[w].op = "revoke"  /\ DeleteAccessThen(w, "done")
  \/ job[w].op = "replay"  /\ Reply(w, "revoked")

RevokeCommit(w) ==
  /\ pc[w] = "revcommit"
  /\ \/ /\ CommitTerminal(job[w].req, NoSig, 0)
        /\ Goto(w, "revfamily")
        /\ UNCHANGED job
     \/ /\ Faults \/ ~CommitAllowed(job[w].req, NoSig)
        /\ RevokeFailed(w)
        /\ UNCHANGED <<store, history>>
  /\ UNCHANGED cron

RevokeAllowed(q) == \A s \in RowsOf(q) : refresh[s].family # NoSig

RevokeFamily(w) ==
  /\ pc[w] = "revfamily"
  /\ LET q == job[w].req IN
     \/ /\ RevokeAllowed(q)
        /\ MutateFamily(UNION {FamilyRows(refresh[s].family) : s \in RowsOf(q)}, "revoked")
        /\ \/ job[w].op = "refresh" /\ DeleteAccessThen(w, "inactive")
           \/ job[w].op = "revoke"  /\ DeleteAccessThen(w, "done")
           \/ job[w].op = "replay"  /\ Reply(w, "revoked")
     \/ /\ Faults \/ ~RevokeAllowed(q)
        /\ RevokeFailed(w)
        /\ UNCHANGED <<store, history>>
  /\ UNCHANGED cron

-----------------------------------------------------------------------------
\* RevokeAccessToken and the access clean-up inside RotateRefreshToken.

\* What follows the loop, by job.then.
AfterAccess(w) ==
  \/ /\ job[w].then = "mkaccess" /\ Goto(w, "mkaccess") /\ job' = [job EXCEPT ![w].todo = {}]
  \/ /\ job[w].then = "revcommit" /\ Goto(w, "revcommit") /\ job' = [job EXCEPT ![w].todo = {}]
  \/ /\ job[w].then \in {"inactive", "lost"} /\ Reply(w, "inactive")
  \/ /\ job[w].then = "done" /\ Reply(w, "revoked")

AccessRead(w) ==
  /\ pc[w] = "accread"
  /\ LET rows == AccessOf(job[w].req) IN
       \/ rows = {} /\ AfterAccess(w)
       \/ /\ rows # {}
          /\ Goto(w, "accdel")
          /\ job' = [job EXCEPT ![w].todo = rows]
  /\ UNCHANGED <<store, history, cron>>

AccessDelete(w) ==
  /\ pc[w] = "accdel"
  /\ \E a \in job[w].todo :
       /\ access' = AccessWithout({a})
       /\ \/ job[w].todo = {a} /\ AfterAccess(w)
          \/ /\ job[w].todo # {a}
             /\ job' = [job EXCEPT ![w].todo = @ \ {a}]
             /\ UNCHANGED pc
  /\ UNCHANGED <<refresh, tomb, history, cron>>

\* fosite's replayed-code handler logs a failed RevokeAccessToken and goes on.
AccessFault(w) ==
  /\ Faults
  /\ pc[w] \in {"accread", "accdel"} /\ job[w].then = "revcommit"
  /\ AfterAccess(w)
  /\ UNCHANGED <<store, history, cron>>

-----------------------------------------------------------------------------
\* RotateRefreshToken: markRefreshRotated, then the access clean-up.
RotateTomb(w) ==
  /\ pc[w] = "rottomb"
  /\ \/ HasTerminal(job[w].req) /\ DeleteAccessThen(w, "inactive")
     \/ ~HasTerminal(job[w].req) /\ Goto(w, "rotcas") /\ UNCHANGED job
  /\ UNCHANGED <<store, history, cron>>

\* Bug: the UPDATE without its condition on the status.
CanRotateAny(s) == refresh[s].req # NoRequest

\* The conditional UPDATE compares the raw column with 'active', so a row whose
\* status column is empty does not match.
CanRotate(s) == refresh[s].req # NoRequest /\ refresh[s].status = "active"

\* Between two rotations of one request
\* a refresh token is stored, so their number serves as the time stamp.
RotateCAS(w) ==
  /\ pc[w] = "rotcas"
  /\ LET s == job[w].sig IN
     \/ /\ CanRotate(s)
        /\ refresh' = [refresh EXCEPT ![s] = [@ EXCEPT !.status = "rotated",
                                                        !.rotatedAt = Cardinality(issued)]]
        /\ DeleteAccessThen(w, "mkaccess")
     \/ /\ ~CanRotate(s)
        /\ Goto(w, "reread")
        /\ UNCHANGED <<refresh, job>>
  /\ UNCHANGED <<access, tomb, history, cron>>

\* Zero rows affected: read the row again to tell why.
RotateReread(w) ==
  /\ pc[w] = "reread"
  /\ Goto(w, "rotcommit")
  /\ LET s == job[w].sig IN
       job' = [job EXCEPT ![w] =
                 IF refresh[s].req # NoRequest THEN Snapshot(@, s)
                 ELSE [@ EXCEPT !.status = "absent", !.family = NoSig, !.exp = 0]]
  /\ UNCHANGED <<store, history, cron>>

\* Every loser commits terminal authority; one that finds the row rotated also
\* invalidates the family before the access clean-up.
RotateCommit(w) ==
  /\ pc[w] = "rotcommit"
  /\ \/ /\ CommitTerminal(job[w].req, job[w].family, job[w].exp)
        /\ \/ job[w].status = "rotated" /\ Goto(w, "rotfamily") /\ UNCHANGED job
           \/ job[w].status # "rotated" /\ DeleteAccessThen(w, "lost")
     \/ /\ ~CommitAllowed(job[w].req, job[w].family)
        /\ Reply(w, "error")
        /\ UNCHANGED <<store, history>>
  /\ UNCHANGED cron

RotateFamily(w) ==
  /\ pc[w] = "rotfamily"
  /\ \/ InvalidateAllowed(job[w]) /\ Invalidate(job[w]) /\ DeleteAccessThen(w, "lost")
     \/ /\ ~InvalidateAllowed(job[w])
        /\ Reply(w, "error")
        /\ UNCHANGED <<store, history>>
  /\ UNCHANGED cron

-----------------------------------------------------------------------------
\* Issuance.

\* The authorization code of a request is exchanged once (InvalidateAuthorize-
\* CodeSession decides who); without offline access no refresh token follows.
Exchange(w, q, kind) ==
  /\ kind \in {"exchange", "accessonly"}
  /\ codeAt[q] = -1
  /\ Begin(w, "mkaccess", [NoJob EXCEPT !.op = kind, !.req = q])
  /\ codeAt' = [codeAt EXCEPT ![q] = now]
  /\ UNCHANGED <<store, issued, used, now, dead, cron>>

\* A spent code is presented again: fosite revokes access, then refresh.
ReplayCode(w, q) ==
  /\ codeAt[q] # -1 /\ now <= codeAt[q] + CodeLife
  /\ Begin(w, "accread", [NoJob EXCEPT !.op = "replay", !.req = q, !.then = "revcommit"])
  /\ UNCHANGED <<store, history, cron>>

\* Signatures are fresh random strings, so which unused one is immaterial.
FreshRefresh == CHOOSE s \in RefreshSigs : s \notin issued
FreshAccess  == CHOOSE a \in AccessSigs : a \notin used

\* Bound on tokens: an access token is stored only if the refresh token that
\* follows it can be too.
TokensLeft(w) ==
  /\ used # AccessSigs
  /\ job[w].op = "accessonly" \/
     Cardinality({v \in Workers : pc[v] = "mkrefresh"}) < Cardinality(RefreshSigs \ issued)

\* CreateAccessTokenSession: the tombstone check and the insert are one transaction.
CreateAccess(w) ==
  /\ pc[w] = "mkaccess"
  /\ LET q == job[w].req IN
     \/ HasTerminal(q) /\ Reply(w, "inactive") /\ UNCHANGED <<access, used>>
     \/ /\ ~HasTerminal(q)
        /\ TokensLeft(w)
        /\ access' = [access EXCEPT ![FreshAccess] =
                        [req |-> q, exp |-> job[w].since + AccessLife]]
        /\ used' = used \cup {FreshAccess}
        /\ \/ job[w].op = "accessonly" /\ Reply(w, "tokens")
           \/ /\ job[w].op # "accessonly"
              /\ Goto(w, "mkrefresh")
              /\ job' = [job EXCEPT ![w].cand = FreshAccess]
  /\ UNCHANGED <<refresh, tomb, issued, codeAt, now, dead, cron>>

\* resolveRefreshLineage, read inside the inserting transaction.
\* Bug: only the status of the rows counts.
LineageTerminalByRows(q) == \E s \in RowsOf(q) : GetStatus(s) \in Terminal

LineageTerminal(q) == HasTerminal(q) \/ \E s \in RowsOf(q) : GetStatus(s) \in Terminal
LineageCorrupt(q)  == \E s, t \in RowsOf(q) : refresh[s].family = NoSig
                                              \/ refresh[s].family # refresh[t].family
LineageActive(q)   == \E s \in RowsOf(q) : GetStatus(s) = "active"

\* Bug: ORDER BY rotated_at ASC.
EarliestRotated(q) ==
  {s \in RowsOf(q) : \A t \in RowsOf(q) : refresh[t].rotatedAt >= refresh[s].rotatedAt}

LatestRotated(q) ==
  {s \in RowsOf(q) : \A t \in RowsOf(q) : refresh[t].rotatedAt <= refresh[s].rotatedAt}

\* Bug: every refresh token opens a family of its own.
OwnFamily(parent) == FreshRefresh

\* A new row joins its parent's family; a row without parent opens one.
FamilyOf(parent) == IF parent = NoSig THEN FreshRefresh ELSE refresh[parent].family

\* Bug: the access token stored just before stays.
RefuseOnly(q) == UNCHANGED access

\* A terminal lineage takes the access tokens of its request along.
RefuseTerminal(q) == access' = AccessWithout(AccessOf(q))

\* CreateRefreshTokenSession.
CreateRefresh(w) ==
  /\ pc[w] = "mkrefresh"
  /\ LET q == job[w].req IN
     \/ /\ LineageTerminal(q)
        /\ RefuseTerminal(q)
        /\ Reply(w, "inactive")
        /\ UNCHANGED <<refresh, issued>>
     \/ /\ ~LineageTerminal(q)
        /\ LineageCorrupt(q) \/ LineageActive(q)
        /\ access' = AccessWithout({job[w].cand})
        /\ Reply(w, IF LineageCorrupt(q) THEN "error" ELSE "serialization")
        /\ UNCHANGED <<refresh, issued>>
     \/ /\ ~LineageTerminal(q) /\ ~LineageCorrupt(q) /\ ~LineageActive(q)
        /\ issued # RefreshSigs  \* the bound on tokens, see TokensLeft
        /\ \E parent \in IF RowsOf(q) = {} THEN {NoSig} ELSE LatestRotated(q) :
             refresh' = [refresh EXCEPT ![FreshRefresh] =
               [req |-> q, parent |-> parent, status |-> "active", rotatedAt |-> 0,
                family |-> FamilyOf(parent), exp |-> job[w].since + RefreshLife]]
        /\ issued' = issued \cup {FreshRefresh}
        /\ Reply(w, "tokens")
        /\ UNCHANGED access
  /\ UNCHANGED <<tomb, used, codeAt, now, dead, cron>>

-----------------------------------------------------------------------------
\* GetAccessTokenSession and the bearer checks: the access row, then
\* assertRefreshFamilyAllowsAccess (tombstone, then rows).  It serves resource
\* requests ("check", where the token's own JWT has been validated first) and
\* the revocation of an access token ("revoke").
PresentAccess(w, a, endpoint) ==
  /\ access[a].req # NoRequest
  /\ \/ endpoint = "check" /\ access[a].exp >= now
     \/ endpoint = "revoke"
  /\ Begin(w, "chktomb", [NoJob EXCEPT !.op = endpoint, !.req = access[a].req,
                                        !.exp = access[a].exp])
  /\ UNCHANGED <<store, history, cron>>

CheckTomb(w) ==
  /\ pc[w] = "chktomb"
  /\ \/ HasTerminal(job[w].req) /\ Reply(w, "inactive")
     \/ ~HasTerminal(job[w].req) /\ Goto(w, "chkrows") /\ UNCHANGED job
  /\ UNCHANGED <<store, history, cron>>

CheckRows(w) ==
  /\ pc[w] = "chkrows"
  /\ \/ (\E s \in RowsOf(job[w].req) : GetStatus(s) \in Terminal) /\ Reply(w, "inactive")
     \/ /\ \A s \in RowsOf(job[w].req) : GetStatus(s) \notin Terminal
        /\ \/ job[w].op = "check" /\ Reply(w, "granted")
           \/ job[w].op = "revoke" /\ Goto(w, "revcommit") /\ UNCHANGED job
  /\ UNCHANGED <<store, history, cron>>

\* The reply has been written.
Finish(w) ==
  /\ pc[w] = "replied"
  /\ Goto(w, "idle")
  /\ job' = [job EXCEPT ![w] = NoJob]
  /\ UNCHANGED <<store, history, cron>>

\* A storage call fails and its transaction rolls back, or the process dies: the
\* handler ends where it is.  What it had committed stays.
Abort(w) ==
  /\ Faults
  /\ pc[w] \notin {"idle", "replied"}
  /\ Goto(w, "idle")
  /\ job' = [job EXCEPT ![w] = NoJob]
  /\ UNCHANGED <<store, history, cron>>

-----------------------------------------------------------------------------
\* registerCleanupJob, for the collections of this module, and
\* cleanupExpiredRefreshTombstones.  Each collection is queried when its turn
\* comes; the rows found are then deleted one at a time.
NoCron == [stage |-> "idle", access |-> {}, refresh |-> {}, tombs |-> {}, at |-> 0]
Cron == [stage : {"idle", "access", "refresh", "tombs"}, access : SUBSET AccessSigs,
         refresh : SUBSET RefreshSigs, tombs : SUBSET Requests, at : Nat]

CronStart ==
  /\ cron.stage = "idle"
  /\ cron' = [cron EXCEPT !.stage = "access",
                !.access = {a \in AccessSigs : access[a].req # NoRequest /\ access[a].exp < now}]
  /\ UNCHANGED <<store, history, pc, job>>

\* A delete that fails is logged and skipped.
CronAccess(a) ==
  /\ cron.stage = "access" /\ a \in cron.access
  /\ cron' = [cron EXCEPT !.access = @ \ {a}]
  /\ \/ access' = AccessWithout({a})
     \/ Faults /\ UNCHANGED access
  /\ UNCHANGED <<refresh, tomb, history, pc, job>>

CronQueryRefresh ==
  /\ cron.stage = "access" /\ cron.access = {}
  /\ cron' = [cron EXCEPT !.stage = "refresh",
                !.refresh = {s \in RefreshSigs : refresh[s].req # NoRequest /\ refresh[s].exp < now}]
  /\ UNCHANGED <<store, history, pc, job>>

CronRefresh(s) ==
  /\ cron.stage = "refresh" /\ s \in cron.refresh
  /\ cron' = [cron EXCEPT !.refresh = @ \ {s}]
  /\ \/ refresh' = RefreshWithout({s})
     \/ Faults /\ UNCHANGED refresh
  /\ UNCHANGED <<access, tomb, history, pc, job>>

CronQueryTombs ==
  /\ cron.stage = "refresh" /\ cron.refresh = {}
  /\ cron' = [cron EXCEPT !.stage = "tombs", !.at = now,
                !.tombs = {q \in Requests : tomb[q].present /\ tomb[q].exp < now}]
  /\ UNCHANGED <<store, history, pc, job>>

\* Bugs: the artifacts, or the access tokens, of a tombstone are not looked at.
OrphanedAlways(q)    == TRUE
OrphanedByRefresh(q) == RowsOf(q) = {}

Orphaned(q) == RowsOf(q) = {} /\ AccessOf(q) = {}

\* One transaction per tombstone: keep it, extended, while any artifact of its
\* request is left.
CronTomb(q) ==
  /\ cron.stage = "tombs" /\ q \in cron.tombs
  /\ cron' = [cron EXCEPT !.tombs = @ \ {q}]
  /\ \/ /\ Faults \/ ~tomb[q].present \/ tomb[q].exp >= cron.at
        /\ UNCHANGED tomb
     \/ /\ tomb[q].present /\ tomb[q].exp < cron.at
        /\ Orphaned(q)
        /\ tomb' = [tomb EXCEPT ![q] = NoTomb]
     \/ /\ tomb[q].present /\ tomb[q].exp < cron.at
        /\ ~Orphaned(q)
        /\ \E e \in {now + TombLife} \cup ArtifactExpiries(q) :
             /\ \A x \in {now + TombLife} \cup ArtifactExpiries(q) : x <= e
             /\ tomb' = [tomb EXCEPT ![q].exp = e]
  /\ UNCHANGED <<refresh, access, history, pc, job>>

CronEnd ==
  /\ cron.stage = "tombs" /\ cron.tombs = {}
  /\ cron' = NoCron
  /\ UNCHANGED <<store, history, pc, job>>

\* Time passes, but no handler is still running MaxPause after it began.
Tick ==
  /\ now < MaxTime
  /\ \A w \in Workers : pc[w] # "idle" => now < job[w].since + MaxPause
  /\ now' = now + 1
  /\ UNCHANGED <<store, issued, used, codeAt, dead, pc, job, cron>>

-----------------------------------------------------------------------------
\* At the start: empty tables, but for the rows of an older version of the
\* extension, which carry neither family nor status.
Init ==
  /\ \E legacy \in {f \in [LegacyRequests -> RefreshSigs] :
                       \A p, q \in LegacyRequests : f[p] = f[q] => p = q} :
       /\ issued = {legacy[q] : q \in LegacyRequests}
       /\ refresh = [s \in RefreshSigs |->
            IF s \in issued
            THEN [NoRefreshRow EXCEPT !.req = CHOOSE q \in LegacyRequests : legacy[q] = s,
                                      !.exp = RefreshLife]
            ELSE NoRefreshRow]
  /\ access = [a \in AccessSigs |-> NoAccessRow]
  /\ tomb = [q \in Requests |-> NoTomb]
  /\ used = {}
  /\ codeAt = [q \in Requests |-> IF q \in LegacyRequests THEN 0 ELSE -1]
  /\ now = 0
  /\ pc = [w \in Workers |-> "idle"]
  /\ job = [w \in Workers |-> NoJob]
  /\ cron = NoCron
  /\ dead = {}

\* One storage call of a running handler.
Step(w) ==
  \/ GetTomb(w) \/ GetCommit(w) \/ GetFamily(w)
  \/ DeleteFind(w) \/ DeleteRow(w)
  \/ RevokeCommit(w) \/ RevokeFamily(w)
  \/ AccessRead(w) \/ AccessDelete(w)
  \/ RotateTomb(w) \/ RotateCAS(w) \/ RotateReread(w) \/ RotateCommit(w) \/ RotateFamily(w)
  \/ CreateAccess(w) \/ CreateRefresh(w)
  \/ CheckTomb(w) \/ CheckRows(w)
  \/ Finish(w)

\* A request arrives.
Arrive(w) ==
  \/ \E s \in RefreshSigs, e \in {"refresh", "revoke", "check"} : PresentRefresh(w, s, e)
  \/ \E a \in AccessSigs, e \in {"check", "revoke"} : PresentAccess(w, a, e)
  \/ \E q \in Requests, k \in {"exchange", "accessonly"} : Exchange(w, q, k)
  \/ \E q \in Requests : ReplayCode(w, q)

Handlers == \E w \in Workers : Arrive(w) \/ Step(w) \/ AccessFault(w) \/ Abort(w)

CleanUp ==
  \/ CronStart \/ CronQueryRefresh \/ CronQueryTombs \/ CronEnd
  \/ \E a \in AccessSigs : CronAccess(a)
  \/ \E s \in RefreshSigs : CronRefresh(s)
  \/ \E q \in Requests : CronTomb(q)

Next == Handlers \/ CleanUp \/ Tick

Spec == Init /\ [][Next]_vars

-----------------------------------------------------------------------------
\* Invariants.

\* Every variable keeps its type: the columns hold what the schema allows and a
\* handler is at a storage call of its endpoint.
TypeOK ==
  /\ refresh \in [RefreshSigs -> RefreshRow]
  /\ access \in [AccessSigs -> AccessRow]
  /\ tomb \in [Requests -> Tomb]
  /\ issued \subseteq RefreshSigs /\ used \subseteq AccessSigs
  /\ codeAt \in [Requests -> Nat \cup {-1}]
  /\ now \in Nat
  /\ pc \in [Workers -> PCs]
  /\ job \in [Workers -> Job]
  /\ cron \in Cron
  /\ dead \subseteq Requests

\* A handler holds the right to store the next refresh token of its request: the
\* code exchange does, and the winner of a rotation from its UPDATE on.
Won(w) ==
  \/ pc[w] \in {"mkaccess", "mkrefresh"} /\ job[w].op # "accessonly"
  \/ pc[w] \in {"accread", "accdel"} /\ job[w].then = "mkaccess"
Winners(q) == {w \in Workers : job[w].req = q /\ Won(w)}
ActiveRows(q) == {s \in RowsOf(q) : GetStatus(s) = "active"}

\* The right to continue a family is never duplicated: of all active rows of a
\* request and all handlers that won a rotation and have not stored the
\* replacement, there is at most one (the conditional UPDATE of markRefreshRotated
\* and the checks of resolveRefreshLineage).
OneLeafAuthority ==
  \A q \in Requests :
    /\ \A s, t \in ActiveRows(q) : s = t
    /\ \A v, w \in Winners(q) : v = w
    /\ ActiveRows(q) = {} \/ Winners(q) = {}

\* A family is the history of one request: rows share a family exactly when they
\* share a request, and the tombstone names the same family.  So the corrupt
\* lineage and the mismatch of commitRefreshTerminalAuthority stay unreachable
\* from stored rows, and invalidating a family never hits another grant.
OneFamilyPerRequest ==
  \A s \in RefreshSigs : refresh[s].req # NoRequest =>
    /\ \A t \in RefreshSigs :
         /\ refresh[t].req = refresh[s].req => refresh[t].family = refresh[s].family
         /\ refresh[t].req # NoRequest /\ refresh[t].family = refresh[s].family /\ refresh[s].family # NoSig
              => refresh[t].req = refresh[s].req
    /\ tomb[refresh[s].req].family \in {NoSig, refresh[s].family}

\* A refresh token has at most one successor: concurrent refreshes of one token
\* do not fork the family (the conditional UPDATE of markRefreshRotated).
NoFork ==
  \A s, t \in RefreshSigs :
    /\ refresh[s].req # NoRequest /\ refresh[t].req # NoRequest
    /\ refresh[s].parent = refresh[t].parent /\ refresh[s].parent # NoSig
    => s = t

\* Rotation leaves no access token of the predecessor behind: a request never
\* has two stored access tokens, even when the clean-up between Rotate and
\* CreateAccess fails half-way (RotateRefreshToken).
OneAccessPerRequest ==
  \A a, b \in AccessSigs :
    access[a].req # NoRequest /\ access[a].req = access[b].req => a = b

\* Once terminal authority is committed it outlives everything it governs: when
\* the clean-up has removed the tombstone, nothing of the request is left, and no
\* paused handler brings anything back (cleanupExpiredRefreshTombstones).
DeadLeavesNothing ==
  \A q \in dead : ~tomb[q].present => RowsOf(q) = {} /\ AccessOf(q) = {}

\* While artifacts remain, the tombstone does not expire before they do, so the
\* clean-up cannot pass over an artifact that still works.
TombCoversArtifacts ==
  \A q \in Requests : tomb[q].present => \A x \in ArtifactExpiries(q) : x <= tomb[q].exp

\* A bearer check that begins after terminal authority was committed is never
\* granted, whichever rows a failed clean-up left behind
\* (assertRefreshFamilyAllowsAccess).  The one exception is a check during which the
\* token expired and the clean-up took the tombstone.
NoGrantAfterDeath ==
  \A w \in Workers : job[w].reply = "granted" /\ job[w].doomed => job[w].exp < now

\* "Inactive" is final: whoever is told so, the whole family of the request is
\* terminal, so a replayed token always takes its siblings with it.
InactiveMeansDead ==
  \A w \in Workers : job[w].reply = "inactive" => job[w].req \in dead

\* No tokens for the dead: a handler that began after terminal authority was
\* committed never answers with a new token pair.
NoTokensAfterDeath ==
  \A w \in Workers : job[w].reply = "tokens" => ~job[w].doomed

-----------------------------------------------------------------------------
\* Action properties.

\* No row is ever added to a dead request, also after its tombstone is gone.
DeadStaysDead ==
  [][\A q \in dead : RowsOf(q)' \subseteq RowsOf(q) /\ AccessOf(q)' \subseteq AccessOf(q)]_vars

\* A spent refresh token never works again: a row that is rotated, reused or
\* revoked never becomes active, and a terminal one never reads as rotated.
SpentStaysSpent ==
  [][\A s \in RefreshSigs : refresh[s].req # NoRequest /\ refresh'[s].req # NoRequest =>
       /\ GetStatus(s) # "active" => GetStatus(s)' # "active"
       /\ GetStatus(s) \in Terminal => GetStatus(s)' \in Terminal]_vars

\* What storage.go says of reuse detection (the comment of GetRefreshTokenSession):
\* a token whose row is not active is being replayed, and its family is
\* invalidated.  A handler that has found such a row leaves terminal authority.
DetectedReuseIsTerminal ==
  [][\A w \in Workers :
       pc[w] = "getcommit" /\ pc'[w] # "getcommit" => job[w].req \in dead']_vars

\* The families implement what TokenAuthority promises: a token works when its
\* row is active and no tombstone covers its request, so committing a tombstone
\* takes the working token away at once, whatever becomes of the rows, and when
\* the clean-up removes the tombstone nothing that could work is left.
Authority == INSTANCE TokenAuthority WITH
  Requests <- Requests, Tokens <- RefreshSigs,
  leaf <- [q \in Requests |-> IF tomb[q].present THEN {} ELSE ActiveRows(q)],
  spent <- issued \ UNION {IF tomb[q].present THEN {} ELSE ActiveRows(q) : q \in Requests},
  dead <- dead
ImplementsAuthority == Authority!Spec

-----------------------------------------------------------------------------
\* Liveness.  A handler that has begun goes on: fosite calls the storage in
\* sequence and nothing waits for another handler.
Progress == \A w \in Workers : WF_vars(Step(w))
LiveSpec == Spec /\ Progress

\* Without storage failures, terminal authority is followed by the dismantling of
\* the family: no refresh row of the request stays active, no access row stays. (A
\* row of before family ids is left to its tombstone: its revocation fails.)
DeadIsDismantled ==
  \A q \in Requests :
    q \in dead ~> /\ \A s \in RowsOf(q) : refresh[s].family # NoSig => GetStatus(s) # "active"
                  /\ AccessOf(q) = {}

-----------------------------------------------------------------------------
\* What the documentation says and the code does not do. No listed run checks
\* these; the README tells how TLC refutes each.

\* What storage.go says of a lost rotation race (the comment of markRefreshRotated):
\* the loser "is failed with fosite.ErrSerializationFailure".
LoserGetsSerializationFailure ==
  [][\A w \in Workers :
       pc[w] \in {"accread", "accdel"} /\ job[w].then = "lost" /\ pc'[w] = "replied"
         => job'[w].reply = "serialization"]_vars

\* What storage.go says of a rotation (the comment of CreateRefreshTokenSession):
\* the new row inherits the family of its predecessor and names it as parent.
RotationKeepsLineage ==
  [][\A w \in Workers : job[w].op = "refresh" =>
       \A s \in issued' \ issued : pc[w] = "mkrefresh" /\ pc'[w] = "replied" =>
         refresh'[s].family = job[w].family /\ refresh'[s].parent = job[w].sig]_vars

\* What storage.go says in DeleteRefreshTokenSession: terminal rows are kept, and
\* "expiry cleanup owns their eventual removal".
TerminalRowsKeptUntilExpiry ==
  [][\A s \in RefreshSigs :
       refresh[s].req # NoRequest /\ GetStatus(s) \in Terminal /\ refresh'[s].req = NoRequest
         => refresh[s].exp < now]_vars
=============================================================================
