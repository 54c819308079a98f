---------------------------- MODULE Interaction ----------------------------
(***************************************************************************)
(* Pending login interactions and recorded consents of one provider: the   *)
(* rows of _oauth2Interactions and _oauth2Consents, the authorization      *)
(* endpoint that writes an interaction, the /login/complete handler that   *)
(* consumes it, merges the consent and issues an authorization code, and   *)
(* the hourly clean-up.  Every storage call is one action, so completions  *)
(* of several browser tabs interleave between any two.                     *)
(***************************************************************************)
EXTENDS Integers, FiniteSets

CONSTANTS
  Ids,         \* interaction ids (uuid.NewString), each generated once
  Clients,     \* registered clients
  Users,       \* auth records with a valid login token
  Outsiders,   \* the users outside the configured user collection
  Returning,   \* users with a consent row from logins that asked for no scope
  Scopes,      \* scopes a request can ask for
  URIs,        \* redirect URIs registered by every client
  FirstURI,    \* the first of them
  Modes,       \* response modes requested
  Decisions,   \* what the login UI posts as the decision
  Tabs,        \* /login/complete handlers that may run at the same time
  None,        \* no id, client, user, URI
  Lifespan,    \* interactionLifespan
  Rats,        \* offsets from now of the rat form value
  MaxTime,     \* bound on the clock
  Faults       \* TRUE when a storage call may fail

ASSUME SetsAssumption ==
  /\ None \notin Ids \cup Clients \cup Users \cup URIs \cup Tabs
  /\ Outsiders \subseteq Users /\ Returning \subseteq Users \ Outsiders
  /\ FirstURI \in URIs
  /\ Modes \subseteq {"query", "form_post"}
  /\ Decisions \subseteq {"approve", "deny", "acr_unsatisfiable"}
ASSUME NumbersAssumption ==
  /\ Lifespan \in Nat /\ MaxTime \in Nat
  /\ Rats \subseteq Int
  /\ Faults \in BOOLEAN

VARIABLES
  row,       \* _oauth2Interactions by id
  consent,   \* granted_scopes of _oauth2Consents by user and client
  codes,     \* authorization codes issued by a completion
  now,       \* time.Now()
  pc,        \* the next storage call of each completion
  job,       \* the local state of each completion
  asked,     \* history: when each interaction was created and the URI asked for
  winner,    \* history: the tab that consumed each interaction
  denied,    \* history: interactions consumed by a denial
  approved   \* history: scopes a user approved in completions that passed

vars == <<row, consent, codes, now, pc, job, asked, winner, denied, approved>>

-----------------------------------------------------------------------------
NoRow == [client |-> None, uri |-> None, form |-> None, scopes |-> {},
          mode |-> "query", exp |-> 0]
Row == [client : Clients \cup {None}, uri : URIs \cup {None}, form : URIs \cup {None},
        scopes : SUBSET Scopes, mode : {"query", "form_post"}, exp : Int]

\* No row of the consent table is the value NoConsent.
NoConsent == [present |-> FALSE, scopes |-> {}]
Consent == [present : BOOLEAN, scopes : SUBSET Scopes]

Code == [id : Ids, client : Clients, user : Users, scopes : SUBSET Scopes, uri : URIs]

\* What /login/complete answers: a redirect with a code or an OAuth error, or
\* a plain HTTP error.
Replies == {"none", "notfound", "badrequest", "server_error", "access_denied",
            "login_required", "consent_required", "authorize_error", "code"}
PCs == {"idle", "find", "delete", "decide", "prior", "upsertfind", "upsertsave",
        "authorize", "replied"}

\* The decoded body, the interaction consumed, the scopes available, the consent
\* row UpsertConsentAt found, and the answer with the URI it redirects to.
Job == [id : Ids \cup {None}, decision : {"none", "approve", "deny", "acr_unsatisfiable"},
        token : Users \cup {None, "invalid"}, consented : SUBSET Scopes, in : Row,
        available : SUBSET Scopes, existing : Consent, reply : Replies, to : URIs \cup {None}]
NoJob == [id |-> None, decision |-> "none", token |-> None, consented |-> {},
          in |-> NoRow, available |-> {}, existing |-> NoConsent,
          reply |-> "none", to |-> None]

TypeOK ==
  /\ row \in [Ids -> Row]
  /\ consent \in [Users -> [Clients -> Consent]]
  /\ codes \subseteq Code
  /\ now \in 0..MaxTime
  /\ pc \in [Tabs -> PCs]
  /\ job \in [Tabs -> Job]
  /\ asked \in [Ids -> [at : Nat \cup {-1}, uri : URIs \cup {None}]]
  /\ winner \in [Ids -> Tabs \cup {None}]
  /\ denied \subseteq Ids
  /\ approved \in [Users -> [Clients -> SUBSET Scopes]]

Present(i) == row[i] # NoRow
NotAsked == [at |-> -1, uri |-> None]

Init ==
  /\ row = [i \in Ids |-> NoRow]
  /\ consent = [u \in Users |-> [c \in Clients |-> [present |-> u \in Returning, scopes |-> {}]]]
  /\ codes = {}
  /\ now = 0
  /\ pc = [t \in Tabs |-> "idle"]
  /\ job = [t \in Tabs |-> NoJob]
  /\ asked = [i \in Ids |-> NotAsked]
  /\ winner = [i \in Ids |-> None]
  /\ denied = {}
  /\ approved = [u \in Users |-> [c \in Clients |-> {}]]

-----------------------------------------------------------------------------
\* The authorization endpoint.

\* CreateInteractionAt: the expiry counts from RequestedAt, which the handler
\* takes from the request's own rat parameter when it has one.
NewRow(c, u, S, m, rat) ==
  [client |-> c, uri |-> FirstURI, form |-> u, scopes |-> S, mode |-> m,
   exp |-> now + rat + Lifespan]

Authorize(i, c, u, S, m, rat) ==
  /\ asked[i] = NotAsked
  /\ row' = [row EXCEPT ![i] = NewRow(c, u, S, m, rat)]
  /\ asked' = [asked EXCEPT ![i] = [at |-> now, uri |-> u]]
  /\ UNCHANGED <<consent, codes, now, pc, job, winner, denied, approved>>

-----------------------------------------------------------------------------
\* Steps of a completion.

Goto(t, p) == pc' = [pc EXCEPT ![t] = p]
Reply(t, r, u) ==
  /\ Goto(t, "replied")
  /\ job' = [job EXCEPT ![t] = [NoJob EXCEPT !.id = job[t].id,
               !.decision = job[t].decision, !.reply = r, !.to = u]]
HttpError(t, r) == Reply(t, r, None)
\* writeInteractionError: a redirect to the stored RedirectURI.
InteractionError(t, r) == Reply(t, r, job[t].in.uri)

\* The body of POST /login/complete; consented_scopes are "only on approve".
Post(t, i, d, tok, S) ==
  /\ d = "approve" \/ S = {}
  /\ pc[t] = "idle" /\ asked[i] # NotAsked
  /\ Goto(t, "find")
  /\ job' = [job EXCEPT ![t] = [NoJob EXCEPT !.id = i, !.decision = d, !.token = tok,
               !.consented = S]]
  /\ UNCHANGED <<row, consent, codes, now, asked, winner, denied, approved>>

\* FindInteractionAt inside ConsumeInteractionAt.
FindInteraction(t) ==
  LET i == job[t].id IN
  /\ pc[t] = "find"
  /\ \/ /\ Present(i) /\ now <= row[i].exp
        /\ Goto(t, "delete")
        /\ job' = [job EXCEPT ![t].in = row[i]]
     \/ /\ ~(Present(i) /\ now <= row[i].exp) \/ Faults
        /\ HttpError(t, "notfound")
  /\ UNCHANGED <<row, consent, codes, now, asked, winner, denied, approved>>

\* Bug: the number of rows the DELETE affected is not looked at.
ConsumeWithoutCount(t) ==
  LET i == job[t].id IN
  /\ pc[t] = "delete"
  /\ row' = [row EXCEPT ![i] = NoRow]
  /\ winner' = [winner EXCEPT ![i] = t]
  /\ Goto(t, "decide")
  /\ UNCHANGED <<consent, codes, now, job, asked, denied, approved>>

\* The DELETE of ConsumeInteractionAt: whoever removes the row goes on.
Consume(t) ==
  LET i == job[t].id IN
  /\ pc[t] = "delete"
  /\ \/ /\ Present(i)
        /\ row' = [row EXCEPT ![i] = NoRow]
        /\ winner' = [winner EXCEPT ![i] = t]
        /\ Goto(t, "decide")
        /\ UNCHANGED job
     \/ /\ ~Present(i) \/ Faults
        /\ HttpError(t, "notfound")
        /\ UNCHANGED <<row, winner>>
  /\ UNCHANGED <<consent, codes, now, asked, denied, approved>>

\* Bug: the decision is read after the login token, so a denial with a valid
\* token goes on as an approval.
DecideIgnoresDenial(t) ==
  /\ pc[t] = "decide"
  /\ IF job[t].token \in Users \ Outsiders
     THEN Goto(t, "prior") /\ UNCHANGED job
     ELSE InteractionError(t, "login_required")
  /\ denied' = IF job[t].decision = "deny" THEN denied \cup {job[t].id} ELSE denied
  /\ UNCHANGED <<row, consent, codes, now, asked, winner, approved>>

\* The decision and the login token, looked at once the interaction is gone. A
\* token of a deleted user is answered like no token at all.
Decide(t) ==
  LET j == job[t] IN
  /\ pc[t] = "decide"
  /\ \/ j.decision = "deny" /\ InteractionError(t, "access_denied")
     \/ j.decision \notin {"approve", "deny"} /\ HttpError(t, "badrequest")
     \/ /\ j.decision = "approve"
        /\ \/ j.token = None /\ InteractionError(t, "login_required")
           \/ j.token = "invalid" /\ HttpError(t, "server_error")
           \/ j.token \in Outsiders /\ InteractionError(t, "access_denied")
           \/ j.token \in Users \ Outsiders /\ Goto(t, "prior") /\ UNCHANGED job
  /\ denied' = IF j.decision = "deny" THEN denied \cup {j.id} ELSE denied
  /\ UNCHANGED <<row, consent, codes, now, asked, winner, approved>>

\* FindConsentAt, mergeScopes and ConsentCovers; a failed read counts as no
\* prior consent.
PriorConsent(t) ==
  LET j == job[t] u == j.token c == j.in.client IN
  /\ pc[t] = "prior"
  /\ \E prior \in {consent[u][c].scopes} \cup (IF Faults THEN {{}} ELSE {}) :
       LET available == prior \cup j.consented IN
       IF j.in.scopes \subseteq available
       THEN /\ Goto(t, "upsertfind")
            /\ job' = [job EXCEPT ![t].available = available]
            /\ approved' = [approved EXCEPT ![u][c] = @ \cup j.consented]
       ELSE InteractionError(t, "consent_required") /\ UNCHANGED approved
  /\ UNCHANGED <<row, consent, codes, now, asked, winner, denied>>

\* The read of UpsertConsentAt; its failure is logged and the login goes on.
UpsertFind(t) ==
  /\ pc[t] = "upsertfind"
  /\ \/ /\ Goto(t, "upsertsave")
        /\ job' = [job EXCEPT ![t].existing = consent[job[t].token][job[t].in.client]]
     \/ /\ Faults
        /\ Goto(t, "authorize")
        /\ UNCHANGED job
  /\ UNCHANGED <<row, consent, codes, now, asked, winner, denied, approved>>

\* Bug: the consent is recorded without its client.
UpsertForAnyClient(t) ==
  LET j == job[t] IN
  /\ pc[t] = "upsertsave"
  /\ consent' = [consent EXCEPT ![j.token] =
       [c \in Clients |-> [present |-> TRUE, scopes |-> j.existing.scopes \cup j.available]]]
  /\ Goto(t, "authorize")
  /\ UNCHANGED <<row, codes, now, job, asked, winner, denied, approved>>

\* The write of UpsertConsentAt: an update of the row found, or an insert that
\* the unique index refuses when another completion got there first.
UpsertSave(t) ==
  LET j == job[t] u == j.token c == j.in.client IN
  /\ pc[t] = "upsertsave"
  /\ \/ /\ j.existing.present \/ ~consent[u][c].present
        /\ consent' = [consent EXCEPT ![u][c] =
             [present |-> TRUE, scopes |-> j.existing.scopes \cup j.available]]
     \/ /\ (~j.existing.present /\ consent[u][c].present) \/ Faults
        /\ UNCHANGED consent
  /\ Goto(t, "authorize")
  /\ UNCHANGED <<row, codes, now, job, asked, winner, denied, approved>>

\* NewAuthorizeRequest over the stored form, every requested scope granted,
\* NewAuthorizeResponse; with form_post the code is issued but not delivered.
IssueCode(t) ==
  LET j == job[t] IN
  /\ pc[t] = "authorize"
  /\ \/ /\ codes' = codes \cup {[id |-> j.id, client |-> j.in.client, user |-> j.token,
                                 scopes |-> j.in.scopes, uri |-> j.in.form]}
        /\ IF j.in.mode = "form_post" THEN HttpError(t, "server_error")
           ELSE Reply(t, "code", j.in.form)
     \/ /\ Faults
        /\ InteractionError(t, "authorize_error")
        /\ UNCHANGED codes
  /\ UNCHANGED <<row, consent, now, asked, winner, denied, approved>>

Finish(t) ==
  /\ pc[t] = "replied"
  /\ Goto(t, "idle")
  /\ job' = [job EXCEPT ![t] = NoJob]
  /\ UNCHANGED <<row, consent, codes, now, asked, winner, denied, approved>>

-----------------------------------------------------------------------------
\* registerCleanupJob on _oauth2Interactions.  It reads the expired rows and
\* deletes them one by one; an expired row stays expired, and a row consumed in
\* between is already gone.
Cleanup(i) ==
  /\ Present(i) /\ row[i].exp < now
  /\ row' = [row EXCEPT ![i] = NoRow]
  /\ UNCHANGED <<consent, codes, now, pc, job, asked, winner, denied, approved>>

Tick ==
  /\ now < MaxTime
  /\ now' = now + 1
  /\ UNCHANGED <<row, consent, codes, pc, job, asked, winner, denied, approved>>

Handle(t) ==
  \/ FindInteraction(t) \/ Consume(t) \/ Decide(t) \/ PriorConsent(t)
  \/ UpsertFind(t) \/ UpsertSave(t) \/ IssueCode(t) \/ Finish(t)

Next ==
  \/ \E i \in Ids, c \in Clients, u \in URIs, S \in SUBSET Scopes, m \in Modes, r \in Rats :
       Authorize(i, c, u, S, m, r)
  \/ \E t \in Tabs, i \in Ids, d \in Decisions, tok \in Users \cup {None, "invalid"},
        S \in SUBSET Scopes : Post(t, i, d, tok, S)
  \/ \E t \in Tabs : Handle(t)
  \/ \E i \in Ids : Cleanup(i)
  \/ Tick

Spec == Init /\ [][Next]_vars
-----------------------------------------------------------------------------
\* Properties.

\* ConsumeInteractionAt "atomically claims a pending interaction for one
\* completion attempt": of any number of tabs that found the row, one goes on,
\* and none does once the clean-up job took the row.
Claims == INSTANCE SingleUse WITH
  Items <- Ids, Takers <- Tabs, Nobody <- None,
  status <- [i \in Ids |-> IF asked[i] = NotAsked THEN "unborn"
                           ELSE IF winner[i] # None THEN "taken"
                           ELSE IF Present(i) THEN "open" ELSE "gone"],
  taker <- winner
ClaimedOnce == Claims!Spec

\* A code's scopes were approved by its user for its client, in this completion
\* or an earlier one, whatever completions of the same user raced with it.
CodeScopesApproved ==
  \A k \in codes : k.scopes \subseteq approved[k.user][k.client]

\* Once one tab has denied a request, no other tab's approval of the same
\* interaction gets a code, before or after.
DenialIsFinal == \A k \in codes : k.id \notin denied

\* A stored consent never holds a scope its user did not approve for that very
\* client, lost and concurrent upserts included. A theorem only: what a code is
\* granted on top of a wrong consent, CodeScopesApproved tells in the runs.
ConsentWasApproved ==
  \A u \in Users, c \in Clients : consent[u][c].scopes \subseteq approved[u][c]

-----------------------------------------------------------------------------
\* What the documentation says and the code does not do. No listed run checks
\* these; the README tells how TLC refutes each.

\* storage_interactions.go:253: UpsertConsent "merges newly-granted scopes into
\* the (user, client) row", so a recorded grant is not lost again.
MergesGrants ==
  [][\A u \in Users, c \in Clients :
       consent[u][c].scopes \subseteq consent'[u][c].scopes]_consent

\* storage_interactions.go:19: interactionLifespan "is how long a pending
\* /oauth2/auth interaction stays usable before it must be re-initiated".
UsableForLifespan ==
  \A i \in Ids : Present(i) /\ now <= row[i].exp => now <= asked[i].at + Lifespan

\* storage_interactions.go:25: an interaction is "the server-owned snapshot of a
\* pending authorization request", so a denial goes where the request asked.
DenialFollowsRequest ==
  \A t \in Tabs : job[t].reply = "access_denied" => job[t].to = asked[job[t].id].uri

\* storage_interactions.go:44: the login UI may "surface the
\* insufficient_user_authentication error via /login/complete with
\* decision="acr_unsatisfiable"", so that decision is no bad request.
AcrDecisionAccepted ==
  \A t \in Tabs : job[t].decision = "acr_unsatisfiable" => job[t].reply # "badrequest"
=============================================================================
