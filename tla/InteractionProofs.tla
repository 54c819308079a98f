------------------------- MODULE InteractionProofs -------------------------
(***************************************************************************)
(* Proofs about Interaction: an interaction is completed once, a denied    *)
(* one never gets a code, and neither a code nor a stored consent holds a  *)
(* scope its user did not approve for its client.                          *)
(***************************************************************************)
EXTENDS Interaction, TLAPS

-----------------------------------------------------------------------------
\* Types.

\* A completion that passed FindInteraction has an id, one that passed Decide the
\* user of its login token, and both the client of the row found.
Claiming == {"decide", "prior", "upsertfind", "upsertsave", "authorize"}
Approving == {"prior", "upsertfind", "upsertsave", "authorize"}
JobOK(p, j) ==
  /\ p # "idle" => j.id \in Ids
  /\ p \in Claiming \cup {"delete"} =>
       j.in.client \in Clients /\ j.in.uri \in URIs /\ j.in.form \in URIs
  /\ p \in Approving => j.token \in Users
TabOK(t) == JobOK(pc[t], job[t])

RowOK(r) == r = NoRow \/ (r.client \in Clients /\ r.uri \in URIs /\ r.form \in URIs)

TInv ==
  /\ TypeOK
  /\ \A i \in Ids : RowOK(row[i])
  /\ \A t \in Tabs : TabOK(t)

LEMMA NoJobType == NoJob \in Job /\ NoRow \in Row
BY DEF NoJob, NoRow, NoConsent, Consent, Job, Row, Replies

LEMMA TypeInit == Init => TInv
<1> SUFFICES ASSUME Init PROVE TInv
  OBVIOUS
<1>1. job \in [Tabs -> Job] /\ row \in [Ids -> Row]
  BY NoJobType DEF Init
<1>2. consent \in [Users -> [Clients -> Consent]]
  BY DEF Init, Consent
<1>3. asked \in [Ids -> [at : Nat \cup {-1}, uri : URIs \cup {None}]]
  BY DEF Init, NotAsked
<1>4. winner \in [Ids -> Tabs \cup {None}] /\ approved \in [Users -> [Clients -> SUBSET Scopes]]
  BY DEF Init
<1>5. pc \in [Tabs -> PCs] /\ now \in 0..MaxTime /\ codes \subseteq Code /\ denied \subseteq Ids
  BY NumbersAssumption DEF Init, PCs
<1>6. TypeOK
  BY <1>1, <1>2, <1>3, <1>4, <1>5 DEF TypeOK
<1>7. \A t \in Tabs : TabOK(t)
  BY DEF Init, TabOK, JobOK, Claiming, Approving
<1> QED  BY <1>6, <1>7 DEF TInv, Init, RowOK

\* What an answer leaves of a completion.
LEMMA ReplyType ==
  ASSUME TInv, NEW t \in Tabs, NEW r \in Replies, NEW u \in URIs \cup {None}, Reply(t, r, u),
         pc[t] # "idle"
  PROVE  /\ pc' \in [Tabs -> PCs] /\ job' \in [Tabs -> Job]
         /\ pc'[t] = "replied" /\ job'[t].id = job[t].id
         /\ \A v \in Tabs : v # t => pc'[v] = pc[v] /\ job'[v] = job[v]
         /\ \A v \in Tabs : TabOK(v)'
<1>1. pc \in [Tabs -> PCs] /\ job \in [Tabs -> Job] /\ job[t] \in Job
  BY DEF TInv, TypeOK
<1>2. pc' \in [Tabs -> PCs] /\ pc'[t] = "replied" /\ \A v \in Tabs : v # t => pc'[v] = pc[v]
  BY <1>1 DEF Reply, Goto, PCs
<1>3. [NoJob EXCEPT !.id = job[t].id, !.decision = job[t].decision, !.reply = r, !.to = u] \in Job
  BY <1>1, NoJobType DEF Job, NoJob
<1>4. job' \in [Tabs -> Job] /\ \A v \in Tabs : v # t => job'[v] = job[v]
  BY <1>1, <1>3 DEF Reply
<1>5. job'[t].id = job[t].id
  BY <1>1 DEF Reply, NoJob
<1>6. \A v \in Tabs : TabOK(v)'
  BY <1>2, <1>4, <1>5 DEF TInv, TabOK, JobOK, Claiming, Approving
<1> QED  BY <1>2, <1>4, <1>5, <1>6

\* The next call of a completion whose locals change in one step.
LEMMA GotoType ==
  ASSUME TInv, NEW t \in Tabs, NEW p \in PCs, Goto(t, p), NEW j \in Job, JobOK(p, j),
         job' = [job EXCEPT ![t] = j]
  PROVE  /\ pc' \in [Tabs -> PCs] /\ job' \in [Tabs -> Job]
         /\ \A v \in Tabs : TabOK(v)'
BY DEF TInv, TypeOK, Goto, TabOK

\* The answers of the handler; writeInteractionError needs the row's own URI.
LEMMA AnswerTypes ==
  ASSUME TInv, NEW t \in Tabs, pc[t] # "idle", NEW r \in Replies
  PROVE  /\ HttpError(t, r) => \E u \in URIs \cup {None} : Reply(t, r, u)
         /\ InteractionError(t, r) /\ pc[t] \in Claiming => \E u \in URIs \cup {None} : Reply(t, r, u)
BY DEF HttpError, InteractionError, TInv, TabOK, JobOK

LEMMA TypeNext == TInv /\ [Next]_vars => TInv'
<1> SUFFICES ASSUME TInv, [Next]_vars PROVE TInv'
  OBVIOUS
<1> DEFINE Frame == /\ UNCHANGED <<row, consent, codes, asked, winner, denied, approved>>
           TabsKept == /\ pc' \in [Tabs -> PCs] /\ job' \in [Tabs -> Job]
                       /\ \A v \in Tabs : TabOK(v)'
<1>t. TypeOK /\ (\A i \in Ids : RowOK(row[i])) /\ \A v \in Tabs : TabOK(v) /\ job[v] \in Job
  BY DEF TInv, TypeOK
<1>n. now \in Nat /\ now <= MaxTime
  BY <1>t, NumbersAssumption DEF TypeOK
<1>k. UNCHANGED <<pc, job>> => TabsKept
  BY <1>t DEF TypeOK, TabOK
<1>a. ASSUME NEW t \in Tabs, pc[t] # "idle", NEW r \in Replies,
             HttpError(t, r) \/ (InteractionError(t, r) /\ pc[t] \in Claiming)
      PROVE  TabsKept
  BY <1>a, AnswerTypes, ReplyType
<1>1. ASSUME NEW i \in Ids, NEW c \in Clients, NEW u \in URIs, NEW S \in SUBSET Scopes,
             NEW m \in Modes, NEW r \in Rats, Authorize(i, c, u, S, m, r)
      PROVE  TInv'
  <2>1. NewRow(c, u, S, m, r) \in Row /\ RowOK(NewRow(c, u, S, m, r))
    BY <1>n, SetsAssumption, NumbersAssumption DEF NewRow, Row, RowOK
  <2>2. row' \in [Ids -> Row] /\ \A k \in Ids : RowOK(row'[k])
    BY <1>t, <1>1, <2>1 DEF Authorize, TypeOK
  <2>3. asked' \in [Ids -> [at : Nat \cup {-1}, uri : URIs \cup {None}]]
    BY <1>t, <1>n, <1>1 DEF Authorize, TypeOK
  <2> QED  BY <1>t, <1>k, <1>1, <2>2, <2>3 DEF Authorize, TInv, TypeOK
<1>2. ASSUME NEW t \in Tabs, NEW i \in Ids, NEW d \in Decisions,
             NEW tok \in Users \cup {None, "invalid"}, NEW S \in SUBSET Scopes, Post(t, i, d, tok, S)
      PROVE  TInv'
  <2> DEFINE j == [NoJob EXCEPT !.id = i, !.decision = d, !.token = tok, !.consented = S]
  <2>1. j \in Job /\ JobOK("find", j)
    BY NoJobType, SetsAssumption DEF NoJob, Job, JobOK, Claiming, Approving
  <2>2. Goto(t, "find") /\ job' = [job EXCEPT ![t] = j] /\ "find" \in PCs
    BY <1>2 DEF Post, PCs
  <2>3. TabsKept
    BY <2>1, <2>2, GotoType
  <2> QED  BY <1>t, <1>2, <2>3 DEF Post, TInv, TypeOK
<1>3. ASSUME NEW t \in Tabs, FindInteraction(t) PROVE TInv'
  <2>1. CASE Present(job[t].id) /\ Goto(t, "delete") /\ job' = [job EXCEPT ![t].in = row[job[t].id]]
    <3> DEFINE j == [job[t] EXCEPT !.in = row[job[t].id]]
    <3>1. job[t].id \in Ids
      BY <1>t, <1>3 DEF FindInteraction, TabOK, JobOK
    <3>2. row[job[t].id] \in Row /\ RowOK(row[job[t].id]) /\ row[job[t].id] # NoRow
      BY <1>t, <2>1, <3>1 DEF TypeOK, Present
    <3>j. j \in Job /\ JobOK("delete", j)
      BY <1>t, <3>1, <3>2 DEF Job, JobOK, RowOK, Approving
    <3>3. job' = [job EXCEPT ![t] = j] /\ "delete" \in PCs
      BY <1>t, <2>1 DEF TypeOK, PCs
    <3>4. TabsKept
      BY <2>1, <3>j, <3>3, GotoType
    <3> QED  BY <1>t, <1>3, <3>4 DEF FindInteraction, TInv, TypeOK
  <2>2. CASE HttpError(t, "notfound")
    <3>1. TabsKept
      BY <1>a, <1>3, <2>2 DEF FindInteraction, Replies
    <3> QED  BY <1>t, <1>3, <3>1 DEF FindInteraction, TInv, TypeOK
  <2> QED  BY <1>3, <2>1, <2>2 DEF FindInteraction
<1>4. ASSUME NEW t \in Tabs, Consume(t) PROVE TInv'
  <2>i. job[t].id \in Ids
    BY <1>t, <1>4 DEF Consume, TabOK, JobOK
  <2>1. CASE /\ row' = [row EXCEPT ![job[t].id] = NoRow]
             /\ winner' = [winner EXCEPT ![job[t].id] = t]
             /\ Goto(t, "decide") /\ UNCHANGED job
    <3>1. "decide" \in PCs /\ job' = [job EXCEPT ![t] = job[t]]
      BY <1>t, <2>1 DEF TypeOK, PCs
    <3>j. JobOK("decide", job[t])
      BY <1>t, <1>4 DEF Consume, TabOK, JobOK, Claiming, Approving
    <3>2. TabsKept
      BY <1>t, <2>1, <3>1, <3>j, GotoType
    <3>3. row' \in [Ids -> Row] /\ \A k \in Ids : RowOK(row'[k])
      BY <1>t, <2>1, NoJobType DEF TypeOK, RowOK
    <3>4. winner' \in [Ids -> Tabs \cup {None}]
      BY <1>t, <2>1 DEF TypeOK
    <3> QED  BY <1>t, <1>4, <3>2, <3>3, <3>4 DEF Consume, TInv, TypeOK
  <2>2. CASE HttpError(t, "notfound") /\ UNCHANGED <<row, winner>>
    <3>1. TabsKept
      BY <1>a, <1>4, <2>2 DEF Consume, Replies
    <3> QED  BY <1>t, <1>4, <2>2, <3>1 DEF Consume, TInv, TypeOK
  <2> QED  BY <1>4, <2>1, <2>2 DEF Consume
<1>5. ASSUME NEW t \in Tabs, Decide(t) PROVE TInv'
  <2>i. job[t].id \in Ids /\ pc[t] = "decide"
    BY <1>t, <1>5 DEF Decide, TabOK, JobOK, Claiming
  <2>1. ASSUME job[t].token \in Users \ Outsiders, Goto(t, "prior"), UNCHANGED job
        PROVE  TabsKept
    <3>1. "prior" \in PCs /\ job' = [job EXCEPT ![t] = job[t]]
      BY <1>t, <2>1 DEF TypeOK, PCs
    <3>2. JobOK("prior", job[t])
      BY <1>t, <2>1, <2>i DEF TabOK, JobOK, Claiming
    <3> QED  BY <1>t, <2>1, <3>1, <3>2, GotoType
  <2>2. ASSUME NEW r \in Replies, HttpError(t, r) \/ InteractionError(t, r)
        PROVE  TabsKept
    BY <1>a, <2>2, <2>i DEF Claiming
  <2>3. TabsKept
    <3>1. {"access_denied", "badrequest", "login_required", "server_error"} \subseteq Replies
      BY DEF Replies
    <3> QED  BY <1>5, <2>1, <2>2, <3>1 DEF Decide
  <2>4. denied' \subseteq Ids
    BY <1>t, <1>5, <2>i DEF Decide, TypeOK
  <2> QED  BY <1>t, <1>5, <2>3, <2>4 DEF Decide, TInv, TypeOK
<1>6. ASSUME NEW t \in Tabs, PriorConsent(t) PROVE TInv'
  <2> DEFINE u == job[t].token
             c == job[t].in.client
  <2>i. pc[t] = "prior" /\ job[t].id \in Ids /\ u \in Users /\ c \in Clients
    BY <1>t, <1>6 DEF PriorConsent, TabOK, JobOK, Claiming, Approving
  <2>1. ASSUME NEW prior \in {consent[u][c].scopes} \cup (IF Faults THEN {{}} ELSE {}),
               Goto(t, "upsertfind"),
               job' = [job EXCEPT ![t].available = prior \cup job[t].consented],
               approved' = [approved EXCEPT ![u][c] = @ \cup job[t].consented]
        PROVE  TInv'
    <3>1. prior \subseteq Scopes
      BY <1>t, <2>i, <2>1 DEF TypeOK, Consent
    <3> DEFINE j == [job[t] EXCEPT !.available = prior \cup job[t].consented]
    <3>2. j \in Job /\ JobOK("upsertfind", j)
      BY <1>t, <2>i, <3>1 DEF Job, TabOK, JobOK, Claiming, Approving
    <3>3. job' = [job EXCEPT ![t] = j] /\ "upsertfind" \in PCs
      BY <1>t, <2>1 DEF TypeOK, PCs
    <3>4. TabsKept
      BY <2>1, <3>2, <3>3, GotoType
    <3>5. approved' \in [Users -> [Clients -> SUBSET Scopes]]
      <4>1. job[t].consented \subseteq Scopes
        BY <1>t DEF Job
      <4> QED  BY <1>t, <2>i, <2>1, <4>1 DEF TypeOK
    <3> QED  BY <1>t, <1>6, <3>4, <3>5 DEF PriorConsent, TInv, TypeOK
  <2>2. CASE InteractionError(t, "consent_required") /\ UNCHANGED approved
    <3>1. TabsKept
      BY <1>a, <2>i, <2>2 DEF Replies, Claiming
    <3> QED  BY <1>t, <1>6, <2>2, <3>1 DEF PriorConsent, TInv, TypeOK
  <2> QED  BY <1>6, <2>1, <2>2 DEF PriorConsent
<1>7. ASSUME NEW t \in Tabs, UpsertFind(t) PROVE TInv'
  <2>i. pc[t] = "upsertfind" /\ job[t].token \in Users /\ job[t].in.client \in Clients
    BY <1>t, <1>7 DEF UpsertFind, TabOK, JobOK, Claiming, Approving
  <2> DEFINE e == consent[job[t].token][job[t].in.client]
             j == [job[t] EXCEPT !.existing = e]
  <2>e. e \in Consent
    BY <1>t, <2>i DEF TypeOK
  <2>1. j \in Job /\ JobOK("upsertsave", j) /\ JobOK("authorize", job[t])
    BY <1>t, <2>i, <2>e DEF Job, TabOK, JobOK, Claiming, Approving
  <2>2. \/ job' = [job EXCEPT ![t] = j] /\ Goto(t, "upsertsave")
        \/ job' = [job EXCEPT ![t] = job[t]] /\ Goto(t, "authorize")
    BY <1>t, <1>7 DEF UpsertFind, TypeOK
  <2>3. {"upsertsave", "authorize"} \subseteq PCs
    BY DEF PCs
  <2>4. TabsKept
    BY <1>t, <2>1, <2>2, <2>3, GotoType
  <2> QED  BY <1>t, <1>7, <2>4 DEF UpsertFind, TInv, TypeOK
<1>8. ASSUME NEW t \in Tabs, UpsertSave(t) PROVE TInv'
  <2>i. pc[t] = "upsertsave" /\ job[t].token \in Users /\ job[t].in.client \in Clients
    BY <1>t, <1>8 DEF UpsertSave, TabOK, JobOK, Claiming, Approving
  <2>1. consent' \in [Users -> [Clients -> Consent]]
    <3>1. PICK k \in Consent :
             k = [present |-> TRUE, scopes |-> job[t].existing.scopes \cup job[t].available]
      BY <1>t DEF Job, Consent
    <3>2. \/ consent' = [consent EXCEPT ![job[t].token][job[t].in.client] = k]
          \/ UNCHANGED consent
      BY <1>8, <3>1 DEF UpsertSave
    <3>3. consent \in [Users -> [Clients -> Consent]]
      BY <1>t DEF TypeOK
    <3>4. [consent[job[t].token] EXCEPT ![job[t].in.client] = k] \in [Clients -> Consent]
      BY <2>i, <3>1, <3>3
    <3> QED  BY <2>i, <3>2, <3>3, <3>4
  <2>2. job' = [job EXCEPT ![t] = job[t]] /\ Goto(t, "authorize") /\ "authorize" \in PCs
    BY <1>t, <1>8 DEF UpsertSave, TypeOK, PCs
  <2>j. JobOK("authorize", job[t])
    BY <1>t, <2>i DEF TabOK, JobOK, Claiming, Approving
  <2>3. TabsKept
    BY <1>t, <2>2, <2>j, GotoType
  <2> QED  BY <1>t, <1>8, <2>1, <2>3 DEF UpsertSave, TInv, TypeOK
<1>9. ASSUME NEW t \in Tabs, IssueCode(t) PROVE TInv'
  <2>i. /\ pc[t] = "authorize" /\ job[t].id \in Ids /\ job[t].token \in Users
        /\ job[t].in.client \in Clients /\ job[t].in.form \in URIs
    BY <1>t, <1>9 DEF IssueCode, TabOK, JobOK, Claiming, Approving
  <2>1. codes' \subseteq Code
    <3>1. job[t].in.scopes \subseteq Scopes
      BY <1>t DEF Job, Row
    <3>2. [id |-> job[t].id, client |-> job[t].in.client, user |-> job[t].token,
           scopes |-> job[t].in.scopes, uri |-> job[t].in.form] \in Code
      BY <2>i, <3>1 DEF Code
    <3> QED  BY <1>t, <1>9, <3>2 DEF IssueCode, TypeOK
  <2>2. TabsKept
    <3>1. \/ \E r \in Replies : HttpError(t, r) \/ InteractionError(t, r)
          \/ Reply(t, "code", job[t].in.form)
      BY <1>9 DEF IssueCode, Replies
    <3>2. "code" \in Replies
      BY DEF Replies
    <3> QED  BY <1>a, <2>i, <3>1, <3>2, ReplyType DEF Claiming
  <2> QED  BY <1>t, <1>9, <2>1, <2>2 DEF IssueCode, TInv, TypeOK
<1>10. ASSUME NEW t \in Tabs, Finish(t) PROVE TInv'
  <2>1. Goto(t, "idle") /\ job' = [job EXCEPT ![t] = NoJob] /\ "idle" \in PCs
    BY <1>10 DEF Finish, PCs
  <2>j. JobOK("idle", NoJob)
    BY DEF JobOK, Claiming, Approving
  <2>2. TabsKept
    BY <2>1, <2>j, GotoType, NoJobType
  <2> QED  BY <1>t, <1>10, <2>2 DEF Finish, TInv, TypeOK
<1>11. ASSUME NEW i \in Ids, Cleanup(i) PROVE TInv'
  <2>1. row' \in [Ids -> Row] /\ \A k \in Ids : RowOK(row'[k])
    BY <1>t, <1>11, NoJobType DEF Cleanup, TypeOK, RowOK
  <2> QED  BY <1>t, <1>k, <1>11, <2>1 DEF Cleanup, TInv, TypeOK
<1>12. CASE Tick
  BY <1>t, <1>k, <1>n, <1>12, NumbersAssumption DEF Tick, TInv, TypeOK
<1>13. CASE UNCHANGED vars
  BY <1>t, <1>k, <1>13 DEF vars, TInv, TypeOK
<1> QED
  BY <1>1, <1>2, <1>3, <1>4, <1>5, <1>6, <1>7, <1>8, <1>9, <1>10, <1>11, <1>12, <1>13
     DEF Next, Handle

\* The tables and the completions of the login keep their types.
THEOREM TypeCorrect == Spec => []TypeOK
BY TypeInit, TypeNext, PTL DEF Spec, TInv

-----------------------------------------------------------------------------
\* An interaction is claimed once.

\* Only an interaction that was asked for has a row, the row of a claimed one is
\* gone, and a completion past the DELETE is the one that claimed it.
AskedFirst ==
  /\ \A i \in Ids : asked[i] = NotAsked => row[i] = NoRow /\ winner[i] = None
  /\ \A t \in Tabs : pc[t] # "idle" => asked[job[t].id] # NotAsked
ClaimedGone == \A i \in Ids : winner[i] # None => row[i] = NoRow
Claim(t) == pc[t] \in Claiming => winner[job[t].id] = t

\* An interaction that was denied, or got its code, is over.
Settled == denied \cup {k.id : k \in codes}
Over == \A i \in Settled :
  winner[i] # None /\ \A t \in Tabs : pc[t] \in Claiming => job[t].id # i

ClaimInv ==
  /\ TInv /\ AskedFirst /\ ClaimedGone /\ (\A t \in Tabs : Claim(t))
  /\ Over /\ DenialIsFinal

\* A step of a completion that claims nothing; it may settle its interaction.
Settles(t) ==
  \/ UNCHANGED <<codes, denied>>
  \/ /\ pc[t] = "decide" /\ pc'[t] = "replied"
     /\ denied' = denied \cup {job[t].id} /\ UNCHANGED codes
  \/ /\ pc[t] = "authorize" /\ pc'[t] = "replied"
     /\ UNCHANGED denied /\ \E k : k.id = job[t].id /\ codes' = codes \cup {k}
Moves(t) ==
  /\ UNCHANGED <<row, asked, winner>>
  /\ \A v \in Tabs : v # t => pc'[v] = pc[v] /\ job'[v] = job[v]
  /\ pc'[t] # "idle" => asked[job'[t].id] # NotAsked
  /\ pc'[t] \in Claiming => pc[t] \in Claiming /\ job'[t].id = job[t].id
  /\ Settles(t)
Opens(i) ==
  /\ asked[i] = NotAsked /\ asked' = [asked EXCEPT ![i] = asked'[i]] /\ asked'[i] # NotAsked
  /\ row' = [row EXCEPT ![i] = row'[i]] /\ row'[i] # NoRow
  /\ UNCHANGED <<pc, job, winner, codes, denied>>
Takes(t) ==
  /\ pc[t] = "delete" /\ Present(job[t].id)
  /\ row' = [row EXCEPT ![job[t].id] = NoRow]
  /\ winner' = [winner EXCEPT ![job[t].id] = t]
  /\ pc' = [pc EXCEPT ![t] = "decide"]
  /\ UNCHANGED <<job, asked, codes, denied>>
Lapses(i) ==
  /\ Present(i) /\ row' = [row EXCEPT ![i] = NoRow]
  /\ UNCHANGED <<pc, job, asked, winner, codes, denied>>

LEMMA AnswerMoves ==
  ASSUME TInv, NEW t \in Tabs, pc[t] # "idle", NEW r \in Replies,
         HttpError(t, r) \/ (InteractionError(t, r) /\ pc[t] \in Claiming)
  PROVE  /\ \A v \in Tabs : v # t => pc'[v] = pc[v] /\ job'[v] = job[v]
         /\ pc'[t] = "replied"
         /\ job'[t].id = job[t].id
<1>1. PICK u \in URIs \cup {None} : Reply(t, r, u)
  BY AnswerTypes
<1> QED  BY <1>1, ReplyType

LEMMA GotoMoves ==
  ASSUME TInv, NEW t \in Tabs, NEW p, Goto(t, p)
  PROVE  pc'[t] = p /\ \A v \in Tabs : v # t => pc'[v] = pc[v]
BY DEF TInv, TypeOK, Goto

\* Every step asks for an interaction, claims one, lets one lapse, or is a step
\* of a completion that does neither.
LEMMA NextClaims ==
  ASSUME TInv, AskedFirst, [Next]_vars
  PROVE  \/ UNCHANGED <<row, pc, job, asked, winner, codes, denied>>
         \/ \E i \in Ids : Opens(i) \/ Lapses(i)
         \/ \E t \in Tabs : Takes(t) \/ Moves(t)
<1>t. TypeOK /\ (\A i \in Ids : RowOK(row[i])) /\ \A v \in Tabs : TabOK(v) /\ job[v] \in Job
  BY DEF TInv, TypeOK
<1>r. {"notfound", "access_denied", "badrequest", "login_required", "server_error",
       "consent_required", "authorize_error", "code"} \subseteq Replies
  BY DEF Replies
\* An answer that settles nothing.
<1>a. ASSUME NEW t \in Tabs, pc[t] # "idle", NEW r \in Replies,
             HttpError(t, r) \/ (InteractionError(t, r) /\ pc[t] \in Claiming),
             UNCHANGED <<row, asked, winner>>, Settles(t)
      PROVE  Moves(t)
  BY <1>a, AnswerMoves DEF Moves, AskedFirst, Claiming
\* Another call of a completion that goes on.
<1>g. ASSUME NEW t \in Tabs, pc[t] \in Claiming, NEW p, Goto(t, p),
             UNCHANGED <<row, asked, winner, codes, denied>>,
             job'[t].id = job[t].id, \A v \in Tabs : v # t => job'[v] = job[v]
      PROVE  Moves(t)
  BY <1>g, GotoMoves DEF Moves, Settles, AskedFirst, Claiming
<1>1. ASSUME NEW i \in Ids, NEW c \in Clients, NEW u \in URIs, NEW S \in SUBSET Scopes,
             NEW m \in Modes, NEW r \in Rats, Authorize(i, c, u, S, m, r)
      PROVE  Opens(i)
  <2>1. NewRow(c, u, S, m, r) # NoRow
    BY SetsAssumption DEF NewRow, NoRow
  <2>2. [at |-> now, uri |-> u] # NotAsked
    BY <1>t, NumbersAssumption DEF TypeOK, NotAsked
  <2>3. asked'[i] = [at |-> now, uri |-> u] /\ row'[i] = NewRow(c, u, S, m, r)
    BY <1>1, <1>t DEF Authorize, TypeOK
  <2> QED  BY <1>1, <2>1, <2>2, <2>3 DEF Authorize, Opens
<1>2. ASSUME NEW t \in Tabs, NEW i \in Ids, NEW d \in Decisions,
             NEW tok \in Users \cup {None, "invalid"}, NEW S \in SUBSET Scopes, Post(t, i, d, tok, S)
      PROVE  Moves(t)
  <2>1. job'[t].id = i /\ \A v \in Tabs : v # t => job'[v] = job[v]
    BY <1>2, <1>t DEF Post, TypeOK, NoJob
  <2>2. pc'[t] = "find" /\ \A v \in Tabs : v # t => pc'[v] = pc[v]
    BY <1>2, GotoMoves DEF Post
  <2> QED  BY <1>2, <2>1, <2>2 DEF Post, Moves, Settles, Claiming
<1>3. ASSUME NEW t \in Tabs, FindInteraction(t) PROVE Moves(t)
  <2>1. CASE Goto(t, "delete") /\ job' = [job EXCEPT ![t].in = row[job[t].id]]
    <3>1. job'[t].id = job[t].id /\ \A v \in Tabs : v # t => job'[v] = job[v]
      BY <2>1, <1>t DEF TypeOK, Job
    <3>2. pc'[t] = "delete" /\ \A v \in Tabs : v # t => pc'[v] = pc[v]
      BY <2>1, GotoMoves
    <3> QED  BY <1>3, <3>1, <3>2 DEF FindInteraction, Moves, Settles, AskedFirst, Claiming
  <2>2. CASE HttpError(t, "notfound")
    BY <1>a, <1>r, <1>3, <2>2 DEF FindInteraction, Settles
  <2> QED  BY <1>3, <2>1, <2>2 DEF FindInteraction
<1>4. ASSUME NEW t \in Tabs, Consume(t) PROVE Takes(t) \/ Moves(t)
  <2>1. CASE HttpError(t, "notfound") /\ UNCHANGED <<row, winner>>
    BY <1>a, <1>r, <1>4, <2>1 DEF Consume, Settles
  <2>2. CASE ~(HttpError(t, "notfound") /\ UNCHANGED <<row, winner>>)
    BY <1>4, <2>2 DEF Consume, Takes, Goto
  <2> QED  BY <2>1, <2>2
<1>5. ASSUME NEW t \in Tabs, Decide(t) PROVE Moves(t)
  <2>i. pc[t] = "decide" /\ pc[t] \in Claiming
    BY <1>5 DEF Decide, Claiming
  <2>1. CASE job[t].decision = "approve" /\ Goto(t, "prior") /\ UNCHANGED job
    BY <1>5, <1>g, <2>i, <2>1 DEF Decide
  <2>2. ASSUME NEW r \in Replies, HttpError(t, r) \/ InteractionError(t, r) PROVE Moves(t)
    <3>1. pc'[t] = "replied"
      BY <2>2, <2>i, AnswerMoves
    <3>2. Settles(t)
      BY <1>5, <2>i, <3>1 DEF Decide, Settles
    <3> QED  BY <1>5, <1>a, <2>2, <2>i, <3>2 DEF Decide
  <2> QED  BY <1>5, <1>r, <2>1, <2>2 DEF Decide
<1>6. ASSUME NEW t \in Tabs, PriorConsent(t) PROVE Moves(t)
  <2>i. pc[t] \in Claiming
    BY <1>6 DEF PriorConsent, Claiming
  <2>1. ASSUME NEW S, Goto(t, "upsertfind"), job' = [job EXCEPT ![t].available = S]
        PROVE  Moves(t)
    <3>1. job'[t].id = job[t].id /\ \A v \in Tabs : v # t => job'[v] = job[v]
      BY <2>1, <1>t DEF TypeOK, Job
    <3> QED  BY <1>g, <1>6, <2>i, <2>1, <3>1 DEF PriorConsent
  <2>2. CASE InteractionError(t, "consent_required")
    BY <1>a, <1>r, <1>6, <2>i, <2>2 DEF PriorConsent, Settles
  <2> QED  BY <1>6, <2>1, <2>2 DEF PriorConsent
<1>7. ASSUME NEW t \in Tabs, UpsertFind(t) PROVE Moves(t)
  <2>1. job'[t].id = job[t].id /\ \A v \in Tabs : v # t => job'[v] = job[v]
    BY <1>7, <1>t DEF UpsertFind, TypeOK, Job
  <2> QED  BY <1>g, <1>7, <2>1 DEF UpsertFind, Claiming
<1>8. ASSUME NEW t \in Tabs, UpsertSave(t) PROVE Moves(t)
  BY <1>g, <1>8 DEF UpsertSave, Claiming
<1>9. ASSUME NEW t \in Tabs, IssueCode(t) PROVE Moves(t)
  <2>i. pc[t] = "authorize" /\ pc[t] \in Claiming
    BY <1>9 DEF IssueCode, Claiming
  <2>1. CASE InteractionError(t, "authorize_error") /\ UNCHANGED codes
    BY <1>a, <1>r, <1>9, <2>i, <2>1 DEF IssueCode, Settles
  <2>2. ASSUME NEW r \in Replies, NEW u \in URIs \cup {None}, Reply(t, r, u), UNCHANGED denied,
               NEW k, k.id = job[t].id, codes' = codes \cup {k}
        PROVE  Moves(t)
    BY <1>9, <2>i, <2>2, ReplyType DEF IssueCode, Moves, Settles, AskedFirst, Claiming
  <2>3. job[t].in.form \in URIs
    BY <1>t, <2>i DEF TabOK, JobOK
  <2> QED  BY <1>9, <1>r, <2>1, <2>2, <2>3 DEF IssueCode, HttpError
<1>10. ASSUME NEW t \in Tabs, Finish(t) PROVE Moves(t)
  <2>1. pc'[t] = "idle" /\ \A v \in Tabs : v # t => pc'[v] = pc[v]
    BY <1>10, GotoMoves DEF Finish
  <2>2. \A v \in Tabs : v # t => job'[v] = job[v]
    BY <1>10, <1>t DEF Finish, TypeOK
  <2> QED  BY <1>10, <2>1, <2>2 DEF Finish, Moves, Settles, Claiming
<1>11. ASSUME NEW i \in Ids, Cleanup(i) PROVE Lapses(i)
  BY <1>11 DEF Cleanup, Lapses
<1> QED
  BY <1>1, <1>2, <1>3, <1>4, <1>5, <1>6, <1>7, <1>8, <1>9, <1>10, <1>11
     DEF Next, Handle, Tick, vars

LEMMA ClaimInit == Init => ClaimInv
<1> SUFFICES ASSUME Init PROVE ClaimInv
  OBVIOUS
<1>1. TInv
  BY TypeInit
<1>2. AskedFirst /\ ClaimedGone /\ (\A t \in Tabs : Claim(t)) /\ Over /\ DenialIsFinal
  BY DEF Init, AskedFirst, ClaimedGone, Claim, Claiming, Over, Settled, DenialIsFinal
<1> QED  BY <1>1, <1>2 DEF ClaimInv

LEMMA ClaimNext == ClaimInv /\ [Next]_vars => ClaimInv'
<1> SUFFICES ASSUME ClaimInv, [Next]_vars PROVE ClaimInv'
  OBVIOUS
<1>t. TInv /\ TInv'
  BY TypeNext DEF ClaimInv
<1>i. /\ row \in [Ids -> Row] /\ winner \in [Ids -> Tabs \cup {None}] /\ pc \in [Tabs -> PCs]
      /\ asked \in [Ids -> [at : Nat \cup {-1}, uri : URIs \cup {None}]]
      /\ denied \subseteq Ids /\ \A k \in codes : k.id \in Ids
      /\ \A t \in Tabs : pc[t] # "idle" => job[t].id \in Ids
  BY <1>t DEF TInv, TypeOK, TabOK, JobOK, Code
<1>c. /\ AskedFirst /\ ClaimedGone /\ (\A t \in Tabs : Claim(t)) /\ Over /\ DenialIsFinal
  BY DEF ClaimInv
<1>s. Settled \subseteq Ids
  BY <1>i DEF Settled
<1> DEFINE Rest == AskedFirst /\ ClaimedGone /\ (\A t \in Tabs : Claim(t)) /\ Over /\ DenialIsFinal
<1>1. ASSUME UNCHANGED <<row, pc, job, asked, winner, codes, denied>> PROVE Rest'
  BY <1>1, <1>c DEF AskedFirst, ClaimedGone, Claim, Over, Settled, DenialIsFinal
<1>2. ASSUME NEW i \in Ids, Opens(i) PROVE Rest'
  BY <1>2, <1>c, <1>i DEF Opens, AskedFirst, ClaimedGone, Claim, Over, Settled, DenialIsFinal, Claiming
<1>3. ASSUME NEW i \in Ids, Lapses(i) PROVE Rest'
  BY <1>3, <1>c, <1>i DEF Lapses, Present, AskedFirst, ClaimedGone, Claim, Over, Settled, DenialIsFinal
<1>4. ASSUME NEW t \in Tabs, Takes(t) PROVE Rest'
  <2> DEFINE i == job[t].id
  <2>1. i \in Ids /\ winner[i] = None /\ i \notin Settled /\ t # None /\ asked[i] # NotAsked
    BY <1>4, <1>i, <1>c, SetsAssumption DEF Takes, Present, ClaimedGone, Over, AskedFirst
  <2>2. \A v \in Tabs : v # t /\ pc[v] \in Claiming => job[v].id # i
    BY <2>1, <1>c, SetsAssumption DEF Claim
  <2>3. AskedFirst'
    BY <1>4, <1>i, <1>c, <2>1 DEF Takes, AskedFirst
  <2>4. ClaimedGone'
    BY <1>4, <1>i, <1>c, <2>1 DEF Takes, ClaimedGone
  <2>5. \A v \in Tabs : Claim(v)'
    BY <1>4, <1>i, <1>c, <2>1, <2>2 DEF Takes, Claim, Claiming
  <2>6. Over'
    BY <1>4, <1>i, <1>c, <1>s, <2>1 DEF Takes, Over, Settled, Claiming
  <2>7. DenialIsFinal'
    BY <1>4, <1>c DEF Takes, DenialIsFinal
  <2> QED  BY <2>3, <2>4, <2>5, <2>6, <2>7
<1>5. ASSUME NEW t \in Tabs, Moves(t) PROVE Rest'
  <2>1. AskedFirst' /\ ClaimedGone' /\ \A v \in Tabs : Claim(v)'
    BY <1>5, <1>c DEF Moves, AskedFirst, ClaimedGone, Claim
  <2>2. \A v \in Tabs : pc'[v] \in Claiming => pc[v] \in Claiming /\ job'[v].id = job[v].id
    BY <1>5 DEF Moves
  <2>3. ASSUME UNCHANGED <<codes, denied>> PROVE Over' /\ DenialIsFinal'
    BY <1>5, <1>c, <2>2, <2>3 DEF Moves, Over, Settled, DenialIsFinal
  <2>4. ASSUME NEW i, i = job[t].id, pc[t] \in Claiming, pc'[t] = "replied"
        PROVE  /\ i \notin Settled /\ winner'[i] # None
               /\ \A v \in Tabs : pc'[v] \in Claiming => job'[v].id # i
    <3>1. i \notin Settled /\ winner'[i] = t /\ t # None
      BY <1>5, <1>c, <2>4, SetsAssumption DEF Moves, Over, Claim
    <3>2. \A v \in Tabs : v # t /\ pc[v] \in Claiming => job[v].id # i
      BY <1>5, <1>c, <3>1 DEF Moves, Claim
    <3> QED  BY <2>2, <2>4, <3>1, <3>2 DEF Claiming
  <2>5. Over /\ \A i \in Settled : winner'[i] # None
                              /\ \A v \in Tabs : pc'[v] \in Claiming => job'[v].id # i
    BY <1>5, <1>c, <2>2 DEF Moves, Over
  <2>6. ASSUME pc[t] = "decide", pc'[t] = "replied", denied' = denied \cup {job[t].id},
               UNCHANGED codes
        PROVE  Over' /\ DenialIsFinal'
    BY <1>c, <2>1, <2>4, <2>5, <2>6 DEF Over, Settled, DenialIsFinal, Claiming
  <2>7. ASSUME NEW k, k.id = job[t].id, codes' = codes \cup {k}, UNCHANGED denied,
               pc[t] = "authorize", pc'[t] = "replied"
        PROVE  Over' /\ DenialIsFinal'
    BY <1>c, <2>4, <2>5, <2>7 DEF Over, Settled, DenialIsFinal, Claiming
  <2> QED  BY <1>5, <2>1, <2>3, <2>6, <2>7 DEF Moves, Settles
<1>6. Rest'
  BY <1>t, <1>c, <1>1, <1>2, <1>3, <1>4, <1>5, NextClaims
<1> QED  BY <1>t, <1>6 DEF ClaimInv

\* Once a tab has denied a request no completion of it gets a code, whichever
\* tabs raced for the interaction (ConsumeInteractionAt, api_OAuth2LoginComplete).
THEOREM Denied == Spec => []DenialIsFinal
BY ClaimInit, ClaimNext, PTL DEF Spec, ClaimInv

\* The completions implement single use: Authorize opens an interaction, the
\* DELETE takes it, the clean-up lets it lapse.
Status == [i \in Ids |-> IF asked[i] = NotAsked THEN "unborn"
                         ELSE IF winner[i] # None THEN "taken"
                         ELSE IF Present(i) THEN "open" ELSE "gone"]

LEMMA StatusStep ==
  ASSUME ClaimInv, NEW i \in Ids, \A k \in Ids : k # i => Status'[k] = Status[k]
  PROVE  Status' = [Status EXCEPT ![i] = Status'[i]]
BY DEF Status

\* Of any number of tabs one claims an interaction (ConsumeInteractionAt).
THEOREM Claimed == Spec => ClaimedOnce
<1>1. Init => Claims!Init
  BY DEF Init, Claims!Init
<1>2. ASSUME ClaimInv, [Next]_vars
      PROVE  [Claims!Next]_(Claims!svars)
  <2>i. /\ row \in [Ids -> Row] /\ winner \in [Ids -> Tabs \cup {None}]
        /\ asked \in [Ids -> [at : Nat \cup {-1}, uri : URIs \cup {None}]]
        /\ \A t \in Tabs : pc[t] # "idle" => job[t].id \in Ids
    BY <1>2 DEF ClaimInv, TInv, TypeOK, TabOK, JobOK
  <2>c. TInv /\ AskedFirst /\ ClaimedGone
    BY <1>2 DEF ClaimInv
  <2>1. CASE UNCHANGED <<row, asked, winner>>
    BY <2>1 DEF Claims!svars, Present
  <2>2. ASSUME NEW i \in Ids, Opens(i) PROVE Claims!Next
    <3>1. Status[i] = "unborn" /\ Status'[i] = "open" /\ \A k \in Ids : k # i => Status'[k] = Status[k]
      BY <2>2, <2>i, <2>c DEF Opens, AskedFirst, Status, Present
    <3>2. Claims!Open(i)
      BY <1>2, <2>2, <3>1, StatusStep DEF Opens, Claims!Open, Status
    <3> QED  BY <3>2 DEF Claims!Next
  <2>3. ASSUME NEW i \in Ids, Lapses(i) PROVE Claims!Next
    <3>1. Status[i] = "open" /\ Status'[i] = "gone" /\ \A k \in Ids : k # i => Status'[k] = Status[k]
      BY <2>3, <2>i, <2>c DEF Lapses, AskedFirst, ClaimedGone, Status, Present
    <3>2. Claims!Lapse(i)
      BY <1>2, <2>3, <3>1, StatusStep DEF Lapses, Claims!Lapse, Status
    <3> QED  BY <3>2 DEF Claims!Next
  <2>4. ASSUME NEW t \in Tabs, Takes(t) PROVE Claims!Next
    <3> DEFINE i == job[t].id
    <3>1. i \in Ids /\ t # None
      BY <2>4, <2>i, SetsAssumption DEF Takes
    <3>2. Status[i] = "open" /\ Status'[i] = "taken" /\ \A k \in Ids : k # i => Status'[k] = Status[k]
      BY <2>4, <2>i, <2>c, <3>1 DEF Takes, AskedFirst, ClaimedGone, Status, Present
    <3>3. Claims!Take(i, t)
      BY <1>2, <2>4, <3>1, <3>2, StatusStep DEF Takes, Claims!Take, Status
    <3> QED  BY <3>1, <3>3 DEF Claims!Next
  <2> QED  BY <2>c, <1>2, <2>1, <2>2, <2>3, <2>4, NextClaims DEF Moves
<1> QED  BY <1>1, <1>2, ClaimInit, ClaimNext, PTL DEF Spec, ClaimedOnce, Claims!Spec

-----------------------------------------------------------------------------
\* Scopes.

\* What a completion that passed the consent check is about to grant and to store
\* was approved.
Consenting == {"upsertfind", "upsertsave", "authorize"}
Backed(p, j, a) ==
  /\ p \in Consenting => j.in.scopes \subseteq j.available /\ j.available \subseteq a
  /\ p = "upsertsave" => j.existing.scopes \subseteq a
ApprovedFor(j) == approved[j.token][j.in.client]

ScopeInv ==
  /\ TInv /\ CodeScopesApproved /\ ConsentWasApproved
  /\ \A t \in Tabs : Backed(pc[t], job[t], ApprovedFor(job[t]))

\* Approvals only grow, so what is backed stays backed.
LEMMA BackedStays ==
  ASSUME ScopeInv, NEW t \in Tabs,
         \A u \in Users, c \in Clients : approved[u][c] \subseteq approved'[u][c],
         \A v \in Tabs : v # t => pc'[v] = pc[v] /\ job'[v] = job[v],
         Backed(pc[t], job[t], ApprovedFor(job[t]))'
  PROVE  \A v \in Tabs : Backed(pc[v], job[v], ApprovedFor(job[v]))'
<1> SUFFICES ASSUME NEW v \in Tabs, v # t
             PROVE  Backed(pc[v], job[v], ApprovedFor(job[v]))'
  OBVIOUS
<1>1. pc[v] \in Consenting => ApprovedFor(job[v]) \subseteq ApprovedFor(job[v])'
  BY DEF ScopeInv, TInv, TabOK, JobOK, ApprovedFor, Consenting, Claiming, Approving
<1> QED  BY <1>1 DEF ScopeInv, Backed, Consenting

LEMMA ScopeInit == Init => ScopeInv
<1> SUFFICES ASSUME Init PROVE ScopeInv
  OBVIOUS
<1>1. CodeScopesApproved /\ ConsentWasApproved
  BY DEF Init, CodeScopesApproved, ConsentWasApproved
<1>2. \A t \in Tabs : Backed(pc[t], job[t], ApprovedFor(job[t]))
  BY DEF Init, Backed, Consenting
<1> QED  BY <1>1, <1>2, TypeInit DEF ScopeInv

LEMMA ScopeNext == ScopeInv /\ [Next]_vars => ScopeInv'
<1> SUFFICES ASSUME ScopeInv, [Next]_vars PROVE ScopeInv'
  OBVIOUS
<1>t. TInv /\ TInv'
  BY TypeNext DEF ScopeInv
<1>i. /\ pc \in [Tabs -> PCs] /\ job \in [Tabs -> Job] /\ codes \subseteq Code
      /\ consent \in [Users -> [Clients -> Consent]]
      /\ approved \in [Users -> [Clients -> SUBSET Scopes]]
  BY <1>t DEF TInv, TypeOK
<1>b. /\ CodeScopesApproved /\ ConsentWasApproved
      /\ \A t \in Tabs : Backed(pc[t], job[t], ApprovedFor(job[t]))
  BY DEF ScopeInv
<1> DEFINE AllBacked == \A t \in Tabs : Backed(pc[t], job[t], ApprovedFor(job[t]))
           Stays == \A u \in Users, c \in Clients : approved[u][c] \subseteq approved'[u][c]
<1>k. ASSUME UNCHANGED <<pc, job, approved>> PROVE AllBacked'
  BY <1>k, <1>b DEF Backed, ApprovedFor
<1>s. ASSUME UNCHANGED <<codes, consent, approved>>
      PROVE  CodeScopesApproved' /\ ConsentWasApproved' /\ Stays
  BY <1>s, <1>b DEF CodeScopesApproved, ConsentWasApproved
\* A step of one completion.
<1>1. ASSUME NEW t \in Tabs, Stays, \A v \in Tabs : v # t => pc'[v] = pc[v] /\ job'[v] = job[v],
             Backed(pc[t], job[t], ApprovedFor(job[t]))'
      PROVE  AllBacked'
  BY <1>1, BackedStays
<1>a. ASSUME NEW t \in Tabs, pc[t] # "idle", NEW r \in Replies, Stays,
             HttpError(t, r) \/ (InteractionError(t, r) /\ pc[t] \in Claiming)
      PROVE  AllBacked'
  BY <1>1, <1>a, <1>t, AnswerMoves DEF Backed, Consenting
<1>r. {"notfound", "access_denied", "badrequest", "login_required", "server_error",
       "consent_required", "authorize_error", "code"} \subseteq Replies
  BY DEF Replies
<1>2. ASSUME NEW t \in Tabs, NEW p, Goto(t, p), p \notin Consenting, Stays,
             \A v \in Tabs : v # t => job'[v] = job[v]
      PROVE  AllBacked'
  BY <1>1, <1>2, <1>t, GotoMoves DEF Backed, Consenting
<1>3. ASSUME NEW t \in Tabs, FindInteraction(t) PROVE AllBacked'
  <2>1. Stays /\ pc[t] # "idle"
    BY <1>s, <1>3 DEF FindInteraction
  <2>2. \/ HttpError(t, "notfound")
        \/ Goto(t, "delete") /\ \A v \in Tabs : v # t => job'[v] = job[v]
    BY <1>3, <1>i DEF FindInteraction
  <2> QED  BY <1>a, <1>r, <1>2, <2>1, <2>2 DEF Consenting
<1>4. ASSUME NEW t \in Tabs, Consume(t) PROVE AllBacked'
  BY <1>a, <1>r, <1>s, <1>2, <1>4 DEF Consume, Consenting
<1>5. ASSUME NEW t \in Tabs, Decide(t) PROVE AllBacked'
  BY <1>a, <1>r, <1>s, <1>2, <1>5 DEF Decide, Consenting, Claiming
<1>6. ASSUME NEW t \in Tabs, PriorConsent(t)
      PROVE  AllBacked' /\ CodeScopesApproved' /\ ConsentWasApproved'
  <2> DEFINE u == job[t].token
             c == job[t].in.client
  <2>i. pc[t] = "prior" /\ pc[t] \in Claiming /\ u \in Users /\ c \in Clients
    BY <1>t, <1>6 DEF PriorConsent, TInv, TabOK, JobOK, Claiming, Approving
  <2>1. CASE UNCHANGED approved /\ InteractionError(t, "consent_required")
    BY <1>a, <1>r, <1>s, <1>6, <2>i, <2>1 DEF PriorConsent
  <2>2. ASSUME NEW prior \in {consent[u][c].scopes} \cup (IF Faults THEN {{}} ELSE {}),
               job[t].in.scopes \subseteq prior \cup job[t].consented,
               Goto(t, "upsertfind"),
               job' = [job EXCEPT ![t].available = prior \cup job[t].consented],
               approved' = [approved EXCEPT ![u][c] = @ \cup job[t].consented]
        PROVE  AllBacked' /\ CodeScopesApproved' /\ ConsentWasApproved'
    <3>1. Stays /\ approved'[u][c] = approved[u][c] \cup job[t].consented
      BY <1>i, <2>i, <2>2
    <3>2. prior \subseteq approved[u][c]
      BY <1>b, <2>i, <2>2 DEF ConsentWasApproved
    <3>3. /\ job'[t].available = prior \cup job[t].consented /\ job'[t].in = job[t].in
          /\ job'[t].token = job[t].token /\ \A v \in Tabs : v # t => job'[v] = job[v]
      BY <1>i, <2>2 DEF Job
    <3>4. pc'[t] = "upsertfind" /\ \A v \in Tabs : v # t => pc'[v] = pc[v]
      BY <1>t, <2>2, GotoMoves
    <3>5. Backed(pc[t], job[t], ApprovedFor(job[t]))'
      BY <2>2, <3>1, <3>2, <3>3, <3>4 DEF Backed, ApprovedFor
    <3>6. AllBacked'
      BY <1>1, <3>1, <3>3, <3>4, <3>5
    <3>7. CodeScopesApproved' /\ ConsentWasApproved'
      BY <1>6, <1>b, <1>i, <3>1 DEF PriorConsent, CodeScopesApproved, ConsentWasApproved, Code
    <3> QED  BY <3>6, <3>7
  <2> QED  BY <1>6, <2>1, <2>2 DEF PriorConsent
<1>7. ASSUME NEW t \in Tabs, UpsertFind(t) PROVE AllBacked'
  <2>i. pc[t] = "upsertfind" /\ job[t].token \in Users /\ job[t].in.client \in Clients
    BY <1>t, <1>7 DEF UpsertFind, TInv, TabOK, JobOK, Claiming, Approving
  <2>1. /\ job'[t].available = job[t].available /\ job'[t].in = job[t].in
        /\ job'[t].token = job[t].token /\ \A v \in Tabs : v # t => job'[v] = job[v]
    BY <1>7, <1>i DEF UpsertFind, Job
  <2>2. \A v \in Tabs : v # t => pc'[v] = pc[v]
    BY <1>7, <1>t, GotoMoves DEF UpsertFind
  <2>3. pc'[t] = "upsertsave" => job'[t].existing = consent[job[t].token][job[t].in.client]
    BY <1>7, <1>t, <1>i, GotoMoves DEF UpsertFind, Job
  <2>4. consent[job[t].token][job[t].in.client].scopes \subseteq ApprovedFor(job[t])
    BY <1>b, <2>i DEF ConsentWasApproved, ApprovedFor
  <2>5. ApprovedFor(job[t])' = ApprovedFor(job[t])
    BY <1>7, <2>1 DEF UpsertFind, ApprovedFor
  <2>6. Backed(pc[t], job[t], ApprovedFor(job[t]))
    BY <1>b
  <2>7. Backed(pc[t], job[t], ApprovedFor(job[t]))'
    BY <2>i, <2>1, <2>3, <2>4, <2>5, <2>6 DEF Backed, Consenting
  <2> QED  BY <1>1, <1>7, <1>s, <2>1, <2>2, <2>7 DEF UpsertFind
<1>8. ASSUME NEW t \in Tabs, UpsertSave(t) PROVE AllBacked' /\ ConsentWasApproved'
  <2> DEFINE u == job[t].token
             c == job[t].in.client
  <2>i. pc[t] = "upsertsave" /\ u \in Users /\ c \in Clients
    BY <1>t, <1>8 DEF UpsertSave, TInv, TabOK, JobOK, Claiming, Approving
  <2>1. pc'[t] = "authorize" /\ \A v \in Tabs : v # t => pc'[v] = pc[v]
    BY <1>8, <1>t, GotoMoves DEF UpsertSave
  <2>2. Backed(pc[t], job[t], ApprovedFor(job[t]))
    BY <1>b
  <2>3. Backed(pc[t], job[t], ApprovedFor(job[t]))'
    BY <1>8, <2>i, <2>1, <2>2 DEF UpsertSave, Backed, ApprovedFor, Consenting
  <2>4. job[t].existing.scopes \cup job[t].available \subseteq approved[u][c]
    BY <2>i, <2>2 DEF Backed, ApprovedFor, Consenting
  <2>5. ConsentWasApproved'
    <3>1. PICK k : k = [present |-> TRUE, scopes |-> job[t].existing.scopes \cup job[t].available]
      OBVIOUS
    <3>2. k.scopes \subseteq approved[u][c]
      BY <2>4, <3>1
    <3>3. consent' = [consent EXCEPT ![u][c] = k] \/ UNCHANGED consent
      BY <1>8, <3>1 DEF UpsertSave
    <3>4. \A x \in Users, d \in Clients : consent'[x][d] = consent[x][d] \/ (x = u /\ d = c /\ consent'[x][d] = k)
      BY <1>i, <2>i, <3>3
    <3>5. ConsentWasApproved /\ approved' = approved
      BY <1>8, <1>b DEF UpsertSave
    <3> QED  BY <3>2, <3>4, <3>5 DEF ConsentWasApproved
  <2> QED  BY <1>1, <1>8, <2>1, <2>3, <2>5 DEF UpsertSave
<1>9. ASSUME NEW t \in Tabs, IssueCode(t) PROVE AllBacked' /\ CodeScopesApproved'
  <2>i. pc[t] = "authorize" /\ pc[t] \in Claiming /\ Stays /\ job[t].in.form \in URIs
    BY <1>t, <1>9 DEF IssueCode, TInv, TabOK, JobOK, Claiming, Approving
  <2>1. AllBacked'
    <3>1. ASSUME NEW r \in Replies, NEW v \in URIs \cup {None}, Reply(t, r, v) PROVE AllBacked'
      BY <1>1, <1>t, <2>i, <3>1, ReplyType DEF Backed, Consenting
    <3>2. CASE \E r \in Replies : HttpError(t, r) \/ InteractionError(t, r)
      BY <1>a, <2>i, <3>2
    <3> QED  BY <1>9, <1>r, <2>i, <3>1, <3>2 DEF IssueCode
  <2>2. job[t].in.scopes \subseteq ApprovedFor(job[t])
    BY <1>b, <2>i DEF Backed, Consenting
  <2>3. CodeScopesApproved'
    BY <1>9, <1>b, <2>2 DEF IssueCode, CodeScopesApproved, ApprovedFor
  <2> QED  BY <2>1, <2>3
<1>10. ASSUME NEW t \in Tabs, Finish(t) PROVE AllBacked'
  BY <1>2, <1>s, <1>i, <1>10 DEF Finish, Consenting
<1>11. ASSUME NEW t \in Tabs, NEW i \in Ids, NEW d \in Decisions,
              NEW tok \in Users \cup {None, "invalid"}, NEW S \in SUBSET Scopes, Post(t, i, d, tok, S)
       PROVE  AllBacked'
  BY <1>2, <1>s, <1>i, <1>11 DEF Post, Consenting
<1>12. AllBacked' /\ CodeScopesApproved' /\ ConsentWasApproved'
  <2>1. CASE UNCHANGED <<pc, job, approved, codes, consent>>
    BY <1>k, <1>s, <2>1
  <2>2. ASSUME NEW t \in Tabs, Handle(t)
        PROVE  AllBacked' /\ CodeScopesApproved' /\ ConsentWasApproved'
    BY <1>3, <1>4, <1>5, <1>6, <1>7, <1>8, <1>9, <1>10, <1>b, <1>s, <2>2
       DEF Handle, FindInteraction, Consume, Decide, UpsertFind, UpsertSave, IssueCode, Finish,
           CodeScopesApproved, ConsentWasApproved
  <2>3. ASSUME NEW t \in Tabs, NEW i \in Ids, NEW d \in Decisions,
               NEW tok \in Users \cup {None, "invalid"}, NEW S \in SUBSET Scopes, Post(t, i, d, tok, S)
        PROVE  AllBacked' /\ CodeScopesApproved' /\ ConsentWasApproved'
    BY <1>11, <1>s, <2>3 DEF Post
  <2> QED  BY <2>1, <2>2, <2>3 DEF Next, Authorize, Cleanup, Tick, vars
<1> QED  BY <1>t, <1>12 DEF ScopeInv

\* No code is issued for a scope its user did not approve for its client.
THEOREM CodesApproved == Spec => []CodeScopesApproved
BY ScopeInit, ScopeNext, PTL DEF Spec, ScopeInv

\* No consent is stored for a scope its user did not approve for that client,
\* whichever upserts of UpsertConsentAt overlap or fail.
THEOREM ConsentsApproved == Spec => []ConsentWasApproved
BY ScopeInit, ScopeNext, PTL DEF Spec, ScopeInv
=============================================================================
