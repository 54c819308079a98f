------------------------ MODULE RefreshFamilyProofs ------------------------
(***************************************************************************)
(* Proofs about RefreshFamily, for every set of requests, signatures and   *)
(* handlers and all lifetimes, in six parts:                               *)
(*                                                                         *)
(*   1  every row and every handler is well-typed                          *)
(*   2  lineage: what is spent stays spent, one successor, one request     *)
(*   3  terminal authority: what is dead stays dead                        *)
(*   4  no request has two access tokens                                   *)
(*   5  RefreshFamily implements TokenAuthority                            *)
(*   6  the tables change as module Bearer supposes                        *)
(***************************************************************************)
EXTENDS RefreshFamily, FiniteSetTheorems, TLAPS

\* The storage calls that work on the row of the refresh token presented.
SigPCs == {"gettomb", "getcommit", "getfamily", "delfind", "delrow", "rottomb",
           "rotcas", "reread", "rotcommit", "rotfamily"}

\* A handler that has begun knows its request, and the signature where it needs it.
HandlerOK ==
  \A w \in Workers :
    /\ pc[w] # "idle" => job[w].req \in Requests
    /\ pc[w] \in SigPCs => job[w].sig \in RefreshSigs

TInv == TypeOK /\ HandlerOK

handlers == <<pc, job>>
HandlersTyped == pc \in [Workers -> PCs] /\ job \in [Workers -> Job] /\ HandlerOK
StoreTyped ==
  /\ refresh \in [RefreshSigs -> RefreshRow]
  /\ access \in [AccessSigs -> AccessRow]
  /\ tomb \in [Requests -> Tomb]

-----------------------------------------------------------------------------
\* The moves a handler can make keep the handlers well-typed.

\* Moving on to another storage call.
LEMMA GotoTyped ==
  ASSUME TInv, NEW w \in Workers, NEW p \in PCs,
         pc[w] # "idle", p \in SigPCs => pc[w] \in SigPCs,
         Goto(w, p), UNCHANGED job
  PROVE  HandlersTyped'
BY DEF TInv, TypeOK, HandlerOK, HandlersTyped, Goto

\* Writing one of a handler's Go locals.
LEMMA JobFields ==
  ASSUME NEW j \in Job
  PROVE  /\ \A x \in Ops \cup {"none"} : [j EXCEPT !.op = x] \in Job
         /\ \A x \in Requests \cup {NoRequest} : [j EXCEPT !.req = x] \in Job
         /\ \A x \in Statuses \cup {"absent"} : [j EXCEPT !.status = x] \in Job
         /\ \A x \in RefreshSigs \cup {NoSig} : [j EXCEPT !.family = x] \in Job
         /\ \A x \in Nat : [j EXCEPT !.exp = x] \in Job
         /\ \A x \in Replies : [j EXCEPT !.reply = x] \in Job
         /\ \A x \in Nat : [j EXCEPT !.since = x] \in Job
         /\ \A x \in BOOLEAN : [j EXCEPT !.doomed = x] \in Job
<1>1. ASSUME NEW x \in Ops \cup {"none"} PROVE [j EXCEPT !.op = x] \in Job
  BY DEF Job
<1>2. ASSUME NEW x \in Requests \cup {NoRequest} PROVE [j EXCEPT !.req = x] \in Job
  BY DEF Job
<1>3. ASSUME NEW x \in Statuses \cup {"absent"} PROVE [j EXCEPT !.status = x] \in Job
  BY DEF Job
<1>4. ASSUME NEW x \in RefreshSigs \cup {NoSig} PROVE [j EXCEPT !.family = x] \in Job
  BY DEF Job
<1>5. ASSUME NEW x \in Nat PROVE [j EXCEPT !.exp = x] \in Job
  BY DEF Job
<1>6. ASSUME NEW x \in Replies PROVE [j EXCEPT !.reply = x] \in Job
  BY DEF Job
<1>7. ASSUME NEW x \in Nat PROVE [j EXCEPT !.since = x] \in Job
  BY DEF Job
<1>8. ASSUME NEW x \in BOOLEAN PROVE [j EXCEPT !.doomed = x] \in Job
  BY DEF Job
<1> QED  BY <1>1, <1>2, <1>3, <1>4, <1>5, <1>6, <1>7, <1>8

LEMMA NoJobIsJob == NoJob \in Job
BY DEF NoJob, Job, Ops, Replies

\* The locals that are left of a handler that has replied.
LEMMA ReplyJob ==
  ASSUME NEW j \in Job, NEW r \in Replies, NEW e \in Nat
  PROVE  LET k == [NoJob EXCEPT !.op = j.op, !.req = j.req, !.since = j.since,
                                !.doomed = j.doomed, !.reply = r, !.exp = e]
         IN  k \in Job /\ k.req = j.req
<1> DEFINE k1 == [NoJob EXCEPT !.op = j.op]
           k2 == [k1 EXCEPT !.req = j.req]
           k3 == [k2 EXCEPT !.since = j.since]
           k4 == [k3 EXCEPT !.doomed = j.doomed]
           k5 == [k4 EXCEPT !.reply = r]
           k6 == [k5 EXCEPT !.exp = e]
<1>1. /\ j.op \in Ops \cup {"none"} /\ j.req \in Requests \cup {NoRequest}
      /\ j.since \in Nat /\ j.doomed \in BOOLEAN
  BY DEF Job
<1>2. k1 \in Job
  BY <1>1, NoJobIsJob, JobFields
<1>3. k2 \in Job /\ k2.req = j.req
  <2> HIDE DEF k1
  <2>1. k2 \in Job
    BY <1>1, <1>2, JobFields
  <2> QED  BY <1>2 DEF Job
<1>4. k3 \in Job /\ k3.req = j.req
  <2> HIDE DEF k2
  <2>1. k3 \in Job
    BY <1>1, <1>3, JobFields
  <2> QED  BY <1>3, <2>1 DEF Job
<1>5. k4 \in Job /\ k4.req = j.req
  <2> HIDE DEF k3
  <2>1. k4 \in Job
    BY <1>1, <1>4, JobFields
  <2> QED  BY <1>4, <2>1 DEF Job
<1>6. k5 \in Job /\ k5.req = j.req
  <2> HIDE DEF k4
  <2>1. k5 \in Job
    BY <1>5, JobFields
  <2> QED  BY <1>5, <2>1 DEF Job
<1>7. k6 \in Job /\ k6.req = j.req
  <2> HIDE DEF k5
  <2>1. k6 \in Job
    BY <1>6, JobFields
  <2> QED  BY <1>6, <2>1 DEF Job
<1> QED  BY <1>7

\* Writing the reply.
LEMMA ReplyTyped ==
  ASSUME TInv, NEW w \in Workers, NEW r \in Replies, pc[w] # "idle", Reply(w, r)
  PROVE  HandlersTyped'
<1>1. job'[w] = [NoJob EXCEPT !.op = job[w].op, !.req = job[w].req,
                   !.since = job[w].since, !.doomed = job[w].doomed, !.reply = r,
                   !.exp = IF r = "granted" THEN job[w].exp ELSE 0]
  BY DEF Reply, TInv, TypeOK
<1>0. job[w] \in Job
  BY DEF TInv, TypeOK
<1>2. job'[w] \in Job /\ job'[w].req = job[w].req
  <2>1. (IF r = "granted" THEN job[w].exp ELSE 0) \in Nat
    BY <1>0 DEF Job
  <2> DEFINE j == job[w]
             e == IF r = "granted" THEN job[w].exp ELSE 0
             k == [NoJob EXCEPT !.op = j.op, !.req = j.req, !.since = j.since,
                                !.doomed = j.doomed, !.reply = r, !.exp = e]
  <2>2. job'[w] = k
    BY <1>1
  <2>3. j \in Job /\ e \in Nat
    BY <1>0, <2>1
  <2>4. k \in Job /\ k.req = j.req
    <3> HIDE DEF j, e
    <3> QED  BY <2>3, ReplyJob
  <2> HIDE DEF k
  <2> QED  BY <2>2, <2>4
<1>3. \A v \in Workers : v # w => job'[v] = job[v] /\ pc'[v] = pc[v]
  BY DEF Reply, Goto, TInv, TypeOK
<1>4. pc' \in [Workers -> PCs] /\ job' \in [Workers -> Job]
  BY <1>2, <1>3 DEF Reply, Goto, TInv, TypeOK, PCs
<1>5. pc'[w] = "replied"
  BY DEF Reply, Goto, TInv, TypeOK
<1> QED  BY <1>2, <1>3, <1>4, <1>5 DEF HandlersTyped, HandlerOK, TInv, SigPCs

\* Entering the access clean-up.
LEMMA DeleteAccessTyped ==
  ASSUME TInv, NEW w \in Workers, pc[w] # "idle",
         NEW n \in {"none", "mkaccess", "inactive", "lost", "revcommit", "done"},
         DeleteAccessThen(w, n)
  PROVE  HandlersTyped'
<1>1. pc' = [pc EXCEPT ![w] = "accread"] /\ job' = [job EXCEPT ![w].then = n]
  BY DEF DeleteAccessThen, Goto
<1>2. job' \in [Workers -> Job]
  BY <1>1 DEF TInv, TypeOK, Job
<1>4. pc' \in [Workers -> PCs]
  BY <1>1 DEF TInv, TypeOK, PCs
<1>3. HandlerOK'
  BY <1>1 DEF TInv, TypeOK, HandlerOK, SigPCs, Job
<1> QED  BY <1>2, <1>3, <1>4 DEF HandlersTyped

\* Leaving it.
LEMMA AfterAccessTyped ==
  ASSUME TInv, NEW w \in Workers, pc[w] # "idle", AfterAccess(w)
  PROVE  HandlersTyped'
<1>1. CASE job[w].then = "mkaccess" /\ Goto(w, "mkaccess") /\ job' = [job EXCEPT ![w].todo = {}]
  <2>1. job' \in [Workers -> Job]  BY <1>1 DEF TInv, TypeOK, Job
  <2> QED  BY <1>1, <2>1 DEF TInv, TypeOK, HandlerOK, HandlersTyped, Goto, PCs, SigPCs, Job
<1>2. CASE job[w].then = "revcommit" /\ Goto(w, "revcommit") /\ job' = [job EXCEPT ![w].todo = {}]
  <2>1. job' \in [Workers -> Job]  BY <1>2 DEF TInv, TypeOK, Job
  <2> QED  BY <1>2, <2>1 DEF TInv, TypeOK, HandlerOK, HandlersTyped, Goto, PCs, SigPCs, Job
<1>3. CASE \E r \in Replies : Reply(w, r)
  BY <1>3, ReplyTyped
<1> QED  BY <1>1, <1>2, <1>3 DEF AfterAccess, Replies

-----------------------------------------------------------------------------
\* The changes a handler can make keep the tables well-typed.

LEMMA RowTypes ==
  /\ NoRefreshRow \in RefreshRow /\ NoAccessRow \in AccessRow /\ NoTomb \in Tomb
  /\ NoJob \in Job /\ NoCron \in Cron
<1>1. NoRefreshRow \in RefreshRow
  BY DEF NoRefreshRow, RefreshRow, Statuses
<1>2. NoAccessRow \in AccessRow /\ NoTomb \in Tomb
  BY DEF NoAccessRow, AccessRow, NoTomb, Tomb
<1>3. NoJob \in Job
  BY DEF NoJob, Job, Replies
<1>4. NoCron \in Cron
  BY DEF NoCron, Cron
<1> QED  BY <1>1, <1>2, <1>3, <1>4

LEMMA WithoutTyped ==
  ASSUME TInv
  PROVE  /\ \A S : AccessWithout(S) \in [AccessSigs -> AccessRow]
         /\ \A S : RefreshWithout(S) \in [RefreshSigs -> RefreshRow]
BY RowTypes DEF TInv, TypeOK, AccessWithout, RefreshWithout

\* Committing a tombstone.
LEMMA CommitTyped ==
  ASSUME TInv, NEW q \in Requests, NEW fam, NEW exp \in Nat, CommitTerminal(q, fam, exp)
  PROVE  StoreTyped' /\ dead' \subseteq Requests
<1>1. PICK e \in TombExpiries(q, exp), f \in RefreshSigs \cup {NoSig} :
         tomb' = [tomb EXCEPT ![q] = [present |-> TRUE, family |-> f, exp |-> e]]
  BY DEF CommitTerminal
<1>2. e \in Nat
  <2>1. ArtifactExpiries(q) \subseteq Nat
    BY DEF ArtifactExpiries, RowsOf, AccessOf, RefreshRow, AccessRow, TInv, TypeOK
  <2>2. tomb[q].exp \in Nat
    BY DEF Tomb, TInv, TypeOK
  <2>3. now + TombLife \in Nat
    BY TimesAssumption DEF TInv, TypeOK
  <2> QED  BY <2>1, <2>2, <2>3 DEF TombExpiries
<1>3. [present |-> TRUE, family |-> f, exp |-> e] \in Tomb
  BY <1>2 DEF Tomb
<1>4. tomb' \in [Requests -> Tomb]
  BY <1>1, <1>3 DEF TInv, TypeOK
<1>5. dead' \subseteq Requests
  BY DEF CommitTerminal, TInv, TypeOK
<1> QED  BY <1>4, <1>5 DEF CommitTerminal, StoreTyped, TInv, TypeOK

\* Changing the status of rows.
LEMMA MutateTyped ==
  ASSUME TInv, NEW rows, NEW st \in Statuses, MutateFamily(rows, st)
  PROVE  StoreTyped'
<1>1. \A s \in RefreshSigs : [refresh[s] EXCEPT !.status = st] \in RefreshRow
  BY DEF RefreshRow, TInv, TypeOK
<1>2. refresh' \in [RefreshSigs -> RefreshRow]
  BY <1>1 DEF MutateFamily, TInv, TypeOK
<1>3. access' \in [AccessSigs -> AccessRow]
  BY WithoutTyped DEF MutateFamily
<1> QED  BY <1>2, <1>3 DEF MutateFamily, StoreTyped, TInv, TypeOK

LEMMA InvalidateTyped ==
  ASSUME TInv, NEW j, Invalidate(j)
  PROVE  StoreTyped'
<1>1. "reused" \in Statuses
  BY DEF Statuses
<1> QED  BY <1>1, MutateTyped DEF Invalidate

\* Reading a row into the handler.
LEMMA SnapshotTyped ==
  ASSUME TInv, NEW j \in Job, NEW s \in RefreshSigs
  PROVE  Snapshot(j, s) \in Job /\ Snapshot(j, s).req = j.req /\ Snapshot(j, s).sig = j.sig
<1>1. refresh[s] \in RefreshRow
  BY DEF TInv, TypeOK
<1>2. GetStatus(s) \in Statuses \cup {"absent"}
  BY <1>1 DEF GetStatus, RefreshRow, Statuses
<1>3. refresh[s].family \in RefreshSigs \cup {NoSig} /\ refresh[s].exp \in Nat
  BY <1>1 DEF RefreshRow
<1> DEFINE k1 == [j EXCEPT !.status = GetStatus(s)]
           k2 == [k1 EXCEPT !.family = refresh[s].family]
           k3 == [k2 EXCEPT !.exp = refresh[s].exp]
<1>4. k1 \in Job
  BY <1>2, JobFields
<1>5. k2 \in Job
  <2> HIDE DEF k1
  <2> QED  BY <1>3, <1>4, JobFields
<1>6. k3 \in Job
  <2> HIDE DEF k2
  <2> QED  BY <1>3, <1>5, JobFields
<1>7. Snapshot(j, s).req = j.req /\ Snapshot(j, s).sig = j.sig
  BY DEF Snapshot, Job
<1> QED  BY <1>6, <1>7 DEF Snapshot

\* A request arrives.
LEMMA BeginTyped ==
  ASSUME TInv, NEW w \in Workers, NEW p \in PCs, NEW j \in Job, Begin(w, p, j),
         j.req \in Requests, p \in SigPCs => j.sig \in RefreshSigs
  PROVE  HandlersTyped'
<1>1. [j EXCEPT !.since = now, !.doomed = j.req \in dead] \in Job
  <2>1. \A b \in BOOLEAN : [j EXCEPT !.since = now, !.doomed = b] \in Job
    BY DEF Job, TInv, TypeOK
  <2>2. (j.req \in dead) \in BOOLEAN
    OBVIOUS
  <2> QED  BY <2>1, <2>2, Zenon
<1>2. job' = [job EXCEPT ![w] = [j EXCEPT !.since = now, !.doomed = j.req \in dead]]
  BY DEF Begin
<1>3. pc' = [pc EXCEPT ![w] = p]
  BY DEF Begin, Goto
<1>4. job' \in [Workers -> Job] /\ pc' \in [Workers -> PCs]
  BY <1>1, <1>2, <1>3 DEF TInv, TypeOK
<1>5. job'[w].req = j.req /\ job'[w].sig = j.sig
  BY <1>2 DEF TInv, TypeOK, Job
<1> QED  BY <1>2, <1>3, <1>4, <1>5 DEF HandlersTyped, HandlerOK, TInv, TypeOK

-----------------------------------------------------------------------------
\* Type correctness.

LEMMA TypeInit == Init => TInv
<1> SUFFICES ASSUME Init PROVE TInv
  OBVIOUS
<1>1. refresh \in [RefreshSigs -> RefreshRow] /\ issued \subseteq RefreshSigs
  <2>1. PICK legacy \in [LegacyRequests -> RefreshSigs] :
          /\ issued = {legacy[q] : q \in LegacyRequests}
          /\ refresh = [s \in RefreshSigs |->
               IF s \in issued
               THEN [NoRefreshRow EXCEPT !.req = CHOOSE q \in LegacyRequests : legacy[q] = s,
                                         !.exp = RefreshLife]
               ELSE NoRefreshRow]
    BY DEF Init
  <2>2. \A q \in Requests : [NoRefreshRow EXCEPT !.req = q, !.exp = RefreshLife] \in RefreshRow
    BY RowTypes, TimesAssumption DEF RefreshRow
  <2>3. \A s \in issued : (CHOOSE q \in LegacyRequests : legacy[q] = s) \in Requests
    BY <2>1, RequestsAssumption
  <2>4. ASSUME NEW x \in RefreshSigs PROVE refresh[x] \in RefreshRow
    <3>1. CASE x \in issued
      <4> DEFINE c == CHOOSE q \in LegacyRequests : legacy[q] = x
      <4>1. refresh[x] = [NoRefreshRow EXCEPT !.req = c, !.exp = RefreshLife]
        BY <2>1, <3>1
      <4>2. c \in Requests
        BY <2>3, <3>1
      <4> HIDE DEF c
      <4> QED  BY <4>1, <4>2, <2>2
    <3>2. CASE x \notin issued
      BY <2>1, <3>2, RowTypes
    <3> QED  BY <3>1, <3>2
  <2>5. issued \subseteq RefreshSigs
    BY <2>1
  <2> QED  BY <2>1, <2>4, <2>5
<1>2. access \in [AccessSigs -> AccessRow] /\ tomb \in [Requests -> Tomb]
  BY RowTypes DEF Init
<1>3. codeAt \in [Requests -> Nat \cup {-1}]
  BY DEF Init
<1>4. pc \in [Workers -> PCs] /\ job \in [Workers -> Job] /\ cron \in Cron /\ HandlerOK
  BY RowTypes DEF Init, PCs, HandlerOK, SigPCs
<1>5. used \subseteq AccessSigs /\ now \in Nat /\ dead \subseteq Requests
  BY DEF Init
<1> QED  BY <1>1, <1>2, <1>3, <1>4, <1>5 DEF TInv, TypeOK

\* One storage call of a handler keeps the types.
LEMMA TypeStep ==
  ASSUME TInv, NEW w \in Workers, Step(w)
  PROVE  TInv'
<1> DEFINE q == job[w].req
           s == job[w].sig
<1>j. job[w] \in Job /\ job[w].exp \in Nat
  BY DEF TInv, TypeOK, Job
<1>q. pc[w] # "idle" => q \in Requests
  BY DEF TInv, HandlerOK
<1>s. pc[w] \in SigPCs => s \in RefreshSigs
  BY DEF TInv, HandlerOK
<1> SUFFICES HandlersTyped' /\ StoreTyped' /\ issued' \subseteq RefreshSigs /\ used' \subseteq AccessSigs
             /\ dead' \subseteq Requests /\ UNCHANGED <<codeAt, now, cron>>
  BY DEF TInv, TypeOK, HandlersTyped, StoreTyped
<1> USE DEF history, store
<1>st. UNCHANGED store => StoreTyped'
  BY DEF StoreTyped, TInv, TypeOK
<1>dd. UNCHANGED history => issued' \subseteq RefreshSigs /\ used' \subseteq AccessSigs
                            /\ dead' \subseteq Requests /\ UNCHANGED <<codeAt, now>>
  BY DEF TInv, TypeOK
<1>r. (\E r \in Replies : Reply(w, r)) /\ pc[w] # "idle" => HandlersTyped'
  BY ReplyTyped
<1>acc. pc[w] # "idle" /\ GetAccepted(w) /\ pc[w] \in SigPCs => HandlersTyped'
  BY <1>r, GotoTyped DEF GetAccepted, PCs, SigPCs, Replies
<1>ina. pc[w] # "idle" /\ GetInactive(w) /\ pc[w] \in SigPCs => HandlersTyped'
  BY <1>r, GotoTyped DEF GetInactive, PCs, SigPCs, Replies
<1>fail. pc[w] # "idle" /\ RevokeFailed(w) => HandlersTyped'
  BY <1>r, DeleteAccessTyped DEF RevokeFailed, Replies
<1>com. ASSUME NEW fam, NEW e \in Nat, CommitTerminal(q, fam, e), q \in Requests
        PROVE  /\ StoreTyped' /\ dead' \subseteq Requests
               /\ issued' \subseteq RefreshSigs /\ used' \subseteq AccessSigs
               /\ UNCHANGED <<codeAt, now>>
  BY <1>com, CommitTyped DEF CommitTerminal, TInv, TypeOK
<1>1. CASE GetTomb(w)
  BY <1>1, <1>st, <1>dd, <1>acc, <1>ina, GotoTyped DEF GetTomb, PCs, SigPCs
<1>2. CASE GetCommit(w)
  <2>1. pc[w] = "getcommit" /\ q \in Requests
    BY <1>2, <1>q DEF GetCommit
  <2>2. CASE CommitTerminal(q, job[w].family, job[w].exp) /\ Goto(w, "getfamily") /\ UNCHANGED job
    BY <1>2, <1>j, <1>com, <2>1, <2>2, GotoTyped DEF GetCommit, PCs, SigPCs
  <2>3. CASE Reply(w, "error") /\ UNCHANGED <<store, history>>
    BY <1>2, <1>r, <1>st, <1>dd, <2>1, <2>3 DEF GetCommit, Replies
  <2> QED  BY <1>2, <2>2, <2>3 DEF GetCommit
<1>3. CASE GetFamily(w)
  <2>1. pc[w] = "getfamily"
    BY <1>3 DEF GetFamily
  <2>2. CASE Invalidate(job[w]) /\ GetInactive(w)
    BY <1>3, <1>ina, <1>dd, <2>1, <2>2, InvalidateTyped DEF GetFamily, SigPCs, Invalidate, MutateFamily
  <2>3. CASE Reply(w, "error") /\ UNCHANGED <<store, history>>
    BY <1>3, <1>r, <1>st, <1>dd, <2>1, <2>3 DEF GetFamily, Replies
  <2> QED  BY <1>3, <2>2, <2>3 DEF GetFamily
<1>4. CASE DeleteFind(w)
  BY <1>4, <1>st, <1>dd, GotoTyped DEF DeleteFind, PCs, SigPCs
<1>5. CASE DeleteRow(w)
  <2>1. HandlersTyped'
    BY <1>5, GotoTyped DEF DeleteRow, PCs, SigPCs
  <2>2. StoreTyped'
    BY <1>5, WithoutTyped DEF DeleteRow, StoreTyped, TInv, TypeOK
  <2> QED  BY <1>5, <1>dd, <2>1, <2>2 DEF DeleteRow
<1>6. CASE RevokeCommit(w)
  <2>1. pc[w] = "revcommit" /\ q \in Requests
    BY <1>6, <1>q DEF RevokeCommit
  <2>2. CASE CommitTerminal(q, NoSig, 0) /\ Goto(w, "revfamily") /\ UNCHANGED job
    BY <1>6, <1>com, <2>1, <2>2, GotoTyped DEF RevokeCommit, PCs, SigPCs
  <2>3. CASE RevokeFailed(w) /\ UNCHANGED <<store, history>>
    BY <1>6, <1>fail, <1>st, <1>dd, <2>1, <2>3 DEF RevokeCommit
  <2> QED  BY <1>6, <2>2, <2>3 DEF RevokeCommit
<1>7. CASE RevokeFamily(w)
  <2>1. pc[w] = "revfamily"
    BY <1>7 DEF RevokeFamily
  <2>2. CASE /\ MutateFamily(UNION {FamilyRows(refresh[x].family) : x \in RowsOf(q)}, "revoked")
             /\ \/ DeleteAccessThen(w, "inactive") \/ DeleteAccessThen(w, "done") \/ Reply(w, "revoked")
    <3>1. HandlersTyped'
      BY <1>r, <2>1, <2>2, DeleteAccessTyped DEF Replies
    <3>2. StoreTyped'
      BY <2>2, MutateTyped DEF Statuses
    <3> QED  BY <1>7, <1>dd, <2>2, <3>1, <3>2 DEF RevokeFamily, MutateFamily
  <2>3. CASE RevokeFailed(w) /\ UNCHANGED <<store, history>>
    BY <1>7, <1>fail, <1>st, <1>dd, <2>1, <2>3 DEF RevokeFamily
  <2> QED  BY <1>7, <2>2, <2>3 DEF RevokeFamily
<1>8. CASE AccessRead(w)
  <2>1. pc[w] = "accread"
    BY <1>8 DEF AccessRead
  <2>2. CASE Goto(w, "accdel") /\ job' = [job EXCEPT ![w].todo = AccessOf(q)]
    <3>1. AccessOf(q) \in SUBSET AccessSigs
      BY DEF AccessOf
    <3>2. job' \in [Workers -> Job]
      <4>1. job \in [Workers -> Job]
        BY DEF TInv, TypeOK
      <4>2. [job[w] EXCEPT !.todo = AccessOf(q)] \in Job
        BY <1>j, <3>1 DEF Job
      <4>3. job' = [job EXCEPT ![w] = [job[w] EXCEPT !.todo = AccessOf(q)]]
        BY <2>2
      <4> QED  BY <4>1, <4>2, <4>3
    <3>3. pc' \in [Workers -> PCs]
      BY <2>2 DEF Goto, PCs, TInv, TypeOK
    <3>4. HandlerOK'
      BY <2>1, <2>2 DEF Goto, HandlerOK, SigPCs, Job, TInv, TypeOK
    <3> QED  BY <1>8, <1>st, <1>dd, <3>2, <3>3, <3>4 DEF AccessRead, HandlersTyped
  <2>3. CASE AfterAccess(w)
    BY <1>8, <1>st, <1>dd, <2>1, <2>3, AfterAccessTyped DEF AccessRead
  <2> QED  BY <1>8, <2>2, <2>3 DEF AccessRead
<1>9. CASE AccessDelete(w)
  <2>1. pc[w] = "accdel"
    BY <1>9 DEF AccessDelete
  <2>2. PICK a \in job[w].todo :
          /\ access' = AccessWithout({a})
          /\ AfterAccess(w) \/ (job' = [job EXCEPT ![w].todo = @ \ {a}] /\ UNCHANGED pc)
    BY <1>9 DEF AccessDelete
  <2>3. StoreTyped'
    BY <1>9, <2>2, WithoutTyped DEF AccessDelete, StoreTyped, TInv, TypeOK
  <2>4. CASE AfterAccess(w)
    BY <1>9, <1>dd, <2>1, <2>3, <2>4, AfterAccessTyped DEF AccessDelete
  <2>5. CASE job' = [job EXCEPT ![w].todo = @ \ {a}] /\ UNCHANGED pc
    <3>1. job' \in [Workers -> Job]
      <4>1. \A S \in SUBSET AccessSigs : [job[w] EXCEPT !.todo = S] \in Job
        BY <1>j DEF Job
      <4>2. job[w].todo \ {a} \in SUBSET AccessSigs
        BY <1>j DEF Job
      <4>3. [job[w] EXCEPT !.todo = @ \ {a}] \in Job
        BY <4>1, <4>2
      <4> QED  BY <2>5, <4>3 DEF TInv, TypeOK
    <3>2. HandlerOK'
      BY <2>5 DEF HandlerOK, Job, TInv, TypeOK
    <3> QED  BY <1>9, <1>dd, <2>3, <2>5, <3>1, <3>2 DEF AccessDelete, HandlersTyped, TInv, TypeOK
  <2> QED  BY <2>2, <2>4, <2>5
<1>10. CASE RotateTomb(w)
  BY <1>10, <1>st, <1>dd, GotoTyped, DeleteAccessTyped DEF RotateTomb, PCs, SigPCs
<1>11. CASE RotateCAS(w)
  <2>1. pc[w] = "rotcas" /\ s \in RefreshSigs
    BY <1>11, <1>s DEF RotateCAS, SigPCs
  <2> DEFINE row == [refresh[s] EXCEPT !.status = "rotated", !.rotatedAt = Cardinality(issued)]
  <2>2. CASE refresh' = [refresh EXCEPT ![s] = row] /\ DeleteAccessThen(w, "mkaccess")
    <3>1. Cardinality(issued) \in Nat
      BY SigsAssumption, FS_Subset, FS_CardinalityType DEF TInv, TypeOK
    <3>2. row \in RefreshRow
      <4>1. refresh[s] \in RefreshRow
        BY <2>1 DEF TInv, TypeOK
      <4>2. \A n \in Nat, r \in RefreshRow : [r EXCEPT !.status = "rotated", !.rotatedAt = n] \in RefreshRow
        BY DEF RefreshRow, Statuses
      <4> QED  BY <3>1, <4>1, <4>2
    <3>3. refresh' \in [RefreshSigs -> RefreshRow]
      BY <2>1, <2>2, <3>2 DEF TInv, TypeOK
    <3> QED  BY <3>3, <1>11, <1>dd, <2>1, <2>2, <3>2, DeleteAccessTyped DEF RotateCAS, StoreTyped, TInv, TypeOK
  <2>3. CASE Goto(w, "reread") /\ UNCHANGED <<refresh, job>>
    BY <1>11, <1>st, <1>dd, <2>1, <2>3, GotoTyped DEF RotateCAS, PCs, SigPCs
  <2> QED  BY <1>11, <2>2, <2>3 DEF RotateCAS
<1>12. CASE RotateReread(w)
  <2>1. pc[w] = "reread" /\ s \in RefreshSigs
    BY <1>12, <1>s DEF RotateReread, SigPCs
  <2> DEFINE j == IF refresh[s].req # NoRequest THEN Snapshot(job[w], s)
                  ELSE [job[w] EXCEPT !.status = "absent", !.family = NoSig, !.exp = 0]
  <2>2. j \in Job /\ j.req = job[w].req /\ j.sig = job[w].sig
    <3>1. Snapshot(job[w], s) \in Job /\ Snapshot(job[w], s).req = q /\ Snapshot(job[w], s).sig = s
      BY <1>j, <2>1, SnapshotTyped
    <3>2. [job[w] EXCEPT !.status = "absent", !.family = NoSig, !.exp = 0] \in Job
      BY <1>j DEF Job
    <3> QED  BY <1>j, <3>1, <3>2 DEF Job
  <2>3. job' = [job EXCEPT ![w] = j] /\ pc' = [pc EXCEPT ![w] = "rotcommit"]
    BY <1>12 DEF RotateReread, Goto, TInv, TypeOK
  <2> HIDE DEF j
  <2>4. pc' \in [Workers -> PCs]
    BY <2>3 DEF PCs, TInv, TypeOK
  <2>5. job' \in [Workers -> Job] /\ HandlerOK'
    BY <2>1, <2>2, <2>3 DEF HandlerOK, SigPCs, TInv, TypeOK
  <2> QED  BY <1>12, <1>st, <1>dd, <2>4, <2>5 DEF RotateReread, HandlersTyped
<1>13. CASE RotateCommit(w)
  <2>1. pc[w] = "rotcommit" /\ q \in Requests
    BY <1>13, <1>q DEF RotateCommit
  <2>2. CASE /\ CommitTerminal(q, job[w].family, job[w].exp)
             /\ (Goto(w, "rotfamily") /\ UNCHANGED job) \/ DeleteAccessThen(w, "lost")
    BY <1>13, <1>j, <1>com, <2>1, <2>2, GotoTyped, DeleteAccessTyped DEF RotateCommit, PCs, SigPCs
  <2>3. CASE Reply(w, "error") /\ UNCHANGED <<store, history>>
    BY <1>13, <1>r, <1>st, <1>dd, <2>1, <2>3 DEF RotateCommit, Replies
  <2> QED  BY <1>13, <2>2, <2>3 DEF RotateCommit
<1>14. CASE RotateFamily(w)
  <2>1. pc[w] = "rotfamily"
    BY <1>14 DEF RotateFamily
  <2>2. CASE Invalidate(job[w]) /\ DeleteAccessThen(w, "lost")
    BY <1>14, <1>dd, <2>1, <2>2, InvalidateTyped, DeleteAccessTyped DEF RotateFamily, Invalidate, MutateFamily
  <2>3. CASE Reply(w, "error") /\ UNCHANGED <<store, history>>
    BY <1>14, <1>r, <1>st, <1>dd, <2>1, <2>3 DEF RotateFamily, Replies
  <2> QED  BY <1>14, <2>2, <2>3 DEF RotateFamily
<1>15. CASE CreateAccess(w)
  <2>1. pc[w] = "mkaccess" /\ q \in Requests
    BY <1>15, <1>q DEF CreateAccess
  <2>2. CASE Reply(w, "inactive") /\ UNCHANGED <<access, used>>
    BY <1>15, <1>r, <1>st, <1>dd, <2>1, <2>2 DEF CreateAccess, Replies
  <2>3. CASE /\ TokensLeft(w)
             /\ access' = [access EXCEPT ![FreshAccess] = [req |-> q, exp |-> job[w].since + AccessLife]]
             /\ used' = used \cup {FreshAccess}
             /\ \/ Reply(w, "tokens")
                \/ Goto(w, "mkrefresh") /\ job' = [job EXCEPT ![w].cand = FreshAccess]
    <3>1. FreshAccess \in AccessSigs
      BY <2>3 DEF TokensLeft, FreshAccess, TInv, TypeOK
    <3>2. [req |-> q, exp |-> job[w].since + AccessLife] \in AccessRow
      BY <1>j, <2>1, TimesAssumption DEF AccessRow, Job
    <3>3. access' \in [AccessSigs -> AccessRow] /\ used' \subseteq AccessSigs
      BY <2>3, <3>1, <3>2 DEF TInv, TypeOK
    <3>4. CASE Reply(w, "tokens")
      BY <1>15, <1>r, <2>1, <3>3, <3>4 DEF CreateAccess, Replies, StoreTyped, TInv, TypeOK
    <3>5. CASE Goto(w, "mkrefresh") /\ job' = [job EXCEPT ![w].cand = FreshAccess]
      <4>1. job' \in [Workers -> Job]
        <5>1. job' = [job EXCEPT ![w] = [job[w] EXCEPT !.cand = FreshAccess]]
          BY <3>5
        <5>2. [job[w] EXCEPT !.cand = FreshAccess] \in Job
          BY <1>j, <3>1 DEF Job
        <5>3. job \in [Workers -> Job]
          BY DEF TInv, TypeOK
        <5> QED  BY <5>1, <5>2, <5>3
      <4>2. pc' \in [Workers -> PCs]
        BY <3>5 DEF Goto, PCs, TInv, TypeOK
      <4>3. HandlerOK'
        BY <2>1, <3>5 DEF Goto, HandlerOK, SigPCs, Job, TInv, TypeOK
      <4> QED  BY <1>15, <3>3, <4>1, <4>2, <4>3 DEF CreateAccess, HandlersTyped, StoreTyped, TInv, TypeOK
    <3> QED  BY <2>3, <3>4, <3>5
  <2> QED  BY <1>15, <2>2, <2>3 DEF CreateAccess
<1>16. CASE CreateRefresh(w)
  <2>1. pc[w] = "mkrefresh" /\ q \in Requests
    BY <1>16, <1>q DEF CreateRefresh
  <2>2. PICK r \in Replies : Reply(w, r)
    BY <1>16 DEF CreateRefresh, Replies
  <2>3. HandlersTyped'
    BY <1>r, <2>1, <2>2
  <2>4. CASE (\E S : access' = AccessWithout(S)) /\ UNCHANGED <<refresh, issued>>
    BY <1>16, <2>3, <2>4, WithoutTyped DEF CreateRefresh, RefuseTerminal, StoreTyped, TInv, TypeOK
  <2>5. CASE /\ issued # RefreshSigs /\ issued' = issued \cup {FreshRefresh} /\ UNCHANGED access
             /\ \E parent \in IF RowsOf(q) = {} THEN {NoSig} ELSE LatestRotated(q) :
                  refresh' = [refresh EXCEPT ![FreshRefresh] =
                    [req |-> q, parent |-> parent, status |-> "active", rotatedAt |-> 0,
                     family |-> FamilyOf(parent),
                     exp |-> job[w].since + RefreshLife]]
    <3>1. FreshRefresh \in RefreshSigs
      BY <2>5 DEF FreshRefresh, TInv, TypeOK
    <3>2. PICK parent \in RefreshSigs \cup {NoSig} :
                  refresh' = [refresh EXCEPT ![FreshRefresh] =
                    [req |-> q, parent |-> parent, status |-> "active", rotatedAt |-> 0,
                     family |-> FamilyOf(parent),
                     exp |-> job[w].since + RefreshLife]]
      BY <2>5 DEF LatestRotated, RowsOf
    <3>3. FamilyOf(parent) \in RefreshSigs \cup {NoSig}
      BY <3>1 DEF FamilyOf, RefreshRow, TInv, TypeOK
    <3>4. job[w].since + RefreshLife \in Nat
      BY <1>j, TimesAssumption DEF Job
    <3>5. [req |-> q, parent |-> parent, status |-> "active", rotatedAt |-> 0,
           family |-> FamilyOf(parent),
           exp |-> job[w].since + RefreshLife] \in RefreshRow
      BY <2>1, <3>3, <3>4 DEF RefreshRow, Statuses
    <3>6. refresh' \in [RefreshSigs -> RefreshRow] /\ issued' \subseteq RefreshSigs
      BY <2>5, <3>1, <3>2, <3>5 DEF TInv, TypeOK
    <3> QED  BY <1>16, <2>3, <2>5, <3>6 DEF CreateRefresh, StoreTyped, TInv, TypeOK
  <2> QED  BY <1>16, <2>4, <2>5 DEF CreateRefresh, RefuseTerminal
<1>17. CASE CheckTomb(w)
  BY <1>17, <1>st, <1>dd, <1>r, GotoTyped DEF CheckTomb, PCs, SigPCs, Replies
<1>18. CASE CheckRows(w)
  BY <1>18, <1>st, <1>dd, <1>r, GotoTyped DEF CheckRows, PCs, SigPCs, Replies
<1>19. CASE Finish(w)
  BY <1>19, <1>st, <1>dd, RowTypes DEF Finish, Goto, HandlersTyped, HandlerOK, SigPCs, PCs, TInv, TypeOK
<1> QED  BY <1>1, <1>2, <1>3, <1>4, <1>5, <1>6, <1>7, <1>8, <1>9, <1>10, <1>11, <1>12, <1>13,
            <1>14, <1>15, <1>16, <1>17, <1>18, <1>19 DEF Step

\* An arriving request keeps the types.
LEMMA TypeArrive ==
  ASSUME TInv, NEW w \in Workers, Arrive(w)
  PROVE  TInv'
<1> USE DEF history, store
<1> SUFFICES HandlersTyped' /\ UNCHANGED <<store, issued, used, now, dead, cron>>
             /\ codeAt' \in [Requests -> Nat \cup {-1}]
  BY DEF TInv, TypeOK, HandlersTyped
<1>1. ASSUME NEW s \in RefreshSigs, NEW e \in {"refresh", "revoke", "check"}, PresentRefresh(w, s, e)
      PROVE  HandlersTyped' /\ UNCHANGED <<store, history, cron>>
  <2>1. refresh[s].req \in Requests
    BY <1>1 DEF PresentRefresh, RefreshRow, TInv, TypeOK
  <2> DEFINE j == [NoJob EXCEPT !.op = e, !.sig = s, !.req = refresh[s].req]
  <2>2. j \in Job /\ j.req = refresh[s].req /\ j.sig = s
    BY <2>1 DEF NoJob, Job, Ops, Replies
  <2> HIDE DEF j
  <2>3. Snapshot(j, s) \in Job /\ Snapshot(j, s).req = refresh[s].req /\ Snapshot(j, s).sig = s
    BY <2>2, SnapshotTyped
  <2>4. Begin(w, "gettomb", Snapshot(j, s))
    BY <1>1 DEF PresentRefresh, j
  <2>5. "gettomb" \in PCs
    BY DEF PCs
  <2>6. HandlersTyped'
    BY <2>1, <2>3, <2>4, <2>5, BeginTyped
  <2> QED  BY <1>1, <2>6 DEF PresentRefresh
<1>2. ASSUME NEW a \in AccessSigs, NEW e \in {"check", "revoke"}, PresentAccess(w, a, e)
      PROVE  HandlersTyped' /\ UNCHANGED <<store, history, cron>>
  <2>1. access[a].req \in Requests /\ access[a].exp \in Nat
    BY <1>2 DEF PresentAccess, AccessRow, TInv, TypeOK
  <2> DEFINE j == [NoJob EXCEPT !.op = e, !.req = access[a].req, !.exp = access[a].exp]
  <2>2. j \in Job /\ j.req = access[a].req
    BY <2>1 DEF NoJob, Job, Ops, Replies
  <2>3. Begin(w, "chktomb", j)
    BY <1>2 DEF PresentAccess
  <2> HIDE DEF j
  <2>4. "chktomb" \in PCs \ SigPCs
    BY DEF PCs, SigPCs
  <2>5. HandlersTyped'
    BY <2>1, <2>2, <2>3, <2>4, BeginTyped
  <2> QED  BY <1>2, <2>5 DEF PresentAccess
<1>3. ASSUME NEW q \in Requests, NEW k \in {"exchange", "accessonly"}, Exchange(w, q, k)
      PROVE  HandlersTyped' /\ UNCHANGED <<store, issued, used, now, dead, cron>>
             /\ codeAt' \in [Requests -> Nat \cup {-1}]
  <2> DEFINE j == [NoJob EXCEPT !.op = k, !.req = q]
  <2>1. j \in Job /\ j.req = q
    BY DEF NoJob, Job, Ops, Replies
  <2>2. Begin(w, "mkaccess", j)
    BY <1>3 DEF Exchange
  <2> HIDE DEF j
  <2>3. "mkaccess" \in PCs \ SigPCs
    BY DEF PCs, SigPCs
  <2>4. HandlersTyped'
    BY <2>1, <2>2, <2>3, BeginTyped
  <2>5. codeAt' \in [Requests -> Nat \cup {-1}]
    BY <1>3 DEF Exchange, TInv, TypeOK
  <2> QED  BY <1>3, <2>4, <2>5 DEF Exchange
<1>4. ASSUME NEW q \in Requests, ReplayCode(w, q)
      PROVE  HandlersTyped' /\ UNCHANGED <<store, history, cron>>
  <2> DEFINE j == [NoJob EXCEPT !.op = "replay", !.req = q, !.then = "revcommit"]
  <2>1. j \in Job /\ j.req = q
    BY DEF NoJob, Job, Ops, Replies
  <2>2. Begin(w, "accread", j)
    BY <1>4 DEF ReplayCode
  <2> HIDE DEF j
  <2>3. "accread" \in PCs \ SigPCs
    BY DEF PCs, SigPCs
  <2>4. HandlersTyped'
    BY <2>1, <2>2, <2>3, BeginTyped
  <2> QED  BY <1>4, <2>4 DEF ReplayCode
<1>5. UNCHANGED codeAt => codeAt' \in [Requests -> Nat \cup {-1}]
  BY DEF TInv, TypeOK
<1> QED  BY <1>1, <1>2, <1>3, <1>4, <1>5 DEF Arrive

\* The clean-up job keeps the types.
LEMMA TypeCleanUp ==
  ASSUME TInv, CleanUp
  PROVE  TInv'
<1> USE DEF history, store
<1> SUFFICES StoreTyped' /\ cron' \in Cron /\ UNCHANGED <<history, handlers>>
  BY DEF TInv, TypeOK, HandlerOK, StoreTyped, handlers
<1>st. StoreTyped
  BY DEF StoreTyped, TInv, TypeOK
<1>cr. cron \in Cron
  BY DEF TInv, TypeOK
<1>1. CASE CronStart
  BY <1>1, <1>st, <1>cr DEF CronStart, Cron, StoreTyped, handlers
<1>2. CASE CronQueryRefresh
  BY <1>2, <1>st, <1>cr DEF CronQueryRefresh, Cron, StoreTyped, handlers
<1>3. CASE CronQueryTombs
  BY <1>3, <1>st, <1>cr DEF CronQueryTombs, Cron, StoreTyped, handlers, TInv, TypeOK
<1>4. CASE CronEnd
  BY <1>4, <1>st, RowTypes DEF CronEnd, StoreTyped, handlers
<1>5. ASSUME NEW a \in AccessSigs, CronAccess(a)
      PROVE  StoreTyped' /\ cron' \in Cron /\ UNCHANGED <<history, handlers>>
  BY <1>5, <1>st, <1>cr, WithoutTyped DEF CronAccess, Cron, StoreTyped, handlers
<1>6. ASSUME NEW s \in RefreshSigs, CronRefresh(s)
      PROVE  StoreTyped' /\ cron' \in Cron /\ UNCHANGED <<history, handlers>>
  BY <1>6, <1>st, <1>cr, WithoutTyped DEF CronRefresh, Cron, StoreTyped, handlers
<1>7. ASSUME NEW q \in Requests, CronTomb(q)
      PROVE  StoreTyped' /\ cron' \in Cron /\ UNCHANGED <<history, handlers>>
  <2>1. cron' \in Cron /\ UNCHANGED <<refresh, access, history, handlers>>
    BY <1>7, <1>cr DEF CronTomb, Cron, handlers
  <2>2. tomb' \in [Requests -> Tomb]
    <3>1. CASE UNCHANGED tomb
      BY <3>1, <1>st DEF StoreTyped
    <3>2. CASE tomb' = [tomb EXCEPT ![q] = NoTomb]
      BY <3>2, <1>st, RowTypes DEF StoreTyped
    <3>3. CASE \E e \in {now + TombLife} \cup ArtifactExpiries(q) : tomb' = [tomb EXCEPT ![q].exp = e]
      <4>1. {now + TombLife} \cup ArtifactExpiries(q) \subseteq Nat
        BY <1>st, TimesAssumption
           DEF ArtifactExpiries, RowsOf, AccessOf, RefreshRow, AccessRow, StoreTyped, TInv, TypeOK
      <4> QED  BY <3>3, <4>1, <1>st DEF Tomb, StoreTyped
    <3> QED  BY <1>7, <3>1, <3>2, <3>3 DEF CronTomb
  <2> QED  BY <2>1, <2>2, <1>st DEF StoreTyped
<1> QED  BY <1>1, <1>2, <1>3, <1>4, <1>5, <1>6, <1>7 DEF CleanUp

LEMMA TypeNext == TInv /\ [Next]_vars => TInv'
<1> SUFFICES ASSUME TInv, [Next]_vars PROVE TInv'
  OBVIOUS
<1> USE DEF history, store
<1>1. ASSUME NEW w \in Workers, Arrive(w) \/ Step(w) PROVE TInv'
  BY <1>1, TypeArrive, TypeStep
<1>2. ASSUME NEW w \in Workers, AccessFault(w) PROVE TInv'
  <2>1. HandlersTyped'
    BY <1>2, AfterAccessTyped DEF AccessFault
  <2> QED  BY <1>2, <2>1 DEF AccessFault, HandlersTyped, TInv, TypeOK
<1>3. ASSUME NEW w \in Workers, Abort(w) PROVE TInv'
  BY <1>3, RowTypes DEF Abort, Goto, TInv, TypeOK, HandlerOK, SigPCs, PCs
<1>4. CASE CleanUp
  BY <1>4, TypeCleanUp
<1>5. CASE Tick
  BY <1>5 DEF Tick, TInv, TypeOK, HandlerOK
<1>6. CASE UNCHANGED vars
  BY <1>6 DEF vars, TInv, TypeOK, HandlerOK
<1> QED  BY <1>1, <1>2, <1>3, <1>4, <1>5, <1>6 DEF Next, Handlers

\* The tables, the handlers and the clean-up job of storage.go keep their types,
\* whatever the number of requests, tokens and concurrent handlers.
THEOREM TypeCorrect == Spec => []TypeOK
<1>1. TInv => TypeOK
  BY DEF TInv
<1> QED  BY <1>1, TypeInit, TypeNext, PTL DEF Spec

-----------------------------------------------------------------------------
\* One leaf per family.

\* A stored row was issued.
RowsIssued == \A s \in RefreshSigs : refresh[s].req # NoRequest => s \in issued

\* The signature a handler works on was issued, and its row, while it lasts,
\* belongs to the handler's request: no other row is ever stored under it.
SigOfRequest ==
  \A w \in Workers : pc[w] \in SigPCs =>
    job[w].sig \in issued /\ refresh[job[w].sig].req \in {job[w].req, NoRequest}

\* Before its code is spent a request has no rows and no handler may store one.
UnspentIsEmpty ==
  \A q \in Requests : codeAt[q] = -1 => RowsOf(q) = {} /\ Winners(q) = {}

\* Without offline access no refresh token follows.
AccessOnlyEnds == \A w \in Workers : pc[w] = "mkrefresh" => job[w].op # "accessonly"

LInv == /\ TInv /\ RowsIssued /\ SigOfRequest /\ UnspentIsEmpty /\ AccessOnlyEnds
        /\ OneLeafAuthority

\* What most steps do: no row is stored or revived, ...
RowKeeps(s) ==
  \/ refresh'[s].req = NoRequest
  \/ refresh'[s].req = refresh[s].req /\ (GetStatus(s)' = "active" => GetStatus(s) = "active")
RowsKeep == \A s \in RefreshSigs : RowKeeps(s)

\* ... and no handler takes up a signature or wins the right to store one.
HandlerKeeps(w) ==
  /\ pc'[w] \in SigPCs =>
       pc[w] \in SigPCs /\ job'[w].sig = job[w].sig /\ job'[w].req = job[w].req
  /\ Won(w)' => Won(w) /\ job'[w].req = job[w].req
  /\ pc'[w] = "mkrefresh" => job'[w].op # "accessonly"
HandlersKeep == \A w \in Workers : HandlerKeeps(w)

LEMMA LInvKept ==
  ASSUME LInv, TInv', RowsKeep, HandlersKeep, UNCHANGED <<issued, codeAt>>
  PROVE  LInv'
<1>1. \A s \in RefreshSigs : refresh'[s].req \in {refresh[s].req, NoRequest}
  BY DEF RowsKeep, RowKeeps
<1>2. RowsIssued'
  BY <1>1 DEF RowsIssued, LInv
<1>3. SigOfRequest'
  BY <1>1 DEF SigOfRequest, HandlersKeep, HandlerKeeps, LInv, TInv, HandlerOK
<1>4. \A q \in Requests : RowsOf(q)' \subseteq RowsOf(q) /\ ActiveRows(q)' \subseteq ActiveRows(q)
  BY RequestsAssumption DEF RowsKeep, RowKeeps, RowsOf, ActiveRows
<1>5. \A q \in Requests : Winners(q)' \subseteq Winners(q)
  BY DEF HandlersKeep, HandlerKeeps, Winners
<1>6. UnspentIsEmpty'
  BY <1>4, <1>5 DEF UnspentIsEmpty, LInv
<1>7. OneLeafAuthority'
  BY <1>4, <1>5 DEF OneLeafAuthority, LInv
<1>8. AccessOnlyEnds'
  BY DEF AccessOnlyEnds, HandlersKeep, HandlerKeeps
<1> QED  BY <1>2, <1>3, <1>6, <1>7, <1>8 DEF LInv

\* The moves of a handler that win nothing.
LEMMA GotoKeeps ==
  ASSUME LInv, NEW w \in Workers, NEW p \in PCs, Goto(w, p), UNCHANGED job,
         p \notin {"mkaccess", "mkrefresh", "accread", "accdel"},
         p \in SigPCs => pc[w] \in SigPCs
  PROVE  HandlersKeep
BY DEF HandlersKeep, HandlerKeeps, Won, Goto, LInv, AccessOnlyEnds, TInv, TypeOK

LEMMA ReplyKeeps ==
  ASSUME LInv, NEW w \in Workers, NEW r, Reply(w, r)
  PROVE  HandlersKeep
<1>1. \A v \in Workers : v # w => job'[v] = job[v] /\ pc'[v] = pc[v]
  BY DEF Reply, Goto, LInv, TInv, TypeOK
<1>2. pc'[w] = "replied"
  BY DEF Reply, Goto, LInv, TInv, TypeOK
<1> QED  BY <1>1, <1>2 DEF HandlersKeep, HandlerKeeps, Won, SigPCs, LInv, AccessOnlyEnds

LEMMA DeleteAccessKeeps ==
  ASSUME LInv, NEW w \in Workers, NEW n, n # "mkaccess", DeleteAccessThen(w, n)
  PROVE  HandlersKeep
<1>1. \A v \in Workers : v # w => job'[v] = job[v] /\ pc'[v] = pc[v]
  BY DEF DeleteAccessThen, Goto, LInv, TInv, TypeOK
<1>2. pc'[w] = "accread" /\ job'[w].then = n
  BY DEF DeleteAccessThen, Goto, LInv, TInv, TypeOK, Job
<1> QED  BY <1>1, <1>2 DEF HandlersKeep, HandlerKeeps, Won, SigPCs, LInv, AccessOnlyEnds

LEMMA AfterAccessKeeps ==
  ASSUME LInv, NEW w \in Workers, pc[w] \in {"accread", "accdel"}, AfterAccess(w)
  PROVE  HandlersKeep
<1>1. ASSUME NEW p \in {"mkaccess", "revcommit"}, Goto(w, p), job[w].then = p,
             job' = [job EXCEPT ![w].todo = {}]
      PROVE  HandlersKeep
  <2>1. \A v \in Workers : v # w => job'[v] = job[v] /\ pc'[v] = pc[v]
    BY <1>1 DEF Goto, LInv, TInv, TypeOK
  <2>2. pc'[w] = p /\ job'[w].req = job[w].req /\ job'[w].op = job[w].op
    BY <1>1 DEF Goto, LInv, TInv, TypeOK, Job
  <2> QED  BY <1>1, <2>1, <2>2 DEF HandlersKeep, HandlerKeeps, Won, SigPCs, LInv, AccessOnlyEnds
<1> QED  BY <1>1, ReplyKeeps DEF AfterAccess

\* The changes of the tables that store and revive nothing.
LEMMA SameRowsKeep == ASSUME UNCHANGED refresh PROVE RowsKeep
BY DEF RowsKeep, RowKeeps, GetStatus

LEMMA WithoutKeeps ==
  ASSUME LInv, NEW S, refresh' = RefreshWithout(S)
  PROVE  RowsKeep
BY DEF RowsKeep, RowKeeps, GetStatus, RefreshWithout, NoRefreshRow

LEMMA MutateKeeps ==
  ASSUME LInv, NEW rows, NEW st \in Terminal, MutateFamily(rows, st)
  PROVE  RowsKeep
<1> SUFFICES ASSUME NEW s \in RefreshSigs PROVE RowKeeps(s)
  BY DEF RowsKeep
<1>1. refresh[s] \in RefreshRow
  BY DEF LInv, TInv, TypeOK
<1>2. refresh'[s] = IF s \in rows THEN [refresh[s] EXCEPT !.status = st] ELSE refresh[s]
  BY DEF MutateFamily
<1>3. CASE s \in rows
  BY <1>1, <1>2, <1>3 DEF RowKeeps, GetStatus, Terminal, RefreshRow
<1>4. CASE s \notin rows
  BY <1>2, <1>4 DEF RowKeeps, GetStatus
<1> QED  BY <1>3, <1>4

LEMMA InvalidateKeeps == ASSUME LInv, NEW j, Invalidate(j) PROVE RowsKeep
<1>1. "reused" \in Terminal  BY DEF Terminal
<1> QED  BY <1>1, MutateKeeps DEF Invalidate

Kept == RowsKeep /\ HandlersKeep /\ UNCHANGED <<issued, codeAt>>

\* Every storage call but the UPDATE of a rotation and the INSERTs.
LEMMA StepKeeps ==
  ASSUME LInv, NEW w \in Workers, Step(w),
         ~RotateCAS(w), ~CreateAccess(w), ~CreateRefresh(w)
  PROVE  Kept
<1> USE DEF history, store
<1>t. TInv /\ job[w] \in Job
  BY DEF LInv, TInv, TypeOK
<1>acc. GetAccepted(w) /\ pc[w] \in SigPCs => HandlersKeep
  BY ReplyKeeps, GotoKeeps DEF GetAccepted, PCs, SigPCs
<1>ina. GetInactive(w) /\ pc[w] \in SigPCs => HandlersKeep
  BY ReplyKeeps, GotoKeeps DEF GetInactive, PCs, SigPCs
<1>fail. RevokeFailed(w) => HandlersKeep
  BY ReplyKeeps, DeleteAccessKeeps DEF RevokeFailed
<1>1. CASE GetTomb(w)
  BY <1>1, <1>acc, <1>ina, GotoKeeps, SameRowsKeep DEF GetTomb, PCs, SigPCs, Kept
<1>2. CASE GetCommit(w)
  <2>1. RowsKeep /\ UNCHANGED <<issued, codeAt>>
    BY <1>2, SameRowsKeep DEF GetCommit, CommitTerminal
  <2>2. HandlersKeep
    BY <1>2, GotoKeeps, ReplyKeeps DEF GetCommit, PCs, SigPCs
  <2> QED  BY <2>1, <2>2 DEF Kept
<1>3. CASE GetFamily(w)
  <2>1. RowsKeep /\ UNCHANGED <<issued, codeAt>>
    BY <1>3, SameRowsKeep, InvalidateKeeps DEF GetFamily, Invalidate, MutateFamily
  <2>2. HandlersKeep
    BY <1>3, <1>ina, ReplyKeeps DEF GetFamily, SigPCs
  <2> QED  BY <2>1, <2>2 DEF Kept
<1>4. CASE DeleteFind(w)
  BY <1>4, GotoKeeps, SameRowsKeep DEF DeleteFind, PCs, SigPCs, Kept
<1>5. CASE DeleteRow(w)
  BY <1>5, GotoKeeps, WithoutKeeps DEF DeleteRow, PCs, SigPCs, Kept
<1>6. CASE RevokeCommit(w)
  <2>1. RowsKeep /\ UNCHANGED <<issued, codeAt>>
    BY <1>6, SameRowsKeep DEF RevokeCommit, CommitTerminal
  <2>2. HandlersKeep
    BY <1>6, <1>fail, GotoKeeps DEF RevokeCommit, PCs, SigPCs
  <2> QED  BY <2>1, <2>2 DEF Kept
<1>7. CASE RevokeFamily(w)
  <2>1. RowsKeep /\ UNCHANGED <<issued, codeAt>>
    BY <1>7, SameRowsKeep, MutateKeeps DEF RevokeFamily, MutateFamily, Terminal
  <2>2. HandlersKeep
    BY <1>7, <1>fail, DeleteAccessKeeps, ReplyKeeps DEF RevokeFamily
  <2> QED  BY <2>1, <2>2 DEF Kept
<1>8. CASE AccessRead(w)
  <2>1. CASE Goto(w, "accdel") /\ job' = [job EXCEPT ![w].todo = AccessOf(job[w].req)]
    <3>1. \A v \in Workers : v # w => job'[v] = job[v] /\ pc'[v] = pc[v]
      BY <2>1 DEF Goto, LInv, TInv, TypeOK
    <3>2. pc[w] = "accread" /\ pc'[w] = "accdel" /\ job'[w].then = job[w].then /\ job'[w].req = job[w].req
      BY <1>8, <2>1 DEF AccessRead, Goto, LInv, TInv, TypeOK, Job
    <3>3. HandlersKeep
      BY <3>1, <3>2 DEF HandlersKeep, HandlerKeeps, Won, SigPCs, LInv, AccessOnlyEnds
    <3> QED  BY <1>8, <3>3, SameRowsKeep DEF AccessRead, Kept
  <2>2. CASE AfterAccess(w)
    BY <1>8, <2>2, AfterAccessKeeps, SameRowsKeep DEF AccessRead, Kept
  <2> QED  BY <1>8, <2>1, <2>2 DEF AccessRead
<1>9. CASE AccessDelete(w)
  <2>1. RowsKeep /\ UNCHANGED <<issued, codeAt>>
    BY <1>9, SameRowsKeep DEF AccessDelete
  <2>2. PICK a \in job[w].todo :
          AfterAccess(w) \/ (job' = [job EXCEPT ![w].todo = @ \ {a}] /\ UNCHANGED pc)
    BY <1>9 DEF AccessDelete
  <2>3. CASE job' = [job EXCEPT ![w].todo = @ \ {a}] /\ UNCHANGED pc
    <3>1. \A v \in Workers : /\ job'[v].then = job[v].then /\ job'[v].req = job[v].req
                             /\ job'[v].sig = job[v].sig /\ job'[v].op = job[v].op
      BY <2>3 DEF LInv, TInv, TypeOK, Job
    <3> QED  BY <2>1, <2>3, <3>1 DEF HandlersKeep, HandlerKeeps, Won, LInv, AccessOnlyEnds, Kept
  <2> QED  BY <1>9, <2>1, <2>2, <2>3, AfterAccessKeeps DEF AccessDelete, Kept
<1>10. CASE RotateTomb(w)
  BY <1>10, GotoKeeps, DeleteAccessKeeps, SameRowsKeep DEF RotateTomb, PCs, SigPCs, Kept
<1>12. CASE RotateReread(w)
  <2>1. pc[w] = "reread" /\ pc'[w] = "rotcommit"
    BY <1>12 DEF RotateReread, Goto, LInv, TInv, TypeOK
  <2>2. job[w].sig \in RefreshSigs
    BY <2>1 DEF LInv, TInv, HandlerOK, SigPCs
  <2>3. job'[w] = IF refresh[job[w].sig].req # NoRequest THEN Snapshot(job[w], job[w].sig)
                  ELSE [job[w] EXCEPT !.status = "absent", !.family = NoSig, !.exp = 0]
    BY <1>12 DEF RotateReread, LInv, TInv, TypeOK
  <2>4. job'[w].sig = job[w].sig /\ job'[w].req = job[w].req
    BY <1>t, <2>2, <2>3, SnapshotTyped DEF Job
  <2>5. \A v \in Workers : v # w => job'[v] = job[v] /\ pc'[v] = pc[v]
    BY <1>12 DEF RotateReread, Goto, LInv, TInv, TypeOK
  <2>6. HandlersKeep
    BY <2>1, <2>4, <2>5 DEF HandlersKeep, HandlerKeeps, Won, SigPCs, LInv, AccessOnlyEnds
  <2> QED  BY <1>12, <2>6, SameRowsKeep DEF RotateReread, Kept
<1>13. CASE RotateCommit(w)
  <2>1. RowsKeep /\ UNCHANGED <<issued, codeAt>>
    BY <1>13, SameRowsKeep DEF RotateCommit, CommitTerminal
  <2>2. HandlersKeep
    BY <1>13, GotoKeeps, DeleteAccessKeeps, ReplyKeeps DEF RotateCommit, PCs, SigPCs
  <2> QED  BY <2>1, <2>2 DEF Kept
<1>14. CASE RotateFamily(w)
  <2>1. RowsKeep /\ UNCHANGED <<issued, codeAt>>
    BY <1>14, SameRowsKeep, InvalidateKeeps DEF RotateFamily, Invalidate, MutateFamily
  <2>2. HandlersKeep
    BY <1>14, DeleteAccessKeeps, ReplyKeeps DEF RotateFamily
  <2> QED  BY <2>1, <2>2 DEF Kept
<1>17. CASE CheckTomb(w)
  BY <1>17, GotoKeeps, ReplyKeeps, SameRowsKeep DEF CheckTomb, PCs, SigPCs, Kept
<1>18. CASE CheckRows(w)
  BY <1>18, GotoKeeps, ReplyKeeps, SameRowsKeep DEF CheckRows, PCs, SigPCs, Kept
<1>19. CASE Finish(w)
  <2>1. \A v \in Workers : v # w => job'[v] = job[v] /\ pc'[v] = pc[v]
    BY <1>19 DEF Finish, Goto, LInv, TInv, TypeOK
  <2>2. pc'[w] = "idle"
    BY <1>19 DEF Finish, Goto, LInv, TInv, TypeOK
  <2>3. HandlersKeep
    BY <2>1, <2>2 DEF HandlersKeep, HandlerKeeps, Won, SigPCs, LInv, AccessOnlyEnds
  <2> QED  BY <1>19, <2>3, SameRowsKeep DEF Finish, Kept
<1> QED  BY <1>1, <1>2, <1>3, <1>4, <1>5, <1>6, <1>7, <1>8, <1>9, <1>10, <1>12, <1>13,
            <1>14, <1>17, <1>18, <1>19 DEF Step

\* The UPDATE of a rotation: the one active row stops being active and its
\* handler takes over the right to continue the family.
LEMMA CASLeaf ==
  ASSUME LInv, NEW w \in Workers, RotateCAS(w), TInv'
  PROVE  LInv'
<1> DEFINE s == job[w].sig
           q == job[w].req
<1>1. pc[w] = "rotcas" /\ s \in RefreshSigs /\ q \in Requests
  BY DEF RotateCAS, LInv, TInv, HandlerOK, SigPCs
<1>2. CASE Goto(w, "reread") /\ UNCHANGED <<refresh, job>>
  <2>1. HandlersKeep
    BY <1>1, <1>2, GotoKeeps DEF PCs, SigPCs
  <2> QED  BY <1>2, <2>1, LInvKept, SameRowsKeep DEF RotateCAS, history
<1>3. CASE /\ refresh[s].req # NoRequest /\ refresh[s].status = "active"
           /\ refresh' = [refresh EXCEPT ![s] = [@ EXCEPT !.status = "rotated",
                                                   !.rotatedAt = Cardinality(issued)]]
           /\ DeleteAccessThen(w, "mkaccess")
  <2>1. refresh[s].req = q
    BY <1>1, <1>3 DEF LInv, SigOfRequest, SigPCs
  <2>2. s \in ActiveRows(q)
    BY <1>1, <1>3, <2>1 DEF ActiveRows, RowsOf, GetStatus
  <2>3. /\ \A x \in RefreshSigs : x # s => refresh'[x] = refresh[x]
        /\ refresh'[s].req = q /\ refresh'[s].status = "rotated"
    BY <1>1, <1>3, <2>1 DEF RefreshRow, LInv, TInv, TypeOK
  <2>4. \A p \in Requests : /\ RowsOf(p)' = RowsOf(p)
                            /\ ActiveRows(p)' = ActiveRows(p) \ {s}
    BY <2>1, <2>3 DEF RowsOf, ActiveRows, GetStatus
  <2>5. \A v \in Workers : v # w => job'[v] = job[v] /\ pc'[v] = pc[v]
    BY <1>3 DEF DeleteAccessThen, Goto, LInv, TInv, TypeOK
  <2>6. pc'[w] = "accread" /\ job'[w].then = "mkaccess" /\ job'[w].req = q
    BY <1>3 DEF DeleteAccessThen, Goto, LInv, TInv, TypeOK, Job
  <2>7. /\ Winners(q) = {} /\ Winners(q)' = {w}
        /\ \A p \in Requests : p # q => Winners(p)' = Winners(p)
    <3>1. Winners(q) = {}
      BY <1>1, <2>2 DEF LInv, OneLeafAuthority
    <3>2. ~Won(w)
      BY <1>1 DEF Won
    <3> QED  BY <3>1, <3>2, <2>5, <2>6 DEF Winners, Won
  <2>8. OneLeafAuthority'
    <3> SUFFICES ASSUME NEW p \in Requests
                 PROVE  /\ \A x, y \in ActiveRows(p)' : x = y
                        /\ \A u, v \in Winners(p)' : u = v
                        /\ ActiveRows(p)' = {} \/ Winners(p)' = {}
      BY DEF OneLeafAuthority
    <3>1. CASE p = q
      <4>1. ActiveRows(p)' = ActiveRows(p) \ {s} /\ Winners(p)' = {w}
        BY <2>4, <2>6, <2>7, <3>1
      <4>2. s \in ActiveRows(p) /\ \A x, y \in ActiveRows(p) : x = y
        BY <2>2, <3>1 DEF LInv, OneLeafAuthority
      <4> QED  BY <4>1, <4>2
    <3>2. CASE p # q
      BY <2>4, <2>7, <3>2 DEF LInv, OneLeafAuthority
    <3> QED  BY <3>1, <3>2
  <2>9. RowsIssued' /\ UNCHANGED <<issued, codeAt>>
    BY <1>1, <1>3, <2>3 DEF RotateCAS, history, RowsIssued, LInv
  <2>10. SigOfRequest'
    BY <2>1, <2>3, <2>5, <2>6, <2>9 DEF SigOfRequest, SigPCs, LInv, TInv, HandlerOK
  <2>11. UnspentIsEmpty'
    BY <1>1, <2>2, <2>4, <2>7, <2>9 DEF UnspentIsEmpty, ActiveRows, LInv
  <2>12. AccessOnlyEnds'
    BY <2>5, <2>6 DEF AccessOnlyEnds, LInv
  <2> QED  BY <2>8, <2>9, <2>10, <2>11, <2>12 DEF LInv
<1> QED  BY <1>2, <1>3 DEF RotateCAS, CanRotate

LEMMA CreateAccessKeeps ==
  ASSUME LInv, NEW w \in Workers, CreateAccess(w)
  PROVE  Kept
<1>1. RowsKeep /\ UNCHANGED <<issued, codeAt>>
  BY SameRowsKeep DEF CreateAccess
<1>2. CASE \E r \in Replies : Reply(w, r)
  BY <1>1, <1>2, ReplyKeeps DEF Kept
<1>3. CASE /\ job[w].op # "accessonly" /\ Goto(w, "mkrefresh")
           /\ job' = [job EXCEPT ![w].cand = FreshAccess]
  <2>1. \A v \in Workers : v # w => job'[v] = job[v] /\ pc'[v] = pc[v]
    BY <1>3 DEF Goto, LInv, TInv, TypeOK
  <2>2. pc[w] = "mkaccess" /\ pc'[w] = "mkrefresh"
    BY <1>3 DEF CreateAccess, Goto, LInv, TInv, TypeOK
  <2>3. job'[w].op = job[w].op /\ job'[w].req = job[w].req
    BY <1>3 DEF LInv, TInv, TypeOK, Job
  <2>4. HandlersKeep
    BY <1>3, <2>1, <2>2, <2>3 DEF HandlersKeep, HandlerKeeps, Won, SigPCs, LInv, AccessOnlyEnds
  <2> QED  BY <1>1, <2>4 DEF Kept
<1> QED  BY <1>2, <1>3 DEF CreateAccess, Replies

\* The INSERT: the only winner of its request stores the only active row and
\* gives its right up.
LEMMA CreateRefreshLeaf ==
  ASSUME LInv, NEW w \in Workers, CreateRefresh(w), TInv'
  PROVE  LInv'
<1> SUFFICES ASSUME NEW q, q = job[w].req PROVE LInv'
  OBVIOUS
<1>1. pc[w] = "mkrefresh" /\ q \in Requests /\ Won(w)
  BY DEF CreateRefresh, Won, LInv, AccessOnlyEnds, TInv, HandlerOK
<1>2. PICK r : Reply(w, r)
  BY DEF CreateRefresh
<1>3. HandlersKeep
  BY <1>2, ReplyKeeps
<1>4. CASE UNCHANGED <<refresh, issued>>
  BY <1>3, <1>4, LInvKept, SameRowsKeep DEF CreateRefresh
<1>5. ASSUME NEW parent, NEW fam, NEW e,
             issued # RefreshSigs,
             refresh' = [refresh EXCEPT ![FreshRefresh] =
                [req |-> q, parent |-> parent, status |-> "active", rotatedAt |-> 0,
                 family |-> fam, exp |-> e]],
             issued' = issued \cup {FreshRefresh}
      PROVE  LInv'
  <2> SUFFICES ASSUME NEW f, f = FreshRefresh PROVE LInv'
    OBVIOUS
  <2>1. f \in RefreshSigs /\ f \notin issued
    BY <1>5 DEF FreshRefresh, LInv, TInv, TypeOK
  <2>2. refresh[f].req = NoRequest
    BY <2>1 DEF LInv, RowsIssued
  <2>3. /\ \A x \in RefreshSigs : x # f => refresh'[x] = refresh[x]
        /\ refresh'[f].req = q /\ refresh'[f].status = "active"
    BY <1>5, <2>1 DEF LInv, TInv, TypeOK
  <2>4. w \in Winners(q) /\ ActiveRows(q) = {} /\ Winners(q) = {w}
    <3>1. w \in Winners(q)
      BY <1>1 DEF Winners
    <3> QED  BY <1>1, <3>1 DEF LInv, OneLeafAuthority
  <2>5. /\ pc'[w] = "replied"
        /\ \A v \in Workers : v # w => job'[v] = job[v] /\ pc'[v] = pc[v]
    BY <1>2 DEF Reply, Goto, LInv, TInv, TypeOK
  <2>6. ~Won(w)'
    BY <2>5 DEF Won
  <2>7. \A p \in Requests : Winners(p)' = Winners(p) \ {w}
    BY <2>5, <2>6 DEF Winners, Won
  <2>8. \A p \in Requests : p # q => RowsOf(p)' = RowsOf(p) /\ ActiveRows(p)' = ActiveRows(p)
    BY <2>1, <2>2, <2>3, RequestsAssumption DEF RowsOf, ActiveRows, GetStatus
  <2>9. ActiveRows(q)' = {f}
    BY <2>1, <2>3, <2>4 DEF RowsOf, ActiveRows, GetStatus
  <2>10. OneLeafAuthority'
    <3> SUFFICES ASSUME NEW p \in Requests
                 PROVE  /\ \A x, y \in ActiveRows(p)' : x = y
                        /\ \A u, v \in Winners(p)' : u = v
                        /\ ActiveRows(p)' = {} \/ Winners(p)' = {}
      BY DEF OneLeafAuthority
    <3>1. CASE p = q
      BY <2>4, <2>7, <2>9, <3>1
    <3>2. CASE p # q
      BY <2>7, <2>8, <3>2 DEF LInv, OneLeafAuthority
    <3> QED  BY <3>1, <3>2
  <2>11. RowsIssued'
    BY <1>5, <2>3 DEF RowsIssued, LInv
  <2>12. SigOfRequest'
    BY <1>3, <1>5, <2>1, <2>3 DEF SigOfRequest, HandlersKeep, HandlerKeeps, LInv, TInv, HandlerOK
  <2>13. codeAt' = codeAt /\ codeAt[q] # -1
    BY <1>1, <2>4 DEF CreateRefresh, UnspentIsEmpty, LInv
  <2>14. UnspentIsEmpty'
    BY <2>7, <2>8, <2>13 DEF UnspentIsEmpty, LInv
  <2>15. AccessOnlyEnds'
    BY <1>3 DEF AccessOnlyEnds, HandlersKeep, HandlerKeeps
  <2> QED  BY <2>10, <2>11, <2>12, <2>14, <2>15 DEF LInv
<1>6. CASE issued # RefreshSigs /\ issued' = issued \cup {FreshRefresh} /\
           \E parent \in IF RowsOf(q) = {} THEN {NoSig} ELSE LatestRotated(q) :
             refresh' = [refresh EXCEPT ![FreshRefresh] =
               [req |-> q, parent |-> parent, status |-> "active", rotatedAt |-> 0,
                family |-> FamilyOf(parent), exp |-> job[w].since + RefreshLife]]
  <2>1. PICK parent : refresh' = [refresh EXCEPT ![FreshRefresh] =
               [req |-> q, parent |-> parent, status |-> "active", rotatedAt |-> 0,
                family |-> FamilyOf(parent), exp |-> job[w].since + RefreshLife]]
    BY <1>6
  <2>2. issued # RefreshSigs /\ issued' = issued \cup {FreshRefresh}
    BY <1>6
  <2> QED  BY <1>5, <2>1, <2>2
<1> QED  BY <1>4, <1>6 DEF CreateRefresh

\* What Begin does to the handlers: w alone starts, at p, with j.
LEMMA Begun ==
  ASSUME LInv, NEW w \in Workers, NEW p, NEW j \in Job, Begin(w, p, j)
  PROVE  /\ ~Won(w) /\ pc'[w] = p
         /\ job'[w].req = j.req /\ job'[w].sig = j.sig
         /\ job'[w].op = j.op /\ job'[w].then = j.then
         /\ \A v \in Workers : v # w => job'[v] = job[v] /\ pc'[v] = pc[v]
<1>1. pc[w] = "idle" /\ pc'[w] = p
  BY DEF Begin, Goto, LInv, TInv, TypeOK
<1>2. job' = [job EXCEPT ![w] = [j EXCEPT !.since = now, !.doomed = j.req \in dead]]
  BY DEF Begin
<1>3. \A b : job' = [job EXCEPT ![w] = [j EXCEPT !.since = now, !.doomed = b]] =>
         /\ job'[w].req = j.req /\ job'[w].sig = j.sig
         /\ job'[w].op = j.op /\ job'[w].then = j.then
  BY DEF LInv, TInv, TypeOK, Job
<1>4. \A v \in Workers : v # w => job'[v] = job[v] /\ pc'[v] = pc[v]
  BY <1>2 DEF Begin, Goto, LInv, TInv, TypeOK
<1> QED  BY <1>1, <1>2, <1>3, <1>4 DEF Won

\* A request arrives.
LEMMA ArriveLeaf ==
  ASSUME LInv, NEW w \in Workers, Arrive(w), TInv'
  PROVE  LInv'
<1> USE DEF history, store
<1>1. ASSUME NEW s \in RefreshSigs, NEW e \in {"refresh", "revoke", "check"}, PresentRefresh(w, s, e)
      PROVE  LInv'
  <2>1. s \in issued /\ refresh[s].req \in Requests
    BY <1>1 DEF PresentRefresh, RefreshRow, LInv, TInv, TypeOK
  <2> DEFINE j0 == [NoJob EXCEPT !.op = e, !.sig = s, !.req = refresh[s].req]
  <2>2. j0 \in Job /\ j0.req = refresh[s].req /\ j0.sig = s
    BY <2>1 DEF NoJob, Job, Ops, Replies
  <2>3. Begin(w, "gettomb", Snapshot(j0, s))
    BY <1>1 DEF PresentRefresh
  <2> HIDE DEF j0
  <2>4. Snapshot(j0, s) \in Job /\ Snapshot(j0, s).req = refresh[s].req /\ Snapshot(j0, s).sig = s
    BY <2>2, SnapshotTyped DEF LInv
  <2>5. /\ ~Won(w) /\ pc'[w] = "gettomb" /\ job'[w].req = refresh[s].req /\ job'[w].sig = s
        /\ \A v \in Workers : v # w => job'[v] = job[v] /\ pc'[v] = pc[v]
    BY <2>3, <2>4, Begun
  <2>6. UNCHANGED <<refresh, issued, codeAt>>
    BY <1>1 DEF PresentRefresh
  <2>7. \A q \in Requests : /\ Winners(q)' = Winners(q) /\ RowsOf(q)' = RowsOf(q)
                             /\ ActiveRows(q)' = ActiveRows(q)
    BY <2>5, <2>6 DEF Winners, Won, RowsOf, ActiveRows, GetStatus
  <2>8. SigOfRequest'
    BY <2>1, <2>5, <2>6 DEF SigOfRequest, LInv
  <2>9. RowsIssued' /\ AccessOnlyEnds'
    BY <2>5, <2>6 DEF RowsIssued, AccessOnlyEnds, LInv
  <2>10. UnspentIsEmpty' /\ OneLeafAuthority'
    BY <2>6, <2>7 DEF UnspentIsEmpty, OneLeafAuthority, LInv
  <2> QED  BY <2>8, <2>9, <2>10 DEF LInv
<1>2. ASSUME NEW j \in Job, NEW p, p \notin SigPCs \cup {"mkaccess", "mkrefresh"},
             p \in {"accread", "accdel"} => j.then # "mkaccess", Begin(w, p, j),
             UNCHANGED <<store, history, cron>>
      PROVE  LInv'
  <2>1. HandlersKeep
    BY <1>2, Begun DEF HandlersKeep, HandlerKeeps, Won, LInv, AccessOnlyEnds
  <2> QED  BY <1>2, <2>1, LInvKept, SameRowsKeep
<1>3. ASSUME NEW a \in AccessSigs, NEW e \in {"check", "revoke"}, PresentAccess(w, a, e)
      PROVE  LInv'
  <2>1. access[a].req \in Requests /\ access[a].exp \in Nat
    BY <1>3 DEF PresentAccess, AccessRow, LInv, TInv, TypeOK
  <2>2. [NoJob EXCEPT !.op = e, !.req = access[a].req, !.exp = access[a].exp] \in Job
    BY <2>1 DEF NoJob, Job, Ops, Replies
  <2> QED  BY <1>2, <1>3, <2>2 DEF PresentAccess, SigPCs
<1>4. ASSUME NEW q \in Requests, ReplayCode(w, q)
      PROVE  LInv'
  <2> DEFINE j == [NoJob EXCEPT !.op = "replay", !.req = q, !.then = "revcommit"]
  <2>1. j \in Job /\ j.then = "revcommit"
    BY DEF NoJob, Job, Ops, Replies
  <2>2. Begin(w, "accread", j) /\ UNCHANGED <<store, history, cron>>
    BY <1>4 DEF ReplayCode
  <2> HIDE DEF j
  <2> QED  BY <1>2, <2>1, <2>2 DEF SigPCs
<1>5. ASSUME NEW q \in Requests, NEW k \in {"exchange", "accessonly"}, Exchange(w, q, k)
      PROVE  LInv'
  <2> DEFINE j == [NoJob EXCEPT !.op = k, !.req = q]
  <2>1. j \in Job /\ j.req = q
    BY DEF NoJob, Job, Ops, Replies
  <2>2. Begin(w, "mkaccess", j) /\ codeAt[q] = -1 /\ UNCHANGED <<refresh, issued>>
    BY <1>5 DEF Exchange
  <2> HIDE DEF j
  <2>3. /\ ~Won(w) /\ pc'[w] = "mkaccess" /\ job'[w].req = q
        /\ \A v \in Workers : v # w => job'[v] = job[v] /\ pc'[v] = pc[v]
    BY <2>1, <2>2, Begun
  <2>4. \A p \in Requests : RowsOf(p)' = RowsOf(p) /\ ActiveRows(p)' = ActiveRows(p)
    BY <2>2 DEF RowsOf, ActiveRows, GetStatus
  <2>w. \A p \in Requests : p # q => Winners(p)' = Winners(p)
    BY <2>3 DEF Winners, Won
  <2>5. RowsOf(q) = {} /\ Winners(q) = {}
    BY <2>2 DEF UnspentIsEmpty, LInv
  <2>6. ActiveRows(q)' = {} /\ Winners(q)' \subseteq {w}
    <3>1. ActiveRows(q) = {}
      BY <2>5 DEF ActiveRows
    <3>2. ASSUME NEW v \in Winners(q)' PROVE v = w
      <4>1. v \in Workers /\ (v # w => v \in Winners(q))
        BY <2>3 DEF Winners, Won
      <4> QED  BY <2>5, <4>1
    <3> QED  BY <2>4, <3>1, <3>2
  <2>7. OneLeafAuthority'
    <3> SUFFICES ASSUME NEW p \in Requests
                 PROVE  /\ \A x, y \in ActiveRows(p)' : x = y
                        /\ \A u, v \in Winners(p)' : u = v
                        /\ ActiveRows(p)' = {} \/ Winners(p)' = {}
      BY DEF OneLeafAuthority
    <3>1. CASE p = q
      BY <2>6, <3>1
    <3>2. CASE p # q
      BY <2>4, <2>w, <3>2 DEF LInv, OneLeafAuthority
    <3> QED  BY <3>1, <3>2
  <2>8. /\ \A p \in Requests : p # q => codeAt'[p] = codeAt[p]
        /\ codeAt'[q] # -1
    BY <1>5 DEF Exchange, LInv, TInv, TypeOK
  <2>9. UnspentIsEmpty'
    <3> SUFFICES ASSUME NEW p \in Requests, codeAt'[p] = -1
                 PROVE  RowsOf(p)' = {} /\ Winners(p)' = {}
      BY DEF UnspentIsEmpty
    <3>1. p # q /\ codeAt[p] = -1
      BY <2>8
    <3> QED  BY <2>4, <2>w, <3>1 DEF UnspentIsEmpty, LInv
  <2>10. SigOfRequest' /\ RowsIssued' /\ AccessOnlyEnds'
    BY <2>2, <2>3 DEF SigOfRequest, RowsIssued, AccessOnlyEnds, SigPCs, LInv
  <2> QED  BY <2>7, <2>9, <2>10 DEF LInv
<1> QED  BY <1>1, <1>3, <1>4, <1>5 DEF Arrive

LEMMA LeafInit == Init => LInv
<1> SUFFICES ASSUME Init PROVE LInv
  OBVIOUS
<1>1. PICK legacy \in [LegacyRequests -> RefreshSigs] :
        /\ issued = {legacy[q] : q \in LegacyRequests}
        /\ refresh = [s \in RefreshSigs |->
             IF s \in issued
             THEN [NoRefreshRow EXCEPT !.req = CHOOSE q \in LegacyRequests : legacy[q] = s,
                                       !.exp = RefreshLife]
             ELSE NoRefreshRow]
  BY DEF Init
<1>2. \A w \in Workers : pc[w] = "idle"
  BY DEF Init
<1>3. \A q \in Requests : codeAt[q] = -1 => q \notin LegacyRequests
  <2>1. codeAt = [q \in Requests |-> IF q \in LegacyRequests THEN 0 ELSE -1]
    BY DEF Init
  <2> QED  BY <2>1
<1>4. ASSUME NEW s \in RefreshSigs, refresh[s].req # NoRequest
      PROVE  s \in issued /\ refresh[s].req \in LegacyRequests /\ legacy[refresh[s].req] = s
  <2> DEFINE c == CHOOSE q \in LegacyRequests : legacy[q] = s
  <2>1. s \in issued
    BY <1>1, <1>4 DEF NoRefreshRow
  <2>2. c \in LegacyRequests /\ legacy[c] = s
    BY <1>1, <2>1
  <2>3. refresh[s] = [NoRefreshRow EXCEPT !.req = c, !.exp = RefreshLife]
    BY <1>1, <2>1
  <2> HIDE DEF c
  <2>4. refresh[s].req = c
    BY <2>3 DEF NoRefreshRow
  <2> QED  BY <2>1, <2>2, <2>4
<1>5. RowsIssued
  BY <1>4 DEF RowsIssued
<1>6. \A q \in Requests : Winners(q) = {}
  BY <1>2 DEF Winners, Won
<1>7. \A q \in Requests : \A s \in RowsOf(q) : q \in LegacyRequests /\ s = legacy[q]
  BY <1>4, RequestsAssumption DEF RowsOf
<1>8. UnspentIsEmpty /\ OneLeafAuthority
  BY <1>3, <1>6, <1>7 DEF UnspentIsEmpty, OneLeafAuthority, ActiveRows
<1>9. SigOfRequest /\ AccessOnlyEnds
  BY <1>2 DEF SigOfRequest, AccessOnlyEnds, SigPCs
<1> QED  BY <1>5, <1>8, <1>9, TypeInit DEF LInv

LEMMA LeafNext == LInv /\ [Next]_vars => LInv'
<1> SUFFICES ASSUME LInv, [Next]_vars PROVE LInv'
  OBVIOUS
<1>t. TInv'
  BY TypeNext DEF LInv
<1> USE DEF history, store
<1>0. Kept => LInv'
  BY <1>t, LInvKept DEF Kept
<1>1. ASSUME NEW w \in Workers, Arrive(w) PROVE LInv'
  BY <1>1, <1>t, ArriveLeaf
<1>2. ASSUME NEW w \in Workers, Step(w) PROVE LInv'
  <2>1. CASE RotateCAS(w)
    BY <2>1, <1>t, CASLeaf
  <2>2. CASE CreateAccess(w)
    BY <2>2, <1>0, CreateAccessKeeps
  <2>3. CASE CreateRefresh(w)
    BY <2>3, <1>t, CreateRefreshLeaf
  <2> QED  BY <1>0, <1>2, <2>1, <2>2, <2>3, StepKeeps
<1>3. ASSUME NEW w \in Workers, AccessFault(w) PROVE LInv'
  <2>1. HandlersKeep
    BY <1>3, AfterAccessKeeps DEF AccessFault
  <2> QED  BY <1>0, <1>3, <2>1, SameRowsKeep DEF AccessFault, Kept
<1>4. ASSUME NEW w \in Workers, Abort(w) PROVE LInv'
  <2>1. /\ pc'[w] = "idle"
        /\ \A v \in Workers : v # w => job'[v] = job[v] /\ pc'[v] = pc[v]
    BY <1>4 DEF Abort, Goto, LInv, TInv, TypeOK
  <2>2. HandlersKeep
    BY <2>1 DEF HandlersKeep, HandlerKeeps, Won, SigPCs, LInv, AccessOnlyEnds
  <2> QED  BY <1>0, <1>4, <2>2, SameRowsKeep DEF Abort, Kept
<1>h. UNCHANGED <<pc, job>> => HandlersKeep
  BY DEF HandlersKeep, HandlerKeeps, Won, LInv, AccessOnlyEnds
<1>5. CASE CleanUp
  <2>1. UNCHANGED <<pc, job, issued, codeAt>>
    BY <1>5 DEF CleanUp, CronStart, CronQueryRefresh, CronQueryTombs, CronEnd,
                CronAccess, CronRefresh, CronTomb
  <2>2. RowsKeep
    BY <1>5, SameRowsKeep, WithoutKeeps
       DEF CleanUp, CronStart, CronQueryRefresh, CronQueryTombs, CronEnd,
           CronAccess, CronRefresh, CronTomb
  <2> QED  BY <1>0, <1>h, <2>1, <2>2 DEF Kept
<1>6. CASE Tick
  BY <1>0, <1>h, <1>6, SameRowsKeep DEF Tick, Kept
<1>7. CASE UNCHANGED vars
  BY <1>0, <1>h, <1>7, SameRowsKeep DEF vars, Kept
<1> QED  BY <1>1, <1>2, <1>3, <1>4, <1>5, <1>6, <1>7 DEF Next, Handlers

\* However many handlers present the same refresh token, at most one continues
\* the family: the conditional UPDATE of markRefreshRotated and the checks of
\* resolveRefreshLineage leave one active row or one winner per request.
THEOREM OneLeaf == Spec => []OneLeafAuthority
<1>1. LInv => OneLeafAuthority
  BY DEF LInv
<1> QED  BY <1>1, LeafInit, LeafNext, PTL DEF Spec

-----------------------------------------------------------------------------
(***************************************************************************)
(* Part 2, the rows: a spent token stays spent, a token has one successor, *)
(* and a family belongs to one request.                                    *)
(***************************************************************************)

\* What a step does to the refresh rows: most leave a row, delete it or condemn
\* it, the UPDATE of a rotation spends one row, and an INSERT stores a fresh one.
RowStep(s) ==
  \/ refresh'[s] = refresh[s]
  \/ refresh'[s] = NoRefreshRow
  \/ \E st \in Terminal : refresh'[s] = [refresh[s] EXCEPT !.status = st]
TableKeeps == UNCHANGED issued /\ \A s \in RefreshSigs : RowStep(s)

Spends(s) ==
  /\ CanRotate(s)
  /\ refresh' = [refresh EXCEPT ![s] = [@ EXCEPT !.status = "rotated",
                                                 !.rotatedAt = Cardinality(issued)]]
  /\ UNCHANGED issued

Stores(w, parent) ==
  LET q == job[w].req IN
  /\ pc[w] = "mkrefresh"
  /\ ~LineageTerminal(q) /\ ~LineageCorrupt(q) /\ ~LineageActive(q)
  /\ issued # RefreshSigs
  /\ parent \in IF RowsOf(q) = {} THEN {NoSig} ELSE LatestRotated(q)
  /\ refresh' = [refresh EXCEPT ![FreshRefresh] =
       [req |-> q, parent |-> parent, status |-> "active", rotatedAt |-> 0,
        family |-> FamilyOf(parent), exp |-> job[w].since + RefreshLife]]
  /\ issued' = issued \cup {FreshRefresh}

LEMMA WithoutRows ==
  ASSUME NEW S, refresh' = RefreshWithout(S)
  PROVE  \A s \in RefreshSigs : RowStep(s)
BY DEF RowStep, RefreshWithout

LEMMA SameRows == ASSUME UNCHANGED refresh PROVE \A s \in RefreshSigs : RowStep(s)
BY DEF RowStep

LEMMA MutateRows ==
  ASSUME NEW rows, NEW st \in Terminal, MutateFamily(rows, st)
  PROVE  UNCHANGED issued /\ \A s \in RefreshSigs : RowStep(s)
BY DEF MutateFamily, RowStep, history

LEMMA InvalidateRows ==
  ASSUME NEW j, Invalidate(j)
  PROVE  UNCHANGED issued /\ \A s \in RefreshSigs : RowStep(s)
<1>1. "reused" \in Terminal  BY DEF Terminal
<1> QED  BY <1>1, MutateRows DEF Invalidate

LEMMA StepTable ==
  ASSUME NEW w \in Workers, Step(w), ~RotateCAS(w), ~CreateRefresh(w)
  PROVE  TableKeeps
<1> USE DEF history, store, TableKeeps
<1>1. CASE GetTomb(w)       BY <1>1, SameRows DEF GetTomb
<1>2. CASE GetCommit(w)     BY <1>2, SameRows DEF GetCommit, CommitTerminal
<1>3. CASE GetFamily(w)     BY <1>3, SameRows, InvalidateRows DEF GetFamily
<1>4. CASE DeleteFind(w)    BY <1>4, SameRows DEF DeleteFind
<1>5. CASE DeleteRow(w)     BY <1>5, WithoutRows DEF DeleteRow
<1>6. CASE RevokeCommit(w)  BY <1>6, SameRows DEF RevokeCommit, CommitTerminal
<1>7. CASE RevokeFamily(w)
  BY <1>7, SameRows, MutateRows DEF RevokeFamily, Terminal
<1>8. CASE AccessRead(w)    BY <1>8, SameRows DEF AccessRead
<1>9. CASE AccessDelete(w)  BY <1>9, SameRows DEF AccessDelete
<1>10. CASE RotateTomb(w)   BY <1>10, SameRows DEF RotateTomb
<1>11. CASE RotateReread(w) BY <1>11, SameRows DEF RotateReread
<1>12. CASE RotateCommit(w) BY <1>12, SameRows DEF RotateCommit, CommitTerminal
<1>13. CASE RotateFamily(w) BY <1>13, SameRows, InvalidateRows DEF RotateFamily
<1>14. CASE CreateAccess(w) BY <1>14, SameRows DEF CreateAccess
<1>15. CASE CheckTomb(w)    BY <1>15, SameRows DEF CheckTomb
<1>16. CASE CheckRows(w)    BY <1>16, SameRows DEF CheckRows
<1>17. CASE Finish(w)       BY <1>17, SameRows DEF Finish
<1> QED  BY <1>1, <1>2, <1>3, <1>4, <1>5, <1>6, <1>7, <1>8, <1>9, <1>10, <1>11, <1>12,
            <1>13, <1>14, <1>15, <1>16, <1>17 DEF Step

LEMMA NextTable ==
  ASSUME LInv, [Next]_vars
  PROVE  \/ TableKeeps
         \/ \E s \in RefreshSigs : Spends(s)
         \/ \E w \in Workers : \E parent : Stores(w, parent)
<1> USE DEF history, store
<1>1. ASSUME NEW w \in Workers, Arrive(w) PROVE TableKeeps
  BY <1>1, SameRows DEF Arrive, PresentRefresh, PresentAccess, Exchange, ReplayCode, TableKeeps
<1>2. ASSUME NEW w \in Workers, RotateCAS(w) PROVE TableKeeps \/ \E s \in RefreshSigs : Spends(s)
  <2>1. job[w].sig \in RefreshSigs
    BY <1>2 DEF RotateCAS, SigPCs, LInv, TInv, HandlerOK
  <2> QED  BY <1>2, <2>1, SameRows DEF RotateCAS, Spends, TableKeeps
<1>3. ASSUME NEW w \in Workers, CreateRefresh(w) PROVE TableKeeps \/ \E parent : Stores(w, parent)
  BY <1>3, SameRows DEF CreateRefresh, Stores, TableKeeps
<1>4. ASSUME NEW w \in Workers, AccessFault(w) \/ Abort(w) PROVE TableKeeps
  BY <1>4, SameRows DEF AccessFault, Abort, TableKeeps
<1>5. CASE CleanUp
  BY <1>5, SameRows, WithoutRows
     DEF CleanUp, CronStart, CronQueryRefresh, CronQueryTombs, CronEnd,
         CronAccess, CronRefresh, CronTomb, TableKeeps
<1>6. CASE Tick \/ UNCHANGED vars
  BY <1>6, SameRows DEF Tick, vars, TableKeeps
<1> QED  BY <1>1, <1>2, <1>3, <1>4, <1>5, <1>6, StepTable DEF Next, Handlers

\* An INSERT changes the row of one fresh signature, which had none.
LEMMA Stored ==
  ASSUME LInv, NEW w \in Workers, NEW parent, Stores(w, parent)
  PROVE  LET f == FreshRefresh IN
         /\ f \in RefreshSigs /\ f \notin issued /\ refresh[f].req = NoRequest
         /\ refresh'[f].req = job[w].req /\ refresh'[f].parent = parent
         /\ refresh'[f].status = "active" /\ refresh'[f].rotatedAt = 0
         /\ refresh'[f].family = FamilyOf(parent)
         /\ refresh'[f].exp = job[w].since + RefreshLife
         /\ \A s \in RefreshSigs : s # f => refresh'[s] = refresh[s]
         /\ issued' = issued \cup {f} /\ job[w].req \in Requests
<1>1. FreshRefresh \in RefreshSigs /\ FreshRefresh \notin issued
  BY DEF Stores, FreshRefresh, LInv, TInv, TypeOK
<1>2. refresh'[FreshRefresh] =
        [req |-> job[w].req, parent |-> parent, status |-> "active", rotatedAt |-> 0,
         family |-> FamilyOf(parent), exp |-> job[w].since + RefreshLife]
  BY <1>1 DEF Stores, LInv, TInv, TypeOK
<1>3. \A s \in RefreshSigs : s # FreshRefresh => refresh'[s] = refresh[s]
  BY DEF Stores, LInv, TInv, TypeOK
<1> QED  BY <1>1, <1>2, <1>3 DEF Stores, LInv, RowsIssued, TInv, TypeOK, HandlerOK

-----------------------------------------------------------------------------
\* A spent refresh token never works again (the WHERE clause of
\* markRefreshRotated and the terminal states of storage_session_model.go).
THEOREM Spent == Spec => SpentStaysSpent
<1> DEFINE P(s) == refresh[s].req # NoRequest /\ refresh'[s].req # NoRequest =>
                     /\ GetStatus(s) # "active" => GetStatus(s)' # "active"
                     /\ GetStatus(s) \in Terminal => GetStatus(s)' \in Terminal
<1>1. ASSUME LInv, [Next]_vars, NEW s \in RefreshSigs PROVE P(s)
  <2>r. refresh[s] \in RefreshRow
    BY <1>1 DEF LInv, TInv, TypeOK
  <2>1. CASE TableKeeps
    <3>1. CASE refresh'[s] = refresh[s]
      BY <3>1 DEF GetStatus
    <3>2. CASE refresh'[s] = NoRefreshRow
      BY <3>2 DEF NoRefreshRow
    <3>3. ASSUME NEW st \in Terminal, refresh'[s] = [refresh[s] EXCEPT !.status = st]
          PROVE  P(s)
      <4>1. refresh'[s].status = st
        BY <2>r, <3>3 DEF RefreshRow
      <4> QED  BY <4>1 DEF GetStatus, Terminal
    <3> QED  BY <2>1, <3>1, <3>2, <3>3 DEF TableKeeps, RowStep
  <2>2. ASSUME NEW t \in RefreshSigs, Spends(t) PROVE P(s)
    <3>1. CASE s = t
      BY <2>2, <3>1 DEF Spends, CanRotate, GetStatus, Terminal
    <3>2. CASE s # t
      BY <1>1, <2>2, <3>2 DEF Spends, GetStatus, LInv, TInv, TypeOK
    <3> QED  BY <3>1, <3>2
  <2>3. ASSUME NEW w \in Workers, NEW parent, Stores(w, parent) PROVE P(s)
    BY <1>1, <2>3, Stored DEF GetStatus
  <2> QED  BY <1>1, <2>1, <2>2, <2>3, NextTable
<1>2. ASSUME LInv, [Next]_vars
      PROVE  [\A s \in RefreshSigs : P(s)]_vars
  BY <1>1, <1>2
<1> QED  BY <1>2, LeafInit, LeafNext, PTL DEF Spec, SpentStaysSpent

-----------------------------------------------------------------------------
\* A token has one successor.

\* A row is younger than its parent: the parent was issued and, while its row
\* lasts, belongs to the same request, is spent, and was spent before the row.
ChildOf(t, p) ==
  /\ p \in issued
  /\ refresh[p].req # NoRequest =>
       /\ refresh[p].req = refresh[t].req
       /\ GetStatus(p) # "active"
       /\ refresh[p].rotatedAt < Cardinality(issued)
       /\ GetStatus(t) = "rotated" => refresh[p].rotatedAt < refresh[t].rotatedAt
Descends ==
  \A t \in RefreshSigs : refresh[t].req # NoRequest =>
    /\ refresh[t].rotatedAt <= Cardinality(issued)
    /\ refresh[t].parent # NoSig => ChildOf(t, refresh[t].parent)

ForkInv == LInv /\ Descends /\ NoFork

\* A row after a step that only deletes and condemns.
LEMMA RowAfter ==
  ASSUME LInv, TableKeeps, NEW s \in RefreshSigs, refresh'[s].req # NoRequest
  PROVE  /\ refresh'[s].req = refresh[s].req /\ refresh'[s].parent = refresh[s].parent
         /\ refresh'[s].rotatedAt = refresh[s].rotatedAt
         /\ refresh'[s].family = refresh[s].family /\ refresh'[s].exp = refresh[s].exp
         /\ GetStatus(s)' \in {GetStatus(s)} \cup Terminal
<1>r. refresh[s] \in RefreshRow
  BY DEF LInv, TInv, TypeOK
<1>1. CASE refresh'[s] = refresh[s]
  BY <1>1 DEF GetStatus
<1>2. ASSUME NEW st \in Terminal, refresh'[s] = [refresh[s] EXCEPT !.status = st]
      PROVE  /\ refresh'[s].status = st
             /\ refresh'[s].req = refresh[s].req /\ refresh'[s].parent = refresh[s].parent
             /\ refresh'[s].rotatedAt = refresh[s].rotatedAt
             /\ refresh'[s].family = refresh[s].family /\ refresh'[s].exp = refresh[s].exp
  BY <1>r, <1>2 DEF RefreshRow
<1>3. refresh'[s] # NoRefreshRow
  BY DEF NoRefreshRow
<1> QED  BY <1>1, <1>2, <1>3 DEF TableKeeps, RowStep, GetStatus, Terminal

\* A spent row is not active and keeps all but its status and its time.
LEMMA SpentRow ==
  ASSUME LInv, NEW s \in RefreshSigs, Spends(s)
  PROVE  /\ GetStatus(s) = "active" /\ refresh[s].req # NoRequest
         /\ GetStatus(s)' = "rotated" /\ refresh'[s].rotatedAt = Cardinality(issued)
         /\ refresh'[s].req = refresh[s].req /\ refresh'[s].parent = refresh[s].parent
         /\ refresh'[s].family = refresh[s].family /\ refresh'[s].exp = refresh[s].exp
         /\ \A t \in RefreshSigs : t # s => refresh'[t] = refresh[t] /\ GetStatus(t)' = GetStatus(t)
<1>1. refresh[s] \in RefreshRow
  BY DEF LInv, TInv, TypeOK
<1>2. refresh'[s] = [refresh[s] EXCEPT !.status = "rotated", !.rotatedAt = Cardinality(issued)]
  BY DEF Spends, LInv, TInv, TypeOK
<1>3. \A t \in RefreshSigs : t # s => refresh'[t] = refresh[t]
  BY DEF Spends, LInv, TInv, TypeOK
<1>4. refresh[s].status = "active" /\ refresh[s].req # NoRequest
  BY DEF Spends, CanRotate
<1>5. /\ refresh'[s].status = "rotated" /\ refresh'[s].rotatedAt = Cardinality(issued)
      /\ refresh'[s].req = refresh[s].req /\ refresh'[s].parent = refresh[s].parent
      /\ refresh'[s].family = refresh[s].family /\ refresh'[s].exp = refresh[s].exp
  BY <1>1, <1>2 DEF RefreshRow
<1> QED  BY <1>3, <1>4, <1>5 DEF GetStatus

LEMMA IssuedCount ==
  ASSUME LInv
  PROVE  /\ Cardinality(issued) \in Nat
         /\ \A s \in RefreshSigs : s \notin issued =>
              Cardinality(issued \cup {s}) = Cardinality(issued) + 1
<1>1. IsFiniteSet(issued)
  BY SigsAssumption, FS_Subset DEF LInv, TInv, TypeOK
<1> QED  BY <1>1, FS_CardinalityType, FS_AddElement

\* The lineage that resolveRefreshLineage lets through is rotated throughout.
LEMMA RotatedLineage ==
  ASSUME LInv, NEW w \in Workers, NEW parent, Stores(w, parent),
         NEW s \in RowsOf(job[w].req)
  PROVE  GetStatus(s) = "rotated"
<1>1. refresh[s] \in RefreshRow
  BY DEF RowsOf, LInv, TInv, TypeOK
<1>2. GetStatus(s) \notin Terminal /\ GetStatus(s) # "active"
  BY DEF Stores, LineageTerminal, LineageActive
<1> QED  BY <1>1, <1>2 DEF GetStatus, RefreshRow, Statuses, Terminal

LEMMA ForkKept ==
  ASSUME ForkInv, TableKeeps, LInv'
  PROVE  ForkInv'
<1>1. ASSUME NEW t \in RefreshSigs, refresh'[t].req # NoRequest
      PROVE  /\ refresh'[t].rotatedAt <= Cardinality(issued')
             /\ refresh'[t].parent # NoSig => ChildOf(t, refresh[t].parent)'
  <2> SUFFICES ASSUME NEW p, p = refresh[t].parent
               PROVE  /\ refresh'[t].rotatedAt <= Cardinality(issued')
                      /\ refresh'[t].parent # NoSig => ChildOf(t, refresh[t].parent)'
    OBVIOUS
  <2>1. /\ refresh[t].req # NoRequest /\ refresh'[t].req = refresh[t].req
        /\ refresh'[t].parent = p /\ refresh'[t].rotatedAt = refresh[t].rotatedAt
        /\ GetStatus(t)' \in {GetStatus(t)} \cup Terminal
    BY <1>1, RowAfter DEF ForkInv
  <2>2. issued' = issued
    BY DEF TableKeeps
  <2>3. p # NoSig => ChildOf(t, p)
    BY <2>1 DEF ForkInv, Descends
  <2>4. ASSUME p # NoSig, refresh'[p].req # NoRequest
        PROVE  /\ refresh'[p].req = refresh[p].req /\ refresh[p].req # NoRequest
               /\ refresh'[p].rotatedAt = refresh[p].rotatedAt
               /\ GetStatus(p)' \in {GetStatus(p)} \cup Terminal
    <3>1. p \in RefreshSigs
      BY <2>3, <2>4 DEF ChildOf, ForkInv, LInv, TInv, TypeOK
    <3> QED  BY <2>4, <3>1, RowAfter DEF ForkInv
  <2>5. refresh'[t].rotatedAt <= Cardinality(issued')
    BY <2>1, <2>2 DEF ForkInv, Descends
  <2> QED  BY <2>1, <2>2, <2>3, <2>4, <2>5 DEF ChildOf, Terminal
<1>2. Descends'
  BY <1>1 DEF Descends
<1>3. NoFork'
  BY RowAfter DEF NoFork, ForkInv
<1> QED  BY <1>2, <1>3 DEF ForkInv

LEMMA ForkSpends ==
  ASSUME ForkInv, NEW s \in RefreshSigs, Spends(s), LInv'
  PROVE  ForkInv'
<1>s. LInv
  BY DEF ForkInv
<1>1. /\ GetStatus(s) = "active" /\ refresh[s].req # NoRequest
      /\ refresh'[s].rotatedAt = Cardinality(issued)
      /\ refresh'[s].req = refresh[s].req /\ refresh'[s].parent = refresh[s].parent
      /\ \A t \in RefreshSigs : t # s => refresh'[t] = refresh[t] /\ GetStatus(t)' = GetStatus(t)
  BY <1>s, SpentRow
<1>2. issued' = issued /\ Cardinality(issued) \in Nat
  BY <1>s, IssuedCount DEF Spends
<1>3. ASSUME NEW t \in RefreshSigs, refresh'[t].req # NoRequest
      PROVE  /\ refresh'[t].rotatedAt <= Cardinality(issued')
             /\ refresh'[t].parent # NoSig => ChildOf(t, refresh[t].parent)'
  <2> SUFFICES ASSUME NEW p, p = refresh[t].parent
               PROVE  /\ refresh'[t].rotatedAt <= Cardinality(issued')
                      /\ refresh'[t].parent # NoSig => ChildOf(t, refresh[t].parent)'
    OBVIOUS
  <2>1. refresh[t].req # NoRequest /\ refresh'[t].parent = p /\ refresh'[t].req = refresh[t].req
    BY <1>1, <1>3
  <2>2. refresh'[t].rotatedAt <= Cardinality(issued')
    BY <1>1, <1>2, <2>1 DEF ForkInv, Descends
  <2>3. ASSUME p # NoSig PROVE ChildOf(t, p)'
    <3>1. ChildOf(t, p) /\ p \in RefreshSigs
      BY <2>1, <2>3 DEF ForkInv, Descends, ChildOf, LInv, TInv, TypeOK
    <3>2. refresh[p].req # NoRequest => p # s
      BY <1>1, <3>1 DEF ChildOf
    <3>3. CASE refresh[p].req = NoRequest
      BY <1>1, <1>2, <3>1, <3>3 DEF ChildOf
    <3>4. CASE refresh[p].req # NoRequest
      <4>1. p # s /\ refresh'[p] = refresh[p] /\ GetStatus(p)' = GetStatus(p)
        BY <1>1, <3>1, <3>2, <3>4
      <4>2. GetStatus(t)' = "rotated" => refresh'[p].rotatedAt < refresh'[t].rotatedAt
        BY <1>1, <3>1, <3>4, <4>1 DEF ChildOf
      <4> QED  BY <1>2, <2>1, <3>1, <4>1, <4>2 DEF ChildOf
    <3> QED  BY <3>3, <3>4
  <2> QED  BY <2>1, <2>2, <2>3
<1>4. Descends'
  BY <1>3 DEF Descends
<1>5. NoFork'
  BY <1>1 DEF NoFork, ForkInv
<1> QED  BY <1>4, <1>5 DEF ForkInv

LEMMA ForkStores ==
  ASSUME ForkInv, NEW w \in Workers, NEW parent, Stores(w, parent), LInv'
  PROVE  ForkInv'
<1> DEFINE q == job[w].req
<1> SUFFICES ASSUME NEW f, f = FreshRefresh PROVE ForkInv'
  OBVIOUS
<1>l. LInv
  BY DEF ForkInv
<1>1. /\ f \in RefreshSigs /\ f \notin issued /\ refresh[f].req = NoRequest
      /\ refresh'[f].req = q /\ refresh'[f].parent = parent /\ refresh'[f].rotatedAt = 0
      /\ refresh'[f].status = "active"
      /\ \A s \in RefreshSigs : s # f => refresh'[s] = refresh[s]
      /\ issued' = issued \cup {f} /\ q \in Requests
  BY <1>l, Stored
<1>2. Cardinality(issued) \in Nat /\ Cardinality(issued') = Cardinality(issued) + 1
  BY <1>l, <1>1, IssuedCount
<1>3. /\ GetStatus(f)' = "active"
      /\ \A s \in RefreshSigs : s # f => GetStatus(s)' = GetStatus(s)
  BY <1>1 DEF GetStatus
<1>4. parent # NoSig =>
        /\ parent \in RowsOf(q) /\ parent \in RefreshSigs /\ parent # f /\ parent \in issued
        /\ refresh[parent].req = q /\ refresh[parent].req # NoRequest
        /\ GetStatus(parent) = "rotated"
        /\ \A t \in RowsOf(q) : refresh[t].rotatedAt <= refresh[parent].rotatedAt
  <2>1. parent # NoSig => /\ parent \in RowsOf(q)
                          /\ \A t \in RowsOf(q) : refresh[t].rotatedAt <= refresh[parent].rotatedAt
    BY DEF Stores, LatestRotated
  <2>2. parent \in RowsOf(q) => /\ parent \in RefreshSigs /\ refresh[parent].req = q
                                /\ refresh[parent].req # NoRequest /\ parent \in issued
    BY <1>l, <1>1, RequestsAssumption DEF RowsOf, LInv, RowsIssued
  <2> QED  BY <1>l, <1>1, <2>1, <2>2, RotatedLineage
<1>5. ASSUME NEW t \in RefreshSigs, refresh'[t].req # NoRequest
      PROVE  /\ refresh'[t].rotatedAt <= Cardinality(issued')
             /\ refresh'[t].parent # NoSig => ChildOf(t, refresh[t].parent)'
  <2>1. CASE t = f
    <3>1. ASSUME parent # NoSig PROVE ChildOf(f, parent)'
      <4>1. refresh'[parent] = refresh[parent] /\ GetStatus(parent)' = "rotated"
        BY <1>1, <1>3, <1>4, <3>1
      <4>2. refresh[parent].rotatedAt <= Cardinality(issued) /\ refresh[parent].rotatedAt \in Nat
        BY <1>4, <3>1 DEF ForkInv, Descends, LInv, TInv, TypeOK, RefreshRow
      <4> QED  BY <1>1, <1>2, <1>3, <1>4, <3>1, <4>1, <4>2 DEF ChildOf
    <3> QED  BY <1>1, <1>2, <2>1, <3>1
  <2>2. CASE t # f
    <3> SUFFICES ASSUME NEW p, p = refresh[t].parent
                 PROVE  /\ refresh'[t].rotatedAt <= Cardinality(issued')
                        /\ refresh'[t].parent # NoSig => ChildOf(t, refresh[t].parent)'
      OBVIOUS
    <3>1. refresh'[t] = refresh[t] /\ GetStatus(t)' = GetStatus(t)
      BY <1>1, <1>3, <2>2
    <3>2. refresh[t].rotatedAt \in Nat /\ refresh[t].rotatedAt <= Cardinality(issued)
      BY <1>5, <3>1 DEF ForkInv, Descends, LInv, TInv, TypeOK, RefreshRow
    <3>3. ASSUME p # NoSig PROVE ChildOf(t, p)'
      <4>1. ChildOf(t, p) /\ p \in RefreshSigs /\ p # f
        BY <1>1, <1>5, <3>1, <3>3 DEF ForkInv, Descends, ChildOf, LInv, TInv, TypeOK
      <4>2. refresh'[p] = refresh[p] /\ GetStatus(p)' = GetStatus(p) /\ refresh[p].rotatedAt \in Nat
        BY <1>1, <1>3, <4>1 DEF ForkInv, LInv, TInv, TypeOK, RefreshRow
      <4> QED  BY <1>1, <1>2, <3>1, <4>1, <4>2 DEF ChildOf
    <3> QED  BY <1>2, <3>1, <3>2, <3>3
  <2> QED  BY <2>1, <2>2
<1>6. Descends'
  BY <1>5 DEF Descends
\* An older child of the parent would be rotated after it.
<1>7. ASSUME NEW t \in RefreshSigs, refresh[t].req # NoRequest, refresh[t].parent = parent,
             parent # NoSig
      PROVE  FALSE
  <2>1. ChildOf(t, parent)
    BY <1>7 DEF ForkInv, Descends
  <2>2. t \in RowsOf(q)
    BY <1>4, <1>7, <2>1 DEF ChildOf, RowsOf
  <2>3. GetStatus(t) = "rotated"
    BY <1>l, <2>2, RotatedLineage
  <2>4. refresh[parent].rotatedAt < refresh[t].rotatedAt
    BY <1>4, <1>7, <2>1, <2>3 DEF ChildOf
  <2>5. refresh[parent].rotatedAt \in Nat /\ refresh[t].rotatedAt \in Nat
    BY <1>l, <1>4, <1>7 DEF LInv, TInv, TypeOK, RefreshRow
  <2> QED  BY <1>4, <1>7, <2>2, <2>4, <2>5
<1>8. NoFork'
  BY <1>1, <1>7 DEF NoFork, ForkInv
<1> QED  BY <1>6, <1>8 DEF ForkInv

\* Concurrent refreshes of one token do not fork its family: the conditional UPDATE
\* of markRefreshRotated and the choice of the parent in resolveRefreshLineage.
THEOREM OneSuccessor == Spec => []NoFork
<1>1. Init => ForkInv
  <2> SUFFICES ASSUME Init PROVE ForkInv
    OBVIOUS
  <2>1. LInv
    BY LeafInit
  <2>2. \A s \in RefreshSigs : refresh[s].parent = NoSig /\ refresh[s].rotatedAt = 0
    <3>1. PICK legacy \in [LegacyRequests -> RefreshSigs] :
            refresh = [s \in RefreshSigs |->
              IF s \in issued
              THEN [NoRefreshRow EXCEPT !.req = CHOOSE q \in LegacyRequests : legacy[q] = s,
                                        !.exp = RefreshLife]
              ELSE NoRefreshRow]
      BY DEF Init
    <3>2. ASSUME NEW r, NEW q, r = [NoRefreshRow EXCEPT !.req = q, !.exp = RefreshLife]
          PROVE  r.parent = NoSig /\ r.rotatedAt = 0
      BY <3>2 DEF NoRefreshRow
    <3>3. NoRefreshRow.parent = NoSig /\ NoRefreshRow.rotatedAt = 0
      BY DEF NoRefreshRow
    <3> QED  BY <3>1, <3>2, <3>3
  <2>3. Cardinality(issued) \in Nat
    BY <2>1, IssuedCount
  <2>4. Descends
    BY <2>2, <2>3 DEF Descends
  <2>5. NoFork
    BY <2>2 DEF NoFork
  <2> QED  BY <2>1, <2>4, <2>5 DEF ForkInv
<1>2. ForkInv /\ [Next]_vars => ForkInv'
  <2> SUFFICES ASSUME ForkInv, [Next]_vars PROVE ForkInv'
    OBVIOUS
  <2>1. LInv /\ LInv'
    BY LeafNext DEF ForkInv
  <2> QED  BY <2>1, NextTable, ForkKept, ForkSpends, ForkStores
<1>3. ForkInv => NoFork
  BY DEF ForkInv
<1> QED  BY <1>1, <1>2, <1>3, PTL DEF Spec

-----------------------------------------------------------------------------
\* A family belongs to one request.

\* Who names a family and a request together: a row, a handler that read one, a
\* tombstone.
Claims(f, q) ==
  \/ \E s \in RefreshSigs : refresh[s].req = q /\ refresh[s].family = f
  \/ \E w \in Workers : job[w].req = q /\ job[w].family = f
  \/ q \in Requests /\ tomb[q].family = f

FamilyOwned ==
  \A f \in RefreshSigs, q \in Requests : Claims(f, q) =>
    f \in issued /\ \A p \in Requests : Claims(f, p) => p = q
\* A row of before family ids is alone: nobody names a family of its request.
LegacyAlone ==
  \A s \in RefreshSigs : refresh[s].req # NoRequest /\ refresh[s].family = NoSig =>
    \A f \in RefreshSigs : ~Claims(f, refresh[s].req)
SameFamily ==
  \A s, t \in RefreshSigs :
    refresh[s].req # NoRequest /\ refresh[t].req = refresh[s].req
      => refresh[t].family = refresh[s].family
TombAgrees ==
  /\ \A q \in Requests : ~tomb[q].present => tomb[q].family = NoSig
  /\ \A s \in RefreshSigs : refresh[s].req # NoRequest =>
       tomb[refresh[s].req].family \in {NoSig, refresh[s].family}

FamilyInv == LInv /\ FamilyOwned /\ LegacyAlone /\ SameFamily /\ TombAgrees

\* What the steps do: handlers take over a family with the row it belongs to, and
\* only commitRefreshTerminalAuthority gives a tombstone its family.
JobsFollow ==
  \A w \in Workers, f \in RefreshSigs : job'[w].family = f => Claims(f, job'[w].req)
Commits(q, fam) ==
  /\ q \in Requests /\ CommitAllowed(q, fam) /\ UNCHANGED refresh
  /\ fam = NoSig \/ Claims(fam, q)
  /\ tomb'[q].present
  /\ IF ClaimedFamilies(q, fam) = {} THEN tomb'[q].family = NoSig
                                    ELSE tomb'[q].family \in ClaimedFamilies(q, fam)
  /\ \A p \in Requests : p # q => tomb'[p] = tomb[p]
TombsKeep ==
  \A q \in Requests : \/ tomb'[q].family = NoSig /\ ~tomb'[q].present
                      \/ tomb'[q].family = tomb[q].family /\ tomb'[q].present = tomb[q].present
TombsFollow == TombsKeep \/ \E q, fam : Commits(q, fam)

LEMMA JobFollows ==
  ASSUME LInv, NEW w \in Workers, NEW j \in Job, job' = [job EXCEPT ![w] = j],
         \/ j.family = NoSig
         \/ j.family = job[w].family /\ j.req = job[w].req
         \/ Claims(j.family, j.req)
  PROVE  JobsFollow
<1>1. job'[w] = j /\ \A v \in Workers : v # w => job'[v] = job[v]
  BY DEF LInv, TInv, TypeOK
<1>2. \A v \in Workers, f \in RefreshSigs : job[v].family = f => Claims(f, job[v].req)
  BY DEF Claims
<1> QED  BY <1>1, <1>2, SigsAssumption DEF JobsFollow

LEMMA SameFollows == ASSUME UNCHANGED job PROVE JobsFollow
BY DEF JobsFollow, Claims

LEMMA ReplyFollows ==
  ASSUME LInv, NEW w \in Workers, NEW r, Reply(w, r)
  PROVE  JobsFollow
<1>1. job'[w].family = NoSig /\ \A v \in Workers : v # w => job'[v] = job[v]
  BY DEF Reply, NoJob, LInv, TInv, TypeOK
<1> QED  BY <1>1, SigsAssumption DEF JobsFollow, Claims

\* Only then, todo or cand of the handler changes.
LEMMA KeepFollows ==
  ASSUME LInv, NEW w \in Workers,
         \/ \E n : job' = [job EXCEPT ![w].then = n]
         \/ \E S : job' = [job EXCEPT ![w].todo = S]
         \/ \E a : job' = [job EXCEPT ![w].cand = a]
  PROVE  JobsFollow
<1>j. job \in [Workers -> Job]
  BY DEF LInv, TInv, TypeOK
<1> DEFINE Same == \A v \in Workers : job'[v].family = job[v].family /\ job'[v].req = job[v].req
<1>1. ASSUME NEW n, job' = [job EXCEPT ![w].then = n] PROVE Same
  BY <1>j, <1>1 DEF Job
<1>2. ASSUME NEW S, job' = [job EXCEPT ![w].todo = S] PROVE Same
  BY <1>j, <1>2 DEF Job
<1>3. ASSUME NEW a, job' = [job EXCEPT ![w].cand = a] PROVE Same
  BY <1>j, <1>3 DEF Job
<1>4. Same
  BY <1>1, <1>2, <1>3
<1> QED  BY <1>4 DEF JobsFollow, Claims

LEMMA AfterFollows ==
  ASSUME LInv, NEW w \in Workers, AfterAccess(w)
  PROVE  JobsFollow
BY ReplyFollows, KeepFollows DEF AfterAccess

LEMMA TombsSame == ASSUME UNCHANGED tomb PROVE TombsFollow
BY DEF TombsFollow, TombsKeep

LEMMA CommitFollows ==
  ASSUME LInv, NEW q \in Requests, NEW fam, NEW exp, CommitTerminal(q, fam, exp),
         fam = NoSig \/ Claims(fam, q)
  PROVE  TombsFollow
<1>1. Commits(q, fam)
  <2>1. PICK e, f :
          /\ IF ClaimedFamilies(q, fam) = {} THEN f = NoSig ELSE f \in ClaimedFamilies(q, fam)
          /\ tomb' = [tomb EXCEPT ![q] = [present |-> TRUE, family |-> f, exp |-> e]]
    BY DEF CommitTerminal
  <2>2. tomb'[q] = [present |-> TRUE, family |-> f, exp |-> e]
        /\ \A p \in Requests : p # q => tomb'[p] = tomb[p]
    BY <2>1 DEF LInv, TInv, TypeOK
  <2> QED  BY <2>1, <2>2 DEF Commits, CommitTerminal
<1> QED  BY <1>1 DEF TombsFollow

LEMMA StepFollows ==
  ASSUME LInv, NEW w \in Workers, Step(w)
  PROVE  JobsFollow /\ TombsFollow
<1> USE DEF history, store
<1>a. GetAccepted(w) \/ GetInactive(w) \/ RevokeFailed(w) => JobsFollow
  BY SameFollows, ReplyFollows, KeepFollows
     DEF GetAccepted, GetInactive, RevokeFailed, DeleteAccessThen
<1>d. (\E n : DeleteAccessThen(w, n)) => JobsFollow
  BY KeepFollows DEF DeleteAccessThen
<1>c. Claims(job[w].family, job[w].req)
  BY DEF Claims
<1>q. pc[w] # "idle" => job[w].req \in Requests
  BY DEF LInv, TInv, HandlerOK
<1>1. CASE GetTomb(w)
  BY <1>1, <1>a, SameFollows, TombsSame DEF GetTomb
<1>2. CASE GetCommit(w)
  <2>1. JobsFollow
    BY <1>2, SameFollows, ReplyFollows DEF GetCommit
  <2>2. TombsFollow
    BY <1>2, <1>c, <1>q, CommitFollows, TombsSame DEF GetCommit
  <2> QED  BY <2>1, <2>2
<1>3. CASE GetFamily(w)
  BY <1>3, <1>a, ReplyFollows, TombsSame DEF GetFamily, Invalidate, MutateFamily
<1>4. CASE DeleteFind(w)
  BY <1>4, SameFollows, TombsSame DEF DeleteFind
<1>5. CASE DeleteRow(w)
  BY <1>5, SameFollows, TombsSame DEF DeleteRow
<1>6. CASE RevokeCommit(w)
  <2>1. JobsFollow
    BY <1>6, <1>a, SameFollows DEF RevokeCommit
  <2>2. TombsFollow
    BY <1>6, <1>q, CommitFollows, TombsSame DEF RevokeCommit
  <2> QED  BY <2>1, <2>2
<1>7. CASE RevokeFamily(w)
  <2>1. JobsFollow
    BY <1>7, <1>a, <1>d, ReplyFollows DEF RevokeFamily
  <2>2. TombsFollow
    BY <1>7, TombsSame DEF RevokeFamily, MutateFamily
  <2> QED  BY <2>1, <2>2
<1>8. CASE AccessRead(w)
  BY <1>8, AfterFollows, KeepFollows, TombsSame DEF AccessRead
<1>9. CASE AccessDelete(w)
  <2>1. PICK a \in job[w].todo :
          \/ AfterAccess(w)
          \/ job' = [job EXCEPT ![w].todo = job[w].todo \ {a}]
    BY <1>9 DEF AccessDelete
  <2>2. JobsFollow
    BY <2>1, AfterFollows, KeepFollows
  <2> QED  BY <1>9, <2>2, TombsSame DEF AccessDelete
<1>10. CASE RotateTomb(w)
  BY <1>10, <1>d, SameFollows, TombsSame DEF RotateTomb
<1>11. CASE RotateCAS(w)
  BY <1>11, <1>d, SameFollows, TombsSame DEF RotateCAS
<1>12. CASE RotateReread(w)
  <2> DEFINE s == job[w].sig
  <2>1. s \in RefreshSigs /\ job[w] \in Job
    BY <1>12 DEF RotateReread, SigPCs, LInv, TInv, TypeOK, HandlerOK
  <2>2. refresh[s].req \in {job[w].req, NoRequest}
    BY <1>12 DEF RotateReread, SigPCs, LInv, SigOfRequest
  <2>3. CASE refresh[s].req # NoRequest /\ job' = [job EXCEPT ![w] = Snapshot(job[w], s)]
    <3>1. Snapshot(job[w], s) \in Job /\ Snapshot(job[w], s).req = job[w].req
      BY <2>1, SnapshotTyped DEF LInv
    <3>2. Snapshot(job[w], s).family = refresh[s].family
      BY <2>1 DEF Snapshot, Job
    <3>3. Claims(refresh[s].family, job[w].req)
      BY <2>1, <2>2, <2>3 DEF Claims
    <3> QED  BY <1>12, <2>3, <3>1, <3>2, <3>3, JobFollows, TombsSame DEF RotateReread
  <2>4. CASE job' = [job EXCEPT ![w] = [job[w] EXCEPT !.status = "absent", !.family = NoSig, !.exp = 0]]
    <3> DEFINE j == [job[w] EXCEPT !.status = "absent", !.family = NoSig, !.exp = 0]
    <3>1. j \in Job /\ j.family = NoSig
      BY <2>1 DEF Job
    <3> HIDE DEF j
    <3>2. job' = [job EXCEPT ![w] = j]
      BY <2>4 DEF j
    <3> QED  BY <1>12, <3>1, <3>2, JobFollows, TombsSame DEF RotateReread
  <2> QED  BY <1>12, <2>3, <2>4 DEF RotateReread
<1>13. CASE RotateCommit(w)
  <2>1. JobsFollow
    BY <1>13, <1>d, SameFollows, ReplyFollows DEF RotateCommit
  <2>2. TombsFollow
    BY <1>13, <1>c, <1>q, CommitFollows, TombsSame DEF RotateCommit
  <2> QED  BY <2>1, <2>2
<1>14. CASE RotateFamily(w)
  BY <1>14, <1>d, ReplyFollows, TombsSame DEF RotateFamily, Invalidate, MutateFamily
<1>15. CASE CreateAccess(w)
  BY <1>15, ReplyFollows, KeepFollows, TombsSame DEF CreateAccess
<1>16. CASE CreateRefresh(w)
  BY <1>16, ReplyFollows, TombsSame DEF CreateRefresh
<1>17. CASE CheckTomb(w)
  BY <1>17, SameFollows, ReplyFollows, TombsSame DEF CheckTomb
<1>18. CASE CheckRows(w)
  BY <1>18, SameFollows, ReplyFollows, TombsSame DEF CheckRows
<1>19. CASE Finish(w)
  <2>1. NoJob \in Job /\ NoJob.family = NoSig
    BY RowTypes DEF NoJob
  <2> QED  BY <1>19, <2>1, JobFollows, TombsSame DEF Finish
<1> QED  BY <1>1, <1>2, <1>3, <1>4, <1>5, <1>6, <1>7, <1>8, <1>9, <1>10, <1>11, <1>12,
            <1>13, <1>14, <1>15, <1>16, <1>17, <1>18, <1>19 DEF Step

\* A request arrives: the handler takes no family, or that of the row presented.
LEMMA BeginFollows ==
  ASSUME LInv, NEW w \in Workers, NEW p, NEW j \in Job, Begin(w, p, j),
         j.family = NoSig \/ Claims(j.family, j.req)
  PROVE  JobsFollow
<1>1. PICK b \in BOOLEAN : job' = [job EXCEPT ![w] = [j EXCEPT !.since = now, !.doomed = b]]
  <2>1. job' = [job EXCEPT ![w] = [j EXCEPT !.since = now, !.doomed = j.req \in dead]]
    BY DEF Begin
  <2>2. (j.req \in dead) \in BOOLEAN
    OBVIOUS
  <2> QED  BY <2>1, <2>2, Zenon
<1> DEFINE k == [j EXCEPT !.since = now, !.doomed = b]
<1>2. k \in Job /\ k.family = j.family /\ k.req = j.req
  BY DEF Job, LInv, TInv, TypeOK
<1> HIDE DEF k
<1>3. job' = [job EXCEPT ![w] = k]
  BY <1>1 DEF k
<1> QED  BY <1>2, <1>3, JobFollows

LEMMA ArriveFollows ==
  ASSUME LInv, NEW w \in Workers, Arrive(w)
  PROVE  JobsFollow /\ TombsFollow
<1> USE DEF history, store
<1>t. TombsFollow
  BY TombsSame DEF Arrive, PresentRefresh, PresentAccess, Exchange, ReplayCode
<1>1. ASSUME NEW s \in RefreshSigs, NEW e \in {"refresh", "revoke", "check"}, PresentRefresh(w, s, e)
      PROVE  JobsFollow
  <2>1. refresh[s].req \in Requests
    BY <1>1 DEF PresentRefresh, RefreshRow, LInv, TInv, TypeOK
  <2> DEFINE j == [NoJob EXCEPT !.op = e, !.sig = s, !.req = refresh[s].req]
  <2>2. j \in Job /\ j.req = refresh[s].req
    BY <2>1 DEF NoJob, Job, Ops, Replies
  <2>3. Begin(w, "gettomb", Snapshot(j, s))
    BY <1>1 DEF PresentRefresh
  <2> HIDE DEF j
  <2>4. /\ Snapshot(j, s) \in Job /\ Snapshot(j, s).req = refresh[s].req
        /\ Snapshot(j, s).family = refresh[s].family
    BY <2>2, SnapshotTyped DEF LInv, Snapshot, Job
  <2>5. Claims(refresh[s].family, refresh[s].req)
    BY DEF Claims
  <2> QED  BY <2>3, <2>4, <2>5, BeginFollows
<1>2. ASSUME NEW a \in AccessSigs, NEW e \in {"check", "revoke"}, PresentAccess(w, a, e)
      PROVE  JobsFollow
  <2>1. access[a].req \in Requests /\ access[a].exp \in Nat
    BY <1>2 DEF PresentAccess, AccessRow, LInv, TInv, TypeOK
  <2> DEFINE j == [NoJob EXCEPT !.op = e, !.req = access[a].req, !.exp = access[a].exp]
  <2>2. j \in Job /\ j.family = NoSig
    BY <2>1 DEF NoJob, Job, Ops, Replies
  <2>3. Begin(w, "chktomb", j)
    BY <1>2 DEF PresentAccess
  <2> HIDE DEF j
  <2> QED  BY <2>2, <2>3, BeginFollows
<1>3. ASSUME NEW q \in Requests, NEW k \in {"exchange", "accessonly"}, Exchange(w, q, k)
      PROVE  JobsFollow
  <2> DEFINE j == [NoJob EXCEPT !.op = k, !.req = q]
  <2>1. j \in Job /\ j.family = NoSig
    BY DEF NoJob, Job, Ops, Replies
  <2>2. Begin(w, "mkaccess", j)
    BY <1>3 DEF Exchange
  <2> HIDE DEF j
  <2> QED  BY <2>1, <2>2, BeginFollows
<1>4. ASSUME NEW q \in Requests, ReplayCode(w, q)
      PROVE  JobsFollow
  <2> DEFINE j == [NoJob EXCEPT !.op = "replay", !.req = q, !.then = "revcommit"]
  <2>1. j \in Job /\ j.family = NoSig
    BY DEF NoJob, Job, Ops, Replies
  <2>2. Begin(w, "accread", j)
    BY <1>4 DEF ReplayCode
  <2> HIDE DEF j
  <2> QED  BY <2>1, <2>2, BeginFollows
<1> QED  BY <1>t, <1>1, <1>2, <1>3, <1>4 DEF Arrive

LEMMA NextFollows ==
  ASSUME LInv, [Next]_vars
  PROVE  JobsFollow /\ TombsFollow
<1> USE DEF history, store
<1>1. ASSUME NEW w \in Workers, AccessFault(w) \/ Abort(w) PROVE JobsFollow /\ TombsFollow
  <2>1. NoJob \in Job /\ NoJob.family = NoSig
    BY RowTypes DEF NoJob
  <2> QED  BY <1>1, <2>1, AfterFollows, JobFollows, TombsSame DEF AccessFault, Abort
<1>2. CASE CleanUp
  <2>1. JobsFollow
    BY <1>2, SameFollows DEF CleanUp, CronStart, CronQueryRefresh, CronQueryTombs, CronEnd,
                             CronAccess, CronRefresh, CronTomb
  <2>2. ASSUME NEW q \in Requests, CronTomb(q) PROVE TombsFollow
    <3>1. CASE UNCHANGED tomb
      BY <3>1, TombsSame
    <3>2. CASE tomb' = [tomb EXCEPT ![q] = NoTomb]
      BY <3>2 DEF TombsFollow, TombsKeep, NoTomb, LInv, TInv, TypeOK
    <3>3. ASSUME NEW e, tomb' = [tomb EXCEPT ![q].exp = e] PROVE TombsFollow
      BY <3>3 DEF TombsFollow, TombsKeep, Tomb, LInv, TInv, TypeOK
    <3> QED  BY <2>2, <3>1, <3>2, <3>3 DEF CronTomb
  <2>3. TombsFollow
    BY <1>2, <2>2, TombsSame DEF CleanUp, CronStart, CronQueryRefresh, CronQueryTombs, CronEnd,
                                 CronAccess, CronRefresh
  <2> QED  BY <2>1, <2>3
<1>3. CASE Tick \/ UNCHANGED vars
  BY <1>3, SameFollows, TombsSame DEF Tick, vars
<1> QED  BY <1>1, <1>2, <1>3, StepFollows, ArriveFollows DEF Next, Handlers

\* Claims only shrink, but for the family that a first row opens.
LEMMA FamilyKept ==
  ASSUME FamilyInv, LInv', JobsFollow, TombsFollow, UNCHANGED issued,
         \A s \in RefreshSigs : refresh'[s].req # NoRequest =>
           refresh'[s].req = refresh[s].req /\ refresh'[s].family = refresh[s].family
  PROVE  FamilyInv'
<1>1. ASSUME NEW f \in RefreshSigs, NEW q \in Requests, Claims(f, q)' PROVE Claims(f, q)
  <2>1. CASE \E s \in RefreshSigs : refresh'[s].req = q /\ refresh'[s].family = f
    BY <2>1, RequestsAssumption DEF Claims
  <2>2. CASE \E w \in Workers : job'[w].req = q /\ job'[w].family = f
    BY <2>2 DEF JobsFollow
  <2>3. CASE tomb'[q].family = f
    <3>1. CASE TombsKeep
      BY <2>3, <3>1, SigsAssumption DEF TombsKeep, Claims
    <3>2. ASSUME NEW p, NEW fam, Commits(p, fam) PROVE Claims(f, q)
      <4>1. CASE p = q
        <5>1. f \in ClaimedFamilies(q, fam)
          BY <2>3, <3>2, <4>1, SigsAssumption DEF Commits
        <5> QED  BY <3>2, <4>1, <5>1, SigsAssumption
                 DEF Commits, ClaimedFamilies, ArtifactFamilies, RowsOf, Claims
      <4>2. CASE p # q
        BY <2>3, <3>2, <4>2 DEF Commits, Claims
      <4> QED  BY <4>1, <4>2
    <3> QED  BY <3>1, <3>2 DEF TombsFollow
  <2> QED  BY <1>1, <2>1, <2>2, <2>3 DEF Claims
<1>2. FamilyOwned'
  BY <1>1 DEF FamilyOwned, FamilyInv
<1>t. \A s \in RefreshSigs : refresh'[s].req # NoRequest => refresh'[s].req \in Requests
  BY DEF LInv, TInv, TypeOK, RefreshRow
<1>3. LegacyAlone'
  BY <1>1, <1>t DEF LegacyAlone, FamilyInv
<1>4. SameFamily'
  BY DEF SameFamily, FamilyInv
<1>5. ASSUME NEW s \in RefreshSigs, refresh'[s].req # NoRequest
      PROVE  tomb'[refresh'[s].req].family \in {NoSig, refresh'[s].family}
  <2> DEFINE q == refresh'[s].req
  <2>1. q \in Requests /\ refresh[s].req = q /\ refresh[s].family = refresh'[s].family
    BY <1>5, <1>t
  <2>2. tomb[q].family \in {NoSig, refresh[s].family}
    BY <1>5, <2>1 DEF FamilyInv, TombAgrees
  <2>3. CASE TombsKeep
    BY <2>1, <2>2, <2>3 DEF TombsKeep
  <2>4. ASSUME NEW p, NEW fam, Commits(p, fam)
        PROVE  tomb'[q].family \in {NoSig, refresh'[s].family}
    <3>1. CASE p # q
      BY <2>1, <2>2, <2>4, <3>1 DEF Commits
    <3>2. CASE p = q /\ refresh[s].family # NoSig
      <4>1. refresh[s].family \in ClaimedFamilies(q, fam)
        BY <2>1, <3>2 DEF ClaimedFamilies, ArtifactFamilies, RowsOf
      <4> QED  BY <2>1, <2>4, <3>2, <4>1 DEF Commits, CommitAllowed
    <3>3. CASE p = q /\ refresh[s].family = NoSig
      <4>1. tomb'[q].family \in RefreshSigs \cup {NoSig}
        BY <2>1 DEF LInv, TInv, TypeOK, Tomb
      <4>2. \A f \in RefreshSigs : tomb'[q].family # f
        BY <1>1, <1>5, <2>1, <3>3 DEF Claims, FamilyInv, LegacyAlone
      <4> QED  BY <4>1, <4>2
    <3> QED  BY <3>1, <3>2, <3>3
  <2> QED  BY <2>3, <2>4 DEF TombsFollow
<1>6. \A q \in Requests : ~tomb'[q].present => tomb'[q].family = NoSig
  BY DEF TombsFollow, TombsKeep, Commits, FamilyInv, TombAgrees
<1>7. TombAgrees'
  BY <1>5, <1>6 DEF TombAgrees
<1> QED  BY <1>2, <1>3, <1>4, <1>7 DEF FamilyInv

LEMMA FamilyStores ==
  ASSUME FamilyInv, LInv', NEW w \in Workers, NEW parent, Stores(w, parent),
         JobsFollow, TombsFollow
  PROVE  FamilyInv'
<1> SUFFICES ASSUME NEW f, f = FreshRefresh, NEW q, q = job[w].req, NEW fam, fam = FamilyOf(parent)
             PROVE  FamilyInv'
  OBVIOUS
<1>l. LInv
  BY DEF FamilyInv
<1>1. /\ f \in RefreshSigs /\ f \notin issued /\ refresh[f].req = NoRequest
      /\ refresh'[f].req = q /\ refresh'[f].family = fam
      /\ \A s \in RefreshSigs : s # f => refresh'[s] = refresh[s]
      /\ issued' = issued \cup {f} /\ q \in Requests /\ q # NoRequest
  BY <1>l, Stored, RequestsAssumption
<1>2. TombsKeep
  BY <1>1 DEF TombsFollow, Commits
<1>3. tomb'[q].family = NoSig
  BY <1>1, <1>2 DEF TombsKeep, Stores, LineageTerminal, HasTerminal, FamilyInv, TombAgrees
<1>4. \A s \in RowsOf(q) : refresh[s].family # NoSig
  BY DEF Stores, LineageCorrupt
<1>p. \/ RowsOf(q) = {} /\ fam = f
      \/ parent \in RowsOf(q) /\ fam = refresh[parent].family
  <2>1. CASE RowsOf(q) = {}
    BY <2>1 DEF Stores, FamilyOf
  <2>2. CASE RowsOf(q) # {}
    <3>1. parent \in RowsOf(q) /\ parent \in RefreshSigs
      BY <2>2 DEF Stores, LatestRotated, RowsOf
    <3> QED  BY <3>1, SigsAssumption DEF FamilyOf
  <2> QED  BY <2>1, <2>2
<1>5. fam \in RefreshSigs /\ (fam = f \/ Claims(fam, q))
  <2>1. CASE RowsOf(q) = {} /\ fam = f
    BY <1>1, <2>1
  <2>2. CASE parent \in RowsOf(q) /\ fam = refresh[parent].family
    BY <1>4, <1>l, <2>2 DEF RowsOf, Claims, LInv, TInv, TypeOK, RefreshRow
  <2> QED  BY <1>p, <2>1, <2>2
<1>6. \A p \in Requests : ~Claims(f, p)
  BY <1>1 DEF FamilyInv, FamilyOwned
<1>7. ASSUME NEW g \in RefreshSigs, NEW p \in Requests, Claims(g, p)'
      PROVE  Claims(g, p) \/ (g = fam /\ p = q)
  <2>1. CASE \E s \in RefreshSigs : refresh'[s].req = p /\ refresh'[s].family = g
    BY <1>1, <2>1 DEF Claims
  <2>2. CASE \E v \in Workers : job'[v].req = p /\ job'[v].family = g
    BY <2>2 DEF JobsFollow
  <2>3. CASE tomb'[p].family = g
    BY <1>2, <2>3, SigsAssumption DEF TombsKeep, Claims
  <2> QED  BY <1>7, <2>1, <2>2, <2>3 DEF Claims
<1>8. FamilyOwned'
  <2> SUFFICES ASSUME NEW g \in RefreshSigs, NEW p \in Requests, Claims(g, p)'
               PROVE  g \in issued' /\ \A r \in Requests : Claims(g, r)' => r = p
    BY DEF FamilyOwned
  <2>1. CASE g = f
    BY <1>1, <1>6, <1>7, <2>1
  <2>2. CASE g # f
    BY <1>1, <1>5, <1>7, <2>2 DEF FamilyInv, FamilyOwned
  <2> QED  BY <2>1, <2>2
<1>9. LegacyAlone'
  <2> SUFFICES ASSUME NEW s \in RefreshSigs, refresh'[s].req # NoRequest, refresh'[s].family = NoSig,
                      NEW g \in RefreshSigs, Claims(g, refresh[s].req)'
               PROVE  FALSE
    BY DEF LegacyAlone
  <2>1. s # f /\ refresh'[s] = refresh[s]
    BY <1>1, <1>5, SigsAssumption
  <2>2. refresh[s].req \in Requests /\ refresh[s].req # q
    BY <1>l, <1>4, <2>1 DEF RowsOf, LInv, TInv, TypeOK, RefreshRow
  <2>3. Claims(g, refresh[s].req)
    BY <1>7, <2>1, <2>2 DEF Claims
  <2> QED  BY <2>1, <2>3 DEF FamilyInv, LegacyAlone
<1>10. \A s \in RowsOf(q) : refresh[s].family = fam
  BY <1>p, <1>1 DEF RowsOf, FamilyInv, SameFamily
<1>11. SameFamily'
  BY <1>1, <1>10 DEF RowsOf, SameFamily, FamilyInv
<1>12. TombAgrees'
  <2>1. \A p \in Requests : ~tomb'[p].present => tomb'[p].family = NoSig
    BY <1>2 DEF TombsKeep, FamilyInv, TombAgrees
  <2>2. ASSUME NEW s \in RefreshSigs, refresh'[s].req # NoRequest
        PROVE  tomb'[refresh'[s].req].family \in {NoSig, refresh'[s].family}
    <3>1. CASE s = f
      BY <1>1, <1>3, <3>1
    <3>2. CASE s # f
      <4>1. refresh'[s] = refresh[s] /\ refresh[s].req \in Requests
        BY <1>1, <1>l, <2>2, <3>2 DEF LInv, TInv, TypeOK, RefreshRow
      <4> QED  BY <1>2, <2>2, <4>1 DEF TombsKeep, FamilyInv, TombAgrees
    <3> QED  BY <3>1, <3>2
  <2> QED  BY <2>1, <2>2 DEF TombAgrees
<1> QED  BY <1>8, <1>9, <1>11, <1>12 DEF FamilyInv

LEMMA FamilyInit == Init => FamilyInv
<1> SUFFICES ASSUME Init PROVE FamilyInv
  OBVIOUS
<1>1. LInv
  BY LeafInit
<1>2. \A s \in RefreshSigs : refresh[s].family = NoSig
  <2>1. PICK legacy \in [LegacyRequests -> RefreshSigs] :
          refresh = [s \in RefreshSigs |->
            IF s \in issued
            THEN [NoRefreshRow EXCEPT !.req = CHOOSE q \in LegacyRequests : legacy[q] = s,
                                      !.exp = RefreshLife]
            ELSE NoRefreshRow]
    BY DEF Init
  <2>2. ASSUME NEW r, NEW q, r = [NoRefreshRow EXCEPT !.req = q, !.exp = RefreshLife]
        PROVE  r.family = NoSig
    BY <2>2 DEF NoRefreshRow
  <2>3. NoRefreshRow.family = NoSig
    BY DEF NoRefreshRow
  <2> QED  BY <2>1, <2>2, <2>3
<1>3. \A w \in Workers : job[w].family = NoSig
  BY DEF Init, NoJob
<1>4. \A q \in Requests : tomb[q].family = NoSig
  BY DEF Init, NoTomb
<1>5. \A f \in RefreshSigs, q \in Requests : ~Claims(f, q)
  BY <1>2, <1>3, <1>4, SigsAssumption DEF Claims
<1>6. FamilyOwned
  BY <1>5 DEF FamilyOwned
<1>7. \A s \in RefreshSigs : refresh[s].req # NoRequest => refresh[s].req \in Requests
  BY <1>1 DEF LInv, TInv, TypeOK, RefreshRow
<1>8. LegacyAlone
  BY <1>5, <1>7 DEF LegacyAlone
<1>9. SameFamily /\ TombAgrees
  BY <1>2, <1>4, <1>7 DEF SameFamily, TombAgrees
<1> QED  BY <1>1, <1>6, <1>8, <1>9 DEF FamilyInv

LEMMA FamilyNext == FamilyInv /\ [Next]_vars => FamilyInv'
<1> SUFFICES ASSUME FamilyInv, [Next]_vars PROVE FamilyInv'
  OBVIOUS
<1>1. LInv /\ LInv'
  BY LeafNext DEF FamilyInv
<1>2. JobsFollow /\ TombsFollow
  BY <1>1, NextFollows
<1>3. CASE TableKeeps
  <2>1. UNCHANGED issued
    BY <1>3 DEF TableKeeps
  <2> QED  BY <1>1, <1>2, <1>3, <2>1, RowAfter, FamilyKept
<1>4. ASSUME NEW s \in RefreshSigs, Spends(s) PROVE FamilyInv'
  <2>1. UNCHANGED issued
    BY <1>4 DEF Spends
  <2> QED  BY <1>1, <1>2, <1>4, <2>1, SpentRow, FamilyKept
<1> QED  BY <1>1, <1>2, <1>3, <1>4, NextTable, FamilyStores

\* Rows share a family exactly when they share a request, and the tombstone agrees:
\* the lineage that resolveRefreshLineage calls corrupt is never stored, and
\* invalidateRefreshFamily never reaches another grant.
THEOREM OneFamily == Spec => []OneFamilyPerRequest
<1>1. FamilyInv => OneFamilyPerRequest
  <2> SUFFICES ASSUME FamilyInv, NEW s \in RefreshSigs, refresh[s].req # NoRequest
               PROVE  /\ \A t \in RefreshSigs :
                            /\ refresh[t].req = refresh[s].req => refresh[t].family = refresh[s].family
                            /\ refresh[t].req # NoRequest /\ refresh[t].family = refresh[s].family
                               /\ refresh[s].family # NoSig => refresh[t].req = refresh[s].req
                      /\ tomb[refresh[s].req].family \in {NoSig, refresh[s].family}
    BY DEF OneFamilyPerRequest
  <2>1. \A t \in RefreshSigs : /\ refresh[t] \in RefreshRow
                               /\ Claims(refresh[t].family, refresh[t].req)
    BY DEF Claims, FamilyInv, LInv, TInv, TypeOK
  <2>2. \A t \in RefreshSigs :
          refresh[t].req # NoRequest /\ refresh[t].family = refresh[s].family /\ refresh[s].family # NoSig
            => refresh[t].req = refresh[s].req
    BY <2>1 DEF FamilyInv, FamilyOwned, RefreshRow
  <2> QED  BY <2>2 DEF FamilyInv, SameFamily, TombAgrees
<1> QED  BY <1>1, FamilyInit, FamilyNext, PTL DEF Spec

-----------------------------------------------------------------------------
(***************************************************************************)
(* Part 3, terminal authority: whoever is answered "inactive" leaves a     *)
(* dead family, a tombstone outlives what it governs, and a dead request   *)
(* never gets a row again, also after its tombstone is gone. The last      *)
(* needs PauseAssumption: a handler is over before a tombstone committed   *)
(* while it runs can expire.                                               *)
(***************************************************************************)

\* The invariant.

\* The places from which a handler answers "inactive", or takes a family apart.
MustBeDead(w) ==
  \/ pc[w] \in {"getfamily", "delfind", "delrow", "revfamily", "rotfamily"}
  \/ pc[w] \in {"accread", "accdel"} /\ job[w].then \in {"inactive", "lost"}
  \/ job[w].reply = "inactive"
DeathKnown ==
  /\ \A q \in Requests : tomb[q].present => q \in dead
  /\ \A s \in RefreshSigs : refresh[s].req # NoRequest /\ GetStatus(s) \in Terminal
                              => refresh[s].req \in dead
  /\ \A w \in Workers : MustBeDead(w) \/ job[w].doomed => job[w].req \in dead

\* Handlers run within MaxPause, and answer once.
Timely ==
  /\ cron.at <= now
  /\ \A w \in Workers : pc[w] # "idle" => job[w].since <= now /\ now <= job[w].since + MaxPause
  /\ \A w \in Workers : job[w].reply # "none" => pc[w] = "replied"

\* Before its code is spent a request has no access token, no tombstone and no
\* handler.
UnspentIsUntouched ==
  \A q \in Requests : codeAt[q] = -1 =>
    /\ AccessOf(q) = {} /\ q \notin dead
    /\ \A w \in Workers : pc[w] # "idle" => job[w].req # q

\* A handler on its way to store a token: should the request die now, the
\* tombstone outlasts the handler.
Storing(w) ==
  \/ pc[w] = "rotcas" /\ refresh[job[w].sig].req # NoRequest
  \/ pc[w] \in {"mkaccess", "mkrefresh"}
  \/ pc[w] \in {"accread", "accdel"} /\ job[w].then = "mkaccess"
Guarded(w) ==
  job[w].req \in dead =>
    tomb[job[w].req].present /\ tomb[job[w].req].exp >= job[w].since + TombLife
Vigil == \A w \in Workers : Storing(w) => Guarded(w)

\* A check that begins after the death meets the tombstone, or its token expired.
Checked ==
  \A w \in Workers : job[w].doomed =>
    /\ pc[w] \in {"gettomb", "chktomb"} =>
         \/ tomb[job[w].req].present /\ job[w].exp <= tomb[job[w].req].exp
         \/ job[w].exp < now
    /\ pc[w] = "chkrows" => job[w].exp < now

DeathInv ==
  /\ FamilyInv /\ DeathKnown /\ Timely /\ UnspentIsUntouched /\ Vigil /\ Checked
  /\ TombCoversArtifacts /\ DeadLeavesNothing
  /\ InactiveMeansDead /\ NoTokensAfterDeath /\ NoGrantAfterDeath

-----------------------------------------------------------------------------
\* What a step does to the tombstones and the access rows.

\* A tombstone is committed, or extended by the clean-up.
Raised(q) ==
  /\ q \in Requests
  /\ \/ tomb[q].present /\ UNCHANGED dead
     \/ dead' = dead \cup {q} /\ \E w \in Workers : pc[w] # "idle" /\ job[w].req = q
  /\ tomb'[q].present
  /\ tomb'[q].exp >= tomb[q].exp
  /\ tomb'[q].exp >= now + TombLife
  /\ \A x \in ArtifactExpiries(q) : x <= tomb'[q].exp
\* The clean-up removes an expired one.
Dropped(q) ==
  /\ q \in Requests
  /\ tomb[q].present /\ tomb[q].exp < cron.at /\ Orphaned(q)
  /\ tomb'[q] = NoTomb /\ UNCHANGED dead
TombStep ==
  \/ UNCHANGED <<tomb, dead>>
  \/ /\ UNCHANGED <<refresh, access, now, codeAt>>
     /\ \E q : /\ Raised(q) \/ Dropped(q)
              /\ \A p \in Requests : p # q => tomb'[p] = tomb[p]

AccessKeeps == \A a \in AccessSigs : access'[a] = access[a] \/ access'[a] = NoAccessRow
Inserts(w) ==
  /\ pc[w] = "mkaccess" /\ pc'[w] # "mkaccess" /\ ~HasTerminal(job[w].req)
  /\ UNCHANGED <<refresh, tomb, dead>>
  /\ \E b \in AccessSigs :
       access' = [access EXCEPT ![b] = [req |-> job[w].req, exp |-> job[w].since + AccessLife]]

LEMMA CommitRaises ==
  ASSUME LInv, NEW w \in Workers, pc[w] # "idle", NEW fam, NEW exp \in Nat,
         CommitTerminal(job[w].req, fam, exp)
  PROVE  TombStep /\ AccessKeeps
<1> SUFFICES ASSUME NEW q, q = job[w].req PROVE TombStep /\ AccessKeeps
  OBVIOUS
<1>1. q \in Requests
  BY DEF LInv, TInv, HandlerOK
<1>2. PICK e, f :
        /\ e \in TombExpiries(q, exp) /\ \A x \in TombExpiries(q, exp) : x <= e
        /\ tomb' = [tomb EXCEPT ![q] = [present |-> TRUE, family |-> f, exp |-> e]]
  BY DEF CommitTerminal
<1>3. tomb'[q] = [present |-> TRUE, family |-> f, exp |-> e]
      /\ \A p \in Requests : p # q => tomb'[p] = tomb[p]
  BY <1>1, <1>2 DEF LInv, TInv, TypeOK
<1>4. e \in Nat /\ now + TombLife <= e /\ tomb[q].exp <= e /\ \A x \in ArtifactExpiries(q) : x <= e
  <2>1. tomb'[q].exp \in Nat
    BY <1>1, CommitTyped DEF LInv, StoreTyped, Tomb
  <2>2. e \in Nat
    BY <1>3, <2>1
  <2>3. /\ now + TombLife \in TombExpiries(q, exp) /\ tomb[q].exp \in TombExpiries(q, exp)
        /\ ArtifactExpiries(q) \subseteq TombExpiries(q, exp)
    BY DEF TombExpiries
  <2> QED  BY <1>2, <2>2, <2>3
<1>5. tomb[q].exp \in Nat /\ now + TombLife \in Nat
  BY <1>1, TimesAssumption DEF LInv, TInv, TypeOK, Tomb
<1>6. Raised(q)
  BY <1>1, <1>3, <1>4, <1>5 DEF Raised, CommitTerminal
<1>7. AccessKeeps
  BY DEF AccessKeeps, CommitTerminal
<1> QED  BY <1>3, <1>6, <1>7 DEF TombStep, CommitTerminal

LEMMA AccessWithoutKeeps == ASSUME NEW S, access' = AccessWithout(S) PROVE AccessKeeps
BY DEF AccessKeeps, AccessWithout

LEMMA AccessSame == ASSUME UNCHANGED access PROVE AccessKeeps
BY DEF AccessKeeps

LEMMA CronTombStep ==
  ASSUME LInv, cron.at <= now, NEW q \in Requests, CronTomb(q)
  PROVE  TombStep /\ AccessKeeps
<1> USE DEF history, store
<1>1. AccessKeeps
  BY AccessSame DEF CronTomb
<1>2. CASE UNCHANGED tomb
  BY <1>1, <1>2 DEF CronTomb, TombStep
<1>3. CASE /\ tomb[q].present /\ tomb[q].exp < cron.at /\ Orphaned(q)
           /\ tomb' = [tomb EXCEPT ![q] = NoTomb]
  <2>1. tomb'[q] = NoTomb /\ \A p \in Requests : p # q => tomb'[p] = tomb[p]
    BY <1>3 DEF LInv, TInv, TypeOK
  <2>2. Dropped(q)
    BY <1>3, <2>1 DEF Dropped, CronTomb
  <2> QED  BY <1>1, <2>1, <2>2 DEF TombStep, CronTomb
<1>4. ASSUME tomb[q].present, tomb[q].exp < cron.at,
             NEW e \in {now + TombLife} \cup ArtifactExpiries(q),
             \A x \in {now + TombLife} \cup ArtifactExpiries(q) : x <= e,
             tomb' = [tomb EXCEPT ![q].exp = e]
      PROVE  TombStep
  <2>1. /\ tomb'[q].exp = e /\ tomb'[q].present = tomb[q].present
        /\ \A p \in Requests : p # q => tomb'[p] = tomb[p]
    BY <1>4 DEF LInv, TInv, TypeOK, Tomb
  <2>2. ArtifactExpiries(q) \subseteq Nat /\ now + TombLife \in Nat
    BY TimesAssumption DEF ArtifactExpiries, RowsOf, AccessOf, RefreshRow, AccessRow, LInv, TInv, TypeOK
  <2>3. e \in Nat /\ e >= now + TombLife
    BY <1>4, <2>2
  <2>4. tomb'[q].exp >= tomb[q].exp
    <3>1. tomb[q].exp \in Nat /\ now \in Nat /\ cron.at \in Nat
      BY DEF LInv, TInv, TypeOK, Tomb, Cron
    <3> QED  BY <1>4, <2>1, <2>3, <3>1, TimesAssumption
  <2>5. Raised(q)
    BY <1>4, <2>1, <2>3, <2>4 DEF Raised, CronTomb
  <2> QED  BY <2>1, <2>5 DEF TombStep, CronTomb
<1> QED  BY <1>1, <1>2, <1>3, <1>4 DEF CronTomb

LEMMA StepStore ==
  ASSUME LInv, NEW w \in Workers, Step(w), ~CreateAccess(w), ~CreateRefresh(w)
  PROVE  TombStep /\ AccessKeeps
<1> USE DEF history, store
<1>s. UNCHANGED <<access, tomb, dead>> => TombStep /\ AccessKeeps
  BY AccessSame DEF TombStep
<1>j. job[w].exp \in Nat /\ 0 \in Nat
  BY DEF LInv, TInv, TypeOK, Job
<1>1. CASE GetTomb(w)       BY <1>1, <1>s DEF GetTomb
<1>2. CASE GetCommit(w)     BY <1>2, <1>s, <1>j, CommitRaises DEF GetCommit
<1>3. CASE GetFamily(w)     BY <1>3, <1>s, AccessWithoutKeeps DEF GetFamily, Invalidate, MutateFamily, TombStep
<1>4. CASE DeleteFind(w)    BY <1>4, <1>s DEF DeleteFind
<1>5. CASE DeleteRow(w)     BY <1>5, <1>s DEF DeleteRow
<1>6. CASE RevokeCommit(w)  BY <1>6, <1>s, <1>j, CommitRaises DEF RevokeCommit
<1>7. CASE RevokeFamily(w)
  <2>1. UNCHANGED <<tomb, dead>> /\ (UNCHANGED access \/ \E S : access' = AccessWithout(S))
    BY <1>7 DEF RevokeFamily, MutateFamily
  <2> QED  BY <2>1, AccessWithoutKeeps, AccessSame DEF TombStep
<1>8. CASE AccessRead(w)    BY <1>8, <1>s DEF AccessRead
<1>9. CASE AccessDelete(w)  BY <1>9, AccessWithoutKeeps DEF AccessDelete, TombStep
<1>10. CASE RotateTomb(w)   BY <1>10, <1>s DEF RotateTomb
<1>11. CASE RotateCAS(w)    BY <1>11, <1>s DEF RotateCAS
<1>12. CASE RotateReread(w) BY <1>12, <1>s DEF RotateReread
<1>13. CASE RotateCommit(w) BY <1>13, <1>s, <1>j, CommitRaises DEF RotateCommit
<1>14. CASE RotateFamily(w) BY <1>14, <1>s, AccessWithoutKeeps DEF RotateFamily, Invalidate, MutateFamily, TombStep
<1>15. CASE CheckTomb(w)    BY <1>15, <1>s DEF CheckTomb
<1>16. CASE CheckRows(w)    BY <1>16, <1>s DEF CheckRows
<1>17. CASE Finish(w)       BY <1>17, <1>s DEF Finish
<1> QED  BY <1>1, <1>2, <1>3, <1>4, <1>5, <1>6, <1>7, <1>8, <1>9, <1>10, <1>11, <1>12,
            <1>13, <1>14, <1>15, <1>16, <1>17 DEF Step

LEMMA NextStore ==
  ASSUME LInv, cron.at <= now, [Next]_vars
  PROVE  TombStep /\ (AccessKeeps \/ \E w \in Workers : Inserts(w))
<1> USE DEF history, store
<1>s. UNCHANGED <<access, tomb, dead>> => TombStep /\ AccessKeeps
  BY AccessSame DEF TombStep
<1>1. ASSUME NEW w \in Workers, Arrive(w) PROVE TombStep /\ AccessKeeps
  BY <1>1, <1>s DEF Arrive, PresentRefresh, PresentAccess, Exchange, ReplayCode
<1>2. ASSUME NEW w \in Workers, CreateAccess(w)
      PROVE  TombStep /\ (AccessKeeps \/ \E v \in Workers : Inserts(v))
  <2>1. used # AccessSigs => FreshAccess \in AccessSigs
    BY DEF FreshAccess, LInv, TInv, TypeOK
  <2>2. CASE UNCHANGED access
    BY <1>2, <1>s, <2>2 DEF CreateAccess
  <2>3. CASE /\ ~HasTerminal(job[w].req) /\ TokensLeft(w)
             /\ access' = [access EXCEPT ![FreshAccess] =
                             [req |-> job[w].req, exp |-> job[w].since + AccessLife]]
    <3>1. Goto(w, "mkrefresh") \/ Reply(w, "tokens")
      BY <1>2, <2>3 DEF CreateAccess
    <3>2. pc'[w] # "mkaccess"
      BY <3>1 DEF Reply, Goto, LInv, TInv, TypeOK
    <3> QED  BY <1>2, <2>1, <2>3, <3>2 DEF CreateAccess, TokensLeft, Inserts, TombStep
  <2> QED  BY <1>2, <2>2, <2>3 DEF CreateAccess
<1>3. ASSUME NEW w \in Workers, CreateRefresh(w) PROVE TombStep /\ AccessKeeps
  <2>1. UNCHANGED access \/ \E S : access' = AccessWithout(S)
    BY <1>3 DEF CreateRefresh, RefuseTerminal
  <2> QED  BY <1>3, <2>1, AccessSame, AccessWithoutKeeps DEF CreateRefresh, TombStep
<1>4. ASSUME NEW w \in Workers, AccessFault(w) \/ Abort(w) PROVE TombStep /\ AccessKeeps
  BY <1>4, <1>s DEF AccessFault, Abort
<1>5. CASE CleanUp
  <2>1. ASSUME NEW a \in AccessSigs, CronAccess(a) PROVE TombStep /\ AccessKeeps
    BY <2>1, AccessSame, AccessWithoutKeeps DEF CronAccess, TombStep
  <2> QED  BY <1>5, <1>s, <2>1, CronTombStep
           DEF CleanUp, CronStart, CronQueryRefresh, CronQueryTombs, CronEnd, CronRefresh
<1>6. CASE Tick \/ UNCHANGED vars
  BY <1>6, <1>s DEF Tick, vars
<1> QED  BY <1>1, <1>2, <1>3, <1>4, <1>5, <1>6, StepStore DEF Next, Handlers

-----------------------------------------------------------------------------
\* What a step does to the handlers: one begins, ends or goes on.
Others(w) == \A v \in Workers : v # w => pc'[v] = pc[v] /\ job'[v] = job[v]

Begins(w) ==
  LET q == job'[w].req IN
  /\ pc[w] = "idle" /\ Others(w) /\ UNCHANGED <<store, now, dead>>
  /\ q \in Requests /\ job'[w].since = now /\ job'[w].reply = "none"
  /\ job'[w].doomed => q \in dead
  /\ \A p \in Requests : codeAt'[p] = -1 => p # q /\ codeAt[p] = -1
  /\ \/ /\ pc'[w] = "gettomb"
        /\ \E s \in RowsOf(q) : job'[w].sig = s /\ job'[w].exp = refresh[s].exp
     \/ pc'[w] = "chktomb" /\ \E a \in AccessOf(q) : job'[w].exp = access[a].exp
     \/ pc'[w] = "mkaccess" /\ codeAt[q] = -1
     \/ pc'[w] = "accread" /\ job'[w].then = "revcommit"

Ends(w) ==
  /\ pc[w] # "idle" /\ pc'[w] = "idle" /\ job'[w] = NoJob /\ Others(w)
  /\ UNCHANGED <<now, codeAt>>

GoesOn(w) ==
  LET q == job[w].req IN
  /\ pc[w] # "idle" /\ pc'[w] # "idle" /\ Others(w) /\ UNCHANGED <<now, codeAt>>
  /\ job'[w].req = q /\ job'[w].since = job[w].since /\ job'[w].doomed = job[w].doomed
  /\ pc'[w] \notin {"gettomb", "chktomb"}
  /\ job'[w].reply # "none" => pc'[w] = "replied"
  /\ MustBeDead(w)' => q \in dead'
  /\ Storing(w)' => Storing(w) \/ pc'[w] = "rotcas"
  /\ pc'[w] = "rotcas" => /\ pc[w] = "rottomb" /\ ~HasTerminal(q)
                          /\ job'[w].sig = job[w].sig /\ UNCHANGED refresh
  /\ pc'[w] = "chkrows" => pc[w] = "chktomb" /\ ~HasTerminal(q) /\ job'[w].exp = job[w].exp
  /\ job'[w].reply = "granted" =>
       /\ job'[w].exp = job[w].exp
       /\ pc[w] = "chkrows" \/ (pc[w] = "gettomb" /\ ~HasTerminal(q))
  /\ job'[w].reply = "tokens" => Storing(w) /\ pc[w] # "rotcas" /\ ~HasTerminal(q)

HInv == FamilyInv /\ DeathKnown /\ Timely /\ UnspentIsUntouched

LEMMA GotoGoesOn ==
  ASSUME HInv, NEW w \in Workers, NEW p \in PCs, Goto(w, p), UNCHANGED <<job, now, codeAt>>,
         pc[w] \notin {"idle", "replied"},
         p \notin {"idle", "gettomb", "chktomb", "replied", "accread", "accdel", "mkaccess", "mkrefresh"},
         p \in {"getfamily", "delfind", "delrow", "revfamily", "rotfamily"} => job[w].req \in dead',
         p = "rotcas" => pc[w] = "rottomb" /\ ~HasTerminal(job[w].req) /\ UNCHANGED refresh,
         p = "chkrows" => pc[w] = "chktomb" /\ ~HasTerminal(job[w].req)
  PROVE  GoesOn(w)
<1>1. pc'[w] = p /\ Others(w) /\ job' = job
  BY DEF Goto, Others, HInv, FamilyInv, LInv, TInv, TypeOK
<1>2. job[w].reply = "none"
  BY DEF HInv, Timely
<1> QED  BY <1>1, <1>2 DEF GoesOn, MustBeDead, Storing

LEMMA ReplyGoesOn ==
  ASSUME HInv, NEW w \in Workers, NEW r, Reply(w, r), UNCHANGED <<now, codeAt>>,
         pc[w] \notin {"idle", "replied"},
         r = "inactive" => job[w].req \in dead',
         r = "granted" => pc[w] = "chkrows" \/ (pc[w] = "gettomb" /\ ~HasTerminal(job[w].req)),
         r = "tokens" => pc[w] \in {"mkaccess", "mkrefresh"} /\ ~HasTerminal(job[w].req)
  PROVE  GoesOn(w)
<1>1. pc'[w] = "replied" /\ Others(w)
  BY DEF Reply, Goto, Others, HInv, FamilyInv, LInv, TInv, TypeOK
<1>2. job'[w] = [NoJob EXCEPT !.op = job[w].op, !.req = job[w].req,
                   !.since = job[w].since, !.doomed = job[w].doomed, !.reply = r,
                   !.exp = IF r = "granted" THEN job[w].exp ELSE 0]
  BY DEF Reply, HInv, FamilyInv, LInv, TInv, TypeOK
<1>3. /\ job'[w].req = job[w].req /\ job'[w].since = job[w].since
      /\ job'[w].doomed = job[w].doomed /\ job'[w].reply = r
      /\ r = "granted" => job'[w].exp = job[w].exp
  BY <1>2 DEF NoJob
<1> QED  BY <1>1, <1>3 DEF GoesOn, MustBeDead, Storing

\* The access clean-up begins, goes round or ends.
LEMMA LoopGoesOn ==
  ASSUME HInv, NEW w \in Workers, NEW p \in {"accread", "accdel"}, NEW n,
         pc' = [pc EXCEPT ![w] = p], pc[w] \notin {"idle", "replied"}, UNCHANGED <<now, codeAt>>,
         Others(w),
         job'[w].req = job[w].req, job'[w].since = job[w].since,
         job'[w].doomed = job[w].doomed, job'[w].reply = job[w].reply, job'[w].then = n,
         n \in {"inactive", "lost"} => job[w].req \in dead',
         n = "mkaccess" => Storing(w)
  PROVE  GoesOn(w)
<1>1. pc'[w] = p
  BY DEF HInv, FamilyInv, LInv, TInv, TypeOK
<1>2. job[w].reply = "none"
  BY DEF HInv, Timely
<1>3. MustBeDead(w)' => job[w].req \in dead'
  BY <1>1, <1>2 DEF MustBeDead
<1>4. Storing(w)' => Storing(w)
  BY <1>1 DEF Storing
<1> QED  BY <1>1, <1>2, <1>3, <1>4 DEF GoesOn

LEMMA DeleteGoesOn ==
  ASSUME HInv, NEW w \in Workers, NEW n, DeleteAccessThen(w, n),
         pc[w] \notin {"idle", "replied"}, UNCHANGED <<now, codeAt>>,
         n \in {"inactive", "lost"} => job[w].req \in dead',
         n = "mkaccess" => Storing(w)
  PROVE  GoesOn(w)
<1>1. /\ pc' = [pc EXCEPT ![w] = "accread"] /\ Others(w)
      /\ job'[w].req = job[w].req /\ job'[w].since = job[w].since
      /\ job'[w].doomed = job[w].doomed /\ job'[w].reply = job[w].reply /\ job'[w].then = n
  BY DEF DeleteAccessThen, Goto, Others, HInv, FamilyInv, LInv, TInv, TypeOK, Job
<1> QED  BY <1>1, LoopGoesOn

LEMMA AfterGoesOn ==
  ASSUME HInv, NEW w \in Workers, AfterAccess(w), pc[w] \in {"accread", "accdel"},
         UNCHANGED <<now, codeAt, dead>>
  PROVE  GoesOn(w)
<1>1. ASSUME NEW p \in {"mkaccess", "revcommit"}, Goto(w, p), job[w].then = p,
             job' = [job EXCEPT ![w].todo = {}]
      PROVE  GoesOn(w)
  <2>1. /\ pc'[w] = p /\ Others(w)
        /\ job'[w].req = job[w].req /\ job'[w].since = job[w].since
        /\ job'[w].doomed = job[w].doomed /\ job'[w].reply = job[w].reply
    BY <1>1 DEF Goto, Others, HInv, FamilyInv, LInv, TInv, TypeOK, Job
  <2>2. job[w].reply = "none"
    BY DEF HInv, Timely
  <2>3. ~MustBeDead(w)'
    BY <2>1, <2>2 DEF MustBeDead
  <2>4. Storing(w)' => Storing(w)
    BY <1>1, <2>1 DEF Storing
  <2> QED  BY <2>1, <2>2, <2>3, <2>4 DEF GoesOn
<1>2. job[w].then \in {"inactive", "lost"} => job[w].req \in dead'
  BY DEF HInv, DeathKnown, MustBeDead
<1> QED  BY <1>1, <1>2, ReplyGoesOn DEF AfterAccess

LEMMA StepGoesOn ==
  ASSUME HInv, NEW w \in Workers, Step(w), ~Finish(w)
  PROVE  GoesOn(w)
<1> USE DEF history, store
<1> DEFINE q == job[w].req
<1>t. LInv /\ TInv /\ job[w] \in Job
  BY DEF HInv, FamilyInv, LInv, TInv, TypeOK
<1>k. MustBeDead(w) => q \in dead
  BY DEF HInv, DeathKnown
<1>h. q \in Requests /\ HasTerminal(q) => q \in dead
  BY DEF HInv, DeathKnown, HasTerminal
<1>q. pc[w] # "idle" => q \in Requests
  BY <1>t DEF TInv, HandlerOK
<1>c. ASSUME NEW fam, NEW e, CommitTerminal(q, fam, e)
      PROVE  q \in dead' /\ UNCHANGED <<now, codeAt>>
  BY <1>c DEF CommitTerminal
<1>p. /\ {"getcommit", "getfamily", "delfind", "delrow", "revcommit", "revfamily",
           "rottomb", "rotcas", "reread", "rotcommit", "rotfamily", "chkrows"} \subseteq PCs
  BY DEF PCs
<1>r. pc[w] # "idle" => \A s \in RowsOf(q) : GetStatus(s) \in Terminal => q \in dead
  BY <1>q, RequestsAssumption DEF HInv, DeathKnown, RowsOf
<1>ina. ASSUME GetInactive(w), pc[w] \in {"gettomb", "getfamily"}, q \in dead', UNCHANGED <<now, codeAt>>
        PROVE  GoesOn(w)
  BY <1>p, <1>ina, GotoGoesOn, ReplyGoesOn DEF GetInactive
<1>fail. ASSUME RevokeFailed(w), pc[w] \in {"revcommit", "revfamily"}, UNCHANGED <<now, codeAt>>
         PROVE  GoesOn(w)
  BY <1>fail, ReplyGoesOn, DeleteGoesOn DEF RevokeFailed
<1>1. CASE GetTomb(w)
  <2>1. pc[w] = "gettomb" /\ UNCHANGED <<now, codeAt, dead, refresh>>
    BY <1>1 DEF GetTomb
  <2>2. CASE HasTerminal(q) /\ GetInactive(w)
    BY <1>h, <1>q, <1>ina, <2>1, <2>2
  <2>3. CASE ~HasTerminal(q) /\ GetAccepted(w)
    BY <1>p, <2>1, <2>3, GotoGoesOn, ReplyGoesOn DEF GetAccepted
  <2>4. CASE Goto(w, "getcommit") /\ UNCHANGED job
    BY <1>p, <2>1, <2>4, GotoGoesOn
  <2> QED  BY <1>1, <2>2, <2>3, <2>4 DEF GetTomb
<1>2. CASE GetCommit(w)
  <2>1. pc[w] = "getcommit"
    BY <1>2 DEF GetCommit
  <2>2. CASE CommitTerminal(q, job[w].family, job[w].exp) /\ Goto(w, "getfamily") /\ UNCHANGED job
    BY <1>p, <1>c, <2>1, <2>2, GotoGoesOn
  <2>3. CASE Reply(w, "error") /\ UNCHANGED history
    BY <2>1, <2>3, ReplyGoesOn
  <2> QED  BY <1>2, <2>2, <2>3 DEF GetCommit
<1>3. CASE GetFamily(w)
  <2>1. pc[w] = "getfamily" /\ UNCHANGED <<now, codeAt, dead>> /\ q \in dead
    BY <1>3, <1>k DEF GetFamily, Invalidate, MutateFamily, MustBeDead
  <2> QED  BY <1>3, <1>ina, <2>1, ReplyGoesOn DEF GetFamily
<1>4. CASE DeleteFind(w)
  <2>1. pc[w] = "delfind" /\ UNCHANGED <<now, codeAt, dead, job>> /\ q \in dead
    BY <1>4, <1>k DEF DeleteFind, MustBeDead
  <2>2. Goto(w, "revcommit") \/ Goto(w, "delrow")
    BY <1>4 DEF DeleteFind
  <2> QED  BY <1>p, <2>1, <2>2, GotoGoesOn
<1>5. CASE DeleteRow(w)
  BY <1>5, <1>p, GotoGoesOn DEF DeleteRow
<1>6. CASE RevokeCommit(w)
  <2>1. pc[w] = "revcommit"
    BY <1>6 DEF RevokeCommit
  <2>2. CASE CommitTerminal(q, NoSig, 0) /\ Goto(w, "revfamily") /\ UNCHANGED job
    BY <1>p, <1>c, <2>1, <2>2, GotoGoesOn
  <2>3. CASE RevokeFailed(w) /\ UNCHANGED history
    BY <1>fail, <2>1, <2>3
  <2> QED  BY <1>6, <2>2, <2>3 DEF RevokeCommit
<1>7. CASE RevokeFamily(w)
  <2>1. pc[w] = "revfamily" /\ UNCHANGED <<now, codeAt, dead>> /\ q \in dead
    BY <1>7, <1>k DEF RevokeFamily, MutateFamily, MustBeDead
  <2>2. \/ DeleteAccessThen(w, "inactive") \/ DeleteAccessThen(w, "done")
        \/ Reply(w, "revoked") \/ RevokeFailed(w)
    BY <1>7 DEF RevokeFamily
  <2> QED  BY <1>fail, <2>1, <2>2, ReplyGoesOn, DeleteGoesOn
<1>8. CASE AccessRead(w)
  <2>1. pc[w] = "accread" /\ UNCHANGED <<now, codeAt, dead>>
    BY <1>8 DEF AccessRead
  <2>2. CASE AfterAccess(w)
    BY <2>1, <2>2, AfterGoesOn
  <2>3. CASE Goto(w, "accdel") /\ job' = [job EXCEPT ![w].todo = AccessOf(q)]
    <3>1. /\ pc' = [pc EXCEPT ![w] = "accdel"] /\ Others(w)
          /\ job'[w].req = q /\ job'[w].since = job[w].since /\ job'[w].then = job[w].then
          /\ job'[w].doomed = job[w].doomed /\ job'[w].reply = job[w].reply
      BY <1>t, <2>3 DEF Goto, Others, TInv, TypeOK, Job
    <3> QED  BY <1>k, <2>1, <3>1, LoopGoesOn DEF MustBeDead, Storing
  <2> QED  BY <1>8, <2>2, <2>3 DEF AccessRead
<1>9. CASE AccessDelete(w)
  <2>1. pc[w] = "accdel" /\ UNCHANGED <<now, codeAt, dead>>
    BY <1>9 DEF AccessDelete
  <2>2. PICK a \in job[w].todo :
          AfterAccess(w) \/ (job' = [job EXCEPT ![w].todo = @ \ {a}] /\ UNCHANGED pc)
    BY <1>9 DEF AccessDelete
  <2>3. CASE AfterAccess(w)
    BY <2>1, <2>3, AfterGoesOn
  <2>4. CASE job' = [job EXCEPT ![w].todo = @ \ {a}] /\ UNCHANGED pc
    <3>1. /\ pc' = [pc EXCEPT ![w] = "accdel"] /\ Others(w)
          /\ job'[w].req = q /\ job'[w].since = job[w].since /\ job'[w].then = job[w].then
          /\ job'[w].doomed = job[w].doomed /\ job'[w].reply = job[w].reply
      BY <1>t, <2>1, <2>4 DEF Others, TInv, TypeOK, Job
    <3> QED  BY <1>k, <2>1, <3>1, LoopGoesOn DEF MustBeDead, Storing
  <2> QED  BY <2>2, <2>3, <2>4
<1>10. CASE RotateTomb(w)
  <2>1. pc[w] = "rottomb" /\ UNCHANGED <<now, codeAt, dead, refresh>>
    BY <1>10 DEF RotateTomb
  <2> QED  BY <1>10, <1>p, <1>h, <1>q, <2>1, GotoGoesOn, DeleteGoesOn DEF RotateTomb
<1>11. CASE RotateCAS(w)
  <2>1. pc[w] = "rotcas" /\ UNCHANGED <<now, codeAt, dead>>
    BY <1>11 DEF RotateCAS
  <2> QED  BY <1>11, <1>p, <2>1, GotoGoesOn, DeleteGoesOn DEF RotateCAS, CanRotate, Storing
<1>12. CASE RotateReread(w)
  <2>1. pc[w] = "reread" /\ pc'[w] = "rotcommit" /\ UNCHANGED <<now, codeAt, dead>> /\ Others(w)
    BY <1>12, <1>t DEF RotateReread, Goto, Others, TInv, TypeOK
  <2>2. /\ job'[w].req = q /\ job'[w].since = job[w].since
        /\ job'[w].doomed = job[w].doomed /\ job'[w].reply = job[w].reply
    <3>1. job'[w] = IF refresh[job[w].sig].req # NoRequest THEN Snapshot(job[w], job[w].sig)
                    ELSE [job[w] EXCEPT !.status = "absent", !.family = NoSig, !.exp = 0]
      BY <1>12, <1>t DEF RotateReread, TInv, TypeOK
    <3>2. \A s : /\ Snapshot(job[w], s).req = q /\ Snapshot(job[w], s).since = job[w].since
                /\ Snapshot(job[w], s).doomed = job[w].doomed
                /\ Snapshot(job[w], s).reply = job[w].reply
      BY <1>t DEF Snapshot, Job
    <3>3. ASSUME NEW j, j = [job[w] EXCEPT !.status = "absent", !.family = NoSig, !.exp = 0]
          PROVE  /\ j.req = q /\ j.since = job[w].since
                 /\ j.doomed = job[w].doomed /\ j.reply = job[w].reply
      BY <1>t, <3>3 DEF Job
    <3> QED  BY <3>1, <3>2, <3>3
  <2>3. job[w].reply = "none"
    BY <2>1 DEF HInv, Timely
  <2> QED  BY <2>1, <2>2, <2>3 DEF GoesOn, MustBeDead, Storing
<1>13. CASE RotateCommit(w)
  <2>1. pc[w] = "rotcommit"
    BY <1>13 DEF RotateCommit
  <2>2. CASE CommitTerminal(q, job[w].family, job[w].exp) /\ Goto(w, "rotfamily") /\ UNCHANGED job
    BY <1>p, <1>c, <2>1, <2>2, GotoGoesOn
  <2>3. CASE CommitTerminal(q, job[w].family, job[w].exp) /\ DeleteAccessThen(w, "lost")
    BY <1>c, <2>1, <2>3, DeleteGoesOn
  <2>4. CASE Reply(w, "error") /\ UNCHANGED history
    BY <2>1, <2>4, ReplyGoesOn
  <2> QED  BY <1>13, <2>2, <2>3, <2>4 DEF RotateCommit
<1>14. CASE RotateFamily(w)
  <2>1. pc[w] = "rotfamily" /\ UNCHANGED <<now, codeAt, dead>> /\ q \in dead
    BY <1>14, <1>k DEF RotateFamily, Invalidate, MutateFamily, MustBeDead
  <2> QED  BY <1>14, <2>1, ReplyGoesOn, DeleteGoesOn DEF RotateFamily
<1>15. CASE CreateAccess(w)
  <2>1. pc[w] = "mkaccess" /\ UNCHANGED <<now, codeAt, dead>>
    BY <1>15 DEF CreateAccess
  <2>2. CASE HasTerminal(q) /\ Reply(w, "inactive")
    BY <1>h, <1>q, <2>1, <2>2, ReplyGoesOn
  <2>3. CASE ~HasTerminal(q) /\ Reply(w, "tokens")
    BY <2>1, <2>3, ReplyGoesOn
  <2>4. CASE Goto(w, "mkrefresh") /\ job' = [job EXCEPT ![w].cand = FreshAccess]
    <3>1. /\ pc'[w] = "mkrefresh" /\ Others(w)
          /\ job'[w].req = q /\ job'[w].since = job[w].since
          /\ job'[w].doomed = job[w].doomed /\ job'[w].reply = job[w].reply
      BY <1>t, <2>4 DEF Goto, Others, TInv, TypeOK, Job
    <3>2. job[w].reply = "none"
      BY <2>1 DEF HInv, Timely
    <3> QED  BY <2>1, <3>1, <3>2 DEF GoesOn, MustBeDead, Storing
  <2> QED  BY <1>15, <2>2, <2>3, <2>4 DEF CreateAccess
<1>16. CASE CreateRefresh(w)
  <2>1. pc[w] = "mkrefresh" /\ UNCHANGED <<now, codeAt, dead>>
    BY <1>16 DEF CreateRefresh
  <2>2. CASE LineageTerminal(q) /\ Reply(w, "inactive")
    BY <1>h, <1>q, <1>r, <2>1, <2>2, ReplyGoesOn DEF LineageTerminal
  <2>3. CASE \E r \in {"error", "serialization"} : Reply(w, r)
    BY <2>1, <2>3, ReplyGoesOn
  <2>4. CASE ~LineageTerminal(q) /\ Reply(w, "tokens")
    BY <2>1, <2>4, ReplyGoesOn DEF LineageTerminal
  <2> QED  BY <1>16, <2>2, <2>3, <2>4 DEF CreateRefresh
<1>17. CASE CheckTomb(w)
  <2>1. pc[w] = "chktomb" /\ UNCHANGED <<now, codeAt, dead>>
    BY <1>17 DEF CheckTomb
  <2> QED  BY <1>17, <1>p, <1>h, <1>q, <2>1, GotoGoesOn, ReplyGoesOn DEF CheckTomb
<1>18. CASE CheckRows(w)
  <2>1. pc[w] = "chkrows" /\ UNCHANGED <<now, codeAt, dead>>
    BY <1>18 DEF CheckRows
  <2>2. CASE (\E s \in RowsOf(q) : GetStatus(s) \in Terminal) /\ Reply(w, "inactive")
    <3>1. q \in dead
      BY <1>r, <2>1, <2>2
    <3>2. Reply(w, "inactive")
      BY <2>2
    <3> QED  BY <2>1, <3>1, <3>2, ReplyGoesOn
  <2>3. CASE Reply(w, "granted")
    <3>1. pc[w] = "chkrows" \/ (pc[w] = "gettomb" /\ ~HasTerminal(job[w].req))
      BY <2>1
    <3> QED  BY <2>1, <2>3, <3>1, ReplyGoesOn
  <2>4. CASE Goto(w, "revcommit") /\ UNCHANGED job
    BY <1>p, <2>1, <2>4, GotoGoesOn
  <2> QED  BY <1>18, <2>2, <2>3, <2>4 DEF CheckRows
<1> QED  BY <1>1, <1>2, <1>3, <1>4, <1>5, <1>6, <1>7, <1>8, <1>9, <1>10, <1>11, <1>12,
            <1>13, <1>14, <1>15, <1>16, <1>17, <1>18 DEF Step

LEMMA ArriveBegins ==
  ASSUME HInv, NEW w \in Workers, Arrive(w)
  PROVE  Begins(w)
<1> USE DEF history, store
<1>t. LInv /\ TInv
  BY DEF HInv, FamilyInv, LInv
\* Begin stores the job with its time.
<1>b. ASSUME NEW p, NEW j \in Job, Begin(w, p, j)
      PROVE  /\ pc[w] = "idle" /\ pc'[w] = p /\ Others(w)
             /\ job'[w].req = j.req /\ job'[w].sig = j.sig /\ job'[w].exp = j.exp
             /\ job'[w].then = j.then /\ job'[w].reply = j.reply
             /\ job'[w].since = now /\ job'[w].doomed = (j.req \in dead)
  BY <1>t, <1>b DEF Begin, Goto, Others, TInv, TypeOK, Job
<1>1. ASSUME NEW s \in RefreshSigs, NEW e \in {"refresh", "revoke", "check"}, PresentRefresh(w, s, e)
      PROVE  Begins(w)
  <2> DEFINE j0 == [NoJob EXCEPT !.op = e, !.sig = s, !.req = refresh[s].req]
  <2> DEFINE j == Snapshot(j0, s)
  <2>1. refresh[s].req \in Requests
    BY <1>t, <1>1 DEF PresentRefresh, TInv, TypeOK, RefreshRow
  <2>2. j0 \in Job /\ j0.req = refresh[s].req /\ j0.sig = s /\ j0.then = "none" /\ j0.reply = "none"
    BY <2>1 DEF NoJob, Job, Ops, Replies
  <2>3. j \in Job
    <3> HIDE DEF j0
    <3> QED  BY <1>t, <2>2, SnapshotTyped DEF TInv
  <2>4. /\ j.req = refresh[s].req /\ j.sig = s /\ j.exp = refresh[s].exp
        /\ j.then = "none" /\ j.reply = "none"
    <3> HIDE DEF j0
    <3> QED  BY <2>2 DEF Snapshot, Job
  <2>5. Begin(w, "gettomb", j) /\ UNCHANGED <<store, history>>
    BY <1>1 DEF PresentRefresh
  <2> HIDE DEF j
  <2>6. /\ pc[w] = "idle" /\ pc'[w] = "gettomb" /\ Others(w)
        /\ job'[w].req = refresh[s].req /\ job'[w].sig = s /\ job'[w].exp = refresh[s].exp
        /\ job'[w].reply = "none"
        /\ job'[w].since = now /\ job'[w].doomed = (refresh[s].req \in dead)
    BY <1>b, <2>3, <2>4, <2>5
  <2>7. codeAt[refresh[s].req] # -1 /\ s \in RowsOf(refresh[s].req)
    BY <1>t, <2>1 DEF LInv, UnspentIsEmpty, RowsOf
  <2> QED  BY <2>1, <2>5, <2>6, <2>7 DEF Begins
<1>2. ASSUME NEW a \in AccessSigs, NEW e \in {"check", "revoke"}, PresentAccess(w, a, e)
      PROVE  Begins(w)
  <2> DEFINE j == [NoJob EXCEPT !.op = e, !.req = access[a].req, !.exp = access[a].exp]
  <2>1. access[a].req \in Requests /\ access[a].exp \in Nat
    BY <1>t, <1>2 DEF PresentAccess, AccessRow, TInv, TypeOK
  <2>2. /\ j \in Job /\ j.req = access[a].req /\ j.exp = access[a].exp
        /\ j.then = "none" /\ j.reply = "none"
    BY <2>1 DEF NoJob, Job, Ops, Replies
  <2>3. Begin(w, "chktomb", j) /\ UNCHANGED <<store, history>>
    BY <1>2 DEF PresentAccess
  <2> HIDE DEF j
  <2>4. /\ pc[w] = "idle" /\ pc'[w] = "chktomb" /\ Others(w)
        /\ job'[w].req = access[a].req /\ job'[w].exp = access[a].exp /\ job'[w].reply = "none"
        /\ job'[w].since = now /\ job'[w].doomed = (access[a].req \in dead)
    BY <1>b, <2>2, <2>3
  <2>5. a \in AccessOf(access[a].req) /\ codeAt[access[a].req] # -1
    BY <2>1 DEF AccessOf, HInv, UnspentIsUntouched
  <2> QED  BY <2>1, <2>3, <2>4, <2>5 DEF Begins
<1>3. ASSUME NEW q \in Requests, NEW k \in {"exchange", "accessonly"}, Exchange(w, q, k)
      PROVE  Begins(w)
  <2> DEFINE j == [NoJob EXCEPT !.op = k, !.req = q]
  <2>1. j \in Job /\ j.req = q /\ j.then = "none" /\ j.reply = "none"
    BY DEF NoJob, Job, Ops, Replies
  <2>2. /\ Begin(w, "mkaccess", j) /\ UNCHANGED <<store, now, dead>> /\ codeAt[q] = -1
        /\ codeAt' = [codeAt EXCEPT ![q] = now]
    BY <1>3 DEF Exchange
  <2>3. \A p \in Requests : codeAt'[p] = -1 => p # q /\ codeAt[p] = -1
    BY <1>t, <2>2 DEF TInv, TypeOK
  <2> HIDE DEF j
  <2>4. /\ pc[w] = "idle" /\ pc'[w] = "mkaccess" /\ Others(w)
        /\ job'[w].req = q /\ job'[w].reply = "none"
        /\ job'[w].since = now /\ job'[w].doomed = (q \in dead)
    BY <1>b, <2>1, <2>2
  <2> QED  BY <2>2, <2>3, <2>4 DEF Begins
<1>4. ASSUME NEW q \in Requests, ReplayCode(w, q)
      PROVE  Begins(w)
  <2> DEFINE j == [NoJob EXCEPT !.op = "replay", !.req = q, !.then = "revcommit"]
  <2>1. j \in Job /\ j.req = q /\ j.then = "revcommit" /\ j.reply = "none"
    BY DEF NoJob, Job, Ops, Replies
  <2>2. Begin(w, "accread", j) /\ UNCHANGED <<store, history>> /\ codeAt[q] # -1
    BY <1>4 DEF ReplayCode
  <2> HIDE DEF j
  <2>3. /\ pc[w] = "idle" /\ pc'[w] = "accread" /\ Others(w)
        /\ job'[w].req = q /\ job'[w].then = "revcommit" /\ job'[w].reply = "none"
        /\ job'[w].since = now /\ job'[w].doomed = (q \in dead)
    BY <1>b, <2>1, <2>2
  <2> QED  BY <2>2, <2>3 DEF Begins
<1> QED  BY <1>1, <1>2, <1>3, <1>4 DEF Arrive

LEMMA NextHandlers ==
  ASSUME HInv, [Next]_vars
  PROVE  \/ UNCHANGED <<pc, job, codeAt>>
         \/ \E w \in Workers : Begins(w) \/ Ends(w) \/ GoesOn(w)
<1> USE DEF history, store
<1>t. pc \in [Workers -> PCs] /\ job \in [Workers -> Job]
  BY DEF HInv, FamilyInv, LInv, TInv, TypeOK
<1>1. ASSUME NEW w \in Workers, Finish(w) \/ Abort(w) PROVE Ends(w)
  BY <1>t, <1>1 DEF Finish, Abort, Goto, Ends, Others
<1>2. ASSUME NEW w \in Workers, AccessFault(w) PROVE GoesOn(w)
  BY <1>2, AfterGoesOn DEF AccessFault
<1>3. CASE CleanUp \/ Tick \/ UNCHANGED vars
  BY <1>3 DEF CleanUp, CronStart, CronQueryRefresh, CronQueryTombs, CronEnd,
              CronAccess, CronRefresh, CronTomb, Tick, vars
<1> QED  BY <1>1, <1>2, <1>3, StepGoesOn, ArriveBegins DEF Next, Handlers

LEMMA NextTime ==
  ASSUME HInv, [Next]_vars
  PROVE  cron'.at <= now' /\ (UNCHANGED now \/ Tick)
<1> USE DEF history, store
<1>t. now \in Nat /\ cron \in Cron /\ cron.at <= now
  BY DEF HInv, Timely, FamilyInv, LInv, TInv, TypeOK
<1>1. ASSUME NEW w \in Workers, Arrive(w) PROVE UNCHANGED <<cron, now>>
  BY <1>1 DEF Arrive, PresentRefresh, PresentAccess, Exchange, ReplayCode
<1>2. ASSUME NEW w \in Workers, Step(w) PROVE UNCHANGED <<cron, now>>
  <2> USE <1>2 DEF CommitTerminal, Invalidate, MutateFamily
  <2>1. CASE GetTomb(w) \/ GetCommit(w) \/ GetFamily(w) \/ DeleteFind(w) \/ DeleteRow(w)
    BY <2>1 DEF GetTomb, GetCommit, GetFamily, DeleteFind, DeleteRow
  <2>2. CASE RevokeCommit(w) \/ RevokeFamily(w) \/ AccessRead(w) \/ AccessDelete(w)
    BY <2>2 DEF RevokeCommit, RevokeFamily, AccessRead, AccessDelete
  <2>3. CASE RotateTomb(w) \/ RotateCAS(w) \/ RotateReread(w) \/ RotateCommit(w) \/ RotateFamily(w)
    BY <2>3 DEF RotateTomb, RotateCAS, RotateReread, RotateCommit, RotateFamily
  <2>4. CASE CreateAccess(w) \/ CreateRefresh(w) \/ CheckTomb(w) \/ CheckRows(w) \/ Finish(w)
    BY <2>4 DEF CreateAccess, CreateRefresh, CheckTomb, CheckRows, Finish
  <2> QED  BY <2>1, <2>2, <2>3, <2>4 DEF Step
<1>3. ASSUME NEW w \in Workers, AccessFault(w) \/ Abort(w) PROVE UNCHANGED <<cron, now>>
  BY <1>3 DEF AccessFault, Abort
<1>4. CASE CleanUp
  <2>1. UNCHANGED now
    BY <1>4 DEF CleanUp, CronStart, CronQueryRefresh, CronQueryTombs, CronEnd,
                CronAccess, CronRefresh, CronTomb
  <2>2. cron'.at \in {cron.at, now, 0}
    <3>1. CASE CronEnd
      BY <3>1 DEF CronEnd, NoCron
    <3>2. CASE CronStart \/ CronQueryRefresh \/ CronQueryTombs
      BY <1>t, <3>2 DEF CronStart, CronQueryRefresh, CronQueryTombs, Cron
    <3>3. ASSUME NEW a, CronAccess(a) \/ CronRefresh(a) \/ CronTomb(a) PROVE cron'.at = cron.at
      BY <1>t, <3>3 DEF CronAccess, CronRefresh, CronTomb, Cron
    <3> QED  BY <1>4, <3>1, <3>2, <3>3 DEF CleanUp
  <2> QED  BY <1>t, <2>1, <2>2
<1>5. CASE Tick
  <2>1. now' = now + 1 /\ UNCHANGED cron
    BY <1>5 DEF Tick
  <2>2. cron.at \in Nat /\ cron'.at = cron.at
    BY <1>t, <2>1 DEF Cron
  <2> QED  BY <1>t, <1>5, <2>1, <2>2
<1>6. CASE UNCHANGED vars
  BY <1>t, <1>6 DEF vars
<1> QED  BY <1>t, <1>1, <1>2, <1>3, <1>4, <1>5, <1>6 DEF Next, Handlers

-----------------------------------------------------------------------------
\* What a step does to the rows of a dead request.

\* Handlers change the rows of dead requests only, but for a rotation and an
\* INSERT; the clean-up deletes one row at a time.
DeadOnly ==
  \A s \in RefreshSigs : refresh'[s] = refresh[s] \/ refresh[s].req \in dead \cup {NoRequest}
Deletes(s) == refresh' = RefreshWithout({s}) /\ UNCHANGED issued

\* A family belongs to one request, so the rows condemned are the handler's.
LEMMA CondemnedDead ==
  ASSUME NEW rows, NEW st, MutateFamily(rows, st),
         \A s \in rows : s \in RefreshSigs /\ refresh[s].req # NoRequest => refresh[s].req \in dead
  PROVE  DeadOnly
BY DEF DeadOnly, MutateFamily

LEMMA InvalidateDead ==
  ASSUME HInv, NEW w \in Workers, pc[w] \in {"getfamily", "rotfamily"}, Invalidate(job[w])
  PROVE  DeadOnly
<1> DEFINE q == job[w].req
<1>1. q \in dead /\ q \in Requests
  BY DEF HInv, DeathKnown, MustBeDead, FamilyInv, LInv, TInv, HandlerOK
<1>2. ASSUME NEW s \in FamilyOfJob(job[w]), s \in RefreshSigs, refresh[s].req # NoRequest
      PROVE  refresh[s].req = q
  <2>1. CASE job[w].family = NoSig
    BY <1>2, <2>1 DEF FamilyOfJob, HInv, FamilyInv, LInv, SigOfRequest, SigPCs
  <2>2. CASE job[w].family # NoSig
    <3>1. refresh[s].family = job[w].family /\ job[w].family \in RefreshSigs
      BY <1>2, <2>2 DEF FamilyOfJob, FamilyRows, HInv, FamilyInv, LInv, TInv, TypeOK, Job
    <3>2. refresh[s].req \in Requests
      BY <1>2 DEF HInv, FamilyInv, LInv, TInv, TypeOK, RefreshRow
    <3>3. Claims(job[w].family, q) /\ Claims(job[w].family, refresh[s].req)
      BY <1>2, <3>1 DEF Claims
    <3> QED  BY <1>1, <3>1, <3>2, <3>3 DEF HInv, FamilyInv, FamilyOwned
  <2> QED  BY <2>1, <2>2
<1> QED  BY <1>1, <1>2, CondemnedDead DEF Invalidate

LEMMA RevokeDead ==
  ASSUME HInv, NEW w \in Workers, pc[w] = "revfamily", RevokeAllowed(job[w].req),
         MutateFamily(UNION {FamilyRows(refresh[s].family) : s \in RowsOf(job[w].req)}, "revoked")
  PROVE  DeadOnly
<1> DEFINE q == job[w].req
<1> DEFINE rows == UNION {FamilyRows(refresh[s].family) : s \in RowsOf(q)}
<1>1. q \in dead /\ q \in Requests
  BY DEF HInv, DeathKnown, MustBeDead, FamilyInv, LInv, TInv, HandlerOK
<1>2. ASSUME NEW t \in rows, t \in RefreshSigs, refresh[t].req # NoRequest
      PROVE  refresh[t].req = q
  <2>1. PICK s \in RowsOf(q) : t \in FamilyRows(refresh[s].family)
    BY <1>2
  <2>2. /\ s \in RefreshSigs /\ refresh[s].req = q /\ refresh[t].family = refresh[s].family
        /\ refresh[s].family \in RefreshSigs
    BY <2>1 DEF RowsOf, FamilyRows, RevokeAllowed, HInv, FamilyInv, LInv, TInv, TypeOK, RefreshRow
  <2>3. refresh[t].req \in Requests
    BY <1>2 DEF HInv, FamilyInv, LInv, TInv, TypeOK, RefreshRow
  <2>4. Claims(refresh[s].family, q) /\ Claims(refresh[s].family, refresh[t].req)
    BY <1>2, <2>2 DEF Claims
  <2> QED  BY <1>1, <2>2, <2>3, <2>4 DEF HInv, FamilyInv, FamilyOwned
<1> HIDE DEF rows
<1>3. MutateFamily(rows, "revoked")
  BY DEF rows
<1> QED  BY <1>1, <1>2, <1>3, CondemnedDead

LEMMA StepRows ==
  ASSUME HInv, NEW w \in Workers, Step(w), ~RotateCAS(w), ~CreateRefresh(w)
  PROVE  DeadOnly
<1> USE DEF history, store
<1>s. UNCHANGED refresh => DeadOnly
  BY DEF DeadOnly
<1>1. CASE GetTomb(w)       BY <1>1, <1>s DEF GetTomb
<1>2. CASE GetCommit(w)     BY <1>2, <1>s DEF GetCommit, CommitTerminal
<1>3. CASE GetFamily(w)     BY <1>3, <1>s, InvalidateDead DEF GetFamily
<1>4. CASE DeleteFind(w)    BY <1>4, <1>s DEF DeleteFind
<1>5. CASE DeleteRow(w)
  <2>1. /\ job[w].req \in dead /\ refresh[job[w].sig].req \in {job[w].req, NoRequest}
        /\ refresh' = RefreshWithout({job[w].sig})
    BY <1>5 DEF DeleteRow, HInv, DeathKnown, MustBeDead, FamilyInv, LInv, SigOfRequest, SigPCs
  <2> QED  BY <2>1 DEF DeadOnly, RefreshWithout
<1>6. CASE RevokeCommit(w)  BY <1>6, <1>s DEF RevokeCommit, CommitTerminal
<1>7. CASE RevokeFamily(w)  BY <1>7, <1>s, RevokeDead DEF RevokeFamily
<1>8. CASE AccessRead(w)    BY <1>8, <1>s DEF AccessRead
<1>9. CASE AccessDelete(w)  BY <1>9, <1>s DEF AccessDelete
<1>10. CASE RotateTomb(w)   BY <1>10, <1>s DEF RotateTomb
<1>11. CASE RotateReread(w) BY <1>11, <1>s DEF RotateReread
<1>12. CASE RotateCommit(w) BY <1>12, <1>s DEF RotateCommit, CommitTerminal
<1>13. CASE RotateFamily(w) BY <1>13, <1>s, InvalidateDead DEF RotateFamily
<1>14. CASE CreateAccess(w) BY <1>14, <1>s DEF CreateAccess
<1>15. CASE CheckTomb(w)    BY <1>15, <1>s DEF CheckTomb
<1>16. CASE CheckRows(w)    BY <1>16, <1>s DEF CheckRows
<1>17. CASE Finish(w)       BY <1>17, <1>s DEF Finish
<1> QED  BY <1>1, <1>2, <1>3, <1>4, <1>5, <1>6, <1>7, <1>8, <1>9, <1>10, <1>11, <1>12,
            <1>13, <1>14, <1>15, <1>16, <1>17 DEF Step

LEMMA NextRows ==
  ASSUME HInv, [Next]_vars
  PROVE  \/ TableKeeps /\ DeadOnly
         \/ \E s \in RefreshSigs : Deletes(s) \/ Spends(s)
         \/ \E w \in Workers : \E parent : Stores(w, parent)
<1> USE DEF history, store
<1>l. LInv
  BY DEF HInv, FamilyInv
<1>s. UNCHANGED <<refresh, issued>> => TableKeeps /\ DeadOnly
  BY SameRows DEF TableKeeps, DeadOnly
<1>1. ASSUME NEW w \in Workers, Arrive(w) PROVE TableKeeps /\ DeadOnly
  BY <1>1, <1>s DEF Arrive, PresentRefresh, PresentAccess, Exchange, ReplayCode
<1>2. ASSUME NEW w \in Workers, RotateCAS(w)
      PROVE  (TableKeeps /\ DeadOnly) \/ \E s \in RefreshSigs : Spends(s)
  <2>1. job[w].sig \in RefreshSigs
    BY <1>2, <1>l DEF RotateCAS, SigPCs, LInv, TInv, HandlerOK
  <2> QED  BY <1>2, <1>s, <2>1 DEF RotateCAS, Spends
<1>3. ASSUME NEW w \in Workers, CreateRefresh(w)
      PROVE  (TableKeeps /\ DeadOnly) \/ \E parent : Stores(w, parent)
  BY <1>3, <1>s DEF CreateRefresh, Stores
<1>4. ASSUME NEW w \in Workers, AccessFault(w) \/ Abort(w) PROVE TableKeeps /\ DeadOnly
  BY <1>4, <1>s DEF AccessFault, Abort
<1>5. CASE CleanUp
  BY <1>5, <1>s DEF CleanUp, CronStart, CronQueryRefresh, CronQueryTombs, CronEnd,
                    CronAccess, CronRefresh, CronTomb, Deletes
<1>6. CASE Tick \/ UNCHANGED vars
  BY <1>6, <1>s DEF Tick, vars
<1> QED  BY <1>1, <1>2, <1>3, <1>4, <1>5, <1>6, StepTable, StepRows DEF Next, Handlers

\* A row found terminal belongs to a dead request.
RowsDead == \A s \in RefreshSigs :
  refresh[s].req # NoRequest /\ GetStatus(s) \in Terminal => refresh[s].req \in dead

LEMMA NextRowsDead ==
  ASSUME HInv, [Next]_vars, dead \subseteq dead'
  PROVE  RowsDead'
<1> SUFFICES ASSUME NEW s \in RefreshSigs, refresh'[s].req # NoRequest, GetStatus(s)' \in Terminal
             PROVE  refresh'[s].req \in dead
  BY DEF RowsDead
<1>l. LInv
  BY DEF HInv, FamilyInv
<1>d. refresh[s].req # NoRequest /\ GetStatus(s) \in Terminal => refresh[s].req \in dead
  BY DEF HInv, DeathKnown
<1>1. CASE TableKeeps /\ DeadOnly
  <2>1. refresh'[s].req = refresh[s].req
    BY <1>l, <1>1, RowAfter
  <2> QED  BY <1>d, <1>1, <2>1 DEF DeadOnly, GetStatus
<1>2. ASSUME NEW t \in RefreshSigs, Deletes(t) PROVE refresh'[s].req \in dead
  BY <1>d, <1>2 DEF Deletes, RefreshWithout, NoRefreshRow, GetStatus
<1>3. ASSUME NEW t \in RefreshSigs, Spends(t) PROVE refresh'[s].req \in dead
  <2>1. refresh'[s].req = refresh[s].req /\ GetStatus(s)' = GetStatus(s)
    BY <1>l, <1>3, SpentRow DEF Terminal
  <2> QED  BY <1>d, <2>1
<1>4. ASSUME NEW w \in Workers, NEW parent, Stores(w, parent) PROVE refresh'[s].req \in dead
  <2>1. PICK f : f = FreshRefresh
    OBVIOUS
  <2>2. /\ f \in RefreshSigs /\ refresh'[f].status = "active"
        /\ \A t \in RefreshSigs : t # f => refresh'[t] = refresh[t]
    BY <1>l, <1>4, <2>1, Stored
  <2>3. s # f
    BY <2>2 DEF GetStatus, Terminal
  <2> QED  BY <1>d, <2>2, <2>3 DEF GetStatus
<1> QED  BY <1>1, <1>2, <1>3, <1>4, NextRows

-----------------------------------------------------------------------------
\* The invariant is inductive.

\* The lemmas above, as every conjunct needs them.
HStep(v) ==
  \/ pc'[v] = pc[v] /\ job'[v] = job[v]
  \/ Begins(v) \/ Ends(v) \/ GoesOn(v)
TableStep ==
  \/ TableKeeps
  \/ \E s \in RefreshSigs : Spends(s)
  \/ \E w \in Workers : \E parent : Stores(w, parent)
NextFacts ==
  /\ TombStep
  /\ AccessKeeps \/ \E w \in Workers : Inserts(w)
  /\ TableStep
  /\ \A v \in Workers : HStep(v)
  /\ cron'.at <= now' /\ (UNCHANGED now \/ Tick)
  /\ now \in Nat /\ now' \in Nat /\ now <= now' /\ cron.at \in Nat /\ cron.at <= now
  /\ dead \subseteq dead'
  /\ \A q \in dead' : q \notin dead => Raised(q)
  /\ \A q \in Requests : \/ tomb'[q] = tomb[q]
                          \/ Raised(q) \/ Dropped(q)
  /\ LInv /\ LInv'

LEMMA Facts ==
  ASSUME DeathInv, [Next]_vars
  PROVE  NextFacts
<1>1. HInv /\ LInv /\ LInv' /\ cron.at <= now
  BY LeafNext DEF DeathInv, HInv, FamilyInv, Timely
<1>2. TombStep /\ (AccessKeeps \/ \E w \in Workers : Inserts(w))
  BY <1>1, NextStore
<1>3. TableStep
  BY <1>1, NextTable DEF TableStep
<1>4. \A v \in Workers : HStep(v)
  BY <1>1, NextHandlers DEF HStep, Begins, Ends, GoesOn, Others
<1>5. cron'.at <= now' /\ (UNCHANGED now \/ Tick)
  BY <1>1, NextTime
<1>6. now \in Nat /\ now' \in Nat /\ cron.at \in Nat
  BY <1>1 DEF LInv, TInv, TypeOK, Cron
<1>7. now <= now'
  BY <1>5, <1>6 DEF Tick
<1>8. /\ dead \subseteq dead'
      /\ \A q \in dead' : q \notin dead => Raised(q)
      /\ \A q \in Requests : tomb'[q] = tomb[q] \/ Raised(q) \/ Dropped(q)
  <2>1. CASE UNCHANGED <<tomb, dead>>
    BY <2>1
  <2>2. ASSUME NEW q, Raised(q) \/ Dropped(q), \A p \in Requests : p # q => tomb'[p] = tomb[p]
        PROVE  /\ dead \subseteq dead'
               /\ \A p \in dead' : p \notin dead => Raised(p)
               /\ \A p \in Requests : tomb'[p] = tomb[p] \/ Raised(p) \/ Dropped(p)
    <3>1. dead \subseteq dead' /\ \A p \in dead' : p \notin dead => p = q /\ Raised(q)
      BY <2>2 DEF Raised, Dropped
    <3> QED  BY <2>2, <3>1
  <2> QED  BY <1>2, <2>1, <2>2 DEF TombStep
<1> QED  BY <1>1, <1>2, <1>3, <1>4, <1>5, <1>6, <1>7, <1>8 DEF NextFacts

LEMMA DeathKnownNext ==
  ASSUME DeathInv, [Next]_vars, NextFacts
  PROVE  DeathKnown'
<1>1. \A q \in Requests : tomb'[q].present => q \in dead'
  <2> SUFFICES ASSUME NEW q \in Requests, tomb'[q].present PROVE q \in dead'
    OBVIOUS
  <2>1. CASE tomb'[q] = tomb[q]
    BY <2>1 DEF NextFacts, DeathInv, DeathKnown
  <2>2. CASE Raised(q)
    BY <2>2 DEF Raised, DeathInv, DeathKnown
  <2>3. CASE Dropped(q)
    BY <2>3 DEF Dropped, NoTomb
  <2> QED  BY <2>1, <2>2, <2>3 DEF NextFacts
<1>2. RowsDead'
  BY NextRowsDead DEF NextFacts, DeathInv, HInv
<1>3. ASSUME NEW v \in Workers, MustBeDead(v)' \/ job'[v].doomed PROVE job'[v].req \in dead'
  <2>k. MustBeDead(v) \/ job[v].doomed => job[v].req \in dead'
    BY DEF NextFacts, DeathInv, DeathKnown
  <2>1. CASE pc'[v] = pc[v] /\ job'[v] = job[v]
    BY <1>3, <2>k, <2>1 DEF MustBeDead
  <2>2. CASE Begins(v)
    BY <1>3, <2>2 DEF Begins, MustBeDead
  <2>3. CASE Ends(v)
    BY <1>3, <2>3 DEF Ends, MustBeDead, NoJob
  <2>4. CASE GoesOn(v)
    BY <1>3, <2>k, <2>4 DEF GoesOn
  <2> QED  BY <2>1, <2>2, <2>3, <2>4 DEF NextFacts, HStep
<1> QED  BY <1>1, <1>2, <1>3 DEF DeathKnown, RowsDead

LEMMA TimelyNext ==
  ASSUME DeathInv, [Next]_vars, NextFacts
  PROVE  Timely'
<1>1. ASSUME NEW v \in Workers
      PROVE  /\ pc'[v] # "idle" => job'[v].since <= now' /\ now' <= job'[v].since + MaxPause
             /\ job'[v].reply # "none" => pc'[v] = "replied"
  <2>1. CASE pc'[v] = pc[v] /\ job'[v] = job[v]
    <3>1. job[v].since \in Nat
      BY DEF NextFacts, LInv, TInv, TypeOK, Job
    <3> QED  BY <2>1, <3>1, TimesAssumption DEF NextFacts, Tick, DeathInv, Timely
  <2>2. CASE Begins(v)
    BY <2>2, TimesAssumption DEF Begins, NextFacts
  <2>3. CASE Ends(v)
    BY <2>3 DEF Ends, NoJob
  <2>4. CASE GoesOn(v)
    BY <2>4 DEF GoesOn, DeathInv, Timely
  <2> QED  BY <2>1, <2>2, <2>3, <2>4 DEF NextFacts, HStep
<1> QED  BY <1>1 DEF Timely, NextFacts

LEMMA UnspentNext ==
  ASSUME DeathInv, [Next]_vars, NextFacts
  PROVE  UnspentIsUntouched'
<1> SUFFICES ASSUME NEW q \in Requests, codeAt'[q] = -1
             PROVE  /\ AccessOf(q)' = {} /\ q \notin dead'
                    /\ \A v \in Workers : pc'[v] # "idle" => job'[v].req # q
  BY DEF UnspentIsUntouched
<1>1. codeAt[q] = -1
  BY NextHandlers DEF DeathInv, HInv, Begins, Ends, GoesOn
<1>2. /\ AccessOf(q) = {} /\ q \notin dead
      /\ \A v \in Workers : pc[v] # "idle" => job[v].req # q
  BY <1>1 DEF DeathInv, UnspentIsUntouched
<1>3. AccessOf(q)' = {}
  <2>1. CASE AccessKeeps
    BY <1>2, <2>1, RequestsAssumption DEF AccessKeeps, AccessOf, NoAccessRow
  <2>2. ASSUME NEW w \in Workers, Inserts(w) PROVE AccessOf(q)' = {}
    <3>1. job[w].req # q
      BY <1>2, <2>2 DEF Inserts
    <3> QED  BY <1>2, <2>2, <3>1 DEF Inserts, AccessOf, NextFacts, LInv, TInv, TypeOK
  <2> QED  BY <2>1, <2>2 DEF NextFacts
<1>4. q \notin dead'
  <2>1. Raised(q) => q \in dead \/ \E w \in Workers : pc[w] # "idle" /\ job[w].req = q
    BY DEF Raised, DeathInv, DeathKnown
  <2> QED  BY <1>2, <2>1 DEF NextFacts
<1>5. ASSUME NEW v \in Workers, pc'[v] # "idle" PROVE job'[v].req # q
  <2>1. CASE pc'[v] = pc[v] /\ job'[v] = job[v]
    BY <1>2, <1>5, <2>1
  <2>2. CASE Begins(v)
    BY <2>2 DEF Begins
  <2>3. CASE Ends(v)
    BY <1>5, <2>3 DEF Ends
  <2>4. CASE GoesOn(v)
    BY <1>2, <2>4 DEF GoesOn
  <2> QED  BY <2>1, <2>2, <2>3, <2>4 DEF NextFacts, HStep
<1> QED  BY <1>3, <1>4, <1>5

\* An issued signature that has lost its row never gets one again.
LEMMA NoReturn ==
  ASSUME DeathInv, [Next]_vars, NextFacts,
         NEW s \in issued, refresh'[s].req # NoRequest
  PROVE  refresh[s].req # NoRequest
<1>1. s \in RefreshSigs /\ LInv
  BY DEF NextFacts, LInv, TInv, TypeOK
<1>2. CASE TableKeeps
  BY <1>1, <1>2, RowAfter
<1>3. ASSUME NEW t \in RefreshSigs, Spends(t) PROVE refresh[s].req # NoRequest
  BY <1>1, <1>3, SpentRow
<1>4. ASSUME NEW w \in Workers, NEW parent, Stores(w, parent) PROVE refresh[s].req # NoRequest
  <2>1. PICK f : f = FreshRefresh
    OBVIOUS
  <2> QED  BY <1>1, <1>4, <2>1, Stored
<1> QED  BY <1>2, <1>3, <1>4 DEF NextFacts, TableStep

\* The tombstone of a request that dies under a handler outlasts the handler.
LEMMA StillGuarded ==
  ASSUME DeathInv, [Next]_vars, NextFacts, NEW v \in Workers,
         pc[v] # "idle", job'[v].req = job[v].req, job'[v].since = job[v].since,
         job[v].req \in dead => Guarded(v)
  PROVE  Guarded(v)'
<1> DEFINE q == job[v].req
<1> SUFFICES ASSUME q \in dead'
             PROVE  tomb'[q].present /\ tomb'[q].exp >= job[v].since + TombLife
  BY DEF Guarded
<1>1. /\ q \in Requests /\ job[v].since \in Nat /\ job[v].since <= now
      /\ now <= job[v].since + MaxPause
  BY DEF NextFacts, LInv, TInv, TypeOK, HandlerOK, Job, DeathInv, Timely
<1>2. tomb[q].exp \in Nat /\ tomb'[q].exp \in Nat
  BY <1>1 DEF NextFacts, LInv, TInv, TypeOK, Tomb
<1>3. CASE Raised(q)
  <2>1. tomb'[q].present /\ tomb'[q].exp >= now + TombLife
    BY <1>3 DEF Raised
  <2> QED  BY <1>1, <1>2, <2>1, TimesAssumption DEF NextFacts
<1>4. CASE q \in dead /\ ~Raised(q)
  <2>1. tomb[q].present /\ tomb[q].exp >= job[v].since + TombLife
    BY <1>4 DEF Guarded
  <2>2. ~Dropped(q)
    <3>1. Dropped(q) => tomb[q].exp < cron.at
      BY DEF Dropped
    <3> QED  BY <1>1, <1>2, <2>1, <3>1, PauseAssumption, TimesAssumption DEF NextFacts
  <2>3. tomb'[q] = tomb[q]
    BY <1>1, <1>4, <2>2 DEF NextFacts
  <2> QED  BY <2>1, <2>3
<1> QED  BY <1>3, <1>4 DEF NextFacts

LEMMA VigilNext ==
  ASSUME DeathInv, [Next]_vars, NextFacts
  PROVE  Vigil'
<1> SUFFICES ASSUME NEW v \in Workers, Storing(v)' PROVE Guarded(v)'
  BY DEF Vigil
<1>g. Storing(v) => Guarded(v) /\ pc[v] # "idle"
  BY DEF DeathInv, Vigil, Storing
<1>1. CASE pc'[v] = pc[v] /\ job'[v] = job[v]
  <2>1. Storing(v)
    <3>1. pc[v] = "rotcas" => job[v].sig \in issued
      BY DEF NextFacts, LInv, SigOfRequest, SigPCs
    <3> QED  BY <1>1, <3>1, NoReturn DEF Storing
  <2> QED  BY <1>1, <1>g, <2>1, StillGuarded
<1>2. CASE Begins(v)
  <2>1. pc'[v] = "mkaccess" /\ codeAt[job'[v].req] = -1 /\ job'[v].req \in Requests /\ dead' = dead
    BY <1>2 DEF Begins, Storing
  <2> QED  BY <2>1 DEF Guarded, DeathInv, UnspentIsUntouched
<1>3. CASE Ends(v)
  BY <1>3 DEF Ends, Storing
<1>4. CASE GoesOn(v)
  <2>1. pc[v] # "idle" /\ job'[v].req = job[v].req /\ job'[v].since = job[v].since
    BY <1>4 DEF GoesOn
  <2>2. CASE Storing(v)
    BY <1>g, <2>1, <2>2, StillGuarded
  <2>3. CASE pc'[v] = "rotcas"
    <3>1. /\ pc[v] = "rottomb" /\ ~HasTerminal(job[v].req)
          /\ job'[v].sig = job[v].sig /\ UNCHANGED refresh
      BY <1>4, <2>3 DEF GoesOn
    <3>2. refresh[job[v].sig].req = job[v].req /\ job[v].sig \in RefreshSigs
      BY <2>3, <3>1 DEF Storing, NextFacts, LInv, SigOfRequest, SigPCs, TInv, HandlerOK
    <3>3. job[v].req \notin dead
      BY <3>1, <3>2 DEF HasTerminal, RowsOf, DeathInv, DeadLeavesNothing
    <3> QED  BY <2>1, <3>3, StillGuarded
  <2> QED  BY <1>4, <2>2, <2>3 DEF GoesOn
<1> QED  BY <1>1, <1>2, <1>3, <1>4 DEF NextFacts, HStep

LEMMA CheckedNext ==
  ASSUME DeathInv, [Next]_vars, NextFacts
  PROVE  Checked'
<1> SUFFICES ASSUME NEW v \in Workers, job'[v].doomed
             PROVE  /\ pc'[v] \in {"gettomb", "chktomb"} =>
                         \/ tomb'[job'[v].req].present /\ job'[v].exp <= tomb'[job'[v].req].exp
                         \/ job'[v].exp < now'
                    /\ pc'[v] = "chkrows" => job'[v].exp < now'
  BY DEF Checked
<1>1. CASE pc'[v] = pc[v] /\ job'[v] = job[v]
  <2> DEFINE q == job[v].req
  <2>1. job[v].exp \in Nat
    BY DEF NextFacts, LInv, TInv, TypeOK, Job
  <2>2. pc[v] = "chkrows" => job[v].exp < now
    BY <1>1 DEF DeathInv, Checked
  <2>3. ASSUME pc[v] \in {"gettomb", "chktomb"}
        PROVE  \/ tomb'[q].present /\ job[v].exp <= tomb'[q].exp
               \/ job[v].exp < now
    <3>1. q \in Requests
      BY <2>3 DEF NextFacts, LInv, TInv, HandlerOK
    <3>2. tomb[q].exp \in Nat /\ tomb'[q].exp \in Nat
      BY <3>1 DEF NextFacts, LInv, TInv, TypeOK, Tomb
    <3>3. CASE tomb[q].present /\ job[v].exp <= tomb[q].exp
      <4>1. Raised(q) => tomb'[q].present /\ tomb'[q].exp >= tomb[q].exp
        BY DEF Raised
      <4>2. Dropped(q) => tomb[q].exp < cron.at
        BY DEF Dropped
      <4> QED  BY <2>1, <3>1, <3>2, <3>3, <4>1, <4>2 DEF NextFacts
    <3> QED  BY <1>1, <2>3, <3>3 DEF DeathInv, Checked
  <2> QED  BY <1>1, <2>1, <2>2, <2>3 DEF NextFacts
<1>2. CASE Begins(v)
  <2> SUFFICES ASSUME NEW q, q = job'[v].req
               PROVE  /\ pc'[v] \in {"gettomb", "chktomb"} =>
                           \/ tomb'[q].present /\ job'[v].exp <= tomb'[q].exp
                           \/ job'[v].exp < now'
                      /\ pc'[v] = "chkrows" => job'[v].exp < now'
    OBVIOUS
  <2>1. q \in dead /\ q \in Requests /\ UNCHANGED tomb
    BY <1>2 DEF Begins, store
  <2>2. pc'[v] # "chkrows"
    BY <1>2 DEF Begins
  <2>3. CASE pc'[v] = "gettomb"
    <3>1. PICK s \in RowsOf(q) : job'[v].exp = refresh[s].exp
      BY <1>2, <2>3 DEF Begins
    <3>2. tomb[q].present /\ refresh[s].exp \in ArtifactExpiries(q)
      BY <2>1 DEF DeathInv, DeadLeavesNothing, ArtifactExpiries
    <3> QED  BY <2>1, <2>3, <3>1, <3>2 DEF DeathInv, TombCoversArtifacts
  <2>4. CASE pc'[v] = "chktomb"
    <3>1. PICK a \in AccessOf(q) : job'[v].exp = access[a].exp
      BY <1>2, <2>4 DEF Begins
    <3>2. tomb[q].present /\ access[a].exp \in ArtifactExpiries(q)
      BY <2>1 DEF DeathInv, DeadLeavesNothing, ArtifactExpiries
    <3> QED  BY <2>1, <2>4, <3>1, <3>2 DEF DeathInv, TombCoversArtifacts
  <2> QED  BY <2>2, <2>3, <2>4
<1>3. CASE Ends(v)
  BY <1>3 DEF Ends, NoJob
<1>4. CASE GoesOn(v)
  <2>1. pc'[v] \notin {"gettomb", "chktomb"} /\ job'[v].doomed = job[v].doomed /\ now' = now
    BY <1>4 DEF GoesOn
  <2>2. CASE pc'[v] = "chkrows"
    <3>1. pc[v] = "chktomb" /\ ~HasTerminal(job[v].req) /\ job'[v].exp = job[v].exp
      BY <1>4, <2>2 DEF GoesOn
    <3> QED  BY <2>1, <3>1 DEF DeathInv, Checked, HasTerminal
  <2> QED  BY <2>1, <2>2
<1> QED  BY <1>1, <1>2, <1>3, <1>4 DEF NextFacts, HStep

\* A request gains artifacts only from a handler that found no tombstone.
LEMMA ArtifactsShrink ==
  ASSUME DeathInv, [Next]_vars, NextFacts, NEW q \in Requests,
         ~ \E w \in Workers : job[w].req = q /\ Storing(w) /\ ~HasTerminal(q)
  PROVE  /\ RowsOf(q)' \subseteq RowsOf(q) /\ AccessOf(q)' \subseteq AccessOf(q)
         /\ ArtifactExpiries(q)' \subseteq ArtifactExpiries(q)
<1>l. LInv /\ q # NoRequest
  BY RequestsAssumption DEF NextFacts
<1>1. \A s \in RefreshSigs : refresh'[s].req = q =>
        refresh[s].req = q /\ refresh'[s].exp = refresh[s].exp
  <2>1. CASE TableKeeps
    BY <1>l, <2>1, RowAfter
  <2>2. ASSUME NEW t \in RefreshSigs, Spends(t), NEW s \in RefreshSigs, refresh'[s].req = q
        PROVE  refresh[s].req = q /\ refresh'[s].exp = refresh[s].exp
    BY <1>l, <2>2, SpentRow
  <2>3. ASSUME NEW w \in Workers, NEW parent, Stores(w, parent),
               NEW s \in RefreshSigs, refresh'[s].req = q
        PROVE  refresh[s].req = q /\ refresh'[s].exp = refresh[s].exp
    <3>1. PICK f : f = FreshRefresh
      OBVIOUS
    <3>2. /\ refresh'[f].req = job[w].req
          /\ \A t \in RefreshSigs : t # f => refresh'[t] = refresh[t]
      BY <1>l, <2>3, <3>1, Stored
    <3>3. Storing(w) /\ ~HasTerminal(job[w].req)
      BY <2>3 DEF Stores, Storing, LineageTerminal
    <3> QED  BY <2>3, <3>2, <3>3
  <2> QED  BY <2>1, <2>2, <2>3 DEF NextFacts, TableStep
<1>2. \A a \in AccessSigs : access'[a].req = q =>
        access[a].req = q /\ access'[a].exp = access[a].exp
  <2>1. CASE AccessKeeps
    BY <1>l, <2>1 DEF AccessKeeps, NoAccessRow
  <2>2. ASSUME NEW w \in Workers, Inserts(w), NEW a \in AccessSigs, access'[a].req = q
        PROVE  access[a].req = q /\ access'[a].exp = access[a].exp
    <3>1. job[w].req # q
      BY <2>2 DEF Inserts, Storing
    <3> QED  BY <1>l, <2>2, <3>1 DEF Inserts, LInv, TInv, TypeOK
  <2> QED  BY <2>1, <2>2 DEF NextFacts
<1> QED  BY <1>1, <1>2 DEF RowsOf, AccessOf, ArtifactExpiries

LEMMA CoversNext ==
  ASSUME DeathInv, [Next]_vars, NextFacts
  PROVE  TombCoversArtifacts'
<1> SUFFICES ASSUME NEW q \in Requests, tomb'[q].present, NEW x \in ArtifactExpiries(q)'
             PROVE  x <= tomb'[q].exp
  BY DEF TombCoversArtifacts
<1>1. CASE UNCHANGED <<tomb, dead>>
  <2>1. x \in ArtifactExpiries(q)
    BY <1>1, ArtifactsShrink DEF HasTerminal
  <2> QED  BY <1>1, <2>1 DEF DeathInv, TombCoversArtifacts
<1>2. ASSUME UNCHANGED <<refresh, access>>, tomb'[q] = tomb[q] \/ Raised(q) \/ Dropped(q)
      PROVE  x <= tomb'[q].exp
  <2>1. x \in ArtifactExpiries(q)
    BY <1>2 DEF ArtifactExpiries, RowsOf, AccessOf
  <2>2. ~Dropped(q)
    BY DEF Dropped, NoTomb
  <2> QED  BY <1>2, <2>1, <2>2 DEF Raised, DeathInv, TombCoversArtifacts
<1> QED  BY <1>1, <1>2 DEF NextFacts, TombStep

LEMMA LeavesNext ==
  ASSUME DeathInv, [Next]_vars, NextFacts
  PROVE  DeadLeavesNothing'
<1> SUFFICES ASSUME NEW q \in dead', ~tomb'[q].present
             PROVE  RowsOf(q)' = {} /\ AccessOf(q)' = {}
  BY DEF DeadLeavesNothing
<1>q. q \in Requests
  BY DEF NextFacts, LInv, TInv, TypeOK
<1>r. ~Raised(q) /\ q \in dead
  BY DEF Raised, NextFacts
<1>1. CASE UNCHANGED <<tomb, dead>>
  <2>1. RowsOf(q) = {} /\ AccessOf(q) = {}
    BY <1>1, <1>r DEF DeathInv, DeadLeavesNothing
  <2>2. ~ \E w \in Workers : job[w].req = q /\ Storing(w)
    BY <1>1, <1>r DEF DeathInv, Vigil, Guarded
  <2> QED  BY <1>q, <2>1, <2>2, ArtifactsShrink
<1>2. CASE UNCHANGED <<refresh, access>>
  <2>1. RowsOf(q) = {} /\ AccessOf(q) = {}
    <3>1. CASE Dropped(q)
      BY <3>1 DEF Dropped, Orphaned
    <3>2. CASE tomb'[q] = tomb[q]
      BY <1>r, <3>2 DEF DeathInv, DeadLeavesNothing
    <3> QED  BY <1>q, <1>r, <3>1, <3>2 DEF NextFacts
  <2> QED  BY <1>2, <2>1 DEF RowsOf, AccessOf
<1> QED  BY <1>1, <1>2 DEF NextFacts, TombStep

LEMMA RepliesNext ==
  ASSUME DeathInv, [Next]_vars, NextFacts, NEW v \in Workers, job'[v].doomed
  PROVE  /\ job'[v].reply # "tokens"
         /\ job'[v].reply = "granted" => job'[v].exp < now'
<1>1. CASE pc'[v] = pc[v] /\ job'[v] = job[v]
  <2>1. job[v].exp \in Nat
    BY DEF NextFacts, LInv, TInv, TypeOK, Job
  <2>2. job[v].reply # "tokens" /\ (job[v].reply = "granted" => job[v].exp < now)
    BY <1>1 DEF DeathInv, NoTokensAfterDeath, NoGrantAfterDeath
  <2> QED  BY <1>1, <2>1, <2>2 DEF NextFacts
<1>2. CASE Begins(v) \/ Ends(v)
  BY <1>2 DEF Begins, Ends, NoJob
<1>3. CASE GoesOn(v)
  <2>1. job[v].doomed /\ job[v].req \in dead /\ now' = now
    BY <1>3 DEF GoesOn, DeathInv, DeathKnown
  <2>2. ASSUME job'[v].reply = "tokens" PROVE FALSE
    <3>1. Storing(v) /\ ~HasTerminal(job[v].req)
      BY <1>3, <2>2 DEF GoesOn
    <3> QED  BY <2>1, <3>1 DEF DeathInv, Vigil, Guarded, HasTerminal
  <2>3. ASSUME job'[v].reply = "granted" PROVE job'[v].exp < now'
    <3>1. job'[v].exp = job[v].exp /\ (pc[v] = "chkrows" \/ (pc[v] = "gettomb" /\ ~HasTerminal(job[v].req)))
      BY <1>3, <2>3 DEF GoesOn
    <3> QED  BY <2>1, <3>1 DEF DeathInv, Checked, HasTerminal
  <2> QED  BY <2>2, <2>3
<1> QED  BY <1>1, <1>2, <1>3 DEF NextFacts, HStep

LEMMA DeathNext == DeathInv /\ [Next]_vars => DeathInv'
<1> SUFFICES ASSUME DeathInv, [Next]_vars PROVE DeathInv'
  OBVIOUS
<1>f. NextFacts
  BY Facts
<1>1. FamilyInv'
  BY FamilyNext DEF DeathInv
<1>2. DeathKnown' /\ Timely' /\ UnspentIsUntouched'
  BY <1>f, DeathKnownNext, TimelyNext, UnspentNext
<1>3. Vigil' /\ Checked'
  BY <1>f, VigilNext, CheckedNext
<1>4. TombCoversArtifacts' /\ DeadLeavesNothing'
  BY <1>f, CoversNext, LeavesNext
<1>5. InactiveMeansDead'
  BY <1>2 DEF DeathKnown, MustBeDead, InactiveMeansDead
<1>6. NoTokensAfterDeath' /\ NoGrantAfterDeath'
  BY <1>f, RepliesNext DEF NoTokensAfterDeath, NoGrantAfterDeath
<1> QED  BY <1>1, <1>2, <1>3, <1>4, <1>5, <1>6 DEF DeathInv

LEMMA DeathInit == Init => DeathInv
<1> SUFFICES ASSUME Init PROVE DeathInv
  OBVIOUS
<1>1. FamilyInv
  BY FamilyInit
<1>2. /\ \A w \in Workers : /\ pc[w] = "idle" /\ job[w].reply = "none" /\ ~job[w].doomed
      /\ \A q \in Requests : ~tomb[q].present
      /\ \A a \in AccessSigs : access[a].req = NoRequest
      /\ dead = {} /\ now = 0 /\ cron.at = 0
  BY DEF Init, NoJob, NoTomb, NoAccessRow, NoCron
<1>3. \A s \in RefreshSigs : GetStatus(s) = "active"
  <2>1. PICK legacy \in [LegacyRequests -> RefreshSigs] :
          refresh = [s \in RefreshSigs |->
            IF s \in issued
            THEN [NoRefreshRow EXCEPT !.req = CHOOSE q \in LegacyRequests : legacy[q] = s,
                                      !.exp = RefreshLife]
            ELSE NoRefreshRow]
    BY DEF Init
  <2>2. ASSUME NEW r, NEW q, r = [NoRefreshRow EXCEPT !.req = q, !.exp = RefreshLife]
        PROVE  r.status = "unset"
    BY <2>2 DEF NoRefreshRow
  <2>3. NoRefreshRow.status = "unset"
    BY DEF NoRefreshRow
  <2> QED  BY <2>1, <2>2, <2>3 DEF GetStatus
<1>4. DeathKnown
  BY <1>2, <1>3 DEF DeathKnown, MustBeDead, Terminal
<1>5. Timely /\ Vigil /\ Checked
  BY <1>2 DEF Timely, Vigil, Checked, Storing
<1>6. UnspentIsUntouched
  BY <1>2, RequestsAssumption DEF UnspentIsUntouched, AccessOf
<1>7. TombCoversArtifacts /\ DeadLeavesNothing
  BY <1>2 DEF TombCoversArtifacts, DeadLeavesNothing
<1>8. InactiveMeansDead /\ NoTokensAfterDeath /\ NoGrantAfterDeath
  BY <1>2 DEF InactiveMeansDead, NoTokensAfterDeath, NoGrantAfterDeath
<1> QED  BY <1>1, <1>4, <1>5, <1>6, <1>7, <1>8 DEF DeathInv

-----------------------------------------------------------------------------
\* What the invariant gives.

\* "Inactive" is final: whoever is told so leaves a dead request
\* (GetRefreshTokenSession, RotateRefreshToken, the bearer checks).
THEOREM Inactive == Spec => []InactiveMeansDead
BY DeathInit, DeathNext, PTL DEF Spec, DeathInv

\* The tombstone of a request expires after everything it governs
\* (scopedRefreshArtifactAuthority, cleanupExpiredRefreshTombstones).
THEOREM Covers == Spec => []TombCoversArtifacts
BY DeathInit, DeathNext, PTL DEF Spec, DeathInv

\* When the clean-up has removed a tombstone nothing of the request is left.
THEOREM NothingLeft == Spec => []DeadLeavesNothing
BY DeathInit, DeathNext, PTL DEF Spec, DeathInv

\* A handler that began after the death never answers with tokens.
THEOREM NoTokens == Spec => []NoTokensAfterDeath
BY DeathInit, DeathNext, PTL DEF Spec, DeathInv

\* A check that began after the death is not granted, unless its token expires
\* meanwhile (assertRefreshFamilyAllowsAccess).
THEOREM NoGrant == Spec => []NoGrantAfterDeath
BY DeathInit, DeathNext, PTL DEF Spec, DeathInv

\* No row is ever added to a dead request, also by a handler that began before
\* the death and stores its tokens after the tombstone could be gone.
THEOREM StaysDead == Spec => DeadStaysDead
<1>1. ASSUME DeathInv, [Next]_vars
      PROVE  [\A q \in dead : RowsOf(q)' \subseteq RowsOf(q) /\ AccessOf(q)' \subseteq AccessOf(q)]_vars
  <2>1. NextFacts
    BY <1>1, Facts
  <2>2. ASSUME NEW q \in dead
        PROVE  RowsOf(q)' \subseteq RowsOf(q) /\ AccessOf(q)' \subseteq AccessOf(q)
    <3>1. q \in Requests
      BY <2>1 DEF NextFacts, LInv, TInv, TypeOK
    <3>2. ~ \E w \in Workers : job[w].req = q /\ Storing(w) /\ ~HasTerminal(q)
      BY <1>1 DEF DeathInv, Vigil, Guarded, HasTerminal
    <3> QED  BY <1>1, <2>1, <3>1, <3>2, ArtifactsShrink
  <2> QED  BY <2>2
<1> QED  BY <1>1, DeathInit, DeathNext, PTL DEF Spec, DeadStaysDead

-----------------------------------------------------------------------------
(***************************************************************************)
(* Part 4: a request never has two stored access tokens, for whoever may   *)
(* store the next one is alone, and has seen the last one deleted.         *)
(***************************************************************************)

\* On the way to the INSERT of an access token.
Inserting(w) ==
  \/ pc[w] = "mkaccess"
  \/ pc[w] \in {"accread", "accdel"} /\ job[w].then = "mkaccess"

\* The exchange of a code without offline access has its request to itself.
AccessOnlyAlone ==
  \A w \in Workers : pc[w] = "mkaccess" /\ job[w].op = "accessonly" =>
    /\ RowsOf(job[w].req) = {}
    /\ \A v \in Workers : v # w /\ job[v].req = job[w].req => ~Won(v) /\ pc[v] # "mkaccess"

\* Only a refresh rotates, and issues after the loop.
Rotating(w) ==
  \/ pc[w] \in {"rottomb", "rotcas"}
  \/ pc[w] \in {"accread", "accdel"} /\ job[w].then = "mkaccess"
OnlyRefreshRotates == \A w \in Workers : Rotating(w) => job[w].op = "refresh"

\* The loop of deleteSessionModelsByRequestID has every access token of the
\* request on its list, and none is left after it.
Cleared(w) ==
  /\ pc[w] = "mkaccess" => AccessOf(job[w].req) = {}
  /\ pc[w] = "accdel" /\ job[w].then = "mkaccess" => AccessOf(job[w].req) \subseteq job[w].todo

AccessInv ==
  /\ DeathInv /\ OnlyRefreshRotates /\ AccessOnlyAlone /\ OneAccessPerRequest
  /\ \A w \in Workers : Cleared(w)

\* How a handler comes to store an access token: out of the loop.
Approaches(w) ==
  /\ job'[w].op = job[w].op
  /\ Rotating(w)' \/ pc'[w] = "mkaccess" => Rotating(w) \/ job[w].op = "refresh"
  /\ pc'[w] = "mkaccess" =>
       \/ AccessOf(job[w].req) = {} /\ UNCHANGED access
       \/ /\ pc[w] = "accdel" /\ job[w].then = "mkaccess"
          /\ \E a : job[w].todo = {a} /\ access' = AccessWithout({a})
  /\ pc'[w] = "accdel" /\ job'[w].then = "mkaccess" =>
       \/ job'[w].todo = AccessOf(job[w].req) /\ UNCHANGED access
       \/ /\ pc[w] = "accdel" /\ job[w].then = "mkaccess"
          /\ \E a : job'[w].todo = job[w].todo \ {a} /\ access' = AccessWithout({a})

LEMMA StepApproaches ==
  ASSUME LInv, NEW w \in Workers, (Step(w) /\ ~Finish(w)) \/ AccessFault(w)
  PROVE  Approaches(w)
<1> USE DEF store
<1>t. /\ pc \in [Workers -> PCs] /\ job \in [Workers -> Job] /\ job[w] \in Job
  BY DEF LInv, TInv, TypeOK
\* The moves that lead to no loop, and to one.
<1> DEFINE Away == /\ job'[w].op = job[w].op /\ pc'[w] \notin {"accread", "accdel", "mkaccess"}
                   /\ pc'[w] \in {"rottomb", "rotcas"} => Rotating(w) \/ job[w].op = "refresh"
           Loop(n) == job'[w].op = job[w].op /\ pc'[w] = "accread" /\ job'[w].then = n
<1>g. ASSUME NEW p \in PCs \ {"rottomb", "rotcas", "accread", "accdel", "mkaccess"},
             Goto(w, p), UNCHANGED job
      PROVE  Away
  BY <1>t, <1>g DEF Goto
<1>r. ASSUME NEW r, Reply(w, r) PROVE Away
  <2>1. pc'[w] = "replied"
    BY <1>t, <1>r DEF Reply, Goto
  <2>2. job'[w].op = job[w].op
    BY <1>t, <1>r DEF Reply, NoJob
  <2> QED  BY <2>1, <2>2
<1>d. ASSUME NEW n, DeleteAccessThen(w, n) PROVE Loop(n)
  BY <1>t, <1>d DEF DeleteAccessThen, Goto, Job
<1>away. Away => Approaches(w)
  BY DEF Approaches, Rotating
<1>loop. ASSUME NEW n, Loop(n), n # "mkaccess" \/ pc[w] = "rotcas" PROVE Approaches(w)
  BY <1>loop DEF Approaches, Rotating
<1>p. {"getcommit", "getfamily", "delfind", "delrow", "revcommit", "revfamily",
       "reread", "rotcommit", "rotfamily", "chkrows", "mkrefresh"} \subseteq PCs
  BY DEF PCs
<1> HIDE DEF Away, Loop
<1>ina. GetInactive(w) => Approaches(w)
  BY <1>p, <1>g, <1>r, <1>away DEF GetInactive
<1>fail. RevokeFailed(w) => Approaches(w)
  BY <1>r, <1>d, <1>away, <1>loop DEF RevokeFailed
<1>1. CASE GetTomb(w)
  <2>1. ASSUME job[w].op = "refresh", Goto(w, "rottomb"), UNCHANGED job PROVE Approaches(w)
    <3>1. pc'[w] = "rottomb"
      BY <1>t, <2>1 DEF Goto
    <3> QED  BY <2>1, <3>1 DEF Approaches
  <2>2. GetAccepted(w) => Approaches(w)
    BY <1>p, <1>g, <1>r, <1>away, <2>1 DEF GetAccepted
  <2> QED  BY <1>1, <1>p, <1>g, <1>ina, <1>away, <2>2 DEF GetTomb
<1>2. CASE GetCommit(w) \/ GetFamily(w)
  BY <1>2, <1>p, <1>g, <1>r, <1>ina, <1>away DEF GetCommit, GetFamily
<1>3. CASE DeleteFind(w)
  <2>1. UNCHANGED job /\ (Goto(w, "revcommit") \/ Goto(w, "delrow"))
    BY <1>3 DEF DeleteFind
  <2> QED  BY <1>p, <1>g, <1>away, <2>1
<1>4. CASE DeleteRow(w)
  BY <1>4, <1>p, <1>g, <1>away DEF DeleteRow
<1>5. CASE RevokeCommit(w)
  BY <1>5, <1>p, <1>g, <1>fail, <1>away DEF RevokeCommit
<1>6. CASE RevokeFamily(w)
  <2>1. \/ DeleteAccessThen(w, "inactive") \/ DeleteAccessThen(w, "done")
        \/ Reply(w, "revoked") \/ RevokeFailed(w)
    BY <1>6 DEF RevokeFamily
  <2> QED  BY <1>r, <1>d, <1>fail, <1>away, <1>loop, <2>1
<1>7. CASE RotateTomb(w)
  <2>1. ASSUME pc[w] = "rottomb", Goto(w, "rotcas"), UNCHANGED job PROVE Approaches(w)
    <3>1. pc'[w] = "rotcas"
      BY <1>t, <2>1 DEF Goto
    <3> QED  BY <2>1, <3>1 DEF Approaches, Rotating
  <2> QED  BY <1>7, <1>d, <1>loop, <2>1 DEF RotateTomb
<1>8. CASE RotateCAS(w)
  <2>1. pc[w] = "rotcas" /\ (DeleteAccessThen(w, "mkaccess") \/ (Goto(w, "reread") /\ UNCHANGED job))
    BY <1>8 DEF RotateCAS
  <2> QED  BY <1>p, <1>g, <1>d, <1>away, <1>loop, <2>1
<1>9. CASE RotateReread(w)
  <2>1. pc'[w] = "rotcommit"
    BY <1>9, <1>t DEF RotateReread, Goto
  <2>2. job'[w].op = job[w].op
    <3>1. job'[w] = IF refresh[job[w].sig].req # NoRequest THEN Snapshot(job[w], job[w].sig)
                    ELSE [job[w] EXCEPT !.status = "absent", !.family = NoSig, !.exp = 0]
      BY <1>9, <1>t DEF RotateReread
    <3>2. \A s : Snapshot(job[w], s).op = job[w].op
      BY <1>t DEF Snapshot, Job
    <3>3. ASSUME NEW j, j = [job[w] EXCEPT !.status = "absent", !.family = NoSig, !.exp = 0]
          PROVE  j.op = job[w].op
      BY <1>t, <3>3 DEF Job
    <3> QED  BY <3>1, <3>2, <3>3
  <2> QED  BY <2>1, <2>2 DEF Approaches, Rotating
<1>10. CASE RotateCommit(w)
  BY <1>10, <1>p, <1>g, <1>r, <1>d, <1>away, <1>loop DEF RotateCommit
<1>11. CASE RotateFamily(w)
  BY <1>11, <1>r, <1>d, <1>away, <1>loop DEF RotateFamily
<1>12. CASE CreateAccess(w)
  <2>1. ASSUME Goto(w, "mkrefresh"), job' = [job EXCEPT ![w].cand = FreshAccess]
        PROVE  Approaches(w)
    <3>1. pc'[w] = "mkrefresh" /\ job'[w].op = job[w].op
      BY <1>t, <2>1 DEF Goto, Job
    <3> QED  BY <3>1 DEF Approaches, Rotating
  <2> QED  BY <1>12, <1>r, <1>away, <2>1 DEF CreateAccess
<1>13. CASE CreateRefresh(w)
  <2>1. PICK r : Reply(w, r)
    BY <1>13 DEF CreateRefresh
  <2> QED  BY <1>r, <1>away, <2>1
<1>14. CASE CheckTomb(w) \/ CheckRows(w)
  BY <1>14, <1>p, <1>g, <1>r, <1>away DEF CheckTomb, CheckRows
\* The loop.
<1>15. ASSUME AfterAccess(w), pc[w] \in {"accread", "accdel"}
       PROVE  /\ job'[w].op = job[w].op /\ pc'[w] \in {"mkaccess", "revcommit", "replied"}
              /\ pc'[w] = "mkaccess" => job[w].then = "mkaccess" /\ Rotating(w)
  <2>1. ASSUME NEW p \in {"mkaccess", "revcommit"}, Goto(w, p), job[w].then = p,
               job' = [job EXCEPT ![w].todo = {}]
        PROVE  job'[w].op = job[w].op /\ pc'[w] = p
    BY <1>t, <2>1 DEF Goto, Job
  <2>2. ASSUME NEW r, Reply(w, r) PROVE job'[w].op = job[w].op /\ pc'[w] = "replied"
    BY <1>t, <1>r, <2>2 DEF Away, Reply, Goto
  <2> QED  BY <1>15, <2>1, <2>2 DEF AfterAccess, Rotating
<1>16. CASE AccessRead(w)
  <2>1. CASE AccessOf(job[w].req) = {} /\ AfterAccess(w)
    BY <1>15, <1>16, <2>1 DEF AccessRead, Approaches, Rotating
  <2>2. CASE Goto(w, "accdel") /\ job' = [job EXCEPT ![w].todo = AccessOf(job[w].req)]
    <3>1. /\ pc'[w] = "accdel" /\ job'[w].todo = AccessOf(job[w].req)
          /\ job'[w].op = job[w].op /\ job'[w].then = job[w].then
      BY <1>t, <2>2 DEF Goto, Job
    <3> QED  BY <1>16, <3>1 DEF AccessRead, Approaches, Rotating
  <2> QED  BY <1>16, <2>1, <2>2 DEF AccessRead
<1>17. CASE AccessDelete(w)
  <2>1. PICK a \in job[w].todo :
          /\ access' = AccessWithout({a})
          /\ \/ job[w].todo = {a} /\ AfterAccess(w)
             \/ job' = [job EXCEPT ![w].todo = @ \ {a}] /\ UNCHANGED pc
    BY <1>17 DEF AccessDelete
  <2>2. pc[w] = "accdel"
    BY <1>17 DEF AccessDelete
  <2>3. CASE job[w].todo = {a} /\ AfterAccess(w)
    BY <1>15, <2>1, <2>2, <2>3 DEF Approaches, Rotating
  <2>4. CASE job' = [job EXCEPT ![w].todo = @ \ {a}] /\ UNCHANGED pc
    <3>1. /\ job'[w].todo = job[w].todo \ {a} /\ job'[w].then = job[w].then
          /\ job'[w].op = job[w].op
      BY <1>t, <2>4 DEF Job
    <3> QED  BY <2>1, <2>2, <2>4, <3>1 DEF Approaches, Rotating
  <2> QED  BY <2>1, <2>3, <2>4
<1>18. CASE AccessFault(w)
  BY <1>15, <1>18 DEF AccessFault, AfterAccess, Approaches, Rotating
<1> QED  BY <1>1, <1>2, <1>3, <1>4, <1>5, <1>6, <1>7, <1>8, <1>9, <1>10, <1>11, <1>12,
            <1>13, <1>14, <1>16, <1>17, <1>18 DEF Step

\* Every handler stays, begins or goes on; the one that inserts has left "mkaccess".
Goes(v) ==
  \/ pc'[v] = pc[v] /\ job'[v] = job[v]
  \/ Begins(v) \/ Ends(v)
  \/ GoesOn(v) /\ Approaches(v)

LEMMA NextApproaches ==
  ASSUME DeathInv, [Next]_vars
  PROVE  \A v \in Workers : Goes(v)
<1> USE DEF history, store
<1>h. HInv /\ LInv
  BY DEF DeathInv, HInv, FamilyInv
<1>t. pc \in [Workers -> PCs] /\ job \in [Workers -> Job]
  BY <1>h DEF LInv, TInv, TypeOK
<1>1. ASSUME NEW w \in Workers, Begins(w) \/ Ends(w) \/ (GoesOn(w) /\ Approaches(w)), NEW v \in Workers
      PROVE  Goes(v)
  BY <1>1 DEF Goes, Begins, Ends, GoesOn, Others
<1>2. ASSUME NEW w \in Workers, Arrive(w), NEW v \in Workers PROVE Goes(v)
  BY <1>1, <1>2, <1>h, ArriveBegins
<1>3. ASSUME NEW w \in Workers, Step(w), ~Finish(w), NEW v \in Workers PROVE Goes(v)
  BY <1>1, <1>3, <1>h, StepGoesOn, StepApproaches
<1>4. ASSUME NEW w \in Workers, Finish(w) \/ Abort(w), NEW v \in Workers PROVE Goes(v)
  <2>1. Ends(w)
    BY <1>t, <1>4 DEF Finish, Abort, Goto, Ends, Others
  <2> QED  BY <1>1, <2>1
<1>5. ASSUME NEW w \in Workers, AccessFault(w), NEW v \in Workers PROVE Goes(v)
  <2>1. GoesOn(w)
    BY <1>5, <1>h, AfterGoesOn DEF AccessFault
  <2> QED  BY <1>1, <1>5, <1>h, <2>1, StepApproaches
<1>6. CASE CleanUp \/ Tick \/ UNCHANGED vars
  BY <1>6 DEF CleanUp, CronStart, CronQueryRefresh, CronQueryTombs, CronEnd,
              CronAccess, CronRefresh, CronTomb, Tick, vars, Goes
<1> QED  BY <1>2, <1>3, <1>4, <1>5, <1>6 DEF Next, Handlers

\* Of one request, one handler is on its way to an INSERT.
LEMMA OneInserter ==
  ASSUME AccessInv, NEW u \in Workers, NEW v \in Workers, Inserting(u), Inserting(v),
         job[u].req = job[v].req
  PROVE  u = v
<1>1. job[u].req \in Requests
  BY DEF Inserting, AccessInv, DeathInv, FamilyInv, LInv, TInv, HandlerOK
<1>2. CASE Won(u) /\ Won(v)
  BY <1>1, <1>2 DEF Winners, AccessInv, DeathInv, FamilyInv, LInv, OneLeafAuthority
<1>3. CASE ~Won(u)
  <2>1. pc[u] = "mkaccess" /\ job[u].op = "accessonly"
    BY <1>3 DEF Won, Inserting
  <2> QED  BY <2>1 DEF AccessInv, AccessOnlyAlone, Won, Inserting
<1>4. CASE ~Won(v)
  <2>1. pc[v] = "mkaccess" /\ job[v].op = "accessonly"
    BY <1>4 DEF Won, Inserting
  <2> QED  BY <2>1 DEF AccessInv, AccessOnlyAlone, Won, Inserting
<1> QED  BY <1>2, <1>3, <1>4

LEMMA AloneNext ==
  ASSUME AccessInv, [Next]_vars, NextFacts, \A v \in Workers : Goes(v)
  PROVE  AccessOnlyAlone'
<1>l. LInv /\ DeathInv
  BY DEF NextFacts, AccessInv
<1>m. ASSUME NEW v \in Workers, Won(v)' \/ pc'[v] = "mkaccess", GoesOn(v) PROVE Storing(v)
  BY <1>m DEF GoesOn, Won, Storing
<1> SUFFICES ASSUME NEW w \in Workers, pc'[w] = "mkaccess", job'[w].op = "accessonly",
                    NEW q, q = job'[w].req
             PROVE  /\ RowsOf(q)' = {}
                    /\ \A v \in Workers : v # w /\ job'[v].req = q => ~Won(v)' /\ pc'[v] # "mkaccess"
  BY DEF AccessOnlyAlone
<1>1. CASE Begins(w)
  <2>1. codeAt[q] = -1 /\ q \in Requests /\ UNCHANGED refresh
    BY <1>1 DEF Begins, store
  <2>2. RowsOf(q)' = {}
    BY <1>l, <2>1 DEF LInv, UnspentIsEmpty, RowsOf
  <2>3. ASSUME NEW v \in Workers, v # w, job'[v].req = q PROVE pc'[v] = "idle"
    BY <1>1, <1>l, <2>1, <2>3 DEF Begins, Others, DeathInv, UnspentIsUntouched
  <2> QED  BY <2>2, <2>3 DEF Won
\* Otherwise it was there before: nobody goes on to "mkaccess" with this operation
\* but from the loop after a rotation.
<1>2. CASE pc'[w] = pc[w] /\ job'[w] = job[w]
  <2>1. /\ RowsOf(q) = {} /\ q \in Requests /\ codeAt[q] # -1
        /\ \A v \in Workers : v # w /\ job[v].req = q => ~Won(v) /\ pc[v] # "mkaccess"
    BY <1>2, <1>l DEF AccessInv, AccessOnlyAlone, DeathInv, UnspentIsUntouched, LInv, TInv, HandlerOK
  <2>2. ~Storing(w) \/ pc[w] = "mkaccess"
    BY <1>2
  <2>3. \A v \in Workers : v # w /\ job[v].req = q => ~Storing(v)
    <3>1. ASSUME NEW v \in Workers, v # w, job[v].req = q, pc[v] = "rotcas"
          PROVE  refresh[job[v].sig].req = NoRequest
      BY <1>l, <2>1, <3>1 DEF LInv, SigOfRequest, SigPCs, TInv, HandlerOK, RowsOf
    <3> QED  BY <1>l, <2>1, <3>1 DEF Storing, Won, LInv, AccessOnlyEnds
  <2>4. RowsOf(q)' = {}
    <3>1. CASE TableKeeps
      BY <1>l, <2>1, <3>1, RowAfter, RequestsAssumption DEF RowsOf
    <3>2. ASSUME NEW s \in RefreshSigs, Spends(s) PROVE RowsOf(q)' = {}
      BY <1>l, <2>1, <3>2, SpentRow DEF RowsOf
    <3>3. ASSUME NEW v \in Workers, NEW parent, Stores(v, parent) PROVE RowsOf(q)' = {}
      <4>1. Storing(v) /\ v # w
        BY <1>2, <3>3 DEF Stores, Storing
      <4>2. job[v].req # q
        BY <2>3, <4>1
      <4>3. PICK f : f = FreshRefresh
        OBVIOUS
      <4> QED  BY <1>l, <2>1, <3>3, <4>2, <4>3, Stored DEF RowsOf
    <3> QED  BY <3>1, <3>2, <3>3 DEF NextFacts, TableStep
  <2>5. ASSUME NEW v \in Workers, v # w, job'[v].req = q PROVE ~Won(v)' /\ pc'[v] # "mkaccess"
    <3>1. CASE pc'[v] = pc[v] /\ job'[v] = job[v]
      BY <2>1, <2>5, <3>1 DEF Won
    <3>2. CASE Begins(v)
      BY <2>1, <2>5, <3>2 DEF Begins, Won
    <3>3. CASE Ends(v)
      BY <3>3 DEF Ends, Won
    <3>4. CASE GoesOn(v)
      BY <1>m, <2>3, <2>5, <3>4 DEF GoesOn
    <3> QED  BY <3>1, <3>2, <3>3, <3>4 DEF Goes
  <2> QED  BY <2>4, <2>5
<1>3. CASE Ends(w)
  BY <1>3 DEF Ends
<1>4. CASE GoesOn(w) /\ Approaches(w)
  BY <1>4 DEF Approaches, AccessInv, OnlyRefreshRotates
<1> QED  BY <1>1, <1>2, <1>3, <1>4 DEF Goes

LEMMA ClearedNext ==
  ASSUME AccessInv, [Next]_vars, NextFacts, \A v \in Workers : Goes(v), NEW v \in Workers
  PROVE  Cleared(v)'
<1> SUFFICES ASSUME NEW q, q = job'[v].req
             PROVE  /\ pc'[v] = "mkaccess" => AccessOf(q)' = {}
                    /\ pc'[v] = "accdel" /\ job'[v].then = "mkaccess" => AccessOf(q)' \subseteq job'[v].todo
  BY DEF Cleared
<1>l. LInv /\ DeathInv
  BY DEF NextFacts, AccessInv
<1>q. pc'[v] # "idle" => q \in Requests /\ q # NoRequest
  BY RequestsAssumption DEF NextFacts, LInv, TInv, HandlerOK
<1>1. CASE pc'[v] = pc[v] /\ job'[v] = job[v]
  <2>1. Inserting(v) => AccessOf(q)' \subseteq AccessOf(q)
    <3>1. CASE AccessKeeps
      BY <1>1, <1>q, <3>1 DEF Inserting, AccessKeeps, AccessOf, NoAccessRow
    <3>2. ASSUME NEW u \in Workers, Inserts(u), Inserting(v)
          PROVE  AccessOf(q)' \subseteq AccessOf(q)
      <4>1. u # v
        BY <1>1, <3>2 DEF Inserts
      <4>2. job[u].req # q
        BY <1>1, <3>2, <4>1, OneInserter DEF Inserts, Inserting
      <4> QED  BY <1>l, <3>2, <4>2 DEF Inserts, AccessOf, LInv, TInv, TypeOK
    <3> QED  BY <3>1, <3>2 DEF NextFacts
  <2> QED  BY <1>1, <2>1 DEF AccessInv, Cleared, Inserting
<1>2. CASE Begins(v)
  BY <1>2, <1>l DEF Begins, store, DeathInv, UnspentIsUntouched, AccessOf
<1>3. CASE Ends(v)
  BY <1>3 DEF Ends
<1>4. CASE GoesOn(v) /\ Approaches(v)
  <2>1. job[v].req = q /\ Cleared(v)
    BY <1>4 DEF GoesOn, AccessInv
  <2>2. ASSUME NEW a, access' = AccessWithout({a}) PROVE q # NoRequest => AccessOf(q)' \subseteq AccessOf(q) \ {a}
    BY <2>2 DEF AccessWithout, AccessOf, NoAccessRow
  <2>3. CASE pc'[v] = "mkaccess"
    BY <1>4, <1>q, <2>1, <2>2, <2>3 DEF Approaches, Cleared, AccessOf
  <2>4. CASE pc'[v] = "accdel" /\ job'[v].then = "mkaccess"
    BY <1>4, <1>q, <2>1, <2>2, <2>4 DEF Approaches, Cleared, AccessOf
  <2> QED  BY <2>3, <2>4
<1> QED  BY <1>1, <1>2, <1>3, <1>4 DEF Goes

LEMMA AccessNext == AccessInv /\ [Next]_vars => AccessInv'
<1> SUFFICES ASSUME AccessInv, [Next]_vars PROVE AccessInv'
  OBVIOUS
<1>f. NextFacts /\ \A v \in Workers : Goes(v)
  BY Facts, NextApproaches DEF AccessInv
<1>1. DeathInv'
  BY DeathNext DEF AccessInv
<1>2. AccessOnlyAlone' /\ \A v \in Workers : Cleared(v)'
  BY <1>f, AloneNext, ClearedNext
<1>3. OnlyRefreshRotates'
  <2> SUFFICES ASSUME NEW v \in Workers, Rotating(v)' PROVE job'[v].op = "refresh"
    BY DEF OnlyRefreshRotates
  <2>1. Rotating(v) => job[v].op = "refresh"
    BY DEF AccessInv, OnlyRefreshRotates
  <2> QED  BY <1>f, <2>1 DEF Goes, Begins, Ends, Approaches, Rotating
<1>4. OneAccessPerRequest'
  <2>1. CASE AccessKeeps
    BY <2>1 DEF AccessKeeps, NoAccessRow, OneAccessPerRequest, AccessInv
  <2>2. ASSUME NEW w \in Workers, Inserts(w) PROVE OneAccessPerRequest'
    <3>1. AccessOf(job[w].req) = {}
      BY <2>2 DEF Inserts, AccessInv, Cleared
    <3>2. access \in [AccessSigs -> AccessRow]
      BY <1>f DEF NextFacts, LInv, TInv, TypeOK
    <3> QED  BY <2>2, <3>1, <3>2 DEF Inserts, AccessOf, OneAccessPerRequest, AccessInv
  <2> QED  BY <1>f, <2>1, <2>2 DEF NextFacts
<1> QED  BY <1>1, <1>2, <1>3, <1>4 DEF AccessInv

\* A request never has two stored access tokens, although Rotate and CreateAccess are
\* transactions of their own and the loop between them may fail half-way
\* (RotateRefreshToken, deleteSessionModelsByRequestID).
THEOREM OneAccess == Spec => []OneAccessPerRequest
<1>1. Init => AccessInv
  <2> SUFFICES ASSUME Init PROVE AccessInv
    OBVIOUS
  <2>1. /\ \A w \in Workers : pc[w] = "idle"
        /\ \A a \in AccessSigs : access[a].req = NoRequest
    BY DEF Init, NoAccessRow
  <2> QED  BY <2>1, DeathInit DEF AccessInv, OnlyRefreshRotates, Rotating, AccessOnlyAlone,
                                 OneAccessPerRequest, Cleared
<1>2. AccessInv => OneAccessPerRequest
  BY DEF AccessInv
<1> QED  BY <1>1, <1>2, AccessNext, PTL DEF Spec

-----------------------------------------------------------------------------
(***************************************************************************)
(* Part 5, RefreshFamily implements TokenAuthority: every step of the      *)
(* handlers and of the clean-up issues, spends or kills the tokens of one  *)
(* request, or changes nothing a client could tell.                        *)
(***************************************************************************)

\* The refinement mapping of RefreshFamily, by name.
Leaf(q) == IF tomb[q].present THEN {} ELSE ActiveRows(q)
LeafMap == [q \in Requests |-> IF tomb[q].present THEN {} ELSE ActiveRows(q)]
Live == UNION {IF tomb[q].present THEN {} ELSE ActiveRows(q) : q \in Requests}
SpentSet == issued \ Live

LEMMA LeafFacts ==
  ASSUME LInv
  PROVE  /\ \A q \in Requests : LeafMap[q] = Leaf(q)
         /\ \A s : s \in Live <=> \E q \in Requests : s \in Leaf(q)
         /\ \A q \in Requests : \A s \in Leaf(q) :
              s \in RefreshSigs /\ s \in issued /\ refresh[s].req = q
         /\ \A q \in Requests : \A s, t \in Leaf(q) : s = t
<1>1. \A q \in Requests : LeafMap[q] = Leaf(q)
  BY DEF LeafMap, Leaf
<1>2. \A s : s \in Live <=> \E q \in Requests : s \in Leaf(q)
  BY DEF Live, Leaf
<1>3. \A q \in Requests : \A s \in Leaf(q) : s \in RefreshSigs /\ s \in issued /\ refresh[s].req = q
  BY RequestsAssumption DEF Leaf, ActiveRows, RowsOf, LInv, RowsIssued
<1>4. \A q \in Requests : \A s, t \in Leaf(q) : s = t
  BY DEF Leaf, LInv, OneLeafAuthority
<1> QED  BY <1>1, <1>2, <1>3, <1>4

\* A step that changes no leaf and issues nothing.
LEMMA Stutter ==
  ASSUME \A q \in Requests : Leaf(q)' = Leaf(q), UNCHANGED <<issued, dead>>
  PROVE  UNCHANGED <<LeafMap, SpentSet, dead>>
BY DEF Leaf, LeafMap, Live, SpentSet

\* A step that takes the leaf of one request away.
LEMMA TakesLeaf ==
  ASSUME LInv, UNCHANGED issued, NEW q \in Requests, Leaf(q)' = {},
         \A p \in Requests : p # q => Leaf(p)' = Leaf(p)
  PROVE  LeafMap' = [LeafMap EXCEPT ![q] = {}] /\ SpentSet' = SpentSet \cup LeafMap[q]
<1>1. LeafMap' = [LeafMap EXCEPT ![q] = {}]
  BY DEF LeafMap, Leaf
<1>2. \A s : s \in Live' <=> s \in Live /\ s \notin Leaf(q)
  <2>1. \A s : s \in Live' <=> \E p \in Requests : s \in Leaf(p)'
    BY DEF Live, Leaf
  <2>2. \A p \in Requests : \A s \in Leaf(p) : s \in Leaf(q) => p = q
    BY LeafFacts
  <2> QED  BY <2>1, <2>2, LeafFacts
<1>3. LeafMap[q] = Leaf(q) /\ Leaf(q) \subseteq issued
  BY LeafFacts
<1>4. SpentSet' = SpentSet \cup LeafMap[q]
  BY <1>2, <1>3 DEF SpentSet
<1> QED  BY <1>1, <1>4

LEMMA AuthorityInit == Init => Authority!Init
<1> SUFFICES ASSUME Init PROVE Authority!Init
  OBVIOUS
<1>1. LInv
  BY LeafInit
<1>2. LeafMap \in [Requests -> {{}} \cup {{s} : s \in RefreshSigs}]
  <2> SUFFICES ASSUME NEW q \in Requests PROVE Leaf(q) \in {{}} \cup {{s} : s \in RefreshSigs}
    BY DEF LeafMap, Leaf
  <2>1. CASE Leaf(q) = {}
    BY <2>1
  <2>2. ASSUME NEW s \in Leaf(q) PROVE Leaf(q) \in {{}} \cup {{t} : t \in RefreshSigs}
    <3>1. Leaf(q) = {s} /\ s \in RefreshSigs
      BY <1>1, <2>2, LeafFacts
    <3> QED  BY <3>1
  <2> QED  BY <2>1, <2>2
<1>3. \A p, q \in Requests : p # q => LeafMap[p] \cap LeafMap[q] = {}
  BY <1>1, LeafFacts
<1>4. SpentSet = {}
  <2>1. ASSUME NEW s \in issued PROVE s \in Live
    <3>1. PICK legacy \in [LegacyRequests -> RefreshSigs] :
            /\ issued = {legacy[q] : q \in LegacyRequests}
            /\ refresh = [t \in RefreshSigs |->
                 IF t \in issued
                 THEN [NoRefreshRow EXCEPT !.req = CHOOSE q \in LegacyRequests : legacy[q] = t,
                                           !.exp = RefreshLife]
                 ELSE NoRefreshRow]
      BY DEF Init
    <3>2. PICK q : q = CHOOSE p \in LegacyRequests : legacy[p] = s
      OBVIOUS
    <3>3. q \in LegacyRequests /\ q \in Requests /\ s \in RefreshSigs
      BY <2>1, <3>1, <3>2, RequestsAssumption
    <3>4. refresh[s] = [NoRefreshRow EXCEPT !.req = q, !.exp = RefreshLife]
      BY <2>1, <3>1, <3>2, <3>3
    <3>5. refresh[s].req = q /\ refresh[s].status = "unset"
      BY <3>4 DEF NoRefreshRow
    <3>6. ~tomb[q].present
      BY <3>3 DEF Init, NoTomb
    <3>7. s \in Leaf(q)
      BY <3>3, <3>5, <3>6 DEF Leaf, ActiveRows, RowsOf, GetStatus
    <3> QED  BY <1>1, <3>3, <3>7, LeafFacts
  <2> QED  BY <2>1 DEF SpentSet
<1>5. dead = {}
  BY DEF Init
<1> QED  BY <1>2, <1>3, <1>4, <1>5 DEF Authority!Init, LeafMap, Live, SpentSet

\* Committing a tombstone kills; extending or removing one does not show.
LEMMA TombAuthority ==
  ASSUME DeathInv, NextFacts, UNCHANGED <<refresh, issued>>, NEW q, Raised(q) \/ Dropped(q),
         \A p \in Requests : p # q => tomb'[p] = tomb[p]
  PROVE  \/ UNCHANGED <<LeafMap, SpentSet, dead>>
         \/ /\ dead' = dead \cup {q} /\ LeafMap' = [LeafMap EXCEPT ![q] = {}]
            /\ SpentSet' = SpentSet \cup LeafMap[q] /\ q \in Requests
<1>1. LInv /\ q \in Requests
  BY DEF NextFacts, Raised, Dropped
<1>2. \A p \in Requests : ActiveRows(p)' = ActiveRows(p)
  BY DEF ActiveRows, RowsOf, GetStatus
<1>3. \A p \in Requests : p # q => Leaf(p)' = Leaf(p)
  BY <1>2 DEF Leaf
<1>4. CASE Dropped(q)
  <2>1. ActiveRows(q) = {} /\ UNCHANGED dead
    BY <1>4 DEF Dropped, Orphaned, ActiveRows
  <2>2. Leaf(q)' = Leaf(q)
    BY <1>1, <1>2, <2>1 DEF Leaf
  <2> QED  BY <1>3, <2>1, <2>2, Stutter
<1>5. CASE Raised(q) /\ tomb[q].present /\ UNCHANGED dead
  <2>1. Leaf(q)' = Leaf(q)
    BY <1>5 DEF Raised, Leaf
  <2> QED  BY <1>3, <1>5, <2>1, Stutter
<1>6. CASE Raised(q) /\ dead' = dead \cup {q}
  <2>1. Leaf(q)' = {}
    BY <1>6 DEF Raised, Leaf
  <2> QED  BY <1>1, <1>3, <1>6, <2>1, TakesLeaf
<1> QED  BY <1>4, <1>5, <1>6 DEF Raised

\* A row stops being active: its request loses its leaf, if that was it.
LEMMA RowAuthority ==
  ASSUME LInv, NEW s \in RefreshSigs, UNCHANGED <<tomb, dead, issued>>,
         refresh'[s].req = NoRequest \/ GetStatus(s)' # "active",
         \A t \in RefreshSigs : t # s => refresh'[t] = refresh[t]
  PROVE  \/ UNCHANGED <<LeafMap, SpentSet, dead>>
         \/ \E q \in Requests :
              /\ LeafMap[q] # {} /\ LeafMap' = [LeafMap EXCEPT ![q] = {}]
              /\ SpentSet' = SpentSet \cup LeafMap[q]
<1>1. \A t \in RefreshSigs : t # s => refresh'[t] = refresh[t] /\ GetStatus(t)' = GetStatus(t)
  BY DEF GetStatus
<1>2. \A q \in Requests : ActiveRows(q)' = ActiveRows(q) \ {s}
  BY <1>1, RequestsAssumption DEF ActiveRows, RowsOf
<1>3. \A q \in Requests : Leaf(q)' = Leaf(q) \ {s}
  BY <1>2 DEF Leaf
<1>4. CASE \A q \in Requests : s \notin Leaf(q)
  BY <1>3, <1>4, Stutter
<1>5. ASSUME NEW q \in Requests, s \in Leaf(q)
      PROVE  /\ LeafMap[q] # {} /\ LeafMap' = [LeafMap EXCEPT ![q] = {}]
             /\ SpentSet' = SpentSet \cup LeafMap[q]
  <2>1. Leaf(q)' = {} /\ \A p \in Requests : p # q => Leaf(p)' = Leaf(p)
    BY <1>3, <1>5, LeafFacts
  <2>2. LeafMap[q] # {}
    BY <1>5, LeafFacts
  <2> QED  BY <2>1, <2>2, TakesLeaf
<1> QED  BY <1>4, <1>5

\* The rows that handlers condemn or delete belong to the dead, who have no leaf.
LEMMA DeadAuthority ==
  ASSUME DeathInv, DeathInv', NextFacts, TableKeeps, DeadOnly, UNCHANGED <<tomb, dead>>
  PROVE  UNCHANGED <<LeafMap, SpentSet, dead>>
<1>1. ASSUME NEW q \in Requests PROVE Leaf(q)' = Leaf(q)
  <2>1. CASE tomb[q].present
    BY <2>1 DEF Leaf
  <2>2. CASE ~tomb[q].present /\ q \in dead
    BY <2>2 DEF Leaf, ActiveRows, DeathInv, DeadLeavesNothing
  <2>3. CASE ~tomb[q].present /\ q \notin dead
    <3>1. \A s \in RefreshSigs :
            refresh[s].req = q \/ refresh'[s].req = q => refresh'[s] = refresh[s]
      BY <2>3, RowAfter, RequestsAssumption DEF DeadOnly, NextFacts
    <3> QED  BY <2>3, <3>1 DEF Leaf, ActiveRows, RowsOf, GetStatus
  <2> QED  BY <2>1, <2>2, <2>3
<1> QED  BY <1>1, Stutter DEF TableKeeps

\* An INSERT gives a live request without a leaf a fresh one.
LEMMA StoreAuthority ==
  ASSUME DeathInv, NextFacts, NEW w \in Workers, NEW parent, Stores(w, parent),
         UNCHANGED <<tomb, dead>>
  PROVE  \E q \in Requests, s \in RefreshSigs :
           /\ q \notin dead /\ LeafMap[q] = {} /\ s \notin issued
           /\ LeafMap' = [LeafMap EXCEPT ![q] = {s}] /\ UNCHANGED SpentSet
<1> SUFFICES ASSUME NEW q, q = job[w].req, NEW f, f = FreshRefresh
             PROVE  /\ q \in Requests /\ f \in RefreshSigs
                    /\ q \notin dead /\ LeafMap[q] = {} /\ f \notin issued
                    /\ LeafMap' = [LeafMap EXCEPT ![q] = {f}] /\ UNCHANGED SpentSet
  OBVIOUS
<1>l. LInv
  BY DEF NextFacts
<1>1. /\ f \in RefreshSigs /\ f \notin issued /\ refresh[f].req = NoRequest
      /\ refresh'[f].req = q /\ refresh'[f].status = "active"
      /\ \A s \in RefreshSigs : s # f => refresh'[s] = refresh[s]
      /\ issued' = issued \cup {f} /\ q \in Requests
  BY <1>l, Stored
<1>2. ~tomb[q].present /\ Storing(w)
  BY DEF Stores, Storing, LineageTerminal, HasTerminal
<1>3. q \notin dead
  BY <1>2 DEF DeathInv, Vigil, Guarded
<1>4. ActiveRows(q) = {}
  BY <1>l, RotatedLineage DEF ActiveRows
<1>5. \A s \in RefreshSigs : s # f => GetStatus(s)' = GetStatus(s)
  BY <1>1 DEF GetStatus
<1>6. GetStatus(f)' = "active"
  BY <1>1 DEF GetStatus
<1>7. ActiveRows(q)' = {f} /\ \A p \in Requests : p # q => ActiveRows(p)' = ActiveRows(p)
  BY <1>1, <1>4, <1>5, <1>6, RequestsAssumption DEF ActiveRows, RowsOf
<1>8. Leaf(q) = {} /\ Leaf(q)' = {f} /\ \A p \in Requests : p # q => Leaf(p)' = Leaf(p)
  BY <1>1, <1>2, <1>4, <1>7 DEF Leaf
<1>9. LeafMap' = [LeafMap EXCEPT ![q] = {f}]
  BY <1>1, <1>8 DEF LeafMap, Leaf
<1>10. Live' = Live \cup {f}
  <2>1. \A s : s \in Live' <=> \E p \in Requests : s \in Leaf(p)'
    BY DEF Live, Leaf
  <2> QED  BY <1>1, <1>8, <1>l, <2>1, LeafFacts
<1>11. UNCHANGED SpentSet
  BY <1>1, <1>10 DEF SpentSet
<1> QED  BY <1>1, <1>3, <1>8, <1>9, <1>11, <1>l, LeafFacts

LEMMA AuthorityStep ==
  ASSUME DeathInv, DeathInv', [Next]_vars, NextFacts
  PROVE  \/ UNCHANGED <<LeafMap, SpentSet, dead>>
         \/ \E q \in Requests :
              /\ dead' = dead \cup {q} /\ LeafMap' = [LeafMap EXCEPT ![q] = {}]
              /\ SpentSet' = SpentSet \cup LeafMap[q]
         \/ \E q \in Requests :
              /\ LeafMap[q] # {} /\ LeafMap' = [LeafMap EXCEPT ![q] = {}]
              /\ SpentSet' = SpentSet \cup LeafMap[q] /\ UNCHANGED dead
         \/ \E q \in Requests, s \in RefreshSigs :
              /\ q \notin dead /\ LeafMap[q] = {} /\ s \notin issued
              /\ LeafMap' = [LeafMap EXCEPT ![q] = {s}] /\ UNCHANGED <<SpentSet, dead>>
<1>l. LInv /\ HInv
  BY DEF NextFacts, DeathInv, HInv
<1>1. CASE UNCHANGED <<tomb, dead>>
  <2>1. CASE TableKeeps /\ DeadOnly
    BY <1>1, <2>1, DeadAuthority
  <2>2. ASSUME NEW s \in RefreshSigs, Deletes(s) \/ Spends(s)
        PROVE  /\ refresh'[s].req = NoRequest \/ GetStatus(s)' # "active"
               /\ \A t \in RefreshSigs : t # s => refresh'[t] = refresh[t]
               /\ UNCHANGED issued
    <3>1. CASE Deletes(s)
      BY <3>1 DEF Deletes, RefreshWithout, NoRefreshRow
    <3>2. CASE Spends(s)
      BY <1>l, <3>2, SpentRow DEF Spends
    <3> QED  BY <2>2, <3>1, <3>2
  <2>3. ASSUME NEW s \in RefreshSigs, Deletes(s) \/ Spends(s)
        PROVE  \/ UNCHANGED <<LeafMap, SpentSet, dead>>
               \/ \E q \in Requests :
                    /\ LeafMap[q] # {} /\ LeafMap' = [LeafMap EXCEPT ![q] = {}]
                    /\ SpentSet' = SpentSet \cup LeafMap[q]
    BY <1>1, <1>l, <2>2, <2>3, RowAuthority
  <2> QED  BY <1>1, <1>l, <2>1, <2>3, NextRows, StoreAuthority
<1>2. ASSUME UNCHANGED refresh, NEW q, Raised(q) \/ Dropped(q),
             \A p \in Requests : p # q => tomb'[p] = tomb[p]
      PROVE  \/ UNCHANGED <<LeafMap, SpentSet, dead>>
             \/ /\ dead' = dead \cup {q} /\ LeafMap' = [LeafMap EXCEPT ![q] = {}]
                /\ SpentSet' = SpentSet \cup LeafMap[q] /\ q \in Requests
  <2>1. ASSUME NEW w \in Workers, NEW parent, Stores(w, parent) PROVE FALSE
    <3>1. PICK f : f = FreshRefresh
      OBVIOUS
    <3> QED  BY <1>2, <1>l, <2>1, <3>1, Stored, RequestsAssumption
  <2>2. UNCHANGED issued
    BY <2>1 DEF NextFacts, TableStep, TableKeeps, Spends
  <2> QED  BY <1>2, <2>2, TombAuthority
<1> QED  BY <1>1, <1>2 DEF NextFacts, TombStep

\* The families implement the authority over tokens: rotation spends, the INSERT
\* issues, commitRefreshTerminalAuthority kills, and what follows a death in the
\* tables, the removal of the tombstone included, does not show.
THEOREM Implements == Spec => ImplementsAuthority
<1>1. ASSUME DeathInv, DeathInv', [Next]_vars
      PROVE  [Authority!Next]_(Authority!avars)
  <2>1. NextFacts
    BY <1>1, Facts
  <2>2. CASE UNCHANGED <<LeafMap, SpentSet, dead>>
    BY <2>2 DEF Authority!avars, LeafMap, Live, SpentSet
  <2>3. ASSUME NEW q \in Requests,
               dead' = dead \cup {q}, LeafMap' = [LeafMap EXCEPT ![q] = {}],
               SpentSet' = SpentSet \cup LeafMap[q]
        PROVE  Authority!Next
    <3>1. Authority!Kill(q)
      BY <2>3 DEF Authority!Kill, LeafMap, Live, SpentSet
    <3> QED  BY <3>1 DEF Authority!Next
  <2>4. ASSUME NEW q \in Requests,
               LeafMap[q] # {}, LeafMap' = [LeafMap EXCEPT ![q] = {}],
               SpentSet' = SpentSet \cup LeafMap[q], UNCHANGED dead
        PROVE  Authority!Next
    <3>1. Authority!Spend(q)
      BY <2>4 DEF Authority!Spend, LeafMap, Live, SpentSet
    <3> QED  BY <3>1 DEF Authority!Next
  <2>5. ASSUME NEW q \in Requests, NEW s \in RefreshSigs,
               q \notin dead, LeafMap[q] = {}, s \notin issued,
               LeafMap' = [LeafMap EXCEPT ![q] = {s}], UNCHANGED <<SpentSet, dead>>
        PROVE  Authority!Next
    <3>1. s \notin SpentSet \cup UNION {LeafMap[p] : p \in Requests}
      BY <2>1, <2>5, LeafFacts DEF NextFacts, SpentSet
    <3>2. Authority!Issue(q, s)
      BY <2>5, <3>1 DEF Authority!Issue, Authority!Working, LeafMap, Live, SpentSet
    <3> QED  BY <3>2 DEF Authority!Next
  <2> QED  BY <1>1, <2>1, <2>2, <2>3, <2>4, <2>5, AuthorityStep
<1> QED  BY <1>1, AuthorityInit, DeathInit, DeathNext, PTL
         DEF Spec, ImplementsAuthority, Authority!Spec

-----------------------------------------------------------------------------
(***************************************************************************)
(* Part 6, the other side of module Bearer, whose validation paths read    *)
(* the rows one query at a time while the steps of this module change      *)
(* them. Its proofs rest on three facts about those changes.               *)
(***************************************************************************)

\* A refresh row is marked reused or revoked only under a tombstone, which then
\* stays as long as the row does: whoever reads the rows only (RevokedTokenGuardAt
\* after its first query) refuses nobody whom the tombstone would not.
TerminalRowsHaveTomb ==
  \A s \in RefreshSigs : refresh[s].req # NoRequest /\ GetStatus(s) \in Terminal
                           => tomb[refresh[s].req].present

\* A tombstone stays, and its expiry never moves back, until the clean-up finds it
\* expired and no row of its request left (cleanupExpiredRefreshTombstones).
TombLasts ==
  [][\A q \in Requests : tomb[q].present =>
       \/ tomb'[q].present /\ tomb'[q].exp >= tomb[q].exp
       \/ tomb[q].exp < now /\ Orphaned(q) /\ Orphaned(q)']_vars

\* An access row appears once, for a signature never stored before and a request
\* without a tombstone, and is not changed until it is deleted
\* (CreateAccessTokenSession).
AccessOnlyOnce ==
  [][/\ used \subseteq used'
     /\ \A a \in AccessSigs : access'[a].req # NoRequest =>
          \/ access'[a] = access[a]
          \/ a \in used' \ used /\ ~tomb[access'[a].req].present]_vars

\* What each step does to the access signatures ever stored.
Records ==
  \/ UNCHANGED used
  \/ \E b \in AccessSigs \ used :
       /\ used' = used \cup {b}
       /\ \E w \in Workers : /\ ~HasTerminal(job[w].req)
                             /\ access' = [access EXCEPT ![b] =
                                  [req |-> job[w].req, exp |-> job[w].since + AccessLife]]

LEMMA StepUses ==
  ASSUME NEW w \in Workers, Step(w), ~CreateAccess(w)
  PROVE  UNCHANGED used
<1> USE DEF history, store
<1>1. CASE GetTomb(w)       BY <1>1 DEF GetTomb
<1>2. CASE GetCommit(w)     BY <1>2 DEF GetCommit, CommitTerminal
<1>3. CASE GetFamily(w)     BY <1>3 DEF GetFamily, Invalidate, MutateFamily
<1>4. CASE DeleteFind(w)    BY <1>4 DEF DeleteFind
<1>5. CASE DeleteRow(w)     BY <1>5 DEF DeleteRow
<1>6. CASE RevokeCommit(w)  BY <1>6 DEF RevokeCommit, CommitTerminal
<1>7. CASE RevokeFamily(w)  BY <1>7 DEF RevokeFamily, MutateFamily
<1>8. CASE AccessRead(w)    BY <1>8 DEF AccessRead
<1>9. CASE AccessDelete(w)  BY <1>9 DEF AccessDelete
<1>10. CASE RotateTomb(w)   BY <1>10 DEF RotateTomb
<1>11. CASE RotateCAS(w)    BY <1>11 DEF RotateCAS
<1>12. CASE RotateReread(w) BY <1>12 DEF RotateReread
<1>13. CASE RotateCommit(w) BY <1>13 DEF RotateCommit, CommitTerminal
<1>14. CASE RotateFamily(w) BY <1>14 DEF RotateFamily, Invalidate, MutateFamily
<1>15. CASE CreateRefresh(w) BY <1>15 DEF CreateRefresh
<1>16. CASE CheckTomb(w)    BY <1>16 DEF CheckTomb
<1>17. CASE CheckRows(w)    BY <1>17 DEF CheckRows
<1>18. CASE Finish(w)       BY <1>18 DEF Finish
<1> QED  BY <1>1, <1>2, <1>3, <1>4, <1>5, <1>6, <1>7, <1>8, <1>9, <1>10, <1>11, <1>12,
            <1>13, <1>14, <1>15, <1>16, <1>17, <1>18 DEF Step

LEMMA NextRecords ==
  ASSUME LInv, [Next]_vars
  PROVE  Records /\ (UNCHANGED used => AccessKeeps)
<1> USE DEF history, store
<1>s. UNCHANGED <<access, used>> => Records /\ AccessKeeps
  BY AccessSame DEF Records
<1>d. UNCHANGED used /\ (\E S : access' = AccessWithout(S)) => Records /\ AccessKeeps
  BY AccessWithoutKeeps DEF Records
<1>1. ASSUME NEW w \in Workers, Arrive(w) PROVE Records /\ AccessKeeps
  <2>1. ASSUME NEW s, NEW e, PresentRefresh(w, s, e) PROVE UNCHANGED <<access, used>>
    BY <2>1 DEF PresentRefresh
  <2>2. ASSUME NEW a, NEW e, PresentAccess(w, a, e) PROVE UNCHANGED <<access, used>>
    BY <2>2 DEF PresentAccess
  <2>3. ASSUME NEW q, NEW k, Exchange(w, q, k) PROVE UNCHANGED <<access, used>>
    BY <2>3 DEF Exchange
  <2>4. ASSUME NEW q, ReplayCode(w, q) PROVE UNCHANGED <<access, used>>
    BY <2>4 DEF ReplayCode
  <2> QED  BY <1>1, <1>s, <2>1, <2>2, <2>3, <2>4 DEF Arrive
<1>2. ASSUME NEW w \in Workers, CreateAccess(w)
      PROVE  Records /\ (UNCHANGED used => AccessKeeps)
  <2>1. CASE UNCHANGED <<access, used>>
    BY <1>s, <2>1
  <2>2. CASE /\ ~HasTerminal(job[w].req) /\ TokensLeft(w)
             /\ access' = [access EXCEPT ![FreshAccess] =
                             [req |-> job[w].req, exp |-> job[w].since + AccessLife]]
             /\ used' = used \cup {FreshAccess}
    <3>1. PICK b : b = FreshAccess
      OBVIOUS
    <3>2. b \in AccessSigs \ used
      BY <2>2, <3>1 DEF TokensLeft, FreshAccess, LInv, TInv, TypeOK
    <3> QED  BY <2>2, <3>1, <3>2 DEF Records
  <2> QED  BY <1>2, <2>1, <2>2 DEF CreateAccess
<1>3. ASSUME NEW w \in Workers, CreateRefresh(w) PROVE Records /\ AccessKeeps
  <2>1. UNCHANGED access \/ \E S : access' = AccessWithout(S)
    BY <1>3 DEF CreateRefresh, RefuseTerminal
  <2> QED  BY <1>3, <1>s, <1>d, <2>1 DEF CreateRefresh
<1>4. ASSUME NEW w \in Workers, AccessFault(w) \/ Abort(w) PROVE Records /\ AccessKeeps
  BY <1>4, <1>s DEF AccessFault, Abort
<1>5. CASE CleanUp
  <2>1. ASSUME NEW a \in AccessSigs, CronAccess(a) PROVE Records /\ AccessKeeps
    BY <2>1, <1>s, <1>d DEF CronAccess
  <2> QED  BY <1>5, <1>s, <2>1
           DEF CleanUp, CronStart, CronQueryRefresh, CronQueryTombs, CronEnd, CronRefresh, CronTomb
<1>6. CASE Tick \/ UNCHANGED vars
  BY <1>6, <1>s DEF Tick, vars
<1>7. ASSUME NEW w \in Workers, Step(w), ~CreateAccess(w), ~CreateRefresh(w)
      PROVE  Records /\ AccessKeeps
  <2>1. AccessKeeps
    BY <1>7, StepStore
  <2>2. UNCHANGED used
    BY <1>7, StepUses
  <2> QED  BY <2>1, <2>2 DEF Records
<1> QED  BY <1>1, <1>2, <1>3, <1>4, <1>5, <1>6, <1>7 DEF Next, Handlers

\* Marked rows have their tombstone: it was committed in a transaction of its own,
\* before any row was marked (commitRefreshTerminalAuthority).
THEOREM Grounds == Spec => []TerminalRowsHaveTomb
<1>1. DeathInv => TerminalRowsHaveTomb
  <2> SUFFICES ASSUME DeathInv, NEW s \in RefreshSigs, refresh[s].req # NoRequest,
                      GetStatus(s) \in Terminal
               PROVE  tomb[refresh[s].req].present
    BY DEF TerminalRowsHaveTomb
  <2>1. refresh[s].req \in dead /\ s \in RowsOf(refresh[s].req)
    BY DEF DeathInv, DeathKnown, RowsOf
  <2> QED  BY <2>1 DEF DeathInv, DeadLeavesNothing
<1> QED  BY <1>1, DeathInit, DeathNext, PTL DEF Spec

\* A tombstone lasts until it has expired and its request has no row left.
THEOREM Lasts == Spec => TombLasts
<1>1. ASSUME DeathInv, [Next]_vars
      PROVE  \A q \in Requests : tomb[q].present =>
               \/ tomb'[q].present /\ tomb'[q].exp >= tomb[q].exp
               \/ tomb[q].exp < now /\ Orphaned(q) /\ Orphaned(q)'
  <2> SUFFICES ASSUME NEW q \in Requests, tomb[q].present
               PROVE  \/ tomb'[q].present /\ tomb'[q].exp >= tomb[q].exp
                      \/ tomb[q].exp < now /\ Orphaned(q) /\ Orphaned(q)'
    OBVIOUS
  <2>1. NextFacts
    BY <1>1, Facts
  <2>2. tomb[q].exp \in Nat
    BY <2>1 DEF NextFacts, LInv, TInv, TypeOK, Tomb
  <2>3. CASE tomb'[q] = tomb[q]
    BY <1>1, <2>2, <2>3
  <2>4. CASE Raised(q)
    BY <2>4 DEF Raised
  <2>5. CASE Dropped(q) /\ ~(tomb'[q] = tomb[q])
    <3>1. tomb[q].exp < now /\ Orphaned(q)
      BY <2>1, <2>2, <2>5 DEF Dropped, NextFacts
    <3>2. UNCHANGED <<refresh, access>>
      BY <2>1, <2>5 DEF NextFacts, TombStep
    <3> QED  BY <3>1, <3>2 DEF Orphaned, RowsOf, AccessOf
  <2> QED  BY <2>1, <2>3, <2>4, <2>5 DEF NextFacts
<1> QED  BY <1>1, DeathInit, DeathNext, PTL DEF Spec, TombLasts

\* An access row never comes back and never changes.
THEOREM StoredOnce == Spec => AccessOnlyOnce
<1>1. ASSUME DeathInv, [Next]_vars
      PROVE  /\ used \subseteq used'
             /\ \A a \in AccessSigs : access'[a].req # NoRequest =>
                  \/ access'[a] = access[a]
                  \/ a \in used' \ used /\ ~tomb[access'[a].req].present
  <2>1. LInv
    BY <1>1, Facts DEF NextFacts
  <2>2. CASE UNCHANGED used
    <3>1. AccessKeeps
      BY <1>1, <2>1, <2>2, NextRecords
    <3> QED  BY <2>2, <3>1 DEF AccessKeeps, NoAccessRow
  <2>3. ASSUME NEW b \in AccessSigs \ used, NEW w \in Workers,
               used' = used \cup {b}, ~HasTerminal(job[w].req),
               access' = [access EXCEPT ![b] =
                            [req |-> job[w].req, exp |-> job[w].since + AccessLife]]
        PROVE  \A a \in AccessSigs :
                  \/ access'[a] = access[a]
                  \/ a \in used' \ used /\ ~tomb[access'[a].req].present
    <3>1. access \in [AccessSigs -> AccessRow]
      BY <2>1 DEF LInv, TInv, TypeOK
    <3>2. access'[b].req = job[w].req /\ \A a \in AccessSigs : a # b => access'[a] = access[a]
      BY <2>3, <3>1
    <3> QED  BY <2>3, <3>2 DEF HasTerminal
  <2> QED  BY <1>1, <2>1, <2>2, <2>3, NextRecords DEF Records
<1> QED  BY <1>1, DeathInit, DeathNext, PTL DEF Spec, AccessOnlyOnce

=============================================================================
