---------------------------- MODULE BearerProofs ----------------------------
(***************************************************************************)
(* The promises of the validation paths, for any number of requests and    *)
(* tokens and any interleaving of their queries with what the rest of the  *)
(* program does to the rows.                                               *)
(*                                                                         *)
(* A request that should be refused has a cause, and the cause is one that *)
(* a query still to come will find: a query that passed refutes the cause  *)
(* it looks for, and a cause that the world removes leaves another behind  *)
(* that is looked for later (Doomed, Fallen). So the order of the queries  *)
(* matters: the tombstone is only removed when the tokens it covers have   *)
(* expired, and expiry is looked at after it.                              *)
(***************************************************************************)
EXTENDS Bearer, TLAPS

\* The list of queries a request is working on, and how many are left of it.
List(h) == IF req[h].second THEN Introspection ELSE Checks(req[h].op)
Left(h) == Len(req[h].todo)
Busy(h) == req[h].op # "none" /\ req[h].answer = "none"

Reqs == [op : Ops \union {"none"}, token : Tokens \union {"none"},
         todo : Seq(CheckNames), second : BOOLEAN, answer : Answers,
         scopes : SUBSET (Scopes \union {"sub"}), standing : BOOLEAN, live : BOOLEAN]

\* A busy request has the end of its list before it.
Lined(h) ==
    /\ req[h].op = "none" => req[h].answer = "none"
    /\ req[h].op # "none" => req[h].token \in issued
    /\ req[h].second => req[h].op = "userinfo"
    /\ req[h].todo # <<>> => Busy(h)
    /\ Busy(h) =>
         /\ Left(h) \in 1 .. Len(List(h))
         /\ \A i \in 1 .. Left(h) : req[h].todo[i] = List(h)[Len(List(h)) - Left(h) + i]

\* Rows are marked terminal under a tombstone only, and it covers the access rows.
Grounded == (terminal => tomb) /\ (tomb => rows \subseteq covered)

\* Why an attestation that should fail will fail.
Doomed(h) ==
    LET t == req[h].token IN
    \/ Left(h) >= 6 /\ ~user
    \/ Left(h) >= 5 /\ t \notin rows
    \/ Left(h) >= 4 /\ tomb /\ t \in covered
    \/ Left(h) >= 2 /\ t \in expired
    \/ ~client

\* Why a request for a token without standing will fail, unless the token expires.
Fallen(h) ==
    LET t == req[h].token
        n == IF req[h].op = "guard" THEN Left(h) ELSE Left(h) - 5
    IN  \/ n >= 3 /\ t \notin rows
        \/ n >= 2 /\ tomb /\ t \in covered
        \/ t \in expired

\* How many queries are left at most once the token is known for an access token.
Known(h) ==
    LET r == req[h] IN
    \/ r.op = "guard" \/ r.second
    \/ r.op = "scope" /\ Left(h) < 8
    \/ r.op \in {"attest", "userinfo"} /\ Left(h) < 6

Honest(h) ==
    LET r == req[h] IN
    /\ r.live => r.standing
    /\ r.op \in {"attest", "userinfo"} =>
         /\ Busy(h) /\ ~r.second /\ ~r.live => Doomed(h)
         /\ r.second \/ r.answer = "accepted" => r.live
    /\ r.op \in {"guard", "scope"} =>
         /\ Busy(h) /\ ~r.standing => Fallen(h)
         /\ r.answer = "accepted" /\ ~r.standing => r.token \in expired
    /\ Busy(h) /\ Known(h) => r.token \in Access
    /\ r.answer = "accepted" => r.token \in Access

Inv == TypeOK /\ Grounded /\ \A h \in Handlers : Lined(h) /\ Honest(h)

-----------------------------------------------------------------------------
\* The lists.

LEMMA Joined ==
    ASSUME NEW s \in Seq(CheckNames), NEW t \in Seq(CheckNames)
    PROVE  /\ s \o t \in Seq(CheckNames) /\ Len(s \o t) = Len(s) + Len(t)
           /\ \A i \in 1 .. Len(s) : (s \o t)[i] = s[i]
           /\ \A i \in 1 .. Len(t) : (s \o t)[Len(s) + i] = t[i]
OBVIOUS

LEMMA FamilyList ==
    /\ FamilyAllows \in Seq(CheckNames) /\ Len(FamilyAllows) = 2
    /\ FamilyAllows[1] = "tomb" /\ FamilyAllows[2] = "family"
BY DEF FamilyAllows, CheckNames

LEMMA GuardList ==
    /\ Guard \in Seq(CheckNames) /\ Len(Guard) = 3
    /\ Guard[1] = "row" /\ Guard[2] = "tomb" /\ Guard[3] = "family"
<1> DEFINE r == <<"row">>
<1>1. r \in Seq(CheckNames) /\ Len(r) = 1 /\ r[1] = "row"
  BY DEF CheckNames
<1>2. Guard = r \o FamilyAllows
  BY DEF Guard
<1> HIDE DEF r
<1>3. /\ Guard \in Seq(CheckNames) /\ Len(Guard) = 3 /\ Guard[1] = r[1]
      /\ \A i \in 1 .. 2 : Guard[1 + i] = FamilyAllows[i]
  <2>1. /\ r \o FamilyAllows \in Seq(CheckNames)
        /\ Len(r \o FamilyAllows) = Len(r) + Len(FamilyAllows)
        /\ \A i \in 1 .. Len(r) : (r \o FamilyAllows)[i] = r[i]
        /\ \A i \in 1 .. Len(FamilyAllows) : (r \o FamilyAllows)[Len(r) + i] = FamilyAllows[i]
    BY <1>1, FamilyList, Joined
  <2> QED BY <1>1, <1>2, <2>1, FamilyList
<1>4. Guard[1 + 1] = FamilyAllows[1] /\ Guard[1 + 2] = FamilyAllows[2]
  BY <1>3
<1> QED BY FamilyList, <1>1, <1>3, <1>4

LEMMA AttestationList ==
    /\ Attestation \in Seq(CheckNames) /\ Len(Attestation) = 6
    /\ Attestation[1] = "jwt" /\ Attestation[2] = "row" /\ Attestation[3] = "tomb"
    /\ Attestation[4] = "family" /\ Attestation[5] = "fields" /\ Attestation[6] = "client"
<1> DEFINE a == <<"jwt", "row">>
           b == <<"fields", "client">>
           ab == a \o FamilyAllows
<1>1. /\ a \in Seq(CheckNames) /\ Len(a) = 2 /\ a[1] = "jwt" /\ a[2] = "row"
      /\ b \in Seq(CheckNames) /\ Len(b) = 2 /\ b[1] = "fields" /\ b[2] = "client"
  BY DEF CheckNames
<1>2. Attestation = ab \o b
  BY DEF Attestation
<1> HIDE DEF a, b
<1>3. /\ ab \in Seq(CheckNames) /\ Len(ab) = Len(a) + Len(FamilyAllows)
      /\ \A i \in 1 .. Len(a) : ab[i] = a[i]
      /\ \A i \in 1 .. Len(FamilyAllows) : ab[Len(a) + i] = FamilyAllows[i]
  BY <1>1, FamilyList, Joined
<1>4. /\ Len(ab) = 4 /\ ab[1] = a[1] /\ ab[2] = a[2]
      /\ ab[2 + 1] = FamilyAllows[1] /\ ab[2 + 2] = FamilyAllows[2]
  BY <1>1, <1>3, FamilyList
<1> HIDE DEF ab
<1>5. /\ Attestation \in Seq(CheckNames) /\ Len(Attestation) = Len(ab) + Len(b)
      /\ \A i \in 1 .. Len(ab) : Attestation[i] = ab[i]
      /\ \A i \in 1 .. Len(b) : Attestation[Len(ab) + i] = b[i]
  <2>1. /\ ab \o b \in Seq(CheckNames) /\ Len(ab \o b) = Len(ab) + Len(b)
        /\ \A i \in 1 .. Len(ab) : (ab \o b)[i] = ab[i]
        /\ \A i \in 1 .. Len(b) : (ab \o b)[Len(ab) + i] = b[i]
    BY <1>1, <1>3, Joined
  <2> QED BY <1>2, <2>1
<1>6. /\ Len(Attestation) = 6 /\ \A i \in 1 .. 4 : Attestation[i] = ab[i]
      /\ Attestation[4 + 1] = b[1] /\ Attestation[4 + 2] = b[2]
  BY <1>1, <1>4, <1>5
<1> QED BY FamilyList, <1>1, <1>3, <1>4, <1>5, <1>6

LEMMA IntrospectionList ==
    /\ Introspection \in Seq(CheckNames) /\ Len(Introspection) = 8
    /\ Introspection[1] = "row" /\ Introspection[2] = "tomb" /\ Introspection[3] = "family"
    /\ Introspection[4] = "client" /\ Introspection[5] = "jwt" /\ Introspection[6] = "row"
    /\ Introspection[7] = "tomb" /\ Introspection[8] = "family"
<1> DEFINE c == <<"client", "jwt", "row">>
           gc == Guard \o c
<1>1. /\ c \in Seq(CheckNames) /\ Len(c) = 3
      /\ c[1] = "client" /\ c[2] = "jwt" /\ c[3] = "row"
  BY DEF CheckNames
<1>2. Introspection = gc \o FamilyAllows
  BY DEF Introspection, Guard
<1> HIDE DEF c
<1>3. /\ gc \in Seq(CheckNames) /\ Len(gc) = Len(Guard) + Len(c)
      /\ \A i \in 1 .. Len(Guard) : gc[i] = Guard[i]
      /\ \A i \in 1 .. Len(c) : gc[Len(Guard) + i] = c[i]
  BY <1>1, GuardList, Joined
<1>4. /\ Len(gc) = 6 /\ gc[1] = Guard[1] /\ gc[2] = Guard[2] /\ gc[3] = Guard[3]
      /\ gc[3 + 1] = c[1] /\ gc[3 + 2] = c[2] /\ gc[3 + 3] = c[3]
  BY <1>1, <1>3, GuardList
<1> HIDE DEF gc
<1>5. /\ Introspection \in Seq(CheckNames)
      /\ Len(Introspection) = Len(gc) + Len(FamilyAllows)
      /\ \A i \in 1 .. Len(gc) : Introspection[i] = gc[i]
      /\ \A i \in 1 .. Len(FamilyAllows) : Introspection[Len(gc) + i] = FamilyAllows[i]
  BY <1>2, <1>3, FamilyList, Joined
<1>6. /\ Len(Introspection) = 8 /\ \A i \in 1 .. 6 : Introspection[i] = gc[i]
      /\ Introspection[6 + 1] = FamilyAllows[1] /\ Introspection[6 + 2] = FamilyAllows[2]
  BY <1>4, <1>5, FamilyList
<1> QED BY FamilyList, GuardList, <1>1, <1>3, <1>4, <1>5, <1>6

\* The lists by what is left of them.
LEMMA ListOf ==
    ASSUME Inv, NEW h \in Handlers, Busy(h)
    PROVE  /\ req[h].op \in {"attest", "userinfo"} /\ ~req[h].second =>
                /\ Left(h) \in 1 .. 6
                /\ Head(req[h].todo) = Attestation[7 - Left(h)]
           /\ req[h].op = "guard" =>
                Left(h) \in 1 .. 3 /\ Head(req[h].todo) = Guard[4 - Left(h)]
           /\ req[h].op = "scope" \/ req[h].second =>
                Left(h) \in 1 .. 8 /\ Head(req[h].todo) = Introspection[9 - Left(h)]
<1>1. /\ Left(h) \in 1 .. Len(List(h)) /\ req[h].todo \in Seq(CheckNames)
      /\ \A i \in 1 .. Left(h) : req[h].todo[i] = List(h)[Len(List(h)) - Left(h) + i]
      /\ req[h].second => req[h].op = "userinfo"
      /\ req[h].op \in Ops
  BY DEF Inv, Lined, TypeOK, Busy
<1>2. /\ req[h].op \in {"attest", "userinfo"} /\ ~req[h].second => List(h) = Attestation
      /\ req[h].op = "guard" => List(h) = Guard
      /\ req[h].op = "scope" \/ req[h].second => List(h) = Introspection
  BY <1>1 DEF List, Checks, Ops
<1>3. ASSUME NEW n \in Nat, Len(List(h)) = n
      PROVE  Left(h) \in 1 .. n /\ Head(req[h].todo) = List(h)[n + 1 - Left(h)]
  <2>1. Left(h) \in 1 .. n /\ req[h].todo[1] = List(h)[n - Left(h) + 1]
    BY <1>1, <1>3
  <2>2. Head(req[h].todo) = req[h].todo[1]
    BY <1>1 DEF Left
  <2>3. n - Left(h) + 1 = n + 1 - Left(h)
    BY <2>1
  <2> QED BY <2>1, <2>2, <2>3
<1>4. ASSUME List(h) = Attestation
      PROVE  Left(h) \in 1 .. 6 /\ Head(req[h].todo) = Attestation[7 - Left(h)]
  <2>1. Left(h) \in 1 .. 6 /\ Head(req[h].todo) = List(h)[6 + 1 - Left(h)]
    BY <1>3, <1>4, AttestationList
  <2> QED BY <1>4, <2>1
<1>5. ASSUME List(h) = Guard
      PROVE  Left(h) \in 1 .. 3 /\ Head(req[h].todo) = Guard[4 - Left(h)]
  <2>1. Left(h) \in 1 .. 3 /\ Head(req[h].todo) = List(h)[3 + 1 - Left(h)]
    BY <1>3, <1>5, GuardList
  <2> QED BY <1>5, <2>1
<1>6. ASSUME List(h) = Introspection
      PROVE  Left(h) \in 1 .. 8 /\ Head(req[h].todo) = Introspection[9 - Left(h)]
  <2>1. Left(h) \in 1 .. 8 /\ Head(req[h].todo) = List(h)[8 + 1 - Left(h)]
    BY <1>3, <1>6, IntrospectionList
  <2> QED BY <1>6, <2>1
<1> QED BY <1>2, <1>4, <1>5, <1>6

-----------------------------------------------------------------------------
\* The world.

\* A token is never issued again, an access row never comes back, users, clients
\* and lifetimes end for good, and a tombstone stays until the tokens it covers
\* have expired.
Ages ==
    /\ issued \subseteq issued' /\ expired \subseteq expired'
    /\ rows' \subseteq Access /\ \A t \in issued : t \in rows' => t \in rows
    /\ user' => user
    /\ client' => client
    /\ tomb => (tomb' /\ covered \subseteq covered') \/ covered \subseteq expired
    /\ req' = req

WorldType ==
    /\ issued \subseteq Tokens /\ rows \subseteq Access /\ leaf \subseteq Refresh
    /\ {terminal, tomb, client, user} \subseteq BOOLEAN
    /\ expired \subseteq Tokens /\ covered \subseteq Tokens

LEMMA ChangeAges == ASSUME TypeOK, Grounded, Change PROVE Ages /\ WorldType' /\ Grounded'
<1> USE DEF TypeOK, WorldType, Ages, Grounded, Tokens
<1>1. CASE CommitTerminal
  BY <1>1 DEF CommitTerminal
<1>1a. CASE CleanUpFamily
  BY <1>1a DEF CleanUpFamily
<1>2. CASE Rotate
  BY <1>2 DEF Rotate
<1>3. CASE Issue
  <2>1. PICK a \in Access \ issued, r \in Refresh \ issued :
          rows' = {a} /\ leaf' = {r} /\ issued' = issued \union {a, r}
    BY <1>3 DEF Issue
  <2> QED BY <1>3, <2>1 DEF Issue
<1>4. CASE DeleteClient
  BY <1>4 DEF DeleteClient
<1>4a. CASE InvalidateUser
  BY <1>4a DEF InvalidateUser
<1>5. CASE \E t \in issued : Expire(t)
  BY <1>5 DEF Expire
<1>6. CASE CronRows
  <2>1. PICK gone \in SUBSET expired : rows' = rows \ gone /\ leaf' = leaf \ gone
    BY <1>6 DEF CronRows
  <2>2. /\ rows' \subseteq rows /\ leaf' \subseteq leaf /\ terminal' \in {terminal, FALSE}
        /\ UNCHANGED <<issued, tomb, covered, client, user, expired, req>>
    BY <1>6, <2>1 DEF CronRows
  <2>3. Ages
    BY <2>2
  <2>3a. Grounded'
    <3>1. CASE terminal' = FALSE
      BY <2>2, <3>1
    <3>2. CASE terminal' = terminal
      BY <2>2, <3>2
    <3> QED BY <2>2, <3>1, <3>2
  <2>4. WorldType'
    BY <2>2
  <2> QED BY <2>3, <2>3a, <2>4
<1>7. CASE CronTomb
  BY <1>7 DEF CronTomb
<1> QED BY <1>1, <1>1a, <1>2, <1>3, <1>4, <1>4a, <1>5, <1>6, <1>7 DEF Change

\* A change removes no cause without leaving another.
LEMMA ChangeInv == ASSUME Inv, Change PROVE Inv'
<1>1. Ages /\ WorldType' /\ Grounded'
  BY ChangeAges DEF Inv
<1>2. TypeOK'
  BY <1>1 DEF Inv, TypeOK, WorldType, Ages
<1>3. ASSUME NEW h \in Handlers PROVE Lined(h)' /\ Honest(h)'
  <2>0. /\ req' = req /\ Lined(h) /\ Honest(h) /\ req[h].op \in Ops \union {"none"}
        /\ Left(h)' = Left(h) /\ List(h)' = List(h) /\ Busy(h)' = Busy(h)
        /\ Known(h)' = Known(h)
    BY <1>1 DEF Inv, Ages, Left, List, Busy, Known, TypeOK
  <2>1. Lined(h)'
    BY <1>1, <2>0 DEF Lined, Ages
  <2>2. ASSUME Busy(h), req[h].op \in {"attest", "userinfo"}, ~req[h].second, Doomed(h)
        PROVE  Doomed(h)'
    <3>1. Left(h) \in 1 .. 6 /\ req[h].token \in issued
      BY <2>0, <2>2, ListOf DEF Lined, Busy
    <3> QED BY <1>1, <2>0, <2>2, <3>1 DEF Doomed, Ages
  <2>3. ASSUME Busy(h), req[h].op \in {"guard", "scope"}, Fallen(h)
        PROVE  Fallen(h)'
    <3>1. Left(h) \in 1 .. 8 /\ req[h].token \in issued
      BY <2>0, <2>3, ListOf DEF Lined, Busy
    <3> QED BY <1>1, <2>0, <2>3, <3>1 DEF Fallen, Ages
  <2> QED BY <1>1, <2>0, <2>1, <2>2, <2>3 DEF Honest, Ages
<1> QED BY <1>1, <1>2, <1>3 DEF Inv

-----------------------------------------------------------------------------
\* The requests.

LEMMA ChecksLists ==
    \A op \in Ops : Checks(op) \in Seq(CheckNames) /\ Len(Checks(op)) \in 3 .. 8
BY AttestationList, GuardList, IntrospectionList DEF Ops, Checks

\* A request changes nothing but what is remembered of it.
LEMMA UpdateInv ==
    ASSUME Inv, NEW h \in Handlers, NEW r \in Reqs, Update(h, r), Lined(h)', Honest(h)'
    PROVE  Inv'
<1>1. /\ req' = [req EXCEPT ![h] = r] /\ req \in [Handlers -> Reqs]
      /\ UNCHANGED <<issued, rows, leaf, terminal, tomb, covered, client, user, expired>>
  BY DEF Update, World, Inv, TypeOK, Reqs
<1>2. TypeOK'
  BY <1>1 DEF Inv, TypeOK, Reqs
<1>3. ASSUME NEW g \in Handlers, g # h PROVE Lined(g)' /\ Honest(g)'
  <2>1. req'[g] = req[g] /\ Lined(g) /\ Honest(g)
    BY <1>1, <1>3 DEF Inv
  <2>2. Left(g)' = Left(g) /\ List(g)' = List(g) /\ Busy(g)' = Busy(g) /\ Known(g)' = Known(g)
    BY <2>1 DEF Left, List, Busy, Known
  <2>3. Lined(g)'
    BY <1>1, <2>1, <2>2 DEF Lined
  <2>4. Doomed(g)' = Doomed(g) /\ Fallen(g)' = Fallen(g)
    BY <1>1, <2>1, <2>2 DEF Doomed, Fallen
  <2> QED BY <1>1, <2>1, <2>2, <2>3, <2>4 DEF Honest
<1>4. Grounded'
  BY <1>1 DEF Inv, Grounded
<1> QED BY <1>2, <1>3, <1>4 DEF Inv

LEMMA BeginInv == ASSUME Inv, NEW h \in Handlers, Begin(h) PROVE Inv'
<1>1. PICK op \in Ops, t \in issued :
        /\ op = "guard" => Holds("jwt", t)
        /\ Update(h, [Idle EXCEPT !.op = op, !.token = t, !.todo = Checks(op),
                                  !.standing = Standing(t), !.live = Live(t)])
  BY DEF Begin
<1> DEFINE r == [Idle EXCEPT !.op = op, !.token = t, !.todo = Checks(op),
                             !.standing = Standing(t), !.live = Live(t)]
<1>2. /\ r.op = op /\ r.token = t /\ r.todo = Checks(op) /\ ~r.second /\ r.answer = "none"
      /\ r.standing = Standing(t) /\ r.live = Live(t)
  BY DEF Idle
<1>3. /\ req'[h] = r /\ issued' = issued /\ rows' = rows /\ tomb' = tomb /\ user' = user
      /\ terminal' = terminal /\ client' = client /\ expired' = expired /\ covered' = covered
      /\ WorldType /\ t \in Tokens
  BY <1>1 DEF Update, World, Inv, TypeOK, WorldType
<1>4. r \in Reqs
  <2>1. Standing(t) \in BOOLEAN /\ Live(t) \in BOOLEAN
    BY DEF Standing, Live
  <2> QED BY <1>3, <2>1, ChecksLists DEF Idle, Reqs, Answers
<1> HIDE DEF r
<1>5. Lined(h)'
  <2>1. List(h)' = Checks(op) /\ Left(h)' = Len(Checks(op)) /\ Busy(h)'
    BY <1>2, <1>3 DEF List, Left, Busy, Ops
  <2>2. Left(h)' \in 1 .. Len(List(h)') /\ Len(List(h)') - Left(h)' = 0
    <3> DEFINE n == Len(Checks(op))
    <3>1. n \in 3 .. 8 /\ Left(h)' = n /\ Len(List(h)') = n
      BY <2>1, ChecksLists
    <3> HIDE DEF n
    <3> QED BY <3>1
  <2>3. ASSUME NEW i \in 1 .. Left(h)'
        PROVE  Checks(op)[i] = List(h)'[Len(List(h)') - Left(h)' + i]
    BY <2>1, <2>2
  <2> QED BY <1>2, <1>3, <2>1, <2>2, <2>3 DEF Lined, Ops
<1>6. Honest(h)'
  <2>1. /\ op \in {"attest", "userinfo"} => Left(h)' = 6
        /\ op = "guard" => Left(h)' = 3
        /\ op = "scope" => Left(h)' = 8
    BY <1>2, <1>3, AttestationList, GuardList, IntrospectionList DEF Left, Checks
  <2>2. Live(t) => Standing(t)
    BY DEF Live
  <2>2a. ~Standing(t) => t \notin rows \/ (tomb /\ t \in covered)
    BY DEF Inv, Grounded, Standing
  <2>3. op \in {"attest", "userinfo"} /\ ~Live(t) => Doomed(h)'
    BY <1>2, <1>3, <2>1, <2>2a DEF Doomed, Live
  <2>4. op \in {"guard", "scope"} /\ ~Standing(t) => Fallen(h)'
    BY <1>2, <1>3, <2>1, <2>2a DEF Fallen
  <2>5. Known(h)' => t \in Access
    BY <1>1, <1>2, <1>3, <2>1 DEF Known, Holds
  <2> QED BY <1>2, <1>3, <2>2, <2>3, <2>4, <2>5 DEF Honest
<1> QED BY <1>1, <1>4, <1>5, <1>6, UpdateInv DEF r

LEMMA ReturnInv == ASSUME Inv, NEW h \in Handlers, Return(h) PROVE Inv'
<1>1. Idle \in Reqs
  BY DEF Idle, Reqs, Answers
<1>2. req'[h] = Idle
  BY DEF Return, Update, Inv, TypeOK
<1>3. Lined(h)' /\ Honest(h)'
  BY <1>2 DEF Idle, Lined, Honest, Busy
<1> QED BY <1>1, <1>3, UpdateInv DEF Return

\* A query that passed refutes the cause it looks for.
LEMMA PassRefutes ==
    ASSUME Inv, NEW h \in Handlers, Busy(h), Holds(Head(req[h].todo), req[h].token)
    PROVE  LET t == req[h].token  n == Left(h) IN
           /\ req[h].op \in {"attest", "userinfo"} /\ ~req[h].second =>
                /\ n = 6 => user /\ t \in Access
                /\ n = 5 => t \in rows
                /\ n = 4 => ~tomb
                /\ n = 3 => ~terminal
                /\ n = 2 => t \notin expired
                /\ n = 1 => client
           /\ req[h].op = "guard" =>
                /\ n = 3 => t \in rows
                /\ n = 2 => ~tomb
                /\ n = 1 => ~terminal
           /\ req[h].op = "scope" =>
                /\ n = 8 => t \in rows
                /\ n = 7 => ~tomb
                /\ n = 6 => ~terminal
<1>1. CASE req[h].op \in {"attest", "userinfo"} /\ ~req[h].second
  <2>1. Head(req[h].todo) = Attestation[7 - Left(h)]
    BY <1>1, ListOf
  <2>2. /\ Left(h) = 6 => Head(req[h].todo) = "jwt"
        /\ Left(h) = 5 => Head(req[h].todo) = "row"
        /\ Left(h) = 4 => Head(req[h].todo) = "tomb"
        /\ Left(h) = 3 => Head(req[h].todo) = "family"
        /\ Left(h) = 2 => Head(req[h].todo) = "fields"
        /\ Left(h) = 1 => Head(req[h].todo) = "client"
    BY <2>1, AttestationList
  <2> QED BY <1>1, <2>2 DEF Holds
<1>2. CASE req[h].op = "guard"
  <2>1. Head(req[h].todo) = Guard[4 - Left(h)]
    BY <1>2, ListOf
  <2>2. /\ Left(h) = 3 => Head(req[h].todo) = "row"
        /\ Left(h) = 2 => Head(req[h].todo) = "tomb"
        /\ Left(h) = 1 => Head(req[h].todo) = "family"
    BY <2>1, GuardList
  <2> QED BY <1>2, <2>2 DEF Holds
<1>3. CASE req[h].op = "scope"
  <2>1. Head(req[h].todo) = Introspection[9 - Left(h)]
    BY <1>3, ListOf
  <2>2. /\ Left(h) = 8 => Head(req[h].todo) = "row"
        /\ Left(h) = 7 => Head(req[h].todo) = "tomb"
        /\ Left(h) = 6 => Head(req[h].todo) = "family"
    BY <2>1, IntrospectionList
  <2> QED BY <1>3, <2>2 DEF Holds
<1> QED BY <1>1, <1>2, <1>3

\* The next query of the list.
LEMMA NextQueryInv ==
    ASSUME Inv, NEW h \in Handlers, req[h].todo # <<>>, Busy(h),
           Holds(Head(req[h].todo), req[h].token), Left(h) > 1,
           Update(h, [req[h] EXCEPT !.todo = Tail(@)])
    PROVE  Inv'
<1> DEFINE r == [req[h] EXCEPT !.todo = Tail(@)]
           t == req[h].token
<1>1. req[h] \in Reqs /\ req[h].todo \in Seq(CheckNames) /\ Lined(h) /\ Honest(h) /\ WorldType
  BY DEF Inv, TypeOK, Reqs, WorldType
<1>2. /\ Tail(req[h].todo) \in Seq(CheckNames)
      /\ Len(Tail(req[h].todo)) = Left(h) - 1 /\ Left(h) \in Nat
      /\ \A i \in 1 .. Left(h) - 1 : Tail(req[h].todo)[i] = req[h].todo[i + 1]
  BY <1>1 DEF Left
<1>3. /\ r \in Reqs /\ r.op = req[h].op /\ r.token = t /\ r.second = req[h].second
      /\ r.answer = req[h].answer /\ r.standing = req[h].standing /\ r.live = req[h].live
      /\ r.todo = Tail(req[h].todo)
  BY <1>1, <1>2 DEF Reqs
<1> HIDE DEF r
<1>4. /\ req'[h] = r /\ issued' = issued /\ rows' = rows /\ tomb' = tomb /\ user' = user
      /\ terminal' = terminal /\ client' = client /\ expired' = expired /\ covered' = covered
  BY DEF Update, World, Inv, TypeOK, r
<1>5. Left(h)' = Left(h) - 1 /\ List(h)' = List(h) /\ Busy(h)'
  BY <1>2, <1>3, <1>4 DEF Left, List, Busy
<1>6. Lined(h)'
  <2>1. /\ Left(h) \in 1 .. Len(List(h)) /\ Len(List(h)) \in Nat
        /\ \A i \in 1 .. Left(h) : req[h].todo[i] = List(h)[Len(List(h)) - Left(h) + i]
    BY <1>1, AttestationList, GuardList, IntrospectionList DEF Lined, List, Checks
  <2>2. Left(h)' \in 1 .. Len(List(h)')
    BY <1>2, <1>5, <2>1
  <2>3. ASSUME NEW i \in 1 .. Left(h)'
        PROVE  req'[h].todo[i] = List(h)'[Len(List(h)') - Left(h)' + i]
    <3>1. i + 1 \in 1 .. Left(h) /\ i \in 1 .. Left(h) - 1
      BY <1>2, <1>5, <2>3
    <3>2. req'[h].todo[i] = List(h)[Len(List(h)) - Left(h) + (i + 1)]
      BY <1>2, <1>3, <1>4, <2>1, <3>1
    <3>3. Len(List(h)) - Left(h) + (i + 1) = Len(List(h)') - Left(h)' + i
      BY <1>2, <1>5, <2>1, <3>1
    <3> QED BY <1>5, <3>2, <3>3
  <2> QED BY <1>1, <1>3, <1>4, <1>5, <2>2, <2>3 DEF Lined
<1>7. Honest(h)'
  <2>0. req[h].op \in Ops /\ (req[h].second => req[h].op = "userinfo")
    BY <1>1 DEF Lined, Busy, Reqs
  <2>1. CASE req[h].op \in {"attest", "userinfo"} /\ ~req[h].second
    <3>1. Left(h) \in 1 .. 6
      BY <2>1, ListOf
    <3>2. Doomed(h) => Doomed(h)'
      BY <1>3, <1>4, <1>5, <2>1, <3>1, PassRefutes DEF Doomed
    <3>3. Known(h)' => t \in Access
      BY <1>1, <1>3, <1>4, <1>5, <2>1, <3>1, PassRefutes DEF Known, Honest
    <3> QED BY <1>1, <1>3, <1>4, <1>5, <2>1, <3>2, <3>3 DEF Honest, Busy
  <2>2. CASE req[h].second
    <3>1. Known(h) /\ Known(h)'
      BY <1>3, <1>4, <2>2 DEF Known
    <3> QED BY <1>1, <1>3, <1>4, <1>5, <2>0, <2>2, <3>1 DEF Honest, Busy
  <2>3. CASE req[h].op = "guard"
    <3>1. Left(h) \in 1 .. 3
      BY <2>3, ListOf
    <3>2. Fallen(h) => Fallen(h)'
      BY <1>3, <1>4, <1>5, <2>3, <3>1, PassRefutes DEF Fallen
    <3>3. Known(h) /\ Known(h)'
      BY <1>3, <1>4, <2>3 DEF Known
    <3> QED BY <1>1, <1>3, <1>4, <1>5, <2>3, <3>2, <3>3 DEF Honest, Busy
  <2>4. CASE req[h].op = "scope"
    <3>1. Left(h) \in 1 .. 8
      BY <2>4, ListOf
    <3>2. Fallen(h) => Fallen(h)'
      BY <1>3, <1>4, <1>5, <2>4, <3>1, PassRefutes DEF Fallen
    <3>3. Known(h)' => t \in Access
      <4>1. Left(h) = 8 \/ Known(h)
        BY <3>1, <2>4 DEF Known
      <4>2. CASE Left(h) = 8
        BY <1>1, <2>4, <4>2, PassRefutes DEF WorldType
      <4> QED BY <1>1, <4>1, <4>2 DEF Honest
    <3> QED BY <1>1, <1>3, <1>4, <1>5, <2>4, <3>2, <3>3 DEF Honest, Busy
  <2> QED BY <2>0, <2>1, <2>2, <2>3, <2>4 DEF Ops
<1> QED BY <1>3, <1>6, <1>7, UpdateInv DEF r

\* An answer that may be given.
LEMMA FinishInv ==
    ASSUME Inv, NEW h \in Handlers, Busy(h), NEW answer \in Answers \ {"none"},
           NEW scopes \in SUBSET (Scopes \union {"sub"}), Finish(h, answer, scopes),
           answer = "accepted" =>
             /\ req[h].token \in Access
             /\ req[h].op \in {"attest", "userinfo"} => req[h].live
             /\ req[h].op \in {"guard", "scope"} =>
                  req[h].standing \/ req[h].token \in expired
    PROVE  Inv'
<1> DEFINE r == [req[h] EXCEPT !.todo = <<>>, !.answer = answer, !.scopes = scopes]
<1>1. req[h] \in Reqs /\ Lined(h) /\ Honest(h)
  BY DEF Inv, TypeOK, Reqs
<1>2. /\ r \in Reqs /\ r.op = req[h].op /\ r.token = req[h].token /\ r.second = req[h].second
      /\ r.answer = answer /\ r.standing = req[h].standing /\ r.live = req[h].live
      /\ r.todo = <<>>
  <2>1. <<>> \in Seq(CheckNames) /\ answer \in Answers
    OBVIOUS
  <2> QED BY <1>1, <2>1 DEF Reqs
<1> HIDE DEF r
<1>3. req'[h] = r /\ issued' = issued /\ expired' = expired
  BY DEF Finish, Update, World, Inv, TypeOK, r
<1>4. ~Busy(h)'
  BY <1>2, <1>3 DEF Busy
<1>5. Lined(h)' /\ Honest(h)'
  BY <1>1, <1>2, <1>3, <1>4 DEF Lined, Honest, Busy
<1> QED BY <1>2, <1>5, UpdateInv DEF Finish, r

\* The attestation inside /userinfo is over: what remains is introspection.
LEMMA SecondInv ==
    ASSUME Inv, NEW h \in Handlers, Busy(h), req[h].op = "userinfo", ~req[h].second,
           req[h].live, req[h].token \in Access,
           Update(h, [req[h] EXCEPT !.todo = Introspection, !.second = TRUE])
    PROVE  Inv'
<1> DEFINE r == [req[h] EXCEPT !.todo = Introspection, !.second = TRUE]
<1>1. req[h] \in Reqs /\ Lined(h) /\ Honest(h)
  BY DEF Inv, TypeOK, Reqs
<1>2. /\ r \in Reqs /\ r.op = req[h].op /\ r.token = req[h].token /\ r.second = TRUE
      /\ r.answer = req[h].answer /\ r.standing = req[h].standing /\ r.live = req[h].live
      /\ r.todo = Introspection
  BY <1>1, IntrospectionList DEF Reqs
<1> HIDE DEF r
<1>3. req'[h] = r /\ issued' = issued
  BY DEF Update, World, Inv, TypeOK, r
<1>4. List(h)' = Introspection /\ Left(h)' = 8 /\ Len(Introspection) = 8
  BY <1>2, <1>3, IntrospectionList DEF List, Left
<1>5. ASSUME NEW i \in 1 .. 8 PROVE Introspection[i] = Introspection[8 - 8 + i]
  OBVIOUS
<1>6. Lined(h)'
  BY <1>1, <1>2, <1>3, <1>4, <1>5 DEF Lined, Busy
<1>7. Honest(h)'
  BY <1>1, <1>2, <1>3 DEF Honest, Busy
<1> QED BY <1>2, <1>6, <1>7, UpdateInv DEF r

LEMMA ScopesType ==
    ASSUME Inv, NEW h \in Handlers, req[h].op # "none"
    PROVE  /\ Granted[req[h].token] \in SUBSET (Scopes \union {"sub"})
           /\ Claims(OpenIDForNone(req[h].token, Granted[req[h].token]))
                \in SUBSET (Scopes \union {"sub"})
           /\ Claims(OpenIDForNone(req[h].token, {})) \in SUBSET (Scopes \union {"sub"})
<1>1. Granted[req[h].token] \in SUBSET Scopes
  BY BearerAssumption DEF Inv, TypeOK, Lined
<1> QED BY <1>1 DEF Claims, OpenIDForNone

\* The last query passed.
LEMMA CompleteInv ==
    ASSUME Inv, NEW h \in Handlers, Busy(h), Left(h) = 1,
           Holds(Head(req[h].todo), req[h].token), Complete(h)
    PROVE  Inv'
<1>0. /\ Honest(h) /\ req[h].op \in Ops /\ (req[h].second => req[h].op = "userinfo")
      /\ {"accepted", "forbidden"} \subseteq Answers \ {"none"}
      /\ {} \in SUBSET (Scopes \union {"sub"})
  BY DEF Inv, Lined, TypeOK, Busy, Answers
<1>1. CASE req[h].op \in {"attest", "userinfo"} /\ ~req[h].second
  <2>1. ~Doomed(h)
    BY <1>1, PassRefutes DEF Doomed
  <2>2. req[h].live /\ req[h].token \in Access
    BY <1>0, <1>1, <2>1 DEF Honest, Known
  <2>3. CASE req[h].op = "userinfo"
    BY <1>1, <2>2, <2>3, SecondInv DEF Complete
  <2>4. CASE req[h].op = "attest"
    <3>1. Finish(h, "accepted", {})
      BY <2>4 DEF Complete
    <3> QED BY <1>0, <2>2, <2>4, <3>1, FinishInv
  <2> QED BY <1>1, <2>3, <2>4
<1>2. CASE req[h].second
  <2>1. Finish(h, "accepted", Claims(OpenIDForNone(req[h].token, Granted[req[h].token])))
    BY <1>0, <1>2 DEF Complete
  <2>2. req[h].live /\ req[h].token \in Access /\ req[h].op = "userinfo"
    BY <1>0, <1>2 DEF Honest, Known
  <2> QED BY <1>0, <2>1, <2>2, FinishInv, ScopesType DEF Busy
<1>3. CASE req[h].op \in {"guard", "scope"}
  <2>1. ~req[h].standing => Fallen(h)
    BY <1>0, <1>3 DEF Honest
  <2>2. ~req[h].standing => req[h].token \in expired
    BY <1>3, <2>1, PassRefutes DEF Fallen
  <2>3. req[h].token \in Access
    BY <1>0, <1>3 DEF Honest, Known
  <2>4. CASE req[h].op = "guard"
    <3>1. Finish(h, "accepted", {})
      BY <2>4 DEF Complete
    <3> QED BY <1>0, <2>2, <2>3, <2>4, <3>1, FinishInv
  <2>5. CASE req[h].op = "scope"
    <3>1. Finish(h, "accepted", Granted[req[h].token]) \/ Finish(h, "forbidden", {})
      BY <2>5 DEF Complete
    <3> QED BY <1>0, <2>2, <2>3, <2>5, <3>1, FinishInv, ScopesType DEF Busy
  <2> QED BY <1>3, <2>4, <2>5
<1> QED BY <1>0, <1>1, <1>2, <1>3 DEF Ops

LEMMA PassInv == ASSUME Inv, NEW h \in Handlers, Pass(h) PROVE Inv'
<1>1. Busy(h) /\ req[h].todo # <<>> /\ Holds(Head(req[h].todo), req[h].token)
  BY DEF Pass, Inv, Lined
<1>2. CASE Left(h) > 1
  BY <1>1, <1>2, NextQueryInv DEF Pass, Left
<1>3. CASE ~(Left(h) > 1)
  <2>1. Left(h) \in 1 .. Len(List(h)) /\ Left(h) \in Nat
    <3>1. req[h].todo \in Seq(CheckNames)
      BY DEF Inv, TypeOK
    <3>2. Left(h) \in 1 .. Len(List(h))
      BY <1>1 DEF Inv, Lined
    <3> QED BY <3>1, <3>2 DEF Left
  <2>2. Left(h) = 1
    BY <1>3, <2>1
  <2>3. Complete(h)
    BY <1>3 DEF Pass, Left
  <2> QED BY <1>1, <2>2, <2>3, CompleteInv
<1> QED BY <1>2, <1>3

\* A query that failed: refused, or past the attestation.
LEMMA FailInv == ASSUME Inv, NEW h \in Handlers, Fail(h) PROVE Inv'
<1>1. /\ Busy(h) /\ Honest(h) /\ (req[h].second => req[h].op = "userinfo")
      /\ {"accepted", "refused"} \subseteq Answers \ {"none"}
      /\ {} \in SUBSET (Scopes \union {"sub"})
  BY DEF Fail, Inv, Lined, Answers
<1>2. CASE req[h].second
  <2>1. Finish(h, "accepted", Claims(OpenIDForNone(req[h].token, {})))
    BY <1>1, <1>2 DEF Fail
  <2>2. req[h].live /\ req[h].token \in Access /\ req[h].op = "userinfo"
    BY <1>1, <1>2 DEF Honest, Known
  <2> QED BY <1>1, <2>1, <2>2, FinishInv, ScopesType DEF Busy
<1>3. CASE ~req[h].second
  <2>1. Finish(h, "refused", {})
    BY <1>3 DEF Fail, RefreshRefusedByScope
  <2> QED BY <1>1, <2>1, FinishInv
<1> QED BY <1>2, <1>3

LEMMA InitInv == ASSUME Init PROVE Inv
<1>1. Idle \in Reqs
  BY DEF Idle, Reqs, Answers
<1>2. TypeOK
  BY <1>1 DEF Init, TypeOK, Reqs
<1>3. ASSUME NEW h \in Handlers PROVE Lined(h) /\ Honest(h)
  BY DEF Init, Idle, Lined, Honest, Busy
<1>4. Grounded
  BY DEF Init, Grounded
<1> QED BY <1>2, <1>3, <1>4 DEF Inv

LEMMA NextInv == ASSUME Inv, [Next]_vars PROVE Inv'
<1>1. CASE Change
  BY <1>1, ChangeInv
<1>2. CASE \E h \in Handlers : Handle(h)
  BY <1>2, BeginInv, PassInv, FailInv, ReturnInv DEF Handle
<1>3. CASE UNCHANGED vars
  <2>1. TypeOK'
    BY <1>3 DEF vars, Inv, TypeOK
  <2>2. ASSUME NEW h \in Handlers PROVE Lined(h)' /\ Honest(h)'
    <3>1. Left(h)' = Left(h) /\ List(h)' = List(h) /\ Busy(h)' = Busy(h) /\ Known(h)' = Known(h)
      BY <1>3 DEF vars, Left, List, Busy, Known
    <3>2. Doomed(h)' = Doomed(h) /\ Fallen(h)' = Fallen(h)
      BY <1>3, <3>1 DEF vars, Doomed, Fallen
    <3> QED BY <1>3, <3>1, <3>2 DEF vars, Inv, Lined, Honest
  <2>3. Grounded'
    BY <1>3 DEF vars, Inv, Grounded
  <2> QED BY <2>1, <2>2, <2>3 DEF Inv
<1> QED BY <1>1, <1>2, <1>3 DEF Next

-----------------------------------------------------------------------------
\* Every query list, answer and set of claims is one the handlers can have.
THEOREM TypeCorrect == Spec => []TypeOK
<1>1. Inv => TypeOK
  BY DEF Inv
<1> QED BY <1>1, InitInv, NextInv, PTL DEF Spec

\* An attested token was live when the request arrived: ValidateAccessTokenAuthorityAt
\* reads six states of the database, and what it attests held in one.
THEOREM WasLive == Spec => []AttestationWasLive
<1>1. Inv => AttestationWasLive
  BY DEF Inv, Honest, AttestationWasLive, Accepted
<1> QED BY <1>1, InitInv, NextInv, PTL DEF Spec

\* No path lets through a token whose request was terminal, or whose row was gone,
\* when the request arrived, unless the token has expired since.
THEOREM WasStanding == Spec => []PassedWasStanding
<1>1. Inv => PassedWasStanding
  BY DEF Inv, Honest, PassedWasStanding, Accepted, Ops
<1> QED BY <1>1, InitInv, NextInv, PTL DEF Spec

\* Nothing but an access token is let through, whatever fosite's introspection
\* falls back to.
THEOREM OnlyAccess == Spec => []OnlyAccessTokensPass
<1>1. Inv => OnlyAccessTokensPass
  BY DEF Inv, Honest, OnlyAccessTokensPass, Accepted
<1> QED BY <1>1, InitInv, NextInv, PTL DEF Spec

=============================================================================
