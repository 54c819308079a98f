--------------------------- MODULE ClientsProofs ---------------------------
(***************************************************************************)
(* The promises of Registration and Clients, for any number of goroutines, *)
(* prefixes and requests, whoever calls what and whenever.                 *)
(*                                                                         *)
(* No table can be relied on by itself: a release may meet a Register at   *)
(* any point. What can be relied on is where a meeting leaves its traces.  *)
(* A Register that met none still owns its guard key (Held), and the       *)
(* instance it published is counted in the set of prefixes until a release *)
(* withdraws it first (Kept): a release that has passed that point cannot  *)
(* be under way, or the two would have met. Hence a plane in service that  *)
(* is not counted has met a release, and of the counted ones legacy rows   *)
(* let only one pass the gate (OneValid). The guard key itself outlives no *)
(* instance, met or not (Owned).                                           *)
(***************************************************************************)
EXTENDS Clients, Integers, FiniteSetTheorems, TLAPS

Claimed == {"sentinel", "gate", "gateGuard", "instance", "rememberLoad", "rememberStore",
            "validate", "load"}
Dropping == {"dropInstance", "dropSentinel", "dropGuard", "forget"}
Owners == {"sentinel", "gate", "gateGuard", "instance", "dropSentinel", "dropGuard"}

\* Only Deregister has prefixes listed.
Listing == \A c \in Callers : listed[c] # {} => pc[c] \in Dropping \union {"clear"}

\* A claim has a number of its own, which nothing was loaded under yet and which
\* no other prefix has.
Numbered ==
    /\ \A n \in loaded : n <= claims
    /\ \A i \in DOMAIN hooks : hooks[i] <= claims
    /\ \A p \in Prefixes : instance[p] <= claims
    /\ \A c \in Callers : pc[c] \in Claimed =>
         /\ inst[c] \in 1 .. claims /\ inst[c] \notin loaded
         /\ \A p \in Prefixes : instance[p] = inst[c] => p = prefix[c]
    /\ \A c, d \in Callers :
         c # d /\ pc[c] \in Claimed /\ pc[d] \in Claimed => inst[c] # inst[d]

\* The calls that meet now are recorded.
Met == Crossings \subseteq crossed

\* A Register that met no release owns the guard key of its prefix, alone.
Held ==
    /\ \A c \in Callers : pc[c] \in Claimed /\ inst[c] \notin crossed => prefix[c] \in guard
    /\ OneWinner

\* A guard key has an instance behind it, or a call that will publish or free it.
Owned ==
    \A p \in guard :
        instance[p] # 0 \/ \E c \in Callers : prefix[c] = p /\ pc[c] \in Owners

\* The prefix is published by a Register that met no release.
Sound(p) == instance[p] # 0 /\ instance[p] \notin crossed

\* The Register that published the prefix is about to count it.
Entering(c, p) ==
    /\ pc[c] \in {"rememberLoad", "rememberStore"}
    /\ prefix[c] = p /\ inst[c] = instance[p]
    /\ pc[c] = "rememberStore" => c \notin stale

\* Nobody is past withdrawing the instance of p.
NotDropped(p) ==
    \A c \in Callers : prefix[c] = p => pc[c] \notin {"dropSentinel", "dropGuard", "forget"}

KeptAt(p) ==
    /\ p \in tracked \/ \E c \in Callers : Entering(c, p)
    /\ NotDropped(p)
    /\ \A c \in Callers : Clearing(c) => p \in listed[c]

Kept == \A p \in Prefixes : Sound(p) => KeptAt(p)

\* The prefix is in service, or its Register has passed the gate of legacy rows.
Valid(p) == Serves(p) \/ \E c \in Callers : pc[c] = "load" /\ inst[c] = instance[p]

OneValid ==
    legacy => \A p, q \in Prefixes :
                  Sound(p) /\ Sound(q) /\ Valid(p) /\ Valid(q) => p = q

Inv ==
    /\ TypeOK /\ Listing /\ Numbered /\ Met /\ Held /\ Owned /\ Kept /\ OneValid
    /\ IsFiniteSet(tracked)

-----------------------------------------------------------------------------
\* A caller's step, but for the record of whom it met.
Step(c) ==
    \/ \E p \in Prefixes : Claim(c, p) \/ StartRelease(c, p)
    \/ ListPrefixes(c) \/ Call(c)

LEMMA NextSteps == Next <=> (Bootstrap \/ \E c \in Callers : Step(c)) /\ Record
BY DEF Next, Step

LEMMA TypeInv == 
    ASSUME TypeOK, Numbered, crossed' \subseteq 1 .. MaxRegistrations,
           Bootstrap \/ \E c \in Callers : Step(c)
    PROVE  TypeOK'
<1> USE RegistrationAssumption DEF TypeOK, Stages
<1>2. CASE Bootstrap
  <2>1. PICK n \in 0 .. (IF PrefixStateValid THEN Len(hooks) ELSE 0) :
          /\ loaded' = {hooks[i] : i \in (Len(hooks) - n + 1) .. Len(hooks)}
          /\ boot' = IF n = Len(hooks) THEN "up" ELSE "failed"
    BY <1>2 DEF Bootstrap
  <2>2. ASSUME NEW i \in (Len(hooks) - n + 1) .. Len(hooks)
        PROVE  hooks[i] \in 1 .. MaxRegistrations
    <3>1. n \in 0 .. Len(hooks)
      OBVIOUS
    <3> QED BY <3>1
  <2>3. loaded' \subseteq 1 .. MaxRegistrations
    BY <2>1, <2>2
  <2>4. <<>> \in Seq(1 .. MaxRegistrations)
    OBVIOUS
  <2> QED BY <1>2, <2>1, <2>3, <2>4 DEF Bootstrap, Args
<1>3. CASE \E c \in Callers : Step(c)
  <2> PICK c \in Callers : Step(c)
    BY <1>3
  <2> USE DEF World, Args, Goto, At
  <2>1. CASE \E p \in Prefixes : Claim(c, p)
    <3>1. claims + 1 \in 1 .. MaxRegistrations
      BY <2>1 DEF Claim
    <3> QED BY <2>1, <3>1 DEF Claim
  <2>2. CASE \E p \in Prefixes : StartRelease(c, p)
    BY <2>2 DEF StartRelease
  <2>3. CASE ListPrefixes(c)
    BY <2>3 DEF ListPrefixes
  <2>4. CASE SetSentinel(c) \/ Gate(c) \/ GateFreesGuard(c) \/ GateFreesSentinel(c)
    BY <2>4 DEF SetSentinel, Gate, GateFreesGuard, GateFreesSentinel
  <2>5. CASE SetInstance(c) \/ RememberLoad(c) \/ Validate(c)
    BY <2>5 DEF SetInstance, RememberLoad, Validate
  <2>6. CASE RememberStore(c)
    <3>1. inst[c] \in 1 .. MaxRegistrations
      BY <2>6 DEF RememberStore, Numbered, Claimed
    <3>2. Append(hooks, inst[c]) \in Seq(1 .. MaxRegistrations)
      BY <3>1
    <3> QED BY <2>6, <3>2 DEF RememberStore, AfterRemember
  <2>7. CASE Load(c)
    <3>1. inst[c] \in 1 .. MaxRegistrations
      BY <2>7 DEF Load, Numbered, Claimed
    <3> QED BY <2>7, <3>1 DEF Load
  <2>8. CASE DropInstance(c) \/ DropSentinel(c) \/ DropGuard(c) \/ Forget(c)
    <3>1. CASE DropInstance(c)
      BY <3>1 DEF DropInstance
    <3>2. CASE DropSentinel(c) \/ DropGuard(c)
      BY <3>2 DEF DropSentinel, DropGuard
    <3>3. CASE Forget(c)
      BY <3>3 DEF Forget
    <3> QED BY <2>8, <3>1, <3>2, <3>3
  <2>9. CASE ReleaseListed(c) \/ DropTracked(c)
    BY <2>9 DEF ReleaseListed, DropTracked
  <2> QED BY <2>1, <2>2, <2>3, <2>4, <2>5, <2>6, <2>7, <2>8, <2>9 DEF Step, Call
<1> QED BY <1>2, <1>3

-----------------------------------------------------------------------------
\* A step of one goroutine, for the others.
Others(c) ==
    \A d \in Callers : d # c =>
        /\ pc'[d] = pc[d] /\ prefix'[d] = prefix[d]
        /\ inst'[d] = inst[d] /\ listed'[d] = listed[d]

LEMMA OthersStep == ASSUME TypeOK, NEW c \in Callers, Step(c) PROVE Others(c)
<1> USE DEF TypeOK, Others, World, Args, Goto, At
<1>1. CASE \E p \in Prefixes : Claim(c, p) \/ StartRelease(c, p)
  BY <1>1 DEF Claim, StartRelease
<1>2. CASE ListPrefixes(c) \/ SetSentinel(c) \/ Gate(c) \/ GateFreesGuard(c)
  BY <1>2 DEF ListPrefixes, SetSentinel, Gate, GateFreesGuard
<1>3. CASE GateFreesSentinel(c) \/ SetInstance(c) \/ RememberLoad(c)
  BY <1>3 DEF GateFreesSentinel, SetInstance, RememberLoad
<1>4. CASE RememberStore(c) \/ Validate(c) \/ Load(c)
  BY <1>4 DEF RememberStore, AfterRemember, Validate, Load
<1>5. CASE DropInstance(c) \/ DropSentinel(c) \/ DropGuard(c) \/ Forget(c)
  BY <1>5 DEF DropInstance, DropSentinel, DropGuard, Forget
<1>6. CASE ReleaseListed(c) \/ DropTracked(c)
  BY <1>6 DEF ReleaseListed, DropTracked
<1> QED BY <1>1, <1>2, <1>3, <1>4, <1>5, <1>6 DEF Step, Call

LEMMA ListingInv == ASSUME TypeOK, Listing, NEW c \in Callers, Step(c) PROVE Listing'
<1> USE DEF Dropping, World, Args, Goto, At
<1>1. Others(c)
  BY OthersStep
<1>2. listed'[c] # {} => pc'[c] \in Dropping \union {"clear"}
  <2> USE DEF TypeOK, Listing
  <2>1. CASE \E p \in Prefixes : Claim(c, p) \/ StartRelease(c, p)
    BY <2>1 DEF Claim, StartRelease
  <2>2. CASE ListPrefixes(c) \/ SetSentinel(c) \/ Gate(c) \/ GateFreesGuard(c)
    BY <2>2 DEF ListPrefixes, SetSentinel, Gate, GateFreesGuard
  <2>3. CASE GateFreesSentinel(c) \/ SetInstance(c) \/ RememberLoad(c)
    BY <2>3 DEF GateFreesSentinel, SetInstance, RememberLoad
  <2>4. CASE RememberStore(c) \/ Validate(c) \/ Load(c)
    BY <2>4 DEF RememberStore, AfterRemember, Validate, Load
  <2>5. CASE DropInstance(c) \/ DropSentinel(c) \/ DropGuard(c) \/ Forget(c)
    BY <2>5 DEF DropInstance, DropSentinel, DropGuard, Forget
  <2>6. CASE ReleaseListed(c) \/ DropTracked(c)
    BY <2>6 DEF ReleaseListed, DropTracked
  <2> QED BY <2>1, <2>2, <2>3, <2>4, <2>5, <2>6 DEF Step, Call
<1> QED BY <1>1, <1>2 DEF Listing, Others

-----------------------------------------------------------------------------
\* Most steps neither claim, publish nor load.
Quiet ==
    /\ UNCHANGED <<loaded, hooks, claims, instance, inst>>
    /\ \A d \in Callers : pc'[d] \in Claimed => pc[d] \in Claimed /\ prefix'[d] = prefix[d]

LEMMA QuietNumbered == ASSUME Numbered, Quiet PROVE Numbered'
<1>1. /\ loaded' = loaded /\ hooks' = hooks /\ claims' = claims
      /\ instance' = instance /\ inst' = inst
  BY DEF Quiet
<1>2. ASSUME NEW c \in Callers, pc'[c] \in Claimed
      PROVE  /\ pc[c] \in Claimed /\ inst[c] \in 1 .. claims /\ inst[c] \notin loaded
             /\ \A p \in Prefixes : instance[p] = inst[c] => p = prefix'[c]
  BY <1>2 DEF Quiet, Numbered
<1> QED BY <1>1, <1>2 DEF Numbered

LEMMA NumberedInv == ASSUME TypeOK, Numbered, NEW c \in Callers, Step(c) PROVE Numbered'
<1> USE DEF Claimed, World, Args, Goto, At
<1>a. TypeOK /\ Numbered
  OBVIOUS
<1>1. ASSUME NEW p \in Prefixes, Claim(c, p) PROVE Numbered'
  <2>1. /\ claims' = claims + 1 /\ claims \in Nat /\ loaded' = loaded /\ hooks' = hooks
        /\ instance' = instance /\ inst'[c] = claims + 1 /\ prefix'[c] = p
        /\ \A d \in Callers : d # c => inst'[d] = inst[d] /\ pc'[d] = pc[d] /\ prefix'[d] = prefix[d]
    BY <1>1, <1>a DEF Claim, TypeOK
  <2>2. /\ \A n \in loaded : n \in Nat /\ n <= claims
        /\ \A i \in DOMAIN hooks : hooks[i] \in Nat /\ hooks[i] <= claims
        /\ \A q \in Prefixes : instance[q] \in Nat /\ instance[q] <= claims
    <3>1. /\ loaded \subseteq Nat /\ \A q \in Prefixes : instance[q] \in Nat
          /\ hooks \in Seq(1 .. MaxRegistrations)
      BY <1>a DEF TypeOK
    <3>2. \A i \in DOMAIN hooks : hooks[i] \in Nat
      BY <3>1, RegistrationAssumption
    <3> QED BY <1>a, <3>1, <3>2 DEF Numbered
  <2>3. ASSUME NEW d \in Callers, pc'[d] \in Claimed
        PROVE  /\ inst'[d] \in 1 .. claims' /\ inst'[d] \notin loaded'
               /\ \A q \in Prefixes : instance'[q] = inst'[d] => q = prefix'[d]
               /\ d # c => inst'[d] \in 1 .. claims
    <3>1. CASE d = c
      BY <2>1, <2>2, <3>1
    <3>2. CASE d # c
      BY <1>a, <2>1, <2>3, <3>2 DEF Numbered
    <3> QED BY <3>1, <3>2
  <2>4. ASSUME NEW d \in Callers, NEW e \in Callers, d # e, pc'[d] \in Claimed, pc'[e] \in Claimed
        PROVE  inst'[d] # inst'[e]
    <3>1. CASE d = c \/ e = c
      BY <2>1, <2>3, <2>4, <3>1
    <3>2. CASE d # c /\ e # c
      BY <1>a, <2>1, <2>4, <3>2 DEF Numbered
    <3> QED BY <3>1, <3>2
  <2> HIDE DEF Claimed
  <2> QED BY <2>1, <2>2, <2>3, <2>4 DEF Numbered
<1>2. CASE \E p \in Prefixes : StartRelease(c, p)
  BY <1>2, <1>a, QuietNumbered DEF Quiet, StartRelease, TypeOK
<1>3. CASE ListPrefixes(c) \/ SetSentinel(c)
  BY <1>3, <1>a, QuietNumbered DEF Quiet, ListPrefixes, SetSentinel, TypeOK
<1>4. CASE Gate(c) \/ GateFreesGuard(c) \/ GateFreesSentinel(c)
  BY <1>4, <1>a, QuietNumbered DEF Quiet, Gate, GateFreesGuard, GateFreesSentinel, TypeOK
<1>5. CASE SetInstance(c)
  <2>1. /\ claims' = claims /\ loaded' = loaded /\ hooks' = hooks /\ inst' = inst /\ prefix' = prefix
        /\ instance' = [instance EXCEPT ![prefix[c]] = inst[c]] /\ prefix[c] \in Prefixes
        /\ pc[c] \in Claimed /\ \A d \in Callers : pc'[d] \in Claimed => pc[d] \in Claimed
    BY <1>5, <1>a DEF SetInstance, TypeOK
  <2> HIDE DEF Claimed
  <2>2. \A q \in Prefixes : instance'[q] <= claims
    BY <1>a, <2>1 DEF Numbered, TypeOK
  <2>3. ASSUME NEW d \in Callers, pc[d] \in Claimed, NEW q \in Prefixes, instance'[q] = inst[d]
        PROVE  q = prefix[d]
    BY <1>a, <2>1, <2>3 DEF Numbered, TypeOK
  <2> QED BY <1>a, <2>1, <2>2, <2>3 DEF Numbered
<1>6. CASE RememberLoad(c)
  BY <1>6, <1>a, QuietNumbered DEF Quiet, RememberLoad, TypeOK
<1>7. CASE Validate(c)
  BY <1>7, <1>a, QuietNumbered DEF Quiet, Validate, TypeOK
<1>8. CASE RememberStore(c)
  <2>1. /\ loaded' = loaded /\ claims' = claims /\ instance' = instance /\ inst' = inst
        /\ prefix' = prefix /\ pc[c] \in Claimed
        /\ \A d \in Callers : pc'[d] \in Claimed => pc[d] \in Claimed
    BY <1>8, <1>a DEF RememberStore, AfterRemember, TypeOK
  <2>2. inst[c] <= claims /\ hooks' \in {hooks, Append(hooks, inst[c])}
    BY <1>8, <1>a DEF RememberStore, AfterRemember, Numbered
  <2>3. \A i \in DOMAIN hooks' : hooks'[i] <= claims
    <3>1. CASE hooks' = hooks
      BY <1>a, <3>1 DEF Numbered
    <3>2. CASE hooks' = Append(hooks, inst[c])
      BY <1>a, <2>2, <3>2 DEF Numbered, TypeOK
    <3> QED BY <2>2, <3>1, <3>2
  <2> HIDE DEF Claimed
  <2> QED BY <1>a, <2>1, <2>3 DEF Numbered
<1>9. CASE Load(c)
  <2>1. /\ claims' = claims /\ hooks' = hooks /\ inst' = inst /\ prefix' = prefix
        /\ instance' = instance /\ loaded' \subseteq loaded \union {inst[c]}
        /\ pc[c] \in Claimed /\ pc'[c] \notin Claimed
        /\ \A d \in Callers : pc'[d] \in Claimed => pc[d] \in Claimed /\ d # c
    BY <1>9, <1>a DEF Load, TypeOK
  <2> HIDE DEF Claimed
  <2>2. ASSUME NEW d \in Callers, pc[d] \in Claimed, d # c PROVE inst[d] \notin loaded'
    BY <1>a, <2>1, <2>2 DEF Numbered
  <2>3. \A n \in loaded' : n <= claims
    BY <1>a, <2>1 DEF Numbered
  <2> QED BY <1>a, <2>1, <2>2, <2>3 DEF Numbered
<1>10. CASE DropInstance(c)
  <2>1. /\ claims' = claims /\ loaded' = loaded /\ hooks' = hooks /\ inst' = inst /\ prefix' = prefix
        /\ instance' = [instance EXCEPT ![prefix[c]] = 0] /\ claims \in Nat
        /\ \A d \in Callers : pc'[d] \in Claimed => pc[d] \in Claimed
    BY <1>10, <1>a DEF DropInstance, TypeOK
  <2> HIDE DEF Claimed
  <2>2. \A q \in Prefixes : instance'[q] <= claims
    BY <1>a, <2>1 DEF Numbered, TypeOK
  <2>3. ASSUME NEW d \in Callers, pc[d] \in Claimed, NEW q \in Prefixes, instance'[q] = inst[d]
        PROVE  q = prefix[d]
    BY <1>a, <2>1, <2>3 DEF Numbered, TypeOK
  <2> QED BY <1>a, <2>1, <2>2, <2>3 DEF Numbered
<1>11. CASE DropSentinel(c) \/ DropGuard(c)
  BY <1>11, <1>a, QuietNumbered DEF Quiet, DropSentinel, DropGuard, TypeOK
<1>12. CASE Forget(c)
  BY <1>12, <1>a, QuietNumbered DEF Quiet, Forget, TypeOK
<1>13. CASE ReleaseListed(c) \/ DropTracked(c)
  BY <1>13, <1>a, QuietNumbered DEF Quiet, ReleaseListed, DropTracked, TypeOK
<1> QED BY <1>1, <1>2, <1>3, <1>4, <1>5, <1>6, <1>7, <1>8, <1>9, <1>10, <1>11, <1>12,
           <1>13 DEF Step, Call

LEMMA CrossedInv ==
    ASSUME TypeOK, Numbered', NEW c \in Callers, Step(c), Record
    PROVE  crossed' \subseteq 1 .. MaxRegistrations /\ Met'
<1>1. claims' \in 0 .. MaxRegistrations
  <2>1. claims' = claims \/ (claims < MaxRegistrations /\ claims' = claims + 1)
    BY DEF Step, Call, World, Claim, StartRelease, ListPrefixes, SetSentinel, Gate, GateFreesGuard,
       GateFreesSentinel, SetInstance, RememberLoad, RememberStore, Validate, Load, DropInstance,
       DropSentinel, DropGuard, Forget, ReleaseListed, DropTracked
  <2> QED BY <2>1, RegistrationAssumption DEF TypeOK
<1>2. ASSUME NEW i \in Crossings' PROVE i \in 1 .. MaxRegistrations
  <2>1. PICK d \in Callers : Registering(d)' /\ i = inst'[d]
    BY DEF Crossings
  <2>2. i \in 1 .. claims'
    BY <2>1 DEF Numbered, Registering, Claimed
  <2> QED BY <1>1, <2>2, RegistrationAssumption
<1> QED BY <1>2 DEF Record, Met, TypeOK

-----------------------------------------------------------------------------
\* The guard.

\* Who takes the key away meets the Register that holds it.
LEMMA FreedIsCrossed ==
    ASSUME Met, NEW c \in Callers, NEW d \in Callers, c # d, prefix[c] = prefix[d],
           pc[c] \in {"gateGuard", "dropGuard"}, pc[d] \in Claimed
    PROVE  inst[d] \in crossed
BY DEF Met, Crossings, Registering, Releasing, Claimed

LEMMA HeldInv ==
    ASSUME TypeOK, Numbered, Met, Held, NEW c \in Callers, Step(c), crossed \subseteq crossed'
    PROVE  Held'
<1> USE DEF Claimed, Registering
<1>1. Others(c)
  BY OthersStep
<1>2. /\ \A d \in Callers : pc[d] \in Claimed /\ inst[d] \notin crossed => prefix[d] \in guard
      /\ \A d, e \in Callers :
           d # e /\ pc[d] \in Claimed /\ pc[e] \in Claimed /\ prefix[d] = prefix[e]
               => inst[d] \in crossed \/ inst[e] \in crossed
  BY DEF Held, OneWinner
<1> DEFINE Goal ==
      /\ \A d \in Callers : pc'[d] \in Claimed /\ inst'[d] \notin crossed' => prefix'[d] \in guard'
      /\ \A d, e \in Callers :
           d # e /\ pc'[d] \in Claimed /\ pc'[e] \in Claimed /\ prefix'[d] = prefix'[e]
               => inst'[d] \in crossed' \/ inst'[e] \in crossed'
<1>3. ASSUME NEW p \in Prefixes, Claim(c, p) PROVE Goal
  <2>1. guard' = guard \union {p} /\ p \notin guard /\ prefix'[c] = p
    BY <1>3 DEF Claim, TypeOK
  <2> QED BY <1>1, <1>2, <2>1 DEF Others
<1>4. ASSUME guard' = guard, pc'[c] \in Claimed => pc[c] \in Claimed,
             pc'[c] \in Claimed => prefix'[c] = prefix[c] /\ inst'[c] = inst[c]
      PROVE  Goal
  BY <1>1, <1>2, <1>4 DEF Others
<1>5. ASSUME pc[c] \in {"gateGuard", "dropGuard"}, guard' = guard \ {prefix[c]},
             pc'[c] \notin Claimed
      PROVE  Goal
  <2>1. ASSUME NEW d \in Callers, d # c, pc[d] \in Claimed, prefix[d] = prefix[c]
        PROVE  inst[d] \in crossed
    BY <1>5, <2>1, FreedIsCrossed
  <2> HIDE DEF Claimed
  <2> QED BY <1>1, <1>2, <1>5, <2>1 DEF Others
<1> HIDE DEF Goal
<1>6. Goal
  <2> USE DEF World, Args, Goto, At, TypeOK
  <2>1. CASE \E p \in Prefixes : Claim(c, p)
    BY <1>3, <2>1
  <2>2. CASE \E p \in Prefixes : StartRelease(c, p)
    BY <1>4, <2>2 DEF StartRelease
  <2>3. CASE ListPrefixes(c) \/ SetSentinel(c) \/ Gate(c)
    BY <1>4, <2>3 DEF ListPrefixes, SetSentinel, Gate
  <2>4. CASE GateFreesGuard(c)
    BY <1>5, <2>4 DEF GateFreesGuard
  <2>5. CASE GateFreesSentinel(c) \/ SetInstance(c) \/ RememberLoad(c)
    BY <1>4, <2>5 DEF GateFreesSentinel, SetInstance, RememberLoad
  <2>6. CASE RememberStore(c) \/ Validate(c) \/ Load(c)
    BY <1>4, <2>6 DEF RememberStore, AfterRemember, Validate, Load
  <2>7. CASE DropGuard(c)
    BY <1>5, <2>7 DEF DropGuard
  <2>8. CASE DropInstance(c) \/ DropSentinel(c) \/ Forget(c)
    BY <1>4, <2>8 DEF DropInstance, DropSentinel, Forget
  <2>9. CASE ReleaseListed(c) \/ DropTracked(c)
    BY <1>4, <2>9 DEF ReleaseListed, DropTracked
  <2> QED BY <2>1, <2>2, <2>3, <2>4, <2>5, <2>6, <2>7, <2>8, <2>9 DEF Step, Call
<1> QED BY <1>6 DEF Goal, Held, OneWinner

LEMMA OwnedInv ==
    ASSUME TypeOK, Numbered, Owned, NEW c \in Callers, Step(c) PROVE Owned'
<1> USE DEF Owners
<1>1. Others(c)
  BY OthersStep
<1>2. ASSUME guard' \subseteq guard, instance' = instance,
             pc[c] \in Owners =>
                 prefix[c] \notin guard' \/ (pc'[c] \in Owners /\ prefix'[c] = prefix[c])
      PROVE  Owned'
  BY <1>1, <1>2 DEF Others, Owned
<1>2a. ASSUME NEW p \in guard, instance'[p] = instance[p], pc[c] \in Owners => prefix[c] # p
       PROVE  instance'[p] # 0 \/ \E d \in Callers : prefix'[d] = p /\ pc'[d] \in Owners
  <2>1. CASE instance[p] # 0
    BY <1>2a, <2>1
  <2>2. CASE instance[p] = 0
    <3>1. PICK d \in Callers : prefix[d] = p /\ pc[d] \in Owners
      BY <2>2 DEF Owned
    <3>2. d # c
      BY <1>2a, <3>1
    <3> QED BY <1>1, <3>1, <3>2 DEF Others
  <2> QED BY <2>1, <2>2
<1> USE DEF World, Args, Goto, At, TypeOK
<1>3. CASE \E p \in Prefixes : Claim(c, p)
  <2>1. PICK p \in Prefixes : Claim(c, p)
    BY <1>3
  <2>2. /\ guard' = guard \union {p} /\ instance' = instance /\ pc[c] \notin Owners
        /\ prefix'[c] = p /\ pc'[c] \in Owners
    BY <2>1 DEF Claim
  <2>3. ASSUME NEW q \in guard'
        PROVE  instance'[q] # 0 \/ \E d \in Callers : prefix'[d] = q /\ pc'[d] \in Owners
    <3>1. CASE q = p
      BY <2>2, <3>1
    <3>2. CASE q # p
      BY <1>2a, <2>2, <3>2
    <3> QED BY <3>1, <3>2
  <2> QED BY <2>3 DEF Owned
<1>4. CASE \E p \in Prefixes : StartRelease(c, p)
  BY <1>2, <1>4 DEF StartRelease
<1>5. CASE ListPrefixes(c) \/ SetSentinel(c) \/ Gate(c)
  BY <1>2, <1>5 DEF ListPrefixes, SetSentinel, Gate
<1>6. CASE GateFreesGuard(c) \/ GateFreesSentinel(c)
  BY <1>2, <1>6 DEF GateFreesGuard, GateFreesSentinel
<1>7. CASE SetInstance(c)
  <2>1. inst[c] # 0
    BY <1>7 DEF SetInstance, Numbered, Claimed
  <2>2. /\ guard' = guard /\ instance' = [instance EXCEPT ![prefix[c]] = inst[c]]
        /\ prefix[c] \in Prefixes
    BY <1>7 DEF SetInstance
  <2>3. ASSUME NEW p \in guard, p # prefix[c]
        PROVE  instance'[p] # 0 \/ \E d \in Callers : prefix'[d] = p /\ pc'[d] \in Owners
    <3>1. p \in Prefixes /\ instance'[p] = instance[p]
      BY <2>2, <2>3
    <3> QED BY <1>2a, <2>3, <3>1
  <2> QED BY <2>1, <2>2, <2>3 DEF Owned
<1>8. CASE RememberLoad(c) \/ RememberStore(c)
  BY <1>2, <1>8 DEF RememberLoad, RememberStore
<1>9. CASE Validate(c) \/ Load(c)
  BY <1>2, <1>9 DEF Validate, Load
<1>10. CASE DropInstance(c)
  <2>1. /\ guard' = guard /\ instance' = [instance EXCEPT ![prefix[c]] = 0] /\ prefix' = prefix
        /\ prefix[c] \in Prefixes /\ pc'[c] \in Owners /\ pc[c] \notin Owners
    BY <1>10 DEF DropInstance
  <2>2. ASSUME NEW p \in guard, p # prefix[c]
        PROVE  instance'[p] # 0 \/ \E d \in Callers : prefix'[d] = p /\ pc'[d] \in Owners
    <3>1. p \in Prefixes /\ instance'[p] = instance[p]
      BY <2>1, <2>2
    <3> QED BY <1>2a, <2>2, <3>1
  <2> QED BY <2>1, <2>2 DEF Owned
<1>11. CASE DropSentinel(c) \/ DropGuard(c)
  BY <1>2, <1>11 DEF DropSentinel, DropGuard
<1>12. CASE Forget(c) \/ ReleaseListed(c) \/ DropTracked(c)
  BY <1>2, <1>12 DEF Forget, ReleaseListed, DropTracked
<1> QED BY <1>3, <1>4, <1>5, <1>6, <1>7, <1>8, <1>9, <1>10, <1>11, <1>12 DEF Step, Call

-----------------------------------------------------------------------------
\* The set of prefixes.

LEMMA KeptInv ==
    ASSUME TypeOK, Listing, Numbered, Kept, Met', NEW c \in Callers, Step(c),
           crossed \subseteq crossed'
    PROVE  Kept'
<1> SUFFICES ASSUME NEW p \in Prefixes, Sound(p)' PROVE KeptAt(p)'
  BY DEF Kept
<1> DEFINE Past == {"dropSentinel", "dropGuard", "forget"}
<1>1. Others(c)
  BY OthersStep
<1>2. instance'[p] = instance[p] => Sound(p) /\ KeptAt(p)
  BY DEF Sound, Kept
<1>3. ASSUME instance'[p] = instance[p],
             p \in tracked => p \in tracked',
             Entering(c, p) => Entering(c, p)' \/ p \in tracked',
             \A d \in Callers : d # c /\ d \notin stale => d \notin stale',
             prefix'[c] = p => pc'[c] \notin Past,
             Clearing(c)' => p \in listed'[c]
      PROVE  KeptAt(p)'
  <2>1. p \in tracked' \/ \E d \in Callers : Entering(d, p)'
    <3>1. CASE p \in tracked
      BY <1>3, <3>1
    <3>2. CASE p \notin tracked
      <4>1. PICK d \in Callers : Entering(d, p)
        BY <1>2, <1>3, <3>2 DEF KeptAt
      <4>2. CASE d = c
        BY <1>3, <4>1, <4>2
      <4>3. CASE d # c
        BY <1>1, <1>3, <4>1, <4>3 DEF Entering, Others
      <4> QED BY <4>2, <4>3
    <3> QED BY <3>1, <3>2
  <2>2. NotDropped(p)'
    BY <1>1, <1>2, <1>3 DEF KeptAt, NotDropped, Others
  <2>3. \A d \in Callers : Clearing(d)' => p \in listed'[d]
    BY <1>1, <1>2, <1>3 DEF KeptAt, Clearing, At, Others
  <2> QED BY <2>1, <2>2, <2>3 DEF KeptAt
<1>4. /\ prefix[c] = p /\ instance'[p] = instance[p] => pc[c] \notin Past
      /\ Clearing(c) /\ instance'[p] = instance[p] => p \in listed[c]
  BY <1>2 DEF KeptAt, NotDropped
<1>5. listed[c] # {} => pc[c] \in Dropping \union {"clear"}
  BY DEF Listing
<1> HIDE DEF KeptAt, Kept, Listing, Sound
<1> USE DEF World, Args, Goto, At, TypeOK
<1>6. CASE \E q \in Prefixes : Claim(c, q)
  BY <1>3, <1>4, <1>5, <1>6 DEF Claim, Entering, Clearing, Dropping
<1>7. CASE \E q \in Prefixes : StartRelease(c, q)
  BY <1>3, <1>4, <1>5, <1>7 DEF StartRelease, Entering, Clearing, Dropping
<1>8. CASE ListPrefixes(c)
  <2>1. /\ pc'[c] = "clear" /\ listed'[c] = tracked /\ tracked' = tracked /\ stale' = stale
        /\ instance' = instance /\ pc[c] = "idle"
    BY <1>8 DEF ListPrefixes
  <2>2. ASSUME NEW d \in Callers, Entering(d, p) PROVE FALSE
    <3>1. d # c /\ Registering(d)'
      BY <1>1, <2>1, <2>2 DEF Entering, Others, Registering
    <3>2. Clearing(c)'
      BY <2>1 DEF Clearing
    <3>3. inst'[d] \in crossed'
      BY <3>1, <3>2 DEF Met, Crossings
    <3> QED BY <1>1, <2>1, <2>2, <3>1, <3>3 DEF Entering, Others, Sound
  <2>3. p \in tracked
    BY <1>2, <2>1, <2>2 DEF KeptAt
  <2> QED BY <1>3, <2>1, <2>3 DEF Entering
<1>9. CASE SetSentinel(c) \/ Gate(c) \/ GateFreesGuard(c) \/ GateFreesSentinel(c)
  <2>1. /\ instance' = instance /\ tracked' = tracked /\ stale' = stale /\ listed' = listed
        /\ pc[c] \in {"sentinel", "gate", "gateGuard", "gateSentinel"} /\ pc'[c] \notin Past
        /\ pc'[c] # "clear"
    BY <1>9 DEF SetSentinel, Gate, GateFreesGuard, GateFreesSentinel
  <2> QED BY <1>3, <1>5, <2>1 DEF Entering, Clearing, Dropping
<1>10. CASE SetInstance(c)
  <2>1. /\ instance' = [instance EXCEPT ![prefix[c]] = inst[c]] /\ prefix' = prefix
        /\ tracked' = tracked /\ stale' = stale /\ listed' = listed /\ inst' = inst
        /\ pc[c] = "instance" /\ pc'[c] = "rememberLoad" /\ prefix[c] \in Prefixes
    BY <1>10 DEF SetInstance
  <2>2. CASE p # prefix[c]
    BY <1>3, <1>5, <2>1, <2>2 DEF Entering, Clearing, Dropping
  <2>3. CASE p = prefix[c]
    <3>1. Entering(c, p)'
      BY <2>1, <2>3 DEF Entering
    <3>2. Registering(c)' /\ inst'[c] \notin crossed'
      BY <2>1, <2>3 DEF Registering, Sound
    <3>3. ASSUME NEW d \in Callers, d # c
          PROVE  ~Clearing(d)' /\ ~(Releasing(d)' /\ prefix'[d] = prefix'[c])
      BY <3>2, <3>3 DEF Met, Crossings
    <3>4. NotDropped(p)'
      <4>1. ASSUME NEW d \in Callers, prefix'[d] = p PROVE pc'[d] \notin Past
        BY <2>1, <2>3, <3>3, <4>1 DEF Releasing
      <4> QED BY <4>1 DEF NotDropped
    <3>5. ~Clearing(c)'
      BY <1>5, <2>1 DEF Clearing, Dropping
    <3> QED BY <3>1, <3>3, <3>4, <3>5 DEF KeptAt
  <2> QED BY <2>2, <2>3
<1>11. CASE RememberLoad(c)
  <2>1. /\ instance' = instance /\ prefix' = prefix /\ inst' = inst /\ tracked' = tracked
        /\ stale' = stale \ {c} /\ listed' = listed
        /\ pc[c] = "rememberLoad" /\ pc'[c] = "rememberStore"
    BY <1>11 DEF RememberLoad
  <2> QED BY <1>3, <1>5, <2>1 DEF Entering, Clearing, Dropping
<1>12. CASE RememberStore(c)
  <2>1. /\ instance' = instance /\ prefix' = prefix /\ inst' = inst
        /\ tracked' = IF c \in stale THEN tracked ELSE tracked \union {prefix[c]}
        /\ stale' = stale /\ listed' = listed
        /\ pc[c] = "rememberStore" /\ pc'[c] \in {"idle", "validate"}
    BY <1>12 DEF RememberStore, AfterRemember
  <2> QED BY <1>3, <1>5, <2>1 DEF Entering, Clearing, Dropping
<1>13. CASE Validate(c) \/ Load(c)
  <2>1. /\ instance' = instance /\ prefix' = prefix /\ tracked' = tracked /\ stale' = stale
        /\ listed' = listed
        /\ pc[c] \in {"validate", "load"} /\ pc'[c] \in {"load", "idle", "dropInstance"}
    BY <1>13 DEF Validate, Load
  <2> QED BY <1>3, <1>5, <2>1 DEF Entering, Clearing, Dropping
<1>14. CASE DropInstance(c)
  <2>1. /\ instance' = [instance EXCEPT ![prefix[c]] = 0] /\ prefix' = prefix
        /\ tracked' = tracked /\ stale' = stale /\ listed' = listed
        /\ pc[c] = "dropInstance" /\ pc'[c] = "dropSentinel" /\ prefix[c] \in Prefixes
    BY <1>14 DEF DropInstance
  <2>2. p # prefix[c]
    BY <2>1 DEF Sound
  <2> QED BY <1>3, <1>4, <2>1, <2>2 DEF Entering, Clearing
<1>15. CASE DropSentinel(c) \/ DropGuard(c)
  <2>1. /\ instance' = instance /\ prefix' = prefix /\ tracked' = tracked /\ stale' = stale
        /\ listed' = listed /\ pc[c] \in {"dropSentinel", "dropGuard"}
        /\ pc'[c] \in {"dropGuard", "forget"}
    BY <1>15 DEF DropSentinel, DropGuard
  <2> QED BY <1>3, <1>4, <2>1 DEF Entering, Clearing
<1>16. CASE Forget(c)
  <2>1. /\ instance' = instance /\ prefix' = prefix /\ tracked' = tracked \ {prefix[c]}
        /\ stale' = stale /\ listed'[c] = listed[c] \ {prefix[c]}
        /\ pc[c] = "forget" /\ pc'[c] = IF listed[c] = {} THEN "idle" ELSE "clear"
    BY <1>16 DEF Forget
  <2>2. p # prefix[c]
    BY <1>4, <2>1
  <2>3. Clearing(c)' => p \in listed'[c]
    BY <1>4, <2>1, <2>2 DEF Clearing
  <2> QED BY <1>3, <2>1, <2>2, <2>3 DEF Entering
<1>17. CASE ReleaseListed(c)
  <2>1. /\ instance' = instance /\ tracked' = tracked /\ stale' = stale /\ listed' = listed
        /\ pc[c] = "clear" /\ pc'[c] = "dropInstance"
    BY <1>17 DEF ReleaseListed
  <2> QED BY <1>3, <1>4, <2>1 DEF Entering, Clearing
<1>18. CASE DropTracked(c)
  <2>1. instance' = instance /\ pc[c] = "clear" /\ listed[c] = {}
    BY <1>18 DEF DropTracked
  <2> QED BY <1>4, <2>1 DEF Clearing
<1> QED BY <1>6, <1>7, <1>8, <1>9, <1>10, <1>11, <1>12, <1>13, <1>14, <1>15, <1>16, <1>17,
           <1>18 DEF Step, Call

-----------------------------------------------------------------------------
\* The gate of legacy rows.

\* A plane in service, or past the gate, is counted unless it met a release.
LEMMA ValidIsTracked ==
    ASSUME TypeOK, Numbered, Kept, NEW p \in Prefixes, Sound(p),
           Valid(p) \/ \E c \in Callers : pc[c] = "validate" /\ inst[c] = instance[p]
    PROVE  p \in tracked
<1> SUFFICES ASSUME NEW c \in Callers, Entering(c, p) PROVE FALSE
  BY DEF Kept, KeptAt
<1>1. inst[c] = instance[p] /\ pc[c] \in Claimed /\ pc[c] \notin {"validate", "load"}
  BY DEF Entering, Claimed
<1>2. inst[c] \notin loaded
  BY <1>1 DEF Numbered
<1>3. PICK d \in Callers : pc[d] \in {"validate", "load"} /\ inst[d] = instance[p]
  BY <1>1, <1>2 DEF Valid, Serves
<1> QED BY <1>1, <1>3 DEF Numbered, Claimed

LEMMA FewTracked ==
    ASSUME IsFiniteSet(tracked), Cardinality(tracked) < 2,
           NEW p \in tracked, NEW q \in tracked
    PROVE  p = q
<1>2. Cardinality({p, q}) <= Cardinality(tracked)
  <2>1. {p, q} \in SUBSET tracked
    OBVIOUS
  <2> QED BY <2>1, FS_Subset
<1>3. p # q => Cardinality({p} \union {q}) = 1 + 1
  <2>1. IsFiniteSet({p}) /\ Cardinality({p}) = 1
    BY FS_Singleton
  <2>2. Cardinality({p} \union {q}) = IF q \in {p} THEN Cardinality({p}) ELSE Cardinality({p}) + 1
    BY <2>1, FS_AddElement
  <2> QED BY <2>1, <2>2
<1>4. {p} \union {q} = {p, q}
  OBVIOUS
<1>5. Cardinality(tracked) \in Nat
  BY FS_CardinalityType
<1> QED BY <1>2, <1>3, <1>4, <1>5

\* Only the gate makes a plane valid.
LEMMA ValidStep ==
    ASSUME TypeOK, Numbered, NEW c \in Callers, Step(c), NEW p \in Prefixes, Valid(p)'
    PROVE  /\ instance'[p] = instance[p]
           /\ Valid(p) \/ (Validate(c) /\ PrefixStateValid /\ inst[c] = instance[p])
<1> USE DEF World, Args, Goto, At, TypeOK
<1>1. Others(c)
  BY OthersStep
<1>2. PICK i \in Nat : i = instance'[p] /\ (i \in loaded' \/ \E d \in Callers : pc'[d] = "load" /\ inst'[d] = i)
  <2>1. instance'[p] \in Nat
    BY DEF Step, Call, Claim, StartRelease, ListPrefixes, SetSentinel, Gate, GateFreesGuard,
       GateFreesSentinel, SetInstance, RememberLoad, RememberStore, Validate, Load, DropInstance,
       DropSentinel, DropGuard, Forget, ReleaseListed, DropTracked
  <2> QED BY <2>1 DEF Valid, Serves
<1>3. ASSUME loaded' = loaded, pc'[c] # "load" PROVE i \in loaded \/ \E d \in Callers : pc[d] = "load" /\ inst[d] = i
  BY <1>1, <1>2, <1>3 DEF Others
<1>4. ASSUME instance' = instance, loaded' = loaded, pc'[c] # "load"
      PROVE  instance'[p] = instance[p] /\ Valid(p)
  BY <1>2, <1>3, <1>4 DEF Valid, Serves
<1>5. CASE \E q \in Prefixes : Claim(c, q) \/ StartRelease(c, q)
  BY <1>4, <1>5 DEF Claim, StartRelease
<1>6. CASE ListPrefixes(c) \/ SetSentinel(c) \/ Gate(c) \/ GateFreesGuard(c)
  BY <1>4, <1>6 DEF ListPrefixes, SetSentinel, Gate, GateFreesGuard
<1>7. CASE GateFreesSentinel(c) \/ RememberLoad(c) \/ RememberStore(c)
  BY <1>4, <1>7 DEF GateFreesSentinel, RememberLoad, RememberStore, AfterRemember
<1>8. CASE SetInstance(c)
  <2>1. /\ instance' = [instance EXCEPT ![prefix[c]] = inst[c]] /\ loaded' = loaded
        /\ pc[c] = "instance" /\ pc'[c] # "load" /\ prefix[c] \in Prefixes
    BY <1>8 DEF SetInstance
  <2>2. CASE p = prefix[c]
    <3>1. i = inst[c]
      BY <1>2, <2>1, <2>2
    <3>2. i \notin loaded /\ \A d \in Callers : pc[d] = "load" => inst[d] # i
      BY <2>1, <3>1 DEF Numbered, Claimed
    <3> QED BY <1>3, <2>1, <3>2
  <2>3. CASE p # prefix[c]
    BY <1>2, <1>3, <2>1, <2>3 DEF Valid, Serves
  <2> QED BY <2>2, <2>3
<1>9. CASE Validate(c)
  <2>1. instance' = instance /\ loaded' = loaded
    BY <1>9 DEF Validate
  <2>2. CASE PrefixStateValid
    BY <1>1, <1>2, <1>9, <2>1, <2>2 DEF Validate, Others, Valid, Serves
  <2>3. CASE ~PrefixStateValid
    BY <1>4, <1>9, <2>1, <2>3 DEF Validate
  <2> QED BY <2>2, <2>3
<1>10. CASE Load(c)
  <2>1. /\ instance' = instance /\ loaded' \in {loaded, loaded \union {inst[c]}}
        /\ pc[c] = "load" /\ pc'[c] # "load"
    BY <1>10 DEF Load
  <2>2. CASE i = inst[c]
    BY <1>2, <2>1, <2>2 DEF Valid
  <2>3. CASE i # inst[c]
    BY <1>1, <1>2, <2>1, <2>3 DEF Others, Valid, Serves
  <2> QED BY <2>1, <2>2, <2>3
<1>11. CASE DropInstance(c)
  <2>1. /\ instance' = [instance EXCEPT ![prefix[c]] = 0] /\ loaded' = loaded
        /\ pc'[c] # "load" /\ prefix[c] \in Prefixes
    BY <1>11 DEF DropInstance
  <2>2. 0 \notin loaded /\ \A d \in Callers : pc[d] = "load" => inst[d] # 0
    BY DEF Numbered, Claimed
  <2>3. p # prefix[c]
    BY <1>2, <1>3, <2>1, <2>2
  <2> QED BY <1>2, <1>3, <2>1, <2>3 DEF Valid, Serves
<1>12. CASE DropSentinel(c) \/ DropGuard(c) \/ Forget(c)
  BY <1>4, <1>12 DEF DropSentinel, DropGuard, Forget
<1>13. CASE ReleaseListed(c) \/ DropTracked(c)
  BY <1>4, <1>13 DEF ReleaseListed, DropTracked
<1> QED BY <1>5, <1>6, <1>7, <1>8, <1>9, <1>10, <1>11, <1>12, <1>13 DEF Step, Call

LEMMA OneValidInv ==
    ASSUME Inv, NEW c \in Callers, Step(c), crossed \subseteq crossed'
    PROVE  OneValid'
<1> SUFFICES ASSUME legacy', NEW p \in Prefixes, NEW q \in Prefixes,
                    Sound(p)', Sound(q)', Valid(p)', Valid(q)'
             PROVE  p = q
  BY DEF OneValid
<1>1. legacy
  BY DEF Step, Call, World, Claim, StartRelease, ListPrefixes, SetSentinel, Gate, GateFreesGuard,
     GateFreesSentinel, SetInstance, RememberLoad, RememberStore, Validate, Load, DropInstance,
     DropSentinel, DropGuard, Forget, ReleaseListed, DropTracked
<1>2. Sound(p) /\ Sound(q)
  BY ValidStep DEF Inv, Sound
<1>3. CASE Valid(p) /\ Valid(q)
  BY <1>1, <1>2, <1>3 DEF Inv, OneValid
<1>4. CASE ~(Valid(p) /\ Valid(q))
  <2>1. Validate(c) /\ PrefixStateValid
    BY <1>4, ValidStep DEF Inv
  <2>2. ASSUME NEW r \in Prefixes, Sound(r), Valid(r)' PROVE r \in tracked
    <3>1. Valid(r) \/ (inst[c] = instance[r] /\ pc[c] = "validate")
      BY <2>1, <2>2, ValidStep DEF Inv, Validate, At
    <3> QED BY <2>2, <3>1, ValidIsTracked DEF Inv
  <2>3. p \in tracked /\ q \in tracked
    BY <1>2, <2>2
  <2> QED BY <1>1, <2>1, <2>3, FewTracked DEF PrefixStateValid, Inv
<1> QED BY <1>3, <1>4

LEMMA FiniteInv == ASSUME Inv, NEW c \in Callers, Step(c) PROVE IsFiniteSet(tracked')
<1>1. /\ IsFiniteSet(tracked) /\ IsFiniteSet(tracked \union {prefix[c]})
      /\ IsFiniteSet(tracked \ {prefix[c]}) /\ IsFiniteSet({})
  BY FS_AddElement, FS_RemoveElement, FS_EmptySet DEF Inv
<1>2. tracked' \in {tracked, tracked \union {prefix[c]}, tracked \ {prefix[c]}, {}}
  BY DEF Step, Call, Claim, StartRelease, ListPrefixes, SetSentinel, Gate, GateFreesGuard,
     GateFreesSentinel, SetInstance, RememberLoad, RememberStore, Validate, Load, DropInstance,
     DropSentinel, DropGuard, Forget, ReleaseListed, DropTracked
<1> QED BY <1>1, <1>2

-----------------------------------------------------------------------------
LEMMA BootstrapInv == ASSUME Inv, Bootstrap, Record PROVE Inv'
<1>a. /\ TypeOK /\ Listing /\ Numbered /\ Met /\ Held /\ Owned /\ Kept /\ OneValid
      /\ IsFiniteSet(tracked)
  BY DEF Inv
<1>1. /\ UNCHANGED <<guard, sentinel, instance, tracked, legacy, claims, pc, prefix, inst, listed, stale>>
      /\ hooks' = <<>> /\ \A c \in Callers : pc[c] = "idle"
  BY DEF Bootstrap, Args, At
<1>2. PICK n \in 0 .. (IF PrefixStateValid THEN Len(hooks) ELSE 0) :
        loaded' = {hooks[i] : i \in (Len(hooks) - n + 1) .. Len(hooks)}
  BY DEF Bootstrap
<1>3. Crossings' = {} /\ crossed' = crossed
  <2>1. Crossings' = {}
    BY <1>1 DEF Crossings, Registering
  <2> QED BY <2>1 DEF Record
<1>4. TypeOK'
  BY <1>a, <1>3, TypeInv DEF TypeOK
<1>5. Listing' /\ Met' /\ Held' /\ Owned'
  BY <1>a, <1>1, <1>3 DEF Listing, Met, Held, OneWinner, Owned, Registering
<1>6. \A k \in loaded' : k <= claims
  <2>1. Len(hooks) \in Nat /\ n \in 0 .. Len(hooks)
    BY <1>a DEF TypeOK
  <2> QED BY <1>a, <1>2, <2>1 DEF Numbered, TypeOK
<1>7. Numbered'
  BY <1>a, <1>1, <1>6 DEF Numbered, Claimed
<1>8. Kept' /\ \A p \in Prefixes : Sound(p)' => p \in tracked
  <2>1. \A p \in Prefixes, c \in Callers : ~Entering(c, p)
    BY <1>1 DEF Entering
  <2> QED BY <1>a, <1>1, <1>3, <2>1 DEF Kept, KeptAt, Sound, NotDropped, Entering, Clearing, At
<1>9. OneValid'
  <2> SUFFICES ASSUME legacy, NEW p \in Prefixes, NEW q \in Prefixes,
                      Sound(p)', Sound(q)', Valid(p)', Valid(q)'
               PROVE  p = q
    BY <1>1 DEF OneValid
  <2>1. p \in tracked /\ q \in tracked
    BY <1>8
  <2>2. CASE PrefixStateValid
    BY <1>a, <2>1, <2>2, FewTracked DEF PrefixStateValid
  <2>3. CASE ~PrefixStateValid
    <3>1. n = 0 /\ Len(hooks) \in Nat
      BY <1>a, <2>3 DEF TypeOK
    <3>2. loaded' = {}
      BY <1>2, <3>1
    <3> QED BY <1>1, <3>2 DEF Valid, Serves
  <2> QED BY <2>2, <2>3
<1> QED BY <1>a, <1>1, <1>4, <1>5, <1>7, <1>8, <1>9 DEF Inv

LEMMA InitInv == ASSUME Init PROVE Inv
<1>1. TypeOK
  BY RegistrationAssumption DEF Init, TypeOK, Stages
<1>2. Listing /\ Numbered /\ Met /\ Held /\ Owned
  BY RegistrationAssumption DEF Init, Listing, Numbered, Met, Held, OneWinner, Owned, Crossings,
     Registering, Claimed
<1>3. Kept /\ OneValid
  BY DEF Init, Kept, OneValid, Sound
<1>4. IsFiniteSet(tracked)
  BY FS_EmptySet DEF Init
<1> QED BY <1>1, <1>2, <1>3, <1>4 DEF Inv

LEMMA NextInv == ASSUME Inv, [Next]_vars PROVE Inv'
<1>a. /\ TypeOK /\ Listing /\ Numbered /\ Met /\ Held /\ Owned /\ Kept /\ OneValid
      /\ IsFiniteSet(tracked)
  BY DEF Inv
<1>1. CASE Bootstrap /\ Record
  BY <1>1, BootstrapInv
<1>2. ASSUME NEW c \in Callers, Step(c), Record PROVE Inv'
  <2>1. Numbered'
    BY <1>a, <1>2, NumberedInv
  <2>2. Met' /\ TypeOK' /\ crossed \subseteq crossed'
    BY <1>a, <1>2, <2>1, CrossedInv, TypeInv DEF Record
  <2>3. Listing' /\ Held' /\ Owned'
    BY <1>a, <1>2, <2>2, ListingInv, HeldInv, OwnedInv
  <2>4. Kept'
    BY <1>a, <1>2, <2>2, KeptInv
  <2>5. OneValid' /\ IsFiniteSet(tracked')
    BY <1>2, <2>1, <2>2, <2>4, OneValidInv, FiniteInv
  <2> QED BY <2>1, <2>2, <2>3, <2>4, <2>5 DEF Inv
<1>3. CASE UNCHANGED vars
  <2>1. TypeOK' /\ Listing' /\ Numbered'
    BY <1>a, <1>3 DEF vars, TypeOK, Listing, Numbered
  <2>2. Met' /\ Held' /\ Owned'
    BY <1>a, <1>3 DEF vars, Met, Crossings, Registering, Releasing, Clearing, At, Held, OneWinner, Owned
  <2>3. Kept' /\ OneValid'
    BY <1>a, <1>3 DEF vars, Kept, KeptAt, Entering, NotDropped, Clearing, At, Sound, OneValid, Valid,
       Serves
  <2> QED BY <1>a, <1>3, <2>1, <2>2, <2>3 DEF vars, Inv
<1> QED BY <1>1, <1>2, <1>3, NextSteps

-----------------------------------------------------------------------------
\* Requests and clients.

\* A request leaves the tables alone; the rest is a step of Registration.
LEMMA ClientsStep ==
    ASSUME [ClientsNext]_<<vars, clientVars>> PROVE [Next]_vars
<1>1. CASE Manage
  <2>1. (Bootstrap \/ \E c \in Callers : Step(c)) /\ Record
    BY <1>1 DEF Manage, Step, Call, LoadLocked
  <2> QED BY <2>1, NextSteps
<1>2. CASE \E k \in Requests : Request(k)
  BY <1>2 DEF Request, ArriveRegister, DefaultScope, DefaultAudience, ArriveAdmin, ResolvePlane,
     HashSecret, Insert, ArriveLookup, LegacyIncluded, Query, Done
<1> QED BY <1>1, <1>2 DEF ClientsNext

Reqs == [at : Places, route : Prefixes \union {NoPlane}, plane : Prefixes \union {NoPlane},
         id : Ids, hashed : Seq(Prefixes), passes : Int, legacy : BOOLEAN,
         found : SUBSET Rows, reply : Replies]

ClientsType ==
    /\ rows \subseteq Rows
    /\ bound \in {0, 1}
    /\ routes \subseteq Prefixes
    /\ req \in [Requests -> Reqs]

\* How often the secret of a request was hashed, by where the request is.
Hashed(k) ==
    /\ req[k].at \in {"scope", "audience", "resolve", "hash"} => req[k].hashed = <<>>
    /\ req[k].at \in {"resolve", "hash"} => req[k].passes <= 1
    /\ req[k].at \in {"hash", "insert"} => req[k].plane # NoPlane
    /\ req[k].at = "insert" => req[k].hashed = <<req[k].plane>>

HashInv == ClientsType /\ SecretHashedOnce /\ \A k \in Requests : Hashed(k)

LEMMA IdleType == Idle \in Reqs
<1>1. <<>> \in Seq(Prefixes)
  OBVIOUS
<1> QED BY <1>1 DEF Idle, Reqs, Places, Replies, Ids

\* One request goes on, and no row is added.
LEMMA SetInv ==
    ASSUME HashInv, NEW k \in Requests, NEW r \in Reqs, Set(k, r),
           UNCHANGED <<rows, bound, routes>>,
           r.at \in {"scope", "audience", "resolve", "hash"} => r.hashed = <<>>,
           r.at \in {"resolve", "hash"} => r.passes <= 1,
           r.at \in {"hash", "insert"} => r.plane # NoPlane,
           r.at = "insert" => r.hashed = <<r.plane>>
    PROVE  HashInv'
<1>1. /\ req' = [req EXCEPT ![k] = r] /\ req \in [Requests -> Reqs]
      /\ rows' = rows /\ bound' = bound /\ routes' = routes
  BY DEF Set, HashInv, ClientsType
<1>2. ClientsType' /\ SecretHashedOnce'
  BY <1>1 DEF HashInv, ClientsType, SecretHashedOnce
<1>3. ASSUME NEW j \in Requests PROVE Hashed(j)'
  <2>1. CASE j = k
    BY <1>1, <2>1 DEF Hashed
  <2>2. CASE j # k
    BY <1>1, <2>2 DEF HashInv, Hashed
  <2> QED BY <2>1, <2>2
<1> QED BY <1>2, <1>3 DEF HashInv

LEMMA AnswerInv ==
    ASSUME HashInv, NEW k \in Requests, NEW reply \in Replies, Answer(k, reply),
           UNCHANGED <<rows, bound, routes>>
    PROVE  HashInv'
<1> DEFINE r == [req[k] EXCEPT !.at = "answered", !.reply = reply]
<1>1. r \in Reqs /\ r.at = "answered"
  BY DEF HashInv, ClientsType, Reqs, Places
<1> QED BY <1>1, SetInv DEF Answer

LEMMA SaveType ==
    ASSUME HashInv, NEW r \in Reqs
    PROVE  /\ Save(r) \in Reqs /\ Save(r).at = "resolve" /\ Save(r).passes <= 1
           /\ Save(r).hashed = r.hashed
<1>1. bound \in Int /\ bound <= 1
  BY DEF HashInv, ClientsType
<1> QED BY <1>1 DEF Save, Reqs, Places

LEMMA RequestInv == ASSUME HashInv, NEW k \in Requests, Request(k) PROVE HashInv'
<1> USE DEF Pending, Reqs
<1>a. /\ req[k] \in Reqs /\ Idle \in Reqs /\ Hashed(k) /\ routes \subseteq Prefixes
      /\ \A reply \in {"panic", "error", "conflict", "created", "notfound"} : reply \in Replies
  BY IdleType DEF HashInv, ClientsType, Replies
<1>1. CASE ArriveRegister(k)
  <2>1. PICK p \in routes, scoped \in BOOLEAN, i \in Fresh :
          Set(k, [Idle EXCEPT !.at = IF scoped THEN "audience" ELSE "scope",
                              !.route = p, !.plane = p, !.id = i])
    BY <1>1 DEF ArriveRegister
  <2> DEFINE r == [Idle EXCEPT !.at = IF scoped THEN "audience" ELSE "scope",
                               !.route = p, !.plane = p, !.id = i]
  <2>2. r \in Reqs /\ r.at \in {"audience", "scope"} /\ r.hashed = <<>>
    <3>1. i \in Ids /\ p \in Prefixes
      BY <1>a DEF Ids
    <3>2. {"audience", "scope"} \subseteq Places
      BY DEF Places
    <3>3. Idle.hashed = <<>>
      BY DEF Idle
    <3> QED BY <1>a, <3>1, <3>2, <3>3
  <2> HIDE DEF r
  <2> QED BY <1>1, <2>1, <2>2, SetInv DEF r, ArriveRegister
<1>2. CASE DefaultScope(k)
  <2> DEFINE r == [req[k] EXCEPT !.at = "audience"]
  <2>1. r \in Reqs /\ r.at = "audience" /\ (req[k].at = "scope" => r.hashed = <<>>)
    BY <1>a DEF Places, Hashed
  <2>2. CASE Set(k, r)
    BY <1>2, <2>1, <2>2, SetInv DEF DefaultScope
  <2>3. CASE Answer(k, "panic")
    BY <1>2, <1>a, <2>3, AnswerInv DEF DefaultScope
  <2> QED BY <1>2, <2>2, <2>3 DEF DefaultScope
<1>3. CASE DefaultAudience(k)
  <2>1. CASE Set(k, Save(req[k]))
    <3>1. Save(req[k]).hashed = <<>>
      BY <1>3, <1>a, SaveType DEF DefaultAudience, Hashed
    <3> QED BY <1>3, <1>a, <2>1, <3>1, SaveType, SetInv DEF DefaultAudience
  <2>2. CASE Answer(k, "panic")
    BY <1>3, <1>a, <2>2, AnswerInv DEF DefaultAudience
  <2> QED BY <1>3, <2>1, <2>2 DEF DefaultAudience
<1>4. CASE ArriveAdmin(k)
  <2>1. PICK p \in Prefixes \union {NoPlane}, i \in Chosen :
          Set(k, Save([Idle EXCEPT !.plane = p, !.id = i]))
    BY <1>4 DEF ArriveAdmin
  <2> DEFINE r == [Idle EXCEPT !.plane = p, !.id = i]
  <2>2. r \in Reqs /\ r.hashed = <<>>
    <3>1. i \in Ids /\ Idle.hashed = <<>>
      BY DEF Ids, Idle
    <3> QED BY <1>a, <3>1
  <2> HIDE DEF r
  <2> QED BY <1>4, <2>1, <2>2, SaveType, SetInv DEF r, ArriveAdmin
<1>5. CASE ResolvePlane(k)
  <2> DEFINE r == [req[k] EXCEPT !.at = "hash"]
             s == [req[k] EXCEPT !.at = "hash", !.plane = DefaultPrefix]
  <2>1. /\ r \in Reqs /\ r.at = "hash" /\ r.hashed = req[k].hashed /\ r.passes = req[k].passes
        /\ r.plane = req[k].plane
        /\ s \in Reqs /\ s.at = "hash" /\ s.hashed = req[k].hashed /\ s.passes = req[k].passes
        /\ s.plane = DefaultPrefix
    BY <1>a, RegistrationAssumption DEF Places
  <2> HIDE DEF r, s
  <2>2. req[k].hashed = <<>> /\ req[k].passes <= 1 /\ DefaultPrefix # NoPlane
    BY <1>5, <1>a, RegistrationAssumption, ClientsAssumption DEF ResolvePlane, Hashed
  <2>3. CASE Set(k, r) /\ req[k].plane # NoPlane
    BY <1>5, <2>1, <2>2, <2>3, SetInv DEF ResolvePlane
  <2>4. CASE Set(k, s)
    BY <1>5, <2>1, <2>2, <2>4, SetInv DEF ResolvePlane
  <2>5. CASE Answer(k, "error")
    BY <1>5, <1>a, <2>5, AnswerInv DEF ResolvePlane
  <2> QED BY <1>5, <2>3, <2>4, <2>5 DEF ResolvePlane, r, s
<1>6. CASE HashSecret(k)
  <2> DEFINE r == [req[k] EXCEPT !.at = IF req[k].passes > 1 THEN "resolve" ELSE "insert",
                                 !.passes = @ - 1, !.hashed = Append(@, req[k].plane)]
  <2>1. /\ req[k].hashed = <<>> /\ req[k].passes <= 1 /\ req[k].passes \in Int
        /\ req[k].plane \in Prefixes
    BY <1>6, <1>a DEF HashSecret, Hashed
  <2>2. Append(req[k].hashed, req[k].plane) = <<req[k].plane>>
    BY <2>1
  <2>3. <<req[k].plane>> \in Seq(Prefixes)
    BY <2>1
  <2>4. /\ r \in Reqs /\ r.at = "insert" /\ r.plane = req[k].plane /\ r.hashed = <<req[k].plane>>
    <3> DEFINE once == <<req[k].plane>>
               left == req[k].passes - 1
               next == IF req[k].passes > 1 THEN "resolve" ELSE "insert"
               hashed == Append(req[k].hashed, req[k].plane)
    <3>1. r = [req[k] EXCEPT !.at = next, !.passes = left, !.hashed = hashed]
      OBVIOUS
    <3>2. left \in Int /\ once \in Seq(Prefixes) /\ next = "insert" /\ hashed = once
      BY <2>1, <2>2, <2>3
    <3> HIDE DEF once, left, r, next, hashed
    <3>3. /\ r \in Reqs /\ r.at = "insert" /\ r.plane = req[k].plane /\ r.hashed = once
      BY <1>a, <3>1, <3>2 DEF Places
    <3> QED BY <3>3 DEF once
  <2> HIDE DEF r
  <2>5. CASE Set(k, r)
    BY <1>6, <2>1, <2>4, <2>5, ClientsAssumption, SetInv DEF HashSecret
  <2>6. CASE Answer(k, "error")
    BY <1>6, <1>a, <2>6, AnswerInv DEF HashSecret
  <2> QED BY <1>6, <2>5, <2>6 DEF HashSecret, r
<1>7. CASE Insert(k)
  <2> DEFINE new == [id |-> req[k].id, plane |-> req[k].plane, hashed |-> req[k].hashed]
             s == [req[k] EXCEPT !.at = "answered", !.reply = req'[k].reply]
  <2>1. new \in Rows /\ new.plane = req[k].plane /\ new.hashed = <<req[k].plane>>
    BY <1>7, <1>a DEF Insert, Hashed, Rows
  <2>2. rows' = rows \/ rows' = rows \union {new}
    BY <1>7 DEF Insert
  <2> HIDE DEF new
  <2>3. rows' \subseteq Rows /\ SecretHashedOnce'
    BY <2>1, <2>2 DEF HashInv, ClientsType, SecretHashedOnce
  <2>4. PICK reply \in Replies : Answer(k, reply)
    BY <1>7, <1>a DEF Insert
  <2> DEFINE r == [req[k] EXCEPT !.at = "answered", !.reply = reply]
  <2>5. r \in Reqs /\ r.at = "answered"
    BY <1>a DEF Places
  <2>6. req' = [req EXCEPT ![k] = r] /\ bound' = bound /\ routes' = routes
    BY <1>7, <2>4 DEF Answer, Set, Insert
  <2> HIDE DEF r
  <2>7. ClientsType'
    BY <2>3, <2>5, <2>6 DEF HashInv, ClientsType
  <2>8. ASSUME NEW j \in Requests PROVE Hashed(j)'
    BY <2>5, <2>6 DEF HashInv, ClientsType, Hashed
  <2> QED BY <2>3, <2>7, <2>8 DEF HashInv
<1>8. CASE ArriveLookup(k)
  <2>1. PICK p \in routes, i \in Ids :
          Set(k, [Idle EXCEPT !.at = "allowed", !.route = p, !.plane = p, !.id = i])
    BY <1>8 DEF ArriveLookup
  <2> DEFINE r == [Idle EXCEPT !.at = "allowed", !.route = p, !.plane = p, !.id = i]
  <2>2. r \in Reqs /\ r.at = "allowed"
    BY <1>a DEF Places
  <2> HIDE DEF r
  <2> QED BY <1>8, <2>1, <2>2, SetInv DEF r, ArriveLookup
<1>9. CASE LegacyIncluded(k)
  <2> DEFINE r == [req[k] EXCEPT !.at = "query",
                     !.legacy = req[k].plane = DefaultPrefix /\ LegacyDefaultAllowed]
  <2>1. r \in Reqs /\ r.at = "query"
    BY <1>a DEF Places, LegacyDefaultAllowed
  <2>2. Set(k, r)
    BY <1>9 DEF LegacyIncluded
  <2> HIDE DEF r
  <2> QED BY <1>9, <2>1, <2>2, SetInv DEF LegacyIncluded
<1>10. CASE Query(k)
  <2>1. CASE Answer(k, "notfound")
    BY <1>10, <1>a, <2>1, AnswerInv DEF Query
  <2>2. ASSUME NEW old \in Matches(req[k]),
               Set(k, [req[k] EXCEPT !.at = "answered", !.reply = "found", !.found = {old}])
        PROVE  HashInv'
    <3> DEFINE r == [req[k] EXCEPT !.at = "answered", !.reply = "found", !.found = {old}]
    <3>1. {old} \in SUBSET Rows
      BY DEF Matches, HashInv, ClientsType
    <3>2. r \in Reqs /\ r.at = "answered"
      BY <1>a, <3>1 DEF Places, Replies
    <3> HIDE DEF r
    <3> QED BY <1>10, <2>2, <3>2, SetInv DEF r, Query
  <2> QED BY <1>10, <2>1, <2>2 DEF Query
<1>11. CASE Done(k)
  BY <1>11, <1>a, SetInv DEF Done, Idle
<1> QED BY <1>1, <1>2, <1>3, <1>4, <1>5, <1>6, <1>7, <1>8, <1>9, <1>10, <1>11 DEF Request

LEMMA HashInit == ASSUME ClientsInit PROVE HashInv
<1>1. /\ <<DefaultPrefix>> \in Seq(Prefixes) /\ Old \in Ids
      /\ NoPlane \in Prefixes \union {NoPlane}
  BY RegistrationAssumption DEF Ids
<1>2. ClientsType /\ SecretHashedOnce
  <2> DEFINE old == [id |-> Old, plane |-> NoPlane, hashed |-> <<DefaultPrefix>>]
  <2>1. old \in Rows /\ old.plane = NoPlane
    BY <1>1 DEF Rows
  <2> HIDE DEF old
  <2>2. rows \subseteq {old}
    BY DEF ClientsInit, old
  <2>3. rows \subseteq Rows /\ SecretHashedOnce
    BY <2>1, <2>2 DEF SecretHashedOnce
  <2> QED BY <2>3, IdleType DEF ClientsInit, ClientsType
<1>3. ASSUME NEW k \in Requests PROVE Hashed(k)
  BY DEF ClientsInit, Hashed, Idle
<1> QED BY <1>2, <1>3 DEF HashInv

LEMMA HashNext == ASSUME HashInv, [ClientsNext]_<<vars, clientVars>> PROVE HashInv'
<1>1. CASE Manage
  <2>1. /\ rows' = rows /\ req' = req /\ bound' \in {bound, 1}
        /\ routes' = routes \/ routes' \subseteq Prefixes
    BY <1>1 DEF Manage, BindHook, Serve, clientVars
  <2>2. ClientsType' /\ SecretHashedOnce'
    BY <2>1 DEF HashInv, ClientsType, SecretHashedOnce
  <2>3. ASSUME NEW k \in Requests PROVE Hashed(k)'
    BY <2>1 DEF HashInv, Hashed
  <2> QED BY <2>2, <2>3 DEF HashInv
<1>2. CASE \E k \in Requests : Request(k)
  BY <1>2, RequestInv
<1>3. CASE UNCHANGED <<vars, clientVars>>
  BY <1>3 DEF clientVars, HashInv, ClientsType, SecretHashedOnce, Hashed
<1> QED BY <1>1, <1>2, <1>3 DEF ClientsNext

-----------------------------------------------------------------------------
\* The composition behaves as Registration as far as the tables go: what requests
\* do in between disturbs no Register, DeregisterAt or Deregister.
THEOREM ClientsImplementsRegistration == ClientsSpec => Spec
<1>1. ClientsInit => Init
  BY DEF ClientsInit
<1>2. [ClientsNext]_<<vars, clientVars>> => [Next]_vars
  BY ClientsStep
<1> QED BY <1>1, <1>2, PTL DEF ClientsSpec, Spec

\* Tables, hooks and arguments are what Registration says they are.
THEOREM TypeCorrect == Spec => []TypeOK
<1>1. Inv => TypeOK
  BY DEF Inv
<1> QED BY <1>1, InitInv, NextInv, PTL DEF Spec

\* Concurrent Register calls for a prefix collapse to one winner (registrationGuard):
\* two are past the guard only when a third call released the prefix under one of them.
THEOREM Winner == ClientsSpec => []OneWinner
<1> SUFFICES Spec => []OneWinner
  BY ClientsImplementsRegistration
<1>1. Inv => OneWinner
  BY DEF Inv, Held
<1> QED BY <1>1, InitInv, NextInv, PTL DEF Spec

\* A key left in registrationGuard has a published instance behind it or a call still
\* at work, however Register, its roll back, DeregisterAt and Deregister interleave:
\* nothing that failed or was torn down refuses the next Register for good.
THEOREM GuardHasOwner == ClientsSpec => []NoOrphanGuard
<1> SUFFICES Spec => []NoOrphanGuard
  BY ClientsImplementsRegistration
<1>1. Inv => NoOrphanGuard
  BY DEF Inv, Owned, Owners, NoOrphanGuard
<1> QED BY <1>1, InitInv, NextInv, PTL DEF Spec

\* With rows that name no plane, validateProviderPrefixState lets a second plane into
\* service only when one of the two was registered while its prefix was being released.
THEOREM OneLoader == ClientsSpec => []OneLoaderUnlessCrossed
<1> SUFFICES Spec => []OneLoaderUnlessCrossed
  BY ClientsImplementsRegistration
<1>1. Inv => OneLoaderUnlessCrossed
  <2> SUFFICES ASSUME Inv, legacy, NEW p \in Prefixes, NEW q \in Prefixes, Serves(p), Serves(q),
                      instance[p] \notin crossed, instance[q] \notin crossed
               PROVE  p = q
    BY DEF OneLoaderUnlessCrossed
  <2>1. Sound(p) /\ Valid(p) /\ Sound(q) /\ Valid(q)
    BY DEF Inv, TypeOK, Sound, Valid, Serves
  <2> QED BY <2>1 DEF Inv, OneValid
<1> QED BY <1>1, InitInv, NextInv, PTL DEF Spec

\* Whenever legacyDefaultAllowed lets the default plane read rows of no plane, any other
\* plane in service was registered while its prefix was being released.
THEOREM ReaderAlone == ClientsSpec => []LegacyReaderAlone
<1> SUFFICES Spec => []LegacyReaderAlone
  BY ClientsImplementsRegistration
<1>1. Inv => LegacyReaderAlone
  <2> SUFFICES ASSUME Inv, LegacyDefaultAllowed, NEW p \in Prefixes, Serves(p),
                      instance[p] \notin crossed
               PROVE  p = DefaultPrefix
    BY DEF LegacyReaderAlone
  <2>1. Sound(p) /\ Valid(p)
    BY DEF Inv, TypeOK, Sound, Valid, Serves
  <2> QED BY <2>1, ValidIsTracked DEF Inv, LegacyDefaultAllowed
<1> QED BY <1>1, InitInv, NextInv, PTL DEF Spec

\* A created client's secret went once through a hasher, its own plane's, whichever
\* planes came and went meanwhile and whoever calls what.
THEOREM HashedOnce == ClientsSpec => []SecretHashedOnce
<1>1. HashInv => SecretHashedOnce
  BY DEF HashInv
<1> QED BY <1>1, HashInit, HashNext, PTL DEF ClientsSpec

=============================================================================
