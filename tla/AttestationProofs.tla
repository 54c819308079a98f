------------------------- MODULE AttestationProofs -------------------------
(***************************************************************************)
(* The budget of the runtime attestation endpoint, for any number of       *)
(* requests, any window and any limit.                                     *)
(*                                                                         *)
(* The invariant relates the histories to the limiter's two variables: the *)
(* last window has admitted `count' requests, and it started no earlier    *)
(* than a Window after the one before it.                                  *)
(***************************************************************************)
EXTENDS Attestation, TLAPS

\* The clock only moves forward, so what a request read of it is never ahead,
\* and the state it attests was read after it arrived.
TimesPast ==
    /\ started <= now
    /\ \A r \in Requests :
         /\ req[r].time <= now
         /\ req[r].at \in {"sign", "signed"} => req[r].time <= req[r].state
         /\ req[r].at = "signed" => req[r].iat <= req[r].state

\* What the windows started and the requests admitted have to do with the
\* state of the limiter.
WindowsCounted ==
    /\ started = -1 => windows = 0
    /\ started # -1 => windows > 0 /\ Window * (windows - 1) <= started
    /\ admitted = count

Inv == TypeOK /\ TimesPast /\ WindowsCounted

-----------------------------------------------------------------------------
\* A new window begins a full Window after the last one.
LEMMA NextWindow ==
    ASSUME NEW w \in Nat, w > 0, NEW s \in Int, NEW t \in Int,
           Window * (w - 1) <= s, t - s >= Window
    PROVE  Window * ((w + 1) - 1) <= t
<1>1. Window \in Nat
  BY AttestationAssumption
<1>2. Window * ((w + 1) - 1) = Window * (w - 1) + Window
  BY <1>1
<1> QED BY <1>1, <1>2

-----------------------------------------------------------------------------
LEMMA InitInv == Init => Inv
BY AttestationAssumption
   DEF Init, Inv, TypeOK, TimesPast, WindowsCounted, Idle, Places

\* The one step that touches the limiter.
LEMMA AllowInv ==
    ASSUME Inv, NEW r \in Requests, Allow(r)
    PROVE  Inv'
<1> DEFINE t    == req[r].time
           over == Over(t)
           used == IF over THEN 0 ELSE count
<1> USE DEF Inv
<1>1. /\ Limit \in Nat \ {0} /\ Window \in Nat \ {0} /\ MaxTime \in Nat
      /\ t \in 0 .. MaxTime /\ t <= now /\ started \in -1 .. MaxTime
      /\ used \in 0 .. Limit /\ windows \in Nat /\ admitted \in Nat
      /\ now \in 0 .. MaxTime /\ count \in 0 .. Limit
  BY AttestationAssumption DEF TypeOK, TimesPast
<1>2. /\ started' = IF over THEN t ELSE started
      /\ windows' = IF over THEN windows + 1 ELSE windows
      /\ \/ used < Limit /\ count' = used + 1 /\ admitted' = used + 1
         \/ used >= Limit /\ count' = used /\ admitted' = used
      /\ now' = now
  BY <1>1 DEF Allow, Admits, WindowsCounted
<1>3. \/ req' = [req EXCEPT ![r].at = "snapshot"]
      \/ req' = [req EXCEPT ![r] = Idle]
  BY DEF Allow
<1>4. TypeOK'
  <2>1. /\ started' \in -1 .. MaxTime /\ count' \in 0 .. Limit
        /\ windows' \in Nat /\ admitted' \in Nat
    BY <1>1, <1>2
  <2>2. req' \in [Requests -> [at : Places, time : 0 .. MaxTime,
                               state : 0 .. MaxTime, iat : 0 .. MaxTime]]
    BY <1>1, <1>3 DEF TypeOK, Places, Idle
  <2> QED BY <1>1, <1>2, <2>1, <2>2 DEF TypeOK
<1>5. TimesPast'
  <2>1. started' <= now'
    BY <1>1, <1>2 DEF TimesPast
  <2>2. \A q \in Requests :
           \/ req'[q] = req[q]
           \/ req'[q] = [req[q] EXCEPT !.at = "snapshot"]
           \/ req'[q] = Idle
    BY <1>3 DEF TypeOK
  <2>3. \A q \in Requests : req[q] \in [at : Places, time : 0 .. MaxTime,
                                        state : 0 .. MaxTime, iat : 0 .. MaxTime]
    BY DEF TypeOK
  <2>4. ASSUME NEW q \in Requests
        PROVE  /\ req'[q].time <= now
               /\ req'[q].at \in {"sign", "signed"} => req'[q].time <= req'[q].state
               /\ req'[q].at = "signed" => req'[q].iat <= req'[q].state
    <3>1. CASE req'[q] = req[q]
      BY <3>1 DEF TimesPast
    <3>2. CASE req'[q] = [req[q] EXCEPT !.at = "snapshot"]
      BY <2>3, <3>2 DEF TimesPast
    <3>3. CASE req'[q] = Idle
      BY <1>1, <3>3 DEF Idle
    <3> QED BY <2>2, <3>1, <3>2, <3>3
  <2> QED BY <1>2, <2>1, <2>4 DEF TimesPast
<1>6. WindowsCounted'
  <2>1. admitted' = count'
    BY <1>2
  <2>2. CASE over /\ started = -1
    <3>1. windows' = 1 /\ started' = t
      BY <1>1, <1>2, <2>2 DEF WindowsCounted
    <3>2. Window * (windows' - 1) = 0
      BY <1>1, <3>1
    <3> QED BY <1>1, <2>1, <3>1, <3>2 DEF WindowsCounted
  <2>3. CASE over /\ started # -1
    <3>1. t - started >= Window
      BY <2>3 DEF Over
    <3>2. windows > 0 /\ Window * (windows - 1) <= started
      BY <2>3 DEF WindowsCounted
    <3>3. Window * (windows' - 1) <= started' /\ windows' > 0 /\ started' # -1
      BY <1>1, <1>2, <2>3, <3>1, <3>2, NextWindow
    <3> QED BY <2>1, <3>3 DEF WindowsCounted
  <2>4. CASE ~over
    <3>1. started # -1 /\ started' = started /\ windows' = windows
      BY <1>2, <2>4 DEF Over
    <3> QED BY <2>1, <3>1 DEF WindowsCounted
  <2> QED BY <2>2, <2>3, <2>4
<1> QED BY <1>4, <1>5, <1>6

\* The steps that leave the limiter alone.
LEMMA OtherInv ==
    ASSUME Inv, [Next]_vars, \A r \in Requests : ~Allow(r)
    PROVE  Inv'
<1> USE AttestationAssumption
<1>1. /\ \A q \in Requests : req[q] \in [at : Places, time : 0 .. MaxTime,
                                         state : 0 .. MaxTime, iat : 0 .. MaxTime]
      /\ now \in 0 .. MaxTime /\ started \in -1 .. MaxTime
  BY DEF Inv, TypeOK
<1>2. ASSUME NEW r \in Requests, Arrive(r)
      PROVE  Inv'
  <2>1. /\ req' = [req EXCEPT ![r] = [at |-> "limit", time |-> now,
                                       state |-> 0, iat |-> 0]]
        /\ UNCHANGED <<now, started, count, windows, admitted>>
    BY <1>2 DEF Arrive, Limiter
  <2>3. TypeOK'
    BY <1>1, <2>1 DEF Inv, TypeOK, Places
  <2>4. \A q \in Requests :
           \/ req'[q] = req[q]
           \/ req'[q] = [at |-> "limit", time |-> now, state |-> 0, iat |-> 0]
    BY <2>1 DEF Inv, TypeOK
  <2>5. TimesPast'
    BY <1>1, <2>1, <2>4 DEF Inv, TimesPast
  <2>6. WindowsCounted'
    BY <2>1 DEF Inv, WindowsCounted
  <2> QED BY <2>3, <2>5, <2>6 DEF Inv
<1>3. ASSUME NEW r \in Requests, Snapshot(r)
      PROVE  Inv'
  BY <1>1, <1>3 DEF Snapshot, Inv, Limiter, TypeOK, TimesPast, WindowsCounted, Idle, Places
<1>4. ASSUME NEW r \in Requests, Sign(r)
      PROVE  Inv'
  BY <1>1, <1>4 DEF Sign, Inv, IssuedAt, Limiter, TypeOK, TimesPast, WindowsCounted, Idle, Places
<1>5. ASSUME NEW r \in Requests, Respond(r)
      PROVE  Inv'
  BY <1>1, <1>5 DEF Respond, Inv, Limiter, TypeOK, TimesPast, WindowsCounted, Idle, Places
<1>6. CASE Tick
  BY <1>1, <1>6 DEF Tick, Inv, Limiter, TypeOK, TimesPast, WindowsCounted
<1>7. CASE UNCHANGED vars
  BY <1>7 DEF vars, Inv, TypeOK, TimesPast, WindowsCounted
<1> QED BY <1>2, <1>3, <1>4, <1>5, <1>6, <1>7 DEF Next

LEMMA StepInv == Inv /\ [Next]_vars => Inv'
<1> SUFFICES ASSUME Inv, [Next]_vars PROVE Inv'
  OBVIOUS
<1>1. CASE \E r \in Requests : Allow(r)
  BY <1>1, AllowInv
<1>2. CASE \A r \in Requests : ~Allow(r)
  BY <1>2, OtherInv
<1> QED BY <1>1, <1>2

\* The invariant bounds the budget by the windows that fit into the time gone.
LEMMA InvImpliesBudget == Inv => BudgetHolds
<1> SUFFICES ASSUME Inv PROVE BudgetHolds
  OBVIOUS
<1> USE DEF Inv
<1>1. /\ Limit \in Nat \ {0} /\ Window \in Nat \ {0} /\ MaxTime \in Nat
      /\ started \in -1 .. MaxTime /\ started <= now /\ now \in 0 .. MaxTime
      /\ windows \in Nat /\ admitted \in Nat /\ count \in 0 .. Limit
  BY AttestationAssumption DEF TypeOK, TimesPast
<1>2. admitted <= Limit
  BY <1>1 DEF WindowsCounted
<1>3. CASE started = -1
  BY <1>2, <1>3 DEF WindowsCounted, BudgetHolds
<1>4. CASE started # -1
  <2>1. windows > 0 /\ Window * (windows - 1) <= started
    BY <1>4 DEF WindowsCounted
  <2>2. Window * (windows - 1) \in Int
    BY <1>1
  <2> QED BY <1>1, <1>2, <2>1, <2>2 DEF BudgetHolds
<1> QED BY <1>3, <1>4

\* The limiter and the requests keep their types for any number of requests.
THEOREM TypeCorrect == Spec => []TypeOK
<1>1. Inv => TypeOK
  BY DEF Inv
<1> QED BY <1>1, InitInv, StepInv, PTL DEF Spec

\* README.md:140: the budget, whatever order requests reach the limiter in.
THEOREM Budget == Spec => []BudgetHolds
BY InitInv, StepInv, InvImpliesBudget, PTL DEF Spec

\* README.md:139: no attestation is dated after the state it attests.
THEOREM Dated == Spec => []DatedBeforeState
<1>1. Inv => DatedBeforeState
  BY DEF Inv, TimesPast, DatedBeforeState
<1> QED BY <1>1, InitInv, StepInv, PTL DEF Spec
=============================================================================
