---------------------------- MODULE Attestation ----------------------------
(***************************************************************************)
(* GET <prefix>/runtime-attestation of one provider: a fixed-window budget *)
(* in front of the signing key, and a signed statement about the state of  *)
(* the application.                                                        *)
(*                                                                         *)
(* A request reads the clock first and waits for the limiter's mutex and   *)
(* for the application's callback afterwards, so requests reach the        *)
(* limiter with times that are old and out of order.                       *)
(***************************************************************************)
EXTENDS Integers

CONSTANTS
    Requests,   \* requests served at the same time
    Window,     \* runtimeAttestationWindow
    Limit,      \* runtimeAttestationInstanceLimit
    MaxTime     \* bound on the clock; every moment is a state of the application

ASSUME AttestationAssumption ==
    /\ Window \in Nat \ {0} /\ Limit \in Nat \ {0}
    /\ MaxTime \in Nat

VARIABLES
    now,
    started,   \* runtimeAttestationWindowState.started, -1 for the zero time
    count,     \* runtimeAttestationWindowState.count
    req,       \* per request: where it is, the time it read, the state it attests
    windows,   \* history: windows started
    admitted   \* history: requests the limiter let through since the last one started

vars == <<now, started, count, req, windows, admitted>>
Limiter == <<started, count, windows, admitted>>

Places == {"idle", "limit", "snapshot", "sign", "signed"}
Idle == [at |-> "idle", time |-> 0, state |-> 0, iat |-> 0]

Init ==
    /\ now = 0
    /\ started = -1 /\ count = 0
    /\ req = [r \in Requests |-> Idle]
    /\ windows = 0 /\ admitted = 0

-----------------------------------------------------------------------------
\* now := time.Now(), before anything else.
Arrive(r) ==
    /\ req[r].at = "idle"
    /\ req' = [req EXCEPT ![r] = [at |-> "limit", time |-> now, state |-> 0, iat |-> 0]]
    /\ UNCHANGED <<now, Limiter>>

\* Bug: any time outside the window starts a new one, also one before it.
OverEitherWay(t) == started = -1 \/ t - started >= Window \/ t < started

\* "started.IsZero() || now.Sub(started) >= runtimeAttestationWindow"
Over(t) == started = -1 \/ t - started >= Window

\* "count >= runtimeAttestationInstanceLimit" refuses.
Admits(used) == used < Limit

\* runtimeAttestationLimiter.allow, under its mutex.
Allow(r) ==
    /\ req[r].at = "limit"
    /\ LET over == Over(req[r].time)
           used == IF over THEN 0 ELSE count
           past == IF over THEN 0 ELSE admitted
       IN  /\ started' = IF over THEN req[r].time ELSE started
           /\ windows' = IF over THEN windows + 1 ELSE windows
           /\ \/ /\ Admits(used)
                 /\ count' = used + 1
                 /\ admitted' = past + 1
                 /\ req' = [req EXCEPT ![r].at = "snapshot"]
              \/ /\ ~Admits(used)
                 /\ count' = used
                 /\ admitted' = past
                 /\ req' = [req EXCEPT ![r] = Idle]
    /\ UNCHANGED now

\* The nonce is refused, or RuntimeAttestationSnapshot returns the state of the
\* application as it is now, or fails.
Snapshot(r) ==
    /\ req[r].at = "snapshot"
    /\ \/ req' = [req EXCEPT ![r].at = "sign", ![r].state = now]
       \/ req' = [req EXCEPT ![r] = Idle]
    /\ UNCHANGED <<now, Limiter>>

\* Bug: the token is stamped when it is signed.
IssuedAtSigning(r) == now

IssuedAt(r) == req[r].time

\* signRuntimeAttestation; the key or the origin may be missing.
Sign(r) ==
    /\ req[r].at = "sign"
    /\ \/ req' = [req EXCEPT ![r].at = "signed", ![r].iat = IssuedAt(r)]
       \/ req' = [req EXCEPT ![r] = Idle]
    /\ UNCHANGED <<now, Limiter>>

Respond(r) ==
    /\ req[r].at = "signed"
    /\ req' = [req EXCEPT ![r] = Idle]
    /\ UNCHANGED <<now, Limiter>>

Tick ==
    /\ now < MaxTime
    /\ now' = now + 1
    /\ UNCHANGED <<Limiter, req>>

Next ==
    \/ \E r \in Requests : Arrive(r) \/ Allow(r) \/ Snapshot(r) \/ Sign(r) \/ Respond(r)
    \/ Tick

Spec == Init /\ [][Next]_vars

-----------------------------------------------------------------------------
TypeOK ==
    /\ now \in 0 .. MaxTime
    /\ started \in -1 .. MaxTime
    /\ count \in 0 .. Limit
    /\ req \in [Requests -> [at : Places, time : 0 .. MaxTime, state : 0 .. MaxTime,
                             iat : 0 .. MaxTime]]
    /\ windows \in Nat /\ admitted \in Nat

\* README.md:140: "a 120-request-per-minute budget owned by each provider
\* instance": however late and in whatever order requests reach the limiter, the
\* windows it starts are a full Window apart and none admits more than Limit,
\* whatever an earlier one left over.
BudgetHolds ==
    /\ windows > 0 => Window * (windows - 1) <= now
    /\ admitted <= Limit

\* A token is honoured for 60 seconds from its iat (README.md:139, "60-second
\* lifetime"), so it must not be dated after the state it attests was read,
\* however long the callback and the signature took: an attestation honoured
\* today never describes a state older than its lifetime.
DatedBeforeState ==
    \A r \in Requests : req[r].at = "signed" => req[r].iat <= req[r].state
=============================================================================
