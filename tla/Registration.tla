---------------------------- MODULE Registration ----------------------------
(***************************************************************************)
(* Registration of provider prefixes on one PocketBase app: Register,      *)
(* DeregisterAt and Deregister of oauth2.go with the four process-wide     *)
(* tables they keep, none of which is updated together with another:       *)
(*                                                                         *)
(*   guard     registrationGuard, a sync.Map keyed by (app, prefix)        *)
(*   sentinel  app.Store(), the key registeringStoreKey(prefix)            *)
(*   instance  app.Store(), the key instanceStoreKey(prefix)               *)
(*   tracked   registeredPrefixes, one sync.Map of prefixes per app        *)
(*                                                                         *)
(* A caller is a goroutine; each of its steps is one operation on one of   *)
(* the tables. An instance is known by the number of the Register call     *)
(* that made it, 0 stands for no instance.                                 *)
(***************************************************************************)
EXTENDS Naturals, Sequences, FiniteSets

CONSTANTS
    Callers,          \* goroutines; each may call Register, for any prefix
    Prefixes,         \* normalized path prefixes
    DefaultPrefix,    \* DefaultPathPrefix
    Releases,         \* the callers that call DeregisterAt
    Clears,           \* the callers that call Deregister
    LegacyRows,       \* the values that "rows without provider_prefix exist" can have
    MaxRegistrations  \* bound: the number of claims the guard grants

ASSUME RegistrationAssumption ==
    /\ DefaultPrefix \in Prefixes
    /\ Releases \subseteq Callers
    /\ Clears \subseteq Callers
    /\ LegacyRows \subseteq BOOLEAN
    /\ MaxRegistrations \in Nat

VARIABLES
    guard, sentinel, instance, tracked,
    loaded,    \* instances whose loadParams has succeeded
    hooks,     \* instances whose loadParams waits for OnBootstrap, oldest first
    boot,      \* "before", "up" or "failed"
    legacy,    \* some row has no provider_prefix; never changes, new rows are tagged
    claims,    \* Register calls that won the guard so far
    pc, prefix, inst,   \* of a caller: where it is, and its arguments
    listed,    \* prefixes Deregister has listed and not yet released
    stale,     \* callers whose reference to the set of prefixes was dropped
    crossed    \* history: Register calls another call released the prefix beside

vars == <<guard, sentinel, instance, tracked, loaded, hooks, boot, legacy, claims,
          pc, prefix, inst, listed, stale, crossed>>

Stages == {"idle", "sentinel", "gate", "gateGuard", "gateSentinel", "instance", "rememberLoad",
           "rememberStore", "validate", "load", "dropInstance", "dropSentinel",
           "dropGuard", "forget", "clear"}

Init ==
    /\ guard = {} /\ sentinel = {} /\ tracked = {}
    /\ instance = [p \in Prefixes |-> 0]
    /\ loaded = {} /\ hooks = <<>> /\ boot = "before"
    /\ legacy \in LegacyRows
    /\ claims = 0
    /\ pc = [c \in Callers |-> "idle"]
    /\ prefix = [c \in Callers |-> DefaultPrefix]
    /\ inst = [c \in Callers |-> 0]
    /\ listed = [c \in Callers |-> {}]
    /\ stale = {}
    /\ crossed = {}

Goto(c, stage) == pc' = [pc EXCEPT ![c] = stage]
At(c, stage) == pc[c] = stage
Running == boot # "failed"
Args == <<prefix, inst, listed>>
World == <<loaded, hooks, boot, legacy>>

\* A Register past its claim, and a call that takes entries of its prefix out of
\* guard, instance or tracked; Deregister takes those of every prefix.
Registering(c) ==
    pc[c] \in {"sentinel", "gate", "gateGuard", "instance", "rememberLoad", "rememberStore",
              "validate", "load"}
Releasing(c) == pc[c] \in {"gateGuard", "dropInstance", "dropSentinel", "dropGuard", "forget"}
Clearing(c) == At(c, "clear") \/ listed[c] # {}

\* The Register calls beside which another call is releasing their prefix. Nothing
\* in the code keeps the two apart; `crossed' only records that they met.
Crossings ==
    {inst[d] : d \in {d \in Callers :
        /\ Registering(d)
        /\ \E c \in Callers \ {d} :
              Clearing(c) \/ (Releasing(c) /\ prefix[c] = prefix[d])}}

Record == crossed' = crossed \union Crossings'

-----------------------------------------------------------------------------

\* Bug: the guard is asked and the claim entered without asking again.
ClaimUnchecked(c, p) ==
    /\ Running /\ At(c, "idle")
    /\ claims < MaxRegistrations
    /\ guard' = guard \union {p}
    /\ claims' = claims + 1
    /\ prefix' = [prefix EXCEPT ![c] = p]
    /\ inst' = [inst EXCEPT ![c] = claims + 1]
    /\ Goto(c, "sentinel")
    /\ UNCHANGED <<sentinel, instance, tracked, World, listed, stale>>

\* Register: registrationGuard.LoadOrStore. A caller that finds the key returns
\* an error and has done nothing, which is a stuttering step.
Claim(c, p) ==
    /\ Running /\ At(c, "idle")
    /\ claims < MaxRegistrations
    /\ p \notin guard
    /\ guard' = guard \union {p}
    /\ claims' = claims + 1
    /\ prefix' = [prefix EXCEPT ![c] = p]
    /\ inst' = [inst EXCEPT ![c] = claims + 1]
    /\ Goto(c, "sentinel")
    /\ UNCHANGED <<sentinel, instance, tracked, World, listed, stale>>

SetSentinel(c) ==
    /\ At(c, "sentinel")
    /\ sentinel' = sentinel \union {prefix[c]}
    /\ Goto(c, "gate")
    /\ UNCHANGED <<guard, instance, tracked, World, claims, Args, stale>>

\* The safety gate of dynamic client registration looks at the configuration
\* of the call: it lets the call go on, or refuses it.
Gate(c) ==
    /\ At(c, "gate")
    /\ \E next \in {"instance", "gateGuard"} : Goto(c, next)
    /\ UNCHANGED <<guard, sentinel, instance, tracked, World, claims, Args, stale>>

\* Bug: the refused call keeps its claim.
GateKeepsGuard(c) ==
    /\ At(c, "gateGuard")
    /\ Goto(c, "gateSentinel")
    /\ UNCHANGED <<guard, sentinel, instance, tracked, World, claims, Args, stale>>

GateFreesGuard(c) ==
    /\ At(c, "gateGuard")
    /\ guard' = guard \ {prefix[c]}
    /\ Goto(c, "gateSentinel")
    /\ UNCHANGED <<sentinel, instance, tracked, World, claims, Args, stale>>

GateFreesSentinel(c) ==
    /\ At(c, "gateSentinel")
    /\ sentinel' = sentinel \ {prefix[c]}
    /\ Goto(c, "idle")
    /\ UNCHANGED <<guard, instance, tracked, World, claims, Args, stale>>

SetInstance(c) ==
    /\ At(c, "instance")
    /\ instance' = [instance EXCEPT ![prefix[c]] = inst[c]]
    /\ Goto(c, "rememberLoad")
    /\ UNCHANGED <<guard, sentinel, tracked, World, claims, Args, stale>>

-----------------------------------------------------------------------------
(* rememberRegisteredPrefix: LoadOrStore of the app's set, then Store into it.
   A Deregister between the two drops the set the caller holds. *)
RememberLoad(c) ==
    /\ At(c, "rememberLoad")
    /\ stale' = stale \ {c}
    /\ Goto(c, "rememberStore")
    /\ UNCHANGED <<guard, sentinel, instance, tracked, World, claims, Args>>

\* The app is not bootstrapped yet: loadParams is bound to OnBootstrap and the
\* call returns; a bootstrapped app runs it now.
AfterRemember(c) ==
    IF boot = "before"
      THEN Goto(c, "idle") /\ hooks' = Append(hooks, inst[c])
      ELSE Goto(c, "validate") /\ hooks' = hooks

RememberStore(c) ==
    /\ At(c, "rememberStore")
    /\ tracked' = IF c \in stale THEN tracked ELSE tracked \union {prefix[c]}
    /\ AfterRemember(c)
    /\ UNCHANGED <<guard, sentinel, instance, loaded, boot, legacy, claims, Args, stale>>

-----------------------------------------------------------------------------
\* validateProviderPrefixState refuses several providers beside legacy rows.
PrefixStateValid == Cardinality(tracked) < 2 \/ ~legacy

\* Bug: the state is validated before the database is asked for legacy rows.
ValidateSkipped(c) ==
    /\ At(c, "validate")
    /\ Goto(c, "load")
    /\ UNCHANGED <<guard, sentinel, instance, tracked, World, claims, Args, stale>>

Validate(c) ==
    /\ At(c, "validate")
    /\ Goto(c, IF PrefixStateValid THEN "load" ELSE "dropInstance")
    /\ UNCHANGED <<guard, sentinel, instance, tracked, World, claims, Args, stale>>

\* The keys and the provider of the instance; module Params models the loads,
\* which may fail. Then the serve hook is bound and Register returns.
Load(c) ==
    /\ At(c, "load")
    /\ \/ loaded' = loaded \union {inst[c]} /\ Goto(c, "idle")
       \/ loaded' = loaded /\ Goto(c, "dropInstance")
    /\ UNCHANGED <<guard, sentinel, instance, tracked, hooks, boot, legacy, claims, Args, stale>>

(* OnBootstrap: every hook calls e.Next() first, so the one bound last loads
   first, and after the first failure no other one loads: `n' of them succeed.
   The program registers its providers before it starts the app, so no call is
   in flight. A failed bootstrap ends the process. *)
Bootstrap ==
    /\ boot = "before"
    /\ \A c \in Callers : At(c, "idle")
    /\ \E n \in 0 .. (IF PrefixStateValid THEN Len(hooks) ELSE 0) :
         /\ loaded' = {hooks[i] : i \in (Len(hooks) - n + 1) .. Len(hooks)}
         /\ boot' = IF n = Len(hooks) THEN "up" ELSE "failed"
    /\ hooks' = <<>>
    /\ UNCHANGED <<guard, sentinel, instance, tracked, legacy, claims, pc, Args, stale>>

-----------------------------------------------------------------------------
(* DeregisterAt, of a failed Register, of a caller, or of Deregister's loop. *)
StartRelease(c, p) ==
    /\ Running /\ At(c, "idle") /\ c \in Releases
    /\ prefix' = [prefix EXCEPT ![c] = p]
    /\ Goto(c, "dropInstance")
    /\ UNCHANGED <<guard, sentinel, instance, tracked, World, claims, inst, listed, stale>>

\* Bug: the instance stays in app.Store() when its prefix is released.
DropInstanceNever(c) ==
    /\ At(c, "dropInstance")
    /\ Goto(c, "dropSentinel")
    /\ UNCHANGED <<guard, sentinel, instance, tracked, World, claims, Args, stale>>

DropInstance(c) ==
    /\ At(c, "dropInstance")
    /\ instance' = [instance EXCEPT ![prefix[c]] = 0]
    /\ Goto(c, "dropSentinel")
    /\ UNCHANGED <<guard, sentinel, tracked, World, claims, Args, stale>>

DropSentinel(c) ==
    /\ At(c, "dropSentinel")
    /\ sentinel' = sentinel \ {prefix[c]}
    /\ Goto(c, "dropGuard")
    /\ UNCHANGED <<guard, instance, tracked, World, claims, Args, stale>>

DropGuard(c) ==
    /\ At(c, "dropGuard")
    /\ guard' = guard \ {prefix[c]}
    /\ Goto(c, "forget")
    /\ UNCHANGED <<sentinel, instance, tracked, World, claims, Args, stale>>

\* forgetRegisteredPrefix, and the next prefix of the loop of Deregister.
Forget(c) ==
    /\ At(c, "forget")
    /\ tracked' = tracked \ {prefix[c]}
    /\ Goto(c, IF listed[c] = {} THEN "idle" ELSE "clear")
    /\ listed' = [listed EXCEPT ![c] = @ \ {prefix[c]}]
    /\ UNCHANGED <<guard, sentinel, instance, World, claims, prefix, inst, stale>>

-----------------------------------------------------------------------------
(* Deregister: list the prefixes, release each, then drop the whole set with
   registeredPrefixes.Delete(app). The Range of listRegisteredPrefixes is taken
   as one read. *)
ListPrefixes(c) ==
    /\ Running /\ At(c, "idle") /\ c \in Clears
    /\ listed' = [listed EXCEPT ![c] = tracked]
    /\ Goto(c, "clear")
    /\ UNCHANGED <<guard, sentinel, instance, tracked, World, claims, prefix, inst, stale>>

ReleaseListed(c) ==
    /\ At(c, "clear")
    /\ \E p \in listed[c] : prefix' = [prefix EXCEPT ![c] = p]
    /\ Goto(c, "dropInstance")
    /\ UNCHANGED <<guard, sentinel, instance, tracked, World, claims, inst, listed, stale>>

DropTracked(c) ==
    /\ At(c, "clear") /\ listed[c] = {}
    /\ tracked' = {}
    /\ stale' = stale \union {d \in Callers : At(d, "rememberStore")}
    /\ Goto(c, "idle")
    /\ UNCHANGED <<guard, sentinel, instance, World, claims, Args>>

-----------------------------------------------------------------------------
Call(c) ==
    \/ SetSentinel(c) \/ Gate(c) \/ GateFreesGuard(c) \/ GateFreesSentinel(c)
    \/ SetInstance(c) \/ RememberLoad(c) \/ RememberStore(c)
    \/ Validate(c) \/ Load(c)
    \/ DropInstance(c) \/ DropSentinel(c) \/ DropGuard(c) \/ Forget(c)
    \/ ReleaseListed(c) \/ DropTracked(c)

Next ==
    /\ \/ Bootstrap
       \/ \E c \in Callers :
            \/ \E p \in Prefixes : Claim(c, p) \/ StartRelease(c, p)
            \/ ListPrefixes(c)
            \/ Call(c)
    /\ Record

Spec == Init /\ [][Next]_vars

-----------------------------------------------------------------------------
TypeOK ==
    /\ guard \subseteq Prefixes /\ sentinel \subseteq Prefixes /\ tracked \subseteq Prefixes
    /\ instance \in [Prefixes -> 0 .. MaxRegistrations]
    /\ loaded \subseteq 1 .. MaxRegistrations
    /\ hooks \in Seq(1 .. MaxRegistrations)
    /\ boot \in {"before", "up", "failed"}
    /\ legacy \in BOOLEAN
    /\ claims \in 0 .. MaxRegistrations
    /\ pc \in [Callers -> Stages]
    /\ prefix \in [Callers -> Prefixes]
    /\ inst \in [Callers -> 0 .. MaxRegistrations]
    /\ listed \in [Callers -> SUBSET Prefixes]
    /\ stale \subseteq Callers
    /\ crossed \subseteq 1 .. MaxRegistrations

\* The plane of a prefix is published and has its keys.
Serves(p) == instance[p] \in loaded

\* legacyDefaultAllowed(app, DefaultPathPrefix): queries of the default plane
\* return rows without provider_prefix too.
LegacyDefaultAllowed == tracked = {DefaultPrefix}

\* "Concurrent Register() calls on the same (app, prefix) collapse to one winner"
\* (oauth2.go): two calls are past the guard for one prefix only when a third, a
\* DeregisterAt, a Deregister or a roll back, released the prefix under one of them.
OneWinner ==
    \A c, d \in Callers :
        c # d /\ Registering(c) /\ Registering(d) /\ prefix[c] = prefix[d]
            => inst[c] \in crossed \/ inst[d] \in crossed

\* "Roll back the registrationGuard claim so a corrected config can re-attempt
\* registration without restarting the process" (oauth2.go): whichever calls meet
\* on a prefix and in whatever order their deletes come, a key left in the guard
\* belongs to a published instance or to a call that is still at work on the prefix.
NoOrphanGuard ==
    \A p \in guard :
        \/ instance[p] # 0
        \/ \E c \in Callers : prefix[c] = p /\ pc[c] \notin {"idle", "clear"}

\* Of two planes in service beside legacy rows, which validateProviderPrefixState
\* is there to refuse, one was registered while another call released its prefix:
\* failing loads, roll backs and releases of other planes never let a second one in.
OneLoaderUnlessCrossed ==
    legacy => \A p, q \in Prefixes :
        Serves(p) /\ Serves(q) /\ p # q => instance[p] \in crossed \/ instance[q] \in crossed

\* "A sole default provider may continue reading legacy rows" (provider_prefix.go):
\* whenever a query of the default plane would include them, no other plane is in
\* service, one that was registered while its prefix was being released excepted.
\* The tables are updated one by one, so a plane that is being set up or torn down
\* could be in service and not counted.
LegacyReaderAlone ==
    LegacyDefaultAllowed =>
        \A p \in Prefixes : Serves(p) => p = DefaultPrefix \/ instance[p] \in crossed

-----------------------------------------------------------------------------
\* What the documentation says and the code does not do. No listed run checks
\* these; the README tells how TLC refutes each.

\* validateProviderPrefixState "rejects a multi-provider app if any persistent
\* OAuth row predates provider attestation" (provider_prefix.go): with such rows
\* no two planes are in service. The roll back of a failed Register frees the guard
\* before it takes the prefix out of the set the validation counts: a Register of
\* another goroutine can enter the prefix in between and is then not counted.
LegacyHasOneLoader ==
    legacy => \A p, q \in Prefixes : Serves(p) /\ Serves(q) => p = q

\* "Track which prefixes have been registered on this app so Deregister can clean
\* them all up without external bookkeeping" (oauth2.go): a published prefix nobody
\* is at work on is in the set Deregister lists. A Deregister drops the whole set,
\* the prefix registered since it listed included.
RegisteredIsTracked ==
    \A p \in Prefixes :
        instance[p] # 0 =>
            \/ p \in tracked
            \/ \E c \in Callers : prefix[c] = p /\ ~At(c, "idle")

\* "Keep the legacy sentinel in app.Store() too" (oauth2.go): when no call for a
\* prefix is in flight, the sentinel is there exactly when the guard is held.
SentinelFollowsGuard ==
    \A p \in Prefixes :
        (\A c \in Callers : prefix[c] = p => At(c, "idle"))
            => (p \in sentinel <=> p \in guard)
=============================================================================
