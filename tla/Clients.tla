------------------------------ MODULE Clients ------------------------------
(***************************************************************************)
(* OAuth clients while providers come and go: the collection               *)
(* _oauth2Clients, shared by every plane of an app, and what writes and    *)
(* reads it --                                                             *)
(*                                                                         *)
(*   /register       api_OAuth2Register, NewClientFromRFC7591MetadataAt    *)
(*   the dashboard   an administrator creates a record                     *)
(*   GetClient       with the rows of older versions, which name no plane  *)
(*                                                                         *)
(* Every creation runs through the hook of registerClientSecretHashHook.   *)
(* The steps of Register and DeregisterAt are those of Registration; a     *)
(* request meets them between any two of its own. HTTP handlers stay bound *)
(* when their plane is deregistered.                                       *)
(***************************************************************************)
EXTENDS Registration

CONSTANTS
    Requests,   \* requests served at the same time
    Fresh,      \* client ids made by uuid.New, each once
    Chosen,     \* client ids an administrator types in
    NoPlane,    \* an empty provider_prefix
    Old,        \* the id of the client an older version registered
    Faults      \* TRUE when the hasher may fail

ASSUME ClientsAssumption ==
    /\ NoPlane \notin Prefixes
    /\ Fresh \intersect Chosen = {} /\ Old \notin Fresh \union Chosen
    /\ Faults \in BOOLEAN

VARIABLES
    rows,     \* _oauth2Clients; hashed: the planes whose hasher the secret went through
    bound,    \* handlers bound to OnRecordCreate of the collection
    routes,   \* planes whose HTTP handlers are bound
    held,     \* instances whose inst.mu a request read-locked and never released
    req       \* per request: where it is and what it has found out

clientVars == <<rows, bound, routes, held, req>>

Ids == Fresh \union Chosen \union {Old}
Rows == [id : Ids, plane : Prefixes \union {NoPlane}, hashed : Seq(Prefixes)]
Idle == [at |-> "idle", route |-> NoPlane, plane |-> NoPlane, id |-> Old, hashed |-> <<>>,
         passes |-> 0, legacy |-> FALSE, found |-> {}, reply |-> "none"]
Places == {"idle", "scope", "audience", "resolve", "hash", "insert", "allowed", "query",
           "answered"}
Replies == {"none", "panic", "error", "conflict", "created", "notfound", "found"}

\* A row of an older version was hashed then, by the only provider there was.
ClientsInit ==
    /\ Init
    /\ rows = IF legacy THEN {[id |-> Old, plane |-> NoPlane, hashed |-> <<DefaultPrefix>>]} ELSE {}
    /\ bound = 0
    /\ routes = {}
    /\ held = {}
    /\ req = [k \in Requests |-> Idle]

Set(k, r) == req' = [req EXCEPT ![k] = r]
Answer(k, reply) == Set(k, [req[k] EXCEPT !.at = "answered", !.reply = reply])
Pending(k, place) == req[k].at = place

\* app.Save: the create hook runs once per handler bound.
Save(r) == [r EXCEPT !.at = "resolve", !.passes = bound]

-----------------------------------------------------------------------------
\* Dynamic registration.

\* What OnServe bound serves on, whatever became of the plane.
ArriveRegister(k) ==
    /\ boot = "up" /\ Pending(k, "idle")
    /\ \E p \in routes, scoped \in BOOLEAN,
          i \in Fresh \ ({r.id : r \in rows} \union {req[j].id : j \in Requests}) :
         Set(k, [Idle EXCEPT !.at = IF scoped THEN "audience" ELSE "scope",
                             !.route = p, !.plane = p, !.id = i])
    /\ UNCHANGED <<vars, rows, bound, routes, held>>

\* No scope in the request: the scopes the instance advertises, read under
\* inst.mu. mustGetInstanceAt panics without an instance; an instance that has no
\* metadata yet makes the read panic, and the RUnlock behind it never runs.
DefaultScope(k) ==
    LET i == instance[req[k].plane] IN
    /\ Pending(k, "scope")
    /\ IF i \in loaded THEN Set(k, [req[k] EXCEPT !.at = "audience"]) ELSE Answer(k, "panic")
    /\ held' = IF i = 0 \/ i \in loaded THEN held ELSE held \union {i}
    /\ UNCHANGED <<vars, rows, bound, routes>>

\* The default audience is the issuer of the instance that is there by now.
DefaultAudience(k) ==
    /\ Pending(k, "audience")
    /\ IF instance[req[k].plane] = 0 THEN Answer(k, "panic") ELSE Set(k, Save(req[k]))
    /\ UNCHANGED <<vars, rows, bound, routes, held>>

-----------------------------------------------------------------------------
\* Administrators (the API of PocketBase; external).

ArriveAdmin(k) ==
    /\ boot = "up" /\ bound > 0 /\ Pending(k, "idle")
    /\ \E p \in Prefixes \union {NoPlane}, i \in Chosen :
         Set(k, Save([Idle EXCEPT !.plane = p, !.id = i]))
    /\ UNCHANGED <<vars, rows, bound, routes, held>>

-----------------------------------------------------------------------------
\* The hook of registerClientSecretHashHook.

\* A record without plane gets the default one when it is the only one.
ResolvePlane(k) ==
    LET r == req[k] IN
    /\ Pending(k, "resolve")
    /\ \/ r.plane # NoPlane /\ Set(k, [r EXCEPT !.at = "hash"])
       \/ /\ r.plane = NoPlane /\ LegacyDefaultAllowed
          /\ Set(k, [r EXCEPT !.at = "hash", !.plane = DefaultPrefix])
       \/ r.plane = NoPlane /\ ~LegacyDefaultAllowed /\ Answer(k, "error")
    /\ UNCHANGED <<vars, rows, bound, routes, held>>

\* The hasher is that of the plane's instance; a failure aborts the creation.
HashSecret(k) ==
    LET r == req[k] IN
    /\ Pending(k, "hash")
    /\ \/ /\ instance[r.plane] # 0
          /\ Set(k, [r EXCEPT !.at = IF r.passes > 1 THEN "resolve" ELSE "insert",
                              !.passes = @ - 1, !.hashed = Append(@, r.plane)])
       \/ /\ instance[r.plane] = 0 \/ Faults
          /\ Answer(k, "error")
    /\ UNCHANGED <<vars, rows, bound, routes, held>>

\* The INSERT; the unique index is on provider_prefix and client_id.
Insert(k) ==
    LET r == req[k]
        taken == \E old \in rows : old.id = r.id /\ old.plane = r.plane
    IN  /\ Pending(k, "insert")
        /\ rows' = IF taken THEN rows
                   ELSE rows \union {[id |-> r.id, plane |-> r.plane, hashed |-> r.hashed]}
        /\ Answer(k, IF taken THEN "conflict" ELSE "created")
        /\ UNCHANGED <<vars, bound, routes, held>>

-----------------------------------------------------------------------------
\* GetClient of a plane's store, for any of its endpoints.

ArriveLookup(k) ==
    /\ boot = "up" /\ Pending(k, "idle")
    /\ \E p \in routes, i \in Ids :
         Set(k, [Idle EXCEPT !.at = "allowed", !.route = p, !.plane = p, !.id = i])
    /\ UNCHANGED <<vars, rows, bound, routes, held>>

\* providerPrefixExp: whether rows without plane are included is decided before
\* the query runs.
LegacyIncluded(k) ==
    /\ Pending(k, "allowed")
    /\ Set(k, [req[k] EXCEPT !.at = "query",
                 !.legacy = req[k].plane = DefaultPrefix /\ LegacyDefaultAllowed])
    /\ UNCHANGED <<vars, rows, bound, routes, held>>

Matches(r) ==
    {old \in rows : /\ old.id = r.id
                    /\ old.plane = r.plane \/ (r.legacy /\ old.plane = NoPlane)}

Query(k) ==
    LET r == req[k] IN
    /\ Pending(k, "query")
    /\ \/ Matches(r) = {} /\ Answer(k, "notfound")
       \/ \E old \in Matches(r) :
            Set(k, [r EXCEPT !.at = "answered", !.reply = "found", !.found = {old}])
    /\ UNCHANGED <<vars, rows, bound, routes, held>>

Done(k) ==
    /\ Pending(k, "answered")
    /\ Set(k, Idle)
    /\ UNCHANGED <<vars, rows, bound, routes, held>>

-----------------------------------------------------------------------------
\* The steps of Registration, with what they do to the rest.

\* Bug: every Register binds a handler of its own.
BindHookStacked == bound' = bound + 1

\* Binding the stable id again replaces the handler.
BindHook == bound' = 1

\* OnServe, once the app is bootstrapped.
Serve == routes' = IF boot' = "up" THEN {p \in Prefixes : instance[p] # 0} ELSE routes

\* loadParams publishes the metadata under inst.mu.
LoadLocked(c) == Load(c) /\ (loaded' # loaded => inst[c] \notin held)

Manage ==
    /\ \/ \E c \in Callers : RememberStore(c) /\ BindHook /\ UNCHANGED <<rows, routes, held, req>>
       \/ Bootstrap /\ Serve /\ UNCHANGED <<rows, bound, held, req>>
       \/ /\ \E c \in Callers :
               \/ \E p \in Prefixes : Claim(c, p) \/ StartRelease(c, p)
               \/ SetSentinel(c) \/ Gate(c) \/ GateFreesGuard(c) \/ GateFreesSentinel(c)
               \/ SetInstance(c) \/ RememberLoad(c) \/ Validate(c) \/ LoadLocked(c)
               \/ DropInstance(c) \/ DropSentinel(c) \/ DropGuard(c) \/ Forget(c)
               \/ ListPrefixes(c) \/ ReleaseListed(c) \/ DropTracked(c)
          /\ UNCHANGED clientVars
    /\ Record

Request(k) ==
    \/ ArriveRegister(k) \/ DefaultScope(k) \/ DefaultAudience(k)
    \/ ArriveAdmin(k) \/ ResolvePlane(k) \/ HashSecret(k) \/ Insert(k)
    \/ ArriveLookup(k) \/ LegacyIncluded(k) \/ Query(k) \/ Done(k)

ClientsNext == Manage \/ (\E k \in Requests : Request(k))

ClientsSpec == ClientsInit /\ [][ClientsNext]_<<vars, clientVars>>

-----------------------------------------------------------------------------
\* "Binding the stable id again replaces the handler instead of stacking another
\* hash pass when a second provider is registered" (oauth2.go): however many
\* planes came and went, a created client's secret went once through a hasher,
\* its own plane's, so the secret that was answered still authenticates.
SecretHashedOnce ==
    \A r \in rows : r.plane # NoPlane => r.hashed = <<r.plane>>

-----------------------------------------------------------------------------
\* What the documentation says and the code does not do. No listed run checks
\* these; the README tells how TLC refutes each.

\* oauth2.go:704: "After Deregister, Register may be called again on the same app
\* value. HTTP handlers ... remain bound": a Register that loads its keys gets
\* the lock of its instance.
RegisterAgainReturns == \A c \in Callers : At(c, "load") => inst[c] \notin held
=============================================================================
