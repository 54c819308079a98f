# Verification of pocketbase-ext-oauth2-mt

TLA+ models of the OAuth2/OIDC provider that this repository adds to PocketBase,
with TLC instances that model-check them and TLAPS proofs of theorems about them.

## 1. The system

The extension registers one or more *provider planes* in a PocketBase app (one per
path prefix). The protocol itself is run by `ory/fosite`, which calls the storage
of this repository. Everything durable is a PocketBase collection in SQLite.

| component | code | state | operations |
|---|---|---|---|
| refresh families and terminal authority | `storage.go`, `storage_session_model.go` | `_oauth2Refresh`, `_oauth2Access`, `_oauth2RefreshTombstone` | Get/Create/Delete/Rotate/Revoke of refresh and access sessions, `commitRefreshTerminalAuthority`, `mutateRefreshFamily` |
| clean-up job | `oauth2.go` 436-526 | the same tables, and all other expiring ones | hourly: delete expired rows, then expired tombstones |
| bearer validation | `strategy.go`, `middleware.go`, `access_authority.go` | reads access, refresh and tombstone rows | `ValidateAccessToken`, `RequireScopeAt`, `RevokedTokenGuardAt`, `ValidateAccessTokenAuthorityAt` |
| codes, PKCE, OpenID sessions | `storage.go` 75-123, 408-462 | `_oauth2AuthCode`, `_oauth2PKCE`, `_oauth2OpenID`, `_oauth2JTI` | create, get, invalidate, delete |
| interactions and consents | `storage_interactions.go`, `oauth2_auth.go`, `oauth2_login.go` | `_oauth2Interaction`, `_oauth2Consent` | create, find, consume; find and upsert |
| persisted keys | `params.go`, `crypto.go` | rows of `_params` | create, read, migrate by compare-and-swap, fingerprint |
| registration | `oauth2.go`, `instance.go`, `provider_prefix.go` | the app store and a package-level guard map | `Register`, `Deregister`, prefix list |
| clients | `storage_client_model.go`, `oauth2_register.go` | `_oauth2Client` | dynamic registration, lookup |
| runtime attestation | `runtime_attestation.go` | a limiter | one GET handler |
| discovery | `oauth2.go` 788-834, `instance.go` | `Instance.metadata`, the slice `ScopesSupported` | `RegisterProtectedResource`, the merge at bootstrap, two documents |
| claims, UI | `oauth2_userinfo.go`, `session.go`, `openid/`, `ui/` | none | userinfo validates twice; the rest are pure functions of a request or of the configuration |

How they interact. `/auth` stores an interaction; the login UI completes it, which
consumes it, records the consent and lets fosite store a code, a PKCE and an OpenID
session. `/token` exchanges the code once (its signature is entered in the JTI table)
and stores an access and, with offline access, a refresh session under the request id
of the grant. `/token` with a refresh token rotates it; `/revoke`, a replayed code and
a replayed refresh token take the family of the request down. Bearer checks read what
the others wrote. The hourly job deletes under all of them.

What makes it hard. There is no lock around a request: each storage call is a
statement or a transaction of its own, so handlers of several clients and the job
interleave between any two calls. A handler that fails or dies leaves what it has
committed. Rows expire while handlers run. The tombstone is the answer to all of this,
and its own removal is the most delicate step.

What correctness means, per component:

* refresh families: at most one live leaf per family; a spent token never works
  again; terminal authority is final, outlives what it governs and is followed by the
  removal of it; grants do not mix.
* bearer validation: nothing is granted under committed terminal authority.
* codes: one successful exchange per code; a replay revokes what the first produced; the
  rows an exchange needs live as long as the code.
* interactions: one completion per interaction; a code only for consented scopes;
  no consent lost.
* keys: all processes agree on one key; no migration makes a value unreadable.
* registration: one winner per prefix; a failed registration leaves no claim behind; no second
  plane beside rows of no plane.

## 2. Plan

Modules, in the order they were written, all done:

| module | models | abstract specification | runs |
|---|---|---|---|
| `RefreshFamily` | refresh, access and tombstone rows, their handlers, the hourly job | `TokenAuthority` | `race`, `expiry`, `live`, `reuse` |
| `Interaction` | pending logins, consents, `/login/complete` | `SingleUse` | `IX_complete` |
| `AuthCode` | code, PKCE, OpenID and JTI rows | | `AC_race` |
| `Params` | key material, envelopes, master-key rotation, crashes | | `PM_life` |
| `Registration` | the tables of `Register`, `DeregisterAt`, `Deregister` | | `CL_tables` |
| `Clients` | composes `Registration` with client creation and lookup | | `CL_planes` |
| `Bearer` | the four validation paths, query by query | | `BR_all` |
| `Discovery` | the advertised scopes and the documents made of them | | `DC_merge` |
| `Attestation` | the fixed-window limiter and the dating of a statement | | `AT_limit` |

The theorems are in modules of their own, one beside each component: `RefreshFamilyProofs`
(in six parts), `InteractionProofs`, `AuthCodeProofs`, `ParamsProofs`, `ClientsProofs` (which has
those about `Registration`), `BearerProofs`, `DiscoveryProofs` and `AttestationProofs`. A module
`MC...` has the model values of the runs of the module it extends.

Left: the validation of a single registration request.

## 3. RefreshFamily

### State

| variable | code |
|---|---|
| `refresh` | `_oauth2Refresh` by signature: request id, `family_id`, `status`, `parent_refresh_id`, `rotated_at`, `expires_at` |
| `access` | `_oauth2Access` by signature: request id, `expires_at` |
| `tomb` | `_oauth2RefreshTombstone` by request id: `family_id`, `expires_at` |
| `issued`, `used`, `codeAt` | which signatures were ever stored, when a code was spent (its JTI row) |
| `pc`, `job` | per running HTTP handler: its next storage call and its Go locals |
| `cron` | the locals of the clean-up job |
| `now` | `time.Now()` |
| `dead` | history: the requests for which a tombstone was ever committed |

### Actions

One action is one statement or one transaction of the storage:

* `GetTomb`, `GetCommit`, `GetFamily`: `GetRefreshTokenSession` (with `PresentRefresh`,
  its row read).
* `DeleteFind`, `DeleteRow`: `DeleteRefreshTokenSession`.
* `RevokeCommit`, `RevokeFamily`: `RevokeRefreshToken`.
* `AccessRead`, `AccessDelete`: `deleteSessionModelsByRequestID`, which is not a
  transaction: the rows are read, then deleted one by one.
* `RotateTomb`, `RotateCAS`, `RotateReread`, `RotateCommit`, `RotateFamily`:
  `RotateRefreshToken` and `markRefreshRotated`.
* `CreateAccess`, `CreateRefresh`: the two inserts, each with the checks inside its
  transaction.
* `PresentAccess`, `CheckTomb`, `CheckRows`: the access row and
  `assertRefreshFamilyAllowsAccess`, as used by bearer checks and by revocation.
* `Exchange`, `ReplayCode`: the environment, a code presented first and again.
* `CronStart` ... `CronEnd`: `registerCleanupJob` and
  `cleanupExpiredRefreshTombstones`, row by row.
* `Abort`: a storage call fails and rolls back, or the process dies; `Finish`: the reply.
* `Tick`: time.

The order of the calls within a handler is fosite's (v0.49, not part of the
repository): `GetAccepted`, `GetInactive`, `RevokeFailed` and `AccessFault` say what fosite
does next, and are marked external in `PROJECT.json`.

An operator with a comment "Bug:" is a mistake that a run must catch when it replaces the
definition that follows it; no definition uses it.

### Abstractions

* One provider prefix: every query of the storage is scoped by prefix (`Registration`
  and `Clients` have several).
* Sessions, scopes and clients of the rows are left out; only request id and expiry
  matter here.
* `rotated_at` is the number of refresh tokens issued so far: between two rotations of
  a request one is stored, so it orders rotations as the clock in microseconds does.
* A missing status is the value `"unset"` (the empty string in the table).
* Time is coarse. `PauseAssumption`: a handler ends before a tombstone that is written
  while it runs expires (24 hours in the code, HTTP time-outs are minutes).
* A tombstone's minimum expiry is computed just before its transaction in the code and
  in it here.
* `TokensLeft` bounds the tokens. A handler without a free signature waits there, which
  is why a run checks no progress of issuance.

### Properties

| property | says |
|---|---|
| `TypeOK` | types of tables and handlers |
| `OneLeafAuthority` | of all active rows and all handlers that have won a rotation (or a code exchange) and not yet stored its token, a request has at most one |
| `NoFork` | a refresh token has at most one successor |
| `OneAccessPerRequest` | rotation leaves no second access token |
| `OneFamilyPerRequest` | rows share a family exactly when they share a request, and the tombstone agrees |
| `SpentStaysSpent` | a rotated, reused or revoked row never becomes active, a terminal one never rotated |
| `InactiveMeansDead` | who is answered "inactive" finds the family under terminal authority |
| `NoGrantAfterDeath` | a check that begins after terminal authority never grants, unless its token expires meanwhile |
| `NoTokensAfterDeath` | a refresh that begins after terminal authority never ends with tokens |
| `TombCoversArtifacts` | a tombstone never expires before an artifact of its request |
| `DeadLeavesNothing` | when a tombstone is gone, so is everything of its request, for good |
| `DeadStaysDead` | no row is ever added to a dead request, also after its tombstone is gone |
| `DeadIsDismantled` | terminal authority is followed by the removal of active and access rows |

### What it implements

`TokenAuthority` is what a client may rely on: a grant has at most one working refresh
token, a token works once, and a dead grant never works again. The refinement mapping
calls a token *working* when its row is active and no tombstone covers its request, and
*spent* when it was issued and does not work. So the commit of a tombstone is the
abstract step `Kill`, whatever the rows still say, and the job that removes an expired
tombstone must be a stutter: when it is not, a dead grant is back. `ImplementsAuthority`
is checked in `expiry`, where that can happen.

### Runs

| run | instance | question |
|---|---|---|
| `race` | 2 requests, one from before family ids, 2 handlers, 3 + 2 tokens, exchange, refresh, code replay, bearer check, failures, no time | interleavings and partial failures; families do not mix |
| `expiry` | 1 request, 2 handlers, 2 + 2 tokens, lifetimes 0 and 1, clock 0..3, access-only grants too | expiry and clean-up under running handlers, also of the rows of a rotation under way; leaves; the refinement |
| `live` | 1 request, 2 handlers, 3 + 3 tokens, revocation and code replay, no failures, fairness | forks of a family with an ancestor, a predecessor and a leaf; dismantling |
| `reuse` | 1 request, clock 0..3 | a counterexample, see section 6 |

Why the bounds are enough: two handlers are the parties of every race the code handles
(winner and loser, refresh and revoke, check and revoke); three refresh tokens give a
family with an ancestor, a predecessor and a leaf; two requests, one without family id,
are what it takes to mix families. In `race` the family is revoked by a replayed code; the
revocation endpoint ends in the same calls and is in `expiry` and `live`, without failures.
(`race` with revocation as well was tried: 6.3 million states instead of 3.8, and no error; the
theorems of section 5 have all endpoints.) Lifetimes 0 and 1 against a clock of 3 let every row
and every tombstone expire while a handler is paused. Handlers are interchangeable, so
they are a symmetry set in the safety runs (not in `live`, where symmetry is unsound).

### Fairness

`LiveSpec` assumes weak fairness of the next storage call of each handler: fosite calls
the storage in sequence and no call waits for another handler. Nothing is assumed of
clients, of the job or of time. The run has no failures: with them a handler may end
after it committed the tombstone, and the rows stay until they expire (they are
covered by the tombstone meanwhile, `NoGrantAfterDeath`).

## 4. The other modules

In all of them an action is one statement, one transaction, one map operation or one
acquisition of a lock, and its guard holds the early returns. The lines of each
definition are in `PROJECT.json`, "map".

### Interaction

State: `row` is `_oauth2Interactions` by id, `consent` is `granted_scopes` of
`_oauth2Consents` by user and client, `codes` are the authorization codes a completion
got from fosite, `pc` and `job` are a `/login/complete` handler (a browser tab). History:
`asked`, `winner`, `denied`, `approved`.

Actions: `Authorize` is `/auth` up to the redirect to the login page; `Post` decodes the
body; `FindInteraction` and `Consume` are the two statements of `ConsumeInteractionAt`; `Decide`
is everything `api_OAuth2LoginComplete` then does without the database (decision, login
token, collection); `PriorConsent`, `UpsertFind` and `UpsertSave` are the consent;
`IssueCode` is fosite's answer; `Cleanup` the hourly job.

Properties: `ClaimedOnce` (the module implements `SingleUse`: of any number of tabs that
found the row one goes on, none after the clean-up took it), `DenialIsFinal`,
`CodeScopesApproved` (a code never holds a scope its user did not approve for that very client,
lost and concurrent upserts of the consent included; `ConsentWasApproved`, the same of a stored
consent, is a theorem only).

Run `IX_complete`: two interactions, two clients, one user, two tabs that approve or deny,
a lifespan of 0 on a clock of 1, failing calls. Two tabs on one interaction are the race
for it, two tabs on two interactions of one user the race for the consent; a second
client is what a consent can leak to. One scope is enough: the properties compare sets of
scopes with what was approved, and an unapproved scope is already one too many.

### AuthCode

State: `code`, `pkce`, `oidc`, `jti` are the four tables; `access`, `refresh`, `dead` say of
a code's request that it has tokens or a tombstone (their rows are `RefreshFamily`'s);
`enforcePKCE` is the configuration. History: `known`, `exchanges`, `unverified`, `replayed`, `failed`
(codes of whose requests a call failed).

Actions are the storage calls, named as in `storage.go`, in fosite's order (external): the
three creations of a login; `GetCode`, `CheckSpent`, `GetPKCERequestSession`,
`DeletePKCERequestSession`, the code and its JTI again, `InvalidateFind`, `InsertJTI`, the
tokens and the OpenID row of an exchange; `RevokeAccessToken`, `RevokeCommit`,
`RevokeRows` of a replay, which is answered as one whatever of these fails; `Cleanup` per
collection; `Abort` of any other failing call.

Properties: `ValidIsOnce` (while a code is valid one handler exchanges it), `SpentIsRemembered`, `VerifierRequired` (under `EnforcePKCE`,
which is the default; without it the hourly job that takes the challenge away takes the
requirement with it, section 6) and `ReplayLeavesNoRows` (when an exchange and the replay that
raced it are over, a request for offline access has no token row left, although the exchange
stores its tokens between the calls of the replay or after them). The last one leaves out
requests of which a call failed: section 6 has what a replay is worth then.

Run `AC_race`: one code with and without openid and offline access, two handlers, both
settings of `EnforcePKCE`, failing calls, a lifetime of 1 on a clock of 2. Two handlers are
winner and loser of an exchange, or an exchange and a replay, and the job runs beside
them; a third handler was tried on one set of scopes and showed nothing else (three
minutes, without pauses). `MaxPause` is 1: a handler may be paused until its code has expired and
the job has reaped the code and its JTI row, so that `InvalidateAuthorizeCodeSession` finds no row;
section 6 has what it does with an expired code then. Codes do not interact, so one is
enough.

### Params

State: `row` the parameters, `fp` and `ctx` the fingerprint and the envelope context id,
`stage` the operator's settings in turn, `set`, `pc`, `job`, `mem` the processes with the
settings each was started with and the values it loaded. A value is named by who
generated it and an envelope by master, context and writer; what cryptography does is
that an envelope opens with its master and its context and with nothing else.

Actions: `Boot` and `Stop` (an exit or a crash between any two queries), `Advance` (the
operator's next setting), and the queries of `loadParamFromAppStorageAt`:
`FingerprintRead`, `FingerprintInsert`, `FingerprintPromote`, `ContextRead`, `ContextInsert`,
`RowRead`, `RowInsert`, `Recover` (reading again after a lost insert) and `Rewrite` (the
compare-and-swap of migration and rewrap).

Properties: `OneValue`, `ValueStable`, `SealedUnderStoredContext`, `NoDowngrade`, `FingerprintFits` (a
master that seals rows is one the fingerprint has reached, or its settings also read the
fingerprint's master), `CurrentRingReads`, `EveryoneLoads`.

What the last four ask of the operator, as README 184-199 of the repository describes a rotation,
is stated in three operators. Old masters are older than the active one (`RotatesForward`); the
oldest are dropped first (`DropsOldestFirst`); a master is handed over to one other only
(`HandsOverOnce`, which that text does not ask for, and which only
`EveryoneLoads` needs). `MCParams` assumes them of the lives it has (`LifeAssumption`; the third
of `Life` only), and a theorem names those it needs. `FirstsAssumption` says what
databases a life begins with: envelopes of a version without context ids, bound to the data
directory, under a master that the fingerprint vouches for and the first settings read.

Run `PM_life`: two processes, one parameter, and a life from plaintext over encryption to
two rotations, begun on an empty database, on an old plaintext one and on one whose
envelope is still bound to the data directory, with failing updates and without. Each
process can be several settings behind the other. `Verified` is TRUE: an operator drops an
old master when no row needs it (section 6 has the other rule). Several parameters share
only the fingerprint and the context id, and each load reads those anew.

`LongLife` is a life with three rotations, at the second of which both old masters stay beside the
active one, as README 190 of the repository allows. There a promotion that lost its
compare-and-swap goes on with settings of another active master. It is no run of its own; with
`Stages <- LongLife` and all four keys TLC finds `FingerprintFits` true of it and `FingerprintLeads`
false, and the theorem `Fits` is about all such lives.

Fairness (`LiveSpec`): the next query of each process, or its next boot, is weakly fair: a load
runs to its end and a supervisor starts a failed process again. Crashes and the operator
are not fair. `EveryoneLoads` is stated for the behaviours
without failing updates: a promotion that fails every time never lets a process boot.

### Registration and Clients

State of `Registration`: `guard` (`registrationGuard`), `sentinel` and `instance` (two keys
of `app.Store()`), `tracked` (`registeredPrefixes`), `loaded` and `hooks` (instances whose
`loadParams` has run, or waits for `OnBootstrap`), `boot`, `legacy` (rows without
`provider_prefix` exist). `Clients` adds `rows` (`_oauth2Clients`), `bound` (how many hash
hooks a creation runs through), `routes` (planes whose handlers stay bound), `held`
(instances whose `inst.mu` was never released) and `req`, a request.

Actions: `Claim`, `SetSentinel`, `Gate` with its roll back, `SetInstance`, `RememberLoad`,
`RememberStore`, `Validate`, `Load` are `Register`; `Bootstrap` runs the waiting loads, last
bound first; `DropInstance`, `DropSentinel`, `DropGuard`, `Forget` are `DeregisterAt`, also
as the roll back of a failed `Register`; `ListPrefixes`, `ReleaseListed`, `DropTracked` are
`Deregister`. A request is `ArriveRegister`, `DefaultScope`, `DefaultAudience` (dynamic
registration), or `ArriveAdmin`; then `ResolvePlane`, `HashSecret`, `Insert`; or
`ArriveLookup`, `LegacyIncluded`, `Query` (`GetClient`).

Nothing keeps two calls for one prefix apart but the guard, and nothing keeps a `DeregisterAt` or a
`Deregister` from running beside a `Register`; the modules suppose nothing of the kind. The history
`crossed` has the registrations during which another call was releasing their prefix: a
`DeregisterAt`, a `Deregister`, or the roll back of another `Register`.

Properties: `OneWinner` (of the calls for one prefix one is past the guard, unless a release freed
it meanwhile), `NoOrphanGuard` (a claim belongs to a published instance or to a call at work,
whatever met, so no prefix is locked for good), `OneLoaderUnlessCrossed` and `LegacyReaderAlone` (beside
rows of no plane there is one plane in service, and while the default plane would read
them, no other: this is also what `LegacyIncluded` of a lookup relies on; a plane that was
registered while being released is excepted, and `LegacyHasOneLoader` in section 6 shows that it must be),
`SecretHashedOnce`.

Run `CL_tables`: two goroutines, each of which calls `Register`, `DeregisterAt` and `Deregister` for two
prefixes, the same or different ones, in any order, before and after the bootstrap; three
registrations in all, so that a prefix can be registered again and a third call can meet two
planes; with and without legacy rows; gates that refuse and loads that fail. Two goroutines are
the parties of every race between two operations on a table; the theorems are for any
number. Run `CL_planes`: one goroutine that may call all of these, and one request at a time, between any
two steps. Requests do not change the tables (`ClientsImplementsRegistration`).

### Bearer

State: the rows of one grant (`rows`, `leaf`, `terminal`, `tomb`), client and user, `expired`,
and `req`, a request with the list of its queries still to make. `covered` has the tokens whose
expiry the tombstone's is no earlier than: those with a row when it was committed. `Issue`, `Rotate`,
`CommitTerminal`, `CleanUpFamily`, `CronRows`, `CronTomb` say in one step each what
`RefreshFamily` has in many (`CronRows` deletes any part of the expired rows, for a delete may
fail; `CronTomb` removes the tombstone once what it covers has expired and no row is left); the
paths, `attest`, `guard`, `scope` and `userinfo`, are the subject and go query by query: `Begin`,
`Pass`, `Fail`, `Return`. That the rows change in no other way than this module supposes is
proved about `RefreshFamily` (section 5, part 6).

Properties: `AttestationWasLive` (the queries see different states, but all they attest
held at once when the request arrived), `PassedWasStanding` (no path lets through a token
of a grant that was terminal on arrival, also when the clean-up of its rows failed; a request
paused until the token expires and the tombstone is reaped can still pass),
`OnlyAccessTokensPass`. Run `BR_all`: one request (requests only read) against two access and
two refresh tokens, the refresh narrowing the scopes, and every kind of change.

### Discovery

State: the slice `ScopesSupported` as Go has it, the two words of `header` and in `heap` the arrays
so far, each with what was written into it; `mu` (`inst.mu`), `protected`, `pending` (what the
loop of `loadParams` has not come to, in any order since it ranges over a map), and per
reader the document it encodes. `Register` and `LoadParams` take the lock, `NextResource`
is a round of the loop. An append writes the element, into the array or into a new one
of twice the size, and then the changed words of the header, in either order.
`EveryScopeAdvertised` (a registration before, during or after `loadParams` is neither
lost nor left unmerged) and `CopyIsConsistent` (the copy made under the lock stays what it
was, although later appends write into the array it points to) are checked in `DC_merge`,
with two resources that share a scope, arrays that an append fills, and two readers.

### Attestation

State: `started` and `count` of the limiter and, per request, the time it read on arrival
(before it waits for the mutex), the state its callback read and the `iat` it signed.
`BudgetHolds`: windows start a full `Window` apart and none admits more than `Limit`, although
requests reach the limiter late and out of order (the histories `windows` and `admitted` count the
windows, and the requests let through since the last one began). `DatedBeforeState`: no statement
is dated after the state it attests. Run `AT_limit`: three requests, a budget of two, three
windows. Both properties are theorems as well.

## 5. Proofs

Every safety property, action property and refinement that a passing run checks is also a theorem, for every value of the constants that
satisfies the named assumptions of its module; where a theorem has a hypothesis besides, it is
named below. In each of these modules
`TypeCorrect` proves the type invariant, which the other theorems start from.

### Refresh families

All of this is in `RefreshFamilyProofs`, for every number of requests, tokens and handlers
and for every lifetime. Part 1, types and leaves:

* `TypeCorrect`: `Spec => []TypeOK`. The inductive invariant is `TInv`: `TypeOK` and, for
  a handler that has begun, that its request and, where it needs one, its signature are
  there (`HandlerOK`).
* `OneLeaf`: `Spec => []OneLeafAuthority`. The inductive invariant `LInv` adds that every
  row was issued (`RowsIssued`), that the row under a handler's signature belongs to the
  handler's request or is gone (`SigOfRequest`: a winner's right belongs to the request
  whose row it changed), that a request whose code is unspent has neither rows nor
  winners (`UnspentIsEmpty`: the exchange creates the first winner) and that an
  access-only exchange never stores a refresh token. Most steps store and revive no row
  and give no handler a right; `LInvKept` shows once that such steps keep `LInv`, and
  `StepKeeps` that all but three steps are of that kind. The UPDATE of a rotation moves
  the right from the row to the handler (`CASLeaf`), the INSERT moves it back
  (`CreateRefreshLeaf`), and an arriving exchange creates it (`ArriveLeaf`).

Part 2 is about the rows. Most steps leave a row, delete it or condemn it
(`RowStep`); only the UPDATE of a rotation spends one (`Spends`) and only the INSERT stores
one (`Stores`). `NextTable` shows this of every step, and the rest uses only that.

* `Spent`: `Spec => SpentStaysSpent`.
* `OneSuccessor`: `Spec => []NoFork`. A new row takes the row rotated last as its parent, so
  the inductive invariant `ForkInv` adds that a row is younger than its parent (`Descends`):
  were the parent a parent already, its child would be active, which the INSERT excludes,
  or rotated later than the parent.
* `OneFamily`: `Spec => []OneFamilyPerRequest`. Family ids are also held by handlers and
  tombstones, so `FamilyInv` says that whoever names a family names it for one request
  (`FamilyOwned`), that a row of before family ids is alone with its request
  (`LegacyAlone`), that the rows of a request agree (`SameFamily`) and their tombstone
  with them (`TombAgrees`).

Part 3 is about terminal authority: `Inactive`, `Covers`, `NothingLeft`,
`NoTokens`, `NoGrant` and `StaysDead` follow from one inductive invariant, `DeathInv`, for none
of these properties is inductive without the others. It adds:

* `DeathKnown`: a terminal row, a tombstone and a handler that has to answer "inactive"
  each imply that the tombstone was committed.
* `Timely`: no handler is older than `MaxPause`; `UnspentIsUntouched`: before its code is spent
  a request has nothing that could die.
* `Vigil`, the heart of it: for a handler on its way to store a token, should its request be
  dead, the tombstone is there and outlasts the handler. This is where `PauseAssumption` is
  used: a commit dates the tombstone at least `TombLife` ahead, so the job cannot remove it
  before the handler has met it and turned back. Without that assumption
  `DeadStaysDead` is false.
* `Checked`: a check that began after the commit meets the tombstone, or its token expired.

Part 4 proves `OneAccess`: `Spec => []OneAccessPerRequest`. The loop that deletes
the access rows is no transaction; `AccessInv` says that its list has every access row of the
request (`Cleared`), since nobody else inserts meanwhile (`OneInserter`, from `OneLeaf`: a
request has one winner), and that an exchange without offline access is alone with its
request (`AccessOnlyAlone`).

Part 5 proves `Implements`: `Spec => ImplementsAuthority`. The commit of a
tombstone maps to `Kill`; the UPDATE of a rotation, and the job's removal of an active row, to
`Spend`; the INSERT to `Issue`; every other step to a stutter. Two cases need `DeathInv`:
the removal of a tombstone is a stutter because no row is left by then, and an INSERT is
an `Issue` because the request is not dead.

Part 6 is what `Bearer` takes for granted of the tables. No run has these properties; TLC found
them true of instances like those of `race` and `expiry` before they were proved:

* `Grounds`: `Spec => []TerminalRowsHaveTomb`: a row is marked reused or revoked only while
  the tombstone is there, which outlasts it.
* `Lasts`: `Spec => TombLasts`: a tombstone stays and its expiry never moves back, until the job finds
  it expired and the request without rows.
* `StoredOnce`: `Spec => AccessOnlyOnce`: an access row appears for a signature never stored before
  and a request without a tombstone, and does not change until it is deleted.

All three follow from `DeathInv`; the last adds what each step does to the signatures ever stored
(`Records`).

### Interactions and codes

`InteractionProofs` proves all properties of `Interaction`, for any number of interactions,
tabs, users and clients:

* `Claimed`: `Spec => ClaimedOnce`, and `Denied`: `Spec => []DenialIsFinal`. Every step asks for an
  interaction, takes one, lets one lapse, or moves one tab (`NextClaims`). The inductive
  invariant `ClaimInv` says that a tab past the DELETE is the one that claimed the interaction
  (`Claim`), that a claimed row is gone (`ClaimedGone`), and that no tab is at work on an
  interaction that was denied or has its code (`Over`).
* `CodesApproved`, `ConsentsApproved`: what a tab past the consent check is about to grant and to
  store was approved (`Backed`), and approvals only grow.

`AuthCodeProofs` proves the invariants of `AuthCode`, for any number of codes and handlers.
`HandleFacts` says once what the twenty storage calls do to their handler (`Advances`) and to
the tables (`Writes`); the rest uses only that.

* `Challenged`: `Spec => []VerifierRequired`.
* `Remembered`: `Spec => []SpentIsRemembered`, and `OnceInTime`: `Spec => []ValidIsOnce`. Both hold for
  handlers of any duration up to a code's lifetime
  (`LoginAssumption`: a login delivers its code before the job could take the row). The
  inductive invariant `CodeInv` relates what a handler read of the code to the row
  (`Current`), and the row to its JTI row (`CodeOK`).
* `SweptUp`: `Spec => []ReplayLeavesNoRows`. The inductive invariant `SweepInv` adds that a replay is
  answered after its tombstone is there (`DeadFirst`), and that a row it left behind has a
  handler on the way that will take it (`Attended`): the exchange, whose next storage call meets the
  tombstone and deletes what it has stored, or the replay itself.

### Keys

`ParamsProofs` proves, for any number of processes and parameters and any life of the
master keys:

* `SameValue`: `Spec => []OneValue`, `SealedForAll`: `Spec => []SealedUnderStoredContext`, `Stable`:
  `Spec => ValueStable`. A step changes at most one row, by an insert where there was none
  or by a compare-and-swap (`RowStep`). The inductive invariant `Inv` adds what a
  process knows when it gets there (`Knows`): once past it, the context id it holds is the
  stored one; at the compare-and-swap the row has the value it read, in whatever
  envelope; and a row, once there, is never removed.
* `NoneDowngraded`: `RotatesForward /\ Spec => NoDowngrade`. A process swaps from a master of
  its keyring to its active one, and `Settled` says that every process runs with settings
  the operator once had.
* `DroppedStaysDropped`: `Verified /\ DropsOldestFirst /\ Spec => []CurrentRingReads`. A stale load
  may still seal a row under its own active master; `Settled` says that the current keyring
  has all that it could use, or that no row is in plaintext any more, so that it can only
  swap a row it can read, and `DropsOldestFirst` keeps what it writes readable.
* `Fits`: `RotatesForward /\ DropsOldestFirst /\ Spec => []FingerprintFits`, with any number of old masters
  and failing promotions. The inductive invariant `FitInv` says that a process past the fingerprint
  check runs with settings that suit the fingerprint (`Suits`): it is as new as their
  master, or they read it. The hard step is a promotion that loses its compare-and-swap and
  goes on. Whoever won read the same fingerprint and had it among its old masters, so one of
  the two settings came later, and as masters are dropped oldest first it reads the other's
  master (`SuitsStays`).

### Registration and clients

`ClientsProofs` is about `Clients` and the `Registration` in it, for any number of goroutines,
prefixes, requests and registrations.

* `ClientsImplementsRegistration`: `ClientsSpec => Spec`. What requests do is a stutter of the tables,
  so theorems about `Registration` hold in the composition.
* `TypeCorrect`: `Spec => []TypeOK`.
* `Winner`, `GuardHasOwner`, `OneLoader` and `ReaderAlone`: `ClientsSpec` implies `[]OneWinner`, `[]NoOrphanGuard`,
  `[]OneLoaderUnlessCrossed` and `[]LegacyReaderAlone`. There is no hypothesis about who calls what.
  No table can be relied on by itself, for a release may meet a `Register` at any point; the
  inductive invariant (`Inv`) says where a meeting leaves its traces. A `Register` that met no
  release owns its guard key (`Held`). The instance it published is counted among the prefixes until
  a release withdraws it first (`Kept`): a release that is past that point cannot be under way, or
  the two would have met. So an uncounted plane in service has met a release, and of the counted
  ones the gate lets one through beside legacy rows (`OneValid`). A claim has a number
  under which nothing was loaded yet (`Numbered`), and a guard key has an instance behind it or a
  call that will publish or free it, met or not (`Owned`).
* `HashedOnce`: `ClientsSpec => []SecretHashedOnce`: the plane of a request is fixed before its secret is
  hashed, and the hook is bound once whatever is registered again (`Hashed`).

### Bearer validation

`BearerProofs` proves, for any number of requests and tokens:

* `WasLive`: `Spec => []AttestationWasLive`, and `WasStanding`: `Spec => []PassedWasStanding`. The queries
  of a request are a suffix of the list its endpoint has (`Lined`). A request that
  should be refused has a cause that a query still to come will find (`Doomed` for
  attestations, `Fallen` for the others): the row is gone, or the tombstone covers the token, or
  the token has expired. Rows that are marked terminal are no cause of their own, since
  they have a tombstone, and it covers every access row (`Grounded`). A query that passed
  refutes the cause it looks for; and when the world removes a cause, as the job does with
  a tombstone, it leaves another that is looked for later: what the tombstone covered has
  expired by then. So the order of the queries is what the theorem rests on.
* `OnlyAccess`: `Spec => []OnlyAccessTokensPass`, since the query for the row, or the JWT, that only
  an access token passes comes before anything is granted (`Known`).

### Discovery

`DiscoveryProofs` proves, for any resources, readers and lists of scopes:

* `AllAdvertised`: `Spec => []EveryScopeAdvertised`. Between appends the header covers its whole
  array (`Whole`); an append has written its element before it changes a word of the header
  (`Leads`); so what was merged is in the array the writer goes by, and what was not is on
  its list or among `pending` (`Merged`).
* `CopyStays`: `Spec => []CopyIsConsistent`. Arrays are only ever extended beyond the header that
  was copied (`Copied`).

### Attestation

`AttestationProofs` proves, for any number of requests, window, limit and clock:

* `TypeCorrect`: the limiter's state keeps its type.
* `Budget`: `Spec => []BudgetHolds`. The inductive invariant (`Inv`) relates the histories to the
  limiter's two variables (`WindowsCounted`): the last window has admitted `count` requests, and it
  started no earlier than a `Window` after the one before. `NextWindow` is the arithmetic of the one
  step that touches it.
* `Dated`: `Spec => []DatedBeforeState`, from `TimesPast`: what a request read of the clock is
  never ahead of it, and it reads the state after it arrived.

### Model-checked only

`DeadIsDismantled` and `EveryoneLoads`, since liveness under fairness and ENABLED are out of the
prover's reach; and the counterexamples, of `reuse` and of section 6.

## 6. Divergences

One run ends in a counterexample; it is the finding of `PROJECT.json`.

* `reuse`: `storage.go` 321-326 promises that the replay of a spent token invalidates its family.
  When the hourly job deletes an expired predecessor between a rotation and the INSERT of
  its successor, the new row opens a family of its own; a handler that holds the old
  family is then refused by `commitRefreshTerminalAuthority`, and the replay it detected
  has no effect.

Other sentences of the documentation that the code does not keep came up while modelling.
No listed run checks them; the formula stands at the end of its module, and a cfg with the
constants below (the others as in the module's run) makes TLC refute it. Where the constants
break `LifeAssumption`, that line of `MCParams` has to go.

| formula | the sentence | what happens | constants |
|---|---|---|---|
| `LoserGetsSerializationFailure` | `storage.go` 704-705: the loser of a rotation gets `ErrSerializationFailure` | it gets `ErrInactiveToken` and the family dies | those of `live` |
| `RotationKeepsLineage` | `storage.go` 150-153: a rotation inherits the family | see `reuse` | those of `reuse` |
| `TerminalRowsKeptUntilExpiry` | `storage.go` 297-298: terminal rows are kept until they expire | find and delete are two steps; a row marked reused between them is deleted | those of `live`, 3 handlers, `Spec` |
| `MergesGrants` | `storage_interactions.go` 253: a consent is merged into the row | the later of two concurrent saves drops the other's scopes | 2 scopes, 1 client, `Returning = {u1}` |
| `UsableForLifespan` | `storage_interactions.go` 19-20: how long an interaction is usable | the expiry counts from the request's own `rat` | `Rats` with a positive offset, `MaxTime = 4` |
| `DenialFollowsRequest` | `storage_interactions.go` 25: a snapshot of the request | a denial goes to the client's first URI | 2 URIs |
| `AcrDecisionAccepted` | `storage_interactions.go` 43-45: `acr_unsatisfiable` may be posted | it is a bad request, and the interaction is consumed | that decision in `Decisions` |
| `CleanupTakesExpired` | README 203: the job cleans up expired sessions | PKCE and OpenID rows are stored with the zero time (`storage.go` 412, 439), so it removes those of valid codes: the exchange is then refused under `EnforcePKCE`, needs no verifier without it, and gets no ID token | those of `AC_race` |
| `ReplayKillsTokens` | none; what `ReplayLeavesNoRows` says without its condition | a replay whose revocation failed is answered like one that took effect (fosite), and the tokens of the code go on working | those of `AC_race` |
| `OpenIDGetsIDToken` | README 266: code flow with ID tokens | the job took the OpenID row; no ID token | `ScopeSets = {{"openid"}}` |
| `ReplayProtection` | README 215: JTI rows are there for replay protection | a handler paused past the code's expiry, until the job took code and JTI row, exchanges the code again | those of `AC_race` |
| `TouchedMeansRewrapped` | README 199: rows touched once no longer need the old master | the rewrap lost its compare-and-swap and is passed over | `Verified = FALSE`, a plaintext start, stages k1, k2 with k1 old, k2 alone |
| `FingerprintLeads` | README 190, 197: old masters may be several, and a load updates the fingerprint to the active key | a process still on k2 promotes k1 to k2; the promotion of k1 to k3 loses and is passed over (`params.go` 263-270), and rows are sealed under k3 while the fingerprint says k2: with k3 alone nothing boots | `Stages <- LongLife`, all four keys |
| `LegacyHasOneLoader` | `provider_prefix.go` 45-47: several providers are rejected beside rows of no plane | the roll back of a failed `Register` frees the guard (`oauth2.go` 728) before it forgets the prefix (729); another goroutine's `Register` of it enters the prefix in between, the roll back takes it out, and the gate of a second prefix counts one too few | those of `CL_tables` |
| `RegisteredIsTracked` | `oauth2.go` 296-297: prefixes are tracked so that `Deregister` finds them all | `Deregister` drops the whole set at the end (715), a prefix registered since it listed them included: the instance stays published and claimed, and no later `Deregister` lists it | those of `CL_tables` |
| `SentinelFollowsGuard` | `oauth2.go` 257-258: the sentinel is kept for external code | a refused `Register` frees the guard first and then removes the next winner's sentinel | those of `CL_tables` |
| `RegisterAgainReturns` | `oauth2.go` 704-705: `Register` may be called again, handlers stay bound | a bound handler panics under `inst.mu.RLock`; the new load waits for ever | those of `CL_planes` |
| `DocumentListsScopes` | `instance.go` 133-134: callers hold `inst.mu` | `openid-configuration` is encoded after the lock is gone | those of `DC_merge` |

## 7. Deadlock

TLC's deadlock check is off where the system really stops: `AC_race` (the code
was used and the clock is at its bound) and the runs of `Registration` and `Clients` (the
registrations the bound allows are made and released, or the bootstrap failed, which ends the
process).

## 8. Not modelled

See `components` in `PROJECT.json`.

* Migrations run before any handler; the rows they leave (no family, status or plane) and
  the unique indexes are in the initial states and in the inserts.
* The claims inside an ID token, the JSON form of values, the fields of a discovery
  document other than the scopes, and the metadata a client registers are computed from one
  request or from the configuration and share no state.
* The validation of one dynamic registration (redirect URIs, the initial access token);
  updates of a client record (the hashing hook is bound to creations, an update stores what
  it is given).
* The login UI, the examples and the plugin wiring: what a browser posts is the environment
  of `Interaction`.
* fosite, PocketBase and SQLite are external: the order of fosite's calls, transactions and
  unique indexes are taken as the code in `src/` uses them.
