------------------------------- MODULE Params ------------------------------
(***************************************************************************)
(* The persisted key material of a provider: rows of PocketBase's _params  *)
(* table, in plaintext or in envelopes sealed under a master key, with the *)
(* master-key fingerprint and the envelope context id kept next to them.   *)
(* Several processes boot on one database and load the values; each query  *)
(* is one action.  The operator restarts processes with new master keys,   *)
(* stage by stage, and processes crash and are restarted.                  *)
(***************************************************************************)
EXTENDS Integers, Sequences, FiniteSets

CONSTANTS
  Procs,     \* processes (plugin bootstraps) on one database
  Names,     \* the names of the parameters, in the order they are loaded
  Keys,      \* master keys; also their fingerprints
  NoKey,     \* no master key; an absent fingerprint
  None,      \* an absent value, context id or process
  Stages,    \* the operator's settings in turn: active master and old masters
  Firsts,    \* what the first boot may find: rows by name, fingerprint, stage
  Verified,  \* TRUE: old masters are dropped when the rows do not need them;
             \* FALSE: when every row was loaded once under the new master
  Faults     \* whether an update may fail: a set of BOOLEANs, one is chosen
ASSUME ParamsAssumption ==
  /\ Len(Names) > 0
  /\ NoKey \notin Keys /\ None \notin Procs \cup {"dir"}
  /\ Verified \in BOOLEAN /\ Faults \subseteq BOOLEAN

Settings == [active : Keys \cup {NoKey}, old : SUBSET Keys]
ASSUME StagesAssumption == Len(Stages) > 0 /\ Stages \in Seq(Settings)

\* The ids of parameter rows.
Ids == {Names[i] : i \in 1..Len(Names)}
ASSUME NamesAssumption == Names \in Seq(Ids)

\* The masters that the settings of a stage can read.
Ring(s) == Stages[s].old \cup ({Stages[s].active} \ {NoKey})

\* How far a row's protection has come: no row, plaintext, and the masters in
\* the order the stages bring them in.
Before(k) == {s \in 1..Len(Stages) : \A r \in 1..s : Stages[r].active # k}
Rank(k) == IF \E s \in 1..Len(Stages) : Stages[s].active = k THEN Cardinality(Before(k)) + 1
                                                           ELSE 0

(* What the properties below ask of the operator, as README.md:184-199 describes
   a rotation. Old masters are older than the active one; ... *)
RotatesForward ==
  \A s \in 1..Len(Stages) : \A k \in Stages[s].old : Rank(k) <= Rank(Stages[s].active)

\* ... the oldest are dropped first: settings that still read one master of an
\* earlier stage read the active one of that stage too; ...
DropsOldestFirst ==
  \A s, t \in 1..Len(Stages) :
    s < t /\ Ring(s) \cap Ring(t) # {} => Stages[s].active \in Ring(t) \cup {NoKey}

\* More than README.md asks for, and what EveryoneLoads needs: a master is handed
\* over to one other only.
HandsOverOnce ==
  \A s, t \in 1..Len(Stages) :
    Stages[s].old \cap Stages[t].old # {} => Stages[s].active = Stages[t].active

VARIABLES
  row,      \* the rows of the parameters
  fp,       \* the fingerprint row
  ctx,      \* the envelope context id row
  stage,    \* the operator's current settings
  set,      \* the settings each running process was started with
  pc,       \* the next query of each process
  job,      \* the local state of each process
  mem,      \* the values each process has loaded
  touched,  \* history: rows loaded under the current stage's active master
  faulty    \* the choice of Faults

vars == <<row, fp, ctx, stage, set, pc, job, mem, touched, faulty>>

-----------------------------------------------------------------------------
\* A context id is named by the process that generated it ("dir" is the data
\* directory, which older envelopes were bound to), a value by the process that
\* generated it ("old" is a value of before), the nonce by who sealed it.
CtxIds == Procs \cup {"dir"}
Values == Procs \cup {"old"}
NoRow == [kind |-> "absent", val |-> None, key |-> NoKey, kid |-> NoKey,
          ctx |-> None, by |-> None]
Plain(v) == [NoRow EXCEPT !.kind = "plain", !.val = v]

\* sealEnvelope.
Sealed(v, key, c, p) ==
  [kind |-> "env", val |-> v, key |-> key, kid |-> key, ctx |-> c, by |-> p]

Row == [kind : {"absent", "plain", "env"}, val : Values \cup {None},
        key : Keys \cup {NoKey}, kid : Keys \cup {NoKey},
        ctx : CtxIds \cup {None}, by : Procs \cup {None, "old"}]

PCs == {"down", "fpread", "fpinsert", "fpcas", "ctxread", "ctxinsert", "rowread",
        "rowinsert", "recover", "rewrite", "failed", "up"}

\* at: index of the parameter being loaded; fp, ctx, seen: what was read.
Job == [at : 1..Len(Names), fp : Keys \cup {NoKey}, ctx : CtxIds \cup {None}, seen : Row]
NoJob == [at |-> 1, fp |-> NoKey, ctx |-> None, seen |-> NoRow]

\* A database the first boot may find: its envelopes, of a version without context
\* ids, are bound to the data directory, under a master that its fingerprint
\* vouches for and that the operator's settings can read.
FirstsAssumption ==
  \A first \in Firsts :
    /\ first.row \in [Ids -> Row]
    /\ first.fp \in Keys \cup {NoKey}
    /\ first.stage \in 1..Len(Stages)
    /\ \A n \in Ids :
         /\ first.row[n].kind = "absent" => first.row[n] = NoRow
         /\ first.row[n].kind = "env" =>
              /\ first.row[n].ctx = "dir"
              /\ first.row[n].key \in Ring(first.stage)
              /\ first.fp # NoKey /\ Rank(first.row[n].key) <= Rank(first.fp)
ASSUME FirstsAssumption

TypeOK ==
  /\ row \in [Ids -> Row]
  /\ fp \in Keys \cup {NoKey}
  /\ ctx \in CtxIds \cup {None}
  /\ stage \in 1..Len(Stages)
  /\ set \in [Procs -> Settings]
  /\ pc \in [Procs -> PCs]
  /\ job \in [Procs -> Job]
  /\ mem \in [Procs -> [Ids -> Values \cup {None}]]
  /\ touched \subseteq Ids
  /\ faulty \in BOOLEAN

Init ==
  /\ \E first \in Firsts :
       row = first.row /\ fp = first.fp /\ stage = first.stage
  /\ ctx = None
  /\ faulty \in Faults
  /\ set = [p \in Procs |-> Stages[stage]]
  /\ pc = [p \in Procs |-> "down"]
  /\ job = [p \in Procs |-> NoJob]
  /\ mem = [p \in Procs |-> [n \in Ids |-> None]]
  /\ touched = {}

Active(p) == set[p].active
\* The keyring of envMasterKeyProvider: the active master and the old ones.
Keyring(p) == set[p].old \cup ({set[p].active} \ {NoKey})
Id(p) == Names[job[p].at]

Goto(p, label) == pc' = [pc EXCEPT ![p] = label]
Fail(p) == Goto(p, "failed") /\ UNCHANGED <<job, mem, touched>>

\* Where the load of a parameter starts: plaintext mode reads the row at once.
Entry(p) == IF Active(p) = NoKey THEN "rowread" ELSE "fpread"

\* The load returns v; the bootstrap goes on with the next parameter.
Return(p, v) ==
  /\ mem' = [mem EXCEPT ![p][Id(p)] = v]
  /\ touched' = IF set[p] = Stages[stage] THEN touched \cup {Id(p)} ELSE touched
  /\ IF job[p].at = Len(Names)
     THEN Goto(p, "up") /\ job' = [job EXCEPT ![p] = NoJob]
     ELSE Goto(p, Entry(p)) /\ job' = [job EXCEPT ![p] = [NoJob EXCEPT !.at = job[p].at + 1]]

-----------------------------------------------------------------------------
\* verifyOrWriteFingerprint.

\* Bug: a fingerprint that is not the active one is promoted without asking the
\* keyring.
FingerprintReadPromotes(p) ==
  /\ pc[p] = "fpread"
  /\ Goto(p, IF fp = NoKey THEN "fpinsert" ELSE IF fp = Active(p) THEN "ctxread" ELSE "fpcas")
  /\ job' = [job EXCEPT ![p].fp = fp]
  /\ UNCHANGED <<row, fp, ctx, stage, set, mem, touched, faulty>>

\* Bug: only the active master's fingerprint is accepted, not an old one's.
FingerprintReadIgnoresOld(p) ==
  /\ pc[p] = "fpread"
  /\ IF fp = NoKey THEN Goto(p, "fpinsert") /\ UNCHANGED <<job, mem, touched>>
     ELSE IF fp = Active(p) THEN Goto(p, "ctxread") /\ UNCHANGED <<job, mem, touched>>
     ELSE Fail(p)
  /\ UNCHANGED <<row, fp, ctx, stage, set, faulty>>

FingerprintRead(p) ==
  /\ pc[p] = "fpread"
  /\ \/ fp = NoKey /\ Goto(p, "fpinsert") /\ UNCHANGED <<job, mem, touched>>
     \/ fp = Active(p) /\ Goto(p, "ctxread") /\ UNCHANGED <<job, mem, touched>>
     \/ /\ fp \in Keyring(p) \ {Active(p)}
        /\ Goto(p, "fpcas")
        /\ job' = [job EXCEPT ![p].fp = fp]
        /\ UNCHANGED <<mem, touched>>
     \/ fp \notin Keyring(p) \cup {NoKey} /\ Fail(p)
  /\ UNCHANGED <<row, fp, ctx, stage, set, faulty>>

\* The first run with encryption records the fingerprint; who loses the insert
\* fails its load, also with the same master.
FingerprintInsert(p) ==
  /\ pc[p] = "fpinsert"
  /\ IF fp = NoKey
     THEN fp' = Active(p) /\ Goto(p, "ctxread") /\ UNCHANGED <<job, mem, touched>>
     ELSE Fail(p) /\ UNCHANGED fp
  /\ UNCHANGED <<row, ctx, stage, set, faulty>>

\* Promotion to the active master by compare-and-swap; a lost swap and a failed
\* update are both passed over.
FingerprintPromote(p) ==
  /\ pc[p] = "fpcas"
  /\ \/ fp' = IF fp = job[p].fp THEN Active(p) ELSE fp
     \/ faulty /\ UNCHANGED fp
  /\ Goto(p, "ctxread")
  /\ UNCHANGED <<row, ctx, stage, set, job, mem, touched, faulty>>

-----------------------------------------------------------------------------
\* getOrCreateEnvelopeContext.

ContextRead(p) ==
  /\ pc[p] = "ctxread"
  /\ Goto(p, IF ctx = None THEN "ctxinsert" ELSE "rowread")
  /\ job' = [job EXCEPT ![p].ctx = ctx]
  /\ UNCHANGED <<row, fp, ctx, stage, set, mem, touched, faulty>>

\* Bug: the loser of the insert goes on with the id it generated itself.
ContextInsertKeepsOwn(p) ==
  /\ pc[p] = "ctxinsert"
  /\ ctx' = IF ctx = None THEN p ELSE ctx
  /\ Goto(p, "rowread")
  /\ job' = [job EXCEPT ![p].ctx = p]
  /\ UNCHANGED <<row, fp, stage, set, mem, touched, faulty>>

\* Who loses the insert reads the row again; it never changes once it is there.
ContextInsert(p) ==
  /\ pc[p] = "ctxinsert"
  /\ ctx' = IF ctx = None THEN p ELSE ctx
  /\ Goto(p, "rowread")
  /\ job' = [job EXCEPT ![p].ctx = ctx']
  /\ UNCHANGED <<row, fp, stage, set, mem, touched, faulty>>

-----------------------------------------------------------------------------
\* loadParamFromAppStorageAt.

\* openEnvelopeWithKeyring: the master named by kid or else any of the keyring,
\* under the context id or the data directory.
Opens(p, r) == r.key \in Keyring(p) /\ r.ctx \in {job[p].ctx, "dir"}
NeedsRewrap(p, r) ==
  r.key # Active(p) \/ r.kid \notin {Active(p), NoKey} \/ r.ctx # job[p].ctx

RowRead(p) ==
  LET r == row[Id(p)] IN
  /\ pc[p] = "rowread"
  /\ \/ /\ r.kind = "absent"
        /\ Goto(p, "rowinsert") /\ UNCHANGED <<job, mem, touched>>
     \/ /\ r.kind = "plain" /\ Active(p) = NoKey
        /\ Return(p, r.val)
     \/ /\ r.kind = "plain" /\ Active(p) # NoKey
        /\ Goto(p, "rewrite") /\ job' = [job EXCEPT ![p].seen = r] /\ UNCHANGED <<mem, touched>>
     \/ /\ r.kind = "env" /\ (Active(p) = NoKey \/ ~Opens(p, r))
        /\ Fail(p)
     \/ /\ r.kind = "env" /\ Active(p) # NoKey /\ Opens(p, r) /\ ~NeedsRewrap(p, r)
        /\ Return(p, r.val)
     \/ /\ r.kind = "env" /\ Active(p) # NoKey /\ Opens(p, r) /\ NeedsRewrap(p, r)
        /\ Goto(p, "rewrite") /\ job' = [job EXCEPT ![p].seen = r] /\ UNCHANGED <<mem, touched>>
  /\ UNCHANGED <<row, fp, ctx, stage, set, faulty>>

\* What p stores for value v.
Stored(p, v) == IF Active(p) = NoKey THEN Plain(v) ELSE Sealed(v, Active(p), job[p].ctx, p)

\* Bug: the row is saved over whatever is there.
RowInsertOverwrites(p) ==
  /\ pc[p] = "rowinsert"
  /\ row' = [row EXCEPT ![Id(p)] = Stored(p, p)]
  /\ Return(p, p)
  /\ UNCHANGED <<fp, ctx, stage, set, faulty>>

\* Bug: the loser of the insert uses the value it generated.
RowInsertKeepsOwn(p) ==
  /\ pc[p] = "rowinsert"
  /\ row' = [row EXCEPT ![Id(p)] = IF @ = NoRow THEN Stored(p, p) ELSE @]
  /\ Return(p, p)
  /\ UNCHANGED <<fp, ctx, stage, set, faulty>>

\* Generate a value and insert it; the primary key refuses a second row.
RowInsert(p) ==
  /\ pc[p] = "rowinsert"
  /\ IF row[Id(p)] = NoRow
     THEN row' = [row EXCEPT ![Id(p)] = Stored(p, p)] /\ Return(p, p)
     ELSE Goto(p, "recover") /\ UNCHANGED <<row, job, mem, touched>>
  /\ UNCHANGED <<fp, ctx, stage, set, faulty>>

\* loadDecodedParam on the winner's row; it rewraps nothing.
Recover(p) ==
  LET r == row[Id(p)] IN
  /\ pc[p] = "recover"
  /\ \/ (r.kind = "plain" \/ (Active(p) # NoKey /\ Opens(p, r))) /\ Return(p, r.val)
     \/ r.kind = "env" /\ (Active(p) = NoKey \/ ~Opens(p, r)) /\ Fail(p)
  /\ UNCHANGED <<row, fp, ctx, stage, set, faulty>>

\* Bug: the rewritten value is saved without comparing the row with what was read.
RewriteBlind(p) ==
  /\ pc[p] = "rewrite"
  /\ row' = [row EXCEPT ![Id(p)] = Stored(p, job[p].seen.val)]
  /\ Return(p, job[p].seen.val)
  /\ UNCHANGED <<fp, ctx, stage, set, faulty>>

\* updateParamValueCAS, for the migration of a plaintext row and the rewrap of an
\* envelope: a lost swap and a failed update are logged and passed over.
Rewrite(p) ==
  LET seen == job[p].seen IN
  /\ pc[p] = "rewrite"
  /\ \/ row' = [row EXCEPT ![Id(p)] = IF @ = seen THEN Stored(p, seen.val) ELSE @]
     \/ faulty /\ UNCHANGED row
  /\ Return(p, seen.val)
  /\ UNCHANGED <<fp, ctx, stage, set, faulty>>

-----------------------------------------------------------------------------
\* Processes and the operator (external).

Boot(p) ==
  /\ pc[p] \in {"down", "failed"}
  /\ set' = [set EXCEPT ![p] = Stages[stage]]
  /\ Goto(p, IF Stages[stage].active = NoKey THEN "rowread" ELSE "fpread")
  /\ job' = [job EXCEPT ![p] = NoJob]
  /\ mem' = [mem EXCEPT ![p] = [n \in Ids |-> None]]
  /\ UNCHANGED <<row, fp, ctx, stage, touched, faulty>>

\* A process stops, in the middle of a load or to be restarted.
Stop(p) ==
  /\ pc[p] # "down"
  /\ Goto(p, "down")
  /\ job' = [job EXCEPT ![p] = NoJob]
  /\ mem' = [mem EXCEPT ![p] = [n \in Ids |-> None]]
  /\ UNCHANGED <<row, fp, ctx, stage, set, touched, faulty>>

\* Masters that the next settings cannot read any more.
Dropped(s) == (Ring(s) \ Ring(s + 1)) # {}

\* The operator goes to the next settings, keeping every master until its rows
\* are done with it.
Advance ==
  /\ stage < Len(Stages)
  /\ Dropped(stage) =>
       IF Verified
       THEN \A n \in Ids : row[n].kind = "env" /\ row[n].key \in Ring(stage + 1)
       ELSE touched = Ids
  /\ stage' = stage + 1
  /\ touched' = {}
  /\ UNCHANGED <<row, fp, ctx, set, pc, job, mem, faulty>>

Load(p) ==
  \/ FingerprintRead(p) \/ FingerprintInsert(p) \/ FingerprintPromote(p)
  \/ ContextRead(p) \/ ContextInsert(p)
  \/ RowRead(p) \/ RowInsert(p) \/ Recover(p) \/ Rewrite(p)

Next ==
  \/ \E p \in Procs : Load(p) \/ Boot(p) \/ Stop(p)
  \/ Advance

\* A load runs to its end, a process that failed is started again.
Fairness == \A p \in Procs : WF_vars(Load(p) \/ Boot(p))

Spec == Init /\ [][Next]_vars
LiveSpec == Spec /\ Fairness

-----------------------------------------------------------------------------
\* Properties.

\* All processes use the same key material, and it is what the row holds: the
\* loser of a creation race adopts the winner's value and nobody overwrites it.
OneValue ==
  \A p \in Procs, n \in Ids : mem[p][n] # None => row[n].val = mem[p][n]

\* The value of a row survives every migration, rewrap and crash.
ValueStable ==
  [][\A n \in Ids : row[n].kind # "absent" => row'[n].val = row[n].val]_row

\* updateParamValueCAS: a loader with older settings never puts a row back to
\* plaintext or under an older master after another loader moved it on.
NoDowngrade ==
  [][\A n \in Ids : row[n].kind = "env" =>
       row'[n].kind = "env" /\ Rank(row[n].key) <= Rank(row'[n].key)]_row

\* The fingerprint row guards the sealed rows, also when several old masters stand
\* beside the active one and promotions lose their compare-and-swap or fail: the
\* settings a row was sealed under read the fingerprint's master too, unless the
\* fingerprint has moved on past the row, so a restart with them is not refused by
\* verifyOrWriteFingerprint.
FingerprintFits ==
  \A n \in Ids : row[n].kind = "env" =>
    /\ fp # NoKey
    /\ \/ Rank(row[n].key) <= Rank(fp)
       \/ \E s \in 1..Len(Stages) : Stages[s].active = row[n].key /\ fp \in Ring(s)

\* Masters dropped by the operator once the rows were verified not to need them
\* stay unneeded, whatever loads with older settings are still under way.
CurrentRingReads ==
  \A n \in Ids : row[n].kind = "env" => row[n].key \in Ring(stage)

\* Every envelope is sealed under the stored context id, or still under the data
\* directory, so any process with its master can open it.
SealedUnderStoredContext ==
  \A n \in Ids : row[n].kind = "env" => row[n].ctx \in {ctx, "dir"}

\* Every process that keeps being started ends up with the key material: a lost
\* insert of the fingerprint or a rotation under way only delays it (when
\* promotions do not fail and a master is handed over to one other only).
EveryoneLoads ==
  \A p \in Procs : (~faulty /\ pc[p] # "down" ~> pc[p] \in {"up", "down"})

-----------------------------------------------------------------------------
\* What the documentation says and the code does not do. No listed run checks
\* these; the README tells how TLC refutes each.

\* README.md:199: "Once every encrypted row has been touched once after the
\* rotation, OAUTH2_MASTER_KEY_OLD can be removed".
TouchedMeansRewrapped ==
  \A n \in Ids : row[n].kind = "env" => row[n].key \in Ring(stage)

\* README.md:197: a load "Updates the fingerprint sentinel to the active key", so no
\* row is sealed under a master the fingerprint has not reached, when promotions do
\* not fail.
FingerprintLeads ==
  ~faulty =>
  \A n \in Ids : row[n].kind = "env" => fp # NoKey /\ Rank(row[n].key) <= Rank(fp)
=============================================================================
