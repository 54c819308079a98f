---------------------------- MODULE ParamsProofs ----------------------------
(***************************************************************************)
(* What Params promises of the key material, for any number of processes   *)
(* and parameters and for any life of the master keys.                     *)
(*                                                                         *)
(* A step changes at most one row, by an insert or by a compare-and-swap   *)
(* (RowStep); what makes that safe is what a process knows when it gets    *)
(* there (Knows): the context id, once it has read or written it, and that *)
(* the row it is about to swap still holds the value it read.              *)
(***************************************************************************)
EXTENDS Params, FiniteSetTheorems, TLAPS

\* Places at which a load runs under a master key, and those at which the
\* fingerprint has been dealt with, or the context id.
Encrypting == {"fpread", "fpinsert", "fpcas", "ctxread", "ctxinsert"}
AtRow == {"rowread", "rowinsert", "recover", "rewrite"}

\* A row that is not there has none of the other fields, an envelope has a context.
RowsClean ==
  \A n \in Ids : /\ row[n].kind = "absent" => row[n] = NoRow
                 /\ row[n].kind = "env" => row[n].ctx # None

\* What a process knows at the place it has reached.
Knows(p) ==
  /\ pc[p] \in Encrypting => Active(p) # NoKey
  /\ pc[p] \in AtRow /\ Active(p) # NoKey => ctx # None /\ job[p].ctx = ctx
  /\ pc[p] = "recover" => row[Id(p)].kind # "absent"
  /\ pc[p] = "rewrite" =>
       /\ Active(p) # NoKey /\ job[p].seen.kind # "absent"
       /\ job[p].seen.kind = "env" => job[p].seen.key \in Keyring(p)
       /\ row[Id(p)].kind # "absent" /\ row[Id(p)].val = job[p].seen.val

Inv == TypeOK /\ RowsClean /\ (\A p \in Procs : Knows(p)) /\ OneValue
       /\ SealedUnderStoredContext

-----------------------------------------------------------------------------
\* Types.

LEMMA Numbered ==
    /\ Len(Names) \in Nat \ {0}
    /\ \A i \in 1..Len(Names) : Names[i] \in Ids
    /\ Len(Stages) \in Nat \ {0}
    /\ \A s \in 1..Len(Stages) :
         /\ Stages[s] \in Settings
         /\ Stages[s].active \in Keys \cup {NoKey} /\ Stages[s].old \subseteq Keys
<1>1. /\ Len(Names) \in Nat \ {0} /\ \A i \in 1..Len(Names) : Names[i] \in Ids
  BY NamesAssumption, ParamsAssumption
<1>2. Len(Stages) \in Nat \ {0} /\ \A s \in 1..Len(Stages) : Stages[s] \in Settings
  BY StagesAssumption
<1> QED BY <1>1, <1>2 DEF Settings

LEMMA NoRowIsRow == NoRow \in Row /\ NoJob \in Job
BY Numbered DEF NoRow, NoJob, Row, Job, Values

\* What p would store is a row.
LEMMA StoredType ==
    ASSUME TypeOK, NEW p \in Procs, NEW v \in Values \cup {None},
           pc[p] \in AtRow
    PROVE  Stored(p, v) \in Row
BY Numbered DEF TypeOK, Stored, Plain, Sealed, NoRow, Row, Active, Settings, Job, Values, CtxIds, AtRow

LEMMA IdOf ==
    ASSUME TypeOK, NEW p \in Procs
    PROVE  Id(p) \in Ids /\ job[p].at \in 1..Len(Names) /\ job[p] \in Job
BY Numbered DEF TypeOK, Id, Job

\* The end of a load.
LEMMA ReturnType ==
    ASSUME TypeOK, NEW p \in Procs, NEW v \in Values \cup {None}, Return(p, v)
    PROVE  /\ pc' \in [Procs -> PCs] /\ job' \in [Procs -> Job]
           /\ mem' \in [Procs -> [Ids -> Values \cup {None}]] /\ touched' \subseteq Ids
<1>1. mem' \in [Procs -> [Ids -> Values \cup {None}]] /\ touched' \subseteq Ids
  BY IdOf DEF Return, TypeOK
<1>2. CASE job[p].at = Len(Names)
  <2>1. pc' = [pc EXCEPT ![p] = "up"] /\ job' = [job EXCEPT ![p] = NoJob]
    BY <1>2 DEF Return, Goto
  <2> QED BY <1>1, <2>1, NoRowIsRow DEF TypeOK, PCs
<1>3. CASE job[p].at # Len(Names)
  <2>1. job[p].at + 1 \in 1..Len(Names)
    BY <1>3, IdOf, Numbered
  <2>2. [NoJob EXCEPT !.at = job[p].at + 1] \in Job
    BY <2>1, NoRowIsRow DEF Job, NoJob
  <2>3. job' = [job EXCEPT ![p] = [NoJob EXCEPT !.at = job[p].at + 1]]
    BY <1>3 DEF Return
  <2>4. pc' \in [Procs -> PCs]
    BY <1>3 DEF Return, Goto, Entry, TypeOK, PCs
  <2> QED BY <1>1, <2>2, <2>3, <2>4 DEF TypeOK
<1> QED BY <1>1, <1>2, <1>3

LEMMA ValOf ==
    ASSUME TypeOK
    PROVE  /\ \A n \in Ids : row[n] \in Row /\ row[n].val \in Values \cup {None}
           /\ \A p \in Procs : job[p].seen \in Row /\ job[p].seen.val \in Values \cup {None}
BY DEF TypeOK, Row, Job

\* What a process has read, noted in its locals.
LEMMA JobFields ==
    ASSUME NEW j \in Job
    PROVE  /\ \A k \in Keys \cup {NoKey} : [j EXCEPT !.fp = k] \in Job
           /\ \A c \in CtxIds \cup {None} : [j EXCEPT !.ctx = c] \in Job
           /\ \A r \in Row : [j EXCEPT !.seen = r] \in Job
<1>1. ASSUME NEW k \in Keys \cup {NoKey} PROVE [j EXCEPT !.fp = k] \in Job
  BY DEF Job
<1>2. ASSUME NEW c \in CtxIds \cup {None} PROVE [j EXCEPT !.ctx = c] \in Job
  BY DEF Job
<1>3. ASSUME NEW r \in Row PROVE [j EXCEPT !.seen = r] \in Job
  BY DEF Job
<1> QED BY <1>1, <1>2, <1>3

LEMMA JobUpdate ==
    ASSUME TypeOK, NEW p \in Procs, NEW j \in Job, job' = [job EXCEPT ![p] = j]
    PROVE  job' \in [Procs -> Job]
BY DEF TypeOK

LEMMA InitType == Init => TypeOK
<1> SUFFICES ASSUME Init PROVE TypeOK
  OBVIOUS
<1>1. /\ row \in [Ids -> Row] /\ fp \in Keys \cup {NoKey} /\ stage \in 1..Len(Stages)
      /\ faulty \in BOOLEAN
  BY FirstsAssumption, ParamsAssumption DEF Init, FirstsAssumption
<1>2. set \in [Procs -> Settings]
  BY <1>1, Numbered DEF Init
<1> QED BY <1>1, <1>2, NoRowIsRow DEF Init, TypeOK, PCs

LEMMA NextType == ASSUME TypeOK, [Next]_vars PROVE TypeOK'
<1>1. ASSUME NEW p \in Procs, FingerprintRead(p) PROVE TypeOK'
  <2>0. job \in [Procs -> Job] /\ fp \in Keys \cup {NoKey} /\ job[p] \in Job
    BY DEF TypeOK
  <2>1. job' \in [Procs -> Job]
    <3>1. CASE job' = job
      BY <2>0, <3>1
    <3>2. CASE job' = [job EXCEPT ![p].fp = fp]
      <4>1. job' = [job EXCEPT ![p] = [job[p] EXCEPT !.fp = fp]]
        BY <3>2
      <4> QED BY <2>0, <4>1, JobFields, JobUpdate
    <3> QED BY <1>1, <3>1, <3>2 DEF FingerprintRead, Fail
  <2> QED BY <1>1, <2>1 DEF FingerprintRead, Fail, Goto, TypeOK, PCs
<1>2. ASSUME NEW p \in Procs, FingerprintInsert(p) PROVE TypeOK'
  BY <1>2 DEF FingerprintInsert, Fail, Goto, TypeOK, PCs, Active, Settings
<1>3. ASSUME NEW p \in Procs, FingerprintPromote(p) PROVE TypeOK'
  BY <1>3 DEF FingerprintPromote, Goto, TypeOK, PCs, Active, Settings
<1>4. ASSUME NEW p \in Procs, ContextRead(p) PROVE TypeOK'
  <2>0. ctx \in CtxIds \cup {None} /\ job[p] \in Job
    BY DEF TypeOK
  <2>1. job' \in [Procs -> Job]
    <3>1. job' = [job EXCEPT ![p] = [job[p] EXCEPT !.ctx = ctx]]
      BY <1>4 DEF ContextRead
    <3> QED BY <2>0, <3>1, JobFields, JobUpdate
  <2> QED BY <1>4, <2>1 DEF ContextRead, Goto, TypeOK, PCs
<1>5. ASSUME NEW p \in Procs, ContextInsert(p) PROVE TypeOK'
  <2>1. ctx' \in CtxIds \cup {None}
    BY <1>5 DEF ContextInsert, TypeOK, CtxIds
  <2>2. job' \in [Procs -> Job]
    <3>1. job' = [job EXCEPT ![p] = [job[p] EXCEPT !.ctx = ctx']]
      BY <1>5 DEF ContextInsert
    <3>2. job[p] \in Job
      BY DEF TypeOK
    <3> QED BY <2>1, <3>1, <3>2, JobFields, JobUpdate
  <2> QED BY <1>5, <2>1, <2>2 DEF ContextInsert, Goto, TypeOK, PCs
<1>6. ASSUME NEW p \in Procs, RowRead(p) PROVE TypeOK'
  <2>1. CASE \E v \in Values \cup {None} : Return(p, v)
    BY <1>6, <2>1, ReturnType DEF RowRead, TypeOK
  <2>2. CASE \/ Goto(p, "rowinsert") /\ UNCHANGED <<job, mem, touched>>
             \/ Fail(p)
             \/ /\ Goto(p, "rewrite") /\ job' = [job EXCEPT ![p].seen = row[Id(p)]]
                /\ UNCHANGED <<mem, touched>>
    <3>1. job' \in [Procs -> Job]
      <4>1. job \in [Procs -> Job] /\ job[p] \in Job /\ row[Id(p)] \in Row
        BY IdOf, ValOf DEF TypeOK
      <4>2. CASE job' = [job EXCEPT ![p].seen = row[Id(p)]]
        <5>1. job' = [job EXCEPT ![p] = [job[p] EXCEPT !.seen = row[Id(p)]]]
          BY <4>2
        <5> QED BY <4>1, <5>1, JobFields, JobUpdate
      <4> QED BY <2>2, <4>1, <4>2 DEF Fail
    <3> QED BY <1>6, <2>2, <3>1 DEF RowRead, Fail, Goto, TypeOK, PCs
  <2> QED BY <1>6, <2>1, <2>2, IdOf, ValOf DEF RowRead
<1>7. ASSUME NEW p \in Procs, RowInsert(p) PROVE TypeOK'
  <2>0. p \in Values \cup {None} /\ Stored(p, p) \in Row
    BY <1>7, StoredType DEF RowInsert, AtRow, Values
  <2>1. row' \in [Ids -> Row]
    BY <1>7, <2>0 DEF RowInsert, TypeOK
  <2>2. CASE Return(p, p)
    BY <1>7, <2>0, <2>1, <2>2, ReturnType DEF RowInsert, TypeOK
  <2>3. CASE Goto(p, "recover") /\ UNCHANGED <<row, job, mem, touched>>
    BY <1>7, <2>1, <2>3 DEF RowInsert, Goto, TypeOK, PCs
  <2> QED BY <1>7, <2>2, <2>3 DEF RowInsert
<1>8. ASSUME NEW p \in Procs, Recover(p) PROVE TypeOK'
  <2>1. CASE Return(p, row[Id(p)].val)
    BY <1>8, <2>1, ReturnType, IdOf, ValOf DEF Recover, TypeOK
  <2>2. CASE Fail(p)
    BY <1>8, <2>2 DEF Recover, Fail, Goto, TypeOK, PCs
  <2> QED BY <1>8, <2>1, <2>2 DEF Recover
<1>9. ASSUME NEW p \in Procs, Rewrite(p) PROVE TypeOK'
  <2>0. job[p].seen.val \in Values \cup {None} /\ Stored(p, job[p].seen.val) \in Row
    BY <1>9, StoredType, ValOf DEF Rewrite, AtRow
  <2>1. row' \in [Ids -> Row]
    BY <1>9, <2>0 DEF Rewrite, TypeOK
  <2> QED BY <1>9, <2>0, <2>1, ReturnType DEF Rewrite, TypeOK
<1>10. ASSUME NEW p \in Procs, Boot(p) PROVE TypeOK'
  BY <1>10, NoRowIsRow, Numbered DEF Boot, Goto, TypeOK, PCs
<1>11. ASSUME NEW p \in Procs, Stop(p) PROVE TypeOK'
  BY <1>11, NoRowIsRow DEF Stop, Goto, TypeOK, PCs
<1>12. CASE Advance
  <2>1. stage' \in 1..Len(Stages)
    BY <1>12, Numbered DEF Advance, TypeOK
  <2> QED BY <1>12, <2>1 DEF Advance, TypeOK
<1>13. CASE UNCHANGED vars
  BY <1>13 DEF vars, TypeOK
<1> QED
  BY <1>1, <1>2, <1>3, <1>4, <1>5, <1>6, <1>7, <1>8, <1>9, <1>10, <1>11, <1>12, <1>13
  DEF Next, Load

\* Every row, process and setting keeps its type.
THEOREM TypeCorrect == Spec => []TypeOK
<1>1. TypeOK /\ [Next]_vars => TypeOK'
  BY NextType
<1> QED BY InitType, <1>1, PTL DEF Spec

-----------------------------------------------------------------------------
\* What a step does to the rows.

\* The INSERT of p's new value, and its compare-and-swap: of a row it has read
\* and can open, to an envelope of the same value under its active master.
Inserts(p, n) ==
  /\ pc[p] = "rowinsert" /\ row[n].kind = "absent"
  /\ row'[n] = Stored(p, p)
Swaps(p, n) ==
  /\ pc[p] = "rewrite" /\ Active(p) # NoKey
  /\ row[n].kind # "absent"
  /\ row[n].kind = "env" => row[n].key \in Keyring(p)
  /\ row'[n] = Sealed(row[n].val, Active(p), job[p].ctx, p)
RowStep ==
  \A n \in Ids : row'[n] = row[n] \/ \E p \in Procs : Inserts(p, n) \/ Swaps(p, n)

LEMMA NextRows == ASSUME Inv, Next PROVE RowStep
<1> USE DEF Inv, RowStep
<1>1. ASSUME NEW p \in Procs, RowInsert(p) PROVE RowStep
  <2>1. CASE row[Id(p)] = NoRow
    <3>1. row' = [row EXCEPT ![Id(p)] = Stored(p, p)] /\ pc[p] = "rowinsert"
      BY <1>1, <2>1 DEF RowInsert
    <3> QED BY <2>1, <3>1 DEF Inserts, NoRow, TypeOK
  <2>2. CASE row[Id(p)] # NoRow
    BY <1>1, <2>2 DEF RowInsert
  <2> QED BY <2>1, <2>2
<1>2. ASSUME NEW p \in Procs, Rewrite(p) PROVE RowStep
  <2>1. CASE row' = row
    BY <2>1
  <2>2. CASE row' = [row EXCEPT ![Id(p)] = IF @ = job[p].seen THEN Stored(p, job[p].seen.val)
                                                              ELSE @]
    <3>1. Knows(p) /\ pc[p] = "rewrite"
      BY <1>2 DEF Rewrite
    <3>2. ASSUME NEW n \in Ids, row'[n] # row[n] PROVE Swaps(p, n)
      <4>1. n = Id(p) /\ row[n] = job[p].seen /\ row'[n] = Stored(p, row[n].val)
        BY <2>2, <3>2 DEF TypeOK
      <4>2. Active(p) # NoKey /\ row[n].kind # "absent"
            /\ (row[n].kind = "env" => row[n].key \in Keyring(p))
        BY <3>1, <4>1 DEF Knows
      <4> QED BY <3>1, <4>1, <4>2 DEF Swaps, Stored
    <3> QED BY <3>2
  <2> QED BY <1>2, <2>1, <2>2 DEF Rewrite
<1>3. CASE row' = row
  BY <1>3
<1> QED
  BY <1>1, <1>2, <1>3 DEF Next, Load, FingerprintRead, FingerprintInsert, FingerprintPromote,
     ContextRead, ContextInsert, RowRead, Recover, Boot, Stop, Advance

\* No step removes a row or changes its value, or makes an envelope anything else.
LEMMA RowsLast ==
    ASSUME Inv, RowStep, NEW n \in Ids
    PROVE  /\ row'[n].kind = "absent" => row[n].kind = "absent" /\ row'[n] = row[n]
           /\ row[n].kind # "absent" => row'[n].kind # "absent" /\ row'[n].val = row[n].val
           /\ row[n].kind = "env" => row'[n].kind = "env"
<1>1. CASE row'[n] = row[n]
  BY <1>1
<1>2. ASSUME NEW p \in Procs, Inserts(p, n)
      PROVE  row[n].kind = "absent" /\ row'[n].kind # "absent"
  BY <1>2 DEF Inserts, Stored, Plain, Sealed, NoRow
<1>3. ASSUME NEW p \in Procs, Swaps(p, n)
      PROVE  row[n].kind # "absent" /\ row'[n].kind = "env" /\ row'[n].val = row[n].val
  BY <1>3 DEF Swaps, Sealed
<1> QED BY <1>1, <1>2, <1>3 DEF RowStep

\* The context id is written once.
LEMMA NextContext ==
    ASSUME Inv, Next
    PROVE  ctx' = ctx \/ (ctx = None /\ row' = row /\ ctx' \in Procs)
<1>1. ASSUME NEW p \in Procs, ContextInsert(p)
      PROVE  ctx' = ctx \/ (ctx = None /\ row' = row /\ ctx' \in Procs)
  BY <1>1 DEF ContextInsert
<1>2. CASE ctx' = ctx
  BY <1>2
<1> QED
  BY <1>1, <1>2 DEF Next, Load, FingerprintRead, FingerprintInsert, FingerprintPromote,
     ContextRead, RowRead, RowInsert, Recover, Rewrite, Boot, Stop, Advance

\* What the other processes know stays true.
LEMMA OthersKnow ==
    ASSUME Inv, RowStep, NEW q \in Procs, pc'[q] = pc[q], job'[q] = job[q], set'[q] = set[q],
           ctx' = ctx \/ (ctx = None /\ row' = row)
    PROVE  Knows(q)'
<1>1. Id(q)' = Id(q) /\ Id(q) \in Ids /\ Active(q)' = Active(q) /\ Keyring(q)' = Keyring(q)
  BY IdOf DEF Inv, Id, Active, Keyring
<1>2. Knows(q)
  BY DEF Inv
<1>3. ctx # None => ctx' = ctx
  OBVIOUS
<1>4. row[Id(q)].kind # "absent" =>
        row'[Id(q)].kind # "absent" /\ row'[Id(q)].val = row[Id(q)].val
  BY <1>1, RowsLast
<1> QED BY <1>1, <1>2, <1>3, <1>4 DEF Knows

-----------------------------------------------------------------------------
\* One step of a process.

\* What p loaded is the value of the row.
Loads(p) ==
  \A n \in Ids : mem'[p][n] \in {mem[p][n], None} \/ mem'[p][n] = row'[n].val


\* The end of a load with the value of the row leaves p at the start of the next
\* load, or done.
LEMMA ReturnKnows ==
    ASSUME Inv, NEW p \in Procs, NEW v \in Values \cup {None}, Return(p, v), set' = set,
           row'[Id(p)].val = v
    PROVE  Knows(p)' /\ Loads(p)
<1>1. Loads(p)
  BY IdOf DEF Return, Loads, Inv, TypeOK
<1>2. Active(p)' = Active(p)
  BY DEF Active
<1>3. CASE job[p].at = Len(Names)
  <2>1. pc'[p] = "up"
    BY <1>3 DEF Return, Goto, Inv, TypeOK
  <2> QED BY <1>1, <2>1 DEF Knows, Encrypting, AtRow
<1>4. CASE job[p].at # Len(Names)
  <2>1. pc'[p] = Entry(p)
    BY <1>4 DEF Return, Goto, Inv, TypeOK
  <2> QED BY <1>1, <1>2, <2>1 DEF Knows, Encrypting, AtRow, Entry
<1> QED BY <1>3, <1>4

LEMMA LoadKnows ==
    ASSUME Inv, NEW p \in Procs, Load(p) \/ Boot(p) \/ Stop(p), RowStep,
           ctx' = ctx \/ (ctx = None /\ row' = row /\ ctx' \in Procs)
    PROVE  Knows(p)' /\ Loads(p)
<1>0. /\ Knows(p) /\ TypeOK /\ Id(p) \in Ids /\ None \notin Procs
      /\ row[Id(p)].val \in Values \cup {None} /\ job[p].seen.val \in Values \cup {None}
      /\ p \in Values \cup {None}
  BY IdOf, ValOf, ParamsAssumption DEF Inv, Values
<1>a. ASSUME mem' = mem PROVE Loads(p)
  BY <1>a DEF Loads
<1>b. ASSUME Fail(p) PROVE Knows(p)' /\ Loads(p)
  BY <1>0, <1>a, <1>b DEF Fail, Goto, Knows, Encrypting, AtRow, TypeOK
<1>1. CASE FingerprintRead(p)
  <2>1. CASE Fail(p)
    BY <1>b, <2>1
  <2>2. CASE pc'[p] \in Encrypting /\ mem' = mem
    BY <1>0, <1>1, <1>a, <2>2 DEF FingerprintRead, Knows, Encrypting, AtRow, Active
  <2>3. \/ Fail(p)
        \/ /\ \E l \in {"fpinsert", "ctxread", "fpcas"} : pc' = [pc EXCEPT ![p] = l]
           /\ mem' = mem
    BY <1>1 DEF FingerprintRead, Goto
  <2> QED BY <1>0, <2>1, <2>2, <2>3 DEF TypeOK, Encrypting
<1>2. CASE FingerprintInsert(p)
  <2>1. CASE Fail(p)
    BY <1>b, <2>1
  <2>2. CASE pc' = [pc EXCEPT ![p] = "ctxread"] /\ mem' = mem
    BY <1>0, <1>2, <1>a, <2>2 DEF FingerprintInsert, Knows, Encrypting, AtRow, Active, TypeOK
  <2> QED BY <1>2, <2>1, <2>2 DEF FingerprintInsert, Goto
<1>3. CASE FingerprintPromote(p)
  BY <1>0, <1>3, <1>a
  DEF FingerprintPromote, Goto, Knows, Encrypting, AtRow, Active, TypeOK
<1>4. CASE ContextRead(p)
  <2>1. job'[p].ctx = ctx /\ ctx' = ctx /\ set' = set /\ mem' = mem /\ pc[p] = "ctxread"
    BY <1>0, <1>4 DEF ContextRead, TypeOK, Job
  <2>2. pc'[p] = IF ctx = None THEN "ctxinsert" ELSE "rowread"
    BY <1>0, <1>4 DEF ContextRead, Goto, TypeOK
  <2> QED BY <1>0, <1>a, <2>1, <2>2 DEF Knows, Encrypting, AtRow, Active
<1>5. CASE ContextInsert(p)
  <2>1. job'[p].ctx = ctx' /\ ctx' # None /\ set' = set /\ mem' = mem
    BY <1>0, <1>5 DEF ContextInsert, TypeOK, Job
  <2>2. pc'[p] = "rowread"
    BY <1>0, <1>5 DEF ContextInsert, Goto, TypeOK
  <2> QED BY <1>0, <1>a, <2>1, <2>2 DEF Knows, Encrypting, AtRow, Active
<1>6. CASE RowRead(p)
  <2>0. row' = row /\ set' = set /\ ctx' = ctx /\ pc[p] = "rowread"
    BY <1>6 DEF RowRead
  <2>1. CASE Return(p, row[Id(p)].val)
    BY <1>0, <2>0, <2>1, ReturnKnows
  <2>2. CASE Fail(p)
    BY <1>b, <2>2
  <2>3. CASE Goto(p, "rowinsert") /\ UNCHANGED <<job, mem, touched>>
    BY <1>0, <1>a, <2>0, <2>3 DEF Goto, Knows, Encrypting, AtRow, Active, TypeOK
  <2>4. CASE /\ Goto(p, "rewrite") /\ job' = [job EXCEPT ![p].seen = row[Id(p)]]
             /\ UNCHANGED <<mem, touched>>
    <3>1. /\ Active(p) # NoKey /\ row[Id(p)].kind # "absent"
          /\ row[Id(p)].kind = "env" => row[Id(p)].key \in Keyring(p)
      <4>1. pc'[p] = "rewrite"
        BY <1>0, <2>4 DEF Goto, TypeOK
      <4>2. \/ row[Id(p)].kind = "plain" /\ Active(p) # NoKey
            \/ row[Id(p)].kind = "env" /\ Active(p) # NoKey /\ Opens(p, row[Id(p)])
            \/ Goto(p, "rowinsert") \/ Fail(p)
            \/ Active(p) = NoKey /\ Return(p, row[Id(p)].val)
        BY <1>6 DEF RowRead
      <4>3. ~Goto(p, "rowinsert") /\ ~Fail(p)
        BY <1>0, <4>1 DEF Goto, Fail, TypeOK
      <4>4. ~(Active(p) = NoKey /\ Return(p, row[Id(p)].val))
        BY <1>0, <4>1 DEF Return, Goto, Entry, TypeOK
      <4> QED BY <4>2, <4>3, <4>4 DEF Opens
    <3>2. /\ job'[p].seen = row[Id(p)] /\ job'[p].ctx = job[p].ctx /\ Id(p)' = Id(p)
          /\ pc'[p] = "rewrite"
      BY <1>0, <2>4 DEF Goto, TypeOK, Job, Id
    <3> QED
      BY <1>0, <1>a, <2>0, <2>4, <3>1, <3>2 DEF Knows, Encrypting, AtRow, Active, Keyring
  <2> QED BY <1>6, <2>1, <2>2, <2>3, <2>4 DEF RowRead
<1>7. CASE RowInsert(p)
  <2>0. set' = set /\ ctx' = ctx /\ pc[p] = "rowinsert"
    BY <1>7 DEF RowInsert
  <2>1. CASE row[Id(p)] = NoRow
    <3>1. row' = [row EXCEPT ![Id(p)] = Stored(p, p)] /\ Return(p, p)
      BY <1>7, <2>1 DEF RowInsert
    <3>2. Stored(p, p).val = p
      BY DEF Stored, Plain, Sealed, NoRow
    <3>3. row'[Id(p)].val = p
      BY <1>0, <3>1, <3>2 DEF TypeOK
    <3> QED BY <1>0, <2>0, <3>1, <3>3, ReturnKnows
  <2>2. CASE row[Id(p)] # NoRow
    <3>1. row[Id(p)].kind # "absent"
      BY <1>0, <2>2 DEF Inv, RowsClean
    <3>2. row' = row /\ job' = job /\ mem' = mem /\ pc'[p] = "recover" /\ Id(p)' = Id(p)
      BY <1>0, <1>7, <2>2 DEF RowInsert, Goto, TypeOK, Id
    <3> QED
      BY <1>0, <1>a, <2>0, <3>1, <3>2 DEF Knows, Encrypting, AtRow, Active
  <2> QED BY <2>1, <2>2
<1>8. CASE Recover(p)
  <2>1. CASE Return(p, row[Id(p)].val)
    BY <1>0, <1>8, <2>1, ReturnKnows DEF Recover
  <2>2. CASE Fail(p)
    BY <1>b, <2>2
  <2> QED BY <1>8, <2>1, <2>2 DEF Recover
<1>9. CASE Rewrite(p)
  <2>1. row[Id(p)].kind # "absent" /\ row[Id(p)].val = job[p].seen.val
    BY <1>0, <1>9 DEF Rewrite, Knows
  <2>2. row'[Id(p)].val = job[p].seen.val
    BY <1>0, <2>1, RowsLast
  <2> QED BY <1>0, <1>9, <2>2, ReturnKnows DEF Rewrite
<1>10. CASE Boot(p)
  <2>1. pc'[p] = IF Stages[stage].active = NoKey THEN "rowread" ELSE "fpread"
    BY <1>0, <1>10 DEF Boot, Goto, TypeOK
  <2>2. Active(p)' = Stages[stage].active
    BY <1>0, <1>10 DEF Boot, Active, TypeOK
  <2>3. Loads(p)
    BY <1>0, <1>10 DEF Boot, Loads, TypeOK
  <2> QED BY <2>1, <2>2, <2>3 DEF Knows, Encrypting, AtRow
<1>11. CASE Stop(p)
  <2>1. pc'[p] = "down"
    BY <1>0, <1>11 DEF Stop, Goto, TypeOK
  <2>2. Loads(p)
    BY <1>0, <1>11 DEF Stop, Loads, TypeOK
  <2> QED BY <2>1, <2>2 DEF Knows, Encrypting, AtRow
<1> QED
  BY <1>1, <1>2, <1>3, <1>4, <1>5, <1>6, <1>7, <1>8, <1>9, <1>10, <1>11 DEF Load

\* A step of p leaves the local states of the others alone.
LEMMA LoadLocal ==
    ASSUME Inv, NEW p \in Procs, Load(p) \/ Boot(p) \/ Stop(p), NEW q \in Procs, q # p
    PROVE  pc'[q] = pc[q] /\ job'[q] = job[q] /\ set'[q] = set[q] /\ mem'[q] = mem[q]
<1>1. ASSUME NEW v, Return(p, v)
      PROVE  pc'[q] = pc[q] /\ job'[q] = job[q] /\ mem'[q] = mem[q]
  BY <1>1 DEF Return, Goto, Inv, TypeOK
<1>2. ASSUME Fail(p)
      PROVE  pc'[q] = pc[q] /\ job'[q] = job[q] /\ mem'[q] = mem[q]
  BY <1>2 DEF Fail, Goto, Inv, TypeOK
<1>3. CASE FingerprintRead(p) \/ FingerprintInsert(p) \/ FingerprintPromote(p)
  BY <1>2, <1>3
  DEF FingerprintRead, FingerprintInsert, FingerprintPromote, Goto, Inv, TypeOK
<1>4. CASE ContextRead(p) \/ ContextInsert(p)
  BY <1>4 DEF ContextRead, ContextInsert, Goto, Inv, TypeOK
<1>5. CASE RowRead(p)
  BY <1>1, <1>2, <1>5 DEF RowRead, Goto, Inv, TypeOK
<1>6. CASE RowInsert(p) \/ Recover(p) \/ Rewrite(p)
  BY <1>1, <1>2, <1>6 DEF RowInsert, Recover, Rewrite, Goto, Inv, TypeOK
<1>7. CASE Boot(p) \/ Stop(p)
  BY <1>7 DEF Boot, Stop, Goto, Inv, TypeOK
<1> QED BY <1>3, <1>4, <1>5, <1>6, <1>7 DEF Load

-----------------------------------------------------------------------------
\* The invariant.

LEMMA InitInv == Init => Inv
<1> SUFFICES ASSUME Init PROVE Inv
  OBVIOUS
<1>1. RowsClean /\ SealedUnderStoredContext
  BY FirstsAssumption, ParamsAssumption
  DEF Init, FirstsAssumption, RowsClean, SealedUnderStoredContext
<1>2. \A p \in Procs : Knows(p)
  BY DEF Init, Knows, Encrypting, AtRow
<1>3. OneValue
  BY DEF Init, OneValue
<1> QED BY InitType, <1>1, <1>2, <1>3 DEF Inv

\* An envelope written now is under the context id that is there.
LEMMA ContextKept ==
    ASSUME Inv, RowStep, ctx' = ctx \/ (ctx = None /\ row' = row)
    PROVE  SealedUnderStoredContext'
<1> SUFFICES ASSUME NEW n \in Ids, row'[n].kind = "env"
             PROVE  row'[n].ctx \in {ctx', "dir"}
  BY DEF SealedUnderStoredContext
<1>1. CASE row'[n] = row[n]
  <2>1. row[n].ctx \in {ctx, "dir"}
    BY <1>1 DEF Inv, SealedUnderStoredContext
  <2>2. CASE ctx' = ctx
    BY <1>1, <2>1, <2>2
  <2>3. CASE ctx = None /\ row' = row
    BY <1>1, <2>1, <2>3 DEF Inv, RowsClean
  <2> QED BY <2>2, <2>3
<1>2. ASSUME NEW p \in Procs, Inserts(p, n) \/ Swaps(p, n)
      PROVE  row'[n].ctx \in {ctx', "dir"}
  <2>1. Active(p) # NoKey /\ row'[n].ctx = job[p].ctx /\ pc[p] \in AtRow
    <3>1. CASE Inserts(p, n)
      BY <3>1 DEF Inserts, Stored, Plain, Sealed, NoRow, AtRow
    <3>2. CASE Swaps(p, n)
      BY <3>2 DEF Swaps, Sealed, AtRow
    <3> QED BY <1>2, <3>1, <3>2
  <2>2. ctx # None /\ job[p].ctx = ctx
    BY <2>1 DEF Inv, Knows
  <2> QED BY <2>1, <2>2
<1> QED BY <1>1, <1>2 DEF RowStep

LEMMA CleanKept == ASSUME Inv, RowStep PROVE RowsClean'
<1> SUFFICES ASSUME NEW n \in Ids
             PROVE  /\ row'[n].kind = "absent" => row'[n] = NoRow
                    /\ row'[n].kind = "env" => row'[n].ctx # None
  BY DEF RowsClean
<1>1. CASE row'[n] = row[n]
  BY <1>1 DEF Inv, RowsClean
<1>2. ASSUME NEW p \in Procs, Inserts(p, n) \/ Swaps(p, n)
      PROVE  row'[n].kind # "absent" /\ (row'[n].kind = "env" => row'[n].ctx # None)
  <2>1. /\ row'[n].kind # "absent" /\ pc[p] \in AtRow
        /\ row'[n].kind = "env" => Active(p) # NoKey /\ row'[n].ctx = job[p].ctx
    <3>1. CASE Inserts(p, n)
      BY <3>1 DEF Inserts, Stored, Plain, Sealed, NoRow, AtRow
    <3>2. CASE Swaps(p, n)
      BY <3>2 DEF Swaps, Sealed, AtRow
    <3> QED BY <1>2, <3>1, <3>2
  <2> QED BY <2>1 DEF Inv, Knows
<1> QED BY <1>1, <1>2 DEF RowStep

\* What was loaded is still the value of its row.
LEMMA ValueKept ==
    ASSUME Inv, RowStep, \A p \in Procs : Loads(p)
    PROVE  OneValue'
<1> SUFFICES ASSUME NEW p \in Procs, NEW n \in Ids, mem'[p][n] # None
             PROVE  row'[n].val = mem'[p][n]
  BY DEF OneValue
<1>1. CASE mem'[p][n] = mem[p][n]
  <2>1. row[n].val = mem[p][n] /\ row[n].val # None
    BY <1>1 DEF Inv, OneValue
  <2>2. row[n].kind # "absent"
    BY <2>1 DEF Inv, RowsClean, NoRow
  <2> QED BY <1>1, <2>1, <2>2, RowsLast
<1> QED BY <1>1 DEF Loads

LEMMA NextInv == ASSUME Inv, [Next]_vars PROVE Inv'
<1>1. TypeOK'
  BY NextType DEF Inv
<1>2. ASSUME Next PROVE Inv'
  <2>1. RowStep /\ (ctx' = ctx \/ (ctx = None /\ row' = row /\ ctx' \in Procs))
    BY <1>2, NextRows, NextContext
  <2>2. ASSUME NEW p \in Procs, Load(p) \/ Boot(p) \/ Stop(p)
        PROVE  \A q \in Procs : Knows(q)' /\ Loads(q)
    <3> SUFFICES ASSUME NEW q \in Procs PROVE Knows(q)' /\ Loads(q)
      OBVIOUS
    <3>1. CASE q = p
      BY <2>1, <2>2, <3>1, LoadKnows
    <3>2. CASE q # p
      BY <2>1, <2>2, <3>2, LoadLocal, OthersKnow DEF Loads
    <3> QED BY <3>1, <3>2
  <2>3. ASSUME Advance PROVE \A q \in Procs : Knows(q)' /\ Loads(q)
    BY <2>1, <2>3, OthersKnow DEF Advance, Loads
  <2>4. \A q \in Procs : Knows(q)' /\ Loads(q)
    BY <1>2, <2>2, <2>3 DEF Next
  <2>5. OneValue' /\ SealedUnderStoredContext' /\ RowsClean'
    BY <2>1, <2>4, ValueKept, ContextKept, CleanKept
  <2> QED BY <1>1, <2>4, <2>5 DEF Inv
<1>3. ASSUME UNCHANGED vars PROVE Inv'
  <2>1. (\A p \in Procs : Knows(p))'
    BY <1>3 DEF Inv, vars, Knows, Id, Active, Keyring
  <2>2. OneValue' /\ SealedUnderStoredContext' /\ RowsClean'
    BY <1>3 DEF Inv, vars, OneValue, SealedUnderStoredContext, RowsClean
  <2> QED BY <1>1, <2>1, <2>2 DEF Inv
<1> QED BY <1>2, <1>3

LEMMA InvHolds == Spec => []Inv
<1>1. Inv /\ [Next]_vars => Inv'
  BY NextInv
<1> QED BY InitInv, <1>1, PTL DEF Spec

\* All processes use the same key material, however their boots, crashes and
\* migrations interleave.
THEOREM SameValue == Spec => []OneValue
<1>1. Inv => OneValue
  BY DEF Inv
<1> QED BY InvHolds, <1>1, PTL

\* Every envelope can be opened by whoever has its master: it is sealed under the
\* context id that is stored.
THEOREM SealedForAll == Spec => []SealedUnderStoredContext
<1>1. Inv => SealedUnderStoredContext
  BY DEF Inv
<1> QED BY InvHolds, <1>1, PTL

\* No migration, rewrap or crash changes the value of a row.
THEOREM Stable == Spec => ValueStable
<1>1. Inv /\ [Next]_vars => [\A n \in Ids : row[n].kind # "absent" => row'[n].val = row[n].val]_row
  <2> SUFFICES ASSUME Inv, Next
               PROVE  \A n \in Ids : row[n].kind # "absent" => row'[n].val = row[n].val
    BY DEF vars
  <2> QED BY NextRows, RowsLast
<1> QED BY InvHolds, <1>1, PTL DEF Spec, ValueStable

-----------------------------------------------------------------------------
\* The master keys.

LEMMA RankType == \A k : Rank(k) \in Nat
<1> SUFFICES ASSUME NEW k PROVE Rank(k) \in Nat
  OBVIOUS
<1>1. IsFiniteSet(1..Len(Stages))
  BY Numbered, FS_Interval
<1>2. Before(k) \subseteq 1..Len(Stages)
  BY DEF Before
<1>3. IsFiniteSet(Before(k))
  BY <1>1, <1>2, FS_Subset
<1>4. Cardinality(Before(k)) \in Nat
  BY <1>3, FS_CardinalityType
<1> QED BY <1>4 DEF Rank

\* A process runs with the settings of some stage; the present settings read all
\* that stage could, or no row is left that was in plaintext by then.
AllSealed == \A n \in Ids : row[n].kind = "env"
Settled ==
  \A p \in Procs : \E s \in 1..stage :
    set[p] = Stages[s] /\ (Verified => (Ring(s) \subseteq Ring(stage) \/ AllSealed))

KeyInv == Inv /\ Settled

LEMMA SettledInit == Init => Settled
<1>1. ASSUME Init PROVE stage \in 1..stage
  BY <1>1, InitType, Numbered DEF TypeOK
<1> QED BY <1>1 DEF Init, Settled

LEMMA SealedStays == ASSUME Inv, RowStep, AllSealed PROVE AllSealed'
BY RowsLast DEF AllSealed

LEMMA SettledKept == ASSUME KeyInv, [Next]_vars PROVE Settled'
<1>0. stage \in 1..Len(Stages) /\ Len(Stages) \in Nat
  BY Numbered DEF KeyInv, Inv, TypeOK
<1>1. ASSUME Next PROVE AllSealed => AllSealed'
  BY <1>1, NextRows, SealedStays DEF KeyInv
<1>2. ASSUME NEW p \in Procs, NEW q \in Procs, Boot(q)
      PROVE  \E s \in 1..stage' :
               set'[p] = Stages[s]
               /\ (Verified => (Ring(s) \subseteq Ring(stage') \/ AllSealed'))
  <2>1. CASE p = q
    BY <1>0, <1>2, <2>1 DEF Boot, KeyInv, Inv, TypeOK
  <2>2. CASE p # q
    <3>1. set'[p] = set[p] /\ stage' = stage /\ row' = row
      BY <1>2, <2>2 DEF Boot, KeyInv, Inv, TypeOK
    <3> QED BY <3>1 DEF KeyInv, Settled, AllSealed
  <2> QED BY <2>1, <2>2
<1>3. ASSUME Advance PROVE Settled'
  <2>0. /\ Verified => (AllSealed \/ Ring(stage) \subseteq Ring(stage + 1))
        /\ stage' = stage + 1 /\ set' = set /\ row' = row
    BY <1>3 DEF Advance, Dropped, AllSealed
  <2> SUFFICES ASSUME NEW p \in Procs
               PROVE  \E s \in 1..stage' :
                        set'[p] = Stages[s]
                        /\ (Verified => (Ring(s) \subseteq Ring(stage') \/ AllSealed'))
    BY <2>0 DEF Settled, AllSealed
  <2>1. PICK s \in 1..stage :
          set[p] = Stages[s] /\ (Verified => (Ring(s) \subseteq Ring(stage) \/ AllSealed))
    BY DEF KeyInv, Settled
  <2>2. s \in 1..stage'
    BY <1>0, <2>0
  <2>3. AllSealed' <=> AllSealed
    BY <2>0 DEF AllSealed
  <2> QED BY <2>0, <2>1, <2>2, <2>3
<1>4. ASSUME set' = set, stage' = stage, AllSealed => AllSealed' PROVE Settled'
  BY <1>4 DEF KeyInv, Settled
<1>5. CASE UNCHANGED vars
  BY <1>4, <1>5 DEF vars, AllSealed
<1>6. CASE Next
  <2>1. CASE \E q \in Procs : Boot(q)
    BY <1>2, <2>1 DEF Settled, AllSealed
  <2>2. CASE Advance
    BY <1>3, <2>2
  <2>3. CASE set' = set /\ stage' = stage
    BY <1>1, <1>4, <1>6, <2>3
  <2> QED
    BY <1>6, <2>1, <2>2, <2>3 DEF Next, Load, FingerprintRead, FingerprintInsert,
       FingerprintPromote, ContextRead, ContextInsert, RowRead, RowInsert, Recover, Rewrite, Stop
<1> QED BY <1>5, <1>6

LEMMA KeyInvHolds == Spec => []KeyInv
<1>1. Init => KeyInv
  BY InitInv, SettledInit DEF KeyInv
<1>2. KeyInv /\ [Next]_vars => KeyInv'
  BY NextInv, SettledKept DEF KeyInv
<1> QED BY <1>1, <1>2, PTL DEF Spec

\* With forward rotations, what a keyring holds is no younger than its active master.
LEMMA KeyringOlder ==
    ASSUME RotatesForward, KeyInv, NEW p \in Procs, NEW k \in Keyring(p)
    PROVE  Rank(k) <= Rank(Active(p))
<1>1. PICK s \in 1..Len(Stages) : set[p] = Stages[s]
  BY Numbered DEF KeyInv, Settled, Inv, TypeOK
<1>2. CASE k \in set[p].old
  BY <1>1, <1>2 DEF RotatesForward, Active
<1>3. CASE k = Active(p)
  BY <1>3, RankType
<1> QED BY <1>2, <1>3 DEF Keyring, Active

\* A loader with older settings never puts a row back: a lost compare-and-swap
\* loses, and a won one goes from a master of its keyring to its active one.
THEOREM NoneDowngraded == RotatesForward /\ Spec => NoDowngrade
<1> SUFFICES ASSUME RotatesForward PROVE Spec => NoDowngrade
  OBVIOUS
<1>1. KeyInv /\ [Next]_vars
        => [\A n \in Ids : row[n].kind = "env" =>
              row'[n].kind = "env" /\ Rank(row[n].key) <= Rank(row'[n].key)]_row
  <2> SUFFICES ASSUME KeyInv, Next, NEW n \in Ids, row[n].kind = "env"
               PROVE  row'[n].kind = "env" /\ Rank(row[n].key) <= Rank(row'[n].key)
    BY DEF vars
  <2>1. CASE row'[n] = row[n]
    BY <2>1, RankType
  <2>2. ASSUME NEW p \in Procs, Swaps(p, n)
        PROVE  row'[n].kind = "env" /\ Rank(row[n].key) <= Rank(row'[n].key)
    <3>1. row[n].key \in Keyring(p) /\ row'[n].kind = "env" /\ row'[n].key = Active(p)
      BY <2>2 DEF Swaps, Sealed
    <3> QED BY <3>1, KeyringOlder
  <2>3. RowStep
    BY NextRows DEF KeyInv
  <2> QED BY <2>1, <2>2, <2>3 DEF RowStep, Inserts
<1> QED BY KeyInvHolds, <1>1, PTL DEF Spec, NoDowngrade

-----------------------------------------------------------------------------
\* Masters the operator has dropped.

RingInv == KeyInv /\ CurrentRingReads

LEMMA RingKept ==
    ASSUME Verified, DropsOldestFirst, RingInv, [Next]_vars
    PROVE  CurrentRingReads'
<1>0. stage \in 1..Len(Stages) /\ Len(Stages) \in Nat
  BY Numbered DEF RingInv, KeyInv, Inv, TypeOK
<1>1. CASE UNCHANGED vars
  BY <1>1 DEF RingInv, CurrentRingReads, vars
<1>2. CASE Advance
  <2>1. /\ \/ \A n \in Ids : row[n].kind = "env" /\ row[n].key \in Ring(stage + 1)
           \/ Ring(stage) \subseteq Ring(stage + 1)
        /\ stage' = stage + 1 /\ row' = row
    BY <1>2 DEF Advance, Dropped
  <2> QED BY <2>1 DEF RingInv, CurrentRingReads
<1>3. ASSUME Next, stage' = stage PROVE CurrentRingReads'
  <2> SUFFICES ASSUME NEW n \in Ids, row'[n].kind = "env" PROVE row'[n].key \in Ring(stage)
    BY <1>3 DEF CurrentRingReads
  <2>1. CASE row'[n] = row[n]
    BY <2>1 DEF RingInv, CurrentRingReads
  <2>2. ASSUME NEW p \in Procs, Inserts(p, n) \/ Swaps(p, n), row'[n] # row[n]
        PROVE  row'[n].key \in Ring(stage)
    <3>1. Active(p) # NoKey /\ row'[n].key = Active(p)
      <4>1. CASE Inserts(p, n)
        BY <4>1 DEF Inserts, Stored, Plain, Sealed, NoRow
      <4>2. CASE Swaps(p, n)
        BY <4>2 DEF Swaps, Sealed
      <4> QED BY <2>2, <4>1, <4>2
    <3>2. PICK s \in 1..stage :
            set[p] = Stages[s] /\ (Ring(s) \subseteq Ring(stage) \/ AllSealed)
      BY DEF RingInv, KeyInv, Settled
    <3>3. Active(p) \in Ring(s) /\ Keyring(p) = Ring(s)
      BY <3>1, <3>2 DEF Active, Ring, Keyring
    <3>4. CASE Ring(s) \subseteq Ring(stage)
      BY <3>1, <3>3, <3>4
    <3>5. CASE AllSealed
      <4>1. row[n].kind = "env" /\ row[n].key \in Ring(stage)
        BY <3>5 DEF AllSealed, RingInv, CurrentRingReads
      <4>2. row[n].key \in Ring(s)
        BY <2>2, <3>3, <4>1 DEF Inserts, Swaps
      <4>3. CASE s = stage
        BY <3>1, <3>3, <4>3
      <4>4. CASE s < stage
        BY <1>0, <3>1, <3>2, <4>1, <4>2, <4>4 DEF DropsOldestFirst, Active
      <4> QED BY <1>0, <4>3, <4>4
    <3> QED BY <3>2, <3>4, <3>5
  <2>3. RowStep
    BY <1>3, NextRows DEF RingInv, KeyInv
  <2> QED BY <2>1, <2>2, <2>3 DEF RowStep
<1> QED
  BY <1>1, <1>2, <1>3 DEF Next, Load, FingerprintRead, FingerprintInsert,
     FingerprintPromote, ContextRead, ContextInsert, RowRead, RowInsert, Recover, Rewrite, Boot,
     Stop

\* An operator who drops an old master when no row needs it never needs it again,
\* whatever loads with older settings are under way.
THEOREM DroppedStaysDropped == Verified /\ DropsOldestFirst /\ Spec => []CurrentRingReads
<1> SUFFICES ASSUME Verified, DropsOldestFirst PROVE Spec => []CurrentRingReads
  OBVIOUS
<1>1. Init => CurrentRingReads
  BY FirstsAssumption DEF Init, FirstsAssumption, CurrentRingReads
<1>2. KeyInv /\ CurrentRingReads /\ [Next]_vars => CurrentRingReads'
  BY RingKept DEF RingInv
<1> QED BY KeyInvHolds, <1>1, <1>2, PTL DEF Spec

-----------------------------------------------------------------------------
\* The fingerprint.

\* Places past the fingerprint check of a load under a master key.
Vouched == {"ctxread", "ctxinsert"} \cup AtRow

\* The fingerprint suits the settings of a stage.
Suits(s) == fp # NoKey /\ (Rank(Stages[s].active) <= Rank(fp) \/ fp \in Ring(s))

FitsFor(p) ==
  /\ pc[p] = "fpcas" => job[p].fp \in set[p].old
  /\ pc[p] \in Vouched \cup {"fpcas"} /\ Active(p) # NoKey =>
       \E s \in 1..Len(Stages) : set[p] = Stages[s] /\ Suits(s)

\* Nothing is sealed without a master.
Sealing == \A n \in Ids : row[n].kind = "env" => row[n].key # NoKey

FitInv == FingerprintFits /\ Sealing /\ \A p \in Procs : FitsFor(p)

\* How the fingerprint moves: recorded once, then promoted by whoever read it.
Promotes(p) == pc[p] = "fpcas" /\ fp = job[p].fp /\ fp' = Active(p)
Records(p) == pc[p] = "fpinsert" /\ fp = NoKey /\ fp' = Active(p)

LEMMA NextFingerprint ==
    ASSUME Next
    PROVE  fp' = fp \/ (row' = row /\ \E p \in Procs : Promotes(p) \/ Records(p))
<1>1. ASSUME NEW p \in Procs, FingerprintInsert(p)
      PROVE  fp' = fp \/ (row' = row /\ Records(p))
  BY <1>1 DEF FingerprintInsert, Records
<1>2. ASSUME NEW p \in Procs, FingerprintPromote(p)
      PROVE  fp' = fp \/ (row' = row /\ Promotes(p))
  BY <1>2 DEF FingerprintPromote, Promotes
<1>3. CASE fp' = fp
  BY <1>3
<1> QED
  BY <1>1, <1>2, <1>3 DEF Next, Load, FingerprintRead, ContextRead, ContextInsert, RowRead,
     RowInsert, Recover, Rewrite, Boot, Stop, Advance

\* It is never removed and never goes back to an older master.
LEMMA FingerprintRises ==
    ASSUME RotatesForward, KeyInv, FitInv, Next, fp # NoKey
    PROVE  fp' # NoKey /\ Rank(fp) <= Rank(fp')
<1>1. CASE fp' = fp
  BY <1>1, RankType
<1>2. ASSUME NEW p \in Procs, Promotes(p)
      PROVE  fp' # NoKey /\ Rank(fp) <= Rank(fp')
  <2>1. fp \in Keyring(p) /\ Active(p) # NoKey
    BY <1>2 DEF Promotes, FitInv, FitsFor, Keyring, KeyInv, Inv, Knows, Encrypting
  <2> QED BY <1>2, <2>1, KeyringOlder DEF Promotes
<1> QED BY <1>1, <1>2, NextFingerprint DEF Records

\* A promotion that wins leaves a fingerprint that suits whom it suited before: the
\* settings that lost read the winner's master, or it is as new as their own.
LEMMA SuitsStays ==
    ASSUME RotatesForward, DropsOldestFirst, KeyInv, FitInv, Next,
           NEW s \in 1..Len(Stages), Stages[s].active # NoKey, Suits(s)
    PROVE  Suits(s)'
<1>0. Rank(fp) \in Nat /\ Rank(fp') \in Nat /\ Rank(Stages[s].active) \in Nat
  BY RankType
<1>1. CASE fp' = fp
  BY <1>1 DEF Suits
<1>2. CASE Rank(Stages[s].active) <= Rank(fp)
  <2>1. fp' # NoKey /\ Rank(fp) <= Rank(fp')
    BY FingerprintRises DEF Suits
  <2> QED BY <1>0, <1>2, <2>1 DEF Suits
<1>3. ASSUME NEW p \in Procs, Promotes(p), fp \in Ring(s) PROVE Suits(s)'
  <2>1. /\ fp \in set[p].old /\ fp' = Active(p) /\ fp' # NoKey
    BY <1>3 DEF Promotes, FitInv, FitsFor, KeyInv, Inv, Knows, Encrypting
  <2>2. PICK t \in 1..Len(Stages) : set[p] = Stages[t]
    BY Numbered DEF KeyInv, Settled, Inv, TypeOK
  <2>3. fp' = Stages[t].active /\ fp \in Ring(t) /\ Ring(t) = Keyring(p)
    BY <2>1, <2>2 DEF Active, Ring, Keyring
  <2>4. CASE s = t
    BY <2>1, <2>3, <2>4 DEF Suits, Ring
  <2>5. CASE t < s
    <3>1. fp' \in Ring(s)
      BY <1>3, <2>1, <2>3, <2>5 DEF DropsOldestFirst
    <3> QED BY <2>1, <3>1 DEF Suits
  <2>6. CASE s < t
    <3>1. Stages[s].active \in Keyring(p)
      BY <1>3, <2>3, <2>6 DEF DropsOldestFirst
    <3>2. Rank(Stages[s].active) <= Rank(fp')
      BY <2>1, <3>1, KeyringOlder
    <3> QED BY <2>1, <3>2 DEF Suits
  <2> QED BY <2>4, <2>5, <2>6, Numbered
<1> QED BY <1>1, <1>2, <1>3, NextFingerprint DEF Suits, Records

\* What the fingerprint says for a process stays true of a step that is not its own.
LEMMA OthersFit ==
    ASSUME RotatesForward, DropsOldestFirst, KeyInv, FitInv, Next,
           NEW q \in Procs, pc'[q] = pc[q], job'[q] = job[q], set'[q] = set[q]
    PROVE  FitsFor(q)'
<1>1. FitsFor(q) /\ Active(q)' = Active(q)
  BY DEF FitInv, Active
<1>2. ASSUME NEW s \in 1..Len(Stages), set[q] = Stages[s], Suits(s), Active(q) # NoKey
      PROVE  Suits(s)'
  BY <1>2, SuitsStays DEF Active
<1> QED BY <1>1, <1>2 DEF FitsFor

LEMMA LoadFits ==
    ASSUME RotatesForward, DropsOldestFirst, KeyInv, FitInv, NEW p \in Procs,
           Load(p) \/ Boot(p) \/ Stop(p)
    PROVE  FitsFor(p)'
<1>0. Next /\ Inv /\ TypeOK /\ Knows(p) /\ FitsFor(p)
  BY DEF Next, KeyInv, Inv, FitInv
<1>s. PICK s \in 1..Len(Stages) : set[p] = Stages[s]
  BY Numbered DEF KeyInv, Settled, Inv, TypeOK
<1>a. Active(p) = Stages[s].active /\ Keyring(p) = Ring(s)
  BY <1>s DEF Active, Keyring, Ring
\* A step on the way stays past the check; the end of a load, a failure, a boot
\* and a stop leave all of it, unless there is no master key.
<1>1. ASSUME Suits(s), Active(p) # NoKey, set' = set, pc'[p] # "fpcas" PROVE FitsFor(p)'
  <2>1. Suits(s)'
    BY <1>0, <1>a, <1>1, SuitsStays
  <2> QED BY <1>s, <1>1, <2>1 DEF FitsFor
<1>3. ASSUME pc[p] \in Vouched \cup {"fpcas"}, pc'[p] # "fpcas", set' = set PROVE FitsFor(p)'
  <2>1. CASE Active(p) = NoKey
    BY <1>3, <2>1 DEF FitsFor, Active
  <2>2. CASE Active(p) # NoKey
    <3>1. PICK t \in 1..Len(Stages) : set[p] = Stages[t] /\ Suits(t)
      BY <1>0, <1>3, <2>2 DEF FitsFor
    <3>2. Suits(t)'
      BY <1>0, <2>2, <3>1, SuitsStays DEF Active
    <3> QED BY <1>3, <3>1, <3>2 DEF FitsFor
  <2> QED BY <2>1, <2>2
<1>4. ASSUME pc'[p] \notin Vouched \cup {"fpcas"} PROVE FitsFor(p)'
  BY <1>4 DEF FitsFor
<1>5. ASSUME Fail(p) PROVE FitsFor(p)'
  BY <1>0, <1>4, <1>5 DEF Fail, Goto, TypeOK, Vouched, AtRow
<1>7. CASE FingerprintRead(p)
  <2>0. Active(p) # NoKey /\ fp' = fp /\ set' = set
    BY <1>0, <1>7 DEF FingerprintRead, Knows, Encrypting
  <2>1. CASE fp = NoKey /\ Goto(p, "fpinsert") /\ UNCHANGED <<job, mem, touched>>
    BY <1>0, <1>4, <2>1 DEF Goto, TypeOK, Vouched, AtRow
  <2>2. CASE fp = Active(p) /\ Goto(p, "ctxread") /\ UNCHANGED <<job, mem, touched>>
    <3>1. Suits(s) /\ pc'[p] # "fpcas"
      BY <1>0, <1>a, <2>0, <2>2, RankType DEF Suits, Goto, TypeOK
    <3> QED BY <1>1, <2>0, <3>1
  <2>3. CASE /\ fp \in Keyring(p) \ {Active(p)}
             /\ Goto(p, "fpcas")
             /\ job' = [job EXCEPT ![p].fp = fp]
    <3>1. job'[p].fp = fp
      BY <1>0, <2>3 DEF TypeOK, Job
    <3>2. fp \in set[p].old /\ fp # NoKey /\ fp \in Ring(s)
      BY <1>s, <1>a, <2>0, <2>3, ParamsAssumption, Numbered DEF Keyring, Active
    <3>3. Suits(s)'
      BY <2>0, <3>2 DEF Suits
    <3> QED BY <1>s, <2>0, <3>1, <3>2, <3>3 DEF FitsFor
  <2> QED BY <1>5, <1>7, <2>1, <2>2, <2>3 DEF FingerprintRead
<1>8. CASE FingerprintInsert(p)
  <2>1. CASE Fail(p)
    BY <1>5, <2>1
  <2>2. CASE fp' = Active(p) /\ Goto(p, "ctxread") /\ UNCHANGED <<job, mem, touched>>
    <3>1. Active(p) # NoKey /\ set' = set /\ pc'[p] = "ctxread"
      BY <1>0, <1>8, <2>2 DEF FingerprintInsert, Knows, Encrypting, Goto, TypeOK
    <3>2. Suits(s)'
      BY <1>a, <2>2, <3>1, RankType DEF Suits
    <3> QED BY <1>s, <3>1, <3>2 DEF FitsFor
  <2> QED BY <1>8, <2>1, <2>2 DEF FingerprintInsert
<1>9. CASE FingerprintPromote(p)
  BY <1>0, <1>3, <1>9 DEF FingerprintPromote, Goto, TypeOK
<1>10. CASE ContextRead(p) \/ ContextInsert(p)
  <2>1. pc[p] \in Vouched /\ pc'[p] # "fpcas" /\ set' = set
    BY <1>0, <1>10 DEF ContextRead, ContextInsert, Goto, TypeOK, Vouched, AtRow
  <2> QED BY <1>3, <2>1
<1>11. CASE RowRead(p) \/ RowInsert(p) \/ Recover(p) \/ Rewrite(p)
  <2>1. /\ pc[p] \in Vouched /\ set' = set
        /\ \/ Fail(p) \/ (\E v : Return(p, v))
           \/ Goto(p, "rowinsert") \/ Goto(p, "rewrite") \/ Goto(p, "recover")
    BY <1>11 DEF RowRead, RowInsert, Recover, Rewrite, Vouched, AtRow
  <2>2. pc'[p] # "fpcas"
    BY <1>0, <2>1 DEF Fail, Return, Goto, Entry, TypeOK
  <2> QED BY <1>3, <2>1, <2>2
<1>12. CASE Boot(p)
  <2>1. /\ Active(p)' = Stages[stage].active
        /\ pc'[p] = IF Stages[stage].active = NoKey THEN "rowread" ELSE "fpread"
    BY <1>0, <1>12 DEF Boot, Active, Goto, TypeOK
  <2> QED BY <2>1 DEF FitsFor, Vouched, AtRow
<1>13. CASE Stop(p)
  BY <1>0, <1>4, <1>13 DEF Stop, Goto, TypeOK, Vouched, AtRow
<1> QED
  BY <1>7, <1>8, <1>9, <1>10, <1>11, <1>12, <1>13 DEF Load

LEMMA RowsFit ==
    ASSUME RotatesForward, DropsOldestFirst, KeyInv, FitInv, Next
    PROVE  FingerprintFits' /\ Sealing'
<1> SUFFICES ASSUME NEW n \in Ids, row'[n].kind = "env"
             PROVE  /\ fp' # NoKey /\ row'[n].key # NoKey
                    /\ \/ Rank(row'[n].key) <= Rank(fp')
                       \/ \E s \in 1..Len(Stages) : Stages[s].active = row'[n].key /\ fp' \in Ring(s)
  BY DEF FingerprintFits, Sealing, Ring
<1>0. Rank(fp) \in Nat /\ Rank(fp') \in Nat /\ Rank(row'[n].key) \in Nat
  BY RankType
<1>s. ASSUME NEW s \in 1..Len(Stages), Stages[s].active = row'[n].key, Stages[s].active # NoKey,
             Suits(s)
      PROVE  /\ fp' # NoKey
             /\ Rank(row'[n].key) <= Rank(fp') \/ fp' \in Ring(s)
  BY <1>s, SuitsStays DEF Suits, Ring
<1>1. CASE row'[n] = row[n] /\ Rank(row[n].key) <= Rank(fp)
  <2>1. fp # NoKey /\ row[n].key # NoKey
    BY <1>1 DEF FitInv, FingerprintFits, Sealing
  <2> QED BY <1>0, <1>1, <2>1, FingerprintRises
<1>2. CASE row'[n] = row[n] /\ ~(Rank(row[n].key) <= Rank(fp))
  <2>1. fp # NoKey /\ row[n].key # NoKey
    BY <1>2 DEF FitInv, FingerprintFits, Sealing
  <2>2. PICK s \in 1..Len(Stages) : Stages[s].active = row[n].key /\ fp \in Ring(s)
    BY <1>2 DEF FitInv, FingerprintFits
  <2> QED BY <1>s, <1>2, <2>1, <2>2 DEF Suits
<1>3. ASSUME NEW p \in Procs, Inserts(p, n) \/ Swaps(p, n)
      PROVE  /\ fp' # NoKey /\ row'[n].key # NoKey
             /\ \/ Rank(row'[n].key) <= Rank(fp')
                \/ \E s \in 1..Len(Stages) : Stages[s].active = row'[n].key /\ fp' \in Ring(s)
  <2>1. Active(p) # NoKey /\ row'[n].key = Active(p) /\ pc[p] \in Vouched
    <3>1. CASE Inserts(p, n)
      BY <3>1 DEF Inserts, Stored, Plain, Sealed, NoRow, Vouched, AtRow
    <3>2. CASE Swaps(p, n)
      BY <3>2 DEF Swaps, Sealed, Vouched, AtRow
    <3> QED BY <1>3, <3>1, <3>2
  <2>2. PICK s \in 1..Len(Stages) : set[p] = Stages[s] /\ Suits(s)
    BY <2>1 DEF FitInv, FitsFor
  <2> QED BY <1>s, <2>1, <2>2 DEF Active
<1> QED BY <1>1, <1>2, <1>3, NextRows DEF RowStep, KeyInv

LEMMA FitKept ==
    ASSUME RotatesForward, DropsOldestFirst, KeyInv, FitInv, [Next]_vars
    PROVE  FitInv'
<1>1. CASE UNCHANGED vars
  BY <1>1 DEF vars, FitInv, FingerprintFits, Sealing, FitsFor, Suits, Active, Ring
<1>2. ASSUME Next PROVE FitInv'
  <2>1. ASSUME NEW p \in Procs, Load(p) \/ Boot(p) \/ Stop(p), NEW q \in Procs
        PROVE  FitsFor(q)'
    <3>1. CASE q = p
      BY <2>1, <3>1, LoadFits
    <3>2. CASE q # p
      BY <1>2, <2>1, <3>2, LoadLocal, OthersFit DEF KeyInv
    <3> QED BY <3>1, <3>2
  <2>2. ASSUME Advance, NEW q \in Procs PROVE FitsFor(q)'
    BY <1>2, <2>2, OthersFit DEF Advance
  <2> QED BY <1>2, <2>1, <2>2, RowsFit DEF Next, FitInv
<1> QED BY <1>1, <1>2

\* However many old masters stand beside the active one, and whatever promotions
\* lose or fail, the fingerprint suits the settings each row was sealed under
\* (verifyOrWriteFingerprint).
THEOREM Fits == RotatesForward /\ DropsOldestFirst /\ Spec => []FingerprintFits
<1> SUFFICES ASSUME RotatesForward, DropsOldestFirst PROVE Spec => []FingerprintFits
  OBVIOUS
<1>1. Init => FitInv
  <2>1. \A s \in 1..Len(Stages) : NoKey \notin Ring(s)
    BY ParamsAssumption, Numbered DEF Ring
  <2> QED
    BY <2>1, FirstsAssumption
    DEF Init, FirstsAssumption, FitInv, FingerprintFits, Sealing, FitsFor, Vouched, AtRow
<1>2. KeyInv /\ FitInv /\ [Next]_vars => FitInv'
  BY FitKept
<1>3. FitInv => FingerprintFits
  BY DEF FitInv
<1> QED BY KeyInvHolds, <1>1, <1>2, <1>3, PTL DEF Spec
=============================================================================
