----------------------------- MODULE Discovery -----------------------------
(***************************************************************************)
(* The scopes a provider advertises. Instance.metadata.ScopesSupported is  *)
(* a Go slice that grows while protected resources register (instance.go)  *)
(* and that the two discovery documents read (oauth2.go):                  *)
(*                                                                         *)
(*   /.well-known/oauth-authorization-server returns a copy of the struct  *)
(*   made under inst.mu; /.well-known/openid-configuration returns the     *)
(*   pointer, and handleJSON encodes it after inst.mu.RUnlock.             *)
(*                                                                         *)
(* A slice is a header, here the words `arr' and `len', and an array. An   *)
(* append writes the element, into the array or into a new one of twice    *)
(* the capacity, and then the changed words of the header. The order of    *)
(* these words is the compiler's, and a reader without the lock can see    *)
(* any of them.                                                            *)
(***************************************************************************)
EXTENDS Naturals, Sequences, FiniteSets, SequencesExt

CONSTANTS
    Base,        \* ScopesSupported as buildProviderMetadata makes it, a sequence
    Resources,   \* protected resources, one registration each
    ScopesOf,    \* [Resources -> Seq(scope)]
    Readers,     \* requests of a discovery document
    Loader,      \* the goroutine that runs loadParams
    Nobody,
    Garbage      \* whatever lies behind an array, or was never written

Writers == Resources \union {Loader}
Scopes  == ToSet(Base) \union UNION {ToSet(ScopesOf[r]) : r \in Resources}

ASSUME DiscoveryAssumption ==
    /\ Base \in Seq(Scopes) /\ Base # <<>>
    /\ ScopesOf \in [Resources -> Seq(Scopes)]
    /\ Loader \notin Resources /\ Nobody \notin Writers
    /\ Garbage \notin Scopes

\* Go doubles the capacity of a small slice; a literal's is its length.
Capacity(arr) == Len(Base) * 2^(arr - 1)

VARIABLES
    mu,         \* the writer that holds inst.mu, or Nobody
    published,  \* inst.metadata # nil
    header,     \* the words of ScopesSupported
    heap,       \* the arrays so far, each with what was written into it
    protected,  \* inst.protected
    pending,    \* resources that the loop of loadParams has not come to yet
    pc, todo,   \* of a writer: where it is, the scopes left to merge
    goal,       \* of a writer: the header its append will have written
    read        \* of a reader: the document, the header it copied and what that
                \* stood for, the elements left to encode and those encoded

vars == <<mu, published, header, heap, protected, pending, pc, todo, goal, read>>

Words == {"arr", "len"}
ElementAt(arr, i) == IF i \in DOMAIN heap[arr] THEN heap[arr][i] ELSE Garbage
Slice(h) == [i \in 1 .. h.len |-> ElementAt(h.arr, i)]
NotAsked == [doc |-> "none", from |-> [arr |-> 1, len |-> 0], seen |-> <<>>, left |-> 0,
             out |-> <<>>]

Init ==
    /\ mu = Nobody
    /\ published = FALSE
    /\ header = [arr |-> 1, len |-> Len(Base)]
    /\ heap = <<Base>>
    /\ protected = {} /\ pending = {}
    /\ pc = [w \in Writers |-> "start"]
    /\ todo = [w \in Writers |-> <<>>]
    /\ goal = [w \in Writers |-> header]
    /\ read = [r \in Readers |-> NotAsked]

-----------------------------------------------------------------------------
Lock(w) == mu = Nobody /\ mu' = w

\* Bug: whether the metadata exist is looked at before the lock is taken.
RegisterEarlyLook(r) ==
    \/ /\ pc[r] = "start"
       /\ todo' = [todo EXCEPT ![r] = IF published THEN ScopesOf[r] ELSE <<>>]
       /\ pc' = [pc EXCEPT ![r] = "looked"]
       /\ UNCHANGED <<mu, published, header, heap, protected, pending, goal, read>>
    \/ /\ pc[r] = "looked" /\ Lock(r)
       /\ protected' = protected \union {r}
       /\ pc' = [pc EXCEPT ![r] = "merge"]
       /\ UNCHANGED <<published, header, heap, pending, todo, goal, read>>

\* RegisterProtectedResourceMetadata: the lock, the entry, and the merge when
\* there are metadata to merge into.
Register(r) ==
    /\ pc[r] = "start" /\ Lock(r)
    /\ protected' = protected \union {r}
    /\ todo' = [todo EXCEPT ![r] = IF published THEN ScopesOf[r] ELSE <<>>]
    /\ pc' = [pc EXCEPT ![r] = "merge"]
    /\ UNCHANGED <<published, header, heap, pending, goal, read>>

\* loadParams: the metadata are published and every resource that came before
\* is merged, in the order of a map iteration.
LoadParams ==
    /\ pc[Loader] = "start" /\ Lock(Loader)
    /\ published' = TRUE
    /\ pending' = protected
    /\ pc' = [pc EXCEPT ![Loader] = "merge"]
    /\ UNCHANGED <<header, heap, protected, todo, goal, read>>

NextResource ==
    /\ pc[Loader] = "merge" /\ todo[Loader] = <<>>
    /\ \E r \in pending :
         /\ pending' = pending \ {r}
         /\ todo' = [todo EXCEPT ![Loader] = ScopesOf[r]]
    /\ UNCHANGED <<mu, published, header, heap, protected, pc, goal, read>>

\* mergeProtectedScopes: a scope that is not contained is appended.
Contained(w) == Head(todo[w]) \in ToSet(Slice(header))

MergeSkip(w) ==
    /\ pc[w] = "merge" /\ todo[w] # <<>> /\ Contained(w)
    /\ todo' = [todo EXCEPT ![w] = Tail(@)]
    /\ UNCHANGED <<mu, published, header, heap, protected, pending, pc, goal, read>>

\* append, first half: the element, in place or in a new array.
AppendElement(w) ==
    /\ pc[w] = "merge" /\ todo[w] # <<>> /\ ~Contained(w)
    /\ LET longer == Append(Slice(header), Head(todo[w]))
           room == header.len < Capacity(header.arr)
           arr == IF room THEN header.arr ELSE Len(heap) + 1
       IN  /\ heap' = IF room THEN [heap EXCEPT ![arr] = longer] ELSE Append(heap, longer)
           /\ goal' = [goal EXCEPT ![w] = [arr |-> arr, len |-> header.len + 1]]
    /\ pc' = [pc EXCEPT ![w] = "append"]
    /\ UNCHANGED <<mu, published, header, protected, pending, todo, read>>

\* append, second half: the words of the header that change, in any order.
AppendWord(w) ==
    /\ pc[w] = "append"
    /\ \E word \in Words :
         /\ header[word] # goal[w][word]
         /\ header' = [header EXCEPT ![word] = goal[w][word]]
    /\ IF header' = goal[w]
         THEN /\ pc' = [pc EXCEPT ![w] = "merge"]
              /\ todo' = [todo EXCEPT ![w] = Tail(@)]
         ELSE UNCHANGED <<pc, todo>>
    /\ UNCHANGED <<mu, published, heap, protected, pending, goal, read>>

Unlock(w) ==
    /\ pc[w] = "merge" /\ todo[w] = <<>> /\ (w = Loader => pending = {})
    /\ mu' = Nobody
    /\ pc' = [pc EXCEPT ![w] = "done"]
    /\ UNCHANGED <<published, header, heap, protected, pending, todo, goal, read>>

-----------------------------------------------------------------------------
\* Bug: the getter does not take the lock.
GetCopyUnlocked(r) ==
    /\ read[r].doc = "none" /\ published
    /\ read' = [read EXCEPT ![r] = [doc |-> "copy", from |-> header, seen |-> Slice(header),
                                    left |-> header.len, out |-> <<>>]]
    /\ UNCHANGED <<mu, published, header, heap, protected, pending, pc, todo, goal>>

\* The getter of /.well-known/oauth-authorization-server, under inst.mu.RLock:
\* the struct it returns holds the header. Routes exist once the metadata do.
GetCopy(r) ==
    /\ read[r].doc = "none" /\ published /\ mu = Nobody
    /\ read' = [read EXCEPT ![r] = [doc |-> "copy", from |-> header, seen |-> Slice(header),
                                    left |-> header.len, out |-> <<>>]]
    /\ UNCHANGED <<mu, published, header, heap, protected, pending, pc, todo, goal>>

\* The getter of /.well-known/openid-configuration returns the pointer.
GetPointer(r) ==
    /\ read[r].doc = "none" /\ published /\ mu = Nobody
    /\ read' = [read EXCEPT ![r] = [NotAsked EXCEPT !.doc = "pointer"]]
    /\ UNCHANGED <<mu, published, header, heap, protected, pending, pc, todo, goal>>

\* The encoder asks for the length and then for one element after another; of
\* the pointer's header it reads the words anew each time.
EncodeLength(r) ==
    /\ read[r].doc = "pointer"
    /\ read' = [read EXCEPT ![r].doc = "list", ![r].left = header.len]
    /\ UNCHANGED <<mu, published, header, heap, protected, pending, pc, todo, goal>>

EncodeElement(r) ==
    /\ read[r].doc \in {"copy", "list"} /\ read[r].left > 0
    /\ LET arr == IF read[r].doc = "copy" THEN read[r].from.arr ELSE header.arr
       IN  read' = [read EXCEPT ![r].out = Append(@, ElementAt(arr, Len(@) + 1)),
                                ![r].left = @ - 1]
    /\ UNCHANGED <<mu, published, header, heap, protected, pending, pc, todo, goal>>

Respond(r) ==
    /\ read[r].doc \in {"copy", "list"} /\ read[r].left = 0
    /\ read' = [read EXCEPT ![r] = NotAsked]
    /\ UNCHANGED <<mu, published, header, heap, protected, pending, pc, todo, goal>>

-----------------------------------------------------------------------------
Write == \/ LoadParams \/ NextResource
         \/ \E r \in Resources : Register(r)
         \/ \E w \in Writers : MergeSkip(w) \/ AppendElement(w) \/ AppendWord(w) \/ Unlock(w)

Read(r) == GetCopy(r) \/ GetPointer(r) \/ EncodeLength(r) \/ EncodeElement(r) \/ Respond(r)

Next == Write \/ \E r \in Readers : Read(r)

Spec == Init /\ [][Next]_vars

-----------------------------------------------------------------------------
Headers == [arr : Nat, len : Nat]

TypeOK ==
    /\ mu \in Writers \union {Nobody}
    /\ published \in BOOLEAN
    /\ header \in Headers
    /\ heap \in Seq(Seq(Scopes))
    /\ protected \subseteq Resources /\ pending \subseteq Resources
    /\ pc \in [Writers -> {"start", "merge", "append", "done"}]
    /\ todo \in [Writers -> Seq(Scopes)]
    /\ goal \in [Writers -> Headers]
    /\ read \in [Readers -> [doc : {"none", "copy", "pointer", "list"}, from : Headers,
                             seen : Seq(Scopes \union {Garbage}), left : Nat,
                             out : Seq(Scopes \union {Garbage})]]

\* "Merge any pre-bootstrap protected-resource scope registrations that arrived
\* before inst.metadata existed" (oauth2.go): whichever of a registration and
\* loadParams comes first, no scope of a registered resource is lost.
EveryScopeAdvertised ==
    published /\ mu = Nobody =>
        \A r \in protected : ToSet(ScopesOf[r]) \subseteq ToSet(Slice(header))

\* The copy made under inst.mu stays what it was after the unlock, although
\* later appends may write into the array it points to.
CopyIsConsistent ==
    \A r \in Readers :
        read[r].doc = "copy" =>
            Garbage \notin ToSet(read[r].seen) /\ IsPrefix(read[r].out, read[r].seen)

-----------------------------------------------------------------------------
\* What the documentation says and the code does not do. No listed run checks
\* these; the README tells how TLC refutes each.

\* mergeProtectedScopes: "Caller must hold inst.mu (or otherwise own metadata)"
\* (instance.go), and the getters take inst.mu.RLock: a discovery document lists
\* scopes of the provider and nothing else.
DocumentListsScopes ==
    \A r \in Readers : Garbage \notin ToSet(read[r].out)
=============================================================================
