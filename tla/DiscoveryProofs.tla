--------------------------- MODULE DiscoveryProofs ---------------------------
(***************************************************************************)
(* The promises of Discovery, for any number of protected resources and    *)
(* readers and any lists of scopes.                                        *)
(*                                                                         *)
(* Between appends the slice is the whole of its array (Whole); an append  *)
(* has put its element into the array it leads to before a word of the     *)
(* header changes (Leads); so what was merged is in the array that the     *)
(* writer goes by (Current), and what was not is still on its list         *)
(* (Merged). An array is only ever extended, which is why a copied header  *)
(* keeps its meaning (Copied).                                             *)
(***************************************************************************)
EXTENDS Discovery, TLAPS

Appending(w) == pc[w] = "append"

\* Who holds inst.mu is between the lock and the unlock, and nobody else is.
Locked == \A w \in Writers : pc[w] \in {"merge", "append"} <=> mu = w

\* The words of the header are indices at any time, also to a reader without lock.
Indexed ==
    /\ header.arr \in 1 .. Len(heap)
    /\ \A w \in Writers : Appending(w) => goal[w].arr \in 1 .. Len(heap)

Whole == (\A w \in Writers : ~Appending(w)) => header.len = Len(heap[header.arr])

Leads ==
    \A w \in Writers : Appending(w) =>
        /\ goal[w].len = Len(heap[goal[w].arr])
        /\ todo[w] # <<>>
        /\ Head(todo[w]) \in ToSet(heap[goal[w].arr])

\* The array that the next append will extend.
Current == IF mu \in Writers /\ Appending(mu) THEN heap[goal[mu].arr] ELSE heap[header.arr]

\* A scope of a registered resource is advertised or still to be merged.
Merged ==
    published =>
      \A r \in protected, s \in Scopes :
        s \in ToSet(ScopesOf[r]) =>
          \/ s \in ToSet(Current)
          \/ mu \in Writers /\ s \in ToSet(todo[mu])
          \/ mu = Loader /\ r \in pending

\* What a copied header stood for stays in its array, and is what gets encoded.
Copied ==
    \A r \in Readers : read[r].doc = "copy" =>
        LET c == read[r] IN
        /\ c.from.arr \in 1 .. Len(heap) /\ c.from.len <= Len(heap[c.from.arr])
        /\ Len(c.seen) = c.from.len /\ Garbage \notin ToSet(c.seen)
        /\ \A i \in 1 .. c.from.len : c.seen[i] = heap[c.from.arr][i]
        /\ Len(c.out) + c.left = c.from.len
        /\ \A i \in 1 .. Len(c.out) : c.out[i] = c.seen[i]

Inv == TypeOK /\ Locked /\ Indexed /\ Whole /\ Leads /\ Merged /\ Copied

-----------------------------------------------------------------------------
\* Sequences.

LEMMA ExtendedSet ==
    ASSUME NEW S, NEW s \in Seq(S), NEW x \in S
    PROVE  /\ Append(s, x) \in Seq(S) /\ Len(Append(s, x)) = Len(s) + 1
           /\ \A i \in 1 .. Len(s) : Append(s, x)[i] = s[i]
           /\ ToSet(Append(s, x)) = ToSet(s) \union {x}
<1>1. /\ Append(s, x) \in Seq(S) /\ Len(Append(s, x)) = Len(s) + 1
      /\ \A i \in 1 .. Len(s) : Append(s, x)[i] = s[i]
      /\ Append(s, x)[Len(s) + 1] = x
  OBVIOUS
<1>2. DOMAIN Append(s, x) = 1 .. Len(s) + 1 /\ DOMAIN s = 1 .. Len(s) /\ Len(s) \in Nat
  OBVIOUS
<1> DEFINE t == Append(s, x)
<1> HIDE DEF t
<1>3. ToSet(t) = ToSet(s) \union {x}
  BY <1>1, <1>2 DEF ToSet, t
<1> QED BY <1>1, <1>3 DEF t

LEMMA HeadTail ==
    ASSUME NEW S, NEW s \in Seq(S), s # <<>>
    PROVE  /\ Head(s) \in S /\ Tail(s) \in Seq(S)
           /\ ToSet(s) \subseteq {Head(s)} \union ToSet(Tail(s))
           /\ Head(s) \in ToSet(s)
<1>1. /\ Head(s) = s[1] /\ Tail(s) \in Seq(S) /\ Len(s) \in Nat /\ Len(s) >= 1
      /\ Len(Tail(s)) = Len(s) - 1 /\ DOMAIN s = 1 .. Len(s)
      /\ DOMAIN Tail(s) = 1 .. Len(s) - 1
      /\ \A i \in 1 .. Len(s) - 1 : Tail(s)[i] = s[i + 1]
  OBVIOUS
<1>2. ASSUME NEW i \in 1 .. Len(s) PROVE s[i] \in {Head(s)} \union ToSet(Tail(s))
  <2>1. CASE i = 1
    BY <1>1, <2>1
  <2>2. CASE i # 1
    <3>1. i - 1 \in 1 .. Len(s) - 1 /\ (i - 1) + 1 = i
      BY <1>1, <2>2
    <3>2. Tail(s)[i - 1] = s[i] /\ i - 1 \in DOMAIN Tail(s)
      BY <1>1, <3>1
    <3> QED BY <3>2 DEF ToSet
  <2> QED BY <2>1, <2>2
<1>3. 1 \in 1 .. Len(s)
  BY <1>1
<1> QED BY <1>1, <1>2, <1>3 DEF ToSet

LEMMA EmptySet == ToSet(<<>>) = {}
BY DEF ToSet

LEMMA PrefixByElements ==
    ASSUME NEW S, NEW s \in Seq(S), NEW t \in Seq(S), Len(s) <= Len(t),
           \A i \in 1 .. Len(s) : s[i] = t[i]
    PROVE  IsPrefix(s, t)
<1>1. /\ Len(s) \in Nat /\ Len(t) \in Nat
  OBVIOUS
<1>2. SubSeq(s, 1, Len(s)) = SubSeq(t, 1, Len(s))
  BY <1>1
<1> QED BY <1>2 DEF IsPrefix

\* A slice that is the whole of its array.
LEMMA WholeSlice ==
    ASSUME TypeOK, Indexed, header.len = Len(heap[header.arr])
    PROVE  Slice(header) = heap[header.arr] /\ heap[header.arr] \in Seq(Scopes)
<1>1. heap[header.arr] \in Seq(Scopes) /\ header.len \in Nat
  BY DEF TypeOK, Indexed, Headers
<1> DEFINE a == heap[header.arr]
<1>2. DOMAIN a = 1 .. header.len /\ a = [i \in 1 .. Len(a) |-> a[i]] /\ Len(a) = header.len
  BY <1>1
<1>3. \A i \in 1 .. header.len : ElementAt(header.arr, i) = a[i]
  BY <1>2 DEF ElementAt
<1> HIDE DEF a
<1>4. Slice(header) = [i \in 1 .. header.len |-> a[i]]
  BY <1>3 DEF Slice
<1>5. Slice(header) = a
  BY <1>2, <1>4
<1> QED BY <1>1, <1>5 DEF a

\* The scopes of the configuration are scopes.
LEMMA ScopesTyped ==
    ASSUME NEW r \in Resources
    PROVE  ScopesOf[r] \in Seq(Scopes) /\ ToSet(ScopesOf[r]) \subseteq Scopes
<1>1. ScopesOf[r] \in Seq(Scopes)
  BY DiscoveryAssumption
<1>2. \A i \in DOMAIN ScopesOf[r] : ScopesOf[r][i] \in Scopes
  BY <1>1
<1> QED BY <1>1, <1>2 DEF ToSet

-----------------------------------------------------------------------------
\* The writers.

\* While one writer holds the lock, no other one appends.
LEMMA OneWriter ==
    ASSUME Locked, NEW w \in Writers, pc[w] = "merge"
    PROVE  mu = w /\ (\A v \in Writers : ~Appending(v)) /\ Current = heap[header.arr]
BY DEF Locked, Appending, Current

LEMMA NobodyWrites ==
    ASSUME Locked, mu = Nobody
    PROVE  (\A v \in Writers : ~Appending(v)) /\ Current = heap[header.arr]
BY DiscoveryAssumption DEF Locked, Appending, Current

LEMMA WrittenRead ==
    ASSUME TypeOK, Copied, heap' = heap, read' = read PROVE Copied'
BY DEF Copied

LEMMA RegisterInv == ASSUME Inv, NEW r \in Resources, Register(r) PROVE Inv'
<1>a. /\ TypeOK /\ Locked /\ Indexed /\ Whole /\ Leads /\ Merged /\ Copied
      /\ r \in Writers /\ mu = Nobody /\ mu' = r /\ pc[r] = "start" /\ Nobody \notin Writers
      /\ UNCHANGED <<published, header, heap, pending, goal, read>>
      /\ pc' = [pc EXCEPT ![r] = "merge"] /\ protected' = protected \union {r}
      /\ todo' = [todo EXCEPT ![r] = IF published THEN ScopesOf[r] ELSE <<>>]
  BY DiscoveryAssumption DEF Inv, Register, Lock, Writers
<1>1. TypeOK'
  <2>1. (IF published THEN ScopesOf[r] ELSE <<>>) \in Seq(Scopes)
    BY ScopesTyped
  <2> QED BY <1>a, <2>1 DEF TypeOK
<1>2. /\ \A w \in Writers : Appending(w)' = Appending(w)
      /\ \A w \in Writers : ~Appending(w)
  BY <1>a, NobodyWrites DEF Appending, TypeOK
<1>3. Locked'
  BY <1>a DEF Locked, TypeOK
<1>4. Indexed' /\ Whole' /\ Leads'
  BY <1>a, <1>2 DEF Indexed, Whole, Leads
<1>5. Merged'
  <2> SUFFICES ASSUME published, NEW q \in protected', NEW x \in Scopes, x \in ToSet(ScopesOf[q])
               PROVE  x \in ToSet(Current') \/ x \in ToSet(todo'[r])
    BY <1>a DEF Merged
  <2>1. Current' = heap[header.arr] /\ Current = heap[header.arr]
    BY <1>a, <1>2, NobodyWrites DEF Current
  <2>2. CASE q = r
    BY <1>a, <2>2 DEF TypeOK
  <2>3. CASE q # r
    BY <1>a, <2>1, <2>3, DiscoveryAssumption DEF Merged, Writers
  <2> QED BY <2>2, <2>3
<1>6. Copied'
  BY <1>a, WrittenRead
<1> QED BY <1>1, <1>3, <1>4, <1>5, <1>6 DEF Inv

LEMMA LoadInv == ASSUME Inv, LoadParams PROVE Inv'
<1>a. /\ TypeOK /\ Locked /\ Indexed /\ Whole /\ Leads /\ Copied
      /\ Loader \in Writers /\ mu = Nobody /\ mu' = Loader /\ pc[Loader] = "start"
      /\ Nobody \notin Writers /\ UNCHANGED <<header, heap, protected, todo, goal, read>>
      /\ pc' = [pc EXCEPT ![Loader] = "merge"] /\ pending' = protected /\ published' = TRUE
  BY DiscoveryAssumption DEF Inv, LoadParams, Lock, Writers
<1>1. TypeOK'
  BY <1>a DEF TypeOK
<1>2. /\ \A w \in Writers : Appending(w)' = Appending(w)
      /\ \A w \in Writers : ~Appending(w)
  BY <1>a, NobodyWrites DEF Appending, TypeOK
<1>3. Locked'
  BY <1>a DEF Locked, TypeOK
<1>4. Indexed' /\ Whole' /\ Leads'
  BY <1>a, <1>2 DEF Indexed, Whole, Leads
<1>5. Merged'
  BY <1>a DEF Merged
<1>6. Copied'
  BY <1>a, WrittenRead
<1> QED BY <1>1, <1>3, <1>4, <1>5, <1>6 DEF Inv

\* The writer goes on, without a word or an element written.
LEMMA GoOnInv ==
    ASSUME Inv, NEW w \in Writers, pc[w] = "merge",
           UNCHANGED <<mu, published, header, heap, protected, pc, goal, read>>,
           TypeOK', Merged'
    PROVE  Inv'
<1>a. TypeOK /\ Locked /\ Indexed /\ Whole /\ Leads /\ Copied
  BY DEF Inv
<1>1. \A v \in Writers : ~Appending(v)' /\ ~Appending(v)
  BY <1>a, OneWriter DEF Appending
<1>2. Locked' /\ Indexed' /\ Whole' /\ Leads'
  BY <1>a, <1>1 DEF Locked, Indexed, Whole, Leads
<1> QED BY <1>a, <1>2, WrittenRead DEF Inv

LEMMA NextResourceInv == ASSUME Inv, NextResource PROVE Inv'
<1>a. TypeOK /\ Locked /\ Merged /\ Loader \in Writers
  BY DEF Inv, Writers
<1>1. PICK r \in pending :
        pending' = pending \ {r} /\ todo' = [todo EXCEPT ![Loader] = ScopesOf[r]]
  BY DEF NextResource
<1>2. /\ UNCHANGED <<mu, published, header, heap, protected, pc, goal, read>>
      /\ pc[Loader] = "merge" /\ todo[Loader] = <<>> /\ r \in Resources
  BY <1>a DEF NextResource, TypeOK
<1>3. TypeOK'
  BY <1>a, <1>1, <1>2, ScopesTyped DEF TypeOK
<1>4. mu = Loader /\ Current' = Current /\ todo'[Loader] = ScopesOf[r]
  BY <1>a, <1>1, <1>2, OneWriter DEF Current, Appending, TypeOK
<1>5. Merged'
  BY <1>a, <1>1, <1>2, <1>4, EmptySet DEF Merged
<1> QED BY <1>a, <1>2, <1>3, <1>5, GoOnInv

LEMMA MergeSkipInv == ASSUME Inv, NEW w \in Writers, MergeSkip(w) PROVE Inv'
<1>a. /\ TypeOK /\ Locked /\ Indexed /\ Whole /\ Merged
      /\ UNCHANGED <<mu, published, header, heap, protected, pending, pc, goal, read>>
      /\ pc[w] = "merge" /\ todo[w] # <<>> /\ todo[w] \in Seq(Scopes)
      /\ Head(todo[w]) \in ToSet(Slice(header)) /\ todo' = [todo EXCEPT ![w] = Tail(@)]
  BY DEF Inv, MergeSkip, Contained, TypeOK
<1>1. mu = w /\ Current = heap[header.arr] /\ (\A v \in Writers : ~Appending(v))
  BY <1>a, OneWriter
<1>2. Head(todo[w]) \in ToSet(Current)
  BY <1>a, <1>1, WholeSlice DEF Whole
<1>3. Current' = Current /\ todo'[w] = Tail(todo[w])
  BY <1>a, <1>1 DEF Current, Appending, TypeOK
<1>4. ToSet(todo[w]) \subseteq {Head(todo[w])} \union ToSet(Tail(todo[w]))
      /\ Tail(todo[w]) \in Seq(Scopes)
  BY <1>a, HeadTail
<1>5. TypeOK'
  BY <1>a, <1>4 DEF TypeOK
<1>6. Merged'
  BY <1>a, <1>1, <1>2, <1>3, <1>4 DEF Merged
<1> QED BY <1>a, <1>5, <1>6, GoOnInv

\* An append writes behind what the array holds, or into a new array.
LEMMA HeapGrows ==
    ASSUME Inv, NEW w \in Writers, AppendElement(w)
    PROVE  /\ heap' \in Seq(Seq(Scopes)) /\ goal'[w] \in Headers
           /\ Len(heap') >= Len(heap) /\ goal'[w].arr \in 1 .. Len(heap')
           /\ goal'[w].len = Len(heap'[goal'[w].arr])
           /\ ToSet(heap'[goal'[w].arr]) = ToSet(Current) \union {Head(todo[w])}
           /\ \A a \in 1 .. Len(heap) :
                /\ Len(heap[a]) <= Len(heap'[a])
                /\ \A i \in 1 .. Len(heap[a]) : heap'[a][i] = heap[a][i]
<1> DEFINE longer == Append(Slice(header), Head(todo[w]))
           room == header.len < Capacity(header.arr)
           arr == IF room THEN header.arr ELSE Len(heap) + 1
<1>a. /\ TypeOK /\ Indexed /\ pc[w] = "merge" /\ todo[w] # <<>>
      /\ heap' = IF room THEN [heap EXCEPT ![arr] = longer] ELSE Append(heap, longer)
      /\ goal' = [goal EXCEPT ![w] = [arr |-> arr, len |-> header.len + 1]]
  BY DEF Inv, AppendElement
<1>b. header.len \in Nat /\ header.arr \in 1 .. Len(heap) /\ heap \in Seq(Seq(Scopes)) /\ Len(heap) \in Nat
  BY <1>a DEF TypeOK, Indexed, Headers
<1>1. /\ Slice(header) = heap[header.arr] /\ Current = heap[header.arr]
      /\ heap[header.arr] \in Seq(Scopes) /\ header.len = Len(heap[header.arr])
  BY <1>a, OneWriter, WholeSlice DEF Inv, Whole
<1>2. Head(todo[w]) \in Scopes
  BY <1>a, HeadTail DEF TypeOK
<1>3. /\ longer \in Seq(Scopes) /\ Len(longer) = header.len + 1
      /\ \A i \in 1 .. header.len : longer[i] = heap[header.arr][i]
      /\ ToSet(longer) = ToSet(Current) \union {Head(todo[w])}
  BY <1>1, <1>2, ExtendedSet
<1>4. goal'[w] = [arr |-> arr, len |-> header.len + 1] /\ arr \in Nat
  BY <1>a, <1>b DEF TypeOK
<1> HIDE DEF longer, room
<1>5. CASE room
  <2>1. /\ heap' = [heap EXCEPT ![header.arr] = longer] /\ arr = header.arr
        /\ Len(heap') = Len(heap) /\ heap' \in Seq(Seq(Scopes)) /\ heap'[header.arr] = longer
        /\ \A a \in 1 .. Len(heap) : a # header.arr => heap'[a] = heap[a]
    BY <1>a, <1>b, <1>3, <1>5
  <2>2. \A a \in 1 .. Len(heap) : heap[a] \in Seq(Scopes)
    BY <1>b
  <2> QED BY <1>1, <1>3, <1>4, <1>b, <2>1, <2>2 DEF Headers
<1>6. CASE ~room
  <2>1. /\ heap' = Append(heap, longer) /\ arr = Len(heap) + 1
        /\ Len(heap') = Len(heap) + 1 /\ heap' \in Seq(Seq(Scopes)) /\ heap'[Len(heap) + 1] = longer
        /\ \A a \in 1 .. Len(heap) : heap'[a] = heap[a]
    BY <1>a, <1>b, <1>3, <1>6
  <2>2. \A a \in 1 .. Len(heap) : heap[a] \in Seq(Scopes) /\ Len(heap[a]) \in Nat
    BY <1>b
  <2>3. goal'[w] \in Headers /\ goal'[w].arr = Len(heap) + 1 /\ goal'[w].len = Len(longer)
    BY <1>3, <1>4, <1>b, <2>1 DEF Headers
  <2>4. Len(heap') >= Len(heap) /\ Len(heap) + 1 \in 1 .. Len(heap')
    BY <1>b, <2>1
  <2> QED BY <1>3, <2>1, <2>2, <2>3, <2>4
<1> QED BY <1>5, <1>6

LEMMA AppendElementInv == ASSUME Inv, NEW w \in Writers, AppendElement(w) PROVE Inv'
<1>a. /\ TypeOK /\ Locked /\ Indexed /\ Whole /\ Leads /\ Merged /\ Copied
      /\ UNCHANGED <<mu, published, header, protected, pending, todo, read>>
      /\ pc[w] = "merge" /\ todo[w] # <<>> /\ pc' = [pc EXCEPT ![w] = "append"]
      /\ \A v \in Writers : v # w => goal'[v] = goal[v]
      /\ goal' = [goal EXCEPT ![w] = goal'[w]]
  BY DEF Inv, AppendElement, TypeOK
<1>b. /\ heap' \in Seq(Seq(Scopes)) /\ goal'[w] \in Headers
      /\ Len(heap') >= Len(heap) /\ goal'[w].arr \in 1 .. Len(heap')
      /\ goal'[w].len = Len(heap'[goal'[w].arr])
      /\ ToSet(heap'[goal'[w].arr]) = ToSet(Current) \union {Head(todo[w])}
      /\ \A a \in 1 .. Len(heap) :
           /\ Len(heap[a]) <= Len(heap'[a])
           /\ \A i \in 1 .. Len(heap[a]) : heap'[a][i] = heap[a][i]
  BY HeapGrows
<1>1. TypeOK'
  BY <1>a, <1>b DEF TypeOK
<1>2. mu = w /\ \A v \in Writers : Appending(v)' <=> v = w
  BY <1>a, OneWriter DEF Appending, TypeOK
<1>3. Locked'
  BY <1>a, <1>2 DEF Locked, TypeOK
<1>4. Indexed'
  <2>1. Len(heap) \in Nat /\ Len(heap') \in Nat
    BY <1>a, <1>b DEF TypeOK
  <2> QED BY <1>a, <1>b, <1>2, <2>1 DEF Indexed
<1>5. Whole' /\ Leads'
  BY <1>a, <1>b, <1>2 DEF Whole, Leads
<1>6. Merged'
  <2>1. ToSet(Current') = ToSet(Current) \union {Head(todo[w])}
    BY <1>a, <1>b, <1>2 DEF Current
  <2> QED BY <1>a, <2>1 DEF Merged
<1>7. Copied'
  <2> SUFFICES ASSUME NEW r \in Readers, read[r].doc = "copy"
               PROVE  LET c == read[r] IN
                      /\ c.from.arr \in 1 .. Len(heap') /\ c.from.len <= Len(heap'[c.from.arr])
                      /\ \A i \in 1 .. c.from.len : c.seen[i] = heap'[c.from.arr][i]
    BY <1>a DEF Copied
  <2> DEFINE a == read[r].from.arr
             n == read[r].from.len
  <2>1. /\ a \in 1 .. Len(heap) /\ n <= Len(heap[a]) /\ n \in Nat
        /\ \A i \in 1 .. n : read[r].seen[i] = heap[a][i]
    BY <1>a DEF Copied, TypeOK, Headers
  <2>2. Len(heap) \in Nat /\ Len(heap') \in Nat /\ Len(heap[a]) \in Nat /\ Len(heap'[a]) \in Nat
    <3>0. heap \in Seq(Seq(Scopes)) /\ Len(heap) \in Nat /\ Len(heap') \in Nat
      BY <1>a, <1>b DEF TypeOK
    <3> HIDE DEF a, n
    <3>1. heap[a] \in Seq(Scopes) /\ a \in 1 .. Len(heap')
      BY <1>b, <2>1, <3>0
    <3>2. heap'[a] \in Seq(Scopes)
      BY <1>b, <3>1
    <3> QED BY <3>0, <3>1, <3>2
  <2> HIDE DEF a, n
  <2>3. a \in 1 .. Len(heap') /\ n <= Len(heap'[a]) /\ \A i \in 1 .. n : i \in 1 .. Len(heap[a])
    BY <1>b, <2>1, <2>2
  <2>4. \A i \in 1 .. n : read[r].seen[i] = heap'[a][i]
    BY <1>b, <2>1, <2>3
  <2> QED BY <2>3, <2>4 DEF a, n
<1> QED BY <1>1, <1>3, <1>4, <1>5, <1>6, <1>7 DEF Inv

LEMMA AppendWordInv == ASSUME Inv, NEW w \in Writers, AppendWord(w) PROVE Inv'
<1>a. /\ TypeOK /\ Locked /\ Indexed /\ Leads /\ Merged /\ Copied
      /\ pc[w] = "append" /\ UNCHANGED <<mu, published, heap, protected, pending, goal, read>>
      /\ todo[w] # <<>> /\ todo[w] \in Seq(Scopes) /\ Head(todo[w]) \in ToSet(heap[goal[w].arr])
      /\ goal[w].len = Len(heap[goal[w].arr])
  BY DEF Inv, AppendWord, Leads, Appending, TypeOK
<1>1. header' \in Headers /\ header'.arr \in {header.arr, goal[w].arr}
  <2>1. PICK word \in Words : header' = [header EXCEPT ![word] = goal[w][word]]
    BY DEF AppendWord
  <2>2. header \in Headers /\ goal[w] \in Headers
    BY <1>a DEF TypeOK
  <2>3. CASE word = "arr"
    BY <2>1, <2>2, <2>3 DEF Headers
  <2>4. CASE word = "len"
    BY <2>1, <2>2, <2>4 DEF Headers
  <2> QED BY <2>3, <2>4 DEF Words
<1>2. mu = w /\ Current = heap[goal[w].arr] /\ \A v \in Writers : Appending(v) <=> v = w
  BY <1>a DEF Locked, Current, Appending
<1>3. CASE header' = goal[w]
  <2>1. pc' = [pc EXCEPT ![w] = "merge"] /\ todo' = [todo EXCEPT ![w] = Tail(@)]
    BY <1>3 DEF AppendWord
  <2>2. /\ Tail(todo[w]) \in Seq(Scopes)
        /\ ToSet(todo[w]) \subseteq {Head(todo[w])} \union ToSet(Tail(todo[w]))
    BY <1>a, HeadTail
  <2>3. TypeOK'
    BY <1>a, <1>1, <2>1, <2>2 DEF TypeOK
  <2>4. \A v \in Writers : ~Appending(v)'
    BY <1>a, <1>2, <2>1 DEF Appending, TypeOK
  <2>5. Locked' /\ Indexed' /\ Whole' /\ Leads'
    BY <1>a, <1>2, <1>3, <2>1, <2>4 DEF Locked, Indexed, Whole, Leads, TypeOK, Appending
  <2>6. Merged'
    <3>1. Current' = Current /\ todo'[w] = Tail(todo[w])
      BY <1>a, <1>2, <1>3, <2>1, <2>4 DEF Current, TypeOK
    <3> QED BY <1>a, <1>2, <2>2, <3>1 DEF Merged
  <2> QED BY <1>a, <2>3, <2>5, <2>6, WrittenRead DEF Inv
<1>4. CASE header' # goal[w]
  <2>1. UNCHANGED <<pc, todo>>
    BY <1>a, <1>4 DEF AppendWord
  <2>2. TypeOK'
    BY <1>a, <1>1, <2>1 DEF TypeOK
  <2>3. \A v \in Writers : Appending(v)' = Appending(v)
    BY <2>1 DEF Appending
  <2>4. Locked' /\ Indexed' /\ Whole' /\ Leads'
    BY <1>a, <1>1, <1>2, <2>1, <2>3 DEF Locked, Indexed, Whole, Leads
  <2>5. Merged'
    <3>1. Current' = Current
      BY <1>a, <1>2, <2>1, <2>3 DEF Current
    <3> QED BY <1>a, <2>1, <3>1 DEF Merged
  <2> QED BY <1>a, <2>2, <2>4, <2>5, WrittenRead DEF Inv
<1> QED BY <1>3, <1>4

LEMMA UnlockInv == ASSUME Inv, NEW w \in Writers, Unlock(w) PROVE Inv'
<1>a. /\ TypeOK /\ Locked /\ Indexed /\ Whole /\ Leads /\ Merged /\ Copied
      /\ pc[w] = "merge" /\ todo[w] = <<>> /\ (w = Loader => pending = {})
      /\ mu' = Nobody /\ Nobody \notin Writers /\ pc' = [pc EXCEPT ![w] = "done"]
      /\ UNCHANGED <<published, header, heap, protected, pending, todo, goal, read>>
  BY DiscoveryAssumption DEF Inv, Unlock
<1>1. TypeOK'
  BY <1>a DEF TypeOK
<1>2. /\ mu = w /\ Current = heap[header.arr] /\ Current' = heap[header.arr]
      /\ \A v \in Writers : ~Appending(v)' /\ ~Appending(v)
  BY <1>a, OneWriter DEF Appending, Current, TypeOK
<1>3. Locked' /\ Indexed' /\ Whole' /\ Leads'
  BY <1>a, <1>2 DEF Locked, Indexed, Whole, Leads, TypeOK
<1>4. Merged'
  BY <1>a, <1>2, EmptySet DEF Merged
<1> QED BY <1>a, <1>1, <1>3, <1>4, WrittenRead DEF Inv

-----------------------------------------------------------------------------
\* The readers.

Reqs == [doc : {"none", "copy", "pointer", "list"}, from : Headers,
         seen : Seq(Scopes \union {Garbage}), left : Nat, out : Seq(Scopes \union {Garbage})]

LEMMA ReadInv ==
    ASSUME Inv, NEW r \in Readers, NEW c \in Reqs, read' = [read EXCEPT ![r] = c],
           UNCHANGED <<mu, published, header, heap, protected, pending, pc, todo, goal>>,
           c.doc = "copy" =>
             /\ c.from.arr \in 1 .. Len(heap) /\ c.from.len <= Len(heap[c.from.arr])
             /\ Len(c.seen) = c.from.len /\ Garbage \notin ToSet(c.seen)
             /\ \A i \in 1 .. c.from.len : c.seen[i] = heap[c.from.arr][i]
             /\ Len(c.out) + c.left = c.from.len
             /\ \A i \in 1 .. Len(c.out) : c.out[i] = c.seen[i]
    PROVE  Inv'
<1>1. TypeOK'
  BY DEF Inv, TypeOK, Reqs
<1>2. \A w \in Writers : Appending(w)' = Appending(w)
  BY DEF Appending
<1>3. Locked' /\ Indexed' /\ Whole' /\ Leads'
  BY <1>2 DEF Inv, Locked, Indexed, Whole, Leads
<1>4. Merged'
  <2>1. Current' = Current
    BY <1>2 DEF Current
  <2> QED BY <2>1 DEF Inv, Merged
<1>5. Copied'
  <2>1. \A q \in Readers : read'[q] = IF q = r THEN c ELSE read[q]
    BY DEF Inv, TypeOK
  <2> QED BY <2>1 DEF Inv, Copied
<1> QED BY <1>1, <1>3, <1>4, <1>5 DEF Inv

LEMMA NotAskedType == NotAsked \in Reqs /\ NotAsked.doc = "none"
<1>1. <<>> \in Seq(Scopes \union {Garbage})
  OBVIOUS
<1> QED BY <1>1 DEF NotAsked, Reqs, Headers

\* Everything that is read is a scope or garbage.
LEMMA ElementType ==
    ASSUME TypeOK, NEW a \in 1 .. Len(heap), NEW i \in Nat
    PROVE  ElementAt(a, i) \in Scopes \union {Garbage}
<1>1. heap[a] \in Seq(Scopes)
  BY DEF TypeOK
<1> QED BY <1>1 DEF ElementAt

LEMMA GetCopyInv == ASSUME Inv, NEW r \in Readers, GetCopy(r) PROVE Inv'
<1> DEFINE c == [doc |-> "copy", from |-> header, seen |-> Slice(header),
                 left |-> header.len, out |-> <<>>]
<1>a. /\ TypeOK /\ Locked /\ Indexed /\ Whole /\ mu = Nobody /\ read' = [read EXCEPT ![r] = c]
      /\ UNCHANGED <<mu, published, header, heap, protected, pending, pc, todo, goal>>
  BY DEF Inv, GetCopy
<1>1. header.len = Len(heap[header.arr]) /\ header \in Headers /\ header.len \in Nat
  BY <1>a, NobodyWrites DEF Whole, TypeOK, Headers
<1>2. Slice(header) = heap[header.arr] /\ heap[header.arr] \in Seq(Scopes)
  BY <1>a, <1>1, WholeSlice
<1>3. heap[header.arr] \in Seq(Scopes \union {Garbage}) /\ <<>> \in Seq(Scopes \union {Garbage})
  BY <1>2
<1>4. Garbage \notin ToSet(Slice(header))
  BY <1>2, DiscoveryAssumption DEF ToSet
<1>5. /\ c \in Reqs /\ c.from = header /\ c.seen = heap[header.arr] /\ c.left = header.len
      /\ c.out = <<>> /\ Len(c.out) = 0
  BY <1>1, <1>2, <1>3 DEF Reqs
<1> HIDE DEF c
<1>6. /\ c.from.arr \in 1 .. Len(heap) /\ c.from.len <= Len(heap[c.from.arr])
      /\ Len(c.seen) = c.from.len /\ Garbage \notin ToSet(c.seen)
      /\ Len(c.out) + c.left = c.from.len
  BY <1>a, <1>1, <1>2, <1>4, <1>5 DEF Indexed
<1>7. /\ \A i \in 1 .. c.from.len : c.seen[i] = heap[c.from.arr][i]
      /\ \A i \in 1 .. Len(c.out) : c.out[i] = c.seen[i]
  BY <1>5
<1> QED BY <1>a, <1>5, <1>6, <1>7, ReadInv

LEMMA EncodeElementInv == ASSUME Inv, NEW r \in Readers, EncodeElement(r) PROVE Inv'
<1> DEFINE d == read[r]
           arr == IF d.doc = "copy" THEN d.from.arr ELSE header.arr
           n == Len(d.out)
           e == ElementAt(arr, n + 1)
           out == Append(d.out, e)
           c == [d EXCEPT !.out = out, !.left = d.left - 1]
<1>a. /\ TypeOK /\ Indexed /\ Copied /\ read' = [read EXCEPT ![r] = c]
      /\ UNCHANGED <<mu, published, header, heap, protected, pending, pc, todo, goal>>
      /\ d \in Reqs /\ d.left > 0
  BY DEF Inv, EncodeElement, TypeOK, Reqs
<1>b. /\ d.out \in Seq(Scopes \union {Garbage}) /\ n \in Nat /\ d.left \in Nat /\ d.left - 1 \in Nat
      /\ d.from \in Headers /\ d.from.len \in Nat
  BY <1>a DEF Reqs, Headers
<1>1. e \in Scopes \union {Garbage}
  BY <1>a, <1>b, ElementType DEF Indexed, Copied
<1>2. /\ out \in Seq(Scopes \union {Garbage}) /\ Len(out) = n + 1 /\ out[n + 1] = e
      /\ \A i \in 1 .. n : out[i] = d.out[i]
  <2> HIDE DEF e
  <2> QED BY <1>1, <1>b
<1> HIDE DEF out
<1>3. /\ c \in Reqs /\ c.doc = d.doc /\ c.from = d.from /\ c.seen = d.seen /\ c.out = out
      /\ c.left = d.left - 1
  BY <1>a, <1>b, <1>2 DEF Reqs
<1>4. ASSUME d.doc = "copy"
      PROVE  /\ d.from.arr \in 1 .. Len(heap) /\ d.from.len <= Len(heap[d.from.arr])
             /\ Len(d.seen) = d.from.len /\ Garbage \notin ToSet(d.seen)
             /\ \A i \in 1 .. d.from.len : d.seen[i] = heap[d.from.arr][i]
             /\ Len(out) + (d.left - 1) = d.from.len
             /\ \A i \in 1 .. Len(out) : out[i] = d.seen[i]
  <2>1. /\ d.from.arr \in 1 .. Len(heap) /\ d.from.len <= Len(heap[d.from.arr])
        /\ Len(d.seen) = d.from.len /\ Garbage \notin ToSet(d.seen)
        /\ \A i \in 1 .. d.from.len : d.seen[i] = heap[d.from.arr][i]
        /\ n + d.left = d.from.len /\ \A i \in 1 .. n : d.out[i] = d.seen[i]
    BY <1>4, <1>a DEF Copied
  <2>2. heap[d.from.arr] \in Seq(Scopes)
    BY <1>a, <2>1 DEF TypeOK
  <2>3. n + 1 \in 1 .. d.from.len /\ n + 1 \in DOMAIN heap[d.from.arr]
    <3>1. Len(heap[d.from.arr]) \in Nat /\ DOMAIN heap[d.from.arr] = 1 .. Len(heap[d.from.arr])
      BY <2>2
    <3>2. n \in Nat /\ d.left \in Nat /\ d.left > 0 /\ n + d.left = d.from.len
          /\ d.from.len <= Len(heap[d.from.arr])
      BY <1>a, <1>b, <2>1
    <3> HIDE DEF n, d
    <3> QED BY <3>1, <3>2
  <2>4. e = d.seen[n + 1]
    BY <1>4, <2>1, <2>3 DEF ElementAt
  <2> HIDE DEF n, e, d
  <2>5. Len(out) + (d.left - 1) = d.from.len
    <3>1. /\ Len(out) = n + 1 /\ n + d.left = d.from.len
          /\ n \in Nat /\ d.left \in Nat /\ d.from.len \in Nat
      BY <1>b, <1>2, <2>1
    <3> QED BY <3>1
  <2>6. ASSUME NEW i \in 1 .. Len(out) PROVE out[i] = d.seen[i]
    <3>1. i \in 1 .. n \/ i = n + 1
      BY <1>b, <1>2
    <3> QED BY <1>2, <2>1, <2>4, <3>1
  <2> QED BY <2>1, <2>5, <2>6
<1> HIDE DEF c, d
<1> QED BY <1>a, <1>3, <1>4, ReadInv

LEMMA ReadersInv == ASSUME Inv, NEW r \in Readers, Read(r) PROVE Inv'
<1>a. read[r] \in Reqs /\ TypeOK /\ header.len \in Nat
  BY DEF Inv, TypeOK, Reqs, Headers
<1>1. CASE GetPointer(r)
  <2> DEFINE c == [NotAsked EXCEPT !.doc = "pointer"]
  <2>1. c \in Reqs /\ c.doc = "pointer"
    BY NotAskedType DEF Reqs
  <2> HIDE DEF c
  <2> QED BY <1>1, <2>1, ReadInv DEF GetPointer, c
<1>2. CASE EncodeLength(r)
  <2> DEFINE c == [read[r] EXCEPT !.doc = "list", !.left = header.len]
  <2>1. c \in Reqs /\ c.doc = "list"
    BY <1>a DEF Reqs
  <2>2. read' = [read EXCEPT ![r] = c]
    BY <1>2, <1>a DEF EncodeLength
  <2> HIDE DEF c
  <2> QED BY <1>2, <2>1, <2>2, ReadInv DEF EncodeLength
<1>3. CASE Respond(r)
  BY <1>3, NotAskedType, ReadInv DEF Respond
<1> QED BY <1>1, <1>2, <1>3, GetCopyInv, EncodeElementInv DEF Read

-----------------------------------------------------------------------------
LEMMA InitInv == ASSUME Init PROVE Inv
<1>a. /\ Base \in Seq(Scopes) /\ Nobody \notin Writers
  BY DiscoveryAssumption
<1>1. /\ heap \in Seq(Seq(Scopes)) /\ Len(heap) = 1 /\ heap[1] = Base
      /\ header \in Headers /\ header.arr = 1 /\ header.len = Len(Base)
  BY <1>a DEF Init, Headers
<1>2. <<>> \in Seq(Scopes)
  OBVIOUS
<1>3. TypeOK
  <2>1. NotAsked \in Reqs
    BY NotAskedType
  <2> QED BY <1>1, <1>2, <2>1 DEF Init, TypeOK, Reqs
<1>4. Locked /\ Indexed /\ Whole /\ Leads /\ Merged
  BY <1>a, <1>1 DEF Init, Locked, Indexed, Whole, Leads, Merged, Appending
<1>5. Copied
  BY NotAskedType DEF Init, Copied
<1> QED BY <1>3, <1>4, <1>5 DEF Inv

LEMMA NextInv == ASSUME Inv, [Next]_vars PROVE Inv'
<1>1. CASE Write
  BY <1>1, RegisterInv, LoadInv, NextResourceInv, MergeSkipInv, AppendElementInv, AppendWordInv,
     UnlockInv DEF Write
<1>2. CASE \E r \in Readers : Read(r)
  BY <1>2, ReadersInv
<1>3. CASE UNCHANGED vars
  <2>1. /\ \A w \in Writers : Appending(w)' = Appending(w)
        /\ UNCHANGED <<mu, published, header, heap, protected, pending, pc, todo, goal, read>>
    BY <1>3 DEF vars, Appending
  <2>2. Current' = Current
    BY <2>1 DEF Current
  <2>3. TypeOK' /\ Locked' /\ Indexed' /\ Whole' /\ Leads'
    BY <2>1 DEF Inv, TypeOK, Locked, Indexed, Whole, Leads
  <2> QED BY <2>1, <2>2, <2>3 DEF Inv, Merged, Copied
<1> QED BY <1>1, <1>2, <1>3 DEF Next

-----------------------------------------------------------------------------
\* Headers are pairs of naturals and arrays hold scopes, also between the words of an
\* append.
THEOREM TypeCorrect == Spec => []TypeOK
<1>1. Inv => TypeOK
  BY DEF Inv
<1> QED BY <1>1, InitInv, NextInv, PTL DEF Spec

\* Whichever of RegisterProtectedResourceMetadata and loadParams comes first, the scopes
\* of a registered resource are advertised once inst.mu is free.
THEOREM AllAdvertised == Spec => []EveryScopeAdvertised
<1>1. Inv => EveryScopeAdvertised
  <2> SUFFICES ASSUME Inv, published, mu = Nobody, NEW r \in protected,
                      NEW x \in ToSet(ScopesOf[r])
               PROVE  x \in ToSet(Slice(header))
    BY DEF EveryScopeAdvertised
  <2>1. TypeOK /\ Locked /\ Indexed /\ Whole /\ Merged /\ x \in Scopes
    BY ScopesTyped DEF Inv, TypeOK
  <2>2. Slice(header) = Current
    BY <2>1, NobodyWrites, WholeSlice DEF Whole
  <2>3. mu \notin Writers /\ mu # Loader
    BY DiscoveryAssumption DEF Writers
  <2> QED BY <2>1, <2>2, <2>3 DEF Merged
<1> QED BY <1>1, InitInv, NextInv, PTL DEF Spec

\* The struct that /.well-known/oauth-authorization-server copies under inst.mu is
\* encoded as it was then, whatever is appended meanwhile.
THEOREM CopyStays == Spec => []CopyIsConsistent
<1>1. Inv => CopyIsConsistent
  <2> SUFFICES ASSUME Inv, NEW r \in Readers, read[r].doc = "copy"
               PROVE  Garbage \notin ToSet(read[r].seen) /\ IsPrefix(read[r].out, read[r].seen)
    BY DEF CopyIsConsistent
  <2>1. /\ read[r].out \in Seq(Scopes \union {Garbage})
        /\ read[r].seen \in Seq(Scopes \union {Garbage}) /\ read[r].left \in Nat
    BY DEF Inv, TypeOK
  <2>2. /\ Garbage \notin ToSet(read[r].seen)
        /\ Len(read[r].out) + read[r].left = Len(read[r].seen)
        /\ \A i \in 1 .. Len(read[r].out) : read[r].out[i] = read[r].seen[i]
    BY DEF Inv, Copied
  <2>3. Len(read[r].out) <= Len(read[r].seen)
    BY <2>1, <2>2
  <2> QED BY <2>1, <2>2, <2>3, PrefixByElements
<1> QED BY <1>1, InitInv, NextInv, PTL DEF Spec

=============================================================================
