---------------------------- MODULE Event_proofs ----------------------------
(***************************************************************************)
(* Theorems about ListGuard and Event: for lists of any length and any     *)
(* number of iterators, loops visit the list as it was, keep their current *)
(* item, and are registered exactly while they point to the list.          *)
(***************************************************************************)
EXTENDS Event, SequenceTheorems, WellFoundedInduction, TLAPS

-----------------------------------------------------------------------------
(* The inductive invariant                                                 *)

TypeOK ==
  /\ list \in Seq(Values) /\ alive \in BOOLEAN
  /\ registered \subseteq Iterators /\ early \subseteq Iterators
  /\ phase \in [Iterators -> {"none", "open", "ended"}]
  /\ bound \in [Iterators -> BOOLEAN]
  /\ pos \in [Iterators -> Nat]
  /\ status \in [Iterators -> BOOLEAN]
  /\ cached \in [Iterators -> BOOLEAN]
  /\ cache \in [Iterators -> Seq(Values)]
  /\ cursor \in [Iterators -> Nat]
  /\ snapshot \in [Iterators -> Seq(Values)]
  /\ seen \in [Iterators -> Seq(Values)]

\* An iterator that was moved along the list is at an item.
MovedIsAtItem == \A i \in Iterators : status[i] /\ ~cached[i] => pos[i] > 0

\* An iterator that walks the list itself has the list it began with before it, and is at
\* the item it was moved to last.
WalksSnapshot(i) ==
  phase[i] = "open" /\ ~cached[i] =>
    /\ list = snapshot[i]
    /\ pos[i] = Len(seen[i])

\* One that walks its cache has the rest of that list there, from the item on at which
\* the list was changed.
Passed(i) == Len(snapshot[i]) - Len(cache[i])

CacheIsRest(i) ==
  cached[i] =>
    /\ Passed(i) \in Nat /\ cursor[i] \in 1 .. Len(cache[i])
    /\ \A k \in 1 .. Len(cache[i]) : cache[i][k] = snapshot[i][Passed(i) + k]
    /\ Len(seen[i]) = Passed(i) + cursor[i]

\* What it was moved to is the beginning of the list there was.
SeenIsPrefix(i) ==
  /\ Len(seen[i]) <= Len(snapshot[i])
  /\ \A k \in 1 .. Len(seen[i]) : seen[i][k] = snapshot[i][k]
  /\ phase[i] = "ended" => Len(seen[i]) = Len(snapshot[i])

MovedMeansSeen(i) == status[i] <=> Len(seen[i]) > 0

Walk(i) == WalksSnapshot(i) /\ CacheIsRest(i) /\ SeenIsPrefix(i) /\ MovedMeansSeen(i)

IInv == TypeOK /\ RegistryExact /\ MovedIsAtItem /\ \A i \in Iterators \ early : Walk(i)

-----------------------------------------------------------------------------
(* Induction over data.  The library's theorems of induction cannot be     *)
(* instantiated here; this one is about a set, and follows from the least  *)
(* number outside of it.                                                   *)

\* A set with 0 in it, and with every number the next one, has all natural numbers.
LEMMA NatSetInduction ==
  ASSUME NEW S, S \subseteq Nat, 0 \in S, \A n \in S : n + 1 \in S
  PROVE  Nat \subseteq S
<1>1. SUFFICES ASSUME Nat \ S # {} PROVE FALSE
  OBVIOUS
<1>2. PICK m \in Nat \ S : \A y \in Nat \ S : ~ (<<y, m>> \in OpToRel(<, Nat))
  BY <1>1, NatLessThanWellFounded, WFMin
<1>3. \A y \in Nat \ S : ~(y < m)
  BY <1>2 DEF OpToRel
<1> QED
  BY <1>3

\* The least element of a set of numbers is in the set.
LEMMA MinInSet ==
  ASSUME NEW S, S \subseteq Nat, S # {}
  PROVE  Min(S) \in S
<1>1. PICK m \in S : \A y \in S : ~ (<<y, m>> \in OpToRel(<, Nat))
  BY NatLessThanWellFounded, WFMin
<1>2. \A y \in S : ~(y < m)
  BY <1>1 DEF OpToRel
<1>3. \A y \in S : m <= y
  BY <1>2
<1> QED
  BY <1>3 DEF Min

\* The recursion of Without: what it has kept of the first n items, if g is what it has
\* kept of fewer.
KeptStep(s, gone, g, n) ==
  IF n = 0 THEN << >> ELSE IF s[n] \in gone THEN g[n - 1] ELSE Append(g[n - 1], s[n])

\* g follows the recursion up to n.
KeptUpTo(s, gone, g, n) == \A k \in 0 .. Len(s) : k <= n => g[k] = KeptStep(s, gone, g, k)

\* A function that follows the recursion up to n can be changed at n + 1 to follow it there.
LEMMA KeptExtends ==
  ASSUME NEW V, NEW s \in Seq(V), NEW gone, NEW n \in Nat,
         NEW g \in [0 .. Len(s) -> Seq(V)], KeptUpTo(s, gone, g, n)
  PROVE  \E h \in [0 .. Len(s) -> Seq(V)] : KeptUpTo(s, gone, h, n + 1)
<1>0. Len(s) \in Nat
  OBVIOUS
<1>1. CASE n + 1 > Len(s)
  BY <1>0, <1>1 DEF KeptUpTo
<1>2. CASE n + 1 <= Len(s)
  <2> DEFINE new == KeptStep(s, gone, g, n + 1)
             h   == [g EXCEPT ![n + 1] = new]
  <2>1. g[n] \in Seq(V) /\ s[n + 1] \in V
    BY <1>0, <1>2
  <2>2. new \in Seq(V)
    BY <2>1 DEF KeptStep
  <2> HIDE DEF new
  <2>3. h \in [0 .. Len(s) -> Seq(V)]
    BY <2>2
  <2>4. ASSUME NEW k \in 0 .. Len(s), k <= n + 1 PROVE h[k] = KeptStep(s, gone, h, k)
    <3>1. k # 0 => h[k - 1] = g[k - 1]
      BY <2>4, <1>0
    <3>2. KeptStep(s, gone, h, k) = KeptStep(s, gone, g, k)
      BY <3>1 DEF KeptStep
    <3>3. h[k] = KeptStep(s, gone, g, k)
      BY <2>4, <1>0, <1>2 DEF KeptUpTo, new
    <3> QED BY <3>2, <3>3
  <2>5. KeptUpTo(s, gone, h, n + 1)
    BY <2>4 DEF KeptUpTo
  <2> QED BY <2>3, <2>5
<1> QED BY <1>0, <1>1, <1>2

\* So there is one that follows it to the end.
LEMMA KeptExists ==
  ASSUME NEW V, NEW s \in Seq(V), NEW gone
  PROVE  \E g \in [0 .. Len(s) -> Seq(V)] : KeptUpTo(s, gone, g, Len(s))
<1> DEFINE S == {n \in Nat : \E g \in [0 .. Len(s) -> Seq(V)] : KeptUpTo(s, gone, g, n)}
<1>0. Len(s) \in Nat
  OBVIOUS
<1>1. 0 \in S
  <2> DEFINE g == [k \in 0 .. Len(s) |-> << >>]
  <2>1. g \in [0 .. Len(s) -> Seq(V)]
    OBVIOUS
  <2>2. KeptUpTo(s, gone, g, 0)
    BY <1>0 DEF KeptUpTo, KeptStep
  <2> QED BY <2>1, <2>2
<1>2. \A n \in S : n + 1 \in S
  BY KeptExtends
<1>3. Nat \subseteq S
  <2>1. S \subseteq Nat
    OBVIOUS
  <2> HIDE DEF S
  <2> QED BY <1>1, <1>2, <2>1, NatSetInduction
<1> QED BY <1>0, <1>3

\* What Without computes is a sequence of items again, of any list.
LEMMA WithoutType ==
  ASSUME NEW V, NEW s \in Seq(V), NEW gone
  PROVE  Without(s, gone) \in Seq(V)
<1>0. Len(s) \in Nat
  OBVIOUS
<1>1. PICK g \in [0 .. Len(s) -> Seq(V)] : KeptUpTo(s, gone, g, Len(s))
  BY KeptExists
<1>2. g = [n \in 0 .. Len(s) |-> KeptStep(s, gone, g, n)]
  BY <1>0, <1>1 DEF KeptUpTo
<1> DEFINE f == CHOOSE f : f = [n \in 0 .. Len(s) |-> KeptStep(s, gone, f, n)]
<1>3. f = [n \in 0 .. Len(s) |-> KeptStep(s, gone, f, n)]
  BY <1>2
<1>4. Without(s, gone) = f[Len(s)]
  BY DEF Without, KeptStep
<1> HIDE DEF f
<1>a. \A n \in 0 .. Len(s) : f[n] = KeptStep(s, gone, f, n)
  BY <1>3, Zenon
<1> DEFINE R == {n \in Nat : n <= Len(s) => f[n] \in Seq(V)}
<1>5. 0 \in R
  BY <1>0, <1>3 DEF KeptStep
<1>6. ASSUME NEW n \in Nat, n + 1 <= Len(s), f[n] \in Seq(V) PROVE f[n + 1] \in Seq(V)
  <2>1. f[n + 1] = IF s[n + 1] \in gone THEN f[n] ELSE Append(f[n], s[n + 1])
    <3>1. f[n + 1] = KeptStep(s, gone, f, n + 1)
      BY <1>0, <1>a, <1>6
    <3> QED BY <3>1 DEF KeptStep
  <2>2. s[n + 1] \in V
    BY <1>0, <1>6
  <2> QED BY <1>6, <2>1, <2>2
<1>7. \A n \in R : n + 1 \in R
  BY <1>0, <1>6
<1>8. Nat \subseteq R
  <2>1. R \subseteq Nat
    OBVIOUS
  <2> HIDE DEF R
  <2> QED BY <1>5, <1>7, <2>1, NatSetInduction
<1> QED BY <1>0, <1>4, <1>8

-----------------------------------------------------------------------------
(* Every mutator is a Change to a list of items                            *)

LEMMA RemoveFirstType ==
  ASSUME NEW s \in Seq(Values), NEW v
  PROVE  RemoveFirst(s, v) \in Seq(Values)
<1>0. Len(s) \in Nat
  OBVIOUS
<1>1. CASE \E i \in 1 .. Len(s) : s[i] = v
  <2> DEFINE I == {i \in 1 .. Len(s) : s[i] = v}
  <2>1. I # {} /\ I \subseteq Nat
    BY <1>0, <1>1
  <2>2. Min(I) \in 1 .. Len(s)
    BY <2>1, MinInSet
  <2>3. RemoveFirst(s, v) = RemoveAt(s, Min(I))
    BY <1>1, <2>1 DEF RemoveFirst, SelectInSeq
  <2> HIDE DEF I
  <2>4. SubSeq(s, 1, Min(I) - 1) \in Seq(Values) /\ SubSeq(s, Min(I) + 1, Len(s)) \in Seq(Values)
    BY <1>0, <2>2
  <2> QED BY <2>3, <2>4 DEF RemoveAt
<1>2. CASE ~ \E i \in 1 .. Len(s) : s[i] = v
  BY <1>2 DEF RemoveFirst
<1> QED BY <1>1, <1>2

LEMMA MutateIsChange ==
  ASSUME TypeOK, Mutate
  PROVE  \E new \in Seq(Values) : Change(new)
<1>0. list \in Seq(Values) /\ Len(list) \in Nat
  BY DEF TypeOK
<1>1. ASSUME NEW v \in Values, AddItem(v) PROVE \E new \in Seq(Values) : Change(new)
  <2>1. Append(list, v) \in Seq(Values)
    BY <1>0
  <2> QED BY <1>1, <2>1 DEF AddItem
<1>2. ASSUME NEW v \in Values, RemoveItem(v) PROVE \E new \in Seq(Values) : Change(new)
  BY <1>0, <1>2, RemoveFirstType DEF RemoveItem
<1>3. ASSUME NEW v \in Values, RemoveItems(v) PROVE \E new \in Seq(Values) : Change(new)
  BY <1>0, <1>3, WithoutType DEF RemoveItems
<1>4. ASSUME NEW v \in Values, NEW w \in Values, AddItems(<<v, w>>) \/ Assign(<<v, w>>)
      PROVE  \E new \in Seq(Values) : Change(new)
  <2>1. <<v, w>> \in Seq(Values) /\ list \o <<v, w>> \in Seq(Values)
    BY <1>0
  <2> QED BY <1>4, <2>1 DEF AddItems, Assign
<1>5. ASSUME Clear PROVE \E new \in Seq(Values) : Change(new)
  <2>1. << >> \in Seq(Values)
    OBVIOUS
  <2> QED BY <1>5, <2>1 DEF Clear
<1>6. ASSUME NEW n \in 1 .. Len(list), RemoveItemAt(n) PROVE \E new \in Seq(Values) : Change(new)
  <2>1. SubSeq(list, 1, n - 1) \in Seq(Values) /\ SubSeq(list, n + 1, Len(list)) \in Seq(Values)
    BY <1>0
  <2>2. RemoveAt(list, n) \in Seq(Values)
    BY <2>1 DEF RemoveAt
  <2> QED BY <1>6, <2>2 DEF RemoveItemAt
<1>7. ASSUME NEW n \in 1 .. Len(list), NEW v \in Values, SetItem(n, v)
      PROVE  \E new \in Seq(Values) : Change(new)
  <2>1. [list EXCEPT ![n] = v] \in Seq(Values)
    BY <1>0
  <2> QED BY <1>7, <2>1 DEF SetItem, ReplaceAt
<1>8. ASSUME NEW n \in 1 .. Len(list) + 1, NEW v \in Values, InsertItem(n, v)
      PROVE  \E new \in Seq(Values) : Change(new)
  <2>1. SubSeq(list, 1, n - 1) \in Seq(Values) /\ SubSeq(list, n, Len(list)) \in Seq(Values)
    BY <1>0
  <2>2. InsertAt(list, n, v) \in Seq(Values)
    BY <2>1 DEF InsertAt
  <2> QED BY <1>8, <2>2 DEF InsertItem
<1> QED
  BY <1>1, <1>2, <1>3, <1>4, <1>5, <1>6, <1>7, <1>8 DEF Mutate

-----------------------------------------------------------------------------
(* The guard: what ListChanged() of the iterators does to the invariant    *)

\* The types after the iterators have been told.
LEMMA GuardTypes ==
  ASSUME TypeOK, MovedIsAtItem, GuardIterators
  PROVE  /\ pos' = pos /\ status' = status
         /\ cached' \in [Iterators -> BOOLEAN]
         /\ cache' \in [Iterators -> Seq(Values)]
         /\ cursor' \in [Iterators -> Nat]
         /\ MovedIsAtItem'
<1>0. list \in Seq(Values) /\ Len(list) \in Nat
  BY DEF TypeOK
<1> DEFINE changed == {i \in registered : ~cached[i] /\ bound[i]}
<1>1. PICK past \in (IF list = << >> THEN Values ELSE {Head(list)}) :
        cache' = [i \in Iterators |-> IF i \in changed THEN ListCache(i, past) ELSE cache[i]]
  BY DEF GuardIterators
<1>2. list # << >> \/ past \in Values
  OBVIOUS
<1>3. ASSUME NEW i \in Iterators, i \in changed PROVE ListCache(i, past) \in Seq(Values)
  <2>1. status[i] => SubSeq(list, pos[i], Len(list)) \in Seq(Values)
    <3>1. SUFFICES ASSUME status[i] PROVE SubSeq(list, pos[i], Len(list)) \in Seq(Values)
      OBVIOUS
    <3>2. pos[i] \in Nat /\ pos[i] > 0
      BY <1>3, <3>1 DEF TypeOK, MovedIsAtItem
    <3> QED BY <1>0, <3>2
  <2>2. << >> \in Seq(Values)
    OBVIOUS
  <2>3. list = << >> => <<past>> \in Seq(Values)
    BY <1>2
  <2> QED BY <2>1, <2>2, <2>3 DEF ListCache
<1>4. cache' \in [Iterators -> Seq(Values)]
  BY <1>1, <1>3 DEF TypeOK
<1> QED
  BY <1>4 DEF GuardIterators, walkVars, TypeOK, MovedIsAtItem

\* An iterator that was told, or did not have to be, and is not early: it has a cache if it
\* was registered, and the cache is the rest of the list it began with.
LEMMA GuardWalk ==
  ASSUME IInv, GuardIterators,
         early' = early \cup NotYetMoved, UNCHANGED <<phase, snapshot, seen>>,
         NEW i \in Iterators \ early'
  PROVE  /\ i \in registered => cached'[i]
         /\ CacheIsRest(i)' /\ SeenIsPrefix(i)' /\ MovedMeansSeen(i)'
<1>0. i \notin early /\ Walk(i) /\ TypeOK /\ RegistryExact /\ MovedIsAtItem
  BY DEF IInv
<1>1. Len(list) \in Nat /\ Len(seen[i]) \in Nat /\ Len(snapshot[i]) \in Nat /\ Len(cache[i]) \in Nat
  BY <1>0 DEF TypeOK
<1>2. pos' = pos /\ status' = status
  BY <1>0, GuardTypes
<1>3. SeenIsPrefix(i)' /\ MovedMeansSeen(i)'
  BY <1>0, <1>2 DEF Walk, SeenIsPrefix, MovedMeansSeen
<1>4. CASE i \in registered /\ ~cached[i]
  <2>1. status[i]
    BY <1>0, <1>4 DEF NotYetMoved
  <2>2. bound[i] /\ phase[i] = "open"
    BY <1>0, <1>4 DEF RegistryExact
  <2>3. cached'[i] /\ cursor'[i] = 1 /\ cache'[i] = SubSeq(list, pos[i], Len(list))
    BY <1>4, <2>1, <2>2 DEF GuardIterators, ListCache
  <2>4. list = snapshot[i] /\ pos[i] = Len(seen[i]) /\ pos[i] \in 1 .. Len(list)
    BY <1>0, <1>1, <1>4, <2>1, <2>2 DEF Walk, WalksSnapshot, SeenIsPrefix, MovedMeansSeen
  <2>5. /\ Len(cache'[i]) = Len(list) - pos[i] + 1
        /\ \A k \in 1 .. Len(list) - pos[i] + 1 : cache'[i][k] = list[pos[i] + k - 1]
    BY <1>0, <1>1, <2>3, <2>4 DEF TypeOK
  <2>6. Len(snapshot'[i]) - Len(cache'[i]) = pos[i] - 1 /\ Len(seen'[i]) = pos[i]
    BY <1>1, <2>4, <2>5
  <2>7. ASSUME NEW k \in 1 .. Len(cache'[i]) PROVE cache'[i][k] = snapshot'[i][(pos[i] - 1) + k]
    <3>1. pos[i] + k - 1 = (pos[i] - 1) + k
      BY <1>1, <2>4, <2>5
    <3>2. cache'[i][k] = list[pos[i] + k - 1]
      BY <2>5
    <3> QED BY <2>4, <3>1, <3>2
  <2>8. Len(cache'[i]) \in Nat /\ Len(cache'[i]) >= 1
    BY <1>1, <2>4, <2>5
  <2>9. CacheIsRest(i)'
    <3>1. Passed(i)' = pos[i] - 1 /\ pos[i] \in Nat
      BY <1>1, <2>4, <2>6 DEF Passed
    <3> QED BY <2>3, <2>4, <2>6, <2>7, <2>8, <3>1 DEF CacheIsRest
  <2> QED BY <1>3, <2>3, <2>9
<1>5. CASE i \notin registered \/ cached[i]
  <2>1. cached'[i] = cached[i] /\ cache'[i] = cache[i] /\ cursor'[i] = cursor[i]
    BY <1>0, <1>5 DEF GuardIterators, TypeOK
  <2>2. CacheIsRest(i)'
    BY <1>0, <2>1, Zenon DEF Walk, CacheIsRest, Passed
  <2> QED BY <1>3, <1>5, <2>1, <2>2
<1> QED BY <1>4, <1>5

\* A change of the list through the guard
LEMMA ChangeStep ==
  ASSUME IInv, NEW new \in Seq(Values), Change(new)
  PROVE  IInv'
<1> USE DEF Change
<1>0. TypeOK /\ RegistryExact /\ MovedIsAtItem
  BY DEF IInv
<1>1. TypeOK' /\ MovedIsAtItem'
  BY <1>0, GuardTypes DEF TypeOK, NotYetMoved
<1>2. RegistryExact'
  BY <1>0 DEF RegistryExact, GuardIterators, TypeOK
<1>3. ASSUME NEW i \in Iterators \ early' PROVE Walk(i)'
  <2>1. /\ i \in registered => cached'[i]
        /\ CacheIsRest(i)' /\ SeenIsPrefix(i)' /\ MovedMeansSeen(i)'
    BY <1>3, GuardWalk
  <2>2. WalksSnapshot(i)'
    BY <1>2, <1>3, <2>1 DEF WalksSnapshot, RegistryExact
  <2> QED BY <2>1, <2>2 DEF Walk
<1> QED BY <1>1, <1>2, <1>3 DEF IInv

\* The end of the list
LEMMA DestroyStep ==
  ASSUME IInv, DestroyList
  PROVE  IInv'
<1> USE DEF DestroyList
<1>0. TypeOK /\ RegistryExact /\ MovedIsAtItem
  BY DEF IInv
<1>1. TypeOK' /\ MovedIsAtItem'
  <2>1. list' \in Seq(Values) /\ bound' \in [Iterators -> BOOLEAN]
    BY <1>0 DEF TypeOK
  <2> QED BY <1>0, <2>1, GuardTypes DEF TypeOK, NotYetMoved
<1>2. RegistryExact'
  BY <1>0 DEF RegistryExact, GuardIterators, TypeOK
<1>3. ASSUME NEW i \in Iterators \ early' PROVE Walk(i)'
  <2>1. CacheIsRest(i)' /\ SeenIsPrefix(i)' /\ MovedMeansSeen(i)'
    BY <1>3, GuardWalk
  <2>2. WalksSnapshot(i)'
    BY <1>2, <1>3 DEF WalksSnapshot, RegistryExact
  <2> QED BY <2>1, <2>2 DEF Walk
<1> QED BY <1>1, <1>2, <1>3 DEF IInv

-----------------------------------------------------------------------------
(* The iterators                                                           *)

\* A step that does not move an iterator keeps what is known of it, if the list does not
\* change before its eyes and it ends only when it has seen all.
LEMMA SameWalk ==
  ASSUME NEW j, Walk(j), cached'[j] = cached[j], status'[j] = status[j],
         pos'[j] = pos[j], seen'[j] = seen[j], snapshot'[j] = snapshot[j],
         cache'[j] = cache[j], cursor'[j] = cursor[j],
         phase'[j] = "open" /\ ~cached[j] => phase[j] = "open" /\ list' = list,
         phase'[j] = "ended" => phase[j] = "ended" \/ Len(seen[j]) = Len(snapshot[j])
  PROVE  Walk(j)'
<1>1. WalksSnapshot(j)'
  BY Zenon DEF Walk, WalksSnapshot
<1>2. CacheIsRest(j)'
  BY Zenon DEF Walk, CacheIsRest, Passed
<1>3. SeenIsPrefix(j)'
  BY Zenon DEF Walk, SeenIsPrefix
<1>4. MovedMeansSeen(j)'
  BY Zenon DEF Walk, MovedMeansSeen
<1> QED BY <1>1, <1>2, <1>3, <1>4 DEF Walk

LEMMA GetIteratorStep ==
  ASSUME IInv, NEW i \in Iterators, GetIterator(i)
  PROVE  IInv'
<1> USE DEF GetIterator
<1>0. TypeOK /\ RegistryExact /\ MovedIsAtItem
  BY DEF IInv
<1>1. TypeOK' /\ MovedIsAtItem'
  BY <1>0 DEF TypeOK, MovedIsAtItem, listVars
<1>2. RegistryExact'
  BY <1>0 DEF TypeOK, RegistryExact, listVars
<1>3. ASSUME NEW j \in Iterators \ early' PROVE Walk(j)'
  <2>1. CASE j = i
    <3>1. /\ phase'[i] = "open" /\ ~cached'[i] /\ ~status'[i] /\ pos'[i] = 0 /\ seen'[i] = << >>
          /\ snapshot'[i] = list /\ list' = list
      BY <1>0 DEF TypeOK, listVars
    <3>2. Len(list) \in Nat /\ Len(seen'[i]) = 0
      BY <1>0, <3>1 DEF TypeOK
    <3>3. WalksSnapshot(i)'
      BY <3>1, <3>2 DEF WalksSnapshot
    <3>4. CacheIsRest(i)'
      BY <3>1 DEF CacheIsRest
    <3>5. SeenIsPrefix(i)' /\ MovedMeansSeen(i)'
      BY <3>1, <3>2 DEF SeenIsPrefix, MovedMeansSeen
    <3> QED BY <2>1, <3>3, <3>4, <3>5 DEF Walk
  <2>2. CASE j # i
    <3>1. Walk(j)
      BY <1>3, <2>2 DEF IInv
    <3>2. /\ phase'[j] = phase[j] /\ cached'[j] = cached[j] /\ status'[j] = status[j] /\ pos'[j] = pos[j]
          /\ seen'[j] = seen[j] /\ snapshot'[j] = snapshot[j] /\ list' = list
          /\ cache'[j] = cache[j] /\ cursor'[j] = cursor[j]
      BY <1>0, <2>2 DEF TypeOK, listVars
    <3> QED BY <3>1, <3>2, SameWalk
  <2> QED BY <2>1, <2>2
<1> QED BY <1>1, <1>2, <1>3 DEF IInv

LEMMA MoveNextStep ==
  ASSUME IInv, NEW i \in Iterators, MoveNext(i)
  PROVE  IInv'
<1> USE DEF MoveNext
<1>0. TypeOK /\ RegistryExact /\ MovedIsAtItem
  BY DEF IInv
<1>a. /\ Len(list) \in Nat /\ Len(seen[i]) \in Nat /\ Len(snapshot[i]) \in Nat /\ Len(cache[i]) \in Nat
      /\ pos[i] \in Nat /\ cursor[i] \in Nat
  BY <1>0 DEF TypeOK
<1> DEFINE next == Walked(i)[At(i) + 1]
<1>b. /\ At(i) \in Nat /\ Walked(i) \in Seq(Values) /\ next \in Values
  BY <1>0, <1>a DEF TypeOK, Walked, At
<1>1. TypeOK' /\ MovedIsAtItem'
  <2>1. seen' \in [Iterators -> Seq(Values)]
    BY <1>0, <1>b DEF TypeOK
  <2>2. pos' \in [Iterators -> Nat] /\ cursor' \in [Iterators -> Nat]
    <3>1. \/ cursor' = [cursor EXCEPT ![i] = cursor[i] + 1] /\ pos' = pos
          \/ pos' = [pos EXCEPT ![i] = pos[i] + 1] /\ cursor' = cursor
      OBVIOUS
    <3>2. pos \in [Iterators -> Nat] /\ cursor \in [Iterators -> Nat]
      BY <1>0 DEF TypeOK
    <3> HIDE DEF MoveNext
    <3> QED BY <1>a, <3>1, <3>2
  <2>4. status' \in [Iterators -> BOOLEAN]
    BY <1>0 DEF TypeOK
  <2>3. MovedIsAtItem'
    BY <1>0, <1>a DEF TypeOK, MovedIsAtItem
  <2> QED BY <1>0, <2>1, <2>2, <2>3, <2>4 DEF TypeOK, listVars
<1>2. RegistryExact'
  BY <1>0 DEF RegistryExact, listVars
<1>3. ASSUME NEW j \in Iterators \ early' PROVE Walk(j)'
  <2>0. Walk(j)
    BY <1>3 DEF IInv
  <2>1. CASE j = i
    <3>1. /\ phase'[i] = "open" /\ phase[i] = "open" /\ cached'[i] = cached[i] /\ status'[i]
          /\ snapshot'[i] = snapshot[i] /\ list' = list /\ cache'[i] = cache[i]
          /\ seen'[i] = Append(seen[i], next)
          /\ pos'[i] = IF cached[i] THEN pos[i] ELSE pos[i] + 1
          /\ cursor'[i] = IF cached[i] THEN cursor[i] + 1 ELSE cursor[i]
      BY <1>0 DEF TypeOK, listVars
    <3>2. /\ Len(seen'[i]) = Len(seen[i]) + 1
          /\ \A k \in 1 .. Len(seen[i]) : seen'[i][k] = seen[i][k]
          /\ seen'[i][Len(seen[i]) + 1] = next
      BY <1>0, <1>a, <1>b, <3>1 DEF TypeOK
    <3>3. Len(seen[i]) < Len(snapshot[i]) /\ next = snapshot[i][Len(seen[i]) + 1]
      <4>1. CASE cached[i]
        <5>1. cursor[i] + 1 \in 1 .. Len(cache[i]) /\ next = cache[i][cursor[i] + 1]
          BY <1>a, <4>1 DEF Walked, At
        <5>2. /\ Passed(i) \in Nat /\ Len(seen[i]) = Passed(i) + cursor[i]
              /\ cache[i][cursor[i] + 1] = snapshot[i][Passed(i) + (cursor[i] + 1)]
          BY <2>0, <2>1, <4>1, <5>1 DEF Walk, CacheIsRest
        <5>3. Len(snapshot[i]) = Passed(i) + Len(cache[i])
          BY <1>a DEF Passed
        <5>4. Passed(i) + (cursor[i] + 1) = Len(seen[i]) + 1
          BY <1>a, <5>2
        <5>5. Len(seen[i]) < Len(snapshot[i])
          BY <1>a, <5>1, <5>2, <5>3
        <5> HIDE DEF next, MoveNext
        <5> QED BY <5>1, <5>2, <5>4, <5>5
      <4>2. CASE ~cached[i]
        <5>1. pos[i] < Len(list) /\ next = list[pos[i] + 1]
          BY <4>2 DEF Walked, At
        <5>2. list = snapshot[i] /\ pos[i] = Len(seen[i])
          BY <2>0, <2>1, <3>1, <4>2 DEF Walk, WalksSnapshot
        <5> HIDE DEF next, MoveNext
        <5> QED BY <5>1, <5>2
      <4> QED BY <4>1, <4>2
    <3>4. SeenIsPrefix(i)' /\ MovedMeansSeen(i)'
      BY <1>a, <2>0, <2>1, <3>1, <3>2, <3>3 DEF Walk, SeenIsPrefix, MovedMeansSeen
    <3>5. WalksSnapshot(i)'
      BY <1>a, <2>0, <2>1, <3>1, <3>2 DEF Walk, WalksSnapshot
    <3>6. CacheIsRest(i)'
      <4> SUFFICES ASSUME cached[i] PROVE CacheIsRest(i)'
        BY <3>1 DEF CacheIsRest
      <4>1. cursor'[i] = cursor[i] + 1 /\ cursor'[i] \in 1 .. Len(cache[i])
        BY <1>a, <3>1 DEF Walked, At
      <4>2. /\ Passed(i) \in Nat /\ Len(seen[i]) = Passed(i) + cursor[i]
            /\ \A k \in 1 .. Len(cache[i]) : cache[i][k] = snapshot[i][Passed(i) + k]
        BY <2>0, <2>1 DEF Walk, CacheIsRest
      <4>3. Passed(i)' = Passed(i)
        BY <3>1, Zenon DEF Passed
      <4>4. Len(seen'[i]) = Passed(i) + cursor'[i]
        BY <1>a, <3>2, <4>1, <4>2
      <4> QED BY <3>1, <4>1, <4>2, <4>3, <4>4 DEF CacheIsRest
    <3> QED BY <2>1, <3>4, <3>5, <3>6 DEF Walk
  <2>2. CASE j # i
    <3>1. /\ phase'[j] = phase[j] /\ cached'[j] = cached[j] /\ status'[j] = status[j] /\ pos'[j] = pos[j]
          /\ seen'[j] = seen[j] /\ snapshot'[j] = snapshot[j] /\ list' = list
          /\ cache'[j] = cache[j] /\ cursor'[j] = cursor[j]
      BY <1>0, <2>2 DEF TypeOK, listVars
    <3> QED BY <2>0, <3>1, SameWalk
  <2> QED BY <2>1, <2>2
<1> QED BY <1>1, <1>2, <1>3 DEF IInv

LEMMA MoveEndStep ==
  ASSUME IInv, NEW i \in Iterators, MoveEnd(i)
  PROVE  IInv'
<1> USE DEF MoveEnd
<1>0. TypeOK /\ RegistryExact /\ MovedIsAtItem
  BY DEF IInv
<1>1. TypeOK' /\ MovedIsAtItem'
  BY <1>0 DEF TypeOK, MovedIsAtItem, listVars, walkVars
<1>2. RegistryExact'
  BY <1>0 DEF TypeOK, RegistryExact, listVars, walkVars
<1>3. ASSUME NEW j \in Iterators \ early' PROVE Walk(j)'
  <2>0. Walk(j)
    BY <1>3 DEF IInv
  <2>1. /\ Len(list) \in Nat /\ Len(seen[j]) \in Nat /\ Len(snapshot[j]) \in Nat /\ Len(cache[j]) \in Nat
        /\ pos[j] \in Nat /\ cursor[j] \in Nat
    BY <1>0 DEF TypeOK
  <2>2. phase'[j] = phase[j] \/ (j = i /\ phase'[j] = "ended" /\ phase[j] = "open")
    BY <1>0 DEF TypeOK
  <2>3. ASSUME j = i PROVE Len(seen[j]) = Len(snapshot[j])
    <3>1. CASE cached[j]
      <4>1. /\ Len(seen[j]) = Passed(j) + cursor[j] /\ cursor[j] = Len(cache[j])
            /\ Passed(j) \in Nat
        BY <2>0, <2>1, <2>3, <3>1 DEF Walk, CacheIsRest, Walked, At
      <4> QED BY <2>1, <4>1 DEF Passed
    <3>2. CASE ~cached[j]
      BY <2>0, <2>1, <2>3, <3>2 DEF Walk, WalksSnapshot, SeenIsPrefix, Walked, At
    <3> QED BY <3>1, <3>2
  <2> QED
    BY <2>0, <2>2, <2>3, SameWalk DEF listVars, walkVars
<1> QED BY <1>1, <1>2, <1>3 DEF IInv

LEMMA DestroyIteratorStep ==
  ASSUME IInv, NEW i \in Iterators, DestroyIterator(i)
  PROVE  IInv'
<1> USE DEF DestroyIterator
<1>0. TypeOK /\ RegistryExact /\ MovedIsAtItem
  BY DEF IInv
<1>1. TypeOK' /\ MovedIsAtItem'
  BY <1>0 DEF TypeOK, MovedIsAtItem, listVars, walkVars
<1>2. RegistryExact'
  BY <1>0 DEF TypeOK, RegistryExact, listVars, walkVars
<1>3. ASSUME NEW j \in Iterators \ early' PROVE Walk(j)'
  <2>0. Walk(j)
    BY <1>3 DEF IInv
  <2>1. phase'[j] = phase[j] \/ phase'[j] = "none"
    BY <1>0 DEF TypeOK
  <2> QED
    BY <2>0, <2>1, SameWalk DEF listVars, walkVars
<1> QED BY <1>1, <1>2, <1>3 DEF IInv

\* operator = of an Event, behind the back of the guard: those that walk the list are early.
LEMMA AssignEventStep ==
  ASSUME IInv, NEW d \in Values, AssignEvent(<<d>>)
  PROVE  IInv'
<1> USE DEF AssignEvent
<1>0. TypeOK /\ RegistryExact /\ MovedIsAtItem
  BY DEF IInv
<1>1. TypeOK' /\ MovedIsAtItem'
  <2>1. <<d>> \in Seq(Values)
    OBVIOUS
  <2> QED BY <1>0, <2>1 DEF TypeOK, MovedIsAtItem, walkVars
<1>2. RegistryExact'
  BY <1>0 DEF TypeOK, RegistryExact, walkVars
<1>3. ASSUME NEW j \in Iterators \ early' PROVE Walk(j)'
  <2>0. Walk(j)
    BY <1>3 DEF IInv
  <2>1. ~(phase[j] = "open" /\ ~cached[j])
    BY <1>0, <1>3 DEF RegistryExact
  <2> QED
    BY <2>0, <2>1, SameWalk DEF walkVars
<1> QED BY <1>1, <1>2, <1>3 DEF IInv

-----------------------------------------------------------------------------
(* The theorems                                                            *)

LEMMA InitIInv == Init => IInv
<1> SUFFICES ASSUME Init PROVE IInv
  OBVIOUS
<1> USE DEF Init
<1>1. TypeOK
  <2>1. << >> \in Seq(Values)
    OBVIOUS
  <2> QED BY <2>1 DEF TypeOK
<1>2. RegistryExact /\ MovedIsAtItem
  BY DEF RegistryExact, MovedIsAtItem
<1>3. ASSUME NEW i \in Iterators PROVE Walk(i)
  BY DEF Walk, WalksSnapshot, CacheIsRest, SeenIsPrefix, MovedMeansSeen
<1> QED BY <1>1, <1>2, <1>3 DEF IInv

LEMMA NextIInv == IInv /\ [EventNext]_vars => IInv'
<1> SUFFICES ASSUME IInv, [EventNext]_vars PROVE IInv'
  OBVIOUS
<1>0. TypeOK
  BY DEF IInv
<1>1. CASE Mutate
  BY <1>0, <1>1, MutateIsChange, ChangeStep
<1>2. CASE DestroyList
  BY <1>2, DestroyStep
<1>3. ASSUME NEW i \in Iterators, Iterate(i) PROVE IInv'
  BY <1>3, GetIteratorStep, MoveNextStep, MoveEndStep, DestroyIteratorStep DEF Iterate
<1>4. ASSUME NEW methods \in SUBSET Values, RemoveObject(methods) PROVE IInv'
  <2>1. Without(list, methods) \in Seq(Values)
    BY <1>0, WithoutType DEF TypeOK
  <2> QED BY <1>4, <2>1, ChangeStep DEF RemoveObject
<1>5. ASSUME NEW d \in Values, AssignEvent(<<d>>) PROVE IInv'
  BY <1>5, AssignEventStep
<1>6. CASE UNCHANGED vars
  <2>1. \A i \in Iterators : Walk(i) => Walk(i)'
    BY <1>6, SameWalk DEF vars, listVars, walkVars
  <2> QED BY <1>6, <2>1 DEF vars, listVars, walkVars, IInv, TypeOK, RegistryExact, MovedIsAtItem
<1> QED
  BY <1>1, <1>2, <1>3, <1>4, <1>5, <1>6 DEF EventNext, Next

LEMMA IInvAlways == EventSpec => []IInv
  BY InitIInv, NextIInv, PTL DEF EventSpec

\* The registry of a guarded list holds exactly the iterators that point to it, through
\* every order of loops, breaks, nested changes, assignments and the end of the list.
THEOREM RegistryTheorem == EventSpec => []RegistryExact
<1>1. IInv => RegistryExact
  BY DEF IInv
<1> QED BY <1>1, IInvAlways, PTL

\* A dispatch calls the listeners there were when it began, in order, none twice, and all of
\* them if it runs to its end.
THEOREM SnapshotTheorem == EventSpec => []VisitsSnapshot
<1>1. IInv => VisitsSnapshot
  BY DEF IInv, Walk, SeenIsPrefix, VisitsSnapshot
<1> QED BY <1>1, IInvAlways, PTL

\* GetCurrent() is the item the iterator was last moved to, whatever became of the list.
THEOREM CurrentTheorem == EventSpec => []CurrentSurvives
<1>1. IInv => CurrentSurvives
  <2> SUFFICES ASSUME IInv, NEW i \in Iterators \ early, phase[i] = "open", status[i]
               PROVE  At(i) \in 1 .. Len(Walked(i)) /\ GetCurrent(i) = seen[i][Len(seen[i])]
    BY DEF CurrentSurvives
  <2>1. Walk(i) /\ TypeOK
    BY DEF IInv
  <2>2. /\ Len(list) \in Nat /\ Len(seen[i]) \in Nat /\ Len(snapshot[i]) \in Nat /\ Len(cache[i]) \in Nat
        /\ pos[i] \in Nat /\ cursor[i] \in Nat
    BY <2>1 DEF TypeOK
  <2>3. CASE cached[i]
    <3>1. /\ Passed(i) \in Nat /\ cursor[i] \in 1 .. Len(cache[i]) /\ Len(seen[i]) = Passed(i) + cursor[i]
          /\ cache[i][cursor[i]] = snapshot[i][Passed(i) + cursor[i]]
      BY <2>1, <2>3 DEF Walk, CacheIsRest
    <3>2. seen[i][Len(seen[i])] = snapshot[i][Len(seen[i])]
      BY <2>1, <2>2, <3>1 DEF Walk, SeenIsPrefix
    <3> QED BY <2>3, <3>1, <3>2 DEF At, Walked, GetCurrent
  <2>4. CASE ~cached[i]
    BY <2>1, <2>2, <2>4 DEF Walk, WalksSnapshot, SeenIsPrefix, MovedMeansSeen, At, Walked, GetCurrent
  <2> QED BY <2>3, <2>4
<1> QED BY <1>1, IInvAlways, PTL

=============================================================================
