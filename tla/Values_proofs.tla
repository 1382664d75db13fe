---------------------------- MODULE Values_proofs ---------------------------
(***************************************************************************)
(* Theorems about what programs keep in memory: reference counts, for any  *)
(* number of threads, pointers, objects and items, and strings, for any    *)
(* code points and any number of String objects.                           *)
(***************************************************************************)
EXTENDS Objects, Strings, SequenceTheorems, FiniteSetTheorems, NaturalsInduction, WellFoundedInduction, TLAPS

-----------------------------------------------------------------------------
(* How often a value is in a sequence                                      *)

One(y, x) == IF y = x THEN 1 ELSE 0

\* In a function of a finite domain there are as many as there are, and none where none is.
LEMMA TimesType ==
  ASSUME NEW f, IsFiniteSet(DOMAIN f), NEW x
  PROVE  /\ Times(f, x) \in Nat /\ IsFiniteSet({i \in DOMAIN f : f[i] = x})
         /\ Times(f, x) = 0 <=> \A i \in DOMAIN f : f[i] # x
<1> DEFINE S == {i \in DOMAIN f : f[i] = x}
<1>1. S \in SUBSET DOMAIN f
  OBVIOUS
<1>2. IsFiniteSet(S)
  BY <1>1, FS_Subset
<1>3. Cardinality(S) \in Nat /\ (Cardinality(S) = 0 <=> S = {})
  BY <1>2, FS_CardinalityType, FS_EmptySet
<1> QED BY <1>2, <1>3 DEF Times

LEMMA SeqIsFinite ==
  ASSUME NEW V, NEW s \in Seq(V)
  PROVE  DOMAIN s = 1 .. Len(s) /\ Len(s) \in Nat /\ IsFiniteSet(DOMAIN s)
<1>1. DOMAIN s = 1 .. Len(s) /\ Len(s) \in Nat
  OBVIOUS
<1>2. IsFiniteSet(1 .. Len(s))
  BY <1>1, FS_Interval
<1> QED BY <1>1, <1>2

\* What replacing one value does, of an AutoPointer or of an item.
LEMMA TimesReplaced ==
  ASSUME NEW f, IsFiniteSet(DOMAIN f), NEW d \in DOMAIN f, NEW y, NEW x
  PROVE  Times([f EXCEPT ![d] = y], x) = Times(f, x) - One(f[d], x) + One(y, x)
<1> DEFINE S == {i \in DOMAIN f : f[i] = x}
           g == [f EXCEPT ![d] = y]
           T == {i \in DOMAIN g : g[i] = x}
<1>1. IsFiniteSet(S) /\ Cardinality(S) \in Nat
  BY TimesType, FS_CardinalityType
<1>2. T = IF y = x THEN S \cup {d} ELSE S \ {d}
  OBVIOUS
<1>3. IsFiniteSet(S \cup {d}) /\ Cardinality(S \cup {d}) = IF d \in S THEN Cardinality(S) ELSE Cardinality(S) + 1
  BY <1>1, FS_AddElement
<1>4. Cardinality(S \ {d}) = IF d \in S THEN Cardinality(S) - 1 ELSE Cardinality(S)
  BY <1>1, FS_RemoveElement
<1>5. d \in S <=> f[d] = x
  OBVIOUS
<1>6. Times(f, x) = Cardinality(S) /\ Times(g, x) = Cardinality(T)
  BY DEF Times
<1> HIDE DEF S, T, g
<1>7. CASE y = x
  BY <1>1, <1>2, <1>3, <1>5, <1>6, <1>7 DEF One, g
<1>8. CASE y # x
  BY <1>1, <1>2, <1>4, <1>5, <1>6, <1>8 DEF One, g
<1> QED BY <1>7, <1>8

LEMMA TimesEmpty ==
  ASSUME NEW x
  PROVE  Times(<< >>, x) = 0
<1>1. {i \in DOMAIN << >> : << >>[i] = x} = {}
  OBVIOUS
<1> QED BY <1>1, FS_EmptySet DEF Times

LEMMA TimesSingle ==
  ASSUME NEW V, NEW y \in V, NEW x
  PROVE  Times(<<y>>, x) = One(y, x)
<1> DEFINE s == <<y>>
<1>1. DOMAIN s = {1} /\ s[1] = y
  OBVIOUS
<1>2. {i \in DOMAIN s : s[i] = x} = IF y = x THEN {1} ELSE {}
  BY <1>1
<1>3. Cardinality({1}) = 1
  BY FS_Singleton
<1> QED BY <1>2, <1>3, FS_EmptySet DEF Times, One

\* Of a sequence after another: the places of the second are shifted by the length of the first.
LEMMA TimesConcat ==
  ASSUME NEW V, NEW s \in Seq(V), NEW r \in Seq(V), NEW x
  PROVE  Times(s \o r, x) = Times(s, x) + Times(r, x)
<1> DEFINE q == s \o r
           A == {i \in DOMAIN s : s[i] = x}
           B == {i \in DOMAIN r : r[i] = x}
           C == {i \in DOMAIN q : q[i] = x}
           D == C \ A
           f == [i \in B |-> i + Len(s)]
<1>0. /\ q \in Seq(V) /\ Len(q) = Len(s) + Len(r) /\ Len(s) \in Nat /\ Len(r) \in Nat
      /\ \A i \in 1 .. Len(s) : q[i] = s[i]
      /\ \A i \in 1 .. Len(r) : q[Len(s) + i] = r[i]
  BY ConcatProperties
<1>1. DOMAIN s = 1 .. Len(s) /\ DOMAIN r = 1 .. Len(r) /\ DOMAIN q = 1 .. Len(s) + Len(r)
  BY <1>0
<1>2. IsFiniteSet(A) /\ IsFiniteSet(B) /\ IsFiniteSet(C)
  BY <1>0, SeqIsFinite, TimesType, ZenonT(40)
<1> HIDE DEF q
<1>3. A \subseteq C
  BY <1>0, <1>1
<1>4. \A i \in B : i + Len(s) \in D
  BY <1>0, <1>1
<1>5. \A j \in D : j - Len(s) \in B /\ j = (j - Len(s)) + Len(s)
  BY <1>0, <1>1
<1>6. f \in Bijection(B, D)
  <2>1. \A a, b \in B : a + Len(s) = b + Len(s) => a = b
    BY <1>0, <1>1
  <2>2. f \in [B -> D] /\ \A i \in B : f[i] = i + Len(s)
    BY <1>4
  <2>3. \A j \in D : f[j - Len(s)] = j
    BY <1>5, <2>2
  <2> HIDE DEF f, B, D
  <2>4. f \in Injection(B, D)
    BY <2>1, <2>2 DEF Injection, IsInjective
  <2>5. f \in Surjection(B, D)
    BY <1>5, <2>2, <2>3 DEF Surjection
  <2> QED BY <2>4, <2>5 DEF Bijection
<1>7. Cardinality(D) = Cardinality(B)
  <2> HIDE DEF f, B, D
  <2> QED BY <1>2, <1>6, FS_Bijection DEF ExistsBijection
<1>8. Cardinality(D) = Cardinality(C) - Cardinality(C \cap A)
  BY <1>2, FS_Difference
<1>9. Cardinality(C \cap A) = Cardinality(A)
  <2>1. C \cap A = A
    BY <1>3
  <2> QED BY <2>1
<1>10. Cardinality(A) \in Nat /\ Cardinality(B) \in Nat /\ Cardinality(C) \in Nat
  BY <1>2, FS_CardinalityType
<1>11. Times(q, x) = Cardinality(C) /\ Times(s, x) = Cardinality(A) /\ Times(r, x) = Cardinality(B)
  BY DEF Times
<1> HIDE DEF A, B, C, D
<1>12. PICK a \in Nat, b \in Nat, c \in Nat : a = Cardinality(A) /\ b = Cardinality(B) /\ c = Cardinality(C)
  BY <1>10
<1>13. b = c - a
  BY <1>7, <1>8, <1>9, <1>12
<1>14. c = a + b
  BY <1>13
<1> QED BY <1>11, <1>12, <1>14 DEF q

\* A sequence cut before its i-th item
LEMMA TimesCut ==
  ASSUME NEW V, NEW s \in Seq(V), NEW i \in 1 .. Len(s) + 1, NEW x
  PROVE  /\ SubSeq(s, 1, i - 1) \in Seq(V) /\ SubSeq(s, i, Len(s)) \in Seq(V)
         /\ Times(s, x) = Times(SubSeq(s, 1, i - 1), x) + Times(SubSeq(s, i, Len(s)), x)
<1> DEFINE a == SubSeq(s, 1, i - 1)
           b == SubSeq(s, i, Len(s))
<1>1. a \in Seq(V) /\ b \in Seq(V)
  OBVIOUS
<1>2. s = a \o b
  <2> DEFINE k == i - 1
  <2>1. Len(s) \in Nat /\ k \in 1 - 1 .. Len(s) /\ 1 \in 1 .. Len(s) + 1 /\ Len(s) \in k .. Len(s) /\ i = k + 1
    OBVIOUS
  <2> HIDE DEF k
  <2>2. SubSeq(s, 1, k) \o SubSeq(s, k + 1, Len(s)) = SubSeq(s, 1, Len(s))
    BY <2>1, ConcatAdjacentSubSeq
  <2> QED BY <2>1, <2>2, SubSeqFull DEF k
<1> HIDE DEF a, b
<1>3. Times(a \o b, x) = Times(a, x) + Times(b, x)
  BY <1>1, TimesConcat
<1> QED BY <1>1, <1>2, <1>3 DEF a, b

\* InsertAt and RemoveAt
LEMMA TimesInserted ==
  ASSUME NEW V, NEW s \in Seq(V), NEW i \in 1 .. Len(s) + 1, NEW y \in V, NEW x
  PROVE  InsertAt(s, i, y) \in Seq(V) /\ Times(InsertAt(s, i, y), x) = Times(s, x) + One(y, x)
<1> DEFINE a == SubSeq(s, 1, i - 1)
           b == SubSeq(s, i, Len(s))
<1>1. a \in Seq(V) /\ b \in Seq(V) /\ <<y>> \in Seq(V) /\ Times(s, x) = Times(a, x) + Times(b, x)
  BY TimesCut
<1> HIDE DEF a, b
<1>2. a \o <<y>> \in Seq(V) /\ a \o <<y>> \o b \in Seq(V)
  BY <1>1
<1>3. Times(a \o <<y>> \o b, x) = Times(a \o <<y>>, x) + Times(b, x)
  BY <1>1, <1>2, TimesConcat, ZenonT(40)
<1>4. Times(a \o <<y>>, x) = Times(a, x) + Times(<<y>>, x)
  BY <1>1, TimesConcat, ZenonT(40)
<1>5. Times(<<y>>, x) = One(y, x)
  BY TimesSingle
<1>6. Times(a, x) \in Nat /\ Times(b, x) \in Nat
  BY <1>1, SeqIsFinite, TimesType
<1>7. One(y, x) \in Nat
  BY DEF One
<1> QED BY <1>1, <1>2, <1>3, <1>4, <1>5, <1>6, <1>7 DEF InsertAt, a, b

LEMMA TimesRemoved ==
  ASSUME NEW V, NEW s \in Seq(V), NEW i \in 1 .. Len(s), NEW x
  PROVE  RemoveAt(s, i) \in Seq(V) /\ Times(RemoveAt(s, i), x) = Times(s, x) - One(s[i], x)
<1> DEFINE a == SubSeq(s, 1, i - 1)
           b == SubSeq(s, i + 1, Len(s))
           c == <<s[i]>>
<1>1. a \in Seq(V) /\ b \in Seq(V) /\ c \in Seq(V) /\ s[i] \in V
  OBVIOUS
<1>2. s = a \o (c \o b)
  <2> DEFINE k == i - 1
  <2>1. Len(s) \in Nat /\ k \in 1 - 1 .. Len(s) /\ 1 \in 1 .. Len(s) + 1 /\ Len(s) \in k .. Len(s) /\ i = k + 1
    OBVIOUS
  <2> HIDE DEF k
  <2>2. SubSeq(s, 1, k) \o SubSeq(s, k + 1, Len(s)) = SubSeq(s, 1, Len(s))
    BY <2>1, ConcatAdjacentSubSeq
  <2>3. Len(s) \in i .. Len(s)
    OBVIOUS
  <2>4. SubSeq(s, i, Len(s)) = c \o b
    BY <2>3, SubSeqRecursiveFirst
  <2> QED BY <2>1, <2>2, <2>4, SubSeqFull DEF k
<1>3. Times(c, x) = One(s[i], x)
  BY <1>1, TimesSingle
<1> HIDE DEF a, b, c
<1>4. c \o b \in Seq(V) /\ a \o b \in Seq(V)
  BY <1>1
<1>5. Times(s, x) = Times(a, x) + Times(c \o b, x)
  BY <1>1, <1>2, <1>4, TimesConcat, ZenonT(40)
<1>6. Times(c \o b, x) = Times(c, x) + Times(b, x)
  BY <1>1, TimesConcat
<1>7. Times(a \o b, x) = Times(a, x) + Times(b, x)
  BY <1>1, TimesConcat
<1>8. Times(a, x) \in Nat /\ Times(b, x) \in Nat
  BY <1>1, SeqIsFinite, TimesType
<1>9. One(s[i], x) \in Nat
  BY DEF One
<1> QED BY <1>3, <1>4, <1>5, <1>6, <1>7, <1>8, <1>9 DEF RemoveAt, a, b

\* What RemoveItems leaves of an array: at is one to one with the places of the others.
LEMMA TimesOthers ==
  ASSUME NEW V, NEW s \in Seq(V), NEW y, NEW r \in Others(s, y), NEW x
  PROVE  r \in Seq(V) /\ Times(r, x) = IF x = y THEN 0 ELSE Times(s, x)
<1> DEFINE left == {i \in DOMAIN s : s[i] # y}
           n == Cardinality(left)
<1>0. DOMAIN s = 1 .. Len(s) /\ IsFiniteSet(DOMAIN s) /\ \A i \in DOMAIN s : s[i] \in V
  BY SeqIsFinite
<1>1. left \in SUBSET DOMAIN s
  OBVIOUS
<1>2. IsFiniteSet(left) /\ n \in Nat
  BY <1>0, <1>1, FS_Subset, FS_CardinalityType
<1>3. PICK at \in [1 .. n -> left] :
        /\ \A i, j \in DOMAIN at : i < j => at[i] < at[j]
        /\ r = [i \in DOMAIN at |-> s[at[i]]]
  BY DEF Others
<1>4. DOMAIN r = 1 .. n /\ \A i \in 1 .. n : at[i] \in left /\ r[i] = s[at[i]]
  BY <1>3
<1>5. \A i \in 1 .. n : at[i] \in DOMAIN s /\ at[i] \in Int /\ s[at[i]] # y /\ s[at[i]] \in V
  BY <1>0, <1>4
<1>6. \A i, j \in 1 .. n : at[i] = at[j] => i = j
  <2> SUFFICES ASSUME NEW i \in 1 .. n, NEW j \in 1 .. n, at[i] = at[j], i # j PROVE FALSE
    OBVIOUS
  <2>1. i < j \/ j < i
    BY <1>2
  <2>2. at[i] < at[j] \/ at[j] < at[i]
    BY <1>3, <2>1
  <2> QED BY <1>5, <2>2
<1>7. r = [i \in 1 .. n |-> s[at[i]]]
  BY <1>3
<1>8. r \in Seq(V)
  <2> HIDE DEF n, left
  <2> QED BY <1>2, <1>5, <1>7
<1>9. CASE x = y
  <2>1. \A i \in DOMAIN r : r[i] # x
    BY <1>4, <1>5, <1>9
  <2>2. IsFiniteSet(DOMAIN r)
    BY <1>8, SeqIsFinite
  <2> QED BY <1>8, <1>9, <2>1, <2>2, TimesType
<1>10. CASE x # y
  <2>1. IsFiniteSet(1 .. n) /\ Cardinality(1 .. n) = n
    <3> HIDE DEF n
    <3> QED BY <1>2, FS_Interval
  <2>2. at \in Injection(1 .. n, left)
    BY <1>3, <1>6 DEF Injection, IsInjective
  <2>3. at \in Surjection(1 .. n, left)
    <3>1. Cardinality(1 .. n) = Cardinality(left) <=> at \in Surjection(1 .. n, left)
      BY <1>2, <2>2, FS_Injection
    <3> QED BY <2>1, <3>1
  <2>4. \A i \in left : \E k \in 1 .. n : at[k] = i
    BY <2>3 DEF Surjection
  <2> DEFINE A == {k \in DOMAIN r : r[k] = x}
             B == {i \in DOMAIN s : s[i] = x}
             f == [k \in A |-> at[k]]
  <2>5. \A k \in A : k \in 1 .. n /\ at[k] \in B
    BY <1>4, <1>5
  <2>6. \A i \in B : \E k \in A : at[k] = i
    BY <1>4, <1>10, <2>4
  <2>7. IsFiniteSet(A)
    BY <1>8, SeqIsFinite, TimesType
  <2> HIDE DEF A, B
  <2>8. f \in [A -> B] /\ \A k \in A : f[k] = at[k]
    BY <2>5
  <2> HIDE DEF f
  <2>9. f \in Injection(A, B)
    BY <1>6, <2>5, <2>8 DEF Injection, IsInjective
  <2>10. f \in Surjection(A, B)
    BY <2>6, <2>8 DEF Surjection
  <2>11. f \in Bijection(A, B)
    BY <2>9, <2>10 DEF Bijection
  <2>12. Cardinality(B) = Cardinality(A)
    BY <2>7, <2>11, FS_Bijection DEF ExistsBijection
  <2> QED BY <1>8, <1>10, <2>12 DEF Times, A, B
<1> QED BY <1>9, <1>10

-----------------------------------------------------------------------------
(* What sequences of calls do to the count of an object                    *)

Calls == [call : {"Retain", "Release"}, on : Objs]
RetainOf(o) == [call |-> "Retain", on |-> o]
ReleaseOf(o) == [call |-> "Release", on |-> o]

\* The references to o that a thread gives up in the calls s, less those that it takes.
Balance(s, o) == Times(s, ReleaseOf(o)) - Times(s, RetainOf(o))

\* What is left of s from its j-th call on
From(s, j) == SubSeq(s, j, Len(s))

\* A thread that has n references to o in its slots, and the calls s to make, counts for
\* this many in the count of o.
Counted(n, s, o) == n + Balance(s, o)

\* It never counts for less than none, and for at least least whenever it calls o.
Safe(n, s, o, least) ==
  \A j \in 1 .. Len(s) + 1 :
    /\ Counted(n, From(s, j), o) >= 0
    /\ j <= Len(s) /\ s[j].on = o => Counted(n, From(s, j), o) >= least

LEMMA BalanceType ==
  ASSUME NEW s \in Seq(Calls), NEW o
  PROVE  Balance(s, o) \in Int
<1>1. IsFiniteSet(DOMAIN s)
  BY SeqIsFinite
<1>2. Times(s, ReleaseOf(o)) \in Nat /\ Times(s, RetainOf(o)) \in Nat
  BY <1>1, TimesType
<1> QED BY <1>2 DEF Balance

LEMMA BalanceConcat ==
  ASSUME NEW s \in Seq(Calls), NEW r \in Seq(Calls), NEW o
  PROVE  Balance(s \o r, o) = Balance(s, o) + Balance(r, o)
<1>1. IsFiniteSet(DOMAIN s) /\ IsFiniteSet(DOMAIN r)
  BY SeqIsFinite
<1>2. /\ Times(s, ReleaseOf(o)) \in Nat /\ Times(s, RetainOf(o)) \in Nat
      /\ Times(r, ReleaseOf(o)) \in Nat /\ Times(r, RetainOf(o)) \in Nat
  BY <1>1, TimesType
<1>3. /\ Times(s \o r, ReleaseOf(o)) = Times(s, ReleaseOf(o)) + Times(r, ReleaseOf(o))
      /\ Times(s \o r, RetainOf(o)) = Times(s, RetainOf(o)) + Times(r, RetainOf(o))
  BY TimesConcat
<1> QED BY <1>2, <1>3 DEF Balance

LEMMA BalanceEmpty ==
  ASSUME NEW o
  PROVE  Balance(<< >>, o) = 0
  BY TimesEmpty DEF Balance

LEMMA BalanceSingle ==
  ASSUME NEW c \in Calls, NEW o
  PROVE  Balance(<<c>>, o) = IF c.on # o THEN 0 ELSE IF c.call = "Release" THEN 1 ELSE -1
<1>1. /\ Times(<<c>>, ReleaseOf(o)) = One(c, ReleaseOf(o))
      /\ Times(<<c>>, RetainOf(o)) = One(c, RetainOf(o))
  BY TimesSingle
<1>2. c.call \in {"Retain", "Release"} /\ c = [call |-> c.call, on |-> c.on]
  BY DEF Calls
<1>3. (c = ReleaseOf(o) <=> c.call = "Release" /\ c.on = o) /\ (c = RetainOf(o) <=> c.call = "Retain" /\ c.on = o)
  BY <1>2 DEF ReleaseOf, RetainOf
<1> HIDE DEF Calls
<1>4. Balance(<<c>>, o) = One(c, ReleaseOf(o)) - One(c, RetainOf(o))
  BY <1>1 DEF Balance
<1> QED BY <1>2, <1>3, <1>4 DEF One

\* The rest of two sequences one after the other
LEMMA RestConcat ==
  ASSUME NEW V, NEW s \in Seq(V), NEW r \in Seq(V)
  PROVE  /\ \A j \in 1 .. Len(s) : From(s \o r, j) = From(s, j) \o r
         /\ \A j \in 1 .. Len(r) + 1 : From(s \o r, Len(s) + j) = From(r, j)
<1> DEFINE q == s \o r
<1>0. /\ q \in Seq(V) /\ Len(q) = Len(s) + Len(r) /\ Len(s) \in Nat /\ Len(r) \in Nat
      /\ \A i \in 1 .. Len(s) : q[i] = s[i]
      /\ \A i \in 1 .. Len(r) : q[Len(s) + i] = r[i]
  BY ConcatProperties
<1> HIDE DEF q
<1>1. ASSUME NEW j \in 1 .. Len(s) PROVE SubSeq(q, j, Len(q)) = SubSeq(s, j, Len(s)) \o r
  <2> DEFINE a == SubSeq(q, j, Len(q))
             b == SubSeq(s, j, Len(s))
             c == b \o r
  <2>1. a \in Seq(V) /\ Len(a) = Len(q) - j + 1 /\ \A i \in 1 .. Len(q) - j + 1 : a[i] = q[j + i - 1]
    BY <1>0
  <2>2. b \in Seq(V) /\ Len(b) = Len(s) - j + 1 /\ \A i \in 1 .. Len(s) - j + 1 : b[i] = s[j + i - 1]
    BY <1>0
  <2> HIDE DEF a, b
  <2>3. /\ c \in Seq(V) /\ Len(c) = Len(b) + Len(r)
        /\ \A i \in 1 .. Len(b) : c[i] = b[i]
        /\ \A i \in 1 .. Len(r) : c[Len(b) + i] = r[i]
    <3>1. b \in Seq(V)
      BY <2>2
    <3> QED BY <3>1, ConcatProperties
  <2> HIDE DEF c
  <2>4. Len(a) = Len(c)
    BY <1>0, <2>1, <2>2, <2>3
  <2>5. ASSUME NEW i \in 1 .. Len(a) PROVE a[i] = c[i]
    <3>1. a[i] = q[j + i - 1]
      BY <2>1, <1>0
    <3>2. CASE i <= Len(s) - j + 1
      <4>1. c[i] = s[j + i - 1]
        <5>1. i \in 1 .. Len(s) - j + 1 /\ i \in 1 .. Len(b)
          BY <1>0, <2>1, <2>2, <3>2
        <5> QED BY <2>2, <2>3, <5>1
      <4>2. q[j + i - 1] = s[j + i - 1]
        <5>1. j + i - 1 \in 1 .. Len(s)
          BY <1>0, <2>1, <3>2
        <5>2. \A k \in 1 .. Len(s) : q[k] = s[k]
          BY <1>0
        <5> QED BY <5>1, <5>2, Zenon
      <4> QED BY <3>1, <4>1, <4>2
    <3>3. CASE i > Len(s) - j + 1
      <4> DEFINE k == i - (Len(s) - j + 1)
      <4>1. k \in 1 .. Len(r) /\ i = Len(b) + k /\ j + i - 1 = Len(s) + k
        BY <1>0, <2>1, <2>2, <3>3
      <4> HIDE DEF k
      <4> QED BY <1>0, <2>3, <3>1, <4>1
    <3> QED BY <1>0, <2>1, <3>2, <3>3
  <2>6. a = c
    BY <2>1, <2>3, <2>4, <2>5, SeqEqual
  <2> QED BY <2>6 DEF a, b, c
<1>2. ASSUME NEW j \in 1 .. Len(r) + 1 PROVE SubSeq(q, Len(s) + j, Len(q)) = SubSeq(r, j, Len(r))
  <2> DEFINE a == SubSeq(q, Len(s) + j, Len(q))
             b == SubSeq(r, j, Len(r))
  <2>1. a \in Seq(V) /\ Len(a) = Len(r) - j + 1 /\ \A i \in 1 .. Len(r) - j + 1 : a[i] = q[Len(s) + j + i - 1]
    BY <1>0
  <2>2. b \in Seq(V) /\ Len(b) = Len(r) - j + 1 /\ \A i \in 1 .. Len(r) - j + 1 : b[i] = r[j + i - 1]
    BY <1>0
  <2>3. ASSUME NEW i \in 1 .. Len(r) - j + 1 PROVE q[Len(s) + j + i - 1] = r[j + i - 1]
    <3> DEFINE k == j + i - 1
    <3>1. k \in 1 .. Len(r) /\ Len(s) + j + i - 1 = Len(s) + k
      BY <1>0
    <3> HIDE DEF k
    <3>2. q[Len(s) + k] = r[k]
      BY <1>0, <3>1
    <3> QED BY <3>1, <3>2 DEF k
  <2> HIDE DEF a, b
  <2>4. \A i \in 1 .. Len(a) : a[i] = b[i]
    BY <2>1, <2>2, <2>3
  <2>5. a = b
    BY <2>1, <2>2, <2>4, SeqEqual
  <2> QED BY <2>5 DEF a, b
<1> QED BY <1>1, <1>2 DEF From, q

\* The rest of calls are calls.
LEMMA RestType ==
  ASSUME NEW V, NEW s \in Seq(V), NEW j \in 1 .. Len(s) + 1
  PROVE  From(s, j) \in Seq(V)
  BY DEF From

LEMMA SafeEmpty ==
  ASSUME NEW n \in Nat, NEW o, NEW least
  PROVE  Safe(n, << >>, o, least)
<1>1. Len(<< >>) = 0
  OBVIOUS
<1>2. From(<< >>, 1) = << >>
  BY SubSeqEmpty DEF From
<1>3. Counted(n, << >>, o) = n
  BY BalanceEmpty DEF Counted
<1> QED BY <1>1, <1>2, <1>3 DEF Safe

\* A Release is always safe, a Retain if the thread counts for one already.
LEMMA SafeSingle ==
  ASSUME NEW n \in Nat, NEW c \in Calls, NEW o, NEW least \in {0, 1},
         c.on = o /\ c.call # "Release" => n - 1 >= least
  PROVE  Safe(n, <<c>>, o, least)
<1> DEFINE s == <<c>>
<1>1. Len(s) = 1 /\ s[1] = c /\ s \in Seq(Calls) /\ s # << >>
  OBVIOUS
<1>2. From(s, 1) = s
  BY <1>1, SubSeqFull DEF From
<1>3. From(s, 2) = << >>
  BY <1>1, SubSeqEmpty DEF From
<1>4. Counted(n, << >>, o) = n
  BY BalanceEmpty DEF Counted
<1>5. Counted(n, s, o) = n + (IF c.on # o THEN 0 ELSE IF c.call = "Release" THEN 1 ELSE -1)
  BY BalanceSingle DEF Counted
<1> HIDE DEF s
<1>6. Counted(n, From(s, 2), o) >= 0
  BY <1>3, <1>4
<1>7. Counted(n, From(s, 1), o) >= 0 /\ (c.on = o => Counted(n, From(s, 1), o) >= least)
  BY <1>2, <1>5
<1>8. \A j \in 1 .. Len(s) + 1 : j = 1 \/ (j = 2 /\ ~(j <= Len(s)))
  BY <1>1
<1>9. Safe(n, s, o, least)
  BY <1>1, <1>6, <1>7, <1>8 DEF Safe
<1> QED BY <1>9 DEF s

\* Calls before others are safe if they are so with what the others leave counted.
LEMMA SafeConcat ==
  ASSUME NEW s \in Seq(Calls), NEW r \in Seq(Calls), NEW n \in Int, NEW o, NEW least,
         Safe(n, r, o, least), Safe(Counted(n, r, o), s, o, least)
  PROVE  Safe(n, s \o r, o, least)
<1> DEFINE q == s \o r
<1>0. /\ q \in Seq(Calls) /\ Len(q) = Len(s) + Len(r) /\ Len(s) \in Nat /\ Len(r) \in Nat
      /\ \A i \in 1 .. Len(s) : q[i] = s[i]
      /\ \A i \in 1 .. Len(r) : q[Len(s) + i] = r[i]
  BY ConcatProperties
<1>1. /\ \A j \in 1 .. Len(s) : From(q, j) = From(s, j) \o r
      /\ \A j \in 1 .. Len(r) + 1 : From(q, Len(s) + j) = From(r, j)
  BY RestConcat
<1> HIDE DEF q
<1>2. SUFFICES ASSUME NEW j \in 1 .. Len(q) + 1
               PROVE  /\ Counted(n, From(q, j), o) >= 0
                      /\ j <= Len(q) /\ q[j].on = o => Counted(n, From(q, j), o) >= least
  BY DEF Safe, q
<1>3. CASE j <= Len(s)
  <2>1. j \in 1 .. Len(s) /\ j \in 1 .. Len(s) + 1
    BY <1>0, <1>3
  <2>2. From(s, j) \in Seq(Calls)
    BY <2>1, RestType
  <2>3. Balance(From(q, j), o) = Balance(From(s, j), o) + Balance(r, o)
    <3>1. From(q, j) = From(s, j) \o r
      BY <1>1, <2>1
    <3>2. Balance(From(s, j) \o r, o) = Balance(From(s, j), o) + Balance(r, o)
      BY <2>2, BalanceConcat
    <3> QED BY <3>1, <3>2
  <2>4. Balance(From(s, j), o) \in Int /\ Balance(r, o) \in Int
    BY <2>2, BalanceType
  <2>5. Counted(n, From(q, j), o) = Counted(Counted(n, r, o), From(s, j), o)
    BY <2>3, <2>4 DEF Counted
  <2>6. q[j] = s[j]
    BY <1>0, <2>1
  <2> QED BY <1>3, <2>1, <2>5, <2>6 DEF Safe
<1>4. CASE j > Len(s)
  <2> DEFINE k == j - Len(s)
  <2>1. j = Len(s) + k /\ k \in 1 .. Len(r) + 1 /\ (j <= Len(q) <=> k <= Len(r))
    BY <1>0, <1>4
  <2> HIDE DEF k
  <2>2. From(q, j) = From(r, k)
    BY <1>1, <2>1
  <2>3. k <= Len(r) => q[j] = r[k]
    BY <1>0, <2>1
  <2> QED BY <2>1, <2>2, <2>3 DEF Safe
<1> QED BY <1>0, <1>3, <1>4

\* What is safe is so for what is left after the first call.
LEMMA SafeTail ==
  ASSUME NEW s \in Seq(Calls), s # << >>, NEW n, NEW o, NEW least, Safe(n, s, o, least)
  PROVE  Safe(n, Tail(s), o, least)
<1> DEFINE a == <<Head(s)>>
           r == Tail(s)
<1>1. a \in Seq(Calls) /\ Len(a) = 1 /\ r \in Seq(Calls) /\ s = a \o r
  OBVIOUS
<1>2. Len(s) = Len(r) + 1 /\ Len(r) \in Nat /\ \A i \in 1 .. Len(r) : r[i] = s[i + 1]
  OBVIOUS
<1>3. \A j \in 1 .. Len(r) + 1 : From(s, 1 + j) = From(r, j)
  <2> HIDE DEF a, r
  <2>1. a \in Seq(Calls) /\ r \in Seq(Calls)
    BY <1>1
  <2>2. \A j \in 1 .. Len(r) + 1 : From(a \o r, Len(a) + j) = From(r, j)
    BY <2>1, RestConcat
  <2> QED BY <1>1, <2>2
<1> HIDE DEF r
<1>4. ASSUME NEW j \in 1 .. Len(r) + 1
      PROVE  /\ Counted(n, From(r, j), o) >= 0
             /\ j <= Len(r) /\ r[j].on = o => Counted(n, From(r, j), o) >= least
  <2> DEFINE k == 1 + j
  <2>1. k \in 1 .. Len(s) + 1 /\ (k <= Len(s) <=> j <= Len(r))
    BY <1>2
  <2>2. From(s, k) = From(r, j) /\ (j <= Len(r) => r[j] = s[k])
    BY <1>2, <1>3
  <2> HIDE DEF k
  <2> QED BY <2>1, <2>2 DEF Safe
<1> QED BY <1>4 DEF Safe, r

\* What a thread counts for now
LEMMA SafeNow ==
  ASSUME NEW s \in Seq(Calls), NEW n, NEW o, NEW least, Safe(n, s, o, least)
  PROVE  /\ Counted(n, s, o) >= 0
         /\ s # << >> /\ Head(s).on = o => Counted(n, s, o) >= least
<1>1. From(s, 1) = s
  BY SubSeqFull DEF From
<1>2. 1 \in 1 .. Len(s) + 1 /\ (s # << >> => 1 <= Len(s) /\ Head(s) = s[1])
  OBVIOUS
<1> QED BY <1>1, <1>2 DEF Safe

\* An object that was stored over itself needs less.
LEMMA SafeRelaxed ==
  ASSUME NEW s, NEW n, NEW o, NEW b \in {0, 1}, NEW c \in {0, 1}, c <= b, Safe(n, s, o, b)
  PROVE  Safe(n, s, o, c)
<1>1. CASE b = c
  BY <1>1
<1>2. CASE b = 1 /\ c = 0
  BY <1>2 DEF Safe
<1> QED BY <1>1, <1>2

-----------------------------------------------------------------------------
(* The sequences of calls that operations make                             *)

Values == Objs \cup {Null}

\* Retain() and Release() of what a slot holds
LEMMA RetainMakes ==
  ASSUME NEW x \in Values, NEW o \in Objs
  PROVE  /\ Retain(x) \in Seq(Calls) /\ Balance(Retain(x), o) = 0 - One(x, o)
         /\ \A i \in 1 .. Len(Retain(x)) : Retain(x)[i].on = x
         /\ \A n \in Nat, least \in {0, 1} : (x = o => n - 1 >= least) => Safe(n, Retain(x), o, least)
<1>1. CASE x = Null
  <2>1. Retain(x) = << >> /\ x # o
    BY <1>1, ObjectsAssumption DEF Retain
  <2> QED BY <2>1, BalanceEmpty, SafeEmpty DEF One
<1>2. CASE x # Null
  <2> DEFINE c == [call |-> "Retain", on |-> x]
  <2>1. c \in Calls /\ c.on = x /\ c.call = "Retain"
    BY <1>2 DEF Calls, Values
  <2>2. Retain(x) = <<c>>
    BY <1>2 DEF Retain
  <2> HIDE DEF c
  <2>3. Balance(<<c>>, o) = 0 - One(x, o)
    BY <2>1, BalanceSingle DEF One
  <2>4. ASSUME NEW n \in Nat, NEW least \in {0, 1}, x = o => n - 1 >= least PROVE Safe(n, <<c>>, o, least)
    BY <2>1, <2>4, SafeSingle
  <2> QED BY <2>1, <2>2, <2>3, <2>4
<1> QED BY <1>1, <1>2

LEMMA ReleaseMakes ==
  ASSUME NEW x \in Values, NEW o \in Objs
  PROVE  /\ Release(x) \in Seq(Calls) /\ Balance(Release(x), o) = One(x, o)
         /\ \A i \in 1 .. Len(Release(x)) : Release(x)[i].on = x
         /\ \A n \in Nat, least \in {0, 1} : Safe(n, Release(x), o, least)
<1>1. CASE x = Null
  <2>1. Release(x) = << >> /\ x # o
    BY <1>1, ObjectsAssumption DEF Release
  <2> QED BY <2>1, BalanceEmpty, SafeEmpty DEF One
<1>2. CASE x # Null
  <2> DEFINE c == [call |-> "Release", on |-> x]
  <2>1. c \in Calls /\ c.on = x /\ c.call = "Release"
    BY <1>2 DEF Calls, Values
  <2>2. Release(x) = <<c>>
    BY <1>2 DEF Release
  <2> HIDE DEF c
  <2>3. Balance(<<c>>, o) = One(x, o)
    BY <2>1, BalanceSingle DEF One
  <2>4. ASSUME NEW n \in Nat, NEW least \in {0, 1} PROVE Safe(n, <<c>>, o, least)
    BY <2>1, <2>4, SafeSingle
  <2> QED BY <2>1, <2>2, <2>3, <2>4
<1> QED BY <1>1, <1>2

\* What RetainAll and ReleaseAll do
LEMMA AllMake ==
  ASSUME NEW s \in Seq(Objs), NEW o
  PROVE  /\ ReleaseAll(s) \in Seq(Calls) /\ RetainAll(s) \in Seq(Calls)
         /\ Balance(ReleaseAll(s), o) = Times(s, o) /\ Balance(RetainAll(s), o) = 0 - Times(s, o)
         /\ Len(ReleaseAll(s)) = Len(s) /\ \A i \in 1 .. Len(s) : ReleaseAll(s)[i].on = s[i]
         /\ Len(RetainAll(s)) = Len(s) /\ \A i \in 1 .. Len(s) : RetainAll(s)[i].on = s[i]
<1> DEFINE d == ReleaseAll(s)
           u == RetainAll(s)
<1>0. DOMAIN s = 1 .. Len(s) /\ Len(s) \in Nat /\ \A i \in 1 .. Len(s) : s[i] \in Objs
  OBVIOUS
<1>1. /\ d = [i \in 1 .. Len(s) |-> [call |-> "Release", on |-> s[i]]]
      /\ u = [i \in 1 .. Len(s) |-> [call |-> "Retain", on |-> s[i]]]
  BY <1>0 DEF ReleaseAll, RetainAll
<1>2. \A i \in 1 .. Len(s) : [call |-> "Release", on |-> s[i]] \in Calls /\ [call |-> "Retain", on |-> s[i]] \in Calls
  BY <1>0 DEF Calls
<1>3. d \in Seq(Calls) /\ Len(d) = Len(s) /\ u \in Seq(Calls) /\ Len(u) = Len(s)
  BY <1>0, <1>1, <1>2
<1>4. /\ DOMAIN d = 1 .. Len(s) /\ DOMAIN u = 1 .. Len(s)
      /\ \A i \in 1 .. Len(s) : d[i] = [call |-> "Release", on |-> s[i]] /\ u[i] = [call |-> "Retain", on |-> s[i]]
  BY <1>1
<1> HIDE DEF d, u
<1>5. {i \in DOMAIN d : d[i] = ReleaseOf(o)} = {i \in DOMAIN s : s[i] = o}
  BY <1>0, <1>4 DEF ReleaseOf
<1>6. {i \in DOMAIN u : u[i] = RetainOf(o)} = {i \in DOMAIN s : s[i] = o}
  BY <1>0, <1>4 DEF RetainOf
<1>7. {i \in DOMAIN d : d[i] = RetainOf(o)} = {} /\ {i \in DOMAIN u : u[i] = ReleaseOf(o)} = {}
  BY <1>4 DEF RetainOf, ReleaseOf
<1>8. /\ Times(d, ReleaseOf(o)) = Times(s, o) /\ Times(u, RetainOf(o)) = Times(s, o)
      /\ Times(d, RetainOf(o)) = 0 /\ Times(u, ReleaseOf(o)) = 0
  BY <1>5, <1>6, <1>7, FS_EmptySet DEF Times
<1>9. Times(s, o) \in Nat
  BY SeqIsFinite, TimesType
<1>10. Balance(d, o) = Times(s, o) /\ Balance(u, o) = 0 - Times(s, o)
  BY <1>8, <1>9 DEF Balance
<1> QED BY <1>3, <1>4, <1>10 DEF d, u

\* The rest of these is the same of the rest of the items.
LEMMA AllRest ==
  ASSUME NEW s \in Seq(Objs), NEW j \in 1 .. Len(s) + 1
  PROVE  /\ From(ReleaseAll(s), j) = ReleaseAll(From(s, j))
         /\ From(RetainAll(s), j) = RetainAll(From(s, j))
<1> DEFINE r == From(s, j)
<1>0. Len(s) \in Nat /\ r \in Seq(Objs) /\ Len(r) = Len(s) - j + 1 /\ \A i \in 1 .. Len(r) : r[i] = s[j + i - 1]
  BY DEF From
<1>1. DOMAIN s = 1 .. Len(s) /\ DOMAIN r = 1 .. Len(r)
  BY <1>0
<1> HIDE DEF r
<1>2. ASSUME NEW f \in Seq(Calls), NEW g \in Seq(Calls), Len(f) = Len(s), Len(g) = Len(r),
             \A i \in 1 .. Len(r) : g[i] = f[j + i - 1]
      PROVE  From(f, j) = g
  <2> DEFINE a == SubSeq(f, j, Len(f))
  <2>1. a \in Seq(Calls) /\ Len(a) = Len(r) /\ \A i \in 1 .. Len(r) : a[i] = f[j + i - 1]
    BY <1>0, <1>2
  <2> HIDE DEF a
  <2>2. a = g
    BY <1>2, <2>1, SeqEqual
  <2> QED BY <2>2 DEF From, a
<1>3. /\ ReleaseAll(s) \in Seq(Calls) /\ RetainAll(s) \in Seq(Calls)
      /\ ReleaseAll(r) \in Seq(Calls) /\ RetainAll(r) \in Seq(Calls)
      /\ Len(ReleaseAll(s)) = Len(s) /\ Len(RetainAll(s)) = Len(s)
      /\ Len(ReleaseAll(r)) = Len(r) /\ Len(RetainAll(r)) = Len(r)
  BY <1>0, AllMake
<1>4. ASSUME NEW i \in 1 .. Len(r)
      PROVE  /\ ReleaseAll(r)[i] = ReleaseAll(s)[j + i - 1]
             /\ RetainAll(r)[i] = RetainAll(s)[j + i - 1]
  <2>1. j + i - 1 \in 1 .. Len(s) /\ r[i] = s[j + i - 1]
    BY <1>0
  <2> QED BY <1>1, <2>1 DEF ReleaseAll, RetainAll
<1>5. From(ReleaseAll(s), j) = ReleaseAll(r)
  BY <1>2, <1>3, <1>4
<1>6. From(RetainAll(s), j) = RetainAll(r)
  BY <1>2, <1>3, <1>4
<1> QED BY <1>5, <1>6 DEF r

\* Releasing all items is safe; retaining them is, if as many are in the slots already
\* and the thread counted for one of each before.
LEMMA AllSafe ==
  ASSUME NEW s \in Seq(Objs), NEW o, NEW n \in Nat, NEW least \in {0, 1}
  PROVE  /\ Safe(n, ReleaseAll(s), o, least)
         /\ n >= Times(s, o) /\ (Times(s, o) > 0 => n - Times(s, o) >= 1) => Safe(n, RetainAll(s), o, least)
<1>0. Len(s) \in Nat /\ DOMAIN s = 1 .. Len(s) /\ Len(ReleaseAll(s)) = Len(s) /\ Len(RetainAll(s)) = Len(s)
      /\ Times(s, o) \in Nat
  BY AllMake, SeqIsFinite, TimesType
<1>1. ASSUME NEW j \in 1 .. Len(s) + 1
      PROVE  /\ Counted(n, From(ReleaseAll(s), j), o) = n + Times(From(s, j), o)
             /\ Counted(n, From(RetainAll(s), j), o) = n - Times(From(s, j), o)
             /\ Times(From(s, j), o) \in Nat /\ Times(From(s, j), o) <= Times(s, o)
             /\ j <= Len(s) /\ s[j] = o => Times(From(s, j), o) >= 1
  <2> DEFINE r == From(s, j)
  <2>1. r \in Seq(Objs) /\ (j <= Len(s) => Len(r) \in Nat /\ 1 \in 1 .. Len(r) /\ r[1] = s[j])
    BY <1>0 DEF From
  <2>2. /\ SubSeq(s, 1, j - 1) \in Seq(Objs)
        /\ Times(s, o) = Times(SubSeq(s, 1, j - 1), o) + Times(r, o)
    BY TimesCut DEF From
  <2>3. From(ReleaseAll(s), j) = ReleaseAll(r) /\ From(RetainAll(s), j) = RetainAll(r)
    BY AllRest
  <2> HIDE DEF r
  <2>4. Balance(ReleaseAll(r), o) = Times(r, o) /\ Balance(RetainAll(r), o) = 0 - Times(r, o)
    BY <2>1, AllMake
  <2>5. Times(SubSeq(s, 1, j - 1), o) \in Nat
    BY <2>2, SeqIsFinite, TimesType
  <2>6. DOMAIN r = 1 .. Len(r) /\ IsFiniteSet(DOMAIN r)
    BY <2>1, SeqIsFinite
  <2>7. Times(r, o) \in Nat /\ (Times(r, o) = 0 <=> \A i \in DOMAIN r : r[i] # o)
    BY <2>6, TimesType
  <2>8. j <= Len(s) /\ s[j] = o => Times(r, o) # 0
    BY <2>1, <2>6, <2>7
  <2>9. Times(r, o) <= Times(s, o)
    BY <2>2, <2>5, <2>7
  <2>10. /\ Counted(n, ReleaseAll(r), o) = n + Times(r, o)
         /\ Counted(n, RetainAll(r), o) = n - Times(r, o)
    BY <2>4, <2>7 DEF Counted
  <2>11. j <= Len(s) /\ s[j] = o => Times(r, o) >= 1
    BY <2>7, <2>8
  <2> QED BY <2>3, <2>7, <2>9, <2>10, <2>11 DEF r
<1>2. Safe(n, ReleaseAll(s), o, least)
  <2>1. ASSUME NEW j \in 1 .. Len(s) + 1
        PROVE  /\ Counted(n, From(ReleaseAll(s), j), o) >= 0
               /\ j <= Len(s) /\ ReleaseAll(s)[j].on = o => Counted(n, From(ReleaseAll(s), j), o) >= least
    <3>1. j <= Len(s) => ReleaseAll(s)[j].on = s[j]
      BY <1>0, AllMake
    <3>2. PICK k \in Nat : k = Times(From(s, j), o) /\ (j <= Len(s) /\ s[j] = o => k >= 1)
      BY <1>1
    <3>3. Counted(n, From(ReleaseAll(s), j), o) = n + k
      BY <1>1, <3>2
    <3> QED BY <3>1, <3>2, <3>3
  <2> QED BY <1>0, <2>1 DEF Safe
<1>3. ASSUME n >= Times(s, o), Times(s, o) > 0 => n - Times(s, o) >= 1
      PROVE  Safe(n, RetainAll(s), o, least)
  <2>1. ASSUME NEW j \in 1 .. Len(s) + 1
        PROVE  /\ Counted(n, From(RetainAll(s), j), o) >= 0
               /\ j <= Len(s) /\ RetainAll(s)[j].on = o => Counted(n, From(RetainAll(s), j), o) >= least
    <3>1. j <= Len(s) => RetainAll(s)[j].on = s[j]
      BY <1>0, AllMake
    <3> QED BY <1>0, <1>1, <1>3, <3>1
  <2> QED BY <1>0, <2>1 DEF Safe
<1> QED BY <1>2, <1>3

\* No call of s is to o.
Avoids(s, o) == \A i \in 1 .. Len(s) : s[i].on # o

\* An operation that finds n references to o in the thread's slots, counts for gain more
\* by creating o, leaves m references and makes the calls s: it counts for as many as
\* before, is safe, and leaves alone an object that it has nothing of.
Settles(n, gain, m, s, o, least) ==
  /\ s \in Seq(Calls) /\ Counted(m, s, o) = n + gain
  /\ Safe(m, s, o, least)
  /\ n + gain = 0 => m = 0 /\ Avoids(s, o)

\* Calls before others: what they are together.
LEMMA Together ==
  ASSUME NEW s \in Seq(Calls), NEW r \in Seq(Calls), NEW n \in Int, NEW o, NEW least,
         NEW k, k = Counted(n, r, o), Safe(n, r, o, least), Safe(k, s, o, least)
  PROVE  /\ s \o r \in Seq(Calls) /\ Safe(n, s \o r, o, least)
         /\ Counted(n, s \o r, o) = Counted(k, s, o)
         /\ Avoids(s, o) /\ Avoids(r, o) => Avoids(s \o r, o)
<1>1. Safe(n, s \o r, o, least)
  BY SafeConcat
<1>2. Balance(s, o) \in Int /\ Balance(r, o) \in Int /\ Balance(s \o r, o) = Balance(s, o) + Balance(r, o)
  BY BalanceType, BalanceConcat
<1>3. Counted(n, s \o r, o) = Counted(k, s, o)
  BY <1>2 DEF Counted
<1>4. Avoids(s, o) /\ Avoids(r, o) => Avoids(s \o r, o)
  <2>1. /\ Len(s \o r) = Len(s) + Len(r) /\ Len(s) \in Nat /\ Len(r) \in Nat
        /\ \A i \in 1 .. Len(s) : (s \o r)[i] = s[i]
        /\ \A i \in 1 .. Len(r) : (s \o r)[Len(s) + i] = r[i]
    BY ConcatProperties
  <2>2. SUFFICES ASSUME Avoids(s, o), Avoids(r, o), NEW i \in 1 .. Len(s \o r) PROVE (s \o r)[i].on # o
    BY DEF Avoids
  <2>3. CASE i <= Len(s)
    BY <2>1, <2>2, <2>3 DEF Avoids
  <2>4. CASE i > Len(s)
    <3> DEFINE k2 == i - Len(s)
    <3>1. k2 \in 1 .. Len(r) /\ i = Len(s) + k2
      BY <2>1, <2>4
    <3> HIDE DEF k2
    <3> QED BY <2>1, <2>2, <3>1 DEF Avoids
  <2> QED BY <2>1, <2>3, <2>4
<1> QED BY <1>1, <1>3, <1>4

\* Retain() and Release() of a value, as steps of an operation
LEMMA RetainStep ==
  ASSUME NEW x \in Values, NEW o \in Objs, NEW n \in Nat, NEW least \in {0, 1}
  PROVE  /\ Retain(x) \in Seq(Calls) /\ Counted(n, Retain(x), o) = n - One(x, o)
         /\ (x = o => n - 1 >= least) => Safe(n, Retain(x), o, least)
         /\ x # o => Avoids(Retain(x), o)
<1>1. One(x, o) \in Nat
  BY DEF One
<1> QED BY <1>1, RetainMakes DEF Counted, Avoids

LEMMA ReleaseStep ==
  ASSUME NEW x \in Values, NEW o \in Objs, NEW n \in Nat, NEW least \in {0, 1}
  PROVE  /\ Release(x) \in Seq(Calls) /\ Counted(n, Release(x), o) = n + One(x, o)
         /\ Safe(n, Release(x), o, least)
         /\ x # o => Avoids(Release(x), o)
  BY ReleaseMakes DEF Counted, Avoids

\* Swap: the new value is retained while the old one still counts.
LEMMA SwapStep ==
  ASSUME NEW a \in Values, NEW b \in Values, NEW o \in Objs, NEW m \in Nat, NEW least \in {0, 1},
         b = o => m + One(a, o) - 1 >= least
  PROVE  /\ Swap(a, b) \in Seq(Calls) /\ Counted(m, Swap(a, b), o) = m + One(a, o) - One(b, o)
         /\ Safe(m, Swap(a, b), o, least)
         /\ a # o /\ b # o => Avoids(Swap(a, b), o)
<1> DEFINE r == Release(a)
           s == Retain(b)
           k == m + One(a, o)
<1>1. k \in Nat
  BY DEF One
<1>2. r \in Seq(Calls) /\ k = Counted(m, r, o) /\ Safe(m, r, o, least) /\ (a # o => Avoids(r, o))
  BY ReleaseStep
<1>3. (b = o => k - 1 >= least) /\ k - One(b, o) = m + One(a, o) - One(b, o)
  BY DEF One
<1> HIDE DEF k
<1>4. s \in Seq(Calls) /\ Counted(k, s, o) = k - One(b, o) /\ Safe(k, s, o, least) /\ (b # o => Avoids(s, o))
  BY <1>1, <1>3, RetainStep
<1> HIDE DEF r, s
<1>5. /\ s \o r \in Seq(Calls) /\ Safe(m, s \o r, o, least)
      /\ Counted(m, s \o r, o) = Counted(k, s, o)
      /\ Avoids(s, o) /\ Avoids(r, o) => Avoids(s \o r, o)
  BY <1>1, <1>2, <1>4, Together
<1>6. s \o r = Swap(a, b)
  BY DEF Swap, r, s
<1> QED BY <1>2, <1>3, <1>4, <1>5, <1>6

LEMMA SwapSettles ==
  ASSUME NEW a \in Values, NEW b \in Values, NEW o \in Objs, NEW n \in Nat, NEW least \in {0, 1},
         a = o => n >= 1, b = o => n >= 1
  PROVE  Settles(n, 0, n - One(a, o) + One(b, o), Swap(a, b), o, least)
<1> DEFINE m == n - One(a, o) + One(b, o)
<1>1. m \in Nat /\ (b = o => m + One(a, o) - 1 >= least) /\ m + One(a, o) - One(b, o) = n
  BY DEF One
<1>2. n = 0 => a # o /\ b # o /\ m = 0
  BY DEF One
<1> HIDE DEF m
<1>3. /\ Swap(a, b) \in Seq(Calls) /\ Counted(m, Swap(a, b), o) = m + One(a, o) - One(b, o)
      /\ Safe(m, Swap(a, b), o, least)
      /\ a # o /\ b # o => Avoids(Swap(a, b), o)
  BY <1>1, SwapStep
<1> QED BY <1>1, <1>2, <1>3 DEF Settles, m

\* A slot that is cleared
LEMMA DropSettles ==
  ASSUME NEW a \in Values, NEW o \in Objs, NEW n \in Nat, NEW least \in {0, 1}, a = o => n >= 1
  PROVE  Settles(n, 0, n - One(a, o), Release(a), o, least)
<1> DEFINE m == n - One(a, o)
<1>1. m \in Nat /\ m + One(a, o) = n /\ (n = 0 => a # o /\ m = 0)
  BY DEF One
<1> HIDE DEF m
<1>2. /\ Release(a) \in Seq(Calls) /\ Counted(m, Release(a), o) = m + One(a, o)
      /\ Safe(m, Release(a), o, least) /\ (a # o => Avoids(Release(a), o))
  BY <1>1, ReleaseStep
<1> QED BY <1>1, <1>2 DEF Settles, m

\* A new object, and one that comes out of a function
LEMMA CreateSettles ==
  ASSUME NEW a \in Values, NEW b \in Objs, NEW o \in Objs, NEW n \in Nat, NEW least \in {0, 1},
         a = o => n >= 1, b = o => n = 0
  PROVE  /\ Settles(n, One(b, o), n - One(a, o) + One(b, o), Swap(a, b) \o Release(b), o, least)
         /\ Settles(n, One(b, o), n - One(a, o) + One(b, o),
                    Retain(b) \o Release(b) \o Swap(a, b) \o Release(b), o, least)
<1> DEFINE m == n - One(a, o) + One(b, o)
           k == m + One(b, o)
           r == Release(b)
           w == Swap(a, b)
           u == Retain(b)
           j == n + One(b, o)
<1>0. b \in Values
  BY DEF Values
<1>1. /\ m \in Nat /\ k \in Nat /\ j \in Nat /\ (b = o => k + One(a, o) - 1 >= least)
      /\ k + One(a, o) - One(b, o) = j /\ (j = 0 => a # o /\ b # o /\ m = 0)
  BY DEF One
<1>2. r \in Seq(Calls) /\ k = Counted(m, r, o) /\ Safe(m, r, o, least) /\ (b # o => Avoids(r, o))
  <2> HIDE DEF m
  <2> QED BY <1>0, <1>1, ReleaseStep
<1>3. w \in Seq(Calls) /\ Counted(k, w, o) = j /\ Safe(k, w, o, least) /\ (a # o /\ b # o => Avoids(w, o))
  <2> HIDE DEF k, j
  <2> QED BY <1>0, <1>1, SwapStep
<1>4. /\ w \o r \in Seq(Calls) /\ Safe(m, w \o r, o, least) /\ Counted(m, w \o r, o) = j
      /\ (a # o /\ b # o => Avoids(w \o r, o))
  <2> HIDE DEF m, k, j, w, r
  <2> QED BY <1>1, <1>2, <1>3, Together
<1>5. Settles(n, One(b, o), m, w \o r, o, least)
  <2> HIDE DEF m, w, r
  <2> QED BY <1>1, <1>4 DEF Settles
<1>6. /\ u \o r \in Seq(Calls) /\ Safe(j, u \o r, o, least) /\ Counted(j, u \o r, o) = j
      /\ (b # o => Avoids(u \o r, o))
  <2> DEFINE i == j + One(b, o)
  <2>1. r \in Seq(Calls) /\ i = Counted(j, r, o) /\ Safe(j, r, o, least) /\ (b # o => Avoids(r, o))
    <3> HIDE DEF j
    <3> QED BY <1>0, <1>1, ReleaseStep
  <2>2. u \in Seq(Calls) /\ Counted(i, u, o) = j /\ Safe(i, u, o, least) /\ (b # o => Avoids(u, o))
    <3>1. i \in Nat /\ (b = o => i - 1 >= least) /\ i - One(b, o) = j
      BY DEF One
    <3> HIDE DEF i, j
    <3> QED BY <1>0, <3>1, RetainStep
  <2> HIDE DEF i, j, u, r
  <2> QED BY <1>1, <2>1, <2>2, Together
<1>7. /\ (u \o r) \o (w \o r) \in Seq(Calls) /\ Safe(m, (u \o r) \o (w \o r), o, least)
      /\ Counted(m, (u \o r) \o (w \o r), o) = j
      /\ (a # o /\ b # o => Avoids((u \o r) \o (w \o r), o))
  <2> DEFINE x == u \o r
             y == w \o r
  <2>1. x \in Seq(Calls) /\ y \in Seq(Calls)
    BY <1>4, <1>6
  <2>2. j = Counted(m, y, o) /\ Safe(m, y, o, least) /\ Safe(j, x, o, least) /\ Counted(j, x, o) = j
    BY <1>4, <1>6
  <2>3. (a # o /\ b # o => Avoids(y, o)) /\ (b # o => Avoids(x, o))
    BY <1>4, <1>6
  <2> HIDE DEF m, j, x, y
  <2>4. /\ x \o y \in Seq(Calls) /\ Safe(m, x \o y, o, least)
        /\ Counted(m, x \o y, o) = Counted(j, x, o)
        /\ Avoids(x, o) /\ Avoids(y, o) => Avoids(x \o y, o)
    BY <1>1, <2>1, <2>2, Together
  <2>5. x \o y \in Seq(Calls) /\ Safe(m, x \o y, o, least) /\ Counted(m, x \o y, o) = j /\ (a # o /\ b # o => Avoids(x \o y, o))
    BY <2>2, <2>3, <2>4
  <2> QED BY <2>5 DEF x, y
<1>8. u \o r \o w \o r = (u \o r) \o (w \o r)
  <2>1. u \in Seq(Calls)
    BY <1>0, RetainMakes
  <2> HIDE DEF u, r, w
  <2>2. u \o r \in Seq(Calls)
    BY <1>2, <2>1
  <2> QED BY <1>2, <1>3, <2>2, ConcatAssociative, SMTT(30)
<1>9. Settles(n, One(b, o), m, u \o r \o w \o r, o, least)
  <2> HIDE DEF m, w, r, u
  <2> QED BY <1>1, <1>7, <1>8 DEF Settles
<1> QED BY <1>5, <1>9

\* AddItem and InsertItem
LEMMA InsertSettles ==
  ASSUME NEW b \in Objs, NEW o \in Objs, NEW n \in Nat, NEW least \in {0, 1}, b = o => n >= 1
  PROVE  Settles(n, 0, n + One(b, o), Retain(b), o, least)
<1> DEFINE m == n + One(b, o)
<1>1. m \in Nat /\ m - One(b, o) = n /\ (b = o => m - 1 >= least) /\ (n = 0 => b # o /\ m = 0) /\ b \in Values
  BY DEF One, Values
<1> HIDE DEF m
<1>2. /\ Retain(b) \in Seq(Calls) /\ Counted(m, Retain(b), o) = m - One(b, o)
      /\ Safe(m, Retain(b), o, least) /\ (b # o => Avoids(Retain(b), o))
  BY <1>1, RetainStep
<1> QED BY <1>1, <1>2 DEF Settles, m

\* SetItem and SetValue: the old value goes first, which is not safe for a value that is
\* stored over itself.
LEMMA SetSettles ==
  ASSUME NEW a \in Values, NEW b \in Values, NEW o \in Objs, NEW n \in Nat, NEW least \in {0, 1},
         a = o => n >= 1, b = o => n >= 1, a = o /\ b = o => least = 0
  PROVE  Settles(n, 0, n - One(a, o) + One(b, o), Release(a) \o Retain(b), o, least)
<1> DEFINE m == n - One(a, o) + One(b, o)
           k == n - One(a, o)
           r == Retain(b)
           s == Release(a)
<1>1. /\ m \in Nat /\ k \in Nat /\ m - One(b, o) = k /\ (b = o => m - 1 >= least) /\ k + One(a, o) = n
      /\ (n = 0 => a # o /\ b # o /\ m = 0)
  BY DEF One
<1> HIDE DEF m, k
<1>2. r \in Seq(Calls) /\ k = Counted(m, r, o) /\ Safe(m, r, o, least) /\ (b # o => Avoids(r, o))
  BY <1>1, RetainStep
<1>3. s \in Seq(Calls) /\ Counted(k, s, o) = n /\ Safe(k, s, o, least) /\ (a # o => Avoids(s, o))
  BY <1>1, ReleaseStep
<1> HIDE DEF r, s
<1>4. /\ s \o r \in Seq(Calls) /\ Safe(m, s \o r, o, least)
      /\ Counted(m, s \o r, o) = Counted(k, s, o)
      /\ Avoids(s, o) /\ Avoids(r, o) => Avoids(s \o r, o)
  BY <1>1, <1>2, <1>3, Together
<1>5. Settles(n, 0, m, s \o r, o, least)
  BY <1>1, <1>2, <1>3, <1>4 DEF Settles
<1> QED BY <1>5 DEF m, r, s

\* A sequence of items without o is not of calls to o.
LEMMA AllAvoid ==
  ASSUME NEW s \in Seq(Objs), NEW o, Times(s, o) = 0
  PROVE  Avoids(ReleaseAll(s), o) /\ Avoids(RetainAll(s), o)
<1>1. DOMAIN s = 1 .. Len(s) /\ IsFiniteSet(DOMAIN s)
  BY SeqIsFinite
<1>2. \A i \in 1 .. Len(s) : s[i] # o
  BY <1>1, TimesType
<1> QED BY <1>2, AllMake, SMTT(30) DEF Avoids

LEMMA ReleaseAllStep ==
  ASSUME NEW s \in Seq(Objs), NEW o \in Objs, NEW n \in Nat, NEW least \in {0, 1}
  PROVE  /\ Times(s, o) \in Nat
         /\ ReleaseAll(s) \in Seq(Calls) /\ Counted(n, ReleaseAll(s), o) = n + Times(s, o)
         /\ Safe(n, ReleaseAll(s), o, least)
         /\ Times(s, o) = 0 => Avoids(ReleaseAll(s), o)
<1>1. Times(s, o) \in Nat
  BY SeqIsFinite, TimesType
<1>2. ReleaseAll(s) \in Seq(Calls) /\ Counted(n, ReleaseAll(s), o) = n + Times(s, o)
  BY AllMake DEF Counted
<1> QED BY <1>1, <1>2, AllSafe, AllAvoid

LEMMA RetainAllStep ==
  ASSUME NEW s \in Seq(Objs), NEW o \in Objs, NEW n \in Nat, NEW least \in {0, 1},
         n >= Times(s, o), Times(s, o) > 0 => n - Times(s, o) >= 1
  PROVE  /\ RetainAll(s) \in Seq(Calls) /\ Counted(n, RetainAll(s), o) = n - Times(s, o)
         /\ Safe(n, RetainAll(s), o, least)
         /\ Times(s, o) = 0 => Avoids(RetainAll(s), o)
<1>1. Times(s, o) \in Nat
  BY SeqIsFinite, TimesType
<1>2. RetainAll(s) \in Seq(Calls) /\ Balance(RetainAll(s), o) = 0 - Times(s, o)
  BY AllMake
<1>3. Counted(n, RetainAll(s), o) = n - Times(s, o)
  BY <1>1, <1>2 DEF Counted
<1>4. Safe(n, RetainAll(s), o, least)
  BY AllSafe
<1> QED BY <1>2, <1>3, <1>4, AllAvoid

\* Clear
LEMMA ClearSettles ==
  ASSUME NEW s \in Seq(Objs), NEW o \in Objs, NEW n \in Nat, NEW least \in {0, 1}, n >= Times(s, o)
  PROVE  Settles(n, 0, n - Times(s, o), ReleaseAll(s), o, least)
<1>0. Times(s, o) \in Nat
  BY SeqIsFinite, TimesType
<1>1. PICK k \in Nat, m \in Nat : k = Times(s, o) /\ m = n - k
  BY <1>0
<1>2. /\ ReleaseAll(s) \in Seq(Calls) /\ Counted(m, ReleaseAll(s), o) = m + k
      /\ Safe(m, ReleaseAll(s), o, least) /\ (k = 0 => Avoids(ReleaseAll(s), o))
  BY <1>1, ReleaseAllStep
<1>3. m + k = n /\ (n = 0 => m = 0 /\ k = 0)
  BY <1>1
<1>4. Settles(n, 0, m, ReleaseAll(s), o, least)
  BY <1>2, <1>3 DEF Settles
<1> QED BY <1>1, <1>4

\* The assignment of an array: everything new is retained before anything is released.
LEMMA AssignSettles ==
  ASSUME NEW s \in Seq(Objs), NEW r \in Seq(Objs), NEW o \in Objs, NEW n \in Nat, NEW least \in {0, 1},
         n >= Times(s, o), Times(r, o) > 0 => n >= 1
  PROVE  Settles(n, 0, n - Times(s, o) + Times(r, o), RetainAll(r) \o ReleaseAll(s), o, least)
<1> DEFINE d == ReleaseAll(s)
           u == RetainAll(r)
<1>0. Times(s, o) \in Nat /\ Times(r, o) \in Nat
  BY SeqIsFinite, TimesType
<1>1. PICK k \in Nat, l \in Nat, m \in Nat, h \in Nat :
        k = Times(s, o) /\ l = Times(r, o) /\ m = n - k + l /\ h = m + k
  <2>1. n - Times(s, o) + Times(r, o) \in Nat /\ n - Times(s, o) + Times(r, o) + Times(s, o) \in Nat
    BY <1>0
  <2> QED BY <1>0, <2>1
<1>2. k <= n /\ (l > 0 => n >= 1) /\ m = n - k + l /\ h = m + k
  BY <1>1
<1>3. h = n + l /\ h >= l /\ (l > 0 => h - l >= 1) /\ h - l = n
  BY <1>2
<1>4. n = 0 => k = 0 /\ l = 0 /\ m = 0
  BY <1>2
<1>5. d \in Seq(Calls) /\ h = Counted(m, d, o) /\ Safe(m, d, o, least) /\ (k = 0 => Avoids(d, o))
  <2>1. /\ d \in Seq(Calls) /\ Counted(m, d, o) = m + Times(s, o) /\ Safe(m, d, o, least)
        /\ Times(s, o) = 0 => Avoids(d, o)
    BY ReleaseAllStep
  <2> QED BY <1>1, <2>1
<1>6. u \in Seq(Calls) /\ Counted(h, u, o) = n /\ Safe(h, u, o, least) /\ (l = 0 => Avoids(u, o))
  BY <1>1, <1>3, RetainAllStep, ZenonT(40)
<1> HIDE DEF d, u
<1>7. /\ u \o d \in Seq(Calls) /\ Safe(m, u \o d, o, least)
      /\ Counted(m, u \o d, o) = Counted(h, u, o)
      /\ Avoids(u, o) /\ Avoids(d, o) => Avoids(u \o d, o)
  BY <1>5, <1>6, Together
<1>8. Settles(n, 0, m, u \o d, o, least)
  BY <1>4, <1>5, <1>6, <1>7 DEF Settles
<1> QED BY <1>1, <1>8 DEF d, u

\* RemoveItems
LEMMA RemoveItemsSettles ==
  ASSUME NEW b \in Objs, NEW k \in Nat \ {0}, NEW o \in Objs, NEW n \in Nat, NEW least \in {0, 1},
         b = o => n >= k
  PROVE  Settles(n, 0, IF b = o THEN n - k ELSE n,
                 Retain(b) \o ReleaseAll([i \in 1 .. k |-> b]) \o Release(b), o, least)
<1> DEFINE items == [i \in 1 .. k |-> b]
           m == IF b = o THEN n - k ELSE n
           u == Retain(b)
           d == ReleaseAll(items)
           r == Release(b)
           l == IF b = o THEN k ELSE 0
           h == m + One(b, o)
           j == h + l
<1>0. b \in Values
  BY DEF Values
<1>1. items \in Seq(Objs) /\ DOMAIN items = 1 .. k /\ \A i \in 1 .. k : items[i] = b
  OBVIOUS
<1>2. Times(items, o) = l
  <2>1. {i \in DOMAIN items : items[i] = o} = IF b = o THEN 1 .. k ELSE {}
    BY <1>1
  <2>2. Cardinality(1 .. k) = k
    BY FS_Interval
  <2> HIDE DEF items
  <2> QED BY <2>1, <2>2, FS_EmptySet DEF Times
<1> HIDE DEF items
<1>3. /\ m \in Nat /\ h \in Nat /\ j \in Nat /\ j - One(b, o) = n /\ (b = o => j - 1 >= least)
      /\ (n = 0 => b # o /\ m = 0 /\ l = 0)
  BY DEF One
<1>4. r \in Seq(Calls) /\ h = Counted(m, r, o) /\ Safe(m, r, o, least) /\ (b # o => Avoids(r, o))
  <2> HIDE DEF m
  <2> QED BY <1>0, <1>3, ReleaseStep
<1>5. d \in Seq(Calls) /\ j = Counted(h, d, o) /\ Safe(h, d, o, least) /\ (l = 0 => Avoids(d, o))
  <2> HIDE DEF h, l
  <2> QED BY <1>1, <1>2, <1>3, ReleaseAllStep
<1>6. u \in Seq(Calls) /\ Counted(j, u, o) = n /\ Safe(j, u, o, least) /\ (b # o => Avoids(u, o))
  <2> HIDE DEF j
  <2> QED BY <1>0, <1>3, RetainStep
<1> HIDE DEF u, d, r, m, h, j, l
<1>7. /\ d \o r \in Seq(Calls) /\ Safe(m, d \o r, o, least)
      /\ Counted(m, d \o r, o) = Counted(h, d, o)
      /\ Avoids(d, o) /\ Avoids(r, o) => Avoids(d \o r, o)
  BY <1>3, <1>4, <1>5, Together
<1>8. /\ u \o (d \o r) \in Seq(Calls) /\ Safe(m, u \o (d \o r), o, least)
      /\ Counted(m, u \o (d \o r), o) = Counted(j, u, o)
      /\ Avoids(u, o) /\ Avoids(d \o r, o) => Avoids(u \o (d \o r), o)
  <2> DEFINE q == d \o r
  <2>1. q \in Seq(Calls) /\ Safe(m, q, o, least) /\ j = Counted(m, q, o)
    BY <1>5, <1>7
  <2> HIDE DEF q
  <2>2. /\ u \o q \in Seq(Calls) /\ Safe(m, u \o q, o, least)
        /\ Counted(m, u \o q, o) = Counted(j, u, o)
        /\ Avoids(u, o) /\ Avoids(q, o) => Avoids(u \o q, o)
    BY <1>3, <1>6, <2>1, Together
  <2> QED BY <2>2 DEF q
<1>9. (u \o d) \o r = u \o (d \o r)
  BY <1>4, <1>5, <1>6, ConcatAssociative, SMTT(30)
<1>10. Settles(n, 0, m, (u \o d) \o r, o, least)
  BY <1>3, <1>4, <1>5, <1>6, <1>7, <1>8, <1>9 DEF Settles
<1> QED BY <1>10 DEF m, u, d, r, items

-----------------------------------------------------------------------------
(* Adding up what threads count for                                        *)

\* One pair for each that f counts in a thread
Pairs(f) == UNION {{t} \X (1 .. f[t]) : t \in Users}

LEMMA PairsHave ==
  ASSUME NEW f
  PROVE  \A x : x \in Pairs(f) <=> \E t \in Users : \E k \in 1 .. f[t] : x = <<t, k>>
<1>1. SUFFICES ASSUME NEW x PROVE x \in Pairs(f) <=> \E t \in Users : \E k \in 1 .. f[t] : x = <<t, k>>
  OBVIOUS
<1>2. x \in Pairs(f) <=> \E t \in Users : x \in {t} \X (1 .. f[t])
  BY DEF Pairs
<1>3. ASSUME NEW t PROVE x \in {t} \X (1 .. f[t]) <=> \E k \in 1 .. f[t] : x = <<t, k>>
  OBVIOUS
<1> QED BY <1>2, <1>3

LEMMA PairsFinite ==
  ASSUME NEW f \in [Users -> Nat]
  PROVE  IsFiniteSet(Pairs(f)) /\ Cardinality(Pairs(f)) \in Nat
<1> DEFINE T == {{t} \X (1 .. f[t]) : t \in Users}
           g == [t \in Users |-> {t} \X (1 .. f[t])]
<1>1. g \in Surjection(Users, T)
  <2>1. g \in [Users -> T] /\ \A x \in T : \E t \in Users : g[t] = x
    OBVIOUS
  <2> QED BY <2>1 DEF Surjection
<1>2. IsFiniteSet(T)
  <2> HIDE DEF g, T
  <2> QED BY <1>1, ObjectsAssumption, FS_Surjection
<1>3. ASSUME NEW x \in T PROVE IsFiniteSet(x)
  <2>1. PICK t \in Users : x = {t} \X (1 .. f[t])
    BY DEF T
  <2>2. f[t] \in Int
    OBVIOUS
  <2>3. IsFiniteSet({t})
    BY FS_Singleton
  <2>4. IsFiniteSet(1 .. f[t])
    BY <2>2, FS_Interval
  <2> QED BY <2>1, <2>3, <2>4, FS_Product
<1>4. IsFiniteSet(UNION T)
  <2> HIDE DEF T
  <2> QED BY <1>2, <1>3, FS_UNION
<1> QED BY <1>4, FS_CardinalityType DEF Pairs

\* One more in one thread
LEMMA PairsPlus ==
  ASSUME NEW f \in [Users -> Nat], NEW g \in [Users -> Nat], NEW t \in Users,
         g[t] = f[t] + 1, \A u \in Users \ {t} : g[u] = f[u]
  PROVE  Cardinality(Pairs(g)) = Cardinality(Pairs(f)) + 1
<1> DEFINE x == <<t, f[t] + 1>>
<1>0. f[t] \in Nat /\ 1 .. f[t] + 1 = (1 .. f[t]) \cup {f[t] + 1} /\ f[t] + 1 \notin 1 .. f[t]
  OBVIOUS
<1>1. x \notin Pairs(f)
  <2> SUFFICES ASSUME x \in Pairs(f) PROVE FALSE
    OBVIOUS
  <2>1. PICK u \in Users, k \in Nat : k \in 1 .. f[u] /\ x = <<u, k>>
    BY PairsHave
  <2> QED BY <1>0, <2>1
<1>2. ASSUME NEW y \in Pairs(g) PROVE y \in Pairs(f) \cup {x}
  <2>1. PICK u \in Users, k \in Nat : k \in 1 .. g[u] /\ y = <<u, k>>
    BY PairsHave
  <2>2. CASE u = t
    <3>1. k \in 1 .. f[t] \/ k = f[t] + 1
      BY <1>0, <2>1, <2>2
    <3> QED BY <2>1, <2>2, <3>1, PairsHave
  <2>3. CASE u # t
    <3>1. k \in 1 .. f[u]
      BY <2>1, <2>3
    <3> QED BY <2>1, <3>1, PairsHave
  <2> QED BY <2>2, <2>3
<1>3. ASSUME NEW y \in Pairs(f) \cup {x} PROVE y \in Pairs(g)
  <2>1. x \in Pairs(g)
    <3>1. f[t] + 1 \in 1 .. g[t]
      BY <1>0
    <3> QED BY <3>1, PairsHave
  <2>2. CASE y \in Pairs(f)
    <3>1. PICK u \in Users, k \in Nat : k \in 1 .. f[u] /\ y = <<u, k>>
      BY <2>2, PairsHave
    <3>2. k \in 1 .. g[u]
      BY <1>0, <3>1
    <3> QED BY <3>1, <3>2, PairsHave
  <2> QED BY <2>1, <2>2
<1>4. Pairs(g) = Pairs(f) \cup {x}
  BY <1>2, <1>3
<1>5. IsFiniteSet(Pairs(f))
  BY PairsFinite
<1> HIDE DEF x
<1> QED BY <1>1, <1>4, <1>5, FS_AddElement

\* Of a sum that is 0 every part is.
LEMMA PairsNone ==
  ASSUME NEW f \in [Users -> Nat], Cardinality(Pairs(f)) = 0, NEW t \in Users
  PROVE  f[t] = 0
<1>1. Pairs(f) = {}
  BY PairsFinite, FS_EmptySet
<1>2. \A k \in 1 .. f[t] : <<t, k>> \in Pairs(f)
  BY PairsHave, Zenon
<1>3. 1 \notin 1 .. f[t]
  BY <1>1, <1>2
<1>4. f[t] \in Nat
  OBVIOUS
<1> QED BY <1>3, <1>4

-----------------------------------------------------------------------------
(* The inductive invariant                                                 *)

ObjectsTypeOK ==
  /\ count \in [Objs -> Nat] /\ dead \subseteq Objs
  /\ raced \subseteq Objs /\ handedBack \subseteq Values /\ fault \subseteq Objs
  /\ pointer \in [Users -> [Pointers -> Values]]
  /\ array \in [Users -> Seq(Objs)]
  /\ local \in [Users -> Values]
  /\ calls \in [Users -> Seq(Calls)]
  /\ loaded \in [Users -> Int]

\* What thread t counts for in the count of o: its slots, and the calls it has to make yet
Share(t, o) == Counted(Owners(t, o), calls[t], o)
Shares(o) == [t \in Users |-> Share(t, o)]

Least(o) == IF o \in handedBack THEN 0 ELSE 1

\* The calls of every thread are safe.
ThreadsSafe == \A t \in Users, o \in Objs : Safe(Owners(t, o), calls[t], o, Least(o))

\* Who has read a count is in a call, and read no 0.
LoadedInCall == \A t \in Users : loaded[t] # -1 => loaded[t] >= 1 /\ calls[t] # << >>

\* An object that was not created yet is in no slot and in no call.
Uncreated(o) == count[o] = 0 /\ o \notin dead => \A t \in Users : Owners(t, o) = 0 /\ Avoids(calls[t], o)

InFlight(t, o) == loaded[t] # -1 /\ Head(calls[t]).on = o

\* As long as no two threads counted o at the same time, its count is what all threads
\* count for together, it is deleted at 0, and who has read it has read that.
Exact(o) ==
  /\ count[o] = Cardinality(Pairs(Shares(o)))
  /\ o \in dead => count[o] = 0
  /\ \A t \in Users : InFlight(t, o) => loaded[t] = count[o] /\ o \notin dead
  /\ \A t, u \in Users : InFlight(t, o) /\ InFlight(u, o) => t = u

Counting ==
  /\ ThreadsSafe /\ LoadedInCall
  /\ \A o \in Objs : Uncreated(o)
  /\ \A o \in Objs \ raced : Exact(o)

ObjectsInv == ObjectsTypeOK /\ CountsLiveObjects /\ (fault = {} => Counting)

-----------------------------------------------------------------------------
(* Slots                                                                   *)

\* The parts of Owners are numbers; what a thread has in a slot it owns.
LEMMA OwnersType ==
  ASSUME ObjectsTypeOK, NEW t \in Users, NEW o \in Objs
  PROVE  /\ Times(pointer[t], o) \in Nat /\ Times(array[t], o) \in Nat /\ One(local[t], o) \in Nat
         /\ Owners(t, o) = Times(pointer[t], o) + Times(array[t], o) + One(local[t], o)
         /\ Owners(t, o) \in Nat /\ Owners(t, o) >= Times(array[t], o)
         /\ \A p \in Pointers : pointer[t][p] = o => Times(pointer[t], o) >= 1
         /\ \A i \in DOMAIN array[t] : array[t][i] = o => Times(array[t], o) >= 1
         /\ o \in Held(t) => Owners(t, o) >= 1
<1>1. DOMAIN pointer[t] = Pointers /\ IsFiniteSet(Pointers) /\ array[t] \in Seq(Objs)
  BY ObjectsAssumption DEF ObjectsTypeOK
<1>2. Times(pointer[t], o) \in Nat /\ (Times(pointer[t], o) = 0 <=> \A p \in Pointers : pointer[t][p] # o)
  BY <1>1, TimesType
<1>3. IsFiniteSet(DOMAIN array[t])
  BY <1>1, SeqIsFinite
<1>4. Times(array[t], o) \in Nat /\ (Times(array[t], o) = 0 <=> \A i \in DOMAIN array[t] : array[t][i] # o)
  BY <1>3, TimesType
<1>5. One(local[t], o) \in Nat /\ (local[t] = o => One(local[t], o) = 1)
  BY DEF One
<1>6. Owners(t, o) = Times(pointer[t], o) + Times(array[t], o) + One(local[t], o)
  BY DEF Owners, One
<1>7. /\ \A p \in Pointers : pointer[t][p] = o => Times(pointer[t], o) >= 1
      /\ \A i \in DOMAIN array[t] : array[t][i] = o => Times(array[t], o) >= 1
  BY <1>2, <1>4
<1>8. Owners(t, o) \in Nat /\ Owners(t, o) >= Times(array[t], o)
  BY <1>2, <1>4, <1>5, <1>6
<1>9. ASSUME o \in Held(t) PROVE Owners(t, o) >= 1
  <2>1. \/ \E p \in Pointers : pointer[t][p] = o
        \/ \E i \in DOMAIN array[t] : array[t][i] = o
        \/ local[t] = o
    BY <1>9 DEF Held, Range
  <2>2. Times(pointer[t], o) >= 1 \/ Times(array[t], o) >= 1 \/ One(local[t], o) >= 1
    BY <1>5, <1>7, <2>1
  <2> QED BY <1>2, <1>4, <1>5, <1>6, <2>2
<1> QED BY <1>2, <1>4, <1>5, <1>6, <1>7, <1>8, <1>9

\* What a change of one slot does to the owners
LEMMA PointOwners ==
  ASSUME ObjectsTypeOK, NEW t \in Users, NEW p \in Pointers, NEW b \in Values, Point(t, p, b)
  PROVE  /\ pointer' \in [Users -> [Pointers -> Values]]
         /\ \A o \in Objs : Owners(t, o)' = Owners(t, o) - One(pointer[t][p], o) + One(b, o)
         /\ \A u \in Users \ {t}, o \in Objs : Owners(u, o)' = Owners(u, o)
<1>0. pointer' = [pointer EXCEPT ![t][p] = b] /\ array' = array /\ local' = local
  BY DEF Point
<1>1. pointer'[t] = [pointer[t] EXCEPT ![p] = b] /\ \A u \in Users \ {t} : pointer'[u] = pointer[u]
  BY <1>0 DEF ObjectsTypeOK
<1>2. DOMAIN pointer[t] = Pointers /\ IsFiniteSet(Pointers)
  BY ObjectsAssumption DEF ObjectsTypeOK
<1>3. ASSUME NEW o \in Objs PROVE Owners(t, o)' = Owners(t, o) - One(pointer[t][p], o) + One(b, o)
  <2>1. Times(pointer'[t], o) = Times(pointer[t], o) - One(pointer[t][p], o) + One(b, o)
    BY <1>1, <1>2, TimesReplaced
  <2>2. /\ Times(pointer[t], o) \in Nat /\ Times(array[t], o) \in Nat /\ One(local[t], o) \in Nat
        /\ Owners(t, o) = Times(pointer[t], o) + Times(array[t], o) + One(local[t], o)
    BY OwnersType
  <2>3. Owners(t, o)' = Times(pointer'[t], o) + Times(array[t], o) + One(local[t], o)
    BY <1>0 DEF Owners, One
  <2>4. One(pointer[t][p], o) \in Nat /\ One(b, o) \in Nat
    BY DEF One
  <2> QED BY <2>1, <2>2, <2>3, <2>4
<1>4. \A u \in Users \ {t}, o \in Objs : Owners(u, o)' = Owners(u, o)
  BY <1>0, <1>1 DEF Owners
<1>5. pointer' \in [Users -> [Pointers -> Values]]
  BY <1>0 DEF ObjectsTypeOK
<1> QED BY <1>3, <1>4, <1>5

LEMMA ItemsOwners ==
  ASSUME ObjectsTypeOK, NEW t \in Users, NEW items \in Seq(Objs),
         array' = [array EXCEPT ![t] = items], pointer' = pointer, local' = local
  PROVE  /\ array' \in [Users -> Seq(Objs)]
         /\ \A o \in Objs : Owners(t, o)' = Owners(t, o) - Times(array[t], o) + Times(items, o)
         /\ \A u \in Users \ {t}, o \in Objs : Owners(u, o)' = Owners(u, o)
<1>1. array'[t] = items /\ \A u \in Users \ {t} : array'[u] = array[u]
  BY DEF ObjectsTypeOK
<1>2. ASSUME NEW o \in Objs PROVE Owners(t, o)' = Owners(t, o) - Times(array[t], o) + Times(items, o)
  <2>1. Times(items, o) \in Nat
    BY SeqIsFinite, TimesType
  <2>2. /\ Times(pointer[t], o) \in Nat /\ Times(array[t], o) \in Nat /\ One(local[t], o) \in Nat
        /\ Owners(t, o) = Times(pointer[t], o) + Times(array[t], o) + One(local[t], o)
    BY OwnersType
  <2>3. Owners(t, o)' = Times(pointer[t], o) + Times(items, o) + One(local[t], o)
    BY <1>1 DEF Owners, One
  <2> QED BY <2>1, <2>2, <2>3
<1>3. \A u \in Users \ {t}, o \in Objs : Owners(u, o)' = Owners(u, o)
  BY <1>1 DEF Owners
<1>4. array' \in [Users -> Seq(Objs)]
  BY DEF ObjectsTypeOK
<1> QED BY <1>2, <1>3, <1>4

LEMMA LocalOwners ==
  ASSUME ObjectsTypeOK, NEW t \in Users, NEW b \in Values,
         local' = [local EXCEPT ![t] = b], pointer' = pointer, array' = array
  PROVE  /\ local' \in [Users -> Values]
         /\ \A o \in Objs : Owners(t, o)' = Owners(t, o) - One(local[t], o) + One(b, o)
         /\ \A u \in Users \ {t}, o \in Objs : Owners(u, o)' = Owners(u, o)
<1>1. local'[t] = b /\ \A u \in Users \ {t} : local'[u] = local[u]
  BY DEF ObjectsTypeOK
<1>2. ASSUME NEW o \in Objs PROVE Owners(t, o)' = Owners(t, o) - One(local[t], o) + One(b, o)
  <2>1. One(b, o) \in Nat
    BY DEF One
  <2>2. /\ Times(pointer[t], o) \in Nat /\ Times(array[t], o) \in Nat /\ One(local[t], o) \in Nat
        /\ Owners(t, o) = Times(pointer[t], o) + Times(array[t], o) + One(local[t], o)
    BY OwnersType
  <2>3. Owners(t, o)' = Times(pointer[t], o) + Times(array[t], o) + One(b, o)
    BY <1>1 DEF Owners, One
  <2> QED BY <2>1, <2>2, <2>3
<1>3. \A u \in Users \ {t}, o \in Objs : Owners(u, o)' = Owners(u, o)
  BY <1>1 DEF Owners
<1>4. local' \in [Users -> Values]
  BY DEF ObjectsTypeOK
<1> QED BY <1>2, <1>3, <1>4

\* What threads count for is a number.
LEMMA SharesType ==
  ASSUME ObjectsTypeOK, ThreadsSafe, NEW o \in Objs
  PROVE  Shares(o) \in [Users -> Nat] /\ \A t \in Users : Shares(o)[t] = Share(t, o) /\ Share(t, o) \in Nat
<1>1. ASSUME NEW t \in Users PROVE Share(t, o) \in Nat
  <2>1. calls[t] \in Seq(Calls) /\ Safe(Owners(t, o), calls[t], o, Least(o))
    BY DEF ObjectsTypeOK, ThreadsSafe
  <2>2. Owners(t, o) \in Nat
    BY OwnersType
  <2>3. Balance(calls[t], o) \in Int
    BY <2>1, BalanceType
  <2>4. Share(t, o) >= 0
    BY <2>1, SafeNow DEF Share
  <2> QED BY <2>2, <2>3, <2>4 DEF Share, Counted
<1> QED BY <1>1 DEF Shares

\* Who has a call to o to make next does not avoid o.
LEMMA HeadIsCall ==
  ASSUME NEW s \in Seq(Calls), s # << >>
  PROVE  Head(s) \in Calls /\ ~Avoids(s, Head(s).on)
<1>1. 1 \in 1 .. Len(s) /\ Head(s) = s[1] /\ s[1] \in Calls
  OBVIOUS
<1> QED BY <1>1 DEF Avoids

-----------------------------------------------------------------------------
(* Steps                                                                   *)

\* An operation of thread t: fresh is the object it creates, or Null.
LEMMA OperationKeeps ==
  ASSUME ObjectsTypeOK, ObjectsTypeOK', Counting, NEW t \in Users, NEW s, calls[t] = << >>,
         calls' = [calls EXCEPT ![t] = s], dead' = dead, loaded' = loaded, raced' = raced,
         handedBack \subseteq handedBack',
         \A u \in Users \ {t}, o \in Objs : Owners(u, o)' = Owners(u, o),
         NEW fresh, fresh \in Objs => count[fresh] = 0 /\ fresh \notin dead,
         \A o \in Objs : count'[o] = count[o] + One(fresh, o),
         \A o \in Objs : Settles(Owners(t, o), One(fresh, o), Owners(t, o)', s, o, Least(o)')
  PROVE  Counting'
<1>1. calls'[t] = s /\ \A u \in Users \ {t} : calls'[u] = calls[u]
  BY DEF ObjectsTypeOK
<1>2. loaded[t] = -1
  BY DEF Counting, LoadedInCall
<1>3. \A o \in Objs : Least(o) \in {0, 1} /\ Least(o)' \in {0, 1} /\ Least(o)' <= Least(o)
  BY DEF Least
<1>4. ThreadsSafe'
  <2>1. ASSUME NEW u \in Users, NEW o \in Objs PROVE Safe(Owners(u, o)', calls'[u], o, Least(o)')
    <3>1. CASE u = t
      BY <1>1, <3>1 DEF Settles
    <3>2. CASE u # t
      <4>1. Safe(Owners(u, o), calls[u], o, Least(o))
        BY DEF Counting, ThreadsSafe
      <4>2. Safe(Owners(u, o), calls[u], o, Least(o)')
        BY <1>3, <4>1, SafeRelaxed
      <4> QED BY <1>1, <3>2, <4>2
    <3> QED BY <3>1, <3>2
  <2> QED BY <2>1 DEF ThreadsSafe
<1>5. LoadedInCall'
  <2>1. ASSUME NEW u \in Users, loaded'[u] # -1 PROVE loaded'[u] >= 1 /\ calls'[u] # << >>
    BY <1>1, <1>2, <2>1 DEF Counting, LoadedInCall
  <2> QED BY <2>1 DEF LoadedInCall
<1>6. ASSUME NEW o \in Objs PROVE /\ Share(t, o)' = Share(t, o) + One(fresh, o)
                                  /\ \A u \in Users \ {t} : Share(u, o)' = Share(u, o)
  <2>1. Share(t, o)' = Owners(t, o) + One(fresh, o)
    BY <1>1 DEF Settles, Share
  <2>2. Owners(t, o) \in Nat
    BY OwnersType
  <2>3. Share(t, o) = Owners(t, o)
    BY <2>2, BalanceEmpty DEF Share, Counted
  <2>4. \A u \in Users \ {t} : Share(u, o)' = Share(u, o)
    BY <1>1 DEF Share
  <2> QED BY <2>1, <2>3, <2>4
<1>7. ASSUME NEW o \in Objs PROVE Uncreated(o)'
  <2>1. SUFFICES ASSUME count'[o] = 0, o \notin dead, NEW u \in Users
                 PROVE  Owners(u, o)' = 0 /\ Avoids(calls'[u], o)
    BY DEF Uncreated
  <2>2. count[o] \in Nat /\ One(fresh, o) \in {0, 1}
    BY DEF ObjectsTypeOK, One
  <2>3. count[o] = 0 /\ One(fresh, o) = 0
    BY <2>1, <2>2
  <2>4. \A v \in Users : Owners(v, o) = 0 /\ Avoids(calls[v], o)
    BY <2>1, <2>3 DEF Counting, Uncreated
  <2>5. CASE u = t
    <3>1. Owners(t, o) + One(fresh, o) = 0
      BY <2>3, <2>4
    <3> QED BY <1>1, <2>5, <3>1 DEF Settles
  <2>6. CASE u # t
    BY <1>1, <2>4, <2>6
  <2> QED BY <2>5, <2>6
<1>8. ASSUME NEW o \in Objs \ raced PROVE Exact(o)'
  <2>0. Exact(o)
    BY DEF Counting
  <2>1. \A u \in Users : InFlight(u, o)' <=> InFlight(u, o)
    BY <1>1, <1>2 DEF InFlight
  <2>2. /\ Shares(o) \in [Users -> Nat] /\ Shares(o)' \in [Users -> Nat]
        /\ \A u \in Users : Shares(o)[u] = Share(u, o) /\ Shares(o)'[u] = Share(u, o)'
    <3>1. Shares(o) \in [Users -> Nat] /\ \A u \in Users : Shares(o)[u] = Share(u, o) /\ Share(u, o) \in Nat
      BY SharesType DEF Counting
    <3>2. One(fresh, o) \in Nat
      BY DEF One
    <3>3. \A u \in Users : Share(u, o)' \in Nat
      BY <1>6, <3>1, <3>2
    <3> QED BY <3>1, <3>3 DEF Shares
  <2>3. CASE fresh # o
    <3>1. One(fresh, o) = 0 /\ count'[o] = count[o] /\ count[o] \in Nat
      BY <2>3 DEF One, ObjectsTypeOK
    <3>2. \A u \in Users : Share(u, o)' = Share(u, o)
      <4>1. Share(t, o) \in Nat
        BY <2>2
      <4> QED BY <1>6, <3>1, <4>1
    <3>3. Shares(o)' = Shares(o)
      BY <3>2 DEF Shares
    <3>4. count'[o] = Cardinality(Pairs(Shares(o)'))
      BY <2>0, <3>1, <3>3 DEF Exact
    <3> QED BY <2>0, <2>1, <3>1, <3>4 DEF Exact
  <2>4. CASE fresh = o
    <3>1. count[o] = 0 /\ o \notin dead /\ count'[o] = 1 /\ One(fresh, o) = 1
      BY <2>4 DEF One
    <3>2. ASSUME NEW u \in Users PROVE ~InFlight(u, o)
      <4>1. Avoids(calls[u], o)
        BY <3>1 DEF Counting, Uncreated
      <4>2. calls[u] \in Seq(Calls) /\ (loaded[u] # -1 => calls[u] # << >>)
        BY DEF ObjectsTypeOK, Counting, LoadedInCall
      <4> QED BY <4>1, <4>2, HeadIsCall DEF InFlight
    <3> DEFINE f == Shares(o)
               g == Shares(o)'
    <3>3. f \in [Users -> Nat] /\ g \in [Users -> Nat] /\ g[t] = f[t] + 1 /\ \A u \in Users \ {t} : g[u] = f[u]
      BY <1>6, <2>2, <3>1
    <3>4. Cardinality(Pairs(f)) = 0
      BY <2>0, <3>1 DEF Exact
    <3> HIDE DEF f, g
    <3>5. Cardinality(Pairs(g)) = Cardinality(Pairs(f)) + 1
      BY <3>3, PairsPlus
    <3>6. count'[o] = Cardinality(Pairs(Shares(o)'))
      BY <3>1, <3>4, <3>5 DEF g
    <3> QED BY <2>1, <3>1, <3>2, <3>6 DEF Exact
  <2> QED BY <2>3, <2>4
<1> QED BY <1>4, <1>5, <1>7, <1>8 DEF Counting

\* The read of a count: of a deleted object only after a race, or when it was stored over itself
LEMMA LoadKeeps ==
  ASSUME ObjectsInv, NEW t \in Users, Load(t)
  PROVE  ObjectsInv'
<1> DEFINE o == Head(calls[t]).on
<1>0. fault = {} /\ Counting /\ ObjectsTypeOK /\ calls[t] # << >> /\ loaded[t] = -1 /\ calls[t] \in Seq(Calls)
  BY DEF Load, ObjectsInv, ObjectsTypeOK
<1>1. o \in Objs /\ ~Avoids(calls[t], o)
  BY <1>0, HeadIsCall DEF Calls
<1>2. CASE o \in dead
  <2>1. fault' = {o} /\ raced' = raced /\ handedBack' = handedBack /\ calls' = [calls EXCEPT ![t] = << >>]
        /\ UNCHANGED <<count, dead, pointer, array, local, loaded>>
    BY <1>0, <1>2 DEF Load
  <2>2. ASSUME o \notin raced, o \notin handedBack PROVE FALSE
    <3>1. count[o] = 0 /\ count[o] = Cardinality(Pairs(Shares(o)))
      BY <1>0, <1>1, <1>2, <2>2 DEF Counting, Exact
    <3>2. Shares(o) \in [Users -> Nat] /\ Shares(o)[t] = Share(t, o)
      BY <1>0, <1>1, SharesType DEF Counting
    <3>3. Share(t, o) = 0
      BY <3>1, <3>2, PairsNone
    <3>4. Safe(Owners(t, o), calls[t], o, 1)
      BY <1>0, <1>1, <2>2 DEF Counting, ThreadsSafe, Least
    <3>5. Share(t, o) >= 1
      BY <1>0, <3>4, SafeNow DEF Share
    <3> QED BY <3>3, <3>5
  <2>3. ObjectsTypeOK'
    BY <1>0, <1>1, <2>1 DEF ObjectsTypeOK
  <2>4. fault' # {} /\ CountsLiveObjects'
    BY <2>1, <2>2 DEF CountsLiveObjects
  <2> QED BY <2>3, <2>4 DEF ObjectsInv
<1>3. CASE o \notin dead
  <2>1. /\ loaded' = [loaded EXCEPT ![t] = count[o]] /\ fault' = fault
        /\ raced' = IF \E u \in Users : InFlight(u, o) THEN raced \cup {o} ELSE raced
        /\ UNCHANGED <<calls, count, dead, pointer, array, local, handedBack>>
    BY <1>0, <1>3 DEF Load, InFlight
  <2> HIDE DEF o
  <2>2. loaded'[t] = count[o] /\ \A u \in Users \ {t} : loaded'[u] = loaded[u]
    BY <1>0, <2>1 DEF ObjectsTypeOK
  <2>3. ObjectsTypeOK'
    BY <1>0, <1>1, <2>1 DEF ObjectsTypeOK
  <2>4. count[o] \in Nat /\ count[o] >= 1
    BY <1>0, <1>1, <1>3 DEF ObjectsTypeOK, Counting, Uncreated
  <2>5. \A u \in Users, x \in Objs : Owners(u, x)' = Owners(u, x)
    BY <2>1 DEF Owners
  <2>6. ThreadsSafe'
    BY <1>0, <2>1, <2>5 DEF Counting, ThreadsSafe, Least
  <2>7. LoadedInCall'
    BY <1>0, <2>1, <2>2, <2>4 DEF Counting, LoadedInCall
  <2>8. ASSUME NEW x \in Objs PROVE Uncreated(x)'
    BY <1>0, <2>1, <2>5 DEF Counting, Uncreated
  <2>9. ASSUME NEW x \in Objs \ raced' PROVE Exact(x)'
    <3>1. x \in Objs \ raced /\ (x = o => \A u \in Users : ~InFlight(u, o))
      BY <2>1
    <3>2. Exact(x)
      BY <1>0, <3>1 DEF Counting
    <3>3. Shares(x)' = Shares(x)
      BY <2>1, <2>5 DEF Shares, Share
    <3>4. count'[x] = Cardinality(Pairs(Shares(x)'))
      BY <2>1, <3>2, <3>3 DEF Exact
    <3>5. \A u \in Users \ {t} : InFlight(u, x)' <=> InFlight(u, x)
      BY <2>1, <2>2 DEF InFlight
    <3>6. InFlight(t, x)' <=> x = o
      BY <2>1, <2>2, <2>4 DEF InFlight, o
    <3>7. x = o => \A u \in Users \ {t} : ~InFlight(u, x)'
      BY <3>1, <3>5
    <3>8. ASSUME NEW u \in Users, InFlight(u, x)' PROVE loaded'[u] = count'[x] /\ x \notin dead'
      <4>1. CASE u = t
        BY <1>3, <2>1, <2>2, <3>6, <3>8, <4>1
      <4>2. CASE u # t
        BY <2>1, <2>2, <3>2, <3>5, <3>8, <4>2 DEF Exact
      <4> QED BY <4>1, <4>2
    <3>9. ASSUME NEW u \in Users, NEW v \in Users, InFlight(u, x)', InFlight(v, x)' PROVE u = v
      <4>1. CASE x = o
        BY <3>7, <3>9, <4>1
      <4>2. CASE x # o
        BY <3>2, <3>5, <3>6, <3>9, <4>2 DEF Exact
      <4> QED BY <4>1, <4>2
    <3>10. x \in dead' => count'[x] = 0
      BY <2>1, <3>2 DEF Exact
    <3> QED BY <3>4, <3>8, <3>9, <3>10 DEF Exact
  <2>10. CountsLiveObjects'
    BY <1>0, <2>1 DEF CountsLiveObjects
  <2>11. Counting'
    BY <2>6, <2>7, <2>8, <2>9 DEF Counting
  <2> QED BY <2>3, <2>10, <2>11 DEF ObjectsInv
<1> QED BY <1>2, <1>3

\* What the first call does to the balance
LEMMA BalanceTail ==
  ASSUME NEW s \in Seq(Calls), s # << >>, NEW o
  PROVE  /\ Tail(s) \in Seq(Calls) /\ Balance(Tail(s), o) \in Int
         /\ Balance(s, o) = Balance(Tail(s), o)
              + (IF Head(s).on # o THEN 0 ELSE IF Head(s).call = "Release" THEN 1 ELSE -1)
         /\ Avoids(s, o) => Avoids(Tail(s), o)
<1> DEFINE a == <<Head(s)>>
           r == Tail(s)
<1>1. a \in Seq(Calls) /\ r \in Seq(Calls) /\ s = a \o r /\ Head(s) \in Calls
  OBVIOUS
<1>2. Avoids(s, o) => Avoids(r, o)
  <2>1. Len(r) = Len(s) - 1 /\ Len(s) \in Nat /\ \A i \in 1 .. Len(r) : r[i] = s[i + 1]
    OBVIOUS
  <2> QED BY <2>1 DEF Avoids
<1>3. Balance(a, o) = IF Head(s).on # o THEN 0 ELSE IF Head(s).call = "Release" THEN 1 ELSE -1
  BY <1>1, BalanceSingle
<1> HIDE DEF a, r
<1>4. Balance(r, o) \in Int /\ Balance(a \o r, o) = Balance(a, o) + Balance(r, o)
  BY <1>1, BalanceType, BalanceConcat
<1>5. Balance(s, o) = Balance(r, o) + (IF Head(s).on # o THEN 0 ELSE IF Head(s).call = "Release" THEN 1 ELSE -1)
  BY <1>1, <1>3, <1>4
<1> QED BY <1>1, <1>2, <1>4, <1>5 DEF r

\* The write of a count
LEMMA StoreKeeps ==
  ASSUME ObjectsInv, NEW t \in Users, Store(t)
  PROVE  ObjectsInv'
<1> DEFINE c == Head(calls[t])
           o == c.on
           n == IF c.call = "Retain" THEN loaded[t] + 1 ELSE loaded[t] - 1
           by == IF c.call = "Release" THEN 1 ELSE -1
<1>0. fault = {} /\ Counting /\ ObjectsTypeOK /\ loaded[t] # -1
  BY DEF Store, ObjectsInv
<1>1. calls[t] \in Seq(Calls) /\ calls[t] # << >> /\ loaded[t] \in Int /\ loaded[t] >= 1
  BY <1>0 DEF ObjectsTypeOK, Counting, LoadedInCall
<1>2. c \in Calls /\ o \in Objs /\ c.call \in {"Retain", "Release"}
  BY <1>1, HeadIsCall DEF Calls
<1>3. n \in Nat /\ n = loaded[t] - by /\ by \in {1, -1}
  BY <1>1, <1>2
<1>4. /\ count' = [count EXCEPT ![o] = n] /\ dead' = (IF n = 0 THEN dead \cup {o} ELSE dead)
      /\ loaded' = [loaded EXCEPT ![t] = -1] /\ calls' = [calls EXCEPT ![t] = Tail(calls[t])]
      /\ UNCHANGED <<pointer, array, local, raced, handedBack, fault>>
  BY DEF Store
<1>5. /\ calls'[t] = Tail(calls[t]) /\ \A u \in Users \ {t} : calls'[u] = calls[u]
      /\ loaded'[t] = -1 /\ \A u \in Users \ {t} : loaded'[u] = loaded[u]
      /\ count'[o] = n /\ \A x \in Objs \ {o} : count'[x] = count[x]
  BY <1>0, <1>2, <1>4 DEF ObjectsTypeOK
<1>6. ASSUME NEW x \in Objs
      PROVE  /\ Tail(calls[t]) \in Seq(Calls) /\ Balance(Tail(calls[t]), x) \in Int
             /\ Balance(calls[t], x) = Balance(Tail(calls[t]), x) + (IF o # x THEN 0 ELSE by)
             /\ Avoids(calls[t], x) => Avoids(Tail(calls[t]), x)
  BY <1>1, BalanceTail
<1> HIDE DEF o, n, by
<1>7. ObjectsTypeOK'
  <2>1. Tail(calls[t]) \in Seq(Calls)
    BY <1>2, <1>6
  <2> QED BY <1>0, <1>2, <1>3, <1>4, <2>1 DEF ObjectsTypeOK
<1>8. \A u \in Users, x \in Objs : Owners(u, x)' = Owners(u, x)
  BY <1>4 DEF Owners
<1>9. ThreadsSafe'
  <2>1. ASSUME NEW u \in Users, NEW x \in Objs PROVE Safe(Owners(u, x), calls'[u], x, Least(x))
    <3>1. Safe(Owners(u, x), calls[u], x, Least(x))
      BY <1>0 DEF Counting, ThreadsSafe
    <3>2. CASE u = t
      BY <1>1, <1>5, <3>1, <3>2, SafeTail
    <3>3. CASE u # t
      BY <1>5, <3>1, <3>3
    <3> QED BY <3>2, <3>3
  <2>2. \A x \in Objs : Least(x)' = Least(x)
    BY <1>4 DEF Least
  <2> QED BY <1>8, <2>1, <2>2 DEF ThreadsSafe
<1>10. LoadedInCall'
  BY <1>0, <1>5 DEF Counting, LoadedInCall
<1>11. ASSUME NEW x \in Objs PROVE Uncreated(x)'
  <2>1. CASE x = o
    <3>1. n = 0 => o \in dead'
      BY <1>4
    <3> QED BY <1>5, <2>1, <3>1 DEF Uncreated
  <2>2. CASE x # o
    <3>1. count'[x] = count[x] /\ (x \in dead' <=> x \in dead)
      BY <1>4, <1>5, <2>2
    <3>2. ASSUME count[x] = 0, x \notin dead, NEW u \in Users PROVE Owners(u, x)' = 0 /\ Avoids(calls'[u], x)
      <4>1. Owners(u, x) = 0 /\ Avoids(calls[u], x)
        BY <1>0, <3>2 DEF Counting, Uncreated
      <4>2. CASE u = t
        BY <1>5, <1>6, <1>8, <4>1, <4>2
      <4>3. CASE u # t
        BY <1>5, <1>8, <4>1, <4>3
      <4> QED BY <4>2, <4>3
    <3> QED BY <3>1, <3>2 DEF Uncreated
  <2> QED BY <2>1, <2>2
<1>12. ASSUME NEW x \in Objs
       PROVE  /\ Share(t, x)' = Share(t, x) - (IF o # x THEN 0 ELSE by)
              /\ \A u \in Users \ {t} : Share(u, x)' = Share(u, x)
              /\ Shares(x) \in [Users -> Nat] /\ Shares(x)' \in [Users -> Nat]
              /\ \A u \in Users : Shares(x)[u] = Share(u, x) /\ Shares(x)'[u] = Share(u, x)'
  <2>1. Owners(t, x) \in Nat
    BY <1>0, OwnersType
  <2>2. Share(t, x)' = Owners(t, x) + Balance(Tail(calls[t]), x)
    BY <1>5, <1>8 DEF Share, Counted
  <2>3. Share(t, x) = Owners(t, x) + Balance(calls[t], x)
    BY DEF Share, Counted
  <2>4. Share(t, x)' = Share(t, x) - (IF o # x THEN 0 ELSE by)
    BY <1>3, <1>6, <2>1, <2>2, <2>3
  <2>5. \A u \in Users \ {t} : Share(u, x)' = Share(u, x)
    BY <1>5, <1>8 DEF Share
  <2>6. Shares(x) \in [Users -> Nat] /\ \A u \in Users : Shares(x)[u] = Share(u, x) /\ Share(u, x) \in Nat
    BY <1>0, SharesType DEF Counting
  <2>7. Share(t, x)' \in Nat
    <3>1. Safe(Owners(t, x), Tail(calls[t]), x, Least(x))
      BY <1>0, <1>1, SafeTail DEF Counting, ThreadsSafe
    <3>2. Counted(Owners(t, x), Tail(calls[t]), x) >= 0
      BY <1>6, <3>1, SafeNow
    <3>3. Counted(Owners(t, x), Tail(calls[t]), x) \in Int
      BY <1>6, <2>1 DEF Counted
    <3> QED BY <2>2, <3>2, <3>3 DEF Counted
  <2>8. \A u \in Users : Share(u, x)' \in Nat
    BY <2>5, <2>6, <2>7
  <2> QED BY <2>4, <2>5, <2>6, <2>8 DEF Shares
<1>13. ASSUME NEW x \in Objs \ raced PROVE Exact(x)'
  <2>0. Exact(x) /\ count[x] \in Nat
    BY <1>0 DEF Counting, ObjectsTypeOK
  <2>1. ~InFlight(t, x)' /\ \A u \in Users \ {t} : InFlight(u, x)' <=> InFlight(u, x)
    BY <1>5 DEF InFlight
  <2>2. CASE x # o
    <3>1. count'[x] = count[x] /\ (x \in dead' <=> x \in dead)
      BY <1>4, <1>5, <2>2
    <3>2. \A u \in Users : Shares(x)'[u] = Shares(x)[u]
      BY <1>12, <2>2
    <3>3. Shares(x)' = Shares(x)
      BY <1>12, <3>2
    <3>4. count'[x] = Cardinality(Pairs(Shares(x)'))
      BY <2>0, <3>1, <3>3 DEF Exact
    <3> QED BY <1>5, <2>0, <2>1, <3>1, <3>4 DEF Exact
  <2>3. CASE x = o
    <3>1. InFlight(t, o)
      BY <1>0 DEF InFlight, o
    <3>2. loaded[t] = count[o] /\ o \notin dead /\ \A u \in Users \ {t} : ~InFlight(u, o)
      BY <2>0, <2>3, <3>1 DEF Exact
    <3>3. count'[o] = count[o] - by
      BY <1>3, <1>5, <3>2
    <3> DEFINE f == Shares(x)
               g == Shares(x)'
    <3>4. f \in [Users -> Nat] /\ g \in [Users -> Nat] /\ g[t] = f[t] - by /\ \A u \in Users \ {t} : g[u] = f[u]
      <4>1. Share(t, x)' = Share(t, x) - by /\ \A u \in Users \ {t} : Share(u, x)' = Share(u, x)
        BY <1>12, <2>3
      <4>2. /\ Shares(x) \in [Users -> Nat] /\ Shares(x)' \in [Users -> Nat]
            /\ \A u \in Users : Shares(x)[u] = Share(u, x) /\ Shares(x)'[u] = Share(u, x)'
        BY <1>12
      <4> QED BY <4>1, <4>2
    <3>5. count[o] = Cardinality(Pairs(f))
      BY <2>0, <2>3 DEF Exact
    <3> HIDE DEF f, g
    <3>6. Cardinality(Pairs(f)) \in Nat /\ Cardinality(Pairs(g)) \in Nat
      BY <3>4, PairsFinite
    <3>7. CASE by = 1
      <4>1. f[t] \in Nat /\ g[t] \in Nat
        BY <3>4
      <4>2. f[t] = g[t] + 1 /\ \A u \in Users \ {t} : f[u] = g[u]
        BY <3>4, <3>7, <4>1
      <4>3. Cardinality(Pairs(f)) = Cardinality(Pairs(g)) + 1
        BY <3>4, <4>2, PairsPlus
      <4> QED
        <5>1. count'[o] = Cardinality(Pairs(g))
          BY <3>3, <3>5, <3>6, <3>7, <4>3
        <5>2. o \in dead' => count'[o] = 0
          BY <1>4, <1>5, <3>2
        <5>3. count'[x] = Cardinality(Pairs(Shares(x)')) /\ (x \in dead' => count'[x] = 0)
          BY <2>3, <5>1, <5>2 DEF g
        <5>4. \A u \in Users : ~InFlight(u, x)'
          BY <2>1, <2>3, <3>2
        <5> QED BY <5>3, <5>4 DEF Exact
    <3>8. CASE by = -1
      <4>1. f[t] \in Nat /\ g[t] \in Nat
        BY <3>4
      <4>2. g[t] = f[t] + 1 /\ \A u \in Users \ {t} : g[u] = f[u]
        BY <3>4, <3>8, <4>1
      <4>3. Cardinality(Pairs(g)) = Cardinality(Pairs(f)) + 1
        BY <3>4, <4>2, PairsPlus
      <4> QED
        <5>1. count'[o] = Cardinality(Pairs(g))
          BY <3>3, <3>5, <3>6, <3>8, <4>3
        <5>2. o \in dead' => count'[o] = 0
          BY <1>4, <1>5, <3>2
        <5>3. count'[x] = Cardinality(Pairs(Shares(x)')) /\ (x \in dead' => count'[x] = 0)
          BY <2>3, <5>1, <5>2 DEF g
        <5>4. \A u \in Users : ~InFlight(u, x)'
          BY <2>1, <2>3, <3>2
        <5> QED BY <5>3, <5>4 DEF Exact
    <3> QED BY <1>3, <3>7, <3>8
  <2> QED BY <2>2, <2>3
<1>14. Counting'
  BY <1>4, <1>9, <1>10, <1>11, <1>13 DEF Counting
<1>15. CountsLiveObjects'
  BY <1>0, <1>4 DEF CountsLiveObjects
<1> QED BY <1>7, <1>14, <1>15 DEF ObjectsInv

\* An operation, as the actions state it
Operation(t, s) ==
  /\ fault = {} /\ calls[t] = << >> /\ calls' = [calls EXCEPT ![t] = s]
  /\ UNCHANGED <<dead, loaded, raced, fault>>

LEMMA BeginIsOperation ==
  ASSUME NEW t, NEW s, Begin(t, s)
  PROVE  Operation(t, s)
  BY DEF Begin, Idle, Operation

LEMMA OperationInv ==
  ASSUME ObjectsInv, NEW t \in Users, NEW s, Operation(t, s),
         pointer' \in [Users -> [Pointers -> Values]], array' \in [Users -> Seq(Objs)], local' \in [Users -> Values],
         handedBack \subseteq handedBack', handedBack' \subseteq Values,
         \A u \in Users \ {t}, o \in Objs : Owners(u, o)' = Owners(u, o),
         NEW fresh, fresh \in Objs => count[fresh] = 0 /\ fresh \notin dead,
         count' \in [Objs -> Nat], \A o \in Objs : count'[o] = count[o] + One(fresh, o),
         \A o \in Objs : Settles(Owners(t, o), One(fresh, o), Owners(t, o)', s, o, Least(o)')
  PROVE  ObjectsInv'
<1>1. ObjectsTypeOK /\ Counting
  BY DEF ObjectsInv, Operation
<1>2. s \in Seq(Calls)
  BY ObjectsAssumption DEF Settles
<1>3. ObjectsTypeOK'
  BY <1>1, <1>2 DEF ObjectsTypeOK, Operation
<1>4. Counting'
  BY <1>1, <1>3, OperationKeeps DEF Operation
<1>5. CountsLiveObjects'
  BY DEF Operation, CountsLiveObjects
<1> QED BY <1>3, <1>4, <1>5 DEF ObjectsInv

\* One that creates nothing
LEMMA PlainInv ==
  ASSUME ObjectsInv, NEW t \in Users, NEW s, Operation(t, s), count' = count,
         pointer' \in [Users -> [Pointers -> Values]], array' \in [Users -> Seq(Objs)], local' \in [Users -> Values],
         handedBack \subseteq handedBack', handedBack' \subseteq Values,
         \A u \in Users \ {t}, o \in Objs : Owners(u, o)' = Owners(u, o),
         \A o \in Objs : Settles(Owners(t, o), 0, Owners(t, o)', s, o, Least(o)')
  PROVE  ObjectsInv'
<1>1. \A o \in Objs : One(Null, o) = 0
  BY ObjectsAssumption DEF One
<1>2. count' \in [Objs -> Nat] /\ \A o \in Objs : count'[o] = count[o] + One(Null, o)
  BY <1>1 DEF ObjectsInv, ObjectsTypeOK
<1>3. \A o \in Objs : Settles(Owners(t, o), One(Null, o), Owners(t, o)', s, o, Least(o)')
  BY <1>1
<1> QED BY <1>2, <1>3, ObjectsAssumption, OperationInv

LEMMA LeastType ==
  ASSUME NEW o
  PROVE  Least(o) \in {0, 1} /\ Least(o)' \in {0, 1}
  BY DEF Least

\* The values in slots
LEMMA SlotsType ==
  ASSUME ObjectsTypeOK, NEW t \in Users
  PROVE  /\ \A p \in Pointers : pointer[t][p] \in Values
         /\ \A i \in DOMAIN array[t] : array[t][i] \in Objs
         /\ array[t] \in Seq(Objs) /\ local[t] \in Values /\ Held(t) \subseteq Values
<1>1. \A p \in Pointers : pointer[t][p] \in Values
  BY DEF ObjectsTypeOK
<1>2. array[t] \in Seq(Objs) /\ local[t] \in Values
  BY DEF ObjectsTypeOK
<1>3. \A i \in DOMAIN array[t] : array[t][i] \in Objs
  BY <1>2
<1>4. Held(t) \subseteq Values
  BY <1>1, <1>2, <1>3 DEF Held, Range, Values
<1> QED BY <1>1, <1>2, <1>3, <1>4

-----------------------------------------------------------------------------
(* Pointers                                                                *)

LEMMA AssignPointerKeeps ==
  ASSUME ObjectsInv, NEW t \in Users, NEW p \in Pointers, AssignPointer(t, p)
  PROVE  ObjectsInv'
<1>0. ObjectsTypeOK
  BY DEF ObjectsInv
<1>1. PICK b \in Held(t) : Begin(t, Swap(pointer[t][p], b)) /\ Point(t, p, b) /\ count' = count
  BY DEF AssignPointer
<1>2. PICK a \in Values : a = pointer[t][p] /\ b \in Values
  BY <1>0, SlotsType
<1>3. /\ array' = array /\ local' = local /\ handedBack' = handedBack
      /\ Operation(t, Swap(a, b))
  BY <1>1, <1>2, BeginIsOperation DEF Point
<1>4. /\ pointer' \in [Users -> [Pointers -> Values]]
      /\ \A o \in Objs : Owners(t, o)' = Owners(t, o) - One(a, o) + One(b, o)
      /\ \A u \in Users \ {t}, o \in Objs : Owners(u, o)' = Owners(u, o)
  BY <1>0, <1>1, <1>2, PointOwners
<1>5. ASSUME NEW o \in Objs PROVE Settles(Owners(t, o), 0, Owners(t, o)', Swap(a, b), o, Least(o)')
  <2>1. Owners(t, o) \in Nat /\ (b = o => Owners(t, o) >= 1)
    BY <1>0, OwnersType
  <2>2. a = o => Owners(t, o) >= 1
    <3>1. a \in Held(t)
      BY <1>2 DEF Held
    <3> QED BY <1>0, <3>1, OwnersType
  <2>3. Settles(Owners(t, o), 0, Owners(t, o) - One(a, o) + One(b, o), Swap(a, b), o, Least(o)')
    BY <1>2, <2>1, <2>2, LeastType, SwapSettles
  <2> QED BY <1>4, <2>3
<1>6. array' \in [Users -> Seq(Objs)] /\ local' \in [Users -> Values] /\ handedBack' \subseteq Values
  BY <1>0, <1>3 DEF ObjectsTypeOK
<1> QED BY <1>1, <1>3, <1>4, <1>5, <1>6, PlainInv

LEMMA DropKeeps ==
  ASSUME ObjectsInv, NEW t \in Users, NEW p \in Pointers, Drop(t, p)
  PROVE  ObjectsInv'
<1>0. ObjectsTypeOK
  BY DEF ObjectsInv
<1>1. PICK a \in Values : a = pointer[t][p] /\ a \in Held(t)
  BY <1>0, SlotsType DEF Held
<1>2. /\ Point(t, p, Null) /\ array' = array /\ local' = local /\ handedBack' = handedBack
      /\ Operation(t, Release(a)) /\ count' = count
  BY <1>1, BeginIsOperation DEF Drop, Point
<1>3. /\ pointer' \in [Users -> [Pointers -> Values]]
      /\ \A o \in Objs : Owners(t, o)' = Owners(t, o) - One(a, o) + One(Null, o)
      /\ \A u \in Users \ {t}, o \in Objs : Owners(u, o)' = Owners(u, o)
  <2>1. Null \in Values
    BY DEF Values
  <2> QED BY <1>0, <1>1, <1>2, <2>1, PointOwners
<1>4. ASSUME NEW o \in Objs PROVE Settles(Owners(t, o), 0, Owners(t, o)', Release(a), o, Least(o)')
  <2>1. Owners(t, o) \in Nat /\ (a = o => Owners(t, o) >= 1)
    BY <1>0, <1>1, OwnersType
  <2>2. Owners(t, o)' = Owners(t, o) - One(a, o)
    BY <1>3, <2>1, ObjectsAssumption DEF One
  <2>3. Settles(Owners(t, o), 0, Owners(t, o) - One(a, o), Release(a), o, Least(o)')
    BY <2>1, LeastType, DropSettles
  <2> QED BY <2>2, <2>3
<1>5. array' \in [Users -> Seq(Objs)] /\ local' \in [Users -> Values] /\ handedBack' \subseteq Values
  BY <1>0, <1>2 DEF ObjectsTypeOK
<1> QED BY <1>2, <1>3, <1>4, <1>5, PlainInv

\* A new object, in the two ways in which it comes into a pointer
LEMMA CreateKeeps ==
  ASSUME ObjectsInv, NEW t \in Users, NEW p \in Pointers, Create(t, p) \/ Return(t, p)
  PROVE  ObjectsInv'
<1>0. ObjectsTypeOK /\ \A o \in Objs : fault = {} => Uncreated(o)
  BY DEF ObjectsInv, Counting
<1>1. PICK a \in Values : a = pointer[t][p] /\ a \in Held(t)
  BY <1>0, SlotsType DEF Held
<1> DEFINE Ways(b) == {Swap(a, b) \o Release(b), Retain(b) \o Release(b) \o Swap(a, b) \o Release(b)}
<1>2a. PICK b \in Unused : \E s \in Ways(b) : Alloc(b) /\ Begin(t, s) /\ Point(t, p, b)
  BY <1>1 DEF Create, Return
<1>2b. PICK s \in Ways(b) : Alloc(b) /\ Begin(t, s) /\ Point(t, p, b)
  BY <1>2a
<1> HIDE DEF Ways
<1>3. b \in Objs /\ count[b] = 0 /\ b \notin dead /\ b \in Values
  BY DEF Unused, Values
<1>4. /\ array' = array /\ local' = local /\ handedBack' = handedBack
      /\ Operation(t, s) /\ fault = {} /\ count' = [count EXCEPT ![b] = 1]
  BY <1>2b, BeginIsOperation DEF Point, Alloc, Operation
<1>5. /\ pointer' \in [Users -> [Pointers -> Values]]
      /\ \A o \in Objs : Owners(t, o)' = Owners(t, o) - One(a, o) + One(b, o)
      /\ \A u \in Users \ {t}, o \in Objs : Owners(u, o)' = Owners(u, o)
  BY <1>0, <1>1, <1>2b, <1>3, PointOwners
<1>6. ASSUME NEW o \in Objs PROVE Settles(Owners(t, o), One(b, o), Owners(t, o)', s, o, Least(o)')
  <2>1. Owners(t, o) \in Nat /\ (a = o => Owners(t, o) >= 1)
    BY <1>0, <1>1, OwnersType
  <2>2. b = o => Owners(t, o) = 0
    BY <1>0, <1>3, <1>4 DEF Uncreated
  <2>3. \/ s = Swap(a, b) \o Release(b)
        \/ s = Retain(b) \o Release(b) \o Swap(a, b) \o Release(b)
    BY <1>2b DEF Ways
  <2> DEFINE m == Owners(t, o) - One(a, o) + One(b, o)
  <2>4. /\ Settles(Owners(t, o), One(b, o), m, Swap(a, b) \o Release(b), o, Least(o)')
        /\ Settles(Owners(t, o), One(b, o), m, Retain(b) \o Release(b) \o Swap(a, b) \o Release(b), o, Least(o)')
    BY <1>3, <2>1, <2>2, LeastType, CreateSettles
  <2>5. Settles(Owners(t, o), One(b, o), m, s, o, Least(o)')
    <3> HIDE DEF m
    <3> QED BY <2>3, <2>4
  <2> QED BY <1>5, <2>5
<1>7. count' \in [Objs -> Nat] /\ \A o \in Objs : count'[o] = count[o] + One(b, o)
  BY <1>0, <1>3, <1>4 DEF ObjectsTypeOK, One
<1>8. array' \in [Users -> Seq(Objs)] /\ local' \in [Users -> Values] /\ handedBack' \subseteq Values
  BY <1>0, <1>4 DEF ObjectsTypeOK
<1> QED BY <1>3, <1>4, <1>5, <1>6, <1>7, <1>8, OperationInv

-----------------------------------------------------------------------------
(* Arrays                                                                  *)

LEMMA ItemsInv ==
  ASSUME ObjectsInv, NEW t \in Users, NEW items \in Seq(Objs), NEW s, Items(t, items, s),
         handedBack \subseteq handedBack', handedBack' \subseteq Values,
         \A o \in Objs : Settles(Owners(t, o), 0, Owners(t, o) - Times(array[t], o) + Times(items, o), s, o, Least(o)')
  PROVE  ObjectsInv'
<1>0. ObjectsTypeOK
  BY DEF ObjectsInv
<1>1. /\ array' = [array EXCEPT ![t] = items] /\ pointer' = pointer /\ local' = local /\ count' = count
      /\ Operation(t, s)
  BY BeginIsOperation DEF Items
<1>2. /\ array' \in [Users -> Seq(Objs)]
      /\ \A o \in Objs : Owners(t, o)' = Owners(t, o) - Times(array[t], o) + Times(items, o)
      /\ \A u \in Users \ {t}, o \in Objs : Owners(u, o)' = Owners(u, o)
  BY <1>0, <1>1, ItemsOwners
<1>3. \A o \in Objs : Settles(Owners(t, o), 0, Owners(t, o)', s, o, Least(o)')
  BY <1>2
<1>4. pointer' \in [Users -> [Pointers -> Values]] /\ local' \in [Users -> Values]
  BY <1>0, <1>1 DEF ObjectsTypeOK
<1> QED BY <1>1, <1>2, <1>3, <1>4, PlainInv

\* What a thread has of o, and of it in its array
LEMMA Holdings ==
  ASSUME ObjectsTypeOK, NEW t \in Users, NEW o \in Objs
  PROVE  /\ Owners(t, o) \in Nat /\ Times(array[t], o) \in Nat /\ Owners(t, o) >= Times(array[t], o)
         /\ o \in Held(t) => Owners(t, o) >= 1
         /\ \A i \in DOMAIN array[t] : array[t][i] = o => Owners(t, o) >= 1 /\ Times(array[t], o) >= 1
<1>1. /\ Owners(t, o) \in Nat /\ Times(array[t], o) \in Nat /\ Owners(t, o) >= Times(array[t], o)
      /\ o \in Held(t) => Owners(t, o) >= 1
      /\ \A i \in DOMAIN array[t] : array[t][i] = o => Times(array[t], o) >= 1
  BY OwnersType
<1> QED BY <1>1

LEMMA HeldObject ==
  ASSUME ObjectsTypeOK, NEW t \in Users, NEW b \in Held(t) \ {Null}
  PROVE  b \in Objs /\ b \in Values
  BY SlotsType DEF Values

LEMMA HandedBackType ==
  ASSUME ObjectsInv
  PROVE  handedBack \subseteq Values /\ ObjectsTypeOK
  BY DEF ObjectsInv, ObjectsTypeOK

LEMMA InsertItemKeeps ==
  ASSUME ObjectsInv, NEW t \in Users, InsertItem(t)
  PROVE  ObjectsInv'
<1>0. ObjectsTypeOK /\ handedBack' = handedBack /\ handedBack \subseteq Values /\ array[t] \in Seq(Objs)
  BY HandedBackType, SlotsType DEF InsertItem
<1>1. PICK b \in Held(t) \ {Null}, i \in 1 .. Len(array[t]) + 1 : Items(t, InsertAt(array[t], i, b), Retain(b))
  BY DEF InsertItem
<1>2. b \in Objs
  BY <1>0, HeldObject
<1>3. PICK items : items = InsertAt(array[t], i, b)
  OBVIOUS
<1>4. items \in Seq(Objs) /\ \A o \in Objs : Times(items, o) = Times(array[t], o) + One(b, o)
  BY <1>0, <1>2, <1>3, TimesInserted
<1>5. ASSUME NEW o \in Objs
      PROVE  Settles(Owners(t, o), 0, Owners(t, o) - Times(array[t], o) + Times(items, o), Retain(b), o, Least(o)')
  <2>1. Owners(t, o) \in Nat /\ Times(array[t], o) \in Nat /\ (b = o => Owners(t, o) >= 1)
    BY <1>0, Holdings
  <2>2. Owners(t, o) - Times(array[t], o) + Times(items, o) = Owners(t, o) + One(b, o)
    BY <1>4, <2>1 DEF One
  <2>3. Settles(Owners(t, o), 0, Owners(t, o) + One(b, o), Retain(b), o, Least(o)')
    BY <1>2, <2>1, LeastType, InsertSettles
  <2> QED BY <2>2, <2>3
<1> QED BY <1>0, <1>1, <1>3, <1>4, <1>5, ItemsInv

LEMMA RemoveItemAtKeeps ==
  ASSUME ObjectsInv, NEW t \in Users, RemoveItemAt(t)
  PROVE  ObjectsInv'
<1>0. ObjectsTypeOK /\ handedBack' = handedBack /\ handedBack \subseteq Values /\ array[t] \in Seq(Objs)
  BY HandedBackType, SlotsType DEF RemoveItemAt
<1>1. PICK i \in DOMAIN array[t] : Items(t, RemoveAt(array[t], i), Release(array[t][i]))
  BY DEF RemoveItemAt
<1>2. PICK a \in Objs : a = array[t][i] /\ a \in Values
  BY <1>0, SlotsType DEF Values
<1>3. PICK items : items = RemoveAt(array[t], i)
  OBVIOUS
<1>4. items \in Seq(Objs) /\ \A o \in Objs : Times(items, o) = Times(array[t], o) - One(a, o)
  <2>1. i \in 1 .. Len(array[t])
    BY <1>0
  <2> QED BY <1>0, <1>2, <1>3, <2>1, TimesRemoved
<1>5. ASSUME NEW o \in Objs
      PROVE  Settles(Owners(t, o), 0, Owners(t, o) - Times(array[t], o) + Times(items, o), Release(a), o, Least(o)')
  <2>1. Owners(t, o) \in Nat /\ Times(array[t], o) \in Nat /\ (a = o => Owners(t, o) >= 1)
    BY <1>0, <1>2, Holdings
  <2>2. Owners(t, o) - Times(array[t], o) + Times(items, o) = Owners(t, o) - One(a, o)
    BY <1>4, <2>1 DEF One
  <2>3. Settles(Owners(t, o), 0, Owners(t, o) - One(a, o), Release(a), o, Least(o)')
    BY <1>2, <2>1, LeastType, DropSettles
  <2> QED BY <2>2, <2>3
<1> QED BY <1>0, <1>1, <1>2, <1>3, <1>4, <1>5, ItemsInv

LEMMA RemoveItemsKeeps ==
  ASSUME ObjectsInv, NEW t \in Users, RemoveItems(t)
  PROVE  ObjectsInv'
<1>0. ObjectsTypeOK /\ handedBack' = handedBack /\ handedBack \subseteq Values /\ array[t] \in Seq(Objs)
  BY HandedBackType, SlotsType DEF RemoveItems
<1>1. PICK b \in Range(array[t]) : \E items \in Others(array[t], b) :
        Items(t, items, Retain(b) \o ReleaseAll([i \in 1 .. Times(array[t], b) |-> b]) \o Release(b))
  BY DEF RemoveItems
<1>2. PICK items \in Others(array[t], b) :
        Items(t, items, Retain(b) \o ReleaseAll([i \in 1 .. Times(array[t], b) |-> b]) \o Release(b))
  BY <1>1
<1>3. PICK j \in DOMAIN array[t] : b = array[t][j] /\ b \in Objs
  BY <1>0, SlotsType DEF Range
<1>4. Times(array[t], b) \in Nat /\ Times(array[t], b) >= 1 /\ Owners(t, b) >= Times(array[t], b)
  BY <1>0, <1>3, Holdings
<1>5. PICK k \in Nat \ {0} : k = Times(array[t], b)
  BY <1>4
<1>6. items \in Seq(Objs) /\ \A o \in Objs : Times(items, o) = IF o = b THEN 0 ELSE Times(array[t], o)
  BY <1>0, TimesOthers
<1>7. PICK s : s = Retain(b) \o ReleaseAll([i \in 1 .. k |-> b]) \o Release(b)
  OBVIOUS
<1>8. ASSUME NEW o \in Objs
      PROVE  Settles(Owners(t, o), 0, Owners(t, o) - Times(array[t], o) + Times(items, o), s, o, Least(o)')
  <2>1. Owners(t, o) \in Nat /\ Times(array[t], o) \in Nat /\ Owners(t, o) >= Times(array[t], o)
    BY <1>0, Holdings
  <2>2. b = o => Owners(t, o) >= k
    BY <1>5, <2>1
  <2>3. Owners(t, o) - Times(array[t], o) + Times(items, o) = IF b = o THEN Owners(t, o) - k ELSE Owners(t, o)
    BY <1>5, <1>6, <2>1
  <2>4. Settles(Owners(t, o), 0, IF b = o THEN Owners(t, o) - k ELSE Owners(t, o), s, o, Least(o)')
    BY <1>3, <1>7, <2>1, <2>2, LeastType, RemoveItemsSettles
  <2> QED BY <2>3, <2>4
<1>9. Items(t, items, s)
  BY <1>2, <1>5, <1>7
<1> QED BY <1>0, <1>6, <1>8, <1>9, ItemsInv

LEMMA SetItemKeeps ==
  ASSUME ObjectsInv, NEW t \in Users, SetItem(t)
  PROVE  ObjectsInv'
<1>0. ObjectsTypeOK /\ handedBack \subseteq Values /\ array[t] \in Seq(Objs)
  BY HandedBackType, SlotsType
<1>1. PICK i \in DOMAIN array[t], b \in Held(t) \ {Null} :
        /\ Items(t, [array[t] EXCEPT ![i] = b], Release(array[t][i]) \o Retain(b))
        /\ handedBack' = IF b = array[t][i] THEN handedBack \cup {b} ELSE handedBack
  BY DEF SetItem
<1>2. b \in Objs /\ b \in Values
  BY <1>0, HeldObject
<1>3. PICK a \in Objs : a = array[t][i] /\ a \in Values
  BY <1>0, SlotsType DEF Values
<1>4. PICK items : items = [array[t] EXCEPT ![i] = b]
  OBVIOUS
<1>5. items \in Seq(Objs) /\ \A o \in Objs : Times(items, o) = Times(array[t], o) - One(a, o) + One(b, o)
  <2>1. IsFiniteSet(DOMAIN array[t])
    BY <1>0, SeqIsFinite
  <2>2. \A o \in Objs : Times([array[t] EXCEPT ![i] = b], o) = Times(array[t], o) - One(array[t][i], o) + One(b, o)
    BY <2>1, TimesReplaced
  <2> QED BY <1>0, <1>2, <1>3, <1>4, <2>2
<1>6. ASSUME NEW o \in Objs
      PROVE  Settles(Owners(t, o), 0, Owners(t, o) - Times(array[t], o) + Times(items, o),
                     Release(a) \o Retain(b), o, Least(o)')
  <2>1. /\ Owners(t, o) \in Nat /\ Times(array[t], o) \in Nat
        /\ (a = o => Owners(t, o) >= 1) /\ (b = o => Owners(t, o) >= 1)
    BY <1>0, <1>3, Holdings
  <2>2. Owners(t, o) - Times(array[t], o) + Times(items, o) = Owners(t, o) - One(a, o) + One(b, o)
    BY <1>5, <2>1 DEF One
  <2>3. a = o /\ b = o => Least(o)' = 0
    BY <1>1, <1>3 DEF Least
  <2>4. Settles(Owners(t, o), 0, Owners(t, o) - One(a, o) + One(b, o), Release(a) \o Retain(b), o, Least(o)')
    BY <1>2, <1>3, <2>1, <2>3, LeastType, SetSettles
  <2> QED BY <2>2, <2>4
<1>7. handedBack \subseteq handedBack' /\ handedBack' \subseteq Values
  BY <1>0, <1>1, <1>2
<1>8. Items(t, items, Release(a) \o Retain(b))
  BY <1>1, <1>3, <1>4
<1> QED BY <1>5, <1>6, <1>7, <1>8, ItemsInv

LEMMA ClearKeeps ==
  ASSUME ObjectsInv, NEW t \in Users, Clear(t)
  PROVE  ObjectsInv'
<1>0. ObjectsTypeOK /\ handedBack' = handedBack /\ handedBack \subseteq Values /\ array[t] \in Seq(Objs)
  BY HandedBackType, SlotsType DEF Clear
<1>1. Items(t, << >>, ReleaseAll(array[t]))
  BY DEF Clear
<1>2. PICK items, r : items = << >> /\ r = array[t]
  OBVIOUS
<1>3. items \in Seq(Objs) /\ \A o \in Objs : Times(items, o) = 0
  BY <1>2, TimesEmpty
<1>4. ASSUME NEW o \in Objs
      PROVE  Settles(Owners(t, o), 0, Owners(t, o) - Times(array[t], o) + Times(items, o), ReleaseAll(array[t]), o, Least(o)')
  <2>1. Owners(t, o) \in Nat /\ Times(array[t], o) \in Nat /\ Owners(t, o) >= Times(array[t], o)
    BY <1>0, Holdings
  <2>2. Owners(t, o) - Times(array[t], o) + Times(items, o) = Owners(t, o) - Times(array[t], o)
    BY <1>3, <2>1
  <2>3. Settles(Owners(t, o), 0, Owners(t, o) - Times(array[t], o), ReleaseAll(array[t]), o, Least(o)')
    BY <1>0, <2>1, LeastType, ClearSettles
  <2> QED BY <2>2, <2>3
<1> QED BY <1>0, <1>1, <1>2, <1>3, <1>4, ItemsInv

LEMMA AssignArrayKeeps ==
  ASSUME ObjectsInv, NEW t \in Users, AssignArray(t)
  PROVE  ObjectsInv'
<1>0. ObjectsTypeOK /\ handedBack' = handedBack /\ handedBack \subseteq Values /\ array[t] \in Seq(Objs)
  BY HandedBackType, SlotsType DEF AssignArray
<1>1. PICK items \in {array[t]} \cup {<<b>> : b \in Held(t) \ {Null}} :
        Items(t, items, RetainAll(items) \o ReleaseAll(array[t]))
  BY DEF AssignArray
<1>2. items \in Seq(Objs) /\ \A o \in Objs : Times(items, o) > 0 => Owners(t, o) >= 1
  <2>1. CASE items = array[t]
    <3>1. ASSUME NEW o \in Objs, Times(array[t], o) > 0 PROVE Owners(t, o) >= 1
      <4>1. Owners(t, o) \in Nat /\ Times(array[t], o) \in Nat /\ Owners(t, o) >= Times(array[t], o)
        BY <1>0, Holdings
      <4> QED BY <3>1, <4>1
    <3> QED BY <1>0, <2>1, <3>1
  <2>2. CASE items # array[t]
    <3>1. PICK b \in Held(t) \ {Null} : items = <<b>>
      BY <1>1, <2>2
    <3>2. b \in Objs
      BY <1>0, HeldObject
    <3>3. \A o \in Objs : Times(items, o) = One(b, o)
      BY <3>1, <3>2, TimesSingle
    <3>4. ASSUME NEW o \in Objs, Times(items, o) > 0 PROVE Owners(t, o) >= 1
      <4>1. b = o
        BY <3>3, <3>4 DEF One
      <4> QED BY <1>0, <4>1, Holdings
    <3> QED BY <3>1, <3>2, <3>4
  <2> QED BY <2>1, <2>2
<1>3. ASSUME NEW o \in Objs
      PROVE  Settles(Owners(t, o), 0, Owners(t, o) - Times(array[t], o) + Times(items, o),
                     RetainAll(items) \o ReleaseAll(array[t]), o, Least(o)')
  <2>1. Owners(t, o) \in Nat /\ Owners(t, o) >= Times(array[t], o)
    BY <1>0, Holdings
  <2> QED BY <1>0, <1>2, <2>1, LeastType, AssignSettles
<1> QED BY <1>0, <1>1, <1>2, <1>3, ItemsInv

-----------------------------------------------------------------------------
(* Thread storage                                                          *)

LEMMA SetValueKeeps ==
  ASSUME ObjectsInv, NEW t \in Users, SetValue(t)
  PROVE  ObjectsInv'
<1>0. ObjectsTypeOK /\ handedBack \subseteq Values
  BY HandedBackType
<1>1. PICK b \in Held(t) :
        /\ Begin(t, Release(local[t]) \o Retain(b))
        /\ local' = [local EXCEPT ![t] = b]
        /\ handedBack' = IF b = local[t] THEN handedBack \cup {b} ELSE handedBack
  BY DEF SetValue
<1>2. pointer' = pointer /\ array' = array /\ count' = count
  BY DEF SetValue
<1>3. PICK a \in Values : a = local[t] /\ a \in Held(t) /\ b \in Values
  BY <1>0, SlotsType DEF Held
<1>4. Operation(t, Release(a) \o Retain(b))
  BY <1>1, <1>3, BeginIsOperation
<1>5. /\ local' \in [Users -> Values]
      /\ \A o \in Objs : Owners(t, o)' = Owners(t, o) - One(a, o) + One(b, o)
      /\ \A u \in Users \ {t}, o \in Objs : Owners(u, o)' = Owners(u, o)
  BY <1>0, <1>1, <1>2, <1>3, LocalOwners
<1>6. ASSUME NEW o \in Objs PROVE Settles(Owners(t, o), 0, Owners(t, o)', Release(a) \o Retain(b), o, Least(o)')
  <2>1. Owners(t, o) \in Nat /\ (a = o => Owners(t, o) >= 1) /\ (b = o => Owners(t, o) >= 1)
    BY <1>0, <1>3, Holdings
  <2>2. a = o /\ b = o => Least(o)' = 0
    BY <1>1, <1>3 DEF Least
  <2>3. Settles(Owners(t, o), 0, Owners(t, o) - One(a, o) + One(b, o), Release(a) \o Retain(b), o, Least(o)')
    BY <1>3, <2>1, <2>2, LeastType, SetSettles
  <2> QED BY <1>5, <2>3
<1>7. pointer' \in [Users -> [Pointers -> Values]] /\ array' \in [Users -> Seq(Objs)]
  BY <1>0, <1>2 DEF ObjectsTypeOK
<1>8. handedBack \subseteq handedBack' /\ handedBack' \subseteq Values
  BY <1>0, <1>1, <1>3
<1> QED BY <1>2, <1>4, <1>5, <1>6, <1>7, <1>8, PlainInv

\* The storage of a thread that ends
LEMMA ThreadExitKeeps ==
  ASSUME ObjectsInv, NEW t \in Users, ThreadExit(t)
  PROVE  ObjectsInv'
<1>0. ObjectsTypeOK /\ handedBack' = handedBack /\ handedBack \subseteq Values
  BY HandedBackType DEF ThreadExit
<1>1. pointer' = pointer /\ array' = array /\ count' = count
  BY DEF ThreadExit
<1>2. pointer' \in [Users -> [Pointers -> Values]] /\ array' \in [Users -> Seq(Objs)]
  BY <1>0, <1>1 DEF ObjectsTypeOK
<1>3. PICK a \in Values : a = local[t] /\ a \in Held(t)
  BY <1>0, SlotsType DEF Held
<1>4. CASE storage
  <2>1. Operation(t, Release(a)) /\ local' = [local EXCEPT ![t] = Null]
    BY <1>3, <1>4 DEF ThreadExit, Idle, Operation
  <2>2. /\ local' \in [Users -> Values]
        /\ \A o \in Objs : Owners(t, o)' = Owners(t, o) - One(a, o) + One(Null, o)
        /\ \A u \in Users \ {t}, o \in Objs : Owners(u, o)' = Owners(u, o)
    <3>1. Null \in Values
      BY DEF Values
    <3> QED BY <1>0, <1>1, <1>3, <2>1, <3>1, LocalOwners
  <2>3. ASSUME NEW o \in Objs PROVE Settles(Owners(t, o), 0, Owners(t, o)', Release(a), o, Least(o)')
    <3>1. Owners(t, o) \in Nat /\ (a = o => Owners(t, o) >= 1)
      BY <1>0, <1>3, Holdings
    <3>2. Owners(t, o)' = Owners(t, o) - One(a, o)
      BY <2>2, <3>1, ObjectsAssumption DEF One
    <3>3. Settles(Owners(t, o), 0, Owners(t, o) - One(a, o), Release(a), o, Least(o)')
      BY <3>1, LeastType, DropSettles
    <3> QED BY <3>2, <3>3
  <2> QED BY <1>0, <1>1, <1>2, <2>1, <2>2, <2>3, PlainInv
<1>5. CASE ~storage
  <2>1. Operation(t, << >>) /\ local' = local
    BY <1>5 DEF ThreadExit, Idle, Operation
  <2>2. local' \in [Users -> Values]
    BY <1>0, <2>1 DEF ObjectsTypeOK
  <2>3. \A u \in Users, o \in Objs : Owners(u, o)' = Owners(u, o)
    BY <1>1, <2>1 DEF Owners
  <2>4. ASSUME NEW o \in Objs PROVE Settles(Owners(t, o), 0, Owners(t, o)', << >>, o, Least(o)')
    <3>1. Owners(t, o) \in Nat
      BY <1>0, Holdings
    <3>2. Counted(Owners(t, o), << >>, o) = Owners(t, o) + 0
      BY <3>1, BalanceEmpty DEF Counted
    <3>3. << >> \in Seq(Calls) /\ Avoids(<< >>, o)
      BY DEF Avoids
    <3>4. Safe(Owners(t, o), << >>, o, Least(o)')
      BY <3>1, SafeEmpty
    <3>5. Settles(Owners(t, o), 0, Owners(t, o), << >>, o, Least(o)')
      BY <3>1, <3>2, <3>3, <3>4 DEF Settles
    <3> QED BY <2>3, <3>5
  <2> QED BY <1>0, <1>1, <1>2, <2>1, <2>2, <2>3, <2>4, PlainInv
<1> QED BY <1>4, <1>5

\* Steps that leave alone what is counted
LEMMA FrameKeeps ==
  ASSUME ObjectsInv, UNCHANGED <<count, dead, pointer, array, local, calls, loaded, raced, handedBack, fault>>
  PROVE  ObjectsInv'
<1>1. ObjectsTypeOK' /\ CountsLiveObjects'
  BY DEF ObjectsInv, ObjectsTypeOK, CountsLiveObjects
<1>2. \A u \in Users, o \in Objs : Owners(u, o)' = Owners(u, o)
  BY DEF Owners
<1>3. ASSUME Counting PROVE Counting'
  <2>1. ThreadsSafe' /\ LoadedInCall'
    BY <1>2, <1>3 DEF Counting, ThreadsSafe, LoadedInCall, Least
  <2>2. \A o \in Objs : Uncreated(o)'
    BY <1>2, <1>3 DEF Counting, Uncreated
  <2>3. ASSUME NEW o \in Objs \ raced PROVE Exact(o)'
    <3>1. Shares(o)' = Shares(o)
      BY <1>2 DEF Shares, Share
    <3>2. \A u \in Users : InFlight(u, o)' <=> InFlight(u, o)
      BY DEF InFlight
    <3>3. Exact(o)
      BY <1>3 DEF Counting
    <3>4. count'[o] = Cardinality(Pairs(Shares(o)'))
      BY <3>1, <3>3 DEF Exact
    <3> QED BY <3>2, <3>3, <3>4 DEF Exact
  <2> QED BY <2>1, <2>2, <2>3 DEF Counting
<1> QED BY <1>1, <1>3 DEF ObjectsInv

-----------------------------------------------------------------------------
(* The theorems                                                            *)

LEMMA InitHolds ==
  ASSUME ObjectsInit
  PROVE  ObjectsInv
<1>0. IsFiniteSet(Users) /\ IsFiniteSet(Pointers) /\ Shared \in Objs /\ Null \notin Objs /\ Cardinality(Users) \in Nat
  BY ObjectsAssumption, FS_CardinalityType
<1>1. PICK p \in Pointers : pointer = [t \in Users |-> [q \in Pointers |-> IF q = p THEN Shared ELSE Null]]
  BY DEF ObjectsInit
<1>2. /\ count = [o \in Objs |-> IF o = Shared THEN Cardinality(Users) ELSE 0]
      /\ array = [t \in Users |-> << >>] /\ local = [t \in Users |-> Null]
      /\ calls = [t \in Users |-> << >>] /\ loaded = [t \in Users |-> -1]
      /\ dead = {} /\ raced = {} /\ handedBack = {} /\ fault = {}
  BY DEF ObjectsInit
<1>3. ObjectsTypeOK
  BY <1>0, <1>1, <1>2 DEF ObjectsTypeOK, Values
<1>4. ASSUME NEW t \in Users, NEW o \in Objs PROVE Owners(t, o) = One(Shared, o)
  <2>1. {q \in DOMAIN pointer[t] : pointer[t][q] = o} = IF o = Shared THEN {p} ELSE {}
    BY <1>0, <1>1
  <2>2. Cardinality({p}) = 1 /\ Cardinality({}) = 0
    BY FS_Singleton, FS_EmptySet
  <2>3. Times(pointer[t], o) = One(Shared, o)
    BY <2>1, <2>2 DEF Times, One
  <2>4. Times(array[t], o) = 0
    BY <1>2, TimesEmpty
  <2>5. One(local[t], o) = 0
    BY <1>0, <1>2 DEF One
  <2>6. Owners(t, o) = Times(pointer[t], o) + Times(array[t], o) + One(local[t], o)
    BY <1>3, OwnersType
  <2>7. One(Shared, o) \in Nat
    BY DEF One
  <2> QED BY <2>3, <2>4, <2>5, <2>6, <2>7
<1>5. \A o \in Objs : One(Shared, o) \in Nat
  BY DEF One
<1>6. ThreadsSafe /\ LoadedInCall
  <2>1. ASSUME NEW t \in Users, NEW o \in Objs PROVE Safe(Owners(t, o), calls[t], o, Least(o))
    BY <1>2, <1>4, <1>5, SafeEmpty
  <2> QED BY <1>2, <2>1 DEF ThreadsSafe, LoadedInCall
<1>7. ASSUME NEW t \in Users, NEW o \in Objs PROVE Share(t, o) = One(Shared, o)
  BY <1>2, <1>4, <1>5, BalanceEmpty DEF Share, Counted
<1>8. ASSUME NEW o \in Objs PROVE Uncreated(o)
  <2>1. CASE o = Shared
    <3>1. count[o] = 0 => Users = {}
      BY <1>0, <1>2, <2>1, FS_EmptySet
    <3> QED BY <3>1 DEF Uncreated
  <2>2. CASE o # Shared
    <3>1. \A t \in Users : Owners(t, o) = 0 /\ Avoids(calls[t], o)
      BY <1>2, <1>4, <2>2 DEF One, Avoids
    <3> QED BY <3>1 DEF Uncreated
  <2> QED BY <2>1, <2>2
<1>9. ASSUME NEW o \in Objs PROVE Exact(o)
  <2>1. \A t \in Users : ~InFlight(t, o)
    BY <1>2 DEF InFlight
  <2> DEFINE f == Shares(o)
  <2>2. \A t \in Users : f[t] = One(Shared, o)
    BY <1>7 DEF Shares
  <2> HIDE DEF f
  <2>3. count[o] = Cardinality(Pairs(f))
    <3>1. CASE o = Shared
      <4> DEFINE g == [t \in Users |-> <<t, 1>>]
      <4>1. \A t \in Users : 1 .. f[t] = {1}
        BY <2>2, <3>1 DEF One
      <4>2. \A x : x \in Pairs(f) <=> \E t \in Users : x = <<t, 1>>
        BY <4>1, PairsHave
      <4>3. g \in [Users -> Pairs(f)]
        BY <4>2
      <4>4. \A a, b \in Users : g[a] = g[b] => a = b
        OBVIOUS
      <4>5. \A x \in Pairs(f) : \E t \in Users : g[t] = x
        BY <4>2
      <4> HIDE DEF g
      <4>6. g \in Bijection(Users, Pairs(f))
        BY <4>3, <4>4, <4>5 DEF Bijection, Injection, IsInjective, Surjection
      <4>7. Cardinality(Pairs(f)) = Cardinality(Users)
        BY <1>0, <4>6, FS_Bijection DEF ExistsBijection
      <4> QED BY <1>2, <3>1, <4>7
    <3>2. CASE o # Shared
      <4>1. \A t \in Users : 1 .. f[t] = {}
        BY <2>2, <3>2 DEF One
      <4>2. Pairs(f) = {}
        BY <4>1, PairsHave
      <4> QED BY <1>2, <3>2, <4>2, FS_EmptySet
    <3> QED BY <3>1, <3>2
  <2> QED BY <1>2, <2>1, <2>3 DEF Exact, f
<1>10. CountsLiveObjects
  BY <1>2 DEF CountsLiveObjects
<1> QED BY <1>3, <1>6, <1>8, <1>9, <1>10 DEF ObjectsInv, Counting

LEMMA NextKeeps ==
  ASSUME ObjectsInv, [ObjectsNext]_objectVars
  PROVE  ObjectsInv'
<1>1. CASE DestroyStorage \/ UNCHANGED objectVars
  BY <1>1, FrameKeeps DEF DestroyStorage, objectVars
<1>2. CASE ~DestroyStorage /\ ~UNCHANGED objectVars
  <2>1. PICK t \in Users :
          \/ Load(t) \/ Store(t)
          \/ \E p \in Pointers : AssignPointer(t, p) \/ Drop(t, p) \/ Create(t, p) \/ Return(t, p)
          \/ InsertItem(t) \/ RemoveItemAt(t) \/ RemoveItems(t) \/ SetItem(t) \/ Clear(t) \/ AssignArray(t)
          \/ SetValue(t) \/ ThreadExit(t)
    BY <1>2 DEF ObjectsNext
  <2>2. CASE Load(t) \/ Store(t)
    BY <2>2, LoadKeeps, StoreKeeps
  <2>3. CASE \E p \in Pointers : AssignPointer(t, p) \/ Drop(t, p) \/ Create(t, p) \/ Return(t, p)
    BY <2>3, AssignPointerKeeps, DropKeeps, CreateKeeps
  <2>4. CASE InsertItem(t) \/ RemoveItemAt(t) \/ RemoveItems(t) \/ SetItem(t) \/ Clear(t) \/ AssignArray(t)
    BY <2>4, InsertItemKeeps, RemoveItemAtKeeps, RemoveItemsKeeps, SetItemKeeps, ClearKeeps, AssignArrayKeeps
  <2>5. CASE SetValue(t) \/ ThreadExit(t)
    BY <2>5, SetValueKeeps, ThreadExitKeeps
  <2> QED BY <2>1, <2>2, <2>3, <2>4, <2>5
<1> QED BY <1>1, <1>2

LEMMA Invariance == ObjectsSpec => []ObjectsInv
<1>1. ObjectsInit => ObjectsInv
  BY InitHolds
<1>2. ObjectsInv /\ [ObjectsNext]_objectVars => ObjectsInv'
  BY NextKeeps
<1> QED BY <1>1, <1>2, PTL DEF ObjectsSpec

\* Retain() and Release() are called on live objects only, by any number of threads that
\* assign pointers, change arrays and thread values, create objects and end: except after
\* a race on the count, or on an object that SetItem or SetValue stored over itself.
THEOREM LiveTheorem == ObjectsSpec => []CountsLiveObjects
<1>1. ObjectsInv => CountsLiveObjects
  BY DEF ObjectsInv
<1> QED BY <1>1, Invariance, PTL

\* When no operation is under way, the count of an object that was not raced for is the
\* number of slots that refer to it.
THEOREM CountTheorem == ObjectsSpec => []CountsOwners
<1>1. ASSUME ObjectsInv PROVE CountsOwners
  <2>1. SUFFICES ASSUME fault = {}, \A t \in Users : calls[t] = << >>, NEW o \in Objs \ raced
                 PROVE  count[o] = Cardinality(References(o))
    BY DEF CountsOwners
  <2>2. ObjectsTypeOK /\ Exact(o)
    BY <1>1, <2>1 DEF ObjectsInv, Counting
  <2>3. ASSUME NEW t \in Users PROVE Share(t, o) = Owners(t, o)
    <3>1. Owners(t, o) \in Nat
      BY <2>2, OwnersType
    <3> QED BY <2>1, <3>1, BalanceEmpty DEF Share, Counted
  <2>4. \A t \in Users : Shares(o)[t] = Owners(t, o)
    BY <2>3 DEF Shares
  <2>5. {{t} \X (1 .. Shares(o)[t]) : t \in Users} = {{t} \X (1 .. Owners(t, o)) : t \in Users}
    BY <2>4
  <2>6. Pairs(Shares(o)) = References(o)
    BY <2>5 DEF Pairs, References
  <2> QED BY <2>2, <2>6 DEF Exact
<1> QED BY <1>1, Invariance, PTL

-----------------------------------------------------------------------------
(* Sets of numbers, and sequences                                          *)

\* A set of numbers has a least one, and a finite one a greatest.
LEMMA LeastOf ==
  ASSUME NEW S, S \subseteq Nat, S # {}
  PROVE  Min(S) \in S /\ \A y \in S : Min(S) <= y
<1>1. PICK m \in S : \A y \in S : ~ (<<y, m>> \in OpToRel(<, Nat))
  BY NatLessThanWellFounded, WFMin
<1>2. \A y \in S : ~(y < m)
  BY <1>1 DEF OpToRel
<1>3. \A y \in S : m <= y
  BY <1>2
<1> QED BY <1>3 DEF Min

LEMMA GreatestOf ==
  ASSUME NEW n \in Nat, NEW S, S \subseteq 0 .. n, S # {}
  PROVE  Max(S) \in S /\ \A y \in S : y <= Max(S)
<1> DEFINE R == {n - y : y \in S}
<1>1. R \subseteq Nat /\ R # {}
  <2>1. \A y \in S : n - y \in Nat
    OBVIOUS
  <2>2. PICK z \in S : TRUE
    OBVIOUS
  <2>3. n - z \in R
    BY <2>2
  <2> QED BY <2>1, <2>3
<1>2. Min(R) \in R /\ \A y \in R : Min(R) <= y
  <2> HIDE DEF R
  <2> QED BY <1>1, LeastOf
<1>3. PICK m \in S : Min(R) = n - m
  BY <1>2
<1>4. \A y \in S : y <= m
  <2> SUFFICES ASSUME NEW y \in S PROVE y <= m
    OBVIOUS
  <2>1. n - m <= n - y
    BY <1>2, <1>3
  <2> QED BY <2>1
<1> QED BY <1>4 DEF Max

LEMMA NatSetInduction ==
  ASSUME NEW S, S \subseteq Nat, 0 \in S, \A n \in S : n + 1 \in S
  PROVE  Nat \subseteq S
<1>1. SUFFICES ASSUME Nat \ S # {} PROVE FALSE
  OBVIOUS
<1>2. PICK m \in Nat \ S : \A y \in Nat \ S : ~ (<<y, m>> \in OpToRel(<, Nat))
  BY <1>1, NatLessThanWellFounded, WFMin
<1>3. \A y \in Nat \ S : ~(y < m)
  BY <1>2 DEF OpToRel
<1> QED BY <1>3

LEMMA ConcatGives ==
  ASSUME NEW S, NEW p \in Seq(S), NEW q \in Seq(S)
  PROVE  /\ p \o q \in Seq(S) /\ Len(p \o q) = Len(p) + Len(q)
         /\ \A i \in 1 .. Len(p) : (p \o q)[i] = p[i]
         /\ \A i \in 1 .. Len(q) : (p \o q)[Len(p) + i] = q[i]
         /\ \A i \in 1 .. Len(p) + Len(q) : i \notin 1 .. Len(p) => i - Len(p) \in 1 .. Len(q) /\ (p \o q)[i] = q[i - Len(p)]
<1>1. Len(p) \in Nat /\ Len(q) \in Nat
  OBVIOUS
<1>2. p \o q \in Seq(S) /\ Len(p \o q) = Len(p) + Len(q)
  OBVIOUS
<1>3. \A i \in 1 .. Len(p) : (p \o q)[i] = p[i]
  OBVIOUS
<1>4. \A i \in 1 .. Len(p) + Len(q) : i \notin 1 .. Len(p) => i - Len(p) \in 1 .. Len(q) /\ (p \o q)[i] = q[i - Len(p)]
  OBVIOUS
<1>5. ASSUME NEW i \in 1 .. Len(q) PROVE (p \o q)[Len(p) + i] = q[i]
  OBVIOUS
<1> QED BY <1>2, <1>3, <1>4, <1>5

-----------------------------------------------------------------------------
(* Characters                                                              *)

\* The number that the bytes of a character stand for
Digit(byte) == byte % 64
Code(b, o) ==
  LET n == SizeAt(b[o + 1])
  IN  IF n = 1 THEN b[o + 1] % 128
      ELSE IF n = 2 THEN 64 * (b[o + 1] % 32) + Digit(b[o + 2])
      ELSE IF n = 3 THEN 64 * (64 * (b[o + 1] % 16) + Digit(b[o + 2])) + Digit(b[o + 3])
      ELSE 64 * (64 * (64 * (b[o + 1] % 8) + Digit(b[o + 2])) + Digit(b[o + 3])) + Digit(b[o + 4])

LEMMA SizeIs ==
  ASSUME NEW byte \in Nat
  PROVE  /\ SizeAt(byte) \in 1 .. 4
         /\ SizeAt(byte) = IF byte < 128 THEN 1 ELSE IF byte >= 240 THEN 4 ELSE IF byte >= 224 THEN 3 ELSE 2
<1>1. CASE byte < 128
  BY <1>1 DEF SizeAt
<1>2. CASE byte >= 240
  BY <1>2 DEF SizeAt
<1>3. CASE byte >= 224 /\ byte < 240
  BY <1>3 DEF SizeAt
<1>4. CASE byte >= 128 /\ byte < 224
  BY <1>4 DEF SizeAt
<1> QED BY <1>1, <1>2, <1>3, <1>4

\* What UTF8DecodeCharacter finds, a byte at a time.
Decodes(b, offset, f) ==
  f = [i \in 0 .. SizeAt(b[offset + 1]) |->
         IF i = 0 THEN 0
         ELSE 64 * f[i - 1] + (IF i = 1 THEN b[offset + 1] % Mask[SizeAt(b[offset + 1])] ELSE b[offset + i] % 64)]

LEMMA Tables ==
  /\ Mask[1] = 128 /\ Mask[2] = 32 /\ Mask[3] = 16 /\ Mask[4] = 8
  /\ Header[1] = 0 /\ Header[2] = 192 /\ Header[3] = 224 /\ Header[4] = 240
  /\ Place[1] = 1 /\ Place[2] = 64 /\ Place[3] = 4096 /\ Place[4] = 262144
BY SMTT(20) DEF Mask, Header, Place

\* Up to four digits, of 64
LEMMA Sums ==
  ASSUME NEW n \in 1 .. 4, NEW d, \A i \in 1 .. n : d[i] \in Nat,
         NEW f, \A i \in 0 .. n : f[i] = IF i = 0 THEN 0 ELSE 64 * f[i - 1] + d[i]
  PROVE  /\ n = 1 => f[n] = d[1]
         /\ n = 2 => f[n] = 64 * d[1] + d[2]
         /\ n = 3 => f[n] = 64 * (64 * d[1] + d[2]) + d[3]
         /\ n = 4 => f[n] = 64 * (64 * (64 * d[1] + d[2]) + d[3]) + d[4]
         /\ f[n] \in Nat
<1>1. \A i \in 1 .. n : f[i] = 64 * f[i - 1] + d[i]
  <2>1. \A i \in 1 .. n : i \in 0 .. n /\ i # 0
    OBVIOUS
  <2> QED BY <2>1
<1>2. f[0] = 0
  OBVIOUS
<1>3. f[1] = d[1] /\ d[1] \in Nat
  BY <1>1, <1>2
<1>4. n >= 2 => f[2] = 64 * d[1] + d[2] /\ d[2] \in Nat
  <2> SUFFICES ASSUME n >= 2 PROVE f[2] = 64 * d[1] + d[2] /\ d[2] \in Nat
    OBVIOUS
  <2>1. 2 \in 1 .. n /\ 2 - 1 = 1
    OBVIOUS
  <2>2. f[2] = 64 * f[1] + d[2]
    BY <1>1, <2>1
  <2> QED BY <1>3, <2>1, <2>2
<1>5. n >= 3 => f[3] = 64 * (64 * d[1] + d[2]) + d[3] /\ d[3] \in Nat
  <2> SUFFICES ASSUME n >= 3 PROVE f[3] = 64 * (64 * d[1] + d[2]) + d[3] /\ d[3] \in Nat
    OBVIOUS
  <2>1. 3 \in 1 .. n /\ 3 - 1 = 2 /\ n >= 2
    OBVIOUS
  <2>2. f[3] = 64 * f[2] + d[3]
    BY <1>1, <2>1
  <2> QED BY <1>4, <2>1, <2>2
<1>6. n >= 4 => f[4] = 64 * (64 * (64 * d[1] + d[2]) + d[3]) + d[4] /\ d[4] \in Nat
  <2> SUFFICES ASSUME n >= 4 PROVE f[4] = 64 * (64 * (64 * d[1] + d[2]) + d[3]) + d[4] /\ d[4] \in Nat
    OBVIOUS
  <2>1. 4 \in 1 .. n /\ 4 - 1 = 3 /\ n >= 3
    OBVIOUS
  <2>2. f[4] = 64 * f[3] + d[4]
    BY <1>1, <2>1
  <2> QED BY <1>5, <2>1, <2>2
<1>7. n \in Nat /\ n <= 4 /\ n >= 1
  OBVIOUS
<1>8. CASE n = 1
  BY <1>3, <1>8
<1>9. CASE n = 2
  BY <1>3, <1>4, <1>9
<1>10. CASE n = 3
  BY <1>3, <1>4, <1>5, <1>10
<1>11. CASE n = 4
  BY <1>3, <1>4, <1>5, <1>6, <1>11
<1> QED BY <1>7, <1>8, <1>9, <1>10, <1>11

\* Such numbers exist.
Running(n, d) ==
  [i \in 0 .. n |-> IF i = 0 THEN 0 ELSE IF i = 1 THEN d[1] ELSE IF i = 2 THEN 64 * d[1] + d[2]
                    ELSE IF i = 3 THEN 64 * (64 * d[1] + d[2]) + d[3]
                    ELSE 64 * (64 * (64 * d[1] + d[2]) + d[3]) + d[4]]

LEMMA SumsExist ==
  ASSUME NEW n \in 1 .. 4, NEW d, \A i \in 1 .. n : d[i] \in Nat
  PROVE  Running(n, d) = [i \in 0 .. n |-> IF i = 0 THEN 0 ELSE 64 * Running(n, d)[i - 1] + d[i]]
<1> DEFINE g == Running(n, d)
<1>1. ASSUME NEW i \in 0 .. n PROVE g[i] = IF i = 0 THEN 0 ELSE 64 * g[i - 1] + d[i]
  <2>1. i \in {0, 1, 2, 3, 4}
    OBVIOUS
  <2>2. CASE i = 0
    BY <2>2 DEF Running
  <2>3. CASE i = 1
    <3>1. 0 \in 0 .. n /\ 1 \in 0 .. n /\ d[1] \in Nat
      BY <2>3
    <3>2. g[0] = 0 /\ g[1] = d[1]
      BY <3>1 DEF Running
    <3> QED BY <2>3, <3>1, <3>2
  <2>4. CASE i = 2
    <3>1. 1 \in 0 .. n /\ 2 \in 0 .. n
      BY <2>4
    <3>2. g[1] = d[1] /\ g[2] = 64 * d[1] + d[2]
      BY <3>1 DEF Running
    <3> QED BY <2>4, <3>2
  <2>5. CASE i = 3
    <3>1. 2 \in 0 .. n /\ 3 \in 0 .. n
      BY <2>5
    <3>2. g[2] = 64 * d[1] + d[2] /\ g[3] = 64 * (64 * d[1] + d[2]) + d[3]
      BY <3>1 DEF Running
    <3> QED BY <2>5, <3>2
  <2>6. CASE i = 4
    <3>1. 3 \in 0 .. n /\ 4 \in 0 .. n
      BY <2>6
    <3>2. g[3] = 64 * (64 * d[1] + d[2]) + d[3] /\ g[4] = 64 * (64 * (64 * d[1] + d[2]) + d[3]) + d[4]
      BY <3>1 DEF Running
    <3> QED BY <2>6, <3>2
  <2> QED BY <2>1, <2>2, <2>3, <2>4, <2>5, <2>6
<1>2. g = [i \in 0 .. n |-> g[i]]
  BY DEF Running
<1> HIDE DEF g
<1>3. g = [i \in 0 .. n |-> IF i = 0 THEN 0 ELSE 64 * g[i - 1] + d[i]]
  BY <1>1, <1>2
<1> QED BY <1>3 DEF g

DigitOf(b, o, i) == IF i = 1 THEN b[o + 1] % Mask[SizeAt(b[o + 1])] ELSE b[o + i] % 64

LEMMA DecodeIs ==
  ASSUME NEW b \in Seq(Nat), NEW o \in Nat, o + 1 \in DOMAIN b, o + SizeAt(b[o + 1]) <= Len(b)
  PROVE  UTF8DecodeCharacter(b, o) = Code(b, o) /\ Code(b, o) \in Nat
<1> DEFINE n == SizeAt(b[o + 1])
           d == [i \in 1 .. n |-> DigitOf(b, o, i)]
           f == CHOOSE h : Decodes(b, o, h)
<1>1. n \in 1 .. 4 /\ n \in Nat /\ o + n <= Len(b)
  BY SizeIs
<1>2. UTF8DecodeCharacter(b, o) = f[n]
  BY Zenon DEF UTF8DecodeCharacter, Decodes
<1>3. \A h : Decodes(b, o, h) <=> h = [i \in 0 .. n |-> IF i = 0 THEN 0 ELSE 64 * h[i - 1] + DigitOf(b, o, i)]
  BY DEF Decodes, DigitOf
<1>4. /\ DigitOf(b, o, 1) = IF n = 1 THEN b[o + 1] % 128 ELSE IF n = 2 THEN b[o + 1] % 32
                            ELSE IF n = 3 THEN b[o + 1] % 16 ELSE b[o + 1] % 8
      /\ \A i \in 2 .. n : DigitOf(b, o, i) = Digit(b[o + i])
  <2>1. DigitOf(b, o, 1) = b[o + 1] % Mask[n]
    BY DEF DigitOf
  <2>2. \A i \in 2 .. n : DigitOf(b, o, i) = b[o + i] % 64
    BY DEF DigitOf
  <2> HIDE DEF n
  <2>3. Mask[n] = IF n = 1 THEN 128 ELSE IF n = 2 THEN 32 ELSE IF n = 3 THEN 16 ELSE 8
    <3>1. n = 1 \/ n = 2 \/ n = 3 \/ n = 4
      BY <1>1
    <3> QED BY SMT, <3>1, Tables
  <2>4. \A i \in 2 .. n : DigitOf(b, o, i) = Digit(b[o + i])
    BY <2>2 DEF Digit
  <2>5. DigitOf(b, o, 1) = IF n = 1 THEN b[o + 1] % 128 ELSE IF n = 2 THEN b[o + 1] % 32
                           ELSE IF n = 3 THEN b[o + 1] % 16 ELSE b[o + 1] % 8
    BY <2>1, <2>3
  <2> QED BY <2>4, <2>5
<1>5. \A i \in 1 .. n : DigitOf(b, o, i) \in Nat
  <2> HIDE DEF n
  <2>1. b[o + 1] \in Nat /\ \A i \in 2 .. n : b[o + i] \in Nat
    BY <1>1
  <2>2. DigitOf(b, o, 1) \in Nat
    BY <1>4, <2>1
  <2>3. \A i \in 2 .. n : DigitOf(b, o, i) \in Nat
    BY <1>4, <2>1 DEF Digit
  <2>4. \A i \in 1 .. n : i = 1 \/ i \in 2 .. n
    BY <1>1
  <2> QED BY <2>2, <2>3, <2>4
<1>6. Code(b, o) = IF n = 1 THEN DigitOf(b, o, 1)
                   ELSE IF n = 2 THEN 64 * DigitOf(b, o, 1) + DigitOf(b, o, 2)
                   ELSE IF n = 3 THEN 64 * (64 * DigitOf(b, o, 1) + DigitOf(b, o, 2)) + DigitOf(b, o, 3)
                   ELSE 64 * (64 * (64 * DigitOf(b, o, 1) + DigitOf(b, o, 2)) + DigitOf(b, o, 3)) + DigitOf(b, o, 4)
  <2>1. Code(b, o) = IF n = 1 THEN b[o + 1] % 128
      ELSE IF n = 2 THEN 64 * (b[o + 1] % 32) + Digit(b[o + 2])
      ELSE IF n = 3 THEN 64 * (64 * (b[o + 1] % 16) + Digit(b[o + 2])) + Digit(b[o + 3])
      ELSE 64 * (64 * (64 * (b[o + 1] % 8) + Digit(b[o + 2])) + Digit(b[o + 3])) + Digit(b[o + 4])
    BY DEF Code
  <2> HIDE DEF n
  <2>2. CASE n = 1
    BY <1>4, <2>1, <2>2
  <2>3. CASE n = 2
    <3>1. DigitOf(b, o, 2) = Digit(b[o + 2])
      BY <1>4, <2>3
    <3> QED BY <1>4, <2>1, <2>3, <3>1
  <2>4. CASE n = 3
    <3>1. DigitOf(b, o, 2) = Digit(b[o + 2]) /\ DigitOf(b, o, 3) = Digit(b[o + 3])
      BY <1>4, <2>4
    <3> QED BY <1>4, <2>1, <2>4, <3>1
  <2>5. CASE n = 4
    <3>1. DigitOf(b, o, 2) = Digit(b[o + 2]) /\ DigitOf(b, o, 3) = Digit(b[o + 3]) /\ DigitOf(b, o, 4) = Digit(b[o + 4])
      BY <1>4, <2>5
    <3> QED BY <1>4, <2>1, <2>5, <3>1
  <2> QED BY <1>1, <2>2, <2>3, <2>4, <2>5
<1>7. \A i \in 1 .. n : d[i] = DigitOf(b, o, i)
  OBVIOUS
<1> HIDE DEF d, n
<1>8. Decodes(b, o, Running(n, d))
  <2>1. \A i \in 1 .. n : d[i] \in Nat
    BY <1>5, <1>7
  <2>2. Running(n, d) = [i \in 0 .. n |-> IF i = 0 THEN 0 ELSE 64 * Running(n, d)[i - 1] + d[i]]
    BY <1>1, <2>1, SumsExist
  <2> DEFINE g == Running(n, d)
  <2>3. \A i \in 0 .. n : i # 0 => i \in 1 .. n
    BY <1>1
  <2>4. g = [i \in 0 .. n |-> IF i = 0 THEN 0 ELSE 64 * g[i - 1] + d[i]]
    BY <2>2
  <2> HIDE DEF g
  <2>5. g = [i \in 0 .. n |-> IF i = 0 THEN 0 ELSE 64 * g[i - 1] + DigitOf(b, o, i)]
    BY <1>7, <2>3, <2>4
  <2>6. Decodes(b, o, g)
    BY <1>3, <2>5
  <2> QED BY <2>6 DEF g
<1>9. Decodes(b, o, f)
  BY <1>8, Zenon
<1> HIDE DEF f
<1>10. \A i \in 0 .. n : f[i] = IF i = 0 THEN 0 ELSE 64 * f[i - 1] + d[i]
  <2>1. \A i \in 0 .. n : i # 0 => i \in 1 .. n
    BY <1>1
  <2>2. f = [i \in 0 .. n |-> IF i = 0 THEN 0 ELSE 64 * f[i - 1] + DigitOf(b, o, i)]
    BY <1>3, <1>9
  <2> QED BY <1>7, <2>1, <2>2
<1>11. /\ n = 1 => f[n] = d[1]
       /\ n = 2 => f[n] = 64 * d[1] + d[2]
       /\ n = 3 => f[n] = 64 * (64 * d[1] + d[2]) + d[3]
       /\ n = 4 => f[n] = 64 * (64 * (64 * d[1] + d[2]) + d[3]) + d[4]
       /\ f[n] \in Nat
  <2>1. \A i \in 1 .. n : d[i] \in Nat
    BY <1>5, <1>7
  <2> QED BY <1>1, <1>10, <2>1, Sums
<1>12. /\ 1 \in 1 .. n /\ (n = 2 => 2 \in 1 .. n) /\ (n = 3 => 2 \in 1 .. n /\ 3 \in 1 .. n)
       /\ (n = 4 => 2 \in 1 .. n /\ 3 \in 1 .. n /\ 4 \in 1 .. n)
  BY <1>1
<1>13. f[n] = Code(b, o)
  <2>1. d[1] = DigitOf(b, o, 1)
    BY <1>7, <1>12
  <2>2. n = 2 => d[2] = DigitOf(b, o, 2)
    BY <1>7, <1>12
  <2>3. n = 3 => d[2] = DigitOf(b, o, 2) /\ d[3] = DigitOf(b, o, 3)
    BY <1>7, <1>12
  <2>4. n = 4 => d[2] = DigitOf(b, o, 2) /\ d[3] = DigitOf(b, o, 3) /\ d[4] = DigitOf(b, o, 4)
    BY <1>7, <1>12
  <2>5. CASE n = 1
    BY <1>6, <1>11, <2>1, <2>5
  <2>6. CASE n = 2
    BY <1>6, <1>11, <2>1, <2>2, <2>6
  <2>7. CASE n = 3
    BY <1>6, <1>11, <2>1, <2>3, <2>7
  <2>8. CASE n = 4
    BY <1>6, <1>11, <2>1, <2>4, <2>8
  <2>9. n = 1 \/ n = 2 \/ n = 3 \/ n = 4
    BY <1>1
  <2> QED BY <2>5, <2>6, <2>7, <2>8, <2>9
<1> QED BY <1>2, <1>11, <1>13

\* The same bytes elsewhere are the same character.
LEMMA SameCode ==
  ASSUME NEW b \in Seq(Nat), NEW c \in Seq(Nat), NEW o \in Nat, NEW p \in Nat,
         o + 1 \in DOMAIN b, \A k \in 1 .. SizeAt(b[o + 1]) : c[p + k] = b[o + k]
  PROVE  c[p + 1] = b[o + 1] /\ SizeAt(c[p + 1]) = SizeAt(b[o + 1]) /\ Code(c, p) = Code(b, o)
<1> DEFINE n == SizeAt(b[o + 1])
<1>1. n \in 1 .. 4
  BY SizeIs
<1> HIDE DEF n
<1>2. \A k \in 1 .. n : c[p + k] = b[o + k]
  BY DEF n
<1>3. c[p + 1] = b[o + 1]
  BY <1>1, <1>2
<1>4. n >= 2 => c[p + 2] = b[o + 2]
  BY <1>1, <1>2
<1>5. n >= 3 => c[p + 3] = b[o + 3]
  BY <1>1, <1>2
<1>6. n >= 4 => c[p + 4] = b[o + 4]
  BY <1>1, <1>2
<1>7. SizeAt(c[p + 1]) = n
  BY <1>3 DEF n
<1>8. n = 1 \/ n = 2 \/ n = 3 \/ n = 4
  BY <1>1
<1>9. Code(c, p) = Code(b, o)
  <2>1. CASE n = 1
    BY <1>3, <1>7, <2>1 DEF Code, n
  <2>2. CASE n = 2
    BY <1>3, <1>4, <1>7, <2>2 DEF Code, n
  <2>3. CASE n = 3
    BY <1>3, <1>4, <1>5, <1>7, <2>3 DEF Code, n
  <2>4. CASE n = 4
    BY <1>3, <1>4, <1>5, <1>6, <1>7, <2>4 DEF Code, n
  <2> QED BY <1>8, <2>1, <2>2, <2>3, <2>4
<1> QED BY <1>3, <1>7, <1>9 DEF n

\* The numbers that UTF8EncodeCharacter can write
CodePoints == {c \in Nat : 0 < c /\ c < 1114112}

LEMMA EncodeIs ==
  ASSUME NEW c \in CodePoints, NEW m \in Seq(Nat), Len(m) = SizeOf(c),
         m[1] = UTF8EncodeCharacter(c)[1],
         \A i \in 2 .. Len(m) : Digit(m[i]) = UTF8EncodeCharacter(c)[i]
  PROVE  m[1] # 0 /\ SizeAt(m[1]) = Len(m) /\ Code(m, 0) = c
<1> DEFINE n == SizeOf(c)
<1>1. c \in Nat /\ 0 < c /\ c < 1114112
  BY SMTT(20) DEF CodePoints
<1>2. n = IF c <= 127 THEN 1 ELSE IF c <= 2047 THEN 2 ELSE IF c <= 65535 THEN 3 ELSE 4
  BY SMTT(20), <1>1 DEF SizeOf
<1>3. n \in 1 .. 4 /\ Len(m) = n
  BY SMTT(20), <1>2
<1>4. \A i \in 1 .. n : UTF8EncodeCharacter(c)[i] = IF i = 1 THEN Header[n] + ((c \div Place[n]) % Mask[n])
                                                    ELSE (c \div Place[n - i + 1]) % 64
  BY SMTT(20) DEF UTF8EncodeCharacter
<1> HIDE DEF n
<1>5. m[1] = Header[n] + ((c \div Place[n]) % Mask[n])
  BY SMTT(20), <1>3, <1>4
<1>6. \A i \in 2 .. n : Digit(m[i]) = (c \div Place[n - i + 1]) % 64
  <2>1. \A i \in 2 .. n : i \in 1 .. n /\ i # 1
    BY SMTT(20), <1>3
  <2> QED BY SMTT(20), <1>3, <1>4, <2>1
<1>7. Code(m, 0) = IF SizeAt(m[1]) = 1 THEN m[1] % 128
      ELSE IF SizeAt(m[1]) = 2 THEN 64 * (m[1] % 32) + Digit(m[2])
      ELSE IF SizeAt(m[1]) = 3 THEN 64 * (64 * (m[1] % 16) + Digit(m[2])) + Digit(m[3])
      ELSE 64 * (64 * (64 * (m[1] % 8) + Digit(m[2])) + Digit(m[3])) + Digit(m[4])
  BY SMTT(20) DEF Code
<1>8. CASE n = 1
  <2>1. c <= 127
    BY SMTT(20), <1>1, <1>2, <1>8
  <2>2. m[1] = 0 + ((c \div 1) % 128)
    BY SMTT(20), <1>5, <1>8, Tables
  <2>3. m[1] = c
    BY SMTT(20), <1>1, <2>1, <2>2
  <2>4. SizeAt(m[1]) = 1
    BY SMTT(20), <1>1, <2>1, <2>3, SizeIs
  <2> QED BY SMTT(20), <1>1, <1>3, <1>7, <1>8, <2>1, <2>3, <2>4
<1>9. CASE n = 2
  <2>1. 127 < c /\ c <= 2047
    BY SMTT(20), <1>1, <1>2, <1>9
  <2>2. m[1] = 192 + ((c \div 64) % 32)
    BY SMTT(20), <1>5, <1>9, Tables
  <2>3. Digit(m[2]) = (c \div 1) % 64
    <3>1. 2 \in 2 .. n /\ n - 2 + 1 = 1
      BY SMTT(20), <1>9
    <3> QED BY SMTT(20), <1>6, <3>1, Tables
  <2>4. m[1] \in Nat /\ m[1] >= 192 /\ m[1] < 224 /\ m[1] % 32 = c \div 64
    BY SMTT(20), <1>1, <2>1, <2>2
  <2>5. SizeAt(m[1]) = 2
    BY SMTT(20), <2>4, SizeIs
  <2>6. Code(m, 0) = 64 * (c \div 64) + ((c \div 1) % 64)
    BY SMTT(20), <1>7, <2>3, <2>4, <2>5
  <2>7. 64 * (c \div 64) + ((c \div 1) % 64) = c
    BY SMTT(20), <1>1
  <2> QED BY SMTT(20), <1>3, <1>9, <2>4, <2>5, <2>6, <2>7
<1>10. CASE n = 3
  <2>1. 2047 < c /\ c <= 65535
    BY SMTT(20), <1>1, <1>2, <1>10
  <2>2. m[1] = 224 + ((c \div 4096) % 16)
    BY SMTT(20), <1>5, <1>10, Tables
  <2>3. Digit(m[2]) = (c \div 64) % 64
    <3>1. 2 \in 2 .. n /\ n - 2 + 1 = 2
      BY SMTT(20), <1>10
    <3> QED BY SMTT(20), <1>6, <3>1, Tables
  <2>4. Digit(m[3]) = (c \div 1) % 64
    <3>1. 3 \in 2 .. n /\ n - 3 + 1 = 1
      BY SMTT(20), <1>10
    <3> QED BY SMTT(20), <1>6, <3>1, Tables
  <2>5. m[1] \in Nat /\ m[1] >= 224 /\ m[1] < 240 /\ m[1] % 16 = c \div 4096
    BY SMTT(20), <1>1, <2>1, <2>2
  <2>6. SizeAt(m[1]) = 3
    BY SMTT(20), <2>5, SizeIs
  <2>7. Code(m, 0) = 64 * (64 * (c \div 4096) + ((c \div 64) % 64)) + ((c \div 1) % 64)
    BY SMTT(20), <1>7, <2>3, <2>4, <2>5, <2>6
  <2>8. 64 * (64 * (c \div 4096) + ((c \div 64) % 64)) + ((c \div 1) % 64) = c
    BY SMTT(20), <1>1
  <2> QED BY SMTT(20), <1>3, <1>10, <2>5, <2>6, <2>7, <2>8
<1>11. CASE n = 4
  <2>1. 65535 < c /\ c < 1114112
    BY SMTT(20), <1>1, <1>2, <1>11
  <2>2. m[1] = 240 + ((c \div 262144) % 8)
    BY SMTT(20), <1>5, <1>11, Tables
  <2>3. Digit(m[2]) = (c \div 4096) % 64
    <3>1. 2 \in 2 .. n /\ n - 2 + 1 = 3
      BY SMTT(20), <1>11
    <3> QED BY SMTT(20), <1>6, <3>1, Tables
  <2>4. Digit(m[3]) = (c \div 64) % 64
    <3>1. 3 \in 2 .. n /\ n - 3 + 1 = 2
      BY SMTT(20), <1>11
    <3> QED BY SMTT(20), <1>6, <3>1, Tables
  <2>5. Digit(m[4]) = (c \div 1) % 64
    <3>1. 4 \in 2 .. n /\ n - 4 + 1 = 1
      BY SMTT(20), <1>11
    <3> QED BY SMTT(20), <1>6, <3>1, Tables
  <2>6. m[1] \in Nat /\ m[1] >= 240 /\ m[1] % 8 = c \div 262144
    BY SMTT(20), <1>1, <2>1, <2>2
  <2>7. SizeAt(m[1]) = 4
    BY SMTT(20), <2>6, SizeIs
  <2>8. Code(m, 0) = 64 * (64 * (64 * (c \div 262144) + ((c \div 4096) % 64)) + ((c \div 64) % 64)) + ((c \div 1) % 64)
    BY SMTT(20), <1>7, <2>3, <2>4, <2>5, <2>6, <2>7
  <2>9. 64 * (64 * (64 * (c \div 262144) + ((c \div 4096) % 64)) + ((c \div 64) % 64)) + ((c \div 1) % 64) = c
    <3>1. c = 64 * (c \div 64) + ((c \div 1) % 64)
      BY SMTT(20), <1>1
    <3>2. c \div 64 = 64 * (c \div 4096) + ((c \div 64) % 64)
      BY SMTT(20), <1>1
    <3>3. c \div 4096 = 64 * (c \div 262144) + ((c \div 4096) % 64)
      BY SMTT(20), <1>1
    <3> QED BY SMTT(20), <3>1, <3>2, <3>3
  <2> QED BY SMTT(20), <1>3, <1>11, <2>6, <2>7, <2>8, <2>9
<1>12. n = 1 \/ n = 2 \/ n = 3 \/ n = 4
  BY SMTT(20), <1>3
<1> QED BY SMTT(20), <1>8, <1>9, <1>10, <1>11, <1>12

LEMMA EncodeGives ==
  ASSUME NEW c \in CodePoints
  PROVE  /\ UTF8EncodeCharacter(c) \in Seq(Nat) /\ Len(UTF8EncodeCharacter(c)) = SizeOf(c) /\ SizeOf(c) \in 1 .. 4
         /\ \A i \in 2 .. SizeOf(c) : Digit(UTF8EncodeCharacter(c)[i]) = UTF8EncodeCharacter(c)[i]
<1> DEFINE n == SizeOf(c)
           u == UTF8EncodeCharacter(c)
<1>1. c \in Nat /\ 0 < c
  BY SMTT(20) DEF CodePoints
<1>2. n \in 1 .. 4
  BY SMTT(20), <1>1 DEF SizeOf
<1>3. u = [i \in 1 .. n |-> IF i = 1 THEN Header[n] + ((c \div Place[n]) % Mask[n]) ELSE (c \div Place[n - i + 1]) % 64]
  BY DEF UTF8EncodeCharacter
<1> HIDE DEF n, u
<1>4. n = 1 \/ n = 2 \/ n = 3 \/ n = 4
  BY <1>2
<1>5. \A k \in 1 .. 4 : Place[k] \in Nat \ {0} /\ Mask[k] \in Nat \ {0} /\ Header[k] \in Nat
  <2>1. \A k \in 1 .. 4 : k = 1 \/ k = 2 \/ k = 3 \/ k = 4
    OBVIOUS
  <2> QED BY SMTT(20), <2>1, Tables
<1>6. Header[n] + ((c \div Place[n]) % Mask[n]) \in Nat
  <2>1. Place[n] \in Nat \ {0} /\ Mask[n] \in Nat \ {0} /\ Header[n] \in Nat
    BY <1>2, <1>5
  <2> DEFINE q == c \div Place[n]
  <2>2. q \in Nat
    BY <1>1, <2>1
  <2> HIDE DEF q
  <2>3. q % Mask[n] \in Nat
    BY <2>1, <2>2
  <2> QED BY <2>1, <2>3 DEF q
<1>7. ASSUME NEW i \in 2 .. n PROVE (c \div Place[n - i + 1]) % 64 \in Nat /\ Digit((c \div Place[n - i + 1]) % 64) = (c \div Place[n - i + 1]) % 64
  <2>1. n - i + 1 \in 1 .. 4
    BY <1>2
  <2>2. Place[n - i + 1] \in Nat \ {0}
    BY <1>5, <2>1
  <2> DEFINE q == c \div Place[n - i + 1]
  <2>3. q \in Nat
    BY <1>1, <2>2
  <2> HIDE DEF q
  <2>4. q % 64 \in Nat /\ (q % 64) % 64 = q % 64
    BY <2>3
  <2> QED BY <2>4 DEF q, Digit
<1>8. \A i \in 1 .. n : i = 1 \/ i \in 2 .. n
  BY <1>2
<1>9. \A i \in 1 .. n : u[i] \in Nat
  BY <1>3, <1>6, <1>7, <1>8
<1>10. \A i \in 2 .. n : i \in 1 .. n /\ i # 1
  BY <1>2
<1>11. \A i \in 2 .. n : Digit(u[i]) = u[i]
  BY <1>3, <1>7, <1>10
<1>12. u \in Seq(Nat) /\ Len(u) = n
  <2>1. u = [i \in 1 .. n |-> u[i]]
    BY <1>3
  <2> QED BY <1>2, <1>9, <2>1
<1> QED BY <1>2, <1>11, <1>12 DEF n, u

-----------------------------------------------------------------------------
(* What a buffer spells                                                    *)

LEMMA SizeAlways ==
  ASSUME NEW byte
  PROVE  SizeAt(byte) \in 1 .. 4
BY DEF SizeAt

\* Character i of s is in the bytes from v[i - 1] to v[i].
Chars(b, p, s, v) ==
  /\ b \in Seq(Nat) /\ s \in Seq(Nat) /\ p \in Nat
  /\ v \in [0 .. Len(s) -> Nat] /\ v[0] = p /\ v[Len(s)] <= Len(b)
  /\ \A i \in 1 .. Len(s) : /\ b[v[i - 1] + 1] # 0 /\ v[i] = v[i - 1] + SizeAt(b[v[i - 1] + 1])
                            /\ s[i] = Code(b, v[i - 1])

\* The bytes from p to q are the characters s.
At(b, p, s, q) == \E v : Chars(b, p, s, v) /\ v[Len(s)] = q

\* A zero comes after the last
Spelling(b, t, w) == Chars(b, 0, t, w) /\ w[Len(t)] < Len(b) /\ b[w[Len(t)] + 1] = 0

Readable(b) == \E t, w : Spelling(b, t, w)

\* ...which is the terminator.
Reads(b, t) == \E w : Spelling(b, t, w) /\ w[Len(t)] = Len(b) - 1

LEMMA CharsRise ==
  ASSUME NEW b, NEW p, NEW s, NEW v, Chars(b, p, s, v)
  PROVE  \A i, j \in 0 .. Len(s) : i <= j => v[i] + (j - i) <= v[j]
<1> DEFINE n == Len(s)
           N == {m \in Nat : \A k \in 0 .. n : k + m <= n => v[k] + m <= v[k + m]}
<1>1. n \in Nat /\ (\A k \in 0 .. n : v[k] \in Nat) /\ \A k \in 1 .. n : v[k - 1] + 1 <= v[k]
  <2>1. s \in Seq(Nat) /\ v \in [0 .. n -> Nat] /\ \A k \in 1 .. n : v[k] = v[k - 1] + SizeAt(b[v[k - 1] + 1])
    BY DEF Chars
  <2>2. n \in Nat
    BY <2>1
  <2> HIDE DEF n
  <2>3. ASSUME NEW k \in 1 .. n PROVE v[k - 1] + 1 <= v[k]
    <3>1. v[k - 1] \in Nat /\ SizeAt(b[v[k - 1] + 1]) \in 1 .. 4
      BY <2>1, <2>2, SizeAlways
    <3> QED BY <2>1, <3>1
  <2> QED BY <2>1, <2>2, <2>3
<1> HIDE DEF n
<1>2. 0 \in N
  BY <1>1
<1>3. ASSUME NEW m \in N PROVE m + 1 \in N
  <2> SUFFICES ASSUME NEW k \in 0 .. n, k + (m + 1) <= n PROVE v[k] + (m + 1) <= v[k + (m + 1)]
    OBVIOUS
  <2>1. v[k] + m <= v[k + m] /\ k + m \in 0 .. n
    BY <1>1
  <2>2. k + m + 1 \in 1 .. n /\ k + m + 1 - 1 = k + m /\ k + m + 1 = k + (m + 1)
    BY <1>1
  <2>3. v[k + m] + 1 <= v[k + (m + 1)]
    BY <1>1, <2>2
  <2> QED BY <1>1, <2>1, <2>2, <2>3
<1>4. Nat \subseteq N
  <2>1. N \subseteq Nat
    OBVIOUS
  <2> HIDE DEF N
  <2> QED BY <1>2, <1>3, <2>1, NatSetInduction
<1>5. ASSUME NEW i \in 0 .. n, NEW j \in 0 .. n, i <= j PROVE v[i] + (j - i) <= v[j]
  <2>1. j - i \in N /\ i + (j - i) = j /\ j <= n
    BY <1>1, <1>4, <1>5
  <2> QED BY <2>1
<1> QED BY <1>5 DEF n

LEMMA CharsFacts ==
  ASSUME NEW b, NEW p, NEW s, NEW v, Chars(b, p, s, v)
  PROVE  /\ b \in Seq(Nat) /\ s \in Seq(Nat) /\ Len(s) \in Nat /\ Len(b) \in Nat /\ p \in Nat /\ v[0] = p
         /\ \A i \in 0 .. Len(s) : v[i] \in Nat /\ p <= v[i] /\ v[i] <= v[Len(s)] /\ v[i] <= Len(b)
         /\ \A i \in 1 .. Len(s) : /\ i - 1 \in 0 .. Len(s) /\ i \in 0 .. Len(s) /\ s[i] \in Nat
                                   /\ v[i - 1] + 1 \in 1 .. Len(b) /\ b[v[i - 1] + 1] \in Nat /\ b[v[i - 1] + 1] # 0
                                   /\ SizeAt(b[v[i - 1] + 1]) \in 1 .. 4 /\ v[i] = v[i - 1] + SizeAt(b[v[i - 1] + 1])
                                   /\ s[i] = Code(b, v[i - 1])
<1> DEFINE n == Len(s)
<1>1. /\ b \in Seq(Nat) /\ s \in Seq(Nat) /\ p \in Nat /\ v \in [0 .. n -> Nat] /\ v[0] = p /\ v[n] <= Len(b)
      /\ \A i \in 1 .. n : b[v[i - 1] + 1] # 0 /\ v[i] = v[i - 1] + SizeAt(b[v[i - 1] + 1]) /\ s[i] = Code(b, v[i - 1])
  BY DEF Chars
<1>2. n \in Nat /\ Len(b) \in Nat /\ \A i \in 1 .. n : s[i] \in Nat
  BY <1>1
<1>3. \A i, j \in 0 .. n : i <= j => v[i] + (j - i) <= v[j]
  BY CharsRise
<1>4. \A i \in 1 .. Len(b) : b[i] \in Nat
  BY <1>1
<1> HIDE DEF n
<1>5. ASSUME NEW i \in 0 .. n PROVE v[i] \in Nat /\ p <= v[i] /\ v[i] <= v[n] /\ v[i] <= Len(b)
  <2>1. v[0] + (i - 0) <= v[i] /\ v[i] + (n - i) <= v[n] /\ v[i] \in Nat /\ v[n] \in Nat
    BY <1>1, <1>2, <1>3
  <2> QED BY <1>1, <1>2, <2>1
<1>6. ASSUME NEW i \in 1 .. n
      PROVE  /\ i - 1 \in 0 .. n /\ i \in 0 .. n
             /\ v[i - 1] + 1 \in 1 .. Len(b) /\ b[v[i - 1] + 1] \in Nat /\ SizeAt(b[v[i - 1] + 1]) \in 1 .. 4
  <2>1. i - 1 \in 0 .. n /\ i \in 0 .. n
    BY <1>2
  <2>2. SizeAt(b[v[i - 1] + 1]) \in 1 .. 4
    BY SizeAlways
  <2>3. v[i - 1] \in Nat /\ v[i] \in Nat /\ v[i] <= Len(b) /\ v[i] = v[i - 1] + SizeAt(b[v[i - 1] + 1])
    BY <1>1, <1>5, <2>1
  <2>4. v[i - 1] + 1 \in 1 .. Len(b)
    BY <1>2, <2>2, <2>3
  <2> QED BY <1>4, <2>1, <2>2, <2>4
<1> QED BY <1>1, <1>2, <1>5, <1>6 DEF n

LEMMA SpellingFacts ==
  ASSUME NEW b, NEW t, NEW w, Spelling(b, t, w)
  PROVE  /\ b \in Seq(Nat) /\ t \in Seq(Nat) /\ Len(t) \in Nat /\ Len(b) \in Nat /\ Len(b) >= 1
         /\ \A i \in 0 .. Len(t) : w[i] \in Nat /\ w[i] < Len(b) /\ w[i] + 1 \in 1 .. Len(b) /\ b[w[i] + 1] \in Nat
         /\ w[0] = 0 /\ b[w[Len(t)] + 1] = 0
         /\ \A i \in 1 .. Len(t) : i - 1 \in 0 .. Len(t) /\ i \in 0 .. Len(t) /\ b[w[i - 1] + 1] # 0 /\ t[i] \in Nat
                                   /\ SizeAt(b[w[i - 1] + 1]) \in 1 .. 4 /\ w[i] = w[i - 1] + SizeAt(b[w[i - 1] + 1])
                                   /\ t[i] = Code(b, w[i - 1])
<1>1. Chars(b, 0, t, w) /\ w[Len(t)] < Len(b) /\ b[w[Len(t)] + 1] = 0
  BY DEF Spelling
<1>2. b \in Seq(Nat) /\ Len(b) \in Nat /\ Len(t) \in Nat /\ \A i \in 0 .. Len(t) : w[i] \in Nat /\ w[i] <= w[Len(t)]
  BY <1>1, CharsFacts
<1>3. \A i \in 1 .. Len(b) : b[i] \in Nat
  BY <1>2
<1>4. ASSUME NEW i \in 0 .. Len(t) PROVE w[i] < Len(b) /\ w[i] + 1 \in 1 .. Len(b) /\ b[w[i] + 1] \in Nat
  <2>1. w[Len(t)] \in Nat
    BY <1>2
  <2>2. w[i] < Len(b) /\ w[i] + 1 \in 1 .. Len(b)
    BY <1>1, <1>2, <2>1
  <2> QED BY <1>3, <2>2
<1>5. Len(b) >= 1
  <2>1. w[Len(t)] \in Nat
    BY <1>2
  <2> QED BY <1>1, <1>2, <2>1
<1> QED BY <1>1, <1>2, <1>4, <1>5, CharsFacts

LEMMA Rises ==
  ASSUME NEW b, NEW t, NEW w, Spelling(b, t, w), NEW i \in 0 .. Len(t), NEW j \in 0 .. Len(t), i <= j
  PROVE  w[i] + (j - i) <= w[j]
BY CharsRise DEF Spelling

\* What UTF8GetStringOffset walks over
Walks(b, index, f) ==
  f = [n \in 0 .. index |->
        IF n = 0 THEN 0 ELSE IF b[f[n - 1] + 1] = 0 THEN f[n - 1] ELSE f[n - 1] + SizeAt(b[f[n - 1] + 1])]

AtMost(k, n) == IF k <= n THEN k ELSE n

LEMMA OffsetIs ==
  ASSUME NEW b, NEW t, NEW w, Spelling(b, t, w), NEW k \in Nat
  PROVE  UTF8GetStringOffset(b, k) = w[AtMost(k, Len(t))]
<1> DEFINE n == Len(t)
           g == [m \in 0 .. k |-> w[AtMost(m, n)]]
           f == CHOOSE h : Walks(b, k, h)
<1>1. UTF8GetStringOffset(b, k) = f[k]
  BY Zenon DEF UTF8GetStringOffset, Walks
<1>2. /\ n \in Nat /\ w[0] = 0 /\ b[w[n] + 1] = 0
      /\ \A i \in 1 .. n : b[w[i - 1] + 1] # 0 /\ w[i] = w[i - 1] + SizeAt(b[w[i - 1] + 1])
  BY SpellingFacts
<1> HIDE DEF n
<1>3. ASSUME NEW m \in 1 .. k, NEW here, here = w[AtMost(m - 1, n)]
      PROVE  w[AtMost(m, n)] = IF b[here + 1] = 0 THEN here ELSE here + SizeAt(b[here + 1])
  <2>1. CASE m <= n
    <3>1. m \in 1 .. n /\ AtMost(m, n) = m /\ AtMost(m - 1, n) = m - 1
      BY <1>2, <2>1 DEF AtMost
    <3> QED BY <1>2, <1>3, <3>1
  <2>2. CASE ~(m <= n)
    <3>1. AtMost(m, n) = n /\ AtMost(m - 1, n) = n
      BY <1>2, <2>2 DEF AtMost
    <3> QED BY <1>2, <1>3, <3>1
  <2> QED BY <2>1, <2>2
<1>4. AtMost(0, n) = 0
  BY <1>2 DEF AtMost
<1>5. ASSUME NEW m \in 0 .. k
      PROVE  g[m] = IF m = 0 THEN 0 ELSE IF b[g[m - 1] + 1] = 0 THEN g[m - 1] ELSE g[m - 1] + SizeAt(b[g[m - 1] + 1])
  <2>1. CASE m = 0
    BY <1>2, <1>4, <2>1
  <2>2. CASE m # 0
    <3>1. m \in 1 .. k /\ m - 1 \in 0 .. k
      BY <2>2
    <3>2. g[m - 1] = w[AtMost(m - 1, n)] /\ g[m] = w[AtMost(m, n)]
      BY <3>1
    <3> HIDE DEF g
    <3> QED BY <1>3, <2>2, <3>1, <3>2
  <2> QED BY <2>1, <2>2
<1>6. g = [m \in 0 .. k |-> g[m]]
  OBVIOUS
<1>7. \A m \in 0 .. k : g[m] = w[AtMost(m, n)]
  OBVIOUS
<1> HIDE DEF g
<1>8. Walks(b, k, g)
  BY <1>5, <1>6 DEF Walks
<1>9. Walks(b, k, f)
  BY <1>8, Zenon
<1> HIDE DEF f
<1> DEFINE N == {m \in Nat : m <= k => f[m] = w[AtMost(m, n)]}
<1>10. ASSUME NEW m \in 0 .. k
       PROVE  f[m] = IF m = 0 THEN 0 ELSE IF b[f[m - 1] + 1] = 0 THEN f[m - 1] ELSE f[m - 1] + SizeAt(b[f[m - 1] + 1])
  BY <1>9 DEF Walks
<1>11. 0 \in N
  <2>1. 0 \in 0 .. k
    OBVIOUS
  <2> QED BY <1>2, <1>4, <1>10, <2>1
<1>12. ASSUME NEW m \in N PROVE m + 1 \in N
  <2> SUFFICES ASSUME m + 1 <= k PROVE f[m + 1] = w[AtMost(m + 1, n)]
    OBVIOUS
  <2>1. m + 1 \in 0 .. k /\ m + 1 \in 1 .. k /\ m + 1 # 0 /\ (m + 1) - 1 = m /\ m <= k
    OBVIOUS
  <2>2. f[m + 1] = IF b[f[m] + 1] = 0 THEN f[m] ELSE f[m] + SizeAt(b[f[m] + 1])
    BY <1>10, <2>1
  <2>3. f[m] = w[AtMost(m, n)]
    BY <2>1
  <2> QED BY <1>3, <2>1, <2>2, <2>3
<1>13. Nat \subseteq N
  <2>1. N \subseteq Nat
    OBVIOUS
  <2> HIDE DEF N
  <2> QED BY <1>11, <1>12, <2>1, NatSetInduction
<1>14. f[k] = w[AtMost(k, n)]
  BY <1>13
<1> QED BY <1>1, <1>14 DEF n

LEMMA OffsetWithin ==
  ASSUME NEW b, NEW t, NEW w, Spelling(b, t, w), NEW k \in 0 .. Len(t)
  PROVE  UTF8GetStringOffset(b, k) = w[k]
<1>1. Len(t) \in Nat
  BY SpellingFacts
<1> QED BY <1>1, OffsetIs DEF AtMost

\* GetLength() counts the characters, GetCharacter() finds them.
LEMMA LengthIs ==
  ASSUME NEW b, NEW t, NEW w, Spelling(b, t, w)
  PROVE  UTF8GetStringLength(b) = Len(t)
<1> DEFINE n == Len(t)
           S == {m \in 0 .. Len(b) : b[UTF8GetStringOffset(b, m) + 1] = 0}
<1>1. n \in Nat /\ Len(b) \in Nat /\ b[w[n] + 1] = 0 /\ \A i \in 0 .. n : w[i] \in Nat /\ w[i] < Len(b)
  BY SpellingFacts
<1>2. 0 + (n - 0) <= w[n]
  <2>1. 0 \in 0 .. n /\ n \in 0 .. n /\ 0 <= n /\ w[0] = 0
    BY <1>1, SpellingFacts
  <2> QED BY <2>1, Rises
<1>3. n \in 0 .. Len(b) /\ n \in 0 .. n
  BY <1>1, <1>2
<1>4. n \in S
  <2>1. UTF8GetStringOffset(b, n) = w[n]
    BY <1>3, OffsetWithin
  <2> QED BY <1>1, <1>3, <2>1
<1>5. ASSUME NEW m \in S PROVE n <= m
  <2> SUFFICES ASSUME m < n PROVE FALSE
    BY <1>1
  <2>1. m \in Nat /\ m \in 0 .. n /\ m + 1 \in 1 .. n /\ (m + 1) - 1 = m
    BY <1>1
  <2>2. b[w[(m + 1) - 1] + 1] # 0
    BY <2>1, SpellingFacts
  <2>3. UTF8GetStringOffset(b, m) = w[m]
    BY <2>1, OffsetWithin
  <2> QED BY <2>1, <2>2, <2>3
<1>6. S \subseteq Nat
  OBVIOUS
<1>7. UTF8GetStringLength(b) = Min(S)
  BY DEF UTF8GetStringLength
<1> HIDE DEF S
<1>8. Min(S) \in S /\ \A y \in S : Min(S) <= y
  BY <1>4, <1>6, LeastOf
<1> HIDE DEF n
<1>9. Min(S) = n
  <2>1. Min(S) \in Nat /\ n <= Min(S) /\ Min(S) <= n
    BY <1>4, <1>5, <1>6, <1>8
  <2> QED BY <1>1, <2>1
<1> QED BY <1>7, <1>9 DEF n

LEMMA DecodeGives ==
  ASSUME NEW b, NEW t, NEW w, Spelling(b, t, w)
  PROVE  Decode(b) = t
<1>1. /\ t \in Seq(Nat) /\ Len(t) \in Nat /\ b \in Seq(Nat) /\ Len(b) \in Nat
      /\ \A i \in 0 .. Len(t) : w[i] \in Nat /\ w[i] < Len(b) /\ w[i] + 1 \in 1 .. Len(b)
  BY SpellingFacts
<1>2. ASSUME NEW i \in 1 .. Len(t) PROVE UTF8DecodeCharacter(b, UTF8GetStringOffset(b, i - 1)) = t[i]
  <2>1. i - 1 \in 0 .. Len(t) /\ i \in 0 .. Len(t) /\ w[i] = w[i - 1] + SizeAt(b[w[i - 1] + 1]) /\ t[i] = Code(b, w[i - 1])
    BY SpellingFacts
  <2>2. UTF8GetStringOffset(b, i - 1) = w[i - 1]
    BY <2>1, OffsetWithin
  <2>3. w[i - 1] + 1 \in DOMAIN b /\ w[i - 1] \in Nat /\ w[i - 1] + SizeAt(b[w[i - 1] + 1]) <= Len(b)
    <3>1. w[i - 1] + 1 \in 1 .. Len(b) /\ w[i - 1] \in Nat /\ w[i] \in Nat /\ w[i] < Len(b)
      BY <1>1, <2>1
    <3>2. DOMAIN b = 1 .. Len(b) /\ w[i] <= Len(b)
      BY <1>1, <3>1
    <3> QED BY <2>1, <3>1, <3>2
  <2> QED BY <1>1, <2>1, <2>2, <2>3, DecodeIs
<1>3. Decode(b) = [i \in 1 .. Len(t) |-> UTF8DecodeCharacter(b, UTF8GetStringOffset(b, i - 1))]
  BY LengthIs DEF Decode
<1>4. t = [i \in 1 .. Len(t) |-> t[i]]
  BY <1>1
<1> QED BY <1>2, <1>3, <1>4

-----------------------------------------------------------------------------
(* Characters that are joined, parted and moved                            *)

LEMMA AtFacts ==
  ASSUME NEW b, NEW p, NEW s, NEW q, At(b, p, s, q)
  PROVE  /\ b \in Seq(Nat) /\ s \in Seq(Nat) /\ Len(s) \in Nat /\ Len(b) \in Nat
         /\ p \in Nat /\ q \in Nat /\ p <= q /\ q <= Len(b)
<1>1. PICK v : Chars(b, p, s, v) /\ v[Len(s)] = q
  BY DEF At
<1>2. Len(s) \in 0 .. Len(s) /\ b \in Seq(Nat) /\ s \in Seq(Nat) /\ Len(s) \in Nat /\ Len(b) \in Nat /\ p \in Nat
  BY <1>1, CharsFacts
<1> QED BY <1>1, <1>2, CharsFacts

LEMMA AtNone ==
  ASSUME NEW b \in Seq(Nat), NEW p \in Nat, p <= Len(b)
  PROVE  At(b, p, << >>, p)
<1> DEFINE v == [i \in 0 .. 0 |-> p]
           s == << >>
<1>1. s \in Seq(Nat) /\ Len(s) = 0
  OBVIOUS
<1>2. v \in [0 .. Len(s) -> Nat] /\ v[0] = p
  BY <1>1
<1> HIDE DEF v, s
<1>3. Chars(b, p, s, v)
  BY <1>1, <1>2 DEF Chars
<1>4. At(b, p, s, p)
  BY <1>1, <1>2, <1>3 DEF At
<1> QED BY <1>4 DEF s

LEMMA AtOne ==
  ASSUME NEW b \in Seq(Nat), NEW p \in Nat, NEW q \in Nat, p + 1 <= Len(b), q <= Len(b), b[p + 1] # 0,
         q = p + SizeAt(b[p + 1])
  PROVE  At(b, p, <<Code(b, p)>>, q)
<1> DEFINE v == [i \in 0 .. 1 |-> IF i = 0 THEN p ELSE q]
           s == <<Code(b, p)>>
<1>1. p + 1 \in DOMAIN b /\ p + SizeAt(b[p + 1]) <= Len(b)
  OBVIOUS
<1>2. Code(b, p) \in Nat
  BY <1>1, DecodeIs
<1>3. s \in Seq(Nat) /\ Len(s) = 1 /\ s[1] = Code(b, p)
  BY <1>2
<1>4. v \in [0 .. Len(s) -> Nat] /\ v[0] = p /\ v[1] = q
  BY <1>3
<1> HIDE DEF v, s
<1>5. \A i \in 1 .. Len(s) : b[v[i - 1] + 1] # 0 /\ v[i] = v[i - 1] + SizeAt(b[v[i - 1] + 1]) /\ s[i] = Code(b, v[i - 1])
  <2>1. \A i \in 1 .. Len(s) : i = 1 /\ i - 1 = 0
    BY <1>3
  <2> QED BY <1>3, <1>4, <2>1
<1>6. Chars(b, p, s, v) /\ v[Len(s)] = q
  BY <1>3, <1>4, <1>5 DEF Chars
<1>7. At(b, p, s, q)
  BY <1>6 DEF At
<1> QED BY <1>7 DEF s

LEMMA AtMoved ==
  ASSUME NEW b, NEW p, NEW s, NEW q, At(b, p, s, q),
         NEW c \in Seq(Nat), NEW o \in Nat, o + (q - p) <= Len(c), \A k \in 1 .. q - p : c[o + k] = b[p + k]
  PROVE  At(c, o, s, o + (q - p))
<1>1. PICK v : Chars(b, p, s, v) /\ v[Len(s)] = q
  BY DEF At
<1>2. /\ b \in Seq(Nat) /\ s \in Seq(Nat) /\ Len(s) \in Nat /\ Len(b) \in Nat /\ p \in Nat /\ v[0] = p
      /\ \A i \in 0 .. Len(s) : v[i] \in Nat /\ p <= v[i] /\ v[i] <= q /\ v[i] <= Len(b)
  BY <1>1, CharsFacts
<1> DEFINE n == Len(s)
           u == [i \in 0 .. n |-> o + (v[i] - p)]
<1>3. \A i \in 0 .. n : u[i] = o + (v[i] - p)
  OBVIOUS
<1>4. u \in [0 .. n -> Nat]
  <2>1. \A i \in 0 .. n : o + (v[i] - p) \in Nat
    BY <1>2
  <2> QED BY <2>1
<1>5. q \in Nat /\ p <= q
  BY <1>1, <1>2
<1> HIDE DEF u
<1>6. u[0] = o /\ u[n] = o + (q - p)
  <2>1. 0 \in 0 .. n /\ n \in 0 .. n /\ v[n] = q
    BY <1>1, <1>2
  <2>2. u[0] = o + (v[0] - p) /\ u[n] = o + (v[n] - p)
    BY <1>3, <2>1
  <2> QED BY <1>2, <2>1, <2>2
<1>7. ASSUME NEW i \in 1 .. n
      PROVE  c[u[i - 1] + 1] # 0 /\ u[i] = u[i - 1] + SizeAt(c[u[i - 1] + 1]) /\ s[i] = Code(c, u[i - 1])
  <2>1. /\ i - 1 \in 0 .. n /\ i \in 0 .. n
        /\ v[i - 1] + 1 \in 1 .. Len(b) /\ b[v[i - 1] + 1] # 0
        /\ SizeAt(b[v[i - 1] + 1]) \in 1 .. 4 /\ v[i] = v[i - 1] + SizeAt(b[v[i - 1] + 1])
        /\ s[i] = Code(b, v[i - 1])
    BY <1>1, CharsFacts
  <2> DEFINE a == v[i - 1]
             e == u[i - 1]
             m == SizeAt(b[a + 1])
  <2>2. a \in Nat /\ e \in Nat /\ e = o + (a - p) /\ p <= a /\ m \in 1 .. 4 /\ a + m = v[i] /\ v[i] <= q /\ u[i] = o + (v[i] - p)
    BY <1>2, <1>3, <1>4, <2>1
  <2>3. a + 1 \in DOMAIN b
    BY <1>2, <2>1
  <2> HIDE DEF a, e, m
  <2>4. ASSUME NEW k \in 1 .. m PROVE c[e + k] = b[a + k]
    <3>1. (a - p) + k \in 1 .. q - p /\ o + ((a - p) + k) = e + k /\ p + ((a - p) + k) = a + k
      BY <1>2, <1>5, <2>2
    <3> QED BY <3>1
  <2>5. c[e + 1] = b[a + 1] /\ SizeAt(c[e + 1]) = m /\ Code(c, e) = Code(b, a)
    <3>1. b \in Seq(Nat) /\ a \in Nat /\ e \in Nat
      BY <1>2, <2>2
    <3>2. \A k \in 1 .. SizeAt(b[a + 1]) : c[e + k] = b[a + k]
      BY <2>4 DEF m
    <3> QED BY <2>3, <3>1, <3>2, SameCode DEF m
  <2>6. b[a + 1] # 0 /\ s[i] = Code(b, a)
    BY <2>1 DEF a
  <2>7. u[i] = e + m
    BY <1>2, <2>2
  <2> QED BY <2>5, <2>6, <2>7 DEF e, m
<1>8. Chars(c, o, s, u)
  BY <1>2, <1>4, <1>6, <1>7 DEF Chars
<1> QED BY <1>6, <1>8 DEF At

LEMMA AtJoin ==
  ASSUME NEW b, NEW p, NEW s, NEW q, NEW t, NEW r, At(b, p, s, q), At(b, q, t, r)
  PROVE  At(b, p, s \o t, r)
<1>1. PICK v : Chars(b, p, s, v) /\ v[Len(s)] = q
  BY DEF At
<1>2. PICK w : Chars(b, q, t, w) /\ w[Len(t)] = r
  BY DEF At
<1> DEFINE m == Len(s)
           n == Len(t)
           c == s \o t
           u == [i \in 0 .. m + n |-> IF i <= m THEN v[i] ELSE w[i - m]]
<1>3. /\ b \in Seq(Nat) /\ s \in Seq(Nat) /\ m \in Nat /\ Len(b) \in Nat /\ p \in Nat /\ v[0] = p
      /\ \A i \in 0 .. m : v[i] \in Nat
      /\ \A i \in 1 .. m : i - 1 \in 0 .. m /\ b[v[i - 1] + 1] # 0 /\ v[i] = v[i - 1] + SizeAt(b[v[i - 1] + 1]) /\ s[i] = Code(b, v[i - 1])
  BY <1>1, CharsFacts
<1>4. /\ t \in Seq(Nat) /\ n \in Nat /\ w[0] = q /\ \A i \in 0 .. n : w[i] \in Nat /\ w[i] <= Len(b)
      /\ \A i \in 1 .. n : i - 1 \in 0 .. n /\ b[w[i - 1] + 1] # 0 /\ w[i] = w[i - 1] + SizeAt(b[w[i - 1] + 1]) /\ t[i] = Code(b, w[i - 1])
  BY <1>2, CharsFacts
<1>5. /\ c \in Seq(Nat) /\ Len(c) = m + n /\ \A i \in 1 .. m : c[i] = s[i]
      /\ \A i \in 1 .. m + n : i \notin 1 .. m => i - m \in 1 .. n /\ c[i] = t[i - m]
  BY <1>3, <1>4, ConcatGives
<1>6. \A i \in 0 .. m + n : u[i] = IF i <= m THEN v[i] ELSE w[i - m]
  OBVIOUS
<1>7. u \in [0 .. m + n -> Nat]
  <2>1. \A i \in 0 .. m + n : (i <= m => i \in 0 .. m) /\ (~(i <= m) => i - m \in 0 .. n)
    BY <1>3, <1>4
  <2>2. \A i \in 0 .. m + n : (IF i <= m THEN v[i] ELSE w[i - m]) \in Nat
    BY <1>3, <1>4, <2>1
  <2> QED BY <2>2
<1> HIDE DEF u, c, m, n
<1>8. \A i \in 0 .. n : u[m + i] = w[i]
  <2> SUFFICES ASSUME NEW i \in 0 .. n PROVE u[m + i] = w[i]
    OBVIOUS
  <2>1. CASE i = 0
    <3>1. m + i = m /\ m \in 0 .. m + n /\ m <= m
      BY <1>3, <1>4, <2>1
    <3>2. v[m] = q
      BY <1>1 DEF m
    <3> QED BY <1>4, <1>6, <2>1, <3>1, <3>2
  <2>2. CASE i # 0
    <3>1. m + i \in 0 .. m + n /\ ~(m + i <= m) /\ (m + i) - m = i
      BY <1>3, <1>4, <2>2
    <3> QED BY <1>6, <3>1
  <2> QED BY <2>1, <2>2
<1>9. \A i \in 0 .. m : u[i] = v[i]
  <2>1. \A i \in 0 .. m : i \in 0 .. m + n /\ i <= m
    BY <1>3, <1>4
  <2> QED BY <1>6, <2>1
<1>10. u[0] = p /\ u[m + n] = r
  <2>1. 0 \in 0 .. m /\ n \in 0 .. n
    BY <1>3, <1>4
  <2>2. w[n] = r
    BY <1>2 DEF n
  <2> QED BY <1>3, <1>8, <1>9, <2>1, <2>2
<1>11. ASSUME NEW i \in 1 .. m + n
       PROVE  b[u[i - 1] + 1] # 0 /\ u[i] = u[i - 1] + SizeAt(b[u[i - 1] + 1]) /\ c[i] = Code(b, u[i - 1])
  <2>1. CASE i \in 1 .. m
    <3>1. i \in 0 .. m /\ i - 1 \in 0 .. m
      BY <1>3, <2>1
    <3>2. u[i] = v[i] /\ u[i - 1] = v[i - 1]
      BY <1>9, <3>1
    <3> QED BY <1>3, <1>5, <2>1, <3>2
  <2>2. CASE i \notin 1 .. m
    <3> DEFINE j == i - m
    <3>1. j \in 1 .. n /\ c[i] = t[j]
      BY <1>5, <2>2
    <3>2. j \in 0 .. n /\ j - 1 \in 0 .. n /\ m + j = i /\ m + (j - 1) = i - 1
      BY <1>3, <1>4, <3>1
    <3> HIDE DEF j
    <3>3. u[i] = w[j] /\ u[i - 1] = w[j - 1]
      BY <1>8, <3>2
    <3> QED BY <1>4, <3>1, <3>3
  <2> QED BY <2>1, <2>2
<1>12. r <= Len(b)
  <2>1. n \in 0 .. n /\ w[n] = r
    BY <1>2, <1>4 DEF n
  <2> QED BY <1>4, <2>1
<1>13. Chars(b, p, c, u)
  BY <1>3, <1>5, <1>7, <1>10, <1>11, <1>12 DEF Chars
<1>14. At(b, p, c, r)
  BY <1>5, <1>10, <1>13 DEF At
<1> QED BY <1>14 DEF c

LEMMA RestGives ==
  ASSUME NEW S, NEW s \in Seq(S), NEW k \in 0 .. Len(s)
  PROVE  /\ SubSeq(s, 1, k) \in Seq(S) /\ Len(SubSeq(s, 1, k)) = k /\ \A i \in 1 .. k : SubSeq(s, 1, k)[i] = s[i]
         /\ SubSeq(s, k + 1, Len(s)) \in Seq(S) /\ Len(SubSeq(s, k + 1, Len(s))) = Len(s) - k
         /\ \A i \in 1 .. Len(s) - k : SubSeq(s, k + 1, Len(s))[i] = s[k + i]
<1> DEFINE n == Len(s)
           f == SubSeq(s, k + 1, n)
<1>1. n \in Nat
  OBVIOUS
<1>2. SubSeq(s, 1, k) \in Seq(S) /\ Len(SubSeq(s, 1, k)) = k /\ \A i \in 1 .. k : SubSeq(s, 1, k)[i] = s[i]
  OBVIOUS
<1>3. f \in Seq(S)
  OBVIOUS
<1>4. f = [i \in 1 .. n - k |-> s[k + i]]
  <2>1. f = [i \in 1 .. (n - (k + 1) + 1) |-> s[i + (k + 1) - 1]]
    BY DEF SubSeq
  <2>2. n - (k + 1) + 1 = n - k /\ \A i \in 1 .. n - k : i + (k + 1) - 1 = k + i
    BY <1>1
  <2> HIDE DEF f, n
  <2>3. \A i \in 1 .. n - k : f[i] = s[k + i]
    BY <2>1, <2>2
  <2> QED BY <2>1, <2>2, <2>3
<1> HIDE DEF f
<1>5. Len(f) = n - k
  BY <1>1, <1>4
<1> QED BY <1>2, <1>3, <1>4, <1>5 DEF f

LEMMA AtParts ==
  ASSUME NEW b, NEW p, NEW s, NEW v, Chars(b, p, s, v), NEW k \in 0 .. Len(s)
  PROVE  /\ At(b, p, SubSeq(s, 1, k), v[k]) /\ At(b, v[k], SubSeq(s, k + 1, Len(s)), v[Len(s)])
<1> DEFINE n == Len(s)
<1>1. /\ b \in Seq(Nat) /\ s \in Seq(Nat) /\ n \in Nat /\ Len(b) \in Nat /\ p \in Nat /\ v[0] = p
      /\ \A i \in 0 .. n : v[i] \in Nat /\ v[i] <= Len(b)
      /\ \A i \in 1 .. n : i - 1 \in 0 .. n /\ b[v[i - 1] + 1] # 0 /\ v[i] = v[i - 1] + SizeAt(b[v[i - 1] + 1]) /\ s[i] = Code(b, v[i - 1])
  BY CharsFacts
<1>2. At(b, p, SubSeq(s, 1, k), v[k])
  <2> DEFINE f == SubSeq(s, 1, k)
             u == [i \in 0 .. k |-> v[i]]
  <2>1. f \in Seq(Nat) /\ Len(f) = k /\ \A i \in 1 .. k : f[i] = s[i]
    BY <1>1
  <2>2. \A i \in 0 .. k : i \in 0 .. n
    BY <1>1
  <2>3. u \in [0 .. k -> Nat] /\ \A i \in 0 .. k : u[i] = v[i]
    BY <1>1, <2>2
  <2> HIDE DEF f, u, n
  <2>4. 0 \in 0 .. k /\ k \in 0 .. k
    BY <1>1, <2>1
  <2>5. \A i \in 1 .. k : i \in 0 .. k /\ i - 1 \in 0 .. k /\ i \in 1 .. n
    BY <1>1, <2>2 DEF n
  <2>6. \A i \in 1 .. k : b[u[i - 1] + 1] # 0 /\ u[i] = u[i - 1] + SizeAt(b[u[i - 1] + 1]) /\ f[i] = Code(b, u[i - 1])
    BY <1>1, <2>1, <2>3, <2>5
  <2>7. Chars(b, p, f, u) /\ u[Len(f)] = v[k]
    BY <1>1, <2>1, <2>2, <2>3, <2>4, <2>6 DEF Chars
  <2> QED BY <2>7 DEF At, f
<1>3. At(b, v[k], SubSeq(s, k + 1, n), v[n])
  <2> DEFINE f == SubSeq(s, k + 1, n)
             m == n - k
             u == [i \in 0 .. m |-> v[k + i]]
  <2>1. f \in Seq(Nat) /\ Len(f) = m /\ \A i \in 1 .. m : f[i] = s[k + i]
    BY <1>1, RestGives
  <2>2. \A i \in 0 .. m : k + i \in 0 .. n
    BY <1>1
  <2>3. u \in [0 .. m -> Nat] /\ \A i \in 0 .. m : u[i] = v[k + i]
    BY <1>1, <2>2
  <2>4. m \in Nat /\ k + m = n /\ k \in Nat /\ k + 0 = k /\ n \in 0 .. n
    BY <1>1
  <2> HIDE DEF f, u, n, m
  <2>5. 0 \in 0 .. m /\ m \in 0 .. m
    BY <2>4
  <2>6. \A i \in 1 .. m : i \in 0 .. m /\ i - 1 \in 0 .. m /\ k + i \in 1 .. n /\ (k + i) - 1 = k + (i - 1)
    BY <1>1, <2>4
  <2>7. ASSUME NEW i \in 1 .. m
        PROVE  b[u[i - 1] + 1] # 0 /\ u[i] = u[i - 1] + SizeAt(b[u[i - 1] + 1]) /\ f[i] = Code(b, u[i - 1])
    <3> DEFINE j == k + i
    <3>1. j \in 1 .. n /\ u[i] = v[j] /\ u[i - 1] = v[j - 1] /\ f[i] = s[j]
      BY <2>1, <2>3, <2>6
    <3> HIDE DEF j
    <3>2. b[v[j - 1] + 1] # 0 /\ v[j] = v[j - 1] + SizeAt(b[v[j - 1] + 1]) /\ s[j] = Code(b, v[j - 1])
      BY <1>1, <3>1 DEF n
    <3> QED BY <3>1, <3>2
  <2>8. Chars(b, v[k], f, u) /\ u[Len(f)] = v[n]
    BY <1>1, <2>1, <2>2, <2>3, <2>4, <2>5, <2>7 DEF Chars, n
  <2> QED BY <2>8 DEF At, f
<1> QED BY <1>2, <1>3

LEMMA ReadsIs ==
  ASSUME NEW b, NEW t
  PROVE  Reads(b, t) <=> At(b, 0, t, Len(b) - 1) /\ Len(b) - 1 < Len(b) /\ b[Len(b) - 1 + 1] = 0
<1>1. ASSUME Reads(b, t) PROVE At(b, 0, t, Len(b) - 1) /\ Len(b) - 1 < Len(b) /\ b[Len(b) - 1 + 1] = 0
  <2>1. PICK w : Spelling(b, t, w) /\ w[Len(t)] = Len(b) - 1
    BY <1>1 DEF Reads
  <2> QED BY <2>1 DEF Spelling, At
<1>2. ASSUME At(b, 0, t, Len(b) - 1), Len(b) - 1 < Len(b), b[Len(b) - 1 + 1] = 0 PROVE Reads(b, t)
  <2>1. PICK w : Chars(b, 0, t, w) /\ w[Len(t)] = Len(b) - 1
    BY <1>2 DEF At
  <2> QED BY <1>2, <2>1 DEF Spelling, Reads
<1> QED BY <1>1, <1>2

LEMMA ReadableIs ==
  ASSUME NEW b
  PROVE  Readable(b) <=> \E t, q : At(b, 0, t, q) /\ q < Len(b) /\ b[q + 1] = 0
<1>1. ASSUME Readable(b) PROVE \E t, q : At(b, 0, t, q) /\ q < Len(b) /\ b[q + 1] = 0
  <2>1. PICK t, w : Spelling(b, t, w)
    BY <1>1 DEF Readable
  <2>2. At(b, 0, t, w[Len(t)]) /\ w[Len(t)] < Len(b) /\ b[w[Len(t)] + 1] = 0
    BY <2>1 DEF Spelling, At
  <2> QED BY <2>2
<1>2. ASSUME NEW t, NEW q, At(b, 0, t, q), q < Len(b), b[q + 1] = 0 PROVE Readable(b)
  <2>1. PICK w : Chars(b, 0, t, w) /\ w[Len(t)] = q
    BY <1>2 DEF At
  <2> QED BY <1>2, <2>1 DEF Spelling, Readable
<1> QED BY <1>1, <1>2

LEMMA ReadsReadable ==
  ASSUME NEW b, NEW t, Reads(b, t)
  PROVE  Readable(b)
BY DEF Reads, Readable

LEMMA ReadsFacts ==
  ASSUME NEW b, NEW t, Reads(b, t)
  PROVE  /\ b \in Seq(Nat) /\ t \in Seq(Nat) /\ Len(t) \in Nat /\ Len(b) \in Nat /\ Len(b) >= 1 /\ b[Len(b)] = 0
         /\ At(b, 0, t, Len(b) - 1)
<1>1. At(b, 0, t, Len(b) - 1) /\ b[Len(b) - 1 + 1] = 0
  BY ReadsIs
<1>2. b \in Seq(Nat) /\ t \in Seq(Nat) /\ Len(t) \in Nat /\ Len(b) \in Nat /\ Len(b) - 1 \in Nat
  BY <1>1, AtFacts
<1>3. Len(b) - 1 + 1 = Len(b) /\ Len(b) >= 1
  BY <1>2
<1> QED BY <1>1, <1>2, <1>3

LEMMA AtLeft ==
  ASSUME NEW b, NEW p, NEW s, NEW q, At(b, p, s, q), NEW c \in Seq(Nat)
  PROVE  At(b \o c, p, s, q)
<1>1. b \in Seq(Nat) /\ Len(b) \in Nat /\ p \in Nat /\ q \in Nat /\ p <= q /\ q <= Len(b)
  BY AtFacts
<1> DEFINE d == b \o c
<1>2. d \in Seq(Nat) /\ Len(d) = Len(b) + Len(c) /\ Len(c) \in Nat /\ \A i \in 1 .. Len(b) : d[i] = b[i]
  BY <1>1, ConcatGives
<1> HIDE DEF d
<1>3. \A k \in 1 .. q - p : p + k \in 1 .. Len(b)
  BY <1>1
<1>4. \A k \in 1 .. q - p : d[p + k] = b[p + k]
  BY <1>2, <1>3
<1>5. p + (q - p) = q /\ q <= Len(d)
  BY <1>1, <1>2
<1>6. At(d, p, s, p + (q - p))
  BY <1>1, <1>2, <1>4, <1>5, AtMoved
<1> QED BY <1>5, <1>6 DEF d

LEMMA AtRight ==
  ASSUME NEW b, NEW p, NEW s, NEW q, At(b, p, s, q), NEW c \in Seq(Nat)
  PROVE  At(c \o b, Len(c) + p, s, Len(c) + q)
<1>1. b \in Seq(Nat) /\ Len(b) \in Nat /\ p \in Nat /\ q \in Nat /\ p <= q /\ q <= Len(b) /\ Len(c) \in Nat
  BY AtFacts
<1> DEFINE d == c \o b
           o == Len(c) + p
<1>2. d \in Seq(Nat) /\ Len(d) = Len(c) + Len(b) /\ \A i \in 1 .. Len(b) : d[Len(c) + i] = b[i]
  BY <1>1, ConcatGives
<1> HIDE DEF d
<1>3. \A k \in 1 .. q - p : p + k \in 1 .. Len(b) /\ o + k = Len(c) + (p + k)
  BY <1>1
<1>4. \A k \in 1 .. q - p : d[o + k] = b[p + k]
  BY <1>2, <1>3
<1>5. o + (q - p) = Len(c) + q /\ o + (q - p) <= Len(d) /\ o \in Nat
  BY <1>1, <1>2
<1> HIDE DEF o
<1>6. At(d, o, s, o + (q - p))
  BY <1>2, <1>4, <1>5, AtMoved
<1> QED BY <1>5, <1>6 DEF d, o

LEMMA ReadsEnded ==
  ASSUME NEW b, NEW t, At(b, 0, t, Len(b))
  PROVE  Reads(b \o <<0>>, t)
<1> DEFINE c == b \o <<0>>
           n == Len(b)
<1>1. b \in Seq(Nat) /\ n \in Nat /\ <<0>> \in Seq(Nat) /\ Len(<<0>>) = 1
  BY AtFacts
<1>2. At(c, 0, t, n)
  BY <1>1, AtLeft
<1>3. Len(c) = n + 1 /\ c[n + 1] = 0
  BY <1>1
<1> HIDE DEF c
<1>4. Len(c) - 1 = n /\ Len(c) - 1 < Len(c) /\ c[Len(c) - 1 + 1] = 0
  BY <1>1, <1>3
<1>5. Reads(c, t)
  BY <1>2, <1>4, ReadsIs
<1> QED BY <1>5 DEF c

\* The bytes that UTF8EncodeCharacter writes, or those of a literal
LEMMA AtCharacter ==
  ASSUME NEW c \in CodePoints, NEW m \in Seq(Nat), Len(m) = SizeOf(c),
         m[1] = UTF8EncodeCharacter(c)[1],
         \A i \in 2 .. Len(m) : Digit(m[i]) = UTF8EncodeCharacter(c)[i]
  PROVE  At(m, 0, <<c>>, Len(m))
<1>1. m[1] # 0 /\ SizeAt(m[1]) = Len(m) /\ Code(m, 0) = c
  BY EncodeIs
<1>2. SizeOf(c) \in 1 .. 4
  BY EncodeGives
<1>3. 0 + 1 = 1 /\ 0 + 1 <= Len(m) /\ Len(m) \in Nat /\ Len(m) = 0 + SizeAt(m[0 + 1]) /\ m[0 + 1] # 0
  BY <1>1, <1>2
<1>4. At(m, 0, <<Code(m, 0)>>, Len(m))
  BY <1>3, AtOne
<1> QED BY <1>1, <1>4

LEMMA AtEncoded ==
  ASSUME NEW c \in CodePoints
  PROVE  At(UTF8EncodeCharacter(c), 0, <<c>>, Len(UTF8EncodeCharacter(c)))
BY EncodeGives, AtCharacter

LEMMA FlattenIs ==
  ASSUME NEW f, NEW n, n = 1 \/ n = 2, Len(f) = n
  PROVE  FlattenSeq(f) = IF n = 1 THEN f[1] ELSE f[1] \o f[2]
<1> DEFINE Flat(h) == h = [i \in 1 .. n |-> IF i = 1 THEN f[i] ELSE h[i - 1] \o f[i]]
           g == [i \in 1 .. n |-> IF i = 1 THEN f[1] ELSE f[1] \o f[2]]
           h == CHOOSE e : Flat(e)
<1>1. FlattenSeq(f) = h[n]
  <2>1. n # 0
    OBVIOUS
  <2> QED BY <2>1, Zenon DEF FlattenSeq
<1>2. \A i \in 1 .. n : i = 1 \/ i = 2
  OBVIOUS
<1>3. Flat(g)
  <2>1. \A i \in 1 .. n : g[i] = IF i = 1 THEN f[1] ELSE f[1] \o f[2]
    OBVIOUS
  <2>2. g = [i \in 1 .. n |-> g[i]]
    OBVIOUS
  <2>3. n = 2 => g[1] = f[1] /\ g[2] = f[1] \o f[2]
    BY <2>1
  <2> HIDE DEF g
  <2>4. ASSUME NEW i \in 1 .. n PROVE g[i] = IF i = 1 THEN f[i] ELSE g[i - 1] \o f[i]
    <3>1. CASE i = 1
      BY <2>1, <3>1
    <3>2. CASE i = 2
      <4>1. n = 2 /\ i - 1 = 1
        BY <3>2
      <4> QED BY <2>3, <3>2, <4>1
    <3> QED BY <1>2, <3>1, <3>2
  <2> QED BY <2>2, <2>4
<1> HIDE DEF g
<1>4. Flat(h)
  BY <1>3, Zenon
<1> HIDE DEF h
<1>5. h[1] = f[1] /\ (n = 2 => h[2] = h[1] \o f[2])
  <2>1. \A i \in 1 .. n : h[i] = IF i = 1 THEN f[i] ELSE h[i - 1] \o f[i]
    BY <1>4
  <2>2. 1 \in 1 .. n
    OBVIOUS
  <2>3. h[1] = f[1]
    BY <2>1, <2>2
  <2>4. ASSUME n = 2 PROVE h[2] = h[1] \o f[2]
    <3>1. 2 \in 1 .. n /\ 2 - 1 = 1 /\ 2 # 1
      BY <2>4
    <3>2. h[2] = h[2 - 1] \o f[2]
      BY <2>1, <3>1, Zenon
    <3> QED BY <3>1, <3>2, Zenon
  <2> QED BY <2>3, <2>4
<1> QED BY <1>1, <1>5

\* What FlattenSeq makes of the bytes of up to two characters
LEMMA FlattenReads ==
  ASSUME NEW t \in Seq(Nat), Len(t) \in 0 .. 2, NEW f, f \in Seq(Seq(Nat)), Len(f) = Len(t),
         \A i \in 1 .. Len(t) : At(f[i], 0, <<t[i]>>, Len(f[i]))
  PROVE  Reads(FlattenSeq(f) \o <<0>>, t)
<1>1. Len(t) = 0 \/ Len(t) = 1 \/ Len(t) = 2
  OBVIOUS
<1>2. CASE Len(t) = 0
  <2>1. f = << >> /\ t = << >>
    BY <1>2
  <2>2. FlattenSeq(f) = << >>
    BY <2>1 DEF FlattenSeq
  <2>3. << >> \in Seq(Nat) /\ Len(<< >>) = 0
    OBVIOUS
  <2>4. At(<< >>, 0, << >>, 0)
    <3> DEFINE e == << >>
    <3>1. e \in Seq(Nat) /\ 0 \in Nat /\ 0 <= Len(e)
      BY <2>3
    <3> HIDE DEF e
    <3>2. At(e, 0, << >>, 0)
      BY <3>1, AtNone
    <3> QED BY <3>2 DEF e
  <2>5. Reads(<< >> \o <<0>>, << >>)
    BY <2>3, <2>4, ReadsEnded
  <2> QED BY <2>1, <2>2, <2>5
<1>3. CASE Len(t) = 1
  <2>1. FlattenSeq(f) = f[1]
    BY <1>3, FlattenIs
  <2>2. t = <<t[1]>>
    BY <1>3
  <2>3. At(f[1], 0, <<t[1]>>, Len(f[1]))
    BY <1>3
  <2>4. Reads(f[1] \o <<0>>, <<t[1]>>)
    BY <2>3, ReadsEnded
  <2> QED BY <2>1, <2>2, <2>4
<1>4. CASE Len(t) = 2
  <2>1. FlattenSeq(f) = f[1] \o f[2]
    <3>1. Len(f) = 2 /\ 2 # 1
      BY <1>4
    <3>2. FlattenSeq(f) = IF 2 = 1 THEN f[1] ELSE f[1] \o f[2]
      BY <3>1, FlattenIs, Zenon
    <3> QED BY <3>1, <3>2, Zenon
  <2>2. t = <<t[1]>> \o <<t[2]>>
    BY <1>4
  <2> DEFINE c == f[1]
             d == f[2]
             e == c \o d
  <2>3. At(c, 0, <<t[1]>>, Len(c)) /\ At(d, 0, <<t[2]>>, Len(d)) /\ c \in Seq(Nat) /\ d \in Seq(Nat)
    <3>1. 1 \in 1 .. Len(t) /\ 2 \in 1 .. Len(t)
      BY <1>4
    <3>2. At(c, 0, <<t[1]>>, Len(c)) /\ At(d, 0, <<t[2]>>, Len(d))
      BY <3>1
    <3> QED BY <3>2, AtFacts
  <2> HIDE DEF c, d
  <2>4. Len(e) = Len(c) + Len(d) /\ Len(c) \in Nat /\ Len(c) + 0 = Len(c)
    BY <2>3
  <2>5. At(e, 0, <<t[1]>>, Len(c))
    BY <2>3, AtLeft
  <2>6. At(e, Len(c) + 0, <<t[2]>>, Len(c) + Len(d))
    BY <2>3, AtRight
  <2> HIDE DEF e
  <2>7. At(e, 0, <<t[1]>> \o <<t[2]>>, Len(e))
    BY <2>4, <2>5, <2>6, AtJoin
  <2>8. Reads(e \o <<0>>, <<t[1]>> \o <<t[2]>>)
    BY <2>7, ReadsEnded
  <2> QED BY <2>1, <2>2, <2>8 DEF c, d, e
<1> QED BY <1>1, <1>2, <1>3, <1>4

LEMMA CodesAreNumbers ==
  ASSUME NEW S, S \subseteq Nat, NEW t \in Seq(S)
  PROVE  t \in Seq(Nat) /\ DOMAIN t = 1 .. Len(t) /\ \A i \in 1 .. Len(t) : t[i] \in S
<1>1. DOMAIN t = 1 .. Len(t) /\ Len(t) \in Nat /\ \A i \in 1 .. Len(t) : t[i] \in S
  OBVIOUS
<1>2. \A i \in 1 .. Len(t) : t[i] \in Nat
  BY <1>1
<1>3. t = [i \in 1 .. Len(t) |-> t[i]]
  OBVIOUS
<1>4. t \in Seq(Nat)
  BY <1>1, <1>2, <1>3
<1> QED BY <1>1, <1>4

\* String(const char*)
LEMMA LiteralReads ==
  ASSUME NEW t \in Seq(CodePoints), Len(t) \in 0 .. 2
  PROVE  Reads(Literal(t), t)
<1> DEFINE B(c) == [i \in 1 .. SizeOf(c) |-> UTF8EncodeCharacter(c)[i] + (IF i = 1 THEN 0 ELSE 128)]
           f == [i \in DOMAIN t |-> B(t[i])]
<1>1. Literal(t) = FlattenSeq(f) \o <<0>>
  BY DEF Literal
<1>2. CodePoints \subseteq Nat
  BY SMT DEF CodePoints
<1>3. t \in Seq(Nat) /\ DOMAIN t = 1 .. Len(t) /\ \A i \in 1 .. Len(t) : t[i] \in CodePoints
  BY <1>2, CodesAreNumbers
<1>4. ASSUME NEW c \in CodePoints PROVE B(c) \in Seq(Nat) /\ At(B(c), 0, <<c>>, Len(B(c)))
  <2> DEFINE u == UTF8EncodeCharacter(c)
             n == SizeOf(c)
             m == B(c)
  <2>1. u \in Seq(Nat) /\ Len(u) = n /\ n \in 1 .. 4 /\ \A i \in 2 .. n : Digit(u[i]) = u[i]
    BY EncodeGives
  <2> HIDE DEF u, n
  <2>2. \A i \in 1 .. n : u[i] \in Nat
    BY <2>1
  <2>3. m = [i \in 1 .. n |-> u[i] + (IF i = 1 THEN 0 ELSE 128)]
    BY DEF u, n
  <2> HIDE DEF B
  <2>4. m \in Seq(Nat) /\ Len(m) = n
    <3>1. \A i \in 1 .. n : u[i] + (IF i = 1 THEN 0 ELSE 128) \in Nat
      BY <2>2
    <3> QED BY <2>1, <2>3, <3>1
  <2>5. m[1] = u[1]
    <3>1. 1 \in 1 .. n
      BY <2>1
    <3> QED BY <2>2, <2>3, <3>1
  <2>6. ASSUME NEW i \in 2 .. n PROVE Digit(m[i]) = u[i]
    <3>1. i \in 1 .. n /\ i # 1 /\ u[i] \in Nat
      BY <2>1, <2>2
    <3>2. m[i] = u[i] + 128
      BY <2>3, <3>1
    <3>3. (u[i] + 128) % 64 = u[i] % 64
      BY <3>1
    <3> QED BY <2>1, <3>2, <3>3 DEF Digit
  <2>7. At(m, 0, <<c>>, Len(m))
    BY <2>4, <2>5, <2>6, AtCharacter DEF u, n
  <2> QED BY <2>4, <2>7
<1> HIDE DEF B
<1>5. f \in Seq(Seq(Nat)) /\ Len(f) = Len(t)
  <2> DEFINE S == Seq(Nat)
  <2>1. f = [i \in 1 .. Len(t) |-> B(t[i])] /\ \A i \in 1 .. Len(t) : B(t[i]) \in S
    BY <1>3, <1>4
  <2> HIDE DEF S, f
  <2>2. f \in Seq(S) /\ Len(f) = Len(t)
    BY <2>1
  <2> QED BY <2>2 DEF S
<1>6. \A i \in 1 .. Len(t) : At(f[i], 0, <<t[i]>>, Len(f[i]))
  <2>1. \A i \in 1 .. Len(t) : f[i] = B(t[i])
    BY <1>3
  <2> HIDE DEF f
  <2> QED BY <1>3, <1>4, <2>1
<1> HIDE DEF f
<1>7. Reads(FlattenSeq(f) \o <<0>>, t)
  BY <1>3, <1>5, <1>6, FlattenReads
<1> QED BY <1>1, <1>7

\* String(Character, repeat)
LEMMA RepeatReads ==
  ASSUME NEW c \in CodePoints, NEW n \in 1 .. 2
  PROVE  Reads(FlattenSeq([i \in 1 .. n |-> UTF8EncodeCharacter(c)]) \o <<0>>, [i \in 1 .. n |-> c])
<1> DEFINE t == [i \in 1 .. n |-> c]
           f == [i \in 1 .. n |-> UTF8EncodeCharacter(c)]
<1>1. c \in Nat
  BY SMT DEF CodePoints
<1>2. t \in Seq(Nat) /\ Len(t) = n /\ Len(t) \in 0 .. 2 /\ \A i \in 1 .. Len(t) : t[i] = c
  BY <1>1
<1>3. f \in Seq(Seq(Nat)) /\ Len(f) = Len(t)
  <2> DEFINE S == Seq(Nat)
  <2>1. UTF8EncodeCharacter(c) \in S
    BY EncodeGives
  <2> HIDE DEF S
  <2>2. f \in Seq(S) /\ Len(f) = n
    BY <2>1
  <2> QED BY <1>2, <2>2 DEF S
<1>4. \A i \in 1 .. Len(t) : f[i] = UTF8EncodeCharacter(c)
  BY <1>2
<1> HIDE DEF f, t
<1>5. \A i \in 1 .. Len(t) : At(f[i], 0, <<t[i]>>, Len(f[i]))
  BY <1>2, <1>4, AtEncoded
<1>6. Reads(FlattenSeq(f) \o <<0>>, t)
  BY <1>2, <1>3, <1>5, FlattenReads
<1> QED BY <1>6 DEF f, t

-----------------------------------------------------------------------------
(* strlen and strncpy                                                      *)

\* The bytes before the first zero
LEMMA StrlenIs ==
  ASSUME NEW b, Readable(b)
  PROVE  /\ b \in Seq(Nat) /\ Len(b) \in Nat /\ Len(b) >= 1
         /\ Strlen(b) \in Nat /\ Strlen(b) < Len(b) /\ b[Strlen(b) + 1] = 0
         /\ \A i \in 1 .. Strlen(b) : b[i] # 0 /\ b[i] \in Nat
         /\ \A q \in Nat : q < Len(b) /\ b[q + 1] = 0 => Strlen(b) <= q
<1>1. PICK t, q : At(b, 0, t, q) /\ q < Len(b) /\ b[q + 1] = 0
  BY ReadableIs
<1> DEFINE Z == {i \in DOMAIN b : b[i] = 0}
<1>2. b \in Seq(Nat) /\ Len(b) \in Nat /\ q \in Nat
  BY <1>1, AtFacts
<1>3. DOMAIN b = 1 .. Len(b) /\ \A i \in 1 .. Len(b) : b[i] \in Nat
  BY <1>2
<1>4. q + 1 \in Z
  BY <1>1, <1>2, <1>3
<1>5. Z \subseteq Nat /\ Z # {}
  BY <1>3, <1>4
<1>6. \A i : i \in Z <=> i \in 1 .. Len(b) /\ b[i] = 0
  BY <1>3
<1>7. Strlen(b) = Min(Z) - 1
  BY DEF Strlen
<1> HIDE DEF Z
<1>8. Min(Z) \in Z /\ \A y \in Z : Min(Z) <= y
  BY <1>5, LeastOf
<1>9. Min(Z) \in 1 .. Len(b) /\ b[Min(Z)] = 0
  BY <1>6, <1>8
<1> DEFINE z == Strlen(b)
<1>10. z + 1 = Min(Z) /\ z \in Nat /\ z < Len(b)
  BY <1>2, <1>7, <1>9
<1> HIDE DEF z
<1>11. b[z + 1] = 0
  BY <1>9, <1>10
<1>12. ASSUME NEW i \in 1 .. z PROVE b[i] # 0 /\ b[i] \in Nat
  <2>1. i \in 1 .. Len(b) /\ i < z + 1
    BY <1>2, <1>10
  <2>2. i \in Nat /\ z + 1 \in Nat /\ (b[i] = 0 => z + 1 <= i)
    BY <1>6, <1>8, <1>10, <2>1
  <2>3. b[i] # 0
    BY <2>1, <2>2
  <2> QED BY <1>3, <2>1, <2>3
<1>13. ASSUME NEW k \in Nat, k < Len(b), b[k + 1] = 0 PROVE z <= k
  <2>1. k + 1 \in Z
    BY <1>2, <1>6, <1>13
  <2>2. z + 1 <= k + 1
    BY <1>8, <1>10, <2>1
  <2> QED BY <1>10, <2>2
<1> QED BY <1>2, <1>4, <1>3, <1>10, <1>11, <1>12, <1>13 DEF z

LEMMA StrncpyIs ==
  ASSUME NEW b, Readable(b), NEW n \in Nat
  PROVE  /\ Strncpy(b, n) \in Seq(Nat) /\ Len(Strncpy(b, n)) = n
         /\ \A i \in 1 .. n : Strncpy(b, n)[i] = IF i <= Strlen(b) THEN b[i] ELSE 0
<1> DEFINE m == Strncpy(b, n)
           z == Strlen(b)
<1>1. z \in Nat /\ \A i \in 1 .. z : b[i] \in Nat
  BY StrlenIs
<1>2. m = [i \in 1 .. n |-> IF i <= z THEN b[i] ELSE 0]
  BY DEF Strncpy
<1> HIDE DEF m, z
<1>3. \A i \in 1 .. n : (IF i <= z THEN b[i] ELSE 0) \in Nat
  BY <1>1
<1>4. m \in Seq(Nat) /\ Len(m) = n
  BY <1>2, <1>3
<1> QED BY <1>2, <1>4 DEF m, z

\* A whole buffer is filled.
LEMMA WholeReads ==
  ASSUME NEW b, NEW t, NEW w, Spelling(b, t, w), Whole(b)
  PROVE  Reads(b, t) /\ w[Len(t)] = Len(b) - 1
<1>1. Readable(b)
  BY DEF Readable
<1>2. Strlen(b) = Len(b) - 1
  BY DEF Whole, GetSize
<1>3. Len(t) \in Nat /\ Len(b) \in Nat /\ w[Len(t)] \in Nat /\ w[Len(t)] < Len(b) /\ b[w[Len(t)] + 1] = 0
  <2>1. Len(t) \in 0 .. Len(t)
    BY SpellingFacts
  <2> QED BY <2>1, SpellingFacts
<1>4. Len(b) - 1 <= w[Len(t)]
  BY <1>1, <1>2, <1>3, StrlenIs
<1>5. w[Len(t)] = Len(b) - 1
  BY <1>3, <1>4
<1> QED BY <1>5 DEF Reads

-----------------------------------------------------------------------------
(* Joining buffers                                                         *)

LEMMA JoinReads ==
  ASSUME NEW m, NEW s, At(m, 0, s, Len(m)), NEW b, NEW t, Reads(b, t)
  PROVE  Reads(m \o b, s \o t)
<1> DEFINE d == m \o b
<1>1. m \in Seq(Nat) /\ Len(m) \in Nat
  BY AtFacts
<1>2. b \in Seq(Nat) /\ Len(b) \in Nat /\ Len(b) >= 1 /\ b[Len(b)] = 0 /\ At(b, 0, t, Len(b) - 1)
  BY ReadsFacts
<1>3. At(d, 0, s, Len(m))
  BY <1>2, AtLeft
<1>4. At(d, Len(m) + 0, t, Len(m) + (Len(b) - 1))
  BY <1>1, <1>2, AtRight
<1>5. Len(d) = Len(m) + Len(b) /\ d[Len(m) + Len(b)] = 0
  <2>1. Len(b) \in 1 .. Len(b)
    BY <1>2
  <2> QED BY <1>1, <1>2, <2>1, ConcatGives
<1> HIDE DEF d
<1>6. Len(m) + 0 = Len(m) /\ Len(m) + (Len(b) - 1) = Len(d) - 1 /\ Len(d) - 1 < Len(d) /\ d[Len(d) - 1 + 1] = 0
  BY <1>1, <1>2, <1>5
<1>7. At(d, 0, s \o t, Len(d) - 1)
  BY <1>3, <1>4, <1>6, AtJoin
<1>8. Reads(d, s \o t)
  BY <1>6, <1>7, ReadsIs
<1> QED BY <1>8 DEF d

LEMMA JoinReadable ==
  ASSUME NEW m, NEW s, At(m, 0, s, Len(m)), NEW b, Readable(b)
  PROVE  Readable(m \o b)
<1> DEFINE d == m \o b
<1>1. m \in Seq(Nat) /\ Len(m) \in Nat
  BY AtFacts
<1>2. PICK t, q : At(b, 0, t, q) /\ q < Len(b) /\ b[q + 1] = 0
  BY ReadableIs
<1>3. b \in Seq(Nat) /\ Len(b) \in Nat /\ q \in Nat
  BY <1>2, AtFacts
<1>4. At(d, 0, s, Len(m))
  BY <1>3, AtLeft
<1>5. At(d, Len(m) + 0, t, Len(m) + q)
  BY <1>1, <1>2, AtRight
<1>6. Len(d) = Len(m) + Len(b) /\ d[Len(m) + (q + 1)] = 0
  <2>1. q + 1 \in 1 .. Len(b)
    BY <1>2, <1>3
  <2> QED BY <1>1, <1>2, <1>3, <2>1, ConcatGives
<1> HIDE DEF d
<1>7. Len(m) + 0 = Len(m) /\ Len(m) + q < Len(d) /\ d[(Len(m) + q) + 1] = 0
  <2>1. Len(m) + (q + 1) = (Len(m) + q) + 1
    BY <1>1, <1>3
  <2> QED BY <1>1, <1>2, <1>3, <1>6, <2>1
<1>8. At(d, 0, s \o t, Len(m) + q)
  BY <1>4, <1>5, <1>7, AtJoin
<1>9. Readable(d)
  BY <1>7, <1>8, ReadableIs
<1> QED BY <1>9 DEF d

\* What comes after a terminator does not matter.
LEMMA EarlyReadable ==
  ASSUME NEW m, NEW s, NEW q, At(m, 0, s, q), q < Len(m), m[q + 1] = 0, NEW b \in Seq(Nat)
  PROVE  Readable(m \o b)
<1> DEFINE d == m \o b
<1>1. m \in Seq(Nat) /\ Len(m) \in Nat /\ q \in Nat /\ Len(b) \in Nat
  BY AtFacts
<1>2. At(d, 0, s, q)
  BY AtLeft
<1>3. Len(d) = Len(m) + Len(b) /\ d[q + 1] = 0
  <2>1. q + 1 \in 1 .. Len(m)
    BY <1>1
  <2> QED BY <1>1, <2>1, ConcatGives
<1> HIDE DEF d
<1>4. q < Len(d)
  BY <1>1, <1>3
<1>5. Readable(d)
  BY <1>2, <1>3, <1>4, ReadableIs
<1> QED BY <1>5 DEF d

\* All but the terminator
LEMMA Before ==
  ASSUME NEW b \in Seq(Nat), Len(b) >= 1, NEW t, NEW q, At(b, 0, t, q), q <= Len(b) - 1,
         NEW m \in Seq(Nat), q <= Len(m), \A i \in 1 .. q : m[i] = b[i]
  PROVE  At(m, 0, t, q)
<1>1. q \in Nat /\ 0 + (q - 0) = q /\ q - 0 = q /\ Len(m) \in Nat
  BY AtFacts
<1>2. \A k \in 1 .. q - 0 : m[0 + k] = b[0 + k]
  <2>1. \A k \in 1 .. q : 0 + k = k
    BY <1>1
  <2> QED BY <1>1, <2>1
<1>3. At(m, 0, t, 0 + (q - 0))
  BY <1>1, <1>2, AtMoved
<1> QED BY <1>1, <1>3

\* operator +=
LEMMA AppendReads ==
  ASSUME NEW b, NEW c
  PROVE  /\ Readable(b) /\ Readable(c) => Readable(SubSeq(b, 1, GetSize(b)) \o c)
         /\ \A s, t : Reads(b, s) /\ Reads(c, t) => Reads(SubSeq(b, 1, GetSize(b)) \o c, s \o t)
<1> DEFINE m == SubSeq(b, 1, GetSize(b))
<1>0. ASSUME Readable(b)
      PROVE  b \in Seq(Nat) /\ Len(b) \in Nat /\ Len(b) >= 1 /\ m \in Seq(Nat) /\ Len(m) = Len(b) - 1 /\ \A i \in 1 .. Len(b) - 1 : m[i] = b[i]
  <2>1. b \in Seq(Nat) /\ Len(b) \in Nat /\ Len(b) >= 1
    BY <1>0, StrlenIs
  <2> DEFINE k == Len(b) - 1
  <2>2. k \in 0 .. Len(b) /\ m = SubSeq(b, 1, k)
    BY <2>1 DEF GetSize
  <2> HIDE DEF m, k
  <2>3. m \in Seq(Nat) /\ Len(m) = k /\ \A i \in 1 .. k : m[i] = b[i]
    BY <2>1, <2>2, RestGives
  <2> QED BY <2>1, <2>3 DEF k
<1> HIDE DEF m
<1>1. ASSUME Readable(b), Readable(c) PROVE Readable(m \o c)
  <2>1. PICK t, q : At(b, 0, t, q) /\ q < Len(b) /\ b[q + 1] = 0
    BY <1>1, ReadableIs
  <2>2. q \in Nat /\ c \in Seq(Nat)
    BY <1>1, <2>1, AtFacts, StrlenIs
  <2>3. q <= Len(b) - 1 /\ q <= Len(m) /\ \A i \in 1 .. q : i \in 1 .. Len(b) - 1
    BY <1>0, <1>1, <2>1, <2>2
  <2>4. At(m, 0, t, q)
    BY <1>0, <1>1, <2>1, <2>3, Before
  <2>5. CASE q = Len(m)
    BY <1>1, <2>4, <2>5, JoinReadable
  <2>6. CASE q # Len(m)
    <3>1. q < Len(m) /\ q + 1 \in 1 .. Len(b) - 1
      BY <1>0, <1>1, <2>2, <2>3, <2>6
    <3>2. m[q + 1] = 0
      BY <1>0, <1>1, <2>1, <3>1
    <3> QED BY <2>2, <2>4, <3>1, <3>2, EarlyReadable
  <2> QED BY <2>5, <2>6
<1>2. ASSUME NEW s, NEW t, Reads(b, s), Reads(c, t) PROVE Reads(m \o c, s \o t)
  <2>1. Readable(b) /\ At(b, 0, s, Len(b) - 1)
    BY <1>2, ReadsReadable, ReadsFacts
  <2>2. Len(b) - 1 <= Len(b) - 1 /\ Len(m) = Len(b) - 1 /\ Len(b) - 1 <= Len(m)
    BY <1>0, <2>1
  <2>3. At(m, 0, s, Len(b) - 1)
    BY <1>0, <2>1, <2>2, Before
  <2>4. At(m, 0, s, Len(m))
    BY <2>2, <2>3
  <2> QED BY <1>2, <2>4, JoinReads
<1> QED BY <1>1, <1>2 DEF m

\* Of a buffer that is not whole, the characters up to the first zero byte are copied, the last
\* of them perhaps in part.
LEMMA CutShort ==
  ASSUME NEW b, NEW t, NEW w, Spelling(b, t, w), NEW m \in Seq(Nat), Len(m) = Len(b) - 1,
         \A i \in 1 .. Len(m) : m[i] = IF i <= Strlen(b) THEN b[i] ELSE 0
  PROVE  \E s, q : At(m, 0, s, q) /\ q <= Len(m) /\ (q < Len(m) => m[q + 1] = 0)
<1> DEFINE n == Len(t)
           z == Strlen(b)
           K == {k \in 0 .. n : w[k] >= z}
           k == Min(K)
<1>1. /\ b \in Seq(Nat) /\ Len(b) \in Nat /\ Len(b) >= 1 /\ z \in Nat /\ z < Len(b)
      /\ \A q \in Nat : q < Len(b) /\ b[q + 1] = 0 => z <= q
  <2>1. Readable(b)
    BY DEF Readable
  <2> QED BY <2>1, StrlenIs
<1>2. /\ n \in Nat /\ w[0] = 0 /\ b[w[n] + 1] = 0 /\ \A i \in 0 .. n : w[i] \in Nat /\ w[i] < Len(b)
      /\ \A i \in 1 .. n : i - 1 \in 0 .. n /\ b[w[i - 1] + 1] # 0 /\ w[i] = w[i - 1] + SizeAt(b[w[i - 1] + 1])
                           /\ SizeAt(b[w[i - 1] + 1]) \in 1 .. 4
  <2>1. n \in Nat /\ w[0] = 0 /\ b[w[n] + 1] = 0 /\ \A i \in 0 .. n : w[i] \in Nat /\ w[i] < Len(b)
    BY SpellingFacts
  <2>2. ASSUME NEW i \in 1 .. n
        PROVE  /\ i - 1 \in 0 .. n /\ b[w[i - 1] + 1] # 0 /\ w[i] = w[i - 1] + SizeAt(b[w[i - 1] + 1])
               /\ SizeAt(b[w[i - 1] + 1]) \in 1 .. 4
    <3>1. i - 1 \in 0 .. n /\ b[w[i - 1] + 1] # 0 /\ w[i] = w[i - 1] + SizeAt(b[w[i - 1] + 1])
      BY SMTT(30), SpellingFacts
    <3>2. SizeAt(b[w[i - 1] + 1]) \in 1 .. 4
      BY SizeAlways
    <3> QED BY <3>1, <3>2
  <2> QED BY <2>1, <2>2
<1> HIDE DEF n, z
<1>3. n \in K
  <2>1. n \in 0 .. n /\ w[n] \in Nat /\ w[n] < Len(b)
    BY <1>2
  <2>2. z <= w[n]
    BY <1>1, <1>2, <2>1
  <2> QED BY <1>1, <2>1, <2>2
<1>4. K \subseteq Nat /\ \A i : i \in K <=> i \in 0 .. n /\ w[i] >= z
  OBVIOUS
<1> HIDE DEF K
<1>5. k \in K /\ \A i \in K : k <= i
  BY <1>3, <1>4, LeastOf
<1> HIDE DEF k
<1>6. k \in 0 .. n /\ w[k] >= z /\ k \in Nat
  BY <1>4, <1>5
<1>7. ASSUME NEW i \in 1 .. k
      PROVE  /\ i - 1 \in 0 .. k /\ i \in 0 .. k /\ i \in 1 .. n
             /\ w[i - 1] \in Nat /\ w[i - 1] < z /\ w[i - 1] + 1 \in 1 .. Len(m) /\ w[i] <= Len(m)
             /\ m[w[i - 1] + 1] = b[w[i - 1] + 1]
  <2>1. i - 1 \in 0 .. k /\ i \in 0 .. k /\ i \in 1 .. n /\ i - 1 \in 0 .. n /\ i \in 0 .. n /\ ~(k <= i - 1)
    BY <1>2, <1>6
  <2> DEFINE a == w[i - 1]
             e == w[i]
  <2>2. a \in Nat /\ e \in Nat /\ e < Len(b)
    BY <1>2, <2>1
  <2>3. e = a + SizeAt(b[a + 1]) /\ SizeAt(b[a + 1]) \in 1 .. 4
    BY <1>2, <2>1
  <2>4. i - 1 \notin K
    BY <1>5, <2>1
  <2>5. ~(a >= z)
    BY <1>4, <2>1, <2>4
  <2> HIDE DEF a, e
  <2>6. a < z /\ a < e
    <3>1. SizeAt(b[a + 1]) \in Nat /\ SizeAt(b[a + 1]) >= 1
      BY <2>3
    <3> QED BY <1>1, <2>2, <2>3, <2>5, <3>1
  <2>7. a + 1 \in 1 .. Len(m) /\ e <= Len(m) /\ a + 1 <= z
    BY <1>1, <2>2, <2>6
  <2>8. m[a + 1] = b[a + 1]
    BY <2>7 DEF z
  <2> QED BY <2>1, <2>2, <2>6, <2>7, <2>8 DEF a, e
<1> DEFINE u == [i \in 0 .. k |-> w[i]]
           s == [i \in 1 .. k |-> Code(m, w[i - 1])]
<1>8. ASSUME NEW i \in 1 .. k PROVE Code(m, w[i - 1]) \in Nat
  <2> DEFINE o == w[i - 1]
  <2>1. o \in Nat /\ o + 1 \in 1 .. Len(m) /\ m[o + 1] = b[o + 1] /\ w[i] = o + SizeAt(b[o + 1]) /\ w[i] <= Len(m)
    BY <1>2, <1>7
  <2> HIDE DEF o
  <2>2. o + SizeAt(m[o + 1]) <= Len(m) /\ o + 1 \in DOMAIN m
    BY <2>1
  <2>3. Code(m, o) \in Nat
    BY <2>1, <2>2, DecodeIs
  <2> QED BY <2>3 DEF o
<1>9. s \in Seq(Nat) /\ Len(s) = k /\ \A i \in 1 .. k : s[i] = Code(m, w[i - 1])
  BY <1>6, <1>8
<1>10. u \in [0 .. k -> Nat] /\ \A i \in 0 .. k : u[i] = w[i]
  <2>1. \A i \in 0 .. k : i \in 0 .. n
    BY <1>2, <1>6
  <2> QED BY <1>2, <2>1
<1> HIDE DEF s, u
<1>11. u[0] = 0 /\ u[k] = w[k] /\ w[k] \in Nat /\ w[k] <= Len(m)
  <2>1. 0 \in 0 .. k /\ k \in 0 .. k
    BY <1>6
  <2>2. w[k] \in Nat /\ w[k] < Len(b)
    BY <1>2, <1>6
  <2>3. w[k] <= Len(m)
    BY <1>1, <2>2
  <2> QED BY <1>2, <1>10, <2>1, <2>2, <2>3
<1>12. ASSUME NEW i \in 1 .. k
       PROVE  m[u[i - 1] + 1] # 0 /\ u[i] = u[i - 1] + SizeAt(m[u[i - 1] + 1]) /\ s[i] = Code(m, u[i - 1])
  <2>1. u[i] = w[i] /\ u[i - 1] = w[i - 1]
    BY <1>7, <1>10
  <2>2. b[w[i - 1] + 1] # 0 /\ w[i] = w[i - 1] + SizeAt(b[w[i - 1] + 1]) /\ m[w[i - 1] + 1] = b[w[i - 1] + 1]
    BY <1>2, <1>7
  <2> QED BY <1>9, <2>1, <2>2
<1>13. Chars(m, 0, s, u)
  BY <1>9, <1>10, <1>11, <1>12 DEF Chars
<1>14. At(m, 0, s, w[k])
  BY <1>9, <1>11, <1>13 DEF At
<1>15. w[k] < Len(m) => m[w[k] + 1] = 0
  <2> SUFFICES ASSUME w[k] < Len(m) PROVE m[w[k] + 1] = 0
    OBVIOUS
  <2>1. w[k] + 1 \in 1 .. Len(m) /\ ~(w[k] + 1 <= z)
    BY <1>1, <1>6, <1>11
  <2> QED BY <2>1 DEF z
<1> QED BY <1>11, <1>14, <1>15

\* operator +
LEMMA PlusReads ==
  ASSUME NEW b, NEW c
  PROVE  /\ Readable(b) /\ Readable(c) => Readable(Plus(b, c))
         /\ \A s, t : Reads(b, s) /\ Whole(b) /\ Reads(c, t) => Reads(Plus(b, c), s \o t)
<1> DEFINE m == Strncpy(b, GetSize(b))
<1>0. ASSUME Readable(b)
      PROVE  /\ b \in Seq(Nat) /\ Len(b) \in Nat /\ Len(b) >= 1 /\ m \in Seq(Nat) /\ Len(m) = Len(b) - 1
             /\ \A i \in 1 .. Len(m) : m[i] = IF i <= Strlen(b) THEN b[i] ELSE 0
  <2>1. b \in Seq(Nat) /\ Len(b) \in Nat /\ Len(b) >= 1
    BY <1>0, StrlenIs
  <2>2. GetSize(b) \in Nat /\ GetSize(b) = Len(b) - 1
    BY <2>1 DEF GetSize
  <2>3. m \in Seq(Nat) /\ Len(m) = GetSize(b) /\ \A i \in 1 .. GetSize(b) : m[i] = IF i <= Strlen(b) THEN b[i] ELSE 0
    BY <1>0, <2>2, StrncpyIs
  <2> HIDE DEF m
  <2> QED BY <2>1, <2>2, <2>3
<1>1. Plus(b, c) = m \o c
  BY DEF Plus
<1> HIDE DEF m
<1>2. ASSUME Readable(b), Readable(c) PROVE Readable(m \o c)
  <2>1. PICK t, w : Spelling(b, t, w)
    BY <1>2 DEF Readable
  <2>2. PICK s, q : At(m, 0, s, q) /\ q <= Len(m) /\ (q < Len(m) => m[q + 1] = 0)
    BY <1>0, <1>2, <2>1, CutShort
  <2>3. c \in Seq(Nat) /\ q \in Nat /\ Len(m) \in Nat
    BY <1>2, <2>2, AtFacts, StrlenIs
  <2>4. CASE q = Len(m)
    BY <1>2, <2>2, <2>4, JoinReadable
  <2>5. CASE q < Len(m)
    BY <2>2, <2>3, <2>5, EarlyReadable
  <2> QED BY <2>2, <2>3, <2>4, <2>5
<1>3. ASSUME NEW s, NEW t, Reads(b, s), Whole(b), Reads(c, t) PROVE Reads(m \o c, s \o t)
  <2>1. Readable(b) /\ At(b, 0, s, Len(b) - 1)
    BY <1>3, ReadsReadable, ReadsFacts
  <2>2. Strlen(b) = Len(b) - 1
    BY <1>3 DEF Whole, GetSize
  <2>3. /\ Len(b) - 1 <= Len(b) - 1 /\ Len(m) = Len(b) - 1 /\ Len(b) - 1 <= Len(m)
        /\ \A i \in 1 .. Len(b) - 1 : m[i] = b[i]
    <3>1. \A i \in 1 .. Len(b) - 1 : i <= Strlen(b)
      BY <2>2
    <3> QED BY <1>0, <2>1, <3>1
  <2>4. At(m, 0, s, Len(b) - 1)
    BY <1>0, <2>1, <2>3, Before
  <2>5. At(m, 0, s, Len(m))
    BY <2>3, <2>4
  <2> QED BY <1>3, <2>5, JoinReads
<1> QED BY <1>1, <1>2, <1>3

-----------------------------------------------------------------------------
(* Cutting buffers                                                         *)

LEMMA FirstIs ==
  ASSUME NEW t \in Seq(Nat), NEW n \in Nat
  PROVE  /\ First(t, n) = SubSeq(t, 1, AtMost(n, Len(t))) /\ AtMost(n, Len(t)) \in 0 .. Len(t)
         /\ First(t, n) \in Seq(Nat)
<1> DEFINE m == AtMost(n, Len(t))
<1>1. Len(t) \in Nat /\ m \in 0 .. Len(t)
  BY DEF AtMost
<1>2. Min({n, Len(t)}) = m
  <2>1. {n, Len(t)} \subseteq Nat /\ {n, Len(t)} # {} /\ n \in {n, Len(t)} /\ Len(t) \in {n, Len(t)}
    BY <1>1
  <2> DEFINE T == {n, Len(t)}
  <2>2. \A y \in T : y = n \/ y = Len(t)
    OBVIOUS
  <2> HIDE DEF T
  <2>3. Min(T) \in T /\ \A y \in T : Min(T) <= y
    BY <2>1, LeastOf DEF T
  <2>4. Min(T) = m
    BY <1>1, <2>1, <2>2, <2>3 DEF AtMost, T
  <2> QED BY <2>4 DEF T
<1>3. First(t, n) = [i \in 1 .. m |-> t[i]]
  BY <1>2 DEF First
<1> HIDE DEF m
<1>4. SubSeq(t, 1, m) \in Seq(Nat) /\ Len(SubSeq(t, 1, m)) = m /\ \A i \in 1 .. m : SubSeq(t, 1, m)[i] = t[i]
  BY <1>1, RestGives
<1>5. SubSeq(t, 1, m) = [i \in 1 .. m |-> t[i]]
  <2> DEFINE f == SubSeq(t, 1, m)
  <2>1. f \in Seq(Nat) /\ Len(f) = m /\ \A i \in 1 .. m : f[i] = t[i]
    BY <1>4
  <2> HIDE DEF f
  <2>2. f = [i \in 1 .. m |-> f[i]]
    BY <2>1
  <2>3. f = [i \in 1 .. m |-> t[i]]
    BY <2>1, <2>2
  <2> QED BY <2>3 DEF f
<1> QED BY <1>1, <1>3, <1>4, <1>5 DEF m

\* Truncate(len)
LEMMA TruncateReads ==
  ASSUME NEW b, NEW t, NEW w, Spelling(b, t, w), NEW len \in Nat
  PROVE  Reads(Truncated(b, len), First(t, len))
<1> DEFINE k == AtMost(len, Len(t))
           q == w[k]
           m == SubSeq(b, 1, q)
           s == SubSeq(t, 1, k)
<1>1. t \in Seq(Nat) /\ b \in Seq(Nat) /\ Len(b) \in Nat /\ Len(b) >= 1
  BY SpellingFacts
<1>2. k \in 0 .. Len(t) /\ First(t, len) = s
  BY <1>1, FirstIs
<1>3. UTF8GetStringOffset(b, len) = q
  BY OffsetIs
<1>4. q \in Nat /\ q < Len(b)
  BY <1>2, SpellingFacts
<1> HIDE DEF k
<1>5. At(b, 0, s, q)
  <2>1. Chars(b, 0, t, w)
    BY DEF Spelling
  <2> QED BY <1>2, <2>1, AtParts
<1> HIDE DEF q, s
<1>6. m \in Seq(Nat) /\ Len(m) = q /\ \A i \in 1 .. q : m[i] = b[i]
  <2>1. q \in 0 .. Len(b)
    BY <1>1, <1>4
  <2> QED BY <1>1, <2>1, RestGives
<1> HIDE DEF m
<1>7. At(m, 0, s, q)
  <2>1. q <= Len(b) - 1 /\ q <= Len(m)
    BY <1>1, <1>4, <1>6
  <2> QED BY <1>1, <1>5, <1>6, <2>1, Before
<1>8. Reads(m \o <<0>>, s)
  BY <1>6, <1>7, ReadsEnded
<1> QED BY <1>2, <1>3, <1>8 DEF Truncated, m

\* What comes after the first k characters
LEMMA RestReads ==
  ASSUME NEW b, NEW t, NEW w, Spelling(b, t, w), NEW k \in 0 .. Len(t)
  PROVE  /\ w[k] \in 0 .. Len(b) - 1
         /\ Readable(SubSeq(b, w[k] + 1, Len(b)))
         /\ w[Len(t)] = Len(b) - 1 => Reads(SubSeq(b, w[k] + 1, Len(b)), SubSeq(t, k + 1, Len(t)))
         /\ SubSeq(b, w[k] + 1, Len(b)) \in Seq(Nat) /\ Len(SubSeq(b, w[k] + 1, Len(b))) = Len(b) - w[k]
         /\ \A i \in 1 .. Len(b) - w[k] : SubSeq(b, w[k] + 1, Len(b))[i] = b[w[k] + i]
<1> DEFINE o == w[k]
           z == w[Len(t)]
           m == SubSeq(b, o + 1, Len(b))
           s == SubSeq(t, k + 1, Len(t))
<1>1. t \in Seq(Nat) /\ b \in Seq(Nat) /\ Len(b) \in Nat /\ Len(b) >= 1 /\ Len(t) \in Nat /\ b[z + 1] = 0
  BY SpellingFacts
<1>2. o \in Nat /\ o < Len(b) /\ z \in Nat /\ z < Len(b)
  <2>1. Len(t) \in 0 .. Len(t)
    BY <1>1
  <2> QED BY <2>1, SpellingFacts
<1>3. At(b, o, s, z)
  <2>1. Chars(b, 0, t, w)
    BY DEF Spelling
  <2> QED BY <2>1, AtParts
<1>4. o <= z
  BY <1>3, AtFacts
<1> HIDE DEF o, z, s
<1>5. m \in Seq(Nat) /\ Len(m) = Len(b) - o /\ \A i \in 1 .. Len(b) - o : m[i] = b[o + i]
  <2>1. o \in 0 .. Len(b)
    BY <1>1, <1>2
  <2> QED BY <1>1, <2>1, RestGives
<1> HIDE DEF m
<1>6. At(m, 0, s, z - o)
  <2>1. 0 + (z - o) = z - o /\ z - o <= Len(m)
    BY <1>1, <1>2, <1>4, <1>5
  <2>2. \A i \in 1 .. z - o : m[0 + i] = b[o + i]
    <3>1. \A i \in 1 .. z - o : 0 + i = i /\ i \in 1 .. Len(b) - o
      BY <1>1, <1>2, <1>4
    <3> QED BY <1>5, <3>1
  <2>3. At(m, 0, s, 0 + (z - o))
    BY <1>3, <1>5, <2>1, <2>2, AtMoved
  <2> QED BY <2>1, <2>3
<1>7. z - o < Len(m) /\ m[z - o + 1] = 0
  <2>1. z - o + 1 \in 1 .. Len(b) - o /\ o + (z - o + 1) = z + 1
    BY <1>1, <1>2, <1>4
  <2>2. m[z - o + 1] = b[o + (z - o + 1)]
    BY <1>5, <2>1
  <2> QED BY <1>1, <1>2, <1>4, <1>5, <2>1, <2>2
<1>8. Readable(m)
  BY <1>6, <1>7, ReadableIs
<1>9. ASSUME z = Len(b) - 1 PROVE Reads(m, s)
  <2>1. z - o = Len(m) - 1
    BY <1>1, <1>2, <1>5, <1>9
  <2>2. At(m, 0, s, Len(m) - 1) /\ Len(m) - 1 < Len(m) /\ m[Len(m) - 1 + 1] = 0
    BY <1>6, <1>7, <2>1
  <2> QED BY <2>2, ReadsIs
<1>10. o \in 0 .. Len(b) - 1
  BY <1>1, <1>2
<1> QED BY <1>5, <1>8, <1>9, <1>10 DEF m, o, z, s

\* SetCharacter
LEMMA ReplaceReads ==
  ASSUME NEW b, NEW t, NEW w, Spelling(b, t, w), NEW index \in Nat, index < Len(t), NEW c \in CodePoints
  PROVE  LET d == Replaced(b, UTF8GetStringOffset(b, index), c)
         IN  /\ Readable(d)
             /\ w[Len(t)] = Len(b) - 1 => Reads(d, [i \in DOMAIN t |-> IF i = index + 1 THEN c ELSE t[i]])
<1> DEFINE n == Len(t)
           o == w[index]
           p == w[index + 1]
           A == SubSeq(b, 1, o)
           B == UTF8EncodeCharacter(c)
           C == SubSeq(b, p + 1, Len(b))
           s == SubSeq(t, 1, index)
           r == SubSeq(t, index + 1 + 1, n)
           d == Replaced(b, UTF8GetStringOffset(b, index), c)
           new == [i \in DOMAIN t |-> IF i = index + 1 THEN c ELSE t[i]]
<1>1. t \in Seq(Nat) /\ b \in Seq(Nat) /\ Len(b) \in Nat /\ Len(b) >= 1 /\ n \in Nat
  BY SpellingFacts
<1>2. index \in 0 .. n /\ index + 1 \in 0 .. n /\ index + 1 \in 1 .. n /\ (index + 1) - 1 = index
  BY <1>1
<1>3. o \in Nat /\ o < Len(b) /\ p = o + SizeAt(b[o + 1])
  <2>1. o \in Nat /\ o < Len(b)
    BY <1>2, SpellingFacts
  <2>2. p = w[(index + 1) - 1] + SizeAt(b[w[(index + 1) - 1] + 1])
    BY <1>2, SpellingFacts
  <2> QED BY <1>2, <2>1, <2>2
<1>4. UTF8GetStringOffset(b, index) = o
  BY <1>2, OffsetWithin
<1>5. d = A \o B \o C
  BY <1>3, <1>4 DEF Replaced
<1>6. At(b, 0, s, o)
  <2>1. Chars(b, 0, t, w)
    BY DEF Spelling
  <2> QED BY <1>2, <2>1, AtParts
<1>7. Readable(C) /\ (w[n] = Len(b) - 1 => Reads(C, r))
  BY <1>2, RestReads
<1>8. At(B, 0, <<c>>, Len(B)) /\ B \in Seq(Nat)
  BY AtEncoded, EncodeGives
<1> HIDE DEF o, p, B, C, d, n
<1>9. A \in Seq(Nat) /\ Len(A) = o /\ \A i \in 1 .. o : A[i] = b[i]
  <2>1. o \in 0 .. Len(b)
    BY <1>1, <1>3
  <2> QED BY <1>1, <2>1, RestGives
<1> HIDE DEF A
<1>10. At(A, 0, s, o)
  <2>1. o <= Len(b) - 1 /\ o <= Len(A)
    BY <1>1, <1>3, <1>9
  <2> QED BY <1>1, <1>6, <1>9, <2>1, Before
<1> DEFINE E == A \o B
<1>11. At(E, 0, s \o <<c>>, Len(E))
  <2>1. At(E, 0, s, o)
    BY <1>8, <1>10, AtLeft
  <2>2. At(E, Len(A) + 0, <<c>>, Len(A) + Len(B))
    BY <1>8, <1>9, AtRight
  <2>3. Len(E) = Len(A) + Len(B) /\ Len(A) + 0 = o
    <3>1. Len(E) = Len(A) + Len(B)
      BY <1>8, <1>9, ConcatGives
    <3> HIDE DEF E
    <3> QED BY <1>3, <1>9, <3>1
  <2> HIDE DEF E
  <2> QED BY <2>1, <2>2, <2>3, AtJoin
<1> HIDE DEF E, s, r
<1>12. Readable(E \o C)
  BY <1>7, <1>11, JoinReadable
<1>13. w[n] = Len(b) - 1 => Reads(E \o C, s \o <<c>> \o r)
  BY <1>7, <1>11, JoinReads
<1>14. s \o <<c>> \o r = new
  <2>1. /\ s \in Seq(Nat) /\ Len(s) = index /\ (\A i \in 1 .. index : s[i] = t[i])
        /\ r \in Seq(Nat) /\ Len(r) = n - (index + 1) /\ (\A i \in 1 .. n - (index + 1) : r[i] = t[index + 1 + i])
    <3>1. s \in Seq(Nat) /\ Len(s) = index /\ \A i \in 1 .. index : s[i] = t[i]
      BY <1>1, <1>2, RestGives DEF s, n
    <3> DEFINE j == index + 1
    <3>2. j \in 0 .. Len(t)
      BY <1>2 DEF n
    <3> HIDE DEF j
    <3>3. r = SubSeq(t, j + 1, Len(t))
      BY DEF r, n, j
    <3>4. r \in Seq(Nat) /\ Len(r) = Len(t) - j /\ \A i \in 1 .. Len(t) - j : r[i] = t[j + i]
      BY <1>1, <3>2, <3>3, RestGives
    <3> QED BY <3>1, <3>4 DEF j, n
  <2> DEFINE l == s \o <<c>>
  <2>2. c \in Nat
    BY SMT DEF CodePoints
  <2>3. l \in Seq(Nat) /\ Len(l) = index + 1 /\ (\A i \in 1 .. index : l[i] = s[i]) /\ l[index + 1] = c
    <3>1. <<c>> \in Seq(Nat) /\ Len(<<c>>) = 1 /\ <<c>>[1] = c /\ 1 \in 1 .. Len(<<c>>)
      BY <2>2
    <3>2. l \in Seq(Nat) /\ Len(l) = Len(s) + Len(<<c>>) /\ (\A i \in 1 .. Len(s) : l[i] = s[i]) /\ l[Len(s) + 1] = <<c>>[1]
      <4> DEFINE a == <<c>>
      <4>1. s \in Seq(Nat) /\ a \in Seq(Nat) /\ 1 \in 1 .. Len(a)
        BY <2>1, <3>1
      <4> HIDE DEF a, s
      <4>2. /\ s \o a \in Seq(Nat) /\ Len(s \o a) = Len(s) + Len(a) /\ (\A i \in 1 .. Len(s) : (s \o a)[i] = s[i])
            /\ (\A i \in 1 .. Len(a) : (s \o a)[Len(s) + i] = a[i])
        BY <4>1, ConcatGives
      <4>3. (s \o a)[Len(s) + 1] = a[1]
        BY <4>1, <4>2
      <4> QED BY <4>2, <4>3 DEF a
    <3> HIDE DEF l
    <3> QED BY <2>1, <3>1, <3>2
  <2> HIDE DEF l
  <2> DEFINE e == l \o r
  <2>4. /\ e \in Seq(Nat) /\ Len(e) = n /\ (\A i \in 1 .. index + 1 : e[i] = l[i])
        /\ \A i \in 1 .. n : i \notin 1 .. index + 1 => i - (index + 1) \in 1 .. n - (index + 1) /\ e[i] = r[i - (index + 1)]
    <3>1. Len(l) + Len(r) = n
      BY <1>1, <1>2, <2>1, <2>3
    <3>2. /\ e \in Seq(Nat) /\ Len(e) = Len(l) + Len(r) /\ (\A i \in 1 .. Len(l) : e[i] = l[i])
          /\ \A i \in 1 .. Len(l) + Len(r) : i \notin 1 .. Len(l) => i - Len(l) \in 1 .. Len(r) /\ e[i] = r[i - Len(l)]
      <4>1. l \in Seq(Nat) /\ r \in Seq(Nat)
        BY <2>1, <2>3
      <4> HIDE DEF e
      <4> QED BY <4>1, ConcatGives DEF e
    <3> HIDE DEF e
    <3> QED BY <2>1, <2>3, <3>1, <3>2
  <2> HIDE DEF e
  <2>5. ASSUME NEW i \in 1 .. n PROVE e[i] = IF i = index + 1 THEN c ELSE t[i]
    <3>1. CASE i \in 1 .. index
      <4>1. i \in 1 .. index + 1 /\ i # index + 1
        BY <1>2, <3>1
      <4> QED BY <2>1, <2>3, <2>4, <3>1, <4>1
    <3>2. CASE i = index + 1
      <4>1. i \in 1 .. index + 1
        BY <1>2, <3>2
      <4> QED BY <2>3, <2>4, <3>2, <4>1
    <3>3. CASE i \notin 1 .. index + 1
      <4>1. i # index + 1 /\ index + 1 + (i - (index + 1)) = i
        BY <1>2, <3>3
      <4> QED BY <2>1, <2>4, <3>3, <4>1
    <3>4. i \in 1 .. index \/ i = index + 1 \/ i \notin 1 .. index + 1
      BY <1>2
    <3> QED BY <3>1, <3>2, <3>3, <3>4
  <2>6. e = [i \in 1 .. n |-> e[i]] /\ DOMAIN t = 1 .. n
    BY <1>1, <2>4 DEF n
  <2>7. e = new
    BY <2>5, <2>6
  <2> QED BY <2>7 DEF e, l
<1> QED BY <1>5, <1>12, <1>13, <1>14 DEF E, d, n

LEMMA RestText ==
  ASSUME NEW t \in Seq(Nat), NEW off \in Nat
  PROVE  SubSeq(t, AtMost(off, Len(t)) + 1, Len(t)) = SubSeq(t, off + 1, Len(t))
<1>1. Len(t) \in Nat
  OBVIOUS
<1>2. CASE off <= Len(t)
  BY <1>2 DEF AtMost
<1>3. CASE ~(off <= Len(t))
  <2>1. AtMost(off, Len(t)) = Len(t)
    BY <1>3 DEF AtMost
  <2>2. SubSeq(t, Len(t) + 1, Len(t)) = << >>
    BY <1>1
  <2>3. SubSeq(t, off + 1, Len(t)) = << >>
    BY <1>1, <1>3
  <2> QED BY <2>1, <2>2, <2>3
<1> QED BY <1>2, <1>3

\* Where a part starts
Skipped(off, t) == IF off = npos THEN 0 ELSE AtMost(off, Len(t))

\* The characters of a part
Part(t, off, len) ==
  LET rest == SubSeq(t, Skipped(off, t) + 1, Len(t)) IN IF len = npos THEN rest ELSE First(rest, len)

\* Of a buffer without zero bytes, Substring() gives the characters asked for, without zero bytes.
LEMMA SubstringReads ==
  ASSUME NEW b, NEW t, Reads(b, t), Whole(b), NEW off \in Nat \cup {npos}, NEW len \in Nat \cup {npos}
  PROVE  /\ Reads(Substring(b, off, len), Part(t, off, len)) /\ Whole(Substring(b, off, len))
         /\ UTF8GetStringLength(Rest(b, off)) = Len(SubSeq(t, Skipped(off, t) + 1, Len(t)))
         /\ Part(t, off, len) \in Seq(Nat)
<1>1. PICK w : Spelling(b, t, w) /\ w[Len(t)] = Len(b) - 1
  BY DEF Reads
<1> DEFINE k == Skipped(off, t)
           o == w[k]
           rest == Rest(b, off)
           r == SubSeq(t, k + 1, Len(t))
           z == Strlen(b)
<1>2. b \in Seq(Nat) /\ t \in Seq(Nat) /\ Len(t) \in Nat /\ Len(b) \in Nat /\ Len(b) >= 1 /\ w[0] = 0
  BY <1>1, SpellingFacts
<1>3. npos \notin Nat
  BY DEF npos
<1>4. k \in 0 .. Len(t)
  BY <1>2, <1>3 DEF Skipped, AtMost
<1>5. rest = SubSeq(b, o + 1, Len(b))
  <2>1. CASE off = npos
    BY <1>2, <2>1 DEF Rest, Skipped
  <2>2. CASE off # npos
    <3>1. UTF8GetStringOffset(b, off) = w[AtMost(off, Len(t))]
      BY <1>1, <2>2, OffsetIs
    <3> QED BY <2>2, <3>1 DEF Rest, Skipped
  <2> QED BY <2>1, <2>2
<1> HIDE DEF k, rest
<1>6. /\ o \in 0 .. Len(b) - 1 /\ Reads(rest, r) /\ rest \in Seq(Nat) /\ Len(rest) = Len(b) - o
      /\ \A i \in 1 .. Len(b) - o : rest[i] = b[o + i]
  <2>1. o \in 0 .. Len(b) - 1 /\ Reads(rest, r)
    BY <1>1, <1>4, <1>5, RestReads
  <2>2. rest \in Seq(Nat) /\ Len(rest) = Len(b) - o /\ \A i \in 1 .. Len(b) - o : rest[i] = b[o + i]
    BY <1>1, <1>4, <1>5, RestReads
  <2> QED BY <2>1, <2>2
<1> HIDE DEF o, r, z
<1>7. z = Len(b) - 1 /\ \A i \in 1 .. z : b[i] # 0
  <2>1. Readable(b)
    BY ReadsReadable
  <2> QED BY <2>1, StrlenIs DEF Whole, GetSize, z
<1>8. Readable(rest)
  BY <1>6, ReadsReadable
<1>9. Len(rest) \in Nat /\ Len(rest) >= 1 /\ \A i \in 1 .. Len(rest) - 1 : rest[i] # 0
  <2>1. \A i \in 1 .. Len(rest) - 1 : i \in 1 .. Len(b) - o /\ o + i \in 1 .. z
    BY <1>2, <1>6, <1>7
  <2>2. Len(rest) \in Nat /\ Len(rest) >= 1
    BY <1>2, <1>6
  <2> QED BY <1>6, <1>7, <2>1, <2>2
<1>10. Strlen(rest) = Len(rest) - 1
  <2> DEFINE y == Strlen(rest)
  <2>1. y \in Nat /\ y < Len(rest) /\ rest[y + 1] = 0
    BY <1>8, StrlenIs
  <2> HIDE DEF y
  <2>2. y + 1 \notin 1 .. Len(rest) - 1
    BY <1>9, <2>1
  <2>3. y = Len(rest) - 1
    BY <1>9, <2>1, <2>2
  <2> QED BY <2>3 DEF y
<1>11. PICK v : Spelling(rest, r, v) /\ v[Len(r)] = Len(rest) - 1
  BY <1>6 DEF Reads
<1>12. r \in Seq(Nat) /\ Len(r) \in Nat
  BY <1>11, SpellingFacts
<1>13. UTF8GetStringLength(rest) = Len(r)
  BY <1>11, LengthIs
<1> DEFINE j == IF len = npos THEN Len(r) ELSE AtMost(len, Len(r))
           n == IF len = npos THEN Strlen(rest) ELSE UTF8GetStringOffset(rest, len)
           s == SubSeq(r, 1, j)
           m == Strncpy(rest, n)
<1>14. j \in 0 .. Len(r) /\ n = v[j]
  <2>1. CASE len = npos
    BY <1>10, <1>11, <1>12, <2>1
  <2>2. CASE len # npos
    <3>1. len \in Nat
      BY <2>2
    <3>2. n = v[AtMost(len, Len(r))]
      BY <1>11, <2>2, <3>1, OffsetIs
    <3>3. AtMost(len, Len(r)) \in 0 .. Len(r)
      BY <1>12, <3>1 DEF AtMost
    <3> QED BY <2>2, <3>2, <3>3
  <2> QED BY <2>1, <2>2
<1>15. Part(t, off, len) = s
  <2>1. CASE len = npos
    <3>1. SubSeq(r, 1, Len(r)) = r
      BY <1>12
    <3> QED BY <2>1, <3>1 DEF Part, r, k
  <2>2. CASE len # npos
    <3>1. len \in Nat
      BY <2>2
    <3>2. First(r, len) = SubSeq(r, 1, AtMost(len, Len(r)))
      BY <1>12, <3>1, FirstIs
    <3> QED BY <2>2, <3>2 DEF Part, r, k
  <2> QED BY <2>1, <2>2
<1>16. Substring(b, off, len) = m \o <<0>>
  BY DEF Substring, rest
<1> HIDE DEF j, n
<1>17. n \in Nat /\ n <= Len(rest) - 1 /\ At(rest, 0, s, n)
  <2>1. v[j] \in Nat /\ v[j] < Len(rest)
    BY <1>11, <1>14, SpellingFacts
  <2>2. Chars(rest, 0, r, v)
    BY <1>11 DEF Spelling
  <2>3. At(rest, 0, s, v[j])
    BY <1>14, <2>2, AtParts
  <2> QED BY <1>9, <1>14, <2>1, <2>3
<1>18. m \in Seq(Nat) /\ Len(m) = n /\ \A i \in 1 .. n : m[i] = rest[i]
  <2>1. m \in Seq(Nat) /\ Len(m) = n /\ \A i \in 1 .. n : m[i] = IF i <= Strlen(rest) THEN rest[i] ELSE 0
    BY <1>8, <1>17, StrncpyIs
  <2>2. \A i \in 1 .. n : i <= Strlen(rest)
    BY <1>9, <1>10, <1>17
  <2> QED BY <2>1, <2>2
<1> HIDE DEF m, s
<1>19. At(m, 0, s, Len(m))
  <2>1. n <= Len(m)
    BY <1>17, <1>18
  <2>2. At(m, 0, s, n)
    BY <1>6, <1>9, <1>17, <1>18, <2>1, Before
  <2> QED BY <1>18, <2>2
<1>20. Reads(m \o <<0>>, s)
  BY <1>19, ReadsEnded
<1> DEFINE e == m \o <<0>>
<1>21. Len(e) = n + 1 /\ \A i \in 1 .. n : e[i] # 0
  <2>1. \A i \in 1 .. n : i \in 1 .. Len(rest) - 1
    BY <1>9, <1>17
  <2>2. \A i \in 1 .. n : e[i] = m[i]
    BY <1>17, <1>18
  <2>3. Len(e) = n + 1
    BY <1>17, <1>18
  <2> QED BY <1>9, <1>18, <2>1, <2>2, <2>3
<1>22. Whole(e)
  <2>1. Readable(e)
    BY <1>20, ReadsReadable
  <2> HIDE DEF e
  <2> DEFINE y == Strlen(e)
  <2>2. y \in Nat /\ y < Len(e) /\ e[y + 1] = 0
    BY <2>1, StrlenIs
  <2> HIDE DEF y
  <2>3. y + 1 \notin 1 .. n
    BY <1>21, <2>2
  <2>4. y = Len(e) - 1
    BY <1>17, <1>21, <2>2, <2>3
  <2> QED BY <2>4 DEF y, Whole, GetSize
<1>23. s \in Seq(Nat)
  BY <1>17, AtFacts
<1> QED BY <1>13, <1>15, <1>16, <1>20, <1>22, <1>23 DEF e, rest, r, k

-----------------------------------------------------------------------------
(* The String objects                                                      *)

\* What is known of a String that was not spoiled, and of one whose length is not stale
Good(bytes, chars, length, isSpoiled, isStale) ==
  /\ bytes \in Seq(Nat) /\ chars \in Seq(Nat) /\ length \in Nat /\ Readable(bytes)
  /\ ~isSpoiled => Reads(bytes, chars)
  /\ ~isSpoiled /\ ~isStale => length = 0 \/ length = Len(chars)

Holds(x) == Good(Bytes(x), text[x], dataLength[x], x \in spoiled, x \in stale)

StringsType ==
  /\ buffer \in [Variables -> Buffers] /\ heap \in [Buffers -> Seq(Nat)]
  /\ dataLength \in [Variables -> Nat] /\ text \in [Variables -> Seq(Nat)]
  /\ spoiled \subseteq Variables /\ stale \subseteq Variables

\* The bytes of every buffer in use are characters with a zero after the last; those of a String
\* that was not spoiled are its text, and its cached length, unless stale, is that of the text.
StringsInv == StringsType /\ \A x \in Variables : Holds(x)

LEMMA StringsBounds ==
  IsFiniteSet(Variables) /\ MaxCharacters \in Nat
BY SMT, StringsAssumption

LEMMA StringsFacts ==
  ASSUME StringsInv, NEW x \in Variables
  PROVE  /\ buffer[x] \in Buffers /\ Bytes(x) \in Seq(Nat) /\ text[x] \in Seq(Nat) /\ dataLength[x] \in Nat
         /\ Readable(Bytes(x)) /\ Holds(x)
         /\ x \notin spoiled => Reads(Bytes(x), text[x])
         /\ x \notin spoiled /\ x \notin stale => dataLength[x] = 0 \/ dataLength[x] = Len(text[x])
BY DEF StringsInv, StringsType, Holds, Good

LEMMA StringsContinue ==
  ASSUME StringsType', \A x \in Variables : Good(heap'[buffer'[x]], text'[x], dataLength'[x], x \in spoiled', x \in stale')
  PROVE  StringsInv'
BY DEF StringsInv, Holds, Bytes

LEMMA LengthGives ==
  ASSUME StringsInv, NEW x \in Variables
  PROVE  Length(x) \in Nat /\ (x \notin spoiled /\ x \notin stale => Length(x) = Len(text[x]))
<1>1. Readable(Bytes(x)) /\ dataLength[x] \in Nat
  BY StringsFacts
<1>2. PICK t, w : Spelling(Bytes(x), t, w)
  BY <1>1 DEF Readable
<1>3. UTF8GetStringLength(Bytes(x)) \in Nat
  BY <1>2, LengthIs, SpellingFacts
<1>4. Length(x) \in Nat
  BY <1>1, <1>3 DEF Length
<1>5. ASSUME x \notin spoiled, x \notin stale PROVE Length(x) = Len(text[x])
  <2>1. Reads(Bytes(x), text[x]) /\ (dataLength[x] = 0 \/ dataLength[x] = Len(text[x]))
    BY <1>5, StringsFacts
  <2>2. PICK v : Spelling(Bytes(x), text[x], v)
    BY <2>1 DEF Reads
  <2>3. UTF8GetStringLength(Bytes(x)) = Len(text[x])
    BY <2>2, LengthIs
  <2> QED BY <2>1, <2>3 DEF Length
<1> QED BY <1>4, <1>5

\* There is a buffer that no other String has.
LEMMA FreshGives ==
  ASSUME StringsType, NEW x \in Variables, NEW all \in [Buffers -> Seq(Nat)], NEW bytes \in Seq(Nat), FreshIn(all, x, bytes)
  PROVE  /\ buffer' \in [Variables -> Buffers] /\ heap' \in [Buffers -> Seq(Nat)]
         /\ heap'[buffer'[x]] = bytes /\ \A y \in Variables \ {x} : heap'[buffer'[y]] = all[buffer[y]]
<1> DEFINE free(e) == \A y \in Variables \ {x} : buffer[y] # e
           d == CHOOSE e \in Buffers : free(e)
           n == Cardinality(Variables)
<1>1. IsFiniteSet(Variables) /\ n \in Nat
  BY StringsBounds, FS_CardinalityType
<1>2. Buffers = 0 .. n /\ IsFiniteSet(Buffers) /\ Cardinality(Buffers) = n + 1
  <2>1. Buffers = 0 .. n
    BY DEF Buffers
  <2> HIDE DEF n
  <2>2. IsFiniteSet(0 .. n) /\ Cardinality(0 .. n) = n - 0 + 1
    BY <1>1, FS_Interval
  <2> QED BY <1>1, <2>1, <2>2
<1>3. \E e \in Buffers : free(e)
  <2> SUFFICES ASSUME \A e \in Buffers : ~free(e) PROVE FALSE
    OBVIOUS
  <2> DEFINE f == [e \in Buffers |-> CHOOSE y \in Variables \ {x} : buffer[y] = e]
  <2>1. \A e \in Buffers : f[e] \in Variables /\ buffer[f[e]] = e
    OBVIOUS
  <2>2. f \in [Buffers -> Variables]
    BY <2>1
  <2> HIDE DEF f
  <2>3. Cardinality(Variables) < Cardinality(Buffers)
    BY <1>1, <1>2
  <2>4. \E e, g \in Buffers : e # g /\ f[e] = f[g]
    <3>1. IsFiniteSet(Variables) /\ IsFiniteSet(Buffers)
      BY <1>1, <1>2
    <3> DEFINE V == Variables
               B == Buffers
    <3>2. IsFiniteSet(V) /\ IsFiniteSet(B) /\ Cardinality(V) < Cardinality(B) /\ f \in [B -> V]
      BY <2>2, <2>3, <3>1
    <3> HIDE DEF V, B
    <3>3. \E e, g \in B : e # g /\ f[e] = f[g]
      BY <3>2, FS_PigeonHole
    <3> QED BY <3>3 DEF B
  <2> QED BY <2>1, <2>4
<1>4. d \in Buffers /\ free(d)
  BY <1>3
<1>5. buffer' = [buffer EXCEPT ![x] = d] /\ heap' = [all EXCEPT ![d] = bytes]
  BY DEF FreshIn
<1> HIDE DEF d
<1>6. buffer \in [Variables -> Buffers]
  BY DEF StringsType
<1>7. buffer' \in [Variables -> Buffers] /\ buffer'[x] = d /\ \A y \in Variables \ {x} : buffer'[y] = buffer[y]
  BY <1>4, <1>5, <1>6
<1>8. heap' \in [Buffers -> Seq(Nat)] /\ heap'[d] = bytes /\ \A e \in Buffers : e # d => heap'[e] = all[e]
  <2> DEFINE S == Seq(Nat)
  <2>1. bytes \in S /\ all \in [Buffers -> S]
    OBVIOUS
  <2> HIDE DEF S
  <2>2. heap' \in [Buffers -> S] /\ heap'[d] = bytes /\ \A e \in Buffers : e # d => heap'[e] = all[e]
    BY <1>4, <1>5, <2>1
  <2> QED BY <2>2 DEF S
<1>9. \A y \in Variables \ {x} : buffer[y] \in Buffers /\ buffer[y] # d
  BY <1>4, <1>6
<1> QED BY <1>7, <1>8, <1>9

\* All but String x stay as they are.
Kept(x) ==
  /\ dataLength' \in [Variables -> Nat] /\ text' \in [Variables -> Seq(Nat)]
  /\ spoiled' \subseteq Variables /\ stale' \subseteq Variables
  /\ \A y \in Variables \ {x} : /\ dataLength'[y] = dataLength[y] /\ text'[y] = text[y]
                                /\ y \in spoiled' <=> y \in spoiled
                                /\ y \in stale' <=> y \in stale

\* String x gets a buffer of its own.
LEMMA StringRenewed ==
  ASSUME StringsInv, NEW x \in Variables, NEW bytes, Fresh(x, bytes), Kept(x),
         Good(bytes, text'[x], dataLength'[x], x \in spoiled', x \in stale')
  PROVE  StringsInv'
<1>1. StringsType
  BY DEF StringsInv
<1>2. heap \in [Buffers -> Seq(Nat)] /\ FreshIn(heap, x, bytes) /\ bytes \in Seq(Nat)
  BY <1>1 DEF StringsType, Fresh, Good
<1>3. /\ buffer' \in [Variables -> Buffers] /\ heap' \in [Buffers -> Seq(Nat)]
      /\ heap'[buffer'[x]] = bytes /\ \A y \in Variables \ {x} : heap'[buffer'[y]] = heap[buffer[y]]
  BY <1>1, <1>2, FreshGives
<1>4. StringsType'
  BY <1>3 DEF StringsType, Kept
<1>5. ASSUME NEW y \in Variables PROVE Good(heap'[buffer'[y]], text'[y], dataLength'[y], y \in spoiled', y \in stale')
  <2>1. CASE y = x
    BY <1>3, <2>1
  <2>2. CASE y # x
    <3>1. Good(heap[buffer[y]], text[y], dataLength[y], y \in spoiled, y \in stale)
      BY StringsFacts DEF Holds, Bytes
    <3>2. heap'[buffer'[y]] = heap[buffer[y]]
      BY <1>3, <2>2
    <3>3. /\ dataLength'[y] = dataLength[y] /\ text'[y] = text[y]
          /\ y \in spoiled' <=> y \in spoiled
          /\ y \in stale' <=> y \in stale
      BY <2>2 DEF Kept
    <3> QED BY <3>1, <3>2, <3>3 DEF Good
  <2> QED BY <2>1, <2>2
<1> QED BY <1>4, <1>5, StringsContinue

LEMMA MarkedIs ==
  ASSUME NEW set, set \subseteq Variables, NEW x \in Variables, NEW mark
  PROVE  /\ Marked(set, x, mark) \subseteq Variables /\ (x \in Marked(set, x, mark) <=> mark)
         /\ \A y \in Variables \ {x} : y \in Marked(set, x, mark) <=> y \in set
<1>1. CASE mark
  BY <1>1 DEF Marked
<1>2. CASE ~mark
  BY <1>2 DEF Marked
<1> QED BY <1>1, <1>2

LEMMA StepIs ==
  ASSUME StringsInv, NEW x \in Variables, NEW chars \in Seq(Nat), Step(x, chars)
  PROVE  text' \in [Variables -> Seq(Nat)] /\ text'[x] = chars /\ \A y \in Variables \ {x} : text'[y] = text[y]
<1> DEFINE S == Seq(Nat)
<1>1. text \in [Variables -> S] /\ chars \in S /\ text' = [text EXCEPT ![x] = chars]
  BY DEF StringsInv, StringsType, Step
<1> HIDE DEF S
<1>2. text' \in [Variables -> S] /\ text'[x] = chars /\ \A y \in Variables \ {x} : text'[y] = text[y]
  BY <1>1
<1> QED BY <1>2 DEF S

LEMMA LengthSet ==
  ASSUME StringsInv, NEW x \in Variables, NEW n \in Nat, dataLength' = [dataLength EXCEPT ![x] = n]
  PROVE  dataLength' \in [Variables -> Nat] /\ dataLength'[x] = n /\ \A y \in Variables \ {x} : dataLength'[y] = dataLength[y]
<1>1. dataLength \in [Variables -> Nat]
  BY DEF StringsInv, StringsType
<1> QED BY <1>1

LEMMA SetsTyped ==
  ASSUME StringsInv
  PROVE  spoiled \subseteq Variables /\ stale \subseteq Variables /\ dataLength \in [Variables -> Nat]
BY DEF StringsInv, StringsType

\* A new String
LEMMA StringNew ==
  ASSUME StringsInv, NEW x \in Variables, NEW chars \in Seq(Nat), Step(x, chars), NEW bytes, NEW n \in Nat,
         New(x, bytes, n), NEW p, NEW q, spoiled' = Marked(spoiled, x, p), stale' = Marked(stale, x, q),
         Readable(bytes), ~p => Reads(bytes, chars), ~p /\ ~q => n = 0 \/ n = Len(chars)
  PROVE  StringsInv'
<1>1. Fresh(x, bytes) /\ dataLength' = [dataLength EXCEPT ![x] = n]
  BY DEF New
<1>2. text' \in [Variables -> Seq(Nat)] /\ text'[x] = chars /\ \A y \in Variables \ {x} : text'[y] = text[y]
  BY StepIs
<1>3. dataLength' \in [Variables -> Nat] /\ dataLength'[x] = n /\ \A y \in Variables \ {x} : dataLength'[y] = dataLength[y]
  BY <1>1, LengthSet
<1>4. spoiled \subseteq Variables /\ stale \subseteq Variables
  BY SetsTyped
<1>5. spoiled' \subseteq Variables /\ (x \in spoiled' <=> p) /\ \A y \in Variables \ {x} : y \in spoiled' <=> y \in spoiled
  BY <1>4, MarkedIs
<1>6. stale' \subseteq Variables /\ (x \in stale' <=> q) /\ \A y \in Variables \ {x} : y \in stale' <=> y \in stale
  BY <1>4, MarkedIs
<1>7. Kept(x)
  BY <1>2, <1>3, <1>5, <1>6 DEF Kept
<1>8. bytes \in Seq(Nat)
  BY StrlenIs
<1>9. Good(bytes, text'[x], dataLength'[x], x \in spoiled', x \in stale')
  BY <1>2, <1>3, <1>5, <1>6, <1>8 DEF Good
<1> QED BY <1>1, <1>7, <1>9, StringRenewed

LEMMA CharactersAreCodes ==
  Characters \subseteq CodePoints
BY SMT, StringsAssumption DEF CodePoints

LEMMA Constructs ==
  ASSUME StringsInv, NEW x \in Variables, NEW t \in BoundedSeq(Characters, 2), Construct(x, t)
  PROVE  StringsInv'
<1>1. t \in Seq(CodePoints) /\ Len(t) \in 0 .. 2
  <2>1. t \in UNION {[1 .. m -> Characters] : m \in 0 .. 2}
    BY DEF BoundedSeq, SeqOf
  <2>2. PICK m \in 0 .. 2 : t \in [1 .. m -> Characters]
    BY <2>1
  <2>3. t \in [1 .. m -> CodePoints] /\ m \in Nat
    BY <2>2, CharactersAreCodes
  <2> QED BY <2>2, <2>3
<1>2. t \in Seq(Nat)
  <2>1. CodePoints \subseteq Nat
    BY SMT DEF CodePoints
  <2> QED BY <1>1, <2>1, CodesAreNumbers
<1>3. Reads(Literal(t), t) /\ Readable(Literal(t))
  BY <1>1, LiteralReads, ReadsReadable
<1>4. Step(x, t) /\ New(x, Literal(t), 0) /\ spoiled' = Marked(spoiled, x, FALSE) /\ stale' = Marked(stale, x, FALSE)
  BY DEF Construct, Marked
<1> QED BY <1>2, <1>3, <1>4, StringNew

LEMMA Repeats ==
  ASSUME StringsInv, NEW x \in Variables, NEW c \in Characters, NEW n \in 1 .. 2, Repeat(x, c, n)
  PROVE  StringsInv'
<1> DEFINE t == [i \in 1 .. n |-> c]
           b == FlattenSeq([i \in 1 .. n |-> UTF8EncodeCharacter(c)]) \o <<0>>
<1>1. c \in CodePoints /\ c \in Nat
  BY SMT, CharactersAreCodes DEF CodePoints
<1>2. t \in Seq(Nat)
  BY <1>1
<1>3. Reads(b, t)
  BY <1>1, RepeatReads
<1>4. Step(x, t) /\ New(x, b, 0) /\ spoiled' = Marked(spoiled, x, FALSE) /\ stale' = Marked(stale, x, FALSE)
  BY DEF Repeat, Marked
<1> HIDE DEF b, t
<1>5. Readable(b)
  BY <1>3, ReadsReadable
<1> QED BY <1>2, <1>3, <1>4, <1>5, StringNew

LEMMA Concatenates ==
  ASSUME StringsInv, NEW x \in Variables, NEW y \in Variables, NEW z \in Variables, Concatenate(x, y, z)
  PROVE  StringsInv'
<1> DEFINE t == text[y] \o text[z]
           b == Plus(Bytes(y), Bytes(z))
           p == y \in spoiled \/ z \in spoiled \/ ~Whole(Bytes(y))
<1>1. t \in Seq(Nat)
  BY StringsFacts
<1>2. Readable(b)
  BY StringsFacts, PlusReads
<1>3. ASSUME ~p PROVE Reads(b, t)
  BY <1>3, StringsFacts, PlusReads
<1>4. Step(x, t) /\ New(x, b, 0) /\ spoiled' = Marked(spoiled, x, p) /\ stale' = Marked(stale, x, FALSE)
  BY DEF Concatenate, Marked
<1> HIDE DEF b, t, p
<1> QED BY <1>1, <1>2, <1>3, <1>4, StringNew

LEMMA Substrs ==
  ASSUME StringsInv, NEW x \in Variables, NEW y \in Variables, NEW off \in 0 .. 1, NEW len \in {npos, 1, 2}, Substr(x, y, off, len)
  PROVE  StringsInv'
<1> DEFINE b == Bytes(y)
           rest == SubSeq(text[y], off + 1, Len(text[y]))
           chars == IF len = npos THEN rest ELSE First(rest, len)
           n == IF len = npos THEN 0 ELSE len
           available == UTF8GetStringLength(Rest(b, off))
           c == Substring(b, off, len)
<1>1. /\ Whole(b) /\ Step(x, chars) /\ New(x, c, n)
      /\ spoiled' = Marked(spoiled, x, y \in spoiled) /\ stale' = Marked(stale, x, len > available)
  BY DEF Substr
<1>2. npos \notin Nat /\ len \in Nat \cup {npos} /\ off \in Nat /\ off # npos
  BY DEF npos
<1>3. text[y] \in Seq(Nat) /\ Readable(b) /\ (y \notin spoiled => Reads(b, text[y]))
  BY StringsFacts
<1> HIDE DEF b
<1>4. PICK t : Reads(b, t) /\ (y \notin spoiled => t = text[y])
  <2>1. CASE y \notin spoiled
    BY <1>3, <2>1
  <2>2. CASE y \in spoiled
    BY <1>1, <1>3, <2>2, WholeReads DEF Readable
  <2> QED BY <2>1, <2>2
<1>5. /\ Reads(c, Part(t, off, len)) /\ Part(t, off, len) \in Seq(Nat)
      /\ available = Len(SubSeq(t, Skipped(off, t) + 1, Len(t)))
  BY <1>1, <1>2, <1>4, SubstringReads
<1>6. ASSUME NEW u \in Seq(Nat) PROVE SubSeq(u, Skipped(off, u) + 1, Len(u)) = SubSeq(u, off + 1, Len(u))
  BY <1>2, RestText DEF Skipped
<1>7. Part(text[y], off, len) = chars
  BY <1>3, <1>6 DEF Part
<1>8. rest \in Seq(Nat) /\ chars \in Seq(Nat)
  <2>1. rest \in Seq(Nat)
    BY <1>2, <1>3
  <2> HIDE DEF rest
  <2>2. len # npos => First(rest, len) \in Seq(Nat)
    BY <1>2, <2>1, FirstIs
  <2> QED BY <2>1, <2>2
<1>9. n \in Nat
  BY <1>2
<1>10. Readable(c)
  BY <1>5, ReadsReadable
<1>11. y \notin spoiled => Reads(c, chars)
  BY <1>4, <1>5, <1>7
<1>12. ASSUME y \notin spoiled, ~(len > available) PROVE n = 0 \/ n = Len(chars)
  <2>1. available = Len(rest)
    BY <1>3, <1>4, <1>5, <1>6, <1>12
  <2> HIDE DEF rest
  <2>2. CASE len = npos
    BY <2>2
  <2>3. CASE len # npos
    <3>1. len \in Nat /\ len <= Len(rest)
      BY <1>2, <1>8, <1>12, <2>1, <2>3
    <3>2. chars = SubSeq(rest, 1, AtMost(len, Len(rest))) /\ AtMost(len, Len(rest)) \in 0 .. Len(rest)
      BY <1>8, <2>3, <3>1, FirstIs
    <3>3. Len(chars) = AtMost(len, Len(rest))
      BY <1>8, <3>2, RestGives
    <3> QED BY <2>3, <3>1, <3>3 DEF AtMost
  <2> QED BY <2>2, <2>3
<1> HIDE DEF rest, chars, n, available, c
<1> QED BY <1>1, <1>8, <1>9, <1>10, <1>11, <1>12, StringNew

LEMMA AgedIs ==
  ASSUME StringsInv, NEW x \in Variables
  PROVE  /\ Aged(x) \subseteq Variables /\ (x \notin Aged(x) => dataLength[x] = 0)
         /\ \A y \in Variables \ {x} : y \in Aged(x) <=> y \in stale
<1>1. stale \subseteq Variables
  BY SetsTyped
<1>2. CASE dataLength[x] = 0
  BY <1>1, <1>2 DEF Aged
<1>3. CASE dataLength[x] # 0
  BY <1>1, <1>3 DEF Aged
<1> QED BY <1>2, <1>3

LEMMA Appends ==
  ASSUME StringsInv, NEW x \in Variables, NEW y \in Variables, AppendString(x, y)
  PROVE  StringsInv'
<1> DEFINE c == text[x] \o text[y]
           b == SubSeq(Bytes(x), 1, GetSize(Bytes(x))) \o Bytes(y)
           p == {x, y} \cap spoiled # {}
<1>1. Step(x, c) /\ Fresh(x, b) /\ spoiled' = Marked(spoiled, x, p) /\ stale' = Aged(x) /\ dataLength' = dataLength
  BY DEF AppendString
<1>2. c \in Seq(Nat)
  BY StringsFacts
<1>3. Readable(b)
  BY StringsFacts, AppendReads
<1>4. ASSUME ~p PROVE Reads(b, c)
  <2>1. x \notin spoiled /\ y \notin spoiled
    BY <1>4
  <2>2. Reads(Bytes(x), text[x]) /\ Reads(Bytes(y), text[y])
    BY <2>1, StringsFacts
  <2> QED BY <2>2, AppendReads
<1> HIDE DEF b, c, p
<1>5. text' \in [Variables -> Seq(Nat)] /\ text'[x] = c /\ \A v \in Variables \ {x} : text'[v] = text[v]
  BY <1>1, <1>2, StepIs
<1>6. spoiled' \subseteq Variables /\ (x \in spoiled' <=> p) /\ \A v \in Variables \ {x} : v \in spoiled' <=> v \in spoiled
  BY <1>1, SetsTyped, MarkedIs
<1>7. stale' \subseteq Variables /\ (x \notin stale' => dataLength[x] = 0) /\ \A v \in Variables \ {x} : v \in stale' <=> v \in stale
  BY <1>1, AgedIs
<1>8. dataLength[x] \in Nat /\ dataLength \in [Variables -> Nat]
  BY StringsFacts, SetsTyped
<1>9. Kept(x)
  BY <1>1, <1>5, <1>6, <1>7, <1>8 DEF Kept
<1>10. b \in Seq(Nat)
  BY <1>3, StrlenIs
<1>11. Good(b, text'[x], dataLength'[x], x \in spoiled', x \in stale')
  BY <1>1, <1>2, <1>3, <1>4, <1>5, <1>6, <1>7, <1>8, <1>10 DEF Good
<1> QED BY <1>1, <1>9, <1>11, StringRenewed

\* The buffer of x changes, and whoever shares it is spoiled.
LEMMA StringChanged ==
  ASSUME StringsInv, NEW x \in Variables, NEW bytes, InPlace(x, bytes),
         dataLength' = dataLength, NEW chars \in Seq(Nat), Step(x, chars),
         stale' \subseteq Variables, \A y \in Variables \ {x} : y \in stale' <=> y \in stale,
         Good(bytes, chars, dataLength[x], x \in spoiled, x \in stale')
  PROVE  StringsInv'
<1>1. heap' = [heap EXCEPT ![buffer[x]] = bytes] /\ spoiled' = spoiled \cup Sharing(x) /\ buffer' = buffer
  BY DEF InPlace
<1>2. StringsType /\ buffer[x] \in Buffers /\ bytes \in Seq(Nat) /\ Readable(bytes)
  BY StringsFacts DEF StringsInv, Good
<1>3. text' \in [Variables -> Seq(Nat)] /\ text'[x] = chars /\ \A v \in Variables \ {x} : text'[v] = text[v]
  BY StepIs
<1>4. heap' \in [Buffers -> Seq(Nat)] /\ heap'[buffer[x]] = bytes /\ \A d \in Buffers : d # buffer[x] => heap'[d] = heap[d]
  <2> DEFINE S == Seq(Nat)
  <2>1. heap \in [Buffers -> S] /\ bytes \in S
    BY <1>2 DEF StringsType
  <2> HIDE DEF S
  <2>2. heap' \in [Buffers -> S] /\ heap'[buffer[x]] = bytes /\ \A d \in Buffers : d # buffer[x] => heap'[d] = heap[d]
    BY <1>1, <1>2, <2>1
  <2> QED BY <2>2 DEF S
<1>5. spoiled' \subseteq Variables /\ (x \in spoiled' <=> x \in spoiled)
  BY <1>1, <1>2 DEF Sharing, StringsType
<1>6. StringsType'
  BY <1>1, <1>2, <1>3, <1>4, <1>5 DEF StringsType
<1>7. ASSUME NEW v \in Variables PROVE Good(heap'[buffer'[v]], text'[v], dataLength'[v], v \in spoiled', v \in stale')
  <2>1. Good(heap[buffer[v]], text[v], dataLength[v], v \in spoiled, v \in stale) /\ buffer[v] \in Buffers
    BY StringsFacts DEF Holds, Bytes
  <2>2. CASE v = x
    BY <1>1, <1>3, <1>4, <1>5, <2>2 DEF Good
  <2>3. CASE v # x /\ buffer[v] = buffer[x]
    <3>1. v \in spoiled'
      BY <1>1, <2>3 DEF Sharing
    <3> QED BY <1>1, <1>2, <1>3, <1>4, <2>1, <2>3, <3>1 DEF Good
  <2>4. CASE v # x /\ buffer[v] # buffer[x]
    <3>1. v \in spoiled' <=> v \in spoiled
      BY <1>1, <2>4 DEF Sharing
    <3>2. heap'[buffer'[v]] = heap[buffer[v]]
      BY <1>1, <1>4, <2>1, <2>4
    <3> QED BY <1>3, <2>1, <2>4, <3>1, <3>2 DEF Good
  <2> QED BY <2>2, <2>3, <2>4
<1> QED BY <1>6, <1>7, StringsContinue

\* What a String spells: its text, unless it was spoiled.
LEMMA StringSpells ==
  ASSUME StringsInv, NEW x \in Variables
  PROVE  \E t, w : Spelling(Bytes(x), t, w) /\ (x \notin spoiled => t = text[x] /\ w[Len(t)] = Len(Bytes(x)) - 1)
<1>1. CASE x \in spoiled
  BY <1>1, StringsFacts DEF Readable
<1>2. CASE x \notin spoiled
  <2>1. Reads(Bytes(x), text[x])
    BY <1>2, StringsFacts
  <2> QED BY <2>1 DEF Reads
<1> QED BY <1>1, <1>2

LEMMA Truncates ==
  ASSUME StringsInv, NEW x \in Variables, NEW len \in Nat, Truncate(x, len)
  PROVE  StringsInv'
<1> DEFINE b == Truncated(Bytes(x), len)
           c == First(text[x], len)
<1>1. Step(x, c) /\ InPlace(x, b) /\ stale' = Aged(x) /\ dataLength' = dataLength
  BY DEF Truncate
<1>2. PICK t, w : Spelling(Bytes(x), t, w) /\ (x \notin spoiled => t = text[x])
  BY StringSpells
<1>3. Reads(b, First(t, len))
  BY <1>2, TruncateReads
<1>4. Readable(b) /\ (x \notin spoiled => Reads(b, c))
  BY <1>2, <1>3, ReadsReadable
<1>5. c \in Seq(Nat) /\ dataLength[x] \in Nat
  BY StringsFacts, FirstIs
<1> HIDE DEF b, c
<1>6. stale' \subseteq Variables /\ (x \notin stale' => dataLength[x] = 0) /\ \A y \in Variables \ {x} : y \in stale' <=> y \in stale
  BY <1>1, AgedIs
<1>7. b \in Seq(Nat)
  BY <1>4, StrlenIs
<1>8. Good(b, c, dataLength[x], x \in spoiled, x \in stale')
  BY <1>4, <1>5, <1>6, <1>7 DEF Good
<1> QED BY <1>1, <1>5, <1>6, <1>8, StringChanged

LEMMA SetsCharacter ==
  ASSUME StringsInv, NEW x \in Variables, NEW index \in Nat, NEW c \in Characters, SetCharacter(x, index, c)
  PROVE  StringsInv'
<1> DEFINE b == Bytes(x)
           offset == UTF8GetStringOffset(b, index)
           grows == SizeOf(c) > SizeAt(b[offset + 1])
           d == Replaced(b, offset, c)
           chars == [i \in DOMAIN text[x] |-> IF i = index + 1 THEN c ELSE text[x][i]]
<1>1. /\ index < UTF8GetStringLength(b) /\ Step(x, chars)
      /\ IF grows THEN Fresh(x, d) /\ spoiled' = spoiled ELSE InPlace(x, d)
      /\ dataLength' = dataLength /\ stale' = stale
  BY DEF SetCharacter
<1>2. PICK t, w : Spelling(b, t, w) /\ (x \notin spoiled => t = text[x] /\ w[Len(t)] = Len(b) - 1)
  BY StringSpells
<1>3. index < Len(t)
  BY <1>1, <1>2, LengthIs
<1>4. c \in CodePoints /\ c \in Nat
  BY SMT, CharactersAreCodes DEF CodePoints
<1>5. /\ Readable(d)
      /\ w[Len(t)] = Len(b) - 1 => Reads(d, [i \in DOMAIN t |-> IF i = index + 1 THEN c ELSE t[i]])
  <2>1. Spelling(b, t, w) /\ index \in Nat /\ index < Len(t) /\ c \in CodePoints
    BY <1>2, <1>3, <1>4
  <2> HIDE DEF b, chars
  <2> QED BY <2>1, ReplaceReads DEF d, offset
<1>6. x \notin spoiled => Reads(d, chars)
  BY <1>2, <1>5
<1>7. chars \in Seq(Nat) /\ Len(chars) = Len(text[x])
  <2> DEFINE u == text[x]
  <2>1. u \in Seq(Nat)
    BY StringsFacts
  <2> HIDE DEF u
  <2>2. \A i \in DOMAIN u : u[i] \in Nat
    BY <2>1
  <2>3. DOMAIN u = 1 .. Len(u) /\ Len(u) \in Nat
    BY <2>1
  <2> DEFINE e == [i \in 1 .. Len(u) |-> IF i = index + 1 THEN c ELSE u[i]]
  <2>4. e \in Seq(Nat) /\ Len(e) = Len(u)
    BY <1>4, <2>2, <2>3
  <2>5. chars = e
    BY <2>3 DEF u
  <2> HIDE DEF e, chars
  <2> QED BY <2>4, <2>5 DEF u
<1> HIDE DEF d, chars, grows, b
<1>8. d \in Seq(Nat)
  BY <1>5, StrlenIs
<1>9. Good(d, chars, dataLength[x], x \in spoiled, x \in stale)
  BY <1>5, <1>6, <1>7, <1>8, StringsFacts DEF Good
<1>10. CASE grows
  <2>1. text' \in [Variables -> Seq(Nat)] /\ text'[x] = chars /\ \A v \in Variables \ {x} : text'[v] = text[v]
    BY <1>1, <1>7, StepIs
  <2>2. Fresh(x, d) /\ spoiled' = spoiled
    BY <1>1, <1>10
  <2>3. Kept(x)
    BY <1>1, <2>1, <2>2, SetsTyped DEF Kept
  <2>4. Good(d, text'[x], dataLength'[x], x \in spoiled', x \in stale')
    BY <1>1, <1>9, <2>1, <2>2
  <2> QED BY <2>2, <2>3, <2>4, StringRenewed
<1>11. CASE ~grows
  <2>1. InPlace(x, d)
    BY <1>1, <1>11
  <2>2. stale' \subseteq Variables /\ \A y \in Variables \ {x} : y \in stale' <=> y \in stale
    BY <1>1, SetsTyped
  <2>3. Good(d, chars, dataLength[x], x \in spoiled, x \in stale')
    BY <1>1, <1>9
  <2> QED BY <1>1, <1>7, <2>1, <2>2, <2>3, StringChanged
<1> QED BY <1>10, <1>11

LEMMA GetsLength ==
  ASSUME StringsInv, NEW x \in Variables, GetLength(x)
  PROVE  StringsInv'
<1>1. /\ Step(x, text[x]) /\ dataLength' = [dataLength EXCEPT ![x] = Length(x)]
      /\ buffer' = buffer /\ heap' = heap /\ spoiled' = spoiled /\ stale' = stale
  BY DEF GetLength
<1>2. Length(x) \in Nat /\ (x \notin spoiled /\ x \notin stale => Length(x) = Len(text[x]))
  BY LengthGives
<1>3. dataLength' \in [Variables -> Nat] /\ dataLength'[x] = Length(x) /\ \A v \in Variables \ {x} : dataLength'[v] = dataLength[v]
  BY <1>1, <1>2, LengthSet
<1>4. text' \in [Variables -> Seq(Nat)] /\ \A v \in Variables : text'[v] = text[v]
  <2>1. text' \in [Variables -> Seq(Nat)] /\ text'[x] = text[x] /\ \A v \in Variables \ {x} : text'[v] = text[v]
    BY <1>1, StringsFacts, StepIs
  <2> QED BY <2>1
<1>5. StringsType'
  BY <1>1, <1>3, <1>4 DEF StringsInv, StringsType
<1>6. ASSUME NEW v \in Variables PROVE Good(heap'[buffer'[v]], text'[v], dataLength'[v], v \in spoiled', v \in stale')
  <2>1. Good(heap[buffer[v]], text[v], dataLength[v], v \in spoiled, v \in stale)
    BY StringsFacts DEF Holds, Bytes
  <2>2. CASE v = x
    BY <1>1, <1>2, <1>3, <1>4, <2>1, <2>2 DEF Good
  <2>3. CASE v # x
    BY <1>1, <1>3, <1>4, <2>1, <2>3 DEF Good
  <2> QED BY <2>2, <2>3
<1> QED BY <1>5, <1>6, StringsContinue

\* What a cut leaves: every buffer can still be read, and whoever is not marked has the bytes it had.
CutBack(all, marked) ==
  /\ all \in [Buffers -> Seq(Nat)] /\ spoiled \subseteq marked /\ marked \subseteq Variables
  /\ \A v \in Variables : Readable(all[buffer[v]]) /\ (v \notin marked => all[buffer[v]] = Bytes(v))

LEMMA NotCut ==
  ASSUME StringsInv
  PROVE  CutBack(heap, spoiled)
<1>1. heap \in [Buffers -> Seq(Nat)] /\ spoiled \subseteq Variables
  BY DEF StringsInv, StringsType
<1>2. \A v \in Variables : Readable(heap[buffer[v]]) /\ heap[buffer[v]] = Bytes(v)
  BY StringsFacts DEF Bytes
<1> QED BY <1>1, <1>2 DEF CutBack

LEMMA CutGives ==
  ASSUME StringsInv, NEW y \in Variables, NEW k \in Nat, NEW all, all = [heap EXCEPT ![buffer[y]] = Truncated(@, k)]
  PROVE  /\ CutBack(all, spoiled \cup Sharing(y) \cup {y})
         /\ all[buffer[y]] = Truncated(Bytes(y), k) /\ Readable(Truncated(Bytes(y), k))
         /\ y \notin spoiled => Reads(Truncated(Bytes(y), k), First(text[y], k))
<1> DEFINE b == Truncated(Bytes(y), k)
<1>1. PICK t, w : Spelling(Bytes(y), t, w) /\ (y \notin spoiled => t = text[y])
  BY StringSpells
<1>2. Reads(b, First(t, k))
  BY <1>1, TruncateReads
<1>3. Readable(b) /\ (y \notin spoiled => Reads(b, First(text[y], k)))
  BY <1>1, <1>2, ReadsReadable
<1>4. b \in Seq(Nat)
  BY <1>3, StrlenIs
<1>5. all = [heap EXCEPT ![buffer[y]] = b]
  BY DEF Bytes
<1> HIDE DEF b
<1>6. buffer[y] \in Buffers
  BY StringsFacts
<1>7. all \in [Buffers -> Seq(Nat)] /\ all[buffer[y]] = b /\ \A d \in Buffers : d # buffer[y] => all[d] = heap[d]
  <2> DEFINE S == Seq(Nat)
  <2>1. heap \in [Buffers -> S] /\ b \in S
    BY <1>4 DEF StringsInv, StringsType
  <2> HIDE DEF S
  <2>2. all \in [Buffers -> S] /\ all[buffer[y]] = b /\ \A d \in Buffers : d # buffer[y] => all[d] = heap[d]
    BY <1>5, <1>6, <2>1
  <2> QED BY <2>2 DEF S
<1>8. spoiled \cup Sharing(y) \cup {y} \subseteq Variables
  BY SetsTyped DEF Sharing
<1>9. ASSUME NEW v \in Variables
      PROVE  Readable(all[buffer[v]]) /\ (v \notin spoiled \cup Sharing(y) \cup {y} => all[buffer[v]] = Bytes(v))
  <2>1. buffer[v] \in Buffers /\ Readable(Bytes(v)) /\ Bytes(v) = heap[buffer[v]]
    BY StringsFacts DEF Bytes
  <2>2. CASE buffer[v] = buffer[y]
    BY <1>3, <1>7, <2>2 DEF Sharing
  <2>3. CASE buffer[v] # buffer[y]
    BY <1>7, <2>1, <2>3
  <2> QED BY <2>2, <2>3
<1>10. CutBack(all, spoiled \cup Sharing(y) \cup {y})
  BY <1>7, <1>8, <1>9 DEF CutBack
<1> QED BY <1>3, <1>7, <1>10 DEF b

\* Whatever a cut leaves to a String, and whether or not its length is now cached
LEMMA StringLeft ==
  ASSUME StringsInv, NEW all, NEW marked, CutBack(all, marked), NEW aged, stale \subseteq aged,
         NEW v \in Variables, NEW n \in {dataLength[v], Length(v)}
  PROVE  Good(all[buffer[v]], text[v], n, v \in marked, v \in aged)
<1>1. all \in [Buffers -> Seq(Nat)] /\ Readable(all[buffer[v]]) /\ (v \notin marked => v \notin spoiled /\ all[buffer[v]] = Bytes(v))
  BY DEF CutBack
<1>2. text[v] \in Seq(Nat) /\ dataLength[v] \in Nat /\ (v \notin spoiled => Reads(Bytes(v), text[v]))
  BY StringsFacts
<1>3. v \notin spoiled /\ v \notin stale => dataLength[v] = 0 \/ dataLength[v] = Len(text[v])
  BY StringsFacts
<1>4. Length(v) \in Nat /\ (v \notin spoiled /\ v \notin stale => Length(v) = Len(text[v]))
  BY LengthGives
<1>5. all[buffer[v]] \in Seq(Nat) /\ n \in Nat
  BY <1>1, <1>2, <1>4, StrlenIs
<1>6. v \notin marked => Reads(all[buffer[v]], text[v])
  BY <1>1, <1>2
<1>7. v \notin marked /\ v \notin aged => n = 0 \/ n = Len(text[v])
  BY <1>1, <1>3, <1>4
<1> QED BY <1>1, <1>2, <1>5, <1>6, <1>7 DEF Good

\* String x changes, after a cut of another.
LEMMA StringTaken ==
  ASSUME StringsInv, NEW x \in Variables, NEW chars \in Seq(Nat), Step(x, chars),
         NEW all, NEW marked, CutBack(all, marked), NEW aged \in SUBSET Variables, stale \subseteq aged,
         NEW lengths \in [Variables -> Nat], \A v \in Variables : lengths[v] \in {dataLength[v], Length(v)},
         NEW n \in Nat, dataLength' = [lengths EXCEPT ![x] = n],
         NEW p, spoiled' = Marked(marked, x, p), NEW q, stale' = Marked(aged, x, q),
         buffer' \in [Variables -> Buffers], heap' \in [Buffers -> Seq(Nat)],
         \A v \in Variables \ {x} : heap'[buffer'[v]] = all[buffer[v]],
         Good(heap'[buffer'[x]], chars, n, p, q)
  PROVE  StringsInv'
<1>1. text' \in [Variables -> Seq(Nat)] /\ text'[x] = chars /\ \A v \in Variables \ {x} : text'[v] = text[v]
  BY StepIs
<1>2. dataLength' \in [Variables -> Nat] /\ dataLength'[x] = n /\ \A v \in Variables \ {x} : dataLength'[v] = lengths[v]
  OBVIOUS
<1>3. marked \subseteq Variables
  BY DEF CutBack
<1>4. spoiled' \subseteq Variables /\ (x \in spoiled' <=> p) /\ \A v \in Variables \ {x} : v \in spoiled' <=> v \in marked
  BY <1>3, MarkedIs
<1>5. stale' \subseteq Variables /\ (x \in stale' <=> q) /\ \A v \in Variables \ {x} : v \in stale' <=> v \in aged
  <2>1. aged \subseteq Variables
    OBVIOUS
  <2> QED BY <2>1, MarkedIs
<1>6. StringsType'
  BY <1>1, <1>2, <1>4, <1>5 DEF StringsType
<1>7. ASSUME NEW v \in Variables PROVE Good(heap'[buffer'[v]], text'[v], dataLength'[v], v \in spoiled', v \in stale')
  <2>1. CASE v = x
    BY <1>1, <1>2, <1>4, <1>5, <2>1 DEF Good
  <2>2. CASE v # x
    <3>1. Good(all[buffer[v]], text[v], lengths[v], v \in marked, v \in aged)
      BY StringLeft
    <3>2. heap'[buffer'[v]] = all[buffer[v]] /\ text'[v] = text[v] /\ dataLength'[v] = lengths[v]
      BY <1>1, <1>2, <2>2
    <3>3. (v \in spoiled' <=> v \in marked) /\ (v \in stale' <=> v \in aged)
      BY <1>4, <1>5, <2>2
    <3> QED BY <3>1, <3>2, <3>3 DEF Good
  <2> QED BY <2>1, <2>2
<1> QED BY <1>6, <1>7, StringsContinue

LEMMA Assigns ==
  ASSUME StringsInv, NEW x \in Variables, NEW y \in Variables, Assign(x, y)
  PROVE  StringsInv'
<1> DEFINE n == dataLength[y]
           p == y \in spoiled
           q == y \in stale
<1>1. /\ Step(x, text[y]) /\ buffer' = [buffer EXCEPT ![x] = buffer[y]] /\ dataLength' = [dataLength EXCEPT ![x] = n]
      /\ spoiled' = Marked(spoiled, x, p) /\ stale' = Marked(stale, x, q) /\ heap' = heap
  BY DEF Assign
<1>2. /\ text[y] \in Seq(Nat) /\ n \in Nat /\ buffer[y] \in Buffers
      /\ buffer \in [Variables -> Buffers] /\ heap \in [Buffers -> Seq(Nat)]
      /\ dataLength \in [Variables -> Nat] /\ stale \in SUBSET Variables
  BY StringsFacts DEF StringsInv, StringsType
<1>3. buffer' \in [Variables -> Buffers] /\ buffer'[x] = buffer[y] /\ \A v \in Variables \ {x} : buffer'[v] = buffer[v]
  BY <1>1, <1>2
<1>4. Good(heap[buffer[y]], text[y], n, p, q)
  BY StringsFacts DEF Holds, Bytes
<1> HIDE DEF n, p, q
<1>5. Good(heap'[buffer'[x]], text[y], n, p, q) /\ \A v \in Variables \ {x} : heap'[buffer'[v]] = heap[buffer[v]]
  BY <1>1, <1>3, <1>4
<1>6. heap' \in [Buffers -> Seq(Nat)] /\ \A v \in Variables : dataLength[v] \in {dataLength[v], Length(v)}
  BY <1>1, <1>2
<1> QED BY <1>1, <1>2, <1>3, <1>5, <1>6, NotCut, StringTaken

LEMMA FilePaths ==
  ASSUME StringsInv, NEW x \in Variables, NEW y \in Variables, FilePath(x, y)
  PROVE  StringsInv'
<1> DEFINE n == Length(y)
           cut == n # 0 /\ LastIndexOf(Bytes(y), Separators) = n - 1
           chars == IF cut THEN First(text[y], n - 1) ELSE text[y]
           all == IF cut THEN [heap EXCEPT ![buffer[y]] = Truncated(@, n - 1)] ELSE heap
           marked == IF cut THEN spoiled \cup Sharing(y) \cup {y} ELSE spoiled
           p == y \in spoiled \cup stale
           q == cut \/ y \in stale
<1>1. /\ Step(x, chars) /\ buffer' = [buffer EXCEPT ![x] = buffer[y]] /\ heap' = all
      /\ dataLength' = [dataLength EXCEPT ![x] = n] /\ spoiled' = Marked(marked, x, p) /\ stale' = Marked(stale, x, q)
  BY DEF FilePath
<1>2. n \in Nat /\ (~p => n = Len(text[y]))
  BY LengthGives
<1>3. text[y] \in Seq(Nat) /\ buffer[y] \in Buffers /\ (y \notin spoiled => Reads(Bytes(y), text[y])) /\ Readable(Bytes(y))
  BY StringsFacts
<1> HIDE DEF n
<1>4. CutBack(all, marked) /\ chars \in Seq(Nat) /\ Readable(all[buffer[y]]) /\ (~p => Reads(all[buffer[y]], chars))
  <2>1. CASE cut
    <3>1. n - 1 \in Nat
      BY <1>2, <2>1
    <3> DEFINE b == Truncated(Bytes(y), n - 1)
               h == [heap EXCEPT ![buffer[y]] = Truncated(@, n - 1)]
    <3>2. /\ CutBack(h, spoiled \cup Sharing(y) \cup {y}) /\ h[buffer[y]] = b /\ Readable(b)
          /\ y \notin spoiled => Reads(b, First(text[y], n - 1))
      BY <3>1, CutGives
    <3>3. First(text[y], n - 1) \in Seq(Nat)
      BY <1>3, <3>1, FirstIs
    <3>4. all = h /\ marked = spoiled \cup Sharing(y) \cup {y} /\ chars = First(text[y], n - 1)
      BY <2>1
    <3> HIDE DEF all, marked, chars, h, cut
    <3> QED BY <3>2, <3>3, <3>4
  <2>2. CASE ~cut
    <3>1. all = heap /\ marked = spoiled /\ chars = text[y]
      BY <2>2
    <3> HIDE DEF all, marked, chars, cut
    <3> QED BY <1>3, <3>1, NotCut DEF Bytes
  <2> QED BY <2>1, <2>2
<1>5. ~p /\ ~q => n = Len(chars)
  BY <1>2
<1> HIDE DEF all, marked, chars, cut, p, q
<1>6. all[buffer[y]] \in Seq(Nat)
  BY <1>4, StrlenIs
<1>7. Good(all[buffer[y]], chars, n, p, q)
  BY <1>2, <1>4, <1>5, <1>6 DEF Good
<1>8. /\ buffer \in [Variables -> Buffers] /\ all \in [Buffers -> Seq(Nat)]
      /\ dataLength \in [Variables -> Nat] /\ stale \in SUBSET Variables
  BY <1>4 DEF StringsInv, StringsType, CutBack
<1>9. buffer' \in [Variables -> Buffers] /\ buffer'[x] = buffer[y] /\ \A v \in Variables \ {x} : buffer'[v] = buffer[v]
  BY <1>1, <1>3, <1>8
<1>10. Good(heap'[buffer'[x]], chars, n, p, q) /\ heap' \in [Buffers -> Seq(Nat)]
       /\ \A v \in Variables \ {x} : heap'[buffer'[v]] = all[buffer[v]]
  BY <1>1, <1>7, <1>8, <1>9
<1>11. \A v \in Variables : dataLength[v] \in {dataLength[v], Length(v)}
  OBVIOUS
<1> QED BY <1>1, <1>2, <1>4, <1>8, <1>9, <1>10, <1>11, StringTaken

\* After what has no zero byte comes what a path goes on with.
LEMMA WholeGives ==
  ASSUME NEW b, Readable(b), \A i \in 1 .. Len(b) - 1 : b[i] # 0
  PROVE  Whole(b)
<1> DEFINE y == Strlen(b)
<1>1. b \in Seq(Nat) /\ Len(b) \in Nat /\ y \in Nat /\ y < Len(b) /\ b[y + 1] = 0
  BY StrlenIs
<1> HIDE DEF y
<1>2. y + 1 \notin 1 .. Len(b) - 1
  BY <1>1
<1>3. y = Len(b) - 1
  BY <1>1, <1>2
<1> QED BY <1>3 DEF y, Whole, GetSize

LEMMA SeparatorReads ==
  Reads(<<Separator, 0>>, <<Separator>>)
<1> DEFINE m == <<Separator>>
<1>1. Separator \in CodePoints /\ Separator = 47
  BY SMT DEF Separator, CodePoints
<1>2. SizeOf(47) = 1
  BY SMT DEF SizeOf
<1>3. UTF8EncodeCharacter(47)[1] = 47
  <2>1. UTF8EncodeCharacter(47)[1] = Header[1] + ((47 \div Place[1]) % Mask[1])
    BY <1>2 DEF UTF8EncodeCharacter
  <2>2. Header[1] = 0 /\ Place[1] = 1 /\ Mask[1] = 128
    BY DEF Header, Place, Mask
  <2>3. 47 \div 1 = 47 /\ 47 % 128 = 47
    OBVIOUS
  <2> QED BY <2>1, <2>2, <2>3
<1>4. m \in Seq(Nat) /\ Len(m) = 1 /\ m[1] = 47
  BY <1>1
<1>5. At(m, 0, <<47>>, Len(m))
  <2>1. 2 .. Len(m) = {}
    BY <1>4
  <2> HIDE DEF m
  <2>2. Len(m) = SizeOf(47) /\ m[1] = UTF8EncodeCharacter(47)[1] /\ 47 \in CodePoints
    BY <1>1, <1>2, <1>3, <1>4
  <2>3. \A i \in 2 .. Len(m) : Digit(m[i]) = UTF8EncodeCharacter(47)[i]
    BY <2>1
  <2> QED BY <1>4, <2>2, <2>3, AtCharacter
<1>6. Reads(m \o <<0>>, <<47>>)
  BY <1>5, ReadsEnded
<1>7. m \o <<0>> = <<Separator, 0>>
  <2> DEFINE z == <<0>>
             d == <<Separator, 0>>
             e == m \o z
  <2>1. z \in Seq(Nat) /\ Len(z) = 1 /\ z[1] = 0 /\ d = [i \in 1 .. 2 |-> IF i = 1 THEN m[1] ELSE 0]
    BY <1>1, <1>4
  <2>2. e \in Seq(Nat) /\ Len(e) = 2 /\ e[1] = m[1] /\ e[2] = 0
    <3>1. /\ m \o z \in Seq(Nat) /\ Len(m \o z) = Len(m) + Len(z)
          /\ (\A i \in 1 .. Len(m) : (m \o z)[i] = m[i]) /\ \A i \in 1 .. Len(z) : (m \o z)[Len(m) + i] = z[i]
      <4>1. m \in Seq(Nat) /\ z \in Seq(Nat)
        BY <1>4, <2>1
      <4> HIDE DEF m, z, d, e
      <4> QED BY <4>1, ConcatGives
    <3> HIDE DEF m, z
    <3> QED BY <1>4, <2>1, <3>1
  <2> HIDE DEF m, z, d, e
  <2>3. e = [i \in 1 .. 2 |-> e[i]]
    BY <2>2
  <2>4. e = d
    BY <2>1, <2>2, <2>3
  <2> QED BY <2>4 DEF d, e, z
<1> QED BY <1>1, <1>6, <1>7

\* A directory, a separator and a name
LEMMA JoinedReads ==
  ASSUME NEW b, NEW c
  PROVE  /\ Readable(b) /\ Readable(c) => Readable(Plus(Plus(b, <<Separator, 0>>), c))
         /\ \A s, t : Reads(b, s) /\ Whole(b) /\ Reads(c, t)
                        => Reads(Plus(Plus(b, <<Separator, 0>>), c), s \o <<Separator>> \o t)
<1> DEFINE z == <<Separator, 0>>
           e == Plus(b, z)
<1>1. Reads(z, <<Separator>>) /\ Readable(z)
  BY SeparatorReads, ReadsReadable
<1>2. Readable(b) => Readable(e)
  <2> HIDE DEF z
  <2> QED BY <1>1, PlusReads
<1>3. Readable(b) /\ Readable(c) => Readable(Plus(e, c))
  <2> HIDE DEF e
  <2> QED BY <1>2, PlusReads
<1>4. ASSUME NEW s, NEW t, Reads(b, s), Whole(b), Reads(c, t) PROVE Reads(Plus(e, c), (s \o <<Separator>>) \o t)
  <2> DEFINE u == s \o <<Separator>>
  <2>1. Reads(e, u)
    <3> HIDE DEF z
    <3> QED BY <1>1, <1>4, PlusReads
  <2>2. Whole(e)
    <3>1. /\ b \in Seq(Nat) /\ Len(b) \in Nat /\ Len(b) >= 1 /\ Strlen(b) = Len(b) - 1
          /\ \A i \in 1 .. Len(b) - 1 : b[i] # 0
      <4>1. Readable(b)
        BY <1>4, ReadsReadable
      <4> QED BY <1>4, <4>1, StrlenIs DEF Whole, GetSize
    <3> DEFINE f == Strncpy(b, GetSize(b))
               k == Len(b) - 1
    <3>2. f = [i \in 1 .. k |-> b[i]] /\ k \in Nat
      <4>1. k \in Nat /\ GetSize(b) = k
        BY <3>1 DEF GetSize
      <4>2. f = [i \in 1 .. k |-> IF i <= Strlen(b) THEN b[i] ELSE 0]
        BY <4>1 DEF Strncpy
      <4>3. \A i \in 1 .. k : i <= Strlen(b)
        BY <3>1
      <4> HIDE DEF f
      <4> QED BY <4>1, <4>2, <4>3
    <3> HIDE DEF f
    <3>3. f \in Seq(Nat) /\ Len(f) = k /\ \A i \in 1 .. k : f[i] # 0
      <4>1. \A i \in 1 .. k : b[i] \in Nat /\ b[i] # 0
        BY <3>1
      <4> HIDE DEF k
      <4> QED BY <3>2, <4>1
    <3> HIDE DEF k
    <3>4. z \in Seq(Nat) /\ Len(z) = 2 /\ z[1] # 0
      BY DEF Separator
    <3>5. e = f \o z
      BY DEF f, Plus
    <3> HIDE DEF z
    <3>6. /\ Len(e) = k + 2 /\ (\A i \in 1 .. k : e[i] = f[i]) /\ e[k + 1] = z[1]
      <4>1. /\ Len(f \o z) = Len(f) + Len(z) /\ (\A i \in 1 .. Len(f) : (f \o z)[i] = f[i])
            /\ \A i \in 1 .. Len(z) : (f \o z)[Len(f) + i] = z[i]
        <5>1. f \in Seq(Nat) /\ z \in Seq(Nat)
          BY <3>3, <3>4
        <5> HIDE DEF e
        <5> QED BY <5>1, ConcatGives
      <4>2. 1 \in 1 .. Len(z)
        BY <3>4
      <4> HIDE DEF e
      <4> QED BY <3>3, <3>4, <3>5, <4>1, <4>2
    <3> HIDE DEF e
    <3>7. \A i \in 1 .. Len(e) - 1 : e[i] # 0
      <4>1. ASSUME NEW i \in 1 .. Len(e) - 1 PROVE i \in 1 .. k \/ i = k + 1
        BY <3>2, <3>6
      <4> QED BY <3>3, <3>4, <3>6, <4>1
    <3>8. Readable(e)
      BY <2>1, ReadsReadable
    <3> QED BY <3>7, <3>8, WholeGives
  <2> HIDE DEF e, u
  <2>3. Reads(Plus(e, c), u \o t)
    BY <1>4, <2>1, <2>2, PlusReads
  <2> QED BY <2>3 DEF u
<1> QED BY <1>3, <1>4

LEMMA Combines ==
  ASSUME StringsInv, NEW x \in Variables, NEW y \in Variables, NEW z \in Variables, Combine(x, y, z)
  PROVE  StringsInv'
<1> DEFINE n == Length(z)
           both == n # 0 /\ Length(y) # 0
           cut == both /\ LastIndexOf(Bytes(z), Separators) = n - 1
           after == IF cut THEN [heap EXCEPT ![buffer[z]] = Truncated(@, n - 1)] ELSE heap
           rooted == both /\ IsPathRooted(after[buffer[z]])
           joined == both /\ ~rooted
           source == IF n = 0 THEN y ELSE z
           cached == [w \in Variables |-> IF w = z \/ (w = y /\ n # 0) THEN Length(w) ELSE dataLength[w]]
           chars == IF joined THEN text[y] \o <<Separator>> \o text[z] ELSE text[source]
           bytes == Plus(Plus(after[buffer[y]], <<Separator, 0>>), after[buffer[z]])
           m == IF joined THEN 0 ELSE cached[source]
           marked == IF cut THEN spoiled \cup Sharing(z) \cup {z} ELSE spoiled
           aged == IF cut THEN stale \cup {z} ELSE stale
           p == {y, z} \cap (spoiled \cup stale) # {} \/ cut \/ (joined /\ ~Whole(Bytes(y)))
           q == ~joined /\ (cut \/ source \in stale)
<1>1. /\ Step(x, chars)
      /\ joined => FreshIn(after, x, bytes)
      /\ ~joined => buffer' = [buffer EXCEPT ![x] = buffer[source]] /\ heap' = after
      /\ dataLength' = [cached EXCEPT ![x] = m]
      /\ spoiled' = Marked(marked, x, p) /\ stale' = Marked(aged, x, q)
  BY DEF Combine
<1>2. /\ n \in Nat /\ Length(y) \in Nat /\ (z \notin spoiled /\ z \notin stale => n = Len(text[z]))
  BY LengthGives
<1>3. /\ cached \in [Variables -> Nat] /\ (\A v \in Variables : cached[v] \in {dataLength[v], Length(v)})
  <2>1. \A v \in Variables : dataLength[v] \in Nat /\ Length(v) \in Nat
    BY StringsFacts, LengthGives
  <2> HIDE DEF n
  <2> QED BY <2>1
<1>4. source \in {y, z} /\ source \in Variables
  OBVIOUS
<1> HIDE DEF n, cached, source
<1>5. /\ CutBack(after, marked) /\ (~cut => after = heap)
      /\ stale \subseteq aged /\ aged \in SUBSET Variables
  <2>1. CASE cut
    <3>1. n - 1 \in Nat
      BY <1>2, <2>1
    <3>2. after = [heap EXCEPT ![buffer[z]] = Truncated(@, n - 1)] /\ marked = spoiled \cup Sharing(z) \cup {z} /\ aged = stale \cup {z}
      BY <2>1
    <3> HIDE DEF after, marked, aged
    <3>3. CutBack(after, marked)
      BY <3>1, <3>2, CutGives
    <3> QED BY <2>1, <3>2, <3>3, SetsTyped
  <2>2. CASE ~cut
    <3>1. after = heap /\ marked = spoiled /\ aged = stale
      BY <2>2
    <3> HIDE DEF after, marked, aged
    <3> QED BY <3>1, NotCut, SetsTyped
  <2> QED BY <2>1, <2>2
<1> HIDE DEF after, marked, aged, cut, rooted
<1>6. Readable(after[buffer[y]]) /\ Readable(after[buffer[z]]) /\ after \in [Buffers -> Seq(Nat)]
  BY <1>5 DEF CutBack
<1>7. /\ text[y] \in Seq(Nat) /\ text[z] \in Seq(Nat) /\ text[source] \in Seq(Nat) /\ <<Separator>> \in Seq(Nat)
      /\ buffer[source] \in Buffers /\ Readable(after[buffer[source]])
  BY <1>4, <1>6, StringsFacts DEF Separator
<1>8. chars \in Seq(Nat) /\ m \in Nat
  <2>1. text[y] \o <<Separator>> \o text[z] \in Seq(Nat)
    BY <1>7
  <2> QED BY <1>3, <1>4, <1>7, <2>1
<1>9. buffer \in [Variables -> Buffers] /\ StringsType
  BY DEF StringsInv, StringsType
<1>10. CASE joined
  <2>1. chars = text[y] \o <<Separator>> \o text[z] /\ m = 0 /\ FreshIn(after, x, bytes)
    BY <1>1, <1>10
  <2>2. Readable(bytes)
    BY <1>6, JoinedReads
  <2>3. ASSUME ~p PROVE Reads(bytes, chars)
    <3>1. y \notin spoiled /\ z \notin spoiled /\ ~cut /\ Whole(Bytes(y))
      BY <1>10, <2>3
    <3>2. after[buffer[y]] = Bytes(y) /\ after[buffer[z]] = Bytes(z)
      BY <1>5, <3>1 DEF Bytes
    <3>3. Reads(Bytes(y), text[y]) /\ Reads(Bytes(z), text[z])
      BY <3>1, StringsFacts
    <3>4. Reads(Plus(Plus(Bytes(y), <<Separator, 0>>), Bytes(z)), text[y] \o <<Separator>> \o text[z])
      BY <3>1, <3>3, JoinedReads
    <3> QED BY <2>1, <3>2, <3>4
  <2> HIDE DEF bytes, p, q, chars, m
  <2>4. bytes \in Seq(Nat)
    BY <2>2, StrlenIs
  <2>5. /\ buffer' \in [Variables -> Buffers] /\ heap' \in [Buffers -> Seq(Nat)]
        /\ heap'[buffer'[x]] = bytes /\ \A v \in Variables \ {x} : heap'[buffer'[v]] = after[buffer[v]]
    BY <1>6, <1>9, <2>1, <2>4, FreshGives
  <2>6. Good(heap'[buffer'[x]], chars, m, p, q)
    BY <1>8, <2>1, <2>2, <2>3, <2>4, <2>5 DEF Good
  <2> QED BY <1>1, <1>3, <1>5, <1>8, <2>5, <2>6, StringTaken
<1>11. CASE ~joined
  <2>1. chars = text[source] /\ m = cached[source] /\ buffer' = [buffer EXCEPT ![x] = buffer[source]] /\ heap' = after
    BY <1>1, <1>11
  <2>2. ASSUME ~p PROVE source \notin spoiled /\ source \notin stale /\ ~cut
    BY <1>4, <2>2
  <2> HIDE DEF p, q, chars, m, joined
  <2>3. buffer' \in [Variables -> Buffers] /\ buffer'[x] = buffer[source] /\ \A v \in Variables \ {x} : buffer'[v] = buffer[v]
    BY <1>7, <1>9, <2>1
  <2>4. heap' \in [Buffers -> Seq(Nat)] /\ \A v \in Variables \ {x} : heap'[buffer'[v]] = after[buffer[v]]
    BY <1>6, <2>1, <2>3
  <2>5. ASSUME ~p PROVE Reads(after[buffer[source]], chars) /\ (m = 0 \/ m = Len(chars))
    <3>1. after[buffer[source]] = Bytes(source)
      BY <1>5, <2>2, <2>5 DEF Bytes
    <3>2. Reads(Bytes(source), text[source]) /\ (dataLength[source] = 0 \/ dataLength[source] = Len(text[source]))
      BY <1>4, <2>2, <2>5, StringsFacts
    <3>3. Length(source) = Len(text[source])
      BY <1>4, <2>2, <2>5, LengthGives
    <3>4. m \in {dataLength[source], Length(source)}
      BY <1>3, <1>4, <2>1
    <3> QED BY <2>1, <3>1, <3>2, <3>3, <3>4
  <2>6. after[buffer[source]] \in Seq(Nat)
    BY <1>7, StrlenIs
  <2>7. Good(after[buffer[source]], chars, m, p, q)
    BY <1>7, <1>8, <2>5, <2>6 DEF Good
  <2>8. Good(heap'[buffer'[x]], chars, m, p, q)
    BY <2>1, <2>3, <2>7
  <2> QED BY <1>1, <1>3, <1>5, <1>8, <2>3, <2>4, <2>8, StringTaken
<1> QED BY <1>10, <1>11

LEMMA NothingReads ==
  Reads(<<0>>, << >>)
<1> DEFINE m == << >>
           z == <<0>>
<1>1. m \in Seq(Nat) /\ Len(m) = 0 /\ m \o z = z
  OBVIOUS
<1>2. At(m, 0, m, Len(m))
  <2>1. m \in Seq(Nat) /\ 0 \in Nat /\ 0 <= Len(m) /\ m = << >> /\ Len(m) = 0
    BY <1>1
  <2> HIDE DEF m
  <2>2. At(m, 0, << >>, 0)
    BY <2>1, AtNone
  <2> QED BY <2>1, <2>2
<1>3. Reads(m \o z, m)
  BY <1>2, ReadsEnded
<1> QED BY <1>1, <1>3

LEMMA StringsStart ==
  ASSUME StringsInit
  PROVE  StringsInv
<1>1. 0 \in Buffers
  BY StringsBounds, FS_CardinalityType DEF Buffers
<1>2. Readable(<<0>>) /\ Reads(<<0>>, << >>)
  BY NothingReads, ReadsReadable
<1>3. <<0>> \in Seq(Nat) /\ << >> \in Seq(Nat) /\ 0 \in Nat
  OBVIOUS
<1>4. StringsType
  <2> DEFINE S == Seq(Nat)
             z == <<0>>
             e == << >>
  <2>1. z \in S /\ e \in S
    BY <1>3
  <2>2. heap = [d \in Buffers |-> z] /\ text = [x \in Variables |-> e]
    BY DEF StringsInit
  <2> HIDE DEF S, z, e
  <2>3. heap \in [Buffers -> S] /\ text \in [Variables -> S]
    BY <2>1, <2>2
  <2> QED BY <1>1, <2>3 DEF StringsInit, StringsType, S
<1>5. ASSUME NEW x \in Variables PROVE Holds(x)
  <2>1. Bytes(x) = <<0>> /\ text[x] = << >> /\ dataLength[x] = 0
    BY <1>1 DEF StringsInit, Bytes
  <2> QED BY <1>2, <1>3, <2>1 DEF Holds, Good
<1> QED BY <1>4, <1>5 DEF StringsInv

LEMMA StringsStep ==
  ASSUME StringsInv, [StringsNext]_stringVars
  PROVE  StringsInv'
<1>1. CASE UNCHANGED stringVars
  BY <1>1 DEF stringVars, StringsInv, StringsType, Holds, Bytes, Good
<1>2. ASSUME NEW x \in Variables, NEW t \in BoundedSeq(Characters, 2), Construct(x, t) PROVE StringsInv'
  BY <1>2, Constructs
<1>3. ASSUME NEW x \in Variables, NEW c \in Characters, NEW n \in 1 .. 2, Repeat(x, c, n) PROVE StringsInv'
  BY <1>3, Repeats
<1>4. ASSUME NEW x \in Variables, NEW y \in Variables, Assign(x, y) PROVE StringsInv'
  BY <1>4, Assigns
<1>5. ASSUME NEW x \in Variables, NEW y \in Variables, AppendString(x, y) PROVE StringsInv'
  BY <1>5, Appends
<1>6. ASSUME NEW x \in Variables, NEW y \in Variables, FilePath(x, y) PROVE StringsInv'
  BY <1>6, FilePaths
<1>7. ASSUME NEW x \in Variables, NEW y \in Variables, NEW z \in Variables, Concatenate(x, y, z) PROVE StringsInv'
  BY <1>7, Concatenates
<1>8. ASSUME NEW x \in Variables, NEW y \in Variables, NEW z \in Variables, Combine(x, y, z) PROVE StringsInv'
  BY <1>8, Combines
<1>9. ASSUME NEW x \in Variables, NEW y \in Variables, NEW off \in 0 .. 1, NEW len \in {npos, 1, 2}, Substr(x, y, off, len)
      PROVE  StringsInv'
  BY <1>9, Substrs
<1>10. ASSUME NEW x \in Variables, NEW i \in 0 .. MaxCharacters, NEW c \in Characters, SetCharacter(x, i, c) PROVE StringsInv'
  <2>1. i \in Nat
    BY StringsBounds
  <2> QED BY <1>10, <2>1, SetsCharacter
<1>11. ASSUME NEW x \in Variables, NEW i \in 0 .. MaxCharacters, Truncate(x, i) PROVE StringsInv'
  <2>1. i \in Nat
    BY StringsBounds
  <2> QED BY <1>11, <2>1, Truncates
<1>12. ASSUME NEW x \in Variables, GetLength(x) PROVE StringsInv'
  BY <1>12, GetsLength
<1> QED BY <1>1, <1>2, <1>3, <1>4, <1>5, <1>6, <1>7, <1>8, <1>9, <1>10, <1>11, <1>12 DEF StringsNext

LEMMA StringsHold ==
  StringsSpec => []StringsInv
<1>1. StringsInit => StringsInv
  BY StringsStart
<1>2. StringsInv /\ [StringsNext]_stringVars => StringsInv'
  BY StringsStep
<1> QED BY <1>1, <1>2, PTL DEF StringsSpec

\* Through copies, concatenations, replacements and cuts, a String whose buffer was not changed
\* through a copy decodes to the characters that were put into it, and a length that is
\* not stale counts them, for every set of code points and of Strings.
THEOREM TextIsKept ==
  StringsSpec => []HoldsItsText
<1>1. StringsInv => HoldsItsText
  <2> SUFFICES ASSUME StringsInv, NEW x \in Variables \ spoiled
               PROVE  Decode(Bytes(x)) = text[x] /\ (x \notin stale => Length(x) = Len(text[x]))
    BY DEF HoldsItsText
  <2>1. Reads(Bytes(x), text[x])
    BY StringsFacts
  <2>2. Decode(Bytes(x)) = text[x]
    BY <2>1, DecodeGives DEF Reads
  <2> QED BY <2>2, LengthGives
<1> QED BY <1>1, StringsHold, PTL

LEMMA SplitAt ==
  ASSUME NEW t \in Seq(Nat), NEW k \in 0 .. Len(t) - 1
  PROVE  t = SubSeq(t, 1, k) \o <<t[k + 1]>> \o SubSeq(t, k + 2, Len(t))
<1> DEFINE n == Len(t)
           s == SubSeq(t, 1, k)
           c == <<t[k + 1]>>
           r == SubSeq(t, k + 2, n)
           l == s \o c
           e == l \o r
<1>1. n \in Nat /\ k \in 0 .. n /\ k + 1 \in 0 .. n /\ k + 1 \in 1 .. n /\ k + 1 + 1 = k + 2 /\ t[k + 1] \in Nat /\ DOMAIN t = 1 .. n
  OBVIOUS
<1>2. s \in Seq(Nat) /\ Len(s) = k /\ \A i \in 1 .. k : s[i] = t[i]
  BY <1>1, RestGives
<1>3. r \in Seq(Nat) /\ Len(r) = n - (k + 1) /\ \A i \in 1 .. n - (k + 1) : r[i] = t[k + 1 + i]
  <2> DEFINE j == k + 1
  <2>1. j \in 0 .. Len(t) /\ r = SubSeq(t, j + 1, Len(t))
    BY <1>1
  <2> HIDE DEF j, r
  <2>2. r \in Seq(Nat) /\ Len(r) = Len(t) - j /\ \A i \in 1 .. Len(t) - j : r[i] = t[j + i]
    BY <2>1, RestGives
  <2> QED BY <2>2 DEF j
<1>4. c \in Seq(Nat) /\ Len(c) = 1 /\ c[1] = t[k + 1]
  BY <1>1
<1> HIDE DEF s, c, r
<1>5. l \in Seq(Nat) /\ Len(l) = k + 1 /\ (\A i \in 1 .. k : l[i] = t[i]) /\ l[k + 1] = t[k + 1]
  <2>1. /\ l \in Seq(Nat) /\ Len(l) = Len(s) + Len(c) /\ (\A i \in 1 .. Len(s) : l[i] = s[i])
        /\ \A i \in 1 .. Len(c) : l[Len(s) + i] = c[i]
    <3>1. s \in Seq(Nat) /\ c \in Seq(Nat)
      BY <1>2, <1>4
    <3> HIDE DEF e
    <3> QED BY <3>1, ConcatGives
  <2> HIDE DEF l
  <2> QED BY <1>2, <1>4, <2>1
<1> HIDE DEF l
<1>6. /\ e \in Seq(Nat) /\ Len(e) = n /\ (\A i \in 1 .. k + 1 : e[i] = l[i])
      /\ \A i \in 1 .. n : i \notin 1 .. k + 1 => i - (k + 1) \in 1 .. n - (k + 1) /\ e[i] = r[i - (k + 1)]
  <2>1. /\ e \in Seq(Nat) /\ Len(e) = Len(l) + Len(r) /\ (\A i \in 1 .. Len(l) : e[i] = l[i])
        /\ \A i \in 1 .. Len(l) + Len(r) : i \notin 1 .. Len(l) => i - Len(l) \in 1 .. Len(r) /\ e[i] = r[i - Len(l)]
    <3>1. l \in Seq(Nat) /\ r \in Seq(Nat)
      BY <1>3, <1>5
    <3> QED BY <3>1, ConcatGives
  <2> HIDE DEF e
  <2>2. Len(l) + Len(r) = n
    BY <1>1, <1>3, <1>5
  <2> QED BY <1>3, <1>5, <2>1, <2>2
<1> HIDE DEF e
<1>7. ASSUME NEW i \in 1 .. n PROVE e[i] = t[i]
  <2>1. CASE i \in 1 .. k + 1
    <3>1. i \in 1 .. k \/ i = k + 1
      BY <1>1, <2>1
    <3> QED BY <1>5, <1>6, <2>1, <3>1
  <2>2. CASE i \notin 1 .. k + 1
    <3>1. k + 1 + (i - (k + 1)) = i
      BY <1>1
    <3> QED BY <1>3, <1>6, <2>2, <3>1
  <2> QED BY <2>1, <2>2
<1>8. e = [i \in 1 .. n |-> e[i]] /\ t = [i \in 1 .. n |-> t[i]]
  BY <1>1, <1>6
<1>9. e = t
  BY <1>7, <1>8
<1> QED BY <1>9 DEF e, l, s, c, r

\* What comes before a character, the character and what comes after
LEMMA Splits ==
  ASSUME NEW b, NEW t, Reads(b, t), Whole(b), NEW k \in 0 .. Len(t) - 1
  PROVE  t = Decode(Substring(b, 0, k)) \o <<t[k + 1]>> \o Decode(Substring(b, k + 1, npos))
<1>1. PICK w : Spelling(b, t, w)
  BY DEF Reads
<1>2. t \in Seq(Nat) /\ Len(t) \in Nat
  BY <1>1, SpellingFacts
<1>3. 0 \in Nat /\ k \in Nat /\ k <= Len(t) /\ k + 1 \in Nat /\ k + 1 <= Len(t) /\ 0 # npos /\ k # npos /\ k + 1 # npos
  BY <1>2 DEF npos
<1>4. Decode(Substring(b, 0, k)) = SubSeq(t, 1, k)
  <2>1. Reads(Substring(b, 0, k), Part(t, 0, k))
    BY <1>3, SubstringReads
  <2>2. Decode(Substring(b, 0, k)) = Part(t, 0, k)
    BY <2>1, DecodeGives DEF Reads
  <2>3. Skipped(0, t) = 0
    BY <1>2, <1>3 DEF Skipped, AtMost
  <2>4. SubSeq(t, 0 + 1, Len(t)) = t
    BY <1>2
  <2>5. Part(t, 0, k) = First(t, k)
    BY <1>3, <2>3, <2>4 DEF Part
  <2>6. First(t, k) = SubSeq(t, 1, k)
    BY <1>2, <1>3, FirstIs DEF AtMost
  <2> QED BY <2>2, <2>5, <2>6
<1>5. Decode(Substring(b, k + 1, npos)) = SubSeq(t, k + 2, Len(t))
  <2>1. Reads(Substring(b, k + 1, npos), Part(t, k + 1, npos))
    BY <1>3, SubstringReads
  <2>2. Decode(Substring(b, k + 1, npos)) = Part(t, k + 1, npos)
    BY <2>1, DecodeGives DEF Reads
  <2>3. Skipped(k + 1, t) = k + 1 /\ k + 1 + 1 = k + 2
    BY <1>3 DEF Skipped, AtMost
  <2> QED BY <2>2, <2>3 DEF Part
<1> QED BY <1>2, <1>4, <1>5, SplitAt

LEMMA IndicesAre ==
  ASSUME NEW b, NEW t, Reads(b, t), NEW set
  PROVE  Indices(b, set) = {i \in 0 .. Len(t) - 1 : t[i + 1] \in set} /\ Len(t) \in Nat
<1>1. PICK w : Spelling(b, t, w)
  BY DEF Reads
<1>2. Decode(b) = t /\ Len(t) \in Nat
  BY <1>1, DecodeGives, SpellingFacts
<1> QED BY <1>2 DEF Indices

LEMMA LastFound ==
  ASSUME NEW b, NEW t, Reads(b, t), NEW set
  PROVE  LastIndexOf(b, set) = npos \/ (LastIndexOf(b, set) \in 0 .. Len(t) - 1 /\ t[LastIndexOf(b, set) + 1] \in set)
<1> DEFINE I == Indices(b, set)
<1>1. I = {i \in 0 .. Len(t) - 1 : t[i + 1] \in set} /\ Len(t) \in Nat
  BY IndicesAre
<1>2. I \subseteq 0 .. Len(t)
  BY <1>1
<1>3. LastIndexOf(b, set) = IF I \ {0} = {} THEN npos ELSE Max(I)
  BY DEF LastIndexOf
<1> HIDE DEF I
<1>4. I # {} => Max(I) \in I
  BY <1>1, <1>2, GreatestOf
<1>5. LastIndexOf(b, set) = npos \/ LastIndexOf(b, set) \in I
  BY <1>3, <1>4
<1> QED BY <1>1, <1>5

LEMMA FirstFound ==
  ASSUME NEW b, NEW t, Reads(b, t), NEW set
  PROVE  FirstIndexOf(b, set) = npos \/ (FirstIndexOf(b, set) \in 0 .. Len(t) - 1 /\ t[FirstIndexOf(b, set) + 1] \in set)
<1> DEFINE I == Indices(b, set)
<1>1. I = {i \in 0 .. Len(t) - 1 : t[i + 1] \in set} /\ Len(t) \in Nat
  BY IndicesAre
<1>2. I \subseteq Nat
  BY <1>1
<1>3. FirstIndexOf(b, set) = IF I = {} THEN npos ELSE Min(I)
  BY DEF FirstIndexOf
<1> HIDE DEF I
<1>4. I # {} => Min(I) \in I
  BY <1>2, LeastOf
<1>5. FirstIndexOf(b, set) = npos \/ FirstIndexOf(b, set) \in I
  BY <1>3, <1>4
<1> QED BY <1>1, <1>5

\* The directory, a separator and the file name of every path make up the path, and the stem,
\* the dot and the extension of a file name the name, whatever bytes and characters it has.
THEOREM PathsSplit ==
  StringsSpec => []PathSplits
<1>1. StringsInv => PathSplits
  <2> SUFFICES ASSUME StringsInv, NEW x \in Variables, Whole(Bytes(x)),
                      NEW b, b = Bytes(x), NEW name, name = GetFileName(b)
               PROVE  /\ LastIndexOf(b, Separators) # npos =>
                           Decode(b) = Decode(GetDirectory(b)) \o <<Decode(b)[LastIndexOf(b, Separators) + 1]>> \o Decode(name)
                      /\ FirstIndexOf(name, {ExtensionSeparator}) # npos =>
                           Decode(name) = Decode(GetFileNameWithoutExtension(b)) \o <<ExtensionSeparator>>
                                            \o Decode(GetExtension(b))
    BY DEF PathSplits
  <2>1. PICK t, w : Spelling(b, t, w)
    BY StringsFacts DEF Readable
  <2>2. Reads(b, t) /\ Whole(b) /\ Decode(b) = t
    BY <2>1, WholeReads, DecodeGives
  <2> DEFINE l == LastIndexOf(b, Separators)
             off == NposOrAdd(l, 1)
  <2>3. l = npos \/ (l \in 0 .. Len(t) - 1 /\ t[l + 1] \in Separators)
    BY <2>2, LastFound
  <2>4. name = Substring(b, off, npos) /\ GetDirectory(b) = Substring(b, 0, l)
    BY DEF GetFileName, GetDirectory
  <2>5. Len(t) \in Nat
    BY <2>1, SpellingFacts
  <2> HIDE DEF l
  <2>6. off \in Nat \cup {npos} /\ (l # npos => off = l + 1)
    BY <2>3, <2>5 DEF NposOrAdd
  <2> HIDE DEF off
  <2>7. ASSUME l # npos PROVE t = Decode(GetDirectory(b)) \o <<t[l + 1]>> \o Decode(name)
    <3>1. l \in 0 .. Len(t) - 1 /\ name = Substring(b, l + 1, npos) /\ GetDirectory(b) = Substring(b, 0, l)
      BY <2>3, <2>4, <2>6, <2>7
    <3>2. t = Decode(Substring(b, 0, l)) \o <<t[l + 1]>> \o Decode(Substring(b, l + 1, npos))
      BY <2>2, <3>1, Splits
    <3> QED BY <3>1, <3>2
  <2> DEFINE u == Part(t, off, npos)
  <2>8. Reads(name, u) /\ Whole(name)
    BY <2>2, <2>4, <2>6, SubstringReads
  <2> HIDE DEF u
  <2>9. Decode(name) = u /\ Len(u) \in Nat
    BY <2>8, DecodeGives, SpellingFacts DEF Reads
  <2> DEFINE f == FirstIndexOf(name, {ExtensionSeparator})
  <2>10. f = npos \/ (f \in 0 .. Len(u) - 1 /\ u[f + 1] = ExtensionSeparator)
    BY <2>8, FirstFound
  <2>11. /\ GetFileNameWithoutExtension(b) = Substring(name, 0, f)
         /\ f # npos => GetExtension(b) = Substring(name, f + 1, npos)
    BY DEF GetFileNameWithoutExtension, GetExtension, NposOrAdd
  <2> HIDE DEF f
  <2>12. ASSUME f # npos
         PROVE  u = Decode(GetFileNameWithoutExtension(b)) \o <<ExtensionSeparator>> \o Decode(GetExtension(b))
    BY <2>8, <2>10, <2>11, <2>12, Splits
  <2> QED BY <2>2, <2>7, <2>9, <2>12 DEF l, f
<1> QED BY <1>1, StringsHold, PTL
=============================================================================
