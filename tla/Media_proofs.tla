---------------------------- MODULE Media_proofs ----------------------------
(***************************************************************************)
(* Theorems about the FFmpeg decoders: for any file, chunk sizes and       *)
(* sequence of calls, every packet of an open stream arrives once and in   *)
(* order, and so does every sample.  And about MidiReader: for any songs   *)
(* and sequence of calls, it reads the events that were written.           *)
(***************************************************************************)
EXTENDS Media, MidiReader, SequenceTheorems, NaturalsInduction, WellFoundedInduction, TLAPS

USE MediaAssumption

-----------------------------------------------------------------------------
(* Numbers, and what a loop computes                                       *)

LEMMA LeastOf ==
  ASSUME NEW S, S \subseteq Nat, S # {}
  PROVE  Min(S) \in S /\ \A y \in S : Min(S) <= y
<1>1. PICK m \in S : \A y \in S : ~ (<<y, m>> \in OpToRel(<, Nat))
  BY NatLessThanWellFounded, WFMin
<1>2. \A y \in S : ~(y < m)
  BY <1>1 DEF OpToRel
<1>3. \A y \in S : m <= y
  BY <1>2
<1> QED BY <1>3 DEF Min

LEMMA GreatestOf ==
  ASSUME NEW n \in Nat, NEW S, S \subseteq 0 .. n, S # {}
  PROVE  Max(S) \in S /\ \A y \in S : y <= Max(S)
<1> DEFINE R == {n - y : y \in S}
<1>1. R \subseteq Nat /\ R # {}
  <2>1. \A y \in S : n - y \in Nat
    OBVIOUS
  <2>2. PICK z \in S : TRUE
    OBVIOUS
  <2>3. n - z \in R
    BY <2>2
  <2> QED BY <2>1, <2>3
<1>2. Min(R) \in R /\ \A y \in R : Min(R) <= y
  <2> HIDE DEF R
  <2> QED BY <1>1, LeastOf
<1>3. PICK m \in S : Min(R) = n - m
  BY <1>2
<1>4. \A y \in S : y <= m
  <2> SUFFICES ASSUME NEW y \in S PROVE y <= m
    OBVIOUS
  <2>1. n - m <= n - y
    BY <1>2, <1>3
  <2> QED BY <2>1
<1> QED BY <1>4 DEF Max

LEMMA NatSetInduction ==
  ASSUME NEW S, S \subseteq Nat, 0 \in S, \A n \in S : n + 1 \in S
  PROVE  Nat \subseteq S
<1>1. SUFFICES ASSUME Nat \ S # {} PROVE FALSE
  OBVIOUS
<1>2. PICK m \in Nat \ S : \A y \in Nat \ S : ~ (<<y, m>> \in OpToRel(<, Nat))
  BY <1>1, NatLessThanWellFounded, WFMin
<1>3. \A y \in Nat \ S : ~(y < m)
  BY <1>2 DEF OpToRel
<1> QED BY <1>3

\* The turns of a loop: there is a first one and one after each.
Runs(S, step, start, n) ==
  \E g \in [0 .. n -> S] : g[0] = start /\ \A i \in 1 .. n : g[i] = step[i][g[i - 1]]

LEMMA LoopRuns ==
  ASSUME NEW S, NEW step \in [Nat -> [S -> S]], NEW start \in S, NEW n \in Nat
  PROVE  Runs(S, step, start, n)
<1> DEFINE G(m) == {g \in [0 .. m -> S] : g[0] = start /\ \A i \in 1 .. m : g[i] = step[i][g[i - 1]]}
           N == {m \in Nat : G(m) # {}}
<1>1. 0 \in N
  <2>1. [i \in 0 .. 0 |-> start] \in G(0)
    OBVIOUS
  <2> QED BY <2>1
<1>2. ASSUME NEW m \in N PROVE m + 1 \in N
  <2>1. PICK g : g \in G(m)
    OBVIOUS
  <2> DEFINE f == [i \in 0 .. m + 1 |-> IF i = m + 1 THEN step[m + 1][g[m]] ELSE g[i]]
  <2>2. f \in [0 .. m + 1 -> S] /\ f[0] = start
    BY <2>1
  <2>3. ASSUME NEW i \in 1 .. m + 1 PROVE f[i] = step[i][f[i - 1]]
    BY <2>1
  <2>4. f \in G(m + 1)
    <3> HIDE DEF f
    <3> QED BY <2>2, <2>3
  <2> HIDE DEF G, f
  <2> QED BY <2>4
<1>3. Nat \subseteq N
  <2>1. N \subseteq Nat
    OBVIOUS
  <2> HIDE DEF N
  <2> QED BY <1>1, <1>2, <2>1, NatSetInduction
<1>4. n \in N
  BY <1>3
<1> QED BY <1>4 DEF Runs

\* What holds before the first turn and is kept by each holds after the last.
LEMMA LoopKeeps ==
  ASSUME NEW g, NEW n \in Nat, NEW I, g[0] \in I[0],
         \A i \in 1 .. n : g[i - 1] \in I[i - 1] => g[i] \in I[i]
  PROVE  g[n] \in I[n]
<1> DEFINE N == {m \in Nat : m <= n => g[m] \in I[m]}
<1>1. 0 \in N
  OBVIOUS
<1>2. ASSUME NEW m \in N PROVE m + 1 \in N
  <2>1. SUFFICES ASSUME m + 1 <= n PROVE g[m + 1] \in I[m + 1]
    OBVIOUS
  <2>2. m + 1 \in 1 .. n /\ (m + 1) - 1 = m /\ g[m] \in I[m]
    BY <2>1
  <2> QED BY <2>2
<1>3. Nat \subseteq N
  <2>1. N \subseteq Nat
    OBVIOUS
  <2> HIDE DEF N
  <2> QED BY <1>1, <1>2, <2>1, NatSetInduction
<1> QED BY <1>3

-----------------------------------------------------------------------------
(* The decoder, and the packets that came and are queued                   *)

Packets == 1 .. Len(media)
DecoderType ==
  [at : 1 .. Len(media) + 1, queue : Seq(Packets), open : SUBSET MediaStreams, known : BOOLEAN, time : Nat, live : Int]

Rising(q) == \A i, j \in 1 .. Len(q) : i < j => q[i] < q[j]
Holds(q, k) == \E i \in 1 .. Len(q) : q[i] = k

\* Packets q have come of stream s: in order, read already, and before those queued.
Came(s, q, now, queue) ==
  /\ Rising(q)
  /\ \A i \in 1 .. Len(q) : media[q[i]] = s /\ q[i] < now
  /\ \A i \in 1 .. Len(q), j \in 1 .. Len(queue) : media[queue[j]] = s => q[i] < queue[j]

\* Packets of stream s that were read since are there.
Kept(s, q, now, queue, from) ==
  \A k \in 1 .. now - 1 : media[k] = s /\ k >= from => Holds(q, k) \/ Holds(queue, k)

\* Packets g have come of each stream
Arrives(d, g, from) ==
  /\ d \in DecoderType /\ g \in [MediaStreams -> Seq(Packets)] /\ from \in [MediaStreams -> Nat]
  /\ Rising(d.queue) /\ \A i \in 1 .. Len(d.queue) : d.queue[i] < d.at
  /\ \A s \in MediaStreams : Came(s, g[s], d.at, d.queue)
  /\ \A s \in d.open : Kept(s, g[s], d.at, d.queue, from[s])

LEMMA SequenceFacts ==
  ASSUME NEW S, NEW q \in Seq(S)
  PROVE  Len(q) \in Nat /\ \A i \in 1 .. Len(q) : q[i] \in S
OBVIOUS

LEMMA AppendRising ==
  ASSUME NEW n \in Nat, NEW q \in Seq(1 .. n), NEW k \in 1 .. n, Rising(q), \A i \in 1 .. Len(q) : q[i] < k
  PROVE  /\ Append(q, k) \in Seq(1 .. n) /\ Len(Append(q, k)) = Len(q) + 1 /\ Rising(Append(q, k))
         /\ \A i \in 1 .. Len(q) : Append(q, k)[i] = q[i]
         /\ Append(q, k)[Len(q) + 1] = k
<1> DEFINE a == Append(q, k)
           l == Len(q)
<1>1. l \in Nat /\ \A i \in 1 .. l : q[i] \in 1 .. n
  OBVIOUS
<1>2. a \in Seq(1 .. n) /\ Len(a) = l + 1 /\ (\A i \in 1 .. l : a[i] = q[i]) /\ a[l + 1] = k
  OBVIOUS
<1>4. \A i, j \in 1 .. l : i < j => q[i] < q[j]
  BY DEF Rising
<1>5. \A i \in 1 .. l : q[i] < k
  OBVIOUS
<1> HIDE DEF a, l
<1>3. Rising(a)
  <2> SUFFICES ASSUME NEW i \in 1 .. l + 1, NEW j \in 1 .. l + 1, i < j PROVE a[i] < a[j]
    BY <1>2 DEF Rising
  <2>1. CASE j = l + 1
    <3>1. i \in 1 .. l
      BY <1>1, <2>1
    <3> QED BY <1>2, <1>5, <2>1, <3>1
  <2>2. CASE j # l + 1
    <3>1. i \in 1 .. l /\ j \in 1 .. l
      BY <1>1, <2>2
    <3> QED BY <1>2, <1>4, <3>1
  <2> QED BY <2>1, <2>2
<1> QED BY <1>2, <1>3 DEF a, l

\* What ReadPacket queues on its way to packet k
QueuesTo(d, k, q) ==
  /\ q \in Seq(Packets) /\ Rising(q)
  /\ \A i \in 1 .. Len(q) : d.at <= q[i] /\ q[i] < k /\ media[q[i]] \in d.open
  /\ \A j \in d.at .. k - 1 : media[j] \in d.open => Holds(q, j)

LEMMA QueuedStep ==
  ASSUME NEW d \in DecoderType, media \in Seq(MediaStreams), NEW k \in Packets, k >= d.at, NEW q, QueuesTo(d, k, q)
  PROVE  QueuesTo(d, k + 1, IF IsStreamOpen(d, media[k]) THEN Append(q, k) ELSE q)
<1> DEFINE n == Len(media)
           l == Len(q)
           a == Append(q, k)
<1>1. n \in Nat /\ d.at \in 1 .. n + 1 /\ k \in 1 .. n /\ l \in Nat /\ \A i \in 1 .. l : q[i] \in 1 .. n
  BY DEF DecoderType, Packets, QueuesTo
<1>2. CASE media[k] \in d.open
  <2>0. q \in Seq(1 .. n) /\ Rising(q) /\ \A i \in 1 .. Len(q) : q[i] < k
    BY DEF QueuesTo, Packets
  <2>1. /\ a \in Seq(1 .. n) /\ Len(a) = l + 1 /\ Rising(a)
        /\ \A i \in 1 .. l : a[i] = q[i]
        /\ a[l + 1] = k
    BY <1>1, <2>0, AppendRising
  <2> HIDE DEF a, n
  <2>2. ASSUME NEW i \in 1 .. l + 1 PROVE d.at <= a[i] /\ a[i] < k + 1 /\ media[a[i]] \in d.open
    <3>1. CASE i = l + 1
      BY <1>1, <1>2, <2>1, <3>1
    <3>2. CASE i # l + 1
      <4>1. i \in 1 .. l
        BY <1>1, <3>2
      <4>2. d.at <= q[i] /\ q[i] < k /\ media[q[i]] \in d.open /\ a[i] = q[i] /\ q[i] \in 1 .. n
        BY <1>1, <2>1, <4>1 DEF QueuesTo
      <4> QED BY <1>1, <4>2
    <3> QED BY <3>1, <3>2
  <2>3. ASSUME NEW j \in d.at .. k, media[j] \in d.open PROVE Holds(a, j)
    <3>1. CASE j = k
      BY <1>1, <2>1, <3>1 DEF Holds
    <3>2. CASE j # k
      <4>1. PICK i \in 1 .. l : q[i] = j
        BY <1>1, <2>3, <3>2 DEF QueuesTo, Holds
      <4> QED BY <1>1, <2>1, <4>1 DEF Holds
    <3> QED BY <3>1, <3>2
  <2>4. (k + 1) - 1 = k
    BY <1>1
  <2>5. QueuesTo(d, k + 1, a)
    BY <2>1, <2>2, <2>3, <2>4 DEF QueuesTo, Packets, n
  <2> QED BY <1>2, <2>5 DEF IsStreamOpen, a
<1>3. CASE media[k] \notin d.open
  <2>1. \A j \in d.at .. (k + 1) - 1 : media[j] \in d.open => j \in d.at .. k - 1
    BY <1>1, <1>3
  <2>2. \A i \in 1 .. l : q[i] < k + 1
    BY <1>1 DEF QueuesTo
  <2>3. QueuesTo(d, k + 1, q)
    BY <2>1, <2>2 DEF QueuesTo
  <2> QED BY <1>3, <2>3 DEF IsStreamOpen
<1> QED BY <1>2, <1>3

LEMMA QueuedGives ==
  ASSUME NEW d \in DecoderType, media \in Seq(MediaStreams), NEW k \in d.at .. Len(media) + 1
  PROVE  QueuesTo(d, k, Queued(d, k))
<1> DEFINE n == k - d.at
           Add(x, i) == IF IsStreamOpen(d, media[d.at + i - 1]) THEN Append(x, d.at + i - 1) ELSE x
           S == Seq(Packets)
           step == [i \in Nat |-> [x \in S |-> IF i \in 1 .. n THEN Add(x, i) ELSE x]]
           F(f) == f = [i \in 0 .. n |-> IF i = 0 THEN << >> ELSE Add(f[i - 1], i)]
           kept == CHOOSE f : F(f)
           I == [i \in 0 .. n |-> {x \in S : QueuesTo(d, d.at + i, x)}]
<1>0. Len(media) \in Nat /\ d.at \in 1 .. Len(media) + 1 /\ n \in Nat
  BY DEF DecoderType
<1>1. Queued(d, k) = kept[n]
  BY Zenon DEF Queued
<1>2. F(kept)
  <2>1. step \in [Nat -> [S -> S]]
    <3> SUFFICES ASSUME NEW i \in 1 .. n, NEW x \in S PROVE Add(x, i) \in S
      OBVIOUS
    <3>1. d.at + i - 1 \in Packets
      BY <1>0 DEF Packets
    <3> QED BY <3>1
  <2>2. << >> \in S
    OBVIOUS
  <2> HIDE DEF step, S
  <2>3. PICK g \in [0 .. n -> S] : g[0] = << >> /\ \A i \in 1 .. n : g[i] = step[i][g[i - 1]]
    <3>1. Runs(S, step, << >>, n)
      BY <1>0, <2>1, <2>2, LoopRuns
    <3> QED BY <3>1 DEF Runs
  <2>4. ASSUME NEW i \in 0 .. n PROVE g[i] = IF i = 0 THEN << >> ELSE Add(g[i - 1], i)
    <3>1. CASE i = 0
      BY <2>3, <3>1
    <3>2. CASE i # 0
      <4>1. i \in 1 .. n /\ i - 1 \in 0 .. n /\ i \in Nat
        BY <1>0, <3>2
      <4>2. g[i] = step[i][g[i - 1]] /\ g[i - 1] \in S
        BY <2>3, <4>1
      <4> HIDE DEF Add
      <4>3. step[i][g[i - 1]] = Add(g[i - 1], i)
        BY <4>1, <4>2 DEF step
      <4> QED BY <3>2, <4>2, <4>3
    <3> QED BY <3>1, <3>2
  <2> HIDE DEF Add
  <2>5. F(g)
    BY <2>3, <2>4
  <2> QED BY <2>5, Zenon
<1> HIDE DEF kept
<1>3. kept[0] = << >> /\ \A i \in 1 .. n : kept[i] = Add(kept[i - 1], i)
  <2> HIDE DEF Add
  <2>1. \A i \in 0 .. n : kept[i] = IF i = 0 THEN << >> ELSE Add(kept[i - 1], i)
    BY <1>2
  <2>2. 0 \in 0 .. n /\ \A i \in 1 .. n : i \in 0 .. n /\ i # 0
    BY <1>0
  <2> HIDE DEF F
  <2> QED BY <2>1, <2>2
<1>4. kept[0] \in I[0]
  <2>1. QueuesTo(d, d.at + 0, << >>)
    BY <1>0 DEF QueuesTo, Rising
  <2> QED BY <1>0, <1>3, <2>1
<1>5. ASSUME NEW i \in 1 .. n, kept[i - 1] \in I[i - 1] PROVE kept[i] \in I[i]
  <2> DEFINE p == d.at + i - 1
             x == kept[i - 1]
  <2>1. i - 1 \in 0 .. n /\ i \in 0 .. n /\ p \in Packets /\ p >= d.at /\ d.at + (i - 1) = p /\ d.at + i = p + 1
    BY <1>0 DEF Packets
  <2>2. QueuesTo(d, p, x)
    BY <1>5, <2>1
  <2>3. kept[i] = IF IsStreamOpen(d, media[p]) THEN Append(x, p) ELSE x
    BY <1>3
  <2> HIDE DEF p, x
  <2>4. QueuesTo(d, p + 1, kept[i])
    BY <2>1, <2>2, <2>3, QueuedStep
  <2>5. kept[i] \in S
    BY <2>4 DEF QueuesTo
  <2> QED BY <2>1, <2>4, <2>5
<1>6. kept[n] \in I[n]
  <2> HIDE DEF I
  <2> QED BY <1>0, <1>4, <1>5, LoopKeeps
<1>7. d.at + n = k
  BY <1>0
<1>8. QueuesTo(d, d.at + n, kept[n])
  <2> HIDE DEF n
  <2> QED BY <1>0, <1>6
<1> HIDE DEF n
<1> QED BY <1>1, <1>7, <1>8

\* A packet is taken off the queue.
LEMMA RemoveGives ==
  ASSUME NEW S, NEW q \in Seq(S), NEW i \in 1 .. Len(q)
  PROVE  /\ RemoveAt(q, i) \in Seq(S) /\ Len(RemoveAt(q, i)) = Len(q) - 1
         /\ \A j \in 1 .. Len(q) - 1 : RemoveAt(q, i)[j] = IF j < i THEN q[j] ELSE q[j + 1]
<1> DEFINE a == SubSeq(q, 1, i - 1)
           b == SubSeq(q, i + 1, Len(q))
<1>1. a \in Seq(S) /\ Len(a) = i - 1 /\ \A j \in 1 .. i - 1 : a[j] = q[j]
  OBVIOUS
<1>2. b \in Seq(S) /\ Len(b) = Len(q) - i /\ \A j \in 1 .. Len(q) - i : b[j] = q[i + j]
  OBVIOUS
<1>3. RemoveAt(q, i) = a \o b
  BY DEF RemoveAt
<1> HIDE DEF a, b
<1>4. a \o b \in Seq(S) /\ Len(a \o b) = Len(q) - 1
  <2>0. a \in Seq(S) /\ b \in Seq(S)
    BY <1>1, <1>2
  <2>1. a \o b \in Seq(S) /\ Len(a \o b) = Len(a) + Len(b)
    BY <2>0
  <2> DEFINE l == Len(q)
  <2>2. l \in Nat /\ Len(a) = i - 1 /\ Len(b) = l - i /\ i \in 1 .. l
    BY <1>1, <1>2
  <2> HIDE DEF l
  <2>3. Len(a) + Len(b) = l - 1
    BY <2>2
  <2> QED BY <2>1, <2>3 DEF l
<1>5. ASSUME NEW j \in 1 .. Len(q) - 1 PROVE (a \o b)[j] = IF j < i THEN q[j] ELSE q[j + 1]
  <2>1. CASE j < i
    BY <1>1, <1>2, <2>1
  <2>2. CASE ~(j < i)
    <3>1. (a \o b)[j] = b[j - (i - 1)]
      BY <1>1, <1>2, <2>2
    <3>2. j - (i - 1) \in 1 .. Len(q) - i /\ i + (j - (i - 1)) = j + 1
      BY <2>2
    <3> QED BY <1>2, <2>2, <3>1, <3>2
  <2> QED BY <2>1, <2>2
<1> QED BY <1>3, <1>4, <1>5

LEMMA RemoveRising ==
  ASSUME NEW n \in Nat, NEW q \in Seq(1 .. n), NEW i \in 1 .. Len(q), Rising(q)
  PROVE  /\ RemoveAt(q, i) \in Seq(1 .. n) /\ Len(RemoveAt(q, i)) = Len(q) - 1 /\ Rising(RemoveAt(q, i))
         /\ \A j \in 1 .. Len(RemoveAt(q, i)) : \E m \in 1 .. Len(q) : m # i /\ RemoveAt(q, i)[j] = q[m]
         /\ \A k : Holds(q, k) => k = q[i] \/ Holds(RemoveAt(q, i), k)
<1> DEFINE r == RemoveAt(q, i)
           l == Len(q)
<1>1. l \in Nat /\ (\A j \in 1 .. l : q[j] \in 1 .. n) /\ \A j, m \in 1 .. l : j < m => q[j] < q[m]
  BY DEF Rising
<1>2. r \in Seq(1 .. n) /\ Len(r) = l - 1 /\ \A j \in 1 .. l - 1 : r[j] = IF j < i THEN q[j] ELSE q[j + 1]
  BY RemoveGives
<1>3. i \in 1 .. l
  OBVIOUS
<1>4. \A k : Holds(q, k) <=> \E j \in 1 .. l : q[j] = k
  BY DEF Holds
<1> HIDE DEF r, l
<1>5. Rising(r)
  <2> SUFFICES ASSUME NEW j \in 1 .. l - 1, NEW m \in 1 .. l - 1, j < m PROVE r[j] < r[m]
    BY <1>2 DEF Rising
  <2> DEFINE a == IF j < i THEN j ELSE j + 1
             b == IF m < i THEN m ELSE m + 1
  <2>0. a \in 1 .. l /\ b \in 1 .. l /\ a < b
    BY <1>1, <1>3
  <2>1. r[j] = q[a] /\ r[m] = q[b]
    BY <1>2
  <2> HIDE DEF a, b
  <2> QED BY <1>1, <2>0, <2>1
<1>6. ASSUME NEW j \in 1 .. l - 1 PROVE \E m \in 1 .. l : m # i /\ r[j] = q[m]
  <2>1. CASE j < i
    BY <1>1, <1>2, <1>3, <2>1
  <2>2. CASE ~(j < i)
    <3>1. j + 1 \in 1 .. l /\ j + 1 # i /\ r[j] = q[j + 1]
      BY <1>1, <1>2, <1>3, <2>2
    <3> QED BY <3>1
  <2> QED BY <2>1, <2>2
<1>7. ASSUME NEW k, Holds(q, k), k # q[i] PROVE Holds(r, k)
  <2>1. PICK j \in 1 .. l : q[j] = k
    BY <1>4, <1>7
  <2>2. j # i
    BY <1>7, <2>1
  <2>3. CASE j < i
    <3>1. j \in 1 .. l - 1 /\ r[j] = q[j]
      BY <1>1, <1>2, <1>3, <2>3
    <3> QED BY <1>2, <2>1, <3>1 DEF Holds
  <2>4. CASE ~(j < i)
    <3>1. j - 1 \in 1 .. l - 1 /\ r[j - 1] = q[j]
      BY <1>1, <1>2, <1>3, <2>2, <2>4
    <3> QED BY <1>2, <2>1, <3>1 DEF Holds
  <2> QED BY <2>3, <2>4
<1>8. \A j \in 1 .. Len(r) : \E m \in 1 .. l : m # i /\ r[j] = q[m]
  BY <1>2, <1>6
<1> QED BY <1>2, <1>5, <1>7, <1>8 DEF r, l

\* A packet comes off the queue: the first of its stream.
LEMMA ComeQueued ==
  ASSUME media \in Seq(MediaStreams), NEW s \in MediaStreams, NEW q \in Seq(Packets), NEW now \in 1 .. Len(media) + 1,
         NEW queue \in Seq(Packets), NEW i \in 1 .. Len(queue), Came(s, q, now, queue), Rising(queue),
         \A j \in 1 .. Len(queue) : queue[j] < now,
         media[queue[i]] = s, \A j \in 1 .. i - 1 : media[queue[j]] # s
  PROVE  /\ Append(q, queue[i]) \in Seq(Packets) /\ Came(s, Append(q, queue[i]), now, RemoveAt(queue, i))
         /\ \A k : Holds(q, k) \/ Holds(queue, k) => Holds(Append(q, queue[i]), k) \/ Holds(RemoveAt(queue, i), k)
<1> DEFINE n == Len(media)
           k == queue[i]
           a == Append(q, k)
           r == RemoveAt(queue, i)
           l == Len(q)
<1>1. n \in Nat /\ k \in 1 .. n /\ l \in Nat /\ k < now
  BY DEF Packets
<1>2. \A j \in 1 .. Len(q) : q[j] < k
  BY DEF Came
<1>3. /\ a \in Seq(1 .. n) /\ Len(a) = l + 1 /\ Rising(a)
      /\ \A j \in 1 .. l : a[j] = q[j]
      /\ a[l + 1] = k
  <2>1. q \in Seq(1 .. n) /\ Rising(q)
    BY DEF Came, Packets
  <2> HIDE DEF k
  <2> QED BY <1>1, <1>2, <2>1, AppendRising
<1>4. /\ r \in Seq(1 .. n)
      /\ \A j \in 1 .. Len(r) : \E m \in 1 .. Len(queue) : m # i /\ r[j] = queue[m]
      /\ \A p : Holds(queue, p) => p = k \/ Holds(r, p)
  <2> HIDE DEF n, r, k
  <2>1. n \in Nat /\ queue \in Seq(1 .. n)
    BY <1>1 DEF n, Packets
  <2>2. /\ RemoveAt(queue, i) \in Seq(1 .. n) /\ Len(RemoveAt(queue, i)) = Len(queue) - 1 /\ Rising(RemoveAt(queue, i))
        /\ \A j \in 1 .. Len(RemoveAt(queue, i)) : \E m \in 1 .. Len(queue) : m # i /\ RemoveAt(queue, i)[j] = queue[m]
        /\ \A p : Holds(queue, p) => p = queue[i] \/ Holds(RemoveAt(queue, i), p)
    BY <2>1, RemoveRising
  <2> QED BY <2>2 DEF r, k
<1> HIDE DEF n, a, r, k
<1>5. \A j \in 1 .. l + 1 : media[a[j]] = s /\ a[j] < now
  <2> SUFFICES ASSUME NEW j \in 1 .. l + 1 PROVE media[a[j]] = s /\ a[j] < now
    OBVIOUS
  <2>1. CASE j = l + 1
    BY <1>1, <1>3, <2>1 DEF k
  <2>2. CASE j # l + 1
    <3>1. j \in 1 .. Len(q)
      BY <1>1, <2>2
    <3> QED BY <1>3, <3>1 DEF Came
  <2> QED BY <2>1, <2>2
<1>6. ASSUME NEW j \in 1 .. l + 1, NEW m \in 1 .. Len(r), media[r[m]] = s PROVE a[j] < r[m]
  <2>1. PICK p \in 1 .. Len(queue) : p # i /\ r[m] = queue[p]
    BY <1>4
  <2>2. CASE j = l + 1
    <3>1. ~(p \in 1 .. i - 1)
      BY <1>6, <2>1
    <3>2. i < p
      BY <2>1, <3>1
    <3> QED BY <1>3, <2>1, <2>2, <3>2 DEF Rising, k
  <2>3. CASE j # l + 1
    <3>1. j \in 1 .. Len(q)
      BY <1>1, <2>3
    <3>2. q[j] < queue[p]
      BY <1>6, <2>1, <3>1 DEF Came
    <3> QED BY <1>3, <2>1, <3>1, <3>2
  <2> QED BY <2>2, <2>3
<1>7. Came(s, a, now, r)
  BY <1>3, <1>5, <1>6 DEF Came
<1>8. ASSUME NEW p, Holds(q, p) \/ Holds(queue, p) PROVE Holds(a, p) \/ Holds(r, p)
  <2>1. CASE Holds(q, p)
    <3>1. PICK j \in 1 .. l : q[j] = p
      BY <2>1 DEF Holds
    <3>2. j \in 1 .. Len(a) /\ a[j] = p
      BY <1>1, <1>3, <3>1
    <3> QED BY <3>2 DEF Holds
  <2>2. CASE p = k
    <3>1. l + 1 \in 1 .. Len(a) /\ a[l + 1] = p
      BY <1>1, <1>3, <2>2
    <3> QED BY <3>1 DEF Holds
  <2> QED BY <1>4, <1>8, <2>1, <2>2
<1>9. a \in Seq(Packets)
  BY <1>3 DEF n, Packets
<1> QED BY <1>7, <1>8, <1>9 DEF a, k, r

LEMMA ArriveQueued ==
  ASSUME media \in Seq(MediaStreams), NEW d, NEW g, NEW from, Arrives(d, g, from), NEW i \in 1 .. Len(d.queue),
         NEW s, s = media[d.queue[i]], \A j \in 1 .. i - 1 : media[d.queue[j]] # s,
         NEW e \in DecoderType, e.at = d.at, e.queue = RemoveAt(d.queue, i), e.open = d.open
  PROVE  Arrives(e, [g EXCEPT ![s] = Append(@, d.queue[i])], from)
<1> DEFINE q == d.queue
           r == RemoveAt(q, i)
           a == Append(g[s], q[i])
           f == [g EXCEPT ![s] = a]
           now == d.at
           n == Len(media)
<1>1. /\ now \in 1 .. Len(media) + 1 /\ q \in Seq(Packets) /\ Rising(q) /\ \A j \in 1 .. Len(q) : q[j] < now
      /\ g \in [MediaStreams -> Seq(Packets)] /\ from \in [MediaStreams -> Nat] /\ d.open \subseteq MediaStreams
  BY DEF Arrives, DecoderType
<1>2. s \in MediaStreams /\ n \in Nat
  BY <1>1, SMTT(30) DEF Packets
<1>3. \A t \in MediaStreams : Came(t, g[t], now, q)
  BY DEF Arrives
<1>4. \A t \in d.open : Kept(t, g[t], now, q, from[t])
  BY DEF Arrives
<1>5. f = [g EXCEPT ![s] = Append(@, d.queue[i])]
  BY Zenon
<1> HIDE DEF q, now
<1>6. i \in 1 .. Len(q) /\ s = media[q[i]] /\ \A j \in 1 .. i - 1 : media[q[j]] # s
  BY DEF q
<1>7. /\ a \in Seq(Packets) /\ Came(s, a, now, r)
      /\ \A k : Holds(g[s], k) \/ Holds(q, k) => Holds(a, k) \/ Holds(r, k)
  <2> DEFINE b == g[s]
  <2>1. b \in Seq(Packets) /\ Came(s, b, now, q)
    BY <1>1, <1>2, <1>3
  <2> HIDE DEF b
  <2>2. /\ Append(b, q[i]) \in Seq(Packets) /\ Came(s, Append(b, q[i]), now, RemoveAt(q, i))
        /\ \A k : Holds(b, k) \/ Holds(q, k) => Holds(Append(b, q[i]), k) \/ Holds(RemoveAt(q, i), k)
    BY <1>1, <1>2, <1>6, <2>1, ComeQueued
  <2> QED BY <2>2 DEF b
<1>8. /\ RemoveAt(q, i) \in Seq(1 .. n) /\ Len(RemoveAt(q, i)) = Len(q) - 1 /\ Rising(RemoveAt(q, i))
      /\ \A j \in 1 .. Len(RemoveAt(q, i)) : \E m \in 1 .. Len(q) : m # i /\ RemoveAt(q, i)[j] = q[m]
      /\ \A k : Holds(q, k) => k = q[i] \/ Holds(RemoveAt(q, i), k)
  <2>1. q \in Seq(1 .. n)
    BY <1>1 DEF Packets
  <2> HIDE DEF n
  <2> QED BY <1>1, <1>2, <1>6, <2>1, RemoveRising
<1>9. \A j \in 1 .. Len(r) : \E m \in 1 .. Len(q) : r[j] = q[m]
  BY <1>8
<1>10. Rising(r) /\ \A k : Holds(q, k) => k = q[i] \/ Holds(r, k)
  BY <1>8
<1> HIDE DEF a, r, n
<1>11. f \in [MediaStreams -> Seq(Packets)] /\ f[s] = a /\ \A t \in MediaStreams \ {s} : f[t] = g[t]
  BY <1>1, <1>2, <1>7
<1> HIDE DEF f
<1>12. \A j \in 1 .. Len(r) : r[j] < now
  BY <1>1, <1>9
<1>13. ASSUME NEW t \in MediaStreams PROVE Came(t, f[t], now, r)
  <2>1. CASE t = s
    BY <1>7, <1>11, <2>1
  <2>2. CASE t # s
    <3> DEFINE b == g[t]
    <3>1. Came(t, b, now, q) /\ f[t] = b
      BY <1>3, <1>11, <2>2
    <3> HIDE DEF b
    <3>2. Came(t, b, now, r)
      BY <1>9, <3>1, SMTT(30) DEF Came
    <3> QED BY <3>1, <3>2
  <2> QED BY <2>1, <2>2
<1>14. ASSUME NEW t \in d.open PROVE Kept(t, f[t], now, r, from[t])
  <2> DEFINE b == g[t]
             o == from[t]
  <2>1. Kept(t, b, now, q, o)
    BY <1>4
  <2> HIDE DEF b, o
  <2>2. CASE t = s
    <3>1. Kept(t, a, now, r, o)
      BY <1>7, <2>1, <2>2 DEF Kept, b
    <3> QED BY <1>11, <2>2, <3>1 DEF o
  <2>3. CASE t # s
    <3>1. Kept(t, b, now, r, o)
      <4> SUFFICES ASSUME NEW k \in 1 .. now - 1, media[k] = t, k >= o PROVE Holds(b, k) \/ Holds(r, k)
        BY DEF Kept
      <4>1. Holds(b, k) \/ Holds(q, k)
        BY <2>1 DEF Kept
      <4>2. k # q[i]
        BY <1>6, <2>3
      <4> QED BY <1>10, <4>1, <4>2
    <3>2. f[t] = b
      BY <1>1, <1>11, <2>3 DEF b
    <3> QED BY <3>1, <3>2 DEF o
  <2> QED BY <2>2, <2>3
<1>15. e.at = now /\ e.queue = r /\ e.open = d.open
  BY DEF now, r, q
<1>16. Arrives(e, f, from)
  BY <1>1, <1>10, <1>11, <1>12, <1>13, <1>14, <1>15 DEF Arrives
<1> QED BY <1>5, <1>16

LEMMA ConcatGives ==
  ASSUME NEW S, NEW p \in Seq(S), NEW q \in Seq(S)
  PROVE  /\ p \o q \in Seq(S) /\ Len(p \o q) = Len(p) + Len(q)
         /\ \A i \in 1 .. Len(p) : (p \o q)[i] = p[i]
         /\ \A i \in 1 .. Len(q) : (p \o q)[Len(p) + i] = q[i]
         /\ \A i \in 1 .. Len(p) + Len(q) : i \notin 1 .. Len(p) => i - Len(p) \in 1 .. Len(q) /\ (p \o q)[i] = q[i - Len(p)]
<1>1. Len(p) \in Nat /\ Len(q) \in Nat
  OBVIOUS
<1>2. p \o q \in Seq(S) /\ Len(p \o q) = Len(p) + Len(q)
  OBVIOUS
<1>3. \A i \in 1 .. Len(p) : (p \o q)[i] = p[i]
  OBVIOUS
<1>4. \A i \in 1 .. Len(p) + Len(q) : i \notin 1 .. Len(p) => i - Len(p) \in 1 .. Len(q) /\ (p \o q)[i] = q[i - Len(p)]
  OBVIOUS
<1>5. ASSUME NEW i \in 1 .. Len(q) PROVE (p \o q)[Len(p) + i] = q[i]
  OBVIOUS
<1> QED BY <1>2, <1>3, <1>4, <1>5

\* The position moves on to packet k, and the packets of open streams before it are queued.
LEMMA ArriveBefore ==
  ASSUME media \in Seq(MediaStreams), NEW d, NEW g, NEW from, Arrives(d, g, from),
         NEW k \in d.at .. Len(media) + 1, NEW more, QueuesTo(d, k, more),
         NEW e \in DecoderType, e.at = k, e.queue = d.queue \o more, e.open = d.open
  PROVE  Arrives(e, g, from)
<1> DEFINE q == d.queue
           c == q \o more
           now == d.at
           n == Len(media)
           l == Len(q)
           m == Len(more)
<1>1. /\ now \in 1 .. n + 1 /\ n \in Nat /\ q \in Seq(Packets) /\ Rising(q) /\ \A j \in 1 .. l : q[j] < now
      /\ g \in [MediaStreams -> Seq(Packets)] /\ from \in [MediaStreams -> Nat] /\ d.open \subseteq MediaStreams
  BY DEF Arrives, DecoderType
<1>2. /\ more \in Seq(Packets) /\ Rising(more)
      /\ \A i \in 1 .. m : now <= more[i] /\ more[i] < k /\ media[more[i]] \in d.open
      /\ \A j \in now .. k - 1 : media[j] \in d.open => Holds(more, j)
  BY DEF QueuesTo
<1>3. \A t \in MediaStreams : Came(t, g[t], now, q)
  BY DEF Arrives
<1>4. \A t \in d.open : Kept(t, g[t], now, q, from[t])
  BY DEF Arrives
<1>5. /\ l \in Nat /\ m \in Nat /\ k \in now .. n + 1
      /\ \A i \in 1 .. l : q[i] \in 1 .. n
      /\ \A i \in 1 .. m : more[i] \in 1 .. n
  <2>1. l \in Nat /\ \A i \in 1 .. l : q[i] \in Packets
    <3> HIDE DEF q
    <3> QED BY <1>1, SequenceFacts
  <2>2. m \in Nat /\ \A i \in 1 .. m : more[i] \in Packets
    BY <1>2, SequenceFacts
  <2> QED BY <2>1, <2>2 DEF Packets
<1> HIDE DEF q, now
<1>6. /\ c \in Seq(Packets) /\ Len(c) = l + m
      /\ \A i \in 1 .. l : c[i] = q[i]
      /\ \A i \in 1 .. m : c[l + i] = more[i]
      /\ \A i \in 1 .. l + m : i \notin 1 .. l => i - l \in 1 .. m /\ c[i] = more[i - l]
  BY <1>1, <1>2, ConcatGives
<1>7. (\A i, j \in 1 .. l : i < j => q[i] < q[j]) /\ (\A i, j \in 1 .. m : i < j => more[i] < more[j])
  BY <1>1, <1>2 DEF Rising
<1>8. \A x : (Holds(q, x) <=> \E i \in 1 .. l : q[i] = x) /\ (Holds(more, x) <=> \E i \in 1 .. m : more[i] = x)
  BY DEF Holds
<1> HIDE DEF c, l, m, n
<1>9. Rising(c)
  <2> SUFFICES ASSUME NEW i \in 1 .. l + m, NEW j \in 1 .. l + m, i < j PROVE c[i] < c[j]
    BY <1>6 DEF Rising
  <2>1. CASE j \in 1 .. l
    <3>1. i \in 1 .. l
      BY <1>5, <2>1
    <3> QED BY <1>6, <1>7, <2>1, <3>1
  <2>2. CASE i \in 1 .. l /\ j \notin 1 .. l
    <3>1. j - l \in 1 .. m /\ c[j] = more[j - l] /\ c[i] = q[i]
      BY <1>6, <2>2
    <3>2. now <= more[j - l] /\ q[i] < now /\ more[j - l] \in 1 .. n /\ q[i] \in 1 .. n
      BY <1>1, <1>2, <1>5, <2>2, <3>1
    <3> QED BY <1>1, <3>1, <3>2
  <2>3. CASE i \notin 1 .. l /\ j \notin 1 .. l
    <3>1. i - l \in 1 .. m /\ c[i] = more[i - l] /\ j - l \in 1 .. m /\ c[j] = more[j - l]
      BY <1>6, <2>3
    <3>2. i - l < j - l
      BY <1>5
    <3> QED BY <1>7, <3>1, <3>2
  <2> QED BY <2>1, <2>2, <2>3
<1>10. ASSUME NEW i \in 1 .. l + m PROVE c[i] < k
  <2>1. CASE i \in 1 .. l
    <3>1. c[i] = q[i] /\ q[i] < now /\ q[i] \in 1 .. n
      BY <1>1, <1>5, <1>6, <2>1
    <3> QED BY <1>1, <1>5, <3>1
  <2>2. CASE i \notin 1 .. l
    BY <1>2, <1>6, <2>2
  <2> QED BY <2>1, <2>2
<1>11. ASSUME NEW t \in MediaStreams PROVE Came(t, g[t], k, c)
  <2> DEFINE b == g[t]
  <2>1. Came(t, b, now, q) /\ b \in Seq(Packets)
    BY <1>1, <1>3
  <2> HIDE DEF b
  <2>2. \A i \in 1 .. Len(b) : b[i] \in 1 .. n /\ b[i] < now /\ media[b[i]] = t
    <3>1. Packets = 1 .. n
      BY DEF Packets, n
    <3>2. \A i \in 1 .. Len(b) : b[i] < now /\ media[b[i]] = t
      BY <2>1 DEF Came
    <3>3. \A i \in 1 .. Len(b) : b[i] \in Packets
      BY <2>1
    <3> QED BY <3>1, <3>2, <3>3
  <2>3. \A i \in 1 .. Len(b) : b[i] < k
    BY <1>1, <1>5, <2>2
  <2>4. ASSUME NEW i \in 1 .. Len(b), NEW j \in 1 .. l + m, media[c[j]] = t PROVE b[i] < c[j]
    <3>1. CASE j \in 1 .. l
      <4>1. c[j] = q[j] /\ j \in 1 .. Len(q)
        BY <1>6, <3>1 DEF l
      <4> QED BY <2>1, <2>4, <4>1 DEF Came
    <3>2. CASE j \notin 1 .. l
      <4>1. j - l \in 1 .. m /\ c[j] = more[j - l]
        BY <1>6, <3>2
      <4>2. now <= more[j - l] /\ more[j - l] \in 1 .. n
        BY <1>2, <1>5, <4>1
      <4> QED BY <1>1, <2>2, <4>1, <4>2, SMTT(30)
    <3> QED BY <3>1, <3>2
  <2>5. Came(t, b, k, c)
    BY <1>6, <2>1, <2>2, <2>3, <2>4 DEF Came
  <2> QED BY <2>5 DEF b
<1>12. ASSUME NEW t \in d.open PROVE Kept(t, g[t], k, c, from[t])
  <2> DEFINE b == g[t]
             o == from[t]
  <2>1. Kept(t, b, now, q, o) /\ o \in Nat
    BY <1>1, <1>4
  <2> HIDE DEF b, o
  <2>2. ASSUME NEW x \in 1 .. k - 1, media[x] = t, x >= o PROVE Holds(b, x) \/ Holds(c, x)
    <3>1. CASE x < now
      <4>1. x \in 1 .. now - 1
        BY <1>1, <1>5, <3>1
      <4>2. Holds(b, x) \/ Holds(q, x)
        BY <2>1, <2>2, <4>1 DEF Kept
      <4>3. ASSUME Holds(q, x) PROVE Holds(c, x)
        <5>1. PICK i \in 1 .. l : q[i] = x
          BY <1>8, <4>3
        <5>2. i \in 1 .. l + m /\ c[i] = x
          BY <1>5, <1>6, <5>1
        <5> QED BY <1>6, <5>2 DEF Holds
      <4> QED BY <4>2, <4>3
    <3>2. CASE ~(x < now)
      <4>1. x \in now .. k - 1
        BY <1>1, <1>5, <3>2
      <4>2. PICK i \in 1 .. m : more[i] = x
        BY <1>2, <1>8, <2>2, <4>1
      <4>3. l + i \in 1 .. l + m /\ c[l + i] = x
        BY <1>5, <1>6, <4>2
      <4> QED BY <1>6, <4>3 DEF Holds
    <3> QED BY <3>1, <3>2
  <2>3. Kept(t, b, k, c, o)
    BY <2>2 DEF Kept
  <2> QED BY <2>3 DEF b, o
<1>13. e.at = k /\ e.queue = c /\ e.open = d.open
  BY DEF c, q
<1> QED BY <1>1, <1>6, <1>9, <1>10, <1>11, <1>12, <1>13 DEF Arrives

\* The packet at the position comes, when none of its stream is queued.
LEMMA ArriveNext ==
  ASSUME media \in Seq(MediaStreams), NEW d, NEW g, NEW from, Arrives(d, g, from), d.at \in Packets,
         NEW s, s = media[d.at], \A j \in 1 .. Len(d.queue) : media[d.queue[j]] # s,
         NEW e \in DecoderType, e.at = d.at + 1, e.queue = d.queue, e.open = d.open
  PROVE  Arrives(e, [g EXCEPT ![s] = Append(@, d.at)], from)
<1> DEFINE q == d.queue
           now == d.at
           n == Len(media)
           a == Append(g[s], now)
           f == [g EXCEPT ![s] = a]
<1>1. /\ now \in 1 .. n /\ n \in Nat /\ q \in Seq(Packets) /\ Rising(q) /\ \A j \in 1 .. Len(q) : q[j] < now
      /\ g \in [MediaStreams -> Seq(Packets)] /\ from \in [MediaStreams -> Nat] /\ d.open \subseteq MediaStreams
  BY SMTT(30) DEF Arrives, DecoderType, Packets
<1>2. s \in MediaStreams
  BY <1>1
<1>3. \A t \in MediaStreams : Came(t, g[t], now, q)
  BY DEF Arrives
<1>4. \A t \in d.open : Kept(t, g[t], now, q, from[t])
  BY DEF Arrives
<1>5. f = [g EXCEPT ![s] = Append(@, d.at)]
  BY Zenon
<1>6. s = media[now] /\ \A j \in 1 .. Len(q) : media[q[j]] # s
  OBVIOUS
<1> HIDE DEF q, now
<1> DEFINE b == g[s]
<1>7. b \in Seq(1 .. n) /\ Rising(b) /\ \A i \in 1 .. Len(b) : b[i] < now
  BY <1>1, <1>2, <1>3 DEF Came, Packets
<1>8. \A i \in 1 .. Len(b) : media[b[i]] = s
  BY <1>2, <1>3 DEF Came
<1>9. /\ a \in Seq(1 .. n) /\ Len(a) = Len(b) + 1 /\ Rising(a)
      /\ \A i \in 1 .. Len(b) : a[i] = b[i]
      /\ a[Len(b) + 1] = now
  <2> HIDE DEF b, n
  <2>1. /\ Append(b, now) \in Seq(1 .. n) /\ Len(Append(b, now)) = Len(b) + 1 /\ Rising(Append(b, now))
        /\ \A i \in 1 .. Len(b) : Append(b, now)[i] = b[i]
        /\ Append(b, now)[Len(b) + 1] = now
    BY <1>1, <1>7, AppendRising
  <2> QED BY <2>1 DEF b
<1>10. a \in Seq(Packets) /\ Len(b) \in Nat /\ \A i \in 1 .. Len(b) : b[i] \in 1 .. n
  <2>1. a \in Seq(Packets)
    BY <1>9 DEF Packets
  <2> HIDE DEF b, n
  <2>2. Len(b) \in Nat /\ \A i \in 1 .. Len(b) : b[i] \in 1 .. n
    BY <1>7, SequenceFacts
  <2> QED BY <2>1, <2>2
<1> DEFINE l == Len(b)
<1> HIDE DEF a, n, b
<1>11. f \in [MediaStreams -> Seq(Packets)] /\ f[s] = a /\ \A t \in MediaStreams \ {s} : f[t] = g[t]
  BY <1>1, <1>2, <1>10
<1> HIDE DEF f
<1>12. ASSUME NEW t \in MediaStreams PROVE Came(t, f[t], now + 1, q)
  <2>1. CASE t = s
    <3>1. ASSUME NEW i \in 1 .. l + 1 PROVE media[a[i]] = s /\ a[i] < now + 1
      <4>1. CASE i = l + 1
        <5>1. a[i] = now
          BY <1>9, <4>1
        <5>2. now < now + 1
          BY <1>1
        <5> QED BY <1>6, <5>1, <5>2
      <4>2. CASE i # l + 1
        <5>1. i \in 1 .. l /\ i \in 1 .. Len(b)
          BY <1>10, <4>2
        <5>2. a[i] = b[i] /\ b[i] \in 1 .. n /\ b[i] < now /\ media[b[i]] = s
          BY <1>7, <1>8, <1>9, <1>10, <5>1
        <5>3. media[a[i]] = s
          BY <5>2
        <5> DEFINE x == a[i]
        <5>4. x \in 1 .. n /\ x < now
          BY <5>2
        <5> HIDE DEF x
        <5>5. x < now + 1
          BY <1>1, <5>4
        <5> QED BY <5>3, <5>5 DEF x
      <4> QED BY <4>1, <4>2
    <3>2. Came(s, a, now + 1, q)
      BY <1>6, <1>9, <3>1 DEF Came
    <3> QED BY <1>11, <2>1, <3>2
  <2>2. CASE t # s
    <3> DEFINE c == g[t]
    <3>1. Came(t, c, now, q) /\ f[t] = c /\ c \in Seq(Packets)
      BY <1>1, <1>3, <1>11, <2>2
    <3> HIDE DEF c
    <3>2. \A i \in 1 .. Len(c) : c[i] \in 1 .. n
      BY <3>1 DEF Packets, n
    <3>3. \A i \in 1 .. Len(c) : c[i] < now + 1
      BY <1>1, <3>1, <3>2, SMTT(30) DEF Came
    <3>4. Came(t, c, now + 1, q)
      BY <3>1, <3>3 DEF Came
    <3> QED BY <3>1, <3>4
  <2> QED BY <2>1, <2>2
<1>13. \A x : Holds(b, x) => Holds(a, x)
  <2> SUFFICES ASSUME NEW x, Holds(b, x) PROVE Holds(a, x)
    OBVIOUS
  <2>1. PICK i \in 1 .. l : b[i] = x
    BY DEF Holds
  <2>2. i \in 1 .. l + 1 /\ a[i] = x
    BY <1>9, <1>10, <2>1
  <2> QED BY <1>9, <2>2 DEF Holds
<1>14. Holds(a, now)
  <2>1. l + 1 \in 1 .. l + 1
    BY <1>10
  <2> QED BY <1>9, <2>1 DEF Holds
<1>15. ASSUME NEW t \in d.open PROVE Kept(t, f[t], now + 1, q, from[t])
  <2> DEFINE c == g[t]
             o == from[t]
  <2>1. Kept(t, c, now, q, o)
    BY <1>4
  <2>2. \A x : Holds(c, x) => Holds(f[t], x)
    BY <1>1, <1>11, <1>13 DEF b
  <2>3. t = s => f[t] = a
    BY <1>11
  <2> HIDE DEF c, o
  <2>4. ASSUME NEW x \in 1 .. (now + 1) - 1, media[x] = t, x >= o PROVE Holds(f[t], x) \/ Holds(q, x)
    <3>1. CASE x = now
      BY <1>6, <1>14, <2>3, <2>4, <3>1
    <3>2. CASE x # now
      <4>1. x \in 1 .. now - 1
        BY <1>1, <3>2
      <4> QED BY <2>1, <2>2, <2>4, <4>1 DEF Kept
    <3> QED BY <3>1, <3>2
  <2> QED BY <2>4 DEF Kept, o
<1>16. \A j \in 1 .. Len(q) : q[j] < now + 1
  <2> SUFFICES ASSUME NEW j \in 1 .. Len(q) PROVE q[j] < now + 1
    OBVIOUS
  <2>1. q[j] \in 1 .. n /\ q[j] < now
    BY <1>1, SequenceFacts DEF Packets, n
  <2> QED BY <1>1, <2>1
<1>17. e.at = now + 1 /\ e.queue = q /\ e.open = d.open
  BY DEF now, q
<1>18. Arrives(e, f, from)
  BY <1>1, <1>11, <1>12, <1>15, <1>16, <1>17 DEF Arrives
<1> QED BY <1>5, <1>18

Dec(now, queue, open, known, time, live) ==
  [at |-> now, queue |-> queue, open |-> open, known |-> known, time |-> time, live |-> live]

LEMMA DecIs ==
  ASSUME NEW now \in 1 .. Len(media) + 1, NEW queue \in Seq(Packets), NEW open \in SUBSET MediaStreams,
         NEW known \in BOOLEAN, NEW time \in Nat, NEW live \in Int
  PROVE  /\ Dec(now, queue, open, known, time, live) \in DecoderType
         /\ Dec(now, queue, open, known, time, live).at = now
         /\ Dec(now, queue, open, known, time, live).queue = queue
         /\ Dec(now, queue, open, known, time, live).open = open
         /\ Dec(now, queue, open, known, time, live).live = live
BY DEF Dec, DecoderType

LEMMA DecoderFields ==
  ASSUME NEW d \in DecoderType
  PROVE  /\ d = Dec(d.at, d.queue, d.open, d.known, d.time, d.live)
         /\ d.at \in 1 .. Len(media) + 1 /\ d.queue \in Seq(Packets) /\ d.open \in SUBSET MediaStreams
         /\ d.known \in BOOLEAN /\ d.time \in Nat /\ d.live \in Int /\ Len(d.queue) \in Nat
<1>1. d = [at |-> d.at, queue |-> d.queue, open |-> d.open, known |-> d.known, time |-> d.time, live |-> d.live]
  BY DEF DecoderType
<1>2. d.queue \in Seq(Packets)
  BY DEF DecoderType
<1>3. Len(d.queue) \in Nat
  BY <1>2
<1> QED BY <1>1, <1>2, <1>3 DEF Dec, DecoderType

Changed(d, now, queue, known, time, live) ==
  [d EXCEPT !.at = now, !.queue = queue, !.known = known, !.time = time, !.live = live]

LEMMA DecExcept ==
  ASSUME NEW d \in DecoderType, NEW now, NEW more, NEW known, NEW time, NEW live
  PROVE  Changed(d, now, more, known, time, live) = Dec(now, more, d.open, known, time, live)
<1> DEFINE e1 == [d EXCEPT !.at = now]
           e2 == [e1 EXCEPT !.queue = more]
           e3 == [e2 EXCEPT !.known = known]
           e4 == [e3 EXCEPT !.time = time]
<1>1. e1 = Dec(now, d.queue, d.open, d.known, d.time, d.live)
  BY DEF DecoderType, Dec
<1> HIDE DEF e1
<1>2. e2 = Dec(now, more, d.open, d.known, d.time, d.live)
  BY <1>1 DEF Dec
<1> HIDE DEF e2
<1>3. e3 = Dec(now, more, d.open, known, d.time, d.live)
  BY <1>2 DEF Dec
<1> HIDE DEF e3
<1>4. e4 = Dec(now, more, d.open, known, time, d.live)
  BY <1>3 DEF Dec
<1> HIDE DEF e4
<1>5. [e4 EXCEPT !.live = live] = Dec(now, more, d.open, known, time, live)
  BY <1>4 DEF Dec
<1> QED BY <1>5 DEF e1, e2, e3, e4, Changed

\* What ReadPacket does: the packet it gives comes next of its stream, and is allocated.
ReadsPacket(d, g, from, s, r) ==
  /\ r.d.open = d.open /\ r.packet \in Packets \cup {0}
  /\ \/ \E j \in DOMAIN d.queue : Wanted(d.queue[j], s)
     \/ \A j \in 1 .. Len(r.d.queue) : ~Wanted(r.d.queue[j], s)
  /\ r.packet = 0 => Arrives(r.d, g, from) /\ r.d.live - Len(r.d.queue) = d.live - Len(d.queue)
  /\ r.packet # 0 =>
       /\ Wanted(r.packet, s)
       /\ Arrives(r.d, [g EXCEPT ![media[r.packet]] = Append(@, r.packet)], from)
       /\ r.d.live - Len(r.d.queue) = d.live - Len(d.queue) + 1

LEMMA DequeueGives ==
  ASSUME media \in Seq(MediaStreams), NEW d, NEW g, NEW from, Arrives(d, g, from), NEW s,
         \E i \in DOMAIN d.queue : Wanted(d.queue[i], s)
  PROVE  ReadsPacket(d, g, from, s, DequeuePacket(d, s))
<1> DEFINE q == d.queue
           W == {j \in DOMAIN q : Wanted(q[j], s)}
           i == Min(W)
           e == [d EXCEPT !.queue = RemoveAt(q, i)]
           k == q[i]
<1>1. d \in DecoderType /\ Rising(q)
  BY DEF Arrives
<1>2. q \in Seq(Packets) /\ Len(q) \in Nat /\ DOMAIN q = 1 .. Len(q)
  BY <1>1, DecoderFields
<1>3. W # {} /\ W \subseteq Nat
  BY <1>2
<1>4. i \in W /\ \A j \in W : i <= j
  <2> HIDE DEF W
  <2> QED BY <1>3, LeastOf
<1>5. DequeuePacket(d, s) = [d |-> e, packet |-> k]
  BY Zenon DEF DequeuePacket
<1>6. i \in 1 .. Len(q) /\ Wanted(k, s)
  BY <1>2, <1>4
<1>7. ASSUME NEW j \in 1 .. i - 1 PROVE media[q[j]] # media[k]
  <2>1. j \in 1 .. Len(q) /\ j < i
    BY <1>2, <1>6
  <2>2. j \notin W
    <3> HIDE DEF W, i
    <3> QED BY <1>4, <1>6, <2>1
  <2> QED BY <1>2, <1>6, <2>1, <2>2 DEF Wanted
<1> HIDE DEF i, W
<1>8. k \in Packets
  BY <1>2, <1>6
<1> DEFINE r == RemoveAt(q, i)
<1>9. r \in Seq(Packets) /\ Len(r) = Len(q) - 1
  <2> HIDE DEF q
  <2>1. /\ RemoveAt(q, i) \in Seq(Packets) /\ Len(RemoveAt(q, i)) = Len(q) - 1
        /\ \A j \in 1 .. Len(q) - 1 : RemoveAt(q, i)[j] = IF j < i THEN q[j] ELSE q[j + 1]
    BY <1>2, <1>6, RemoveGives
  <2> QED BY <2>1
<1> HIDE DEF r
<1>10. e = Dec(d.at, r, d.open, d.known, d.time, d.live)
  <2>1. e = [d EXCEPT !.queue = r]
    BY DEF r
  <2>2. [d EXCEPT !.queue = r] = Dec(d.at, r, d.open, d.known, d.time, d.live)
    BY <1>1, SMTT(30) DEF DecoderType, Dec
  <2> QED BY <2>1, <2>2
<1>11. e \in DecoderType /\ e.at = d.at /\ e.queue = r /\ e.open = d.open /\ e.live = d.live
  <2> HIDE DEF e
  <2>1. /\ d.at \in 1 .. Len(media) + 1 /\ d.open \in SUBSET MediaStreams
        /\ d.known \in BOOLEAN /\ d.time \in Nat /\ d.live \in Int
    BY <1>1, DecoderFields
  <2> QED BY <1>9, <1>10, <2>1, DecIs
<1> HIDE DEF e
<1>12. Arrives(e, [g EXCEPT ![media[k]] = Append(@, d.queue[i])], from)
  <2>1. e.queue = RemoveAt(d.queue, i)
    BY <1>11 DEF r
  <2>2. \A j \in 1 .. i - 1 : media[d.queue[j]] # media[k]
    BY <1>7
  <2>3. i \in 1 .. Len(d.queue)
    BY <1>6
  <2> QED BY <1>11, <2>1, <2>2, <2>3, ArriveQueued
<1>13. e.live - Len(e.queue) = d.live - Len(d.queue) + 1
  <2>1. d.live \in Int
    BY <1>1, DecoderFields
  <2> QED BY <1>2, <1>9, <1>11, <2>1
<1>14. k # 0
  BY <1>8 DEF Packets
<1> DEFINE p == [d |-> e, packet |-> k]
<1>15. p.d = e /\ p.packet = k
  OBVIOUS
<1>16. Arrives(e, [g EXCEPT ![media[k]] = Append(@, k)], from)
  BY <1>12
<1> HIDE DEF p, k
<1>17. ReadsPacket(d, g, from, s, p)
  BY <1>6, <1>8, <1>11, <1>13, <1>14, <1>15, <1>16 DEF ReadsPacket
<1> QED BY <1>5, <1>17 DEF p

LEMMA ReadPacketGives ==
  ASSUME media \in Seq(MediaStreams), NEW d, NEW g, NEW from, Arrives(d, g, from), NEW s
  PROVE  ReadsPacket(d, g, from, s, ReadPacket(d, s))
<1>1. CASE \E i \in DOMAIN d.queue : Wanted(d.queue[i], s)
  <2>1. ReadPacket(d, s) = DequeuePacket(d, s)
    BY <1>1, Zenon DEF ReadPacket
  <2> QED BY <1>1, <2>1, DequeueGives
<1>2. CASE ~ \E i \in DOMAIN d.queue : Wanted(d.queue[i], s)
  <2> DEFINE n == Len(media)
             q == d.queue
             ahead == {x \in Positions : x >= d.at /\ Wanted(x, s)}
             k == IF ahead = {} THEN n + 1 ELSE Min(ahead)
             read == d.at <= n
             more == Queued(d, k)
             A == IF ahead = {} THEN k ELSE k + 1
             K == d.known \/ read
             T == IF ahead # {} THEN k ELSE IF read THEN n ELSE d.time
             L == d.live + Len(more) + (IF ahead = {} THEN 0 ELSE 1)
             c == q \o more
             e == Dec(A, c, d.open, K, T, L)
             f == Dec(k, c, d.open, K, T, L)
  <2>1. d \in DecoderType
    BY DEF Arrives
  <2>2. /\ d.at \in 1 .. n + 1 /\ q \in Seq(Packets) /\ d.open \in SUBSET MediaStreams
        /\ d.known \in BOOLEAN /\ d.time \in Nat /\ d.live \in Int /\ Len(q) \in Nat /\ n \in Nat
    BY <2>1, DecoderFields
  <2>3. ReadPacket(d, s) = [d |-> e, packet |-> IF ahead = {} THEN 0 ELSE k]
    <3>1. ReadPacket(d, s) = [d |-> Changed(d, A, c, K, T, L), packet |-> IF ahead = {} THEN 0 ELSE k]
      BY <1>2, Zenon DEF ReadPacket, Changed
    <3> HIDE DEF A, c, K, T, L, e
    <3>2. Changed(d, A, c, K, T, L) = e
      BY <2>1, DecExcept DEF e
    <3> QED BY <3>1, <3>2
  <2>4. K \in BOOLEAN
    OBVIOUS
  <2>5. k \in d.at .. n + 1 /\ (ahead # {} => k \in ahead /\ \A x \in ahead : k <= x)
    <3>1. ahead \subseteq Nat
      BY DEF Positions
    <3>2. ahead # {} => Min(ahead) \in ahead /\ \A x \in ahead : Min(ahead) <= x
      <4> HIDE DEF ahead
      <4> QED BY <3>1, LeastOf
    <3>3. \A x \in ahead : x \in d.at .. n
      BY <2>2 DEF Positions
    <3> HIDE DEF ahead, n
    <3>4. CASE ahead = {}
      BY <2>2, <3>4
    <3>5. CASE ahead # {}
      <4>1. k = Min(ahead)
        BY <3>5
      <4>2. k \in ahead /\ (\A x \in ahead : k <= x) /\ k \in d.at .. n
        BY <3>2, <3>3, <3>5, <4>1
      <4> HIDE DEF k
      <4> QED BY <2>2, <4>2
    <3> QED BY <3>4, <3>5
  <2>6. \A x \in ahead : x \in Packets /\ Wanted(x, s)
    BY DEF Positions, Packets
  <2>7. \A x \in Packets : d.at <= x /\ x < k => ~Wanted(x, s)
    <3>1. \A x \in Packets : d.at <= x /\ Wanted(x, s) => x \in ahead
      BY <2>2 DEF Positions, Packets
    <3> SUFFICES ASSUME NEW x \in Packets, d.at <= x, x < k, x \in ahead PROVE FALSE
      BY <3>1
    <3>2. ahead # {} /\ k <= x
      BY <2>5
    <3> HIDE DEF k
    <3> QED BY <2>2, <2>5, <3>2 DEF Packets
  <2> HIDE DEF K, read, ahead
  <2>8. QueuesTo(d, k, more)
    <3> HIDE DEF k
    <3> QED BY <2>1, <2>5, QueuedGives
  <2>9. more \in Seq(Packets) /\ Len(more) \in Nat
    BY <2>8 DEF QueuesTo
  <2> HIDE DEF more
  <2>10. c \in Seq(Packets) /\ Len(c) = Len(q) + Len(more) /\ \A j \in 1 .. Len(c) : \/ \E i \in 1 .. Len(q) : c[j] = q[i]
                                                                                 \/ \E i \in 1 .. Len(more) : c[j] = more[i]
    <3> HIDE DEF q
    <3>1. /\ q \o more \in Seq(Packets) /\ Len(q \o more) = Len(q) + Len(more)
          /\ \A i \in 1 .. Len(q) : (q \o more)[i] = q[i]
          /\ \A i \in 1 .. Len(more) : (q \o more)[Len(q) + i] = more[i]
          /\ \A i \in 1 .. Len(q) + Len(more) : i \notin 1 .. Len(q) => i - Len(q) \in 1 .. Len(more) /\ (q \o more)[i] = more[i - Len(q)]
      BY <2>2, <2>9, ConcatGives
    <3> QED BY <3>1
  <2>11. A \in 1 .. n + 1 /\ T \in Nat /\ L \in Int
    <3>1. ahead # {} => k <= n
      BY <2>5, <2>6 DEF Packets
    <3>2. k \in 1 .. n + 1
      BY <2>2, <2>5
    <3> HIDE DEF k
    <3> QED BY <2>2, <2>9, <3>1, <3>2
  <2>12. k \in 1 .. n + 1
    BY <2>2, <2>5
  <2> HIDE DEF c, k, A, T, L, n
  <2>13. e \in DecoderType /\ e.at = A /\ e.queue = c /\ e.open = d.open /\ e.live = L
    BY <2>2, <2>4, <2>10, <2>11, DecIs DEF n
  <2>14. f \in DecoderType /\ f.at = k /\ f.queue = c /\ f.open = d.open /\ f.live = L
    BY <2>2, <2>4, <2>10, <2>11, <2>12, DecIs DEF n
  <2> HIDE DEF e, f
  <2>15. Arrives(f, g, from)
    <3>1. f.queue = d.queue \o more /\ k \in d.at .. Len(media) + 1
      BY <2>5, <2>14 DEF c, n
    <3> QED BY <2>8, <2>14, <3>1, ArriveBefore
  <2> DEFINE r == ReadPacket(d, s)
  <2>18. ASSUME NEW j \in 1 .. Len(c) PROVE ~Wanted(c[j], s)
    <3>1. CASE \E i \in 1 .. Len(q) : c[j] = q[i]
      <4>1. DOMAIN q = 1 .. Len(q)
        BY <2>2
      <4> QED BY <1>2, <3>1, <4>1
    <3>2. CASE \E i \in 1 .. Len(more) : c[j] = more[i]
      <4>1. PICK i \in 1 .. Len(more) : c[j] = more[i]
        BY <3>2
      <4>2. more[i] \in Packets /\ d.at <= more[i] /\ more[i] < k
        BY <2>8, <2>9 DEF QueuesTo
      <4> QED BY <2>7, <4>1, <4>2
    <3> QED BY <2>10, <3>1, <3>2
  <2>16. CASE ahead = {}
    <3>1. r.d = e /\ r.packet = 0
      BY <2>3, <2>16
    <3>2. e = f
      BY <2>16 DEF e, f, A
    <3>3. L = d.live + Len(more)
      BY <2>2, <2>9, <2>16 DEF L
    <3>4. e.live - Len(e.queue) = d.live - Len(d.queue)
      <4> DEFINE x == d.live
                 y == Len(d.queue)
                 z == Len(more)
      <4>1. x \in Int /\ y \in Int /\ z \in Int
        BY <2>2, <2>9
      <4>2. e.live = x + z
        BY <2>13, <3>3
      <4>3. Len(e.queue) = y + z
        BY <2>10, <2>13
      <4> HIDE DEF x, y, z
      <4>4. (x + z) - (y + z) = x - y
        BY <4>1
      <4> QED BY <4>2, <4>3, <4>4, Zenon DEF x, y
    <3> HIDE DEF r
    <3>5. ReadsPacket(d, g, from, s, r)
      BY <2>13, <2>15, <2>18, <3>1, <3>2, <3>4 DEF ReadsPacket
    <3> QED BY <3>5 DEF r
  <2>17. CASE ahead # {}
    <3>1. r.d = e /\ r.packet = k
      BY <2>3, <2>17
    <3>2. k \in Packets /\ Wanted(k, s)
      BY <2>5, <2>6, <2>17
    <3>3. e.at = k + 1
      BY <2>13, <2>17 DEF A
    <3>4. ASSUME NEW j \in 1 .. Len(c) PROVE media[c[j]] # media[k]
      BY <2>18, <3>2 DEF Wanted
    <3>5. Arrives(e, [g EXCEPT ![media[k]] = Append(@, k)], from)
      <4> DEFINE x == f.at
      <4>1. x \in Packets /\ media[k] = media[x] /\ e.at = x + 1 /\ e.queue = f.queue /\ e.open = f.open
        BY <2>13, <2>14, <3>2, <3>3
      <4>2. \A j \in 1 .. Len(f.queue) : media[f.queue[j]] # media[k]
        BY <2>14, <3>4
      <4>3. Arrives(e, [g EXCEPT ![media[k]] = Append(@, f.at)], from)
        BY <2>13, <2>15, <4>1, <4>2, ArriveNext
      <4> QED BY <2>14, <4>3
    <3>6. L = d.live + Len(more) + 1
      BY <2>17 DEF L
    <3>7. e.live - Len(e.queue) = d.live - Len(d.queue) + 1
      <4> DEFINE a == d.live
                 b == Len(q)
                 m == Len(more)
      <4>1. a \in Int /\ b \in Nat /\ m \in Nat /\ e.live = a + m + 1 /\ Len(e.queue) = b + m
        BY <2>2, <2>9, <2>10, <2>13, <3>6
      <4> HIDE DEF a, b, m
      <4>2. e.live - Len(e.queue) = a - b + 1
        BY <4>1
      <4> QED BY <4>2 DEF a, b
    <3>8. k # 0
      BY <3>2 DEF Packets
    <3> HIDE DEF r
    <3>9. ReadsPacket(d, g, from, s, r)
      BY <2>13, <2>18, <3>1, <3>2, <3>5, <3>7, <3>8 DEF ReadsPacket
    <3> QED BY <3>9 DEF r
  <2> QED BY <2>16, <2>17
<1> QED BY <1>1, <1>2

LEMMA ArriveSame ==
  ASSUME NEW d, NEW g, NEW from, Arrives(d, g, from),
         NEW e \in DecoderType, e.at = d.at, e.queue = d.queue, e.open = d.open
  PROVE  Arrives(e, g, from)
BY DEF Arrives

LEMMA FreeGives ==
  ASSUME NEW d \in DecoderType
  PROVE  /\ FreePacket(d) \in DecoderType /\ FreePacket(d).at = d.at /\ FreePacket(d).queue = d.queue
         /\ FreePacket(d).open = d.open /\ FreePacket(d).live = d.live - 1
BY DEF FreePacket, DecoderType

\* A packet that came first is queued again instead.
LEMMA ArriveRequeued ==
  ASSUME media \in Seq(MediaStreams), NEW d, NEW g, NEW from, NEW k \in Packets, g \in [MediaStreams -> Seq(Packets)],
         Arrives(d, [g EXCEPT ![media[k]] = Append(@, k)], from), d.queue = << >>,
         NEW e \in DecoderType, e.at = d.at, e.queue = <<k>>, e.open = d.open
  PROVE  Arrives(e, g, from)
<1> DEFINE s == media[k]
           b == g[s]
           a == Append(b, k)
           f == [g EXCEPT ![s] = a]
           now == d.at
           n == Len(media)
           q == <<k>>
<1>1. f = [g EXCEPT ![media[k]] = Append(@, k)]
  BY Zenon
<1>2. s \in MediaStreams /\ b \in Seq(Packets) /\ n \in Nat /\ k \in 1 .. n
  BY DEF Packets
<1>3. a \in Seq(Packets) /\ Len(a) = Len(b) + 1 /\ a[Len(b) + 1] = k /\ Len(b) \in Nat /\ \A i \in 1 .. Len(b) : a[i] = b[i]
  <2> HIDE DEF b
  <2> QED BY <1>2
<1>4. q \in Seq(Packets) /\ Len(q) = 1 /\ q[1] = k
  OBVIOUS
<1> HIDE DEF s, b, a, q
<1>5. f[s] = a /\ \A t \in MediaStreams \ {s} : f[t] = g[t]
  BY <1>2
<1> HIDE DEF f
<1>6. Arrives(d, f, from)
  BY <1>1
<1>7. now \in 1 .. n + 1 /\ d.open \subseteq MediaStreams /\ from \in [MediaStreams -> Nat]
  BY <1>6 DEF Arrives, DecoderType
<1>8. /\ \A t \in MediaStreams : Came(t, f[t], now, << >>)
      /\ \A t \in d.open : Kept(t, f[t], now, << >>, from[t])
  BY <1>6 DEF Arrives
<1>9. \A i \in 1 .. Len(b) + 1 : i \in 1 .. Len(a)
  BY <1>3
<1>10. Rising(a) /\ \A i \in 1 .. Len(a) : media[a[i]] = s /\ a[i] < now
  BY <1>2, <1>5, <1>8 DEF Came
<1>11. k < now
  <2>1. Len(b) + 1 \in 1 .. Len(a)
    BY <1>3
  <2> QED BY <1>3, <1>10, <2>1
<1>12. Rising(b) /\ \A i \in 1 .. Len(b) : b[i] < k /\ media[b[i]] = s /\ b[i] < now
  <2>1. ASSUME NEW i \in 1 .. Len(b) PROVE b[i] < k /\ media[b[i]] = s /\ b[i] < now
    <3>1. i \in 1 .. Len(a) /\ Len(b) + 1 \in 1 .. Len(a) /\ i < Len(b) + 1
      BY <1>3
    <3>2. a[i] < a[Len(b) + 1]
      BY <1>10, <3>1 DEF Rising
    <3> QED BY <1>3, <1>10, <3>1, <3>2
  <2>2. ASSUME NEW i \in 1 .. Len(b), NEW j \in 1 .. Len(b), i < j PROVE b[i] < b[j]
    <3>1. i \in 1 .. Len(a) /\ j \in 1 .. Len(a)
      BY <1>3
    <3>2. a[i] < a[j]
      BY <1>10, <2>2, <3>1 DEF Rising
    <3> QED BY <1>3, <3>2
  <2> QED BY <2>1, <2>2 DEF Rising
<1>13. ASSUME NEW t \in MediaStreams PROVE Came(t, g[t], now, q)
  <2> DEFINE c == g[t]
  <2>1. CASE t = s
    <3>1. c = b
      BY <2>1 DEF b
    <3> HIDE DEF c
    <3>2. \A j \in 1 .. Len(q) : q[j] = k
      BY <1>4
    <3>3. Came(t, c, now, q)
      BY <1>12, <2>1, <3>1, <3>2 DEF Came
    <3> QED BY <3>3 DEF c
  <2>2. CASE t # s
    <3>1. Came(t, c, now, << >>)
      BY <1>5, <1>8, <2>2
    <3> HIDE DEF c
    <3>2. \A j \in 1 .. Len(q) : media[q[j]] # t
      BY <1>4, <2>2 DEF s
    <3>3. Came(t, c, now, q)
      BY <3>1, <3>2 DEF Came
    <3> QED BY <3>3 DEF c
  <2> QED BY <2>1, <2>2
<1>14. Holds(q, k)
  BY <1>4 DEF Holds
<1>15. ASSUME NEW x, Holds(a, x) PROVE Holds(b, x) \/ x = k
  <2>1. PICK i \in 1 .. Len(a) : a[i] = x
    BY <1>15 DEF Holds
  <2>2. CASE i = Len(b) + 1
    BY <1>3, <2>1, <2>2
  <2>3. CASE i # Len(b) + 1
    <3>1. i \in 1 .. Len(b)
      BY <1>3, <2>3
    <3> QED BY <1>3, <2>1, <3>1 DEF Holds
  <2> QED BY <2>2, <2>3
<1>16. \A x : ~Holds(<< >>, x)
  BY DEF Holds
<1>17. ASSUME NEW t \in d.open PROVE Kept(t, g[t], now, q, from[t])
  <2> DEFINE o == from[t]
             c == f[t]
  <2>1. Kept(t, c, now, << >>, o)
    BY <1>8
  <2>2. \A x : Holds(c, x) => Holds(g[t], x) \/ Holds(q, x)
    <3>1. CASE t = s
      BY <1>5, <1>14, <1>15, <3>1 DEF b
    <3>2. CASE t # s
      BY <1>5, <1>7, <3>2
    <3> QED BY <3>1, <3>2
  <2> HIDE DEF o, c
  <2>3. Kept(t, g[t], now, q, o)
    BY <1>16, <2>1, <2>2 DEF Kept
  <2> QED BY <2>3 DEF o
<1>18. Rising(q) /\ \A i \in 1 .. Len(q) : q[i] < now
  BY <1>4, <1>11 DEF Rising
<1>19. e.at = now /\ e.queue = q /\ e.open = d.open
  BY DEF q
<1> QED BY <1>7, <1>13, <1>17, <1>18, <1>19 DEF Arrives

LEMMA TimedGives ==
  ASSUME media \in Seq(MediaStreams), NEW d, NEW g, NEW from, Arrives(d, g, from)
  PROVE  /\ Arrives(Timed(d), g, from) /\ Timed(d) \in DecoderType /\ Timed(d).open = d.open
         /\ Timed(d).live - Len(Timed(d).queue) = d.live - Len(d.queue)
<1>1. d \in DecoderType /\ g \in [MediaStreams -> Seq(Packets)]
  BY DEF Arrives
<1>2. /\ d.at \in 1 .. Len(media) + 1 /\ d.queue \in Seq(Packets) /\ d.open \in SUBSET MediaStreams
      /\ d.known \in BOOLEAN /\ d.time \in Nat /\ d.live \in Int /\ Len(d.queue) \in Nat
  BY <1>1, DecoderFields
<1>3. CASE d.known
  <2>1. Timed(d) = d
    BY <1>3, Zenon DEF Timed
  <2> QED BY <1>1, <2>1
<1>4. CASE ~d.known /\ d.queue # << >>
  <2> DEFINE x == Head(d.queue)
             e == [d EXCEPT !.known = TRUE, !.time = x]
  <2>1. Timed(d) = e
    BY <1>4, Zenon DEF Timed
  <2>2. x \in Nat
    BY <1>2, <1>4 DEF Packets
  <2> HIDE DEF x
  <2>3. e \in DecoderType /\ e.at = d.at /\ e.queue = d.queue /\ e.open = d.open /\ e.live = d.live
    BY <1>1, <2>2 DEF DecoderType
  <2> HIDE DEF e
  <2>4. Arrives(e, g, from)
    BY <2>3, ArriveSame
  <2> QED BY <2>1, <2>3, <2>4
<1>5. CASE ~d.known /\ d.queue = << >>
  <2> DEFINE r == ReadPacket(d, AnyStream)
             k == r.packet
             x == r.d
             e == [x EXCEPT !.queue = Append(x.queue, k)]
  <2>1. Timed(d) = IF k = 0 THEN d ELSE e
    BY <1>5, Zenon DEF Timed
  <2>2. ReadsPacket(d, g, from, AnyStream, r)
    BY ReadPacketGives
  <2> HIDE DEF r
  <2>3. CASE k = 0
    BY <1>1, <2>1, <2>3
  <2>4. CASE k # 0
    <3>1. /\ k \in Packets /\ x.open = d.open /\ Arrives(x, [g EXCEPT ![media[k]] = Append(@, k)], from)
          /\ x.live - Len(x.queue) = d.live - Len(d.queue) + 1
      BY <2>2, <2>4 DEF ReadsPacket
    <3>2. \/ \E j \in DOMAIN d.queue : Wanted(d.queue[j], AnyStream)
          \/ \A j \in 1 .. Len(x.queue) : ~Wanted(x.queue[j], AnyStream)
      BY <2>2 DEF ReadsPacket
    <3> HIDE DEF x, k
    <3>3. x \in DecoderType
      BY <3>1 DEF Arrives
    <3>4. x.queue \in Seq(Packets) /\ x.live \in Int /\ Len(x.queue) \in Nat
      BY <3>3, DecoderFields
    <3>5. x.queue = << >>
      <4>1. DOMAIN d.queue = {}
        BY <1>5
      <4>2. \A j \in 1 .. Len(x.queue) : FALSE
        BY <3>2, <4>1 DEF Wanted
      <4>3. Len(x.queue) = 0
        BY <3>4, <4>2
      <4> QED BY <3>4, <4>3
    <3>6. e = [x EXCEPT !.queue = <<k>>]
      BY <3>5
    <3>7. <<k>> \in Seq(Packets) /\ Len(<<k>>) = 1
      BY <3>1
    <3>8. e \in DecoderType /\ e.at = x.at /\ e.queue = <<k>> /\ e.open = x.open /\ e.live = x.live
      <4> DEFINE y == <<k>>
      <4>1. y \in Seq(Packets)
        BY <3>7
      <4> HIDE DEF y
      <4>2. [x EXCEPT !.queue = y] \in DecoderType
        BY <3>3, <4>1 DEF DecoderType
      <4>3. /\ [x EXCEPT !.queue = y].at = x.at /\ [x EXCEPT !.queue = y].queue = y
            /\ [x EXCEPT !.queue = y].open = x.open /\ [x EXCEPT !.queue = y].live = x.live
        BY <3>3 DEF DecoderType
      <4> QED BY <3>6, <4>2, <4>3 DEF y
    <3> HIDE DEF e
    <3>9. Arrives(e, g, from)
      BY <1>1, <3>1, <3>5, <3>8, ArriveRequeued
    <3>10. Len(x.queue) = 0 /\ Len(d.queue) = 0
      BY <1>5, <3>5
    <3>11. e.live - Len(e.queue) = d.live - Len(d.queue)
      BY <1>2, <3>1, <3>4, <3>7, <3>8, <3>10
    <3> QED BY <2>1, <2>4, <3>1, <3>8, <3>9, <3>11
  <2> QED BY <2>3, <2>4
<1> QED BY <1>2, <1>3, <1>4, <1>5

\* Before any packet, or after a seek
LEMMA ArriveFirst ==
  ASSUME media \in Seq(MediaStreams), NEW d \in DecoderType, d.queue = << >>
  PROVE  Arrives(d, [s \in MediaStreams |-> << >>], [s \in MediaStreams |-> d.at])
<1>1. d.at \in Nat /\ d.open \subseteq MediaStreams
  BY DEF DecoderType
<1>2. ASSUME NEW s PROVE Came(s, << >>, d.at, << >>) /\ Kept(s, << >>, d.at, << >>, d.at)
  <2>1. \A k \in 1 .. d.at - 1 : ~(k >= d.at)
    BY <1>1
  <2> QED BY <2>1 DEF Came, Kept, Rising
<1>3. Rising(<< >>)
  BY DEF Rising
<1> QED BY <1>1, <1>2, <1>3 DEF Arrives

LEMMA SeekGives ==
  ASSUME media \in Seq(MediaStreams), NEW d, NEW g, NEW from, Arrives(d, g, from), NEW time
  PROVE  LET e == SeekFrame(d, time)
         IN  /\ e \in DecoderType /\ e.queue = << >> /\ e.live = d.live - Len(d.queue)
             /\ Arrives(e, [s \in MediaStreams |-> << >>], [s \in MediaStreams |-> e.at])
<1> DEFINE t == Timed(d)
           l == Landing(d, time)
           u == [t EXCEPT !.at = l]
           f == [u EXCEPT !.live = u.live - Len(u.queue), !.queue = << >>]
           e == [f EXCEPT !.known = FALSE]
<1>1. SeekFrame(d, time) = e
  BY Zenon DEF SeekFrame, FlushQueue
<1>2. t \in DecoderType /\ t.live - Len(t.queue) = d.live - Len(d.queue)
  BY TimedGives
<1> HIDE DEF t
<1>3. t.at \in 1 .. Len(media) + 1 /\ t.live \in Int /\ t.queue \in Seq(Packets) /\ Len(t.queue) \in Nat
  BY <1>2, DecoderFields
<1>4. l \in 1 .. Len(media) + 1
  <2> DEFINE before == {k \in Keys \cap Positions : k <= time}
             after == {k \in Keys \cap Positions : k >= time}
             n == Len(media)
  <2>0. n \in Nat
    OBVIOUS
  <2>1. before \subseteq 1 .. n /\ after \subseteq 1 .. n
    BY DEF Positions
  <2>2. l = IF time < FrameTime(d) THEN IF before = {} THEN t.at ELSE Max(before) ELSE IF after = {} THEN t.at ELSE Min(after)
    BY Zenon DEF Landing, t
  <2> HIDE DEF before, after, l, n
  <2>3. before # {} => Max(before) \in 1 .. n
    <3>1. before \subseteq 0 .. n
      BY <2>0, <2>1
    <3> QED BY <2>0, <2>1, <3>1, GreatestOf
  <2>4. after # {} => Min(after) \in 1 .. n
    <3>1. after \subseteq Nat
      BY <2>0, <2>1
    <3> QED BY <2>1, <3>1, LeastOf
  <2>5. t.at \in 1 .. n + 1
    BY <1>3 DEF n
  <2>6. l \in 1 .. n + 1
    BY <2>0, <2>2, <2>3, <2>4, <2>5
  <2> QED BY <2>6 DEF n
<1> HIDE DEF l
<1>5. u \in DecoderType /\ u.live = t.live /\ u.queue = t.queue
  BY <1>2, <1>4 DEF DecoderType
<1> HIDE DEF u
<1>6. f \in DecoderType /\ f.queue = << >> /\ f.live = u.live - Len(u.queue)
  <2> DEFINE x == u.live - Len(u.queue)
  <2>1. x \in Int /\ << >> \in Seq(Packets)
    BY <1>3, <1>5
  <2> HIDE DEF x
  <2>2. [u EXCEPT !.live = x, !.queue = << >>] \in DecoderType
    BY <1>5, <2>1 DEF DecoderType
  <2>3. [u EXCEPT !.live = x, !.queue = << >>].queue = << >> /\ [u EXCEPT !.live = x, !.queue = << >>].live = x
    BY <1>5 DEF DecoderType
  <2> QED BY <2>2, <2>3 DEF x
<1> HIDE DEF f
<1>7. e \in DecoderType /\ e.queue = f.queue /\ e.live = f.live
  BY <1>6 DEF DecoderType
<1> HIDE DEF e
<1>8. e.queue = << >> /\ e.live = d.live - Len(d.queue)
  BY <1>2, <1>5, <1>6, <1>7
<1>9. Arrives(e, [s \in MediaStreams |-> << >>], [s \in MediaStreams |-> e.at])
  BY <1>7, <1>8, ArriveFirst
<1> QED BY <1>1, <1>7, <1>8, <1>9

-----------------------------------------------------------------------------
(* The rounds of the two decoders                                          *)

\* Packets p have come of stream s, besides.
Plus(g, s, p) == [g EXCEPT ![s] = @ \o p]

LEMMA PlusGives ==
  ASSUME NEW g \in [MediaStreams -> Seq(Packets)], NEW s \in MediaStreams, NEW p \in Seq(Packets), NEW k \in Packets
  PROVE  /\ Plus(g, s, p) \in [MediaStreams -> Seq(Packets)] /\ Plus(g, s, << >>) = g
         /\ Append(p, k) \in Seq(Packets)
         /\ Plus(g, s, Append(p, k)) = [Plus(g, s, p) EXCEPT ![s] = Append(@, k)]
<1> DEFINE b == g[s]
<1>1. b \in Seq(Packets)
  OBVIOUS
<1>2. Plus(g, s, p) = [g EXCEPT ![s] = b \o p] /\ Plus(g, s, << >>) = [g EXCEPT ![s] = b \o << >>]
      /\ Plus(g, s, Append(p, k)) = [g EXCEPT ![s] = b \o Append(p, k)]
  BY Zenon DEF Plus
<1>3. /\ b \o p \in Seq(Packets) /\ b \o << >> = b /\ Append(p, k) \in Seq(Packets)
      /\ b \o Append(p, k) = Append(b \o p, k)
  <2> HIDE DEF b
  <2>1. b \o p \in Seq(Packets) /\ b \o << >> = b /\ Append(p, k) \in Seq(Packets)
    BY <1>1
  <2>2. b \o Append(p, k) = Append(b \o p, k)
    <3>1. b \o Append(p, k) \in Seq(Packets) /\ Append(b \o p, k) \in Seq(Packets)
      BY <1>1, <2>1
    <3> DEFINE l == Len(b)
               m == Len(p)
               x == b \o Append(p, k)
               y == Append(b \o p, k)
    <3>2. l \in Nat /\ m \in Nat /\ Len(x) = l + m + 1 /\ Len(y) = l + m + 1
      BY <1>1
    <3>3. ASSUME NEW i \in 1 .. l + m + 1 PROVE x[i] = y[i]
      <4>1. CASE i \in 1 .. l
        BY <1>1, <3>2, <4>1
      <4>2. CASE i \in l + 1 .. l + m
        BY <1>1, <3>2, <4>2
      <4>3. CASE i = l + m + 1
        BY <1>1, <3>2, <4>3
      <4> QED BY <3>2, <4>1, <4>2, <4>3
    <3> HIDE DEF x, y
    <3>4. x = y
      BY <3>1, <3>2, <3>3, SeqEqual DEF x, y
    <3> QED BY <3>4 DEF x, y
  <2> QED BY <2>1, <2>2
<1> DEFINE f == [g EXCEPT ![s] = b \o p]
<1>4. f \in [MediaStreams -> Seq(Packets)] /\ f[s] = b \o p
  <2> HIDE DEF b
  <2> QED BY <1>3
<1>5. [f EXCEPT ![s] = Append(@, k)] = [g EXCEPT ![s] = Append(b \o p, k)]
  <2>1. [f EXCEPT ![s] = Append(@, k)] = [f EXCEPT ![s] = Append(f[s], k)]
    BY Zenon
  <2> DEFINE z == Append(b \o p, k)
  <2>2. [f EXCEPT ![s] = z] = [g EXCEPT ![s] = z]
    <3> HIDE DEF z, b
    <3> QED OBVIOUS
  <2> QED BY <1>4, <2>1, <2>2
<1>6. [g EXCEPT ![s] = b] = g
  OBVIOUS
<1> HIDE DEF f, b
<1>7. Plus(g, s, p) = f
  BY <1>2 DEF f
<1> QED BY <1>2, <1>3, <1>4, <1>5, <1>6, <1>7

VideoType == [packet : Packets \cup {0}, left : Int, position : Int]
FrameRounds == [d : DecoderType, v : VideoType, packets : Seq(Packets), done : BOOLEAN]

\* The packet that the video decoder works on is allocated, besides those queued.
FrameInv(r) ==
  /\ r \in FrameRounds /\ Arrives(r.d, Plus(got, Video, r.packets), since)
  /\ r.d.live = Len(r.d.queue) + (IF r.v.packet = 0 THEN 0 ELSE 1)

LEMMA FetchedGives ==
  ASSUME media \in Seq(MediaStreams), got \in [MediaStreams -> Seq(Packets)], NEW r, FrameInv(r)
  PROVE  FrameInv(Fetched(r))
<1>1. CASE r.v.left > 0
  <2>1. Fetched(r) = r
    BY <1>1, Zenon DEF Fetched
  <2> QED BY <2>1
<1>2. CASE ~(r.v.left > 0)
  <2> DEFINE x == IF r.v.packet = 0 THEN r.d ELSE FreePacket(r.d)
             p == ReadPacket(x, Video)
             k == p.packet
             v == [packet |-> k, left |-> IF k = 0 THEN 0 ELSE Chunks, position |-> r.v.position]
             q == IF k = 0 THEN r.packets ELSE Append(r.packets, k)
             f == [d |-> p.d, v |-> v, packets |-> q, done |-> r.done]
             G == Plus(got, Video, r.packets)
  <2>1. Fetched(r) = f
    BY <1>2, Zenon DEF Fetched
  <2>2. /\ r.d \in DecoderType /\ r.v \in VideoType /\ r.packets \in Seq(Packets) /\ r.done \in BOOLEAN
        /\ Arrives(r.d, G, since) /\ r.d.live = Len(r.d.queue) + (IF r.v.packet = 0 THEN 0 ELSE 1)
    BY DEF FrameInv, FrameRounds
  <2>3. r.v.position \in Int
    BY <2>2 DEF VideoType
  <2>4. x \in DecoderType /\ x.at = r.d.at /\ x.queue = r.d.queue /\ x.open = r.d.open /\ x.live = Len(x.queue)
    <3>1. Len(r.d.queue) \in Nat
      BY <2>2, DecoderFields
    <3>2. CASE r.v.packet = 0
      BY <2>2, <3>1, <3>2
    <3>3. CASE r.v.packet # 0
      BY <2>2, <3>1, <3>3, FreeGives
    <3> QED BY <3>2, <3>3
  <2> HIDE DEF x, G
  <2>5. Arrives(x, G, since)
    BY <2>2, <2>4, ArriveSame
  <2>6. ReadsPacket(x, G, since, Video, p)
    BY <2>5, ReadPacketGives
  <2> HIDE DEF p
  <2>7. Len(x.queue) \in Nat
    BY <2>4, DecoderFields
  <2>8. CASE k = 0
    <3>1. Arrives(p.d, G, since) /\ p.d.live - Len(p.d.queue) = x.live - Len(x.queue)
      BY <2>6, <2>8 DEF ReadsPacket
    <3>2. p.d \in DecoderType
      BY <3>1 DEF Arrives
    <3>3. p.d.live \in Int /\ Len(p.d.queue) \in Nat
      BY <3>2, DecoderFields
    <3>4. p.d.live = Len(p.d.queue)
      BY <2>4, <2>7, <3>1, <3>3
    <3>5. v \in VideoType /\ v.packet = 0
      BY <2>3, <2>8 DEF VideoType
    <3>6. q = r.packets
      BY <2>8
    <3> HIDE DEF v, q
    <3>7. f \in FrameRounds /\ f.d = p.d /\ f.v = v /\ f.packets = r.packets
      BY <2>2, <3>2, <3>5, <3>6 DEF FrameRounds
    <3> HIDE DEF f
    <3>8. Len(p.d.queue) + 0 = Len(p.d.queue)
      BY <3>3
    <3>9. FrameInv(f)
      BY <3>1, <3>4, <3>5, <3>7, <3>8 DEF FrameInv, G
    <3> QED BY <2>1, <3>9
  <2>9. CASE k # 0
    <3>1. /\ k \in Packets /\ Wanted(k, Video) /\ Arrives(p.d, [G EXCEPT ![media[k]] = Append(@, k)], since)
          /\ p.d.live - Len(p.d.queue) = x.live - Len(x.queue) + 1
      BY <2>6, <2>9 DEF ReadsPacket
    <3>2. p.d \in DecoderType
      BY <3>1 DEF Arrives
    <3>3. p.d.live \in Int /\ Len(p.d.queue) \in Nat
      BY <3>2, DecoderFields
    <3>4. p.d.live = Len(p.d.queue) + 1
      <4> DEFINE a == p.d.live
                 b == Len(p.d.queue)
                 c == x.live
                 e == Len(x.queue)
      <4>1. a \in Int /\ b \in Nat /\ e \in Nat /\ c = e /\ a - b = c - e + 1
        BY <2>4, <2>7, <3>1, <3>3
      <4> HIDE DEF a, b, c, e
      <4>2. a = b + 1
        BY <4>1
      <4> QED BY <4>2 DEF a, b
    <3>5. v \in VideoType /\ v.packet = k
      BY <2>3, <2>9, <3>1 DEF VideoType
    <3>6. q = Append(r.packets, k)
      BY <2>9
    <3>7. media[k] = Video /\ Video \in MediaStreams
      BY <3>1 DEF Wanted, Video, AnyStream, MediaStreams
    <3> HIDE DEF v, q, k
    <3>8. q \in Seq(Packets) /\ Plus(got, Video, q) = [G EXCEPT ![Video] = Append(@, k)]
      <4> DEFINE a == r.packets
      <4>1. a \in Seq(Packets)
        BY <2>2
      <4> HIDE DEF a
      <4>2. /\ Plus(got, Video, a) \in [MediaStreams -> Seq(Packets)] /\ Plus(got, Video, << >>) = got
            /\ Append(a, k) \in Seq(Packets)
            /\ Plus(got, Video, Append(a, k)) = [Plus(got, Video, a) EXCEPT ![Video] = Append(@, k)]
        BY <3>1, <3>7, <4>1, PlusGives, ZenonT(40)
      <4> QED BY <3>6, <4>2 DEF G, a
    <3>9. f \in FrameRounds /\ f.d = p.d /\ f.v = v /\ f.packets = q
      BY <2>2, <3>2, <3>5, <3>8 DEF FrameRounds
    <3> HIDE DEF f
    <3>10. Arrives(f.d, Plus(got, Video, f.packets), since)
      BY <3>1, <3>7, <3>8, <3>9
    <3>11. f.d.live = Len(f.d.queue) + (IF f.v.packet = 0 THEN 0 ELSE 1)
      BY <2>9, <3>4, <3>5, <3>9
    <3> QED BY <2>1, <3>9, <3>10, <3>11 DEF FrameInv
  <2> QED BY <2>8, <2>9
<1> QED BY <1>1, <1>2

LEMMA VideoRoundGives ==
  ASSUME media \in Seq(MediaStreams), got \in [MediaStreams -> Seq(Packets)], NEW r, FrameInv(r),
         NEW target \in Int, NEW decodes \in BOOLEAN
  PROVE  FrameInv(VideoRound(r, target, decodes))
<1> DEFINE x == Fetched(r)
           k == x.v.packet
           y == [x EXCEPT !.done = TRUE]
           v == [packet |-> k, left |-> x.v.left - 1, position |-> IF k >= target THEN k ELSE x.v.position]
           late == k >= target
           z == [x EXCEPT !.v = v, !.done = late]
<1>1. VideoRound(r, target, decodes) = IF r.done THEN r ELSE IF k = 0 \/ ~decodes THEN y ELSE z
  BY Zenon DEF VideoRound
<1>2. FrameInv(x)
  BY FetchedGives
<1> HIDE DEF x
<1>3. /\ x \in FrameRounds /\ x.v \in VideoType /\ Arrives(x.d, Plus(got, Video, x.packets), since)
      /\ x.d.live = Len(x.d.queue) + (IF k = 0 THEN 0 ELSE 1)
  BY <1>2 DEF FrameInv, FrameRounds
<1>4. k \in Int /\ k \in Packets \cup {0} /\ x.v.left \in Int /\ x.v.position \in Int /\ late \in BOOLEAN
  BY <1>3 DEF VideoType, Packets
<1>5. v \in VideoType /\ v.packet = k
  <2> HIDE DEF k
  <2> QED BY <1>4 DEF VideoType
<1> HIDE DEF v, late
<1>6. y \in FrameRounds /\ y.d = x.d /\ y.v = x.v /\ y.packets = x.packets
  BY <1>3 DEF FrameRounds
<1>7. z \in FrameRounds /\ z.d = x.d /\ z.v = v /\ z.packets = x.packets
  BY <1>3, <1>4, <1>5 DEF FrameRounds
<1> HIDE DEF y, z
<1>8. FrameInv(y)
  BY <1>3, <1>6 DEF FrameInv
<1>9. FrameInv(z)
  BY <1>3, <1>5, <1>7 DEF FrameInv
<1> HIDE DEF k
<1> QED BY <1>1, <1>8, <1>9

LEMMA ReadFrameGives ==
  ASSUME media \in Seq(MediaStreams), Arrives(decoder, got, since), video \in VideoType,
         decoder.live = Len(decoder.queue) + (IF video.packet = 0 THEN 0 ELSE 1),
         NEW target \in Int, NEW decodes \in BOOLEAN
  PROVE  FrameInv(ReadFrame(target, decodes))
<1> DEFINE n == (Len(media) + 2) * Chunks
           S == {r \in FrameRounds : FrameInv(r)}
           start == [d |-> decoder, v |-> video, packets |-> << >>, done |-> FALSE]
           Turn(x) == VideoRound(x, target, decodes)
           step == [i \in Nat |-> [x \in S |-> Turn(x)]]
           F(f) == f = [i \in 0 .. n |-> IF i = 0 THEN start ELSE Turn(f[i - 1])]
           round == CHOOSE f : F(f)
<1>0. n \in Nat
  <2>1. Len(media) \in Nat
    OBVIOUS
  <2> QED BY <2>1
<1>1. ReadFrame(target, decodes) = round[n]
  BY Zenon DEF ReadFrame
<1>2. start \in S
  <2>1. got \in [MediaStreams -> Seq(Packets)] /\ decoder \in DecoderType
    BY DEF Arrives
  <2>2. Plus(got, Video, << >>) = got
    <3>1. Video \in MediaStreams
      BY DEF MediaStreams
    <3> DEFINE b == got[Video]
    <3>2. b \in Seq(Packets)
      BY <2>1, <3>1
    <3>3. Plus(got, Video, << >>) = [got EXCEPT ![Video] = b \o << >>]
      BY Zenon DEF Plus
    <3>4. b \o << >> = b
      <4> HIDE DEF b
      <4> QED BY <3>2
    <3>5. [got EXCEPT ![Video] = b] = got
      BY <2>1
    <3> QED BY <3>3, <3>4, <3>5
  <2>3. start \in FrameRounds /\ start.d = decoder /\ start.v = video /\ start.packets = << >>
    BY <2>1 DEF FrameRounds
  <2> HIDE DEF start
  <2> QED BY <2>2, <2>3 DEF FrameInv
<1>3. step \in [Nat -> [S -> S]]
  <2> SUFFICES ASSUME NEW x \in S PROVE Turn(x) \in S
    OBVIOUS
  <2>1. got \in [MediaStreams -> Seq(Packets)]
    BY DEF Arrives
  <2>2. FrameInv(Turn(x))
    BY <2>1, VideoRoundGives
  <2> HIDE DEF Turn
  <2> QED BY <2>2 DEF FrameInv
<1> HIDE DEF n, S, start, step, Turn
<1>4. PICK g \in [0 .. n -> S] : g[0] = start /\ \A i \in 1 .. n : g[i] = step[i][g[i - 1]]
  <2>1. Runs(S, step, start, n)
    BY <1>0, <1>2, <1>3, LoopRuns
  <2> QED BY <2>1 DEF Runs
<1>5. ASSUME NEW i \in 0 .. n PROVE g[i] = IF i = 0 THEN start ELSE Turn(g[i - 1])
  <2>1. CASE i = 0
    BY <1>4, <2>1
  <2>2. CASE i # 0
    <3>1. i \in 1 .. n /\ i - 1 \in 0 .. n /\ i \in Nat
      BY <1>0, <2>2
    <3>2. g[i] = step[i][g[i - 1]] /\ g[i - 1] \in S
      BY <1>4, <3>1
    <3>3. step[i][g[i - 1]] = Turn(g[i - 1])
      BY <3>1, <3>2 DEF step
    <3> QED BY <2>2, <3>2, <3>3
  <2> QED BY <2>1, <2>2
<1>6. F(g)
  BY <1>4, <1>5
<1>7. F(round)
  BY <1>6, Zenon
<1> HIDE DEF round
<1> DEFINE I == [i \in 0 .. n |-> S]
<1>8. round[0] = start /\ \A i \in 1 .. n : round[i] = Turn(round[i - 1])
  <2>1. \A i \in 0 .. n : round[i] = IF i = 0 THEN start ELSE Turn(round[i - 1])
    BY <1>7
  <2>2. 0 \in 0 .. n /\ \A i \in 1 .. n : i \in 0 .. n /\ i # 0
    BY <1>0
  <2> HIDE DEF F
  <2> QED BY <2>1, <2>2
<1>9. \A x \in S : Turn(x) \in S
  <2> SUFFICES ASSUME NEW x \in S PROVE Turn(x) \in S
    OBVIOUS
  <2>1. step[0][x] = Turn(x)
    BY DEF step
  <2> QED BY <1>3, <2>1
<1>10. round[0] \in I[0] /\ \A i \in 1 .. n : round[i - 1] \in I[i - 1] => round[i] \in I[i]
  BY <1>0, <1>2, <1>8, <1>9
<1>11. round[n] \in I[n]
  <2> HIDE DEF I
  <2> QED BY <1>0, <1>10, LoopKeeps
<1>12. round[n] \in S
  BY <1>0, <1>11
<1> QED BY <1>1, <1>12 DEF S

-----------------------------------------------------------------------------
(* Samples                                                                 *)

Tones == Packets \X Nat
SoundType == [out : Seq(Tones), cache : Seq(Tones), count : Nat]

\* While samples are wanted the cache is empty.
Served(x) == x \in SoundType /\ (x.count > 0 => x.cache = << >>)

LEMMA TakenGives ==
  ASSUME NEW T, NEW s \in Seq(T), NEW count \in Nat
  PROVE  /\ Taken(s, count) \in Seq(T) /\ Left(s, count) \in Seq(T)
         /\ Taken(s, count) \o Left(s, count) = s
         /\ count - Len(Taken(s, count)) \in Nat
         /\ count - Len(Taken(s, count)) > 0 => Left(s, count) = << >>
         /\ count = 0 => Taken(s, count) = << >>
<1> DEFINE l == Len(s)
           n == IF count < l THEN count ELSE l
           t == Taken(s, count)
<1>1. l \in Nat /\ n \in 0 .. l /\ count - n \in Nat
  OBVIOUS
<1>2. t = SubSeq(s, 1, n)
  BY DEF Taken
<1> HIDE DEF n
<1>3. \A i \in 1 .. l : s[i] \in T
  OBVIOUS
<1>4. t \in Seq(T) /\ Len(t) = n
  BY <1>1, <1>2, <1>3, SubSeqProperties
<1>5. Left(s, count) = SubSeq(s, n + 1, l)
  BY <1>4 DEF Left
<1>6. Left(s, count) \in Seq(T)
  BY <1>1, <1>3, <1>5, SubSeqProperties
<1>7. t \o Left(s, count) = s
  <2>1. SubSeq(s, 1, n) \o SubSeq(s, n + 1, l) = SubSeq(s, 1, l)
    <3>1. 1 \in 1 .. l + 1 /\ n \in 1 - 1 .. l /\ l \in n .. l
      BY <1>1
    <3> QED BY <3>1, ConcatAdjacentSubSeq
  <2>2. SubSeq(s, 1, l) = s
    BY SubSeqFull
  <2> QED BY <1>2, <1>5, <2>1, <2>2
<1>8. ASSUME count - n > 0 PROVE Left(s, count) = << >>
  <2>1. n = l
    BY <1>1, <1>8 DEF n
  <2> QED BY <1>1, <1>5, <2>1, SubSeqEmpty
<1>9. ASSUME count = 0 PROVE t = << >>
  <2>1. n = 0
    BY <1>1, <1>9 DEF n
  <2> QED BY <1>2, <2>1, SubSeqEmpty
<1> HIDE DEF t
<1> QED BY <1>1, <1>4, <1>6, <1>7, <1>8, <1>9 DEF t

LEMMA SamplesGive ==
  ASSUME NEW k \in Packets
  PROVE  Samples(k) \in Seq(Tones) /\ Len(Samples(k)) = Chunks * ChunkSamples
<1> DEFINE n == Chunks * ChunkSamples
<1>1. n \in Nat
  OBVIOUS
<1>2. Samples(k) = [i \in 1 .. n |-> <<k, i>>]
  BY DEF Samples
<1> HIDE DEF n
<1>3. \A i \in 1 .. n : <<k, i>> \in Tones
  BY <1>1 DEF Tones
<1>4. Samples(k) \in Seq(Tones) /\ Len(Samples(k)) = n
  BY <1>1, <1>2, <1>3
<1> QED BY <1>4 DEF n

\* The samples of a packet up to a chunk
LEMMA ChunkGives ==
  ASSUME NEW k \in Packets, NEW c \in 1 .. Chunks
  PROVE  /\ Chunk(k, c) \in Seq(Tones)
         /\ SubSeq(Samples(k), 1, (c - 1) * ChunkSamples) \in Seq(Tones)
         /\ SubSeq(Samples(k), 1, (c - 1) * ChunkSamples) \o Chunk(k, c) = SubSeq(Samples(k), 1, c * ChunkSamples)
<1> DEFINE s == Samples(k)
           a == (c - 1) * ChunkSamples
           b == c * ChunkSamples
           n == Chunks * ChunkSamples
<1>1. a \in Nat /\ b \in Nat /\ n \in Nat
  OBVIOUS
<1>2. a <= b
  <2>1. b = a + ChunkSamples
    OBVIOUS
  <2> QED BY <1>1, <2>1
<1>3. b <= n
  <2>1. (Chunks - c) * ChunkSamples \in Nat
    OBVIOUS
  <2>2. n - b = (Chunks - c) * ChunkSamples
    OBVIOUS
  <2> HIDE DEF n, b
  <2> QED BY <1>1, <2>1, <2>2
<1>4. s \in Seq(Tones) /\ Len(s) = n
  BY SamplesGive
<1>5. Chunk(k, c) = SubSeq(s, a + 1, b)
  BY DEF Chunk
<1> HIDE DEF s, a, b, n
<1>6. \A i \in 1 .. n : s[i] \in Tones
  BY <1>4
<1>7. SubSeq(s, a + 1, b) \in Seq(Tones) /\ SubSeq(s, 1, a) \in Seq(Tones)
  BY <1>1, <1>2, <1>3, <1>6, SubSeqProperties
<1>8. SubSeq(s, 1, a) \o SubSeq(s, a + 1, b) = SubSeq(s, 1, b)
  BY <1>1, <1>2, <1>3, <1>4, ConcatAdjacentSubSeq
<1> QED BY <1>5, <1>7, <1>8 DEF s, a, b

LEMMA DecodeChunkGives ==
  ASSUME NEW x, Served(x), NEW k \in Packets, NEW c \in 1 .. Chunks
  PROVE  /\ Served(DecodeChunk(x, k, c))
         /\ DecodeChunk(x, k, c).out \o DecodeChunk(x, k, c).cache = (x.out \o x.cache) \o Chunk(k, c)
<1> DEFINE ch == Chunk(k, c)
           o == x.out
           h == x.cache
           n == x.count
           t == Taken(ch, n)
           f == Left(ch, n)
           y == DecodeChunk(x, k, c)
<1>1. o \in Seq(Tones) /\ h \in Seq(Tones) /\ n \in Nat /\ (n > 0 => h = << >>)
  BY DEF Served, SoundType
<1>2. ch \in Seq(Tones)
  BY ChunkGives
<1>3. y = [out |-> o \o t, cache |-> h \o f, count |-> n - Len(t)]
  BY DEF DecodeChunk, Cached
<1> HIDE DEF ch, o, h, n, y
<1>4. /\ t \in Seq(Tones) /\ f \in Seq(Tones)
      /\ t \o f = ch
      /\ n - Len(t) \in Nat
      /\ n - Len(t) > 0 => f = << >>
      /\ n = 0 => t = << >>
  BY <1>1, <1>2, TakenGives
<1>5. n = 0 \/ n > 0
  BY <1>1
<1>6. Len(t) \in Nat
  BY <1>4
<1> HIDE DEF t, f
<1>7. y \in SoundType /\ y.out = o \o t /\ y.cache = h \o f /\ y.count = n - Len(t)
  <2>1. o \o t \in Seq(Tones) /\ h \o f \in Seq(Tones)
    BY <1>1, <1>4, ConcatProperties
  <2> DEFINE u == o \o t
             w == h \o f
             z == n - Len(t)
  <2>2. z \in Nat
    BY <1>4
  <2> HIDE DEF u, w, z
  <2>3. y \in SoundType /\ y.out = u /\ y.cache = w /\ y.count = z
    BY <1>3, <2>1, <2>2 DEF SoundType, u, w, z
  <2> QED BY <2>3 DEF u, w, z
<1>8. ASSUME y.count > 0 PROVE y.cache = << >>
  <2>1. n > 0 /\ f = << >> /\ h = << >>
    BY <1>1, <1>4, <1>6, <1>7, <1>8
  <2>2. h \o f = << >>
    BY <1>1, <2>1, ConcatEmptySeq
  <2> QED BY <1>7, <2>2
<1>9. (o \o t) \o (h \o f) = (o \o h) \o ch
  <2>1. CASE n = 0
    <3>1. t = << >> /\ o \o t = o /\ t \o f = f
      BY <1>1, <1>4, <2>1, ConcatEmptySeq
    <3>2. f = ch
      BY <1>4, <3>1
    <3> QED BY <1>1, <1>2, <3>1, <3>2, ConcatAssociative
  <2>2. CASE n > 0
    <3>1. h \o f = f /\ o \o h = o
      BY <1>1, <1>4, <2>2, ConcatEmptySeq
    <3>2. (o \o t) \o f = o \o (t \o f)
      <4>1. o \in Seq(Tones) /\ t \in Seq(Tones) /\ f \in Seq(Tones)
        BY <1>1, <1>4
      <4>2. \A a, b, e \in Seq(Tones) : (a \o b) \o e = a \o (b \o e)
        BY ConcatAssociative
      <4> QED BY <4>1, <4>2
    <3> QED BY <1>4, <3>1, <3>2
  <2> QED BY <1>5, <2>1, <2>2
<1>10. Served(y) /\ y.out \o y.cache = (o \o h) \o ch
  BY <1>7, <1>8, <1>9 DEF Served
<1> QED BY <1>10 DEF y, o, h, ch

LEMMA DecodeAudioGives ==
  ASSUME NEW x \in SoundType, NEW k \in Packets, NEW last \in 1 .. Chunks
  PROVE  /\ Served(DecodeAudio(x, k, last))
         /\ last = Chunks => DecodeAudio(x, k, last).out \o DecodeAudio(x, k, last).cache = x.out \o Samples(k)
<1> DEFINE S == {y \in SoundType : Served(y)}
           start == [x EXCEPT !.cache = << >>]
           Turn(y, c) == DecodeChunk(y, k, c)
           step == [c \in Nat |-> [y \in S |-> IF c \in 1 .. Chunks THEN Turn(y, c) ELSE y]]
           F(f) == f = [c \in 0 .. last |-> IF c = 0 THEN start ELSE Turn(f[c - 1], c)]
           decoded == CHOOSE f : F(f)
           Part(c) == SubSeq(Samples(k), 1, c * ChunkSamples)
           I == [c \in 0 .. last |-> {y \in S : y.out \o y.cache = x.out \o Part(c)}]
<1>0. last \in Nat /\ Chunks \in Nat
  OBVIOUS
<1>1. DecodeAudio(x, k, last) = decoded[last]
  BY Zenon DEF DecodeAudio
<1>2. start \in S /\ start.out = x.out /\ start.cache = << >> /\ x.out \in Seq(Tones)
  <2>1. start \in SoundType /\ start.out = x.out /\ start.cache = << >> /\ x.out \in Seq(Tones)
    <3> DEFINE e == << >>
               T == Seq(Tones)
    <3>1. e \in T
      OBVIOUS
    <3>2. x \in [out : T, cache : T, count : Nat]
      BY DEF SoundType
    <3> HIDE DEF e, T
    <3>3. [x EXCEPT !.cache = e] \in [out : T, cache : T, count : Nat] /\ x.out \in T
      BY <3>1, <3>2
    <3>4. [x EXCEPT !.cache = e].out = x.out /\ [x EXCEPT !.cache = e].cache = e
      BY <3>2
    <3> QED BY <3>3, <3>4 DEF SoundType, e, T
  <2> HIDE DEF start
  <2> QED BY <2>1 DEF Served
<1>3. ASSUME NEW y \in S, NEW c \in 1 .. Chunks
      PROVE  Turn(y, c) \in S /\ Turn(y, c).out \o Turn(y, c).cache = (y.out \o y.cache) \o Chunk(k, c)
  <2>1. Served(y)
    OBVIOUS
  <2>2. /\ Served(DecodeChunk(y, k, c))
        /\ DecodeChunk(y, k, c).out \o DecodeChunk(y, k, c).cache = (y.out \o y.cache) \o Chunk(k, c)
    BY <2>1, DecodeChunkGives
  <2>3. DecodeChunk(y, k, c) \in SoundType
    BY <2>2 DEF Served
  <2> QED BY <2>2, <2>3
<1> HIDE DEF S, start, Turn
<1>4. step \in [Nat -> [S -> S]]
  BY <1>3
<1> HIDE DEF step
<1>5. PICK g \in [0 .. last -> S] : g[0] = start /\ \A i \in 1 .. last : g[i] = step[i][g[i - 1]]
  <2>1. Runs(S, step, start, last)
    BY <1>0, <1>2, <1>4, LoopRuns
  <2> QED BY <2>1 DEF Runs
<1>6. ASSUME NEW i \in 0 .. last PROVE g[i] = IF i = 0 THEN start ELSE Turn(g[i - 1], i)
  <2>1. CASE i = 0
    BY <1>5, <2>1
  <2>2. CASE i # 0
    <3>1. i \in 1 .. last /\ i - 1 \in 0 .. last /\ i \in Nat /\ i \in 1 .. Chunks
      BY <1>0, <2>2
    <3>2. g[i] = step[i][g[i - 1]] /\ g[i - 1] \in S
      BY <1>5, <3>1
    <3>3. step[i][g[i - 1]] = Turn(g[i - 1], i)
      BY <3>1, <3>2 DEF step
    <3> QED BY <2>2, <3>2, <3>3
  <2> QED BY <2>1, <2>2
<1>7. F(g)
  BY <1>5, <1>6
<1>8. F(decoded)
  BY <1>7, Zenon
<1> HIDE DEF decoded
<1>9. decoded[0] = start /\ \A i \in 1 .. last : decoded[i] = Turn(decoded[i - 1], i)
  <2>1. \A i \in 0 .. last : decoded[i] = IF i = 0 THEN start ELSE Turn(decoded[i - 1], i)
    BY <1>8
  <2>2. 0 \in 0 .. last /\ \A i \in 1 .. last : i \in 0 .. last /\ i # 0
    BY <1>0
  <2> HIDE DEF F
  <2> QED BY <2>1, <2>2
<1>10. start.out \o start.cache = x.out \o Part(0)
  <2>1. 0 * ChunkSamples = 0
    OBVIOUS
  <2>2. Part(0) = << >>
    BY <2>1, SubSeqEmpty
  <2> QED BY <1>2, <2>2
<1>11. ASSUME NEW i \in 1 .. last, decoded[i - 1] \in I[i - 1] PROVE decoded[i] \in I[i]
  <2>1. i \in 1 .. Chunks /\ i - 1 \in 0 .. last /\ i \in 0 .. last
    BY <1>0
  <2> DEFINE y == decoded[i - 1]
             p == Part(i - 1)
  <2>2. y \in S /\ y.out \o y.cache = x.out \o p
    BY <1>11, <2>1
  <2>3. /\ Chunk(k, i) \in Seq(Tones) /\ p \in Seq(Tones)
        /\ p \o Chunk(k, i) = Part(i)
    BY <2>1, ChunkGives
  <2> HIDE DEF y, p, Part
  <2>4. Turn(y, i) \in S /\ Turn(y, i).out \o Turn(y, i).cache = (x.out \o p) \o Chunk(k, i)
    BY <1>3, <2>1, <2>2
  <2>5. (x.out \o p) \o Chunk(k, i) = x.out \o (p \o Chunk(k, i))
    <3>1. \A a, b, e \in Seq(Tones) : (a \o b) \o e = a \o (b \o e)
      BY ConcatAssociative
    <3> QED BY <1>2, <2>3, <3>1
  <2>6. decoded[i] = Turn(y, i)
    BY <1>9 DEF y
  <2> QED BY <2>1, <2>3, <2>4, <2>5, <2>6
<1>12. decoded[0] \in I[0]
  <2> HIDE DEF Part
  <2>1. 0 \in 0 .. last
    BY <1>0
  <2> QED BY <1>2, <1>9, <1>10, <2>1
<1> HIDE DEF I, F
<1>13. decoded[last] \in I[last]
  BY <1>0, <1>11, <1>12, LoopKeeps
<1>14. decoded[last] \in S /\ decoded[last].out \o decoded[last].cache = x.out \o Part(last)
  <2> HIDE DEF Part
  <2> QED BY <1>13 DEF I
<1>15. ASSUME last = Chunks PROVE Part(last) = Samples(k)
  <2>1. Samples(k) \in Seq(Tones) /\ Len(Samples(k)) = Chunks * ChunkSamples
    BY SamplesGive
  <2> QED BY <1>15, <2>1, SubSeqFull
<1>16. Served(decoded[last])
  BY <1>14 DEF S
<1> HIDE DEF Part
<1> QED BY <1>1, <1>14, <1>15, <1>16

\* The turns of SamplesOf
Totals(p, f) == f = [i \in 0 .. Len(p) |-> IF i = 0 THEN << >> ELSE f[i - 1] \o Samples(p[i])]

LEMMA TotalsGive ==
  ASSUME NEW p \in Seq(Packets)
  PROVE  \E f \in [0 .. Len(p) -> Seq(Tones)] : Totals(p, f) /\ SamplesOf(p) = f[Len(p)]
<1> DEFINE n == Len(p)
           S == Seq(Tones)
           Turn(y, i) == y \o Samples(p[i])
           step == [i \in Nat |-> [y \in S |-> IF i \in 1 .. n THEN Turn(y, i) ELSE y]]
           all == CHOOSE f : Totals(p, f)
<1>0. n \in Nat /\ \A i \in 1 .. n : p[i] \in Packets
  OBVIOUS
<1>1. SamplesOf(p) = all[n]
  BY Zenon DEF SamplesOf, Totals
<1>2. ASSUME NEW y \in S, NEW i \in 1 .. n PROVE Turn(y, i) \in S
  BY <1>0, SamplesGive, ConcatProperties
<1>3. << >> \in S
  OBVIOUS
<1> HIDE DEF S, Turn
<1>4. step \in [Nat -> [S -> S]]
  BY <1>2
<1> HIDE DEF step, n
<1>5. PICK g \in [0 .. n -> S] : g[0] = << >> /\ \A i \in 1 .. n : g[i] = step[i][g[i - 1]]
  <2>1. Runs(S, step, << >>, n)
    BY <1>0, <1>3, <1>4, LoopRuns
  <2> QED BY <2>1 DEF Runs
<1>6. ASSUME NEW i \in 0 .. n PROVE g[i] = IF i = 0 THEN << >> ELSE Turn(g[i - 1], i)
  <2>1. CASE i = 0
    BY <1>5, <2>1
  <2>2. CASE i # 0
    <3>1. i \in 1 .. n /\ i - 1 \in 0 .. n /\ i \in Nat
      BY <1>0, <2>2
    <3>2. g[i] = step[i][g[i - 1]] /\ g[i - 1] \in S
      BY <1>5, <3>1
    <3>3. step[i][g[i - 1]] = Turn(g[i - 1], i)
      BY <3>1, <3>2 DEF step
    <3> QED BY <2>2, <3>2, <3>3
  <2> QED BY <2>1, <2>2
<1>7. g = [i \in 0 .. n |-> IF i = 0 THEN << >> ELSE Turn(g[i - 1], i)]
  BY <1>5, <1>6
<1>8. Totals(p, g)
  BY <1>7 DEF Totals, Turn, n
<1>9. Totals(p, all)
  BY <1>8, Zenon
<1> HIDE DEF all
<1>10. all = [i \in 0 .. n |-> IF i = 0 THEN << >> ELSE Turn(all[i - 1], i)]
  BY <1>9 DEF Totals, Turn, n
<1>11. all \in [0 .. n -> S]
  <2>1. \A i \in 0 .. n : all[i] = IF i = 0 THEN << >> ELSE Turn(all[i - 1], i)
    BY <1>10
  <2>2. \A i \in 0 .. n : all[i] \in S
    <3> DEFINE N == {m \in Nat : m <= n => all[m] \in S}
    <3>1. 0 \in N
      BY <1>0, <1>3, <2>1
    <3>2. ASSUME NEW m \in N PROVE m + 1 \in N
      <4> SUFFICES ASSUME m + 1 <= n PROVE all[m + 1] \in S
        OBVIOUS
      <4>1. m + 1 \in 0 .. n /\ m + 1 \in 1 .. n /\ m + 1 # 0 /\ (m + 1) - 1 = m /\ all[m] \in S
        BY <1>0
      <4>2. all[m + 1] = Turn(all[m], m + 1)
        BY <2>1, <4>1
      <4> QED BY <1>2, <4>1, <4>2
    <3>3. N \subseteq Nat
      OBVIOUS
    <3>4. Nat \subseteq N
      <4> HIDE DEF N
      <4> QED BY <3>1, <3>2, <3>3, NatSetInduction
    <3> QED BY <1>0, <3>4
  <2> QED BY <1>10, <2>2
<1> QED BY <1>1, <1>9, <1>11 DEF n, S

LEMMA SamplesAppend ==
  ASSUME NEW p \in Seq(Packets), NEW k \in Packets
  PROVE  SamplesOf(p) \in Seq(Tones) /\ SamplesOf(Append(p, k)) = SamplesOf(p) \o Samples(k)
<1> DEFINE q == Append(p, k)
           n == Len(p)
<1>1. q \in Seq(Packets) /\ Len(q) = n + 1 /\ n \in Nat /\ (\A i \in 1 .. n : q[i] = p[i]) /\ q[n + 1] = k
  OBVIOUS
<1> HIDE DEF q, n
<1>2. PICK f \in [0 .. n -> Seq(Tones)] : Totals(p, f) /\ SamplesOf(p) = f[n]
  BY TotalsGive DEF n
<1>3. PICK h \in [0 .. n + 1 -> Seq(Tones)] : Totals(q, h) /\ SamplesOf(q) = h[n + 1]
  BY <1>1, TotalsGive
<1>4. \A i \in 0 .. n : f[i] = IF i = 0 THEN << >> ELSE f[i - 1] \o Samples(p[i])
  BY <1>2 DEF Totals, n
<1>5. \A i \in 0 .. n + 1 : h[i] = IF i = 0 THEN << >> ELSE h[i - 1] \o Samples(q[i])
  BY <1>1, <1>3 DEF Totals
<1> DEFINE I == [i \in 0 .. n |-> {f[i]}]
<1>6. h[0] \in I[0]
  <2>1. 0 \in 0 .. n /\ 0 \in 0 .. n + 1
    BY <1>1
  <2>2. h[0] = f[0]
    BY <1>4, <1>5, <2>1
  <2> QED BY <2>1, <2>2
<1>7. ASSUME NEW i \in 1 .. n, h[i - 1] \in I[i - 1] PROVE h[i] \in I[i]
  <2>1. i \in 0 .. n /\ i \in 0 .. n + 1 /\ i - 1 \in 0 .. n /\ i # 0
    BY <1>1
  <2>2. h[i - 1] = f[i - 1]
    BY <1>7, <2>1
  <2>3. h[i] = h[i - 1] \o Samples(q[i]) /\ f[i] = f[i - 1] \o Samples(p[i]) /\ q[i] = p[i]
    BY <1>1, <1>4, <1>5, <2>1
  <2> QED BY <2>1, <2>2, <2>3
<1>8. h[n] \in I[n]
  <2> HIDE DEF I
  <2> QED BY <1>1, <1>6, <1>7, LoopKeeps
<1>9. h[n] = f[n]
  BY <1>1, <1>8
<1>10. h[n + 1] = h[n] \o Samples(k)
  <2>1. n + 1 \in 0 .. n + 1 /\ n + 1 # 0 /\ (n + 1) - 1 = n
    BY <1>1
  <2>2. h[n + 1] = h[(n + 1) - 1] \o Samples(q[n + 1])
    BY <1>5, <2>1
  <2> QED BY <1>1, <2>1, <2>2
<1> QED BY <1>1, <1>2, <1>3, <1>9, <1>10 DEF q

LEMMA NoSamples ==
  SamplesOf(<< >>) = << >>
<1> DEFINE e == << >>
<1>1. e \in Seq(Packets) /\ Len(e) = 0
  OBVIOUS
<1>2. PICK f \in [0 .. Len(e) -> Seq(Tones)] : Totals(e, f) /\ SamplesOf(e) = f[Len(e)]
  <2> HIDE DEF e
  <2> QED BY <1>1, TotalsGive
<1> HIDE DEF e
<1>3. f[0] = << >>
  BY <1>1, <1>2 DEF Totals
<1> QED BY <1>1, <1>2, <1>3 DEF e

LEMMA ConcatAppend ==
  ASSUME NEW S, NEW b \in Seq(S), NEW p \in Seq(S), NEW k \in S
  PROVE  b \o p \in Seq(S) /\ Append(p, k) \in Seq(S) /\ b \o Append(p, k) = Append(b \o p, k)
<1>1. b \o p \in Seq(S) /\ Append(p, k) \in Seq(S) /\ <<k>> \in Seq(S)
  OBVIOUS
<1>2. Append(p, k) = p \o <<k>> /\ Append(b \o p, k) = (b \o p) \o <<k>>
  BY <1>1, AppendIsConcat
<1>3. (b \o p) \o <<k>> = b \o (p \o <<k>>)
  BY <1>1, ConcatAssociative
<1> QED BY <1>1, <1>2, <1>3

SoundRounds == [d : DecoderType, packets : Seq(Packets), ended : BOOLEAN, sound : SoundType]

\* A round takes packets of the audio stream and frees them.
SoundInv(r) ==
  /\ r \in SoundRounds /\ Arrives(r.d, Plus(got, Audio, r.packets), since) /\ Served(r.sound)
  /\ r.d.live - Len(r.d.queue) = decoder.live - Len(decoder.queue)

\* What was heard, is given and is left are the samples of the packets, if all of them decode.
Sounds(r, last) ==
  intact /\ (last = Chunks \/ r.packets = << >>)
    => heard \o (r.sound.out \o r.sound.cache) = SamplesOf(got[Audio] \o r.packets)

LEMMA SoundDecoded ==
  ASSUME got \in [MediaStreams -> Seq(Packets)], heard \in Seq(Tones), NEW p \in Seq(Packets), NEW k \in Packets,
         NEW x, Served(x), x.count > 0, NEW y, Served(y), y.out \o y.cache = x.out \o Samples(k),
         heard \o (x.out \o x.cache) = SamplesOf(got[Audio] \o p)
  PROVE  heard \o (y.out \o y.cache) = SamplesOf(got[Audio] \o Append(p, k))
<1> DEFINE b == got[Audio]
           o == x.out
           s == Samples(k)
<1>1. b \in Seq(Packets)
  BY DEF MediaStreams
<1>2. o \in Seq(Tones) /\ x.cache = << >>
  BY DEF Served, SoundType
<1>3. s \in Seq(Tones)
  BY SamplesGive
<1> HIDE DEF b, o, s
<1>4. b \o p \in Seq(Packets) /\ Append(p, k) \in Seq(Packets) /\ b \o Append(p, k) = Append(b \o p, k)
  BY <1>1, ConcatAppend
<1> DEFINE c == b \o p
<1> HIDE DEF c
<1>5. SamplesOf(c) \in Seq(Tones) /\ SamplesOf(Append(c, k)) = SamplesOf(c) \o s
  BY <1>4, SamplesAppend DEF c, s
<1>6. o \o << >> = o
  BY <1>2
<1>7. heard \o o = SamplesOf(c)
  BY <1>2, <1>6 DEF b, c, o
<1>8. (heard \o o) \o s = heard \o (o \o s)
  <2>1. \A u, v, w \in Seq(Tones) : (u \o v) \o w = u \o (v \o w)
    BY ConcatAssociative, SMTT(30)
  <2> QED BY <1>2, <1>3, <2>1
<1> QED BY <1>4, <1>5, <1>7, <1>8 DEF b, c, o, s

NextRound(r, f, q, h) == [r EXCEPT !.d = f, !.packets = q, !.sound = h]

LEMMA RoundExcept ==
  ASSUME NEW D, NEW P, NEW E, NEW H, NEW r \in [d : D, packets : P, ended : E, sound : H], NEW f, NEW q, NEW h
  PROVE  NextRound(r, f, q, h) = [d |-> f, packets |-> q, ended |-> r.ended, sound |-> h]
<1> DEFINE r1 == [r EXCEPT !.d = f]
           r2 == [r1 EXCEPT !.packets = q]
           e == r.ended
           a == r.packets
           x == r.sound
<1>1. r1 = [d |-> f, packets |-> a, ended |-> e, sound |-> x]
  OBVIOUS
<1> HIDE DEF r1, e, a, x
<1>2. r2 = [d |-> f, packets |-> q, ended |-> e, sound |-> x]
  BY <1>1
<1> HIDE DEF r2
<1>3. [r2 EXCEPT !.sound = h] = [d |-> f, packets |-> q, ended |-> e, sound |-> h]
  BY <1>2
<1> QED BY <1>3 DEF r2, r1, e, NextRound

LEMMA ReadRoundGives ==
  ASSUME media \in Seq(MediaStreams), got \in [MediaStreams -> Seq(Packets)], heard \in Seq(Tones),
         decoder.live \in Int, Len(decoder.queue) \in Nat,
         NEW last \in 1 .. Chunks, NEW r, SoundInv(r), Sounds(r, last)
  PROVE  SoundInv(ReadRound(r, last)) /\ Sounds(ReadRound(r, last), last)
<1> DEFINE p == ReadPacket(r.d, Audio)
           k == p.packet
           x == r.sound
           G == Plus(got, Audio, r.packets)
           y == [r EXCEPT !.d = p.d, !.ended = TRUE]
           z == [r EXCEPT !.d = FreePacket(p.d), !.packets = Append(@, k), !.sound = DecodeAudio(@, k, last)]
<1>1. CASE x.count = 0 \/ r.ended
  <2>1. ReadRound(r, last) = r
    BY <1>1, Zenon DEF ReadRound
  <2> QED BY <2>1
<1>2. CASE ~(x.count = 0 \/ r.ended)
  <2>1. ReadRound(r, last) = IF k = 0 THEN y ELSE z
    BY <1>2, Zenon DEF ReadRound
  <2>2. /\ r \in SoundRounds /\ r.d \in DecoderType /\ r.packets \in Seq(Packets) /\ x \in SoundType /\ r.ended \in BOOLEAN
        /\ Arrives(r.d, G, since) /\ Served(x)
        /\ r.d.live - Len(r.d.queue) = decoder.live - Len(decoder.queue)
    BY DEF SoundInv, SoundRounds
  <2>3. x.count > 0
    BY <1>2, <2>2 DEF SoundType
  <2>4. ReadsPacket(r.d, G, since, Audio, p)
    <3> HIDE DEF G
    <3> QED BY <2>2, ReadPacketGives
  <2> HIDE DEF p, G
  <2>5. CASE k = 0
    <3>1. Arrives(p.d, G, since) /\ p.d.live - Len(p.d.queue) = r.d.live - Len(r.d.queue)
      BY <2>4, <2>5 DEF ReadsPacket
    <3>2. p.d \in DecoderType
      BY <3>1 DEF Arrives
    <3>3. y \in SoundRounds /\ y.d = p.d /\ y.packets = r.packets /\ y.sound = x
      BY <2>2, <3>2 DEF SoundRounds
    <3> HIDE DEF y, x
    <3>4. SoundInv(y)
      BY <2>2, <3>1, <3>3 DEF SoundInv, G
    <3>5. Sounds(y, last)
      BY <3>3 DEF Sounds, x
    <3> QED BY <2>1, <2>5, <3>4, <3>5
  <2>6. CASE k # 0
    <3>1. /\ k \in Packets /\ Wanted(k, Audio) /\ Arrives(p.d, [G EXCEPT ![media[k]] = Append(@, k)], since)
          /\ p.d.live - Len(p.d.queue) = r.d.live - Len(r.d.queue) + 1
      BY <2>4, <2>6 DEF ReadsPacket
    <3>2. p.d \in DecoderType
      BY <3>1 DEF Arrives
    <3> DEFINE f == FreePacket(p.d)
               h == DecodeAudio(x, k, last)
               a == r.packets
               q == Append(a, k)
    <3>3. f \in DecoderType /\ f.at = p.d.at /\ f.queue = p.d.queue /\ f.open = p.d.open /\ f.live = p.d.live - 1
      BY <3>2, FreeGives
    <3>4. z = NextRound(r, f, q, h)
      BY Zenon DEF NextRound
    <3>5. media[k] = Audio /\ Audio \in MediaStreams
      BY <3>1 DEF Wanted, Audio, AnyStream, MediaStreams
    <3>6. /\ Served(h)
          /\ last = Chunks => h.out \o h.cache = x.out \o Samples(k)
      <4> HIDE DEF x, k
      <4> QED BY <2>2, <3>1, DecodeAudioGives
    <3>7. a \in Seq(Packets)
      BY <2>2
    <3> HIDE DEF f, h, a, k
    <3>8. /\ Plus(got, Audio, a) \in [MediaStreams -> Seq(Packets)] /\ Plus(got, Audio, << >>) = got
          /\ Append(a, k) \in Seq(Packets)
          /\ Plus(got, Audio, Append(a, k)) = [Plus(got, Audio, a) EXCEPT ![Audio] = Append(@, k)]
      BY <3>1, <3>5, <3>7, PlusGives, ZenonT(40)
    <3>9. Arrives(f, Plus(got, Audio, q), since)
      <4>1. Plus(got, Audio, q) = [G EXCEPT ![media[k]] = Append(@, k)]
        BY <3>5, <3>8 DEF G, a
      <4> DEFINE g == Plus(got, Audio, q)
      <4> HIDE DEF g
      <4>2. Arrives(p.d, g, since)
        BY <3>1, <4>1 DEF g
      <4>3. Arrives(f, g, since)
        BY <3>3, <4>2, ArriveSame
      <4> QED BY <4>3 DEF g
    <3>10. q # << >>
      <4>1. Len(q) = Len(a) + 1 /\ Len(a) \in Nat
        BY <3>1, <3>7
      <4>2. Len(<< >>) = 0
        OBVIOUS
      <4> HIDE DEF q
      <4> QED BY <4>1, <4>2
    <3> HIDE DEF q
    <3>11. h \in SoundType
      BY <3>6 DEF Served
    <3>12. q \in Seq(Packets)
      BY <3>8 DEF q
    <3>13. z \in SoundRounds /\ z.d = f /\ z.packets = q /\ z.sound = h
      <4>1. NextRound(r, f, q, h) = [d |-> f, packets |-> q, ended |-> r.ended, sound |-> h]
        <5>1. r \in [d : DecoderType, packets : Seq(Packets), ended : BOOLEAN, sound : SoundType]
          BY <2>2 DEF SoundRounds
        <5> QED BY <5>1, RoundExcept
      <4> HIDE DEF z
      <4> QED BY <2>2, <3>3, <3>4, <3>11, <3>12, <4>1 DEF SoundRounds
    <3> HIDE DEF z
    <3>14. f.live - Len(f.queue) = decoder.live - Len(decoder.queue)
      <4> DEFINE l1 == p.d.live
                 n1 == Len(p.d.queue)
                 l2 == r.d.live
                 n2 == Len(r.d.queue)
                 m == decoder.live - Len(decoder.queue)
      <4>1. l1 \in Int /\ n1 \in Nat /\ l2 \in Int /\ n2 \in Nat
        BY <2>2, <3>2, DecoderFields
      <4>2. l1 - n1 = l2 - n2 + 1 /\ l2 - n2 = m /\ m \in Int
        BY <2>2, <3>1
      <4>3. f.live - Len(f.queue) = (l1 - 1) - n1
        BY <3>3
      <4> HIDE DEF l1, n1, l2, n2, m
      <4>4. (l1 - 1) - n1 = m
        BY <4>1, <4>2
      <4> QED BY <4>3, <4>4 DEF m
    <3>15. SoundInv(z)
      BY <3>6, <3>9, <3>13, <3>14 DEF SoundInv
    <3>16. Sounds(z, last)
      <4> SUFFICES ASSUME intact, last = Chunks PROVE heard \o (h.out \o h.cache) = SamplesOf(got[Audio] \o q)
        BY <3>10, <3>13 DEF Sounds
      <4>1. heard \o (x.out \o x.cache) = SamplesOf(got[Audio] \o a)
        BY DEF Sounds, a
      <4>2. h.out \o h.cache = x.out \o Samples(k) /\ Served(h) /\ Served(x) /\ x.count > 0
        BY <2>2, <2>3, <3>6
      <4> HIDE DEF x
      <4>3. heard \o (h.out \o h.cache) = SamplesOf(got[Audio] \o Append(a, k))
        BY <3>1, <3>7, <4>1, <4>2, SoundDecoded
      <4> QED BY <4>3 DEF q
    <3> QED BY <2>1, <2>6, <3>15, <3>16 DEF k
  <2> QED BY <2>5, <2>6
<1> QED BY <1>1, <1>2

AudioType == [cache : Seq(Tones), position : Int]

\* What holds between calls: the packets came, and those allocated are queued or the one that
\* the video decoder works on; the samples that were heard and are left are those that came.
MediaInv ==
  /\ media \in Seq(MediaStreams) /\ Arrives(decoder, got, since)
  /\ video \in VideoType /\ audio \in AudioType /\ heard \in Seq(Tones) /\ intact \in BOOLEAN
  /\ decoder.live = Len(decoder.queue) + (IF video.packet = 0 THEN 0 ELSE 1)
  /\ SamplesInOrder

LEMMA ReadSamplesGives ==
  ASSUME MediaInv, NEW count \in Nat, NEW last \in 1 .. Chunks
  PROVE  SoundInv(ReadSamples(count, last)) /\ Sounds(ReadSamples(count, last), last)
<1> DEFINE n == Len(media) + 1
           S == {r \in SoundRounds : SoundInv(r) /\ Sounds(r, last)}
           taken == Taken(audio.cache, count)
           sound == [out |-> taken, cache |-> Left(audio.cache, count), count |-> count - Len(taken)]
           start == [d |-> decoder, packets |-> << >>, ended |-> FALSE, sound |-> sound]
           Turn(x) == ReadRound(x, last)
           step == [i \in Nat |-> [x \in S |-> Turn(x)]]
           F(f) == f = [i \in 0 .. n |-> IF i = 0 THEN start ELSE Turn(f[i - 1])]
           round == CHOOSE f : F(f)
<1>0. n \in Nat
  <2>1. media \in Seq(MediaStreams)
    BY DEF MediaInv
  <2>2. Len(media) \in Nat
    BY <2>1
  <2> QED BY <2>2
<1>1. ReadSamples(count, last) = round[n]
  BY Zenon DEF ReadSamples
<1>a. /\ media \in Seq(MediaStreams) /\ Arrives(decoder, got, since) /\ heard \in Seq(Tones)
      /\ audio.cache \in Seq(Tones) /\ SamplesInOrder
  BY DEF MediaInv, AudioType
<1>b. got \in [MediaStreams -> Seq(Packets)] /\ decoder \in DecoderType
  BY <1>a DEF Arrives
<1>c. decoder.live \in Int /\ Len(decoder.queue) \in Nat
  BY <1>b, DecoderFields
<1>2. start \in S
  <2> DEFINE c == audio.cache
  <2> HIDE DEF c
  <2>1. /\ Taken(c, count) \in Seq(Tones) /\ Left(c, count) \in Seq(Tones)
        /\ Taken(c, count) \o Left(c, count) = c
        /\ count - Len(Taken(c, count)) \in Nat
        /\ count - Len(Taken(c, count)) > 0 => Left(c, count) = << >>
        /\ count = 0 => Taken(c, count) = << >>
    BY <1>a, TakenGives DEF c
  <2> DEFINE l == Left(c, count)
             m == count - Len(taken)
  <2>2. taken \in Seq(Tones) /\ l \in Seq(Tones) /\ m \in Nat /\ (m > 0 => l = << >>) /\ taken \o l = c
    BY <2>1 DEF c
  <2>3. sound = [out |-> taken, cache |-> l, count |-> m]
    BY DEF c
  <2> HIDE DEF taken, l, m, sound
  <2>4. sound \in SoundType /\ sound.out = taken /\ sound.cache = l /\ sound.count = m
    BY <2>2, <2>3 DEF SoundType
  <2>5. Served(sound)
    BY <2>2, <2>4 DEF Served
  <2>6. Audio \in MediaStreams
    BY DEF MediaStreams
  <2>7. Plus(got, Audio, << >>) = got /\ got[Audio] \o << >> = got[Audio]
    <3> DEFINE b == got[Audio]
    <3>1. b \in Seq(Packets)
      BY <1>b, <2>6
    <3>2. Plus(got, Audio, << >>) = [got EXCEPT ![Audio] = b \o << >>]
      BY Zenon DEF Plus
    <3>3. b \o << >> = b
      <4> HIDE DEF b
      <4> QED BY <3>1
    <3>4. [got EXCEPT ![Audio] = b] = got
      BY <1>b
    <3> QED BY <3>2, <3>3, <3>4
  <2>8. start \in SoundRounds /\ start.d = decoder /\ start.packets = << >> /\ start.sound = sound
    BY <1>b, <2>4 DEF SoundRounds
  <2> HIDE DEF start
  <2>9. SoundInv(start)
    BY <1>a, <2>5, <2>7, <2>8 DEF SoundInv
  <2>10. Sounds(start, last)
    <3> SUFFICES ASSUME intact PROVE heard \o (taken \o l) = SamplesOf(got[Audio])
      BY <2>4, <2>7, <2>8 DEF Sounds
    <3> QED BY <1>a, <2>2 DEF SamplesInOrder, c
  <2> QED BY <2>8, <2>9, <2>10
<1>3. ASSUME NEW x \in S PROVE Turn(x) \in S
  <2>1. SoundInv(Turn(x)) /\ Sounds(Turn(x), last)
    BY <1>a, <1>b, <1>c, ReadRoundGives
  <2> HIDE DEF Turn
  <2> QED BY <2>1 DEF SoundInv
<1> HIDE DEF n, S, start, Turn
<1>4. step \in [Nat -> [S -> S]]
  BY <1>3
<1> HIDE DEF step
<1>5. PICK g \in [0 .. n -> S] : g[0] = start /\ \A i \in 1 .. n : g[i] = step[i][g[i - 1]]
  <2>1. Runs(S, step, start, n)
    BY <1>0, <1>2, <1>4, LoopRuns
  <2> QED BY <2>1 DEF Runs
<1>6. ASSUME NEW i \in 0 .. n PROVE g[i] = IF i = 0 THEN start ELSE Turn(g[i - 1])
  <2>1. CASE i = 0
    BY <1>5, <2>1
  <2>2. CASE i # 0
    <3>1. i \in 1 .. n /\ i - 1 \in 0 .. n /\ i \in Nat
      BY <1>0, <2>2
    <3>2. g[i] = step[i][g[i - 1]] /\ g[i - 1] \in S
      BY <1>5, <3>1
    <3>3. step[i][g[i - 1]] = Turn(g[i - 1])
      BY <3>1, <3>2 DEF step
    <3> QED BY <2>2, <3>2, <3>3
  <2> QED BY <2>1, <2>2
<1>7. F(g)
  BY <1>5, <1>6
<1>8. F(round)
  BY <1>7, Zenon
<1> HIDE DEF round
<1> DEFINE I == [i \in 0 .. n |-> S]
<1>9. round[0] = start /\ \A i \in 1 .. n : round[i] = Turn(round[i - 1])
  <2>1. \A i \in 0 .. n : round[i] = IF i = 0 THEN start ELSE Turn(round[i - 1])
    BY <1>8
  <2>2. 0 \in 0 .. n /\ \A i \in 1 .. n : i \in 0 .. n /\ i # 0
    BY <1>0
  <2> HIDE DEF F
  <2> QED BY <2>1, <2>2
<1> HIDE DEF F
<1>10. round[0] \in I[0] /\ \A i \in 1 .. n : round[i - 1] \in I[i - 1] => round[i] \in I[i]
  BY <1>0, <1>2, <1>3, <1>9
<1>11. round[n] \in I[n]
  <2> HIDE DEF I
  <2> QED BY <1>0, <1>10, LoopKeeps
<1>12. round[n] \in S
  BY <1>0, <1>11
<1> QED BY <1>1, <1>12 DEF S

-----------------------------------------------------------------------------
(* The steps                                                               *)

\* What the invariant asks after a step, which leaves the file alone
LEMMA MediaContinues ==
  ASSUME media \in Seq(MediaStreams), media' = media, Arrives(decoder', got', since'),
         video' \in VideoType, audio' \in AudioType, heard' \in Seq(Tones), intact' \in BOOLEAN,
         decoder'.live = Len(decoder'.queue) + (IF video'.packet = 0 THEN 0 ELSE 1),
         intact' => heard' \o audio'.cache = SamplesOf(got'[Audio])
  PROVE  MediaInv'
<1>1. Packets' = Packets
  BY DEF Packets
<1>2. DecoderType' = DecoderType /\ VideoType' = VideoType /\ Tones' = Tones
  BY <1>1 DEF DecoderType, VideoType, Tones, Packets
<1>3. AudioType' = AudioType
  BY <1>2 DEF AudioType
<1>4. Arrives(decoder, got, since)'
  <2>1. \A s, q, now, queue : Came(s, q, now, queue) <=>
          /\ Rising(q)
          /\ \A i \in 1 .. Len(q) : media'[q[i]] = s /\ q[i] < now
          /\ \A i \in 1 .. Len(q), j \in 1 .. Len(queue) : media'[queue[j]] = s => q[i] < queue[j]
    BY ZenonT(40) DEF Came
  <2>2. \A s, q, now, queue, from : Kept(s, q, now, queue, from) <=>
          \A k \in 1 .. now - 1 : media'[k] = s /\ k >= from => Holds(q, k) \/ Holds(queue, k)
    BY Zenon DEF Kept
  <2>3. /\ decoder' \in DecoderType /\ got' \in [MediaStreams -> Seq(Packets)] /\ since' \in [MediaStreams -> Nat]
        /\ Rising(decoder'.queue) /\ \A i \in 1 .. Len(decoder'.queue) : decoder'.queue[i] < decoder'.at
        /\ \A s \in MediaStreams : Came(s, got'[s], decoder'.at, decoder'.queue)
        /\ \A s \in decoder'.open : Kept(s, got'[s], decoder'.at, decoder'.queue, since'[s])
    BY DEF Arrives
  <2>4. ASSUME NEW s \in MediaStreams PROVE Came(s, got[s], decoder.at, decoder.queue)'
    BY <2>1, <2>3, Zenon DEF Came
  <2>5. ASSUME NEW s \in decoder'.open PROVE Kept(s, got[s], decoder.at, decoder.queue, since[s])'
    BY <2>2, <2>3, Zenon DEF Kept
  <2> QED BY <1>1, <1>2, <2>3, <2>4, <2>5, Zenon DEF Arrives
<1>5. media' \in Seq(MediaStreams)
  OBVIOUS
<1>6. SamplesInOrder'
  BY Zenon DEF SamplesInOrder
<1> QED BY <1>2, <1>3, <1>4, <1>5, <1>6, Zenon DEF MediaInv

LEMMA MediaBegins ==
  MediaInit => MediaInv
<1> SUFFICES ASSUME MediaInit PROVE MediaInv
  OBVIOUS
<1>1. media \in Seq(MediaStreams)
  BY MediaFilesAssumption DEF MediaInit
<1>2. Len(media) \in Nat
  BY <1>1
<1>3. decoder = Dec(1, << >>, {Audio, Video}, FALSE, 0, 0)
  BY DEF MediaInit, Dec
<1>4. decoder \in DecoderType /\ decoder.at = 1 /\ decoder.queue = << >> /\ decoder.live = 0
  <2> DEFINE o == {Audio, Video}
             e == << >>
  <2>1. 1 \in 1 .. Len(media) + 1 /\ o \in SUBSET MediaStreams /\ e \in Seq(Packets)
    BY <1>2 DEF MediaStreams
  <2> HIDE DEF o, e
  <2> DEFINE b == FALSE
             a == 1
             z == 0
  <2>2. b \in BOOLEAN /\ a \in 1 .. Len(media) + 1 /\ z \in Nat /\ z \in Int
    BY <2>1
  <2>3. decoder = Dec(a, e, o, b, z, z)
    BY <1>3 DEF e, o
  <2> HIDE DEF b, a, z
  <2>4. /\ Dec(a, e, o, b, z, z) \in DecoderType /\ Dec(a, e, o, b, z, z).at = a
        /\ Dec(a, e, o, b, z, z).queue = e /\ Dec(a, e, o, b, z, z).open = o
        /\ Dec(a, e, o, b, z, z).live = z
    BY <2>1, <2>2, DecIs
  <2> QED BY <2>3, <2>4 DEF e, a, z
<1>5. got = [s \in MediaStreams |-> << >>] /\ since = [s \in MediaStreams |-> decoder.at]
  BY <1>4 DEF MediaInit
<1>6. Arrives(decoder, got, since)
  BY <1>1, <1>4, <1>5, ArriveFirst
<1>7. video \in VideoType /\ video.packet = 0
  BY DEF MediaInit, VideoType
<1>8. audio \in AudioType /\ audio.cache = << >> /\ heard = << >> /\ heard \in Seq(Tones) /\ intact \in BOOLEAN
  <2> DEFINE e == << >>
  <2>1. e \in Seq(Tones)
    OBVIOUS
  <2>2. audio = [cache |-> e, position |-> 0] /\ heard = e /\ intact = TRUE
    BY DEF MediaInit
  <2> HIDE DEF e
  <2>3. audio \in AudioType /\ audio.cache = e
    BY <2>1, <2>2 DEF AudioType
  <2> QED BY <2>1, <2>2, <2>3 DEF e
<1>9. Len(decoder.queue) = 0
  BY <1>4
<1>10. decoder.live = Len(decoder.queue) + (IF video.packet = 0 THEN 0 ELSE 1)
  BY <1>4, <1>7, <1>9
<1>11. SamplesInOrder
  <2>1. got[Audio] = << >>
    BY <1>5 DEF MediaStreams
  <2>2. << >> \o << >> = << >>
    OBVIOUS
  <2> QED BY <1>8, <2>1, <2>2, NoSamples DEF SamplesInOrder
<1> QED BY <1>1, <1>6, <1>7, <1>8, <1>10, <1>11 DEF MediaInv

\* What the invariant says, by parts
LEMMA MediaFacts ==
  ASSUME MediaInv
  PROVE  /\ media \in Seq(MediaStreams) /\ Arrives(decoder, got, since) /\ decoder \in DecoderType
         /\ got \in [MediaStreams -> Seq(Packets)] /\ since \in [MediaStreams -> Nat]
         /\ video \in VideoType /\ audio \in AudioType /\ audio.cache \in Seq(Tones) /\ audio.position \in Int
         /\ heard \in Seq(Tones) /\ intact \in BOOLEAN
         /\ decoder.live = Len(decoder.queue) + (IF video.packet = 0 THEN 0 ELSE 1)
         /\ intact => heard \o audio.cache = SamplesOf(got[Audio])
         /\ decoder.at \in Nat /\ decoder.live \in Int /\ Len(decoder.queue) \in Nat /\ decoder.open \in SUBSET MediaStreams
<1>1. Arrives(decoder, got, since) /\ audio \in AudioType /\ media \in Seq(MediaStreams)
  BY DEF MediaInv
<1>2. decoder \in DecoderType /\ got \in [MediaStreams -> Seq(Packets)] /\ since \in [MediaStreams -> Nat]
  BY <1>1 DEF Arrives
<1>3. decoder.at \in 1 .. Len(media) + 1 /\ decoder.live \in Int /\ Len(decoder.queue) \in Nat /\ decoder.open \in SUBSET MediaStreams
  BY <1>2, DecoderFields
<1>4. decoder.at \in Nat
  BY <1>1, <1>3
<1>5. audio.cache \in Seq(Tones) /\ audio.position \in Int
  BY <1>1 DEF AudioType
<1> QED BY <1>1, <1>2, <1>3, <1>4, <1>5 DEF MediaInv, SamplesInOrder

LEMMA StreamOpens ==
  ASSUME MediaInv, OpenStream
  PROVE  MediaInv'
<1>1. /\ media \in Seq(MediaStreams) /\ Arrives(decoder, got, since) /\ decoder \in DecoderType
      /\ got \in [MediaStreams -> Seq(Packets)] /\ since \in [MediaStreams -> Nat]
      /\ video \in VideoType /\ audio \in AudioType /\ audio.cache \in Seq(Tones) /\ audio.position \in Int
      /\ heard \in Seq(Tones) /\ intact \in BOOLEAN
      /\ decoder.live = Len(decoder.queue) + (IF video.packet = 0 THEN 0 ELSE 1)
      /\ intact => heard \o audio.cache = SamplesOf(got[Audio])
      /\ decoder.at \in Nat /\ decoder.live \in Int /\ Len(decoder.queue) \in Nat /\ decoder.open \in SUBSET MediaStreams
  BY MediaFacts
<1>2. /\ decoder' = [decoder EXCEPT !.open = decoder.open \cup {Other}]
      /\ media' = media /\ audio' = audio /\ heard' = heard /\ intact' = intact /\ video' = video
  BY DEF OpenStream
<1>3. /\ decoder' \in DecoderType /\ decoder'.at = decoder.at /\ decoder'.queue = decoder.queue
      /\ decoder'.open = decoder.open \cup {Other} /\ decoder'.live = decoder.live
  <2> DEFINE o == decoder.open \cup {Other}
  <2>1. o \in SUBSET MediaStreams
    BY <1>1 DEF MediaStreams
  <2> HIDE DEF o
  <2>2. /\ [decoder EXCEPT !.open = o] \in DecoderType /\ [decoder EXCEPT !.open = o].at = decoder.at
        /\ [decoder EXCEPT !.open = o].queue = decoder.queue
        /\ [decoder EXCEPT !.open = o].open = o /\ [decoder EXCEPT !.open = o].live = decoder.live
    BY <1>1, <2>1 DEF DecoderType
  <2> QED BY <1>2, <2>2 DEF o
<1>4. /\ got' = [t \in MediaStreams |-> IF t = Other THEN << >> ELSE got[t]]
      /\ since' = [t \in MediaStreams |-> IF t = Other THEN decoder.at ELSE since[t]]
  BY <1>3 DEF OpenStream, Restart
<1>5. Arrives(decoder', got', since')
  <2> DEFINE e == << >>
             now == decoder.at
             q == decoder.queue
  <2>1. e \in Seq(Packets) /\ \A i \in 1 .. Len(e) : FALSE
    OBVIOUS
  <2>2. Came(Other, e, now, q)
    BY <2>1 DEF Came, Rising
  <2>3. Kept(Other, e, now, q, now)
    <3> HIDE DEF e, q
    <3> QED BY <1>1 DEF Kept
  <2>4. /\ got' \in [MediaStreams -> Seq(Packets)] /\ since' \in [MediaStreams -> Nat]
    <3> HIDE DEF e
    <3> QED BY <1>1, <1>4, <2>1 DEF e
  <2>5. /\ Rising(q) /\ (\A i \in 1 .. Len(q) : q[i] < now)
        /\ \A s \in MediaStreams : Came(s, got[s], now, q)
        /\ \A s \in decoder.open : Kept(s, got[s], now, q, since[s])
    BY <1>1 DEF Arrives
  <2>6. Other \in MediaStreams /\ got'[Other] = e /\ since'[Other] = now
    BY <1>4 DEF MediaStreams
  <2>7. \A s \in MediaStreams : s # Other => got'[s] = got[s] /\ since'[s] = since[s]
    BY <1>4
  <2> HIDE DEF e, now, q
  <2>8. \A s \in MediaStreams : Came(s, got'[s], now, q)
    BY <2>2, <2>5, <2>6, <2>7
  <2>9. \A s \in decoder'.open : Kept(s, got'[s], now, q, since'[s])
    BY <1>1, <1>3, <2>3, <2>5, <2>6, <2>7
  <2> QED BY <1>3, <2>4, <2>5, <2>8, <2>9 DEF Arrives, now, q
<1>6. got'[Audio] = got[Audio]
  BY <1>4 DEF MediaStreams, Audio, Other
<1>7. decoder'.live = Len(decoder'.queue) + (IF video'.packet = 0 THEN 0 ELSE 1)
  BY <1>1, <1>2, <1>3
<1> QED BY <1>1, <1>2, <1>5, <1>6, <1>7, MediaContinues

LEMMA StreamCloses ==
  ASSUME MediaInv, CloseStream
  PROVE  MediaInv'
<1>1. /\ media \in Seq(MediaStreams) /\ Arrives(decoder, got, since) /\ decoder \in DecoderType
      /\ got \in [MediaStreams -> Seq(Packets)] /\ since \in [MediaStreams -> Nat]
      /\ video \in VideoType /\ audio \in AudioType /\ audio.cache \in Seq(Tones) /\ audio.position \in Int
      /\ heard \in Seq(Tones) /\ intact \in BOOLEAN
      /\ decoder.live = Len(decoder.queue) + (IF video.packet = 0 THEN 0 ELSE 1)
      /\ intact => heard \o audio.cache = SamplesOf(got[Audio])
      /\ decoder.at \in Nat /\ decoder.live \in Int /\ Len(decoder.queue) \in Nat /\ decoder.open \in SUBSET MediaStreams
  BY MediaFacts
<1>2. /\ decoder' = [decoder EXCEPT !.open = decoder.open \ {Other}]
      /\ media' = media /\ audio' = audio /\ heard' = heard /\ intact' = intact /\ video' = video
      /\ got' = got /\ since' = since
  BY DEF CloseStream
<1>3. /\ decoder' \in DecoderType /\ decoder'.at = decoder.at /\ decoder'.queue = decoder.queue
      /\ decoder'.open = decoder.open \ {Other} /\ decoder'.live = decoder.live
  <2> DEFINE o == decoder.open \ {Other}
  <2>1. o \in SUBSET MediaStreams
    BY <1>1
  <2> HIDE DEF o
  <2>2. /\ [decoder EXCEPT !.open = o] \in DecoderType /\ [decoder EXCEPT !.open = o].at = decoder.at
        /\ [decoder EXCEPT !.open = o].queue = decoder.queue
        /\ [decoder EXCEPT !.open = o].open = o /\ [decoder EXCEPT !.open = o].live = decoder.live
    BY <1>1, <2>1 DEF DecoderType
  <2> QED BY <1>2, <2>2 DEF o
<1>4. Arrives(decoder', got', since')
  <2>1. decoder'.open \subseteq decoder.open
    BY <1>3
  <2> QED BY <1>1, <1>2, <1>3, <2>1 DEF Arrives
<1>5. decoder'.live = Len(decoder'.queue) + (IF video'.packet = 0 THEN 0 ELSE 1)
  BY <1>1, <1>2, <1>3
<1> QED BY <1>1, <1>2, <1>4, <1>5, MediaContinues

LEMMA FrameTimed ==
  ASSUME MediaInv, GetFrameTime
  PROVE  MediaInv'
<1>1. /\ media \in Seq(MediaStreams) /\ Arrives(decoder, got, since) /\ decoder \in DecoderType
      /\ got \in [MediaStreams -> Seq(Packets)] /\ since \in [MediaStreams -> Nat]
      /\ video \in VideoType /\ audio \in AudioType /\ audio.cache \in Seq(Tones) /\ audio.position \in Int
      /\ heard \in Seq(Tones) /\ intact \in BOOLEAN
      /\ decoder.live = Len(decoder.queue) + (IF video.packet = 0 THEN 0 ELSE 1)
      /\ intact => heard \o audio.cache = SamplesOf(got[Audio])
      /\ decoder.at \in Nat /\ decoder.live \in Int /\ Len(decoder.queue) \in Nat /\ decoder.open \in SUBSET MediaStreams
  BY MediaFacts
<1>2. /\ decoder' = Timed(decoder)
      /\ media' = media /\ audio' = audio /\ heard' = heard /\ intact' = intact /\ video' = video
      /\ got' = got /\ since' = since
  BY DEF GetFrameTime
<1>3. /\ Arrives(Timed(decoder), got, since) /\ Timed(decoder) \in DecoderType /\ Timed(decoder).open = decoder.open
      /\ Timed(decoder).live - Len(Timed(decoder).queue) = decoder.live - Len(decoder.queue)
  BY <1>1, TimedGives
<1>4. Arrives(decoder', got', since') /\ decoder' \in DecoderType
  BY <1>2, <1>3
<1>5. decoder'.live = Len(decoder'.queue) + (IF video'.packet = 0 THEN 0 ELSE 1)
  <2> DEFINE a == decoder'.live
             b == Len(decoder'.queue)
             c == decoder.live
             d == Len(decoder.queue)
             v == IF video.packet = 0 THEN 0 ELSE 1
  <2>1. a \in Int /\ b \in Nat
    <3> DEFINE e == decoder'
    <3>1. e \in DecoderType
      BY <1>4
    <3> HIDE DEF e
    <3>2. e.live \in Int /\ Len(e.queue) \in Nat
      BY <3>1, DecoderFields
    <3> QED BY <3>2 DEF e
  <2>2. c \in Int /\ d \in Nat /\ c = d + v /\ a - b = c - d /\ v \in Int
    BY <1>1, <1>2, <1>3
  <2> HIDE DEF a, b, c, d, v
  <2>3. a = b + v
    BY <2>1, <2>2
  <2> QED BY <1>2, <2>3 DEF a, b, v
<1> QED BY <1>1, <1>2, <1>4, <1>5, MediaContinues

LEMMA ClientReads ==
  ASSUME MediaInv, NEW s \in {Other, AnyStream}, ClientRead(s)
  PROVE  MediaInv'
<1> DEFINE r == ReadPacket(decoder, s)
           k == r.packet
<1>1. /\ media \in Seq(MediaStreams) /\ Arrives(decoder, got, since) /\ decoder \in DecoderType
      /\ got \in [MediaStreams -> Seq(Packets)] /\ since \in [MediaStreams -> Nat]
      /\ video \in VideoType /\ audio \in AudioType /\ audio.cache \in Seq(Tones) /\ audio.position \in Int
      /\ heard \in Seq(Tones) /\ intact \in BOOLEAN
      /\ decoder.live = Len(decoder.queue) + (IF video.packet = 0 THEN 0 ELSE 1)
      /\ intact => heard \o audio.cache = SamplesOf(got[Audio])
      /\ decoder.at \in Nat /\ decoder.live \in Int /\ Len(decoder.queue) \in Nat /\ decoder.open \in SUBSET MediaStreams
  BY MediaFacts
<1>2. /\ decoder' = IF k = 0 THEN r.d ELSE FreePacket(r.d)
      /\ got' = IF k = 0 THEN got ELSE [got EXCEPT ![media[k]] = Append(@, k)]
      /\ intact' = (intact /\ (k = 0 \/ media[k] # Audio))
      /\ heard' = IF intact' THEN heard ELSE << >>
      /\ media' = media /\ since' = since /\ audio' = audio /\ video' = video
  BY Zenon DEF ClientRead, Delivered
<1>3. ReadsPacket(decoder, got, since, s, r)
  BY <1>1, ReadPacketGives
<1> HIDE DEF r
<1>4. heard' \in Seq(Tones) /\ intact' \in BOOLEAN
  <2>1. << >> \in Seq(Tones)
    OBVIOUS
  <2> QED BY <1>1, <1>2, <2>1
<1> DEFINE a == r.d.live
           b == Len(r.d.queue)
           c == decoder.live
           d == Len(decoder.queue)
           v == IF video.packet = 0 THEN 0 ELSE 1
<1>5. c \in Int /\ d \in Nat /\ c = d + v /\ v \in Int
  BY <1>1
<1>6. CASE k = 0
  <2>1. Arrives(r.d, got, since) /\ a - b = c - d
    BY <1>3, <1>6 DEF ReadsPacket
  <2>2. r.d \in DecoderType
    BY <2>1 DEF Arrives
  <2>3. a \in Int /\ b \in Nat
    BY <2>2, DecoderFields
  <2>4. decoder' = r.d /\ got' = got
    BY <1>2, <1>6
  <2>5. a = b + v
    <3> HIDE DEF a, b, c, d, v
    <3> QED BY <1>5, <2>1, <2>3
  <2>6. decoder'.live = Len(decoder'.queue) + (IF video'.packet = 0 THEN 0 ELSE 1)
    BY <1>2, <2>4, <2>5
  <2>7. intact' => intact /\ heard' = heard
    BY <1>2
  <2>8. Arrives(decoder', got', since')
    BY <1>2, <2>1, <2>4
  <2>9. intact' => heard' \o audio'.cache = SamplesOf(got'[Audio])
    BY <1>1, <1>2, <2>4, <2>7
  <2> QED BY <1>1, <1>2, <1>4, <2>6, <2>8, <2>9, MediaContinues
<1>7. CASE k # 0
  <2>1. /\ k \in Packets /\ Arrives(r.d, [got EXCEPT ![media[k]] = Append(@, k)], since)
        /\ a - b = c - d + 1
    BY <1>3, <1>7 DEF ReadsPacket
  <2>2. r.d \in DecoderType
    BY <2>1 DEF Arrives
  <2>3. a \in Int /\ b \in Nat
    BY <2>2, DecoderFields
  <2>4. decoder' = FreePacket(r.d) /\ got' = [got EXCEPT ![media[k]] = Append(@, k)]
    BY <1>2, <1>7
  <2> DEFINE f == FreePacket(r.d)
  <2>5. f \in DecoderType /\ f.at = r.d.at /\ f.queue = r.d.queue /\ f.open = r.d.open /\ f.live = a - 1
    BY <2>2, FreeGives
  <2> HIDE DEF f
  <2>6. Arrives(decoder', got', since')
    <3> DEFINE g == [got EXCEPT ![media[k]] = Append(@, k)]
    <3>1. Arrives(r.d, g, since)
      BY <2>1
    <3> HIDE DEF g
    <3>2. Arrives(f, g, since)
      BY <2>5, <3>1, ArriveSame
    <3>3. decoder' = f /\ got' = g /\ since' = since
      BY <1>2, <2>4 DEF f, g
    <3> QED BY <3>2, <3>3
  <2>7. a - 1 = b + v
    <3> HIDE DEF a, b, c, d, v
    <3> QED BY <1>5, <2>1, <2>3
  <2>8. decoder'.live = Len(decoder'.queue) + (IF video'.packet = 0 THEN 0 ELSE 1)
    <3>1. decoder' = f
      BY <2>4 DEF f
    <3> QED BY <1>2, <2>5, <2>7, <3>1
  <2>9. intact' => heard' \o audio'.cache = SamplesOf(got'[Audio])
    <3> SUFFICES ASSUME intact' PROVE heard \o audio.cache = SamplesOf(got'[Audio])
      BY <1>2
    <3>1. intact /\ media[k] # Audio
      BY <1>2, <1>7
    <3> DEFINE t == media[k]
               w == Append(got[t], k)
    <3>2. got' = [got EXCEPT ![t] = w]
      BY <2>4, Zenon
    <3> HIDE DEF t, w
    <3>3. got'[Audio] = got[Audio]
      <4>1. t # Audio /\ Audio \in MediaStreams
        BY <3>1 DEF t, MediaStreams
      <4> QED BY <1>1, <3>2, <4>1
    <3> QED BY <1>1, <3>1, <3>3
  <2> QED BY <1>1, <1>2, <1>4, <2>6, <2>8, <2>9, MediaContinues
<1> QED BY <1>6, <1>7

LEMMA AudioReads ==
  ASSUME MediaInv, NEW count \in 1 .. MaxCount, NEW last \in {1, Chunks}, AudioRead(count, last)
  PROVE  MediaInv'
<1> DEFINE end == ReadSamples(count, last)
           o == end.sound.out
           h == end.sound.cache
           p == end.packets
<1>1. /\ media \in Seq(MediaStreams) /\ Arrives(decoder, got, since) /\ decoder \in DecoderType
      /\ got \in [MediaStreams -> Seq(Packets)] /\ since \in [MediaStreams -> Nat]
      /\ video \in VideoType /\ audio \in AudioType /\ audio.cache \in Seq(Tones) /\ audio.position \in Int
      /\ heard \in Seq(Tones) /\ intact \in BOOLEAN
      /\ decoder.live = Len(decoder.queue) + (IF video.packet = 0 THEN 0 ELSE 1)
      /\ intact => heard \o audio.cache = SamplesOf(got[Audio])
      /\ decoder.at \in Nat /\ decoder.live \in Int /\ Len(decoder.queue) \in Nat /\ decoder.open \in SUBSET MediaStreams
  BY MediaFacts
<1>2. /\ decoder' = end.d
      /\ audio' = [cache |-> h, position |-> Counted(audio.position, Len(o))]
      /\ got' = Plus(got, Audio, p)
      /\ intact' = (intact /\ (last = Chunks \/ p = << >>))
      /\ heard' = IF intact' THEN heard \o o ELSE << >>
      /\ media' = media /\ since' = since /\ video' = video
  BY Zenon DEF AudioRead, Plus
<1>3. SoundInv(end) /\ Sounds(end, last)
  <2>1. count \in Nat /\ last \in 1 .. Chunks
    OBVIOUS
  <2> QED BY <2>1, ReadSamplesGives
<1> HIDE DEF end
<1>4. /\ end.d \in DecoderType /\ p \in Seq(Packets) /\ o \in Seq(Tones) /\ h \in Seq(Tones)
      /\ Arrives(end.d, Plus(got, Audio, p), since)
      /\ end.d.live - Len(end.d.queue) = decoder.live - Len(decoder.queue)
      /\ intact /\ (last = Chunks \/ p = << >>) => heard \o (o \o h) = SamplesOf(got[Audio] \o p)
  <2>1. end.d \in DecoderType /\ p \in Seq(Packets) /\ end.sound \in SoundType
    BY <1>3 DEF SoundInv, SoundRounds
  <2>2. o \in Seq(Tones) /\ h \in Seq(Tones)
    BY <2>1 DEF SoundType
  <2> QED BY <1>3, <2>1, <2>2 DEF SoundInv, Sounds
<1> HIDE DEF o, h, p
<1>5. Arrives(decoder', got', since')
  BY <1>2, <1>4
<1>6. decoder'.live = Len(decoder'.queue) + (IF video'.packet = 0 THEN 0 ELSE 1)
  <2> DEFINE a == end.d.live
             b == Len(end.d.queue)
             c == decoder.live
             d == Len(decoder.queue)
             v == IF video.packet = 0 THEN 0 ELSE 1
  <2>1. a \in Int /\ b \in Nat
    BY <1>4, DecoderFields
  <2>2. c \in Int /\ d \in Nat /\ c = d + v /\ a - b = c - d /\ v \in Int
    BY <1>1, <1>4
  <2> HIDE DEF a, b, c, d, v
  <2>3. a = b + v
    BY <2>1, <2>2
  <2> QED BY <1>2, <2>3 DEF a, b, v
<1>7. audio' \in AudioType /\ audio'.cache = h
  <2> DEFINE n == Counted(audio.position, Len(o))
  <2>1. n \in Int
    <3>1. Len(o) \in Nat
      BY <1>4
    <3> QED BY <1>1, <3>1 DEF Counted
  <2> HIDE DEF n
  <2>2. [cache |-> h, position |-> n] \in AudioType /\ [cache |-> h, position |-> n].cache = h
    BY <1>4, <2>1 DEF AudioType
  <2> QED BY <1>2, <2>2 DEF n
<1>8. heard' \in Seq(Tones) /\ intact' \in BOOLEAN
  <2>1. << >> \in Seq(Tones) /\ heard \o o \in Seq(Tones)
    BY <1>1, <1>4, ConcatProperties
  <2> QED BY <1>1, <1>2, <2>1
<1>9. intact' => heard' \o audio'.cache = SamplesOf(got'[Audio])
  <2> SUFFICES ASSUME intact' PROVE heard' \o audio'.cache = SamplesOf(got'[Audio])
    OBVIOUS
  <2>1. heard' = heard \o o /\ heard \o (o \o h) = SamplesOf(got[Audio] \o p)
    BY <1>2, <1>4
  <2>2. (heard \o o) \o h = heard \o (o \o h)
    <3>1. \A u, v, w \in Seq(Tones) : (u \o v) \o w = u \o (v \o w)
      BY ConcatAssociative, SMTT(30)
    <3> QED BY <1>1, <1>4, <3>1
  <2>3. got'[Audio] = got[Audio] \o p
    <3> DEFINE w == got[Audio] \o p
    <3>1. got' = [got EXCEPT ![Audio] = w]
      BY <1>2, Zenon DEF Plus
    <3>2. Audio \in MediaStreams
      BY DEF MediaStreams
    <3> HIDE DEF w
    <3>3. got'[Audio] = w
      BY <1>1, <3>1, <3>2
    <3> QED BY <3>3 DEF w
  <2> QED BY <1>7, <2>1, <2>2, <2>3
<1> QED BY <1>1, <1>2, <1>5, <1>6, <1>7, <1>8, <1>9, MediaContinues

LEMMA VideoReads ==
  ASSUME MediaInv, NEW decodes \in BOOLEAN, VideoRead(NextFrame, decodes)
  PROVE  MediaInv'
<1> DEFINE end == ReadFrame(NextFrame, decodes)
           p == end.packets
<1>1. /\ media \in Seq(MediaStreams) /\ Arrives(decoder, got, since) /\ decoder \in DecoderType
      /\ got \in [MediaStreams -> Seq(Packets)] /\ since \in [MediaStreams -> Nat]
      /\ video \in VideoType /\ audio \in AudioType /\ audio.cache \in Seq(Tones) /\ audio.position \in Int
      /\ heard \in Seq(Tones) /\ intact \in BOOLEAN
      /\ decoder.live = Len(decoder.queue) + (IF video.packet = 0 THEN 0 ELSE 1)
      /\ intact => heard \o audio.cache = SamplesOf(got[Audio])
      /\ decoder.at \in Nat /\ decoder.live \in Int /\ Len(decoder.queue) \in Nat /\ decoder.open \in SUBSET MediaStreams
  BY MediaFacts
<1>2. /\ decoder' = end.d /\ video' = end.v /\ got' = Plus(got, Video, p)
      /\ media' = media /\ since' = since /\ audio' = audio /\ heard' = heard /\ intact' = intact
  BY Zenon DEF VideoRead, Plus
<1>3. FrameInv(end)
  <2> DEFINE target == NextFrame
  <2>1. target \in Int
    <3>1. video.position \in Int
      BY <1>1 DEF VideoType
    <3> QED BY <3>1 DEF NextFrame
  <2> HIDE DEF target
  <2>2. FrameInv(ReadFrame(target, decodes))
    BY <1>1, <2>1, ReadFrameGives
  <2> QED BY <2>2 DEF target
<1> HIDE DEF end
<1>4. /\ end.v \in VideoType /\ p \in Seq(Packets) /\ Arrives(end.d, Plus(got, Video, p), since)
      /\ end.d.live = Len(end.d.queue) + (IF end.v.packet = 0 THEN 0 ELSE 1)
  BY <1>3 DEF FrameInv, FrameRounds
<1>5. got'[Audio] = got[Audio]
  <2> DEFINE w == got[Video] \o p
  <2>1. got' = [got EXCEPT ![Video] = w]
    BY <1>2, Zenon DEF Plus
  <2>2. Audio \in MediaStreams /\ Audio # Video
    BY DEF MediaStreams, Audio, Video
  <2> HIDE DEF w
  <2> QED BY <1>1, <2>1, <2>2
<1>6. Arrives(decoder', got', since')
  BY <1>2, <1>4
<1>7. decoder'.live = Len(decoder'.queue) + (IF video'.packet = 0 THEN 0 ELSE 1)
  BY <1>2, <1>4
<1>8. video' \in VideoType
  BY <1>2, <1>4
<1> QED BY <1>1, <1>2, <1>5, <1>6, <1>7, <1>8, MediaContinues

\* Everything starts again where the file was sought.
LEMMA SeekRestarts ==
  ASSUME MediaInv, NEW time, decoder' = SeekFrame(decoder, time), media' = media, Restart(MediaStreams),
         video' \in VideoType, video'.packet = video.packet, audio' \in AudioType,
         heard' = << >>, intact' \in BOOLEAN, intact' => audio'.cache = << >>
  PROVE  MediaInv'
<1> DEFINE e == SeekFrame(decoder, time)
<1>1. /\ media \in Seq(MediaStreams) /\ Arrives(decoder, got, since) /\ decoder \in DecoderType
      /\ got \in [MediaStreams -> Seq(Packets)] /\ since \in [MediaStreams -> Nat]
      /\ video \in VideoType /\ audio \in AudioType /\ audio.cache \in Seq(Tones) /\ audio.position \in Int
      /\ heard \in Seq(Tones) /\ intact \in BOOLEAN
      /\ decoder.live = Len(decoder.queue) + (IF video.packet = 0 THEN 0 ELSE 1)
      /\ intact => heard \o audio.cache = SamplesOf(got[Audio])
      /\ decoder.at \in Nat /\ decoder.live \in Int /\ Len(decoder.queue) \in Nat /\ decoder.open \in SUBSET MediaStreams
  BY MediaFacts
<1>2. /\ e \in DecoderType /\ e.queue = << >> /\ e.live = decoder.live - Len(decoder.queue)
      /\ Arrives(e, [s \in MediaStreams |-> << >>], [s \in MediaStreams |-> e.at])
  BY <1>1, SeekGives
<1> HIDE DEF e
<1>3. decoder' = e
  BY DEF e
<1>4. got' = [s \in MediaStreams |-> << >>] /\ since' = [s \in MediaStreams |-> e.at]
  BY <1>3 DEF Restart
<1>5. Arrives(decoder', got', since')
  BY <1>2, <1>3, <1>4
<1>6. decoder'.live = Len(decoder'.queue) + (IF video'.packet = 0 THEN 0 ELSE 1)
  <2> DEFINE c == decoder.live
             d == Len(decoder.queue)
             v == IF video.packet = 0 THEN 0 ELSE 1
  <2>1. c \in Int /\ d \in Nat /\ c = d + v /\ v \in Int
    BY <1>1
  <2>2. Len(e.queue) = 0
    BY <1>2
  <2> HIDE DEF c, d, v
  <2>3. c - d = 0 + v
    BY <2>1
  <2> QED BY <1>2, <1>3, <2>2, <2>3 DEF c, d, v
<1>7. heard' \in Seq(Tones)
  <2>1. << >> \in Seq(Tones)
    OBVIOUS
  <2> QED BY <2>1
<1>8. intact' => heard' \o audio'.cache = SamplesOf(got'[Audio])
  <2> SUFFICES ASSUME intact' PROVE heard' \o audio'.cache = SamplesOf(got'[Audio])
    OBVIOUS
  <2>1. got'[Audio] = << >>
    BY <1>4 DEF MediaStreams
  <2>2. << >> \o << >> = << >>
    OBVIOUS
  <2> QED BY <2>1, <2>2, NoSamples
<1> QED BY <1>1, <1>5, <1>6, <1>7, <1>8, MediaContinues

LEMMA AudioSeeks ==
  ASSUME MediaInv, NEW time \in Positions, AudioSeek(time)
  PROVE  MediaInv'
<1>1. /\ media \in Seq(MediaStreams) /\ Arrives(decoder, got, since) /\ decoder \in DecoderType
      /\ got \in [MediaStreams -> Seq(Packets)] /\ since \in [MediaStreams -> Nat]
      /\ video \in VideoType /\ audio \in AudioType /\ audio.cache \in Seq(Tones) /\ audio.position \in Int
      /\ heard \in Seq(Tones) /\ intact \in BOOLEAN
      /\ decoder.live = Len(decoder.queue) + (IF video.packet = 0 THEN 0 ELSE 1)
      /\ intact => heard \o audio.cache = SamplesOf(got[Audio])
      /\ decoder.at \in Nat /\ decoder.live \in Int /\ Len(decoder.queue) \in Nat /\ decoder.open \in SUBSET MediaStreams
  BY MediaFacts
<1>2. /\ decoder' = SeekFrame(decoder, time) /\ audio' = [cache |-> << >>, position |-> time]
      /\ heard' = << >> /\ intact' = TRUE /\ Restart(MediaStreams) /\ media' = media /\ video' = video
  BY DEF AudioSeek
<1>3. audio' \in AudioType /\ audio'.cache = << >>
  <2> DEFINE e == << >>
  <2>1. e \in Seq(Tones) /\ time \in Int
    BY <1>1 DEF Positions
  <2> HIDE DEF e
  <2>2. [cache |-> e, position |-> time] \in AudioType /\ [cache |-> e, position |-> time].cache = e
    BY <2>1 DEF AudioType
  <2> QED BY <1>2, <2>2 DEF e
<1> QED BY <1>1, <1>2, <1>3, SeekRestarts

LEMMA VideoSeeks ==
  ASSUME MediaInv, NEW time \in Positions, VideoSeek(time)
  PROVE  MediaInv'
<1>1. /\ media \in Seq(MediaStreams) /\ Arrives(decoder, got, since) /\ decoder \in DecoderType
      /\ got \in [MediaStreams -> Seq(Packets)] /\ since \in [MediaStreams -> Nat]
      /\ video \in VideoType /\ audio \in AudioType /\ audio.cache \in Seq(Tones) /\ audio.position \in Int
      /\ heard \in Seq(Tones) /\ intact \in BOOLEAN
      /\ decoder.live = Len(decoder.queue) + (IF video.packet = 0 THEN 0 ELSE 1)
      /\ intact => heard \o audio.cache = SamplesOf(got[Audio])
      /\ decoder.at \in Nat /\ decoder.live \in Int /\ Len(decoder.queue) \in Nat /\ decoder.open \in SUBSET MediaStreams
  BY MediaFacts
<1>2. /\ decoder' = SeekFrame(decoder, time) /\ video' = [video EXCEPT !.position = time]
      /\ heard' = << >> /\ intact' = FALSE /\ Restart(MediaStreams) /\ media' = media /\ audio' = audio
  BY DEF VideoSeek
<1>3. video' \in VideoType /\ video'.packet = video.packet
  <2>1. time \in Int
    BY <1>1 DEF Positions
  <2>2. [video EXCEPT !.position = time] \in VideoType /\ [video EXCEPT !.position = time].packet = video.packet
    BY <1>1, <2>1 DEF VideoType
  <2> QED BY <1>2, <2>2
<1> QED BY <1>1, <1>2, <1>3, SeekRestarts

LEMMA MediaStep ==
  ASSUME MediaInv, [MediaNext]_mediaVars
  PROVE  MediaInv'
<1>1. CASE OpenStream
  BY <1>1, StreamOpens
<1>2. CASE CloseStream
  BY <1>2, StreamCloses
<1>3. CASE GetFrameTime
  BY <1>3, FrameTimed
<1>4. ASSUME NEW s \in {Other, AnyStream}, ClientRead(s) PROVE MediaInv'
  BY <1>4, ClientReads
<1>5. ASSUME NEW count \in 1 .. MaxCount, NEW last \in {1, Chunks}, AudioRead(count, last) PROVE MediaInv'
  BY <1>5, AudioReads
<1>6. ASSUME NEW decodes \in BOOLEAN, VideoRead(NextFrame, decodes) PROVE MediaInv'
  BY <1>6, VideoReads
<1>7. ASSUME NEW time \in Positions, AudioSeek(time) \/ VideoSeek(time) PROVE MediaInv'
  BY <1>7, AudioSeeks, VideoSeeks
<1>8. CASE UNCHANGED mediaVars
  <2>1. /\ media \in Seq(MediaStreams) /\ Arrives(decoder, got, since)
        /\ video \in VideoType /\ audio \in AudioType /\ heard \in Seq(Tones) /\ intact \in BOOLEAN
        /\ decoder.live = Len(decoder.queue) + (IF video.packet = 0 THEN 0 ELSE 1)
        /\ intact => heard \o audio.cache = SamplesOf(got[Audio])
    BY DEF MediaInv, SamplesInOrder
  <2>2. /\ media' = media /\ decoder' = decoder /\ got' = got /\ since' = since /\ audio' = audio
        /\ heard' = heard /\ intact' = intact /\ video' = video
    BY <1>8 DEF mediaVars
  <2> QED BY <2>1, <2>2, MediaContinues
<1> QED BY <1>1, <1>2, <1>3, <1>4, <1>5, <1>6, <1>7, <1>8, Zenon DEF MediaNext

\* The packets that came of a stream, and then those queued, of which mine are its own
LEMMA OnceInOrder ==
  ASSUME NEW n \in Nat, NEW g \in Seq(1 .. n), NEW q \in Seq(1 .. n), NEW s, NEW now \in Nat, NEW from \in Nat,
         Came(s, g, now, q), Kept(s, g, now, q, from), Rising(q), \A i \in 1 .. Len(q) : q[i] < now
  PROVE  LET come == g \o q
             mine == {i \in DOMAIN come : media[come[i]] = s /\ come[i] >= from}
         IN  /\ {come[i] : i \in mine} = {k \in 1 .. (now - 1) : media[k] = s /\ k >= from}
             /\ \A i, j \in mine : i < j => come[i] < come[j]
<1> DEFINE come == g \o q
           a == Len(g)
           b == Len(q)
           mine == {i \in DOMAIN come : media[come[i]] = s /\ come[i] >= from}
<1>1. /\ come \in Seq(1 .. n) /\ Len(come) = Len(g) + Len(q)
      /\ \A i \in 1 .. Len(g) : come[i] = g[i]
      /\ \A i \in 1 .. Len(q) : come[Len(g) + i] = q[i]
      /\ \A i \in 1 .. Len(g) + Len(q) : i \notin 1 .. Len(g) => i - Len(g) \in 1 .. Len(q) /\ come[i] = q[i - Len(g)]
  BY ConcatGives
<1>2. a \in Nat /\ b \in Nat /\ (\A i \in 1 .. a : g[i] \in 1 .. n) /\ \A i \in 1 .. b : q[i] \in 1 .. n
  OBVIOUS
<1>3. DOMAIN come = 1 .. a + b
  <2> HIDE DEF come
  <2>1. DOMAIN come = 1 .. Len(come)
    BY <1>1
  <2> QED BY <1>1, <2>1
<1>4. /\ \A i, j \in 1 .. a : i < j => g[i] < g[j]
      /\ \A i \in 1 .. a : media[g[i]] = s /\ g[i] < now
      /\ \A i \in 1 .. a, j \in 1 .. b : media[q[j]] = s => g[i] < q[j]
  BY DEF Came, Rising
<1>5. \A k \in 1 .. now - 1 : media[k] = s /\ k >= from => (\E i \in 1 .. a : g[i] = k) \/ (\E i \in 1 .. b : q[i] = k)
  BY DEF Kept, Holds
<1>6. (\A i, j \in 1 .. b : i < j => q[i] < q[j]) /\ \A i \in 1 .. b : q[i] < now
  BY DEF Rising
<1>7. /\ \A i \in 1 .. a : come[i] = g[i]
      /\ \A i \in 1 .. b : come[a + i] = q[i]
      /\ \A i \in 1 .. a + b : i \notin 1 .. a => i - a \in 1 .. b /\ come[i] = q[i - a]
  BY <1>1
<1> HIDE DEF come, a, b
<1>8. \A i \in mine : i \in 1 .. a + b /\ media[come[i]] = s /\ come[i] >= from
  BY <1>3
<1>9. \A i \in 1 .. a + b : media[come[i]] = s /\ come[i] >= from => i \in mine
  BY <1>3
<1> HIDE DEF mine
<1>10. ASSUME NEW i \in mine PROVE come[i] \in 1 .. now - 1 /\ media[come[i]] = s /\ come[i] >= from
  <2>1. i \in 1 .. a + b /\ media[come[i]] = s /\ come[i] >= from
    BY <1>8
  <2>2. CASE i \in 1 .. a
    <3>1. come[i] \in 1 .. n /\ come[i] < now
      BY <1>2, <1>4, <1>7, <2>2
    <3> QED BY <2>1, <3>1
  <2>3. CASE i \notin 1 .. a
    <3>1. come[i] \in 1 .. n /\ come[i] < now
      BY <1>2, <1>6, <1>7, <2>1, <2>3
    <3> QED BY <2>1, <3>1
  <2> QED BY <2>2, <2>3
<1>11. ASSUME NEW k \in 1 .. now - 1, media[k] = s, k >= from PROVE \E i \in mine : come[i] = k
  <2>1. CASE \E i \in 1 .. a : g[i] = k
    <3>1. PICK i \in 1 .. a : g[i] = k
      BY <2>1
    <3>2. come[i] = k /\ i \in 1 .. a + b
      BY <1>2, <1>7, <3>1
    <3> QED BY <1>9, <1>11, <3>2
  <2>2. CASE \E i \in 1 .. b : q[i] = k
    <3>1. PICK i \in 1 .. b : q[i] = k
      BY <2>2
    <3>2. come[a + i] = k /\ a + i \in 1 .. a + b
      BY <1>2, <1>7, <3>1
    <3> QED BY <1>9, <1>11, <3>2
  <2> QED BY <1>5, <1>11, <2>1, <2>2
<1>12. ASSUME NEW i \in mine, NEW j \in mine, i < j PROVE come[i] < come[j]
  <2>1. i \in 1 .. a + b /\ j \in 1 .. a + b /\ media[come[j]] = s
    BY <1>8
  <2>2. CASE j \in 1 .. a
    <3>1. i \in 1 .. a
      BY <1>2, <1>12, <2>1, <2>2
    <3>2. come[i] = g[i] /\ come[j] = g[j]
      BY <1>7, <2>2, <3>1
    <3> QED BY <1>4, <1>12, <2>2, <3>1, <3>2
  <2>3. CASE j \notin 1 .. a /\ i \in 1 .. a
    <3>1. come[i] = g[i] /\ j - a \in 1 .. b /\ come[j] = q[j - a]
      BY <1>7, <2>1, <2>3
    <3> QED BY <1>4, <2>1, <2>3, <3>1
  <2>4. CASE j \notin 1 .. a /\ i \notin 1 .. a
    <3>1. i - a \in 1 .. b /\ come[i] = q[i - a] /\ j - a \in 1 .. b /\ come[j] = q[j - a]
      BY <1>7, <2>1, <2>4
    <3>2. i - a < j - a
      BY <1>2, <1>12, <2>1
    <3> QED BY <1>6, <3>1, <3>2
  <2> QED BY <2>2, <2>3, <2>4
<1>13. {come[i] : i \in mine} = {k \in 1 .. (now - 1) : media[k] = s /\ k >= from}
  <2> DEFINE B == {k \in 1 .. (now - 1) : media[k] = s /\ k >= from}
  <2>1. \A i \in mine : come[i] \in B
    BY <1>10
  <2>2. \A k \in B : \E i \in mine : come[i] = k
    BY <1>11
  <2> HIDE DEF B
  <2>3. {come[i] : i \in mine} = B
    BY <2>1, <2>2, SMTT(30)
  <2> QED BY <2>3 DEF B
<1>14. \A i, j \in mine : i < j => come[i] < come[j]
  BY <1>12
<1> QED BY <1>13, <1>14 DEF mine, come

LEMMA MediaInvImplies ==
  MediaInv => EachPacketOnce
<1> SUFFICES ASSUME MediaInv PROVE EachPacketOnce
  OBVIOUS
<1>1. /\ media \in Seq(MediaStreams) /\ Arrives(decoder, got, since)
      /\ decoder.live = Len(decoder.queue) + (IF video.packet = 0 THEN 0 ELSE 1)
  BY DEF MediaInv
<1>2. ASSUME NEW s \in decoder.open
      PROVE  LET come == got[s] \o decoder.queue
                 mine == {i \in DOMAIN come : media[come[i]] = s /\ come[i] >= since[s]}
             IN  /\ {come[i] : i \in mine} = {k \in 1 .. (decoder.at - 1) : media[k] = s /\ k >= since[s]}
                 /\ \A i, j \in mine : i < j => come[i] < come[j]
  <2> DEFINE n == Len(media)
             g == got[s]
             q == decoder.queue
             now == decoder.at
             from == since[s]
  <2>1. decoder \in DecoderType /\ got \in [MediaStreams -> Seq(Packets)] /\ since \in [MediaStreams -> Nat]
    BY <1>1 DEF Arrives
  <2>2. now \in 1 .. n + 1 /\ q \in Seq(1 .. n) /\ s \in MediaStreams /\ n \in Nat
    BY <1>1, <2>1, DecoderFields DEF Packets
  <2>3. now \in Nat /\ g \in Seq(1 .. n) /\ from \in Nat
    BY <2>1, <2>2 DEF Packets
  <2>4. Came(s, g, now, q) /\ Kept(s, g, now, q, from) /\ Rising(q) /\ \A i \in 1 .. Len(q) : q[i] < now
    BY <1>1, <2>2 DEF Arrives
  <2> HIDE DEF n, g, q, now, from
  <2>5. LET come == g \o q
            mine == {i \in DOMAIN come : media[come[i]] = s /\ come[i] >= from}
        IN  /\ {come[i] : i \in mine} = {k \in 1 .. (now - 1) : media[k] = s /\ k >= from}
            /\ \A i, j \in mine : i < j => come[i] < come[j]
    BY <2>2, <2>3, <2>4, OnceInOrder
  <2> QED BY <2>5, Zenon DEF g, q, now, from
<1> QED BY <1>1, <1>2, Zenon DEF EachPacketOnce

\* The inductive invariant of the decoders: the packets that came of a stream are in order, read
\* already and before those in the queue (DequeuePacket, and the loop of ReadPacket), of an open
\* stream none is missing, and the samples are those of the packets (Read, ReadCache).
THEOREM MediaInvariant ==
  MediaSpec => []MediaInv
<1>1. MediaInv /\ [MediaNext]_mediaVars => MediaInv'
  BY MediaStep
<1> QED BY <1>1, MediaBegins, PTL DEF MediaSpec

\* Of an open stream every packet is delivered once and in order, whatever the clients of the
\* other streams read, and every packet allocated is queued or in use (FFmpegDecoder::ReadPacket,
\* DequeuePacket, QueuePacket, SeekFrame, FreePacket).
THEOREM PacketsComeOnce ==
  MediaSpec => []EachPacketOnce
BY MediaInvariant, MediaInvImplies, PTL

\* What the audio decoder gave, and then its cache, are the samples of its packets in order for
\* any sizes of packets, chunks and reads (FFmpegAudioDecoder::Read, ReadCache).
THEOREM SamplesComeInOrder ==
  MediaSpec => []SamplesInOrder
<1>1. MediaInv => SamplesInOrder
  BY DEF MediaInv
<1> QED BY <1>1, MediaInvariant, PTL

-----------------------------------------------------------------------------
(* MidiReader: what is written one piece after the other                   *)

\* The elements of a sequence of two parts
LEMMA PartsGive ==
  ASSUME NEW S, NEW a \in Seq(S), NEW b \in Seq(S)
  PROVE  /\ a \o b \in Seq(S) /\ Len(a \o b) = Len(a) + Len(b) /\ Len(a) \in Nat /\ Len(b) \in Nat
         /\ \A i \in 1 .. Len(a) : (a \o b)[i] = a[i]
         /\ \A i \in 1 .. Len(b) : Len(a) + i \in Nat /\ (a \o b)[Len(a) + i] = b[i]
<1>1. Len(a) \in Nat /\ Len(b) \in Nat /\ a \o b \in Seq(S) /\ Len(a \o b) = Len(a) + Len(b)
  BY ConcatProperties
<1>2. \A i \in 1 .. Len(a) + Len(b) : (a \o b)[i] = IF i <= Len(a) THEN a[i] ELSE b[i - Len(a)]
  BY ConcatProperties
<1>3. \A i \in 1 .. Len(a) : i \in 1 .. Len(a) + Len(b) /\ i <= Len(a)
  BY <1>1
<1>4. ASSUME NEW i \in 1 .. Len(b)
      PROVE  Len(a) + i \in Nat /\ Len(a) + i \in 1 .. Len(a) + Len(b) /\ ~(Len(a) + i <= Len(a)) /\ (Len(a) + i) - Len(a) = i
  BY <1>1
<1> DEFINE c == a \o b
<1> HIDE DEF c
<1>5. \A i \in 1 .. Len(a) : c[i] = a[i]
  BY <1>2, <1>3 DEF c
<1>6. \A i \in 1 .. Len(b) : c[Len(a) + i] = b[i]
  BY <1>2, <1>4 DEF c
<1> QED BY <1>1, <1>4, <1>5, <1>6 DEF c

\* The sequences f grow by the pieces p.
Grows(S, f, p, n) ==
  /\ \A i \in 0 .. n : f[i] \in Seq(S)
  /\ \A i \in 1 .. n : p[i] \in Seq(S) /\ f[i] = f[i - 1] \o p[i]

\* What was there stays where it is.
StartStays(f, n, k) ==
  Len(f[k]) \in Nat /\ Len(f[n]) \in Nat /\ Len(f[k]) <= Len(f[n]) /\ \A i \in 1 .. Len(f[k]) : f[n][i] = f[k][i]

LEMMA GrowingKeeps ==
  ASSUME NEW S, NEW n \in Nat, NEW f, NEW p, Grows(S, f, p, n), NEW k \in 0 .. n
  PROVE  StartStays(f, n, k)
<1> DEFINE Keeps(m) == Len(f[k]) <= Len(f[m]) /\ \A i \in 1 .. Len(f[k]) : f[m][i] = f[k][i]
           N == {d \in Nat : k + d <= n => Keeps(k + d)}
<1>0. \A i \in 0 .. n : f[i] \in Seq(S) /\ Len(f[i]) \in Nat
  BY DEF Grows
<1>1. 0 \in N
  <2>1. k + 0 = k
    OBVIOUS
  <2>2. Keeps(k)
    BY <1>0
  <2> HIDE DEF Keeps
  <2> QED BY <2>1, <2>2
<1>2. ASSUME NEW d \in N PROVE d + 1 \in N
  <2>1. SUFFICES ASSUME k + (d + 1) <= n PROVE Keeps(k + (d + 1))
    OBVIOUS
  <2> DEFINE m == k + (d + 1)
             b == f[m - 1]
             q == p[m]
  <2>2. d \in Nat /\ m \in 1 .. n /\ m - 1 = k + d /\ m - 1 \in 0 .. n /\ k + d <= n
    BY <2>1
  <2>3. Len(f[k]) <= Len(b) /\ \A i \in 1 .. Len(f[k]) : b[i] = f[k][i]
    BY <2>2
  <2>4. b \in Seq(S) /\ q \in Seq(S) /\ f[m] = b \o q
    BY <2>2 DEF Grows
  <2> HIDE DEF b, q, m, Keeps
  <2>5. /\ Len(b \o q) = Len(b) + Len(q) /\ Len(b) \in Nat /\ Len(q) \in Nat
        /\ \A i \in 1 .. Len(b) : (b \o q)[i] = b[i]
    BY <2>4, PartsGive
  <2>6. Len(f[k]) \in Nat
    BY <1>0
  <2>7. Len(f[k]) <= Len(f[m]) /\ \A i \in 1 .. Len(f[k]) : f[m][i] = f[k][i]
    BY <2>3, <2>4, <2>5, <2>6
  <2> QED BY <2>7 DEF Keeps, m
<1>3. Nat \subseteq N
  <2>1. N \subseteq Nat
    OBVIOUS
  <2> HIDE DEF N
  <2> QED BY <1>1, <1>2, <2>1, NatSetInduction
<1>4. n - k \in Nat /\ k + (n - k) = n
  OBVIOUS
<1>5. Keeps(n)
  <2> HIDE DEF Keeps
  <2> QED BY <1>3, <1>4
<1> QED BY <1>0, <1>5 DEF StartStays

\* Each piece is where it was put.
PieceStays(f, p, n, k) ==
  /\ Len(f[k - 1]) \in Nat /\ Len(p[k]) \in Nat /\ Len(f[n]) \in Nat
  /\ Len(f[k]) = Len(f[k - 1]) + Len(p[k]) /\ Len(f[k]) <= Len(f[n])
  /\ \A i \in 1 .. Len(p[k]) : f[n][Len(f[k - 1]) + i] = p[k][i]

LEMMA GrowingHas ==
  ASSUME NEW S, NEW n \in Nat, NEW f, NEW p, Grows(S, f, p, n), NEW k \in 1 .. n
  PROVE  PieceStays(f, p, n, k)
<1> DEFINE b == f[k - 1]
           q == p[k]
           e == f[n]
<1>1. k \in 0 .. n /\ k - 1 \in 0 .. n
  OBVIOUS
<1>2. b \in Seq(S) /\ q \in Seq(S) /\ f[k] = b \o q
  BY <1>1 DEF Grows
<1>3. Len(e) \in Nat /\ Len(f[k]) <= Len(e) /\ \A i \in 1 .. Len(f[k]) : e[i] = f[k][i]
  <2>1. StartStays(f, n, k)
    BY <1>1, GrowingKeeps
  <2> QED BY <2>1 DEF StartStays
<1> HIDE DEF b, q, e
<1>4. /\ Len(b \o q) = Len(b) + Len(q) /\ Len(b) \in Nat /\ Len(q) \in Nat
      /\ \A i \in 1 .. Len(q) : Len(b) + i \in Nat /\ (b \o q)[Len(b) + i] = q[i]
  BY <1>2, PartsGive
<1>5. ASSUME NEW i \in 1 .. Len(q) PROVE e[Len(b) + i] = q[i]
  <2>1. Len(b) + i \in 1 .. Len(f[k])
    BY <1>2, <1>4
  <2> QED BY <1>2, <1>3, <1>4, <2>1
<1> QED BY <1>2, <1>3, <1>4, <1>5 DEF PieceStays, b, q, e


-----------------------------------------------------------------------------
(* MidiReader: events as they are written and read                         *)

Identifiers == {0} \cup 128 .. 239

LEMMA SevenBits ==
  ASSUME NEW n \in Numbers
  PROVE  /\ n \in Nat /\ n \div 128 \in 0 .. 127 /\ n % 128 \in 0 .. 127 /\ (n \div 128) * 128 + (n % 128) = n
         /\ (128 + (n \div 128)) % 128 = n \div 128
<1>0. n \in Nat /\ n < 16384
  BY DEF Numbers
<1>1. n \div 128 \in Nat /\ n \div 128 < 128 /\ n % 128 \in Nat /\ n % 128 < 128 /\ (n \div 128) * 128 + (n % 128) = n
  BY <1>0
<1>2. \A d \in Nat : d < 128 => (128 + d) % 128 = d
  OBVIOUS
<1> QED BY <1>0, <1>1, <1>2

LEMMA NumberGives ==
  ASSUME NEW n \in Numbers
  PROVE  /\ Number(n) \in Seq(Octet) /\ Len(Number(n)) \in {1, 2}
         /\ n < 128 => Len(Number(n)) = 1 /\ Number(n)[1] = n
         /\ n >= 128 => /\ Len(Number(n)) = 2 /\ Number(n)[1] >= 128 /\ Number(n)[2] \in 0 .. 127
                        /\ (Number(n)[1] % 128) * 128 + Number(n)[2] = n
<1>0. n \in Nat
  BY SevenBits
<1>1. CASE n < 128
  <2>0. n \in Octet
    BY <1>0, <1>1 DEF Octet
  <2> DEFINE t == <<n>>
             u == <<128 + (n \div 128), n % 128>>
  <2>3. Number(n) = IF n < 128 THEN t ELSE u
    BY DEF Number
  <2> HIDE DEF t, u
  <2>4. Number(n) = t
    BY <1>1, <2>3
  <2>1. Number(n) = <<n>>
    BY <2>4 DEF t
  <2>2. <<n>> \in Seq(Octet) /\ Len(<<n>>) = 1 /\ <<n>>[1] = n
    BY <2>0
  <2> QED BY <1>0, <1>1, <2>1, <2>2
<1>2. CASE ~(n < 128)
  <2> DEFINE h == 128 + (n \div 128)
             l == n % 128
  <2>0. n \div 128 \in 0 .. 127 /\ n % 128 \in 0 .. 127
    BY SevenBits
  <2>1. h \in Octet /\ l \in Octet /\ l \in 0 .. 127 /\ h >= 128 /\ h % 128 = n \div 128 /\ (n \div 128) * 128 + l = n
    <3>1. \A d \in 0 .. 127 : 128 + d \in Octet /\ d \in Octet /\ 128 + d >= 128
      BY DEF Octet
    <3>2. h \in Octet /\ l \in Octet /\ h >= 128
      BY <2>0, <3>1
    <3> QED BY <3>2, SevenBits
  <2>2. Number(n) = <<h, l>>
    BY <1>2 DEF Number
  <2> HIDE DEF h, l
  <2>3. <<h, l>> \in Seq(Octet) /\ Len(<<h, l>>) = 2 /\ <<h, l>>[1] = h /\ <<h, l>>[2] = l
    BY <2>1
  <2> QED BY <1>2, <2>1, <2>2, <2>3
<1> QED BY <1>0, <1>1, <1>2

\* What stands in the file from p on
Stands(p, s) == \A i \in 1 .. Len(s) : Byte(p + i - 1) = s[i]

\* The first byte below 128 ends a number, and its last three groups count.
LEMMA EndsThere ==
  ASSUME FileLength \in Nat, NEW p \in Nat, NEW z \in Nat, z >= p, z < FileLength, Byte(z) < 128,
         \A q \in p .. z - 1 : ~(Byte(q) < 128)
  PROVE  /\ ~Endless(p) /\ ReadInteger(p).end = z + 1
         /\ z = p => ReadInteger(p).value = 0 * 16384 + 0 * 128 + (Byte(p) % 128)
         /\ z = p + 1 => ReadInteger(p).value = 0 * 16384 + (Byte(p) % 128) * 128 + (Byte(z) % 128)
<1> DEFINE S == Ends(p)
           l == FileLength
           Group(i) == IF z - i >= p THEN Byte(z - i) % 128 ELSE 0
<1>1. S \subseteq Nat /\ z \in S
  BY DEF Ends
<1>2. \A q \in S : z <= q
  <2> SUFFICES ASSUME NEW q \in S, ~(z <= q) PROVE FALSE
    OBVIOUS
  <2>1. q \in p .. l - 1 /\ Byte(q) < 128
    BY DEF Ends
  <2> HIDE DEF l, S
  <2>2. q \in p .. z - 1
    BY <1>1, <2>1
  <2> QED BY <2>1, <2>2
<1>3. Min(S) = z
  <2>0. S # {}
    BY <1>1
  <2> HIDE DEF S
  <2>1. Min(S) \in S /\ \A y \in S : Min(S) <= y
    BY <1>1, <2>0, LeastOf
  <2>2. z <= Min(S) /\ Min(S) <= z /\ Min(S) \in Nat
    BY <1>1, <1>2, <2>1
  <2> QED BY <2>2
<1>4. /\ ReadInteger(p).end = z + 1
      /\ ReadInteger(p).value = Group(2) * 16384 + Group(1) * 128 + Group(0)
  BY <1>3 DEF ReadInteger
<1>5. ~Endless(p)
  BY <1>1 DEF Endless
<1>6. ASSUME z = p PROVE Group(2) = 0 /\ Group(1) = 0 /\ Group(0) = Byte(p) % 128
  <2>1. z - 0 = p /\ ~(z - 1 >= p) /\ ~(z - 2 >= p) /\ z - 0 >= p
    BY <1>6
  <2> QED BY <2>1
<1>7. ASSUME z = p + 1 PROVE Group(2) = 0 /\ Group(1) = Byte(p) % 128 /\ Group(0) = Byte(z) % 128
  <2>1. z - 0 = z /\ z - 1 = p /\ ~(z - 2 >= p) /\ z - 0 >= p /\ z - 1 >= p
    BY <1>7
  <2> QED BY <2>1
<1> HIDE DEF Group
<1> QED BY <1>4, <1>5, <1>6, <1>7

\* ReadInteger() gives the number that was written, where the file has all of it.
LEMMA ReadsNumber ==
  ASSUME FileLength \in Nat, NEW n \in Numbers, NEW p \in Nat, Stands(p, Number(n)), p + Len(Number(n)) <= FileLength
  PROVE  /\ ReadInteger(p).value = n /\ ReadInteger(p).end = p + Len(Number(n)) /\ Len(Number(n)) \in {1, 2}
         /\ ~Endless(p)
<1> DEFINE w == Number(n)
           l == FileLength
<1>0. n \in Nat /\ w \in Seq(Octet)
  BY SevenBits, NumberGives
<1>2. \A i \in 1 .. Len(w) : Byte(p + i - 1) = w[i]
  BY DEF Stands
<1>3. p + Len(w) <= l /\ l \in Nat
  OBVIOUS
<1>4. CASE n < 128
  <2>1. Len(w) = 1 /\ w[1] = n
    BY <1>4, NumberGives
  <2> HIDE DEF w, l
  <2>2. Byte(p) = n /\ p < l /\ p + 1 = p + Len(w)
    <3>1. 1 \in 1 .. Len(w) /\ p + 1 - 1 = p
      BY <2>1
    <3> QED BY <1>2, <1>3, <2>1, <3>1
  <2>3. \A q \in p .. p - 1 : ~(Byte(q) < 128)
    OBVIOUS
  <2>4. ~Endless(p) /\ ReadInteger(p).end = p + 1 /\ ReadInteger(p).value = 0 * 16384 + 0 * 128 + (Byte(p) % 128)
    BY <1>3, <1>4, <2>2, <2>3, EndsThere DEF l
  <2>5. Byte(p) % 128 = n
    BY <1>0, <1>4, <2>2
  <2> QED BY <1>0, <2>1, <2>2, <2>4, <2>5 DEF w
<1>5. CASE ~(n < 128)
  <2>1. Len(w) = 2 /\ w[1] >= 128 /\ (w[1] % 128) * 128 + w[2] = n /\ w[2] \in 0 .. 127
    BY <1>0, <1>5, NumberGives
  <2> HIDE DEF w, l
  <2> DEFINE z == p + 1
  <2>2. Byte(p) = w[1] /\ Byte(z) = w[2] /\ z < l /\ z + 1 = p + Len(w) /\ z \in Nat
    <3>1. 1 \in 1 .. Len(w) /\ 2 \in 1 .. Len(w) /\ p + 1 - 1 = p /\ p + 2 - 1 = z
      BY <2>1
    <3> QED BY <1>2, <1>3, <2>1, <3>1
  <2>3. w[1] \in Nat /\ ~(w[1] < 128)
    <3>1. 1 \in 1 .. Len(w)
      BY <2>1
    <3>2. w[1] \in Octet
      BY <1>0, <3>1
    <3>3. w[1] >= 128
      BY <2>1
    <3>4. \A x \in Octet : x >= 128 => x \in Nat /\ ~(x < 128)
      BY DEF Octet
    <3> QED BY <3>2, <3>3, <3>4
  <2>4. \A q \in p .. z - 1 : ~(Byte(q) < 128)
    <3>1. \A q \in p .. z - 1 : q = p
      OBVIOUS
    <3> QED BY <2>2, <2>3, <3>1
  <2>5. Byte(z) < 128 /\ Byte(z) % 128 = w[2]
    <3>1. \A x \in 0 .. 127 : x < 128 /\ x % 128 = x
      OBVIOUS
    <3> QED BY <2>1, <2>2, <3>1
  <2>6. z >= p /\ z = p + 1
    OBVIOUS
  <2> HIDE DEF z
  <2>7. ~Endless(p) /\ ReadInteger(p).end = z + 1 /\ ReadInteger(p).value = 0 * 16384 + (Byte(p) % 128) * 128 + (Byte(z) % 128)
    BY <1>3, <2>2, <2>4, <2>5, <2>6, EndsThere DEF l
  <2>8. ReadInteger(p).value = n
    <3> DEFINE h == w[1] % 128
               k == w[2]
    <3>1. h * 128 + k = n /\ Byte(z) % 128 = k /\ k \in Nat
      <4>1. w[2] \in 0 .. 127
        BY <2>1, Zenon
      <4>3. \A x \in 0 .. 127 : x \in Nat
        OBVIOUS
      <4>2. w[2] \in Nat
        BY <4>1, <4>3, Zenon
      <4> QED BY <2>1, <2>5, <4>2, Zenon
    <3>4. Byte(p) % 128 = h
      BY <2>2, Zenon
    <3>2. h \in Nat
      <4>1. \A x \in Nat : x % 128 \in Nat
        OBVIOUS
      <4> QED BY <2>3, <4>1
    <3> HIDE DEF h, k
    <3>3. ReadInteger(p).value = 0 * 16384 + h * 128 + k
      <4> DEFINE v == ReadInteger(p).value
                 b == Byte(p) % 128
                 c == Byte(z) % 128
      <4>1. v = 0 * 16384 + b * 128 + c
        BY <2>7
      <4>2. b = h /\ c = k
        BY <3>1, <3>4
      <4> HIDE DEF v, b, c
      <4>3. v = 0 * 16384 + h * 128 + k
        BY <4>1, <4>2
      <4> QED BY <4>3 DEF v
    <3> QED BY <3>1, <3>2, <3>3
  <2> QED BY <2>1, <2>2, <2>7, <2>8 DEF w
<1> QED BY <1>4, <1>5

\* The identifier of an event, with what belongs to it
Named(e, previous) ==
  IF e.id = Meta THEN <<Meta, e.type>> \o Number(Len(e.data)) ELSE IF e.id = previous THEN << >> ELSE <<e.id>>

LEMMA EventGives ==
  ASSUME NEW e \in Events
  PROVE  /\ e.delta \in Numbers /\ e.id \in Octet /\ e.type \in Octet /\ e.data \in Seq(Octet) /\ Len(e.data) \in Nat
         /\ e = [delta |-> e.delta, id |-> e.id, type |-> e.type, data |-> e.data]
         /\ e.id = Meta => Len(e.data) \in Numbers
         /\ e.id \in {Meta} \cup SysEx \cup 128 .. 239
         /\ e.id \in 128 .. 239 => e.type = e.id \div 16 /\ Len(e.data) = Parameters(e.id) /\ e.data[1] < 128
         /\ e.id = Meta => e.id \notin SysEx /\ e.id \notin 128 .. 239
<1>1. /\ e \in [delta : Numbers, id : Octet, type : Octet, data : Seq(Octet)]
      /\ \/ e.id = Meta /\ Len(e.data) \in Numbers
         \/ e.id \in SysEx
         \/ e.id \in 128 .. 239 /\ e.type = e.id \div 16 /\ Len(e.data) = Parameters(e.id) /\ e.data[1] < 128
  BY DEF Events
<1>2. e.delta \in Numbers /\ e.id \in Octet /\ e.type \in Octet /\ e.data \in Seq(Octet)
  BY <1>1
<1>3. Len(e.data) \in Nat
  BY <1>2
<1>4. e = [delta |-> e.delta, id |-> e.id, type |-> e.type, data |-> e.data]
  BY <1>1
<1>5. Meta \notin SysEx /\ Meta \notin 128 .. 239 /\ \A x \in SysEx : x \notin 128 .. 239
  BY DEF Meta, SysEx
<1> DEFINE T == 128 .. 239
           q == Parameters(e.id)
           k == e.id \div 16
<1>6. /\ Meta \notin SysEx /\ Meta \notin T /\ \A x \in SysEx : x \notin T
      /\ \/ e.id = Meta /\ Len(e.data) \in Numbers
         \/ e.id \in SysEx
         \/ e.id \in T /\ e.type = k /\ Len(e.data) = q /\ e.data[1] < 128
  BY <1>1, <1>5
<1> HIDE DEF T, q, k
<1>7. /\ e.id = Meta => Len(e.data) \in Numbers
      /\ e.id \in {Meta} \cup SysEx \cup T
      /\ e.id \in T => e.type = k /\ Len(e.data) = q /\ e.data[1] < 128
      /\ e.id = Meta => e.id \notin SysEx /\ e.id \notin T
  BY <1>6
<1> QED BY <1>1, <1>2, <1>3, <1>4, <1>7 DEF T, q, k

LEMMA NamedGives ==
  ASSUME NEW e \in Events, NEW previous \in Identifiers
  PROVE  /\ Named(e, previous) \in Seq(Octet) /\ Repeated(e, previous) \in Identifiers
         /\ Written(e, previous) = Number(e.delta) \o Named(e, previous) \o e.data
<1>1. Written(e, previous) = Number(e.delta) \o Named(e, previous) \o e.data
  BY DEF Written, Named
<1>2. Repeated(e, previous) \in Identifiers
  BY EventGives DEF Repeated, Identifiers
<1>3. CASE e.id = Meta
  <2>2. Len(e.data) \in Numbers
    BY <1>3, EventGives
  <2> DEFINE t == <<Meta, e.type>>
             w == Number(Len(e.data))
  <2>3. t \in Seq(Octet)
    BY EventGives DEF Meta, Octet
  <2>4. w \in Seq(Octet)
    BY <2>2, NumberGives
  <2>5. Named(e, previous) = t \o w
    BY <1>3 DEF Named
  <2> HIDE DEF t, w
  <2> QED BY <1>1, <1>2, <2>3, <2>4, <2>5
<1>4. CASE e.id # Meta
  <2>1. <<e.id>> \in Seq(Octet) /\ << >> \in Seq(Octet)
    BY EventGives
  <2>2. Named(e, previous) \in {<<e.id>>, << >>}
    BY <1>4 DEF Named
  <2> QED BY <1>1, <1>2, <2>1, <2>2
<1> QED BY <1>3, <1>4

\* Where the parts of an event are
LEMMA WrittenGives ==
  ASSUME NEW e \in Events, NEW previous \in Identifiers
  PROVE  /\ Written(e, previous) \in Seq(Octet)
         /\ Len(Written(e, previous)) = Len(Number(e.delta)) + Len(Named(e, previous)) + Len(e.data)
         /\ Len(Written(e, previous)) >= 1 /\ Len(Number(e.delta)) \in {1, 2} /\ Len(Named(e, previous)) \in Nat
         /\ \A p \in Nat : Stands(p, Written(e, previous)) =>
              /\ Stands(p, Number(e.delta))
              /\ Stands(p + Len(Number(e.delta)), Named(e, previous))
              /\ Stands(p + Len(Number(e.delta)) + Len(Named(e, previous)), e.data)
<1> DEFINE a == Number(e.delta)
           b == Named(e, previous)
           d == e.data
           w == Written(e, previous)
<1>1. w = (a \o b) \o d /\ b \in Seq(Octet)
  BY NamedGives
<1>2. a \in Seq(Octet) /\ d \in Seq(Octet) /\ Len(a) \in {1, 2}
  <2>1. e.delta \in Numbers /\ d \in Seq(Octet)
    BY EventGives
  <2> QED BY <2>1, NumberGives
<1> HIDE DEF a, b, d, w
<1> DEFINE c == a \o b
<1>3. /\ c \in Seq(Octet) /\ Len(c) = Len(a) + Len(b) /\ Len(a) \in Nat /\ Len(b) \in Nat
      /\ \A i \in 1 .. Len(a) : c[i] = a[i]
      /\ \A i \in 1 .. Len(b) : Len(a) + i \in Nat /\ c[Len(a) + i] = b[i]
  BY <1>1, <1>2, PartsGive
<1>4. w = c \o d
  BY <1>1
<1> HIDE DEF c
<1>5. /\ w \in Seq(Octet) /\ Len(w) = Len(c) + Len(d) /\ Len(d) \in Nat
      /\ \A i \in 1 .. Len(c) : w[i] = c[i]
      /\ \A i \in 1 .. Len(d) : Len(c) + i \in Nat /\ w[Len(c) + i] = d[i]
  <2>1. c \in Seq(Octet) /\ d \in Seq(Octet)
    BY <1>2, <1>3
  <2> QED BY <1>4, <2>1, PartsGive
<1>6. ASSUME NEW p \in Nat, Stands(p, w)
      PROVE  Stands(p, a) /\ Stands(p + Len(a), b) /\ Stands(p + Len(a) + Len(b), d)
  <2>1. \A i \in 1 .. Len(w) : Byte(p + i - 1) = w[i]
    BY <1>6 DEF Stands
  <2>2. ASSUME NEW i \in 1 .. Len(a) PROVE Byte(p + i - 1) = a[i]
    <3>1. i \in 1 .. Len(c) /\ i \in 1 .. Len(w)
      BY <1>3, <1>5
    <3> QED BY <1>3, <1>5, <2>1, <3>1
  <2>3. ASSUME NEW i \in 1 .. Len(b) PROVE Byte((p + Len(a)) + i - 1) = b[i]
    <3>1. Len(a) + i \in 1 .. Len(c) /\ Len(a) + i \in 1 .. Len(w) /\ p + (Len(a) + i) - 1 = (p + Len(a)) + i - 1
      BY <1>3, <1>5
    <3> QED BY <1>3, <1>5, <2>1, <3>1
  <2>4. ASSUME NEW i \in 1 .. Len(d) PROVE Byte((p + Len(a) + Len(b)) + i - 1) = d[i]
    <3>1. Len(c) + i \in 1 .. Len(w) /\ p + (Len(c) + i) - 1 = (p + Len(a) + Len(b)) + i - 1
      BY <1>3, <1>5
    <3> QED BY <1>5, <2>1, <3>1
  <2> QED BY <2>2, <2>3, <2>4 DEF Stands
<1>7. Len(w) = Len(a) + Len(b) + Len(d) /\ Len(w) >= 1
  BY <1>2, <1>3, <1>5
<1> QED BY <1>2, <1>3, <1>5, <1>6, <1>7 DEF a, b, d, w

-----------------------------------------------------------------------------
(* MidiReader: the bytes of a track and of a file                          *)

Codes(events, f) ==
  f = [i \in 0 .. Len(events) |->
         IF i = 0 THEN [bytes |-> << >>, previous |-> 0]
         ELSE [bytes |-> f[i - 1].bytes \o Written(events[i], f[i - 1].previous),
               previous |-> Repeated(events[i], f[i - 1].previous)]]

\* Encoded() goes from event to event.
LEMMA EncodedGives ==
  ASSUME NEW events \in Seq(Events)
  PROVE  /\ Len(events) \in Nat
         /\ \A i \in 0 .. Len(events) :
              Encoded(events)[i].bytes \in Seq(Octet) /\ Encoded(events)[i].previous \in Identifiers
         /\ Encoded(events)[0].bytes = << >> /\ Encoded(events)[0].previous = 0
         /\ \A i \in 1 .. Len(events) :
              /\ Encoded(events)[i].bytes = Encoded(events)[i - 1].bytes \o Written(events[i], Encoded(events)[i - 1].previous)
              /\ Encoded(events)[i].previous = Repeated(events[i], Encoded(events)[i - 1].previous)
<1> DEFINE n == Len(events)
           B == Seq(Octet)
           S == [bytes : B, previous : Identifiers]
           start == [bytes |-> << >>, previous |-> 0]
           Turn(y, i) == [bytes |-> y.bytes \o Written(events[i], y.previous), previous |-> Repeated(events[i], y.previous)]
           step == [i \in Nat |-> [y \in S |-> IF i \in 1 .. n THEN Turn(y, i) ELSE y]]
           all == CHOOSE f : Codes(events, f)
<1>0. n \in Nat /\ \A i \in 1 .. n : events[i] \in Events
  OBVIOUS
<1>1. Encoded(events) = all
  BY Zenon DEF Encoded, Codes
<1>2. ASSUME NEW y \in S, NEW i \in 1 .. n PROVE Turn(y, i) \in S
  <2>1. y.bytes \in Seq(Octet) /\ y.previous \in Identifiers /\ events[i] \in Events
    BY <1>0
  <2> DEFINE w == Written(events[i], y.previous)
             q == Repeated(events[i], y.previous)
  <2>2. w \in Seq(Octet) /\ q \in Identifiers
    BY <2>1, WrittenGives, NamedGives
  <2> HIDE DEF w, q
  <2>3. y.bytes \o w \in Seq(Octet)
    BY <2>1, <2>2, PartsGive
  <2>4. Turn(y, i) = [bytes |-> y.bytes \o w, previous |-> q]
    BY DEF w, q
  <2> QED BY <2>2, <2>3, <2>4
<1>3. start \in S
  BY DEF Identifiers
<1> HIDE DEF Turn, start
<1>4. step \in [Nat -> [S -> S]]
  <2> HIDE DEF S
  <2> QED BY <1>2
<1> HIDE DEF step, n, S
<1>5. PICK g \in [0 .. n -> S] : g[0] = start /\ \A i \in 1 .. n : g[i] = step[i][g[i - 1]]
  <2>1. Runs(S, step, start, n)
    BY <1>0, <1>3, <1>4, LoopRuns
  <2> QED BY <2>1 DEF Runs
<1>6. ASSUME NEW i \in 0 .. n PROVE g[i] = IF i = 0 THEN start ELSE Turn(g[i - 1], i)
  <2>1. CASE i = 0
    BY <1>5, <2>1
  <2>2. CASE i # 0
    <3>1. i \in 1 .. n /\ i - 1 \in 0 .. n /\ i \in Nat
      BY <1>0, <2>2
    <3>2. g[i] = step[i][g[i - 1]] /\ g[i - 1] \in S
      BY <1>5, <3>1
    <3>3. step[i][g[i - 1]] = Turn(g[i - 1], i)
      BY <3>1, <3>2 DEF step
    <3> QED BY <2>2, <3>2, <3>3
  <2> QED BY <2>1, <2>2
<1>7. g = [i \in 0 .. n |-> IF i = 0 THEN start ELSE Turn(g[i - 1], i)]
  BY <1>5, <1>6
<1>8. Codes(events, g)
  BY <1>7 DEF Codes, Turn, n, start
<1>9. Codes(events, all)
  BY <1>8, Zenon
<1> HIDE DEF all
<1>10. all = [i \in 0 .. n |-> IF i = 0 THEN start ELSE Turn(all[i - 1], i)]
  BY <1>9 DEF Codes, Turn, n, start
<1>11. all[0] = start /\ \A i \in 1 .. n : all[i] = Turn(all[i - 1], i)
  <2>1. \A i \in 0 .. n : all[i] = IF i = 0 THEN start ELSE Turn(all[i - 1], i)
    BY <1>10
  <2>2. 0 \in 0 .. n /\ \A i \in 1 .. n : i \in 0 .. n /\ i # 0
    BY <1>0
  <2> QED BY <2>1, <2>2
<1> DEFINE N == {i \in Nat : i <= n => all[i] \in S}
<1>12. 0 \in N
  BY <1>3, <1>11
<1>13. ASSUME NEW i \in N PROVE i + 1 \in N
  <2> SUFFICES ASSUME i + 1 <= n PROVE all[i + 1] \in S
    OBVIOUS
  <2>1. i + 1 \in 1 .. n /\ (i + 1) - 1 = i /\ i <= n
    BY <1>0
  <2>2. all[i + 1] = Turn(all[i], i + 1) /\ all[i] \in S
    BY <1>11, <2>1
  <2> QED BY <1>2, <2>1, <2>2
<1>14. \A i \in 0 .. n : all[i] \in S
  <2>1. N \subseteq Nat
    OBVIOUS
  <2>2. \A i \in 0 .. n : i \in Nat /\ i <= n
    BY <1>0
  <2>3. \A i \in N : i <= n => all[i] \in S
    OBVIOUS
  <2> HIDE DEF N
  <2>4. Nat \subseteq N
    BY <1>12, <1>13, <2>1, NatSetInduction
  <2> QED BY <2>2, <2>3, <2>4
<1>15. \A i \in 0 .. n : all[i].bytes \in Seq(Octet) /\ all[i].previous \in Identifiers
  BY <1>14 DEF S
<1>16. all[0].bytes = << >> /\ all[0].previous = 0
  BY <1>11 DEF start
<1>17. ASSUME NEW i \in 1 .. n
       PROVE  /\ all[i].bytes = all[i - 1].bytes \o Written(events[i], all[i - 1].previous)
              /\ all[i].previous = Repeated(events[i], all[i - 1].previous)
  <2> DEFINE w == all[i - 1].bytes \o Written(events[i], all[i - 1].previous)
             q == Repeated(events[i], all[i - 1].previous)
             y == all[i]
  <2>1. y = [bytes |-> w, previous |-> q]
    BY <1>11 DEF Turn
  <2> HIDE DEF w, q, y
  <2>2. y.bytes = w /\ y.previous = q
    BY <2>1
  <2> QED BY <2>2 DEF w, q, y
<1> QED BY <1>0, <1>1, <1>15, <1>16, <1>17 DEF n

Pieces(events) == [i \in 1 .. Len(events) |-> Written(events[i], Encoded(events)[i - 1].previous)]
Behind(events) == [i \in 0 .. Len(events) |-> Encoded(events)[i].bytes]

\* The bytes of a track grow by the bytes of its events.
LEMMA TrackGrows ==
  ASSUME NEW events \in Seq(Events)
  PROVE  /\ Grows(Octet, Behind(events), Pieces(events), Len(events))
         /\ Behind(events)[Len(events)] = TrackBytes(events) /\ TrackBytes(events) \in Seq(Octet)
<1>0. Len(events) \in Nat /\ \A i \in 1 .. Len(events) : events[i] \in Events
  OBVIOUS
<1>1. \A i \in 0 .. Len(events) : Behind(events)[i] = Encoded(events)[i].bytes /\ Behind(events)[i] \in Seq(Octet)
  BY EncodedGives DEF Behind
<1>2. ASSUME NEW i \in 1 .. Len(events)
      PROVE  Pieces(events)[i] \in Seq(Octet) /\ Behind(events)[i] = Behind(events)[i - 1] \o Pieces(events)[i]
  <2>1. i \in 0 .. Len(events) /\ i - 1 \in 0 .. Len(events)
    BY <1>0
  <2>2. Pieces(events)[i] = Written(events[i], Encoded(events)[i - 1].previous)
    BY DEF Pieces
  <2>3. Encoded(events)[i - 1].previous \in Identifiers
    BY <2>1, EncodedGives
  <2>4. Pieces(events)[i] \in Seq(Octet)
    BY <1>0, <2>2, <2>3, WrittenGives
  <2>5. Behind(events)[i] = Encoded(events)[i].bytes /\ Behind(events)[i - 1] = Encoded(events)[i - 1].bytes
    BY <1>1, <2>1
  <2>6. Encoded(events)[i].bytes = Encoded(events)[i - 1].bytes \o Written(events[i], Encoded(events)[i - 1].previous)
    BY EncodedGives
  <2> QED BY <2>2, <2>4, <2>5, <2>6, Zenon
<1>3. Len(events) \in 0 .. Len(events)
  BY <1>0
<1> QED BY <1>1, <1>2, <1>3 DEF Grows, TrackBytes

\* What a track's magic number, its size and its bytes look like in the file
LEMMA TrackChunkGives ==
  ASSUME NEW events \in Seq(Events), Len(TrackBytes(events)) \in Sizes
  PROVE  /\ Len(TrackBytes(events)) \in Nat
         /\ TrackChunk(events) \in Seq(Octet) /\ Len(TrackChunk(events)) = 8 + Len(TrackBytes(events))
         /\ \A i \in 1 .. 4 : TrackChunk(events)[i] = MagicTrackHeader[i]
         /\ TrackChunk(events)[7] * 256 + TrackChunk(events)[8] = Len(TrackBytes(events))
         /\ \A i \in 1 .. Len(TrackBytes(events)) : TrackChunk(events)[8 + i] = TrackBytes(events)[i]
<1> DEFINE b == TrackBytes(events)
           n == Len(b)
           h == n \div 256
           l == n % 256
           m == MagicTrackHeader
           z == <<0, 0, h, l>>
<1>1. b \in Seq(Octet) /\ n \in Sizes
  BY TrackGrows
<1>2. TrackChunk(events) = (m \o z) \o b
  BY DEF TrackChunk, Int32
<1> HIDE DEF b, n
<1>0. n \in Nat /\ n < 65536
  BY <1>1 DEF Sizes
<1>3. h \in Octet /\ l \in Octet /\ h * 256 + l = n
  BY <1>0 DEF Octet
<1> HIDE DEF h, l
<1>4. m \in Seq(Octet) /\ Len(m) = 4
  BY DEF MagicTrackHeader, Octet
<1>5. z \in Seq(Octet) /\ Len(z) = 4 /\ z[3] = h /\ z[4] = l
  <2>1. 0 \in Octet
    BY DEF Octet
  <2> QED BY <1>3, <2>1
<1> HIDE DEF m, z
<1> DEFINE c == m \o z
<1>6. /\ c \in Seq(Octet) /\ Len(c) = 8
      /\ \A i \in 1 .. 4 : c[i] = m[i]
      /\ \A i \in 1 .. 4 : c[4 + i] = z[i]
  <2>1. /\ m \o z \in Seq(Octet) /\ Len(m \o z) = Len(m) + Len(z) /\ Len(m) \in Nat /\ Len(z) \in Nat
        /\ \A i \in 1 .. Len(m) : (m \o z)[i] = m[i]
        /\ \A i \in 1 .. Len(z) : Len(m) + i \in Nat /\ (m \o z)[Len(m) + i] = z[i]
    <3>1. m \in Seq(Octet) /\ z \in Seq(Octet)
      BY <1>4, <1>5
    <3> QED BY <3>1, PartsGive
  <2>2. Len(m) + Len(z) = 8
    BY <1>4, <1>5
  <2> HIDE DEF c
  <2>3. /\ c \in Seq(Octet) /\ Len(c) = Len(m) + Len(z)
        /\ \A i \in 1 .. Len(m) : c[i] = m[i]
        /\ \A i \in 1 .. Len(z) : c[Len(m) + i] = z[i]
    BY <2>1 DEF c
  <2> QED BY <1>4, <1>5, <2>2, <2>3
<1>7. c[7] = h /\ c[8] = l
  <2>1. 3 \in 1 .. 4 /\ 4 \in 1 .. 4 /\ 4 + 3 = 7 /\ 4 + 4 = 8
    OBVIOUS
  <2> QED BY <1>5, <1>6, <2>1
<1> DEFINE w == c \o b
<1>8. TrackChunk(events) = w
  BY <1>2
<1> HIDE DEF c
<1>9. /\ w \in Seq(Octet) /\ Len(w) = 8 + n
      /\ \A i \in 1 .. 8 : w[i] = c[i]
      /\ \A i \in 1 .. n : w[8 + i] = b[i]
  <2>1. /\ c \o b \in Seq(Octet) /\ Len(c \o b) = Len(c) + Len(b) /\ Len(c) \in Nat /\ Len(b) \in Nat
        /\ \A i \in 1 .. Len(c) : (c \o b)[i] = c[i]
        /\ \A i \in 1 .. Len(b) : Len(c) + i \in Nat /\ (c \o b)[Len(c) + i] = b[i]
    <3>1. c \in Seq(Octet) /\ b \in Seq(Octet)
      BY <1>1, <1>6
    <3> QED BY <3>1, PartsGive
  <2> HIDE DEF w
  <2>2. /\ w \in Seq(Octet) /\ Len(w) = Len(c) + n
        /\ \A i \in 1 .. Len(c) : w[i] = c[i]
        /\ \A i \in 1 .. n : w[Len(c) + i] = b[i]
    BY <2>1 DEF n, w
  <2> QED BY <1>6, <2>2
<1> HIDE DEF w
<1>10. \A i \in 1 .. 4 : i \in 1 .. 8 /\ w[i] = m[i]
  BY <1>6, <1>9
<1>11. w[7] * 256 + w[8] = n
  BY <1>3, <1>7, <1>9
<1> QED BY <1>0, <1>8, <1>9, <1>10, <1>11 DEF b, n, m

Layout(tracks, f) ==
  f = [t \in 0 .. Len(tracks) |->
         IF t = 0 THEN [i \in 1 .. HeaderSize |-> 0] ELSE f[t - 1] \o TrackChunk(tracks[t])]

LEMMA SongsGive ==
  ASSUME NEW tracks \in Songs
  PROVE  /\ tracks \in Seq(Seq(Events)) /\ Len(tracks) \in Nat /\ Len(tracks) >= 1
         /\ \A t \in 1 .. Len(tracks) : tracks[t] \in Seq(Events) /\ Len(TrackBytes(tracks[t])) \in Sizes
<1>1. tracks \in Seq(Seq(Events)) /\ tracks # << >> /\ \A t \in DOMAIN tracks : Len(TrackBytes(tracks[t])) \in Sizes
  BY MidiAssumption
<1> DEFINE E == Seq(Events)
<1>2. tracks \in Seq(E)
  BY <1>1
<1> HIDE DEF E
<1>3. Len(tracks) \in Nat /\ DOMAIN tracks = 1 .. Len(tracks) /\ Len(tracks) >= 1 /\ \A t \in 1 .. Len(tracks) : tracks[t] \in E
  BY <1>1, <1>2
<1>4. \A t \in 1 .. Len(tracks) : Len(TrackBytes(tracks[t])) \in Sizes
  <2>1. \A t \in 1 .. Len(tracks) : t \in DOMAIN tracks
    BY <1>3
  <2> QED BY <1>1, <2>1, Zenon
<1> QED BY <1>2, <1>3, <1>4 DEF E

TrackChunks(tracks) == [t \in 1 .. Len(tracks) |-> TrackChunk(tracks[t])]

\* The file grows by its tracks.
LEMMA FileGrows ==
  ASSUME NEW tracks \in Songs
  PROVE  /\ Grows(Octet, FileTo(tracks), TrackChunks(tracks), Len(tracks))
         /\ FileTo(tracks)[0] \in Seq(Octet) /\ Len(FileTo(tracks)[0]) = HeaderSize
<1> DEFINE n == Len(tracks)
           S == Seq(Octet)
           start == [i \in 1 .. HeaderSize |-> 0]
           p == TrackChunks(tracks)
           Turn(y, i) == y \o TrackChunk(tracks[i])
           step == [i \in Nat |-> [y \in S |-> IF i \in 1 .. n THEN Turn(y, i) ELSE y]]
           all == CHOOSE f : Layout(tracks, f)
<1>0. n \in Nat /\ \A i \in 1 .. n : TrackChunk(tracks[i]) \in Seq(Octet)
  BY SongsGive, TrackChunkGives
<1>1. FileTo(tracks) = all
  BY Zenon DEF FileTo, Layout
<1>2. ASSUME NEW y \in S, NEW i \in 1 .. n PROVE Turn(y, i) \in S
  BY <1>0, PartsGive
<1>3. start \in S /\ Len(start) = HeaderSize
  <2>1. HeaderSize \in Nat /\ 0 \in Octet
    BY DEF HeaderSize, Octet
  <2> QED BY <2>1
<1> HIDE DEF Turn, start, S
<1>4. step \in [Nat -> [S -> S]]
  BY <1>2
<1> HIDE DEF step, n
<1>5. PICK g \in [0 .. n -> S] : g[0] = start /\ \A i \in 1 .. n : g[i] = step[i][g[i - 1]]
  <2>1. Runs(S, step, start, n)
    BY <1>0, <1>3, <1>4, LoopRuns
  <2> QED BY <2>1 DEF Runs
<1>6. ASSUME NEW i \in 0 .. n PROVE g[i] = IF i = 0 THEN start ELSE Turn(g[i - 1], i)
  <2>1. CASE i = 0
    BY <1>5, <2>1
  <2>2. CASE i # 0
    <3>1. i \in 1 .. n /\ i - 1 \in 0 .. n /\ i \in Nat
      BY <1>0, <2>2
    <3>2. g[i] = step[i][g[i - 1]] /\ g[i - 1] \in S
      BY <1>5, <3>1
    <3>3. step[i][g[i - 1]] = Turn(g[i - 1], i)
      BY <3>1, <3>2 DEF step
    <3> QED BY <2>2, <3>2, <3>3
  <2> QED BY <2>1, <2>2
<1>7. g = [i \in 0 .. n |-> IF i = 0 THEN start ELSE Turn(g[i - 1], i)]
  BY <1>5, <1>6
<1>8. Layout(tracks, g)
  BY <1>7 DEF Layout, Turn, n, start
<1>9. Layout(tracks, all)
  BY <1>8, Zenon
<1> HIDE DEF all
<1>10. all = [i \in 0 .. n |-> IF i = 0 THEN start ELSE Turn(all[i - 1], i)]
  BY <1>9 DEF Layout, Turn, n, start
<1>11. all[0] = start /\ \A i \in 1 .. n : all[i] = Turn(all[i - 1], i)
  <2>1. \A i \in 0 .. n : all[i] = IF i = 0 THEN start ELSE Turn(all[i - 1], i)
    BY <1>10
  <2>2. 0 \in 0 .. n /\ \A i \in 1 .. n : i \in 0 .. n /\ i # 0
    BY <1>0
  <2> QED BY <2>1, <2>2
<1> DEFINE N == {i \in Nat : i <= n => all[i] \in S}
<1>12. 0 \in N
  BY <1>3, <1>11
<1>13. ASSUME NEW i \in N PROVE i + 1 \in N
  <2> SUFFICES ASSUME i + 1 <= n PROVE all[i + 1] \in S
    OBVIOUS
  <2>1. i + 1 \in 1 .. n /\ (i + 1) - 1 = i /\ i <= n
    BY <1>0
  <2>2. all[i + 1] = Turn(all[i], i + 1) /\ all[i] \in S
    BY <1>11, <2>1
  <2> QED BY <1>2, <2>1, <2>2
<1>14. \A i \in 0 .. n : all[i] \in S
  <2>1. N \subseteq Nat
    OBVIOUS
  <2>2. \A i \in 0 .. n : i \in Nat /\ i <= n
    BY <1>0
  <2>3. \A i \in N : i <= n => all[i] \in S
    OBVIOUS
  <2> HIDE DEF N
  <2>4. Nat \subseteq N
    BY <1>12, <1>13, <2>1, NatSetInduction
  <2> QED BY <2>2, <2>3, <2>4
<1>15. ASSUME NEW i \in 1 .. n PROVE p[i] \in S /\ all[i] = all[i - 1] \o p[i]
  <2>1. p[i] = TrackChunk(tracks[i])
    BY DEF TrackChunks, n
  <2>2. all[i] = all[i - 1] \o TrackChunk(tracks[i])
    BY <1>11 DEF Turn
  <2> QED BY <1>0, <2>1, <2>2 DEF S
<1> HIDE DEF p
<1>16. all[0] \in S /\ Len(all[0]) = HeaderSize
  BY <1>3, <1>11
<1> QED BY <1>1, <1>14, <1>15, <1>16, Zenon DEF Grows, n, S, p

\* The file is the one that was written from the song.
SongStored == song \in Songs /\ stored = File(song)

USE DEF SongStored

\* The file is bytes, and bytes stand behind it.
LEMMA StoredGives ==
  ASSUME SongStored
  PROVE  /\ FileLength = Len(FileTo(song)[Len(song)]) /\ FileLength \in Nat
         /\ \A q \in Nat : Byte(q) \in Octet /\ (q < FileLength => Byte(q) = FileTo(song)[Len(song)][q + 1])
<1> DEFINE f == FileTo(song)[Len(song)]
<1>1. f \in Seq(Octet)
  <2>1. Len(song) \in 0 .. Len(song)
    BY SongsGive
  <2> QED BY <2>1, FileGrows DEF Grows
<1>2. stored = f
  BY DEF File
<1> HIDE DEF f
<1>3. FileLength = Len(f) /\ FileLength \in Nat
  BY <1>1, <1>2 DEF FileLength
<1>4. ASSUME NEW q \in Nat
      PROVE  Byte(q) \in Octet /\ (q < FileLength => Byte(q) = f[q + 1])
  <2>1. CASE q < FileLength
    <3>1. q + 1 \in 1 .. Len(f) /\ Byte(q) = f[q + 1]
      BY <1>2, <1>3, <2>1 DEF Byte
    <3> QED BY <1>1, <3>1
  <2>2. CASE ~(q < FileLength)
    <3>1. Byte(q) = 255
      BY <2>2 DEF Byte
    <3> QED BY <2>2, <3>1 DEF Octet
  <2> QED BY <2>1, <2>2
<1> QED BY <1>3, <1>4 DEF f

\* What ReadInteger() gives of a number that ends
LEMMA IntegerGives ==
  ASSUME SongStored, NEW p \in Nat, ~Endless(p)
  PROVE  ReadInteger(p).value \in Nat /\ ReadInteger(p).end \in Nat /\ ReadInteger(p).end >= p + 1
<1> DEFINE S == Ends(p)
           z == Min(S)
           Group(i) == IF z - i >= p THEN Byte(z - i) % 128 ELSE 0
<1>0. FileLength \in Nat /\ \A q \in Nat : Byte(q) \in Octet
  BY StoredGives
<1>1. S \subseteq Nat /\ S # {} /\ \A q \in S : q >= p
  BY <1>0 DEF Ends, Endless
<1>2. z \in S
  <2> HIDE DEF S
  <2> QED BY <1>1, LeastOf
<1>3. z \in Nat /\ z >= p
  BY <1>1, <1>2
<1>4. /\ ReadInteger(p).end = z + 1
      /\ ReadInteger(p).value = Group(2) * 16384 + Group(1) * 128 + Group(0)
  BY DEF ReadInteger
<1> HIDE DEF z
<1>5. ASSUME NEW i \in Nat PROVE Group(i) \in Nat
  <2>1. CASE z - i >= p
    <3>1. z - i \in Nat
      BY <1>3, <2>1
    <3>2. Byte(z - i) \in Nat
      BY <1>0, <3>1 DEF Octet
    <3>3. \A x \in Nat : x % 128 \in Nat
      OBVIOUS
    <3> QED BY <2>1, <3>2, <3>3
  <2>2. CASE ~(z - i >= p)
    BY <2>2
  <2> QED BY <2>1, <2>2
<1>6. Group(0) \in Nat /\ Group(1) \in Nat /\ Group(2) \in Nat
  BY <1>5
<1> HIDE DEF Group
<1> QED BY <1>3, <1>4, <1>6

\* Where a track starts
Begin(t) == Len(FileTo(song)[t])

\* A track is where the ones before it end, and ReadTrack() finds its size and its bytes.
LEMMA TrackStands ==
  ASSUME SongStored, NEW t \in Nat, t < TrackCount
  PROVE  /\ Begin(t) \in Nat /\ Begin(0) = HeaderSize /\ song[t + 1] \in Seq(Events)
         /\ Len(TrackBytes(song[t + 1])) \in Nat
         /\ Begin(t + 1) = Begin(t) + 8 + Len(TrackBytes(song[t + 1]))
         /\ Begin(t) + 8 + Len(TrackBytes(song[t + 1])) <= FileLength
         /\ \A index : ReadTrack(Begin(t), index) =
              [index |-> index, size |-> Len(TrackBytes(song[t + 1])), position |-> Begin(t) + 8, previous |-> 0]
         /\ Stands(Begin(t) + 8, TrackBytes(song[t + 1]))
<1> DEFINE n == Len(song)
           f == FileTo(song)
           p == TrackChunks(song)
           b == TrackBytes(song[t + 1])
           c == TrackChunk(song[t + 1])
           a == Begin(t)
<1>0. n \in Nat /\ t + 1 \in 1 .. n /\ (t + 1) - 1 = t
  BY SongsGive DEF TrackCount
<1>1. song[t + 1] \in Seq(Events) /\ Len(b) \in Sizes
  BY <1>0, SongsGive
<1>2. /\ Len(b) \in Nat /\ c \in Seq(Octet) /\ Len(c) = 8 + Len(b)
      /\ c[7] * 256 + c[8] = Len(b)
      /\ \A i \in 1 .. Len(b) : c[8 + i] = b[i]
  BY <1>1, TrackChunkGives
<1>3. Grows(Octet, f, p, n) /\ Begin(0) = HeaderSize
  BY FileGrows DEF Begin
<1>4. p[t + 1] = c
  BY <1>0 DEF TrackChunks
<1>5. /\ Len(f[t]) \in Nat /\ Len(f[t + 1]) = Len(f[t]) + Len(p[t + 1]) /\ Len(f[t + 1]) <= Len(f[n])
      /\ \A i \in 1 .. Len(p[t + 1]) : f[n][Len(f[t]) + i] = p[t + 1][i]
  <2>1. /\ Len(f[(t + 1) - 1]) \in Nat /\ Len(f[t + 1]) = Len(f[(t + 1) - 1]) + Len(p[t + 1])
        /\ Len(f[t + 1]) <= Len(f[n])
        /\ \A i \in 1 .. Len(p[t + 1]) : f[n][Len(f[(t + 1) - 1]) + i] = p[t + 1][i]
    <3> DEFINE k == t + 1
    <3>1. n \in Nat /\ k \in 1 .. n /\ Grows(Octet, f, p, n)
      BY <1>0, <1>3
    <3> HIDE DEF f, p, n, k
    <3>2. PieceStays(f, p, n, k)
      BY <3>1, GrowingHas
    <3> QED BY <3>2 DEF PieceStays, k
  <2> HIDE DEF f, p, n
  <2> QED BY <1>0, <2>1
<1>6. /\ a = Len(f[t]) /\ Begin(t + 1) = Len(f[t + 1]) /\ FileLength = Len(f[n]) /\ FileLength \in Nat
      /\ \A q \in Nat : q < FileLength => Byte(q) = f[n][q + 1]
  BY StoredGives DEF Begin
<1> HIDE DEF a, b, c, f, p, n
<1>7. a \in Nat /\ Begin(t + 1) = a + 8 + Len(b) /\ a + 8 + Len(b) <= FileLength
  <2>1. Len(p[t + 1]) = 8 + Len(b) /\ Len(b) \in Nat
    BY <1>2, <1>4
  <2>2. a \in Nat /\ Begin(t + 1) = a + Len(p[t + 1]) /\ a + Len(p[t + 1]) <= FileLength
    BY <1>5, <1>6
  <2> QED BY <2>1, <2>2
<1>8. ASSUME NEW i \in 1 .. 8 + Len(b) PROVE Byte(a + i - 1) = c[i]
  <2>1. (a + i - 1) + 1 = a + i /\ a + i - 1 \in Nat /\ a + i - 1 < FileLength
    BY <1>2, <1>6, <1>7
  <2>2. f[n][a + i] = c[i]
    BY <1>2, <1>4, <1>5, <1>6
  <2> QED BY <1>6, <2>1, <2>2
<1>9. Byte(a + 6) = c[7] /\ Byte(a + 7) = c[8]
  <2>1. 7 \in 1 .. 8 + Len(b) /\ 8 \in 1 .. 8 + Len(b) /\ a + 7 - 1 = a + 6 /\ a + 8 - 1 = a + 7
    BY <1>2, <1>7
  <2> QED BY <1>8, <2>1
<1>10. \A index : ReadTrack(a, index) = [index |-> index, size |-> Len(b), position |-> a + 8, previous |-> 0]
  BY <1>2, <1>9 DEF ReadTrack
<1>11. ASSUME NEW i \in 1 .. Len(b) PROVE Byte((a + 8) + i - 1) = b[i]
  <2>1. 8 + i \in 1 .. 8 + Len(b) /\ a + (8 + i) - 1 = (a + 8) + i - 1
    BY <1>2, <1>7
  <2>2. Byte(a + (8 + i) - 1) = c[8 + i]
    BY <1>8, <2>1
  <2> QED BY <1>2, <2>1, <2>2
<1>12. Stands(a + 8, b)
  BY <1>11 DEF Stands
<1> QED BY <1>1, <1>2, <1>3, <1>7, <1>10, <1>12 DEF a, b

\* The events of a track stand one behind the other.
LEMMA EventStands ==
  ASSUME NEW ev \in Seq(Events), NEW p \in Nat, Stands(p, TrackBytes(ev)), NEW k \in 1 .. Len(ev)
  PROVE  /\ Len(Encoded(ev)[k - 1].bytes) \in Nat
         /\ Encoded(ev)[k - 1].previous \in Identifiers /\ ev[k] \in Events
         /\ Encoded(ev)[k].previous = Repeated(ev[k], Encoded(ev)[k - 1].previous)
         /\ Len(Encoded(ev)[k].bytes) = Len(Encoded(ev)[k - 1].bytes) + Len(Written(ev[k], Encoded(ev)[k - 1].previous))
         /\ Len(Encoded(ev)[k].bytes) <= Len(TrackBytes(ev))
         /\ Stands(p + Len(Encoded(ev)[k - 1].bytes), Written(ev[k], Encoded(ev)[k - 1].previous))
<1> DEFINE n == Len(ev)
           f == Behind(ev)
           q == Pieces(ev)
           w == Written(ev[k], Encoded(ev)[k - 1].previous)
           s == Len(f[k - 1])
<1>0. n \in Nat /\ k \in 0 .. n /\ k - 1 \in 0 .. n /\ ev[k] \in Events
  OBVIOUS
<1>1. Grows(Octet, f, q, n) /\ f[n] = TrackBytes(ev)
  BY TrackGrows
<1>2. q[k] = w /\ f[k] = Encoded(ev)[k].bytes /\ f[k - 1] = Encoded(ev)[k - 1].bytes
  BY <1>0 DEF Pieces, Behind
<1>3. Encoded(ev)[k - 1].previous \in Identifiers /\ Encoded(ev)[k].previous = Repeated(ev[k], Encoded(ev)[k - 1].previous)
  BY <1>0, EncodedGives
<1>4. /\ s \in Nat /\ Len(q[k]) \in Nat /\ Len(f[n]) \in Nat
      /\ Len(f[k]) = s + Len(q[k]) /\ Len(f[k]) <= Len(f[n])
      /\ \A i \in 1 .. Len(q[k]) : f[n][s + i] = q[k][i]
  <2>1. k \in 1 .. n
    OBVIOUS
  <2> HIDE DEF f, q, n
  <2>2. PieceStays(f, q, n, k)
    BY <1>0, <1>1, <2>1, GrowingHas
  <2> QED BY <2>2 DEF PieceStays
<1>5. \A i \in 1 .. Len(f[n]) : Byte(p + i - 1) = f[n][i]
  BY <1>1 DEF Stands
<1> HIDE DEF f, q, n, w, s
<1>6. ASSUME NEW i \in 1 .. Len(w) PROVE Byte((p + s) + i - 1) = w[i]
  <2>1. s + i \in 1 .. Len(f[n]) /\ p + (s + i) - 1 = (p + s) + i - 1
    <3> DEFINE x == Len(w)
               z == Len(f[n])
    <3>1. s \in Nat /\ x \in Nat /\ z \in Nat /\ s + x <= z
      BY <1>2, <1>4, Zenon
    <3>2. i \in 1 .. x
      OBVIOUS
    <3> HIDE DEF x, z
    <3> QED BY <3>1, <3>2 DEF z
  <2>2. Byte(p + (s + i) - 1) = f[n][s + i]
    BY <1>5, <2>1
  <2> QED BY <1>2, <1>4, <2>1, <2>2
<1>7. Stands(p + s, w)
  BY <1>6 DEF Stands
<1>8. s = Len(Encoded(ev)[k - 1].bytes)
  BY <1>2 DEF s
<1> QED BY <1>0, <1>1, <1>2, <1>3, <1>4, <1>7, <1>8 DEF w

\* BytesFrom() gives what stands there.
LEMMA BytesGive ==
  ASSUME NEW s \in Seq(Octet), NEW p \in Nat, Stands(p, s)
  PROVE  BytesFrom(p, Len(s)) = s
<1>1. \A i \in 1 .. Len(s) : Byte(p + i - 1) = s[i]
  BY DEF Stands
<1>2. s = [i \in 1 .. Len(s) |-> s[i]]
  OBVIOUS
<1> QED BY <1>1, <1>2 DEF BytesFrom

\* ReadEvent() gives the event that was written, goes behind it and keeps the identifier to
\* repeat; it does not stop at an identifier that is not implemented.
LEMMA MetaReads ==
  ASSUME FileLength \in Nat, NEW e \in Events, NEW previous \in Identifiers, NEW p \in Nat, Stands(p, Written(e, previous)),
         p + Len(Written(e, previous)) <= FileLength, track.previous = previous, e.id = Meta
  PROVE  /\ Parsed(p).event = e /\ Parsed(p).end = p + Len(Written(e, previous))
         /\ Parsed(p).previous = Repeated(e, previous)
         /\ Complete(p) /\ ~Hangs(p)
<1> DEFINE w == Number(e.delta)
           m == Named(e, previous)
           l == Number(Len(e.data))
           d == p + Len(w)
           delta == ReadInteger(p)
           length == ReadInteger(d + 2)
           t == <<Meta, e.type>>
<1>1. /\ Len(Written(e, previous)) = Len(w) + Len(m) + Len(e.data) /\ Len(w) \in {1, 2} /\ Len(m) \in Nat
      /\ Stands(p, w) /\ Stands(p + Len(w), m) /\ Stands(p + Len(w) + Len(m), e.data)
  BY WrittenGives
<1>2. /\ e.delta \in Numbers /\ e.data \in Seq(Octet) /\ Len(e.data) \in Nat /\ Len(e.data) \in Numbers /\ e.type \in Octet
      /\ e = [delta |-> e.delta, id |-> e.id, type |-> e.type, data |-> e.data]
  BY EventGives
<1>3. delta.value = e.delta /\ delta.end = d /\ ~Endless(p)
  <2>1. p + Len(w) <= FileLength
    BY <1>1, <1>2
  <2> QED BY <1>1, <1>2, <2>1, ReadsNumber
<1>4. l \in Seq(Octet) /\ Len(l) \in {1, 2}
  BY <1>2, NumberGives
<1>5. m = t \o l
  BY DEF Named
<1>6. t \in Seq(Octet) /\ Len(t) = 2 /\ t[1] = Meta /\ t[2] = e.type
  BY <1>2 DEF Meta, Octet
<1>7. d \in Nat /\ d + Len(m) + Len(e.data) <= FileLength
  BY <1>1, <1>2
<1> HIDE DEF w, m, l, d, t
<1>8. /\ Len(m) = 2 + Len(l) /\ m[1] = Meta /\ m[2] = e.type
      /\ \A i \in 1 .. Len(l) : 2 + i \in Nat /\ m[2 + i] = l[i]
  <2>1. /\ t \o l \in Seq(Octet) /\ Len(t \o l) = Len(t) + Len(l) /\ Len(t) \in Nat /\ Len(l) \in Nat
        /\ \A i \in 1 .. Len(t) : (t \o l)[i] = t[i]
        /\ \A i \in 1 .. Len(l) : Len(t) + i \in Nat /\ (t \o l)[Len(t) + i] = l[i]
    <3>1. t \in Seq(Octet) /\ l \in Seq(Octet)
      BY <1>4, <1>6
    <3> QED BY <3>1, PartsGive
  <2>2. /\ m \in Seq(Octet) /\ Len(m) = Len(t) + Len(l)
        /\ \A i \in 1 .. Len(t) : m[i] = t[i]
        /\ \A i \in 1 .. Len(l) : Len(t) + i \in Nat /\ m[Len(t) + i] = l[i]
    BY <1>5, <2>1
  <2> QED BY <1>6, <2>2
<1>9. \A i \in 1 .. Len(m) : Byte(d + i - 1) = m[i]
  BY <1>1 DEF Stands, d
<1>10. Byte(d) = Meta /\ Byte(d + 1) = e.type
  <2>1. 1 \in 1 .. Len(m) /\ 2 \in 1 .. Len(m) /\ d + 1 - 1 = d /\ d + 2 - 1 = d + 1
    BY <1>4, <1>7, <1>8
  <2> QED BY <1>8, <1>9, <2>1
<1>11. ASSUME NEW i \in 1 .. Len(l) PROVE Byte((d + 2) + i - 1) = l[i]
  <2>1. 2 + i \in 1 .. Len(m) /\ d + (2 + i) - 1 = (d + 2) + i - 1
    BY <1>4, <1>7, <1>8
  <2>2. Byte(d + (2 + i) - 1) = m[2 + i]
    BY <1>9, <2>1
  <2> QED BY <1>8, <2>1, <2>2
<1>12. Stands(d + 2, l)
  BY <1>11 DEF Stands
<1>13. length.value = Len(e.data) /\ length.end = (d + 2) + Len(l) /\ ~Endless(d + 2)
  <2>1. (d + 2) + Len(l) <= FileLength /\ d + 2 \in Nat
    BY <1>2, <1>4, <1>7, <1>8
  <2> HIDE DEF length
  <2> QED BY <1>2, <1>12, <2>1, ReadsNumber DEF l, length
<1>14. length.end = p + Len(w) + Len(m) /\ length.end \in Nat
  BY <1>1, <1>4, <1>8, <1>13 DEF d
<1>15. BytesFrom(length.end, length.value) = e.data
  <2>1. Stands(length.end, e.data)
    BY <1>1, <1>14
  <2> HIDE DEF length
  <2> QED BY <1>2, <1>13, <1>14, <2>1, BytesGive
<1>16. (d + 1) + 1 = d + 2
  BY <1>7
<1>17. ParseMeta(delta.value, delta.end + 1) =
         [event |-> [delta |-> e.delta, id |-> Meta, type |-> e.type, data |-> e.data],
          end |-> p + Len(Written(e, previous)), previous |-> previous]
  <2>1. ParseMeta(e.delta, d + 1) =
          [event |-> [delta |-> e.delta, id |-> Meta, type |-> Byte(d + 1), data |-> BytesFrom(length.end, length.value)],
           end |-> length.end + length.value, previous |-> track.previous]
    BY <1>16, Zenon DEF ParseMeta
  <2> HIDE DEF length
  <2>2. length.end + length.value = p + Len(Written(e, previous))
    <3>1. Len(e.data) \in Nat /\ Len(w) \in Nat /\ Len(m) \in Nat
      BY <1>1, <1>2
    <3>2. length.value = Len(e.data) /\ length.end = p + Len(w) + Len(m)
      BY <1>13, <1>14
    <3>3. Len(Written(e, previous)) = Len(w) + Len(m) + Len(e.data)
      BY <1>1
    <3> DEFINE x == Len(w)
               y == Len(m)
               z == Len(e.data)
    <3>4. x \in Nat /\ y \in Nat /\ z \in Nat
      BY <3>1
    <3> HIDE DEF x, y, z
    <3>5. (p + x + y) + z = p + (x + y + z)
      BY <3>4
    <3> QED BY <3>2, <3>3, <3>5, Zenon DEF x, y, z
  <2> QED BY <1>3, <1>10, <1>15, <2>1, <2>2
<1>18. Parsed(p) = ParseMeta(delta.value, delta.end + 1)
  <2>1. Byte(delta.end) = Meta
    BY <1>3, <1>10
  <2> QED BY <2>1, Zenon DEF Parsed
<1>19. Repeated(e, previous) = previous
  BY Zenon DEF Repeated
<1>21. Identifier(p) = d
  BY <1>3 DEF Identifier
<1> HIDE DEF delta, length
<1> DEFINE end == p + Len(Written(e, previous))
<1> HIDE DEF end
<1>20. Parsed(p) = [event |-> e, end |-> end, previous |-> previous]
  BY <1>2, <1>17, <1>18 DEF end
<1>22. d + 1 < FileLength /\ d < FileLength /\ Meta \in Octet
  BY <1>2, <1>4, <1>7, <1>8 DEF Meta, Octet
<1>23. ~Hangs(p)
  BY <1>3, <1>13, <1>21 DEF Hangs
<1>24. Parsed(p).end <= FileLength
  BY <1>20 DEF end
<1>25. Complete(p)
  BY <1>3, <1>10, <1>21, <1>22, <1>23, <1>24 DEF Complete, Identified
<1> QED BY <1>19, <1>20, <1>23, <1>25 DEF end

LEMMA ChannelReads ==
  ASSUME FileLength \in Nat, NEW e \in Events, NEW previous \in Identifiers, NEW p \in Nat, Stands(p, Written(e, previous)),
         p + Len(Written(e, previous)) <= FileLength, track.previous = previous, e.id # Meta
  PROVE  /\ e.id \in SysEx => Identified(p, SysEx)
         /\ ~Hangs(p)
         /\ e.id \notin SysEx => /\ Parsed(p).event = e /\ Parsed(p).end = p + Len(Written(e, previous))
                                 /\ Parsed(p).previous = Repeated(e, previous)
                                 /\ Complete(p)
<1> DEFINE w == Number(e.delta)
           m == Named(e, previous)
           d == p + Len(w)
           delta == ReadInteger(p)
           q == Parameters(e.id)
<1>1. /\ Len(Written(e, previous)) = Len(w) + Len(m) + Len(e.data) /\ Len(w) \in {1, 2} /\ Len(m) \in Nat
      /\ Stands(p, w) /\ Stands(p + Len(w), m) /\ Stands(p + Len(w) + Len(m), e.data)
  BY WrittenGives
<1>2. /\ e.delta \in Numbers /\ e.data \in Seq(Octet) /\ Len(e.data) \in Nat /\ e.id \in SysEx \cup 128 .. 239
      /\ e = [delta |-> e.delta, id |-> e.id, type |-> e.type, data |-> e.data]
  BY EventGives
<1>3. delta.value = e.delta /\ delta.end = d /\ ~Endless(p)
  <2>1. p + Len(w) <= FileLength
    BY <1>1, <1>2
  <2> QED BY <1>1, <1>2, <2>1, ReadsNumber
<1>4. m = IF e.id = previous THEN << >> ELSE <<e.id>>
  BY DEF Named
<1>5. d \in Nat
  BY <1>1
<1>6. Parsed(p) = IF Byte(d) = Meta THEN ParseMeta(delta.value, delta.end + 1) ELSE ParseChannel(e.delta, d)
  BY <1>3 DEF Parsed
<1>8. Len(Written(e, previous)) = Len(w) + Len(m) + Len(e.data) /\ Stands(d, m) /\ Stands(d + Len(m), e.data)
  BY <1>1
<1>16. Identifier(p) = d /\ d + Len(m) + Len(e.data) <= FileLength
  <2>1. d + Len(m) + Len(e.data) = p + Len(Written(e, previous))
    BY <1>1, <1>2
  <2> HIDE DEF d
  <2> QED BY <1>3, <2>1 DEF Identifier
<1> HIDE DEF w, d, delta, m
<1>17. CASE e.id \in SysEx
  <2>1. e.id # previous /\ Meta \notin SysEx
    BY <1>17 DEF Identifiers, SysEx, Meta
  <2> DEFINE s == <<e.id>>
  <2>2. m = s /\ Len(s) = 1 /\ s[1] = e.id
    BY <1>4, <2>1
  <2> HIDE DEF s
  <2>3. Byte(d) = e.id /\ d < FileLength
    <3>1. \A i \in 1 .. Len(m) : Byte(d + i - 1) = m[i]
      BY <1>8 DEF Stands
    <3>2. 1 \in 1 .. Len(m) /\ d + 1 - 1 = d
      BY <1>5, <2>2
    <3>3. d < FileLength
      BY <1>2, <1>5, <1>16, <2>2
    <3> QED BY <2>2, <3>1, <3>2, <3>3
  <2>4. Identified(p, SysEx) /\ ~Identified(p, {Meta})
    BY <1>3, <1>16, <1>17, <2>1, <2>3 DEF Identified
  <2>5. ~Hangs(p)
    BY <1>3, <2>4 DEF Hangs
  <2> QED BY <1>17, <2>4, <2>5
<1>18. SUFFICES ASSUME e.id \notin SysEx
                PROVE  /\ Parsed(p).event = e /\ Parsed(p).end = p + Len(Written(e, previous))
                       /\ Parsed(p).previous = Repeated(e, previous)
                       /\ Complete(p) /\ ~Hangs(p)
  BY <1>17
<1>7. e.id \in 128 .. 239
  BY <1>2, <1>18
<1> DEFINE f == IF e.id = previous THEN d ELSE d + 1
           b == BytesFrom(f, q)
<1>9. /\ e.id \in 128 .. 239 /\ Byte(d) # Meta /\ f \in Nat /\ f = d + Len(m)
      /\ e.id = previous => Byte(d) < 128
      /\ e.id # previous => Byte(d) = e.id
  <2>1. CASE e.id = previous
    <3>1. e.id \in 128 .. 239
      BY <1>7
    <3>2. e.data[1] < 128 /\ Len(e.data) \in {1, 2}
      BY <3>1, EventGives DEF Parameters
    <3>3. Len(m) = 0 /\ d + Len(m) = d
      BY <1>4, <1>5, <2>1
    <3>4. \A i \in 1 .. Len(e.data) : Byte(d + i - 1) = e.data[i]
      BY <1>8, <3>3 DEF Stands
    <3>5. Byte(d) = e.data[1]
      <4>1. 1 \in 1 .. Len(e.data) /\ d + 1 - 1 = d
        BY <1>5, <3>2
      <4> QED BY <3>4, <4>1
    <3>6. e.data[1] \in Octet
      BY <1>2, <3>2
    <3>7. Byte(d) < 128 /\ Byte(d) # Meta
      BY <3>2, <3>5, <3>6 DEF Octet, Meta
    <3> QED BY <1>5, <2>1, <3>1, <3>3, <3>7
  <2>2. CASE e.id # previous
    <3> DEFINE s == <<e.id>>
    <3>1. m = s /\ Len(s) = 1 /\ s[1] = e.id
      BY <1>4, <2>2
    <3> HIDE DEF s
    <3>2. \A i \in 1 .. Len(m) : Byte(d + i - 1) = m[i]
      BY <1>8 DEF Stands
    <3>3. Byte(d) = e.id
      <4>1. 1 \in 1 .. Len(m) /\ d + 1 - 1 = d
        BY <1>5, <3>1
      <4> QED BY <3>1, <3>2, <4>1
    <3>4. e.id \in 128 .. 239
      BY <1>7
    <3>5. Byte(d) # Meta
      BY <3>3
    <3> QED BY <1>5, <2>2, <3>1, <3>3, <3>4, <3>5
  <2> QED BY <2>1, <2>2
<1>10. e.type = e.id \div 16 /\ Len(e.data) = q
  BY <1>9, EventGives
<1>11. b = e.data
  <2>1. Stands(f, e.data) /\ f \in Nat
    BY <1>8, <1>9
  <2> HIDE DEF f, q
  <2> QED BY <1>2, <1>10, <2>1, BytesGive
<1>12. f + q = p + Len(Written(e, previous))
  <2>1. Len(w) \in Nat /\ Len(m) \in Nat /\ Len(e.data) \in Nat /\ d = p + Len(w)
    BY <1>1, <1>2 DEF d, w, m
  <2> HIDE DEF f, q
  <2> QED BY <1>8, <1>9, <1>10, <2>1
<1>13. ParseChannel(e.delta, d) =
         [event |-> [delta |-> e.delta, id |-> e.id, type |-> e.id \div 16, data |-> b], end |-> f + q, previous |-> e.id]
  <2> DEFINE running == Byte(d) < 128
             id == IF running THEN track.previous ELSE Byte(d)
             start == IF running THEN d ELSE d + 1
  <2>1. id = e.id /\ start = f
    <3>1. CASE e.id = previous
      BY <1>9, <3>1
    <3>2. CASE e.id # previous
      <4>1. Byte(d) = e.id /\ ~(e.id < 128)
        <5>1. \A x \in 128 .. 239 : ~(x < 128)
          OBVIOUS
        <5>2. e.id \in 128 .. 239 /\ Byte(d) = e.id
          BY <1>9, <3>2, Zenon
        <5> QED BY <5>1, <5>2
      <4> QED BY <3>2, <4>1
    <3> QED BY <3>1, <3>2
  <2>2. ParseChannel(e.delta, d) =
          [event |-> [delta |-> e.delta, id |-> id, type |-> id \div 16, data |-> BytesFrom(start, Parameters(id))],
           end |-> start + Parameters(id), previous |-> id]
    BY Zenon DEF ParseChannel
  <2> HIDE DEF id, start, f
  <2> QED BY <2>1, <2>2, Zenon
<1> DEFINE end == p + Len(Written(e, previous))
<1> HIDE DEF end, f, b, q
<1>14. Parsed(p) = [event |-> e, end |-> end, previous |-> e.id]
  <2>1. Parsed(p) = ParseChannel(e.delta, d)
    BY <1>6, <1>9, Zenon
  <2>2. [delta |-> e.delta, id |-> e.id, type |-> e.id \div 16, data |-> b] = e
    BY <1>2, <1>10, <1>11
  <2> QED BY <1>12, <1>13, <2>1, <2>2 DEF end
<1>15. Repeated(e, previous) = e.id
  BY <1>18 DEF Repeated
<1>19. d < FileLength /\ Byte(d) \in Octet
  <2>1. Len(e.data) >= 1
    <3> DEFINE x == Len(e.data)
    <3>1. x = Parameters(e.id)
      BY <1>7, EventGives
    <3>2. Parameters(e.id) \in {1, 2}
      BY Zenon DEF Parameters
    <3> HIDE DEF x
    <3>3. x >= 1
      BY <3>1, <3>2
    <3> QED BY <3>3 DEF x
  <2>2. d < FileLength
    <3>1. Len(m) \in Nat
      BY <1>1 DEF m
    <3> QED BY <1>2, <1>5, <1>16, <2>1, <3>1
  <2>3. Byte(d) \in Octet
    <3>1. CASE e.id = previous
      <4>1. f = d /\ \A i \in 1 .. Len(e.data) : Byte(f + i - 1) = e.data[i]
        <5>1. Stands(f, e.data)
          BY <1>8, <1>9
        <5> QED BY <3>1, <5>1 DEF Stands, f
      <4>2. 1 \in 1 .. Len(e.data) /\ d + 1 - 1 = d
        BY <1>2, <1>5, <2>1
      <4>3. e.data[1] \in Octet
        BY <1>2, <4>2
      <4> QED BY <4>1, <4>2, <4>3
    <3>2. CASE e.id # previous
      <4>1. Byte(d) = e.id
        BY <1>9, <3>2, Zenon
      <4> QED BY <1>7, <4>1 DEF Octet
    <3> QED BY <3>1, <3>2
  <2> QED BY <2>2, <2>3
<1>20. Identified(p, Octet) /\ ~Identified(p, {Meta})
  <2>1. Byte(d) # Meta
    BY <1>9, Zenon
  <2> QED BY <1>3, <1>16, <1>19, <2>1 DEF Identified
<1>21. ~Hangs(p)
  BY <1>3, <1>20 DEF Hangs
<1>22. Parsed(p).end <= FileLength
  BY <1>14 DEF end
<1>23. Complete(p)
  BY <1>20, <1>21, <1>22 DEF Complete
<1> QED BY <1>14, <1>15, <1>21, <1>23 DEF end

-----------------------------------------------------------------------------
(* MidiReader: a reader and the track it reads                             *)

TrackType == [index : Nat, size : Nat, position : Nat, previous : Octet]

\* The reader knows where its track is.
Knows(tr) ==
  /\ tr \in TrackType
  /\ tr.index < TrackCount =>
       tr.position = Begin(tr.index) + 8 /\ tr.size = Len(TrackBytes(song[tr.index + 1]))

\* It stands at the first event of its track, or behind the last track.
Fresh(tr, here) ==
  /\ Knows(tr) /\ here \in Nat
  /\ tr.index < TrackCount => tr.previous = 0 /\ here = tr.position
  /\ ~(tr.index < TrackCount) => here >= tr.position + tr.size

\* It has read the first events of its track, and stands behind them where it did not stray.
Plays(tr, here, events, strays) ==
  /\ Knows(tr) /\ here \in Nat
  /\ ~(tr.index < TrackCount) => events = << >> /\ (~strays => here >= tr.position + tr.size)
  /\ tr.index < TrackCount => \E k \in 0 .. Len(song[tr.index + 1]) :
       /\ events = SubSeq(song[tr.index + 1], 1, k)
       /\ ~strays => /\ here = tr.position + Len(Encoded(song[tr.index + 1])[k].bytes)
                     /\ tr.previous = Encoded(song[tr.index + 1])[k].previous

MidiInv ==
  /\ SongStored /\ Plays(track, at, played, astray)
  /\ window \in [position : Nat, size : Nat]
  /\ hung => astray

LEMMA FreshPlays ==
  ASSUME SongStored, NEW tr, NEW here, Fresh(tr, here), NEW strays
  PROVE  Plays(tr, here, << >>, strays)
<1>0. Knows(tr) /\ here \in Nat
  BY DEF Fresh
<1>1. ~(tr.index < TrackCount) => here >= tr.position + tr.size
  BY DEF Fresh
<1>2. ASSUME tr.index < TrackCount
      PROVE  \E k \in 0 .. Len(song[tr.index + 1]) :
               /\ << >> = SubSeq(song[tr.index + 1], 1, k)
               /\ here = tr.position + Len(Encoded(song[tr.index + 1])[k].bytes)
               /\ tr.previous = Encoded(song[tr.index + 1])[k].previous
  <2> DEFINE ev == song[tr.index + 1]
  <2>1. tr.index \in Nat /\ tr.position \in Nat /\ tr.previous = 0 /\ here = tr.position
    BY <1>2 DEF Fresh, Knows, TrackType
  <2>2. ev \in Seq(Events)
    BY <1>2, <2>1, TrackStands
  <2> HIDE DEF ev
  <2>3. 0 \in 0 .. Len(ev) /\ Encoded(ev)[0].bytes = << >> /\ Encoded(ev)[0].previous = 0
    <3>1. Len(ev) \in Nat
      BY <2>2
    <3>2. Encoded(ev)[0].bytes = << >> /\ Encoded(ev)[0].previous = 0
      BY <2>2, EncodedGives, Zenon
    <3> QED BY <3>1, <3>2
  <2>4. << >> = SubSeq(ev, 1, 0)
    BY <2>2
  <2>5. here = tr.position + Len(Encoded(ev)[0].bytes)
    BY <2>1, <2>3
  <2> QED BY <2>1, <2>3, <2>4, <2>5 DEF ev
<1> QED BY <1>0, <1>1, <1>2 DEF Plays

LEMMA FirstGives ==
  ASSUME SongStored
  PROVE  /\ Fresh(ReadTrack(HeaderSize, 0), ReadTrack(HeaderSize, 0).position)
         /\ ReadTrack(HeaderSize, 0).index = 0 /\ TrackCount \in Nat /\ 0 < TrackCount
<1>1. TrackCount \in Nat /\ 0 < TrackCount
  BY SongsGive DEF TrackCount
<1> DEFINE n == Len(TrackBytes(song[0 + 1]))
           p == Begin(0) + 8
           r == ReadTrack(HeaderSize, 0)
<1>2. n \in Nat /\ Begin(0) \in Nat /\ r = [index |-> 0, size |-> n, position |-> p, previous |-> 0]
  BY <1>1, TrackStands
<1>3. p \in Nat /\ 0 \in Octet
  BY <1>2 DEF Octet
<1> HIDE DEF n, p, r
<1>4. r \in TrackType /\ r.index = 0 /\ r.size = n /\ r.position = p /\ r.previous = 0
  BY <1>2, <1>3 DEF TrackType
<1>5. Knows(r)
  BY <1>4 DEF Knows, n, p
<1>6. Fresh(r, r.position)
  BY <1>1, <1>3, <1>4, <1>5 DEF Fresh
<1> QED BY <1>1, <1>4, <1>6 DEF r

LEMMA SkippedGives ==
  ASSUME SongStored, NEW tr, Knows(tr), NEW here \in Nat
  PROVE  /\ Fresh(Skipped(tr, here).track, Skipped(tr, here).at)
         /\ Skipped(tr, here).track.index = tr.index + 1
<1>1. tr \in TrackType /\ tr.index \in Nat /\ tr.position \in Nat /\ tr.previous \in Octet /\ TrackCount \in Nat
  BY FirstGives DEF Knows, TrackType
<1>2. CASE tr.index + 1 >= TrackCount
  <2> DEFINE r == [tr EXCEPT !.index = @ + 1, !.size = 0, !.position = here]
  <2>1. Skipped(tr, here) = [track |-> r, at |-> here]
    BY <1>2, Zenon DEF Skipped
  <2>2. r \in TrackType /\ r.index = tr.index + 1 /\ r.size = 0 /\ r.position = here
    <3> DEFINE i == tr.index + 1
    <3>1. i \in Nat
      BY <1>1
    <3>2. r = [tr EXCEPT !.index = i, !.size = 0, !.position = here]
      OBVIOUS
    <3> HIDE DEF i, r
    <3>3. r = [index |-> i, size |-> 0, position |-> here, previous |-> tr.previous]
      BY <1>1, <3>2 DEF TrackType
    <3>4. r \in TrackType /\ r.index = i /\ r.size = 0 /\ r.position = here
      BY <1>1, <3>1, <3>3 DEF TrackType
    <3> QED BY <3>4 DEF i
  <2> HIDE DEF r
  <2>3. Skipped(tr, here).track = r /\ Skipped(tr, here).at = here
    BY <2>1
  <2>4. ~(r.index < TrackCount) /\ here >= here + 0
    BY <1>1, <1>2, <2>2
  <2>5. Fresh(r, here)
    BY <2>2, <2>4 DEF Fresh, Knows
  <2> QED BY <2>2, <2>3, <2>5
<1>3. CASE ~(tr.index + 1 >= TrackCount)
  <2> DEFINE i == tr.index + 1
             n == Len(TrackBytes(song[i + 1]))
             p == Begin(i) + 8
             r == ReadTrack(TrackEnd(tr), i)
  <2>1. i \in Nat /\ i < TrackCount /\ tr.index < TrackCount
    BY <1>1, <1>3
  <2>2. Begin(i) = Begin(tr.index) + 8 + Len(TrackBytes(song[tr.index + 1]))
    BY <1>1, <2>1, TrackStands
  <2>3. TrackEnd(tr) = Begin(i)
    BY <2>1, <2>2 DEF TrackEnd, Knows
  <2>4. /\ n \in Nat /\ Begin(i) \in Nat
        /\ \A index : ReadTrack(Begin(i), index) = [index |-> index, size |-> n, position |-> p, previous |-> 0]
    <3> HIDE DEF i
    <3> QED BY <2>1, TrackStands
  <2>5. Skipped(tr, here) = [track |-> r, at |-> r.position]
    BY <1>3, Zenon DEF Skipped
  <2>6. p \in Nat /\ 0 \in Octet
    BY <2>4 DEF Octet
  <2> HIDE DEF i, n, p
  <2>7. r = [index |-> i, size |-> n, position |-> p, previous |-> 0]
    BY <2>3, <2>4
  <2> HIDE DEF r
  <2>8. r \in TrackType /\ r.index = i /\ r.size = n /\ r.position = p /\ r.previous = 0
    BY <2>1, <2>4, <2>6, <2>7 DEF TrackType
  <2>9. Knows(r)
    BY <2>8 DEF Knows, n, p
  <2>10. Fresh(r, r.position)
    BY <2>1, <2>6, <2>8, <2>9 DEF Fresh
  <2>11. Skipped(tr, here).track = r /\ Skipped(tr, here).at = r.position
    BY <2>5
  <2> QED BY <2>8, <2>10, <2>11 DEF i
<1> QED BY <1>2, <1>3

SoughtStart(index) ==
  IF index <= track.index THEN [track |-> ReadTrack(HeaderSize, 0), at |-> ReadTrack(HeaderSize, 0).position]
  ELSE [track |-> track, at |-> at]

Searches(index, f) ==
  f = [i \in 0 .. TrackCount |->
         IF i = 0 THEN IF index <= track.index THEN [track |-> ReadTrack(HeaderSize, 0), at |-> ReadTrack(HeaderSize, 0).position] ELSE [track |-> track, at |-> at]
         ELSE IF f[i - 1].track.index < index THEN Skipped(f[i - 1].track, f[i - 1].at) ELSE f[i - 1]]

\* SeekTrack() ends at the first event of a track.
LEMMA SoughtGives ==
  ASSUME SongStored, Knows(track), at \in Nat, NEW index \in Nat, index < TrackCount
  PROVE  Fresh(Sought(index).track, Sought(index).at)
<1> DEFINE n == TrackCount
           S == {x \in [track : TrackType, at : Nat] : Knows(x.track)}
           start == SoughtStart(index)
           Turn(y) == IF y.track.index < index THEN Skipped(y.track, y.at) ELSE y
           step == [i \in Nat |-> [y \in S |-> Turn(y)]]
           all == CHOOSE f : Searches(index, f)
           first == ReadTrack(HeaderSize, 0)
           Near(y) == y.track.index < index \/ Fresh(y.track, y.at)
           Far(y, i) == y.track.index >= i \/ y.track.index >= index
<1>0. n \in Nat /\ 0 < n /\ Fresh(first, first.position) /\ first.index = 0
  BY FirstGives
<1>1. Sought(index) = all[n]
  BY Zenon DEF Sought, Searches
<1>2. start \in S /\ Near(start) /\ Far(start, 0)
  <2>1. CASE index <= track.index
    <3> DEFINE y == [track |-> first, at |-> first.position]
               p == first.position
    <3>1. start = y
      BY <2>1 DEF SoughtStart
    <3>2. first \in TrackType /\ Knows(first) /\ p \in Nat /\ Fresh(first, p)
      BY <1>0 DEF Fresh, Knows
    <3> HIDE DEF first, p
    <3>3. y.track = first /\ y.at = p /\ y \in [track : TrackType, at : Nat]
      BY <3>2 DEF p
    <3> HIDE DEF y
    <3>4. y \in S /\ Near(y) /\ Far(y, 0)
      BY <1>0, <3>2, <3>3
    <3> QED BY <3>1, <3>4
  <2>2. CASE ~(index <= track.index)
    <3> DEFINE y == [track |-> track, at |-> at]
    <3>1. start = y
      BY <2>2 DEF SoughtStart
    <3>2. track \in TrackType /\ track.index \in Nat
      BY DEF Knows, TrackType
    <3>3. y.track = track /\ y.at = at /\ y \in [track : TrackType, at : Nat]
      BY <3>2
    <3> HIDE DEF y
    <3>4. y \in S /\ Near(y) /\ Far(y, 0)
      BY <2>2, <3>2, <3>3
    <3> QED BY <3>1, <3>4
  <2> QED BY <2>1, <2>2
<1>3. ASSUME NEW y \in S
      PROVE  /\ Turn(y) \in S
             /\ Near(y) => Near(Turn(y))
             /\ \A i \in Nat : Far(y, i) => Far(Turn(y), i + 1)
  <2>1. y \in [track : TrackType, at : Nat] /\ Knows(y.track) /\ y.track.index \in Nat /\ y.at \in Nat
    BY DEF Knows, TrackType
  <2>2. CASE y.track.index < index
    <3> DEFINE z == Skipped(y.track, y.at)
    <3>1. Fresh(z.track, z.at) /\ z.track.index = y.track.index + 1
      BY <2>1, SkippedGives
    <3>2. Turn(y) = z
      BY <2>2
    <3>3. Knows(z.track) /\ z.track \in TrackType /\ z.at \in Nat
      BY <3>1 DEF Fresh, Knows
    <3>4. z \in [track : TrackType, at : Nat]
      <4>1. \E a, b : z = [track |-> a, at |-> b]
        BY <2>1 DEF Skipped
      <4> HIDE DEF z
      <4> QED BY <3>3, <4>1
    <3> HIDE DEF z, Turn
    <3>5. z \in S /\ Near(z) /\ \A i \in Nat : Far(y, i) => Far(z, i + 1)
      BY <2>1, <2>2, <3>1, <3>3, <3>4
    <3> QED BY <3>2, <3>5
  <2>3. CASE ~(y.track.index < index)
    <3>1. Turn(y) = y
      BY <2>3
    <3> HIDE DEF Turn
    <3>2. \A i \in Nat : Far(y, i + 1)
      BY <2>1, <2>3
    <3> QED BY <3>1, <3>2
  <2> QED BY <2>2, <2>3
<1> HIDE DEF Turn, start, S, Near, Far, first
<1>5. step \in [Nat -> [S -> S]]
  BY <1>3
<1> HIDE DEF step, n
<1>6. PICK g \in [0 .. n -> S] : g[0] = start /\ \A i \in 1 .. n : g[i] = step[i][g[i - 1]]
  <2>1. Runs(S, step, start, n)
    BY <1>0, <1>2, <1>5, LoopRuns
  <2> QED BY <2>1 DEF Runs
<1>7. ASSUME NEW i \in 0 .. n PROVE g[i] = IF i = 0 THEN start ELSE Turn(g[i - 1])
  <2>1. CASE i = 0
    BY <1>6, <2>1
  <2>2. CASE i # 0
    <3>1. i \in 1 .. n /\ i - 1 \in 0 .. n /\ i \in Nat
      BY <1>0, <2>2
    <3>2. g[i] = step[i][g[i - 1]] /\ g[i - 1] \in S
      BY <1>6, <3>1
    <3>3. step[i][g[i - 1]] = Turn(g[i - 1])
      BY <3>1, <3>2 DEF step
    <3> QED BY <2>2, <3>2, <3>3
  <2> QED BY <2>1, <2>2
<1>8. g = [i \in 0 .. n |-> IF i = 0 THEN start ELSE Turn(g[i - 1])]
  BY <1>6, <1>7
<1>9. Searches(index, g)
  BY <1>8 DEF Searches, SoughtStart, Turn, n, start
<1>10. Searches(index, all)
  BY <1>9, Zenon
<1> HIDE DEF all
<1>11. all = [i \in 0 .. n |-> IF i = 0 THEN start ELSE Turn(all[i - 1])]
  BY <1>10 DEF Searches, SoughtStart, Turn, n, start
<1>12. all[0] = start /\ \A i \in 1 .. n : all[i] = Turn(all[i - 1])
  <2>1. \A i \in 0 .. n : all[i] = IF i = 0 THEN start ELSE Turn(all[i - 1])
    BY <1>11
  <2>2. 0 \in 0 .. n /\ \A i \in 1 .. n : i \in 0 .. n /\ i # 0
    BY <1>0
  <2> QED BY <2>1, <2>2
<1> DEFINE I == [i \in 0 .. n |-> {x \in S : Near(x) /\ Far(x, i)}]
<1>13. all[n] \in I[n]
  <2>1. all[0] \in I[0]
    BY <1>0, <1>2, <1>12
  <2>2. ASSUME NEW i \in 1 .. n, all[i - 1] \in I[i - 1] PROVE all[i] \in I[i]
    <3>1. i - 1 \in 0 .. n /\ i - 1 \in Nat /\ (i - 1) + 1 = i /\ i \in 0 .. n
      BY <1>0
    <3>2. all[i - 1] \in S /\ Near(all[i - 1]) /\ Far(all[i - 1], i - 1)
      BY <2>2, <3>1
    <3>3. all[i] \in S /\ Near(all[i]) /\ Far(all[i], (i - 1) + 1)
      BY <1>3, <1>12, <3>1, <3>2
    <3> QED BY <3>1, <3>3
  <2> HIDE DEF I
  <2> QED BY <1>0, <2>1, <2>2, LoopKeeps
<1>14. all[n] \in S /\ Near(all[n]) /\ Far(all[n], n)
  BY <1>0, <1>13
<1> DEFINE y == all[n]
<1>15. y.track.index \in Nat
  BY <1>14 DEF S, TrackType
<1>16. ~(y.track.index < index)
  <2>1. n \in Nat /\ index < n
    BY <1>0 DEF n
  <2>2. y.track.index >= n \/ y.track.index >= index
    BY <1>14 DEF Far
  <2> HIDE DEF y
  <2> QED BY <1>15, <2>1, <2>2
<1> QED BY <1>1, <1>14, <1>16 DEF Near

\* A step that leaves the song and makes the reader stand somewhere.
LEMMA StandsThere ==
  ASSUME MidiInv, UNCHANGED <<song, stored, window>>, Plays(track', at', played', astray'), hung' => astray'
  PROVE  MidiInv'
<1>1. \A t : Begin(t)' = Begin(t)
  BY DEF Begin
<1>2. Knows(track)'
  BY <1>1 DEF Plays, Knows, TrackCount
<1>3. Plays(track, at, played, astray)'
  BY <1>2 DEF Plays, TrackCount
<1> QED BY <1>3 DEF MidiInv

LEMMA MidiStarts == MidiInit => MidiInv
<1> SUFFICES ASSUME MidiInit PROVE MidiInv
  OBVIOUS
<1>1. /\ SongStored /\ track = ReadTrack(HeaderSize, 0) /\ at = track.position /\ played = << >> /\ astray = FALSE
      /\ window = NoWindow /\ hung = FALSE
  BY DEF MidiInit
<1>2. Fresh(track, at)
  BY <1>1, FirstGives
<1>3. Plays(track, at, << >>, FALSE)
  BY <1>1, <1>2, FreshPlays
<1>4. window \in [position : Nat, size : Nat]
  BY <1>1 DEF NoWindow
<1> QED BY <1>1, <1>3, <1>4 DEF MidiInv

\* NextTrack and SeekTrack begin a track.
LEMMA TrackBegins ==
  ASSUME MidiInv, ~hung, UNCHANGED <<song, stored, window, hung>>, Fresh(track', at'), played' = << >>, astray' = FALSE
  PROVE  MidiInv'
<1> DEFINE tr == track'
           here == at'
<1>1. Fresh(tr, here)
  OBVIOUS
<1> HIDE DEF tr, here
<1>2. Plays(tr, here, << >>, FALSE)
  BY <1>1, FreshPlays DEF MidiInv
<1>3. Plays(track', at', played', astray')
  BY <1>2 DEF tr, here
<1> QED BY <1>3, StandsThere

LEMMA MidiNextTrack ==
  ASSUME MidiInv, ~hung, NextTrack PROVE MidiInv'
<1>1. SongStored /\ Knows(track) /\ at \in Nat
  BY DEF MidiInv, Plays
<1>2. Fresh(Skipped(track, at).track, Skipped(track, at).at)
  BY <1>1, SkippedGives
<1>3. track' = Skipped(track, at).track /\ at' = Skipped(track, at).at /\ UNCHANGED <<song, stored, window, hung>> /\ played' = << >> /\ astray' = FALSE
  BY DEF NextTrack
<1>4. Fresh(track', at')
  BY <1>2, <1>3
<1> QED BY <1>1, <1>3, <1>4, TrackBegins

LEMMA MidiSeeks ==
  ASSUME MidiInv, ~hung, NEW index \in 0 .. MaxTracks, SeekTrack(index) PROVE MidiInv'
<1>1. SongStored /\ Knows(track) /\ at \in Nat
  BY DEF MidiInv, Plays
<1>2. index \in Nat /\ index < TrackCount
  BY MidiAssumption DEF SeekTrack
<1>3. Fresh(Sought(index).track, Sought(index).at)
  BY <1>1, <1>2, SoughtGives
<1>4. track' = Sought(index).track /\ at' = Sought(index).at /\ UNCHANGED <<song, stored, window, hung>> /\ played' = << >> /\ astray' = FALSE
  BY DEF SeekTrack
<1>5. Fresh(track', at')
  BY <1>3, <1>4
<1> QED BY <1>1, <1>4, <1>5, TrackBegins

\* A reader that strays still has read the first events.
LEMMA Strays ==
  ASSUME MidiInv, UNCHANGED <<song, stored, window, played>>,
         track' \in TrackType, track' = [track EXCEPT !.previous = track'.previous], at' \in Nat, astray' = TRUE
  PROVE  MidiInv'
<1>1. SongStored /\ Plays(track, at, played, astray)
  BY DEF MidiInv
<1> DEFINE tr == track'
<1>2. tr \in TrackType /\ tr.index = track.index /\ tr.position = track.position /\ tr.size = track.size
  <2>1. track \in TrackType
    BY <1>1 DEF Plays, Knows
  <2> QED BY <2>1 DEF TrackType
<1> HIDE DEF tr
<1>3. Plays(tr, at', played', TRUE)
  BY <1>1, <1>2 DEF Plays, Knows
<1>4. Plays(track', at', played', astray')
  BY <1>3 DEF tr
<1> QED BY <1>4, StandsThere

\* A step that does not touch the identifier
LEMMA StraysAsItWas ==
  ASSUME MidiInv, UNCHANGED <<song, stored, track, window, played>>, at' \in Nat, astray' = TRUE PROVE MidiInv'
<1>1. track \in TrackType
  BY DEF MidiInv, Plays, Knows
<1>2. track' \in TrackType /\ track' = [track EXCEPT !.previous = track'.previous]
  BY <1>1 DEF TrackType
<1> QED BY <1>2, Strays

LEMMA MidiGetsStream ==
  ASSUME MidiInv, GetTrackStream PROVE MidiInv'
<1> DEFINE w == [position |-> track.position, size |-> track.size]
<1>1. UNCHANGED <<song, stored, at, track, hung, played, astray>> /\ window' = w
  BY DEF GetTrackStream
<1>2. w \in [position : Nat, size : Nat]
  BY DEF MidiInv, Plays, Knows, TrackType
<1>3. \A t : Begin(t)' = Begin(t)
  BY <1>1 DEF Begin
<1>4. Knows(track)'
  BY <1>1, <1>3 DEF MidiInv, Plays, Knows, TrackCount
<1>5. Plays(track, at, played, astray)'
  BY <1>1, <1>4 DEF MidiInv, Plays, TrackCount
<1> QED BY <1>1, <1>2, <1>5 DEF MidiInv

LEMMA MidiReadsStream ==
  ASSUME MidiInv, NEW offset \in 0 .. window.size, ReadTrackStream(offset) PROVE MidiInv'
<1>1. UNCHANGED <<song, stored, track, window, played>> /\ at' = window.position + offset /\ astray' = TRUE
  BY DEF ReadTrackStream
<1>2. at' \in Nat
  BY <1>1 DEF MidiInv
<1> QED BY <1>1, <1>2, StraysAsItWas

LEMMA MidiThrows ==
  ASSUME MidiInv, ReadEventThrows PROVE MidiInv'
<1>1. UNCHANGED <<song, stored, track, window, played>> /\ at' = ReadInteger(at).end + 1 /\ astray' = TRUE /\ ~Endless(at)
  BY DEF ReadEventThrows, Identified, Identifier
<1>2. at' \in Nat
  BY <1>1, IntegerGives DEF MidiInv, Plays
<1> QED BY <1>1, <1>2, StraysAsItWas

\* Where a reader that did not stray stands, and is not at the end of the track, the next
\* event is, and the file has all of it.
NextIs(k, e, previous) ==
  LET E == Encoded(song[track.index + 1])
      w == Written(e, previous)
  IN  /\ played = SubSeq(song[track.index + 1], 1, k)
      /\ k + 1 \in 1 .. Len(song[track.index + 1]) /\ e = song[track.index + 1][k + 1] /\ e \in Events
      /\ previous = track.previous /\ previous \in Identifiers
      /\ E[k + 1].previous = Repeated(e, previous)
      /\ at + Len(w) = track.position + Len(E[k + 1].bytes) /\ Len(w) \in Nat
      /\ Stands(at, w) /\ at + Len(w) <= FileLength

LEMMA MidiAtEvent ==
  ASSUME MidiInv, ~astray, ~EndOfTrack
  PROVE  /\ track.index < TrackCount
         /\ \E k \in 0 .. Len(song[track.index + 1]) : NextIs(k, song[track.index + 1][k + 1], track.previous)
<1> DEFINE ev == song[track.index + 1]
           E == Encoded(ev)
<1>1. ~(at >= track.position + track.size)
  BY DEF EndOfTrack
<1>2. /\ SongStored /\ Knows(track) /\ at \in Nat
      /\ ~(track.index < TrackCount) => at >= track.position + track.size
  BY DEF MidiInv, Plays
<1>3. track.index < TrackCount /\ track.index \in Nat /\ track.position \in Nat
  BY <1>1, <1>2 DEF Knows, TrackType
<1>4. PICK k \in 0 .. Len(ev) :
        /\ played = SubSeq(ev, 1, k) /\ at = track.position + Len(E[k].bytes) /\ track.previous = E[k].previous
  BY <1>3 DEF MidiInv, Plays
<1>5. /\ ev \in Seq(Events) /\ Stands(track.position, TrackBytes(ev)) /\ track.size = Len(TrackBytes(ev))
      /\ track.position + Len(TrackBytes(ev)) <= FileLength /\ FileLength \in Nat
  <2>1. ev \in Seq(Events) /\ Stands(Begin(track.index) + 8, TrackBytes(ev)) /\ Begin(track.index) + 8 + Len(TrackBytes(ev)) <= FileLength
    BY <1>2, <1>3, TrackStands
  <2>2. track.position = Begin(track.index) + 8 /\ track.size = Len(TrackBytes(ev))
    BY <1>2, <1>3 DEF Knows
  <2>3. FileLength \in Nat
    BY <1>2, StoredGives
  <2> HIDE DEF ev
  <2> QED BY <2>1, <2>2, <2>3
<1>6. k \in 0 .. Len(song[track.index + 1])
  OBVIOUS
<1> HIDE DEF ev
<1>7. Len(ev) \in Nat /\ E[Len(ev)].bytes = TrackBytes(ev) /\ Len(TrackBytes(ev)) \in Nat
  <2>1. TrackBytes(ev) \in Seq(Octet) /\ Len(ev) \in Nat
    BY <1>5, TrackGrows
  <2> QED BY <2>1 DEF TrackBytes
<1>8. k + 1 \in 1 .. Len(ev) /\ (k + 1) - 1 = k
  <2>1. k # Len(ev)
    <3> SUFFICES ASSUME k = Len(ev) PROVE FALSE
      OBVIOUS
    <3>1. at = track.position + Len(TrackBytes(ev))
      BY <1>4, <1>7
    <3> QED BY <1>1, <1>3, <1>5, <1>7, <3>1
  <2> QED BY <1>7, <2>1
<1> DEFINE e == ev[k + 1]
           prev == E[k].previous
           w == Written(e, prev)
<1>9. /\ Len(E[k].bytes) \in Nat /\ prev \in Identifiers /\ e \in Events /\ E[k + 1].previous = Repeated(e, prev)
      /\ Len(E[k + 1].bytes) = Len(E[k].bytes) + Len(w) /\ Len(E[k + 1].bytes) <= Len(TrackBytes(ev))
      /\ Stands(track.position + Len(E[k].bytes), w)
  <2> DEFINE j == k + 1
  <2>1. j \in 1 .. Len(ev) /\ j - 1 = k
    BY <1>8
  <2> HIDE DEF j
  <2>2. /\ Len(E[j - 1].bytes) \in Nat /\ E[j - 1].previous \in Identifiers /\ ev[j] \in Events
        /\ E[j].previous = Repeated(ev[j], E[j - 1].previous)
        /\ Len(E[j].bytes) = Len(E[j - 1].bytes) + Len(Written(ev[j], E[j - 1].previous))
        /\ Len(E[j].bytes) <= Len(TrackBytes(ev))
        /\ Stands(track.position + Len(E[j - 1].bytes), Written(ev[j], E[j - 1].previous))
    BY <1>3, <1>5, <2>1, EventStands
  <2>3. /\ Len(E[k].bytes) \in Nat /\ E[k].previous \in Identifiers /\ ev[j] \in Events
        /\ E[j].previous = Repeated(ev[j], E[k].previous)
        /\ Len(E[j].bytes) = Len(E[k].bytes) + Len(Written(ev[j], E[k].previous))
        /\ Len(E[j].bytes) <= Len(TrackBytes(ev))
        /\ Stands(track.position + Len(E[k].bytes), Written(ev[j], E[k].previous))
    BY <2>1, <2>2
  <2> QED BY <2>3 DEF j
<1>10. Len(w) \in Nat
  <2>1. w \in Seq(Octet)
    BY <1>9, WrittenGives
  <2> HIDE DEF w
  <2> QED BY <2>1
<1> HIDE DEF e, prev, E, w
<1>11. Stands(at, w) /\ prev = track.previous
  BY <1>4, <1>9 DEF prev
<1>12. at + Len(w) = track.position + Len(E[k + 1].bytes) /\ at + Len(w) <= FileLength
  <2> DEFINE x == Len(E[k].bytes)
             y == Len(E[k + 1].bytes)
             z == Len(w)
             b == Len(TrackBytes(ev))
  <2>1. x \in Nat /\ z \in Nat /\ b \in Nat /\ y = x + z /\ y <= b /\ at = track.position + x /\ track.position + b <= FileLength
    BY <1>4, <1>5, <1>7, <1>9, <1>10
  <2> HIDE DEF x, y, z, b
  <2>2. at + z = track.position + y /\ at + z <= FileLength
    BY <1>3, <1>5, <2>1
  <2> QED BY <2>2 DEF y, z
<1>13. NextIs(k, e, prev)
  BY <1>4, <1>8, <1>9, <1>10, <1>11, <1>12 DEF NextIs, ev, e, E, w
<1> QED BY <1>3, <1>6, <1>11, <1>13 DEF e, ev

\* Its numbers end, and it is system exclusive or whole.
LEMMA MidiKnowsEvent ==
  ASSUME MidiInv, ~astray, ~EndOfTrack
  PROVE  ~Hangs(at) /\ (Identified(at, SysEx) \/ Complete(at))
<1>1. PICK k \in 0 .. Len(song[track.index + 1]) : NextIs(k, song[track.index + 1][k + 1], track.previous)
  BY MidiAtEvent
<1> DEFINE e == song[track.index + 1][k + 1]
           w == Written(e, track.previous)
<1>2. e \in Events /\ track.previous \in Identifiers /\ Stands(at, w) /\ at + Len(w) <= FileLength
  BY <1>1 DEF NextIs
<1>3. at \in Nat /\ FileLength \in Nat
  BY StoredGives DEF MidiInv, Plays
<1> HIDE DEF e
<1>4. CASE e.id = Meta
  BY <1>2, <1>3, <1>4, MetaReads
<1>5. CASE e.id # Meta
  BY <1>2, <1>3, <1>5, ChannelReads
<1> QED BY <1>4, <1>5

LEMMA MidiFindsEnd ==
  ASSUME MidiInv, ~hung, ReadEventShort PROVE MidiInv'
<1>1. /\ UNCHANGED <<song, stored, window, hung, played, astray>> /\ at' = FileLength
      /\ track' = IF Identified(at, 128 .. 254) THEN [track EXCEPT !.previous = Byte(Identifier(at))] ELSE track
      /\ ~EndOfTrack /\ ~Complete(at) /\ ~Identified(at, SysEx)
  BY DEF ReadEventShort
<1>2. astray
  BY <1>1, MidiKnowsEvent
<1>3. at' \in Nat /\ at \in Nat /\ track \in TrackType /\ SongStored
  BY <1>1, StoredGives DEF MidiInv, Plays, Knows
<1>4. CASE ~Identified(at, 128 .. 254)
  <2>1. track' = track
    BY <1>1, <1>4
  <2>2. astray' = TRUE
    BY <1>1, <1>2 DEF MidiInv
  <2> QED BY <1>1, <1>3, <2>1, <2>2, StraysAsItWas
<1>5. CASE Identified(at, 128 .. 254)
  <2> DEFINE b == Byte(Identifier(at))
  <2>1. track' = [track EXCEPT !.previous = b]
    BY <1>1, <1>5
  <2>2. b \in Octet
    BY <1>5 DEF Identified, Octet
  <2>3. astray' = TRUE
    BY <1>1, <1>2
  <2> HIDE DEF b
  <2>4. track' \in TrackType /\ track' = [track EXCEPT !.previous = track'.previous]
    BY <1>3, <2>1, <2>2 DEF TrackType
  <2> QED BY <1>1, <1>3, <2>3, <2>4, Strays
<1> QED BY <1>4, <1>5

LEMMA MidiHangs ==
  ASSUME MidiInv, ReadEventHangs PROVE MidiInv'
<1>1. UNCHANGED <<song, stored, track, window, played, astray>> /\ at' = FileLength /\ ~EndOfTrack /\ Hangs(at)
  BY DEF ReadEventHangs
<1>2. astray
  BY <1>1, MidiKnowsEvent
<1>3. at' \in Nat
  BY <1>1, StoredGives DEF MidiInv
<1> QED BY <1>1, <1>2, <1>3, StraysAsItWas

\* What ReadEvent() parses of whatever stands there
LEMMA ParsedGives ==
  ASSUME MidiInv, Complete(at)
  PROVE  Parsed(at).end \in Nat /\ Parsed(at).previous \in Octet
<1>1. SongStored /\ at \in Nat /\ track.previous \in Octet /\ \A q \in Nat : Byte(q) \in Octet
  BY StoredGives DEF MidiInv, Plays, Knows, TrackType
<1> DEFINE delta == ReadInteger(at)
           d == delta.end
<1>2. d \in Nat /\ ~Hangs(at) /\ ~Endless(at) /\ Identifier(at) = d /\ d < FileLength
  BY <1>1, IntegerGives DEF Complete, Identified, Identifier
<1>3. CASE Byte(d) = Meta
  <2> DEFINE length == ReadInteger((d + 1) + 1)
  <2>1. Parsed(at) = ParseMeta(delta.value, d + 1)
    BY <1>3, Zenon DEF Parsed
  <2>2. ~Endless(d + 2) /\ (d + 1) + 1 = d + 2 /\ d + 2 \in Nat
    <3>1. Identified(at, {Meta}) /\ Identifier(at) + 1 < FileLength
      BY <1>2, <1>3 DEF Complete, Identified
    <3>2. ~Endless(d + 2)
      BY <1>2, <3>1 DEF Hangs
    <3> HIDE DEF d
    <3> QED BY <1>2, <3>2
  <2>3. length.value \in Nat /\ length.end \in Nat
    BY <1>1, <2>2, IntegerGives
  <2> HIDE DEF d, length
  <2>4. Parsed(at).end = length.end + length.value /\ Parsed(at).previous = track.previous
    BY <2>1 DEF ParseMeta, length
  <2> QED BY <1>1, <2>3, <2>4
<1>4. CASE Byte(d) # Meta
  <2> DEFINE running == Byte(d) < 128
             id == IF running THEN track.previous ELSE Byte(d)
             first == IF running THEN d ELSE d + 1
  <2>1. Parsed(at) = ParseChannel(delta.value, d)
    BY <1>4, Zenon DEF Parsed
  <2> HIDE DEF d, delta
  <2>2. id \in Octet /\ first \in Nat /\ Parameters(id) \in Nat
    BY <1>1, <1>2 DEF Parameters
  <2>3. Parsed(at).end = first + Parameters(id) /\ Parsed(at).previous = id
    BY <2>1 DEF ParseChannel
  <2> HIDE DEF first, id
  <2> QED BY <2>2, <2>3
<1> QED BY <1>3, <1>4

LEMMA MidiReadsEvent ==
  ASSUME MidiInv, ~hung, ReadEvent PROVE MidiInv'
<1>1. /\ at' = Parsed(at).end /\ track' = [track EXCEPT !.previous = Parsed(at).previous]
      /\ played' = (IF astray THEN played ELSE Append(played, Parsed(at).event)) /\ UNCHANGED <<song, stored, window, hung, astray>>
      /\ ~EndOfTrack /\ Complete(at) /\ ~Identified(at, SysEx)
  BY DEF ReadEvent
<1>2. SongStored /\ Knows(track) /\ track \in TrackType /\ at \in Nat /\ FileLength \in Nat
  BY StoredGives DEF MidiInv, Plays, Knows
<1>3. Parsed(at).end \in Nat /\ Parsed(at).previous \in Octet
  BY <1>1, ParsedGives
<1>4. CASE astray
  <2> DEFINE q == Parsed(at).previous
  <2>1. q \in Octet /\ track' = [track EXCEPT !.previous = q]
    BY <1>1, <1>3
  <2> HIDE DEF q
  <2>2. track' \in TrackType /\ track' = [track EXCEPT !.previous = track'.previous]
    BY <1>2, <2>1 DEF TrackType
  <2>3. at' \in Nat /\ UNCHANGED <<song, stored, window, played>> /\ astray' = TRUE
    BY <1>1, <1>3, <1>4
  <2> QED BY <2>2, <2>3, Strays
<1>5. CASE ~astray
  <2> DEFINE ev == song[track.index + 1]
             E == Encoded(ev)
             prev == track.previous
  <2>1. track.index < TrackCount /\ \E k \in 0 .. Len(ev) : NextIs(k, ev[k + 1], prev)
    BY <1>1, <1>5, MidiAtEvent
  <2>2. PICK k \in 0 .. Len(ev) : NextIs(k, ev[k + 1], prev)
    BY <2>1
  <2> DEFINE e == ev[k + 1]
             w == Written(e, prev)
             q == Repeated(e, prev)
  <2>3. /\ played = SubSeq(ev, 1, k) /\ k + 1 \in 1 .. Len(ev) /\ e \in Events
        /\ prev = track.previous /\ prev \in Identifiers /\ E[k + 1].previous = q
        /\ at + Len(w) = track.position + Len(E[k + 1].bytes) /\ Len(w) \in Nat
        /\ Stands(at, w) /\ at + Len(w) <= FileLength
    BY <2>2 DEF NextIs
  <2>4. ev \in Seq(Events)
    <3>1. track.index \in Nat
      BY <1>2 DEF TrackType
    <3> QED BY <1>2, <2>1, <3>1, TrackStands
  <2> HIDE DEF ev, E, prev, e
  <2>5. Parsed(at).event = e /\ Parsed(at).end = at + Len(w) /\ Parsed(at).previous = q
    <3>1. CASE e.id = Meta
      BY <1>2, <2>3, <3>1, MetaReads
    <3>2. CASE e.id # Meta
      BY <1>1, <1>2, <2>3, <3>2, ChannelReads
    <3> QED BY <3>1, <3>2
  <2> HIDE DEF w, q
  <2>6. q \in Octet
    BY <1>3, <2>5
  <2> DEFINE tr == [track EXCEPT !.previous = q]
  <2>7. track' = tr /\ at' = at + Len(w) /\ played' = Append(played, e)
    BY <1>1, <1>5, <2>5
  <2>8. tr \in TrackType /\ tr.index = track.index /\ tr.position = track.position /\ tr.size = track.size /\ tr.previous = q
    BY <1>2, <2>6 DEF TrackType
  <2> HIDE DEF tr
  <2>9. Knows(tr)
    BY <1>2, <2>8 DEF Knows
  <2>10. Append(played, e) = SubSeq(ev, 1, k + 1)
    BY <2>3, <2>4 DEF e
  <2>11. Plays(tr, at + Len(w), Append(played, e), astray)
    <3>1. k + 1 \in 0 .. Len(ev) /\ at + Len(w) \in Nat
      BY <1>2, <2>3
    <3>2. tr.index < TrackCount /\ ev = song[tr.index + 1]
      BY <2>1, <2>8 DEF ev
    <3> QED BY <2>3, <2>8, <2>9, <2>10, <3>1, <3>2 DEF Plays, E
  <2>12. Plays(track', at', played', astray')
    BY <1>1, <2>7, <2>11
  <2>13. UNCHANGED <<song, stored, window>> /\ (hung' => astray')
    BY <1>1
  <2> QED BY <2>12, <2>13, StandsThere
<1> QED BY <1>4, <1>5

\* What a reader that knows where it stands has read
LEMMA MidiPlays ==
  ASSUME MidiInv PROVE PlaysTheTrack
<1>0. SongStored /\ Knows(track) /\ at \in Nat /\ TrackCount \in Nat /\ (hung => astray)
  BY FirstGives DEF MidiInv, Plays
<1>1. track.index \in Nat /\ track.position \in Nat
  BY <1>0 DEF Knows, TrackType
<1>2. CASE EndOfFile(track)
  <2>1. ~(track.index < TrackCount)
    BY <1>0, <1>1, <1>2 DEF EndOfFile
  <2>2. played = << >> /\ (~astray => at >= track.position + track.size)
    BY <2>1 DEF MidiInv, Plays
  <2> QED BY <1>0, <1>2, <2>2 DEF PlaysTheTrack, EndOfTrack
<1>3. CASE ~EndOfFile(track)
  <2> DEFINE ev == song[track.index + 1]
             E == Encoded(ev)
             n == Len(ev)
  <2>1. track.index < TrackCount
    BY <1>0, <1>1, <1>3 DEF EndOfFile
  <2>2. PICK k \in 0 .. n :
          /\ played = SubSeq(ev, 1, k)
          /\ ~astray => at = track.position + Len(E[k].bytes)
    BY <2>1 DEF MidiInv, Plays
  <2>3. ev \in Seq(Events) /\ Stands(Begin(track.index) + 8, TrackBytes(ev)) /\ Begin(track.index) \in Nat
    BY <1>0, <1>1, <2>1, TrackStands
  <2>4. track.position = Begin(track.index) + 8 /\ track.size = Len(TrackBytes(ev))
    BY <1>0, <2>1 DEF Knows
  <2> HIDE DEF ev
  <2>5. n \in Nat /\ Len(TrackBytes(ev)) \in Nat /\ E[n].bytes = TrackBytes(ev) /\ TrackBytes(ev) \in Seq(Octet)
    BY <2>3, TrackGrows DEF TrackBytes
  <2>6. IsPrefix(played, ev) /\ Len(played) = k
    BY <2>2, <2>3 DEF IsPrefix
  <2>7. ASSUME k # n PROVE Len(E[k].bytes) < Len(TrackBytes(ev)) /\ Len(E[k].bytes) \in Nat
    <3> DEFINE j == k + 1
               w == Written(ev[j], E[j - 1].previous)
    <3>1. j \in 1 .. n /\ j - 1 = k
      BY <2>5, <2>7
    <3> HIDE DEF j
    <3>2. /\ Len(E[j - 1].bytes) \in Nat /\ E[j - 1].previous \in Identifiers /\ ev[j] \in Events
          /\ Len(E[j].bytes) = Len(E[j - 1].bytes) + Len(w)
          /\ Len(E[j].bytes) <= Len(TrackBytes(ev))
      BY <1>1, <2>3, <2>4, <3>1, EventStands
    <3>3. w \in Seq(Octet) /\ Len(w) >= 1
      BY <3>2, WrittenGives
    <3> HIDE DEF w, E
    <3>4. Len(w) \in Nat
      BY <3>3
    <3> QED BY <2>5, <3>1, <3>2, <3>3, <3>4
  <2>8. played = ev <=> k = n
    BY <2>2, <2>3, <2>6
  <2>9. ASSUME ~astray PROVE EndOfTrack <=> k = n
    <3>1. at = track.position + Len(E[k].bytes) /\ track.size = Len(TrackBytes(ev))
      BY <2>2, <2>4, <2>9
    <3>2. CASE k = n
      <4>1. at = track.position + track.size
        BY <2>5, <3>1, <3>2
      <4> QED BY <1>0, <3>2, <4>1 DEF EndOfTrack
    <3>3. CASE k # n
      <4> HIDE DEF E, n
      <4>1. ~(at >= track.position + track.size)
        BY <1>1, <2>5, <2>7, <3>1, <3>3
      <4> QED BY <3>3, <4>1 DEF EndOfTrack
    <3> QED BY <3>2, <3>3
  <2>10. IsPrefix(played, ev) /\ (~astray => (EndOfTrack <=> played = ev))
    BY <2>6, <2>8, <2>9
  <2> QED BY <1>0, <1>3, <2>10 DEF PlaysTheTrack, ev
<1> QED BY <1>2, <1>3

\* For any songs: however a client reads events, tracks and the streams of tracks, the events
\* ReadEvent() returned before the stream was moved are the first ones that were written to the
\* track; a reader that NextTrack() or SeekTrack() put at a track reads it from its start, whatever
\* was parsed before; and one that did not stray is at the end of the track when it has read
\* them all, and never reads on for ever (NextTrack, SeekTrack, GetTrackStream, ReadEvent,
\* ReadInteger).
THEOREM PlaysWhatWasWritten == MidiSpec => []PlaysTheTrack
<1>1. MidiInv /\ [MidiNext]_midiVars => MidiInv'
  <2> SUFFICES ASSUME MidiInv, [MidiNext]_midiVars PROVE MidiInv'
    OBVIOUS
  <2>1. ASSUME ~hung, NextTrack PROVE MidiInv'
    BY <2>1, MidiNextTrack
  <2>2. ASSUME ~hung, ReadEvent PROVE MidiInv'
    BY <2>2, MidiReadsEvent
  <2>3. CASE ReadEventThrows
    BY <2>3, MidiThrows
  <2>4. ASSUME ~hung, ReadEventShort PROVE MidiInv'
    BY <2>4, MidiFindsEnd
  <2>5. CASE ReadEventHangs
    BY <2>5, MidiHangs
  <2>6. CASE GetTrackStream
    BY <2>6, MidiGetsStream
  <2>7. ASSUME ~hung, NEW index \in 0 .. MaxTracks, SeekTrack(index) PROVE MidiInv'
    BY <2>7, MidiSeeks
  <2>8. ASSUME NEW offset \in 0 .. window.size, ReadTrackStream(offset) PROVE MidiInv'
    BY <2>8, MidiReadsStream
  <2>9. CASE UNCHANGED midiVars
    <3>1. UNCHANGED <<song, stored, window>> /\ Plays(track', at', played', astray') /\ (hung' => astray')
      BY <2>9 DEF midiVars, MidiInv
    <3> QED BY <3>1, StandsThere
  <2> QED BY <2>1, <2>2, <2>3, <2>4, <2>5, <2>6, <2>7, <2>8, <2>9 DEF MidiNext
<1>2. MidiInv => PlaysTheTrack
  BY MidiPlays
<1> QED BY <1>1, <1>2, MidiStarts, PTL DEF MidiSpec
=============================================================================
