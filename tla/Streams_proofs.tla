--------------------------- MODULE Streams_proofs ---------------------------
(***************************************************************************)
(* Theorems about MemoryStream, Substreams, reader and writer: for any     *)
(* number of Substreams, any bytes, blocks and sequence of calls.          *)
(***************************************************************************)
EXTENDS Streams, SequenceTheorems, NaturalsInduction, WellFoundedInduction, TLAPS

\* What the proofs use everywhere of the constants
LEMMA Sizes ==
  /\ Word \in Nat \ {0} /\ BlockSize \in Nat \ {0} /\ PadBlock \in Nat \ {0}
  /\ MaxLength \in Nat /\ MaxCalls \in Nat
<1>1. (MaxCalls + 3) * (2 * MaxLength + BlockSize + 8) \in Nat
  BY WordAssumption, BlockAssumption
<1>2. Word # 0
  BY <1>1, WordAssumption
<1> QED BY <1>2, WordAssumption, BlockAssumption

USE Sizes

-----------------------------------------------------------------------------
(* Numbers, and what a loop computes                                       *)

LEMMA MinOfTwo ==
  ASSUME NEW a \in Int, NEW b \in Int
  PROVE  Min({a, b}) = IF a <= b THEN a ELSE b
<1> DEFINE m == IF a <= b THEN a ELSE b
<1>1. m \in {a, b} /\ \A y \in {a, b} : m <= y
  OBVIOUS
<1>2. \A x \in {a, b} : (\A y \in {a, b} : x <= y) => x = m
  OBVIOUS
<1> HIDE DEF m
<1>3. Min({a, b}) = m
  BY <1>1, <1>2 DEF Min
<1> QED BY <1>3 DEF m

LEMMA NatSetInduction ==
  ASSUME NEW S, S \subseteq Nat, 0 \in S, \A n \in S : n + 1 \in S
  PROVE  Nat \subseteq S
<1>1. SUFFICES ASSUME Nat \ S # {} PROVE FALSE
  OBVIOUS
<1>2. PICK m \in Nat \ S : \A y \in Nat \ S : ~ (<<y, m>> \in OpToRel(<, Nat))
  BY <1>1, NatLessThanWellFounded, WFMin
<1>3. \A y \in Nat \ S : ~(y < m)
  BY <1>2 DEF OpToRel
<1> QED BY <1>3

\* The turns of a loop: there is a first one and one after each.
Iterates(S, step, start, n) ==
  \E g \in [0 .. n -> S] : g[0] = start /\ \A i \in 1 .. n : g[i] = step[g[i - 1]]

LEMMA Iteration ==
  ASSUME NEW S, NEW step \in [S -> S], NEW start \in S, NEW n \in Nat
  PROVE  Iterates(S, step, start, n)
<1> DEFINE G(m) == {g \in [0 .. m -> S] : g[0] = start /\ \A i \in 1 .. m : g[i] = step[g[i - 1]]}
           N == {m \in Nat : G(m) # {}}
<1>1. 0 \in N
  <2>1. [i \in 0 .. 0 |-> start] \in G(0)
    OBVIOUS
  <2> QED BY <2>1
<1>2. ASSUME NEW m \in N PROVE m + 1 \in N
  <2>1. PICK g : g \in G(m)
    OBVIOUS
  <2> DEFINE f == [i \in 0 .. m + 1 |-> IF i = m + 1 THEN step[g[m]] ELSE g[i]]
  <2>2. f \in [0 .. m + 1 -> S] /\ f[0] = start
    BY <2>1
  <2>3. ASSUME NEW i \in 1 .. m + 1 PROVE f[i] = step[f[i - 1]]
    BY <2>1
  <2>4. f \in G(m + 1)
    <3> HIDE DEF f
    <3> QED BY <2>2, <2>3
  <2> HIDE DEF G, f
  <2> QED BY <2>4
<1>3. Nat \subseteq N
  <2>1. N \subseteq Nat
    OBVIOUS
  <2> HIDE DEF N
  <2> QED BY <1>1, <1>2, <2>1, NatSetInduction
<1>4. n \in N
  BY <1>3
<1> QED BY <1>4 DEF Iterates

\* What holds before the first turn and is kept by each holds after the last.
LEMMA LoopKeeps ==
  ASSUME NEW g, NEW n \in Nat, NEW I, g[0] \in I[0],
         \A i \in 1 .. n : g[i - 1] \in I[i - 1] => g[i] \in I[i]
  PROVE  g[n] \in I[n]
<1> DEFINE N == {m \in Nat : m <= n => g[m] \in I[m]}
<1>1. 0 \in N
  OBVIOUS
<1>2. ASSUME NEW m \in N PROVE m + 1 \in N
  <2>1. SUFFICES ASSUME m + 1 <= n PROVE g[m + 1] \in I[m + 1]
    OBVIOUS
  <2>2. m + 1 \in 1 .. n /\ (m + 1) - 1 = m /\ g[m] \in I[m]
    BY <2>1
  <2> QED BY <2>2
<1>3. Nat \subseteq N
  <2>1. N \subseteq Nat
    OBVIOUS
  <2> HIDE DEF N
  <2> QED BY <1>1, <1>2, <2>1, NatSetInduction
<1> QED BY <1>3

LEMMA UnsignedGives ==
  ASSUME NEW x \in Int
  PROVE  /\ Unsigned(x) \in Nat /\ Unsigned(x) < Word
         /\ 0 <= x /\ x < Word => Unsigned(x) = x
         /\ x < 0 /\ -x < Word => Unsigned(x) = x + Word
<1>1. /\ x % Word \in 0 .. Word - 1
      /\ 0 <= x /\ x < Word => x % Word = x
      /\ x < 0 /\ -x < Word => x % Word = x + Word
  OBVIOUS
<1> QED BY <1>1 DEF Unsigned

\* A block is at least as long as what it is made for, and less than a block longer.
LEMMA RoundUpGives ==
  ASSUME NEW size \in Nat, NEW round \in Nat \ {0}
  PROVE  /\ RoundUp(size, round) \in Nat
         /\ size + round <= Word => size <= RoundUp(size, round) /\ RoundUp(size, round) < size + round
<1> DEFINE x == Unsigned(size + round - 1)
<1>1. x \in Nat /\ (size + round <= Word => x = size + round - 1)
  BY UnsignedGives
<1>2. RoundUp(size, round) = (x \div round) * round
  BY DEF RoundUp
<1> HIDE DEF x
<1>3. x = round * (x \div round) + (x % round) /\ x % round \in 0 .. round - 1 /\ x \div round \in Nat
  BY <1>1
<1>4. (x \div round) * round \in Nat /\ (x \div round) * round = x - (x % round)
  BY <1>1, <1>3
<1> QED BY <1>1, <1>2, <1>3, <1>4

-----------------------------------------------------------------------------
(* Streams, and where a handle stands in the memory                        *)

Bytes == 0 .. 255
MemoryType == [data : Seq(Bytes), length : Nat, position : Nat]
WindowType == [open : BOOLEAN, offset : 0 .. MaxLength, length : 0 .. Word - 1, position : Nat]
AllStreams ==
  {f \in [Streams -> MemoryType \cup WindowType] :
     f[Memory] \in MemoryType /\ \A g \in Substreams : f[g] \in WindowType}

LEMMA BytesAre == Octets \subseteq Bytes /\ Junk \in Bytes
  BY ByteAssumption DEF Bytes

\* A place in the memory is position or offset + position, which is below Word.
Spot(st, h) == IF h = Memory THEN st[h].position ELSE st[h].offset + st[h].position

\* The data has the block that its length needs.
Backed(m) == m.length <= Len(m.data) /\ Len(m.data) < m.length + BlockSize

Stray(st, h) == st[h].position > st[h].length \/ Spot(st, h) > st[Memory].length

\* The bytes that h has left, in the memory and in its window
Left(st, h) ==
  IF h = Memory THEN st[h].length - st[h].position
  ELSE Min({st[h].length - st[h].position, st[Memory].length - Spot(st, h)})

\* Other windows are as they were, and h has moved by the bytes that it got.
SameWindows(st, h, r) ==
  \A g \in Substreams : r.s[g] = IF g = h THEN [st[g] EXCEPT !.position = @ + Len(r.got)] ELSE st[g]
Stands(st, h, r) ==
  \/ r.s[Memory].position = Spot(st, h) + Len(r.got)
  \/ h # Memory /\ Len(r.got) = 0 /\ r.s[Memory].position = st[Memory].position

\* What reading some bytes on behalf of h does
Reads(st, h, r) ==
  /\ r.s \in AllStreams /\ r.got \in Seq(Bytes) /\ SameWindows(st, h, r) /\ Stands(st, h, r)
  /\ r.s[Memory].data = st[Memory].data /\ r.s[Memory].length = st[Memory].length
  /\ Len(r.got) > 0 => Spot(st, h) + Len(r.got) <= Len(st[Memory].data)
  /\ \A i \in 1 .. Len(r.got) : r.got[i] = st[Memory].data[Spot(st, h) + i]

\* What writing some bytes on behalf of h does
Writes(st, h, r) ==
  /\ r.s \in AllStreams /\ r.got \in Seq(Bytes) /\ SameWindows(st, h, r) /\ Stands(st, h, r)
  /\ Backed(r.s[Memory]) /\ r.s[Memory].length >= st[Memory].length
  /\ r.s[Memory].length \in {st[Memory].length, Spot(st, h) + Len(r.got)}
  /\ Len(r.got) > 0 => Spot(st, h) + Len(r.got) <= r.s[Memory].length
  /\ \A i \in 1 .. Len(r.got) : r.s[Memory].data[Spot(st, h) + i] = r.got[i]
  /\ \A i \in 1 .. st[Memory].length :
       i \notin Spot(st, h) + 1 .. Spot(st, h) + Len(r.got) => r.s[Memory].data[i] = st[Memory].data[i]

LEMMA StreamsType ==
  ASSUME NEW st \in AllStreams, NEW h \in Streams
  PROVE  /\ Memory \in Streams /\ Memory \notin Substreams /\ h \in Substreams \cup {Memory}
         /\ st[Memory] \in MemoryType /\ (h # Memory => st[h] \in WindowType)
         /\ st[Memory].length \in Nat /\ st[Memory].position \in Nat /\ st[Memory].data \in Seq(Bytes)
         /\ st[h].position \in Nat /\ st[h].length \in Nat
         /\ h # Memory => st[h].offset \in Nat /\ st[h].offset <= MaxLength /\ st[h].length < Word
         /\ Spot(st, h) \in Nat
<1>1. Memory \in Streams /\ Memory \notin Substreams /\ h \in Substreams \cup {Memory}
  BY ByteAssumption DEF Streams, Memory
<1>2. st[Memory] \in MemoryType /\ (h # Memory => st[h] \in WindowType)
  BY <1>1 DEF AllStreams
<1>3. st[Memory].length \in Nat /\ st[Memory].position \in Nat /\ st[Memory].data \in Seq(Bytes)
  BY <1>2 DEF MemoryType
<1>4. h # Memory => st[h].offset \in Nat /\ st[h].offset <= MaxLength /\ st[h].length < Word /\ st[h].length \in Nat /\ st[h].position \in Nat
  BY <1>2 DEF WindowType
<1> QED BY <1>1, <1>2, <1>3, <1>4 DEF Spot

LEMMA LeftIs ==
  ASSUME NEW st \in AllStreams, NEW h \in Streams
  PROVE  Left(st, h) \in Int /\ (~Stray(st, h) => Left(st, h) >= 0)
<1>1. st[h].length \in Nat /\ st[h].position \in Nat /\ st[Memory].length \in Nat /\ Spot(st, h) \in Nat
  BY StreamsType
<1> DEFINE m == Min({st[h].length - st[h].position, st[Memory].length - Spot(st, h)})
<1>2. m \in Int /\ (~Stray(st, h) => m >= 0)
  BY <1>1, MinOfTwo DEF Stray
<1> QED BY <1>1, <1>2 DEF Left, Stray

LEMMA BytesAtGives ==
  ASSUME NEW data \in Seq(Bytes), NEW at \in Nat, NEW n \in Nat
  PROVE  /\ BytesAt(data, at, n) \in Seq(Bytes) /\ Len(BytesAt(data, at, n)) = n
         /\ \A i \in 1 .. n : BytesAt(data, at, n)[i] = IF at + i <= Len(data) THEN data[at + i] ELSE Junk
<1> DEFINE b == [i \in 1 .. n |-> IF at + i <= Len(data) THEN data[at + i] ELSE Junk]
<1>1. \A i \in 1 .. n : at + i <= Len(data) => data[at + i] \in Bytes
  OBVIOUS
<1>2. b \in [1 .. n -> Bytes]
  BY <1>1, BytesAre
<1>3. b \in Seq(Bytes) /\ Len(b) = n
  BY <1>2, SeqDef
<1> QED BY <1>3 DEF BytesAt

LEMMA OverwriteGives ==
  ASSUME NEW data \in Seq(Bytes), NEW at \in Nat, NEW bytes \in Seq(Bytes)
  PROVE  /\ Overwrite(data, at, bytes) \in Seq(Bytes) /\ Len(Overwrite(data, at, bytes)) = Len(data)
         /\ \A i \in 1 .. Len(data) :
              Overwrite(data, at, bytes)[i] = IF i \in at + 1 .. at + Len(bytes) THEN bytes[i - at] ELSE data[i]
<1> DEFINE o == [i \in 1 .. Len(data) |-> IF i \in at + 1 .. at + Len(bytes) THEN bytes[i - at] ELSE data[i]]
<1>1. DOMAIN data = 1 .. Len(data) /\ Len(data) \in Nat
  OBVIOUS
<1>2. o \in [1 .. Len(data) -> Bytes]
  OBVIOUS
<1>3. o \in Seq(Bytes) /\ Len(o) = Len(data)
  BY <1>1, <1>2, SeqDef
<1> QED BY <1>1, <1>3 DEF Overwrite

\* SetLength: a new block, with what fits of the old one
LEMMA SetLengthGives ==
  ASSUME NEW m \in MemoryType, NEW length \in Nat
  PROVE  LET n == SetLength(m, length)
         IN  /\ n \in MemoryType /\ n.length = length /\ n.position = m.position
             /\ length + BlockSize <= Word => Backed(n)
             /\ \A i \in 1 .. Len(n.data) : i <= Len(m.data) => n.data[i] = m.data[i]
<1> DEFINE size == RoundUp(length, BlockSize)
           data == [i \in 1 .. size |-> IF i <= Len(m.data) THEN m.data[i] ELSE Junk]
           n == SetLength(m, length)
<1>0. m.data \in Seq(Bytes) /\ m.position \in Nat /\ m = [data |-> m.data, length |-> m.length, position |-> m.position]
  BY DEF MemoryType
<1>1. size \in Nat /\ (length + BlockSize <= Word => length <= size /\ size < length + BlockSize)
  BY RoundUpGives
<1>2. n = [data |-> data, length |-> length, position |-> m.position]
  <2> DEFINE k == [m EXCEPT !.length = length]
  <2>1. k = [data |-> m.data, length |-> length, position |-> m.position]
    BY <1>0
  <2>2. n = [k EXCEPT !.data = [i \in 1 .. size |-> IF i <= Len(k.data) THEN k.data[i] ELSE Junk]]
    BY Zenon DEF SetLength, Allocate
  <2> HIDE DEF k, n, size
  <2>3. k.data = m.data
    BY <2>1
  <2> QED BY <2>1, <2>2, <2>3
<1> HIDE DEF size
<1>3. data \in [1 .. size -> Bytes]
  BY <1>0, BytesAre
<1>4. data \in Seq(Bytes) /\ Len(data) = size
  BY <1>1, <1>3, SeqDef
<1> HIDE DEF n
<1> QED BY <1>0, <1>1, <1>2, <1>4 DEF MemoryType, Backed, n

-----------------------------------------------------------------------------
(* Accesses to the memory                                                  *)

\* A MemoryStream with these fields
Stream(data, length, position) == [data |-> data, length |-> length, position |-> position]

LEMMA StreamFields ==
  ASSUME NEW m \in MemoryType
  PROVE  /\ m = Stream(m.data, m.length, m.position)
         /\ m.data \in Seq(Bytes) /\ m.length \in Nat /\ m.position \in Nat
BY DEF MemoryType, Stream

LEMMA StreamIs ==
  ASSUME NEW D, NEW L, NEW P
  PROVE  /\ Stream(D, L, P).data = D /\ Stream(D, L, P).length = L /\ Stream(D, L, P).position = P
         /\ D \in Seq(Bytes) /\ L \in Nat /\ P \in Nat => Stream(D, L, P) \in MemoryType
BY DEF MemoryType, Stream

\* n bytes read at P, which leave the memory if b
ReadsFrom(D, L, P, size) ==
  \E n \in Nat, q \in Nat, b \in BOOLEAN :
    /\ MemoryRead(Stream(D, L, P), size) = Outcome(Stream(D, L, q), BytesAt(D, P, n), b)
    /\ b <=> P + n > Len(D)
    /\ n <= size /\ (P + n < Word => q = P + n)
    /\ P <= L /\ L < Word => n = IF size <= L - P THEN size ELSE L - P

LEMMA MemoryReadGives ==
  ASSUME NEW D \in Seq(Bytes), NEW L \in Nat, NEW P \in Nat, NEW size \in Nat
  PROVE  ReadsFrom(D, L, P, size)
<1> DEFINE w == Unsigned(L - P)
           n == Min({size, w})
           q == Unsigned(P + n)
           m == Stream(D, L, P)
<1>1. w \in Nat /\ (P <= L /\ L < Word => w = L - P)
  BY UnsignedGives
<1>2. m.data = D /\ m.length = L /\ m.position = P /\ [m EXCEPT !.position = q] = Stream(D, L, q)
  BY DEF Stream
<1>3. MemoryRead(m, size) = Outcome([m EXCEPT !.position = Unsigned(@ + n)], BytesAt(D, P, n), P + n > Len(D))
  BY <1>2, Zenon DEF MemoryRead
<1>4. MemoryRead(m, size) = Outcome(Stream(D, L, q), BytesAt(D, P, n), P + n > Len(D))
  BY <1>2, <1>3, Zenon
<1> HIDE DEF w, m
<1>5. n = IF size <= w THEN size ELSE w
  BY <1>1, MinOfTwo
<1> HIDE DEF n
<1>6. n \in Nat /\ n <= size /\ (P <= L /\ L < Word => n = IF size <= L - P THEN size ELSE L - P)
  BY <1>1, <1>5
<1>7. q \in Nat /\ (P + n < Word => q = P + n)
  BY <1>6, UnsignedGives
<1> DEFINE b == P + n > Len(D)
<1>8. b \in BOOLEAN /\ (b <=> P + n > Len(D))
  OBVIOUS
<1>9. MemoryRead(Stream(D, L, P), size) = Outcome(Stream(D, L, q), BytesAt(D, P, n), b)
  BY <1>4, Zenon DEF m
<1> HIDE DEF b
<1> QED BY <1>6, <1>7, <1>8, <1>9 DEF ReadsFrom

WritesFrom(D, L, P, bytes) ==
  \E E \in Seq(Bytes), M \in Nat, q \in Nat, b \in BOOLEAN :
    /\ MemoryWrite(Stream(D, L, P), bytes) = Outcome(Stream(E, M, q), bytes, b)
    /\ P + Len(bytes) + BlockSize <= Word /\ L <= Len(D) /\ Len(D) < L + BlockSize =>
         /\ ~b /\ q = P + Len(bytes) /\ M <= Len(E) /\ Len(E) < M + BlockSize
         /\ M = IF P + Len(bytes) > L THEN P + Len(bytes) ELSE L
         /\ \A i \in 1 .. Len(bytes) : E[P + i] = bytes[i]
         /\ \A i \in 1 .. L : i \notin P + 1 .. P + Len(bytes) => E[i] = D[i]

LEMMA MemoryWriteGives ==
  ASSUME NEW D \in Seq(Bytes), NEW L \in Nat, NEW P \in Nat, NEW bytes \in Seq(Bytes)
  PROVE  WritesFrom(D, L, P, bytes)
<1> DEFINE end == Unsigned(P + Len(bytes))
           m == Stream(D, L, P)
           grown == IF end > L THEN SetLength(m, end) ELSE m
           G == grown.data
           M == grown.length
           E == Overwrite(G, P, bytes)
           b == P + Len(bytes) > Len(G)
<1>0. Len(bytes) \in Nat /\ Len(D) \in Nat
  OBVIOUS
<1>1. end \in Nat /\ (P + Len(bytes) < Word => end = P + Len(bytes))
  <2> DEFINE e == P + Len(bytes)
  <2>1. e \in Nat
    BY <1>0
  <2> HIDE DEF e
  <2>2. Unsigned(e) \in Nat /\ (e < Word => Unsigned(e) = e)
    BY <2>1, UnsignedGives
  <2> QED BY <2>2 DEF e
<1>2. m.data = D /\ m.length = L /\ m.position = P /\ m \in MemoryType
  BY StreamIs
<1>3. MemoryWrite(m, bytes) = Outcome([grown EXCEPT !.data = Overwrite(@, P, bytes), !.position = end], bytes, b)
  BY <1>2, Zenon DEF MemoryWrite
<1> HIDE DEF end, m
<1>4. /\ grown \in MemoryType
      /\ M = IF end > L THEN end ELSE L
      /\ end + BlockSize <= Word /\ L <= Len(D) /\ Len(D) < L + BlockSize => M <= Len(G) /\ Len(G) < M + BlockSize
      /\ \A i \in 1 .. Len(G) : i <= Len(D) => G[i] = D[i]
  <2>1. CASE end > L
    <3>1. grown = SetLength(m, end)
      BY <2>1
    <3> HIDE DEF grown
    <3>2. /\ grown \in MemoryType /\ grown.length = end
          /\ end + BlockSize <= Word => Backed(grown)
          /\ \A i \in 1 .. Len(grown.data) : i <= Len(m.data) => grown.data[i] = m.data[i]
      BY <1>1, <1>2, <3>1, SetLengthGives
    <3> QED BY <1>2, <2>1, <3>2 DEF Backed
  <2>2. CASE ~(end > L)
    <3>1. grown = m
      BY <2>2
    <3> HIDE DEF grown
    <3> QED BY <1>2, <2>2, <3>1
  <2> QED BY <2>1, <2>2
<1> HIDE DEF grown
<1>5. /\ G \in Seq(Bytes) /\ M \in Nat /\ grown = [data |-> G, length |-> M, position |-> grown.position]
  BY <1>4 DEF MemoryType
<1>6. [grown EXCEPT !.data = Overwrite(@, P, bytes), !.position = end] = Stream(E, M, end)
  <2> HIDE DEF G, M
  <2>1. grown.data = G
    BY <1>5
  <2> DEFINE k == [grown EXCEPT !.data = E]
  <2>2. k = [data |-> E, length |-> M, position |-> grown.position]
    <3> HIDE DEF E
    <3> QED BY <1>5, SMTT(30)
  <2>3. [grown EXCEPT !.data = Overwrite(@, P, bytes), !.position = end] = [k EXCEPT !.position = end]
    BY <2>1, Zenon
  <2> HIDE DEF k, E
  <2>4. [k EXCEPT !.position = end] = [data |-> E, length |-> M, position |-> end]
    BY <2>2
  <2> QED BY <2>3, <2>4 DEF Stream
<1> HIDE DEF G, M
<1>7. /\ E \in Seq(Bytes) /\ Len(E) = Len(G)
      /\ \A i \in 1 .. Len(G) : E[i] = IF i \in P + 1 .. P + Len(bytes) THEN bytes[i - P] ELSE G[i]
  BY <1>5, OverwriteGives, ZenonT(40)
<1>8. MemoryWrite(m, bytes) = Outcome(Stream(E, M, end), bytes, b) /\ b \in BOOLEAN
  BY <1>3, <1>6
<1>9. b <=> P + Len(bytes) > Len(G)
  OBVIOUS
<1> HIDE DEF E, b
<1>10. ASSUME P + Len(bytes) + BlockSize <= Word, L <= Len(D), Len(D) < L + BlockSize
       PROVE  /\ ~b /\ end = P + Len(bytes) /\ M <= Len(E) /\ Len(E) < M + BlockSize
              /\ M = IF P + Len(bytes) > L THEN P + Len(bytes) ELSE L
              /\ \A i \in 1 .. Len(bytes) : E[P + i] = bytes[i]
              /\ \A i \in 1 .. L : i \notin P + 1 .. P + Len(bytes) => E[i] = D[i]
  <2>0. Len(G) \in Nat
    BY <1>5
  <2>1. end = P + Len(bytes)
    BY <1>0, <1>1, <1>10
  <2>2. M <= Len(G) /\ Len(G) < M + BlockSize /\ M = IF P + Len(bytes) > L THEN P + Len(bytes) ELSE L
    BY <1>0, <1>4, <1>10, <2>1
  <2>3. ~b
    BY <1>0, <1>5, <1>9, <2>0, <2>2
  <2>4. ASSUME NEW i \in 1 .. Len(bytes) PROVE E[P + i] = bytes[i]
    <3> DEFINE x == Len(G)
               n == Len(bytes)
    <3>0. x \in Nat /\ n \in Nat /\ i \in 1 .. n /\ M <= x /\ M = IF P + n > L THEN P + n ELSE L
      BY <2>0, <2>2
    <3>1. P + i \in 1 .. x /\ P + i \in P + 1 .. P + n /\ (P + i) - P = i
      <4> HIDE DEF x, n, M
      <4> QED BY <3>0
    <3> QED BY <1>7, <3>1
  <2>5. ASSUME NEW i \in 1 .. L, i \notin P + 1 .. P + Len(bytes) PROVE E[i] = D[i]
    <3>1. i \in 1 .. Len(G) /\ i <= Len(D)
      BY <1>0, <1>5, <1>10, <2>0, <2>2
    <3> QED BY <1>4, <1>7, <2>5, <3>1
  <2> QED BY <1>7, <2>1, <2>2, <2>3, <2>4, <2>5
<1> QED
  <2>1. MemoryWrite(Stream(D, L, P), bytes) = Outcome(Stream(E, M, end), bytes, b)
    BY <1>8 DEF m
  <2> QED BY <1>1, <1>5, <1>7, <1>8, <1>10, <2>1 DEF WritesFrom

\* The streams after an access to the memory on behalf of h
LEMMA MovedGives ==
  ASSUME NEW st \in AllStreams, NEW h \in Streams, NEW m \in MemoryType, NEW got \in Seq(Bytes), NEW bad
  PROVE  LET t == Moved(st, h, Outcome(m, got, bad))
         IN  /\ t \in AllStreams /\ t[Memory] = m
             /\ \A g \in Substreams \ {h} : t[g] = st[g]
             /\ h # Memory /\ st[h].position + Len(got) < Word =>
                  t[h] = [st[h] EXCEPT !.position = @ + Len(got)]
<1> DEFINE r == Outcome(m, got, bad)
           t == Moved(st, h, r)
<1>1. r.s = m /\ r.got = got
  BY DEF Outcome
<1>2. /\ Memory \in Streams /\ Memory \notin Substreams /\ h \in Substreams \cup {Memory}
      /\ Substreams \subseteq Streams /\ st \in [Streams -> MemoryType \cup WindowType]
      /\ \A g \in Substreams : st[g] \in WindowType
  BY StreamsType DEF Streams, AllStreams
<1>3. CASE h = Memory
  <2>1. t = [st EXCEPT ![Memory] = m]
    BY <1>1, <1>3 DEF Moved
  <2> HIDE DEF t
  <2>2. t \in [Streams -> MemoryType \cup WindowType] /\ t[Memory] = m /\ \A g \in Substreams : t[g] = st[g]
    BY <1>2, <2>1
  <2>3. t \in AllStreams
    BY <1>2, <2>2 DEF AllStreams
  <2> QED BY <1>3, <2>2, <2>3 DEF t, r
<1>4. CASE h # Memory
  <2> DEFINE u == [st EXCEPT ![Memory] = m]
             w == [st[h] EXCEPT !.position = Unsigned(@ + Len(got))]
  <2>1. t = [u EXCEPT ![h].position = Unsigned(@ + Len(got))]
    BY <1>1, <1>4, Zenon DEF Moved
  <2>2. u \in [Streams -> MemoryType \cup WindowType] /\ u[Memory] = m /\ \A g \in Substreams : u[g] = st[g]
    BY <1>2
  <2> HIDE DEF u, r
  <2>3. t = [u EXCEPT ![h] = [u[h] EXCEPT !.position = Unsigned(@ + Len(got))]]
    BY <2>1, Zenon
  <2>4. u[h] = st[h]
    BY <1>2, <1>4, <2>2
  <2>5. t = [u EXCEPT ![h] = w]
    BY <2>3, <2>4, Zenon
  <2>6. st[h] \in WindowType /\ st[h].position \in Nat /\ Len(got) \in Nat
    BY StreamsType, <1>4
  <2> DEFINE e == st[h].position + Len(got)
  <2>7. e \in Nat
    BY <2>6
  <2>8. w = [st[h] EXCEPT !.position = Unsigned(e)]
    BY Zenon
  <2>9. Unsigned(e) \in Nat /\ (e < Word => Unsigned(e) = e)
    <3> HIDE DEF e
    <3> QED BY <2>7, UnsignedGives
  <2> DEFINE q == Unsigned(e)
  <2> HIDE DEF e, w, t
  <2>10. w \in WindowType
    <3>1. w = [st[h] EXCEPT !.position = q]
      BY <2>8
    <3> HIDE DEF q
    <3> QED BY <2>6, <2>9, <3>1 DEF WindowType, q
  <2>11. t \in AllStreams /\ t[Memory] = m /\ t[h] = w /\ \A g \in Substreams \ {h} : t[g] = st[g]
    BY <1>2, <1>4, <2>2, <2>5, <2>10 DEF AllStreams
  <2>12. e < Word => w = [st[h] EXCEPT !.position = @ + Len(got)]
    <3>1. e < Word => w = [st[h] EXCEPT !.position = e]
      BY <2>8, <2>9
    <3> QED BY <3>1, Zenon DEF e
  <2> QED BY <2>11, <2>12 DEF t, e, r
<1> QED BY <1>3, <1>4

LEMMA ClampGives ==
  ASSUME NEW s \in WindowType, NEW size \in Nat
  PROVE  /\ Clamp(s, size) \in Nat
         /\ s.position <= s.length /\ s.position + size < Word =>
              Clamp(s, size) = IF size <= s.length - s.position THEN size ELSE s.length - s.position
<1> DEFINE L == s.length
           P == s.position
<1>1. L \in Nat /\ P \in Nat /\ L < Word
  BY DEF WindowType
<1>2. Clamp(s, size) = IF Unsigned(P + size) > L THEN Unsigned(L - P) ELSE size
  BY DEF Clamp
<1> HIDE DEF L, P
<1>3. Unsigned(L - P) \in Nat /\ (P <= L => Unsigned(L - P) = L - P)
  BY <1>1, UnsignedGives
<1>4. P + size < Word => Unsigned(P + size) = P + size
  BY <1>1, UnsignedGives
<1>5. /\ Clamp(s, size) \in Nat
      /\ P <= L /\ P + size < Word => Clamp(s, size) = IF size <= L - P THEN size ELSE L - P
  BY <1>1, <1>2, <1>3, <1>4
<1> QED BY <1>5 DEF L, P

\* The memory as an access on behalf of h finds it, and the bytes it asks for
Behind(st, h) == IF h = Memory THEN st[h] ELSE Sought(st, h)
Asked(st, h, size) == IF h = Memory THEN size ELSE Clamp(st[h], size)

LEMMA BehindGives ==
  ASSUME NEW st \in AllStreams, NEW h \in Streams, NEW size \in Nat
  PROVE  /\ \E P \in Nat : /\ Behind(st, h) = Stream(st[Memory].data, st[Memory].length, P)
                           /\ Spot(st, h) < Word => P = Spot(st, h)
         /\ Asked(st, h, size) \in Nat
         /\ ~Stray(st, h) /\ Spot(st, h) + size < Word =>
              Asked(st, h, size) = IF h = Memory \/ size <= st[h].length - st[h].position
                                     THEN size ELSE st[h].length - st[h].position
<1> USE StreamsType
<1>1. CASE h = Memory
  <2>1. st[Memory] = Stream(st[Memory].data, st[Memory].length, st[Memory].position)
    BY StreamFields
  <2> QED BY <1>1, <2>1 DEF Behind, Asked, Spot
<1>2. CASE h # Memory
  <2> DEFINE p == Unsigned(st[h].offset + st[h].position)
             m == st[Memory]
  <2>1. Sought(st, h) = [m EXCEPT !.position = p]
    BY Zenon DEF Sought
  <2>2. m = Stream(m.data, m.length, m.position)
    BY StreamFields
  <2>3. Spot(st, h) \in Nat /\ Spot(st, h) = st[h].offset + st[h].position
    BY <1>2 DEF Spot
  <2>4. p = Unsigned(Spot(st, h))
    BY <2>3
  <2> HIDE DEF p
  <2>5. p \in Nat /\ (Spot(st, h) < Word => p = Spot(st, h))
    BY <2>3, <2>4, UnsignedGives
  <2>6. Sought(st, h) = Stream(m.data, m.length, p)
    <3> HIDE DEF m
    <3> QED BY <2>1, <2>2 DEF Stream
  <2>7. Behind(st, h) = Sought(st, h) /\ Asked(st, h, size) = Clamp(st[h], size)
    BY <1>2 DEF Behind, Asked
  <2>8. Asked(st, h, size) \in Nat
    BY <1>2, <2>7, ClampGives
  <2>9. ASSUME ~Stray(st, h), Spot(st, h) + size < Word
        PROVE  Asked(st, h, size) = IF size <= st[h].length - st[h].position
                                      THEN size ELSE st[h].length - st[h].position
    <3>1. st[h].position <= st[h].length
      BY <2>9 DEF Stray
    <3>2. st[h].position + size < Word
      BY <1>2, <2>3, <2>9
    <3> QED BY <1>2, <2>7, <3>1, <3>2, ClampGives
  <2> QED BY <1>2, <2>5, <2>6, <2>7, <2>8, <2>9
<1> QED BY <1>1, <1>2

\* Where h stands after it has got some bytes
LEMMA AfterGives ==
  ASSUME NEW st \in AllStreams, NEW h \in Streams, NEW r, r.s \in AllStreams, r.got \in Seq(Bytes),
         SameWindows(st, h, r), Stands(st, h, r)
  PROVE  /\ r.s[h].position = st[h].position + Len(r.got)
         /\ Spot(r.s, h) = Spot(st, h) + Len(r.got)
         /\ h # Memory => r.s[h].offset = st[h].offset /\ r.s[h].length = st[h].length
<1> USE StreamsType
<1>0. Len(r.got) \in Nat
  OBVIOUS
<1>1. CASE h = Memory
  BY <1>1 DEF Stands, Spot
<1>2. CASE h # Memory
  <2> DEFINE n == Len(r.got)
             w == st[h]
  <2>1. w \in WindowType /\ h \in Substreams
    BY <1>2
  <2>2. r.s[h] = [w EXCEPT !.position = @ + n]
    BY <2>1, Zenon DEF SameWindows
  <2>3. r.s[h] = [w EXCEPT !.position = w.position + n]
    BY <2>2, Zenon
  <2> DEFINE q == w.position + n
             v == r.s[h]
  <2> HIDE DEF q, v, w
  <2>4. v.position = q /\ v.offset = w.offset /\ v.length = w.length
    BY <2>1, <2>3 DEF WindowType, q, v
  <2> QED BY <1>0, <1>2, <2>4, SMTT(30) DEF Spot, q, v, w
<1> QED BY <1>1, <1>2

-----------------------------------------------------------------------------
(* Accesses through a handle                                               *)

\* The integers of a state are small enough for an access of size bytes.
Fits(st, h, size) ==
  /\ Backed(st[Memory]) /\ st[Memory].length < Word
  /\ Spot(st, h) + size + BlockSize <= Word

\* A read gives the bytes at the spot of h; if h is not astray, as many as it
\* has left, and it does not leave the memory.
LEMMA ReadGives ==
  ASSUME NEW st \in AllStreams, NEW h \in Streams, NEW size \in Nat
  PROVE  LET r == Read(st, h, size)
         IN  /\ r.s \in AllStreams /\ r.got \in Seq(Bytes) /\ r.bad \in BOOLEAN
             /\ Fits(st, h, size) =>
                  /\ ~r.bad => Reads(st, h, r) /\ Len(r.got) <= size
                  /\ ~Stray(st, h) => ~r.bad /\ Len(r.got) = IF size <= Left(st, h) THEN size ELSE Left(st, h)
<1> DEFINE D == st[Memory].data
           L == st[Memory].length
           S == Spot(st, h)
           c == Asked(st, h, size)
           r == Read(st, h, size)
<1>1. D \in Seq(Bytes) /\ L \in Nat /\ S \in Nat /\ c \in Nat /\ Len(D) \in Nat
  <2>1. c \in Nat
    BY BehindGives
  <2>2. D \in Seq(Bytes) /\ L \in Nat /\ S \in Nat
    BY StreamsType
  <2> QED BY <2>1, <2>2
<1>2. PICK P \in Nat : Behind(st, h) = Stream(D, L, P) /\ (S < Word => P = S)
  BY BehindGives
<1> DEFINE a == MemoryRead(Stream(D, L, P), c)
<1>3. r = Outcome(Moved(st, h, a), a.got, a.bad \/ Len(a.got) > size)
  <2>1. a = IF h = Memory THEN MemoryRead(st[h], size) ELSE MemoryRead(Sought(st, h), Clamp(st[h], size))
    BY <1>2 DEF Behind, Asked
  <2> HIDE DEF a
  <2> QED BY <2>1, Zenon DEF Read
<1> HIDE DEF r, c
<1>4. PICK n \in Nat, q \in Nat, b \in BOOLEAN :
        /\ a = Outcome(Stream(D, L, q), BytesAt(D, P, n), b)
        /\ b <=> P + n > Len(D)
        /\ n <= c /\ (P + n < Word => q = P + n)
        /\ P <= L /\ L < Word => n = IF c <= L - P THEN c ELSE L - P
  <2>1. ReadsFrom(D, L, P, c)
    BY <1>1, MemoryReadGives
  <2> HIDE DEF D, L
  <2> QED BY <2>1 DEF ReadsFrom
<1> DEFINE got == BytesAt(D, P, n)
           m == Stream(D, L, q)
           t == Moved(st, h, Outcome(m, got, b))
<1>5. /\ got \in Seq(Bytes) /\ Len(got) = n
      /\ \A i \in 1 .. n : got[i] = IF P + i <= Len(D) THEN D[P + i] ELSE Junk
  BY <1>1, BytesAtGives, ZenonT(40)
<1>6. m \in MemoryType /\ m.data = D /\ m.length = L /\ m.position = q
  BY <1>1, StreamIs
<1> HIDE DEF a, got, m
<1>7. r.s = t /\ r.got = got /\ (r.bad <=> P + n > Len(D) \/ n > size) /\ r.bad \in BOOLEAN
  <2>1. r = Outcome(t, got, b \/ Len(got) > size)
    BY <1>3, <1>4 DEF got, m, Outcome
  <2> HIDE DEF t
  <2> QED BY <1>4, <1>5, <2>1 DEF Outcome
<1>8. /\ t \in AllStreams /\ t[Memory] = m
      /\ \A g \in Substreams \ {h} : t[g] = st[g]
      /\ h # Memory /\ st[h].position + n < Word => t[h] = [st[h] EXCEPT !.position = @ + Len(got)]
  BY <1>5, <1>6, MovedGives
<1> HIDE DEF t
<1>9. ASSUME Fits(st, h, size), ~r.bad PROVE Reads(st, h, r) /\ n <= size
  <2>1. n <= size /\ P + n <= Len(D) /\ P = S /\ q = S + n /\ S + n < Word
    <3>1. P + n <= Len(D) /\ n <= size
      BY <1>1, <1>7, <1>9
    <3>2. S + size < Word
      BY <1>1, <1>9 DEF Fits
    <3> HIDE DEF S, D, L
    <3> QED BY <1>1, <1>2, <1>4, <3>1, <3>2
  <2>2. h # Memory => st[h].position + n < Word
    BY <2>1, StreamsType, SMTT(30) DEF Spot
  <2>3. SameWindows(st, h, r)
    <3>1. h \in Substreams \cup {Memory} /\ Memory \notin Substreams
      BY StreamsType
    <3>2. ASSUME NEW g \in Substreams
          PROVE  r.s[g] = IF g = h THEN [st[g] EXCEPT !.position = @ + Len(r.got)] ELSE st[g]
      <4>1. CASE g = h
        BY <1>7, <1>8, <2>2, <3>1, <4>1, Zenon
      <4>2. CASE g # h
        BY <1>7, <1>8, <4>2
      <4> QED BY <4>1, <4>2, Zenon
    <3> QED BY <3>2, Zenon DEF SameWindows
  <2>4. r.s[Memory].position = S + n /\ r.s[Memory].data = D /\ r.s[Memory].length = L
    BY <1>6, <1>7, <1>8, <2>1
  <2>5. \A i \in 1 .. n : got[i] = D[S + i]
    <3> HIDE DEF S, D
    <3> QED BY <1>1, <1>5, <2>1
  <2> QED BY <1>5, <1>7, <1>8, <2>1, <2>3, <2>4, <2>5 DEF Reads, Stands
<1>10. ASSUME Fits(st, h, size), ~Stray(st, h)
       PROVE  ~r.bad /\ n = IF size <= Left(st, h) THEN size ELSE Left(st, h)
  <2>1. P = S /\ S <= L /\ L <= Len(D) /\ L < Word /\ S + size < Word
    <3>1. S <= L /\ L <= Len(D) /\ L < Word /\ S + size < Word
      BY <1>1, <1>10 DEF Fits, Backed, Stray
    <3> HIDE DEF S, D, L
    <3> QED BY <1>1, <1>2, <3>1
  <2>2. n = IF c <= L - S THEN c ELSE L - S
    BY <1>4, <2>1
  <2>3. n <= L - S
    BY <1>1, <2>1, <2>2
  <2>4. CASE h = Memory
    <3>1. c = size /\ Left(st, h) = L - S
      BY <2>4 DEF Asked, Left, Spot, c
    <3> HIDE DEF S, D, L
    <3> QED BY <1>1, <1>7, <2>1, <2>2, <2>3, <2>4, <3>1
  <2>5. CASE h # Memory
    <3> DEFINE w == st[h].length - st[h].position
    <3>1. w \in Nat
      BY <1>10, StreamsType DEF Stray
    <3>2. c = IF size <= w THEN size ELSE w
      BY <1>10, <2>1, <2>5, BehindGives DEF c
    <3>3. Left(st, h) = Min({w, L - S})
      BY <2>5 DEF Left
    <3> HIDE DEF S, D, L, w
    <3>4. Left(st, h) = IF w <= L - S THEN w ELSE L - S
      BY <1>1, <3>1, <3>3, MinOfTwo
    <3> QED BY <1>1, <1>7, <2>1, <2>2, <2>3, <3>1, <3>2, <3>4
  <2> QED BY <2>4, <2>5
<1> QED BY <1>5, <1>7, <1>8, <1>9, <1>10 DEF r

\* A write puts the bytes at the spot of h and changes no other; if h is not
\* astray, as many as its window takes.
LEMMA WriteGives ==
  ASSUME NEW st \in AllStreams, NEW h \in Streams, NEW bytes \in Seq(Bytes)
  PROVE  LET r == Write(st, h, bytes)
         IN  /\ r.s \in AllStreams /\ r.got \in Seq(Bytes) /\ r.bad \in BOOLEAN
             /\ Fits(st, h, Len(bytes)) =>
                  /\ ~r.bad => /\ Writes(st, h, r) /\ Len(r.got) <= Len(bytes)
                               /\ \A i \in 1 .. Len(r.got) : r.got[i] = bytes[i]
                  /\ ~Stray(st, h) => /\ ~r.bad
                                      /\ h # Memory => st[h].position + Len(r.got) <= st[h].length
<1> DEFINE D == st[Memory].data
           L == st[Memory].length
           S == Spot(st, h)
           B == Len(bytes)
           n == Asked(st, h, Len(bytes))
           r == Write(st, h, bytes)
           got == BytesAt(bytes, 0, n)
<1>1. D \in Seq(Bytes) /\ L \in Nat /\ S \in Nat /\ n \in Nat /\ Len(D) \in Nat /\ B \in Nat
  <2>1. B \in Nat
    OBVIOUS
  <2>2. n \in Nat
    BY <2>1, BehindGives
  <2>3. D \in Seq(Bytes) /\ L \in Nat /\ S \in Nat
    BY StreamsType
  <2> QED BY <2>1, <2>2, <2>3
<1>2. PICK P \in Nat : Behind(st, h) = Stream(D, L, P) /\ (S < Word => P = S)
  BY <1>1, BehindGives
<1> DEFINE a == MemoryWrite(Stream(D, L, P), got)
<1>3. r = Outcome(Moved(st, h, a), a.got, a.bad \/ n > B)
  <2>1. /\ n = IF h = Memory THEN B ELSE Clamp(st[h], B)
        /\ Stream(D, L, P) = IF h = Memory THEN st[h] ELSE Sought(st, h)
    BY <1>2, Zenon DEF Behind, Asked
  <2> HIDE DEF n
  <2> QED BY <2>1, Zenon DEF Write
<1> HIDE DEF r, n
<1>4. /\ got \in Seq(Bytes) /\ Len(got) = n
      /\ \A i \in 1 .. n : got[i] = IF i <= B THEN bytes[i] ELSE Junk
  <2>1. /\ got \in Seq(Bytes) /\ Len(got) = n
        /\ \A i \in 1 .. n : got[i] = IF 0 + i <= B THEN bytes[0 + i] ELSE Junk
    BY <1>1, BytesAtGives
  <2> HIDE DEF got, B
  <2>2. \A i \in 1 .. n : 0 + i = i
    BY <1>1
  <2> QED BY <2>1, <2>2
<1> HIDE DEF got
<1>5. PICK E \in Seq(Bytes), M \in Nat, q \in Nat, b \in BOOLEAN :
        /\ a = Outcome(Stream(E, M, q), got, b)
        /\ P + n + BlockSize <= Word /\ L <= Len(D) /\ Len(D) < L + BlockSize =>
             /\ ~b /\ q = P + n /\ M <= Len(E) /\ Len(E) < M + BlockSize
             /\ M = IF P + n > L THEN P + n ELSE L
             /\ \A i \in 1 .. n : E[P + i] = got[i]
             /\ \A i \in 1 .. L : i \notin P + 1 .. P + n => E[i] = D[i]
  <2>1. WritesFrom(D, L, P, got)
    BY <1>1, <1>4, MemoryWriteGives
  <2> HIDE DEF D, L
  <2> QED BY <1>4, <2>1, SMTT(30) DEF WritesFrom
<1> DEFINE m == Stream(E, M, q)
           t == Moved(st, h, Outcome(m, got, b))
<1>6. m \in MemoryType /\ m.data = E /\ m.length = M /\ m.position = q
  BY StreamIs
<1> HIDE DEF a, m
<1>7. r.s = t /\ r.got = got /\ (r.bad <=> b \/ n > B) /\ r.bad \in BOOLEAN
  <2>1. r = Outcome(t, got, b \/ n > B)
    BY <1>3, <1>5 DEF m, Outcome
  <2> HIDE DEF t
  <2> QED BY <2>1 DEF Outcome
<1>8. /\ t \in AllStreams /\ t[Memory] = m
      /\ \A g \in Substreams \ {h} : t[g] = st[g]
      /\ h # Memory /\ st[h].position + n < Word => t[h] = [st[h] EXCEPT !.position = @ + Len(got)]
  BY <1>4, <1>6, MovedGives
<1> HIDE DEF t
<1>9. ASSUME Fits(st, h, B), n <= B
      PROVE  ~b /\ Writes(st, h, r) /\ \A i \in 1 .. n : got[i] = bytes[i]
  <2>1. L <= Len(D) /\ Len(D) < L + BlockSize /\ S + n + BlockSize <= Word /\ P = S /\ S + n < Word
    <3>1. L <= Len(D) /\ Len(D) < L + BlockSize /\ S + B + BlockSize <= Word
      BY <1>9 DEF Fits, Backed
    <3> HIDE DEF S, D, L, B
    <3> QED BY <1>1, <1>2, <1>9, <3>1
  <2>2. /\ ~b /\ q = S + n /\ M <= Len(E) /\ Len(E) < M + BlockSize
        /\ M = IF S + n > L THEN S + n ELSE L
        /\ \A i \in 1 .. n : E[S + i] = got[i]
        /\ \A i \in 1 .. L : i \notin S + 1 .. S + n => E[i] = D[i]
    <3> HIDE DEF S, D, L, B
    <3> QED BY <1>5, <2>1
  <2>3. h # Memory => st[h].position + n < Word
    <3>1. h # Memory => S = st[h].offset + st[h].position /\ st[h].offset \in Nat /\ st[h].position \in Nat
      BY StreamsType DEF Spot
    <3>2. S + n < Word
      BY <2>1
    <3> HIDE DEF S
    <3> QED BY <1>1, <3>1, <3>2, SMTT(30)
  <2>4. SameWindows(st, h, r)
    <3>1. h \in Substreams \cup {Memory} /\ Memory \notin Substreams
      BY StreamsType
    <3>2. ASSUME NEW g \in Substreams
          PROVE  r.s[g] = IF g = h THEN [st[g] EXCEPT !.position = @ + Len(r.got)] ELSE st[g]
      <4>1. CASE g = h
        BY <1>7, <1>8, <2>3, <3>1, <4>1, Zenon
      <4>2. CASE g # h
        BY <1>7, <1>8, <4>2
      <4> QED BY <4>1, <4>2, Zenon
    <3> QED BY <3>2, Zenon DEF SameWindows
  <2>5. r.s[Memory].position = S + n /\ r.s[Memory].data = E /\ r.s[Memory].length = M
    BY <1>6, <1>7, <1>8, <2>2
  <2>6. Backed(r.s[Memory])
    BY <2>2, <2>5 DEF Backed
  <2>7. M >= L /\ M \in {L, S + n} /\ (n > 0 => S + n <= M)
    <3> HIDE DEF S, D, L, B
    <3> QED BY <1>1, <2>2
  <2>8. \A i \in 1 .. n : got[i] = bytes[i]
    <3> HIDE DEF B
    <3> QED BY <1>1, <1>4, <1>9
  <2> QED BY <1>4, <1>7, <1>8, <2>2, <2>4, <2>5, <2>6, <2>7, <2>8 DEF Writes, Stands
<1>10. ASSUME Fits(st, h, B), ~Stray(st, h)
       PROVE  n <= B /\ (h # Memory => st[h].position + n <= st[h].length)
  <2>1. S + B < Word
    <3>1. S + B + BlockSize <= Word
      BY <1>10 DEF Fits
    <3> HIDE DEF S, B
    <3> QED BY <1>1, <3>1
  <2>2. CASE h = Memory
    BY <1>1, <2>2 DEF n, Asked
  <2>3. CASE h # Memory
    <3> DEFINE w == st[h].length - st[h].position
    <3>1. w \in Nat /\ st[h].length \in Nat /\ st[h].position \in Nat
      BY <1>10, StreamsType DEF Stray
    <3>2. n = IF B <= w THEN B ELSE w
      BY <1>1, <1>10, <2>1, <2>3, BehindGives DEF n
    <3> HIDE DEF B
    <3> QED BY <1>1, <3>1, <3>2
  <2> QED BY <2>2, <2>3
<1> QED BY <1>4, <1>7, <1>8, <1>9, <1>10 DEF r

\* n bytes of the memory at its own position
OwnOutcome(st, D, L, P, n, b) ==
  Outcome(Moved(st, Memory, Outcome(Stream(D, L, Unsigned(P + n)), BytesAt(D, P, n), b)), BytesAt(D, P, n), b)

LEMMA OwnRead ==
  ASSUME NEW st \in AllStreams, NEW n \in Nat, NEW b \in BOOLEAN, NEW D \in Seq(Bytes), NEW L \in Nat, NEW P \in Nat,
         st[Memory] = Stream(D, L, P), b <=> P + n > Len(D)
  PROVE  LET r == OwnOutcome(st, D, L, P, n, b)
         IN  /\ r.s \in AllStreams /\ r.got \in Seq(Bytes) /\ r.bad \in BOOLEAN
             /\ Fits(st, Memory, n) /\ ~r.bad => Reads(st, Memory, r) /\ Len(r.got) <= n
<1> DEFINE q == Unsigned(P + n)
           m == Stream(D, L, q)
           got == BytesAt(D, P, n)
           t == Moved(st, Memory, Outcome(m, got, b))
           r == OwnOutcome(st, D, L, P, n, b)
<1>0. Memory \in Streams /\ Memory \notin Substreams
  BY StreamsType, ByteAssumption DEF Streams, Memory
<1>1. /\ Len(D) \in Nat /\ Spot(st, Memory) = P
      /\ st[Memory].data = D /\ st[Memory].length = L /\ st[Memory].position = P
  <2>1. st[Memory].data = D /\ st[Memory].length = L /\ st[Memory].position = P
    BY StreamIs
  <2> QED BY <2>1 DEF Spot
<1>2. q \in Nat /\ (P + n < Word => q = P + n)
  BY <1>1, UnsignedGives
<1>3. /\ got \in Seq(Bytes) /\ Len(got) = n
      /\ \A i \in 1 .. n : got[i] = IF P + i <= Len(D) THEN D[P + i] ELSE Junk
  BY <1>1, BytesAtGives, ZenonT(40)
<1>4. m \in MemoryType /\ m.data = D /\ m.length = L /\ m.position = q
  BY <1>1, <1>2, StreamIs
<1> HIDE DEF q, m, got
<1>5. t \in AllStreams /\ t[Memory] = m /\ \A g \in Substreams \ {Memory} : t[g] = st[g]
  <2>1. m \in MemoryType /\ got \in Seq(Bytes)
    BY <1>3, <1>4
  <2>2. ASSUME NEW k \in Streams
        PROVE  LET u == Moved(st, k, Outcome(m, got, b))
               IN  /\ u \in AllStreams /\ u[Memory] = m
                   /\ \A g \in Substreams \ {k} : u[g] = st[g]
                   /\ k # Memory /\ st[k].position + Len(got) < Word =>
                        u[k] = [st[k] EXCEPT !.position = @ + Len(got)]
    BY <2>1, MovedGives
  <2> QED BY <1>0, <2>2, Zenon
<1>6. r.s = t /\ r.got = got /\ (r.bad <=> P + n > Len(D)) /\ r.bad \in BOOLEAN
  <2>1. r = Outcome(t, got, b)
    BY DEF q, m, got, OwnOutcome
  <2> HIDE DEF t, r
  <2> QED BY <2>1 DEF Outcome
<1> HIDE DEF t, r
<1>7. ASSUME Fits(st, Memory, n), ~r.bad PROVE Reads(st, Memory, r)
  <2>1. P + n <= Len(D) /\ q = P + n
    BY <1>1, <1>2, <1>6, <1>7 DEF Fits
  <2>2. SameWindows(st, Memory, r)
    BY <1>0, <1>5, <1>6 DEF SameWindows
  <2>3. r.s[Memory].position = P + n /\ r.s[Memory].data = D /\ r.s[Memory].length = L
    BY <1>4, <1>5, <1>6, <2>1
  <2>4. \A i \in 1 .. n : got[i] = D[P + i]
    BY <1>1, <1>3, <2>1, SMTT(30)
  <2> QED BY <1>1, <1>3, <1>5, <1>6, <2>1, <2>2, <2>3, <2>4 DEF Reads, Stands
<1> QED BY <1>3, <1>5, <1>6, <1>7 DEF r

\* ReadByte: of a MemoryStream it has no end.
LEMMA ReadByteGives ==
  ASSUME NEW st \in AllStreams, NEW h \in Streams
  PROVE  LET r == ReadByte(st, h)
         IN  /\ r.s \in AllStreams /\ r.got \in Seq(Bytes) /\ r.bad \in BOOLEAN
             /\ Fits(st, h, 1) =>
                  /\ ~r.bad => Reads(st, h, r) /\ Len(r.got) <= 1
                  /\ h # Memory /\ ~Stray(st, h) => ~r.bad /\ Len(r.got) <= Left(st, h)
<1>1. CASE h # Memory
  <2> DEFINE r == Read(st, h, 1)
  <2>1. ReadByte(st, h) = r
    BY <1>1 DEF ReadByte
  <2>2. /\ r.s \in AllStreams /\ r.got \in Seq(Bytes) /\ r.bad \in BOOLEAN
        /\ Fits(st, h, 1) =>
             /\ ~r.bad => Reads(st, h, r) /\ Len(r.got) <= 1
             /\ ~Stray(st, h) => ~r.bad /\ Len(r.got) = IF 1 <= Left(st, h) THEN 1 ELSE Left(st, h)
    BY ReadGives
  <2> HIDE DEF r
  <2>3. Fits(st, h, 1) /\ ~Stray(st, h) => Len(r.got) <= Left(st, h)
    BY <2>2, LeftIs
  <2> QED BY <2>1, <2>2, <2>3
<1>2. CASE h = Memory
  <2> DEFINE D == st[Memory].data
             L == st[Memory].length
             P == st[Memory].position
             got == BytesAt(D, P, 1)
             b == P + 1 > Len(D)
             q == Unsigned(P + 1)
             m == Stream(D, L, q)
             r == ReadByte(st, h)
  <2>1. [st[Memory] EXCEPT !.position = q] = m
    <3> DEFINE x == st[Memory]
    <3>1. x = Stream(x.data, x.length, x.position)
      BY StreamsType, StreamFields
    <3> HIDE DEF x, q
    <3>2. [x EXCEPT !.position = q] = Stream(x.data, x.length, q)
      BY <3>1 DEF Stream
    <3> QED BY <3>2 DEF x
  <2>2. MemoryReadByte(st[Memory]) = Outcome([st[Memory] EXCEPT !.position = q], got, b)
    BY Zenon DEF MemoryReadByte
  <2>3. MemoryReadByte(st[Memory]) = Outcome(m, got, b)
    BY <2>1, <2>2, Zenon
  <2>4. b \in BOOLEAN /\ (b <=> P + 1 > Len(D))
    OBVIOUS
  <2>5. r = OwnOutcome(st, D, L, P, 1, b)
    <3>1. OwnOutcome(st, D, L, P, 1, b) = Outcome(Moved(st, Memory, Outcome(m, got, b)), got, b)
      BY Zenon DEF OwnOutcome
    <3> HIDE DEF m, got, b
    <3>2. Outcome(m, got, b).got = got /\ Outcome(m, got, b).bad = b
      BY DEF Outcome
    <3> QED BY <1>2, <2>3, <3>1, <3>2, Zenon DEF ReadByte
  <2>6. /\ r.s \in AllStreams /\ r.got \in Seq(Bytes) /\ r.bad \in BOOLEAN
        /\ Fits(st, Memory, 1) /\ ~r.bad => Reads(st, Memory, r) /\ Len(r.got) <= 1
    <3>1. D \in Seq(Bytes) /\ L \in Nat /\ P \in Nat /\ st[Memory] = Stream(D, L, P)
      BY StreamsType, StreamFields
    <3> HIDE DEF D, L, P, b, r
    <3> QED BY <2>4, <2>5, <3>1, OwnRead
  <2> QED BY <1>2, <2>6 DEF r
<1> QED BY <1>1, <1>2

-----------------------------------------------------------------------------
(* One access after another                                                *)

\* The windows, and where h stands, after two accesses
LEMMA MovesJoin ==
  ASSUME NEW st \in AllStreams, NEW h \in Streams, NEW r, NEW a, NEW t, t.s = a.s, t.got = r.got \o a.got,
         r.s \in AllStreams, r.got \in Seq(Bytes), a.s \in AllStreams, a.got \in Seq(Bytes),
         SameWindows(st, h, r), Stands(st, h, r), SameWindows(r.s, h, a), Stands(r.s, h, a)
  PROVE  /\ t.got \in Seq(Bytes) /\ Len(t.got) = Len(r.got) + Len(a.got)
         /\ SameWindows(st, h, t) /\ Stands(st, h, t)
<1> DEFINE n == Len(r.got)
           k == Len(a.got)
<1>1. t.got \in Seq(Bytes) /\ Len(t.got) = n + k /\ n \in Nat /\ k \in Nat
  BY ConcatProperties
<1>2. SameWindows(st, h, t)
  <2>1. ASSUME NEW g \in Substreams
        PROVE  t.s[g] = IF g = h THEN [st[g] EXCEPT !.position = @ + Len(t.got)] ELSE st[g]
    <3>1. CASE g # h
      <4>1. t.s[g] = r.s[g] /\ r.s[g] = st[g]
        BY <3>1, Zenon DEF SameWindows
      <4> QED BY <3>1, <4>1, Zenon
    <3>2. CASE g = h
      <4> DEFINE w == st[g]
                 v == r.s[g]
                 u == a.s[g]
      <4>1. v = [w EXCEPT !.position = @ + n] /\ u = [v EXCEPT !.position = @ + k]
        BY <3>2, Zenon DEF SameWindows
      <4>2. v = [w EXCEPT !.position = w.position + n] /\ u = [v EXCEPT !.position = v.position + k]
        BY <4>1, Zenon
      <4>3. w \in WindowType
        BY DEF AllStreams
      <4> HIDE DEF w, v, u, n, k
      <4>4. v.position = w.position + n /\ u = [w EXCEPT !.position = v.position + k] /\ w.position \in Nat
        BY <4>2, <4>3 DEF WindowType
      <4>5. v.position + k = w.position + (n + k)
        BY <1>1, <4>4
      <4>6. u = [w EXCEPT !.position = w.position + Len(t.got)]
        BY <1>1, <4>4, <4>5, Zenon
      <4> QED BY <3>2, <4>6, Zenon DEF w, u
    <3> QED BY <3>1, <3>2
  <2> QED BY <2>1, Zenon DEF SameWindows
<1>3. Stands(st, h, t)
  <2>1. Spot(r.s, h) = Spot(st, h) + n
    BY AfterGives
  <2>2. Spot(st, h) \in Nat
    BY StreamsType
  <2>3. \/ r.s[Memory].position = Spot(st, h) + n
        \/ h # Memory /\ n = 0 /\ r.s[Memory].position = st[Memory].position
    BY DEF Stands
  <2>4. \/ a.s[Memory].position = Spot(st, h) + n + k
        \/ h # Memory /\ k = 0 /\ a.s[Memory].position = r.s[Memory].position
    BY <2>1 DEF Stands
  <2> DEFINE p == st[Memory].position
             q == r.s[Memory].position
             u == a.s[Memory].position
             v == Spot(st, h)
  <2>5. u = v + (n + k) \/ (h # Memory /\ n + k = 0 /\ u = p)
    <3> HIDE DEF p, q, u, v, n, k
    <3> QED BY <1>1, <2>2, <2>3, <2>4 DEF p, q, u, v
  <2> QED BY <1>1, <2>5 DEF Stands
<1> QED BY <1>1, <1>2, <1>3

LEMMA ConcatGives ==
  ASSUME NEW x \in Seq(Bytes), NEW y \in Seq(Bytes)
  PROVE  /\ x \o y \in Seq(Bytes) /\ Len(x) \in Nat /\ Len(y) \in Nat /\ Len(x \o y) = Len(x) + Len(y)
         /\ \A i \in 1 .. Len(x) : (x \o y)[i] = x[i]
         /\ \A i \in 1 .. Len(y) : (x \o y)[Len(x) + i] = y[i]
OBVIOUS

LEMMA ReadsJoin ==
  ASSUME NEW st \in AllStreams, NEW h \in Streams, NEW r, NEW a, NEW t, t.s = a.s, t.got = r.got \o a.got,
         Reads(st, h, r), Reads(r.s, h, a)
  PROVE  Reads(st, h, t) /\ Len(t.got) = Len(r.got) + Len(a.got)
<1> DEFINE n == Len(r.got)
           k == Len(a.got)
           D == st[Memory].data
           S == Spot(st, h)
<1>1. /\ r.s \in AllStreams /\ r.got \in Seq(Bytes) /\ a.s \in AllStreams /\ a.got \in Seq(Bytes)
      /\ SameWindows(st, h, r) /\ Stands(st, h, r) /\ SameWindows(r.s, h, a) /\ Stands(r.s, h, a)
  BY DEF Reads
<1>2. /\ t.got \in Seq(Bytes) /\ Len(t.got) = n + k
      /\ SameWindows(st, h, t) /\ Stands(st, h, t)
  BY <1>1, MovesJoin
<1>3. Spot(r.s, h) = S + n /\ S \in Nat
  BY <1>1, AfterGives, StreamsType
<1>4. /\ r.s[Memory].data = D /\ a.s[Memory].data = D
      /\ r.s[Memory].length = st[Memory].length /\ a.s[Memory].length = st[Memory].length
      /\ n > 0 => S + n <= Len(D)
      /\ k > 0 => S + n + k <= Len(D)
      /\ \A i \in 1 .. n : r.got[i] = D[S + i]
      /\ \A i \in 1 .. k : a.got[i] = D[S + n + i]
  BY <1>3 DEF Reads
<1>5. n \in Nat /\ k \in Nat /\ Len(D) \in Nat
  BY <1>1, StreamsType
<1> DEFINE x == r.got
           y == a.got
           z == t.got
<1>c. (\A i \in 1 .. n : z[i] = x[i]) /\ (\A i \in 1 .. k : z[n + i] = y[i])
  <2>1. z = x \o y /\ x \in Seq(Bytes) /\ y \in Seq(Bytes) /\ n = Len(x) /\ k = Len(y)
    BY <1>1
  <2> HIDE DEF x, y, z, n, k
  <2> QED BY <2>1, ConcatGives
<1>6. \A i \in 1 .. n + k : t.got[i] = D[S + i]
  <2>0. (\A i \in 1 .. n : x[i] = D[S + i]) /\ (\A i \in 1 .. k : y[i] = D[S + n + i])
    BY <1>4
  <2> HIDE DEF n, k, D, S, x, y, z
  <2> SUFFICES ASSUME NEW i \in 1 .. n + k PROVE z[i] = D[S + i]
    BY DEF z
  <2>1. CASE i <= n
    <3>1. i \in 1 .. n
      BY <1>5, <2>1
    <3> QED BY <1>c, <2>0, <3>1
  <2>2. CASE i > n
    <3>1. PICK j \in 1 .. k : i = n + j /\ S + i = S + n + j
      <4>1. i - n \in 1 .. k /\ i = n + (i - n) /\ S + i = S + n + (i - n)
        BY <1>3, <1>5, <2>2
      <4> QED BY <4>1
    <3> QED BY <1>c, <2>0, <3>1
  <2> QED BY <1>5, <2>1, <2>2
<1>7. n + k > 0 => S + (n + k) <= Len(D)
  <2> HIDE DEF n, k, D, S
  <2> QED BY <1>3, <1>4, <1>5
<1> QED BY <1>1, <1>2, <1>4, <1>6, <1>7 DEF Reads

LEMMA WritesJoin ==
  ASSUME NEW st \in AllStreams, NEW h \in Streams, NEW r, NEW a, NEW t, t.s = a.s, t.got = r.got \o a.got,
         Writes(st, h, r), Writes(r.s, h, a)
  PROVE  Writes(st, h, t) /\ Len(t.got) = Len(r.got) + Len(a.got)
<1> DEFINE n == Len(r.got)
           k == Len(a.got)
           D == st[Memory].data
           E == r.s[Memory].data
           F == a.s[Memory].data
           L == st[Memory].length
           M == r.s[Memory].length
           N == a.s[Memory].length
           S == Spot(st, h)
<1>1. /\ r.s \in AllStreams /\ r.got \in Seq(Bytes) /\ a.s \in AllStreams /\ a.got \in Seq(Bytes)
      /\ SameWindows(st, h, r) /\ Stands(st, h, r) /\ SameWindows(r.s, h, a) /\ Stands(r.s, h, a)
  BY DEF Writes
<1>2. /\ t.got \in Seq(Bytes) /\ Len(t.got) = n + k
      /\ SameWindows(st, h, t) /\ Stands(st, h, t)
  BY <1>1, MovesJoin
<1>3. Spot(r.s, h) = S + n /\ S \in Nat /\ L \in Nat /\ M \in Nat /\ N \in Nat
  BY <1>1, AfterGives, StreamsType, SMTT(30)
<1>4. /\ Backed(a.s[Memory]) /\ M >= L /\ M \in {L, S + n} /\ (n > 0 => S + n <= M)
      /\ \A i \in 1 .. n : E[S + i] = r.got[i]
      /\ \A i \in 1 .. L : i \notin S + 1 .. S + n => E[i] = D[i]
  BY DEF Writes
<1>5. /\ N >= M /\ N \in {M, S + n + k} /\ (k > 0 => S + n + k <= N)
      /\ \A i \in 1 .. k : F[S + n + i] = a.got[i]
      /\ \A i \in 1 .. M : i \notin S + n + 1 .. S + n + k => F[i] = E[i]
  BY <1>3 DEF Writes
<1>6. n \in Nat /\ k \in Nat
  BY <1>1
<1> DEFINE x == r.got
           y == a.got
           z == t.got
<1>c. (\A i \in 1 .. n : z[i] = x[i]) /\ (\A i \in 1 .. k : z[n + i] = y[i])
  <2>1. z = x \o y /\ x \in Seq(Bytes) /\ y \in Seq(Bytes) /\ n = Len(x) /\ k = Len(y)
    BY <1>1
  <2> HIDE DEF x, y, z, n, k
  <2> QED BY <2>1, ConcatGives
<1>e. (\A i \in 1 .. n : E[S + i] = x[i]) /\ (\A i \in 1 .. k : F[S + n + i] = y[i])
  BY <1>4, <1>5
<1> HIDE DEF n, k, D, E, F, L, M, N, S, x, y, z
<1>7. N >= L /\ N \in {L, S + (n + k)} /\ (n + k > 0 => S + (n + k) <= N)
  BY <1>3, <1>4, <1>5, <1>6
<1>8. ASSUME NEW i \in 1 .. n + k PROVE F[S + i] = z[i]
  <2>1. CASE i <= n
    <3>1. i \in 1 .. n /\ S + i \in 1 .. M /\ S + i \notin S + n + 1 .. S + n + k
      BY <1>3, <1>4, <1>6, <2>1
    <3>2. F[S + i] = E[S + i]
      BY <1>5, <3>1
    <3> QED BY <1>c, <1>e, <3>1, <3>2
  <2>2. CASE i > n
    <3>1. PICK j \in 1 .. k : i = n + j /\ S + i = S + n + j
      <4>1. i - n \in 1 .. k /\ i = n + (i - n) /\ S + i = S + n + (i - n)
        BY <1>3, <1>6, <2>2
      <4> QED BY <4>1
    <3> QED BY <1>c, <1>e, <3>1
  <2> QED BY <1>6, <2>1, <2>2
<1>9. ASSUME NEW i \in 1 .. L, i \notin S + 1 .. S + (n + k) PROVE F[i] = D[i]
  <2>1. i \in 1 .. M /\ i \notin S + n + 1 .. S + n + k /\ i \notin S + 1 .. S + n
    BY <1>3, <1>4, <1>6, <1>9
  <2> QED BY <1>4, <1>5, <2>1
<1> QED BY <1>1, <1>2, <1>4, <1>7, <1>8, <1>9 DEF Writes, n, k, D, F, L, N, S, z

-----------------------------------------------------------------------------
(* Loops of accesses                                                       *)

\* Where h stands after bytes that it had left: not astray, with fewer left.
LEMMA ReadsKeep ==
  ASSUME NEW st \in AllStreams, NEW h \in Streams, NEW r, NEW size \in Nat, NEW rest \in Nat, Reads(st, h, r),
         Fits(st, h, size), Len(r.got) + rest <= size
  PROVE  /\ Fits(r.s, h, rest)
         /\ ~Stray(st, h) /\ Len(r.got) <= Left(st, h) =>
              ~Stray(r.s, h) /\ Left(r.s, h) = Left(st, h) - Len(r.got)
<1> DEFINE n == Len(r.got)
           L == st[Memory].length
           S == Spot(st, h)
           P == st[h].position
           W == st[h].length
<1>1. /\ r.s[h].position = P + n /\ Spot(r.s, h) = S + n /\ r.s[h].length = W
      /\ r.s[Memory].length = L /\ r.s[Memory].data = st[Memory].data
  <2>1. r.s[Memory].length = L /\ r.s[Memory].data = st[Memory].data
    BY DEF Reads
  <2>2. /\ r.s[h].position = P + n /\ Spot(r.s, h) = S + n
        /\ h # Memory => r.s[h].length = W
    BY AfterGives DEF Reads
  <2> QED BY <2>1, <2>2
<1>2. n \in Nat /\ L \in Nat /\ S \in Nat /\ P \in Nat /\ W \in Nat
  BY StreamsType DEF Reads
<1>3. Fits(r.s, h, rest)
  <2>1. Backed(r.s[Memory]) /\ r.s[Memory].length < Word
    BY <1>1 DEF Fits, Backed
  <2>2. S + size + BlockSize <= Word /\ n + rest <= size
    BY DEF Fits
  <2> HIDE DEF n, S
  <2>3. S + n + rest + BlockSize <= Word
    BY <1>2, <2>2
  <2> QED BY <1>1, <2>1, <2>3 DEF Fits
<1>4. ASSUME ~Stray(st, h), n <= Left(st, h)
      PROVE  ~Stray(r.s, h) /\ Left(r.s, h) = Left(st, h) - n
  <2>1. P <= W /\ S <= L
    BY <1>2, <1>4 DEF Stray
  <2>2. CASE h = Memory
    <3>1. Left(st, h) = L - P /\ Left(r.s, h) = L - (P + n) /\ S = P /\ W = L
      BY <1>1, <2>2 DEF Left, Spot
    <3>2. Stray(r.s, h) <=> P + n > W \/ S + n > L
      BY <1>1, <2>2 DEF Stray
    <3> HIDE DEF n, L, S, P, W
    <3> QED BY <1>2, <1>4, <2>1, <3>1, <3>2
  <2>3. CASE h # Memory
    <3>1. Left(st, h) = Min({W - P, L - S}) /\ Left(r.s, h) = Min({W - (P + n), L - (S + n)})
      BY <1>1, <2>3 DEF Left
    <3>2. Stray(r.s, h) <=> P + n > W \/ S + n > L
      BY <1>1 DEF Stray
    <3> HIDE DEF n, L, S, P, W
    <3>3. Left(st, h) = IF W - P <= L - S THEN W - P ELSE L - S
      BY <1>2, <3>1, MinOfTwo
    <3>4. Left(r.s, h) = IF W - (P + n) <= L - (S + n) THEN W - (P + n) ELSE L - (S + n)
      BY <1>2, <3>1, MinOfTwo
    <3> QED BY <1>2, <1>4, <2>1, <3>2, <3>3, <3>4
  <2> QED BY <2>2, <2>3
<1> QED BY <1>3, <1>4

LEMMA WritesKeep ==
  ASSUME NEW st \in AllStreams, NEW h \in Streams, NEW r, NEW size \in Nat, NEW rest \in Nat, Writes(st, h, r),
         Fits(st, h, size), Len(r.got) + rest <= size
  PROVE  /\ Fits(r.s, h, rest)
         /\ ~Stray(st, h) /\ (h # Memory => st[h].position + Len(r.got) <= st[h].length) => ~Stray(r.s, h)
<1> DEFINE n == Len(r.got)
           L == st[Memory].length
           M == r.s[Memory].length
           S == Spot(st, h)
           P == st[h].position
           W == st[h].length
<1>1. /\ r.s[h].position = P + n /\ Spot(r.s, h) = S + n
      /\ h # Memory => r.s[h].length = W
  BY AfterGives DEF Writes
<1>2. n \in Nat /\ L \in Nat /\ S \in Nat /\ P \in Nat /\ W \in Nat /\ M \in Nat
  BY StreamsType DEF Writes
<1>3. M \in {L, S + n} /\ M >= L /\ (n > 0 => S + n <= M) /\ Backed(r.s[Memory])
  BY DEF Writes
<1>4. S + size + BlockSize <= Word /\ n + rest <= size /\ L < Word
  BY DEF Fits
<1>5. S + n + rest + BlockSize <= Word /\ M < Word
  <2> HIDE DEF n, L, S, M
  <2> QED BY <1>2, <1>3, <1>4
<1>6. Fits(r.s, h, rest)
  BY <1>1, <1>3, <1>5 DEF Fits
<1>7. ASSUME ~Stray(st, h), h # Memory => P + n <= W
      PROVE  ~Stray(r.s, h)
  <2>1. S <= L
    BY <1>2, <1>7 DEF Stray
  <2>2. S + n <= M
    <3> HIDE DEF n, L, S, M
    <3> QED BY <1>2, <1>3, <2>1
  <2>3. CASE h = Memory
    BY <1>1, <1>2, <2>2, <2>3 DEF Stray, Spot
  <2>4. CASE h # Memory
    BY <1>1, <1>2, <1>7, <2>2, <2>4 DEF Stray
  <2> QED BY <2>3, <2>4
<1> QED BY <1>6, <1>7

\* The turns of a loop over size bytes
Turns(size) ==
  {r \in [s : AllStreams, got : Seq(Bytes), bad : BOOLEAN, over : BOOLEAN] : ~r.over => Len(r.got) <= size}

LEMMA TurnsType ==
  ASSUME NEW size, NEW r \in Turns(size)
  PROVE  /\ r.s \in AllStreams /\ r.got \in Seq(Bytes) /\ r.bad \in BOOLEAN /\ r.over \in BOOLEAN /\ Len(r.got) \in Nat
         /\ ~r.over => Len(r.got) <= size
<1>1. r.s \in AllStreams /\ r.got \in Seq(Bytes) /\ r.bad \in BOOLEAN /\ r.over \in BOOLEAN
  BY DEF Turns
<1>2. ~r.over => Len(r.got) <= size
  BY DEF Turns
<1> QED BY <1>1, <1>2

LEMMA PieceGives ==
  ASSUME NEW size \in Nat, NEW r, Len(r.got) \in Nat, Len(r.got) < size
  PROVE  Piece(r, size) \in Nat /\ Piece(r, size) >= 1 /\ Len(r.got) + Piece(r, size) <= size
<1> DEFINE n == Len(r.got)
<1>1. Piece(r, size) = Min({PadBlock, size - n})
  BY DEF Piece
<1> HIDE DEF n
<1>2. n \in Nat /\ n < size
  BY DEF n
<1>3. Piece(r, size) = IF PadBlock <= size - n THEN PadBlock ELSE size - n
  BY <1>1, <1>2, MinOfTwo
<1>4. Piece(r, size) \in Nat /\ Piece(r, size) >= 1 /\ n + Piece(r, size) <= size
  BY <1>2, <1>3
<1> QED BY <1>4 DEF n

\* The turn t adds the access a to r.
Adds(t, r, a, over, size) ==
  /\ t \in Turns(size) /\ t.s = a.s /\ t.got = r.got \o a.got
  /\ (t.bad <=> r.bad \/ a.bad) /\ (t.over <=> over) /\ Len(t.got) = Len(r.got) + Len(a.got)

LEMMA TurnedGives ==
  ASSUME NEW size \in Nat, NEW r \in Turns(size), NEW a, NEW over \in BOOLEAN,
         a.s \in AllStreams, a.got \in Seq(Bytes), a.bad \in BOOLEAN, ~over => Len(r.got) + Len(a.got) <= size
  PROVE  Adds(Turned(r, a, over), r, a, over, size)
<1> DEFINE t == Turned(r, a, over)
           got == r.got \o a.got
<1>1. r.got \in Seq(Bytes) /\ r.bad \in BOOLEAN
  BY TurnsType
<1>2. got \in Seq(Bytes) /\ Len(got) = Len(r.got) + Len(a.got)
  BY <1>1, ConcatGives
<1>3. t.s = a.s /\ t.got = got /\ (t.bad <=> r.bad \/ a.bad) /\ (t.over <=> over)
  BY DEF Turned
<1>4. t \in [s : AllStreams, got : Seq(Bytes), bad : BOOLEAN, over : BOOLEAN]
  <2> HIDE DEF got
  <2>1. t = [s |-> a.s, got |-> got, bad |-> (r.bad \/ a.bad), over |-> over]
    BY DEF Turned, got
  <2>2. (r.bad \/ a.bad) \in BOOLEAN
    OBVIOUS
  <2> HIDE DEF t
  <2> QED BY <1>2, <2>1, <2>2
<1> HIDE DEF t
<1>5. t \in Turns(size)
  BY <1>2, <1>3, <1>4 DEF Turns
<1> QED BY <1>2, <1>3, <1>5 DEF t, Adds

\* Pad of a reader, turn by turn
PadTurn(st, h, size, r, i) ==
  /\ ~r.bad => Reads(st, h, r) /\ Len(r.got) <= size
  /\ ~Stray(st, h) => /\ ~r.bad /\ Len(r.got) <= Left(st, h)
                      /\ r.over => Len(r.got) = Left(st, h)
                      /\ ~r.over => Len(r.got) >= i

LEMMA ReadPieceGives ==
  ASSUME NEW size \in Nat, NEW h \in Streams, NEW r \in Turns(size)
  PROVE  LET t == ReadPiece(r, h, size)
         IN  /\ t \in Turns(size)
             /\ \A st \in AllStreams : \A i \in 1 .. size :
                  Fits(st, h, size) /\ PadTurn(st, h, size, r, i - 1) => PadTurn(st, h, size, t, i)
<1> DEFINE p == Piece(r, size)
           a == Read(r.s, h, p)
           t == ReadPiece(r, h, size)
           n == Len(r.got)
           k == Len(a.got)
<1>1. r.s \in AllStreams /\ r.got \in Seq(Bytes) /\ r.bad \in BOOLEAN /\ n \in Nat /\ r.over \in BOOLEAN /\ (~r.over => n <= size)
  BY TurnsType
<1>2. CASE r.over \/ n = size
  <2>1. t = r
    BY <1>2 DEF ReadPiece
  <2> HIDE DEF t
  <2>2. ASSUME NEW st \in AllStreams, NEW i \in 1 .. size, PadTurn(st, h, size, r, i - 1)
        PROVE  PadTurn(st, h, size, r, i)
    BY <1>1, <1>2, <2>2 DEF PadTurn
  <2> QED BY <2>1, <2>2 DEF t
<1>3. CASE ~(r.over \/ n = size)
  <2>1. n < size /\ n <= size
    BY <1>1, <1>3
  <2>2. p \in Nat /\ p >= 1 /\ n + p <= size
    BY <1>1, <2>1, PieceGives
  <2> HIDE DEF p
  <2>3. /\ a.s \in AllStreams /\ a.got \in Seq(Bytes) /\ a.bad \in BOOLEAN
        /\ Fits(r.s, h, p) =>
             /\ ~a.bad => Reads(r.s, h, a) /\ k <= p
             /\ ~Stray(r.s, h) => ~a.bad /\ k = IF p <= Left(r.s, h) THEN p ELSE Left(r.s, h)
    BY <1>1, <2>2, ReadGives
  <2> DEFINE over == k # p
  <2>4. t = Turned(r, a, over)
    BY <1>3, Zenon DEF ReadPiece, p
  <2>5. k \in Nat /\ over \in BOOLEAN /\ (~over => k = p)
    BY <2>3
  <2> HIDE DEF a, t, over, n, k
  <2>6. /\ t \in Turns(size) /\ t.s = a.s /\ t.got = r.got \o a.got
        /\ (t.bad <=> r.bad \/ a.bad) /\ (t.over <=> over) /\ Len(t.got) = n + k
    <3>1. ~over => n + k <= size
      BY <1>1, <2>2, <2>5
    <3>2. ~over => Len(r.got) + Len(a.got) <= size
      BY <3>1 DEF n, k
    <3>3. a.s \in AllStreams /\ a.got \in Seq(Bytes) /\ a.bad \in BOOLEAN /\ over \in BOOLEAN
      BY <2>3, <2>5
    <3>4. Adds(t, r, a, over, size)
      BY <2>4, <3>2, <3>3, TurnedGives
    <3> QED BY <3>4 DEF Adds, n, k
  <2>7. ASSUME NEW st \in AllStreams, NEW i \in 1 .. size, Fits(st, h, size), PadTurn(st, h, size, r, i - 1)
        PROVE  PadTurn(st, h, size, t, i)
    <3>1. ASSUME ~r.bad PROVE Reads(st, h, r) /\ Fits(r.s, h, p) /\
                              (~Stray(st, h) => /\ n <= Left(st, h) /\ n >= i - 1
                                                /\ ~Stray(r.s, h) /\ Left(r.s, h) = Left(st, h) - n)
      <4>1. Reads(st, h, r)
        BY <2>7, <3>1 DEF PadTurn
      <4>2. ~Stray(st, h) => n <= Left(st, h) /\ n >= i - 1
        BY <1>3, <2>7 DEF PadTurn, n
      <4>3. Fits(r.s, h, p) /\ (~Stray(st, h) /\ n <= Left(st, h) => ~Stray(r.s, h) /\ Left(r.s, h) = Left(st, h) - n)
        BY <2>2, <2>7, <4>1, ReadsKeep DEF n
      <4> QED BY <4>1, <4>2, <4>3
    <3>2. ASSUME ~t.bad PROVE Reads(st, h, t) /\ Len(t.got) <= size
      <4>1. ~r.bad /\ ~a.bad
        BY <2>6, <3>2
      <4>2. Reads(st, h, r) /\ Reads(r.s, h, a) /\ k <= p
        BY <2>3, <3>1, <4>1
      <4>3. Reads(st, h, t)
        BY <2>6, <4>2, ReadsJoin
      <4>4. n + k <= size
        BY <1>1, <2>2, <2>5, <4>2
      <4> QED BY <2>6, <4>3, <4>4
    <3>3. ASSUME ~Stray(st, h)
          PROVE  /\ ~t.bad /\ Len(t.got) <= Left(st, h)
                 /\ t.over => Len(t.got) = Left(st, h)
                 /\ ~t.over => Len(t.got) >= i
      <4>1. ~r.bad
        BY <2>7, <3>3 DEF PadTurn
      <4>2. /\ n <= Left(st, h) /\ n >= i - 1 /\ ~Stray(r.s, h) /\ Left(r.s, h) = Left(st, h) - n /\ Fits(r.s, h, p)
        BY <3>1, <3>3, <4>1
      <4>3. ~a.bad /\ k = IF p <= Left(st, h) - n THEN p ELSE Left(st, h) - n
        BY <2>3, <4>2
      <4>4. Left(st, h) \in Int
        BY <2>7, LeftIs
      <4> DEFINE W == Left(st, h)
      <4> HIDE DEF W
      <4>5. n + k <= W /\ (over => n + k = W) /\ (~over => n + k >= i)
        BY <1>1, <2>2, <2>5, <4>2, <4>3, <4>4 DEF over, W
      <4> QED BY <2>6, <4>1, <4>3, <4>5 DEF W
    <3> QED BY <3>2, <3>3 DEF PadTurn
  <2> QED BY <2>6, <2>7 DEF t
<1> QED BY <1>2, <1>3

LEMMA BegunGives ==
  ASSUME NEW st \in AllStreams, NEW h \in Streams, NEW size \in Nat
  PROVE  /\ Begun(st) \in Turns(size) /\ ~Begun(st).bad /\ ~Begun(st).over /\ Len(Begun(st).got) = 0
         /\ Begun(st).s = st /\ Begun(st).got = << >>
         /\ Reads(st, h, Begun(st)) /\ (Backed(st[Memory]) => Writes(st, h, Begun(st)))
<1> DEFINE r == Begun(st)
<1>1. r.s = st /\ r.got = << >> /\ ~r.bad /\ ~r.over
  BY DEF Begun
<1>2. r.got \in Seq(Bytes) /\ Len(r.got) = 0
  BY <1>1
<1>3. r \in Turns(size)
  <2>1. r \in [s : AllStreams, got : Seq(Bytes), bad : BOOLEAN, over : BOOLEAN]
    BY DEF Begun
  <2> HIDE DEF r
  <2> QED BY <1>2, <2>1 DEF Turns
<1> HIDE DEF r
<1> DEFINE n == Len(r.got)
<1>4. SameWindows(st, h, r)
  <2>1. ASSUME NEW g \in Substreams PROVE st[g] = IF g = h THEN [st[g] EXCEPT !.position = @ + n] ELSE st[g]
    <3> DEFINE w == st[g]
               q == w.position + n
    <3>1. w \in WindowType
      BY DEF AllStreams
    <3>2. q = w.position
      BY <1>2, <3>1 DEF WindowType
    <3>3. [w EXCEPT !.position = q] = w
      <4> HIDE DEF w, q
      <4> QED BY <3>1, <3>2 DEF WindowType
    <3>4. [w EXCEPT !.position = @ + n] = w
      BY <3>3, Zenon
    <3> QED BY <3>4, Zenon
  <2> QED BY <1>1, <2>1, Zenon DEF SameWindows
<1>5. Stands(st, h, r)
  <2>1. h = Memory => st[Memory].position = Spot(st, h) + 0
    BY StreamsType DEF Spot
  <2> QED BY <1>1, <1>2, <2>1 DEF Stands
<1>6. Spot(st, h) \in Nat /\ st[Memory].length \in Nat
  BY StreamsType
<1>7. Reads(st, h, r)
  BY <1>1, <1>2, <1>4, <1>5 DEF Reads
<1>8. Backed(st[Memory]) => Writes(st, h, r)
  BY <1>1, <1>2, <1>4, <1>5, <1>6 DEF Writes
<1> QED BY <1>1, <1>2, <1>3, <1>7, <1>8 DEF r

\* Pad of a reader is a read, in pieces.
LEMMA ReadPadGives ==
  ASSUME NEW st \in AllStreams, NEW h \in Streams, NEW size \in Nat, Fits(st, h, size)
  PROVE  LET r == ReadPad(st, h, size)
         IN  /\ ~r.bad => Reads(st, h, r) /\ Len(r.got) <= size
             /\ ~Stray(st, h) => ~r.bad /\ Len(r.got) = IF size <= Left(st, h) THEN size ELSE Left(st, h)
<1> DEFINE T == Turns(size)
           step == [x \in T |-> ReadPiece(x, h, size)]
           F(f) == f = [i \in 0 .. size |-> IF i = 0 THEN Begun(st) ELSE ReadPiece(f[i - 1], h, size)]
           turn == CHOOSE f : F(f)
           I == [i \in 0 .. size |-> {x \in T : PadTurn(st, h, size, x, i)}]
<1>1. ReadPad(st, h, size) = turn[size]
  BY Zenon DEF ReadPad
<1>2. F(turn)
  <2>1. step \in [T -> T]
    BY ReadPieceGives
  <2>2. Begun(st) \in T
    BY BegunGives
  <2> HIDE DEF step, T
  <2>3. PICK g \in [0 .. size -> T] : g[0] = Begun(st) /\ \A i \in 1 .. size : g[i] = step[g[i - 1]]
    <3>1. Iterates(T, step, Begun(st), size)
      BY <2>1, <2>2, Iteration
    <3> QED BY <3>1 DEF Iterates
  <2>4. ASSUME NEW i \in 0 .. size PROVE g[i] = IF i = 0 THEN Begun(st) ELSE ReadPiece(g[i - 1], h, size)
    <3>1. CASE i = 0
      BY <2>3, <3>1
    <3>2. CASE i # 0
      <4>1. i \in 1 .. size /\ i - 1 \in 0 .. size
        BY <3>2
      <4>2. g[i] = step[g[i - 1]] /\ g[i - 1] \in T
        BY <2>3, <4>1
      <4>3. step[g[i - 1]] = ReadPiece(g[i - 1], h, size)
        BY <4>2 DEF step
      <4> QED BY <3>2, <4>2, <4>3
    <3> QED BY <3>1, <3>2
  <2>5. F(g)
    BY <2>3, <2>4
  <2> QED BY <2>5, Zenon
<1> HIDE DEF turn
<1>3. turn[0] = Begun(st) /\ \A i \in 1 .. size : turn[i] = ReadPiece(turn[i - 1], h, size)
  <2>1. \A i \in 0 .. size : turn[i] = IF i = 0 THEN Begun(st) ELSE ReadPiece(turn[i - 1], h, size)
    BY <1>2
  <2>2. 0 \in 0 .. size /\ \A i \in 1 .. size : i \in 0 .. size /\ i # 0
    OBVIOUS
  <2> HIDE DEF F
  <2> QED BY <2>1, <2>2
<1>4. turn[0] \in I[0]
  <2>1. PadTurn(st, h, size, Begun(st), 0)
    <3>1. ~Stray(st, h) => 0 <= Left(st, h)
      BY LeftIs
    <3>2. Reads(st, h, Begun(st)) /\ ~Begun(st).bad /\ ~Begun(st).over /\ Len(Begun(st).got) = 0
      BY BegunGives
    <3> QED BY <3>1, <3>2 DEF PadTurn
  <2>2. Begun(st) \in T
    BY BegunGives
  <2> QED BY <1>3, <2>1, <2>2
<1>5. ASSUME NEW i \in 1 .. size, turn[i - 1] \in I[i - 1] PROVE turn[i] \in I[i]
  <2>1. i - 1 \in 0 .. size /\ i \in 0 .. size
    OBVIOUS
  <2>2. turn[i - 1] \in T /\ PadTurn(st, h, size, turn[i - 1], i - 1)
    BY <1>5, <2>1
  <2>3. turn[i] \in T /\ PadTurn(st, h, size, turn[i], i)
    BY <1>3, <2>2, ReadPieceGives
  <2> QED BY <2>1, <2>3
<1>6. turn[size] \in I[size]
  <2> HIDE DEF I
  <2> QED BY <1>4, <1>5, LoopKeeps
<1> DEFINE r == turn[size]
<1>7. r \in T /\ PadTurn(st, h, size, r, size)
  BY <1>6
<1> HIDE DEF r, T
<1>8. ASSUME ~Stray(st, h) PROVE ~r.bad /\ Len(r.got) = IF size <= Left(st, h) THEN size ELSE Left(st, h)
  <2>1. /\ ~r.bad /\ Len(r.got) <= Left(st, h)
        /\ r.over => Len(r.got) = Left(st, h)
        /\ ~r.over => Len(r.got) >= size
        /\ Len(r.got) <= size
    BY <1>7, <1>8 DEF PadTurn
  <2>2. Len(r.got) \in Nat
    BY <1>7, TurnsType DEF T
  <2>3. Left(st, h) \in Int
    BY LeftIs
  <2> QED BY <2>1, <2>2, <2>3
<1>9. ~r.bad => Reads(st, h, r) /\ Len(r.got) <= size
  BY <1>7 DEF PadTurn
<1> QED BY <1>1, <1>8, <1>9 DEF r

\* Pad of a writer, turn by turn
FillTurn(st, h, size, r) ==
  /\ ~r.bad => Writes(st, h, r) /\ Len(r.got) <= size
  /\ ~Stray(st, h) => ~r.bad /\ (h # Memory => st[h].position + Len(r.got) <= st[h].length)

LEMMA WritePieceGives ==
  ASSUME NEW size \in Nat, NEW h \in Streams, NEW r \in Turns(size)
  PROVE  LET t == WritePiece(r, h, size)
         IN  /\ t \in Turns(size)
             /\ \A st \in AllStreams :
                  Fits(st, h, size) /\ FillTurn(st, h, size, r) => FillTurn(st, h, size, t)
<1> DEFINE p == Piece(r, size)
           pad == [i \in 1 .. p |-> Junk]
           a == Write(r.s, h, pad)
           t == WritePiece(r, h, size)
           n == Len(r.got)
           k == Len(a.got)
<1>1. r.s \in AllStreams /\ r.got \in Seq(Bytes) /\ r.bad \in BOOLEAN /\ n \in Nat /\ r.over \in BOOLEAN /\ (~r.over => n <= size)
  BY TurnsType
<1>2. CASE r.over \/ n = size
  <2>1. t = r
    BY <1>2 DEF WritePiece
  <2> QED BY <2>1
<1>3. CASE ~(r.over \/ n = size)
  <2>1. n < size /\ n <= size
    BY <1>1, <1>3
  <2>2. p \in Nat /\ p >= 1 /\ n + p <= size
    BY <1>1, <2>1, PieceGives
  <2> HIDE DEF p
  <2>p. pad \in Seq(Bytes) /\ Len(pad) = p
    <3>1. pad \in [1 .. p -> Bytes]
      BY BytesAre
    <3> QED BY <2>2, <3>1, SeqDef
  <2> HIDE DEF pad
  <2>3. /\ a.s \in AllStreams /\ a.got \in Seq(Bytes) /\ a.bad \in BOOLEAN
        /\ Fits(r.s, h, p) =>
             /\ ~a.bad => Writes(r.s, h, a) /\ k <= p
             /\ ~Stray(r.s, h) => ~a.bad /\ (h # Memory => r.s[h].position + k <= r.s[h].length)
    BY <1>1, <2>p, WriteGives
  <2> DEFINE over == k # p
  <2>4. t = Turned(r, a, over)
    BY <1>3, Zenon DEF WritePiece, p, pad
  <2>5. k \in Nat /\ over \in BOOLEAN /\ (~over => k = p)
    BY <2>3
  <2> HIDE DEF a, t, over, n, k
  <2>6. /\ t \in Turns(size) /\ t.s = a.s /\ t.got = r.got \o a.got
        /\ (t.bad <=> r.bad \/ a.bad) /\ (t.over <=> over) /\ Len(t.got) = n + k
    <3>1. ~over => n + k <= size
      BY <1>1, <2>2, <2>5
    <3>2. ~over => Len(r.got) + Len(a.got) <= size
      BY <3>1 DEF n, k
    <3>3. a.s \in AllStreams /\ a.got \in Seq(Bytes) /\ a.bad \in BOOLEAN /\ over \in BOOLEAN
      BY <2>3, <2>5
    <3>4. Adds(t, r, a, over, size)
      BY <2>4, <3>2, <3>3, TurnedGives
    <3> QED BY <3>4 DEF Adds, n, k
  <2>7. ASSUME NEW st \in AllStreams, Fits(st, h, size), FillTurn(st, h, size, r)
        PROVE  FillTurn(st, h, size, t)
    <3>1. ASSUME ~r.bad PROVE Writes(st, h, r) /\ Fits(r.s, h, p) /\ (~Stray(st, h) => ~Stray(r.s, h))
      <4>1. Writes(st, h, r)
        BY <2>7, <3>1 DEF FillTurn
      <4>2. ~Stray(st, h) => (h # Memory => st[h].position + n <= st[h].length)
        BY <2>7 DEF FillTurn, n
      <4>3. Fits(r.s, h, p) /\ (~Stray(st, h) /\ (h # Memory => st[h].position + n <= st[h].length) => ~Stray(r.s, h))
        BY <2>2, <2>7, <4>1, WritesKeep DEF n
      <4> QED BY <4>1, <4>2, <4>3
    <3>2. ASSUME ~t.bad PROVE Writes(st, h, t) /\ Len(t.got) <= size
      <4>1. ~r.bad /\ ~a.bad
        BY <2>6, <3>2
      <4>2. Writes(st, h, r) /\ Writes(r.s, h, a) /\ k <= p
        BY <2>3, <3>1, <4>1
      <4>3. Writes(st, h, t)
        BY <2>6, <4>2, WritesJoin
      <4>4. n + k <= size
        BY <1>1, <2>2, <2>5, <4>2
      <4> QED BY <2>6, <4>3, <4>4
    <3>3. ASSUME ~Stray(st, h)
          PROVE  ~t.bad /\ (h # Memory => st[h].position + Len(t.got) <= st[h].length)
      <4>1. ~r.bad
        BY <2>7, <3>3 DEF FillTurn
      <4>2. Writes(st, h, r) /\ ~Stray(r.s, h) /\ Fits(r.s, h, p)
        BY <3>1, <3>3, <4>1
      <4>3. ~a.bad /\ (h # Memory => r.s[h].position + k <= r.s[h].length)
        BY <2>3, <4>2
      <4>4. ~t.bad
        BY <2>6, <4>1, <4>3
      <4>5. ASSUME h # Memory PROVE st[h].position + (n + k) <= st[h].length
        <5>1. r.s[h].position = st[h].position + n /\ r.s[h].length = st[h].length
          BY <4>2, <4>5, AfterGives DEF Writes, n
        <5>2. st[h].position \in Nat
          BY <2>7, StreamsType
        <5> QED BY <1>1, <2>5, <4>3, <4>5, <5>1, <5>2
      <4> QED BY <2>6, <4>4, <4>5
    <3> QED BY <3>2, <3>3 DEF FillTurn
  <2> QED BY <2>6, <2>7 DEF t
<1> QED BY <1>2, <1>3

\* Pad of a writer is a write, in pieces.
LEMMA WritePadGives ==
  ASSUME NEW st \in AllStreams, NEW h \in Streams, NEW size \in Nat, Fits(st, h, size)
  PROVE  LET r == WritePad(st, h, size)
         IN  FillTurn(st, h, size, r) /\ r.got \in Seq(Bytes) /\ r.bad \in BOOLEAN
<1> DEFINE T == Turns(size)
           step == [x \in T |-> WritePiece(x, h, size)]
           F(f) == f = [i \in 0 .. size |-> IF i = 0 THEN Begun(st) ELSE WritePiece(f[i - 1], h, size)]
           turn == CHOOSE f : F(f)
           I == [i \in 0 .. size |-> {x \in T : FillTurn(st, h, size, x)}]
<1>1. WritePad(st, h, size) = turn[size]
  BY Zenon DEF WritePad
<1>2. F(turn)
  <2>1. step \in [T -> T]
    BY WritePieceGives
  <2>2. Begun(st) \in T
    BY BegunGives
  <2> HIDE DEF step, T
  <2>3. PICK g \in [0 .. size -> T] : g[0] = Begun(st) /\ \A i \in 1 .. size : g[i] = step[g[i - 1]]
    <3>1. Iterates(T, step, Begun(st), size)
      BY <2>1, <2>2, Iteration
    <3> QED BY <3>1 DEF Iterates
  <2>4. ASSUME NEW i \in 0 .. size PROVE g[i] = IF i = 0 THEN Begun(st) ELSE WritePiece(g[i - 1], h, size)
    <3>1. CASE i = 0
      BY <2>3, <3>1
    <3>2. CASE i # 0
      <4>1. i \in 1 .. size /\ i - 1 \in 0 .. size
        BY <3>2
      <4>2. g[i] = step[g[i - 1]] /\ g[i - 1] \in T
        BY <2>3, <4>1
      <4>3. step[g[i - 1]] = WritePiece(g[i - 1], h, size)
        BY <4>2 DEF step
      <4> QED BY <3>2, <4>2, <4>3
    <3> QED BY <3>1, <3>2
  <2>5. F(g)
    BY <2>3, <2>4
  <2> QED BY <2>5, Zenon
<1> HIDE DEF turn
<1>3. turn[0] = Begun(st) /\ \A i \in 1 .. size : turn[i] = WritePiece(turn[i - 1], h, size)
  <2>1. \A i \in 0 .. size : turn[i] = IF i = 0 THEN Begun(st) ELSE WritePiece(turn[i - 1], h, size)
    BY <1>2
  <2>2. 0 \in 0 .. size /\ \A i \in 1 .. size : i \in 0 .. size /\ i # 0
    OBVIOUS
  <2> HIDE DEF F
  <2> QED BY <2>1, <2>2
<1>4. turn[0] \in I[0]
  <2>1. FillTurn(st, h, size, Begun(st))
    <3>1. Writes(st, h, Begun(st)) /\ ~Begun(st).bad /\ Len(Begun(st).got) = 0
      BY BegunGives DEF Fits
    <3>2. st[h].position \in Nat /\ st[h].length \in Nat
      BY StreamsType
    <3>3. ~Stray(st, h) => st[h].position + 0 <= st[h].length
      BY <3>2 DEF Stray
    <3> QED BY <3>1, <3>3 DEF FillTurn
  <2>2. Begun(st) \in T
    BY BegunGives
  <2> QED BY <1>3, <2>1, <2>2
<1>5. ASSUME NEW i \in 1 .. size, turn[i - 1] \in I[i - 1] PROVE turn[i] \in I[i]
  <2>1. i - 1 \in 0 .. size /\ i \in 0 .. size
    OBVIOUS
  <2>2. turn[i - 1] \in T /\ FillTurn(st, h, size, turn[i - 1])
    BY <1>5, <2>1
  <2>3. turn[i] \in T /\ FillTurn(st, h, size, turn[i])
    BY <1>3, <2>2, WritePieceGives
  <2> QED BY <2>1, <2>3
<1>6. turn[size] \in I[size]
  <2> HIDE DEF I
  <2> QED BY <1>4, <1>5, LoopKeeps
<1> DEFINE r == turn[size]
<1>7. r \in T /\ FillTurn(st, h, size, r)
  BY <1>6
<1>8. r.got \in Seq(Bytes) /\ r.bad \in BOOLEAN
  BY <1>7, TurnsType
<1> QED BY <1>1, <1>7, <1>8

\* ReadCString, byte by byte
StringTurns == [s : AllStreams, got : Seq(Bytes), bad : BOOLEAN, over : BOOLEAN]

CharacterTurn(st, h, r) ==
  /\ ~r.bad => Reads(st, h, r)
  /\ h # Memory /\ ~Stray(st, h) => ~r.bad /\ ~Stray(r.s, h)

\* A byte of memory after the last block can still be addressed.
Roomy(st, h) == Fits(st, h, 1) /\ st[Memory].length + 2 * BlockSize + 1 <= Word

LEMMA ReadCharacterGives ==
  ASSUME NEW h \in Streams, NEW r \in StringTurns
  PROVE  LET t == ReadCharacter(r, h)
         IN  /\ t \in StringTurns
             /\ \A st \in AllStreams : Roomy(st, h) /\ CharacterTurn(st, h, r) => CharacterTurn(st, h, t)
<1> DEFINE a == ReadByte(r.s, h)
           t == ReadCharacter(r, h)
           over == a.bad \/ a.got = << >> \/ a.got = <<0>>
           got == r.got \o a.got
<1>1. r.s \in AllStreams /\ r.got \in Seq(Bytes) /\ r.bad \in BOOLEAN /\ r.over \in BOOLEAN
  BY DEF StringTurns
<1>2. CASE r.over
  <2>1. t = r
    BY <1>2 DEF ReadCharacter
  <2> QED BY <2>1
<1>3. CASE ~r.over
  <2>1. /\ a.s \in AllStreams /\ a.got \in Seq(Bytes) /\ a.bad \in BOOLEAN
        /\ Fits(r.s, h, 1) =>
             /\ ~a.bad => Reads(r.s, h, a) /\ Len(a.got) <= 1
             /\ h # Memory /\ ~Stray(r.s, h) => ~a.bad /\ Len(a.got) <= Left(r.s, h)
    BY <1>1, ReadByteGives
  <2>2. t = Turned(r, a, over)
    BY <1>3, Zenon DEF ReadCharacter
  <2>3. over \in BOOLEAN
    OBVIOUS
  <2>4. got \in Seq(Bytes)
    BY <1>1, <2>1, ConcatGives
  <2> HIDE DEF a, over
  <2>5. t.s = a.s /\ t.got = got /\ (t.bad <=> r.bad \/ a.bad)
    <3> HIDE DEF t
    <3> QED BY <2>2 DEF Turned
  <2>6. t \in StringTurns
    <3>1. t = [s |-> a.s, got |-> got, bad |-> (r.bad \/ a.bad), over |-> over]
      BY <2>2, Zenon DEF Turned
    <3>2. (r.bad \/ a.bad) \in BOOLEAN
      BY <1>1, <2>1
    <3> HIDE DEF t, got
    <3> QED BY <2>1, <2>3, <2>4, <3>1, <3>2 DEF StringTurns
  <2> HIDE DEF t
  <2>7. ASSUME NEW st \in AllStreams, Roomy(st, h), CharacterTurn(st, h, r) PROVE CharacterTurn(st, h, t)
    <3>1. ASSUME Reads(st, h, r) PROVE Fits(r.s, h, 1)
      <4> DEFINE n == Len(r.got)
                 S == Spot(st, h)
                 L == st[Memory].length
                 d == Len(st[Memory].data)
      <4>1. /\ r.s[Memory].length = L /\ r.s[Memory].data = st[Memory].data /\ (n > 0 => S + n <= d)
        BY <3>1 DEF Reads
      <4>2. Spot(r.s, h) = S + n
        BY <2>7, <3>1, AfterGives DEF Reads
      <4>3. S \in Nat /\ n \in Nat /\ L \in Nat /\ d \in Nat
        BY <1>1, <2>7, StreamsType
      <4>4. /\ L <= d /\ d < L + BlockSize /\ L < Word /\ S + 1 + BlockSize <= Word
            /\ L + 2 * BlockSize + 1 <= Word
        BY <2>7 DEF Roomy, Fits, Backed
      <4>5. Backed(r.s[Memory])
        BY <4>1, <4>4 DEF Backed
      <4> HIDE DEF n, S, L, d
      <4>6. S + n + 1 + BlockSize <= Word
        BY <4>1, <4>3, <4>4
      <4> QED BY <4>1, <4>2, <4>4, <4>5, <4>6 DEF Fits
    <3>2. ASSUME ~t.bad PROVE Reads(st, h, t)
      <4>1. ~r.bad /\ ~a.bad
        BY <2>5, <3>2
      <4>2. Reads(st, h, r)
        BY <2>7, <4>1 DEF CharacterTurn
      <4>3. Reads(r.s, h, a)
        BY <2>1, <3>1, <4>1, <4>2
      <4> QED BY <2>5, <2>7, <4>2, <4>3, ReadsJoin
    <3>3. ASSUME h # Memory, ~Stray(st, h) PROVE ~t.bad /\ ~Stray(t.s, h)
      <4>1. ~r.bad /\ ~Stray(r.s, h)
        BY <2>7, <3>3 DEF CharacterTurn
      <4>2. Fits(r.s, h, 1)
        BY <2>7, <3>1, <4>1 DEF CharacterTurn
      <4>3. ~a.bad /\ Len(a.got) <= Left(r.s, h) /\ Reads(r.s, h, a) /\ Len(a.got) <= 1
        BY <2>1, <3>3, <4>1, <4>2
      <4>4. Len(a.got) + 0 <= 1
        BY <2>1, <4>3
      <4>5. ~Stray(a.s, h)
        BY <1>1, <4>1, <4>2, <4>3, <4>4, ReadsKeep
      <4> QED BY <2>5, <4>1, <4>3, <4>5
    <3> QED BY <3>2, <3>3 DEF CharacterTurn
  <2> QED BY <2>6, <2>7 DEF t
<1> QED BY <1>2, <1>3

LEMMA ReadCStringGives ==
  ASSUME NEW st \in AllStreams, NEW h \in Streams, Roomy(st, h)
  PROVE  LET r == ReadCString(st, h)
         IN  /\ ~r.bad => Reads(st, h, r)
             /\ h # Memory /\ ~Stray(st, h) => ~r.bad
<1> DEFINE T == StringTurns
           N == Len(st[Memory].data) + 1
           step == [x \in T |-> ReadCharacter(x, h)]
           F(f) == f = [i \in 0 .. N |-> IF i = 0 THEN Begun(st) ELSE ReadCharacter(f[i - 1], h)]
           turn == CHOOSE f : F(f)
           I == [i \in 0 .. N |-> {x \in T : CharacterTurn(st, h, x)}]
<1>0. N \in Nat
  <2>1. st[Memory].data \in Seq(Bytes)
    BY StreamsType
  <2> QED BY <2>1
<1>1. ReadCString(st, h) = turn[N]
  BY Zenon DEF ReadCString
<1> HIDE DEF N
<1>b. Begun(st) \in T /\ Begun(st).s = st /\ ~Begun(st).bad /\ Reads(st, h, Begun(st))
  <2>1. Begun(st) \in Turns(0)
    BY BegunGives
  <2>2. Begun(st) \in T
    BY <2>1 DEF Turns, StringTurns
  <2> QED BY <2>2, BegunGives
<1>2. F(turn)
  <2>1. step \in [T -> T]
    BY ReadCharacterGives
  <2>2. Begun(st) \in T
    BY <1>b
  <2> HIDE DEF step, T
  <2>3. PICK g \in [0 .. N -> T] : g[0] = Begun(st) /\ \A i \in 1 .. N : g[i] = step[g[i - 1]]
    <3>1. Iterates(T, step, Begun(st), N)
      BY <1>0, <2>1, <2>2, Iteration
    <3> QED BY <3>1 DEF Iterates
  <2>4. ASSUME NEW i \in 0 .. N PROVE g[i] = IF i = 0 THEN Begun(st) ELSE ReadCharacter(g[i - 1], h)
    <3>1. CASE i = 0
      BY <2>3, <3>1
    <3>2. CASE i # 0
      <4>1. i \in 1 .. N /\ i - 1 \in 0 .. N
        BY <1>0, <3>2
      <4>2. g[i] = step[g[i - 1]] /\ g[i - 1] \in T
        BY <2>3, <4>1
      <4>3. step[g[i - 1]] = ReadCharacter(g[i - 1], h)
        BY <4>2 DEF step
      <4> QED BY <3>2, <4>2, <4>3
    <3> QED BY <3>1, <3>2
  <2>5. F(g)
    BY <2>3, <2>4
  <2> QED BY <2>5, Zenon
<1> HIDE DEF turn
<1>3. turn[0] = Begun(st) /\ \A i \in 1 .. N : turn[i] = ReadCharacter(turn[i - 1], h)
  <2>1. \A i \in 0 .. N : turn[i] = IF i = 0 THEN Begun(st) ELSE ReadCharacter(turn[i - 1], h)
    BY <1>2
  <2>2. 0 \in 0 .. N /\ \A i \in 1 .. N : i \in 0 .. N /\ i # 0
    BY <1>0
  <2> HIDE DEF F
  <2> QED BY <2>1, <2>2
<1>4. turn[0] \in I[0]
  <2>1. CharacterTurn(st, h, Begun(st))
    BY <1>b DEF CharacterTurn
  <2> QED BY <1>0, <1>3, <1>b, <2>1
<1>5. ASSUME NEW i \in 1 .. N, turn[i - 1] \in I[i - 1] PROVE turn[i] \in I[i]
  <2>1. i - 1 \in 0 .. N /\ i \in 0 .. N
    BY <1>0
  <2>2. turn[i - 1] \in T /\ CharacterTurn(st, h, turn[i - 1])
    BY <1>5, <2>1
  <2>3. turn[i] \in T /\ CharacterTurn(st, h, turn[i])
    BY <1>3, <2>2, ReadCharacterGives
  <2> QED BY <2>1, <2>3
<1>6. turn[N] \in I[N]
  <2> HIDE DEF I
  <2> QED BY <1>0, <1>4, <1>5, LoopKeeps
<1>7. CharacterTurn(st, h, turn[N])
  BY <1>0, <1>6
<1> QED BY <1>1, <1>7 DEF CharacterTurn

\* WriteString is one write, or one and the padding after it.
LEMMA WriteStringGives ==
  ASSUME NEW st \in AllStreams, NEW h \in Streams, NEW string \in Seq(Bytes), NEW size \in Nat,
         Fits(st, h, size)
  PROVE  FillTurn(st, h, size, WriteString(st, h, string, size))
<1> DEFINE m == Min({Len(string), size})
           cut == SubSeq(string, 1, m)
           r == Write(st, h, cut)
           k == Len(string)
           p == WritePad(r.s, h, size - k)
           n == Len(r.got)
           w == WriteString(st, h, string, size)
<1>0. k \in Nat
  OBVIOUS
<1>1. m = IF k <= size THEN k ELSE size
  BY <1>0, MinOfTwo
<1>2. w = IF size > k /\ n = k THEN Outcome(p.s, r.got \o p.got, r.bad \/ p.bad) ELSE r
  BY Zenon DEF WriteString
<1> HIDE DEF m
<1>3. cut \in Seq(Bytes) /\ Len(cut) = m
  <2>1. m \in 0 .. Len(string)
    BY <1>0, <1>1
  <2>2. \A i \in 1 .. m : string[i] \in Bytes
    BY <2>1
  <2> QED BY <2>1, <2>2
<1>4. m <= size /\ m \in Nat
  BY <1>0, <1>1
<1> HIDE DEF cut
<1>5. Fits(st, h, Len(cut))
  <2>1. Spot(st, h) \in Nat
    BY StreamsType
  <2>2. Spot(st, h) + m + BlockSize <= Word
    BY <1>4, <2>1 DEF Fits
  <2> QED BY <1>3, <2>2 DEF Fits
<1>6. /\ r.s \in AllStreams /\ r.got \in Seq(Bytes) /\ r.bad \in BOOLEAN
      /\ ~r.bad => Writes(st, h, r) /\ n <= m
      /\ ~Stray(st, h) => ~r.bad /\ (h # Memory => st[h].position + n <= st[h].length)
  BY <1>3, <1>5, WriteGives
<1> HIDE DEF r
<1>7. n \in Nat
  BY <1>6
<1>8. FillTurn(st, h, size, r)
  <2>1. ~r.bad => n <= size
    BY <1>4, <1>6, <1>7
  <2> QED BY <1>6, <2>1 DEF FillTurn
<1>9. CASE ~(size > k /\ n = k)
  BY <1>2, <1>8, <1>9
<1>10. CASE size > k /\ n = k
  <2> DEFINE rest == size - k
  <2>1. rest \in Nat /\ n + rest <= size
    BY <1>0, <1>10
  <2>2. w.s = p.s /\ w.got = r.got \o p.got /\ (w.bad <=> r.bad \/ p.bad)
    <3>1. w = Outcome(p.s, r.got \o p.got, r.bad \/ p.bad)
      BY <1>2, <1>10
    <3> HIDE DEF w, p
    <3> QED BY <3>1 DEF Outcome
  <2> HIDE DEF w
  <2>3. ASSUME ~r.bad
        PROVE  /\ FillTurn(r.s, h, rest, p) /\ p.got \in Seq(Bytes) /\ p.bad \in BOOLEAN
               /\ ~Stray(st, h) => ~Stray(r.s, h)
    <3>1. Fits(r.s, h, rest) /\ (~Stray(st, h) => ~Stray(r.s, h))
      <4>1. Writes(st, h, r)
        BY <1>6, <2>3
      <4>2. Fits(r.s, h, rest) /\ (~Stray(st, h) /\ (h # Memory => st[h].position + n <= st[h].length) => ~Stray(r.s, h))
        <5> HIDE DEF rest
        <5> QED BY <2>1, <4>1, WritesKeep
      <4> QED BY <1>6, <4>2
    <3>2. FillTurn(r.s, h, rest, p) /\ p.got \in Seq(Bytes) /\ p.bad \in BOOLEAN
      BY <1>6, <2>1, <3>1, WritePadGives
    <3> QED BY <3>1, <3>2
  <2> HIDE DEF p
  <2>4. ASSUME ~w.bad PROVE Writes(st, h, w) /\ Len(w.got) <= size
    <3>1. ~r.bad /\ ~p.bad
      BY <2>2, <2>4
    <3>2. Writes(st, h, r) /\ Writes(r.s, h, p) /\ Len(p.got) <= rest
      BY <1>6, <2>3, <3>1 DEF FillTurn
    <3>3. Writes(st, h, w) /\ Len(w.got) = n + Len(p.got)
      <4>1. w.s = p.s /\ w.got = r.got \o p.got /\ Writes(st, h, r) /\ Writes(r.s, h, p)
        BY <2>2, <3>2
      <4>2. Writes(st, h, w)
        BY <4>1, WritesJoin
      <4>3. Len(w.got) = n + Len(p.got)
        BY <4>1, WritesJoin
      <4> QED BY <4>2, <4>3
    <3>4. Len(p.got) \in Nat
      BY <2>3, <3>1
    <3>5. n + Len(p.got) <= size
      <4> HIDE DEF rest, n
      <4> QED BY <1>7, <2>1, <3>2, <3>4
    <3> QED BY <3>3, <3>5
  <2>5. ASSUME ~Stray(st, h) PROVE ~w.bad /\ (h # Memory => st[h].position + Len(w.got) <= st[h].length)
    <3>1. ~r.bad
      BY <1>6, <2>5
    <3>2. ~p.bad /\ (h # Memory => r.s[h].position + Len(p.got) <= r.s[h].length)
      BY <2>3, <2>5, <3>1 DEF FillTurn
    <3>3. ~w.bad
      BY <2>2, <3>1, <3>2
    <3>4. ASSUME h # Memory PROVE st[h].position + Len(w.got) <= st[h].length
      <4>1. Writes(st, h, r) /\ Writes(r.s, h, p)
        BY <1>6, <2>3, <3>1, <3>2 DEF FillTurn
      <4>2. r.s[h].position = st[h].position + n /\ r.s[h].length = st[h].length
        BY <3>4, <4>1, AfterGives DEF Writes
      <4>3. Len(w.got) = n + Len(p.got)
        <5>1. w.s = p.s /\ w.got = r.got \o p.got
          BY <2>2
        <5> QED BY <4>1, <5>1, WritesJoin
      <4>4. st[h].position \in Nat /\ Len(p.got) \in Nat
        BY <2>3, <3>1, StreamsType
      <4>5. r.s[h].position + Len(p.got) <= r.s[h].length
        BY <3>2, <3>4
      <4>6. (st[h].position + n) + Len(p.got) <= st[h].length
        BY <4>2, <4>5
      <4> HIDE DEF n
      <4>7. st[h].position + (n + Len(p.got)) <= st[h].length
        BY <1>7, <4>4, <4>6
      <4> QED BY <4>3, <4>7
    <3> QED BY <3>3, <3>4
  <2> QED BY <2>4, <2>5 DEF FillTurn, w
<1> QED BY <1>9, <1>10

-----------------------------------------------------------------------------
(* The inductive invariant                                                 *)

\* How far k calls can move a position or the end of the stream
Stride == 2 * MaxLength + BlockSize + 8
Reach(k) == (k + 1) * Stride

\* The streams after k calls: no number of theirs is near Word.
Good(st, k) ==
  /\ st \in AllStreams /\ Backed(st[Memory]) /\ st[Memory].length <= Reach(k)
  /\ \A h \in Streams : st[h].position <= Reach(k)

\* The bytes of the integer n are in the memory m.
Held(m, n) ==
  /\ n.at \in Nat /\ n.value \in Numbers /\ n.endian \in Endians
  /\ n.at + Len(n.value) <= m.length
  /\ \A i \in 1 .. Len(n.value) : m.data[n.at + i] = EndianWrite(n.endian, n.value)[i]

\* Until a call leaves the memory, the streams are good and hold the integers.
StreamsInv ==
  /\ made \in 0 .. MaxCalls
  /\ last.end # "fault" => Good(streams, made) /\ \A n \in ints : Held(streams[Memory], n)

LEMMA ReachGives ==
  ASSUME NEW k \in 0 .. MaxCalls
  PROVE  Reach(k) \in Nat /\ Reach(k + 1) = Reach(k) + Stride /\ Reach(k) + 2 * Stride < Word /\ Stride \in Nat
<1> DEFINE s == Stride
<1>1. s \in Nat
  BY DEF Stride
<1>2. (MaxCalls + 3) * s < Word
  BY WordAssumption DEF Stride
<1> HIDE DEF s
<1>3. PICK d \in Nat : MaxCalls = k + d
  <2>1. MaxCalls - k \in Nat /\ MaxCalls = k + (MaxCalls - k)
    OBVIOUS
  <2> QED BY <2>1
<1>4. k \in Nat /\ d * s \in Nat /\ k * s \in Nat
  BY <1>1, <1>3
<1>5. /\ (MaxCalls + 3) * s = k * s + d * s + 3 * s
      /\ (k + 1) * s = k * s + s /\ ((k + 1) + 1) * s = k * s + 2 * s
  BY <1>1, <1>3, <1>4
<1>6. Reach(k) = k * s + s /\ Reach(k + 1) = k * s + 2 * s
  BY <1>5 DEF Reach, s
<1> DEFINE x == k * s
           y == d * s
<1>7. x \in Nat /\ y \in Nat /\ x + y + 3 * s < Word /\ Reach(k) = x + s /\ Reach(k + 1) = x + 2 * s
  BY <1>2, <1>4, <1>5, <1>6
<1> HIDE DEF x, y
<1> QED BY <1>1, <1>7 DEF s

\* Good streams leave room for any call.
LEMMA GoodGives ==
  ASSUME NEW k \in 0 .. MaxCalls, NEW st, Good(st, k), NEW h \in Streams
  PROVE  /\ st \in AllStreams /\ Spot(st, h) \in Nat /\ Spot(st, h) <= Reach(k) + MaxLength
         /\ \A size \in 0 .. MaxLength + 8 : Fits(st, h, size)
         /\ Roomy(st, h)
<1> DEFINE S == Spot(st, h)
           L == st[Memory].length
           R == Reach(k)
<1>1. st \in AllStreams /\ Backed(st[Memory]) /\ L <= R /\ st[h].position <= R
  BY DEF Good
<1>2. /\ S \in Nat /\ L \in Nat /\ st[h].position \in Nat
      /\ h # Memory => st[h].offset \in Nat /\ st[h].offset <= MaxLength
      /\ S = IF h = Memory THEN st[h].position ELSE st[h].offset + st[h].position
  BY <1>1, StreamsType DEF Spot
<1>3. R \in Nat /\ R + 2 * (2 * MaxLength + BlockSize + 8) < Word
  BY ReachGives DEF Stride
<1> HIDE DEF S, L, R
<1>4. S <= R + MaxLength
  BY <1>1, <1>2, <1>3
<1>5. ASSUME NEW size \in 0 .. MaxLength + 8 PROVE Fits(st, h, size)
  <2>1. S + size + BlockSize <= Word /\ L < Word
    BY <1>1, <1>2, <1>3, <1>4
  <2> QED BY <1>1, <2>1 DEF Fits, S, L
<1>6. Roomy(st, h)
  <2>1. 1 \in 0 .. MaxLength + 8 /\ L + 2 * BlockSize + 1 <= Word
    BY <1>1, <1>2, <1>3
  <2> QED BY <1>5, <2>1 DEF Roomy, L
<1> QED BY <1>1, <1>2, <1>4, <1>5, <1>6 DEF S, R

\* A call moves only h and the memory, and neither further than a stride.
LEMMA MovedGood ==
  ASSUME NEW k \in 0 .. MaxCalls, NEW st, Good(st, k), NEW h \in Streams, NEW r,
         r.s \in AllStreams, r.got \in Seq(Bytes), SameWindows(st, h, r), Stands(st, h, r), Backed(r.s[Memory]),
         r.s[Memory].length <= Reach(k) + Stride, Spot(st, h) + Len(r.got) <= Reach(k) + Stride
  PROVE  Good(r.s, k + 1)
<1>0. /\ st \in AllStreams /\ \A g \in Streams : st[g].position <= Reach(k)
  BY DEF Good
<1>1. Reach(k) \in Nat /\ Reach(k + 1) = Reach(k) + Stride /\ Stride \in Nat
  BY ReachGives
<1>2. ASSUME NEW g \in Streams PROVE r.s[g].position <= Reach(k) + Stride
  <2>1. /\ st[g].position \in Nat /\ Len(r.got) \in Nat /\ st[g].position <= Reach(k)
    BY <1>0, StreamsType
  <2>2. CASE g = Memory
    <3>1. Stands(st, h, r)
      OBVIOUS
    <3>2. r.s[g].position \in {Spot(st, h) + Len(r.got), st[g].position}
      BY <2>2, <3>1 DEF Stands
    <3> QED BY <1>1, <2>1, <3>2
  <2>3. CASE g # Memory /\ g # h
    <3>1. r.s[g] = st[g]
      BY <1>0, <2>3, StreamsType DEF SameWindows
    <3> QED BY <1>1, <2>1, <3>1
  <2>4. CASE g # Memory /\ g = h
    <3>1. r.s[h].position = st[h].position + Len(r.got)
      BY <1>0, AfterGives
    <3>2. st[h].offset \in Nat /\ Spot(st, h) = st[h].offset + st[h].position
      BY <1>0, <2>4, StreamsType DEF Spot
    <3> QED BY <1>1, <2>1, <2>4, <3>1, <3>2, SMTT(30)
  <2> QED BY <2>2, <2>3, <2>4
<1> QED BY <1>1, <1>2 DEF Good

LEMMA ReadsGood ==
  ASSUME NEW k \in 0 .. MaxCalls, NEW st, Good(st, k), NEW h \in Streams, NEW r, Reads(st, h, r)
  PROVE  Good(r.s, k + 1)
<1> DEFINE S == Spot(st, h)
           L == st[Memory].length
           R == Reach(k)
           n == Len(r.got)
           d == Len(st[Memory].data)
<1>1. /\ r.s \in AllStreams /\ r.got \in Seq(Bytes) /\ SameWindows(st, h, r) /\ Stands(st, h, r)
      /\ r.s[Memory].data = st[Memory].data /\ r.s[Memory].length = L
      /\ n > 0 => S + n <= d
  BY DEF Reads
<1>2. Backed(st[Memory]) /\ d < L + BlockSize /\ L <= R /\ st \in AllStreams
  BY DEF Good, Backed
<1>3. S \in Nat /\ S <= R + MaxLength
  BY GoodGives
<1>4. R \in Nat /\ Stride = 2 * MaxLength + BlockSize + 8
  BY ReachGives DEF Stride
<1>5. L \in Nat /\ d \in Nat /\ n \in Nat
  BY <1>1, <1>2, StreamsType
<1>6. Backed(r.s[Memory])
  BY <1>1, <1>2 DEF Backed
<1> HIDE DEF S, L, R, n, d
<1>7. S + n <= R + Stride /\ L <= R + Stride
  BY <1>1, <1>2, <1>3, <1>4, <1>5, SMTT(30)
<1> QED BY <1>1, <1>6, <1>7, MovedGood DEF S, L, R, n

LEMMA WritesGood ==
  ASSUME NEW k \in 0 .. MaxCalls, NEW st, Good(st, k), NEW h \in Streams, NEW r, Writes(st, h, r),
         Len(r.got) <= MaxLength + 8
  PROVE  Good(r.s, k + 1)
<1> DEFINE S == Spot(st, h)
           L == st[Memory].length
           M == r.s[Memory].length
           R == Reach(k)
           n == Len(r.got)
<1>1. /\ r.s \in AllStreams /\ r.got \in Seq(Bytes) /\ SameWindows(st, h, r) /\ Stands(st, h, r)
      /\ Backed(r.s[Memory]) /\ M \in {L, S + n}
  BY DEF Writes
<1>2. L <= R /\ st \in AllStreams
  BY DEF Good
<1>3. S \in Nat /\ S <= R + MaxLength
  BY GoodGives
<1>4. R \in Nat /\ Stride = 2 * MaxLength + BlockSize + 8
  BY ReachGives DEF Stride
<1>5. L \in Nat /\ n \in Nat /\ n <= MaxLength + 8
  BY <1>1, <1>2, StreamsType
<1> HIDE DEF S, L, R, n, M
<1>7. S + n <= R + Stride /\ M <= R + Stride
  BY <1>1, <1>2, <1>3, <1>4, <1>5
<1> QED BY <1>1, <1>7, MovedGood DEF S, M, R, n

-----------------------------------------------------------------------------
(* Integers                                                                *)

LEMMA FunctionSequence ==
  ASSUME NEW S, NEW n \in Nat, NEW f \in [1 .. n -> S]
  PROVE  f \in Seq(S) /\ Len(f) = n
BY SeqDef

LEMMA NumberGives ==
  ASSUME NEW v \in Numbers
  PROVE  v \in Seq(Bytes) /\ Len(v) \in {2, 4, 8}
<1>1. PICK k \in {2, 4, 8} : v \in [1 .. k -> Octets]
  BY ByteAssumption
<1>2. v \in [1 .. k -> Bytes] /\ k \in Nat
  <2>1. \A i \in 1 .. k : v[i] \in Bytes
    BY <1>1, BytesAre
  <2> QED BY <1>1, <2>1
<1> QED BY <1>2, FunctionSequence

LEMMA ReverseGives ==
  ASSUME NEW v \in Seq(Bytes)
  PROVE  /\ Reverse(v) \in Seq(Bytes) /\ Len(Reverse(v)) = Len(v)
         /\ \A i \in 1 .. Len(v) : Reverse(v)[i] = v[Len(v) - i + 1]
<1> DEFINE n == Len(v)
           w == [i \in 1 .. n |-> v[n - i + 1]]
<1>1. n \in Nat
  OBVIOUS
<1>2. Reverse(v) = w
  BY Zenon DEF Reverse
<1>3. w \in [1 .. n -> Bytes]
  <2>1. ASSUME NEW i \in 1 .. n PROVE v[n - i + 1] \in Bytes
    <3>1. n - i + 1 \in 1 .. n
      BY <1>1
    <3> QED BY <3>1
  <2> QED BY <2>1
<1>4. w \in Seq(Bytes) /\ Len(w) = n
  BY <1>1, <1>3, FunctionSequence
<1>5. \A i \in 1 .. n : w[i] = v[n - i + 1]
  OBVIOUS
<1> HIDE DEF w
<1> QED BY <1>2, <1>4, <1>5

LEMMA ReverseTwice ==
  ASSUME NEW v \in Seq(Bytes)
  PROVE  Reverse(Reverse(v)) = v
<1> DEFINE w == Reverse(v)
           u == Reverse(w)
           n == Len(v)
<1>1. w \in Seq(Bytes) /\ Len(w) = n /\ n \in Nat /\ \A i \in 1 .. n : w[i] = v[n - i + 1]
  BY ReverseGives
<1> HIDE DEF w
<1>2. u \in Seq(Bytes) /\ Len(u) = n /\ \A i \in 1 .. n : u[i] = w[n - i + 1]
  BY <1>1, ReverseGives
<1> HIDE DEF u
<1>3. ASSUME NEW i \in 1 .. n PROVE u[i] = v[i]
  <2>1. n - i + 1 \in 1 .. n /\ n - (n - i + 1) + 1 = i
    BY <1>1
  <2> QED BY <1>1, <1>2, <2>1
<1>4. u = v
  BY <1>1, <1>2, <1>3, SeqEqual
<1> QED BY <1>4 DEF u, w

\* A byte or a byte is a byte.
LEMMA ByteOrGives ==
  ASSUME NEW a \in Bytes, NEW b \in Bytes
  PROVE  ByteOr(a, b) \in Bytes
<1> DEFINE e1 == Either(a, b, 1)
           e2 == Either(a, b, 2)
           e3 == Either(a, b, 4)
           e4 == Either(a, b, 8)
           e5 == Either(a, b, 16)
           e6 == Either(a, b, 32)
           e7 == Either(a, b, 64)
           e8 == Either(a, b, 128)
<1>1. \A bit : Either(a, b, bit) \in {0, bit}
  BY Zenon DEF Either
<1>2. /\ e1 \in {0, 1} /\ e2 \in {0, 2} /\ e3 \in {0, 4} /\ e4 \in {0, 8}
      /\ e5 \in {0, 16} /\ e6 \in {0, 32} /\ e7 \in {0, 64} /\ e8 \in {0, 128}
  BY <1>1
<1>3. ByteOr(a, b) = e1 + e2 + e3 + e4 + e5 + e6 + e7 + e8
  BY DEF ByteOr
<1> HIDE DEF e1, e2, e3, e4, e5, e6, e7, e8
<1> QED BY <1>2, <1>3 DEF Bytes

\* The swap undoes itself, unless it is that of a u64 without the compiler's help.
LEMMA SwapGives ==
  ASSUME NEW v \in Seq(Bytes), Len(v) \in {2, 4, 8}
  PROVE  /\ SwapBytes(v) \in Seq(Bytes) /\ Len(SwapBytes(v)) = Len(v)
         /\ CompilerSwaps \/ Len(v) < 8 => SwapBytes(SwapBytes(v)) = v
<1> DEFINE w == SwapBytes(v)
<1>1. CASE CompilerSwaps \/ Len(v) < 8
  <2>1. w = Reverse(v)
    BY <1>1 DEF SwapBytes
  <2>2. w \in Seq(Bytes) /\ Len(w) = Len(v) /\ Reverse(w) = v
    BY <2>1, ReverseGives, ReverseTwice
  <2> HIDE DEF w
  <2>3. SwapBytes(w) = Reverse(w)
    BY <1>1, <2>2 DEF SwapBytes
  <2> QED BY <2>2, <2>3 DEF w
<1>2. CASE ~(CompilerSwaps \/ Len(v) < 8)
  <2> DEFINE n == Len(v)
  <2>0. n \in {2, 4, 8} /\ ~(n < 8)
    BY <1>2
  <2> HIDE DEF n
  <2>a. n = 8
    BY <2>0
  <2>1. Len(v) = 8
    BY <2>a DEF n
  <2>2. w = [i \in 1 .. 8 |-> IF i \in 2 .. 4 THEN ByteOr(v[9 - i], v[i - 1]) ELSE v[9 - i]]
    BY <1>2 DEF SwapBytes
  <2>3. ASSUME NEW i \in 1 .. 8 PROVE v[9 - i] \in Bytes
    <3>1. 9 - i \in 1 .. Len(v)
      BY <2>1
    <3> QED BY <3>1
  <2>4. ASSUME NEW i \in 2 .. 4 PROVE ByteOr(v[9 - i], v[i - 1]) \in Bytes
    <3>1. 9 - i \in 1 .. Len(v) /\ i - 1 \in 1 .. Len(v)
      BY <2>1
    <3>2. v[9 - i] \in Bytes /\ v[i - 1] \in Bytes
      BY <3>1
    <3> QED BY <3>2, ByteOrGives
  <2> HIDE DEF w
  <2>5. w \in [1 .. 8 -> Bytes]
    BY <2>2, <2>3, <2>4
  <2>6. w \in Seq(Bytes) /\ Len(w) = 8
    BY <2>5, FunctionSequence
  <2> QED BY <1>2, <2>1, <2>6 DEF w
<1> QED BY <1>1, <1>2

\* The conversions keep the size of an integer, and are each other's inverse where the
\* swap is its own, whatever the machine's order.
LEMMA EndianGives ==
  ASSUME NEW endian \in Endians, NEW v \in Numbers
  PROVE  /\ EndianWrite(endian, v) \in Seq(Bytes) /\ Len(EndianWrite(endian, v)) = Len(v)
         /\ CompilerSwaps \/ Len(v) < 8 => EndianRead(endian, EndianWrite(endian, v)) = v
<1> DEFINE s == IF BigEndian(endian) = ~LittleEndian THEN v ELSE SwapBytes(v)
           e == InMemory(s)
<1>1. v \in Seq(Bytes) /\ Len(v) \in {2, 4, 8}
  BY NumberGives
<1>2. s \in Seq(Bytes) /\ Len(s) = Len(v)
  BY <1>1, SwapGives
<1>3. EndianWrite(endian, v) = e
  BY DEF EndianWrite
<1>4. CompilerSwaps \/ Len(v) < 8 => v = IF BigEndian(endian) = ~LittleEndian THEN s ELSE SwapBytes(s)
  BY <1>1, SwapGives
<1> HIDE DEF s
<1>5. e \in Seq(Bytes) /\ Len(e) = Len(s) /\ InMemory(e) = s
  BY <1>2, ReverseGives, ReverseTwice DEF InMemory
<1> HIDE DEF e
<1>6. EndianRead(endian, e) = IF BigEndian(endian) = ~LittleEndian THEN s ELSE SwapBytes(s)
  BY <1>5 DEF EndianRead
<1> QED BY <1>2, <1>3, <1>4, <1>5, <1>6

-----------------------------------------------------------------------------
(* Every call is one of a few kinds                                        *)

Made(h, r) ==
  /\ made < MaxCalls /\ made' = made + 1 /\ last.end # "fault" /\ last'.on = h
  /\ streams' = r.s /\ (last'.end = "fault" <=> r.bad)

\* A call that reads
Reading(h, r) ==
  /\ Made(h, r) /\ Opened(h) /\ UNCHANGED ints
  /\ ~r.bad => Reads(streams, h, r)
  /\ ~Stray(streams, h) /\ ~(h = Memory /\ last'.op \in {"ReadByte", "ReadCString"}) => ~r.bad
  /\ last'.op \in {"Read", "ReadBytes", "Pad"} =>
       /\ last'.got = r.got /\ last'.size \in Nat
       /\ ~Stray(streams, h) => Len(r.got) = IF last'.size <= Left(streams, h) THEN last'.size ELSE Left(streams, h)
  /\ last'.op = "ReadInt" /\ last'.end = "returned" =>
       Len(r.got) = last'.size /\ last'.got = EndianRead(last'.endian, r.got)

\* A call that writes, and the integer that it wrote
Writing(h, r, wrote) ==
  /\ Made(h, r) /\ Opened(h) /\ FillTurn(streams, h, MaxLength + 8, r)
  /\ ints' = Kept(At(h), At(h) + Len(r.got)) \cup wrote
  /\ \A n \in wrote :
       /\ n.at = At(h) /\ n.value \in Numbers /\ n.endian \in Endians /\ Len(r.got) = Len(n.value)
       /\ ~r.bad => \A i \in 1 .. Len(n.value) : r.got[i] = EndianWrite(n.endian, n.value)[i]
  /\ last'.op \notin {"Open", "SetLength", "Read", "ReadBytes", "Pad", "ReadInt"}

\* A call that moves no byte
Setting(h) ==
  \/ \E n \in 0 .. MaxLength : SetPosition(h, n) \/ SetLengthCall(h, n)
  \/ h # Memory /\ \E o \in 0 .. MaxLength, n \in 0 .. MaxLength : Open(h, o, n) \/ OpenRest(h, o)

LEMMA CallMade ==
  ASSUME NEW op, NEW endian, NEW h, NEW size, NEW r, NEW full,
         CalledAs(op, endian, h, size, r, full)
  PROVE  /\ Made(h, r) /\ last'.op = op /\ last'.endian = endian /\ last'.size = size /\ last'.got = r.got
         /\ last'.end = "returned" => ~(Len(r.got) < full)
<1> DEFINE end == IF r.bad THEN "fault" ELSE IF Len(r.got) < full THEN "thrown" ELSE "returned"
<1>1. /\ made < MaxCalls /\ made' = made + 1 /\ last.end # "fault" /\ streams' = r.s
      /\ last' = [op |-> op, endian |-> endian, on |-> h, size |-> size, got |-> r.got, end |-> end]
  BY DEF CalledAs
<1>2. (end = "fault" <=> r.bad) /\ (end = "returned" => ~(Len(r.got) < full))
  OBVIOUS
<1> HIDE DEF end
<1> QED BY <1>1, <1>2 DEF Made

\* The sizes of a write may be larger than what is written.
LEMMA FillMore ==
  ASSUME NEW st, NEW h, NEW r, NEW size \in Nat, NEW more \in Nat, size <= more, FillTurn(st, h, size, r)
  PROVE  FillTurn(st, h, more, r)
<1>1. ~r.bad => Len(r.got) \in Nat
  BY DEF FillTurn, Writes
<1> QED BY <1>1 DEF FillTurn

LEMMA GoodCall ==
  ASSUME StreamsInv, last.end # "fault", NEW h \in Streams
  PROVE  /\ made \in 0 .. MaxCalls /\ Good(streams, made) /\ streams \in AllStreams
         /\ Spot(streams, h) \in Nat /\ At(h) = Spot(streams, h) /\ Spot(streams, h) < Word
         /\ \A size \in 0 .. MaxLength + 8 : Fits(streams, h, size)
         /\ Roomy(streams, h)
<1>1. made \in 0 .. MaxCalls /\ Good(streams, made)
  BY DEF StreamsInv
<1>2. /\ streams \in AllStreams /\ Spot(streams, h) \in Nat
      /\ \A size \in 0 .. MaxLength + 8 : Fits(streams, h, size)
      /\ Roomy(streams, h)
  BY <1>1, GoodGives
<1>3. Spot(streams, h) < Word
  <2>1. Fits(streams, h, 0)
    BY <1>2
  <2> QED BY <1>2, <2>1 DEF Fits
<1>4. At(h) = IF h = Memory THEN Spot(streams, h) ELSE Unsigned(Spot(streams, h))
  BY DEF At, Spot
<1>5. Unsigned(Spot(streams, h)) = Spot(streams, h)
  BY <1>2, <1>3, UnsignedGives
<1> QED BY <1>1, <1>2, <1>3, <1>4, <1>5

LEMMA ReadCallsKind ==
  ASSUME StreamsInv, NEW h \in Streams, ReadCalls(h)
  PROVE  \E r : Reading(h, r)
<1>0. Opened(h) /\ UNCHANGED ints
  BY DEF ReadCalls
<1> DEFINE G == /\ streams \in AllStreams /\ Roomy(streams, h)
                /\ \A size \in 0 .. MaxLength + 8 : Fits(streams, h, size)
<1>g. last.end # "fault" => G
  BY GoodCall
<1> HIDE DEF G
<1>1. ASSUME NEW n \in 0 .. MaxLength, NEW op \in {"Read", "ReadBytes", "Pad"}, NEW r, NEW full,
             Called(op, h, n, r, full), last.end # "fault" => r \in {Read(streams, h, n), ReadPad(streams, h, n)}
      PROVE  Reading(h, r)
  <2>1. Made(h, r) /\ last'.op = op /\ last'.size = n /\ last'.got = r.got /\ last.end # "fault"
    <3>1. CalledAs(op, "none", h, n, r, full)
      BY <1>1 DEF Called
    <3>2. last.end # "fault"
      BY <3>1 DEF CalledAs
    <3> QED BY <3>1, <3>2, CallMade
  <2>2. streams \in AllStreams /\ Fits(streams, h, n) /\ n \in Nat
    BY <1>g, <2>1 DEF G
  <2>3. /\ ~r.bad => Reads(streams, h, r)
        /\ ~Stray(streams, h) => ~r.bad /\ Len(r.got) = IF n <= Left(streams, h) THEN n ELSE Left(streams, h)
    <3>1. CASE r = Read(streams, h, n)
      BY <2>2, <3>1, ReadGives
    <3>2. CASE r = ReadPad(streams, h, n)
      BY <2>2, <3>2, ReadPadGives
    <3> QED BY <1>1, <2>1, <3>1, <3>2
  <2> QED BY <1>0, <2>1, <2>2, <2>3 DEF Reading
<1>2. ASSUME NEW r, NEW op \in {"ReadCString", "ReadByte"}, NEW size, Called(op, h, size, r, 0),
             last.end # "fault" => r \in {ReadCString(streams, h), ReadByte(streams, h)}
      PROVE  Reading(h, r)
  <2>1. Made(h, r) /\ last'.op = op /\ last.end # "fault"
    <3>1. CalledAs(op, "none", h, size, r, 0)
      BY <1>2 DEF Called
    <3>2. last.end # "fault"
      BY <3>1 DEF CalledAs
    <3> QED BY <3>1, <3>2, CallMade
  <2>2. streams \in AllStreams /\ Roomy(streams, h) /\ Fits(streams, h, 1)
    BY <1>g, <2>1 DEF G, Roomy
  <2>3. /\ ~r.bad => Reads(streams, h, r)
        /\ h # Memory /\ ~Stray(streams, h) => ~r.bad
    <3>1. CASE r = ReadCString(streams, h)
      BY <2>2, <3>1, ReadCStringGives
    <3>2. CASE r = ReadByte(streams, h)
      BY <2>2, <3>2, ReadByteGives
    <3> QED BY <1>2, <2>1, <3>1, <3>2
  <2> QED BY <1>0, <2>1, <2>3 DEF Reading
<1>3. CASE \E n \in 0 .. MaxLength : Called("Read", h, n, Read(streams, h, n), 0)
  BY <1>1, <1>3
<1>4. CASE \E n \in 1 .. MaxLength : Called("ReadBytes", h, n, Read(streams, h, n), n)
  <2>1. PICK n \in 1 .. MaxLength : Called("ReadBytes", h, n, Read(streams, h, n), n)
    BY <1>4
  <2>2. n \in 0 .. MaxLength
    OBVIOUS
  <2> QED BY <1>1, <2>1, <2>2
<1>5. CASE \E n \in 1 .. MaxLength : Called("Pad", h, n, ReadPad(streams, h, n), n)
  <2>1. PICK n \in 1 .. MaxLength : Called("Pad", h, n, ReadPad(streams, h, n), n)
    BY <1>5
  <2>2. n \in 0 .. MaxLength
    OBVIOUS
  <2> QED BY <1>1, <2>1, <2>2
<1>6. CASE Called("ReadCString", h, Word, ReadCString(streams, h), 0)
  BY <1>2, <1>6
<1>7. CASE Called("ReadByte", h, 1, ReadByte(streams, h), 0)
  BY <1>2, <1>7
<1> QED BY <1>3, <1>4, <1>5, <1>6, <1>7 DEF ReadCalls

LEMMA ReadIntKind ==
  ASSUME StreamsInv, NEW h \in Streams, NEW endian \in Endians, NEW size \in {2, 4, 8}, ReadInt(h, endian, size)
  PROVE  \E r : Reading(h, r)
<1> DEFINE r == Read(streams, h, size)
           c == IF Len(r.got) = size THEN [r EXCEPT !.got = EndianRead(endian, @)] ELSE r
<1>1. Opened(h) /\ UNCHANGED ints /\ CalledAs("ReadInt", endian, h, size, c, size)
  BY Zenon DEF ReadInt
<1>2. last.end # "fault"
  BY <1>1 DEF CalledAs
<1>3. streams \in AllStreams /\ Fits(streams, h, size) /\ size \in Nat
  BY <1>2, GoodCall
<1>4. /\ r.s \in AllStreams /\ r.got \in Seq(Bytes) /\ r.bad \in BOOLEAN
      /\ ~r.bad => Reads(streams, h, r) /\ Len(r.got) <= size
      /\ ~Stray(streams, h) => ~r.bad
  BY <1>3, ReadGives
<1>5. r = [s |-> r.s, got |-> r.got, bad |-> r.bad]
  BY DEF Read, Outcome
<1> HIDE DEF r
<1>6. /\ c.s = r.s /\ c.bad = r.bad
      /\ c.got = IF Len(r.got) = size THEN EndianRead(endian, r.got) ELSE r.got
  <2> DEFINE e == EndianRead(endian, r.got)
  <2>1. c = IF Len(r.got) = size THEN [r EXCEPT !.got = e] ELSE r
    BY Zenon
  <2> HIDE DEF e, c
  <2>2. CASE Len(r.got) = size
    BY <1>5, <2>1, <2>2 DEF e
  <2>3. CASE Len(r.got) # size
    BY <2>1, <2>3
  <2> QED BY <2>2, <2>3
<1> HIDE DEF c
<1>7. /\ Made(h, c) /\ last'.op = "ReadInt" /\ last'.endian = endian /\ last'.size = size /\ last'.got = c.got
      /\ last'.end = "returned" => ~(Len(c.got) < size)
  BY <1>1, CallMade
<1>8. Made(h, r)
  BY <1>6, <1>7 DEF Made
<1>9. ASSUME last'.end = "returned" PROVE Len(r.got) = last'.size /\ last'.got = EndianRead(last'.endian, r.got)
  <2>1. ~r.bad
    BY <1>8, <1>9 DEF Made
  <2>2. Len(r.got) \in Nat /\ Len(r.got) <= size
    BY <1>4, <2>1
  <2>3. CASE Len(r.got) = size
    <3>1. c.got = EndianRead(endian, r.got)
      BY <1>6, <2>3, Zenon
    <3>2. last'.got = c.got /\ last'.endian = endian /\ last'.size = size
      BY <1>7
    <3>3. last'.got = EndianRead(last'.endian, r.got)
      BY <3>1, <3>2
    <3> QED BY <2>3, <3>2, <3>3
  <2>4. CASE Len(r.got) # size
    <3>1. c.got = r.got
      BY <1>6, <2>4
    <3>2. ~(Len(c.got) < size)
      BY <1>7, <1>9
    <3>3. ~(Len(r.got) < size)
      BY <3>1, <3>2
    <3> DEFINE n == Len(r.got)
    <3>4. n \in Nat /\ n <= size /\ n # size /\ ~(n < size) /\ size \in Nat
      BY <2>2, <2>4, <3>3
    <3> HIDE DEF n
    <3>5. FALSE
      BY <3>4
    <3> QED BY <3>5
  <2> QED BY <2>3, <2>4
<1> QED BY <1>1, <1>4, <1>7, <1>8, <1>9 DEF Reading

\* A write of a client's, with no integer
LEMMA WrittenKind ==
  ASSUME StreamsInv, NEW h \in Streams, NEW r, NEW op, NEW n, NEW full, NEW size \in 0 .. MaxLength + 8,
         Written(op, h, n, r, full), op \notin {"Open", "SetLength", "Read", "ReadBytes", "Pad", "ReadInt"},
         last.end # "fault" => FillTurn(streams, h, size, r)
  PROVE  Writing(h, r, {})
<1>1. Opened(h) /\ CalledAs(op, "none", h, n, r, full) /\ ints' = Kept(At(h), At(h) + Len(r.got))
  BY DEF Written, Called
<1>2. last.end # "fault"
  BY <1>1 DEF CalledAs
<1>3. Made(h, r) /\ last'.op = op
  BY <1>1, CallMade
<1>4. FillTurn(streams, h, MaxLength + 8, r)
  BY <1>2, FillMore
<1> QED BY <1>1, <1>3, <1>4 DEF Writing

LEMMA WriteFills ==
  ASSUME NEW st \in AllStreams, NEW h \in Streams, NEW bytes \in Seq(Bytes), Fits(st, h, Len(bytes))
  PROVE  FillTurn(st, h, Len(bytes), Write(st, h, bytes))
BY WriteGives DEF FillTurn

LEMMA WriteCallsKind ==
  ASSUME StreamsInv, NEW h \in Streams, WriteCalls(h)
  PROVE  \E r, wrote : Writing(h, r, wrote)
<1>g. last.end # "fault" => streams \in AllStreams /\ \A size \in 0 .. MaxLength + 8 : Fits(streams, h, size)
  BY GoodCall
<1>1. ASSUME NEW b \in Octets, Written("WriteByte", h, 1, Write(streams, h, <<b>>), 1)
      PROVE  \E r, wrote : Writing(h, r, wrote)
  <2> DEFINE bytes == <<b>>
  <2>1. bytes \in Seq(Bytes) /\ Len(bytes) = 1
    BY BytesAre
  <2> HIDE DEF bytes
  <2>2. 1 \in 0 .. MaxLength + 8
    OBVIOUS
  <2>3. last.end # "fault" => FillTurn(streams, h, 1, Write(streams, h, bytes))
    BY <1>g, <2>1, <2>2, WriteFills
  <2>4. Writing(h, Write(streams, h, bytes), {})
    BY <1>1, <2>2, <2>3, WrittenKind DEF bytes
  <2> QED BY <2>4
<1>2. ASSUME NEW n \in 2 .. MaxLength, Written("WritePad", h, n, WritePad(streams, h, n), n)
      PROVE  \E r, wrote : Writing(h, r, wrote)
  <2>1. n \in 0 .. MaxLength + 8 /\ n \in Nat
    OBVIOUS
  <2>2. last.end # "fault" => FillTurn(streams, h, n, WritePad(streams, h, n))
    BY <1>g, <2>1, WritePadGives
  <2>3. Writing(h, WritePad(streams, h, n), {})
    BY <1>2, <2>1, <2>2, WrittenKind
  <2> QED BY <2>3
<1>3. ASSUME NEW b \in Octets, NEW n \in 0 .. MaxLength,
             Written("WriteString", h, n, WriteString(streams, h, <<b, b>>, n), n)
      PROVE  \E r, wrote : Writing(h, r, wrote)
  <2> DEFINE string == <<b, b>>
  <2>1. string \in Seq(Bytes)
    BY BytesAre
  <2> HIDE DEF string
  <2>2. n \in 0 .. MaxLength + 8 /\ n \in Nat
    OBVIOUS
  <2>3. last.end # "fault" => FillTurn(streams, h, n, WriteString(streams, h, string, n))
    BY <1>g, <2>1, <2>2, WriteStringGives
  <2>4. Writing(h, WriteString(streams, h, string, n), {})
    BY <1>3, <2>2, <2>3, WrittenKind DEF string
  <2> QED BY <2>4
<1> QED BY <1>1, <1>2, <1>3 DEF WriteCalls

LEMMA PadToKind ==
  ASSUME StreamsInv, NEW h \in Streams, NEW to \in Nat, PadTo(h, to),
         last.end # "fault" => to - streams[h].position <= MaxLength + 8
  PROVE  \E r, wrote : Writing(h, r, wrote)
<1> DEFINE n == to - streams[h].position
<1>1. to >= streams[h].position /\ Written("PadTo", h, to, WritePad(streams, h, n), n)
  BY DEF PadTo
<1>2. last.end # "fault"
  BY <1>1 DEF Written, Called, CalledAs
<1>3. streams \in AllStreams /\ \A size \in 0 .. MaxLength + 8 : Fits(streams, h, size)
  BY <1>2, GoodCall
<1>4. n \in 0 .. MaxLength + 8
  <2>1. streams[h].position \in Nat
    BY <1>3, StreamsType
  <2> QED BY <1>1, <1>2, <2>1
<1> HIDE DEF n
<1>5. FillTurn(streams, h, n, WritePad(streams, h, n))
  BY <1>3, <1>4, WritePadGives
<1>6. Writing(h, WritePad(streams, h, n), {})
  BY <1>1, <1>4, <1>5, WrittenKind
<1> QED BY <1>6

LEMMA PadToMultipleKind ==
  ASSUME StreamsInv, NEW h \in Streams, PadToMultiple(h)
  PROVE  \E r, wrote : Writing(h, r, wrote)
<1> DEFINE p == streams[h].position
           to == RoundUp(p, 2)
<1>1. PadTo(h, to)
  BY DEF PadToMultiple
<1>2. last.end # "fault"
  BY <1>1 DEF PadTo, Written, Called, CalledAs
<1>3. made \in 0 .. MaxCalls /\ Good(streams, made) /\ streams \in AllStreams
  BY <1>2, GoodCall
<1>4. p \in Nat /\ p <= Reach(made)
  BY <1>3, StreamsType DEF Good
<1>5. p + 2 <= Word
  <2>1. Reach(made) \in Nat /\ Reach(made) + 2 * (2 * MaxLength + BlockSize + 8) < Word
    BY <1>3, ReachGives DEF Stride
  <2> HIDE DEF p
  <2> QED BY <1>4, <2>1
<1>6. to \in Nat /\ p <= to /\ to < p + 2
  <2> HIDE DEF p
  <2> QED BY <1>4, <1>5, RoundUpGives
<1>7. to - p <= MaxLength + 8
  <2> HIDE DEF p, to
  <2> QED BY <1>4, <1>6
<1> HIDE DEF to
<1> QED BY <1>1, <1>6, <1>7, PadToKind

LEMMA WriteIntKind ==
  ASSUME StreamsInv, NEW h \in Streams, NEW endian \in Endians, NEW value \in Numbers,
         WriteInt(h, endian, value)
  PROVE  \E r, wrote : Writing(h, r, wrote)
<1> DEFINE bytes == EndianWrite(endian, value)
           r == Write(streams, h, bytes)
           new == [at |-> At(h), value |-> value, endian |-> endian]
           size == Len(value)
           wrote == IF Len(r.got) = size THEN {new} ELSE {}
<1>1. Opened(h) /\ CalledAs("WriteInt", "none", h, size, r, size) /\ ints' = Kept(At(h), At(h) + Len(r.got)) \cup wrote
  BY Zenon DEF WriteInt, Called
<1>2. last.end # "fault"
  BY <1>1 DEF CalledAs
<1>3. bytes \in Seq(Bytes) /\ Len(bytes) = size /\ size \in {2, 4, 8}
  BY EndianGives, NumberGives
<1> HIDE DEF bytes, size, wrote
<1>a. size \in Nat /\ MaxLength + 8 \in Nat /\ size <= MaxLength + 8 /\ size \in 0 .. MaxLength + 8
  BY <1>3
<1>4. streams \in AllStreams /\ Fits(streams, h, size)
  BY <1>2, <1>a, GoodCall
<1>5. FillTurn(streams, h, MaxLength + 8, r)
  <2>1. FillTurn(streams, h, size, r)
    BY <1>3, <1>4, <1>a, WriteFills
  <2> HIDE DEF r
  <2> QED BY <1>a, <2>1, FillMore
<1>6. ~r.bad => \A i \in 1 .. Len(r.got) : r.got[i] = bytes[i]
  BY <1>3, <1>4, <1>a, WriteGives
<1> HIDE DEF r
<1>7. Made(h, r) /\ last'.op = "WriteInt"
  BY <1>1, CallMade
<1>8. ASSUME NEW n \in wrote
      PROVE  /\ n.at = At(h) /\ n.value \in Numbers /\ n.endian \in Endians /\ Len(r.got) = Len(n.value)
             /\ ~r.bad => \A i \in 1 .. Len(n.value) : r.got[i] = EndianWrite(n.endian, n.value)[i]
  <2>1. n = new /\ Len(r.got) = size
    BY <1>8 DEF wrote
  <2>2. n.at = At(h) /\ n.value = value /\ n.endian = endian
    BY <2>1
  <2>3. ~r.bad => \A i \in 1 .. size : r.got[i] = bytes[i]
    BY <1>6, <2>1
  <2>4. EndianWrite(n.endian, n.value) = bytes /\ size = Len(n.value)
    BY <2>2 DEF bytes, size
  <2> QED BY <2>1, <2>2, <2>3, <2>4
<1>9. Writing(h, r, wrote)
  BY <1>1, <1>5, <1>7, <1>8 DEF Writing
<1> QED BY <1>9

LEMMA EachCall ==
  ASSUME StreamsInv, StreamsNext
  PROVE  \E h \in Streams : \/ \E r : Reading(h, r)
                            \/ \E r, wrote : Writing(h, r, wrote)
                            \/ Setting(h)
<1>1. PICK h \in Streams :
        \/ ReadCalls(h)
        \/ WriteCalls(h)
        \/ \E endian \in Endians, size \in {2, 4, 8} : ReadInt(h, endian, size)
        \/ \E endian \in Endians, value \in Numbers : WriteInt(h, endian, value)
        \/ \E n \in 0 .. MaxLength : PadTo(h, n) \/ SetPosition(h, n) \/ SetLengthCall(h, n)
        \/ PadToMultiple(h)
        \/ h # Memory /\ \E o \in 0 .. MaxLength, n \in 0 .. MaxLength : Open(h, o, n) \/ OpenRest(h, o)
  BY Zenon DEF StreamsNext
<1>2. ASSUME NEW n \in 0 .. MaxLength, PadTo(h, n) PROVE \E r, wrote : Writing(h, r, wrote)
  <2>1. ASSUME last.end # "fault" PROVE n - streams[h].position <= MaxLength + 8
    <3>1. streams[h].position \in Nat
      BY <2>1, GoodCall, StreamsType
    <3> QED BY <3>1
  <2>2. n \in Nat
    OBVIOUS
  <2> QED BY <1>2, <2>1, <2>2, PadToKind
<1>3. (\E r : Reading(h, r)) \/ (\E r, wrote : Writing(h, r, wrote)) \/ Setting(h)
  BY <1>1, <1>2, ReadCallsKind, ReadIntKind, WriteCallsKind, WriteIntKind, PadToMultipleKind DEF Setting
<1> QED BY <1>3

-----------------------------------------------------------------------------
(* The invariant is inductive                                              *)

LEMMA InitInv ==
  ASSUME StreamsInit
  PROVE  StreamsInv
<1>1. PICK data \in Contents, position \in {0, MaxLength + 1} :
        streams = [h \in Streams |-> IF h = Memory THEN Constructed(data, position)
                                     ELSE [open |-> FALSE, offset |-> 0, length |-> 0, position |-> 0]]
  BY DEF StreamsInit
<1>2. made = 0 /\ ints = {}
  BY DEF StreamsInit
<1> DEFINE k == Len(data)
<1>3. data \in Seq(Bytes) /\ k \in Nat /\ k <= MaxLength /\ position \in Nat /\ position <= MaxLength + 1
  <2>1. data \in BoundedSeq(Octets, MaxLength)
    BY ContentsAssumption
  <2>2. PICK n \in 0 .. MaxLength : data \in [1 .. n -> Octets]
    BY <2>1, Zenon DEF BoundedSeq, SeqOf
  <2>3. data \in [1 .. n -> Bytes] /\ n \in Nat
    BY <2>2, BytesAre
  <2>4. data \in Seq(Bytes) /\ k = n
    BY <2>3, FunctionSequence
  <2> HIDE DEF k
  <2> QED BY <2>2, <2>4
<1> DEFINE m0 == Stream(<< >>, 0, position)
           m1 == SetLength(m0, k)
           m == Constructed(data, position)
<1>4. m0 \in MemoryType
  <2>1. << >> \in Seq(Bytes) /\ 0 \in Nat /\ position \in Nat
    BY <1>3
  <2> QED BY <2>1, StreamIs
<1>5. Reach(0) \in Nat /\ Reach(0) = Stride /\ Reach(0) + 2 * Stride < Word /\ Stride = 2 * MaxLength + BlockSize + 8
  BY ReachGives DEF Reach, Stride
<1>6. m1 \in MemoryType /\ m1.length = k /\ m1.position = m0.position /\ Backed(m1)
  <2>1. k + BlockSize <= Word
    <3> HIDE DEF k
    <3> QED BY <1>3, <1>5
  <2> HIDE DEF m0, k
  <2> QED BY <1>3, <1>4, <2>1, SetLengthGives
<1>7. m0.position = position
  BY StreamIs
<1> DEFINE E == Overwrite(m1.data, 0, data)
<1>8. m = [m1 EXCEPT !.data = E]
  BY Zenon DEF Constructed, Stream
<1> HIDE DEF m1, m0
<1>9. m1.data \in Seq(Bytes) /\ m1 = Stream(m1.data, m1.length, m1.position)
  BY <1>6, StreamFields
<1>10. E \in Seq(Bytes) /\ Len(E) = Len(m1.data)
  BY <1>3, <1>9, OverwriteGives
<1> HIDE DEF E, m, k
<1>11. m \in MemoryType /\ m.length = k /\ m.position = position /\ m.data = E
  BY <1>3, <1>6, <1>7, <1>8, <1>9, <1>10 DEF MemoryType
<1>12. Backed(m)
  BY <1>6, <1>10, <1>11 DEF Backed
<1> DEFINE w == [open |-> FALSE, offset |-> 0, length |-> 0, position |-> 0]
<1>13. w \in WindowType /\ w.position = 0
  BY DEF WindowType
<1> HIDE DEF w
<1>14. Memory \in Streams /\ Memory \notin Substreams /\ Substreams \subseteq Streams
  BY ByteAssumption DEF Streams, Memory
<1>15. streams = [h \in Streams |-> IF h = Memory THEN m ELSE w]
  BY <1>1 DEF m, w
<1>16. /\ streams[Memory] = m /\ \A g \in Substreams : streams[g] = w
       /\ \A h \in Streams : streams[h] \in {m, w} /\ streams \in [Streams -> MemoryType \cup WindowType]
  BY <1>11, <1>13, <1>14, <1>15
<1>17. streams \in AllStreams
  BY <1>11, <1>13, <1>14, <1>16 DEF AllStreams
<1>18. k <= Reach(0) /\ position <= Reach(0)
  BY <1>3, <1>5
<1>19. ASSUME NEW h \in Streams PROVE streams[h].position <= Reach(0)
  BY <1>5, <1>11, <1>13, <1>16, <1>18
<1>20. Good(streams, 0)
  BY <1>11, <1>12, <1>16, <1>17, <1>18, <1>19 DEF Good
<1> QED BY <1>2, <1>20 DEF StreamsInv

\* An integer stays where its bytes stay.
LEMMA HeldStays ==
  ASSUME NEW m, NEW t, NEW n, Held(m, n), m.length \in Nat, t.length \in Nat, n.at + Len(n.value) <= t.length,
         \A i \in n.at + 1 .. n.at + Len(n.value) : t.data[i] = m.data[i]
  PROVE  Held(t, n)
<1> DEFINE k == Len(n.value)
<1>0. n.at \in Nat /\ k \in Nat
  BY NumberGives DEF Held
<1> HIDE DEF k
<1>1. \A i \in 1 .. k : n.at + i \in n.at + 1 .. n.at + k
  BY <1>0
<1>2. \A i \in 1 .. k : t.data[n.at + i] = EndianWrite(n.endian, n.value)[i]
  BY <1>1 DEF Held, k
<1> QED BY <1>2 DEF Held, k

LEMMA ReadingInv ==
  ASSUME StreamsInv, NEW h \in Streams, NEW r, Reading(h, r)
  PROVE  StreamsInv'
<1>1. Made(h, r) /\ ints' = ints /\ (~r.bad => Reads(streams, h, r))
  BY DEF Reading
<1>2. made < MaxCalls /\ made' = made + 1 /\ last.end # "fault" /\ streams' = r.s /\ (last'.end = "fault" <=> r.bad)
  BY <1>1 DEF Made
<1>3. made \in 0 .. MaxCalls /\ Good(streams, made) /\ streams \in AllStreams /\ \A n \in ints : Held(streams[Memory], n)
  BY <1>2, GoodCall DEF StreamsInv
<1>4. made' \in 0 .. MaxCalls
  BY <1>2, <1>3
<1>5. ASSUME last'.end # "fault" PROVE Good(streams', made') /\ \A n \in ints' : Held(streams'[Memory], n)
  <2>1. Reads(streams, h, r)
    BY <1>1, <1>2, <1>5
  <2>2. Good(r.s, made + 1)
    BY <1>3, <2>1, ReadsGood
  <2>3. r.s[Memory].data = streams[Memory].data /\ r.s[Memory].length = streams[Memory].length
    BY <2>1 DEF Reads
  <2>4. \A n \in ints : Held(r.s[Memory], n)
    BY <1>3, <2>3 DEF Held
  <2> QED BY <1>1, <1>2, <2>2, <2>4
<1> QED BY <1>4, <1>5 DEF StreamsInv, Good, Held

LEMMA WritingInv ==
  ASSUME StreamsInv, NEW h \in Streams, NEW r, NEW wrote, Writing(h, r, wrote)
  PROVE  StreamsInv'
<1>1. /\ Made(h, r) /\ FillTurn(streams, h, MaxLength + 8, r)
      /\ ints' = Kept(At(h), At(h) + Len(r.got)) \cup wrote
  BY DEF Writing
<1>2. made < MaxCalls /\ made' = made + 1 /\ last.end # "fault" /\ streams' = r.s /\ (last'.end = "fault" <=> r.bad)
  BY <1>1 DEF Made
<1> DEFINE S == Spot(streams, h)
           g == Len(r.got)
           m == streams[Memory]
           t == r.s[Memory]
<1>3. /\ made \in 0 .. MaxCalls /\ Good(streams, made) /\ streams \in AllStreams /\ \A n \in ints : Held(m, n)
      /\ At(h) = S /\ S \in Nat
  BY <1>2, GoodCall DEF StreamsInv
<1>4. made' \in 0 .. MaxCalls
  BY <1>2, <1>3
<1>5. ASSUME last'.end # "fault" PROVE Good(streams', made') /\ \A n \in ints' : Held(streams'[Memory], n)
  <2>1. ~r.bad
    BY <1>2, <1>5
  <2>2. Writes(streams, h, r) /\ g <= MaxLength + 8
    BY <1>1, <2>1 DEF FillTurn
  <2>3. Good(r.s, made + 1)
    BY <1>3, <2>2, WritesGood
  <2>4. /\ r.s \in AllStreams /\ r.got \in Seq(Bytes) /\ t.length >= m.length /\ (g > 0 => S + g <= t.length)
        /\ \A i \in 1 .. g : t.data[S + i] = r.got[i]
        /\ \A i \in 1 .. m.length : i \notin S + 1 .. S + g => t.data[i] = m.data[i]
    BY <2>2 DEF Writes
  <2>5. m.length \in Nat /\ t.length \in Nat /\ g \in Nat
    BY <1>3, <2>4, StreamsType
  <2>6. ASSUME NEW n \in Kept(At(h), At(h) + g) PROVE Held(t, n)
    <3>1. n \in ints /\ (n.at + Len(n.value) <= S \/ n.at >= S + g)
      BY <1>3 DEF Kept
    <3> DEFINE k == Len(n.value)
    <3>2. Held(m, n) /\ n.at \in Nat /\ n.at + k <= m.length /\ k \in Nat
      BY <1>3, <3>1, NumberGives DEF Held
    <3>4. n.at + k <= S \/ n.at >= S + g
      BY <3>1
    <3> DEFINE a == n.at
               L == m.length
    <3>5. a \in Nat /\ L \in Nat /\ k \in Nat /\ a + k <= L /\ (a + k <= S \/ a >= S + g)
      BY <2>5, <3>2, <3>4
    <3>6. a + k <= t.length
      <4> HIDE DEF a, k
      <4> QED BY <2>4, <2>5, <3>2, <3>5
    <3>7. ASSUME NEW i \in a + 1 .. a + k PROVE t.data[i] = m.data[i]
      <4>1. i \in 1 .. L /\ i \notin S + 1 .. S + g
        <5> HIDE DEF S, a, L, g, k
        <5> QED BY <1>3, <2>5, <3>2, <3>5
      <4> QED BY <2>4, <4>1
    <3> HIDE DEF m, t
    <3> QED BY <2>5, <3>2, <3>6, <3>7, HeldStays
  <2>7. ASSUME NEW n \in wrote PROVE Held(t, n)
    <3> DEFINE k == Len(n.value)
    <3>1. /\ n.at = S /\ n.value \in Numbers /\ n.endian \in Endians /\ g = k
          /\ \A i \in 1 .. k : r.got[i] = EndianWrite(n.endian, n.value)[i]
      BY <1>3, <2>1 DEF Writing
    <3>0. k \in {2, 4, 8}
      BY <3>1, NumberGives
    <3>2. n.at + k <= t.length
      <4>1. S + g <= t.length
        <5> HIDE DEF S, t
        <5>1. g > 0
          <6> HIDE DEF g, k
          <6> QED BY <3>0, <3>1
        <5> QED BY <2>4, <5>1
      <4> HIDE DEF g, t, S
      <4> QED BY <3>1, <4>1
    <3>3. \A i \in 1 .. k : t.data[n.at + i] = EndianWrite(n.endian, n.value)[i]
      <4> HIDE DEF g, t, S
      <4> QED BY <2>4, <3>1
    <3>4. n.at \in Nat
      BY <1>3, <3>1
    <3> QED BY <3>1, <3>2, <3>3, <3>4 DEF Held
  <2> QED BY <1>1, <1>2, <2>3, <2>6, <2>7
<1> QED BY <1>4, <1>5 DEF StreamsInv, Good, Held

\* A call that only sets a field, of h or of the memory
LEMMA SetInv ==
  ASSUME StreamsInv, NEW h \in Streams, NEW st, NEW op, NEW size,
         Called(op, h, size, Outcome(st, << >>, FALSE), 0),
         last.end # "fault" => Good(st, made + 1) /\ \A n \in ints' : Held(st[Memory], n)
  PROVE  StreamsInv' /\ last'.end # "fault" /\ last'.on = h /\ last'.op = op /\ streams' = st /\ last.end # "fault"
<1> DEFINE r == Outcome(st, << >>, FALSE)
<1>1. r.s = st /\ ~r.bad
  BY DEF Outcome
<1>2. CalledAs(op, "none", h, size, r, 0)
  BY DEF Called
<1> HIDE DEF r
<1>3. Made(h, r) /\ last'.op = op
  BY <1>2, CallMade
<1>4. made < MaxCalls /\ made' = made + 1 /\ last.end # "fault" /\ streams' = st /\ last'.end # "fault" /\ last'.on = h
  BY <1>1, <1>3 DEF Made
<1>5. made' \in 0 .. MaxCalls
  BY <1>4 DEF StreamsInv
<1>6. Good(streams', made') /\ \A n \in ints' : Held(streams'[Memory], n)
  BY <1>4
<1> QED BY <1>3, <1>4, <1>5, <1>6 DEF StreamsInv, Good, Held

LEMMA WindowSet ==
  ASSUME NEW k \in 0 .. MaxCalls, NEW st, Good(st, k), NEW h \in Substreams, NEW w \in WindowType, w.position <= Reach(k + 1)
  PROVE  LET t == [st EXCEPT ![h] = w]
         IN  Good(t, k + 1) /\ t[Memory] = st[Memory] /\ \A g \in Substreams \ {h} : t[g] = st[g]
<1> DEFINE t == [st EXCEPT ![h] = w]
<1>1. st \in AllStreams /\ \A g \in Streams : st[g].position <= Reach(k)
  BY DEF Good
<1>2. /\ st \in [Streams -> MemoryType \cup WindowType] /\ st[Memory] \in MemoryType
      /\ \A g \in Substreams : st[g] \in WindowType
      /\ Memory \in Streams /\ Memory \notin Substreams /\ Substreams \subseteq Streams
  BY <1>1, ByteAssumption DEF AllStreams, Streams, Memory
<1>3. Reach(k) \in Nat /\ Reach(k + 1) = Reach(k) + Stride /\ Stride \in Nat
  BY ReachGives
<1>4. t[h] = w /\ (\A g \in Streams \ {h} : t[g] = st[g]) /\ t \in [Streams -> MemoryType \cup WindowType]
  BY <1>2
<1> HIDE DEF t
<1>5. t[Memory] = st[Memory]
  BY <1>2, <1>4
<1>6. t \in AllStreams
  BY <1>2, <1>4, <1>5 DEF AllStreams
<1>7. ASSUME NEW g \in Streams PROVE t[g].position <= Reach(k + 1)
  <2>1. CASE g = h
    BY <1>4, <2>1
  <2>2. CASE g # h
    <3>1. t[g].position = st[g].position /\ st[g].position <= Reach(k) /\ st[g].position \in Nat
      BY <1>1, <1>4, <2>2, StreamsType
    <3> QED BY <1>3, <3>1
  <2> QED BY <2>1, <2>2
<1>8. t[Memory].length <= Reach(k + 1) /\ Backed(t[Memory])
  <2>1. st[Memory].length <= Reach(k) /\ st[Memory].length \in Nat /\ Backed(st[Memory])
    BY <1>1, <1>2, StreamsType DEF Good
  <2> QED BY <1>3, <1>5, <2>1
<1> QED BY <1>2, <1>4, <1>5, <1>6, <1>7, <1>8 DEF Good, t

LEMMA MemorySet ==
  ASSUME NEW k \in 0 .. MaxCalls, NEW st, Good(st, k), NEW m \in MemoryType, Backed(m),
         m.position <= Reach(k + 1), m.length <= Reach(k + 1)
  PROVE  LET t == [st EXCEPT ![Memory] = m]
         IN  Good(t, k + 1) /\ t[Memory] = m /\ \A g \in Substreams : t[g] = st[g]
<1> DEFINE t == [st EXCEPT ![Memory] = m]
<1>1. st \in AllStreams /\ \A g \in Streams : st[g].position <= Reach(k)
  BY DEF Good
<1>2. /\ st \in [Streams -> MemoryType \cup WindowType] /\ \A g \in Substreams : st[g] \in WindowType
      /\ Memory \in Streams /\ Memory \notin Substreams /\ Substreams \subseteq Streams
  BY <1>1, ByteAssumption DEF AllStreams, Streams, Memory
<1>3. Reach(k) \in Nat /\ Reach(k + 1) = Reach(k) + Stride /\ Stride \in Nat
  BY ReachGives
<1>4. /\ t[Memory] = m /\ (\A g \in Streams \ {Memory} : t[g] = st[g]) /\ t \in [Streams -> MemoryType \cup WindowType]
      /\ \A g \in Substreams : t[g] = st[g]
  BY <1>2
<1> HIDE DEF t
<1>5. t \in AllStreams
  BY <1>2, <1>4 DEF AllStreams
<1>6. ASSUME NEW g \in Streams PROVE t[g].position <= Reach(k + 1)
  <2>1. CASE g = Memory
    BY <1>4, <2>1
  <2>2. CASE g # Memory
    <3>1. t[g].position = st[g].position /\ st[g].position <= Reach(k) /\ st[g].position \in Nat
      BY <1>1, <1>4, <2>2, StreamsType
    <3> QED BY <1>3, <3>1
  <2> QED BY <2>1, <2>2
<1> QED BY <1>4, <1>5, <1>6 DEF Good, t

LEMMA SetPositionInv ==
  ASSUME StreamsInv, NEW h \in Streams, NEW p \in 0 .. MaxLength, SetPosition(h, p)
  PROVE  /\ StreamsInv' /\ last'.end # "fault" /\ last'.on = h /\ last'.op = "SetPosition" /\ last.end # "fault"
         /\ streams'[Memory].data = streams[Memory].data /\ streams'[Memory].length = streams[Memory].length
         /\ \A g \in Substreams \ {h} : streams'[g] = streams[g]
<1> DEFINE w == [streams[h] EXCEPT !.position = p]
           st == [streams EXCEPT ![h] = w]
<1>1. ints' = ints /\ Called("SetPosition", h, p, Outcome([streams EXCEPT ![h].position = p], << >>, FALSE), 0)
  BY DEF SetPosition
<1>2. [streams EXCEPT ![h].position = p] = st
  BY Zenon
<1>3. Called("SetPosition", h, p, Outcome(st, << >>, FALSE), 0)
  BY <1>1, <1>2, Zenon
<1>4. ASSUME last.end # "fault"
      PROVE  /\ Good(st, made + 1) /\ \A n \in ints' : Held(st[Memory], n)
             /\ st[Memory].data = streams[Memory].data /\ st[Memory].length = streams[Memory].length
             /\ \A g \in Substreams \ {h} : st[g] = streams[g]
  <2>1. made \in 0 .. MaxCalls /\ Good(streams, made) /\ streams \in AllStreams /\ \A n \in ints : Held(streams[Memory], n)
    BY <1>4, GoodCall DEF StreamsInv
  <2>2. Reach(made) \in Nat /\ Reach(made + 1) = Reach(made) + Stride /\ Stride = 2 * MaxLength + BlockSize + 8
    BY <2>1, ReachGives DEF Stride
  <2>3. p <= Reach(made + 1)
    BY <2>2
  <2>4. CASE h = Memory
    <3> DEFINE m == streams[h]
    <3>1. m \in MemoryType /\ Backed(m) /\ m.length <= Reach(made) /\ m.length \in Nat
      BY <2>1, <2>4, StreamsType DEF Good
    <3>2. w \in MemoryType /\ w.data = m.data /\ w.length = m.length /\ w.position = p
      <4> HIDE DEF m
      <4>1. [m EXCEPT !.position = p] \in MemoryType
        BY <3>1 DEF MemoryType
      <4>2. /\ [m EXCEPT !.position = p].data = m.data /\ [m EXCEPT !.position = p].length = m.length
            /\ [m EXCEPT !.position = p].position = p
        BY <3>1 DEF MemoryType
      <4> QED BY <4>1, <4>2 DEF m
    <3> HIDE DEF w, m
    <3>3. w.length <= Reach(made + 1) /\ w.position <= Reach(made + 1) /\ Backed(w)
      BY <2>2, <2>3, <3>1, <3>2 DEF Backed
    <3>4. Good(st, made + 1) /\ st[Memory] = w /\ \A g \in Substreams : st[g] = streams[g]
      BY <2>1, <2>4, <3>2, <3>3, MemorySet
    <3> HIDE DEF st
    <3>5. w.data = streams[Memory].data /\ w.length = streams[Memory].length
      BY <2>4, <3>2 DEF m
    <3>6. \A n \in ints' : Held(st[Memory], n)
      BY <1>1, <2>1, <3>4, <3>5 DEF Held
    <3> QED BY <3>4, <3>5, <3>6
  <2>5. CASE h # Memory
    <3> DEFINE v == streams[h]
    <3>1. v \in WindowType /\ h \in Substreams
      BY <2>1, <2>5, StreamsType
    <3>2. w \in WindowType /\ w.position = p
      <4> HIDE DEF v
      <4>1. [v EXCEPT !.position = p] \in WindowType /\ [v EXCEPT !.position = p].position = p
        BY <3>1 DEF WindowType
      <4> QED BY <4>1 DEF v
    <3> HIDE DEF w
    <3>3. Good(st, made + 1) /\ st[Memory] = streams[Memory] /\ \A g \in Substreams \ {h} : st[g] = streams[g]
      BY <2>1, <2>3, <3>1, <3>2, WindowSet
    <3> QED BY <1>1, <2>1, <3>3
  <2> QED BY <2>4, <2>5
<1> HIDE DEF st
<1>5. StreamsInv' /\ last'.end # "fault" /\ last'.on = h /\ last'.op = "SetPosition" /\ streams' = st /\ last.end # "fault"
  BY <1>3, <1>4, SetInv
<1> QED BY <1>4, <1>5

LEMMA SetLengthInv ==
  ASSUME StreamsInv, NEW h \in Streams, NEW length \in 0 .. MaxLength, SetLengthCall(h, length)
  PROVE  StreamsInv' /\ last'.end # "fault" /\ last'.on = h /\ last'.op = "SetLength"
<1>g. ASSUME last.end # "fault"
      PROVE  /\ made \in 0 .. MaxCalls /\ Good(streams, made) /\ streams \in AllStreams
             /\ \A n \in ints : Held(streams[Memory], n)
             /\ Reach(made) \in Nat /\ Reach(made + 1) = Reach(made) + Stride /\ Stride = 2 * MaxLength + BlockSize + 8
             /\ Reach(made) + 2 * Stride < Word
  BY <1>g, GoodCall, ReachGives DEF StreamsInv, Stride
<1>1. CASE h = Memory
  <2> DEFINE m == streams[Memory]
             t == SetLength(m, length)
             st == [streams EXCEPT ![Memory] = t]
  <2>1. ints' = Kept(length, Word) /\ Called("SetLength", h, length, Outcome([streams EXCEPT ![h] = SetLength(@, length)], << >>, FALSE), 0)
    BY <1>1 DEF SetLengthCall
  <2>2. [streams EXCEPT ![h] = SetLength(@, length)] = st
    BY <1>1, Zenon
  <2>3. Called("SetLength", h, length, Outcome(st, << >>, FALSE), 0)
    BY <2>1, <2>2, Zenon
  <2>4. ASSUME last.end # "fault" PROVE Good(st, made + 1) /\ \A n \in ints' : Held(st[Memory], n)
    <3>1. m \in MemoryType /\ m.position <= Reach(made) /\ m.position \in Nat /\ m.length <= Reach(made) /\ m.length \in Nat
          /\ Backed(m) /\ Len(m.data) \in Nat
      BY <1>1, <1>g, <2>4, StreamsType, SMTT(30) DEF Good
    <3>2. length \in Nat /\ length + BlockSize <= Word /\ length <= Reach(made + 1)
      BY <1>g, <2>4
    <3> HIDE DEF m
    <3>3. /\ t \in MemoryType /\ t.length = length /\ t.position = m.position /\ Backed(t)
          /\ \A i \in 1 .. Len(t.data) : i <= Len(m.data) => t.data[i] = m.data[i]
      BY <3>1, <3>2, SetLengthGives
    <3> HIDE DEF t
    <3>4. t.position <= Reach(made + 1) /\ t.length <= Reach(made + 1)
      BY <1>g, <2>4, <3>1, <3>2, <3>3
    <3>a. made \in 0 .. MaxCalls /\ Good(streams, made)
      BY <1>g, <2>4
    <3>b. t \in MemoryType /\ Backed(t)
      BY <3>3
    <3>5. Good(st, made + 1) /\ st[Memory] = t /\ \A g \in Substreams : st[g] = streams[g]
      BY <3>a, <3>b, <3>4, MemorySet
    <3>6. ASSUME NEW n \in Kept(length, Word) PROVE Held(t, n)
      <4>1. n \in ints /\ (n.at + Len(n.value) <= length \/ n.at >= Word)
        BY DEF Kept
      <4> DEFINE k == Len(n.value)
      <4>2. Held(m, n) /\ n.at \in Nat /\ n.at + k <= m.length /\ k \in Nat
        BY <1>g, <2>4, <4>1, NumberGives DEF Held, m
      <4> DEFINE a == n.at
      <4>4. a \in Nat /\ a + k <= length
        <5>1. a + k <= length \/ a >= Word
          BY <4>1
        <5>2. a \in Nat /\ a + k <= m.length
          BY <4>2
        <5>3. m.length < Word
          BY <1>g, <2>4, <3>1
        <5> HIDE DEF a, k
        <5> QED BY <3>1, <4>2, <5>1, <5>2, <5>3
      <4>5. ASSUME NEW i \in a + 1 .. a + k PROVE t.data[i] = m.data[i]
        <5>1. a + k <= m.length /\ m.length <= Len(m.data) /\ length <= Len(t.data)
          BY <3>1, <3>3, <4>2 DEF Backed
        <5>2. Len(t.data) \in Nat
          BY <3>3, StreamFields
        <5> DEFINE x == Len(t.data)
                   y == Len(m.data)
                   z == m.length
        <5>3. i \in 1 .. x /\ i <= y
          <6>1. x \in Nat /\ y \in Nat /\ z \in Nat /\ a + k <= z /\ z <= y /\ length <= x
            BY <3>1, <5>1, <5>2
          <6> HIDE DEF a, k, x, y, z
          <6> QED BY <3>2, <4>2, <4>4, <6>1
        <5> QED BY <3>3, <5>3
      <4>6. t.length \in Nat /\ n.at + k <= t.length
        BY <3>2, <3>3, <4>4
      <4> QED BY <3>1, <4>2, <4>5, <4>6, HeldStays
    <3> HIDE DEF st
    <3> QED BY <2>1, <3>5, <3>6
  <2> HIDE DEF st
  <2> QED BY <2>3, <2>4, SetInv
<1>2. CASE h # Memory
  <2> DEFINE v == streams[h]
             w == [v EXCEPT !.length = length]
             st == [streams EXCEPT ![h] = w]
  <2>1. ints' = ints /\ Called("SetLength", h, length, Outcome([streams EXCEPT ![h].length = length], << >>, FALSE), 0)
    BY <1>2 DEF SetLengthCall
  <2>2. [streams EXCEPT ![h].length = length] = st
    BY Zenon
  <2>3. Called("SetLength", h, length, Outcome(st, << >>, FALSE), 0)
    BY <2>1, <2>2, Zenon
  <2>4. ASSUME last.end # "fault" PROVE Good(st, made + 1) /\ \A n \in ints' : Held(st[Memory], n)
    <3>1. v \in WindowType /\ h \in Substreams /\ v.position <= Reach(made) /\ v.position \in Nat
      BY <1>2, <1>g, <2>4, StreamsType DEF Good
    <3>2. length \in 0 .. Word - 1
      BY <1>g, <2>4
    <3> HIDE DEF v
    <3>3. w \in WindowType /\ w.position = v.position
      BY <3>1, <3>2 DEF WindowType
    <3> HIDE DEF w
    <3>4. w.position <= Reach(made + 1)
      BY <1>g, <2>4, <3>1, <3>3
    <3>5. Good(st, made + 1) /\ st[Memory] = streams[Memory]
      BY <1>g, <2>4, <3>1, <3>3, <3>4, WindowSet
    <3> QED BY <1>g, <2>1, <2>4, <3>5
  <2> HIDE DEF st
  <2> QED BY <2>3, <2>4, SetInv
<1> QED BY <1>1, <1>2

LEMMA OpenInv ==
  ASSUME StreamsInv, NEW h \in Streams \ {Memory}, NEW offset \in 0 .. MaxLength, NEW length,
         last.end # "fault" => length \in 0 .. Word - 1, Open(h, offset, length)
  PROVE  StreamsInv' /\ last'.end # "fault" /\ last'.on = h /\ last'.op = "Open"
<1> DEFINE w == [open |-> TRUE, offset |-> offset, length |-> length, position |-> 0]
           st == [streams EXCEPT ![h] = w]
<1>1. ints' = ints /\ Called("Open", h, 0, Outcome(st, << >>, FALSE), 0)
  BY DEF Open
<1>2. ASSUME last.end # "fault" PROVE Good(st, made + 1) /\ \A n \in ints' : Held(st[Memory], n)
  <2>1. made \in 0 .. MaxCalls /\ Good(streams, made) /\ \A n \in ints : Held(streams[Memory], n)
    BY <1>2 DEF StreamsInv
  <2>2. Reach(made) \in Nat /\ Reach(made + 1) = Reach(made) + Stride /\ Stride \in Nat /\ h \in Substreams
    BY <2>1, ReachGives DEF Streams
  <2>3. w \in WindowType /\ w.position = 0
    BY <1>2 DEF WindowType
  <2> HIDE DEF w
  <2>4. w.position <= Reach(made + 1)
    BY <2>2, <2>3
  <2>5. Good(st, made + 1) /\ st[Memory] = streams[Memory]
    BY <2>1, <2>2, <2>3, <2>4, WindowSet
  <2> QED BY <1>1, <2>1, <2>5
<1> HIDE DEF st
<1> QED BY <1>1, <1>2, SetInv

LEMMA SettingInv ==
  ASSUME StreamsInv, NEW h \in Streams, Setting(h)
  PROVE  /\ StreamsInv' /\ last'.end # "fault" /\ last'.on = h /\ last'.op \in {"SetPosition", "SetLength", "Open"}
         /\ last'.op = "SetPosition" =>
              /\ streams'[Memory].data = streams[Memory].data /\ streams'[Memory].length = streams[Memory].length
              /\ \A g \in Substreams \ {h} : streams'[g] = streams[g]
<1>1. CASE \E n \in 0 .. MaxLength : SetPosition(h, n)
  BY <1>1, SetPositionInv
<1>2. CASE \E n \in 0 .. MaxLength : SetLengthCall(h, n)
  BY <1>2, SetLengthInv
<1>3. CASE h # Memory /\ \E o \in 0 .. MaxLength, n \in 0 .. MaxLength : Open(h, o, n)
  <2>1. PICK o \in 0 .. MaxLength, n \in 0 .. MaxLength : Open(h, o, n)
    BY <1>3
  <2>2. ASSUME last.end # "fault" PROVE n \in 0 .. Word - 1
    <3>1. made \in 0 .. MaxCalls /\ Reach(made) \in Nat /\ Reach(made) + 2 * (2 * MaxLength + BlockSize + 8) < Word
      BY ReachGives DEF StreamsInv, Stride
    <3> QED BY <3>1
  <2> QED BY <1>3, <2>1, <2>2, OpenInv
<1>4. CASE h # Memory /\ \E o \in 0 .. MaxLength : OpenRest(h, o)
  <2>1. PICK o \in 0 .. MaxLength : OpenRest(h, o)
    BY <1>4
  <2> DEFINE n == Unsigned(streams[Memory].length - o)
  <2>2. Open(h, o, n)
    BY <2>1 DEF OpenRest
  <2>3. ASSUME last.end # "fault" PROVE n \in 0 .. Word - 1
    <3>1. streams[Memory].length - o \in Int
      BY <2>3, GoodCall, StreamsType
    <3>2. n \in Nat /\ n < Word
      BY <3>1, UnsignedGives
    <3> QED BY <3>2
  <2> HIDE DEF n
  <2> QED BY <1>4, <2>2, <2>3, OpenInv
<1> QED BY <1>1, <1>2, <1>3, <1>4 DEF Setting

LEMMA SettingMakes ==
  ASSUME NEW h, Setting(h)
  PROVE  last.end # "fault"
BY DEF Setting, SetPosition, SetLengthCall, Open, OpenRest, Called, CalledAs

\* The three kinds of call, with the invariant around them
LEMMA StepCases ==
  ASSUME StreamsInv, StreamsNext
  PROVE  /\ last.end # "fault" /\ StreamsInv'
         /\ \E h \in Streams :
              /\ last'.on = h
              /\ \/ \E r : Reading(h, r)
                 \/ \E r, wrote : Writing(h, r, wrote)
                 \/ Setting(h)
<1>1. PICK h \in Streams : (\E r : Reading(h, r)) \/ (\E r, wrote : Writing(h, r, wrote)) \/ Setting(h)
  BY EachCall
<1>2. CASE \E r : Reading(h, r)
  <2>1. StreamsInv'
    BY <1>2, ReadingInv
  <2>2. last.end # "fault" /\ last'.on = h
    BY <1>2 DEF Reading, Made
  <2> QED BY <1>2, <2>1, <2>2
<1>3. CASE \E r, wrote : Writing(h, r, wrote)
  <2>1. StreamsInv'
    BY <1>3, WritingInv
  <2>2. last.end # "fault" /\ last'.on = h
    BY <1>3 DEF Writing, Made
  <2> QED BY <1>3, <2>1, <2>2
<1>4. CASE Setting(h)
  BY <1>4, SettingInv, SettingMakes
<1> QED BY <1>1, <1>2, <1>3, <1>4

LEMMA StepInv ==
  ASSUME StreamsInv, [StreamsNext]_streamVars
  PROVE  StreamsInv'
<1>1. CASE StreamsNext
  BY <1>1, StepCases
<1>2. CASE UNCHANGED streamVars
  BY <1>2 DEF streamVars, StreamsInv, Good, Held, Backed, Reach
<1> QED BY <1>1, <1>2

\* As long as no access has left its bounds, every stream is a stream of its
\* type, the memory holds at least its length and less than a block more, no
\* position or length has got as far as an unsigned long can count, and every
\* integer written and not overwritten is in the memory where it was written.
THEOREM StreamsInvariant == StreamsSpec => []StreamsInv
<1>1. StreamsInit => StreamsInv
  BY InitInv
<1>2. StreamsInv /\ [StreamsNext]_streamVars => StreamsInv'
  BY StepInv
<1> QED BY <1>1, <1>2, PTL DEF StreamsSpec

LEMMA StrayedIsStray ==
  ASSUME StreamsInv, last.end # "fault", NEW h \in Streams
  PROVE  Strayed(h) <=> Stray(streams, h)
<1>1. At(h) = Spot(streams, h)
  BY GoodCall
<1> QED BY <1>1 DEF Strayed, Stray

LEMMA AccessStep ==
  ASSUME StreamsInv, StreamsNext, last'.end = "fault"
  PROVE  \/ Strayed(last'.on)
         \/ last'.on = Memory /\ last'.op \in {"ReadByte", "ReadCString"}
<1>1. last.end # "fault"
  BY StepCases
<1>2. PICK h \in Streams : /\ last'.on = h
                           /\ \/ \E r : Reading(h, r)
                              \/ \E r, wrote : Writing(h, r, wrote)
                              \/ Setting(h)
  BY StepCases
<1>3. Strayed(h) <=> Stray(streams, h)
  BY <1>1, StrayedIsStray
<1>4. CASE \E r : Reading(h, r)
  <2>1. PICK r : Reading(h, r)
    BY <1>4
  <2>2. r.bad /\ (~Stray(streams, h) /\ ~(h = Memory /\ last'.op \in {"ReadByte", "ReadCString"}) => ~r.bad)
    BY <2>1 DEF Reading, Made
  <2> QED BY <1>2, <1>3, <2>2
<1>5. CASE \E r, wrote : Writing(h, r, wrote)
  <2>1. PICK r, wrote : Writing(h, r, wrote)
    BY <1>5
  <2>2. r.bad /\ (~Stray(streams, h) => ~r.bad)
    BY <2>1 DEF Writing, Made, FillTurn
  <2> QED BY <1>2, <1>3, <2>2
<1>6. CASE Setting(h)
  BY <1>6, SettingInv
<1> QED BY <1>2, <1>4, <1>5, <1>6

\* Every access of a reader, a writer or a client stays inside the memory of the
\* MemoryStream and inside its caller's buffer, in any sequence of calls through
\* any handles, unless the handle stood past its end or ReadByte was asked for
\* the byte at the end of a MemoryStream.
THEOREM AccessesInBounds == StreamsSpec => AccessInBounds
<1>1. StreamsInv /\ [StreamsNext]_streamVars =>
        [last'.end = "fault" =>
           \/ Strayed(last'.on)
           \/ last'.on = Memory /\ last'.op \in {"ReadByte", "ReadCString"}]_streamVars
  BY AccessStep
<1> QED BY <1>1, StreamsInvariant, PTL DEF StreamsSpec, AccessInBounds


LEMMA MinOfThree ==
  ASSUME NEW a \in Int, NEW b \in Int, NEW c \in Int, NEW m \in {a, b, c}, m <= a, m <= b, m <= c
  PROVE  Min({a, b, c}) = m
<1>1. m \in {a, b, c} /\ \A y \in {a, b, c} : m <= y
  OBVIOUS
<1>2. \A x \in {a, b, c} : (\A y \in {a, b, c} : x <= y) => x = m
  OBVIOUS
<1> QED BY <1>1, <1>2 DEF Min

\* A sequence of n elements of data from a on is that part of data.
LEMMA PartOf ==
  ASSUME NEW S, NEW data \in Seq(S), NEW got \in Seq(S), NEW a \in Nat, a + Len(got) <= Len(data),
         \A i \in 1 .. Len(got) : got[i] = data[a + i]
  PROVE  got = SubSeq(data, a + 1, a + Len(got))
<1> DEFINE n == Len(got)
           part == SubSeq(data, a + 1, a + n)
<1>1. n \in Nat
  OBVIOUS
<1>2. part \in Seq(S) /\ Len(part) = n /\ \A i \in 1 .. n : part[i] = data[a + i]
  <2> HIDE DEF n
  <2>1. a + 1 \in 1 .. Len(data) + 1 /\ a + n \in a .. Len(data)
    BY <1>1 DEF n
  <2> QED BY <1>1, <2>1
<1>3. \A i \in 1 .. n : got[i] = part[i]
  BY <1>2
<1> HIDE DEF part
<1> QED BY <1>2, <1>3, SeqEqual DEF part

LEMMA ReadsWindow ==
  ASSUME StreamsInv, NEW h \in Streams \ {Memory}, NEW r, Reading(h, r), ~Stray(streams, h)
  PROVE  ReadsOwnWindow(h)
<1> DEFINE a == Spot(streams, h)
           L == streams[Memory].length
           o == streams[h].offset
           l == streams[h].length
           p == streams[h].position
           D == streams[Memory].data
           n == Len(r.got)
           size == last'.size
<1>1. last.end # "fault"
  BY DEF Reading, Made
<1>2. streams \in AllStreams /\ At(h) = a /\ Backed(streams[Memory])
  BY <1>1, GoodCall DEF Good
<1>3. a \in Nat /\ L \in Nat /\ o \in Nat /\ l \in Nat /\ p \in Nat /\ D \in Seq(Bytes) /\ a = o + p
  BY <1>2, StreamsType DEF Spot
<1>4. a <= L /\ p <= l
  BY <1>3 DEF Stray
<1>5. L <= Len(D) /\ Len(D) \in Nat
  BY <1>2, <1>3 DEF Backed
<1>6. SUFFICES ASSUME last'.op \in {"Read", "ReadBytes", "Pad"}
               PROVE  last'.got = SubSeq(D, At(h) + 1, Min({At(h) + size, o + l, L}))
  BY DEF ReadsOwnWindow
<1>7. last'.got = r.got /\ size \in Nat /\ n = IF size <= Left(streams, h) THEN size ELSE Left(streams, h)
  BY <1>6 DEF Reading
<1>8. Left(streams, h) = IF l - p <= L - a THEN l - p ELSE L - a
  <2>1. Left(streams, h) = Min({l - p, L - a})
    BY DEF Left
  <2>2. l \in Nat /\ p \in Nat /\ L \in Nat /\ a \in Nat
    BY <1>3
  <2> HIDE DEF l, p, L, a
  <2>3. l - p \in Int /\ L - a \in Int
    BY <2>2
  <2>4. Min({l - p, L - a}) = IF l - p <= L - a THEN l - p ELSE L - a
    BY <2>3, MinOfTwo
  <2> QED BY <2>1, <2>4
<1>9. r.got \in Seq(Bytes) /\ \A i \in 1 .. n : r.got[i] = D[a + i]
  <2>1. ~r.bad
    BY <1>6 DEF Reading
  <2> QED BY <2>1 DEF Reading, Reads
<1> DEFINE left == Left(streams, h)
<1> HIDE DEF left
<1>10. a + n \in {a + size, o + l, L} /\ a + n <= a + size /\ a + n <= o + l /\ a + n <= L
  <2>1. n = IF size <= left THEN size ELSE left
    BY <1>7 DEF left
  <2>2. left = IF l - p <= L - a THEN l - p ELSE L - a
    BY <1>8 DEF left
  <2> HIDE DEF a, L, o, l, p, n, size
  <2>3. size \in Nat
    BY <1>7
  <2> QED BY <1>3, <1>4, <2>1, <2>2, <2>3
<1>11. Min({a + size, o + l, L}) = a + n
  <2> HIDE DEF a, L, o, l, p, n, size
  <2>1. size \in Nat
    BY <1>7
  <2> QED BY <1>3, <1>10, <2>1, MinOfThree
<1>12. r.got = SubSeq(D, a + 1, a + n)
  <2> HIDE DEF a, D
  <2>1. a + n <= Len(D)
    <3>1. n \in Nat
      BY <1>9
    <3> HIDE DEF L, n
    <3> QED BY <1>3, <1>5, <1>10, <3>1
  <2> QED BY <1>3, <1>9, <2>1, PartOf
<1> HIDE DEF a, L, o, l, p, D, n, size
<1> QED BY <1>2, <1>7, <1>11, <1>12

\* What a call on h leaves alone: the other windows, the bytes outside the window
\* and the length beyond it
Within(st, h, s) ==
  /\ \A g \in Substreams \ {h} : s[g] = st[g]
  /\ \A i \in 1 .. st[Memory].length :
       i \notin st[h].offset + 1 .. st[h].offset + st[h].length => s[Memory].data[i] = st[Memory].data[i]
  /\ s[Memory].length > st[Memory].length => s[Memory].length <= st[h].offset + st[h].length

LEMMA ReadsWithin ==
  ASSUME NEW st \in AllStreams, NEW h \in Streams \ {Memory}, NEW r, Reads(st, h, r)
  PROVE  Within(st, h, r.s)
<1>1. \A g \in Substreams \ {h} : r.s[g] = st[g]
  BY DEF Reads, SameWindows
<1>2. st[Memory].length \in Nat
  BY StreamsType
<1>3. r.s[Memory].data = st[Memory].data /\ r.s[Memory].length = st[Memory].length
  BY DEF Reads
<1> QED BY <1>1, <1>2, <1>3 DEF Within

LEMMA WritesWithin ==
  ASSUME NEW st \in AllStreams, NEW h \in Streams \ {Memory}, NEW r, Writes(st, h, r),
         st[h].position + Len(r.got) <= st[h].length
  PROVE  Within(st, h, r.s)
<1> DEFINE a == Spot(st, h)
           o == st[h].offset
           l == st[h].length
           p == st[h].position
           n == Len(r.got)
           L == st[Memory].length
           M == r.s[Memory].length
<1>1. a \in Nat /\ L \in Nat /\ o \in Nat /\ l \in Nat /\ p \in Nat /\ a = o + p
  BY StreamsType DEF Spot
<1>2. r.got \in Seq(Bytes) /\ M \in {L, a + n}
  BY DEF Writes
<1>3. n \in Nat /\ p + n <= l
  BY <1>2
<1>4. \A g \in Substreams \ {h} : r.s[g] = st[g]
  BY DEF Writes, SameWindows
<1>5. \A i \in 1 .. L : i \notin a + 1 .. a + n => r.s[Memory].data[i] = st[Memory].data[i]
  BY DEF Writes
<1>6. \A i \in 1 .. L : i \notin o + 1 .. o + l => i \notin a + 1 .. a + n
  <2> HIDE DEF a, o, l, p, n, L
  <2> QED BY <1>1, <1>3
<1>7. M > L => M <= o + l
  <2> HIDE DEF a, o, l, p, n, L, M
  <2> QED BY <1>1, <1>2, <1>3
<1> QED BY <1>4, <1>5, <1>6, <1>7 DEF Within

LEMMA WindowStep ==
  ASSUME StreamsInv, StreamsNext, last'.on # Memory, ~Strayed(last'.on)
  PROVE  ReadsOwnWindow(last'.on) /\ WritesOwnWindow(last'.on)
<1>1. last.end # "fault"
  BY StepCases
<1>2. PICK h \in Streams : /\ last'.on = h
                           /\ \/ \E r : Reading(h, r)
                              \/ \E r, wrote : Writing(h, r, wrote)
                              \/ Setting(h)
  BY StepCases
<1>3. h \in Streams \ {Memory} /\ ~Stray(streams, h)
  BY <1>1, <1>2, StrayedIsStray
<1>4. streams \in AllStreams
  BY <1>1, GoodCall, <1>2
<1>5. ASSUME Within(streams, h, streams') PROVE WritesOwnWindow(h)
  BY <1>5 DEF Within, WritesOwnWindow
<1>6. CASE \E r : Reading(h, r)
  <2>1. PICK r : Reading(h, r)
    BY <1>6
  <2>2. ReadsOwnWindow(h)
    BY <1>3, <2>1, ReadsWindow
  <2>3. Reads(streams, h, r) /\ streams' = r.s
    BY <1>3, <2>1 DEF Reading, Made
  <2>4. Within(streams, h, r.s)
    BY <1>3, <1>4, <2>3, ReadsWithin
  <2> QED BY <1>2, <1>5, <2>2, <2>3, <2>4
<1>7. CASE \E r, wrote : Writing(h, r, wrote)
  <2>1. PICK r, wrote : Writing(h, r, wrote)
    BY <1>7
  <2>2. Writes(streams, h, r) /\ streams' = r.s /\ streams[h].position + Len(r.got) <= streams[h].length
    BY <1>3, <2>1 DEF Writing, Made, FillTurn
  <2>3. Within(streams, h, r.s)
    BY <1>3, <1>4, <2>2, WritesWithin
  <2>4. ReadsOwnWindow(h)
    BY <2>1 DEF Writing, ReadsOwnWindow
  <2> QED BY <1>2, <1>5, <2>2, <2>3, <2>4
<1>8. CASE Setting(h)
  <2>1. /\ last'.op \in {"SetPosition", "SetLength", "Open"}
        /\ last'.op = "SetPosition" =>
             /\ streams'[Memory].data = streams[Memory].data /\ streams'[Memory].length = streams[Memory].length
             /\ \A g \in Substreams \ {h} : streams'[g] = streams[g]
    BY <1>8, SettingInv
  <2>2. ReadsOwnWindow(h)
    BY <2>1 DEF ReadsOwnWindow
  <2>3. streams[Memory].length \in Nat
    BY <1>4, StreamsType, <1>3
  <2>4. WritesOwnWindow(h)
    BY <2>1, <2>3 DEF WritesOwnWindow
  <2> QED BY <1>2, <2>2, <2>4
<1> QED BY <1>2, <1>6, <1>7, <1>8

\* A Substream that stands inside its window reads exactly the bytes of the
\* memory from its own position up to the end of the window or the stream, and
\* no call on it changes a byte outside the window, another Substream, or makes
\* the stream longer than the window, wherever the other handles have left the
\* position that all of them share.
THEOREM WindowsKeepApart == StreamsSpec => KeepsToItsWindow
<1>1. StreamsInv /\ [StreamsNext]_streamVars =>
        [LET h == last'.on
         IN  h # Memory /\ made' # made /\ ~Strayed(h) => ReadsOwnWindow(h) /\ WritesOwnWindow(h)]_streamVars
  BY WindowStep
<1> QED BY <1>1, StreamsInvariant, PTL DEF StreamsSpec, KeepsToItsWindow

LEMMA IntegerStep ==
  ASSUME StreamsInv, StreamsNext, NEW n \in ints, At(last'.on) = n.at,
         CompilerSwaps \/ \A v \in Numbers : Len(v) < 8,
         last'.op = "ReadInt", last'.size = Len(n.value), last'.endian = n.endian, last'.end = "returned"
  PROVE  last'.got = n.value
<1>1. last.end # "fault"
  BY StepCases
<1>2. PICK h \in Streams : /\ last'.on = h
                           /\ \/ \E r : Reading(h, r)
                              \/ \E r, wrote : Writing(h, r, wrote)
                              \/ Setting(h)
  BY StepCases
<1>3. PICK r : Reading(h, r)
  BY <1>2, SettingInv DEF Writing
<1> DEFINE w == EndianWrite(n.endian, n.value)
           a == n.at
           k == Len(n.value)
<1>4. ~r.bad /\ Len(r.got) = k /\ last'.got = EndianRead(n.endian, r.got)
  BY <1>3 DEF Reading, Made
<1>5. n.value \in Numbers /\ n.endian \in Endians /\ \A i \in 1 .. k : streams[Memory].data[a + i] = w[i]
  BY <1>1 DEF StreamsInv, Held
<1>6. w \in Seq(Bytes) /\ Len(w) = k /\ EndianRead(n.endian, w) = n.value
  BY <1>5, EndianGives
<1>7. Spot(streams, h) = a
  BY <1>1, <1>2, GoodCall
<1>8. r.got \in Seq(Bytes) /\ \A i \in 1 .. Len(r.got) : r.got[i] = streams[Memory].data[a + i]
  BY <1>3, <1>4, <1>7 DEF Reading, Reads
<1> HIDE DEF w, a, k
<1>9. \A i \in 1 .. Len(r.got) : r.got[i] = w[i]
  BY <1>4, <1>5, <1>8
<1>10. r.got = w
  BY <1>4, <1>6, <1>8, <1>9, SeqEqual
<1> QED BY <1>4, <1>6, <1>10

\* In a build with the compiler's byte swaps, and in any build for a program without 64-bit
\* integers, an integer that is read where it was written, in the endianness it was
\* written in, through any handle and after any calls that have not overwritten
\* it, is the integer that was written, on a machine of either endianness.
THEOREM IntegersReadBack ==
  ASSUME CompilerSwaps \/ \A v \in Numbers : Len(v) < 8
  PROVE  StreamsSpec => IntegerReadsBack
<1>1. StreamsInv /\ [StreamsNext]_streamVars =>
        [\A n \in ints : \A h \in Streams :
           /\ Opened(h) /\ last'.on = h /\ made' # made /\ At(h) = n.at
           /\ last'.op = "ReadInt" /\ last'.size = Len(n.value) /\ last'.endian = n.endian /\ last'.end = "returned"
           => last'.got = n.value]_streamVars
  BY IntegerStep
<1> QED BY <1>1, StreamsInvariant, PTL DEF StreamsSpec, IntegerReadsBack

=============================================================================
