---------------------------- MODULE Files_proofs ----------------------------
(***************************************************************************)
(* Theorems about files and their streams: a deletion in the tree of       *)
(* directories is exact; a FileStream has its own descriptor and stays     *)
(* on its file, and a handle of ZipFilesystem tracks its zip_file, for any *)
(* number of names, objects, descriptors, files and archives; through a    *)
(* CacheStream, for any size of the cache, any requests and any contents,  *)
(* reads give and writes leave what a plain stream would, as long as       *)
(* clients seek only where FillCache can tell that they did.               *)
(***************************************************************************)
EXTENDS Filesystem, FileStreams, ZipFilesystem, CacheStream, SequenceTheorems, FiniteSetTheorems, WellFoundedInduction, TLAPS

-----------------------------------------------------------------------------
(* FileStreams: the inductive invariant                                    *)

FilesTypeOK ==
  /\ sizes \in [FileNames -> Int]
  /\ fds \in [Fds -> Ids \cup {0}]
  /\ described \in [Ids -> [file : FileNames \cup {"none"}, position : Nat, append : BOOLEAN]]
  /\ streamFd \in [FileObjects -> Fds \cup {NoFd}]
  /\ origin \in [FileObjects -> [file : FileNames \cup {"none"}, family : Ids \cup {0}, position : Nat]]

\* Streams are of one family exactly when their descriptors are for one open file
\* description: what moves the position of one moves that of the others, and no more.
FamilyIsDescription ==
  \A g, h \in Live : origin[g].family = origin[h].family <=> fds[streamFd[g]] = fds[streamFd[h]]

FilesInv == FilesTypeOK /\ OwnsItsDescriptor /\ FamilyIsDescription
-----------------------------------------------------------------------------
(* Numbers that are free                                                   *)

\* The least element of a set of numbers is in the set.
LEMMA LeastOfSet ==
  ASSUME NEW S, S \subseteq Nat, S # {}
  PROVE  Min(S) \in S /\ \A y \in S : Min(S) <= y
<1>1. PICK m \in S : \A y \in S : ~ (<<y, m>> \in OpToRel(<, Nat))
  BY NatLessThanWellFounded, WFMin
<1>2. \A y \in S : ~(y < m)
  BY <1>1 DEF OpToRel
<1>3. \A y \in S : m <= y
  BY <1>2
<1> QED
  BY <1>3 DEF Min

\* While an object does not exist, the others cannot have taken every number there is for
\* open file descriptions and families.
LEMMA IdIsFree ==
  ASSUME NEW L \in SUBSET FileObjects, NEW h \in FileObjects \ L, NEW F, NEW used,
         \A i \in used : i = 0 \/ \E g \in L : F[g] = i
  PROVE  Min(FreeIds(used)) \in Ids /\ Min(FreeIds(used)) \notin used
<1> DEFINE N == Cardinality(FileObjects)
           T == {F[g] : g \in L}
           G == [g \in L |-> F[g]]
<1>1. N \in Nat /\ IsFiniteSet(FileObjects)
  BY FS_CardinalityType, FileStreamsAssumption
<1>2. IsFiniteSet(L) /\ Cardinality(L) <= N - 1
  <2>1. IsFiniteSet(FileObjects \ {h}) /\ Cardinality(FileObjects \ {h}) = N - 1
    BY <1>1, FS_RemoveElement
  <2>2. L \in SUBSET (FileObjects \ {h})
    OBVIOUS
  <2> QED
    BY <2>1, <2>2, FS_Subset
<1>3. IsFiniteSet(T) /\ Cardinality(T) <= Cardinality(L)
  <2>1. G \in Surjection(L, T)
    BY DEF Surjection
  <2> QED
    BY <1>2, <2>1, FS_Surjection
<1>4. Cardinality(Ids) = N /\ IsFiniteSet(Ids)
  BY <1>1, FS_Interval DEF Ids
<1>5. Cardinality(T) \in Nat /\ Cardinality(L) \in Nat
  BY <1>2, <1>3, FS_CardinalityType
<1>6. ~(Ids \subseteq T)
  <2>1. SUFFICES ASSUME Ids \in SUBSET T PROVE FALSE
    OBVIOUS
  <2>2. Cardinality(Ids) <= Cardinality(T)
    BY <1>3, <2>1, FS_Subset
  <2> QED
    BY <1>1, <1>2, <1>3, <1>4, <1>5, <2>2
<1>7. FreeIds(used) # {} /\ FreeIds(used) \subseteq Nat
  <2>1. \A i \in Ids : i # 0 /\ i \in Nat
    BY <1>1 DEF Ids
  <2> QED
    BY <1>6, <2>1 DEF FreeIds
<1>8. Min(FreeIds(used)) \in FreeIds(used)
  BY <1>7, LeastOfSet
<1> QED
  BY <1>8 DEF FreeIds

\* The lowest descriptor that is free
LEMMA FdIsFree ==
  ASSUME FreeFds # {}
  PROVE  Min(FreeFds) \in Fds /\ fds[Min(FreeFds)] = 0
<1>1. FreeFds \subseteq Nat
  BY FileStreamsAssumption DEF FreeFds, Fds
<1>2. Min(FreeFds) \in FreeFds
  BY <1>1, LeastOfSet
<1> QED
  BY <1>2 DEF FreeFds

\* The descriptor of an object that exists, and its open file description
LEMMA LiveHasDescription ==
  ASSUME FilesInv, NEW h \in Live
  PROVE  /\ h \in FileObjects /\ streamFd[h] \in Fds
         /\ fds[streamFd[h]] \in Ids /\ fds[streamFd[h]] # 0
  BY DEF FilesInv, FilesTypeOK, OwnsItsDescriptor, Live, IsOpenFd

LEMMA NoFdIsNone == NoFd \notin Fds /\ 0 \notin Ids
<1>1. Cardinality(FileObjects) \in Nat
  BY FS_CardinalityType, FileStreamsAssumption
<1> QED
  BY <1>1, FileStreamsAssumption DEF NoFd, Fds, Ids

-----------------------------------------------------------------------------
(* FileStreams: the steps                                                  *)

LEMMA InitFilesInv == FilesInit => FilesInv
<1> SUFFICES ASSUME FilesInit PROVE FilesInv
  OBVIOUS
<1>1. NoDescription \in [file : FileNames \cup {"none"}, position : Nat, append : BOOLEAN]
  BY DEF NoDescription
<1>2. NoOrigin \in [file : FileNames \cup {"none"}, family : Ids \cup {0}, position : Nat]
  BY DEF NoOrigin
<1>3. FilesTypeOK
  BY <1>1, <1>2 DEF FilesInit, FilesTypeOK, Absent
<1>4. Live = {}
  BY DEF FilesInit, Live
<1> QED
  BY <1>3, <1>4 DEF FilesInit, FilesInv, OwnsItsDescriptor, FamilyIsDescription

\* Streams that exist keep their descriptions, and those of that family have that one.
OthersKept(id, from) ==
  \A g \in Live : /\ described'[fds[streamFd[g]]] = described[fds[streamFd[g]]]
                  /\ origin[g].family = from.family <=> fds[streamFd[g]] = id

\* A constructor succeeded: the object has a descriptor that was free, for a description
\* that no other family has, or for that of the family it joins.
LEMMA ConstructStep ==
  ASSUME FilesInv, NEW h \in FileObjects \ Live, NEW fd \in Fds, fds[fd] = 0, NEW id \in Ids,
         NEW from \in [file : FileNames \cup {"none"}, family : Ids \cup {0}, position : Nat],
         fds' = [fds EXCEPT ![fd] = id], Construct(h, fd, from),
         described' \in [Ids -> [file : FileNames \cup {"none"}, position : Nat, append : BOOLEAN]],
         described'[id].file = from.file, described'[id].position = from.position,
         OthersKept(id, from),
         sizes' \in [FileNames -> Int]
  PROVE  FilesInv'
<1>1. FilesTypeOK'
  BY DEF FilesInv, FilesTypeOK, Construct
<1>2. Live' = Live \cup {h}
  BY NoFdIsNone DEF FilesInv, FilesTypeOK, Live, Construct
<1>3. streamFd'[h] = fd /\ origin'[h] = from /\ fds'[fd] = id
  BY DEF FilesInv, FilesTypeOK, Construct
<1>4. \A g \in Live : /\ g # h /\ streamFd'[g] = streamFd[g] /\ origin'[g] = origin[g]
                      /\ streamFd[g] # fd /\ fds'[streamFd[g]] = fds[streamFd[g]]
  BY LiveHasDescription DEF FilesInv, FilesTypeOK, Construct
<1>5. \A g \in Live' : IsOpenFd(streamFd[g])'
  BY <1>2, <1>3, <1>4, LiveHasDescription, NoFdIsNone DEF IsOpenFd
<1>6. \A g, k \in Live' : streamFd'[g] = streamFd'[k] => g = k
  BY <1>2, <1>3, <1>4 DEF FilesInv, OwnsItsDescriptor
<1>7. \A other \in Fds : fds'[other] # 0 => \E g \in Live' : streamFd'[g] = other
  <2> SUFFICES ASSUME NEW other \in Fds, fds'[other] # 0 PROVE \E g \in Live' : streamFd'[g] = other
    OBVIOUS
  <2>1. CASE other = fd
    BY <1>2, <1>3, <2>1
  <2>2. CASE other # fd
    <3>1. fds[other] # 0
      BY <2>2 DEF FilesInv, FilesTypeOK
    <3> QED
      BY <1>2, <1>4, <3>1 DEF FilesInv, OwnsItsDescriptor
  <2> QED
    BY <2>1, <2>2
<1>8. \A g \in Live' : Description(g)'.file = origin'[g].file /\ Description(g)'.position = origin'[g].position
  BY <1>2, <1>3, <1>4 DEF FilesInv, OwnsItsDescriptor, Description, OthersKept
<1>9. FamilyIsDescription'
  BY <1>2, <1>3, <1>4 DEF FilesInv, FamilyIsDescription, OthersKept
<1> QED
  BY <1>1, <1>5, <1>6, <1>7, <1>8, <1>9 DEF FilesInv, OwnsItsDescriptor

LEMMA OpenFileStep ==
  ASSUME FilesInv, NEW h \in FileObjects, NEW file \in FileNames, NEW createmode \in FileOpenMode, OpenFile(h, file, createmode)
  PROVE  FilesInv'
<1> DEFINE usedIds == {fds[fd] : fd \in Fds}
           usedFamilies == {origin[g].family : g \in Live}
           id == Min(FreeIds(usedIds))
           family == Min(FreeIds(usedFamilies))
           fd == Min(FreeFds)
           new == [file |-> file, position |-> 0, append |-> createmode = "Append"]
           from == [file |-> file, family |-> family, position |-> 0]
<1>1. /\ h \in FileObjects \ Live /\ FreeFds # {}
      /\ sizes' = [sizes EXCEPT ![file] = IF createmode \in {"Open", "Append"} THEN @ ELSE 0]
      /\ fds' = [fds EXCEPT ![fd] = id]
      /\ described' = [described EXCEPT ![id] = new]
      /\ Construct(h, fd, from)
  BY DEF OpenFile
<1>2. fd \in Fds /\ fds[fd] = 0
  BY <1>1, FdIsFree
<1>3. Live \in SUBSET FileObjects
  BY DEF Live
<1>4. id \in Ids /\ id \notin usedIds
  <2> DEFINE F == [g \in Live |-> fds[streamFd[g]]]
  <2>1. \A i \in usedIds : i = 0 \/ \E g \in Live : F[g] = i
    BY DEF FilesInv, OwnsItsDescriptor
  <2> HIDE DEF F, usedIds
  <2> QED
    BY <1>1, <1>3, <2>1, IdIsFree
<1>5. family \in Ids /\ family \notin usedFamilies
  <2> DEFINE F == [g \in Live |-> origin[g].family]
  <2>1. \A i \in usedFamilies : i = 0 \/ \E g \in Live : F[g] = i
    OBVIOUS
  <2> HIDE DEF F, usedFamilies
  <2> QED
    BY <1>1, <1>3, <2>1, IdIsFree
<1>6. new \in [file : FileNames \cup {"none"}, position : Nat, append : BOOLEAN]
  OBVIOUS
<1>7. from \in [file : FileNames \cup {"none"}, family : Ids \cup {0}, position : Nat]
  BY <1>5
<1>8. new.file = from.file /\ new.position = from.position /\ from.family = family
  OBVIOUS
<1>9. \A g \in Live : fds[streamFd[g]] \in usedIds /\ origin[g].family \in usedFamilies /\ fds[streamFd[g]] \in Ids
  BY LiveHasDescription
<1> HIDE DEF usedIds, usedFamilies, id, family, fd, new, from
<1>10. described' \in [Ids -> [file : FileNames \cup {"none"}, position : Nat, append : BOOLEAN]]
  BY <1>1, <1>4, <1>6 DEF FilesInv, FilesTypeOK
<1>11. described'[id].file = from.file /\ described'[id].position = from.position
  BY <1>1, <1>4, <1>8 DEF FilesInv, FilesTypeOK
<1>12. OthersKept(id, from)
  BY <1>1, <1>4, <1>5, <1>8, <1>9 DEF FilesInv, FilesTypeOK, OthersKept
<1>13. sizes' \in [FileNames -> Int]
  BY <1>1 DEF FilesInv, FilesTypeOK
<1> QED
  BY <1>1, <1>2, <1>4, <1>7, <1>10, <1>11, <1>12, <1>13, ConstructStep

LEMMA OpenHandleStep ==
  ASSUME FilesInv, NEW h \in FileObjects, NEW g \in FileObjects, OpenHandle(h, g)
  PROVE  FilesInv'
<1> DEFINE fd == Min(FreeFds)
           id == fds[streamFd[g]]
<1>1. /\ h \in FileObjects \ Live /\ g \in Live /\ FreeFds # {}
      /\ fds' = [fds EXCEPT ![fd] = id]
      /\ Construct(h, fd, origin[g])
      /\ UNCHANGED <<sizes, described>>
  BY DEF OpenHandle, Duplicate
<1>2. fd \in Fds /\ fds[fd] = 0
  BY <1>1, FdIsFree
<1>3. id \in Ids
  BY <1>1, LiveHasDescription
<1>4. described[id].file = origin[g].file /\ described[id].position = origin[g].position
  BY <1>1 DEF FilesInv, OwnsItsDescriptor, Description
<1>5. OthersKept(id, origin[g])
  BY <1>1 DEF FilesInv, FamilyIsDescription, OthersKept
<1> HIDE DEF fd, id
<1> QED
  BY <1>1, <1>2, <1>3, <1>4, <1>5, ConstructStep DEF FilesInv, FilesTypeOK

LEMMA CloseStep == ASSUME FilesInv, NEW h \in FileObjects, Close(h) PROVE FilesInv'
<1> DEFINE fd == streamFd[h]
           alone == \A other \in Fds \ {fd} : fds[other] # fds[fd]
<1>1. /\ h \in Live
      /\ fds' = [fds EXCEPT ![fd] = 0]
      /\ described' = IF alone THEN [described EXCEPT ![fds[fd]] = NoDescription] ELSE described
      /\ streamFd' = [streamFd EXCEPT ![h] = NoFd]
      /\ origin' = [origin EXCEPT ![h] = NoOrigin]
      /\ UNCHANGED sizes
  BY DEF Close
<1>2. NoDescription \in [file : FileNames \cup {"none"}, position : Nat, append : BOOLEAN]
  BY DEF NoDescription
<1>3. NoOrigin \in [file : FileNames \cup {"none"}, family : Ids \cup {0}, position : Nat]
  BY DEF NoOrigin
<1>4. fd \in Fds /\ fds[fd] \in Ids
  BY <1>1, LiveHasDescription
<1>5. FilesTypeOK'
  BY <1>1, <1>2, <1>3, <1>4 DEF FilesInv, FilesTypeOK
<1>6. Live' = Live \ {h}
  BY <1>1 DEF FilesInv, FilesTypeOK, Live
<1>7. \A g \in Live' : /\ g \in Live /\ streamFd'[g] = streamFd[g] /\ origin'[g] = origin[g]
                       /\ streamFd[g] \in Fds \ {fd} /\ fds'[streamFd[g]] = fds[streamFd[g]]
  <2> SUFFICES ASSUME NEW g \in Live'
               PROVE  /\ g \in Live /\ streamFd'[g] = streamFd[g] /\ origin'[g] = origin[g]
                      /\ streamFd[g] \in Fds \ {fd} /\ fds'[streamFd[g]] = fds[streamFd[g]]
    OBVIOUS
  <2>1. g \in Live /\ g # h
    BY <1>6
  <2>2. streamFd[g] # fd
    BY <1>1, <2>1 DEF FilesInv, OwnsItsDescriptor
  <2>3. streamFd[g] \in Fds /\ g \in FileObjects
    BY <2>1, LiveHasDescription
  <2> QED
    BY <1>1, <1>4, <2>1, <2>2, <2>3 DEF FilesInv, FilesTypeOK
<1>8. \A g \in Live' : described'[fds[streamFd[g]]] = described[fds[streamFd[g]]]
  <2> SUFFICES ASSUME NEW g \in Live' PROVE described'[fds[streamFd[g]]] = described[fds[streamFd[g]]]
    OBVIOUS
  <2>1. fds[streamFd[g]] \in Ids
    BY <1>7, LiveHasDescription
  <2>2. alone => fds[streamFd[g]] # fds[fd]
    BY <1>7
  <2> HIDE DEF alone, fd
  <2> QED
    BY <1>1, <1>4, <2>1, <2>2 DEF FilesInv, FilesTypeOK
<1>9. \A g \in Live' : IsOpenFd(streamFd[g])'
  BY <1>7, LiveHasDescription, NoFdIsNone DEF IsOpenFd
<1>10. \A g, k \in Live' : streamFd'[g] = streamFd'[k] => g = k
  BY <1>7 DEF FilesInv, OwnsItsDescriptor
<1>11. \A other \in Fds : fds'[other] # 0 => \E g \in Live' : streamFd'[g] = other
  <2> SUFFICES ASSUME NEW other \in Fds, fds'[other] # 0 PROVE \E g \in Live' : streamFd'[g] = other
    OBVIOUS
  <2>1. other # fd /\ fds[other] # 0
    BY <1>1, <1>4 DEF FilesInv, FilesTypeOK
  <2>2. PICK g \in Live : streamFd[g] = other
    BY <2>1 DEF FilesInv, OwnsItsDescriptor
  <2>3. g \in Live'
    BY <1>6, <2>1, <2>2
  <2> QED
    BY <1>7, <2>2, <2>3
<1> HIDE DEF alone, fd
<1>12. \A g \in Live' : Description(g)'.file = origin'[g].file /\ Description(g)'.position = origin'[g].position
  BY <1>7, <1>8 DEF FilesInv, OwnsItsDescriptor, Description
<1>13. FamilyIsDescription'
  BY <1>7 DEF FilesInv, FamilyIsDescription
<1> QED
  BY <1>5, <1>9, <1>10, <1>11, <1>12, <1>13 DEF FilesInv, OwnsItsDescriptor

\* Read, Write and Seek move the position of the description, and that of the family.
LEMMA MoveStep ==
  ASSUME FilesInv, NEW h \in Live, NEW to, Move(h, to), UNCHANGED <<fds, streamFd>>, sizes' \in [FileNames -> Int]
  PROVE  FilesInv'
<1> DEFINE id == fds[streamFd[h]]
<1>1. id \in Ids /\ h \in FileObjects
  BY LiveHasDescription
<1>2. to \in Nat
  BY FileStreamsAssumption DEF Move
<1>3. Live' = Live
  BY DEF Live
<1>4. \A i \in Ids : /\ described'[i].file = described[i].file
                     /\ described'[i].position = IF i = id THEN to ELSE described[i].position
  BY <1>1 DEF Move, FilesInv, FilesTypeOK
<1>5. \A g \in Live : /\ origin'[g].file = origin[g].file
                      /\ origin'[g].family = origin[g].family
                      /\ origin'[g].position = IF origin[g].family = origin[h].family THEN to ELSE origin[g].position
  BY LiveHasDescription DEF Move, FilesInv, FilesTypeOK
<1>6. FilesTypeOK'
  <2>1. described' \in [Ids -> [file : FileNames \cup {"none"}, position : Nat, append : BOOLEAN]]
    BY <1>1, <1>2, ZenonT(40) DEF Move, FilesInv, FilesTypeOK
  <2>2. origin' \in [FileObjects -> [file : FileNames \cup {"none"}, family : Ids \cup {0}, position : Nat]]
    BY <1>2 DEF Move, FilesInv, FilesTypeOK
  <2> QED
    BY <2>1, <2>2 DEF FilesInv, FilesTypeOK
<1>7. FamilyIsDescription'
  BY <1>3, <1>5 DEF FilesInv, FamilyIsDescription
<1>8. \A g \in Live' : Description(g)'.file = origin'[g].file /\ Description(g)'.position = origin'[g].position
  <2> SUFFICES ASSUME NEW g \in Live
               PROVE  Description(g)'.file = origin'[g].file /\ Description(g)'.position = origin'[g].position
    BY <1>3
  <2>1. fds[streamFd[g]] \in Ids
    BY LiveHasDescription
  <2>2. /\ described[fds[streamFd[g]]].file = origin[g].file
        /\ described[fds[streamFd[g]]].position = origin[g].position
    BY DEF FilesInv, OwnsItsDescriptor, Description
  <2>3. origin[g].family = origin[h].family <=> fds[streamFd[g]] = id
    BY DEF FilesInv, FamilyIsDescription
  <2>4. Description(g)' = described'[fds[streamFd[g]]]
    BY DEF Description
  <2> HIDE DEF id
  <2> QED
    BY <1>4, <1>5, <2>1, <2>2, <2>3, <2>4
<1>9. /\ \A g \in Live' : IsOpenFd(streamFd[g])'
      /\ \A g, k \in Live' : streamFd'[g] = streamFd'[k] => g = k
      /\ \A fd \in Fds : fds'[fd] # 0 => \E g \in Live' : streamFd'[g] = fd
  BY <1>3 DEF FilesInv, OwnsItsDescriptor, IsOpenFd
<1> QED
  BY <1>6, <1>7, <1>8, <1>9 DEF FilesInv, OwnsItsDescriptor

\* The larger of two numbers
LEMMA MaxOfTwo ==
  ASSUME NEW a \in Int, NEW b \in Int
  PROVE  Max({a, b}) \in Int
<1>1. \E x \in {a, b} : \A y \in {a, b} : x >= y
  OBVIOUS
<1>2. Max({a, b}) \in {a, b}
  BY <1>1 DEF Max
<1> QED
  BY <1>2

LEMMA FilesNextInv == FilesInv /\ [FilesNext]_fileVars => FilesInv'
<1> SUFFICES ASSUME FilesInv, [FilesNext]_fileVars PROVE FilesInv'
  OBVIOUS
<1>1. CASE UNCHANGED fileVars
  BY <1>1 DEF fileVars, FilesInv, FilesTypeOK, OwnsItsDescriptor, FamilyIsDescription, Live, Description, IsOpenFd
<1>2. ASSUME NEW h \in FileObjects, NEW file \in FileNames, NEW createmode \in FileOpenMode, OpenFile(h, file, createmode)
      PROVE  FilesInv'
  BY <1>2, OpenFileStep
<1>3. ASSUME NEW h \in FileObjects, NEW g \in FileObjects, OpenHandle(h, g) PROVE FilesInv'
  BY <1>3, OpenHandleStep
<1>4. ASSUME NEW h \in FileObjects, Close(h) PROVE FilesInv'
  BY <1>4, CloseStep
<1>5. ASSUME NEW h \in FileObjects, NEW n \in 0 .. MaxSize, ReadFile(h, n) PROVE FilesInv'
  <2>1. PICK to : Move(h, to)
    BY <1>5 DEF ReadFile
  <2>2. h \in Live /\ UNCHANGED <<sizes, fds, streamFd>>
    BY <1>5 DEF ReadFile, Ready
  <2> QED
    BY <2>1, <2>2, MoveStep DEF FilesInv, FilesTypeOK
<1>6. ASSUME NEW h \in FileObjects, NEW n \in 0 .. MaxSize, WriteFile(h, n) PROVE FilesInv'
  <2> DEFINE d == Description(h)
             at == IF d.append THEN sizes[d.file] ELSE d.position
  <2>1. /\ h \in Live /\ Move(h, at + n) /\ UNCHANGED <<fds, streamFd>>
        /\ sizes' = [sizes EXCEPT ![d.file] = Max({@, at + n})]
    BY <1>6 DEF WriteFile, Ready
  <2> HIDE DEF d, at
  <2>2. at + n \in Int
    BY <2>1, FileStreamsAssumption DEF Move
  <2>3. d.file \in FileNames => Max({sizes[d.file], at + n}) \in Int
    BY <2>2, MaxOfTwo DEF FilesInv, FilesTypeOK
  <2>4. sizes' \in [FileNames -> Int]
    BY <2>1, <2>3 DEF FilesInv, FilesTypeOK
  <2> QED
    BY <2>1, <2>4, MoveStep
<1>7. ASSUME NEW h \in FileObjects, NEW n \in 0 .. MaxSize, TruncateFile(h, n) PROVE FilesInv'
  <2>1. sizes' = [sizes EXCEPT ![Description(h).file] = n] /\ UNCHANGED <<fds, described, streamFd, origin>>
    BY <1>7 DEF TruncateFile
  <2>2. n \in Int
    BY FileStreamsAssumption
  <2>3. sizes' \in [FileNames -> Int]
    <3> DEFINE file == Description(h).file
    <3>1. sizes' = [sizes EXCEPT ![file] = n] /\ sizes \in [FileNames -> Int]
      BY <2>1 DEF FilesInv, FilesTypeOK
    <3> HIDE DEF file
    <3> QED
      BY <2>2, <3>1
  <2>4. FilesTypeOK'
    BY <2>1, <2>3 DEF FilesInv, FilesTypeOK
  <2> QED
    BY <2>1, <2>4 DEF FilesInv, OwnsItsDescriptor, FamilyIsDescription, Live, Description, IsOpenFd
<1>8. ASSUME NEW h \in FileObjects, NEW whence \in SeekTypes, NEW offset \in -1 .. MaxSize, Seek(h, offset, whence)
      PROVE  FilesInv'
  <2>1. PICK to : Move(h, to)
    BY <1>8 DEF Seek
  <2>2. h \in Live /\ UNCHANGED <<sizes, fds, streamFd>>
    BY <1>8 DEF Seek, Ready
  <2> QED
    BY <2>1, <2>2, MoveStep DEF FilesInv, FilesTypeOK
<1> QED
  BY <1>1, <1>2, <1>3, <1>4, <1>5, <1>6, <1>7, <1>8 DEF FilesNext

\* Every FileStream has an open descriptor that no other one has, and no descriptor is left
\* behind; it is on the file and at the position where its own calls, and those of the
\* streams made from its handle, have left it.
THEOREM DescriptorTheorem == FilesSpec => []OwnsItsDescriptor
<1>1. FilesSpec => []FilesInv
  BY InitFilesInv, FilesNextInv, PTL DEF FilesSpec
<1>2. FilesInv => OwnsItsDescriptor
  BY DEF FilesInv
<1> QED
  BY <1>1, <1>2, PTL

-----------------------------------------------------------------------------
(* ZipFilesystem: the inductive invariant of handles                       *)

ZipFileType == [entry : Nat, pos : Int, open : BOOLEAN]
HandleType == [file : ZipSlots \cup {0}, index : Nat, position : Int]

HandlesTypeOK ==
  /\ zfiles \in [ZipSlots -> ZipFileType]
  /\ handles \in [ZipHandles -> HandleType]
  /\ spoiled \subseteq ZipHandles /\ fault \in BOOLEAN
  /\ archive \in Seq(Seq(STRING))

\* A handle that is not open refers to no zip_file: one that opens anew leaves none behind.
ClosedIsNone == \A h \in ZipHandles : ~IsOpen(h) => handles[h].file = 0

HandlesInv == HandlesTypeOK /\ ClosedIsNone /\ HandleTracksFile

-----------------------------------------------------------------------------
(* ZipFilesystem: the steps of handles                                     *)

\* What a handle that is open and not spoiled may rely on
Tracks(h) ==
  IsOpen(h) /\ h \notin spoiled =>
    /\ Usable(h)
    /\ zfiles[handles[h].file].entry = handles[h].index
    /\ zfiles[handles[h].file].pos = handles[h].position
    /\ \A g \in ZipHandles \ {h} : handles[g].file # handles[h].file

\* A zip_file that nobody uses
IsFresh(f) == f \in ZipSlots /\ ~zfiles[f].open /\ \A g \in ZipHandles : handles[g].file # f

\* What the calls on one handle h have in common: at most the zip_file it had and the one it
\* has then are touched, which is the same, none, or one that nobody uses; and one that it
\* leaves is closed.
OnlyTouches(h, new) ==
  /\ \A f \in ZipSlots \ {handles[h].file, new.file} : zfiles'[f] = zfiles[f]
  /\ new.file # handles[h].file => new.file = 0 \/ IsFresh(new.file)
  /\ new.file # handles[h].file /\ handles[h].file # 0 => ~zfiles'[handles[h].file].open
  /\ new.index = 0 => new.file = 0

\* Its own promise is kept
OwnTracks(h, new) ==
  new.index > 0 /\ h \notin spoiled' =>
    /\ new.file \in ZipSlots /\ zfiles'[new.file].open
    /\ zfiles'[new.file].entry = new.index /\ zfiles'[new.file].pos = new.position
    /\ new.file = handles[h].file => handles[h].index > 0 /\ h \notin spoiled

LEMMA ZipSlotsArePositive == \A f \in ZipSlots : f > 0 /\ f # 0 /\ f \in Nat
  BY ZipAssumption DEF ZipSlots

LEMMA OneHandleStep ==
  ASSUME HandlesInv, NEW h \in ZipHandles, NEW new \in HandleType,
         handles' = [handles EXCEPT ![h] = new],
         zfiles' \in [ZipSlots -> ZipFileType],
         spoiled' \subseteq ZipHandles, spoiled \ {h} \subseteq spoiled',
         fault = FALSE, UNCHANGED <<archive, fault>>,
         OnlyTouches(h, new), OwnTracks(h, new)
  PROVE  HandlesInv'
<1>1. HandlesTypeOK'
  BY DEF HandlesInv, HandlesTypeOK
<1>2. \A g \in ZipHandles : handles'[g] = IF g = h THEN new ELSE handles[g]
  BY DEF HandlesInv, HandlesTypeOK
<1>3. new.index \in Nat /\ new.file \in ZipSlots \cup {0}
  BY DEF HandleType
<1>4. \A g \in ZipHandles : handles[g].index \in Nat /\ handles[g].file \in ZipSlots \cup {0}
  BY DEF HandlesInv, HandlesTypeOK, HandleType
<1>5. ClosedIsNone'
  BY <1>2, <1>3 DEF HandlesInv, ClosedIsNone, IsOpen, OnlyTouches
<1>6. ASSUME NEW g \in ZipHandles, g # h PROVE Tracks(g)'
  <2> SUFFICES ASSUME IsOpen(g)', g \notin spoiled' PROVE Tracks(g)'
    BY DEF Tracks
  <2>1. IsOpen(g) /\ g \notin spoiled /\ handles'[g] = handles[g]
    BY <1>2, <1>6 DEF IsOpen
  <2>2. /\ handles[g].file > 0 /\ zfiles[handles[g].file].open
        /\ zfiles[handles[g].file].entry = handles[g].index
        /\ zfiles[handles[g].file].pos = handles[g].position
        /\ \A k \in ZipHandles \ {g} : handles[k].file # handles[g].file
    BY <2>1 DEF HandlesInv, HandleTracksFile, Usable
  <2>3. handles[g].file \in ZipSlots /\ handles[g].file # handles[h].file
    BY <1>4, <1>6, <2>2
  <2>4. handles[g].file # new.file
    BY <2>2, <2>3, ZipSlotsArePositive DEF OnlyTouches, IsFresh
  <2>5. zfiles'[handles[g].file] = zfiles[handles[g].file]
    BY <2>3, <2>4 DEF OnlyTouches
  <2>6. \A k \in ZipHandles \ {g} : handles'[k].file # handles[g].file
    BY <1>2, <2>2, <2>4
  <2> QED
    BY <2>1, <2>2, <2>5, <2>6 DEF Tracks, Usable
<1>7. Tracks(h)'
  <2> SUFFICES ASSUME IsOpen(h)', h \notin spoiled' PROVE Tracks(h)'
    BY DEF Tracks
  <2>1. handles'[h] = new /\ new.index > 0
    BY <1>2 DEF IsOpen
  <2>2. /\ new.file \in ZipSlots /\ zfiles'[new.file].open
        /\ zfiles'[new.file].entry = new.index /\ zfiles'[new.file].pos = new.position
        /\ new.file = handles[h].file => handles[h].index > 0 /\ h \notin spoiled
    BY <2>1 DEF OwnTracks
  <2>3. \A k \in ZipHandles \ {h} : handles[k].file # new.file
    <3>1. CASE new.file = handles[h].file
      BY <2>2, <3>1 DEF HandlesInv, HandleTracksFile, IsOpen
    <3>2. CASE new.file # handles[h].file
      BY <2>2, <3>2, ZipSlotsArePositive DEF OnlyTouches, IsFresh
    <3> QED
      BY <3>1, <3>2
  <2>4. \A k \in ZipHandles \ {h} : handles'[k].file # new.file
    BY <1>2, <2>3
  <2> QED
    BY <2>1, <2>2, <2>4, ZipSlotsArePositive DEF Tracks, Usable
<1>8. \A f \in ZipSlots : zfiles'[f].open => \E g \in ZipHandles : handles'[g].file = f
  <2> SUFFICES ASSUME NEW f \in ZipSlots, zfiles'[f].open PROVE \E g \in ZipHandles : handles'[g].file = f
    OBVIOUS
  <2>1. CASE f = new.file
    BY <1>2, <2>1
  <2>2. CASE f # new.file
    <3>1. f # handles[h].file
      BY <2>2, ZipSlotsArePositive DEF OnlyTouches
    <3>2. zfiles[f].open
      BY <2>2, <3>1 DEF OnlyTouches
    <3>3. PICK g \in ZipHandles : handles[g].file = f
      BY <3>2 DEF HandlesInv, HandleTracksFile
    <3> QED
      BY <1>2, <3>1, <3>3
  <2> QED
    BY <2>1, <2>2
<1>9. \A g \in ZipHandles : Tracks(g)'
  BY <1>6, <1>7
<1> QED
  BY <1>1, <1>5, <1>8, <1>9 DEF HandlesInv, HandleTracksFile, Tracks

LEMMA FreshIsUnused == \A f \in Fresh : IsFresh(f)
<1>1. FreshSlots \subseteq Nat
  BY ZipSlotsArePositive DEF FreshSlots
<1>2. FreshSlots # {} => Min(FreshSlots) \in FreshSlots
  BY <1>1, LeastOfSet
<1> QED
  BY <1>2 DEF Fresh, FreshSlots, IsFresh

LEMMA ZipSizeType == \A index : ZipSize(index) \in Nat
  BY ZipAssumption DEF ZipSize

LEMMA StopsType ==
  ASSUME NEW start \in Int, NEW target \in Int, NEW size \in Int
  PROVE  \A stop \in Stops(start, target, size) : stop \in Int
  BY DEF Stops

LEMMA InitHandlesInv == ZipInit => HandlesInv
<1> SUFFICES ASSUME ZipInit PROVE HandlesInv
  OBVIOUS
<1>1. NoHandle \in HandleType /\ NoHandle.index = 0 /\ NoHandle.file = 0
  BY DEF NoHandle, HandleType
<1>2. HandlesTypeOK
  <2>1. [entry |-> 0, pos |-> 0, open |-> FALSE] \in ZipFileType
    BY DEF ZipFileType
  <2>2. zfiles \in [ZipSlots -> ZipFileType]
    BY <2>1, Zenon DEF ZipInit
  <2>3. handles \in [ZipHandles -> HandleType]
    BY <1>1, Zenon DEF ZipInit
  <2>4. archive \in Seq(Seq(STRING)) /\ spoiled = {} /\ fault = FALSE
    BY ZipAssumption DEF ZipInit
  <2> QED
    BY <2>2, <2>3, <2>4 DEF HandlesTypeOK
<1>3. ClosedIsNone /\ HandleTracksFile
  BY <1>1 DEF ZipInit, ClosedIsNone, HandleTracksFile, IsOpen
<1> QED
  BY <1>2, <1>3 DEF HandlesInv

\* zip_name_locate gives an entry of the archive, or none.
LEMMA LocateType ==
  ASSUME archive \in Seq(Seq(STRING)), NEW name
  PROVE  Locate(name) \in Nat /\ (Locate(name) > 0 => Locate(name) \in 1 .. Len(archive))
<1>1. DOMAIN archive = 1 .. Len(archive) /\ Len(archive) \in Nat
  OBVIOUS
<1>2. CASE name \in Range(archive)
  <2>1. \E i \in DOMAIN archive : archive[i] = name
    BY <1>2 DEF Range
  <2>2. Locate(name) \in DOMAIN archive
    BY <1>2, <2>1 DEF Locate
  <2> QED
    BY <1>1, <2>2
<1>3. CASE name \notin Range(archive)
  BY <1>3 DEF Locate
<1> QED
  BY <1>2, <1>3

LEMMA ZipOpenStep ==
  ASSUME HandlesInv, ~fault, NEW h \in ZipHandles, NEW path \in Paths, ZipOpen(h, path)
  PROVE  HandlesInv'
<1> DEFINE index == Locate(TransformPath(path))
<1>1. index > 0 /\ ~IsOpen(h) /\ UNCHANGED <<archive, spoiled, fault>>
  BY DEF ZipOpen
<1>2. PICK f \in Fresh : /\ zfiles' = Fopened(zfiles, f, index, 0)
                         /\ handles' = [handles EXCEPT ![h] = [file |-> f, index |-> index, position |-> 0]]
  BY DEF ZipOpen
<1>3. index \in Nat
  BY LocateType DEF HandlesInv, HandlesTypeOK
<1> HIDE DEF index
<1> DEFINE new == [file |-> f, index |-> index, position |-> 0]
<1>4. IsFresh(f) /\ f \in ZipSlots /\ f # 0
  BY FreshIsUnused, ZipSlotsArePositive DEF IsFresh
<1>5. new \in HandleType /\ new.file = f /\ new.index = index /\ new.position = 0
  BY <1>3, <1>4 DEF HandleType
<1>6. handles[h].file = 0 /\ handles[h].file # f
  BY <1>1, <1>4 DEF HandlesInv, ClosedIsNone
<1>7. zfiles' \in [ZipSlots -> ZipFileType] /\ zfiles'[f] = [entry |-> index, pos |-> 0, open |-> TRUE]
  BY <1>2, <1>3, <1>4 DEF HandlesInv, HandlesTypeOK, Fopened, ZipFileType
<1>8. \A k \in ZipSlots \ {f} : zfiles'[k] = zfiles[k]
  BY <1>2 DEF HandlesInv, HandlesTypeOK, Fopened
<1>9. OnlyTouches(h, new)
  BY <1>1, <1>4, <1>5, <1>6, <1>8 DEF OnlyTouches
<1>10. OwnTracks(h, new)
  BY <1>4, <1>5, <1>6, <1>7 DEF OwnTracks
<1>11. handles' = [handles EXCEPT ![h] = new]
  BY <1>2
<1>12. spoiled' \subseteq ZipHandles /\ spoiled \ {h} \subseteq spoiled' /\ fault = FALSE
  BY <1>1 DEF HandlesInv, HandlesTypeOK
<1> HIDE DEF new
<1> QED
  BY <1>1, <1>5, <1>7, <1>9, <1>10, <1>11, <1>12, OneHandleStep

\* zip_fread moves the zip_file and the handle alike.
LEMMA AdvanceStep ==
  ASSUME HandlesInv, ~fault, NEW h \in ZipHandles, NEW n \in Int, IsOpen(h), Usable(h), Advance(h, n),
         UNCHANGED <<archive, spoiled, fault>>
  PROVE  HandlesInv'
<1> DEFINE f == handles[h].file
           left == ZipSize(zfiles[f].entry) - zfiles[f].pos
           got == IF n < left THEN n ELSE left
           new == [handles[h] EXCEPT !.position = @ + got]
<1>1. zfiles' = [zfiles EXCEPT ![f].pos = @ + got] /\ handles' = [handles EXCEPT ![h].position = @ + got]
  BY DEF Advance
<1>2. handles[h] \in HandleType /\ f \in ZipSlots /\ zfiles[f].open /\ zfiles[f] \in ZipFileType
  BY DEF HandlesInv, HandlesTypeOK, HandleType, Usable
<1>3. got \in Int
  BY <1>2, ZipSizeType DEF ZipFileType
<1> HIDE DEF got, left
<1>4. /\ new \in HandleType /\ new.file = f /\ new.index = handles[h].index
      /\ new.position = handles[h].position + got
  BY <1>2, <1>3 DEF HandleType
<1>5. handles' = [handles EXCEPT ![h] = new]
  BY <1>1
<1>6. zfiles' \in [ZipSlots -> ZipFileType]
  <2> DEFINE moved == [zfiles[f] EXCEPT !.pos = @ + got]
  <2>1. moved \in ZipFileType
    BY <1>2, <1>3 DEF ZipFileType
  <2>2. zfiles' = [zfiles EXCEPT ![f] = moved]
    BY <1>1
  <2> HIDE DEF moved
  <2> QED
    BY <1>2, <2>1, <2>2 DEF HandlesInv, HandlesTypeOK
<1>7. zfiles'[f].pos = zfiles[f].pos + got /\ zfiles'[f].entry = zfiles[f].entry /\ zfiles'[f].open = zfiles[f].open
  BY <1>1, <1>2 DEF HandlesInv, HandlesTypeOK, ZipFileType
<1>8. \A k \in ZipSlots \ {f} : zfiles'[k] = zfiles[k]
  BY <1>1, <1>2 DEF HandlesInv, HandlesTypeOK
<1> HIDE DEF new
<1>9. OnlyTouches(h, new)
  BY <1>2, <1>4, <1>8, ZipSlotsArePositive DEF OnlyTouches, IsOpen
<1>10. OwnTracks(h, new)
  <2> SUFFICES ASSUME h \notin spoiled' PROVE OwnTracks(h, new)
    BY DEF OwnTracks
  <2>1. zfiles[f].entry = handles[h].index /\ zfiles[f].pos = handles[h].position
    BY DEF HandlesInv, HandleTracksFile
  <2> QED
    BY <1>2, <1>4, <1>7, <2>1 DEF OwnTracks, IsOpen
<1>11. spoiled' \subseteq ZipHandles /\ spoiled \ {h} \subseteq spoiled' /\ fault = FALSE
  BY DEF HandlesInv, HandlesTypeOK
<1> QED
  BY <1>4, <1>5, <1>6, <1>9, <1>10, <1>11, OneHandleStep

LEMMA ZipDuplicateStep ==
  ASSUME HandlesInv, ~fault, NEW h \in ZipHandles, NEW g \in ZipHandles, ZipDuplicate(h, g)
  PROVE  HandlesInv'
<1> DEFINE new == [handles[h] EXCEPT !.position = 0]
<1>1. /\ IsOpen(h) /\ ~IsOpen(g)
      /\ handles' = [handles EXCEPT ![g] = new] /\ spoiled' = spoiled \cup {h, g}
      /\ UNCHANGED <<archive, zfiles, fault>>
  BY DEF ZipDuplicate
<1>2. new \in HandleType /\ new.file = handles[h].file /\ new.index = handles[h].index
  <2>1. handles[h] \in HandleType
    BY DEF HandlesInv, HandlesTypeOK
  <2> QED
    BY <2>1 DEF HandleType
<1> HIDE DEF new
<1>3. \A k \in ZipHandles : handles'[k] = IF k = g THEN new ELSE handles[k]
  BY <1>1 DEF HandlesInv, HandlesTypeOK
<1>4. HandlesTypeOK'
  BY <1>1, <1>2 DEF HandlesInv, HandlesTypeOK
<1>5. ClosedIsNone'
  BY <1>1, <1>2, <1>3 DEF HandlesInv, ClosedIsNone, IsOpen
<1>6. ASSUME NEW k \in ZipHandles PROVE Tracks(k)'
  <2> SUFFICES ASSUME IsOpen(k)', k \notin spoiled' PROVE Tracks(k)'
    BY DEF Tracks
  <2>1. k # h /\ k # g /\ k \notin spoiled /\ handles'[k] = handles[k] /\ IsOpen(k)
    BY <1>1, <1>3 DEF IsOpen
  <2>2. Tracks(k)
    BY DEF HandlesInv, HandleTracksFile, Tracks
  <2>3. \A other \in ZipHandles \ {k} : handles'[other].file # handles[k].file
    BY <1>2, <1>3, <2>1, <2>2 DEF Tracks
  <2> QED
    BY <1>1, <2>1, <2>2, <2>3 DEF Tracks, Usable
<1>7. \A f \in ZipSlots : zfiles'[f].open => \E k \in ZipHandles : handles'[k].file = f
  <2> SUFFICES ASSUME NEW f \in ZipSlots, zfiles[f].open PROVE \E k \in ZipHandles : handles'[k].file = f
    BY <1>1
  <2>1. PICK k \in ZipHandles : handles[k].file = f
    BY DEF HandlesInv, HandleTracksFile
  <2>2. k # g
    BY <1>1, <2>1, ZipSlotsArePositive DEF HandlesInv, ClosedIsNone
  <2> QED
    BY <1>3, <2>1, <2>2
<1> QED
  BY <1>1, <1>4, <1>5, <1>6, <1>7 DEF HandlesInv, HandleTracksFile, Tracks

\* zip_fclose
LEMMA FclosedType ==
  ASSUME HandlesInv, NEW f \in ZipSlots
  PROVE  /\ Fclosed(zfiles, f) \in [ZipSlots -> ZipFileType] /\ ~Fclosed(zfiles, f)[f].open
         /\ \A k \in ZipSlots \ {f} : Fclosed(zfiles, f)[k] = zfiles[k]
<1>1. [entry |-> 0, pos |-> 0, open |-> FALSE] \in ZipFileType
  BY DEF ZipFileType
<1>2. zfiles \in [ZipSlots -> ZipFileType]
  BY DEF HandlesInv, HandlesTypeOK
<1> QED
  BY <1>1, <1>2 DEF Fclosed

LEMMA ZipCloseStep == ASSUME HandlesInv, ~fault, NEW h \in ZipHandles, ZipClose(h) PROVE HandlesInv'
<1> DEFINE f == handles[h].file
<1>1. /\ zfiles' = IF f = 0 THEN zfiles ELSE Fclosed(zfiles, f)
      /\ handles' = [handles EXCEPT ![h] = NoHandle] /\ spoiled' = spoiled \ {h}
      /\ UNCHANGED <<archive, fault>>
  BY DEF ZipClose
<1>2. f \in ZipSlots \cup {0} /\ zfiles \in [ZipSlots -> ZipFileType] /\ spoiled \subseteq ZipHandles /\ fault = FALSE
  BY DEF HandlesInv, HandlesTypeOK, HandleType
<1>3. NoHandle \in HandleType /\ NoHandle.file = 0 /\ NoHandle.index = 0
  BY DEF NoHandle, HandleType
<1>4. zfiles' \in [ZipSlots -> ZipFileType] /\ (f # 0 => ~zfiles'[f].open) /\ \A k \in ZipSlots \ {f} : zfiles'[k] = zfiles[k]
  BY <1>1, <1>2, FclosedType
<1>5. OnlyTouches(h, NoHandle) /\ OwnTracks(h, NoHandle)
  BY <1>3, <1>4 DEF OnlyTouches, OwnTracks
<1> HIDE DEF f
<1> QED
  BY <1>1, <1>2, <1>3, <1>4, <1>5, OneHandleStep

\* Seek to an earlier position: another zip_file, or none when it cannot be opened
LEMMA SeekBackStep ==
  ASSUME HandlesInv, ~fault, NEW h \in ZipHandles, NEW target \in Int, SeekBack(h, target)
  PROVE  HandlesInv'
<1> DEFINE old == handles[h].file
           closed == Fclosed(zfiles, old)
           size == ZipSize(handles[h].index)
<1>1. IsOpen(h) /\ Usable(h) /\ UNCHANGED <<archive, fault>>
  BY DEF SeekBack
<1>2. handles[h] \in HandleType /\ spoiled \subseteq ZipHandles /\ fault = FALSE
  BY DEF HandlesInv, HandlesTypeOK
<1>3. old \in ZipSlots /\ old > 0 /\ old # 0 /\ handles[h].index > 0 /\ zfiles[old].open
  BY <1>1, <1>2, ZipSlotsArePositive DEF HandleType, Usable, IsOpen
<1>4. closed \in [ZipSlots -> ZipFileType] /\ ~closed[old].open /\ \A k \in ZipSlots \ {old} : closed[k] = zfiles[k]
  BY <1>3, FclosedType
<1>5. \/ /\ zfiles' = closed
         /\ handles' = [handles EXCEPT ![h] = Rewound(h, 0)]
         /\ spoiled' = spoiled \cup {h}
      \/ \E f \in Fresh, stop \in Stops(0, target, size) :
           /\ zfiles' = Fopened(closed, f, handles[h].index, stop)
           /\ handles' = [handles EXCEPT ![h] = [Rewound(h, f) EXCEPT !.position = @ + stop]]
           /\ UNCHANGED spoiled
  BY DEF SeekBack
<1> HIDE DEF closed
<1>6. CASE /\ zfiles' = closed
           /\ handles' = [handles EXCEPT ![h] = Rewound(h, 0)]
           /\ spoiled' = spoiled \cup {h}
  <2> DEFINE new == Rewound(h, 0)
  <2>1. new \in HandleType /\ new.file = 0 /\ new.index = handles[h].index
    BY <1>2 DEF Rewound, HandleType
  <2> HIDE DEF new
  <2>2. OnlyTouches(h, new) /\ OwnTracks(h, new)
    BY <1>3, <1>4, <1>6, <2>1 DEF OnlyTouches, OwnTracks
  <2>3. handles' = [handles EXCEPT ![h] = new]
    BY <1>6 DEF new
  <2> QED
    BY <1>1, <1>2, <1>4, <1>6, <2>1, <2>2, <2>3, OneHandleStep
<1>7. ASSUME NEW f \in Fresh, NEW stop \in Stops(0, target, size),
             zfiles' = Fopened(closed, f, handles[h].index, stop),
             handles' = [handles EXCEPT ![h] = [Rewound(h, f) EXCEPT !.position = @ + stop]],
             UNCHANGED spoiled
      PROVE  HandlesInv'
  <2> DEFINE new == [Rewound(h, f) EXCEPT !.position = @ + stop]
             file == [entry |-> handles[h].index, pos |-> stop, open |-> TRUE]
  <2>1. stop \in Int
    BY ZipSizeType, StopsType
  <2>2. IsFresh(f) /\ f \in ZipSlots /\ f # 0 /\ f # old
    BY FreshIsUnused, ZipSlotsArePositive DEF IsFresh
  <2>3. new \in HandleType /\ new.file = f /\ new.index = handles[h].index /\ new.position = stop
    <3>1. new = [[file |-> f, index |-> handles[h].index, position |-> 0] EXCEPT !.position = @ + stop]
      BY DEF Rewound
    <3>2. new = [file |-> f, index |-> handles[h].index, position |-> stop]
      BY <2>1, <3>1
    <3>3. handles[h].index \in Nat
      BY <1>2 DEF HandleType
    <3> QED
      BY <2>1, <2>2, <3>2, <3>3 DEF HandleType
  <2>4. file \in ZipFileType /\ file.open /\ file.entry = handles[h].index /\ file.pos = stop
    BY <1>2, <2>1 DEF ZipFileType, HandleType
  <2>5. zfiles' = [closed EXCEPT ![f] = file]
    BY <1>7 DEF Fopened
  <2>6. handles' = [handles EXCEPT ![h] = new]
    BY <1>7
  <2> HIDE DEF new, file
  <2>7. zfiles' \in [ZipSlots -> ZipFileType] /\ zfiles'[f] = file /\ \A k \in ZipSlots \ {f} : zfiles'[k] = closed[k]
    BY <1>4, <2>2, <2>4, <2>5
  <2>8. OnlyTouches(h, new)
    BY <1>3, <1>4, <2>2, <2>3, <2>7 DEF OnlyTouches
  <2>9. OwnTracks(h, new)
    BY <2>2, <2>3, <2>4, <2>7 DEF OwnTracks
  <2> QED
    BY <1>1, <1>2, <1>7, <2>3, <2>6, <2>7, <2>8, <2>9, OneHandleStep
<1> QED
  BY <1>5, <1>6, <1>7

LEMMA SeekForwardStep ==
  ASSUME HandlesInv, ~fault, NEW h \in ZipHandles, NEW target \in Int, SeekForward(h, target)
  PROVE  HandlesInv'
<1> DEFINE f == handles[h].file
           steps == target - handles[h].position
           size == ZipSize(zfiles[f].entry)
<1>1. IsOpen(h) /\ Usable(h) /\ UNCHANGED <<archive, spoiled, fault>>
  BY DEF SeekForward
<1>2. PICK stop \in Stops(zfiles[f].pos, zfiles[f].pos + steps, size) : Advance(h, stop - zfiles[f].pos)
  BY DEF SeekForward
<1>3. f \in ZipSlots /\ handles[h].position \in Int
  BY <1>1 DEF HandlesInv, HandlesTypeOK, HandleType, Usable
<1>4. zfiles[f].pos \in Int
  BY <1>3 DEF HandlesInv, HandlesTypeOK, ZipFileType
<1>5. steps \in Int /\ size \in Int
  BY <1>3, ZipSizeType
<1> HIDE DEF steps, size
<1>6. zfiles[f].pos + steps \in Int
  BY <1>4, <1>5
<1>7. stop \in Int
  BY <1>4, <1>5, <1>6, StopsType
<1>8. stop - zfiles[f].pos \in Int
  BY <1>4, <1>7
<1> QED
  BY <1>1, <1>2, <1>8, AdvanceStep

\* Where Seek is asked to go
LEMMA TargetType ==
  ASSUME HandlesInv, NEW h \in ZipHandles, NEW offset \in Int, NEW whence \in {"Begin", "Current", "End"}
  PROVE  Target(h, offset, whence) \in Int
<1>1. handles[h].position \in Int
  BY DEF HandlesInv, HandlesTypeOK, HandleType
<1>2. offset + handles[h].position \in Int /\ offset + ZipSize(handles[h].index) \in Int
  BY <1>1, ZipSizeType
<1> QED
  BY <1>2 DEF Target

\* libzip is given a zip_file it should not be given: through a spoiled handle.
LEMMA ZipFaultStep == ASSUME HandlesInv, ~fault, NEW h \in ZipHandles, ZipFault(h) PROVE HandlesInv'
<1>1. IsOpen(h) /\ ~Usable(h) /\ fault' = TRUE /\ UNCHANGED <<archive, zfiles, handles, spoiled>>
  BY DEF ZipFault
<1>2. h \in spoiled
  BY <1>1 DEF HandlesInv, HandleTracksFile
<1> QED
  BY <1>1, <1>2 DEF HandlesInv, HandlesTypeOK, ClosedIsNone, HandleTracksFile, IsOpen, Usable

\* Steps about names and directories
LEMMA HandlesUnchanged ==
  ASSUME HandlesInv, UNCHANGED <<archive, zfiles, handles, spoiled, fault>>
  PROVE  HandlesInv'
  BY DEF HandlesInv, HandlesTypeOK, ClosedIsNone, HandleTracksFile, IsOpen, Usable

LEMMA NextHandlesInv == HandlesInv /\ [ZipNext]_zipVars => HandlesInv'
<1> SUFFICES ASSUME HandlesInv, [ZipNext]_zipVars PROVE HandlesInv'
  OBVIOUS
<1>1. CASE UNCHANGED zipVars
  BY <1>1, HandlesUnchanged DEF zipVars
<1>2. CASE ZipNext
  <2>0. ~fault
    BY <1>2 DEF ZipNext
  <2>1. ASSUME NEW h \in ZipHandles, NEW path \in Paths, ZipOpen(h, path) PROVE HandlesInv'
    BY <2>0, <2>1, ZipOpenStep
  <2>2. ASSUME NEW h \in ZipHandles, NEW n \in 0..EntrySize, ZipRead(h, n) PROVE HandlesInv'
    <3>1. n \in Int
      BY ZipAssumption
    <3> QED
      BY <2>0, <2>2, <3>1, AdvanceStep DEF ZipRead
  <2>3. ASSUME NEW h \in ZipHandles, NEW g \in ZipHandles, ZipDuplicate(h, g) PROVE HandlesInv'
    BY <2>0, <2>3, ZipDuplicateStep
  <2>4. ASSUME NEW h \in ZipHandles, NEW whence \in {"Begin", "Current", "End"}, NEW offset \in -1..EntrySize,
               SeekBack(h, Target(h, offset, whence)) \/ SeekForward(h, Target(h, offset, whence))
        PROVE  HandlesInv'
    <3>1. offset \in Int
      BY ZipAssumption
    <3>2. Target(h, offset, whence) \in Int
      BY <3>1, TargetType
    <3> QED
      BY <2>0, <2>4, <3>2, SeekBackStep, SeekForwardStep
  <2>5. ASSUME NEW h \in ZipHandles, ZipClose(h) \/ ZipFault(h) PROVE HandlesInv'
    BY <2>0, <2>5, ZipCloseStep, ZipFaultStep
  <2>6. ASSUME NEW h \in ZipHandles, FileStat(h) PROVE HandlesInv'
    BY <2>6, HandlesUnchanged DEF FileStat
  <2>7. ASSUME NEW path \in Paths, NEW for,
               ZipLookUp(path, for) \/ ZipChangeDirectory(path) \/ ZipOpenDirectory(path) \/ ZipMisses(path)
        PROVE  HandlesInv'
    BY <2>7, HandlesUnchanged DEF ZipLookUp, ZipChangeDirectory, ZipOpenDirectory, ZipMisses
  <2>8. CASE ZipReadDirectory \/ ZipCloseDirectory
    BY <2>8, HandlesUnchanged DEF ZipReadDirectory, ZipCloseDirectory
  <2>9. ASSUME NEW offset, ZipSeekDirectory(offset) PROVE HandlesInv'
    BY <2>9, HandlesUnchanged DEF ZipSeekDirectory
  <2>10. CASE LookUpEnds \/ LookUpAgain
    BY <2>10, HandlesUnchanged DEF LookUpEnds, LookUpAgain
  <2> QED
    BY <1>2, <2>1, <2>2, <2>3, <2>4, <2>5, <2>6, <2>7, <2>8, <2>9, <2>10 DEF ZipNext
<1> QED
  BY <1>1, <1>2

LEMMA HandlesInvAlways == ZipSpec => []HandlesInv
  BY InitHandlesInv, NextHandlesInv, PTL DEF ZipSpec

\* A handle of ZipFilesystem that was not duplicated, and whose zip_file could be opened
\* again, has a zip_file of its own that stands where the handle says, whatever it read and
\* wherever it sought; no zip_file is left open; and only other handles misuse libzip.
THEOREM HandleTheorem == ZipSpec => []HandleTracksFile
  BY HandlesInvAlways, PTL DEF HandlesInv

-----------------------------------------------------------------------------
(* ZipFilesystem: the inductive invariant of directories                   *)

DirType == [index : Nat, position : Nat, given : Seq(Nat), sought : BOOLEAN, ended : BOOLEAN]

\* What an iteration has still to look at
Ahead == {i \in Inside(zdir.index) : i >= zdir.position}

\* An iteration from the start has given what is inside the directory between the entry of
\* the directory and the position, each entry once.
GivenSoFar ==
  /\ zdir.position > zdir.index
  /\ Range(zdir.given) = {i \in Inside(zdir.index) : zdir.index < i /\ i < zdir.position}
  /\ IsInjective(zdir.given)
  /\ zdir.ended => Ahead = {}

DirInv ==
  /\ archive \in Seq(Seq(STRING)) /\ zdir \in DirType
  /\ zdir # NoDir /\ ~zdir.sought => GivenSoFar
-----------------------------------------------------------------------------
(* ZipFilesystem: the steps of directories                                 *)

\* Another item at the end of a sequence
LEMMA AppendRange ==
  ASSUME NEW s \in Seq(Nat), NEW m \in Nat
  PROVE  /\ Append(s, m) \in Seq(Nat)
         /\ Range(Append(s, m)) = Range(s) \cup {m}
         /\ IsInjective(s) /\ m \notin Range(s) => IsInjective(Append(s, m))
<1> DEFINE t == Append(s, m)
<1>1. /\ Len(s) \in Nat /\ DOMAIN s = 1 .. Len(s) /\ DOMAIN t = 1 .. Len(s) + 1
      /\ t[Len(s) + 1] = m /\ (\A k \in 1 .. Len(s) : t[k] = s[k]) /\ t \in Seq(Nat)
  OBVIOUS
<1> HIDE DEF t
<1>2. \A k \in 1 .. Len(s) + 1 : k \in 1 .. Len(s) \/ k = Len(s) + 1
  BY <1>1
<1>3. 1 .. Len(s) \subseteq 1 .. Len(s) + 1 /\ Len(s) + 1 \in 1 .. Len(s) + 1
  BY <1>1
<1>4. Range(t) = Range(s) \cup {m}
  BY <1>1, <1>2, <1>3 DEF Range
<1>5. IsInjective(s) /\ m \notin Range(s) => IsInjective(t)
  BY <1>1, <1>2, <1>3 DEF Range, IsInjective
<1> QED
  BY <1>1, <1>4, <1>5 DEF t

LEMMA InsideType == ASSUME archive \in Seq(Seq(STRING)), NEW index PROVE Inside(index) \subseteq 1 .. Len(archive) /\ Len(archive) \in Nat
  BY DEF Inside

LEMMA InitDirInv == ZipInit => DirInv
<1> SUFFICES ASSUME ZipInit PROVE DirInv
  OBVIOUS
<1>1. NoDir \in DirType
  BY DEF NoDir, DirType
<1> QED
  BY <1>1, ZipAssumption DEF ZipInit, DirInv

LEMMA OpenDirectoryStep == ASSUME DirInv, NEW path \in Paths, ZipOpenDirectory(path) PROVE DirInv'
<1>1. PICK name : /\ Locate(name) > 0
                  /\ zdir' = [index |-> Locate(name), position |-> FirstPosition(Locate(name)), given |-> << >>, sought |-> FALSE, ended |-> FALSE]
  BY DEF ZipOpenDirectory
<1> DEFINE index == Locate(name)
<1>2. index \in Nat /\ archive' = archive /\ archive \in Seq(Seq(STRING))
  BY LocateType DEF DirInv, ZipOpenDirectory
<1>3. << >> \in Seq(Nat) /\ FirstPosition(index) = index + 1
  BY DEF FirstPosition
<1> HIDE DEF index
<1>4. zdir' = [index |-> index, position |-> index + 1, given |-> << >>, sought |-> FALSE, ended |-> FALSE]
  BY <1>1, <1>3 DEF index
<1>5. zdir' \in DirType
  BY <1>2, <1>3, <1>4 DEF DirType
<1>6. zdir'.index = index /\ zdir'.position = index + 1 /\ zdir'.given = << >> /\ zdir'.ended = FALSE
  BY <1>4
<1>7. Range(<< >>) = {} /\ IsInjective(<< >>)
  BY DEF Range, IsInjective
<1>8. \A i \in Inside(zdir.index)' : ~(index < i /\ i < index + 1)
  BY <1>2 DEF Inside
<1>9. GivenSoFar'
  BY <1>2, <1>6, <1>7, <1>8 DEF GivenSoFar
<1> QED
  BY <1>2, <1>5, <1>9 DEF DirInv

LEMMA ReadDirectoryStep == ASSUME DirInv, ZipReadDirectory PROVE DirInv'
<1> DEFINE here == Inside(zdir.index)
<1>1. /\ zdir # NoDir /\ archive' = archive /\ archive \in Seq(Seq(STRING)) /\ zdir \in DirType
      /\ IF Ahead = {} THEN zdir' = [zdir EXCEPT !.position = IF @ > Len(archive) THEN @ ELSE Len(archive) + 1, !.ended = TRUE]
         ELSE zdir' = [zdir EXCEPT !.position = Min(Ahead) + 1, !.given = Append(@, Min(Ahead))]
  BY DEF ZipReadDirectory, DirInv, Ahead
<1>2. here \subseteq 1 .. Len(archive) /\ Len(archive) \in Nat
  BY <1>1, InsideType
<1>3. zdir.position \in Nat /\ zdir.index \in Nat /\ zdir.given \in Seq(Nat)
  BY <1>1 DEF DirType
<1>4. Ahead = {i \in here : i >= zdir.position}
  BY DEF Ahead
<1>5. ASSUME zdir'.index = zdir.index PROVE Inside(zdir.index)' = here
  BY <1>1, <1>5 DEF Inside
<1> HIDE DEF here
<1>6. CASE Ahead = {}
  <2> DEFINE to == IF zdir.position > Len(archive) THEN zdir.position ELSE Len(archive) + 1
  <2>1. zdir' = [zdir EXCEPT !.position = to, !.ended = TRUE] /\ to \in Nat
    BY <1>1, <1>2, <1>3, <1>6
  <2>2. to > Len(archive) /\ to >= zdir.position
    BY <1>2, <1>3
  <2> HIDE DEF to
  <2>3. zdir' \in DirType /\ zdir'.index = zdir.index /\ zdir'.position = to /\ zdir'.given = zdir.given /\ zdir'.sought = zdir.sought
    BY <1>1, <2>1 DEF DirType
  <2>4. Ahead' = {}
    BY <1>2, <1>5, <2>1, <2>2, <2>3 DEF Ahead
  <2>5. ASSUME GivenSoFar PROVE GivenSoFar'
    <3>1. \A i \in here : i < zdir.position /\ i < to
      BY <1>2, <1>3, <1>4, <1>6, <2>1, <2>2
    <3>2. {i \in here : zdir.index < i /\ i < to} = {i \in here : zdir.index < i /\ i < zdir.position}
      BY <3>1
    <3>3. to > zdir.index
      BY <1>3, <2>1, <2>2, <2>5 DEF GivenSoFar
    <3> QED
      BY <1>5, <2>3, <2>4, <2>5, <3>2, <3>3 DEF GivenSoFar, here
  <2> QED
    BY <1>1, <2>3, <2>5 DEF DirInv
<1>7. CASE Ahead # {}
  <2> DEFINE m == Min(Ahead)
  <2>1. m \in Ahead /\ \A i \in Ahead : m <= i
    <3>1. Ahead \subseteq Nat
      <4>1. 1 .. Len(archive) \subseteq Nat
        BY <1>2
      <4> QED
        BY <1>2, <1>4, <4>1, Zenon
    <3> QED
      BY <1>7, <3>1, LeastOfSet
  <2>2. zdir' = [zdir EXCEPT !.position = m + 1, !.given = Append(@, m)]
    BY <1>1, <1>7
  <2> HIDE DEF m
  <2>3. m \in here /\ m \in Nat /\ m >= zdir.position
    BY <1>2, <1>4, <2>1
  <2>4. Append(zdir.given, m) \in Seq(Nat)
    BY <1>3, <2>3, AppendRange
  <2>5. /\ zdir' \in DirType /\ zdir'.index = zdir.index /\ zdir'.position = m + 1
        /\ zdir'.given = Append(zdir.given, m) /\ zdir'.sought = zdir.sought /\ zdir'.ended = zdir.ended
    <3> DEFINE next == m + 1
               longer == Append(zdir.given, m)
    <3>1. next \in Nat /\ longer \in Seq(Nat) /\ zdir' = [zdir EXCEPT !.position = next, !.given = longer]
      BY <2>2, <2>3, <2>4
    <3>2. next = m + 1 /\ longer = Append(zdir.given, m)
      OBVIOUS
    <3> HIDE DEF next, longer
    <3>3. /\ zdir' \in DirType /\ zdir'.index = zdir.index /\ zdir'.position = next /\ zdir'.given = longer
          /\ zdir'.sought = zdir.sought /\ zdir'.ended = zdir.ended
      BY <1>1, <3>1 DEF DirType
    <3> QED
      BY <3>2, <3>3
  <2>6. ASSUME GivenSoFar PROVE GivenSoFar'
    <3>1. zdir.position > zdir.index /\ IsInjective(zdir.given)
      BY <2>6 DEF GivenSoFar
    <3>2. Range(zdir.given) = {i \in here : zdir.index < i /\ i < zdir.position}
      BY <2>6 DEF GivenSoFar, here
    <3>3. m > zdir.index /\ m \notin Range(zdir.given)
      BY <1>3, <2>3, <3>1, <3>2
    <3>4. {i \in here : zdir.index < i /\ i < m + 1} = Range(zdir.given) \cup {m}
      <4>1. \A i \in here : i < m + 1 <=> i < zdir.position \/ i = m
        BY <1>2, <1>3, <1>4, <2>1, <2>3
      <4> QED
        BY <2>3, <3>2, <3>3, <4>1
    <3>5. IsInjective(zdir'.given) /\ Range(zdir'.given) = Range(zdir.given) \cup {m}
      BY <1>3, <2>3, <2>5, <3>1, <3>3, AppendRange
    <3>6. m + 1 > zdir.index
      BY <1>3, <2>3, <3>3
    <3>7. ~zdir.ended
      BY <1>7, <2>6 DEF GivenSoFar
    <3> QED
      BY <1>5, <2>5, <3>4, <3>5, <3>6, <3>7 DEF GivenSoFar
  <2> QED
    BY <1>1, <2>5, <2>6 DEF DirInv
<1> QED
  BY <1>6, <1>7

LEMMA DirUnchanged == ASSUME DirInv, UNCHANGED <<archive, zdir>> PROVE DirInv'
  BY DEF DirInv, GivenSoFar, Ahead, Inside

LEMMA NextDirInv == DirInv /\ [ZipNext]_zipVars => DirInv'
<1> SUFFICES ASSUME DirInv, [ZipNext]_zipVars PROVE DirInv'
  OBVIOUS
<1>1. CASE UNCHANGED zipVars
  BY <1>1, DirUnchanged DEF zipVars
<1>2. CASE ZipNext
  <2>1. ASSUME NEW h \in ZipHandles, NEW path \in Paths, ZipOpen(h, path) PROVE DirInv'
    BY <2>1, DirUnchanged DEF ZipOpen
  <2>2. ASSUME NEW h \in ZipHandles, NEW n, ZipRead(h, n) PROVE DirInv'
    BY <2>2, DirUnchanged DEF ZipRead
  <2>3. ASSUME NEW h \in ZipHandles, NEW g \in ZipHandles, ZipDuplicate(h, g) PROVE DirInv'
    BY <2>3, DirUnchanged DEF ZipDuplicate
  <2>4. ASSUME NEW h \in ZipHandles, NEW target, SeekBack(h, target) \/ SeekForward(h, target) PROVE DirInv'
    BY <2>4, DirUnchanged DEF SeekBack, SeekForward
  <2>5. ASSUME NEW h \in ZipHandles, ZipClose(h) \/ ZipFault(h) \/ FileStat(h) PROVE DirInv'
    BY <2>5, DirUnchanged DEF ZipClose, ZipFault, FileStat
  <2>6. ASSUME NEW path \in Paths, NEW for, ZipLookUp(path, for) \/ ZipChangeDirectory(path) \/ ZipMisses(path) PROVE DirInv'
    BY <2>6, DirUnchanged DEF ZipLookUp, ZipChangeDirectory, ZipMisses
  <2>7. ASSUME NEW path \in Paths, ZipOpenDirectory(path) PROVE DirInv'
    BY <2>7, OpenDirectoryStep
  <2>8. CASE ZipReadDirectory
    BY <2>8, ReadDirectoryStep
  <2>9. CASE ZipCloseDirectory
    <3>1. zdir' = NoDir /\ archive' = archive /\ NoDir \in DirType
      BY <2>9 DEF ZipCloseDirectory, NoDir, DirType
    <3> QED
      BY <3>1 DEF DirInv, NoDir
  <2>10. ASSUME NEW offset \in 1..Len(archive) + 1, ZipSeekDirectory(offset) PROVE DirInv'
    <3>1. /\ zdir' = [zdir EXCEPT !.position = offset, !.given = << >>, !.sought = TRUE, !.ended = FALSE]
          /\ archive' = archive /\ zdir \in DirType /\ offset \in Nat /\ << >> \in Seq(Nat)
      BY <2>10 DEF ZipSeekDirectory, DirInv
    <3>2. zdir' \in DirType /\ zdir'.sought
      BY <3>1 DEF DirType
    <3> QED
      BY <3>1, <3>2 DEF DirInv
  <2>11. CASE LookUpEnds \/ LookUpAgain
    BY <2>11, DirUnchanged DEF LookUpEnds, LookUpAgain
  <2> QED
    BY <1>2, <2>1, <2>2, <2>3, <2>4, <2>5, <2>6, <2>7, <2>8, <2>9, <2>10, <2>11 DEF ZipNext
<1> QED
  BY <1>1, <1>2

\* Of an archive that stores a directory before its contents, ReadDirectory gives every
\* entry below the directory once, and not the directory, however deep and wherever they are.
THEOREM ListTheorem == ZipSpec => []ListsWhatIsBelow
<1>1. ZipSpec => []DirInv
  BY InitDirInv, NextDirInv, PTL DEF ZipSpec
<1>2. DirInv => ListsWhatIsBelow
  <2> SUFFICES ASSUME DirInv, zdir # NoDir, zdir.ended, ~zdir.sought, \A i \in Inside(zdir.index) : i >= zdir.index
               PROVE  /\ Range(zdir.given) = Inside(zdir.index) \ {zdir.index}
                      /\ IsInjective(zdir.given)
    BY DEF ListsWhatIsBelow
  <2>1. GivenSoFar /\ Ahead = {} /\ zdir.index \in Nat /\ zdir.position \in Nat
    BY DEF DirInv, GivenSoFar, DirType
  <2>2. \A i \in Inside(zdir.index) : i \in Nat
    BY InsideType DEF DirInv
  <2>3. \A i \in Inside(zdir.index) : i < zdir.position
    BY <2>1, <2>2 DEF Ahead
  <2>4. \A i \in Inside(zdir.index) : zdir.index < i <=> i # zdir.index
    BY <2>1, <2>2
  <2> QED
    BY <2>1, <2>3, <2>4 DEF GivenSoFar
<1> QED
  BY <1>1, <1>2, PTL

-----------------------------------------------------------------------------
(* ZipFilesystem: names                                                    *)

CwdType == [text : Seq(STRING), length : Nat]

\* Handles are of entries; what Stat and FileStat gave is the name of an entry, as it is
\* seen from the current directory.
NameInv ==
  /\ archive \in Seq(Seq(STRING)) /\ IsInjective(archive) /\ zcwd \in CwdType
  /\ \A h \in ZipHandles : handles[h].index \in 0 .. Len(archive)
  /\ named # NoName =>
       /\ named.index \in 1 .. Len(archive)
       /\ named.as = LeafOf(TransformPathReverse(zcwd, archive[named.index]))

\* Cutting a directory and a separator off a name is undone by joining them.
LEMMA CutAndJoin ==
  ASSUME NEW S, "/" \in S, NEW folder, folder.text \in Seq(S), NEW full \in Seq(S), Len(folder.text) = folder.length, folder.length > 0,
         IsPrefix(folder.text \o <<"/">>, full)
  PROVE  LET rest == TransformPathReverse(folder, full)
         IN  /\ full = folder.text \o <<"/">> \o rest
             /\ rest \in Seq(S) /\ Len(rest) = Len(full) - (folder.length + 1) /\ Len(full) >= folder.length + 1
             /\ full[folder.length + 1] = "/"
             /\ \A k \in 1 .. Len(rest) : rest[k] = full[k + folder.length + 1]
<1> DEFINE n == folder.length
           p == folder.text \o <<"/">>
           rest == SubSeq(full, n + 2, Len(full))
<1>1. folder.text \in Seq(S) /\ n \in Nat /\ n > 0 /\ Len(folder.text) = n
  OBVIOUS
<1>2. p \in Seq(S) /\ Len(p) = n + 1
  <2>1. <<"/">> \in Seq(S) /\ Len(<<"/">>) = 1
    OBVIOUS
  <2> DEFINE separator == <<"/">>
  <2> HIDE DEF separator
  <2>2. folder.text \o separator \in Seq(S) /\ Len(folder.text \o separator) = n + 1
    BY <1>1, <2>1, ConcatProperties DEF separator
  <2> QED
    BY <2>2 DEF separator
<1>3. Len(full) \in Nat /\ n + 1 <= Len(full) /\ SubSeq(p, 1, n + 1) = SubSeq(full, 1, n + 1)
  BY <1>2 DEF IsPrefix
<1>0. p[n + 1] = "/"
  BY <1>1
<1> HIDE DEF n, p
<1>4. \A k \in 1 .. n + 1 : p[k] = full[k]
  <2> SUFFICES ASSUME NEW k \in 1 .. n + 1 PROVE p[k] = full[k]
    OBVIOUS
  <2>1. SubSeq(p, 1, n + 1)[k] = p[k]
    BY <1>1, <1>2
  <2>2. SubSeq(full, 1, n + 1)[k] = full[k]
    BY <1>1, <1>3
  <2> QED
    BY <1>3, <2>1, <2>2
<1>5. SubSeq(full, 1, n) = SubSeq(p, 1, n)
  BY <1>1, <1>2, <1>3, <1>4
<1>6. TransformPathReverse(folder, full) = rest
  <2> DEFINE prefix(text) == SubSeq(text, 1, IF Len(text) < n THEN Len(text) ELSE n)
  <2>1. prefix(full) = prefix(p)
    BY <1>1, <1>2, <1>3, <1>5
  <2>2. TransformPathReverse(folder, full) = IF n > 0 /\ prefix(full) = prefix(p) THEN SubSeq(full, (n + 1) + 1, Len(full)) ELSE full
    BY DEF TransformPathReverse, CutAt, n, p
  <2>3. (n + 1) + 1 = n + 2
    BY <1>1
  <2> HIDE DEF prefix
  <2> QED
    BY <1>1, <2>1, <2>2, <2>3
<1>7. /\ rest \in Seq(S) /\ Len(rest) = Len(full) - (n + 1)
      /\ \A k \in 1 .. Len(rest) : rest[k] = full[k + n + 1]
  BY <1>1, <1>3
<1> HIDE DEF rest
<1>8. full = p \o rest
  <2>1. p \o rest \in Seq(S) /\ Len(p \o rest) = Len(full)
    <3>1. p \o rest \in Seq(S) /\ Len(p \o rest) = Len(p) + Len(rest)
      BY <1>2, <1>7, ConcatProperties
    <3> QED
      BY <1>1, <1>2, <1>3, <1>7, <3>1
  <2>2. ASSUME NEW k \in 1 .. Len(full) PROVE (p \o rest)[k] = full[k]
    <3>1. CASE k <= n + 1
      <4>1. k \in 1 .. Len(p) /\ k \in 1 .. n + 1 /\ k \in 1 .. Len(p) + Len(rest)
        BY <1>1, <1>2, <1>3, <1>7, <3>1
      <4>2. (p \o rest)[k] = p[k]
        BY <1>2, <1>7, <4>1, ConcatProperties
      <4> QED
        BY <1>4, <4>1, <4>2
    <3>2. CASE k > n + 1
      <4> DEFINE j == k - (n + 1)
      <4>1. j \in 1 .. Len(rest) /\ (p \o rest)[k] = rest[j]
        <5>1. k \in 1 .. Len(p) + Len(rest) /\ ~(k <= Len(p)) /\ k - Len(p) = k - (n + 1) /\ k - (n + 1) \in 1 .. Len(rest)
          BY <1>1, <1>2, <1>3, <1>7, <3>2
        <5> QED
          BY <1>2, <1>7, <5>1, ConcatProperties
      <4>2. j + n + 1 = k
        BY <1>1
      <4> HIDE DEF j
      <4>3. rest[j] = full[j + n + 1]
        BY <1>7, <4>1, Zenon
      <4> QED
        BY <4>1, <4>2, <4>3, Zenon
    <3>3. k <= n + 1 \/ k > n + 1
      BY <1>1, <1>3
    <3> QED
      BY <3>1, <3>2, <3>3, Zenon
  <2> QED
    BY <2>1, <2>2, SeqEqual
<1>9. full[n + 1] = "/"
  BY <1>0, <1>1, <1>4
<1> QED
  BY <1>1, <1>3, <1>6, <1>7, <1>8, <1>9 DEF p, n

\* The current directory as a FilePath made from it leaves it
LEMMA TouchedType == ASSUME zcwd \in CwdType PROVE Touched \in CwdType
<1>1. zcwd.text \in Seq(STRING) /\ zcwd.length \in Nat
  BY DEF CwdType
<1>2. WithoutLeaf(zcwd) \in Seq(STRING)
  <2>1. \A S : \A text \in Seq(S) : Len(text) > 1 => Front(text) \in Seq(S)
    BY DEF Front
  <2>2. Len(zcwd.text) > 1 => Front(zcwd.text) \in Seq(STRING)
    BY <1>1, <2>1, Zenon
  <2> QED
    BY <1>1, <2>2, Zenon DEF WithoutLeaf
<1> DEFINE text == WithoutLeaf(zcwd)
<1>3. Touched = [zcwd EXCEPT !.text = text]
  BY DEF Touched
<1> HIDE DEF text
<1> QED
  BY <1>2, <1>3 DEF CwdType, text

\* zip_name_locate finds an entry by its name.
LEMMA LocateFinds ==
  ASSUME archive \in Seq(Seq(STRING)), IsInjective(archive), NEW i \in 1 .. Len(archive)
  PROVE  Locate(archive[i]) = i
<1>1. DOMAIN archive = 1 .. Len(archive)
  OBVIOUS
<1>2. archive[i] \in Range(archive)
  BY <1>1 DEF Range
<1>3. \A k \in DOMAIN archive : archive[k] = archive[i] => k = i
  BY <1>1 DEF IsInjective
<1> QED
  BY <1>1, <1>2, <1>3 DEF Locate

LEMMA InitNameInv == ZipInit => NameInv
<1> SUFFICES ASSUME ZipInit PROVE NameInv
  OBVIOUS
<1>1. zcwd \in CwdType
  <2>1. << >> \in Seq(STRING)
    OBVIOUS
  <2> QED
    BY <2>1 DEF ZipInit, CwdType
<1>2. archive \in Seq(Seq(STRING)) /\ Len(archive) \in Nat /\ IsInjective(archive)
  BY ZipAssumption DEF ZipInit
<1>3. \A h \in ZipHandles : handles[h].index \in 0 .. Len(archive)
  BY <1>2 DEF ZipInit, NoHandle
<1> QED
  BY <1>1, <1>2, <1>3 DEF ZipInit, NameInv

\* The entries that handles are of
LEMMA HandleIndexes ==
  ASSUME HandlesInv, NameInv, NEW h \in ZipHandles, NEW new, handles' = [handles EXCEPT ![h] = new],
         archive' = archive, new.index \in 0 .. Len(archive)
  PROVE  \A g \in ZipHandles : handles'[g].index \in 0 .. Len(archive')
<1>1. \A g \in ZipHandles : handles'[g] = IF g = h THEN new ELSE handles[g]
  BY DEF HandlesInv, HandlesTypeOK
<1> QED
  BY <1>1 DEF NameInv

\* A step that names nothing
LEMMA Unnamed ==
  ASSUME NameInv, archive' = archive, named' = NoName, zcwd' \in CwdType,
         \A g \in ZipHandles : handles'[g].index \in 0 .. Len(archive')
  PROVE  NameInv'
  BY DEF NameInv

LEMMA ReindexStep ==
  ASSUME HandlesInv, NameInv, NEW h \in ZipHandles,
         \/ \E path \in Paths : ZipOpen(h, path)
         \/ \E n \in 0..EntrySize : ZipRead(h, n)
         \/ \E g \in ZipHandles : ZipDuplicate(h, g)
         \/ \E target : SeekBack(h, target) \/ SeekForward(h, target)
         \/ ZipClose(h)
  PROVE  NameInv'
<1>1. /\ archive \in Seq(Seq(STRING)) /\ Len(archive) \in Nat /\ zcwd \in CwdType
      /\ handles[h] \in HandleType /\ handles[h].index \in 0 .. Len(archive)
  BY DEF HandlesInv, HandlesTypeOK, NameInv
<1>2. ASSUME NEW path \in Paths, ZipOpen(h, path) PROVE NameInv'
  <2> DEFINE index == Locate(TransformPath(path))
  <2>1. index \in 0 .. Len(archive)
    BY <1>1, LocateType
  <2>2. PICK f \in Fresh : handles' = [handles EXCEPT ![h] = [file |-> f, index |-> index, position |-> 0]]
    BY <1>2 DEF ZipOpen
  <2> HIDE DEF index
  <2> DEFINE new == [file |-> f, index |-> index, position |-> 0]
  <2>3. handles' = [handles EXCEPT ![h] = new] /\ new.index = index
    BY <2>2
  <2> HIDE DEF new
  <2>4. archive' = archive /\ named' = NoName /\ zcwd' \in CwdType
    BY <1>1, <1>2, TouchedType DEF ZipOpen
  <2>5. \A g \in ZipHandles : handles'[g].index \in 0 .. Len(archive')
    BY <2>1, <2>3, <2>4, HandleIndexes
  <2> QED
    BY <2>4, <2>5, Unnamed
<1>3. ASSUME NEW n, Advance(h, n), archive' = archive, named' = NoName, zcwd' = zcwd PROVE NameInv'
  <2>1. PICK got : handles' = [handles EXCEPT ![h].position = @ + got]
    BY <1>3 DEF Advance
  <2> DEFINE new == [handles[h] EXCEPT !.position = @ + got]
  <2>2. handles' = [handles EXCEPT ![h] = new]
    BY <2>1
  <2>3. new.index = handles[h].index
    BY <1>1 DEF HandleType
  <2> HIDE DEF new
  <2>4. \A g \in ZipHandles : handles'[g].index \in 0 .. Len(archive')
    BY <1>1, <1>3, <2>2, <2>3, HandleIndexes
  <2> QED
    BY <1>1, <1>3, <2>4, Unnamed
<1>4. ASSUME NEW g \in ZipHandles, ZipDuplicate(h, g) PROVE NameInv'
  <2> DEFINE new == [handles[h] EXCEPT !.position = 0]
  <2>1. handles' = [handles EXCEPT ![g] = new] /\ archive' = archive /\ named' = NoName /\ zcwd' = zcwd
    BY <1>4 DEF ZipDuplicate
  <2>2. new.index = handles[h].index
    BY <1>1 DEF HandleType
  <2> HIDE DEF new
  <2>3. \A k \in ZipHandles : handles'[k].index \in 0 .. Len(archive')
    BY <1>1, <2>1, <2>2, HandleIndexes
  <2> QED
    BY <1>1, <2>1, <2>3, Unnamed
<1>5. ASSUME NEW target, SeekBack(h, target) PROVE NameInv'
  <2>1. archive' = archive /\ named' = NoName /\ zcwd' = zcwd
    BY <1>5 DEF SeekBack
  <2>2. PICK f, stop : \/ handles' = [handles EXCEPT ![h] = Rewound(h, f)]
                       \/ handles' = [handles EXCEPT ![h] = [Rewound(h, f) EXCEPT !.position = @ + stop]]
    BY <1>5 DEF SeekBack
  <2> DEFINE one == Rewound(h, f)
             two == [Rewound(h, f) EXCEPT !.position = @ + stop]
  <2>3. one.index = handles[h].index /\ two.index = handles[h].index
    BY DEF Rewound
  <2>4. handles' = [handles EXCEPT ![h] = one] \/ handles' = [handles EXCEPT ![h] = two]
    BY <2>2
  <2> HIDE DEF one, two
  <2>5. \A g \in ZipHandles : handles'[g].index \in 0 .. Len(archive')
    BY <1>1, <2>1, <2>3, <2>4, HandleIndexes
  <2> QED
    BY <1>1, <2>1, <2>5, Unnamed
<1>6. CASE ZipClose(h)
  <2>1. handles' = [handles EXCEPT ![h] = NoHandle] /\ archive' = archive /\ named' = NoName /\ zcwd' = zcwd
    BY <1>6 DEF ZipClose
  <2>2. NoHandle.index \in 0 .. Len(archive)
    BY <1>1 DEF NoHandle
  <2>3. \A g \in ZipHandles : handles'[g].index \in 0 .. Len(archive')
    BY <2>1, <2>2, HandleIndexes
  <2> QED
    BY <1>1, <2>1, <2>3, Unnamed
<1>7. ASSUME NEW n \in 0..EntrySize, ZipRead(h, n) PROVE NameInv'
  BY <1>3, <1>7 DEF ZipRead
<1>8. ASSUME NEW target, SeekForward(h, target) PROVE NameInv'
  <2>1. PICK n : Advance(h, n)
    BY <1>8 DEF SeekForward
  <2> QED
    BY <1>3, <1>8, <2>1 DEF SeekForward
<1> QED
  BY <1>2, <1>4, <1>5, <1>6, <1>7, <1>8

\* Stat and FileStat
LEMMA NamedStep ==
  ASSUME NameInv, NEW index \in 1 .. Len(archive), named' = Named(zcwd', index),
         zcwd' \in CwdType, UNCHANGED <<archive, handles>>
  PROVE  NameInv'
<1>1. named'.index = index /\ named'.as = LeafOf(TransformPathReverse(zcwd', archive[index]))
  BY DEF Named
<1> QED
  BY <1>1 DEF NameInv

LEMMA NextNameInv == HandlesInv /\ NameInv /\ [ZipNext]_zipVars => NameInv'
<1> SUFFICES ASSUME HandlesInv, NameInv, [ZipNext]_zipVars PROVE NameInv'
  OBVIOUS
<1>0. archive \in Seq(Seq(STRING)) /\ zcwd \in CwdType /\ Len(archive) \in Nat
  BY DEF NameInv
<1>1. CASE UNCHANGED zipVars
  BY <1>1 DEF zipVars, NameInv
<1>2. CASE ZipNext
  <2>1. ASSUME NEW h \in ZipHandles,
               \/ \E path \in Paths : ZipOpen(h, path)
               \/ \E n \in 0..EntrySize : ZipRead(h, n)
               \/ \E g \in ZipHandles : ZipDuplicate(h, g)
               \/ \E target : SeekBack(h, target) \/ SeekForward(h, target)
               \/ ZipClose(h)
        PROVE  NameInv'
    BY <2>1, ReindexStep
  <2>2. ASSUME NEW h \in ZipHandles, ZipFault(h) PROVE NameInv'
    BY <2>2 DEF ZipFault, NameInv
  <2>3. ASSUME NEW h \in ZipHandles, FileStat(h) PROVE NameInv'
    <3>1. handles[h].index \in 1 .. Len(archive)
      BY <1>0, <2>3 DEF FileStat, IsOpen, NameInv
    <3> QED
      BY <1>0, <2>3, <3>1, NamedStep DEF FileStat
  <2>4. CASE LookUpEnds
    <3>1. /\ zcwd' = Touched /\ UNCHANGED <<archive, handles>>
          /\ named' = IF EntrySought > 0 /\ lookup.for = "Stat" THEN Named(Touched, EntrySought) ELSE NoName
      BY <2>4 DEF LookUpEnds
    <3>2. zcwd' \in CwdType
      BY <1>0, <3>1, TouchedType
    <3>3. CASE EntrySought > 0 /\ lookup.for = "Stat"
      <4>1. EntrySought \in 1 .. Len(archive)
        BY <1>0, <3>3, LocateType DEF EntrySought
      <4> QED
        BY <3>1, <3>2, <3>3, <4>1, NamedStep
    <3>4. CASE named' = NoName
      BY <3>1, <3>2, <3>4, Unnamed DEF NameInv
    <3> QED
      BY <3>1, <3>3, <3>4
  <2>5. ASSUME NEW path \in Paths, ZipChangeDirectory(path) PROVE NameInv'
    <3>1. path \in Seq(STRING) /\ Len(path) \in Nat
      BY ZipAssumption
    <3>2. [text |-> path, length |-> Len(path)] \in CwdType
      BY <3>1 DEF CwdType
    <3> QED
      BY <2>5, <3>2, Unnamed DEF ZipChangeDirectory, NameInv
  <2>6. ASSUME NEW path \in Paths, ZipOpenDirectory(path) \/ ZipMisses(path) PROVE NameInv'
    BY <1>0, <2>6, TouchedType, Unnamed DEF ZipOpenDirectory, ZipMisses, NameInv
  <2>10. CASE LookUpAgain
    BY <1>0, <2>10, TouchedType, Unnamed DEF LookUpAgain, NameInv
  <2>9. ASSUME NEW path \in Paths, NEW for, ZipLookUp(path, for) PROVE NameInv'
    BY <1>0, <2>9, Unnamed DEF ZipLookUp, NameInv
  <2>7. CASE ZipReadDirectory \/ ZipCloseDirectory
    BY <1>0, <2>7, Unnamed DEF ZipReadDirectory, ZipCloseDirectory, NameInv
  <2>8. ASSUME NEW offset, ZipSeekDirectory(offset) PROVE NameInv'
    BY <1>0, <2>8, Unnamed DEF ZipSeekDirectory, NameInv
  <2> QED
    BY <1>2, <2>1, <2>2, <2>3, <2>4, <2>5, <2>6, <2>7, <2>8, <2>9, <2>10 DEF ZipNext
<1> QED
  BY <1>1, <1>2

\* What FilePath makes of a string
LEMMA LeafGives ==
  ASSUME NEW S, NEW path \in Seq(S)
  PROVE  LeafOf(path) = IF Len(path) > 1 /\ path[Len(path)] = "/" THEN SubSeq(path, 1, Len(path) - 1) ELSE path
  BY DEF LeafOf, WithoutLeaf, Front, Last

SingleSeparators(name) == \A i \in 2 .. Len(name) : name[i] = "/" => name[i - 1] # "/"

\* The separator at the end of a directory's name goes, and comes back.
LEMMA LeafAndSeparator ==
  ASSUME NEW S, NEW name \in Seq(S), Len(name) > 0, SingleSeparators(name)
  PROVE  LET leaf == LeafOf(name)
         IN  /\ leaf \in Seq(S) /\ Len(leaf) > 0 /\ leaf[1] = name[1] /\ LeafOf(leaf) = leaf
             /\ IF name[Len(name)] = "/" THEN WithSeparator(leaf) = name ELSE leaf = name
             /\ Len(name) > 1 /\ name[Len(name)] = "/" => name = Append(leaf, "/") /\ leaf[Len(leaf)] # "/"
<1> DEFINE leaf == LeafOf(name)
           n == Len(name)
<1>1. n \in Nat /\ n > 0
  OBVIOUS
<1>2. CASE n > 1 /\ name[n] = "/"
  <2>1. leaf = SubSeq(name, 1, n - 1)
    BY <1>2, LeafGives
  <2> HIDE DEF leaf
  <2>2. leaf \in Seq(S) /\ Len(leaf) = n - 1 /\ \A k \in 1 .. n - 1 : leaf[k] = name[k]
    BY <1>1, <1>2, <2>1
  <2>3. leaf[n - 1] # "/"
    BY <1>1, <1>2, <2>2 DEF SingleSeparators
  <2>4. LeafOf(leaf) = leaf
    BY <1>1, <2>2, <2>3, LeafGives
  <2>5. name = Append(leaf, "/")
    <3>1. "/" \in S
      BY <1>1, <1>2
    <3>2. Append(leaf, "/") \in Seq(S) /\ Len(Append(leaf, "/")) = n
      BY <1>1, <2>2, <3>1
    <3>3. \A k \in 1 .. n : Append(leaf, "/")[k] = name[k]
      BY <1>1, <1>2, <2>2
    <3> QED
      BY <3>2, <3>3, SeqEqual
  <2>6. WithSeparator(leaf) = name
    BY <1>1, <1>2, <2>2, <2>3, <2>5 DEF WithSeparator, Last
  <2> QED
    BY <1>1, <1>2, <2>2, <2>3, <2>4, <2>5, <2>6 DEF leaf
<1>3. CASE ~(n > 1 /\ name[n] = "/")
  <2>1. leaf = name
    BY <1>3, LeafGives
  <2>2. name[n] = "/" => WithSeparator(name) = name
    BY DEF WithSeparator, Last
  <2> QED
    BY <1>1, <1>3, <2>1, <2>2
<1> QED
  BY <1>2, <1>3

\* From a current directory that stays as it is, the name that an entry in it has there
\* leads back.
LEMMA RoundTrip ==
  ASSUME NEW S, "/" \in S, zcwd.text \in Seq(S), NEW full \in Seq(S), Len(zcwd.text) = zcwd.length, zcwd.length > 0,
         Last(zcwd.text) # "/", IsPrefix(zcwd.text \o <<"/">>, full), SingleSeparators(full)
  PROVE  LET back == TransformPath(LeafOf(TransformPathReverse(zcwd, full)))
         IN  IF full[Len(full)] = "/" THEN WithSeparator(back) = full ELSE back = full
<1> DEFINE text == zcwd.text
           n == zcwd.length
           p == text \o <<"/">>
           rest == TransformPathReverse(zcwd, full)
           leaf == LeafOf(rest)
           back == TransformPath(leaf)
<1>1. /\ full = p \o rest /\ rest \in Seq(S) /\ Len(rest) = Len(full) - (n + 1) /\ Len(full) >= n + 1
      /\ full[n + 1] = "/" /\ \A k \in 1 .. Len(rest) : rest[k] = full[k + n + 1]
  BY CutAndJoin
<1>2. n \in Nat /\ Len(full) \in Nat /\ p \in Seq(S) /\ text \in Seq(S)
  OBVIOUS
<1>3. Touched.text = text
  BY DEF Touched, WithoutLeaf
<1>4. LeafOf(<< >>) = << >>
  BY DEF LeafOf, WithoutLeaf
<1> SUFFICES IF full[Len(full)] = "/" THEN WithSeparator(back) = full ELSE back = full
  OBVIOUS
<1> HIDE DEF rest, n
<1>7. Len(rest) \in Nat /\ Len(full) = Len(rest) + n + 1
  BY <1>1, <1>2
<1>5. CASE Len(rest) = 0
  <2>1. rest = << >> /\ full = p /\ full[Len(full)] = "/"
    BY <1>1, <1>2, <1>5
  <2>2. back = text
    BY <1>2, <1>3, <1>4, <2>1 DEF TransformPath, n
  <2>3. WithSeparator(text) = p
    BY <1>2 DEF WithSeparator, Last
  <2> HIDE DEF back, p, text
  <2> QED
    BY <2>1, <2>2, <2>3
<1>6. CASE Len(rest) > 0
  <2>1. rest[1] # "/"
    <3>1. n + 2 \in 2 .. Len(full) /\ (n + 2) - 1 = n + 1 /\ 1 \in 1 .. Len(rest) /\ 1 + n + 1 = n + 2
      BY <1>2, <1>6, <1>7
    <3>2. rest[1] = full[n + 2]
      BY <1>1, <3>1
    <3> QED
      BY <1>1, <3>1, <3>2 DEF SingleSeparators
  <2>2. SingleSeparators(rest)
    <3> SUFFICES ASSUME NEW i \in 2 .. Len(rest), rest[i] = "/" PROVE rest[i - 1] # "/"
      BY DEF SingleSeparators
    <3> DEFINE j == i + n + 1
    <3>1. i \in 1 .. Len(rest) /\ i - 1 \in 1 .. Len(rest) /\ j \in 2 .. Len(full) /\ j - 1 = (i - 1) + n + 1
      BY <1>2, <1>6, <1>7
    <3>2. rest[i] = full[j] /\ rest[i - 1] = full[j - 1]
      BY <1>1, <3>1
    <3> HIDE DEF j
    <3> QED
      BY <3>1, <3>2 DEF SingleSeparators
  <2>3. /\ leaf \in Seq(S) /\ Len(leaf) > 0 /\ leaf[1] = rest[1] /\ LeafOf(leaf) = leaf
        /\ rest[Len(rest)] # "/" => leaf = rest
        /\ Len(rest) > 1 /\ rest[Len(rest)] = "/" => rest = Append(leaf, "/") /\ leaf[Len(leaf)] # "/"
    BY <1>1, <1>6, <2>2, LeafAndSeparator
  <2> HIDE DEF leaf
  <2>4. back = p \o leaf
    BY <1>2, <1>3, <2>1, <2>3 DEF TransformPath, n
  <2> HIDE DEF back, p
  <2>5. full[Len(full)] = rest[Len(rest)]
    BY <1>1, <1>2, <1>6
  <2>6. CASE rest[Len(rest)] # "/"
    BY <1>1, <2>3, <2>4, <2>5, <2>6
  <2>7. CASE rest[Len(rest)] = "/"
    <3>1. Len(rest) > 1
      BY <1>1, <1>6, <2>1, <2>7
    <3>2. rest = Append(leaf, "/") /\ leaf[Len(leaf)] # "/"
      BY <2>3, <2>7, <3>1
    <3>3. Append(p \o leaf, "/") = p \o Append(leaf, "/")
      <4>1. p \o leaf \in Seq(S) /\ <<"/">> \in Seq(S)
        BY <1>2, <2>3
      <4>2. Append(p \o leaf, "/") = (p \o leaf) \o <<"/">> /\ Append(leaf, "/") = leaf \o <<"/">>
        BY <2>3, <4>1, AppendIsConcat
      <4>3. (p \o leaf) \o <<"/">> = p \o (leaf \o <<"/">>)
        BY <1>2, <2>3, <4>1, ConcatAssociative
      <4> QED
        BY <4>2, <4>3
    <3>4. (p \o leaf)[Len(p \o leaf)] # "/" /\ p \o leaf \in Seq(S)
      BY <1>2, <2>3, <3>2
    <3>5. WithSeparator(back) = full
      BY <1>1, <2>4, <3>2, <3>3, <3>4 DEF WithSeparator, Last
    <3> QED
      BY <2>5, <2>7, <3>5
  <2> QED
    BY <2>6, <2>7
<1> HIDE DEF back
<1> QED
  BY <1>5, <1>6, <1>7

\* The name that Stat() or FileStat() gives of the current directory, set without a separator
\* at its end, or of an entry below it leads back to the entry from there: the name of a
\* file with Open(), that of a directory with OpenDirectory(), for names and directories of
\* any length.
THEOREM NameTheorem == ZipSpec => []NameLeadsBack
<1>1. ZipSpec => []NameInv
  <2>1. ZipInit => HandlesInv /\ NameInv
    BY InitHandlesInv, InitNameInv
  <2>2. (HandlesInv /\ NameInv) /\ [ZipNext]_zipVars => (HandlesInv /\ NameInv)'
    BY NextHandlesInv, NextNameInv
  <2> QED
    BY <2>1, <2>2, PTL DEF ZipSpec
<1>2. NameInv => NameLeadsBack
  <2> DEFINE full == archive[named.index]
             back == TransformPath(named.as)
  <2> SUFFICES ASSUME NameInv, named # NoName, full # << >>, SingleSeparators(full), Len(zcwd.text) = zcwd.length,
                      zcwd.length > 0 => Last(zcwd.text) # "/" /\ IsPrefix(zcwd.text \o <<"/">>, full)
               PROVE  Locate(IF IsZipDir(full) THEN WithSeparator(back) ELSE back) = named.index
    BY DEF NameLeadsBack, SingleSeparators
  <2>1. /\ archive \in Seq(Seq(STRING)) /\ IsInjective(archive) /\ named.index \in 1 .. Len(archive)
        /\ zcwd \in CwdType /\ named.as = LeafOf(TransformPathReverse(zcwd, full))
    BY DEF NameInv
  <2>2. full \in Seq(STRING) /\ Locate(full) = named.index
    BY <2>1, LocateFinds
  <2>3. zcwd.text \in Seq(STRING) /\ zcwd.length \in Nat
    BY <2>1 DEF CwdType
  <2>4. IsZipDir(full) <=> full[Len(full)] = "/"
    BY DEF IsZipDir, Last
  <2> HIDE DEF full
  <2>5. IF full[Len(full)] = "/" THEN WithSeparator(back) = full ELSE back = full
    <3>1. CASE zcwd.length = 0
      <4>1. named.as = LeafOf(full) /\ back = LeafOf(full)
        BY <2>1, <3>1 DEF TransformPathReverse, TransformPath
      <4>2. Len(full) \in Nat /\ Len(full) > 0
        BY <2>2
      <4> QED
        BY <2>2, <4>1, <4>2, LeafAndSeparator
    <3>2. CASE zcwd.length > 0
      <4> DEFINE S == STRING \cup {"/"}
      <4>1. zcwd.text \in Seq(S) /\ full \in Seq(S) /\ "/" \in S
        BY <2>2, <2>3
      <4> HIDE DEF S
      <4> QED
        BY <2>1, <3>2, <4>1, RoundTrip
    <3> QED
      BY <2>3, <3>1, <3>2
  <2> QED
    BY <2>2, <2>4, <2>5
<1> QED
  BY <1>1, <1>2, PTL

-----------------------------------------------------------------------------
(* CacheStream: what the operators on byte sequences give                  *)

LEMMA MinOfTwo ==
  ASSUME NEW a \in Int, NEW b \in Int
  PROVE  Min({a, b}) = IF a <= b THEN a ELSE b
<1>1. CASE a <= b
  <2>1. a \in {a, b} /\ \A y \in {a, b} : a <= y
    BY <1>1
  <2>2. \A x \in {a, b} : (\A y \in {a, b} : x <= y) => x = a
    BY <1>1
  <2>. QED  BY <1>1, <2>1, <2>2 DEF Min
<1>2. CASE ~(a <= b)
  <2>1. b \in {a, b} /\ \A y \in {a, b} : b <= y
    BY <1>2
  <2>2. \A x \in {a, b} : (\A y \in {a, b} : x <= y) => x = b
    BY <1>2
  <2>. QED  BY <1>2, <2>1, <2>2 DEF Min
<1>. QED  BY <1>1, <1>2

LEMMA BoundedIsSeq ==
  ASSUME NEW S, NEW n \in Nat, NEW s \in BoundedSeq(S, n)
  PROVE  s \in Seq(S)
<1>1. PICK m \in 0 .. n : s \in [1 .. m -> S]
  BY DEF BoundedSeq, SeqOf
<1>. QED  BY <1>1, SeqDef

\* The piece of a sequence after its first m elements, up to the n-th
LEMMA Portion ==
  ASSUME NEW S, NEW s \in Seq(S), NEW m \in Nat, NEW n \in Nat, n <= Len(s)
  PROVE  /\ SubSeq(s, m + 1, n) \in Seq(S)
         /\ Len(SubSeq(s, m + 1, n)) = IF m <= n THEN n - m ELSE 0
         /\ \A i \in 1 .. n - m : SubSeq(s, m + 1, n)[i] = s[m + i]
<1>1. \A i \in m + 1 .. n : s[i] \in S
  BY ElementOfSeq
<1>2. /\ SubSeq(s, m + 1, n) \in Seq(S)
      /\ Len(SubSeq(s, m + 1, n)) = IF m + 1 <= n THEN n - (m + 1) + 1 ELSE 0
      /\ \A i \in 1 .. n - (m + 1) + 1 : SubSeq(s, m + 1, n)[i] = s[m + 1 + i - 1]
  BY <1>1, SubSeqProperties, m + 1 \in Int, n \in Int
<1>. QED  BY <1>2

\* The first n elements
LEMMA Beginning ==
  ASSUME NEW S, NEW s \in Seq(S), NEW n \in Nat, n <= Len(s)
  PROVE  /\ SubSeq(s, 1, n) \in Seq(S)
         /\ Len(SubSeq(s, 1, n)) = n
         /\ \A i \in 1 .. n : SubSeq(s, 1, n)[i] = s[i]
<1>1. \A i \in 1 .. n : s[i] \in S
  BY ElementOfSeq
<1>. QED  BY <1>1, SubSeqProperties

LEMMA OverwriteGives ==
  ASSUME NEW S, NEW b \in Seq(S), NEW d \in Seq(S), NEW at \in Nat, at <= Len(b)
  PROVE  /\ Overwrite(b, at, d) \in Seq(S)
         /\ Len(Overwrite(b, at, d)) = IF at + Len(d) <= Len(b) THEN Len(b) ELSE at + Len(d)
         /\ \A i \in 1 .. Len(Overwrite(b, at, d)) :
              Overwrite(b, at, d)[i] = IF i <= at THEN b[i] ELSE IF i <= at + Len(d) THEN d[i - at] ELSE b[i]
<1>. DEFINE f == SubSeq(b, 1, at)
            k == at + Len(d)
            r == SubSeq(b, k + 1, Len(b))
<1>0. Len(b) \in Nat /\ Len(d) \in Nat /\ k \in Nat
  BY LenProperties
<1>1. f \in Seq(S) /\ Len(f) = at /\ \A i \in 1 .. at : f[i] = b[i]
  BY <1>0, Beginning
<1>2. /\ r \in Seq(S) /\ Len(r) = IF k <= Len(b) THEN Len(b) - k ELSE 0
      /\ \A i \in 1 .. Len(b) - k : r[i] = b[k + i]
  BY <1>0, Portion
<1>. DEFINE g == f \o d
            w == g \o r
<1>3. Overwrite(b, at, d) = w /\ k = at + Len(d)
  BY DEF Overwrite
<1>. HIDE DEF f, r, k
<1>4. g \in Seq(S) /\ Len(g) = k /\ \A i \in 1 .. k : g[i] = IF i <= at THEN f[i] ELSE d[i - at]
  BY <1>1, <1>3, ConcatProperties
<1>. HIDE DEF g
<1>5. /\ w \in Seq(S) /\ Len(w) = k + Len(r)
      /\ \A i \in 1 .. k + Len(r) : w[i] = IF i <= k THEN g[i] ELSE r[i - k]
  BY <1>2, <1>4, ConcatProperties
<1>. HIDE DEF w
<1>6. Len(w) = IF k <= Len(b) THEN Len(b) ELSE k
  BY <1>0, <1>2, <1>5
<1>7. ASSUME NEW i \in 1 .. Len(w)
      PROVE  w[i] = IF i <= at THEN b[i] ELSE IF i <= k THEN d[i - at] ELSE b[i]
  <2>1. i \in 1 .. k + Len(r) /\ i \in Nat /\ at <= k
    BY <1>0, <1>3, <1>5
  <2>2. CASE i <= k
    BY <2>1, <2>2, <1>0, <1>1, <1>4, <1>5
  <2>3. CASE i > k
    <3>1. i - k \in 1 .. Len(b) - k /\ i - k \in Int
      BY <2>3, <1>0, <1>6
    <3>2. r[i - k] = b[k + (i - k)] /\ k + (i - k) = i
      BY <3>1, <2>1, <1>0, <1>2
    <3>3. k \in Int /\ ~(i <= k) /\ ~(i <= at)
      BY <2>1, <2>3, <1>0
    <3>4. i \in 1 .. Len(w)
      BY <1>7
    <3>5. w[i] = r[i - k]
      BY <3>3, <3>4, <2>1, <1>5
    <3>. QED  BY <3>2, <3>3, <3>5
  <2>. QED  BY <2>1, <2>2, <2>3, <1>0
<1>. QED  BY <1>3, <1>5, <1>6, <1>7

\* Overwriting with nothing changes nothing.
LEMMA OverwriteNothing ==
  ASSUME NEW S, NEW b \in Seq(S), NEW at \in Nat, at <= Len(b)
  PROVE  Overwrite(b, at, << >>) = b
<1>1. << >> \in Seq(S) /\ Len(<< >>) = 0
  BY EmptySeq, Zenon
<1>. DEFINE n == << >>
            o == Overwrite(b, at, n)
<1>. HIDE DEF n
<1>2. /\ o \in Seq(S) /\ Len(o) = IF at + Len(n) <= Len(b) THEN Len(b) ELSE at + Len(n)
      /\ \A i \in 1 .. Len(o) : o[i] = IF i <= at THEN b[i] ELSE IF i <= at + Len(n) THEN n[i - at] ELSE b[i]
  BY <1>1, OverwriteGives, ZenonT(40) DEF n
<1>. HIDE DEF o
<1>3. Len(n) = 0 /\ Len(b) \in Nat
  BY <1>1, LenProperties DEF n
<1>4. Len(o) = Len(b) /\ \A i \in 1 .. Len(b) : o[i] = b[i]
  BY <1>2, <1>3
<1>5. o = b
  BY <1>2, <1>4, SeqEqual
<1>. QED  BY <1>5 DEF o, n

\* Overwriting with a and then, where a ends, with d is overwriting with both.
LEMMA OverwriteTwice ==
  ASSUME NEW S, NEW b \in Seq(S), NEW a \in Seq(S), NEW d \in Seq(S), NEW at \in Nat, at <= Len(b)
  PROVE  Overwrite(Overwrite(b, at, a), at + Len(a), d) = Overwrite(b, at, a \o d)
<1>. DEFINE o == Overwrite(b, at, a)
            k == at + Len(a)
            l == Overwrite(o, k, d)
            e == a \o d
            r == Overwrite(b, at, e)
<1>0. Len(b) \in Nat /\ Len(a) \in Nat /\ Len(d) \in Nat /\ k \in Nat
  BY LenProperties
<1>1. /\ e \in Seq(S) /\ Len(e) = Len(a) + Len(d)
      /\ \A i \in 1 .. Len(a) + Len(d) : e[i] = IF i <= Len(a) THEN a[i] ELSE d[i - Len(a)]
  BY ConcatProperties
<1>2. /\ o \in Seq(S) /\ Len(o) = IF k <= Len(b) THEN Len(b) ELSE k
      /\ \A i \in 1 .. Len(o) : o[i] = IF i <= at THEN b[i] ELSE IF i <= k THEN a[i - at] ELSE b[i]
  BY OverwriteGives
<1>3. k <= Len(o) /\ k = at + Len(a)
  BY <1>0, <1>2
<1>. HIDE DEF e, o, k
<1>4. /\ l \in Seq(S) /\ Len(l) = IF k + Len(d) <= Len(o) THEN Len(o) ELSE k + Len(d)
      /\ \A i \in 1 .. Len(l) : l[i] = IF i <= k THEN o[i] ELSE IF i <= k + Len(d) THEN d[i - k] ELSE o[i]
  <2>1. o \in Seq(S) /\ k \in Nat /\ k <= Len(o)
    BY <1>0, <1>2, <1>3
  <2>. HIDE DEF r
  <2>. QED  BY ONLY OverwriteGives, <2>1, d \in Seq(S)
<1>5. /\ r \in Seq(S) /\ Len(r) = IF at + Len(e) <= Len(b) THEN Len(b) ELSE at + Len(e)
      /\ \A i \in 1 .. Len(r) : r[i] = IF i <= at THEN b[i] ELSE IF i <= at + Len(e) THEN e[i - at] ELSE b[i]
  <2>1. e \in Seq(S)
    BY <1>1
  <2>. QED  BY ONLY OverwriteGives, <2>1, b \in Seq(S), at \in Nat, at <= Len(b)
<1>. HIDE DEF l, r
<1>6. Len(l) = Len(r)
  <2>1. Len(e) = Len(a) + Len(d) /\ Len(o) = IF k <= Len(b) THEN Len(b) ELSE k
    BY <1>1, <1>2
  <2>2. Len(l) = IF k + Len(d) <= Len(o) THEN Len(o) ELSE k + Len(d)
    BY <1>4
  <2>3. Len(r) = IF at + Len(e) <= Len(b) THEN Len(b) ELSE at + Len(e)
    BY <1>5
  <2>4. at + Len(e) = k + Len(d) /\ Len(o) \in Nat
    BY <2>1, <1>0, <1>3
  <2>5. CASE k + Len(d) <= Len(b)
    BY <2>1, <2>2, <2>3, <2>4, <2>5, <1>0
  <2>6. CASE ~(k + Len(d) <= Len(b))
    BY <2>1, <2>2, <2>3, <2>4, <2>6, <1>0
  <2>. QED  BY <2>5, <2>6
<1>7. ASSUME NEW i \in 1 .. Len(l)
      PROVE  l[i] = r[i]
  <2>0. i \in Nat /\ i >= 1 /\ i \in 1 .. Len(r) /\ at + Len(e) = k + Len(d)
    BY <1>0, <1>1, <1>3, <1>6, <1>4, LenProperties
  <2>1. CASE i <= at
    <3>1. i \in 1 .. Len(o) /\ i <= k
      BY <2>0, <2>1, <1>0, <1>3, <1>2
    <3>2. l[i] = o[i] /\ o[i] = b[i]
      BY <3>1, <2>1, <1>2, <1>4
    <3>3. r[i] = b[i]
      BY <2>0, <2>1, <1>5
    <3>. QED  BY <3>2, <3>3
  <2>2. CASE i > at /\ i <= k
    <3>1. i \in 1 .. Len(o) /\ ~(i <= at) /\ i <= at + Len(e)
      BY <2>0, <2>2, <1>0, <1>1, <1>3, <1>2
    <3>2. l[i] = a[i - at]
      BY <3>1, <2>2, <1>2, <1>4
    <3>3. r[i] = e[i - at]
      BY <3>1, <2>0, <1>5
    <3>4. i - at \in 1 .. Len(a) + Len(d) /\ i - at <= Len(a)
      BY <2>0, <2>2, <1>0, <1>3
    <3>. QED  BY <3>2, <3>3, <3>4, <1>1
  <2>3. CASE i > k /\ i <= k + Len(d)
    <3>1. ~(i <= k) /\ ~(i <= at) /\ i <= at + Len(e)
      BY <2>0, <2>3, <1>0, <1>3
    <3>2. l[i] = d[i - k]
      BY <3>1, <2>3, <1>4
    <3>3. r[i] = e[i - at]
      BY <3>1, <2>0, <1>5
    <3>4. i - at \in 1 .. Len(a) + Len(d) /\ ~(i - at <= Len(a)) /\ (i - at) - Len(a) = i - k
      BY <2>0, <2>3, <1>0, <1>3
    <3>5. e[i - at] = d[(i - at) - Len(a)]
      BY <3>4, <1>1
    <3>. QED  BY <3>2, <3>3, <3>4, <3>5
  <2>4. CASE i > k + Len(d)
    <3>1. i \in 1 .. Len(o) /\ ~(i <= at) /\ ~(i <= k) /\ ~(i <= k + Len(d))
      BY <2>0, <2>4, <1>0, <1>2, <1>4
    <3>2. l[i] = b[i]
      BY <3>1, <1>2, <1>4
    <3>3. r[i] = b[i]
      BY <3>1, <2>0, <1>5
    <3>. QED  BY <3>2, <3>3
  <2>. QED  BY <2>1, <2>2, <2>3, <2>4, <2>0, <1>0
<1>8. l = r
  BY <1>4, <1>5, <1>6, <1>7, SeqEqual
<1>. QED  BY <1>8 DEF l, r, o, e, k

LEMMA BytesAtGives ==
  ASSUME NEW S, NEW b \in Seq(S), NEW at \in Nat, NEW n \in Nat, at <= Len(b)
  PROVE  /\ BytesAt(b, at, n) \in Seq(S)
         /\ Len(BytesAt(b, at, n)) = IF at + n <= Len(b) THEN n ELSE Len(b) - at
         /\ \A i \in 1 .. Len(BytesAt(b, at, n)) : BytesAt(b, at, n)[i] = b[at + i]
<1>. DEFINE m == IF at + n <= Len(b) THEN at + n ELSE Len(b)
            r == SubSeq(b, at + 1, m)
<1>1. Len(b) \in Nat /\ m \in Nat /\ at <= m /\ m <= Len(b)
  BY LenProperties
<1>2. m - at = IF at + n <= Len(b) THEN n ELSE Len(b) - at
  BY <1>1
<1>3. BytesAt(b, at, n) = r
  BY <1>1, MinOfTwo DEF BytesAt
<1>. HIDE DEF m
<1>4. r \in Seq(S) /\ Len(r) = m - at /\ \A i \in 1 .. m - at : r[i] = b[at + i]
  BY <1>1, Portion
<1>. QED  BY <1>2, <1>3, <1>4

\* The bytes asked for are the first k of them and then the others.
LEMMA BytesAtSplit ==
  ASSUME NEW S, NEW b \in Seq(S), NEW at \in Nat, NEW n \in Nat, NEW k \in Nat,
         k <= n, at + k <= Len(b)
  PROVE  BytesAt(b, at, n) = SubSeq(b, at + 1, at + k) \o BytesAt(b, at + k, n - k)
<1>. DEFINE l == BytesAt(b, at, n)
            p == SubSeq(b, at + 1, at + k)
            q == BytesAt(b, at + k, n - k)
            r == p \o q
<1>1. Len(b) \in Nat /\ at + k \in Nat /\ n - k \in Nat /\ at <= Len(b) /\ at <= at + k /\ (at + k) - at = k
  BY LenProperties
<1>2. /\ l \in Seq(S) /\ Len(l) = IF at + n <= Len(b) THEN n ELSE Len(b) - at
      /\ \A i \in 1 .. Len(l) : l[i] = b[at + i]
  BY <1>1, BytesAtGives
<1>3. p \in Seq(S) /\ Len(p) = k /\ \A i \in 1 .. k : p[i] = b[at + i]
  BY <1>1, Portion
<1>4. /\ q \in Seq(S) /\ Len(q) = IF at + k + (n - k) <= Len(b) THEN n - k ELSE Len(b) - (at + k)
      /\ \A i \in 1 .. Len(q) : q[i] = b[at + k + i]
  BY <1>1, BytesAtGives, ZenonT(40)
<1>. HIDE DEF l, p, q
<1>5. /\ r \in Seq(S) /\ Len(r) = k + Len(q)
      /\ \A i \in 1 .. k + Len(q) : r[i] = IF i <= k THEN p[i] ELSE q[i - k]
  <2>1. /\ r \in Seq(S) /\ Len(r) = Len(p) + Len(q)
        /\ \A i \in 1 .. Len(p) + Len(q) : r[i] = IF i <= Len(p) THEN p[i] ELSE q[i - Len(p)]
    <3>1. p \in Seq(S) /\ q \in Seq(S)
      BY <1>3, <1>4, Zenon
    <3>. QED  BY <3>1, ConcatProperties, Zenon
  <2>2. Len(p) = k
    BY <1>3
  <2>. QED  BY <2>1, <2>2
<1>. HIDE DEF r
<1>6. Len(l) = Len(r) /\ Len(r) \in Nat /\ Len(q) \in Nat
  <2>1. CASE at + n <= Len(b)
    BY <2>1, <1>1, <1>2, <1>4, <1>5
  <2>2. CASE ~(at + n <= Len(b))
    BY <2>2, <1>1, <1>2, <1>4, <1>5
  <2>. QED  BY <2>1, <2>2
<1>7. ASSUME NEW i \in 1 .. Len(l) PROVE l[i] = r[i]
  <2>1. i \in 1 .. k + Len(q) /\ i \in Nat /\ l[i] = b[at + i]
    BY <1>2, <1>5, <1>6
  <2>2. CASE i <= k
    BY <2>1, <2>2, <1>3, <1>5
  <2>3. CASE ~(i <= k)
    <3>1. i - k \in 1 .. Len(q) /\ at + k + (i - k) = at + i
      BY <2>1, <2>3, <1>6
    <3>. QED  BY <3>1, <2>1, <2>3, <1>4, <1>5
  <2>. QED  BY <2>2, <2>3
<1>8. l = r
  BY <1>2, <1>5, <1>6, <1>7, SeqEqual
<1>. QED  BY <1>8 DEF l, r, p, q

\* No bytes
LEMMA BytesAtNothing ==
  ASSUME NEW S, NEW b \in Seq(S), NEW at \in Nat, at <= Len(b)
  PROVE  BytesAt(b, at, 0) = << >>
<1>1. BytesAt(b, at, 0) \in Seq(S) /\ Len(BytesAt(b, at, 0)) = 0
  BY BytesAtGives, LenProperties
<1>. QED  BY <1>1, EmptySeq

\* A sequence is its first n elements and then the others.
LEMMA SplitAt ==
  ASSUME NEW S, NEW s \in Seq(S), NEW n \in Nat, n <= Len(s)
  PROVE  /\ SubSeq(s, 1, n) \in Seq(S) /\ Len(SubSeq(s, 1, n)) = n
         /\ SubSeq(s, n + 1, Len(s)) \in Seq(S) /\ Len(SubSeq(s, n + 1, Len(s))) = Len(s) - n
         /\ s = SubSeq(s, 1, n) \o SubSeq(s, n + 1, Len(s))
<1>1. Len(s) \in Nat
  BY LenProperties
<1>2. 1 \in 1 .. Len(s) + 1 /\ n \in 1 - 1 .. Len(s) /\ Len(s) \in n .. Len(s)
  BY <1>1
<1>3. SubSeq(s, 1, n) \o SubSeq(s, n + 1, Len(s)) = SubSeq(s, 1, Len(s))
  BY <1>2, ConcatAdjacentSubSeq
<1>4. SubSeq(s, 1, Len(s)) = s
  BY SubSeqFull
<1>5. SubSeq(s, 1, n) \in Seq(S) /\ Len(SubSeq(s, 1, n)) = n
  BY Beginning
<1>6. SubSeq(s, n + 1, Len(s)) \in Seq(S) /\ Len(SubSeq(s, n + 1, Len(s))) = Len(s) - n
  BY <1>1, Portion
<1>. QED  BY <1>3, <1>4, <1>5, <1>6, Zenon

\* n elements of a after the m-th are those of b after the k-th.
SameElements(a, m, b, k, n) == \A i \in 1 .. n : a[m + i] = b[k + i]

\* Pieces with the same elements are the same.
LEMMA SamePieces ==
  ASSUME NEW S, NEW a \in Seq(S), NEW b \in Seq(S), NEW m \in Nat, NEW k \in Nat, NEW n \in Nat,
         m + n <= Len(a), k + n <= Len(b), SameElements(a, m, b, k, n)
  PROVE  SubSeq(a, m + 1, m + n) = SubSeq(b, k + 1, k + n)
<1>. DEFINE l == SubSeq(a, m + 1, m + n)
            r == SubSeq(b, k + 1, k + n)
<1>0. m + n \in Nat /\ k + n \in Nat /\ (m + n) - m = n /\ (k + n) - k = n /\ m <= m + n /\ k <= k + n
  OBVIOUS
<1>1. l \in Seq(S) /\ Len(l) = n /\ \A i \in 1 .. n : l[i] = a[m + i]
  BY <1>0, Portion
<1>2. r \in Seq(S) /\ Len(r) = n /\ \A i \in 1 .. n : r[i] = b[k + i]
  BY <1>0, Portion
<1>. HIDE DEF l, r
<1>3. l = r
  BY <1>1, <1>2, SeqEqual DEF SameElements
<1>. QED  BY <1>3 DEF l, r

\* A sequence is a prefix of itself with more behind it.
LEMMA PrefixOfMore ==
  ASSUME NEW S, NEW s \in Seq(S), NEW t \in Seq(S)
  PROVE  IsPrefix(s, s \o t)
<1>. DEFINE u == s \o t
<1>1. u \in Seq(S) /\ Len(u) = Len(s) + Len(t) /\ Len(s) \in Nat /\ Len(t) \in Nat
      /\ \A i \in 1 .. Len(s) + Len(t) : u[i] = IF i <= Len(s) THEN s[i] ELSE t[i - Len(s)]
  BY ConcatProperties, LenProperties
<1>. HIDE DEF u
<1>2. /\ SubSeq(u, 1, Len(s)) \in Seq(S) /\ Len(SubSeq(u, 1, Len(s))) = Len(s)
      /\ \A i \in 1 .. Len(s) : SubSeq(u, 1, Len(s))[i] = u[i]
  BY <1>1, Beginning
<1>3. SubSeq(u, 1, Len(s)) = s
  BY <1>1, <1>2, SeqEqual
<1>4. SubSeq(s, 1, Len(s)) = s
  BY SubSeqFull
<1>. QED  BY <1>1, <1>3, <1>4 DEF IsPrefix, u

-----------------------------------------------------------------------------
(* The inductive invariant                                                 *)

Cells == Bytes \cup {0}

CacheType ==
  [file : Seq(Cells), filePosition : Nat, position : Nat, cache : Seq(Cells),
   dirty : BOOLEAN, offset : Nat, length : Nat, cachePosition : Nat]

CacheTypeOK ==
  /\ doing \in {"idle", "read", "write", "failed"}
  /\ todo \in Seq(Cells) /\ buffer \in Seq(Cells) /\ content \in Seq(Cells) /\ expected \in Seq(Cells)

\* What the stream behind will hold when the cache is flushed
Behind(s) == IF s.dirty THEN Overwrite(s.file, s.filePosition, SubSeq(s.cache, 1, s.offset)) ELSE s.file

\* The numbers are in their ranges.
InRange(s) ==
  /\ s.filePosition <= Len(s.file)
  /\ s.offset <= s.length /\ s.length <= Len(s.cache)
  /\ s.dirty => s.length = s.offset /\ s.offset <= CacheSize
  /\ s.position <= Len(Behind(s))

\* The stream behind stands where the cache ends, or begins when it is dirty, or else
\* FillCache can tell from the position that it does not.
Synced(s) ==
  IF s.dirty THEN s.filePosition = s.cachePosition \/ s.position # s.cachePosition + s.length
  ELSE s.filePosition = s.cachePosition + s.length \/ (s.length = 0 /\ s.position # s.cachePosition)

\* A clean cache has the bytes of the stream behind, and a position in it is at the offset.
CacheIsCopy(s) ==
  ~s.dirty =>
    /\ \A k \in 1 .. s.length : s.cache[k] = s.file[s.cachePosition + k]
    /\ InCache(s, s.position) => s.position = s.cachePosition + s.offset

Sound(s) == s \in CacheType /\ InRange(s) /\ Synced(s) /\ CacheIsCopy(s)

\* A Read in progress has still to give what is at the position; a Write finds the stream
\* behind where it has to be.
Underway ==
  /\ doing \in {"idle", "write"} => buffer = expected
  /\ doing = "read" => expected = buffer \o BytesAt(content, c.position, Len(todo))
  /\ doing = "write" => Aligned

\* The stream behind will hold what it should, once the Write in progress is done.
Reaches ==
  IF doing = "write" THEN c.position <= Len(Behind(c)) /\ Overwrite(Behind(c), c.position, todo) = content
  ELSE Behind(c) = content

CacheInv ==
  /\ CacheTypeOK /\ IsPrefix(buffer, expected)
  /\ doing # "failed" => Sound(c) /\ Underway /\ Reaches

-----------------------------------------------------------------------------
(* The fields after each of the private functions                          *)

LEMMA BehindType ==
  ASSUME NEW s \in CacheType, InRange(s)
  PROVE  Behind(s) \in Seq(Cells)
<1>1. /\ s.file \in Seq(Cells) /\ s.cache \in Seq(Cells) /\ s.offset \in Nat /\ s.length \in Nat
      /\ s.filePosition \in Nat /\ s.filePosition <= Len(s.file) /\ s.offset <= s.length
      /\ s.length <= Len(s.cache) /\ Len(s.cache) \in Nat
  BY LenProperties DEF CacheType, InRange
<1>2. SubSeq(s.cache, 1, s.offset) \in Seq(Cells)
  BY <1>1, Beginning
<1>. QED  BY <1>1, <1>2, OverwriteGives, ZenonT(40) DEF Behind

LEMMA AheadGives ==
  ASSUME NEW s \in CacheType, s.position <= Len(s.file), NEW n \in Nat
  PROVE  /\ BytesAt(s.file, s.position, n) \in Seq(Cells)
         /\ Len(BytesAt(s.file, s.position, n)) = IF s.position + n <= Len(s.file) THEN n ELSE Len(s.file) - s.position
         /\ \A i \in 1 .. Len(BytesAt(s.file, s.position, n)) :
              BytesAt(s.file, s.position, n)[i] = s.file[s.position + i]
<1>1. PICK b, at : b = s.file /\ at = s.position
  OBVIOUS
<1>2. b \in Seq(Cells) /\ at \in Nat /\ at <= Len(b)
  BY <1>1 DEF CacheType
<1>3. /\ BytesAt(b, at, n) \in Seq(Cells)
      /\ Len(BytesAt(b, at, n)) = IF at + n <= Len(b) THEN n ELSE Len(b) - at
      /\ \A i \in 1 .. Len(BytesAt(b, at, n)) : BytesAt(b, at, n)[i] = b[at + i]
  BY <1>2, BytesAtGives
<1>. QED  BY <1>1, <1>3

LEMMA FlushFields ==
  ASSUME NEW s \in CacheType, InRange(s), ~FlushThrows(s), NEW t, t = FlushCache(s)
  PROVE  /\ t \in CacheType /\ t.file = Behind(s) /\ t.position = s.position
         /\ t.filePosition = s.filePosition + (IF s.dirty THEN s.offset ELSE 0)
         /\ t.dirty = FALSE /\ t.offset = 0 /\ t.length = 0
         /\ t.cachePosition = s.cachePosition + s.length
<1>. DEFINE f == Behind(s)
            q == s.filePosition + (IF s.dirty THEN s.offset ELSE 0)
            k == s.cachePosition + s.length
<1>1. f \in Seq(Cells)
  BY BehindType
<1>2. q \in Nat /\ k \in Nat
  BY DEF CacheType
<1>3. PICK w : w = IF s.dirty THEN StreamWrite(s) ELSE s
  OBVIOUS
<1>4. w.file = f /\ w.filePosition = q /\ w \in CacheType /\ w.position = s.position
      /\ w.cachePosition = s.cachePosition /\ w.cache = s.cache
  <2>1. CASE s.dirty
    <3>1. Room(s) = s.offset
      BY <2>1 DEF FlushThrows
    <3>2. w = [s EXCEPT !.file = f, !.filePosition = q]
      BY <2>1, <3>1, <1>3 DEF StreamWrite, Behind
    <3>. HIDE DEF f, q
    <3>. QED  BY <3>2, <1>1, <1>2 DEF CacheType
  <2>2. CASE ~s.dirty
    BY <2>2, <1>3 DEF Behind, CacheType
  <2>. QED  BY <2>1, <2>2
<1>5. t = [w EXCEPT !.cachePosition = w.cachePosition + s.length, !.dirty = FALSE, !.offset = 0, !.length = 0]
  BY <1>3 DEF FlushCache
<1>6. t = [w EXCEPT !.cachePosition = k, !.dirty = FALSE, !.offset = 0, !.length = 0]
  BY <1>4, <1>5
<1>. HIDE DEF f, q, k
<1>7. t.file = f /\ t.position = s.position /\ t.filePosition = q
  BY <1>4, <1>6 DEF CacheType
<1>8. t.dirty = FALSE /\ t.offset = 0 /\ t.length = 0 /\ t.cachePosition = k
  BY <1>4, <1>6 DEF CacheType
<1>9. t \in CacheType
  <2>1. PICK w1 : w1 = [w EXCEPT !.cachePosition = k, !.offset = 0, !.length = 0]
    OBVIOUS
  <2>2. w1 \in CacheType
    BY <1>2, <1>4, <2>1 DEF CacheType
  <2>3. t = [w1 EXCEPT !.dirty = FALSE]
    BY <1>6, <2>1, <1>4 DEF CacheType
  <2>. QED  BY <2>2, <2>3 DEF CacheType
<1>. QED  BY <1>7, <1>8, <1>9 DEF f, q, k

\* A sound cache is sound after it is flushed, and clean; the stream behind holds what it
\* was to hold.
LEMMA FlushKeeps ==
  ASSUME NEW s, Sound(s), ~FlushThrows(s), NEW t, t = FlushCache(s)
  PROVE  Sound(t) /\ t.dirty = FALSE /\ t.file = Behind(s) /\ Behind(t) = Behind(s)
         /\ t.position = s.position
<1>1. s \in CacheType /\ InRange(s) /\ Synced(s)
  BY DEF Sound
<1>2. /\ t \in CacheType /\ t.file = Behind(s) /\ t.position = s.position
      /\ t.filePosition = s.filePosition + (IF s.dirty THEN s.offset ELSE 0)
      /\ t.dirty = FALSE /\ t.offset = 0 /\ t.length = 0
      /\ t.cachePosition = s.cachePosition + s.length
  BY <1>1, FlushFields, Zenon
<1>3. Behind(t) = Behind(s) /\ Behind(s) \in Seq(Cells)
  BY <1>1, <1>2, BehindType DEF Behind
<1>4. /\ s.file \in Seq(Cells) /\ s.cache \in Seq(Cells) /\ Len(s.file) \in Nat /\ Len(s.cache) \in Nat
      /\ s.filePosition \in Nat /\ s.offset \in Nat /\ s.length \in Nat /\ s.cachePosition \in Nat
      /\ s.position \in Nat
  BY <1>1, LenProperties DEF CacheType
<1>5. s.filePosition + (IF s.dirty THEN s.offset ELSE 0) <= Len(Behind(s))
  <2>1. CASE s.dirty
    <3>. DEFINE d == SubSeq(s.cache, 1, s.offset)
    <3>1. d \in Seq(Cells) /\ Len(d) = s.offset
      BY <1>1, <1>4, Beginning DEF InRange
    <3>2. Behind(s) = Overwrite(s.file, s.filePosition, d) /\ s.filePosition <= Len(s.file)
      BY <2>1, <1>1 DEF Behind, InRange
    <3>. HIDE DEF d
    <3>3. PICK b, at : b = s.file /\ at = s.filePosition
      OBVIOUS
    <3>4. b \in Seq(Cells) /\ at \in Nat /\ at <= Len(b)
      BY <3>2, <3>3, <1>4
    <3>5. Len(Overwrite(b, at, d)) = IF at + Len(d) <= Len(b) THEN Len(b) ELSE at + Len(d)
      BY <3>1, <3>4, OverwriteGives
    <3>. QED  BY <3>1, <3>2, <3>3, <3>5, <2>1, <1>4
  <2>2. CASE ~s.dirty
    BY <2>2, <1>1, <1>4 DEF Behind, InRange
  <2>. QED  BY <2>1, <2>2
<1>6. InRange(t)
  <2>1. Len(t.cache) \in Nat
    BY <1>2, LenProperties DEF CacheType
  <2>. QED  BY <2>1, <1>1, <1>2, <1>3, <1>5 DEF InRange
<1>7. Synced(t)
  <2>1. CASE s.dirty
    <3>1. s.length = s.offset
      BY <2>1, <1>1 DEF InRange
    <3>. QED  BY <2>1, <3>1, <1>1, <1>2, <1>4 DEF Synced
  <2>2. CASE ~s.dirty
    BY <2>2, <1>1, <1>2, <1>4 DEF Synced
  <2>. QED  BY <2>1, <2>2
<1>8. CacheIsCopy(t)
  BY <1>2, <1>4 DEF CacheIsCopy, InCache
<1>. QED  BY <1>2, <1>3, <1>6, <1>7, <1>8 DEF Sound

\* FillCache always reads at the position, whether it moved the stream behind or not.
LEMMA FillKeeps ==
  ASSUME NEW s, Sound(s), s.dirty = FALSE, ~InCache(s, s.position), NEW t, t = FillCache(s)
  PROVE  Sound(t) /\ t.dirty = FALSE /\ t.file = s.file /\ t.position = s.position
<1>1. s \in CacheType /\ InRange(s) /\ Synced(s)
  BY DEF Sound
<1>4. /\ s.file \in Seq(Cells) /\ s.cache \in Seq(Cells) /\ Len(s.file) \in Nat /\ Len(s.cache) \in Nat
      /\ s.filePosition \in Nat /\ s.offset \in Nat /\ s.length \in Nat /\ s.cachePosition \in Nat
      /\ s.position \in Nat
  BY <1>1, LenProperties DEF CacheType
<1>5. s.position <= Len(s.file)
  BY <1>1 DEF InRange, Behind
<1>. DEFINE d == BytesAt(s.file, s.position, CacheSize)
            q == s.position + Len(d)
<1>6. /\ d \in Seq(Cells) /\ Len(d) \in Nat /\ q <= Len(s.file)
      /\ \A i \in 1 .. Len(d) : d[i] = s.file[s.position + i]
  <2>1. CacheSize \in Nat
    BY SizeAssumption
  <2>2. /\ d \in Seq(Cells) /\ Len(d) = IF s.position + CacheSize <= Len(s.file) THEN CacheSize ELSE Len(s.file) - s.position
        /\ \A i \in 1 .. Len(d) : d[i] = s.file[s.position + i]
    BY <2>1, <1>1, <1>5, AheadGives
  <2>. HIDE DEF d
  <2>. QED  BY <2>1, <2>2, <1>4, <1>5, SMTT(30)
<1>7. PICK m : m = IF s.position # s.cachePosition + s.offset THEN [s EXCEPT !.filePosition = s.position] ELSE s
  OBVIOUS
<1>8. /\ m \in CacheType /\ m.filePosition = s.position /\ m.file = s.file /\ m.position = s.position
      /\ m.dirty = FALSE /\ m.cachePosition = s.cachePosition
  <2>1. CASE s.position # s.cachePosition + s.offset
    <3>1. m = [s EXCEPT !.filePosition = s.position]
      BY <2>1, <1>7
    <3>. QED  BY <3>1, <1>1, <1>4 DEF CacheType
  <2>2. CASE s.position = s.cachePosition + s.offset
    <3>1. m = s /\ s.offset <= s.length
      BY <2>2, <1>1, <1>7 DEF InRange
    <3>2. s.offset = s.length
      BY <2>2, <3>1, <1>4 DEF InCache
    <3>3. s.filePosition = s.position
      BY <2>2, <3>2, <1>1, <1>4 DEF Synced
    <3>. QED  BY <3>1, <3>3, <1>1
  <2>. QED  BY <2>1, <2>2
<1>. DEFINE n == Len(d)
<1>9. PICK r : r = [m EXCEPT !.cache = d, !.length = n, !.filePosition = q]
  OBVIOUS
<1>10. r = StreamRead(m)
  BY <1>8, <1>9 DEF StreamRead
<1>11. t = [r EXCEPT !.cachePosition = s.position, !.offset = 0]
  BY <1>7, <1>10 DEF FillCache
<1>12. n \in Nat /\ q \in Nat /\ q = s.position + n
  BY <1>4, <1>6
<1>. HIDE DEF d, n, q
<1>13. /\ r \in CacheType /\ r.cache = d /\ r.length = n /\ r.filePosition = q /\ r.file = s.file
       /\ r.position = s.position /\ r.dirty = FALSE
  BY <1>6, <1>8, <1>9, <1>12 DEF CacheType
<1>14. /\ t \in CacheType /\ t.cache = d /\ t.length = n /\ t.filePosition = q /\ t.file = s.file
       /\ t.position = s.position /\ t.dirty = FALSE /\ t.cachePosition = s.position /\ t.offset = 0
  <2>1. t.cache = d /\ t.length = n /\ t.filePosition = q /\ t.file = s.file /\ t.position = s.position
    BY <1>11, <1>13 DEF CacheType
  <2>2. t.cachePosition = s.position /\ t.offset = 0
    BY <1>11, <1>13 DEF CacheType
  <2>3. t.dirty = FALSE
    BY <1>11, <1>13 DEF CacheType
  <2>4. PICK v : v = [r EXCEPT !.cachePosition = s.position]
    OBVIOUS
  <2>5. v \in CacheType
    BY <1>4, <1>13, <2>4 DEF CacheType
  <2>6. t = [v EXCEPT !.offset = 0]
    BY <1>11, <1>13, <2>4 DEF CacheType
  <2>7. t \in CacheType
    BY <2>5, <2>6 DEF CacheType
  <2>. QED  BY <2>1, <2>2, <2>3, <2>7, Zenon
<1>15. InRange(t)
  BY <1>5, <1>6, <1>12, <1>14 DEF InRange, Behind, n
<1>16. Synced(t)
  BY <1>12, <1>14 DEF Synced
<1>17. CacheIsCopy(t)
  BY <1>4, <1>6, <1>14 DEF CacheIsCopy, n
<1>. QED  BY <1>14, <1>15, <1>16, <1>17 DEF Sound

\* What Read takes from the cache is what the stream behind has at the position.
LEMMA TakeKeeps ==
  ASSUME NEW s, Sound(s), s.dirty = FALSE, NEW n \in Nat,
         IF InCache(s, s.position) THEN n <= s.length - s.offset ELSE n = 0,
         NEW t, t = [s EXCEPT !.offset = s.offset + n, !.position = s.position + n]
  PROVE  /\ Sound(t) /\ t.dirty = FALSE /\ t.file = s.file /\ t.position = s.position + n
         /\ t.offset = s.offset + n /\ t.length = s.length /\ t.cachePosition = s.cachePosition
         /\ t.position <= Len(s.file)
         /\ SubSeq(s.cache, s.offset + 1, s.offset + n) = SubSeq(s.file, s.position + 1, s.position + n)
<1>1. s \in CacheType /\ InRange(s) /\ Synced(s) /\ CacheIsCopy(s)
  BY DEF Sound
<1>2. /\ s.file \in Seq(Cells) /\ s.cache \in Seq(Cells) /\ Len(s.file) \in Nat /\ Len(s.cache) \in Nat
      /\ s.filePosition \in Nat /\ s.offset \in Nat /\ s.length \in Nat /\ s.cachePosition \in Nat
      /\ s.position \in Nat
  BY <1>1, LenProperties DEF CacheType
<1>3. s.position <= Len(s.file) /\ s.filePosition <= Len(s.file) /\ s.offset <= s.length /\ s.length <= Len(s.cache)
  BY <1>1 DEF InRange, Behind
<1>. DEFINE o == s.offset + n
            p == s.position + n
<1>4. o \in Nat /\ p \in Nat /\ o <= s.length
  BY <1>2, <1>3
<1>5. p <= Len(s.file)
  <2>1. CASE InCache(s, s.position)
    <3>1. s.position = s.cachePosition + s.offset /\ s.length # 0
      BY <2>1, <1>1, <1>2 DEF CacheIsCopy, InCache
    <3>2. s.filePosition = s.cachePosition + s.length
      BY <3>1, <1>1 DEF Synced
    <3>. QED  BY <3>1, <3>2, <1>2, <1>3, <1>4, SMTT(30)
  <2>2. CASE ~InCache(s, s.position)
    BY <2>2, <1>2, <1>3
  <2>. QED  BY <2>1, <2>2
<1>6. SubSeq(s.cache, s.offset + 1, o) = SubSeq(s.file, s.position + 1, p)
  <2>1. ASSUME NEW i \in 1 .. n PROVE s.cache[s.offset + i] = s.file[s.position + i]
    <3>1. InCache(s, s.position)
      BY <2>1
    <3>2. s.position = s.cachePosition + s.offset
      BY <3>1, <1>1 DEF CacheIsCopy
    <3>3. s.offset + i \in 1 .. s.length /\ s.cachePosition + (s.offset + i) = s.position + i
      BY <3>1, <3>2, <1>2, SMTT(30)
    <3>4. s.cache[s.offset + i] = s.file[s.cachePosition + (s.offset + i)]
      BY <3>3, <1>1 DEF CacheIsCopy
    <3>. QED  BY <3>3, <3>4
  <2>2. PICK a, b, m, k : a = s.cache /\ b = s.file /\ m = s.offset /\ k = s.position
    OBVIOUS
  <2>3. /\ a \in Seq(Cells) /\ b \in Seq(Cells) /\ m \in Nat /\ k \in Nat /\ m + n <= Len(a)
        /\ k + n <= Len(b) /\ SameElements(a, m, b, k, n)
    BY <2>1, <2>2, <1>2, <1>3, <1>4, <1>5 DEF SameElements
  <2>4. SubSeq(a, m + 1, m + n) = SubSeq(b, k + 1, k + n)
    BY <2>3, SamePieces, SMTT(30)
  <2>. QED  BY <2>2, <2>4
<1>. HIDE DEF o, p
<1>7. t = [s EXCEPT !.offset = o, !.position = p]
  BY DEF o, p
<1>8. /\ t.file = s.file /\ t.position = p /\ t.cache = s.cache /\ t.filePosition = s.filePosition
      /\ t.offset = o /\ t.length = s.length /\ t.cachePosition = s.cachePosition
  BY <1>1, <1>7 DEF CacheType
<1>9. t.dirty = FALSE
  BY <1>1, <1>7 DEF CacheType
<1>10. t \in CacheType
  BY <1>1, <1>4, <1>7 DEF CacheType
<1>11. InRange(t)
  BY <1>3, <1>4, <1>5, <1>8, <1>9 DEF InRange, Behind
<1>12. Synced(t)
  <2>1. CASE s.filePosition = s.cachePosition + s.length
    BY <2>1, <1>8, <1>9 DEF Synced
  <2>2. CASE s.length = 0 /\ s.position # s.cachePosition
    <3>1. p = s.position
      BY <2>2, <1>2 DEF InCache, p
    <3>. QED  BY <2>2, <3>1, <1>8, <1>9 DEF Synced
  <2>. QED  BY <2>1, <2>2, <1>1 DEF Synced
<1>13. CacheIsCopy(t)
  <2>1. CASE InCache(s, s.position)
    <3>1. s.position = s.cachePosition + s.offset
      BY <2>1, <1>1 DEF CacheIsCopy
    <3>2. p = s.cachePosition + o
      BY <3>1, <1>2 DEF p, o
    <3>. QED  BY <3>2, <1>1, <1>8, <1>9 DEF CacheIsCopy
  <2>2. CASE ~InCache(s, s.position)
    <3>1. p = s.position
      BY <2>2, <1>2 DEF p
    <3>. QED  BY <2>2, <3>1, <1>1, <1>8, <1>9 DEF CacheIsCopy, InCache
  <2>. QED  BY <2>1, <2>2
<1>. QED  BY <1>5, <1>6, <1>8, <1>9, <1>10, <1>11, <1>12, <1>13 DEF Sound, o, p

\* A cache that Write can put bytes in: the position is where its bytes end.
Prepared(s) ==
  /\ s \in CacheType /\ s.filePosition <= Len(s.file)
  /\ s.length = s.offset /\ s.offset <= Len(s.cache) /\ s.offset <= CacheSize
  /\ s.filePosition + s.offset = s.position
  /\ s.filePosition = s.cachePosition \/ s.position # s.cachePosition + s.length
  /\ Behind(s) = Overwrite(s.file, s.filePosition, SubSeq(s.cache, 1, s.offset))

LEMMA StartIsPrepared ==
  ASSUME NEW s, Sound(s), s.filePosition = IF s.dirty THEN s.position - s.offset ELSE s.position,
         NEW t, t = IF s.dirty THEN s ELSE DirtyCache(s)
  PROVE  /\ Prepared(t) /\ Sound(t) /\ Behind(t) = Behind(s) /\ t.position = s.position
         /\ ~t.dirty => t.offset = 0
<1>1. s \in CacheType /\ InRange(s) /\ Synced(s)
  BY DEF Sound
<1>2. /\ s.file \in Seq(Cells) /\ s.cache \in Seq(Cells) /\ Len(s.file) \in Nat /\ Len(s.cache) \in Nat
      /\ s.filePosition \in Nat /\ s.offset \in Nat /\ s.length \in Nat /\ s.cachePosition \in Nat
      /\ s.position \in Nat /\ CacheSize \in Nat
  BY <1>1, LenProperties, SizeAssumption DEF CacheType
<1>3. CASE s.dirty
  <2>1. t = s /\ Behind(s) = Overwrite(s.file, s.filePosition, SubSeq(s.cache, 1, s.offset))
    BY <1>3 DEF Behind
  <2>. QED  BY <2>1, <1>1, <1>2, <1>3 DEF Prepared, InRange, Synced
<1>4. CASE ~s.dirty
  <2>1. t = [s EXCEPT !.dirty = FALSE, !.cachePosition = s.position, !.offset = 0, !.length = 0]
    BY <1>4 DEF DirtyCache
  <2>2. t.dirty = FALSE /\ t.cachePosition = s.position /\ t.offset = 0 /\ t.length = 0
    BY <2>1, <1>1 DEF CacheType
  <2>3. t.file = s.file /\ t.filePosition = s.filePosition /\ t.position = s.position /\ t.cache = s.cache
    BY <2>1, <1>1 DEF CacheType
  <2>4. t \in CacheType
    <3>1. PICK v : v = [s EXCEPT !.cachePosition = s.position, !.offset = 0, !.length = 0]
      OBVIOUS
    <3>2. v \in CacheType
      BY <3>1, <1>1, <1>2 DEF CacheType
    <3>3. t = [v EXCEPT !.dirty = FALSE]
      BY <2>1, <3>1, <1>1 DEF CacheType
    <3>. QED  BY <3>2, <3>3 DEF CacheType
  <2>5. Behind(t) = Behind(s) /\ Behind(s) = s.file
    BY <2>2, <2>3, <1>4 DEF Behind
  <2>6. SubSeq(s.cache, 1, 0) = << >>
    BY SubSeqEmpty
  <2>7. Overwrite(s.file, s.filePosition, << >>) = s.file
    BY <1>1, <1>2, OverwriteNothing DEF InRange
  <2>8. Prepared(t)
    <3>1. Behind(t) = Overwrite(t.file, t.filePosition, SubSeq(t.cache, 1, t.offset))
      BY <2>2, <2>3, <2>5, <2>6, <2>7
    <3>2. s.filePosition = s.position /\ s.filePosition <= Len(s.file)
      BY <1>1, <1>4 DEF InRange
    <3>3. t.filePosition <= Len(t.file) /\ t.offset <= Len(t.cache) /\ t.offset <= CacheSize
      BY <3>2, <2>2, <2>3, <1>2
    <3>4. t.length = t.offset /\ t.filePosition + t.offset = t.position /\ t.filePosition = t.cachePosition
      BY <3>2, <2>2, <2>3, <1>2
    <3>. QED  BY <2>4, <3>1, <3>3, <3>4 DEF Prepared
  <2>9. Sound(t)
    <3>1. InRange(t)
      BY <2>2, <2>3, <2>5, <1>1, <1>2 DEF InRange
    <3>2. Synced(t)
      BY <2>2, <2>3, <1>2, <1>4 DEF Synced
    <3>3. CacheIsCopy(t)
      BY <2>2, <2>3, <1>2 DEF CacheIsCopy, InCache
    <3>. QED  BY <2>4, <3>1, <3>2, <3>3 DEF Sound
  <2>. QED  BY <2>2, <2>3, <2>5, <2>8, <2>9
<1>. QED  BY <1>3, <1>4

\* What is put in the cache is what the stream behind will have at the position.
LEMMA PutKeeps ==
  ASSUME NEW s, Prepared(s), NEW d \in Seq(Cells), s.offset + Len(d) <= CacheSize,
         NEW t, t = [s EXCEPT !.cache = SubSeq(s.cache, 1, s.offset) \o d,
                              !.offset = s.offset + Len(d), !.position = s.position + Len(d),
                              !.length = s.offset + Len(d), !.dirty = TRUE]
  PROVE  /\ Sound(t) /\ t.dirty = TRUE /\ t.position = s.position + Len(d)
         /\ t.filePosition = t.position - t.offset
         /\ s.position <= Len(Behind(s)) /\ Behind(s) \in Seq(Cells)
         /\ Behind(t) = Overwrite(Behind(s), s.position, d)
<1>. DEFINE e == SubSeq(s.cache, 1, s.offset)
            k == e \o d
            o == s.offset + Len(d)
            p == s.position + Len(d)
<1>1. t = [s EXCEPT !.cache = k, !.offset = o, !.position = p, !.length = o, !.dirty = TRUE]
  OBVIOUS
<1>2. /\ s.file \in Seq(Cells) /\ s.cache \in Seq(Cells) /\ Len(s.file) \in Nat /\ Len(s.cache) \in Nat
      /\ s.filePosition \in Nat /\ s.offset \in Nat /\ s.length \in Nat /\ s.cachePosition \in Nat
      /\ s.position \in Nat /\ CacheSize \in Nat /\ Len(d) \in Nat /\ s \in CacheType
  BY LenProperties, SizeAssumption DEF CacheType, Prepared
<1>3. /\ s.filePosition <= Len(s.file) /\ s.offset <= Len(s.cache)
      /\ s.filePosition + s.offset = s.position /\ Behind(s) = Overwrite(s.file, s.filePosition, e)
  BY DEF Prepared
<1>. HIDE DEF k, o, p
<1>4. e \in Seq(Cells) /\ Len(e) = s.offset
  BY <1>2, <1>3, Beginning
<1>. HIDE DEF e
<1>5. k \in Seq(Cells) /\ Len(k) = o
  BY <1>4, ConcatProperties DEF k, o
<1>6. o \in Nat /\ p \in Nat /\ p - o = s.filePosition
  BY <1>2, <1>3, SMTT(30) DEF o, p
<1>7. t.cache = k /\ t.offset = o /\ t.position = p /\ t.length = o /\ t.dirty = TRUE
  BY <1>1, <1>2 DEF CacheType
<1>8. t.file = s.file /\ t.filePosition = s.filePosition /\ t.cachePosition = s.cachePosition
  BY <1>1, <1>2 DEF CacheType
<1>9. t \in CacheType
  <2>1. PICK v : v = [s EXCEPT !.cache = k, !.offset = o, !.position = p, !.length = o]
    OBVIOUS
  <2>2. v \in CacheType
    BY <2>1, <1>2, <1>5, <1>6 DEF CacheType
  <2>3. t = [v EXCEPT !.dirty = TRUE]
    BY <1>1, <2>1, <1>2 DEF CacheType
  <2>. QED  BY <2>2, <2>3 DEF CacheType
<1>10. s.position <= Len(Behind(s)) /\ Behind(s) \in Seq(Cells)
  BY <1>2, <1>3, <1>4, OverwriteGives
<1>11. Behind(t) = Overwrite(s.file, s.filePosition, k)
  BY <1>5, <1>7, <1>8, SubSeqFull DEF Behind
<1>12. Behind(t) = Overwrite(Behind(s), s.position, d)
  <2>1. Overwrite(Overwrite(s.file, s.filePosition, e), s.filePosition + Len(e), d) = Overwrite(s.file, s.filePosition, e \o d)
    BY <1>2, <1>3, <1>4, OverwriteTwice
  <2>. QED  BY <2>1, <1>3, <1>4, <1>11 DEF k
<1>13. p <= Len(Behind(t))
  BY <1>2, <1>10, <1>12, OverwriteGives DEF p
<1>14. InRange(t)
  <2>1. o <= CacheSize /\ o <= Len(k) /\ o <= o /\ s.filePosition <= Len(s.file)
    BY <1>2, <1>3, <1>5, <1>6 DEF o
  <2>. QED  BY <2>1, <1>7, <1>8, <1>13 DEF InRange
<1>15. Synced(t)
  BY <1>2, <1>7, <1>8, SMTT(30) DEF Synced, Prepared, o, p
<1>16. CacheIsCopy(t)
  BY <1>7 DEF CacheIsCopy
<1>. QED  BY <1>6, <1>7, <1>8, <1>9, <1>10, <1>12, <1>14, <1>15, <1>16 DEF Sound, p

-----------------------------------------------------------------------------
(* Every step keeps the invariant                                          *)

LEMMA ReadLevelKeeps ==
  ASSUME CacheInv, ReadLevel
  PROVE  CacheInv'
<1>1. doing = "read" /\ ~FlushThrows(c) /\ Sound(c) /\ Behind(c) = content
      /\ expected = buffer \o BytesAt(content, c.position, Len(todo))
  BY DEF CacheInv, ReadLevel, Underway, Reaches
<1>2. /\ todo \in Seq(Cells) /\ buffer \in Seq(Cells) /\ content \in Seq(Cells) /\ expected \in Seq(Cells)
      /\ Len(todo) \in Nat /\ Len(content) \in Nat
  BY LenProperties DEF CacheInv, CacheTypeOK
<1>3. PICK s : s = IF c.dirty THEN FlushCache(c) ELSE c
  OBVIOUS
<1>4. Sound(s) /\ s.dirty = FALSE /\ s.file = content /\ s.position = c.position
  <2>1. CASE c.dirty
    <3>1. s = FlushCache(c)
      BY <2>1, <1>3
    <3>. QED  BY <3>1, <1>1, FlushKeeps
  <2>2. CASE ~c.dirty
    <3>1. c.dirty = FALSE
      BY <2>2, <1>1 DEF Sound, CacheType
    <3>. QED  BY <2>2, <3>1, <1>1, <1>3 DEF Behind
  <2>. QED  BY <2>1, <2>2
<1>5. /\ s.offset \in Nat /\ s.length \in Nat /\ s.position \in Nat /\ s.cachePosition \in Nat
      /\ s.offset <= s.length /\ s.position <= Len(content)
  BY <1>4 DEF Sound, CacheType, InRange, Behind
<1>. DEFINE in == InCache(s, s.position)
<1>6. PICK n : n = IF in THEN Min({Len(todo), s.length - s.offset}) ELSE 0
  OBVIOUS
<1>7. /\ n \in Nat /\ n <= Len(todo)
      /\ IF in THEN n <= s.length - s.offset ELSE n = 0
      /\ in /\ ~(n >= Len(todo)) => n = s.length - s.offset
  <2>1. s.length - s.offset \in Nat
    BY <1>5
  <2>2. CASE in
    <3>1. n = IF Len(todo) <= s.length - s.offset THEN Len(todo) ELSE s.length - s.offset
      BY <2>1, <2>2, <1>2, <1>6, MinOfTwo
    <3>. QED  BY <2>1, <2>2, <3>1, <1>2
  <2>3. CASE ~in
    BY <2>3, <1>2, <1>6
  <2>. QED  BY <2>2, <2>3
<1>8. PICK t : t = [s EXCEPT !.offset = s.offset + n, !.position = s.position + n]
  OBVIOUS
<1>9. /\ Sound(t) /\ t.dirty = FALSE /\ t.file = content /\ t.position = s.position + n
      /\ t.offset = s.offset + n /\ t.length = s.length /\ t.cachePosition = s.cachePosition
      /\ s.position + n <= Len(content)
      /\ SubSeq(s.cache, s.offset + 1, s.offset + n) = SubSeq(content, s.position + 1, s.position + n)
  BY <1>4, <1>7, <1>8, TakeKeeps, ZenonT(40)
<1>. DEFINE full == in /\ n >= Len(todo)
<1>10. /\ buffer' = buffer \o SubSeq(s.cache, s.offset + 1, s.offset + n)
       /\ todo' = SubSeq(todo, n + 1, Len(todo))
       /\ c' = IF full THEN t ELSE FillCache(t)
       /\ doing' = IF full THEN "idle" ELSE "read"
       /\ content' = content /\ expected' = expected
  BY <1>3, <1>6, <1>8 DEF ReadLevel
<1>11. Sound(c') /\ c'.dirty = FALSE /\ c'.file = content /\ c'.position = s.position + n
  <2>1. CASE full
    BY <2>1, <1>9, <1>10
  <2>2. CASE ~full
    <3>1. c' = FillCache(t)
      BY <2>2, <1>10
    <3>2. ~InCache(t, t.position)
      <4>1. CASE in
        <5>1. n = s.length - s.offset /\ s.position = s.cachePosition + s.offset
          BY <4>1, <2>2, <1>4, <1>7 DEF Sound, CacheIsCopy
        <5>2. s.position + n = s.cachePosition + s.length
          BY <5>1, <1>5
        <5>. QED  BY <5>2, <1>5, <1>9 DEF InCache
      <4>2. CASE ~in
        <5>1. s.position + n = s.position
          BY <4>2, <1>5, <1>7
        <5>2. t.position = s.position
          BY <5>1, <1>9
        <5>3. InCache(t, t.position) <=> InCache(s, s.position)
          BY <5>2, <1>9 DEF InCache
        <5>. QED  BY <4>2, <5>3
      <4>. QED  BY <4>1, <4>2
    <3>. QED  BY <3>1, <3>2, <1>9, FillKeeps
  <2>. QED  BY <2>1, <2>2
<1>. DEFINE part == SubSeq(content, s.position + 1, s.position + n)
            rest == BytesAt(content, s.position + n, Len(todo) - n)
<1>12. BytesAt(content, c.position, Len(todo)) = part \o rest
  <2>1. PICK at : at = s.position
    OBVIOUS
  <2>2. at \in Nat /\ at + n <= Len(content)
    BY <2>1, <1>5, <1>9
  <2>3. BytesAt(content, at, Len(todo)) = SubSeq(content, at + 1, at + n) \o BytesAt(content, at + n, Len(todo) - n)
    BY <2>2, <1>2, <1>7, BytesAtSplit, ZenonT(40)
  <2>. QED  BY <2>1, <2>3, <1>4
<1>13. part \in Seq(Cells) /\ rest \in Seq(Cells)
  <2>1. s.position + n \in Nat /\ Len(todo) - n \in Nat
    BY <1>2, <1>5, <1>7
  <2>. QED  BY <2>1, <1>2, <1>5, <1>9, Portion, BytesAtGives
<1>14. todo' \in Seq(Cells) /\ Len(todo') = Len(todo) - n
  BY <1>2, <1>7, <1>10, SplitAt
<1>15. rest = BytesAt(content, c'.position, Len(todo'))
  BY <1>11, <1>14
<1>16. full => rest = << >>
  <2>1. SUFFICES ASSUME full PROVE rest = << >>
    OBVIOUS
  <2>2. Len(todo) - n = 0 /\ s.position + n \in Nat
    BY <2>1, <1>2, <1>5, <1>7
  <2>. QED  BY <2>2, <1>2, <1>9, BytesAtNothing
<1>. HIDE DEF part, rest, full
<1>17. buffer' = buffer \o part /\ buffer' \in Seq(Cells)
  BY <1>2, <1>9, <1>10, <1>13, ConcatProperties DEF part
<1>18. expected' = buffer' \o rest
  <2>1. (buffer \o part) \o rest = buffer \o (part \o rest)
    BY <1>2, <1>13, ConcatAssociative, SMTT(30)
  <2>. QED  BY <2>1, <1>1, <1>10, <1>12, <1>17
<1>19. full => buffer' = expected'
  BY <1>16, <1>17, <1>18, ConcatEmptySeq
<1>20. IsPrefix(buffer', expected')
  BY <1>13, <1>17, <1>18, PrefixOfMore
<1>21. Behind(c') = content'
  BY <1>10, <1>11 DEF Behind
<1>22. Underway'
  BY <1>10, <1>15, <1>18, <1>19 DEF Underway
<1>23. CacheTypeOK'
  BY <1>2, <1>10, <1>14, <1>17 DEF CacheTypeOK
<1>24. Reaches'
  BY <1>10, <1>21 DEF Reaches
<1>. QED  BY <1>11, <1>20, <1>22, <1>23, <1>24 DEF CacheInv

\* The bytes put in the cache move from what Write has still to take to what the stream
\* behind will hold.
LEMMA WriteLevelKeeps ==
  ASSUME CacheInv, WriteLevel
  PROVE  CacheInv'
<1>1. /\ doing = "write" /\ Sound(c) /\ Aligned /\ buffer = expected
      /\ Overwrite(Behind(c), c.position, todo) = content
  BY DEF CacheInv, WriteLevel, Underway, Reaches
<1>2. /\ todo \in Seq(Cells) /\ buffer \in Seq(Cells) /\ content \in Seq(Cells) /\ expected \in Seq(Cells)
      /\ Len(todo) \in Nat /\ CacheSize \in Nat \ {0} /\ IsPrefix(buffer, expected)
  BY LenProperties, SizeAssumption DEF CacheInv, CacheTypeOK
<1>3. PICK s : s = IF c.dirty THEN c ELSE DirtyCache(c)
  OBVIOUS
<1>4. /\ Prepared(s) /\ Sound(s) /\ Behind(s) = Behind(c) /\ s.position = c.position
      /\ ~s.dirty => s.offset = 0
  BY <1>1, <1>3, StartIsPrepared DEF Aligned
<1>5. s.offset \in Nat /\ s.offset <= CacheSize /\ s.position \in Nat /\ s.filePosition \in Nat
      /\ s.filePosition + s.offset = s.position
  BY <1>4 DEF Prepared, CacheType
<1>6. PICK n : n = Min({Len(todo), CacheSize - s.offset})
  OBVIOUS
<1>7. /\ n \in Nat /\ n <= Len(todo) /\ s.offset + n <= CacheSize
      /\ ~(n >= Len(todo)) => n = CacheSize - s.offset
  <2>1. CacheSize - s.offset \in Nat
    BY <1>2, <1>5
  <2>2. n = IF Len(todo) <= CacheSize - s.offset THEN Len(todo) ELSE CacheSize - s.offset
    BY <2>1, <1>2, <1>6, MinOfTwo
  <2>. QED  BY <2>1, <2>2, <1>2, <1>5
<1>. DEFINE d == SubSeq(todo, 1, n)
            rest == SubSeq(todo, n + 1, Len(todo))
<1>8. d \in Seq(Cells) /\ Len(d) = n /\ rest \in Seq(Cells) /\ Len(rest) = Len(todo) - n /\ todo = d \o rest
  <2>. DEFINE t == todo
  <2>1. t \in Seq(Cells) /\ n \in Nat /\ n <= Len(t)
    BY <1>2, <1>7
  <2>. HIDE DEF t
  <2>2. /\ SubSeq(t, 1, n) \in Seq(Cells) /\ Len(SubSeq(t, 1, n)) = n
        /\ SubSeq(t, n + 1, Len(t)) \in Seq(Cells) /\ Len(SubSeq(t, n + 1, Len(t))) = Len(t) - n
        /\ t = SubSeq(t, 1, n) \o SubSeq(t, n + 1, Len(t))
    BY <2>1, SplitAt, Zenon
  <2>. QED  BY <2>2 DEF t
<1>9. PICK t : t = IF n = 0 THEN s
                   ELSE [s EXCEPT !.cache = SubSeq(s.cache, 1, s.offset) \o d,
                                  !.offset = s.offset + n, !.position = s.position + n,
                                  !.length = s.offset + n, !.dirty = TRUE]
  OBVIOUS
<1>. DEFINE full == n >= Len(todo)
<1>10. /\ todo' = rest
       /\ c' = IF full THEN t ELSE FlushCache(t)
       /\ doing' = IF full THEN "idle" ELSE IF FlushThrows(t) THEN "failed" ELSE "write"
       /\ buffer' = buffer /\ content' = content /\ expected' = expected
  BY <1>3, <1>6, <1>9 DEF WriteLevel
<1>. HIDE DEF d, rest
<1>11. /\ Behind(s) \in Seq(Cells) /\ s.position <= Len(Behind(s))
  <2>1. s \in CacheType /\ InRange(s)
    BY <1>4 DEF Sound
  <2>. QED  BY <2>1, BehindType DEF InRange
<1>12. /\ Sound(t) /\ t.position = s.position + n /\ Behind(t) = Overwrite(Behind(s), s.position, d)
       /\ t.filePosition = t.position - t.offset
       /\ ~full => t.dirty = TRUE
  <2>1. CASE n = 0
    <3>1. t = s /\ d = << >> /\ s.position + n = s.position
      BY <2>1, <1>5, <1>8, <1>9, EmptySeq
    <3>2. Overwrite(Behind(s), s.position, << >>) = Behind(s)
      BY <1>5, <1>11, OverwriteNothing
    <3>3. s.filePosition = s.position - s.offset
      BY <1>5
    <3>4. ~full => s.dirty = TRUE
      <4>1. ~full => s.offset # 0
        BY <2>1, <1>2, <1>5, <1>7
      <4>2. s.dirty \in BOOLEAN
        BY <1>4 DEF Prepared, CacheType
      <4>. QED  BY <4>1, <4>2, <1>4
    <3>. QED  BY <3>1, <3>2, <3>3, <3>4, <1>4
  <2>2. CASE n # 0
    <3>1. t = [s EXCEPT !.cache = SubSeq(s.cache, 1, s.offset) \o d,
                        !.offset = s.offset + Len(d), !.position = s.position + Len(d),
                        !.length = s.offset + Len(d), !.dirty = TRUE]
      BY <2>2, <1>8, <1>9
    <3>2. /\ Sound(t) /\ t.dirty = TRUE /\ t.position = s.position + Len(d)
          /\ t.filePosition = t.position - t.offset /\ Behind(t) = Overwrite(Behind(s), s.position, d)
      <4>1. s.offset + Len(d) <= CacheSize
        BY <1>7, <1>8
      <4>2. Prepared(s) /\ d \in Seq(Cells)
        BY <1>4, <1>8
      <4>. QED  BY <4>1, <4>2, <3>1, PutKeeps, Zenon
    <3>. QED  BY <3>2, <1>8
  <2>. QED  BY <2>1, <2>2
<1>13. Overwrite(Behind(t), t.position, rest) = content
  <2>1. Overwrite(Overwrite(Behind(s), s.position, d), s.position + Len(d), rest) = Overwrite(Behind(s), s.position, d \o rest)
    <3>1. PICK b, at : b = Behind(s) /\ at = s.position
      OBVIOUS
    <3>2. b \in Seq(Cells) /\ at \in Nat /\ at <= Len(b) /\ d \in Seq(Cells) /\ rest \in Seq(Cells)
      BY <3>1, <1>5, <1>8, <1>11
    <3>3. Overwrite(Overwrite(b, at, d), at + Len(d), rest) = Overwrite(b, at, d \o rest)
      BY <3>2, OverwriteTwice
    <3>. QED  BY <3>1, <3>3
  <2>. QED  BY <2>1, <1>1, <1>4, <1>8, <1>12
<1>14. t.position <= Len(Behind(t)) /\ t.position \in Nat /\ Behind(t) \in Seq(Cells)
  <2>1. t \in CacheType /\ InRange(t)
    BY <1>12 DEF Sound
  <2>. QED  BY <2>1, BehindType DEF InRange, CacheType
<1>15. CacheTypeOK' /\ IsPrefix(buffer', expected')
  BY <1>2, <1>8, <1>10 DEF CacheTypeOK
<1>16. CASE full
  <2>1. rest = << >> /\ c' = t /\ doing' = "idle"
    BY <1>16, <1>2, <1>7, <1>8, <1>10, EmptySeq
  <2>2. Behind(t) = content
    BY <2>1, <1>13, <1>14, OverwriteNothing
  <2>3. Underway' /\ Reaches'
    BY <2>1, <2>2, <1>1, <1>10 DEF Underway, Reaches
  <2>. QED  BY <2>1, <2>3, <1>12, <1>15 DEF CacheInv
<1>17. CASE ~full /\ FlushThrows(t)
  BY <1>17, <1>10, <1>15 DEF CacheInv
<1>18. CASE ~full /\ ~FlushThrows(t)
  <2>1. c' = FlushCache(t) /\ doing' = "write" /\ t.dirty = TRUE
    BY <1>10, <1>12, <1>18
  <2>2. Sound(c') /\ c'.dirty = FALSE /\ Behind(c') = Behind(t) /\ c'.position = t.position
    BY <2>1, <1>12, <1>18, FlushKeeps
  <2>3. t \in CacheType /\ InRange(t)
    BY <1>12 DEF Sound
  <2>4. c'.filePosition = t.filePosition + (IF t.dirty THEN t.offset ELSE 0)
    BY <2>1, <2>3, <1>18, FlushFields
  <2>5. c'.filePosition = c'.position
    <3>1. t.filePosition + t.offset = t.position
      BY <2>3, <1>12 DEF CacheType
    <3>. QED  BY <2>1, <2>2, <2>4, <3>1
  <2>6. Underway'
    BY <2>1, <2>2, <2>5, <1>1, <1>10 DEF Underway, Aligned
  <2>7. Reaches'
    BY <2>1, <2>2, <1>10, <1>13, <1>14 DEF Reaches
  <2>. QED  BY <2>2, <2>6, <2>7, <1>15 DEF CacheInv
<1>. QED  BY <1>16, <1>17, <1>18

LEMMA EmptyPrefix ==
  << >> \in Seq(Cells) /\ IsPrefix(<< >>, << >>)
<1>1. << >> \in Seq(Cells)
  BY EmptySeq, Zenon
<1>2. << >> \o << >> = << >>
  BY <1>1, ConcatEmptySeq, Zenon
<1>3. IsPrefix(<< >>, << >> \o << >>)
  BY <1>1, PrefixOfMore, Zenon
<1>. QED  BY <1>1, <1>2, <1>3, Zenon

LEMMA FlushStepKeeps ==
  ASSUME CacheInv, Flush
  PROVE  CacheInv'
<1>1. doing = "idle" /\ Sound(c) /\ Behind(c) = content
  BY DEF CacheInv, Flush, Underway, Reaches
<1>2. /\ c' = FlushCache(c) /\ doing' = IF FlushThrows(c) THEN "failed" ELSE "idle"
      /\ buffer' = << >> /\ expected' = << >> /\ todo' = todo /\ content' = content
  BY DEF Flush
<1>3. << >> \in Seq(Cells) /\ IsPrefix(<< >>, << >>)
  BY EmptyPrefix
<1>4. CacheTypeOK' /\ IsPrefix(buffer', expected')
  BY <1>2, <1>3 DEF CacheTypeOK, CacheInv
<1>5. CASE FlushThrows(c)
  BY <1>2, <1>4, <1>5 DEF CacheInv
<1>6. CASE ~FlushThrows(c)
  <2>1. Sound(c') /\ Behind(c') = content /\ doing' = "idle"
    BY <1>1, <1>2, <1>6, FlushKeeps
  <2>. QED  BY <2>1, <1>2, <1>4 DEF CacheInv, Underway, Reaches
<1>. QED  BY <1>5, <1>6

\* A seek by the rule leaves a position that FillCache will know for a new one.
LEMMA SetPositionKeeps ==
  ASSUME SeekRule # "any", CacheInv, NEW at \in 0 .. Len(content), SetPosition(at)
  PROVE  CacheInv'
<1>1. doing = "idle" /\ Sound(c) /\ Behind(c) = content /\ Len(content) \in Nat
  BY LenProperties DEF CacheInv, SetPosition, Underway, Reaches, CacheTypeOK
<1>2. PICK s : s = IF c.dirty THEN FlushCache(c) ELSE c
  OBVIOUS
<1>3. ~InCache(s, at) /\ at # s.cachePosition + s.offset
  BY <1>2 DEF SetPosition
<1>4. /\ c' = [c EXCEPT !.position = at] /\ doing' = doing /\ buffer' = << >> /\ expected' = << >>
      /\ todo' = todo /\ content' = content
  BY DEF SetPosition
<1>5. c \in CacheType /\ InRange(c) /\ Synced(c) /\ CacheIsCopy(c)
  BY <1>1 DEF Sound
<1>6. c.offset \in Nat /\ c.length \in Nat /\ c.cachePosition \in Nat /\ at \in Nat /\ at <= Len(content)
      /\ c.offset <= c.length
  BY <1>1, <1>5 DEF CacheType, InRange
<1>7. /\ c' \in CacheType /\ c'.position = at /\ c'.file = c.file /\ c'.filePosition = c.filePosition
      /\ c'.cache = c.cache /\ c'.offset = c.offset /\ c'.length = c.length
      /\ c'.cachePosition = c.cachePosition /\ c'.dirty = c.dirty
  BY <1>4, <1>5, <1>6 DEF CacheType
<1>8. Behind(c') = Behind(c)
  BY <1>7 DEF Behind
<1>9. InRange(c')
  BY <1>1, <1>5, <1>6, <1>7, <1>8 DEF InRange
<1>10. ASSUME c.dirty PROVE Sound(c')
  <2>1. at # c.cachePosition + c.length
    <3>1. c.length = c.offset
      BY <1>5, <1>10 DEF InRange
    <3>2. CASE FlushThrows(c)
      <4>1. s = StreamWrite(c)
        BY <1>2, <1>10, <3>2 DEF FlushCache
      <4>. DEFINE f == Overwrite(c.file, c.filePosition, SubSeq(c.cache, 1, Room(c)))
                  q == c.filePosition + Room(c)
      <4>2. s = [c EXCEPT !.file = f, !.filePosition = q]
        BY <4>1 DEF StreamWrite
      <4>. HIDE DEF f, q
      <4>3. s.cachePosition = c.cachePosition /\ s.offset = c.offset
        BY <4>2, <1>5 DEF CacheType
      <4>. QED  BY <4>3, <3>1, <1>3
    <3>3. CASE ~FlushThrows(c)
      <4>1. s = FlushCache(c)
        BY <1>2, <1>10
      <4>2. s.cachePosition = c.cachePosition + c.length /\ s.offset = 0
        BY <4>1, <3>3, <1>5, FlushFields
      <4>. QED  BY <4>2, <1>3, <1>6
    <3>. QED  BY <3>2, <3>3
  <2>. QED  BY <2>1, <1>7, <1>9, <1>10 DEF Sound, Synced, CacheIsCopy
<1>11. ASSUME ~c.dirty PROVE Sound(c')
  <2>1. ~InCache(c, at) /\ at # c.cachePosition + c.offset
    BY <1>2, <1>3, <1>11
  <2>2. Synced(c')
    <3>1. c.length = 0 => at # c.cachePosition
      BY <2>1, <1>6
    <3>. QED  BY <3>1, <1>5, <1>7, <1>11 DEF Synced
  <2>3. CacheIsCopy(c')
    BY <2>1, <1>5, <1>7, <1>11 DEF CacheIsCopy, InCache
  <2>. QED  BY <2>2, <2>3, <1>7, <1>9 DEF Sound
<1>12. Sound(c')
  BY <1>10, <1>11
<1>13. << >> \in Seq(Cells) /\ IsPrefix(<< >>, << >>)
  BY EmptyPrefix
<1>14. CacheTypeOK' /\ IsPrefix(buffer', expected')
  BY <1>4, <1>13 DEF CacheTypeOK, CacheInv
<1>. QED  BY <1>1, <1>4, <1>8, <1>12, <1>14 DEF CacheInv, Underway, Reaches

LEMMA CallsKeep ==
  ASSUME CacheInv,
         (\E size \in 1 .. MaxRequest : CallRead(size)) \/ (\E data \in Requests : CallWrite(data))
  PROVE  CacheInv'
<1>0. Sound(c) => c.position \in Nat
  BY DEF Sound, CacheType
<1>1. ASSUME NEW size \in 1 .. MaxRequest, CallRead(size) PROVE CacheInv'
  <2>1. doing = "idle" /\ Sound(c) /\ Behind(c) = content /\ content \in Seq(Cells) /\ size \in Nat
    BY <1>1, SizeAssumption DEF CacheInv, CallRead, Underway, Reaches, CacheTypeOK
  <2>2. /\ c' = c /\ doing' = "read" /\ todo' = [n \in 1 .. size |-> 0] /\ buffer' = << >>
        /\ expected' = BytesAt(content, c.position, size) /\ content' = content
    BY <1>1 DEF CallRead
  <2>3. todo' \in Seq(Cells) /\ Len(todo') = size
    <3>1. todo' \in [1 .. size -> Cells]
      BY <2>2 DEF Cells
    <3>. QED  BY <3>1, <2>1, <2>2
  <2>4. c.position \in Nat /\ c.position <= Len(content)
    BY <2>1, <1>0 DEF Sound, InRange
  <2>5. expected' \in Seq(Cells)
    BY <2>1, <2>2, <2>4, BytesAtGives
  <2>6. << >> \in Seq(Cells) /\ << >> \o expected' = expected'
    BY <2>5, EmptySeq, ConcatEmptySeq
  <2>7. IsPrefix(buffer', expected')
    <3>1. IsPrefix(<< >>, << >> \o expected')
      BY <2>5, <2>6, PrefixOfMore
    <3>. QED  BY <3>1, <2>2, <2>6
  <2>8. CacheTypeOK'
    BY <2>1, <2>2, <2>3, <2>5, <2>6 DEF CacheTypeOK
  <2>9. Underway' /\ Reaches'
    BY <2>1, <2>2, <2>3, <2>6 DEF Underway, Reaches
  <2>. QED  BY <2>1, <2>2, <2>7, <2>8, <2>9 DEF CacheInv
<1>2. ASSUME NEW data \in Requests, CallWrite(data) PROVE CacheInv'
  <2>1. doing = "idle" /\ Sound(c) /\ Behind(c) = content /\ content \in Seq(Cells) /\ Aligned
    BY <1>2 DEF CacheInv, CallWrite, Underway, Reaches, CacheTypeOK
  <2>2. /\ c' = c /\ doing' = "write" /\ todo' = data /\ buffer' = << >> /\ expected' = << >>
        /\ content' = Overwrite(content, c.position, data)
    BY <1>2 DEF CallWrite
  <2>3. data \in Seq(Cells)
    <3>1. data \in Seq(Bytes)
      BY SizeAssumption, BoundedIsSeq DEF Requests
    <3>. QED  BY <3>1, SeqMonotonic DEF Cells
  <2>4. c.position \in Nat /\ c.position <= Len(content)
    BY <2>1, <1>0 DEF Sound, InRange
  <2>5. content' \in Seq(Cells)
    BY <2>1, <2>2, <2>3, <2>4, OverwriteGives
  <2>6. << >> \in Seq(Cells) /\ IsPrefix(<< >>, << >>)
    BY EmptyPrefix
  <2>7. CacheTypeOK' /\ IsPrefix(buffer', expected')
    BY <2>2, <2>3, <2>5, <2>6 DEF CacheTypeOK
  <2>8. Underway' /\ Reaches'
    BY <2>1, <2>2, <2>4 DEF Underway, Reaches, Aligned
  <2>. QED  BY <2>1, <2>2, <2>7, <2>8 DEF CacheInv
<1>. QED  BY <1>1, <1>2

LEMMA CacheInitial ==
  ASSUME CacheInit
  PROVE  CacheInv
<1>0. PICK file \in BoundedSeq(Bytes, Capacity) : \E at \in 0 .. Len(file) :
        /\ c = [file |-> file, filePosition |-> at, position |-> at, cache |-> << >>,
                dirty |-> TRUE, offset |-> 0, length |-> 0, cachePosition |-> 0]
        /\ content = file
  BY DEF CacheInit
<1>1. PICK at \in 0 .. Len(file) :
        /\ c = [file |-> file, filePosition |-> at, position |-> at, cache |-> << >>,
                dirty |-> TRUE, offset |-> 0, length |-> 0, cachePosition |-> 0]
        /\ content = file
  BY <1>0
<1>2. doing = "idle" /\ todo = << >> /\ buffer = << >> /\ expected = << >>
  BY DEF CacheInit
<1>3. file \in Seq(Cells)
  <2>1. file \in Seq(Bytes)
    BY SizeAssumption, BoundedIsSeq
  <2>. QED  BY <2>1, SeqMonotonic DEF Cells
<1>4. << >> \in Seq(Cells) /\ IsPrefix(<< >>, << >>) /\ Len(<< >>) = 0
  BY EmptyPrefix
<1>5. at \in Nat /\ at <= Len(file)
  BY <1>3, LenProperties
<1>6. c \in CacheType
  BY <1>1, <1>3, <1>4, <1>5 DEF CacheType
<1>7. Behind(c) = content
  <2>1. SubSeq(<< >>, 1, 0) = << >>
    BY SubSeqEmpty
  <2>2. Overwrite(file, at, << >>) = file
    BY <1>3, <1>5, OverwriteNothing
  <2>. QED  BY <2>1, <2>2, <1>1 DEF Behind
<1>8. InRange(c)
  BY <1>1, <1>4, <1>5, <1>7, SizeAssumption DEF InRange
<1>9. Synced(c) /\ CacheIsCopy(c)
  BY <1>1, <1>5 DEF Synced, CacheIsCopy
<1>10. CacheTypeOK
  BY <1>1, <1>2, <1>3, <1>4 DEF CacheTypeOK
<1>. QED  BY <1>2, <1>4, <1>6, <1>7, <1>8, <1>9, <1>10 DEF CacheInv, Sound, Underway, Reaches

LEMMA CacheStep ==
  ASSUME SeekRule # "any", CacheInv, [CacheNext]_cacheVars
  PROVE  CacheInv'
<1>1. CASE ReadLevel
  BY <1>1, ReadLevelKeeps
<1>2. CASE ReadThrows
  <2>1. doing' = "failed" /\ UNCHANGED <<todo, buffer, content, expected>>
    BY <1>2 DEF ReadThrows
  <2>. QED  BY <2>1 DEF CacheInv, CacheTypeOK
<1>3. CASE WriteLevel
  BY <1>3, WriteLevelKeeps
<1>4. CASE Flush
  BY <1>4, FlushStepKeeps
<1>5. CASE \E at \in 0 .. Len(content) : SetPosition(at)
  BY <1>5, SetPositionKeeps
<1>6. CASE (\E size \in 1 .. MaxRequest : CallRead(size)) \/ (\E data \in Requests : CallWrite(data))
  BY <1>6, CallsKeep
<1>7. CASE UNCHANGED cacheVars
  BY <1>7 DEF cacheVars, CacheInv, CacheTypeOK, Underway, Reaches, Aligned
<1>. QED  BY <1>1, <1>2, <1>3, <1>4, <1>5, <1>6, <1>7 DEF CacheNext

LEMMA CacheInvariance ==
  ASSUME SeekRule # "any"
  PROVE  CacheSpec => []CacheInv
<1>1. CacheInit => CacheInv
  BY CacheInitial
<1>2. CacheInv /\ [CacheNext]_cacheVars => CacheInv'
  BY CacheStep
<1>. QED  BY <1>1, <1>2, PTL DEF CacheSpec

-----------------------------------------------------------------------------
\* Over any mix of reads, writes, flushes and seeks, with a cache, requests and contents of
\* any size and a stream behind that may run out of room, what Read has put in the caller's
\* buffer is what a plain stream would have put there, if the client makes no seek or only
\* seeks that FillCache can tell (to a position neither in the cache nor where FillCache
\* takes the stream behind to be).
THEOREM ReadTheorem ==
  ASSUME SeekRule # "any"
  PROVE  CacheSpec => []ReadsTheStream
<1>1. CacheInv => ReadsTheStream
  BY DEF CacheInv, Underway, ReadsTheStream
<1>. QED  BY <1>1, CacheInvariance, PTL

\* Under the same rule no write is lost or misplaced: until an exception, the stream behind
\* with the dirty bytes of the cache is what a plain stream would hold, less what the Write
\* in progress has still to take.
THEOREM WriteTheorem ==
  ASSUME SeekRule # "any"
  PROVE  CacheSpec => []WritesReachTheStream
<1>1. CacheInv => WritesReachTheStream
  BY DEF CacheInv, Reaches, Behind, WritesReachTheStream
<1>. QED  BY <1>1, CacheInvariance, PTL

-----------------------------------------------------------------------------
(* Loops                                                                   *)

LEMMA NatSetInduction ==
  ASSUME NEW S, S \subseteq Nat, 0 \in S, \A n \in S : n + 1 \in S
  PROVE  Nat \subseteq S
<1>1. SUFFICES ASSUME Nat \ S # {} PROVE FALSE
  OBVIOUS
<1>2. PICK m \in Nat \ S : \A y \in Nat \ S : ~ (<<y, m>> \in OpToRel(<, Nat))
  BY <1>1, NatLessThanWellFounded, WFMin
<1>3. \A y \in Nat \ S : ~(y < m)
  BY <1>2 DEF OpToRel
<1> QED BY <1>3

\* The turns of a loop: there is a first one and one after each.
Runs(S, step, start, n) ==
  \E g \in [0 .. n -> S] : g[0] = start /\ \A i \in 1 .. n : g[i] = step[i][g[i - 1]]

LEMMA LoopRuns ==
  ASSUME NEW S, NEW step \in [Nat -> [S -> S]], NEW start \in S, NEW n \in Nat
  PROVE  Runs(S, step, start, n)
<1> DEFINE G(m) == {g \in [0 .. m -> S] : g[0] = start /\ \A i \in 1 .. m : g[i] = step[i][g[i - 1]]}
           N == {m \in Nat : G(m) # {}}
<1>1. 0 \in N
  <2>1. [i \in 0 .. 0 |-> start] \in G(0)
    OBVIOUS
  <2> QED BY <2>1
<1>2. ASSUME NEW m \in N PROVE m + 1 \in N
  <2>1. PICK g : g \in G(m)
    OBVIOUS
  <2> DEFINE f == [i \in 0 .. m + 1 |-> IF i = m + 1 THEN step[m + 1][g[m]] ELSE g[i]]
  <2>2. f \in [0 .. m + 1 -> S] /\ f[0] = start
    BY <2>1
  <2>3. ASSUME NEW i \in 1 .. m + 1 PROVE f[i] = step[i][f[i - 1]]
    BY <2>1
  <2>4. f \in G(m + 1)
    <3> HIDE DEF f
    <3> QED BY <2>2, <2>3
  <2> HIDE DEF G, f
  <2> QED BY <2>4
<1>3. Nat \subseteq N
  <2>1. N \subseteq Nat
    OBVIOUS
  <2> HIDE DEF N
  <2> QED BY <1>1, <1>2, <2>1, NatSetInduction
<1>4. n \in N
  BY <1>3
<1> QED BY <1>4 DEF Runs

\* What holds before the first turn and is kept by each holds after the last.
LEMMA LoopKeeps ==
  ASSUME NEW g, NEW n \in Nat, NEW I, g[0] \in I[0],
         \A i \in 1 .. n : g[i - 1] \in I[i - 1] => g[i] \in I[i]
  PROVE  g[n] \in I[n]
<1> DEFINE N == {m \in Nat : m <= n => g[m] \in I[m]}
<1>1. 0 \in N
  OBVIOUS
<1>2. ASSUME NEW m \in N PROVE m + 1 \in N
  <2>1. SUFFICES ASSUME m + 1 <= n PROVE g[m + 1] \in I[m + 1]
    OBVIOUS
  <2>2. m + 1 \in 1 .. n /\ (m + 1) - 1 = m /\ g[m] \in I[m]
    BY <2>1
  <2> QED BY <2>2
<1>3. Nat \subseteq N
  <2>1. N \subseteq Nat
    OBVIOUS
  <2> HIDE DEF N
  <2> QED BY <1>1, <1>2, <2>1, NatSetInduction
<1> QED BY <1>3

-----------------------------------------------------------------------------
(* Filesystem: trees                                                       *)

Trees == [dirs : SUBSET Seq(Names), files : SUBSET Seq(Names)]

\* Every file and directory is in a directory of the tree, up to the root.
Whole(tree) ==
  /\ Root \notin tree.dirs \cup tree.files /\ tree.dirs \cap tree.files = {}
  /\ \A q \in tree.dirs \cup tree.files : \A i \in 1 .. Len(q) - 1 : SubSeq(q, 1, i) \in tree.dirs

\* What DeleteDirectory may do to a tree: directories go, none that is not empty, and in a
\* call for a path in T, from a current directory in T, only those in T.
Lessens(o, r) ==
  /\ r \in Outcomes /\ r.tree.files = o.tree.files /\ r.tree.dirs \subseteq o.tree.dirs
  /\ Whole(o.tree) => Whole(r.tree)
Spares(T, o, r) == \A q \in o.tree.dirs \ r.tree.dirs : IsPrefix(T, q)

LEMMA PrefixGives ==
  ASSUME NEW p \in Seq(Names), NEW q \in Seq(Names)
  PROVE  IsPrefix(p, q) <=> Len(p) <= Len(q) /\ \A i \in 1 .. Len(p) : p[i] = q[i]
<1>1. Len(p) \in Nat /\ Len(q) \in Nat
  OBVIOUS
<1>2. ASSUME Len(p) <= Len(q)
      PROVE  SubSeq(p, 1, Len(p)) = SubSeq(q, 1, Len(p)) <=> \A i \in 1 .. Len(p) : p[i] = q[i]
  <2> DEFINE a == SubSeq(p, 1, Len(p))
             b == SubSeq(q, 1, Len(p))
  <2>1. a \in Seq(Names) /\ b \in Seq(Names) /\ Len(a) = Len(p) /\ Len(b) = Len(p)
    BY <1>1, <1>2
  <2>2. \A i \in 1 .. Len(p) : a[i] = p[i] /\ b[i] = q[i]
    BY <1>1, <1>2
  <2> HIDE DEF a, b
  <2>3. a = b <=> \A i \in 1 .. Len(p) : a[i] = b[i]
    BY <2>1
  <2> QED BY <2>2, <2>3 DEF a, b
<1> QED BY <1>2 DEF IsPrefix

LEMMA PrefixOfLonger ==
  ASSUME NEW p \in Seq(Names), NEW q \in Seq(Names), NEW n \in Names, IsPrefix(p, q)
  PROVE  q \o <<n>> \in Seq(Names) /\ IsPrefix(p, q \o <<n>>)
<1> DEFINE r == q \o <<n>>
<1>1. r \in Seq(Names) /\ Len(r) = Len(q) + 1
  OBVIOUS
<1>2. \A i \in 1 .. Len(q) : r[i] = q[i]
  OBVIOUS
<1> HIDE DEF r
<1>3. Len(p) \in Nat /\ Len(q) \in Nat
  OBVIOUS
<1>4. Len(p) <= Len(q) /\ \A i \in 1 .. Len(p) : p[i] = q[i]
  BY PrefixGives
<1>5. IsPrefix(p, r)
  BY <1>1, <1>2, <1>3, <1>4, PrefixGives
<1> QED BY <1>1, <1>5 DEF r

\* What is in a directory, and not the directory, is under an entry of it.
LEMMA Ancestor ==
  ASSUME NEW tree \in Trees, Whole(tree), NEW p \in Seq(Names), NEW q \in tree.dirs \cup tree.files, IsPrefix(p, q), p # q
  PROVE  Children(tree, p) # {}
<1>1. q \in Seq(Names) /\ Len(p) \in Nat /\ Len(q) \in Nat
  BY DEF Trees
<1>2. Len(p) <= Len(q) /\ \A i \in 1 .. Len(p) : p[i] = q[i]
  BY <1>1, PrefixGives
<1>3. Len(p) < Len(q)
  <2>1. Len(p) # Len(q)
    <3> SUFFICES ASSUME Len(p) = Len(q) PROVE p = q
      OBVIOUS
    <3> QED BY <1>1, <1>2
  <2> QED BY <1>1, <1>2, <2>1
<1> DEFINE k == Len(p) + 1
           a == SubSeq(q, 1, k)
<1>4. a \in Seq(Names) /\ Len(a) = k /\ \A i \in 1 .. k : a[i] = q[i]
  BY <1>1, <1>3
<1>5. a \in tree.dirs \cup tree.files
  <2>1. CASE k = Len(q)
    <3>1. a = q
      BY <1>1, <1>4, <2>1
    <3> QED BY <3>1
  <2>2. CASE k # Len(q)
    <3>1. k \in 1 .. Len(q) - 1
      BY <1>1, <1>3, <2>2
    <3> QED BY <3>1 DEF Whole
  <2> QED BY <2>1, <2>2
<1>6. Front(a) = p
  <2> HIDE DEF a
  <2>1. Front(a) = SubSeq(a, 1, k - 1)
    BY <1>4 DEF Front
  <2> DEFINE b == SubSeq(a, 1, k - 1)
  <2>2. k - 1 = Len(p)
    BY <1>1
  <2>3. b \in Seq(Names) /\ Len(b) = Len(p) /\ \A i \in 1 .. Len(p) : b[i] = a[i]
    BY <1>1, <1>4
  <2> HIDE DEF b, k
  <2>4. \A i \in 1 .. Len(p) : i \in 1 .. k
    BY <1>1 DEF k
  <2>5. \A i \in 1 .. Len(p) : b[i] = p[i]
    BY <1>2, <1>4, <2>3, <2>4
  <2>6. b = p
    BY <2>3, <2>5
  <2> QED BY <2>1, <2>6 DEF b
<1>7. a # Root
  <2> HIDE DEF a
  <2> QED BY <1>1, <1>4 DEF Root
<1> HIDE DEF a
<1> QED BY <1>5, <1>6, <1>7 DEF Children

-----------------------------------------------------------------------------
(* Filesystem: DeleteDirectory                                             *)

LEMMA ThrownGives ==
  ASSUME NEW o \in Outcomes
  PROVE  Thrown(o) \in Outcomes /\ Thrown(o).tree = o.tree /\ Thrown(o).threw = TRUE
BY DEF Thrown, Outcomes

LEMMA LessensSelf ==
  ASSUME NEW o \in Outcomes
  PROVE  /\ Lessens(o, o) /\ Lessens(o, Thrown(o))
         /\ \A T : Spares(T, o, o) /\ Spares(T, o, Thrown(o))
<1>1. o.tree \in Trees
  BY DEF Outcomes, Trees
<1> QED BY ThrownGives DEF Lessens, Spares

LEMMA LessensThen ==
  ASSUME NEW o, NEW m, NEW r, Lessens(o, m), Lessens(m, r)
  PROVE  Lessens(o, r) /\ \A T : Spares(T, o, m) /\ Spares(T, m, r) => Spares(T, o, r)
BY DEF Lessens, Spares

\* rmdir takes the directory and nothing else, and fails when it is not empty.
LEMMA RmdirGives ==
  ASSUME NEW o \in Outcomes, NEW p \in Seq(Names)
  PROVE  /\ Lessens(o, Rmdir(o, p)) /\ o.tree.dirs \ {p} \subseteq Rmdir(o, p).tree.dirs
         /\ \A T \in Seq(Names) : IsPrefix(T, p) => Spares(T, o, Rmdir(o, p))
         /\ ~Rmdir(o, p).threw => p \in o.tree.dirs /\ p \notin Rmdir(o, p).tree.dirs /\ Children(Rmdir(o, p).tree, p) = {}
<1> DEFINE r == Rmdir(o, p)
<1>1. CASE p \in o.tree.dirs /\ Children(o.tree, p) = {}
  <2>0. r = [o EXCEPT !.tree.dirs = @ \ {p}]
    BY <1>1 DEF Rmdir
  <2>1. /\ r \in Outcomes /\ r.tree.files = o.tree.files /\ r.tree.dirs = o.tree.dirs \ {p}
    <3> HIDE DEF r
    <3> DEFINE t == o.tree
               u == [t EXCEPT !.dirs = @ \ {p}]
    <3>1. t \in Trees /\ o = [tree |-> t, threw |-> o.threw] /\ o.threw \in BOOLEAN
      BY DEF Outcomes, Trees
    <3>2. r = [o EXCEPT !.tree = u]
      BY <2>0
    <3>3. u \in Trees /\ u.files = t.files /\ u.dirs = t.dirs \ {p}
      BY <3>1 DEF Trees
    <3> HIDE DEF u, t
    <3>4. r = [tree |-> u, threw |-> o.threw]
      BY <3>1, <3>2
    <3> QED BY <3>1, <3>3, <3>4 DEF Outcomes, Trees, t
  <2> HIDE DEF r
  <2>2. ASSUME Whole(o.tree) PROVE Whole(r.tree)
    <3> SUFFICES ASSUME NEW q \in r.tree.dirs \cup r.tree.files, NEW i \in 1 .. Len(q) - 1
                 PROVE  SubSeq(q, 1, i) \in r.tree.dirs
      BY <2>1, <2>2 DEF Whole
    <3>1. q \in o.tree.dirs \cup o.tree.files /\ SubSeq(q, 1, i) \in o.tree.dirs /\ o.tree \in Trees /\ q \in Seq(Names)
      BY <2>1, <2>2 DEF Whole, Outcomes, Trees
    <3>2. SubSeq(q, 1, i) # p
      <4> SUFFICES ASSUME SubSeq(q, 1, i) = p PROVE FALSE
        OBVIOUS
      <4>1. Len(p) = i /\ Len(q) \in Nat /\ \A j \in 1 .. i : p[j] = q[j]
        BY <3>1
      <4>2. IsPrefix(p, q) /\ p # q
        BY <3>1, <4>1, PrefixGives
      <4> QED BY <1>1, <2>2, <3>1, <4>2, Ancestor
    <3> QED BY <2>1, <3>1, <3>2
  <2>3. Children(r.tree, p) = {}
    BY <1>1, <2>1 DEF Children
  <2>4. \A T \in Seq(Names) : IsPrefix(T, p) => Spares(T, o, r)
    BY <2>1 DEF Spares
  <2> QED BY <1>1, <2>1, <2>2, <2>3, <2>4 DEF Lessens, r
<1>2. CASE ~(p \in o.tree.dirs /\ Children(o.tree, p) = {})
  <2>1. r = Thrown(o)
    BY <1>2 DEF Rmdir, Thrown
  <2> HIDE DEF r
  <2> QED BY <2>1, ThrownGives, LessensSelf DEF r
<1> QED BY <1>1, <1>2

Deleters == [Outcomes -> [Seq(Names) -> Outcomes]]

\* A recursion that is sound: what it may do at all, and where.
Careful(f) ==
  /\ f \in Deleters
  /\ \A o \in Outcomes, p \in Seq(Names) :
       /\ Lessens(o, f[o][p])
       /\ \A T \in Seq(Names) : IsPrefix(T, cwd) /\ IsPrefix(T, p) => Spares(T, o, f[o][p])

LEMMA DeleteEntryGives ==
  ASSUME NEW start, NEW o \in Outcomes, NEW p \in Seq(Names), NEW name \in Names, NEW f, Careful(f), cwd \in Seq(Names),
         NEW r, r = DeleteEntry(start, o, p, name, f)
  PROVE  /\ r \in Outcomes /\ Lessens(o, r) /\ \A T \in Seq(Names) : IsPrefix(T, cwd) => Spares(T, o, r)
         /\ Children(start, p) \subseteq start.files /\ start.dirs \cap start.files = {} => r.tree = o.tree
<1> DEFINE sub == cwd \o <<name>>
<1>1. sub \in Seq(Names) /\ \A T \in Seq(Names) : IsPrefix(T, cwd) => IsPrefix(T, sub)
  BY PrefixOfLonger
<1>2. sub = Subdirectory(name)
  BY DEF Subdirectory, GetFullPath, RootPath
<1> HIDE DEF sub
<1>3. CASE r = o
  BY <1>3, LessensSelf
<1>4. CASE r = Thrown(o)
  <2>1. r \in Outcomes /\ r.tree = o.tree
    BY <1>4, ThrownGives
  <2>2. Lessens(o, r) /\ \A T : Spares(T, o, r)
    BY <1>4, LessensSelf
  <2> QED BY <2>1, <2>2
<1>5. CASE r = f[o][sub] /\ Append(p, name) \in Children(start, p) /\ Append(p, name) \in start.dirs
  <2>1. Lessens(o, r) /\ \A T \in Seq(Names) : IsPrefix(T, cwd) => Spares(T, o, r)
    BY <1>1, <1>5 DEF Careful
  <2>2. r \in Outcomes
    BY <2>1 DEF Lessens
  <2>3. ~(Children(start, p) \subseteq start.files /\ start.dirs \cap start.files = {})
    BY <1>5
  <2> QED BY <2>1, <2>2, <2>3
<1>6. \/ r = o \/ r = Thrown(o)
      \/ r = f[o][sub] /\ Append(p, name) \in Children(start, p) /\ Append(p, name) \in start.dirs
  BY <1>2, Zenon DEF DeleteEntry
<1> QED BY <1>3, <1>4, <1>5, <1>6

\* What the loop over the entries does, as a set of outcomes.
Emptied(o, p) ==
  {r \in Outcomes : /\ Lessens(o, r) /\ \A T \in Seq(Names) : IsPrefix(T, cwd) => Spares(T, o, r)
                    /\ Children(o.tree, p) \subseteq o.tree.files /\ o.tree.dirs \cap o.tree.files = {} => r.tree = o.tree}

LEMMA EmptiedStep ==
  ASSUME NEW o \in Outcomes, NEW p \in Seq(Names), NEW name \in Names, NEW f, Careful(f), cwd \in Seq(Names),
         NEW x \in Emptied(o, p)
  PROVE  DeleteEntry(o.tree, x, p, name, f) \in Emptied(o, p)
<1> DEFINE t == o.tree
           y == DeleteEntry(t, x, p, name, f)
<1>1. x \in Outcomes /\ Lessens(o, x) /\ (\A T \in Seq(Names) : IsPrefix(T, cwd) => Spares(T, o, x))
      /\ (Children(t, p) \subseteq t.files /\ t.dirs \cap t.files = {} => x.tree = t)
  BY DEF Emptied
<1> HIDE DEF t
<1>2. /\ y \in Outcomes /\ Lessens(x, y) /\ (\A T \in Seq(Names) : IsPrefix(T, cwd) => Spares(T, x, y))
      /\ (Children(t, p) \subseteq t.files /\ t.dirs \cap t.files = {} => y.tree = x.tree)
  BY <1>1, DeleteEntryGives
<1> HIDE DEF y
<1>3. Lessens(o, y) /\ \A T : Spares(T, o, x) /\ Spares(T, x, y) => Spares(T, o, y)
  BY <1>1, <1>2, LessensThen
<1>4. y \in Emptied(o, p)
  BY <1>1, <1>2, <1>3 DEF Emptied, t
<1> QED BY <1>4 DEF y, t

LEMMA DeleteEntriesGives ==
  ASSUME NEW o \in Outcomes, NEW p \in Seq(Names), NEW order \in Seq(Names), NEW f, Careful(f), cwd \in Seq(Names)
  PROVE  DeleteEntries(o, p, order, f) \in Emptied(o, p)
<1> DEFINE n == Len(order)
           S == Emptied(o, p)
           Turn(i, x) == DeleteEntry(o.tree, x, p, order[i], f)
           step == [i \in Nat |-> [x \in S |-> IF i \in 1 .. n THEN Turn(i, x) ELSE x]]
           F(g) == g = [i \in 0 .. n |-> IF i = 0 THEN o ELSE Turn(i, g[i - 1])]
           emptied == CHOOSE g : F(g)
<1>0. n \in Nat
  OBVIOUS
<1>1. DeleteEntries(o, p, order, f) = emptied[n]
  BY DEF DeleteEntries
<1>2. o \in S
  BY LessensSelf DEF Emptied
<1>3. ASSUME NEW i \in 1 .. n, NEW x \in S PROVE Turn(i, x) \in S
  <2>1. order[i] \in Names
    OBVIOUS
  <2> QED BY <2>1, EmptiedStep
<1> HIDE DEF n, S, Turn
<1>4. step \in [Nat -> [S -> S]]
  BY <1>3
<1> HIDE DEF step
<1>5. PICK g \in [0 .. n -> S] : g[0] = o /\ \A i \in 1 .. n : g[i] = step[i][g[i - 1]]
  <2>1. Runs(S, step, o, n)
    BY <1>0, <1>2, <1>4, LoopRuns
  <2> QED BY <2>1 DEF Runs
<1>6. ASSUME NEW i \in 0 .. n PROVE g[i] = IF i = 0 THEN o ELSE Turn(i, g[i - 1])
  <2>1. CASE i = 0
    BY <1>5, <2>1
  <2>2. CASE i # 0
    <3>1. i \in 1 .. n /\ i - 1 \in 0 .. n /\ i \in Nat
      BY <1>0, <2>2
    <3>2. g[i] = step[i][g[i - 1]] /\ g[i - 1] \in S
      BY <1>5, <3>1
    <3>3. step[i][g[i - 1]] = Turn(i, g[i - 1])
      BY <3>1, <3>2 DEF step
    <3> QED BY <2>2, <3>2, <3>3
  <2> QED BY <2>1, <2>2
<1>7. F(g)
  BY <1>5, <1>6
<1>8. F(emptied)
  BY <1>7, Zenon
<1> HIDE DEF emptied
<1>9. emptied[0] = o /\ \A i \in 1 .. n : emptied[i] = Turn(i, emptied[i - 1])
  <2>1. \A i \in 0 .. n : emptied[i] = IF i = 0 THEN o ELSE Turn(i, emptied[i - 1])
    BY <1>8
  <2>2. 0 \in 0 .. n /\ \A i \in 1 .. n : i \in 0 .. n /\ i # 0
    BY <1>0
  <2> HIDE DEF F
  <2> QED BY <2>1, <2>2
<1> DEFINE I == [i \in 0 .. n |-> S]
<1>10. emptied[0] \in I[0] /\ \A i \in 1 .. n : emptied[i - 1] \in I[i - 1] => emptied[i] \in I[i]
  <2>1. I[0] = S /\ \A i \in 1 .. n : I[i] = S /\ I[i - 1] = S
    BY <1>0
  <2> HIDE DEF I
  <2> QED BY <1>2, <1>3, <1>9, <2>1
<1>11. emptied[n] \in I[n]
  <2> HIDE DEF I
  <2> QED BY <1>0, <1>10, LoopKeeps
<1>12. emptied[n] \in S
  BY <1>0, <1>11
<1> QED BY <1>1, <1>12 DEF S

LEMMA DeleteContentsGives ==
  ASSUME NEW o \in Outcomes, NEW p \in Seq(Names), NEW order \in Seq(Names), NEW f, Careful(f), cwd \in Seq(Names),
         NEW r, r = DeleteContents(o, p, order, f)
  PROVE  /\ r \in Outcomes /\ Lessens(o, r)
         /\ \A T \in Seq(Names) : IsPrefix(T, cwd) /\ IsPrefix(T, p) => Spares(T, o, r)
         /\ ~r.threw => p \in o.tree.dirs /\ p \notin r.tree.dirs /\ Children(r.tree, p) = {}
         /\ Children(o.tree, p) \subseteq o.tree.files /\ o.tree.dirs \cap o.tree.files = {}
              => o.tree.dirs \ {p} \subseteq r.tree.dirs
<1> DEFINE e == DeleteEntries(o, p, order, f)
<1>1. e \in Emptied(o, p)
  BY DeleteEntriesGives
<1>2. r = IF o.threw \/ ~IsDirectory(o.tree, p) THEN Thrown(o) ELSE IF e.threw THEN e ELSE Rmdir(e, p)
  BY DEF DeleteContents
<1> HIDE DEF e
<1>3. /\ e \in Outcomes /\ Lessens(o, e) /\ (\A T \in Seq(Names) : IsPrefix(T, cwd) => Spares(T, o, e))
      /\ (Children(o.tree, p) \subseteq o.tree.files /\ o.tree.dirs \cap o.tree.files = {} => e.tree = o.tree)
  BY <1>1 DEF Emptied
<1>4. CASE r = Thrown(o)
  BY <1>4, ThrownGives, LessensSelf
<1>5. CASE r = e /\ e.threw
  BY <1>3, <1>5
<1>6. CASE r = Rmdir(e, p)
  <2>1. /\ Lessens(e, r) /\ e.tree.dirs \ {p} \subseteq r.tree.dirs
        /\ \A T \in Seq(Names) : IsPrefix(T, p) => Spares(T, e, r)
        /\ ~r.threw => p \in e.tree.dirs /\ p \notin r.tree.dirs /\ Children(r.tree, p) = {}
    BY <1>3, <1>6, RmdirGives
  <2>2. Lessens(o, r) /\ \A T : Spares(T, o, e) /\ Spares(T, e, r) => Spares(T, o, r)
    BY <1>3, <2>1, LessensThen
  <2>3. r \in Outcomes /\ e.tree.dirs \subseteq o.tree.dirs
    BY <1>3, <2>2 DEF Lessens
  <2> QED BY <1>3, <2>1, <2>2, <2>3
<1> QED BY <1>2, <1>4, <1>5, <1>6

\* The recursion, however deep it may go, is sound at its first level.
LEMMA DeleteTreeGives ==
  ASSUME NEW order \in Seq(Names), cwd \in Seq(Names), NEW o \in Outcomes, NEW p \in Seq(Names)
  PROVE  \E f : Careful(f) /\ DeleteTree(order)[o][p] = DeleteContents(o, p, order, f)
<1> DEFINE n == MaxOpenDirs
           S == {f \in Deleters : Careful(f)}
           Level(f) == [a \in Outcomes |-> [q \in Seq(Names) |-> DeleteContents(a, q, order, f)]]
           start == [a \in Outcomes |-> [q \in Seq(Names) |-> Thrown(a)]]
           step == [i \in Nat |-> [f \in S |-> Level(f)]]
           F(g) == g = [i \in 0 .. n |-> [a \in Outcomes |-> [q \in Seq(Names) |->
                         IF i = 0 THEN Thrown(a) ELSE DeleteContents(a, q, order, g[i - 1])]]]
           deleted == CHOOSE g : F(g)
<1>0. n \in Nat \ {0}
  BY FilesystemAssumption
<1>1. DeleteTree(order) = deleted[n]
  BY DEF DeleteTree
<1>2. start \in S
  <2>1. start \in Deleters
    BY ThrownGives DEF Deleters
  <2>2. ASSUME NEW a \in Outcomes, NEW q \in Seq(Names) PROVE start[a][q] = Thrown(a)
    OBVIOUS
  <2> HIDE DEF start
  <2>3. Careful(start)
    BY <2>1, <2>2, LessensSelf DEF Careful
  <2> QED BY <2>1, <2>3
<1>3. ASSUME NEW f \in S PROVE Level(f) \in S
  <2> DEFINE h == Level(f)
  <2>1. ASSUME NEW a \in Outcomes, NEW q \in Seq(Names)
        PROVE  /\ h[a][q] = DeleteContents(a, q, order, f) /\ h[a][q] \in Outcomes /\ Lessens(a, h[a][q])
               /\ \A T \in Seq(Names) : IsPrefix(T, cwd) /\ IsPrefix(T, q) => Spares(T, a, h[a][q])
    <3>1. h[a][q] = DeleteContents(a, q, order, f)
      OBVIOUS
    <3> HIDE DEF h
    <3>2. Careful(f)
      OBVIOUS
    <3> QED BY <3>1, <3>2, DeleteContentsGives
  <2>2. h \in Deleters
    <3>1. \A a \in Outcomes, q \in Seq(Names) : DeleteContents(a, q, order, f) \in Outcomes
      <4> HIDE DEF h
      <4> QED BY <2>1
    <3> QED BY <3>1 DEF Deleters
  <2> HIDE DEF h
  <2>3. Careful(h)
    BY <2>1, <2>2 DEF Careful
  <2>4. h \in S
    BY <2>2, <2>3
  <2> QED BY <2>4 DEF h
<1>4. step \in [Nat -> [S -> S]]
  <2> HIDE DEF Level, S
  <2> QED BY <1>3
<1> HIDE DEF n, S, start, step
<1>5. PICK g \in [0 .. n -> S] : g[0] = start /\ \A i \in 1 .. n : g[i] = step[i][g[i - 1]]
  <2>1. Runs(S, step, start, n)
    BY <1>0, <1>2, <1>4, LoopRuns
  <2> QED BY <2>1 DEF Runs
<1>6. ASSUME NEW i \in 0 .. n
      PROVE  g[i] = [a \in Outcomes |-> [q \in Seq(Names) |-> IF i = 0 THEN Thrown(a) ELSE DeleteContents(a, q, order, g[i - 1])]]
  <2>1. CASE i = 0
    BY <1>5, <2>1 DEF start
  <2>2. CASE i # 0
    <3>1. i \in 1 .. n /\ i - 1 \in 0 .. n /\ i \in Nat
      BY <1>0, <2>2
    <3>2. g[i] = step[i][g[i - 1]] /\ g[i - 1] \in S
      BY <1>5, <3>1
    <3>3. step[i][g[i - 1]] = Level(g[i - 1])
      <4> HIDE DEF Level
      <4> QED BY <3>1, <3>2 DEF step
    <3>4. g[i] = Level(g[i - 1])
      BY <3>2, <3>3
    <3> QED BY <2>2, <3>4
  <2> QED BY <2>1, <2>2
<1>7. F(g)
  <2> SUFFICES ASSUME TRUE PROVE g = [i \in 0 .. n |-> g[i]]
    BY <1>6
  <2> QED BY <1>5
<1>8. F(deleted)
  BY <1>7, Zenon
<1> HIDE DEF deleted
<1>9. /\ deleted[0] = start /\ \A i \in 1 .. n : deleted[i] = Level(deleted[i - 1])
  <2>1. ASSUME NEW i \in 0 .. n
        PROVE  deleted[i] = [a \in Outcomes |-> [q \in Seq(Names) |-> IF i = 0 THEN Thrown(a) ELSE DeleteContents(a, q, order, deleted[i - 1])]]
    BY <1>8
  <2>2. 0 \in 0 .. n /\ \A i \in 1 .. n : i \in 0 .. n /\ i # 0
    BY <1>0
  <2> HIDE DEF F
  <2>3. deleted[0] = start
    BY <2>1, <2>2 DEF start
  <2>4. ASSUME NEW i \in 1 .. n PROVE deleted[i] = Level(deleted[i - 1])
    BY <2>1, <2>2
  <2> QED BY <2>3, <2>4
<1> DEFINE I == [i \in 0 .. n |-> S]
           m == n - 1
<1>10. deleted[0] \in I[0] /\ \A i \in 1 .. m : deleted[i - 1] \in I[i - 1] => deleted[i] \in I[i]
  <2>1. I[0] = S /\ \A i \in 1 .. m : I[i] = S /\ I[i - 1] = S /\ i \in 1 .. n
    BY <1>0
  <2> HIDE DEF I, Level, m
  <2> QED BY <1>2, <1>3, <1>9, <2>1
<1>11. deleted[m] \in I[m]
  <2>1. m \in Nat
    BY <1>0
  <2> HIDE DEF I, m
  <2> QED BY <2>1, <1>10, LoopKeeps
<1>12. deleted[m] \in S /\ deleted[n] = Level(deleted[m])
  <2>1. m \in 0 .. n /\ n \in 1 .. n
    BY <1>0
  <2> HIDE DEF Level
  <2> QED BY <1>9, <1>11, <2>1
<1> HIDE DEF m
<1>13. Careful(deleted[m])
  BY <1>12 DEF S
<1>14. deleted[n][o][p] = DeleteContents(o, p, order, deleted[m])
  BY <1>12
<1> QED BY <1>1, <1>13, <1>14

-----------------------------------------------------------------------------
(* Filesystem: the inductive invariant                                     *)

FsInv ==
  /\ dirs \subseteq Seq(Names) /\ files \subseteq Seq(Names) /\ cwd \in Seq(Names)
  /\ Whole(Tree) /\ DeleteIsExact

\* A path that a client names is a sequence of names, and one shorter than p is in front of it.
LEMMA PathGives ==
  ASSUME NEW p \in BoundedSeq(Names, MaxDepth)
  PROVE  p \in Seq(Names)
BY FilesystemAssumption DEF BoundedSeq, SeqOf

LEMMA OrderGives ==
  ASSUME NEW order \in SetToSeqs(Names)
  PROVE  order \in Seq(Names)
<1>1. Cardinality(Names) \in Nat
  BY FilesystemAssumption, FS_CardinalityType
<1> DEFINE n == Cardinality(Names)
<1>2. order \in [1 .. n -> Names]
  BY DEF SetToSeqs
<1> HIDE DEF n
<1> QED BY <1>1, <1>2 DEF n

\* When nothing was deleted in the step the property says nothing.
LEMMA NothingDeleted == ASSUME last' = NoDelete PROVE DeleteIsExact'
BY DEF NoDelete, DeleteIsExact

LEMMA FsInitInv == FsInit => FsInv
<1> SUFFICES ASSUME FsInit PROVE FsInv
  OBVIOUS
<1>1. dirs = {} /\ files = {} /\ cwd = << >> /\ last = NoDelete
  BY DEF FsInit, Root
<1>2. Whole(Tree)
  BY <1>1 DEF Whole, Tree
<1>3. DeleteIsExact
  BY <1>1 DEF DeleteIsExact, NoDelete
<1> QED BY <1>1, <1>2, <1>3 DEF FsInv

\* A file or a directory is made in a directory there is.
LEMMA CreateKeepsWhole ==
  ASSUME FsInv, NEW p \in Seq(Names), Create(p), NEW tree,
         \/ tree = [dirs |-> dirs, files |-> files \cup {p}] /\ p \notin dirs
         \/ tree = [dirs |-> dirs \cup {p}, files |-> files] /\ p \notin files
  PROVE  Whole(tree)
<1>1. Whole(Tree) /\ Tree.dirs = dirs /\ Tree.files = files
  BY DEF FsInv, Tree
<1>2. p # << >> /\ (Front(p) = << >> \/ Front(p) \in dirs)
  BY <1>1 DEF Create, IsDirectory, Root
<1>3. ASSUME NEW i \in 1 .. Len(p) - 1 PROVE SubSeq(p, 1, i) \in dirs
  <2> DEFINE b == Front(p)
  <2>1. b \in Seq(Names) /\ Len(b) = Len(p) - 1 /\ \A j \in 1 .. Len(p) - 1 : b[j] = p[j]
    BY <1>2 DEF Front
  <2> HIDE DEF b
  <2>2. b # << >> /\ b \in dirs
    BY <1>2, <2>1 DEF b
  <2>3. CASE i = Len(b)
    <3>1. b = SubSeq(p, 1, Len(p) - 1)
      BY DEF b, Front
    <3> QED BY <2>1, <2>2, <2>3, <3>1
  <2>4. CASE i # Len(b)
    <3>1. i \in 1 .. Len(b) - 1
      BY <2>1, <2>4
    <3>2. SubSeq(b, 1, i) \in dirs
      BY <1>1, <2>2, <3>1 DEF Whole
    <3>3. SubSeq(b, 1, i) = SubSeq(p, 1, i)
      <4> DEFINE x == SubSeq(b, 1, i)
                 y == SubSeq(p, 1, i)
      <4>1. x \in Seq(Names) /\ y \in Seq(Names) /\ Len(x) = i /\ Len(y) = i
        BY <2>1, <3>1
      <4>2. \A j \in 1 .. i : x[j] = y[j]
        BY <2>1, <3>1
      <4> HIDE DEF x, y
      <4>3. x = y
        BY <4>1, <4>2
      <4> QED BY <4>3 DEF x, y
    <3> QED BY <3>2, <3>3
  <2> QED BY <2>3, <2>4
<1>4. /\ << >> \notin dirs \cup files /\ dirs \cap files = {}
      /\ \A q \in dirs \cup files : \A i \in 1 .. Len(q) - 1 : SubSeq(q, 1, i) \in dirs
  BY <1>1 DEF Whole, Root
<1>5. tree.dirs \cup tree.files = dirs \cup files \cup {p} /\ dirs \subseteq tree.dirs
  OBVIOUS
<1>6. tree.dirs \cap tree.files = {}
  BY <1>4
<1>7. \A q \in tree.dirs \cup tree.files : \A i \in 1 .. Len(q) - 1 : SubSeq(q, 1, i) \in tree.dirs
  BY <1>3, <1>4, <1>5
<1> QED BY <1>2, <1>4, <1>5, <1>6, <1>7 DEF Whole, Root

\* What DeleteDirectory leaves: either way, its outcome is one that the property allows.
LEMMA DeleteStep ==
  ASSUME FsInv, NEW p \in Seq(Names), NEW recursive \in BOOLEAN, NEW order, recursive => order \in Seq(Names),
         DeleteDirectory(p, recursive, order)
  PROVE  FsInv'
<1> DEFINE o == [tree |-> Tree, threw |-> FALSE]
           r == IF recursive THEN DeleteTree(order)[o][p] ELSE Rmdir(o, p)
<1>1. /\ dirs' = r.tree.dirs /\ files' = r.tree.files /\ cwd' = cwd
      /\ last' = [target |-> p, recursive |-> recursive, tree |-> Tree, at |-> cwd, threw |-> r.threw]
  BY DEF DeleteDirectory
<1>2. o \in Outcomes /\ o.tree = Tree /\ Tree.dirs = dirs /\ Tree.files = files /\ Whole(Tree) /\ cwd \in Seq(Names)
  BY DEF FsInv, Tree, Outcomes
<1> HIDE DEF o
<1>3. /\ Lessens(o, r)
      /\ \A T \in Seq(Names) : IsPrefix(T, cwd) /\ IsPrefix(T, p) => Spares(T, o, r)
      /\ ~r.threw => p \in dirs /\ p \notin r.tree.dirs /\ Children(r.tree, p) = {}
      /\ Children(o.tree, p) \subseteq o.tree.files /\ o.tree.dirs \cap o.tree.files = {}
           => o.tree.dirs \ {p} \subseteq r.tree.dirs
  <2>1. CASE recursive
    <3>1. PICK f : Careful(f) /\ DeleteTree(order)[o][p] = DeleteContents(o, p, order, f)
      BY <1>2, <2>1, DeleteTreeGives
    <3>2. r = DeleteContents(o, p, order, f)
      BY <2>1, <3>1
    <3> HIDE DEF r
    <3> QED BY <1>2, <2>1, <3>1, <3>2, DeleteContentsGives
  <2>2. CASE ~recursive
    <3>1. r = Rmdir(o, p)
      BY <2>2
    <3> HIDE DEF r
    <3> QED BY <1>2, <3>1, RmdirGives
  <2> QED BY <2>1, <2>2
<1> HIDE DEF r
<1>4. r \in Outcomes /\ r.tree.files = files /\ r.tree.dirs \subseteq dirs /\ Whole(r.tree)
  BY <1>2, <1>3 DEF Lessens
<1>5. r.tree \in Trees /\ r.tree.dirs \subseteq Seq(Names) /\ r.tree.files \subseteq Seq(Names)
      /\ r.tree = [dirs |-> r.tree.dirs, files |-> r.tree.files]
  BY <1>4 DEF Outcomes, Trees
<1>6. Tree' = r.tree
  BY <1>1, <1>5 DEF Tree
<1>7. ASSUME ~r.threw PROVE Below(r.tree, p) = {}
  <2> SUFFICES ASSUME NEW q \in r.tree.dirs \cup r.tree.files, IsPrefix(p, q) PROVE FALSE
    BY DEF Below
  <2>1. p = q
    BY <1>3, <1>4, <1>5, <1>7, Ancestor
  <2>2. p \in files
    BY <1>3, <1>4, <1>7, <2>1
  <2>3. p \in dirs
    BY <1>3, <1>7
  <2> QED BY <1>2, <2>2, <2>3 DEF Whole
<1>8. ASSUME IsPrefix(p, cwd) \/ (\A q \in Children(Tree, p) : q \in files), NEW q \in dirs \cup files, ~IsPrefix(p, q)
      PROVE  q \in r.tree.dirs \cup r.tree.files
  <2>1. CASE q \in files
    BY <1>4, <2>1
  <2>2. CASE q \in dirs /\ IsPrefix(p, cwd)
    <3>1. IsPrefix(p, p)
      BY PrefixGives
    <3>2. Spares(p, o, r)
      BY <1>3, <2>2, <3>1
    <3> QED BY <1>2, <1>8, <2>2, <3>2 DEF Spares
  <2>3. CASE q \in dirs /\ (\A a \in Children(Tree, p) : a \in files)
    <3>1. IsPrefix(p, p)
      BY PrefixGives
    <3>2. q # p
      BY <1>8, <3>1
    <3>3. dirs \cap files = {}
      BY <1>2 DEF Whole
    <3> QED BY <1>2, <1>3, <2>3, <3>2, <3>3
  <2> QED BY <1>8, <2>1, <2>2, <2>3
<1>9. /\ last'.target = p /\ last'.tree = Tree /\ last'.at = cwd /\ last'.threw = r.threw
  BY <1>1
<1>10. DeleteIsExact'
  <2>1. ~last'.threw => Below(Tree', last'.target) = {}
    BY <1>6, <1>7, <1>9
  <2>2. IsPrefix(last'.target, last'.at) \/ (\A q \in Children(last'.tree, last'.target) : q \in last'.tree.files) =>
          \A q \in last'.tree.dirs \cup last'.tree.files : ~IsPrefix(last'.target, q) => q \in dirs' \cup files'
    BY <1>1, <1>2, <1>8, <1>9
  <2> QED BY <2>1, <2>2, Zenon DEF DeleteIsExact
<1>11. dirs' \subseteq Seq(Names) /\ files' \subseteq Seq(Names) /\ cwd' \in Seq(Names) /\ Whole(Tree')
  BY <1>1, <1>2, <1>4, <1>5, <1>6
<1> QED BY <1>10, <1>11 DEF FsInv

\* Every call preserves the invariant.
LEMMA FsInductive == FsInv /\ [FsNext]_fsVars => FsInv'
<1> SUFFICES ASSUME FsInv, [FsNext]_fsVars PROVE FsInv'
  OBVIOUS
<1>0. /\ dirs \subseteq Seq(Names) /\ files \subseteq Seq(Names) /\ cwd \in Seq(Names) /\ Whole(Tree)
      /\ Tree.dirs = dirs /\ Tree.files = files
  BY DEF FsInv, Tree
<1>1. ASSUME NEW p \in BoundedSeq(Names, MaxDepth), CreateFile(p) PROVE FsInv'
  <2>1. p \in Seq(Names)
    BY <1>1, PathGives
  <2>2. Create(p) /\ p \notin dirs /\ dirs' = dirs /\ files' = files \cup {p} /\ cwd' = cwd /\ last' = NoDelete
    BY <1>0, <1>1 DEF CreateFile, IsDirectory
  <2>3. Whole(Tree')
    <3>1. Tree' = [dirs |-> dirs, files |-> files \cup {p}]
      BY <2>2 DEF Tree
    <3> QED BY <2>1, <2>2, <3>1, CreateKeepsWhole
  <2> QED BY <1>0, <2>1, <2>2, <2>3, NothingDeleted DEF FsInv
<1>2. ASSUME NEW p \in BoundedSeq(Names, MaxDepth), CreateDirectory(p) PROVE FsInv'
  <2>1. p \in Seq(Names)
    BY <1>2, PathGives
  <2>2. Create(p) /\ p \notin files /\ dirs' = dirs \cup {p} /\ files' = files /\ cwd' = cwd /\ last' = NoDelete
    BY <1>0, <1>2 DEF CreateDirectory, Exists, IsFile
  <2>3. Whole(Tree')
    <3>1. Tree' = [dirs |-> dirs \cup {p}, files |-> files]
      BY <2>2 DEF Tree
    <3> QED BY <2>1, <2>2, <3>1, CreateKeepsWhole
  <2> QED BY <1>0, <2>1, <2>2, <2>3, NothingDeleted DEF FsInv
<1>3. ASSUME NEW p \in BoundedSeq(Names, MaxDepth), DeleteFile(p) PROVE FsInv'
  <2>1. dirs' = dirs /\ files' = files \ {p} /\ cwd' = cwd /\ last' = NoDelete
    BY <1>3 DEF DeleteFile
  <2>2. Tree'.dirs = dirs /\ Tree'.files = files \ {p}
    BY <2>1 DEF Tree
  <2>3. Whole(Tree')
    BY <1>0, <2>2 DEF Whole
  <2> QED BY <1>0, <2>1, <2>3, NothingDeleted DEF FsInv
<1>4. ASSUME UNCHANGED <<dirs, files>>, cwd' \in Seq(Names), last' = NoDelete PROVE FsInv'
  <2>1. Tree' = Tree
    BY <1>4 DEF Tree
  <2> QED BY <1>0, <1>4, <2>1, NothingDeleted DEF FsInv
<1>5. ASSUME NEW p \in BoundedSeq(Names, MaxDepth), OpenDirectory(p) \/ ChangeCurrentDirectory(p) PROVE FsInv'
  BY <1>0, <1>4, <1>5, PathGives DEF OpenDirectory, ChangeCurrentDirectory
<1>6. ASSUME NEW p \in BoundedSeq(Names, MaxDepth), NEW order \in SetToSeqs(Names), DeleteDirectory(p, TRUE, order) PROVE FsInv'
  <2>1. p \in Seq(Names) /\ order \in Seq(Names)
    BY <1>6, PathGives, OrderGives
  <2> DEFINE yes == TRUE
  <2>2. yes \in BOOLEAN /\ DeleteDirectory(p, yes, order)
    BY <1>6
  <2> HIDE DEF yes
  <2> QED BY <2>1, <2>2, DeleteStep
<1>7. ASSUME NEW p \in BoundedSeq(Names, MaxDepth), NEW order, DeleteDirectory(p, FALSE, order) PROVE FsInv'
  <2>1. p \in Seq(Names)
    BY <1>7, PathGives
  <2> DEFINE no == FALSE
  <2>2. no \in BOOLEAN /\ DeleteDirectory(p, no, order) /\ ~no
    BY <1>7
  <2> HIDE DEF no
  <2> QED BY <2>1, <2>2, DeleteStep
<1>8. ASSUME CloseDirectory \/ \E name \in Names : ReadDirectory(name) PROVE FsInv'
  BY <1>0, <1>4, <1>8 DEF CloseDirectory, ReadDirectory
<1>9. ASSUME UNCHANGED fsVars PROVE FsInv'
  BY <1>9 DEF fsVars, FsInv, Tree, DeleteIsExact, Below, Whole, Children
<1> QED BY <1>1, <1>2, <1>3, <1>5, <1>6, <1>7, <1>8, <1>9 DEF FsNext

\* The tree stays whole and every DeleteDirectory was exact, for any names, any depth of
\* the tree and any number of directories that may be open.
THEOREM FsInvariant == FsSpec => []FsInv
  BY FsInitInv, FsInductive, PTL DEF FsSpec

\* When DeleteDirectory returns, the directory and all in it are gone; whether it returns or
\* throws, nothing outside is, where the names it looks up in the current directory are inside
\* (filesystem.cpp:318-334), in whatever order readdir gives the entries.
THEOREM DeletesExactly == FsSpec => []DeleteIsExact
  BY FsInvariant, PTL DEF FsInv
=============================================================================
