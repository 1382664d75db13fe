------------------------------- MODULE Objects -------------------------------
(***************************************************************************)
(* Reference counting: Object, AutoPointer, CopyPointer, ReturnPointer,    *)
(* AutoArray and AutoThreadLocalStorage.                                   *)
(*                                                                         *)
(* Each thread owns some AutoPointers, an AutoArray and its value in one   *)
(* AutoThreadLocalStorage, and shares with the others only the objects     *)
(* they refer to.  An operation is a sequence of Retain() and Release()    *)
(* calls, in the order of the source; each reads the count and writes it   *)
(* back, in two steps, for the count is a plain integer.  The slots belong *)
(* to one thread, so when in an operation they change makes no difference  *)
(* and they change with its first step.                                    *)
(***************************************************************************)
EXTENDS Integers, SequencesExt

CONSTANTS
  Objs,        \* the objects; Shared is handed to every thread at the start
  Shared,
  Null,
  Users,       \* the threads
  Pointers,    \* the AutoPointers of each thread
  MaxItems,    \* bound on the length of an array
  MaxOps       \* bound on the operations of each thread

ASSUME ObjectsAssumption ==
  /\ Shared \in Objs /\ Null \notin Objs /\ MaxItems \in Nat /\ MaxOps \in Nat
  /\ IsFiniteSet(Users) /\ IsFiniteSet(Pointers)

VARIABLES
  count,    \* Object::referenceCount; 0 before new and after delete
  dead,     \* objects deleted
  pointer,  \* the value of each AutoPointer of each thread
  array,    \* the items of each thread's AutoArray
  local,    \* what pthread_getspecific gives each thread: its value in the storage
  storage,  \* whether the AutoThreadLocalStorage exists
  over,     \* threads that have ended
  calls,    \* Retain and Release calls each thread has still to make
  loaded,   \* the count a thread has read and not yet written back, or -1
  raced,    \* history: objects two threads counted at the same time
  handedBack,\* history: objects stored over themselves by SetItem or SetValue
  fault,    \* objects retained or released after their deletion
  ops

objectVars == <<count, dead, pointer, array, local, storage, over, calls, loaded, raced, handedBack, fault, ops>>

Retain(o) == IF o = Null THEN << >> ELSE <<[call |-> "Retain", on |-> o]>>
Release(o) == IF o = Null THEN << >> ELSE <<[call |-> "Release", on |-> o]>>
RetainAll(items) == [i \in DOMAIN items |-> [call |-> "Retain", on |-> items[i]]]
ReleaseAll(items) == [i \in DOMAIN items |-> [call |-> "Release", on |-> items[i]]]

\* The number of times o is in s.
Times(s, o) == Cardinality({i \in DOMAIN s : s[i] = o})

Idle(t) == calls[t] = << >> /\ t \notin over
Held(t) == {pointer[t][p] : p \in Pointers} \cup Range(array[t]) \cup {local[t]}
Unused == {o \in Objs \ dead : count[o] = 0}

ObjectsInit ==
  /\ count = [o \in Objs |-> IF o = Shared THEN Cardinality(Users) ELSE 0]
  /\ \E p \in Pointers : pointer = [t \in Users |-> [q \in Pointers |-> IF q = p THEN Shared ELSE Null]]
  /\ array = [t \in Users |-> << >>]
  /\ local = [t \in Users |-> Null]
  /\ calls = [t \in Users |-> << >>] /\ loaded = [t \in Users |-> -1]
  /\ dead = {} /\ over = {} /\ raced = {} /\ handedBack = {} /\ fault = {}
  /\ storage = TRUE /\ ops = [t \in Users |-> 0]

\* A thread starts an operation that makes these calls.
Begin(t, sequence) ==
  /\ Idle(t) /\ fault = {} /\ ops[t] < MaxOps
  /\ ops' = [ops EXCEPT ![t] = @ + 1]
  /\ calls' = [calls EXCEPT ![t] = sequence]
  /\ UNCHANGED <<dead, over, loaded, raced, fault, storage>>

\* new: the count of an object starts at 1.
Alloc(o) == count' = [count EXCEPT ![o] = 1]

-----------------------------------------------------------------------------
(* Object::Retain and Object::Release                                      *)

\* referenceCount++ and --referenceCount, the read.  After an access to a deleted object
\* nothing is said of the program.
Load(t) ==
  /\ fault = {} /\ calls[t] # << >> /\ loaded[t] = -1
  /\ LET o == Head(calls[t]).on
     IN  IF o \in dead
         THEN /\ fault' = fault \cup {o}
              /\ calls' = [calls EXCEPT ![t] = << >>]
              /\ UNCHANGED <<loaded, raced>>
         ELSE /\ loaded' = [loaded EXCEPT ![t] = count[o]]
              /\ raced' = IF \E u \in Users : loaded[u] # -1 /\ Head(calls[u]).on = o
                          THEN raced \cup {o} ELSE raced
              /\ UNCHANGED <<calls, fault>>
  /\ UNCHANGED <<count, dead, pointer, array, local, storage, over, handedBack, ops>>

\* The write, and delete this when the count reaches 0
Store(t) ==
  /\ fault = {} /\ loaded[t] # -1
  /\ LET o == Head(calls[t]).on
         n == IF Head(calls[t]).call = "Retain" THEN loaded[t] + 1 ELSE loaded[t] - 1
     IN  /\ count' = [count EXCEPT ![o] = n]
         /\ dead' = IF n = 0 THEN dead \cup {o} ELSE dead
  /\ loaded' = [loaded EXCEPT ![t] = -1]
  /\ calls' = [calls EXCEPT ![t] = Tail(@)]
  /\ UNCHANGED <<pointer, array, local, storage, over, raced, handedBack, fault, ops>>

-----------------------------------------------------------------------------
(* AutoPointer, CopyPointer, ReturnPointer                                 *)

\* Mutant of Swap: the old value is released first.
Swap_ReleasesFirst(old, new) == Release(old) \o Retain(new)

\* AutoPointer::Swap(new)
Swap(old, new) == Retain(new) \o Release(old)

Point(t, p, o) ==
  /\ pointer' = [pointer EXCEPT ![t][p] = o]
  /\ UNCHANGED <<array, local, handedBack>>

\* p = q, also of a pointer to itself, or of any object the thread has in a slot
AssignPointer(t, p) == \E o \in Held(t) : Begin(t, Swap(pointer[t][p], o)) /\ Point(t, p, o) /\ UNCHANGED count

\* The destructor of an AutoPointer, and Release()
Drop(t, p) ==
  /\ pointer[t][p] # Null
  /\ Begin(t, Release(pointer[t][p])) /\ Point(t, p, Null)
  /\ UNCHANGED count

\* p = autonew T(...), and a CopyPointer assigned an object it copies: a temporary that
\* adopts the new object is swapped in and destroyed.
Create(t, p) ==
  \E o \in Unused : Alloc(o) /\ Begin(t, Swap(pointer[t][p], o) \o Release(o)) /\ Point(t, p, o)

\* p = f(), where f returns its AutoPointer to a new object through a ReturnPointer, which
\* retains for itself before f's own pointer is destroyed.
Return(t, p) ==
  \E o \in Unused :
    /\ Alloc(o)
    /\ Begin(t, Retain(o) \o Release(o) \o Swap(pointer[t][p], o) \o Release(o))
    /\ Point(t, p, o)

-----------------------------------------------------------------------------
(* AutoArray                                                               *)

Items(t, items, sequence) ==
  /\ Len(items) <= MaxItems
  /\ Begin(t, sequence)
  /\ array' = [array EXCEPT ![t] = items]
  /\ UNCHANGED <<count, pointer, local>>

\* AddItem and InsertItem
InsertItem(t) ==
  /\ \E o \in Held(t) \ {Null}, i \in 1 .. Len(array[t]) + 1 : Items(t, InsertAt(array[t], i, o), Retain(o))
  /\ UNCHANGED handedBack

\* RemoveItem and RemoveItemAt
RemoveItemAt(t) ==
  /\ \E i \in DOMAIN array[t] : Items(t, RemoveAt(array[t], i), Release(array[t][i]))
  /\ UNCHANGED handedBack

\* What is left of s without o: the others, in their order.
Others(s, o) ==
  LET left == {i \in DOMAIN s : s[i] # o}
  IN  {[i \in DOMAIN at |-> s[at[i]]] :
         at \in {f \in [1 .. Cardinality(left) -> left] : \A i, j \in DOMAIN f : i < j => f[i] < f[j]}}

\* RemoveItems retains the value while it removes it everywhere.
RemoveItems(t) ==
  /\ \E o \in Range(array[t]) : \E items \in Others(array[t], o) :
       Items(t, items, Retain(o) \o ReleaseAll([i \in 1 .. Times(array[t], o) |-> o]) \o Release(o))
  /\ UNCHANGED handedBack

\* Mutant of SetItem: the old item keeps the reference of the array.
SetItem_KeepsOld(t) ==
  /\ \E i \in DOMAIN array[t], o \in Held(t) \ {Null} : Items(t, [array[t] EXCEPT ![i] = o], Retain(o))
  /\ UNCHANGED handedBack

\* SetItem: the old item is released before the new one is retained.
SetItem(t) ==
  \E i \in DOMAIN array[t], o \in Held(t) \ {Null} :
    /\ Items(t, [array[t] EXCEPT ![i] = o], Release(array[t][i]) \o Retain(o))
    /\ handedBack' = IF o = array[t][i] THEN handedBack \cup {o} ELSE handedBack

\* Clear and the destructor
Clear(t) == array[t] # << >> /\ Items(t, << >>, ReleaseAll(array[t])) /\ UNCHANGED handedBack

\* operator = from an array of one item of the thread, or from the array itself
AssignArray(t) ==
  /\ \E items \in {array[t]} \cup {<<o>> : o \in Held(t) \ {Null}} :
       Items(t, items, RetainAll(items) \o ReleaseAll(array[t]))
  /\ UNCHANGED handedBack

-----------------------------------------------------------------------------
(* AutoThreadLocalStorage                                                  *)

\* SetValue: Destroy(old) releases it, then the new value is stored and retained.
SetValue(t) ==
  /\ storage
  /\ \E o \in Held(t) :
       /\ Begin(t, Release(local[t]) \o Retain(o))
       /\ local' = [local EXCEPT ![t] = o]
       /\ handedBack' = IF o = local[t] THEN handedBack \cup {o} ELSE handedBack
  /\ UNCHANGED <<count, pointer, array>>

\* The destructor deletes the key; no thread's value is destroyed.
DestroyStorage == storage /\ storage' = FALSE /\ UNCHANGED <<count, dead, pointer, array, local, over, calls, loaded, raced, handedBack, fault, ops>>

\* A thread that has dropped its pointers and its array ends: StaticDestructor is called
\* with its data while the key exists.
ThreadExit(t) ==
  /\ Idle(t) /\ fault = {} /\ Held(t) \subseteq {Null, local[t]} /\ array[t] = << >>
  /\ over' = over \cup {t}
  /\ calls' = [calls EXCEPT ![t] = IF storage THEN Release(local[t]) ELSE << >>]
  /\ local' = IF storage THEN [local EXCEPT ![t] = Null] ELSE local
  /\ UNCHANGED <<count, dead, pointer, array, storage, loaded, raced, handedBack, fault, ops>>

ObjectsNext ==
  \/ DestroyStorage
  \/ \E t \in Users :
       \/ Load(t) \/ Store(t)
       \/ \E p \in Pointers : AssignPointer(t, p) \/ Drop(t, p) \/ Create(t, p) \/ Return(t, p)
       \/ InsertItem(t) \/ RemoveItemAt(t) \/ RemoveItems(t) \/ SetItem(t) \/ Clear(t) \/ AssignArray(t)
       \/ SetValue(t) \/ ThreadExit(t)

ObjectsSpec == ObjectsInit /\ [][ObjectsNext]_objectVars

-----------------------------------------------------------------------------
(* Properties                                                              *)

Owners(t, o) ==
  Times(pointer[t], o) + Times(array[t], o) + (IF local[t] = o THEN 1 ELSE 0)

\* The references to o, numbered in each thread
References(o) == UNION {{t} \X (1 .. Owners(t, o)) : t \in Users}

\* Between operations the count of an object is the number of pointers, array items and
\* thread values that refer to it, so that it is deleted with the last of them and not
\* before, unless two threads counted it at the same time.
CountsOwners ==
  fault = {} /\ (\A t \in Users : calls[t] = << >>) =>
     \A o \in Objs \ raced : count[o] = Cardinality(References(o))

\* No operation retains or releases a deleted object, whatever is assigned to what and
\* itself to itself, except AutoArray::SetItem and AutoThreadLocalStorage::SetValue
\* given the object they hold already, and counts lost to a race.
CountsLiveObjects == fault \subseteq raced \cup handedBack
=============================================================================
