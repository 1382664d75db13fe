------------------------------ MODULE ListGuard ------------------------------
(***************************************************************************)
(* Bricks::Collections::ListGuard and its iterators.                       *)
(*                                                                         *)
(* A ListGuard may be changed while it is being iterated: before every     *)
(* change it tells its registered iterators (GuardIterators), and each one *)
(* that still walks the list itself copies what it has left into a cache   *)
(* of its own and goes on from there.  Event dispatches to its listeners   *)
(* this way.                                                               *)
(*                                                                         *)
(* Everything runs in one thread; what is hard is the reentrancy: bodies   *)
(* of nested foreach loops change or destroy the list, or leave the loop,  *)
(* at any point of the iterations in progress.                             *)
(***************************************************************************)
EXTENDS Integers, SequencesExt

CONSTANTS
  Values,      \* the items
  Iterators,   \* the iterator objects that may exist at the same time
  MaxLen       \* bound on the length of the list

ASSUME BoundAssumption == MaxLen \in Nat
ASSUME ValuesAssumption == Values # {}

VARIABLES
  list,        \* ListGuardBase::list
  alive,       \* the ListGuard has not been destroyed
  registered,  \* ListGuardBase::iterators
  phase,       \* each iterator: none, open, ended (MoveNext returned false)
  bound,       \* ListGuardIterator::list is not NULL
  pos,         \* position of the underlying iterator, 0 before the first item
  status,      \* ListGuardIterator::status
  cached,      \* iteratorCache is set
  cache,       \* listCache
  cursor,      \* position of iteratorCache, 0 before the first item
  snapshot,    \* history: the list when the iterator was created
  seen,        \* history: the items it has been moved to
  early        \* history: the iterators whose list changed before their first MoveNext(),
               \* or behind the guard's back

listVars == <<list, alive>>
walkVars == <<pos, status, cached, cache, cursor>>

vars == <<listVars, registered, phase, bound, walkVars, snapshot, seen, early>>

Init ==
  /\ list = << >> /\ alive = TRUE /\ registered = {}
  /\ phase = [i \in Iterators |-> "none"]
  /\ bound = [i \in Iterators |-> FALSE]
  /\ pos = [i \in Iterators |-> 0]
  /\ status = [i \in Iterators |-> FALSE]
  /\ cached = [i \in Iterators |-> FALSE]
  /\ cache = [i \in Iterators |-> << >>]
  /\ cursor = [i \in Iterators |-> 0]
  /\ snapshot = [i \in Iterators |-> << >>]
  /\ seen = [i \in Iterators |-> << >>]
  /\ early = {}

-----------------------------------------------------------------------------
(* The iterator                                                            *)

\* ListGuardIterator(list): GetIterator(), GetIteratorFast(), foreach.
GetIterator(i) ==
  /\ phase[i] = "none" /\ alive
  /\ phase' = [phase EXCEPT ![i] = "open"]
  /\ bound' = [bound EXCEPT ![i] = TRUE]
  /\ pos' = [pos EXCEPT ![i] = 0]
  /\ status' = [status EXCEPT ![i] = FALSE]
  /\ cached' = [cached EXCEPT ![i] = FALSE]
  /\ cache' = [cache EXCEPT ![i] = << >>]
  /\ cursor' = [cursor EXCEPT ![i] = 0]
  /\ registered' = registered \cup {i}
  /\ snapshot' = [snapshot EXCEPT ![i] = list]
  /\ seen' = [seen EXCEPT ![i] = << >>]
  /\ early' = early \ {i}
  /\ UNCHANGED listVars

\* What the iterator walks, and where it is in it.
Walked(i) == IF cached[i] THEN cache[i] ELSE list
At(i) == IF cached[i] THEN cursor[i] ELSE pos[i]

\* GetCurrent()
GetCurrent(i) == Walked(i)[At(i)]

\* MoveNext() returns true.
MoveNext(i) ==
  /\ phase[i] = "open"
  /\ At(i) < Len(Walked(i))
  /\ IF cached[i] THEN cursor' = [cursor EXCEPT ![i] = @ + 1] /\ UNCHANGED pos
                  ELSE pos' = [pos EXCEPT ![i] = @ + 1] /\ UNCHANGED cursor
  /\ status' = [status EXCEPT ![i] = TRUE]
  /\ seen' = [seen EXCEPT ![i] = Append(@, Walked(i)[At(i) + 1])]
  /\ UNCHANGED <<listVars, registered, phase, bound, cached, cache, snapshot, early>>

\* MoveNext() returns false, and the iterator leaves its list.
MoveEnd(i) ==
  /\ phase[i] = "open"
  /\ At(i) >= Len(Walked(i))
  /\ phase' = [phase EXCEPT ![i] = "ended"]
  /\ registered' = IF bound[i] THEN registered \ {i} ELSE registered
  /\ bound' = [bound EXCEPT ![i] = FALSE]
  /\ UNCHANGED <<listVars, walkVars, snapshot, seen, early>>

\* Mutant of DestroyIterator: the registration is left behind.
DestroyIterator_StaysRegistered(i) ==
  /\ phase[i] # "none"
  /\ phase' = [phase EXCEPT ![i] = "none"]
  /\ UNCHANGED <<listVars, registered, bound, walkVars, snapshot, seen, early>>

\* ~ListGuardIterator(): the end of the foreach, a break, an exception.
DestroyIterator(i) ==
  /\ phase[i] # "none"
  /\ phase' = [phase EXCEPT ![i] = "none"]
  /\ registered' = IF bound[i] THEN registered \ {i} ELSE registered
  /\ bound' = [bound EXCEPT ![i] = FALSE]
  /\ UNCHANGED <<listVars, walkVars, snapshot, seen, early>>

-----------------------------------------------------------------------------
(* Changes of the list                                                     *)

\* Mutant of ListCache: starts after the current item.
ListCache_Next(i, past) ==
  IF status[i] THEN SubSeq(list, pos[i] + 1, Len(list))
  ELSE IF list # << >> THEN << >>
  ELSE <<past>>

\* The cache ListChanged() builds: from the current item on.  Before the first
\* MoveNext() it takes nothing of a list that has items (its MoveNext() was only
\* to find out), and one item past the end of a list that has none.
ListCache(i, past) ==
  IF status[i] THEN SubSeq(list, pos[i], Len(list))
  ELSE IF list # << >> THEN << >>
  ELSE <<past>>

\* Mutant of GuardIterators: nobody is told.
GuardIterators_None == UNCHANGED walkVars

\* ListChanged() of every registered iterator; one that has a cache keeps it.
GuardIterators ==
  LET changed == {i \in registered : ~cached[i] /\ bound[i]}
  IN  /\ \E past \in (IF list = << >> THEN Values ELSE {Head(list)}) :
           cache' = [i \in Iterators |-> IF i \in changed THEN ListCache(i, past) ELSE cache[i]]
      /\ cursor' = [i \in Iterators |-> IF i \in changed THEN (IF status[i] THEN 1 ELSE 0)
                                        ELSE cursor[i]]
      /\ cached' = [i \in Iterators |-> cached[i] \/ i \in changed]
      /\ UNCHANGED <<pos, status>>

\* The iterators that have not been moved yet when the list changes.  A foreach
\* moves its iterator right away, so these are iterators used by hand.
NotYetMoved == {i \in registered : ~status[i]}

\* Every mutator: guard the iterators, then change the list.
Change(newList) ==
  /\ alive
  /\ GuardIterators
  /\ list' = newList
  /\ early' = early \cup NotYetMoved
  /\ UNCHANGED <<alive, registered, phase, bound, snapshot, seen>>

AddItem(v) == Len(list) < MaxLen /\ Change(Append(list, v))

\* AddItems of a list other than this one.
AddItems(vs) == Len(list) + Len(vs) <= MaxLen /\ Change(list \o vs)

\* Array::RemoveItem removes the first item that compares equal ...
RemoveItem(v) == Change(RemoveFirst(list, v))

\* What is left of the items s when those that compare equal to one of gone are removed,
\* first to last.
Without(s, gone) ==
  LET kept[n \in 0 .. Len(s)] ==
        IF n = 0 THEN << >> ELSE IF s[n] \in gone THEN kept[n - 1] ELSE Append(kept[n - 1], s[n])
  IN  kept[Len(s)]

\* ... and RemoveItems all of them.
RemoveItems(v) == Change(Without(list, {v}))

Clear == Change(<< >>)

SetItem(n, v) == Change(ReplaceAt(list, n, v))

InsertItem(n, v) == Len(list) < MaxLen /\ Change(InsertAt(list, n, v))

RemoveItemAt(n) == Change(RemoveAt(list, n))

\* operator=: the guard is pointed at another list.
Assign(other) == Change(other)

\* ~ListGuardBase(): the iterators are cached and cut loose.
DestroyList ==
  /\ alive
  /\ GuardIterators
  /\ bound' = [i \in Iterators |-> bound[i] /\ i \notin registered]
  /\ alive' = FALSE /\ list' = << >> /\ registered' = {}
  /\ early' = early \cup NotYetMoved
  /\ UNCHANGED <<phase, snapshot, seen>>

-----------------------------------------------------------------------------
Mutate ==
  \/ \E v \in Values : AddItem(v) \/ RemoveItem(v) \/ RemoveItems(v)
  \/ \E v, w \in Values : AddItems(<<v, w>>) \/ Assign(<<v, w>>)
  \/ Clear
  \/ \E n \in 1 .. Len(list) : RemoveItemAt(n) \/ \E v \in Values : SetItem(n, v)
  \/ \E n \in 1 .. Len(list) + 1, v \in Values : InsertItem(n, v)

Iterate(i) == GetIterator(i) \/ MoveNext(i) \/ MoveEnd(i) \/ DestroyIterator(i)

Next == Mutate \/ DestroyList \/ \E i \in Iterators : Iterate(i)

Spec == Init /\ [][Next]_vars

-----------------------------------------------------------------------------
\* A loop visits the items the list had when the loop began, in that order and
\* none of them twice, and if it runs to its end it visits them all, whatever
\* its body and the bodies of nested loops do to the list in the meantime.  (An
\* iterator whose list changed before its first MoveNext() caches the wrong
\* items, see ListCache; a foreach cannot get there.)
VisitsSnapshot ==
  \A i \in Iterators \ early :
     /\ Len(seen[i]) <= Len(snapshot[i])
     /\ \A k \in 1 .. Len(seen[i]) : seen[i][k] = snapshot[i][k]
     /\ phase[i] = "ended" => Len(seen[i]) = Len(snapshot[i])

\* GetCurrent() is the item the iterator was last moved to, also after changes
\* that removed it, moved it, or destroyed the list.
CurrentSurvives ==
  \A i \in Iterators \ early :
     phase[i] = "open" /\ status[i] => /\ At(i) \in 1 .. Len(Walked(i))
                                       /\ GetCurrent(i) = seen[i][Len(seen[i])]

\* The list's registry holds exactly the iterators that still point to it: a
\* change calls no destroyed iterator and misses none that walks the list, and
\* no iterator is left with a pointer to a destroyed list.
RegistryExact ==
  /\ registered = {i \in Iterators : bound[i]}
  /\ \A i \in registered : alive /\ phase[i] = "open"
  /\ \A i \in Iterators : phase[i] = "open" /\ ~cached[i] => i \in registered

=============================================================================
