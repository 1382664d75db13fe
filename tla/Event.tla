-------------------------------- MODULE Event --------------------------------
(***************************************************************************)
(* Bricks::Event: a ListGuard around an AutoArray of delegates.            *)
(*                                                                         *)
(* The items of the list are the delegates; two that call the same         *)
(* function, or the same method of the same object, are one value here, as *)
(* they compare equal.  Raising the event is a foreach over the guard, so  *)
(* the iterators are the calls of operator () in progress, one inside the  *)
(* other; += and -= of a delegate are AddItem and RemoveItems of the guard.*)
(* What is left are the two operations that use listInternal itself.       *)
(***************************************************************************)
EXTENDS ListGuard

\* Event::operator bool
HasListeners == list # << >>

\* operator -= (object): the methods of the object go one by one, the first of them
\* removed through the guard before the list is searched again.
RemoveObject(methods) ==
  /\ HasListeners
  /\ \E i \in DOMAIN list : list[i] \in methods
  /\ Change(Without(list, methods))

\* operator = (event): the new delegates are stored in listInternal and the old ones
\* released without a word to the guard.  What an iterator in the list does next is
\* undefined.
AssignEvent(delegates) ==
  /\ alive
  /\ list' = delegates
  /\ early' = early \cup {i \in registered : ~cached[i]}
  /\ UNCHANGED <<alive, registered, phase, bound, walkVars, snapshot, seen>>

EventNext ==
  \/ Next
  \/ \E methods \in SUBSET Values : RemoveObject(methods)
  \/ \E d \in Values : AssignEvent(<<d>>)

EventSpec == Init /\ [][EventNext]_vars
=============================================================================
