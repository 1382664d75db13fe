------------------------------- MODULE MCEvent -------------------------------
(* Model-checking instance of Event and the ListGuard in it.               *)
EXTENDS Event

\* Iterators and items are interchangeable.
Symmetry == Permutations(Iterators) \cup Permutations(Values)

=============================================================================
