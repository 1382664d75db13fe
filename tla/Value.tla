------------------------------- MODULE Value -------------------------------
(***************************************************************************)
(* Value: a number that is kept as one type in eight octets and read as    *)
(* another.  The getters and setters convert; SetType only says how the    *)
(* octets are to be read from then on.                                     *)
(*                                                                         *)
(* The machine stores the lowest octet first.  Floating point is left out. *)
(***************************************************************************)
EXTENDS Integers, FiniteSetsExt

CONSTANTS
  Base,          \* an octet is one of 0 .. Base - 1
  ValueObjects,  \* Value objects
  ValueNumbers,  \* numbers that clients set
  MaxValueCalls  \* bound on the operations

ASSUME ValueAssumption == Base \in Nat \ {0, 1} /\ ValueNumbers \subseteq Nat /\ MaxValueCalls \in Nat

VARIABLES
  kept,      \* the type and the octets of each Value
  register,  \* reference: each as one number, of which the setters replace the lower
             \* octets, and how many of these were ever set
  valueCalls

valueVars == <<kept, register, valueCalls>>

ValueType == {"Pointer", "Boolean", "Byte", "Int16", "Int32", "Int64"}
Places == 1..8

\* What GetSize() says and SetData copies.  A Byte has eight.
SizeOfType(type) ==
  CASE type = "Boolean" -> 1 [] type = "Int16" -> 2 [] type = "Int32" -> 4 [] OTHER -> 8

\* sizeof of the C++ type that the octets are accessed as
WidthOf(type) == IF type = "Byte" THEN 1 ELSE SizeOfType(type)

\* ValueCast: anything but 0 is true; other types keep their lower octets.
ValueCast(type, n) == IF type = "Boolean" THEN Min({n, 1}) ELSE n % Base ^ WidthOf(type)

-----------------------------------------------------------------------------
(* Octets                                                                  *)

OctetOf(n, place) == (n \div Base ^ (place - 1)) % Base

\* The lower octets of `from' in front of the others of `data'
Copied(data, from, size) == [place \in Places |-> IF place <= size THEN from[place] ELSE data[place]]

OctetsOf(n) == [place \in Places |-> OctetOf(n, place)]
NumberOf(data, size) == MapThenSumSet(LAMBDA place : data[place] * Base ^ (place - 1), 1..size)

\* Mutant of GetValue: as many octets as GetSize() says.
GetValue_Size(value) == NumberOf(value.data, SizeOfType(value.type))

\* GetValue, before the conversion to the type asked for
GetValue(value) == NumberOf(value.data, WidthOf(value.type))

-----------------------------------------------------------------------------
(* Operations                                                              *)

\* The member data is not initialised: whatever octet was there.
ValueInit ==
  /\ \E rest \in 0 .. Base - 1 :
       kept = [v \in ValueObjects |-> [type |-> "Int64", data |-> [place \in Places |-> rest]]]
  /\ register = [v \in ValueObjects |-> [number |-> 0, known |-> 0]]
  /\ valueCalls = 0

ValueCall == valueCalls < MaxValueCalls /\ valueCalls' = valueCalls + 1

IsConstructed(v) == register[v].known > 0

Overwritten(number, n, width) == (number \div Base ^ width) * Base ^ width + n

\* The constructor for a type of C++: SetData copies from where the parameter is, for a Byte
\* also what is behind it.
ConstructValue(v, type, n) ==
  \E rest \in 0 .. Base - 1 :
    LET width     == WidthOf(type)
        parameter == Copied([place \in Places |-> rest], OctetsOf(ValueCast(type, n)), width)
    IN  /\ ValueCall
        /\ kept' = [kept EXCEPT ![v] = [type |-> type, data |-> Copied(@.data, parameter, SizeOfType(type))]]
        /\ register' = [register EXCEPT ![v] = [number |-> ValueCast(type, n), known |-> width]]

\* SetValue of any type: the number becomes one of the type that the Value has.
SetDataValue(v, given, n) ==
  LET type  == kept[v].type
      m     == ValueCast(type, ValueCast(given, n))
      width == WidthOf(type)
  IN  /\ ValueCall /\ IsConstructed(v)
      /\ kept' = [kept EXCEPT ![v].data = Copied(@, OctetsOf(m), width)]
      /\ register' = [register EXCEPT ![v] = [number |-> Overwritten(@.number, m, width), known |-> Max({@.known, width})]]

SetType(v, type) ==
  /\ ValueCall /\ IsConstructed(v)
  /\ kept' = [kept EXCEPT ![v].type = type]
  /\ UNCHANGED register

ValueNext ==
  \E v \in ValueObjects, type \in ValueType :
    \/ \E n \in ValueNumbers : ConstructValue(v, type, n) \/ SetDataValue(v, type, n)
    \/ SetType(v, type)

ValueSpec == ValueInit /\ [][ValueNext]_valueVars

-----------------------------------------------------------------------------

\* Properties of Value (value.cpp:8-101): whatever the type was changed to in between, a
\* getter gives the lower octets of what the setters left, converted to the type it asks
\* for, as if the Value were one number of 64 bits.  Exempt are octets that nobody set and
\* a Boolean made of an octet that is neither 0 nor 1, which C++ leaves open.
GetsWhatWasSet ==
  \A v \in ValueObjects, asked \in ValueType :
    LET type   == kept[v].type
        number == register[v].number % Base ^ WidthOf(type)
    IN  WidthOf(type) <= register[v].known /\ (type = "Boolean" => number <= 1)
          => ValueCast(asked, GetValue(kept[v])) = ValueCast(asked, number)
=============================================================================
