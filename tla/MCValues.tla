------------------------------ MODULE MCValues ------------------------------
(***************************************************************************)
(* What programs keep in memory, for TLC: a behaviour is one of strings,   *)
(* one of counted objects, one of streams, one of a Serializer or one of a *)
(* Value, chosen at the start.                                             *)
(***************************************************************************)
EXTENDS Strings, Objects, Streams, Serializer, Value

VARIABLE part

MCContents == {<< >>, <<1, 0>>}
MCNumbers == {<<0, 1>>, <<0, 1, 0, 0>>, <<1, 0, 0, 1, 0, 0, 0, 0>>}

-----------------------------------------------------------------------------
(* Objects of every type, nested, and some with parts of a client's type   *)

Text(chars) == [type |-> "String", text |-> chars, length |-> Len(chars)]
Of(items) == [type |-> "Array", items |-> items]
Client == [type |-> "Client"]
MCSamples == {
  Text(<<2, 1>>), Client,
  Of(<<[type |-> "Null"], Of(<<Text(<<2>>)>>), [type |-> "Data", bytes |-> <<1, 1>>]>>),
  Of(<<Text(<<1>>), Client>>),
  [type |-> "Dictionary", entries |-> (<<1>> :> [type |-> "Value", size |-> 1]) @@ (<<2>> :> Client)]}

MCClientSerializers == {[type |-> "Client", id |-> "own"], [type |-> "String", id |-> "replacement"]}

-----------------------------------------------------------------------------

ValuesInit ==
  /\ StringsInit /\ ObjectsInit /\ StreamsInit /\ SerialInit /\ ValueInit
  /\ part \in {"strings", "objects", "streams", "records", "values"}
  /\ part # "streams" => streams[Memory].data = << >> /\ streams[Memory].position = 0
  /\ part # "values" => kept = [v \in ValueObjects |-> [type |-> "Int64", data |-> [place \in Places |-> 0]]]

ValuesNext ==
  \/ part = "strings" /\ StringsNext /\ UNCHANGED <<objectVars, streamVars, serialVars, valueVars, part>>
  \/ part = "objects" /\ ObjectsNext /\ UNCHANGED <<stringVars, streamVars, serialVars, valueVars, part>>
  \/ part = "streams" /\ StreamsNext /\ UNCHANGED <<stringVars, objectVars, serialVars, valueVars, part>>
  \/ part = "records" /\ SerialNext /\ UNCHANGED <<stringVars, objectVars, streamVars, valueVars, part>>
  \/ part = "values" /\ ValueNext /\ UNCHANGED <<stringVars, objectVars, streamVars, serialVars, part>>
=============================================================================
