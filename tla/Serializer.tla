----------------------------- MODULE Serializer -----------------------------
(***************************************************************************)
(* Serializer: objects written to a stream as records and read back.       *)
(*                                                                         *)
(* A record is the identifier of the serializer that the registry has for  *)
(* the type of the object, then what that serializer writes: a size and    *)
(* bytes, a count and records, or nothing.  Clients add serializers of     *)
(* their own, for new types or in the place of the built-in ones, and take *)
(* them out again, between records.  A call may fail part way, when the    *)
(* type of a nested object has no serializer, and leaves what it wrote.    *)
(*                                                                         *)
(* The stream is a sequence of integers and bytes.  A character is its size*)
(* in UTF-8; its first byte is that size and the others are zero.          *)
(***************************************************************************)
EXTENDS Integers, Sequences, SequencesExt, TLC

CONSTANTS
  Samples,            \* objects that clients serialize
  ClientSerializers,  \* serializers of clients: the type, and the identifier
  MaxRecords          \* calls of Serialize

ASSUME SerializerAssumption == MaxRecords \in Nat

VARIABLES
  registry,  \* Serializer::serializers: type -> identifier, Unregistered if it has none
  stream,    \* what has been written
  starts,    \* where each call of Serialize started, the object, and whether it returned
  answer     \* the last call of Deserialize

serialVars == <<registry, stream, starts, answer>>

Unregistered == "unregistered"
BuiltIn == {"Dictionary", "Array", "String", "Value", "Data", "Null"}
Types == BuiltIn \cup {c.type : c \in ClientSerializers}

\* The serializers of the library have fixed identifiers, here the names of the types.
SerialInit ==
  /\ registry = [t \in Types |-> IF t \in BuiltIn THEN t ELSE Unregistered]
  /\ stream = << >> /\ starts = << >>
  /\ answer = [record |-> 0]

-----------------------------------------------------------------------------
(* The registry                                                            *)

\* Takes the place of the serializer that the type has
RegisterSerializer(c) ==
  /\ registry' = [registry EXCEPT ![c.type] = c.id]
  /\ answer' = [record |-> 0]
  /\ UNCHANGED <<stream, starts>>

\* The built-in one that it took the place of does not come back.
UnregisterSerializer(c) ==
  /\ registry[c.type] = c.id
  /\ registry' = [registry EXCEPT ![c.type] = Unregistered]
  /\ answer' = [record |-> 0]
  /\ UNCHANGED <<stream, starts>>

-----------------------------------------------------------------------------
(* Serialize                                                               *)

Int32(n) == <<[int |-> n]>>

\* Bytes of a text
Encoded(text) ==
  FlattenSeq([i \in 1 .. Len(text) |-> [b \in 1 .. text[i] |-> [byte |-> IF b = 1 THEN text[i] ELSE 0]]])

\* Mutant of Sized: the size is the number of characters.
Sized_Length(text) == Int32(Len(text)) \o SubSeq(Encoded(text), 1, Len(text))

\* StringSerializer, and DataSerializer with bytes for characters
Sized(text) == Int32(Len(Encoded(text))) \o Encoded(text)

\* The records that make up a Dictionary or an Array
Parts(object) ==
  IF object.type = "Array" THEN object.items
  ELSE FlattenSeq([i \in 1 .. Cardinality(DOMAIN object.entries) |->
         LET key == SetToSeq(DOMAIN object.entries)[i]
         IN  <<[type |-> "String", text |-> key, length |-> Len(key)], object.entries[key]>>])

\* What is written for an object (a Value is its type, here the size of it, and its bytes),
\* and whether all of it: GetItem() throws for a type without
\* a serializer, before its identifier is written.
RECURSIVE Serialize(_)
Serialize(object) ==
  LET header == <<[id |-> registry[object.type]]>>
      body   == CASE object.type = "String" -> Sized(object.text)
                  [] object.type = "Data"   -> Sized(object.bytes)
                  [] object.type = "Value"  -> Int32(object.size) \o Encoded([i \in 1 .. object.size |-> 1])
                  [] object.type = "Array"      -> Int32(Len(object.items))
                  [] object.type = "Dictionary" -> Int32(Cardinality(DOMAIN object.entries))
                  [] OTHER -> << >>
      Then(sofar, part) ==
        IF ~sofar.ok THEN sofar
        ELSE LET next == Serialize(part) IN [tokens |-> sofar.tokens \o next.tokens, ok |-> next.ok]
  IN  IF registry[object.type] = Unregistered THEN [tokens |-> << >>, ok |-> FALSE]
      ELSE IF object.type \notin {"Array", "Dictionary"} THEN [tokens |-> header \o body, ok |-> TRUE]
      ELSE FoldLeft(Then, [tokens |-> header \o body, ok |-> TRUE], Parts(object))

WriteRecord(object) ==
  LET written == Serialize(object)
  IN  /\ Len(starts) < MaxRecords
      /\ stream' = stream \o written.tokens
      /\ starts' = Append(starts, [at |-> Len(stream) + 1, object |-> object, ok |-> written.ok,
                                   next |-> Len(stream) + Len(written.tokens) + 1])
      /\ answer' = [record |-> 0]
      /\ UNCHANGED registry

-----------------------------------------------------------------------------
(* Deserialize                                                             *)

Throw == [ok |-> FALSE]
Found(at, object) == [ok |-> TRUE, at |-> at, object |-> object]

\* String(bytes, size): as many characters as the text has bytes, so that when some take more
\* than one byte it reads on in the memory after them, up to a zero byte.
ReadText(bytes, after) ==
  LET text == SelectSeq([i \in 1 .. Len(bytes) |-> bytes[i].byte], LAMBDA b : b # 0)
  IN  [type |-> "String", length |-> Len(bytes),
       text |-> text \o SubSeq(after, 1, Min({Len(after), Len(bytes) - Len(text)}))]

\* DictionarySerializer: a key that is not a String is a null pointer.
Entries(parts) ==
  FoldLeft(LAMBDA entries, i : (parts[2 * i - 1].text :> parts[2 * i]) @@ entries,
           << >>, [i \in 1 .. Len(parts) \div 2 |-> i])

\* Read from position `at'; `after' is what memory holds after a string.
RECURSIVE Deserialize(_, _)
Deserialize(at, after) ==
  LET types   == {t \in Types : at <= Len(stream) /\ registry[t] = stream[at].id}
      type    == CHOOSE t \in types : TRUE
      n       == stream[at + 1].int
      bytes   == SubSeq(stream, at + 2, at + 1 + n)
      Item(sofar, i) ==
        IF ~sofar.ok THEN sofar
        ELSE LET next == Deserialize(sofar.at, after)
             IN  IF next.ok THEN Found(next.at, Append(sofar.object, next.object)) ELSE Throw
      Items(count) == FoldLeft(Item, Found(at + 2, << >>), [i \in 1 .. count |-> i])
  IN  IF types = {} THEN Throw
      ELSE CASE type = "String" -> Found(at + 2 + n, ReadText(bytes, after))
             [] type = "Data" -> Found(at + 2 + n, [type |-> "Data", bytes |-> [i \in 1 .. n |-> bytes[i].byte]])
             [] type = "Value" -> Found(at + 2 + n, [type |-> "Value", size |-> n])
             [] type = "Array" ->
                  LET items == Items(n)
                  IN  IF items.ok THEN Found(items.at, [type |-> "Array", items |-> items.object]) ELSE Throw
             [] type = "Dictionary" ->
                  LET items == Items(2 * n)
                  IN  IF items.ok /\ \A i \in 1 .. n : items.object[2 * i - 1].type = "String"
                      THEN Found(items.at, [type |-> "Dictionary", entries |-> Entries(items.object)])
                      ELSE Throw
             [] OTHER -> Found(at + 1, [type |-> type])

\* The client reads a record whose start it knows.
ReadRecord(record, after) ==
  /\ record \in DOMAIN starts
  /\ answer' = [record |-> record, result |-> Deserialize(starts[record].at, after)]
  /\ UNCHANGED <<registry, stream, starts>>

SerialNext ==
  \/ \E c \in ClientSerializers : RegisterSerializer(c) \/ UnregisterSerializer(c)
  \/ \E object \in Samples : WriteRecord(object)
  \/ \E record \in 1 .. MaxRecords, after \in {<< >>, <<1>>} : ReadRecord(record, after)

-----------------------------------------------------------------------------
(* Properties                                                              *)

\* The same, but for the text and length of a String with characters of several bytes
RECURSIVE Matches(_, _)
Matches(object, read) ==
  /\ object.type = read.type
  /\ CASE object.type = "String" ->
            /\ IsPrefix(object.text, read.text)
            /\ (\A i \in DOMAIN object.text : object.text[i] = 1) => read = object
       [] object.type = "Array" ->
            /\ Len(object.items) = Len(read.items)
            /\ \A i \in DOMAIN object.items : Matches(object.items[i], read.items[i])
       [] object.type = "Dictionary" ->
            /\ Cardinality(DOMAIN object.entries) = Cardinality(DOMAIN read.entries)
            /\ \A k \in DOMAIN object.entries :
                 \E l \in DOMAIN read.entries : IsPrefix(k, l) /\ Matches(object.entries[k], read.entries[l])
       [] OTHER -> read = object

\* A record that Serialize wrote completely is read back, by any later Deserialize that
\* returns, as the object that was written, to exactly its end: whatever calls before and after it
\* failed half way, and however the registry has changed since.
ReadsBack ==
  answer.record # 0 =>
    LET record == starts[answer.record]
        result == answer.result
    IN  record.ok /\ result.ok => result.at = record.next /\ Matches(record.object, result.object)
=============================================================================
