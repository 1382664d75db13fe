------------------------------- MODULE Strings -------------------------------
(***************************************************************************)
(* Bricks::String, the FilePath built on it, and the encoding of both.     *)
(*                                                                         *)
(* A String is a pointer to a Data buffer, which copies of it share, and a *)
(* cached length in characters (0: not known).  Some operations give the   *)
(* string a new buffer, others change the one it has.  A buffer is the     *)
(* sequence of its bytes with the terminator, a character a code point.    *)
(*                                                                         *)
(* The reference is a string with the semantics of a value: `text' is what *)
(* each String would hold if an operation changed the string it is called  *)
(* on and no other.                                                        *)
(***************************************************************************)
EXTENDS Integers, SequencesExt

CONSTANTS
  Characters,   \* the code points clients use
  Variables,    \* the String objects
  MaxCharacters,\* bound on the length of a string
  MaxSteps      \* bound on the number of operations

ASSUME StringsAssumption ==
  /\ \A c \in Characters : c \in Nat /\ 0 < c /\ c < 1114112
  /\ 47 \in Characters /\ IsFiniteSet(Variables)
  /\ MaxCharacters \in Nat /\ MaxSteps \in Nat

npos == -1

VARIABLES
  buffer,      \* String::buffer, the Data object
  heap,        \* the bytes of each Data
  dataLength,  \* String::dataLength
  text,        \* reference: the characters of each String
  spoiled,     \* history: Strings changed through a copy, or copied up to a zero byte
  stale,       \* history: Strings whose length was cached and then changed
  steps

stringVars == <<buffer, heap, dataLength, text, spoiled, stale, steps>>

-----------------------------------------------------------------------------
(* The encoding: UTF-8, but for the top bits of the bytes after the first  *)

\* UTF8GetCharacterSize(character)
SizeOf(c) == IF c = 0 THEN 2 ELSE IF c <= 127 THEN 1 ELSE IF c <= 2047 THEN 2 ELSE IF c <= 65535 THEN 3 ELSE 4

Header == <<0, 192, 224, 240>>
Mask == <<128, 32, 16, 8>>
Place == <<1, 64, 4096, 262144>>

\* Mutant of UTF8EncodeCharacter: five bits of the character per byte.
UTF8EncodeCharacter_Mask(c) ==
  LET n == SizeOf(c)
  IN  [i \in 1 .. n |-> IF i = 1 THEN Header[n] + ((c \div Place[n]) % Mask[n])
                        ELSE (c \div Place[n - i + 1]) % 32]

UTF8EncodeCharacter(c) ==
  LET n == SizeOf(c)
  IN  [i \in 1 .. n |-> IF i = 1 THEN Header[n] + ((c \div Place[n]) % Mask[n])
                        ELSE (c \div Place[n - i + 1]) % 64]

\* UTF8GetCharacterSize(data)
SizeAt(byte) == CASE byte < 128 -> 1 [] byte >= 240 -> 4 [] byte >= 224 /\ byte < 240 -> 3 [] OTHER -> 2

UTF8DecodeCharacter(b, offset) ==
  LET n == SizeAt(b[offset + 1])
      digit(i) == IF i = 1 THEN b[offset + 1] % Mask[n] ELSE b[offset + i] % 64
      value[i \in 0 .. n] == IF i = 0 THEN 0 ELSE 64 * value[i - 1] + digit(i)
  IN  value[n]

UTF8GetStringOffset(b, index) ==
  LET at[n \in 0 .. index] ==
        IF n = 0 THEN 0
        ELSE LET here == at[n - 1] IN IF b[here + 1] = 0 THEN here ELSE here + SizeAt(b[here + 1])
  IN  at[index]

UTF8GetStringLength(b) == Min({n \in 0 .. Len(b) : b[UTF8GetStringOffset(b, n) + 1] = 0})

\* The bytes of a C string literal: UTF-8 proper
Literal(characters) ==
  LET bytes(c) == [i \in 1 .. SizeOf(c) |-> UTF8EncodeCharacter(c)[i] + (IF i = 1 THEN 0 ELSE 128)]
  IN  FlattenSeq([i \in DOMAIN characters |-> bytes(characters[i])]) \o <<0>>

\* The characters GetCharacter(0), GetCharacter(1)... find in a buffer
Decode(b) == [i \in 1 .. UTF8GetStringLength(b) |-> UTF8DecodeCharacter(b, UTF8GetStringOffset(b, i - 1))]

\* strlen, strncpy: a zero among the bytes of a character ends them.
Strlen(b) == Min({i \in DOMAIN b : b[i] = 0}) - 1
Strncpy(b, n) == [i \in 1 .. n |-> IF i <= Strlen(b) THEN b[i] ELSE 0]

GetSize(b) == Len(b) - 1

Whole(b) == Strlen(b) = GetSize(b)

-----------------------------------------------------------------------------
(* Searching, and the parts of a path                                      *)

\* FirstIndexOf(character), LastIndexOf(character)
Indices(b, set) == LET characters == Decode(b) IN {i \in 0 .. Len(characters) - 1 : characters[i + 1] \in set}

FirstIndexOf(b, set) == IF Indices(b, set) = {} THEN npos ELSE Min(Indices(b, set))

\* Of several characters, LastIndexOf(String) does not see one at index 0.
LastIndexOf(b, set) == IF Indices(b, set) \ {0} = {} THEN npos ELSE Max(Indices(b, set))

\* FilePath::DirectorySeparator, GetDirectorySeparators(), ExtensionSeparator
Separator == 47
Separators == {Separator, 92}
ExtensionSeparator == 46

\* Substring(off, len), and the bytes it copies from
Rest(b, off) == SubSeq(b, (IF off = npos THEN 0 ELSE UTF8GetStringOffset(b, off)) + 1, Len(b))

Substring(b, off, len) ==
  LET rest == Rest(b, off)
  IN  Strncpy(rest, IF len = npos THEN Strlen(rest) ELSE UTF8GetStringOffset(rest, len)) \o <<0>>

\* Mutant of NposOrAdd: what follows a separator starts with it.
NposOrAdd_Stays(num, add) == num

NposOrAdd(num, add) == IF num = npos THEN npos ELSE num + add

GetDirectory(b) == Substring(b, 0, LastIndexOf(b, Separators))
GetFileName(b) == Substring(b, NposOrAdd(LastIndexOf(b, Separators), 1), npos)

GetExtension(b) ==
  LET name == GetFileName(b) IN Substring(name, NposOrAdd(FirstIndexOf(name, {ExtensionSeparator}), 1), npos)
GetFileNameWithoutExtension(b) ==
  LET name == GetFileName(b) IN Substring(name, 0, FirstIndexOf(name, {ExtensionSeparator}))

IsPathRooted(b) == FirstIndexOf(b, Separators) = 0

\* operator + of two buffers: strncpy of the first, memcpy of the second
Plus(b1, b2) == Strncpy(b1, GetSize(b1)) \o b2

-----------------------------------------------------------------------------
(* Operations                                                              *)

Buffers == 0 .. Cardinality(Variables)
Bytes(x) == heap[buffer[x]]
Sharing(x) == {y \in Variables \ {x} : buffer[y] = buffer[x]}
First(t, n) == [i \in 1 .. Min({n, Len(t)}) |-> t[i]]

StringsInit ==
  /\ buffer = [x \in Variables |-> 0]
  /\ heap = [d \in Buffers |-> <<0>>]
  /\ dataLength = [x \in Variables |-> 0]
  /\ text = [x \in Variables |-> << >>]
  /\ spoiled = {} /\ stale = {} /\ steps = 0

Step(x, characters) ==
  /\ steps < MaxSteps /\ steps' = steps + 1 /\ Len(characters) <= MaxCharacters
  /\ text' = [text EXCEPT ![x] = characters]

Marked(set, x, mark) == IF mark THEN set \cup {x} ELSE set \ {x}

\* The string gets a buffer of its own.
FreshIn(all, x, bytes) ==
  LET d == CHOOSE e \in Buffers : \A y \in Variables \ {x} : buffer[y] # e
  IN  /\ buffer' = [buffer EXCEPT ![x] = d]
      /\ heap' = [all EXCEPT ![d] = bytes]

Fresh(x, bytes) == FreshIn(heap, x, bytes)

\* A new String: no length is cached, unless the constructor was given one.
New(x, bytes, length) ==
  /\ Fresh(x, bytes)
  /\ dataLength' = [dataLength EXCEPT ![x] = length]

\* The bytes of its buffer change, and with them those of every copy.
InPlace(x, bytes) ==
  /\ heap' = [heap EXCEPT ![buffer[x]] = bytes]
  /\ spoiled' = spoiled \cup Sharing(x)
  /\ UNCHANGED buffer

\* String(const char*), operator = (const char*)
Construct(x, characters) ==
  /\ Step(x, characters)
  /\ New(x, Literal(characters), 0)
  /\ spoiled' = spoiled \ {x} /\ stale' = stale \ {x}

\* String(Character, repeat)
Repeat(x, c, repeat) ==
  /\ Step(x, [i \in 1 .. repeat |-> c])
  /\ New(x, FlattenSeq([i \in 1 .. repeat |-> UTF8EncodeCharacter(c)]) \o <<0>>, 0)
  /\ spoiled' = spoiled \ {x} /\ stale' = stale \ {x}

\* The copy constructor and operator =
Assign(x, y) ==
  /\ x # y /\ Step(x, text[y])
  /\ buffer' = [buffer EXCEPT ![x] = buffer[y]]
  /\ dataLength' = [dataLength EXCEPT ![x] = dataLength[y]]
  /\ spoiled' = Marked(spoiled, x, y \in spoiled)
  /\ stale' = Marked(stale, x, y \in stale)
  /\ UNCHANGED heap

\* x = y + z
Concatenate(x, y, z) ==
  /\ Step(x, text[y] \o text[z])
  /\ New(x, Plus(Bytes(y), Bytes(z)), 0)
  /\ spoiled' = Marked(spoiled, x, y \in spoiled \/ z \in spoiled \/ ~Whole(Bytes(y)))
  /\ stale' = stale \ {x}

\* x = y.Substring(off, len), y.GetDirectory() and the like.  The new string believes
\* that it has len characters.  (Where a zero byte would end the copy inside a
\* character, every later walk over the new string leaves its buffer: no state.)
Substr(x, y, off, len) ==
  LET available == UTF8GetStringLength(Rest(Bytes(y), off))
      rest      == SubSeq(text[y], off + 1, Len(text[y]))
  IN  /\ Whole(Bytes(y))
      /\ Step(x, IF len = npos THEN rest ELSE First(rest, len))
      /\ New(x, Substring(Bytes(y), off, len), IF len = npos THEN 0 ELSE len)
      /\ spoiled' = Marked(spoiled, x, y \in spoiled)
      /\ stale' = Marked(stale, x, len > available)

Aged(x) == IF dataLength[x] # 0 THEN stale \cup {x} ELSE stale

\* operator +=: the cached length stays.
AppendString(x, y) ==
  /\ text[y] # << >>
  /\ Step(x, text[x] \o text[y])
  /\ Fresh(x, SubSeq(Bytes(x), 1, GetSize(Bytes(x))) \o Bytes(y))
  /\ spoiled' = Marked(spoiled, x, {x, y} \cap spoiled # {})
  /\ stale' = Aged(x)
  /\ UNCHANGED dataLength

\* The bytes with the character at offset exchanged, what follows it moved
Replaced(b, offset, c) ==
  SubSeq(b, 1, offset) \o UTF8EncodeCharacter(c) \o SubSeq(b, offset + SizeAt(b[offset + 1]) + 1, Len(b))

\* SetCharacter: a new buffer only when the character grows.
SetCharacter(x, index, c) ==
  LET offset == UTF8GetStringOffset(Bytes(x), index)
      grows  == SizeOf(c) > SizeAt(Bytes(x)[offset + 1])
  IN  /\ index < UTF8GetStringLength(Bytes(x))
      /\ Step(x, [i \in DOMAIN text[x] |-> IF i = index + 1 THEN c ELSE text[x][i]])
      /\ IF grows THEN Fresh(x, Replaced(Bytes(x), offset, c)) /\ UNCHANGED spoiled
                  ELSE InPlace(x, Replaced(Bytes(x), offset, c))
      /\ UNCHANGED <<dataLength, stale>>

\* Truncate(len): in place, and the cached length stays.
Truncated(b, len) == SubSeq(b, 1, UTF8GetStringOffset(b, len)) \o <<0>>

Truncate(x, len) ==
  /\ len < UTF8GetStringLength(Bytes(x))
  /\ Step(x, First(text[x], len))
  /\ InPlace(x, Truncated(Bytes(x), len))
  /\ stale' = Aged(x)
  /\ UNCHANGED dataLength

\* GetLength(), which remembers what it counted.
Length(x) == IF dataLength[x] # 0 THEN dataLength[x] ELSE UTF8GetStringLength(Bytes(x))

GetLength(x) ==
  /\ Step(x, text[x])
  /\ dataLength' = [dataLength EXCEPT ![x] = Length(x)]
  /\ UNCHANGED <<buffer, heap, spoiled, stale>>

\* x = FilePath(y): a copy, whose last separator is cut off the buffer it shares.
FilePath(x, y) ==
  LET n   == Length(y)
      cut == n # 0 /\ LastIndexOf(Bytes(y), Separators) = n - 1
  IN  /\ x # y
      /\ Step(x, IF cut THEN First(text[y], n - 1) ELSE text[y])
      /\ buffer' = [buffer EXCEPT ![x] = buffer[y]]
      /\ heap' = IF cut THEN [heap EXCEPT ![buffer[y]] = Truncated(@, n - 1)] ELSE heap
      /\ dataLength' = [dataLength EXCEPT ![x] = n]
      /\ spoiled' = Marked(IF cut THEN spoiled \cup Sharing(y) \cup {y} ELSE spoiled, x, y \in spoiled \cup stale)
      /\ stale' = Marked(stale, x, cut \/ y \in stale)

\* x = y.Combine(z) of a FilePath y, y / z.  Both lengths get cached on the way, and
\* FilePath(leaf) cuts the last separator off the buffer of the leaf.
Combine(x, y, z) ==
  LET n      == Length(z)
      both   == n # 0 /\ Length(y) # 0
      cut    == both /\ LastIndexOf(Bytes(z), Separators) = n - 1
      after  == IF cut THEN [heap EXCEPT ![buffer[z]] = Truncated(@, n - 1)] ELSE heap
      rooted == both /\ IsPathRooted(after[buffer[z]])
      joined == both /\ ~rooted
      source == IF n = 0 THEN y ELSE z
      cached == [w \in Variables |-> IF w = z \/ (w = y /\ n # 0) THEN Length(w) ELSE dataLength[w]]
  IN  /\ Step(x, IF joined THEN text[y] \o <<Separator>> \o text[z] ELSE text[source])
      /\ IF joined
           THEN FreshIn(after, x, Plus(Plus(after[buffer[y]], <<Separator, 0>>), after[buffer[z]]))
           ELSE buffer' = [buffer EXCEPT ![x] = buffer[source]] /\ heap' = after
      /\ dataLength' = [cached EXCEPT ![x] = IF joined THEN 0 ELSE cached[source]]
      /\ spoiled' = Marked(IF cut THEN spoiled \cup Sharing(z) \cup {z} ELSE spoiled, x,
                           {y, z} \cap (spoiled \cup stale) # {} \/ cut \/ (joined /\ ~Whole(Bytes(y))))
      /\ stale' = Marked(IF cut THEN stale \cup {z} ELSE stale, x, ~joined /\ (cut \/ source \in stale))

StringsNext ==
  \E x \in Variables :
    \/ \E t \in BoundedSeq(Characters, 2) : Construct(x, t)
    \/ \E c \in Characters, n \in 1 .. 2 : Repeat(x, c, n)
    \/ \E y \in Variables : Assign(x, y) \/ AppendString(x, y) \/ FilePath(x, y)
    \/ \E y, z \in Variables : Concatenate(x, y, z) \/ Combine(x, y, z)
    \/ \E y \in Variables, off \in 0 .. 1, len \in {npos, 1, 2} : Substr(x, y, off, len)
    \/ \E i \in 0 .. MaxCharacters, c \in Characters : SetCharacter(x, i, c)
    \/ \E i \in 0 .. MaxCharacters : Truncate(x, i)
    \/ GetLength(x)

StringsSpec == StringsInit /\ [][StringsNext]_stringVars

-----------------------------------------------------------------------------
(* Properties                                                              *)

\* A String holds the characters that were put into it, through every sequence of
\* copies, concatenations, replacements and cuts, unless its buffer was changed
\* through a copy (SetCharacter, Truncate, and FilePath's constructor do that) or it
\* was copied from a string with a zero byte inside a character (String(Character)
\* and SetCharacter leave the top bit of the bytes after the first clear).  And
\* GetLength() counts them, unless a length was cached that += or a cut then made
\* wrong, or Substring() was asked for more than there is.
HoldsItsText ==
  \A x \in Variables \ spoiled :
    Decode(Bytes(x)) = text[x] /\ (x \notin stale => Length(x) = Len(text[x]))

\* A path is its directory, a separator and its file name, and a file name its stem,
\* a dot and its extension (LastIndexOf misses a separator that is the first character).
PathSplits ==
  \A x \in {y \in Variables : Whole(Bytes(y))} :
    LET path == Decode(Bytes(x))
        name == GetFileName(Bytes(x))
    IN  /\ LastIndexOf(Bytes(x), Separators) # npos =>
             path = Decode(GetDirectory(Bytes(x))) \o <<path[LastIndexOf(Bytes(x), Separators) + 1]>> \o Decode(name)
        /\ FirstIndexOf(name, {ExtensionSeparator}) # npos =>
             Decode(name) = Decode(GetFileNameWithoutExtension(Bytes(x))) \o <<ExtensionSeparator>>
                              \o Decode(GetExtension(Bytes(x)))
=============================================================================
