------------------------------- MODULE Streams -------------------------------
(***************************************************************************)
(* Bricks::IO::MemoryStream, the Substreams over one, and the reader,      *)
(* writer and navigator that clients put in front of any of them.          *)
(*                                                                         *)
(* One thread makes one call at a time; the hazard is that all handles     *)
(* share the position of the MemoryStream, and that its arithmetic is      *)
(* unsigned.  Integers have Word values here instead of 2^64, a block has  *)
(* BlockSize bytes instead of 0x400 and Pad works in pieces of PadBlock    *)
(* bytes instead of 0x100.  A stream is a record, a call an operator from  *)
(* the streams to the streams and what the call returned.                  *)
(***************************************************************************)
EXTENDS Integers, SequencesExt

CONSTANTS
  Word,          \* number of values of an unsigned long
  BlockSize, PadBlock,
  Substreams,    \* the Substream objects
  Octets,         \* the bytes clients write; 0 is the terminator of a string
  Numbers,        \* the u16, u32 and u64 that clients write: their bytes, highest first
  Junk,          \* a byte of memory that nothing has been written to
  LittleEndian,  \* IsLittleEndian()
  CompilerSwaps, \* whether the compiler's own byte swaps are used: not for a __GNUC_MINOR__ < 3
  Contents,      \* bytes that the memory of a MemoryStream may hold when it is made
  MaxLength,     \* bound on offsets, positions and lengths clients pass
  MaxCalls       \* bound on the number of calls

\* No stream gets as long as an unsigned long can count.
ASSUME WordAssumption ==
  Word \in Nat /\ MaxLength \in Nat /\ (MaxCalls + 3) * (2 * MaxLength + BlockSize + 8) < Word
ASSUME ContentsAssumption == Contents \subseteq BoundedSeq(Octets, MaxLength)
ASSUME BlockAssumption == BlockSize \in Nat \ {0} /\ PadBlock \in Nat \ {0} /\ MaxCalls \in Nat
ASSUME ByteAssumption ==
  /\ "memory" \notin Substreams /\ LittleEndian \in BOOLEAN /\ CompilerSwaps \in BOOLEAN
  /\ 0 \in Octets /\ Octets \subseteq 0 .. 255 /\ Junk \in 0 .. 255 \ Octets
  /\ Numbers \subseteq [1 .. 2 -> Octets] \cup [1 .. 4 -> Octets] \cup [1 .. 8 -> Octets]

Memory == "memory"
Streams == {Memory} \cup Substreams

VARIABLES
  streams,  \* the fields of every stream
  last,     \* the call made last: name, stream, argument, bytes read, outcome
  made,     \* calls made
  ints      \* history: the integers written and not overwritten, [at, value, endian]

streamVars == <<streams, last, made, ints>>

-----------------------------------------------------------------------------
(* MemoryStream                                                            *)

\* The value of an unsigned long
Unsigned(n) == n % Word

\* Mutant of RoundUp: down.
RoundUp_Down(size, round) == (size \div round) * round

\* Math::RoundUp(size, BlockSize) of an unsigned long
RoundUp(size, round) == (Unsigned(size + round - 1) \div round) * round

\* realloc keeps what fits; the rest of the block is as malloc left it.
Allocate(m, size) ==
  [m EXCEPT !.data = [i \in 1 .. RoundUp(size, BlockSize) |-> IF i <= Len(@) THEN @[i] ELSE Junk]]

SetLength(m, length) == Allocate([m EXCEPT !.length = length], length)

\* What a primitive read or write did: the stream after it, the bytes, and
\* whether it went outside the memory of the stream or of its caller.
Outcome(s, got, bad) == [s |-> s, got |-> got, bad |-> bad]

\* The n bytes of memory from data + at on
BytesAt(data, at, n) == [i \in 1 .. n |-> IF at + i <= Len(data) THEN data[at + i] ELSE Junk]

\* Read of the MemoryStream: length - position is unsigned.
MemoryRead(m, size) ==
  LET n == Min({size, Unsigned(m.length - m.position)})
  IN  Outcome([m EXCEPT !.position = Unsigned(@ + n)],
              BytesAt(m.data, m.position, n), m.position + n > Len(m.data))

Overwrite(data, at, bytes) ==
  [i \in DOMAIN data |-> IF i \in at + 1 .. at + Len(bytes) THEN bytes[i - at] ELSE data[i]]

MemoryWrite(m, bytes) ==
  LET end   == Unsigned(m.position + Len(bytes))
      grown == IF end > m.length THEN SetLength(m, end) ELSE m
  IN  Outcome([grown EXCEPT !.data = Overwrite(@, m.position, bytes), !.position = end],
              bytes, m.position + Len(bytes) > Len(grown.data))

\* data[position++], with no look at the length
MemoryReadByte(m) ==
  Outcome([m EXCEPT !.position = Unsigned(@ + 1)],
          BytesAt(m.data, m.position, 1), m.position + 1 > Len(m.data))

\* A constructor: Allocate, then memcpy
Constructed(data, position) ==
  LET m == SetLength([data |-> << >>, length |-> 0, position |-> position], Len(data))
  IN  [m EXCEPT !.data = Overwrite(@, 0, data)]

\* MemoryStream(), or MemoryStream(data, length), which leaves the position as
\* it finds it: at 0, or past the end (SetPosition makes the others).
StreamsInit ==
  /\ \E data \in Contents, position \in {0, MaxLength + 1} :
       /\ data = << >> => position = 0
       /\ streams = [h \in Streams |-> IF h = Memory THEN Constructed(data, position)
                                       ELSE [open |-> FALSE, offset |-> 0, length |-> 0, position |-> 0]]
  /\ last = [op |-> "none", endian |-> "none", on |-> Memory, size |-> 0, got |-> << >>, end |-> "returned"]
  /\ made = 0 /\ ints = {}

-----------------------------------------------------------------------------
(* Substream: a clamped window that moves the stream behind it before      *)
(* every access                                                            *)

Clamp(s, size) ==
  IF Unsigned(s.position + size) > s.length THEN Unsigned(s.length - s.position) ELSE size

\* Mutant of Sought: the stream behind is where the last call left it.
Sought_Stays(st, h) == st[Memory]

\* stream->SetPosition(offset + position)
Sought(st, h) == [st[Memory] EXCEPT !.position = Unsigned(st[h].offset + st[h].position)]

\* The streams after the outcome r of an access to the memory on behalf of h.
Moved(st, h, r) ==
  IF h = Memory THEN [st EXCEPT ![Memory] = r.s]
  ELSE [st EXCEPT ![Memory] = r.s, ![h].position = Unsigned(@ + Len(r.got))]

Read(st, h, size) ==
  LET r == IF h = Memory THEN MemoryRead(st[h], size)
           ELSE MemoryRead(Sought(st, h), Clamp(st[h], size))
  IN  Outcome(Moved(st, h, r), r.got, r.bad \/ Len(r.got) > size)

\* A clamped size larger than the caller's buffer reads past that buffer.
Write(st, h, bytes) ==
  LET n == IF h = Memory THEN Len(bytes) ELSE Clamp(st[h], Len(bytes))
      r == MemoryWrite(IF h = Memory THEN st[h] ELSE Sought(st, h),
                       BytesAt(bytes, 0, n))
  IN  Outcome(Moved(st, h, r), r.got, r.bad \/ n > Len(bytes))

\* Stream::ReadByte: << >> is -1.
ReadByte(st, h) ==
  IF h = Memory THEN LET r == MemoryReadByte(st[h]) IN Outcome(Moved(st, h, r), r.got, r.bad)
  ELSE Read(st, h, 1)

-----------------------------------------------------------------------------
(* Endianness: an integer is the sequence of its bytes, highest first.     *)

Endians == {"native", "big", "little"}

\* The bytes of a native integer in memory, and the integer of such bytes.
InMemory(digits) == IF LittleEndian THEN Reverse(digits) ELSE digits

\* The operator | of two bytes, bit by bit
Either(a, b, bit) == IF (a \div bit) % 2 = 1 \/ (b \div bit) % 2 = 1 THEN bit ELSE 0
ByteOr(a, b) ==
  Either(a, b, 1) + Either(a, b, 2) + Either(a, b, 4) + Either(a, b, 8)
    + Either(a, b, 16) + Either(a, b, 32) + Either(a, b, 64) + Either(a, b, 128)

\* BRICKS_ENDIAN_SWAP16, 32 and 64.  Without the compiler's swaps, that of a u64 applies
\* the swap of a u32 to the u64 of its high half, and what this shifts out of 32 bits
\* gets into the high half of the result.
SwapBytes(digits) ==
  IF CompilerSwaps \/ Len(digits) < 8 THEN Reverse(digits)
  ELSE [i \in 1 .. 8 |-> IF i \in 2 .. 4 THEN ByteOr(digits[9 - i], digits[i - 1]) ELSE digits[9 - i]]

BigEndian(endian) == endian = "big" \/ (endian = "native" /\ ~LittleEndian)

\* EndianConvertBE, EndianConvertLE and EndianConvert of data
EndianRead(endian, data) ==
  IF BigEndian(endian) = ~LittleEndian THEN InMemory(data) ELSE SwapBytes(InMemory(data))

\* Mutant of EndianWrite: never swaps.
EndianWrite_Native(endian, digits) == InMemory(digits)

EndianWrite(endian, digits) ==
  InMemory(IF BigEndian(endian) = ~LittleEndian THEN digits ELSE SwapBytes(digits))

-----------------------------------------------------------------------------
(* StreamReader, StreamWriter: loops of accesses, left at the first short  *)
(* one                                                                     *)

Begun(st) == [s |-> st, got |-> << >>, bad |-> FALSE, over |-> FALSE]

\* One turn of a loop: what the access a adds to r, and whether it is the last one
Turned(r, a, over) == [s |-> a.s, got |-> r.got \o a.got, bad |-> r.bad \/ a.bad, over |-> over]

\* Math::Min(sizeof(padding), size), of the size that is left
Piece(r, size) == Min({PadBlock, size - Len(r.got)})

ReadPiece(r, h, size) ==
  LET a == Read(r.s, h, Piece(r, size))
  IN  IF r.over \/ Len(r.got) = size THEN r ELSE Turned(r, a, Len(a.got) # Piece(r, size))

WritePiece(r, h, size) ==
  LET a == Write(r.s, h, [i \in 1 .. Piece(r, size) |-> Junk])
  IN  IF r.over \/ Len(r.got) = size THEN r ELSE Turned(r, a, Len(a.got) # Piece(r, size))

\* StreamReader::Pad, and StreamWriter::Pad, whose padding is never set
ReadPad(st, h, size) ==
  LET turn[i \in 0 .. size] == IF i = 0 THEN Begun(st) ELSE ReadPiece(turn[i - 1], h, size) IN turn[size]

WritePad(st, h, size) ==
  LET turn[i \in 0 .. size] == IF i = 0 THEN Begun(st) ELSE WritePiece(turn[i - 1], h, size) IN turn[size]

\* ReadCString(0): bytes up to the terminator, or to the end where the stream
\* tells of one; a MemoryStream goes on into the memory after it.
ReadCharacter(r, h) ==
  LET a == ReadByte(r.s, h)
  IN  IF r.over THEN r ELSE Turned(r, a, a.bad \/ a.got = << >> \/ a.got = <<0>>)

ReadCString(st, h) ==
  LET turns == Len(st[Memory].data) + 1
      turn[i \in 0 .. turns] == IF i = 0 THEN Begun(st) ELSE ReadCharacter(turn[i - 1], h)
  IN  turn[turns]

\* WriteString(string, size): cut or padded to size
WriteString(st, h, string, size) ==
  LET r == Write(st, h, SubSeq(string, 1, Min({Len(string), size})))
      p == WritePad(r.s, h, size - Len(string))
  IN  IF size > Len(string) /\ Len(r.got) = Len(string)
        THEN Outcome(p.s, r.got \o p.got, r.bad \/ p.bad) ELSE r

-----------------------------------------------------------------------------
(* The calls                                                               *)

At(h) == IF h = Memory THEN streams[h].position
         ELSE Unsigned(streams[h].offset + streams[h].position)

Opened(h) == IF h = Memory THEN TRUE ELSE streams[h].open

\* A call of the stream, its outcome and whether it threw a short access.
CalledAs(op, endian, h, size, r, full) ==
  /\ made < MaxCalls /\ made' = made + 1 /\ last.end # "fault"
  /\ streams' = r.s
  /\ last' = [op |-> op, endian |-> endian, on |-> h, size |-> size, got |-> r.got,
              end |-> IF r.bad THEN "fault" ELSE IF Len(r.got) < full THEN "thrown" ELSE "returned"]

Called(op, h, size, r, full) == CalledAs(op, "none", h, size, r, full)

\* The integers that a change of the bytes in [from, to) leaves.
Kept(from, to) == {n \in ints : n.at + Len(n.value) <= from \/ n.at >= to}

ReadCalls(h) ==
  /\ Opened(h) /\ UNCHANGED ints
  /\ \/ \E n \in 0 .. MaxLength : Called("Read", h, n, Read(streams, h, n), 0)
     \/ \E n \in 1 .. MaxLength : Called("ReadBytes", h, n, Read(streams, h, n), n)
     \/ \E n \in 1 .. MaxLength : Called("Pad", h, n, ReadPad(streams, h, n), n)
     \/ Called("ReadCString", h, Word, ReadCString(streams, h), 0)
     \/ Called("ReadByte", h, 1, ReadByte(streams, h), 0)

\* ReadInt16, 32 and 64: that many bytes, converted
ReadInt(h, endian, size) ==
  LET r == Read(streams, h, size)
  IN  /\ Opened(h) /\ UNCHANGED ints
      /\ CalledAs("ReadInt", endian, h, size,
                IF Len(r.got) = size THEN [r EXCEPT !.got = EndianRead(endian, @)] ELSE r, size)

Written(op, h, size, r, full) ==
  /\ Opened(h) /\ Called(op, h, size, r, full)
  /\ ints' = Kept(At(h), At(h) + Len(r.got))

WriteCalls(h) ==
  \/ \E b \in Octets : Written("WriteByte", h, 1, Write(streams, h, <<b>>), 1)
  \/ \E n \in 2 .. MaxLength : Written("WritePad", h, n, WritePad(streams, h, n), n)
  \/ \E b \in Octets, n \in 0 .. MaxLength : Written("WriteString", h, n, WriteString(streams, h, <<b, b>>, n), n)

WriteInt(h, endian, value) ==
  LET r == Write(streams, h, EndianWrite(endian, value))
  IN  /\ Opened(h) /\ Called("WriteInt", h, Len(value), r, Len(value))
      /\ ints' = Kept(At(h), At(h) + Len(r.got))
                   \cup (IF Len(r.got) = Len(value) THEN {[at |-> At(h), value |-> value, endian |-> endian]} ELSE {})

\* PadTo and PadToMultiple of a writer: throws when the position is past it.
PadTo(h, to) ==
  /\ Opened(h) /\ to >= streams[h].position
  /\ Written("PadTo", h, to, WritePad(streams, h, to - streams[h].position), to - streams[h].position)

PadToMultiple(h) == Opened(h) /\ PadTo(h, RoundUp(streams[h].position, 2))

SetPosition(h, position) ==
  /\ Opened(h) /\ UNCHANGED ints
  /\ Called("SetPosition", h, position, Outcome([streams EXCEPT ![h].position = position], << >>, FALSE), 0)

\* SetLength of the MemoryStream reallocates, of a Substream moves the window's end.
SetLengthCall(h, length) ==
  /\ Opened(h)
  /\ Called("SetLength", h, length,
            Outcome(IF h = Memory THEN [streams EXCEPT ![h] = SetLength(@, length)]
                                  ELSE [streams EXCEPT ![h].length = length], << >>, FALSE), 0)
  /\ ints' = IF h = Memory THEN Kept(length, Word) ELSE ints

\* Substream(stream, offset, length) and Substream(stream, offset): unsigned too
Open(h, offset, length) ==
  /\ ~Opened(h) /\ UNCHANGED ints
  /\ Called("Open", h, 0,
            Outcome([streams EXCEPT ![h] = [open |-> TRUE, offset |-> offset, length |-> length, position |-> 0]],
                    << >>, FALSE), 0)

OpenRest(h, offset) == Open(h, offset, Unsigned(streams[Memory].length - offset))

StreamsNext ==
  \E h \in Streams :
    \/ ReadCalls(h)
    \/ WriteCalls(h)
    \/ \E endian \in Endians, size \in {2, 4, 8} : ReadInt(h, endian, size)
    \/ \E endian \in Endians, value \in Numbers : WriteInt(h, endian, value)
    \/ \E n \in 0 .. MaxLength : PadTo(h, n) \/ SetPosition(h, n) \/ SetLengthCall(h, n)
    \/ PadToMultiple(h)
    \/ h # Memory /\ \E o \in 0 .. MaxLength, n \in 0 .. MaxLength : Open(h, o, n) \/ OpenRest(h, o)

StreamsSpec == StreamsInit /\ [][StreamsNext]_streamVars

-----------------------------------------------------------------------------
(* Properties                                                              *)

\* A position past the end of the stream or the window, where the unsigned
\* difference of the two is about Word.
Strayed(h) == \/ streams[h].position > streams[h].length
              \/ At(h) > streams[Memory].length

\* No access leaves the memory of the stream or its caller's buffer, unless the
\* handle stood past its end (SetPosition, or a shrunk length), or ReadByte is
\* asked for the byte at the end of a MemoryStream, which has no end for it.
AccessInBounds ==
  [][last'.end = "fault" =>
       \/ Strayed(last'.on)
       \/ last'.on = Memory /\ last'.op \in {"ReadByte", "ReadCString"}]_streamVars

ReadsOwnWindow(h) ==
  last'.op \in {"Read", "ReadBytes", "Pad"} =>
    LET end == Min({At(h) + last'.size, streams[h].offset + streams[h].length, streams[Memory].length})
    IN  last'.got = SubSeq(streams[Memory].data, At(h) + 1, end)
WritesOwnWindow(h) ==
  last'.op \notin {"Open", "SetLength"} =>
    /\ \A g \in Substreams \ {h} : streams'[g] = streams[g]
    /\ \A i \in 1 .. streams[Memory].length :
         i \notin streams[h].offset + 1 .. streams[h].offset + streams[h].length =>
           streams'[Memory].data[i] = streams[Memory].data[i]
    /\ streams'[Memory].length > streams[Memory].length =>
         streams'[Memory].length <= streams[h].offset + streams[h].length

\* A Substream is a window of its own, whatever the other handles do with the
\* position they share.  A read of it, when it stands inside, gives the bytes of
\* the memory at its own position, up to the end of the window or of the stream;
\* a call on it changes no byte outside the window and no other Substream, and
\* makes the stream no longer than the window.
KeepsToItsWindow ==
  [][LET h == last'.on
     IN  h # Memory /\ made' # made /\ ~Strayed(h) => ReadsOwnWindow(h) /\ WritesOwnWindow(h)]_streamVars

\* An integer of 16, 32 or 64 bits reads back as it was written, through any handle that
\* stands where it was written, with the endianness it was written in: the conversion on
\* the way in is undone on the way out, whatever the machine's own.
IntegerReadsBack ==
  [][\A n \in ints : \A h \in Streams :
       /\ Opened(h) /\ last'.on = h /\ made' # made /\ At(h) = n.at
       /\ last'.op = "ReadInt" /\ last'.size = Len(n.value) /\ last'.endian = n.endian /\ last'.end = "returned"
       => last'.got = n.value]_streamVars
=============================================================================
