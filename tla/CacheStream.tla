----------------------------- MODULE CacheStream -----------------------------
(***************************************************************************)
(* Bricks::IO::CacheStream: a Stream that reads ahead and writes behind    *)
(* through one buffer in front of another Stream.                          *)
(*                                                                         *)
(* The fields of the CacheStream and the stream behind it are one record   *)
(* c, and the private functions are operators from record to record.  Read *)
(* and Write call themselves after each refill or flush; one level of that *)
(* recursion is one step.                                                  *)
(*                                                                         *)
(* The reference is what a plain Stream would do: `content' is what its    *)
(* bytes would be, `expected' what the Read in progress would return.      *)
(***************************************************************************)
EXTENDS Integers, SequencesExt

CONSTANTS
  Bytes,        \* the byte values
  CacheSize,    \* the constructor's cacheSize
  Capacity,     \* how long the stream behind can get (a write beyond it is short)
  MaxRequest,   \* bound on the size of one Read or Write
  SeekRule,     \* which SetPosition() calls clients make: none, outside, any
  ReadPastEnd   \* TRUE: clients ask for more bytes than are left

ASSUME SizeAssumption == CacheSize \in Nat \ {0} /\ Capacity \in Nat /\ MaxRequest \in Nat
ASSUME RuleAssumption == /\ SeekRule \in {"none", "outside", "any"}
                         /\ ReadPastEnd \in BOOLEAN

VARIABLES
  c,         \* the CacheStream, with the stream behind it (file, filePosition)
  doing,     \* the call in progress: idle, read, write, failed
  level,     \* parity of the recursion depth: calling itself again is a step
  todo,      \* Read: the bytes still to read; Write: the bytes still to write
  buffer,    \* Read: the bytes read so far
  content,   \* reference: the bytes of the stream, all writes applied
  expected   \* reference: the bytes the Read must return

cacheVars == <<c, doing, level, todo, buffer, content, expected>>

Overwrite(bytes, at, data) ==
  SubSeq(bytes, 1, at) \o data \o SubSeq(bytes, at + Len(data) + 1, Len(bytes))

BytesAt(bytes, at, size) == SubSeq(bytes, at + 1, Min({at + size, Len(bytes)}))

CacheInit ==
  /\ \E file \in BoundedSeq(Bytes, Capacity) : \E at \in 0 .. Len(file) :
       /\ c = [file |-> file, filePosition |-> at, position |-> at, cache |-> << >>,
               dirty |-> TRUE, offset |-> 0, length |-> 0, cachePosition |-> 0]
       /\ content = file
  /\ doing = "idle" /\ level = 0 /\ todo = << >> /\ buffer = << >> /\ expected = << >>

-----------------------------------------------------------------------------
(* The stream behind                                                       *)

\* stream->Read(cache, cacheSize)
StreamRead(s) ==
  LET bytes == BytesAt(s.file, s.filePosition, CacheSize)
  IN  [s EXCEPT !.cache = bytes, !.length = Len(bytes), !.filePosition = @ + Len(bytes)]

\* stream->Write(cache, cacheOffset), as much of it as there is room for.
Room(s) == Min({s.offset, Capacity - s.filePosition})

StreamWrite(s) ==
  [s EXCEPT !.file = Overwrite(@, s.filePosition, SubSeq(s.cache, 1, Room(s))),
            !.filePosition = @ + Room(s)]

-----------------------------------------------------------------------------
(* The private functions                                                   *)

\* FlushCache throws when the stream behind takes less than it was given.
FlushThrows(s) == s.dirty /\ Room(s) # s.offset

\* Mutant of FlushCache: the dirty bytes are dropped.
FlushCache_NoWrite(s) ==
  [s EXCEPT !.cachePosition = @ + s.length, !.dirty = FALSE, !.offset = 0, !.length = 0]

FlushCache(s) ==
  LET written == IF s.dirty THEN StreamWrite(s) ELSE s
  IN  IF FlushThrows(s) THEN written
      ELSE [written EXCEPT !.cachePosition = @ + s.length, !.dirty = FALSE, !.offset = 0, !.length = 0]

DirtyCache(s) ==
  [s EXCEPT !.dirty = FALSE, !.cachePosition = s.position, !.offset = 0, !.length = 0]

\* Mutant of FillCache: the stream behind is never moved.
FillCache_NoSeek(s) ==
  [StreamRead(s) EXCEPT !.cachePosition = s.position, !.offset = 0]

\* The stream behind is moved only if it does not seem to be there already.
FillCache(s) ==
  LET moved == IF s.position # s.cachePosition + s.offset
                 THEN [s EXCEPT !.filePosition = s.position] ELSE s
  IN  [StreamRead(moved) EXCEPT !.cachePosition = s.position, !.offset = 0]

InCache(s, at) == at >= s.cachePosition /\ at < s.cachePosition + s.length

-----------------------------------------------------------------------------
(* Read(buffer, size)                                                      *)

CallRead(size) ==
  /\ doing = "idle"
  /\ ReadPastEnd \/ c.position + size <= Len(content)
  /\ doing' = "read" /\ todo' = [n \in 1 .. size |-> 0] /\ buffer' = << >>
  /\ expected' = BytesAt(content, c.position, size)
  /\ UNCHANGED <<c, level, content>>

\* One level of Read: flush if dirty, take what the cache has at cacheOffset,
\* return if that was all, otherwise refill the cache for the next level.
ReadLevel ==
  LET clean == IF c.dirty THEN FlushCache(c) ELSE c
      size  == IF InCache(clean, clean.position)
                 THEN Min({Len(todo), clean.length - clean.offset}) ELSE 0
      taken == [clean EXCEPT !.offset = @ + size, !.position = @ + size]
      full  == InCache(clean, clean.position) /\ size >= Len(todo)
  IN  /\ doing = "read" /\ ~FlushThrows(c)
      /\ level' = 1 - level
      /\ buffer' = buffer \o SubSeq(clean.cache, clean.offset + 1, clean.offset + size)
      /\ todo' = SubSeq(todo, size + 1, Len(todo))
      /\ c' = IF full THEN taken ELSE FillCache(taken)
      /\ doing' = IF full THEN "idle" ELSE "read"
      /\ UNCHANGED <<content, expected>>

\* The flush at the beginning of a level throws out of all of them.
ReadThrows ==
  /\ doing = "read" /\ FlushThrows(c)
  /\ c' = FlushCache(c)
  /\ doing' = "failed"
  /\ UNCHANGED <<level, todo, buffer, content, expected>>

-----------------------------------------------------------------------------
(* Write(buffer, size)                                                     *)

\* The stream behind stands where the bytes of the cache will have to go.  Write
\* never moves it: after a read-ahead or a seek the bytes would go astray, and
\* clients are taken not to write then.
Aligned == c.filePosition = IF c.dirty THEN c.position - c.offset ELSE c.position

CallWrite(data) ==
  /\ doing = "idle"
  /\ Aligned
  /\ c.position + Len(data) <= Capacity + 1
  /\ doing' = "write" /\ todo' = data
  /\ content' = Overwrite(content, c.position, data)
  /\ buffer' = << >> /\ expected' = << >>
  /\ UNCHANGED <<c, level>>

\* One level of Write: start a dirty cache, put in what fits, return if that
\* was all, otherwise flush, which may throw, for the next level.
WriteLevel ==
  LET start == IF c.dirty THEN c ELSE DirtyCache(c)
      size  == Min({Len(todo), CacheSize - start.offset})
      put   == IF size = 0 THEN start
               ELSE [start EXCEPT !.cache = SubSeq(@, 1, start.offset) \o SubSeq(todo, 1, size),
                                  !.offset = @ + size, !.position = @ + size,
                                  !.length = start.offset + size, !.dirty = TRUE]
      full  == size >= Len(todo)
  IN  /\ doing = "write"
      /\ level' = 1 - level
      /\ todo' = SubSeq(todo, size + 1, Len(todo))
      /\ c' = IF full THEN put ELSE FlushCache(put)
      /\ doing' = IF full THEN "idle" ELSE IF FlushThrows(put) THEN "failed" ELSE "write"
      /\ UNCHANGED <<buffer, content, expected>>

-----------------------------------------------------------------------------
(* Flush() and SetPosition(value)                                          *)

\* After an exception the client stops using the stream.
Flush ==
  /\ doing = "idle"
  /\ c' = FlushCache(c)
  /\ doing' = IF FlushThrows(c) THEN "failed" ELSE "idle"
  /\ buffer' = << >> /\ expected' = << >>
  /\ UNCHANGED <<level, todo, content>>

\* SetPosition assigns position and nothing else.  "outside": the new position
\* is neither in the cache nor the one FillCache takes the stream to be at.
SetPosition(at) ==
  /\ doing = "idle"
  /\ \/ SeekRule = "any"
     \/ /\ SeekRule = "outside"
        /\ LET clean == IF c.dirty THEN FlushCache(c) ELSE c
           IN  ~InCache(clean, at) /\ at # clean.cachePosition + clean.offset
  /\ c' = [c EXCEPT !.position = at]
  /\ buffer' = << >> /\ expected' = << >>
  /\ UNCHANGED <<doing, level, todo, content>>

-----------------------------------------------------------------------------
Requests == BoundedSeq(Bytes, MaxRequest)

CacheNext ==
  \/ \E size \in 1 .. MaxRequest : CallRead(size)
  \/ \E data \in Requests : CallWrite(data)
  \/ \E at \in 0 .. Len(content) : SetPosition(at)
  \/ ReadLevel \/ ReadThrows \/ WriteLevel \/ Flush

CacheSpec == CacheInit /\ [][CacheNext]_cacheVars

\* A call in progress goes on.
CacheFairSpec == CacheSpec /\ WF_cacheVars(ReadLevel \/ ReadThrows \/ WriteLevel)

-----------------------------------------------------------------------------
\* What a Read has put in the caller's buffer is what a plain stream would have
\* put there, over any mix of reads, writes, flushes and seeks the rules allow;
\* a Read that returned has returned all of it.
ReadsTheStream ==
  /\ IsPrefix(buffer, expected)
  /\ doing = "idle" => buffer = expected \/ expected = << >>

\* No write is lost or misplaced: the stream behind, with the dirty bytes of
\* the cache put where the stream behind stands, is what a plain stream would
\* hold, less what the Write in progress has still to take.
WritesReachTheStream ==
  doing # "failed" =>
     LET behind == IF c.dirty THEN Overwrite(c.file, c.filePosition, SubSeq(c.cache, 1, c.offset))
                              ELSE c.file
     IN  IF doing = "write"
           THEN c.position <= Len(behind) /\ Overwrite(behind, c.position, todo) = content
           ELSE behind = content

\* Read() comes back: the recursion over refills of the cache makes progress at
\* every level.
ReadReturns == (doing = "read") ~> (doing # "read")

=============================================================================
