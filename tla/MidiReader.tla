----------------------------- MODULE MidiReader -----------------------------
(***************************************************************************)
(* MidiReader: the tracks of a MIDI file and the events of a track, read   *)
(* from a stream that the streams of GetTrackStream() share.               *)
(*                                                                         *)
(* The file is written from tracks of events; reading it back must give    *)
(* those events.                                                           *)
(***************************************************************************)
EXTENDS Integers, SequencesExt

CONSTANTS
  Songs,      \* the tracks of the files: sequences of sequences of events
  MaxTracks   \* bound on trackIndex

VARIABLES
  song,      \* the tracks the file was written from
  stored,    \* the bytes of that file
  at,        \* position of the stream
  track,     \* MidiReader: trackIndex, trackSize, trackPosition, previousIdentifier
  window,    \* the part of the stream that the last GetTrackStream() gave a client
  hung,      \* a number runs past the end of the file, and ReadEvent() reads on for ever
  played,    \* history: events read of the track until the stream was elsewhere
  astray     \* history: the stream stood elsewhere than behind the last event

midiVars == <<song, stored, at, track, window, hung, played, astray>>

-----------------------------------------------------------------------------
(* The file                                                                *)

Octet == 0..255
MagicTrackHeader == <<77, 84, 114, 107>>
HeaderSize == 14
Meta == 255
SysEx == {240, 247}

\* Bounds: numbers are written in at most two groups of seven bits, and the size of a track
\* fits in 16 bits.
Numbers == {n \in Nat : n < 16384}
Sizes == {n \in Nat : n < 65536}

\* Parameters of a channel event
Parameters(id) == IF id \div 16 \in {12, 13} THEN 1 ELSE 2

\* Events as MIDI files have them: a channel event has the parameters of its kind, numbers
\* below 128.
Events ==
  {e \in [delta : Numbers, id : Octet, type : Octet, data : Seq(Octet)] :
     \/ e.id = Meta /\ Len(e.data) \in Numbers
     \/ e.id \in SysEx
     \/ e.id \in 128..239 /\ e.type = e.id \div 16 /\ Len(e.data) = Parameters(e.id) /\ e.data[1] < 128}

\* A number in groups of seven bits, the highest first
Number(n) == IF n < 128 THEN <<n>> ELSE <<128 + n \div 128, n % 128>>

\* The identifier that need not be repeated after an event: that of the last channel event,
\* whatever meta events come between
Repeated(event, previous) == IF event.id = Meta THEN previous ELSE IF event.id \in SysEx THEN 0 ELSE event.id

\* An event, without its identifier where it is the one to repeat ("running status")
Written(event, previous) ==
  Number(event.delta) \o
  (IF event.id = Meta THEN <<Meta, event.type>> \o Number(Len(event.data)) ELSE IF event.id = previous THEN << >> ELSE <<event.id>>)
  \o event.data

\* The bytes of the first i events, and the identifier to repeat after them
Encoded(events) ==
  LET encoded[i \in 0..Len(events)] ==
        IF i = 0 THEN [bytes |-> << >>, previous |-> 0]
        ELSE [bytes |-> encoded[i - 1].bytes \o Written(events[i], encoded[i - 1].previous),
              previous |-> Repeated(events[i], encoded[i - 1].previous)]
  IN  encoded
TrackBytes(events) == Encoded(events)[Len(events)].bytes

Int32(n) == <<0, 0, n \div 256, n % 256>>
TrackChunk(events) == MagicTrackHeader \o Int32(Len(TrackBytes(events))) \o TrackBytes(events)

\* The file up to the end of track t
FileTo(tracks) ==
  LET laid[t \in 0..Len(tracks)] == IF t = 0 THEN [i \in 1..HeaderSize |-> 0] ELSE laid[t - 1] \o TrackChunk(tracks[t])
  IN  laid
File(tracks) == FileTo(tracks)[Len(tracks)]

\* A file has a track.
ASSUME MidiAssumption ==
  /\ MaxTracks \in Nat
  /\ \A tracks \in Songs :
       tracks \in Seq(Seq(Events)) \ {<< >>} /\ \A t \in DOMAIN tracks : Len(TrackBytes(tracks[t])) \in Sizes

FileLength == Len(stored)

\* Past the end of the file Stream::ReadByte() gives 255 for ever.
Byte(p) == IF p < FileLength THEN stored[p + 1] ELSE 255

-----------------------------------------------------------------------------
(* Tracks                                                                  *)

TrackCount == Len(song)
EndOfFile(tr) == tr.index >= TrackCount
EndOfTrack == at >= track.position + track.size

\* ReadTrack, for the track that starts at p: the magic number, the size, and no identifier
\* to repeat.  It throws where there is no track.
IsTrack(p) == \A i \in 0..3 : Byte(p + i) = MagicTrackHeader[i + 1]
ReadTrack(p, index) ==
  [index |-> index, size |-> Byte(p + 6) * 256 + Byte(p + 7), position |-> p + 8, previous |-> 0]

NoWindow == [position |-> 0, size |-> 0]

MidiInit ==
  /\ song \in Songs /\ stored = File(song)
  /\ track = ReadTrack(HeaderSize, 0) /\ at = track.position
  /\ window = NoWindow /\ hung = FALSE
  /\ played = << >> /\ astray = FALSE

\* Mutant of TrackEnd: the next track is looked for where the stream stands.
TrackEnd_Here(tr) == at

\* Where the next track starts
TrackEnd(tr) == tr.position + tr.size

\* NextTrack, as a function of the reader.  Past the last track the stream is left alone.
Skipped(tr, here) ==
  IF tr.index + 1 >= TrackCount THEN [track |-> [tr EXCEPT !.index = @ + 1, !.size = 0, !.position = here], at |-> here]
  ELSE LET next == ReadTrack(TrackEnd(tr), tr.index + 1) IN [track |-> next, at |-> next.position]

NextTrack ==
  /\ track.index < MaxTracks
  /\ track.index + 1 < TrackCount => IsTrack(TrackEnd(track))
  /\ track' = Skipped(track, at).track /\ at' = Skipped(track, at).at
  /\ played' = << >> /\ astray' = FALSE
  /\ UNCHANGED <<song, stored, window, hung>>

\* SeekTrack: from the first track when it is not a later one
Sought(index) ==
  LET first == ReadTrack(HeaderSize, 0)
      sought[i \in 0..TrackCount] ==
        IF i = 0 THEN IF index <= track.index THEN [track |-> first, at |-> first.position] ELSE [track |-> track, at |-> at]
        ELSE IF sought[i - 1].track.index < index THEN Skipped(sought[i - 1].track, sought[i - 1].at) ELSE sought[i - 1]
  IN  sought[TrackCount]

SeekTrack(index) ==
  /\ index < TrackCount
  /\ track' = Sought(index).track /\ at' = Sought(index).at
  /\ played' = << >> /\ astray' = FALSE
  /\ UNCHANGED <<song, stored, window, hung>>

GetTrackStream ==
  /\ ~EndOfFile(track)
  /\ window' = [position |-> track.position, size |-> track.size]
  /\ UNCHANGED <<song, stored, at, track, hung, played, astray>>

\* A client reads that stream, now or much later, which moves the stream both share.
ReadTrackStream(offset) ==
  /\ window # NoWindow
  /\ at' = window.position + offset /\ astray' = TRUE
  /\ UNCHANGED <<song, stored, track, window, hung, played>>

-----------------------------------------------------------------------------
(* Events                                                                  *)

\* Where a number that starts at p may end
Ends(p) == {q \in p..FileLength - 1 : Byte(q) < 128}
Endless(p) == Ends(p) = {}

\* ReadInteger: value and end of the number at p.  Bound: the last three groups count (in the
\* 32 bits of the code four, and a half).
ReadInteger(p) ==
  LET last     == Min(Ends(p))
      group(i) == IF last - i >= p THEN Byte(last - i) % 128 ELSE 0
  IN  [value |-> group(2) * 16384 + group(1) * 128 + group(0), end |-> last + 1]

BytesFrom(p, n) == [i \in 1..n |-> Byte(p + i - 1)]

\* The event at p: with what it reads, its end and the identifier to repeat
ParseMeta(delta, p) ==
  LET length == ReadInteger(p + 1)
  IN  [event |-> [delta |-> delta, id |-> Meta, type |-> Byte(p), data |-> BytesFrom(length.end, length.value)],
       end |-> length.end + length.value, previous |-> track.previous]
ParseChannel(delta, p) ==
  LET running == Byte(p) < 128
      id      == IF running THEN track.previous ELSE Byte(p)
      first   == IF running THEN p ELSE p + 1
  IN  [event |-> [delta |-> delta, id |-> id, type |-> id \div 16, data |-> BytesFrom(first, Parameters(id))],
       end |-> first + Parameters(id), previous |-> id]
Parsed(p) ==
  LET delta == ReadInteger(p)
  IN  IF Byte(delta.end) = Meta THEN ParseMeta(delta.value, delta.end + 1) ELSE ParseChannel(delta.value, delta.end)

\* The identifier of the event at p, and whether the file has one of these
Identifier(p) == ReadInteger(p).end
Identified(p, identifiers) == ~Endless(p) /\ Identifier(p) < FileLength /\ Byte(Identifier(p)) \in identifiers

\* A number of the event at p that has no end: its delta, or the length of a meta event
Hangs(p) ==
  \/ Endless(p)
  \/ Identified(p, {Meta}) /\ Identifier(p) + 1 < FileLength /\ Endless(Identifier(p) + 2)

\* The file has all of the event at p.
Complete(p) ==
  /\ ~Hangs(p) /\ Identified(p, Octet)
  /\ Identified(p, {Meta}) => Identifier(p) + 1 < FileLength
  /\ Parsed(p).end <= FileLength

\* ReadEvent parses wherever the stream stands; only what it gives to a client that has not
\* moved the stream is looked at.
ReadEvent ==
  /\ ~EndOfTrack /\ Complete(at) /\ ~Identified(at, SysEx)
  /\ LET parsed == Parsed(at)
     IN  /\ at' = parsed.end
         /\ track' = [track EXCEPT !.previous = parsed.previous]
         /\ played' = IF astray THEN played ELSE Append(played, parsed.event)
  /\ UNCHANGED <<song, stored, window, hung, astray>>

\* System exclusive events are not implemented: ReadEvent throws behind the identifier.
ReadEventThrows ==
  /\ ~EndOfTrack /\ Identified(at, SysEx)
  /\ at' = Identifier(at) + 1
  /\ astray' = TRUE
  /\ UNCHANGED <<song, stored, track, window, hung, played>>

\* The file ends before the event: ReadEvent throws at its end, with the identifier of a
\* channel event kept.
ReadEventShort ==
  /\ ~EndOfTrack /\ ~Hangs(at) /\ ~Complete(at) /\ ~Identified(at, SysEx)
  /\ at' = FileLength
  /\ track' = IF Identified(at, 128..254) THEN [track EXCEPT !.previous = Byte(Identifier(at))] ELSE track
  /\ UNCHANGED <<song, stored, window, hung, played, astray>>

ReadEventHangs ==
  /\ ~EndOfTrack /\ Hangs(at)
  /\ at' = FileLength /\ hung' = TRUE
  /\ UNCHANGED <<song, stored, track, window, played, astray>>

MidiNext ==
  /\ ~hung
  /\ \/ NextTrack \/ GetTrackStream
     \/ ReadEvent \/ ReadEventThrows \/ ReadEventShort \/ ReadEventHangs
     \/ \E index \in 0..MaxTracks : SeekTrack(index)
     \/ \E offset \in 0..window.size : ReadTrackStream(offset)

MidiSpec == MidiInit /\ [][MidiNext]_midiVars

-----------------------------------------------------------------------------
(* Properties                                                              *)

\* The events read of a track are the first ones that were written to it, also after an
\* event that is not implemented or a read of a track's stream left the reader astray, it
\* parsed whatever stood there, and NextTrack() or SeekTrack() moved on.  Where it did not stray, the
\* track ends with its last event, at the end of the file all the same, and ReadEvent()
\* returns.
PlaysTheTrack ==
  /\ hung => astray
  /\ IF EndOfFile(track) THEN played = << >> /\ (~astray => EndOfTrack)
     ELSE /\ IsPrefix(played, song[track.index + 1])
          /\ ~astray => (EndOfTrack <=> played = song[track.index + 1])
=============================================================================
