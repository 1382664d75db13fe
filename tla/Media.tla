------------------------------- MODULE Media -------------------------------
(***************************************************************************)
(* FFmpegDecoder, which takes the packets of several streams off one file, *)
(* and the audio and the video decoder that share it.  Packets of another  *)
(* stream that is open are queued until they are asked for.                *)
(*                                                                         *)
(* The k-th packet of the file has the time k.  A packet of stream Audio   *)
(* holds Chunks chunks of ChunkSamples samples, one of stream Video holds  *)
(* Chunks frames; a decoder gets one chunk or frame a call.  The libav     *)
(* functions are external.                                                 *)
(***************************************************************************)
EXTENDS Integers, SequencesExt

CONSTANTS
  Files,          \* files: sequences of the streams of their packets
  Keys,           \* times that av_seek_frame can land on
  Chunks,         \* decode calls that a packet takes
  ChunkSamples,   \* samples of a chunk
  MaxCount,       \* bound on the samples asked for at a time
  MaxPosition     \* bound on the position of the audio decoder

ASSUME MediaAssumption == Chunks \in Nat \ {0} /\ ChunkSamples \in Nat \ {0} /\ MaxCount \in Nat /\ MaxPosition \in Nat

Audio == "audio"
Video == "video"
Other == "other"
AnyStream == "any"      \* streamIndex < 0
MediaStreams == {Audio, Video, Other}

ASSUME MediaFilesAssumption == \A file \in Files : file \in Seq(MediaStreams)

VARIABLES
  media,    \* the file
  decoder,  \* FFmpegDecoder: position in the file, packetQueue, openStreams, frame time,
            \* and the number of packets that are allocated
  got,      \* history: packets delivered of each stream since it was opened or sought
  since,    \* history: position in the file at that time
  audio,    \* FFmpegAudioDecoder: cache and position
  heard,    \* history: samples it gave since the last Seek
  intact,   \* history: nothing it was to decode went elsewhere or failed to decode
  video     \* FFmpegVideoDecoder: packet, frames left in it, position

mediaVars == <<media, decoder, got, since, audio, heard, intact, video>>

Positions == 1..Len(media)
IsStreamOpen(d, s) == s \in d.open

MediaInit ==
  /\ media \in Files
  /\ decoder = [at |-> 1, queue |-> << >>, open |-> {Audio, Video}, known |-> FALSE, time |-> 0, live |-> 0]
  /\ got = [s \in MediaStreams |-> << >>] /\ since = [s \in MediaStreams |-> 1]
  /\ audio = [cache |-> << >>, position |-> 0] /\ heard = << >> /\ intact = TRUE
  /\ video = [packet |-> 0, left |-> 0, position |-> 0]

-----------------------------------------------------------------------------
(* FFmpegDecoder, as functions of its state                                *)

Wanted(k, s) == s = AnyStream \/ media[k] = s

\* Mutant of Queued: packets of other streams are not kept.
Queued_None(d, k) == << >>

\* The packets that ReadPacket queues while it looks for packet k: those of open streams.
\* The others are dropped, and not freed.
Queued(d, k) ==
  LET kept[i \in 0..(k - d.at)] ==
        IF i = 0 THEN << >>
        ELSE IF IsStreamOpen(d, media[d.at + i - 1]) THEN Append(kept[i - 1], d.at + i - 1) ELSE kept[i - 1]
  IN  kept[k - d.at]

\* The first packet in the queue for that stream
DequeuePacket(d, s) ==
  LET i == Min({j \in DOMAIN d.queue : Wanted(d.queue[j], s)})
  IN  [d |-> [d EXCEPT !.queue = RemoveAt(@, i)], packet |-> d.queue[i]]

\* A packet of the queue, or the next one in the file, or none (0) at its end
ReadPacket(d, s) ==
  LET ahead == {k \in Positions : k >= d.at /\ Wanted(k, s)}
      k     == IF ahead = {} THEN Len(media) + 1 ELSE Min(ahead)
      read  == d.at <= Len(media)
      more  == Queued(d, k)
  IN  IF \E i \in DOMAIN d.queue : Wanted(d.queue[i], s) THEN DequeuePacket(d, s)
      ELSE [d |-> [d EXCEPT !.at = IF ahead = {} THEN k ELSE k + 1, !.queue = @ \o more,
                            !.known = @ \/ read, !.time = IF ahead # {} THEN k ELSE IF read THEN Len(media) ELSE @,
                            !.live = @ + Len(more) + (IF ahead = {} THEN 0 ELSE 1)],
            packet |-> IF ahead = {} THEN 0 ELSE k]

FreePacket(d) == [d EXCEPT !.live = @ - 1]

\* GetFrameTime: when the time is not known, that of the first packet queued, or of one that
\* is read, and queued, for it
Timed(d) ==
  IF d.known THEN d
  ELSE IF d.queue # << >> THEN [d EXCEPT !.known = TRUE, !.time = Head(d.queue)]
  ELSE LET r == ReadPacket(d, AnyStream)
       IN  IF r.packet = 0 THEN d ELSE [r.d EXCEPT !.queue = Append(@, r.packet)]

\* What GetFrameTime returns: the duration at the end of the file
FrameTime(d) == IF Timed(d).known THEN Timed(d).time ELSE Len(media)

\* av_seek_frame lands before the time when it is to go back, and after it otherwise; when it
\* finds no place it fails, which is ignored.
Landing(d, time) ==
  LET before == {k \in Keys \cap Positions : k <= time}
      after  == {k \in Keys \cap Positions : k >= time}
  IN  IF time < FrameTime(d)
      THEN IF before = {} THEN Timed(d).at ELSE Max(before)
      ELSE IF after = {} THEN Timed(d).at ELSE Min(after)

FlushQueue(d) == [d EXCEPT !.live = @ - Len(d.queue), !.queue = << >>]

SeekFrame(d, time) == [FlushQueue([Timed(d) EXCEPT !.at = Landing(d, time)]) EXCEPT !.known = FALSE]

\* Everything that was delivered and counted starts again.
Restart(s) == /\ got' = [t \in MediaStreams |-> IF t \in s THEN << >> ELSE got[t]]
              /\ since' = [t \in MediaStreams |-> IF t \in s THEN decoder'.at ELSE since[t]]

Delivered(k) == got' = IF k = 0 THEN got ELSE [got EXCEPT ![media[k]] = Append(@, k)]

-----------------------------------------------------------------------------
(* A client of the decoder itself                                          *)

\* The stream is opened, or closed; what is queued of it stays.
OpenStream ==
  /\ Other \notin decoder.open
  /\ decoder' = [decoder EXCEPT !.open = @ \cup {Other}]
  /\ Restart({Other})
  /\ UNCHANGED <<media, audio, heard, intact, video>>

CloseStream ==
  /\ Other \in decoder.open
  /\ decoder' = [decoder EXCEPT !.open = @ \ {Other}]
  /\ UNCHANGED <<media, got, since, audio, heard, intact, video>>

\* It reads a packet of its stream, or whatever comes, uses and frees it.
ClientRead(s) ==
  LET r == ReadPacket(decoder, s)
  IN  /\ decoder' = IF r.packet = 0 THEN r.d ELSE FreePacket(r.d)
      /\ Delivered(r.packet)
      /\ intact' = (intact /\ (r.packet = 0 \/ media[r.packet] # Audio))
      /\ heard' = IF intact' THEN heard ELSE << >>
      /\ UNCHANGED <<media, since, audio, video>>

GetFrameTime ==
  /\ decoder' = Timed(decoder)
  /\ UNCHANGED <<media, got, since, audio, heard, intact, video>>

-----------------------------------------------------------------------------
(* FFmpegAudioDecoder                                                      *)

\* AudioCodec::Read: the base class keeps the position.
Counted(position, count) == position + count

Samples(k) == [i \in 1..(Chunks * ChunkSamples) |-> <<k, i>>]
Chunk(k, c) == SubSeq(Samples(k), (c - 1) * ChunkSamples + 1, c * ChunkSamples)

\* As many samples as there are and are wanted
Taken(samples, count) == SubSeq(samples, 1, IF count < Len(samples) THEN count ELSE Len(samples))
Left(samples, count) == SubSeq(samples, Len(Taken(samples, count)) + 1, Len(samples))

\* Mutant of Cached: what is left of a chunk is copied to the start of the cache.
Cached_AtStart(cache, left) == IF left = << >> THEN cache ELSE left

\* What is left of a chunk is copied behind what is in the cache.
Cached(cache, left) == cache \o left

\* One chunk: samples go to the caller while it wants some, then to the cache.
DecodeChunk(sound, k, c) ==
  LET taken == Taken(Chunk(k, c), sound.count)
  IN  [out |-> sound.out \o taken, cache |-> Cached(sound.cache, Left(Chunk(k, c), sound.count)),
       count |-> sound.count - Len(taken)]

\* The loop over a packet, of which "last" chunks decode
DecodeAudio(sound, k, last) ==
  LET decoded[c \in 0..last] ==
        IF c = 0 THEN [sound EXCEPT !.cache = << >>] ELSE DecodeChunk(decoded[c - 1], k, c)
  IN  decoded[last]

\* One round of Read, while samples are wanted and packets come
ReadRound(r, last) ==
  LET p == ReadPacket(r.d, Audio)
  IN  IF r.sound.count = 0 \/ r.ended THEN r
      ELSE IF p.packet = 0 THEN [r EXCEPT !.d = p.d, !.ended = TRUE]
      ELSE [r EXCEPT !.d = FreePacket(p.d), !.packets = Append(@, p.packet), !.sound = DecodeAudio(@, p.packet, last)]

\* ReadCache, then the rounds
ReadSamples(count, last) ==
  LET taken == Taken(audio.cache, count)
      start == [d |-> decoder, packets |-> << >>, ended |-> FALSE,
                sound |-> [out |-> taken, cache |-> Left(audio.cache, count), count |-> count - Len(taken)]]
      round[i \in 0..(Len(media) + 1)] == IF i = 0 THEN start ELSE ReadRound(round[i - 1], last)
  IN  round[Len(media) + 1]

\* A packet may fail to decode after some of its chunks.  The base class counts the samples.
AudioRead(count, last) ==
  LET end == ReadSamples(count, last)
  IN  /\ audio.position + count <= MaxPosition
      /\ decoder' = end.d
      /\ audio' = [cache |-> end.sound.cache, position |-> Counted(audio.position, Len(end.sound.out))]
      /\ got' = [got EXCEPT ![Audio] = @ \o end.packets]
      /\ intact' = (intact /\ (last = Chunks \/ end.packets = << >>))
      /\ heard' = IF intact' THEN heard \o end.sound.out ELSE << >>
      /\ UNCHANGED <<media, since, video>>

AudioSeek(sample) ==
  /\ decoder' = SeekFrame(decoder, sample)
  /\ audio' = [cache |-> << >>, position |-> sample]
  /\ heard' = << >> /\ intact' = TRUE
  /\ Restart(MediaStreams)
  /\ UNCHANGED <<media, video>>

-----------------------------------------------------------------------------
(* FFmpegVideoDecoder                                                      *)

\* VideoCodec::Read(): the frame after the last
NextFrame == video.position + 1

\* A packet when the last one is used up, which is freed
Fetched(r) ==
  LET p == ReadPacket(IF r.v.packet = 0 THEN r.d ELSE FreePacket(r.d), Video)
  IN  IF r.v.left > 0 THEN r
      ELSE [d |-> p.d, v |-> [packet |-> p.packet, left |-> IF p.packet = 0 THEN 0 ELSE Chunks, position |-> r.v.position],
            packets |-> IF p.packet = 0 THEN r.packets ELSE Append(r.packets, p.packet), done |-> r.done]

\* One round of Read: a packet, and a frame of it, unless it fails to decode, which ends the
\* call and leaves the packet for the next one
VideoRound(r, target, decodes) ==
  LET next == Fetched(r)
      k    == next.v.packet
  IN  IF r.done THEN r
      ELSE IF k = 0 \/ ~decodes THEN [next EXCEPT !.done = TRUE]
      ELSE [next EXCEPT !.v = [packet |-> k, left |-> @.left - 1, position |-> IF k >= target THEN k ELSE @.position],
                        !.done = k >= target]

ReadFrame(target, decodes) ==
  LET rounds == (Len(media) + 2) * Chunks
      round[i \in 0..rounds] == IF i = 0 THEN [d |-> decoder, v |-> video, packets |-> << >>, done |-> FALSE]
                                ELSE VideoRound(round[i - 1], target, decodes)
  IN  round[rounds]

VideoRead(target, decodes) ==
  LET end == ReadFrame(target, decodes)
  IN  /\ decoder' = end.d /\ video' = end.v
      /\ got' = [got EXCEPT ![Video] = @ \o end.packets]
      /\ UNCHANGED <<media, since, audio, heard, intact>>

\* Seek keeps the packet, and the frames left in it.
VideoSeek(frame) ==
  /\ decoder' = SeekFrame(decoder, frame)
  /\ video' = [video EXCEPT !.position = frame]
  /\ Restart(MediaStreams)
  /\ intact' = FALSE /\ heard' = << >>
  /\ UNCHANGED <<media, audio>>

MediaNext ==
  \/ OpenStream \/ CloseStream \/ GetFrameTime
  \/ \E s \in {Other, AnyStream} : ClientRead(s)
  \/ \E count \in 1..MaxCount, last \in {1, Chunks} : AudioRead(count, last)
  \/ \E decodes \in BOOLEAN : VideoRead(NextFrame, decodes)
  \/ \E time \in Positions : AudioSeek(time) \/ VideoSeek(time)

MediaSpec == MediaInit /\ [][MediaNext]_mediaVars

-----------------------------------------------------------------------------
(* Properties                                                              *)

\* Of a stream that is open, the packets delivered since it was opened or last sought and
\* then those queued are, in order, all its packets from there to the position in the file:
\* none is lost to the clients of other streams, delivered twice or out of order.  The packets
\* allocated are those in the queue and the one the video decoder works on: none is freed
\* twice, used after it is freed or forgotten, except the ones ReadPacket drops.
EachPacketOnce ==
  /\ \A s \in decoder.open :
       LET come == got[s] \o decoder.queue
           mine == {i \in DOMAIN come : media[come[i]] = s /\ come[i] >= since[s]}
       IN  /\ {come[i] : i \in mine} = {k \in 1..(decoder.at - 1) : media[k] = s /\ k >= since[s]}
           /\ \A i, j \in mine : i < j => come[i] < come[j]
  /\ decoder.live = Len(decoder.queue) + (IF video.packet = 0 THEN 0 ELSE 1)

\* The samples of packets, one after the other
SamplesOf(packets) ==
  LET all[i \in 0..Len(packets)] == IF i = 0 THEN << >> ELSE all[i - 1] \o Samples(packets[i])
  IN  all[Len(packets)]

\* The samples that the audio decoder gave since Seek() and then those in its cache are all
\* the samples of the packets it got, in order, whatever the sizes of the reads, unless its
\* packets went elsewhere, failed to decode, or the video decoder sought the file below it.
SamplesInOrder == intact => heard \o audio.cache = SamplesOf(got[Audio])
=============================================================================
