------------------------------ MODULE MCFiles ------------------------------
(***************************************************************************)
(* The file formats and filesystems of the library, for TLC: a behaviour   *)
(* is one of the POSIX directories, of file streams, of an archive, of a   *)
(* CacheStream, of the FFmpeg decoders or of the MIDI reader, chosen at    *)
(* the start.                                                              *)
(***************************************************************************)
EXTENDS Filesystem, FileStreams, ZipFilesystem, CacheStream, Media, MidiReader

VARIABLE part

-----------------------------------------------------------------------------
(* Archives that store a directory before its contents, nested, and after  *)

MCArchives == {
  <<<<"a", "/">>, <<"a", "/", "b">>, <<"a", "a">>>>,
  <<<<"a", "/">>, <<"a", "/", "b", "/">>, <<"a", "/", "b", "/", "c">>>>,
  <<<<"a", "/", "b">>, <<"a", "/">>, <<"b">>>>}
MCPaths == {<< >>, <<"a">>, <<"a", "/">>, <<"b">>, <<"a", "a">>, <<"a", "/", "b">>}

-----------------------------------------------------------------------------
(* Files with packets of one stream between those of another               *)

MCPlayed == {<<Audio, Video, Audio, Other>>, <<Other, Video, Audio>>}

-----------------------------------------------------------------------------
(* Songs of one or two tracks, of up to three events           *)

NoteOn(delta) == [delta |-> delta, id |-> 144, type |-> 9, data |-> <<60, 64>>]
Program == [delta |-> 0, id |-> 193, type |-> 12, data |-> <<5>>]
Text == [delta |-> 1, id |-> Meta, type |-> 1, data |-> <<97, 98>>]
Exclusive == [delta |-> 0, id |-> 240, type |-> 15, data |-> <<1, 247>>]
Escape == [delta |-> 0, id |-> 247, type |-> 15, data |-> <<1, 129>>]
MCTracks(n) == BoundedSeq({NoteOn(0), NoteOn(200), Program, Text, Exclusive, Escape}, n)
MCSongs ==
  {<<t>> : t \in MCTracks(2)} \cup {<<<<NoteOn(0)>>, t>> : t \in MCTracks(1)} \cup {<<t, <<Program>>>> : t \in MCTracks(1)}
  \cup {<<<<NoteOn(0), Text, NoteOn(200)>>>>, <<<<Program, Exclusive, Program>>>>, <<<<Text, Escape>>, <<Program>>>>,
        <<<<NoteOn(0), NoteOn(200)>>, <<Program, Program>>>>}

-----------------------------------------------------------------------------
AnyArchive == CHOOSE a \in Archives : TRUE
AnyMedia == CHOOSE f \in Files : TRUE
AnySong == CHOOSE s \in Songs : TRUE

MCInit ==
  /\ FsInit /\ FilesInit /\ ZipInit /\ CacheInit /\ MediaInit /\ MidiInit
  /\ part \in {"posix", "file", "zip", "cache", "ffmpeg", "midi"}
  /\ part # "zip" => archive = AnyArchive
  /\ part # "cache" => content = << >> /\ c.filePosition = 0
  /\ part # "ffmpeg" => media = AnyMedia
  /\ part # "midi" => song = AnySong

MCNext ==
  \/ part = "posix" /\ FsNext /\ UNCHANGED <<fileVars, zipVars, cacheVars, mediaVars, midiVars, part>>
  \/ part = "file" /\ FilesNext /\ UNCHANGED <<fsVars, zipVars, cacheVars, mediaVars, midiVars, part>>
  \/ part = "zip" /\ ZipNext /\ UNCHANGED <<fsVars, fileVars, cacheVars, mediaVars, midiVars, part>>
  \/ part = "cache" /\ CacheNext /\ UNCHANGED <<fsVars, fileVars, zipVars, mediaVars, midiVars, part>>
  \/ part = "ffmpeg" /\ MediaNext /\ UNCHANGED <<fsVars, fileVars, zipVars, cacheVars, midiVars, part>>
  \/ part = "midi" /\ MidiNext /\ UNCHANGED <<fsVars, fileVars, zipVars, cacheVars, mediaVars, part>>
=============================================================================
