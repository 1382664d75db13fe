--------------------------- MODULE ZipFilesystem ---------------------------
(***************************************************************************)
(* ZipFilesystem: files and directories of an archive behind the interface *)
(* of a Filesystem.  libzip is external: a zip_file reads one entry from   *)
(* its start, forward only, so that the handle of ZipFilesystem keeps the  *)
(* position and seeks backward by closing the zip_file and opening         *)
(* another.  Names are sequences of characters: what is done to them here  *)
(* (a separator too many, a prefix cut off) does not respect components.   *)
(***************************************************************************)
EXTENDS Integers, SequencesExt

CONSTANTS
  Archives,     \* archives a client may open: sequences of names
  Paths,        \* paths and current directories that clients name
  EntrySize,    \* bytes in an entry that is not a directory
  Piece,        \* bytes that Seek reads over at a time
  ZipHandles,   \* handles that clients may hold
  MaxZipFiles,  \* bound on the zip_files alive
  MaxAttempts   \* bound on the names that one lookup tries

\* No two entries of an archive have the same name: the code finds entries by name, and of
\* two with one name it could reach only the first.
ASSUME ZipAssumption ==
  /\ EntrySize \in Nat /\ Piece \in Nat \ {0} /\ MaxZipFiles \in Nat /\ MaxAttempts \in Nat
  /\ Archives \subseteq Seq(Seq(STRING)) /\ Paths \subseteq Seq(STRING)
  /\ \A names \in Archives : IsInjective(names)

VARIABLES
  archive,   \* the names in the archive, in its order
  zcwd,      \* currentDirectory: its text and the length cached for it
  zfiles,    \* zip_files: entry, position in it, whether open
  handles,   \* handle -> NoHandle, or its zip_file (0: NULL), index and position
  zdir,      \* the open directory: index, position, names given, whether sought
  lookup,    \* the Stat or Exists that is looking for a name, and how often it has tried
  named,     \* history: the entry that the last call named, if it was Stat or FileStat
  spoiled,   \* history: handles that shared a zip_file or lost theirs
  fault      \* a zip_file that is closed or NULL was given to libzip

zipVars == <<archive, zcwd, zfiles, handles, zdir, lookup, named, spoiled, fault>>

NoHandle == [file |-> 0, index |-> 0, position |-> 0]
NoDir == [index |-> 0, position |-> 0, given |-> << >>, sought |-> FALSE, ended |-> FALSE]
NoLookup == [path |-> << >>, for |-> "None", attempts |-> 0]
NoName == [index |-> 0, as |-> << >>]
ZipSlots == 1..MaxZipFiles

\* Names that StatFromZipStat takes for directories
IsZipDir(name) == Last(name) = "/"
ZipSize(index) == IF IsZipDir(archive[index]) THEN 0 ELSE EntrySize

ZipInit ==
  /\ archive \in Archives
  /\ zcwd = [text |-> << >>, length |-> 0]
  /\ zfiles = [f \in ZipSlots |-> [entry |-> 0, pos |-> 0, open |-> FALSE]]
  /\ handles = [h \in ZipHandles |-> NoHandle]
  /\ zdir = NoDir /\ lookup = NoLookup /\ named = NoName /\ spoiled = {} /\ fault = FALSE

-----------------------------------------------------------------------------
(* Paths                                                                   *)

\* FilePath(string): the separator at its end goes, unless it is all there is or characters
\* have gone before.
WithoutLeaf(c) == IF Len(c.text) > 1 /\ Len(c.text) = c.length /\ Last(c.text) = "/" THEN Front(c.text) ELSE c.text
LeafOf(path) == WithoutLeaf([text |-> path, length |-> Len(path)])

\* A FilePath shares its characters with the String it is made of, and truncates them; the
\* length that the String has cached stays.
Touched == [zcwd EXCEPT !.text = WithoutLeaf(zcwd)]

\* FilePath(currentDirectory) / path, which makes a FilePath of the path, too
TransformPath(path) ==
  IF zcwd.length = 0 THEN path
  ELSE IF path = << >> THEN Touched.text
  ELSE IF Head(LeafOf(path)) = "/" THEN LeafOf(path)
  ELSE Touched.text \o <<"/">> \o LeafOf(path)

\* What is left of the path that TransformPath was given
LeftOf(path) == IF zcwd.length = 0 THEN path ELSE LeafOf(path)

\* Mutant of CutAt: the separator stays.
CutAt_Separator(c) == c.length

\* Where TransformPathReverse cuts a name
CutAt(c) == c.length + 1

\* strncmp of the length of currentDirectory: its separator is not compared.
TransformPathReverse(c, name) ==
  LET n == c.length
      prefix(text) == SubSeq(text, 1, IF Len(text) < n THEN Len(text) ELSE n)
  IN  IF n > 0 /\ prefix(name) = prefix(c.text \o <<"/">>)
      THEN SubSeq(name, CutAt(c) + 1, Len(name))
      ELSE name

\* zip_name_locate: 0 when there is no such entry
Locate(name) == IF name \in Range(archive) THEN CHOOSE i \in DOMAIN archive : archive[i] = name ELSE 0

\* What OpenDirectory looks for
WithSeparator(name) == IF Last(name) = "/" THEN name ELSE Append(name, "/")

-----------------------------------------------------------------------------
(* Handles                                                                 *)

IsOpen(h) == handles[h].index > 0
Usable(h) == handles[h].file > 0 /\ zfiles[handles[h].file].open
FreshSlots == {f \in ZipSlots : ~zfiles[f].open /\ \A h \in ZipHandles : handles[h].file # f}
Fresh == IF FreshSlots = {} THEN {} ELSE {Min(FreshSlots)}

\* zip_fopen_index, and zip_fread of as many bytes as pos
Fopened(files, f, index, pos) == [files EXCEPT ![f] = [entry |-> index, pos |-> pos, open |-> TRUE]]
Fclosed(files, f) == [files EXCEPT ![f] = [entry |-> 0, pos |-> 0, open |-> FALSE]]

ZipOpen(h, path) ==
  /\ ~IsOpen(h) /\ zdir = NoDir
  /\ LET index == Locate(TransformPath(path))
     IN  /\ index > 0
         /\ \E f \in Fresh :
              /\ zfiles' = Fopened(zfiles, f, index, 0)
              /\ handles' = [handles EXCEPT ![h] = [file |-> f, index |-> index, position |-> 0]]
  /\ zcwd' = Touched
  /\ named' = NoName
  /\ UNCHANGED <<archive, zdir, lookup, spoiled, fault>>

\* zip_fread of at most n bytes, whose number is added to the position
Advance(h, n) ==
  LET f    == handles[h].file
      left == ZipSize(zfiles[f].entry) - zfiles[f].pos
      got  == IF n < left THEN n ELSE left
  IN  /\ zfiles' = [zfiles EXCEPT ![f].pos = @ + got]
      /\ handles' = [handles EXCEPT ![h].position = @ + got]

ZipRead(h, n) ==
  /\ IsOpen(h) /\ Usable(h) /\ Advance(h, n)
  /\ named' = NoName
  /\ UNCHANGED <<archive, zcwd, zdir, lookup, spoiled, fault>>

\* The new handle reads the same zip_file, from a position of its own.
ZipDuplicate(h, g) ==
  /\ IsOpen(h) /\ ~IsOpen(g)
  /\ handles' = [handles EXCEPT ![g] = [handles[h] EXCEPT !.position = 0]]
  /\ spoiled' = spoiled \cup {h, g}
  /\ named' = NoName
  /\ UNCHANGED <<archive, zcwd, zfiles, zdir, lookup, fault>>

\* The offset from the start that Seek makes of an offset and a whence
Target(h, offset, whence) ==
  CASE whence = "Begin"   -> offset
    [] whence = "Current" -> offset + handles[h].position
    [] whence = "End"     -> offset + ZipSize(handles[h].index)

\* Mutant of Rewound: the position is kept.
Rewound_KeepsPosition(h, f) == [handles[h] EXCEPT !.file = f]

\* The handle with the zip_file that was opened again
Rewound(h, f) == [file |-> f, index |-> handles[h].index, position |-> 0]

\* Where the loop of Seek may stop: at the target or the end of the entry, or before, after
\* some whole pieces, when zip_fread fails and Seek throws.
Stops(start, target, size) ==
  LET end == IF target < start THEN start ELSE IF target < size THEN target ELSE size
  IN  {end} \cup {stop \in start..end : (stop - start) % Piece = 0}

\* A target before the position closes the zip_file and opens another; this can fail.
SeekBack(h, target) ==
  /\ IsOpen(h) /\ Usable(h) /\ target < handles[h].position
  /\ LET closed == Fclosed(zfiles, handles[h].file)
     IN  \/ /\ zfiles' = closed
            /\ handles' = [handles EXCEPT ![h] = Rewound(h, 0)]
            /\ spoiled' = spoiled \cup {h}
         \/ \E f \in Fresh, stop \in Stops(0, target, ZipSize(handles[h].index)) :
              /\ zfiles' = Fopened(closed, f, handles[h].index, stop)
              /\ handles' = [handles EXCEPT ![h] = [Rewound(h, f) EXCEPT !.position = @ + stop]]
              /\ UNCHANGED spoiled
  /\ named' = NoName
  /\ UNCHANGED <<archive, zcwd, zdir, lookup, fault>>

SeekForward(h, target) ==
  /\ IsOpen(h) /\ Usable(h) /\ target >= handles[h].position
  /\ LET f == handles[h].file
         steps == target - handles[h].position
     IN  \E stop \in Stops(zfiles[f].pos, zfiles[f].pos + steps, ZipSize(zfiles[f].entry)) :
           Advance(h, stop - zfiles[f].pos)
  /\ named' = NoName
  /\ UNCHANGED <<archive, zcwd, zdir, lookup, spoiled, fault>>

\* zip_fclose, unless the zip_file is NULL
ZipClose(h) ==
  /\ IsOpen(h) /\ (Usable(h) \/ handles[h].file = 0)
  /\ zfiles' = IF handles[h].file = 0 THEN zfiles ELSE Fclosed(zfiles, handles[h].file)
  /\ handles' = [handles EXCEPT ![h] = NoHandle]
  /\ spoiled' = spoiled \ {h}
  /\ named' = NoName
  /\ UNCHANGED <<archive, zcwd, zdir, lookup, fault>>

\* Read, Seek or Close of a zip_file that another handle closed, or Read or Seek of NULL
ZipFault(h) ==
  /\ IsOpen(h) /\ ~Usable(h)
  /\ fault' = TRUE
  /\ UNCHANGED <<archive, zcwd, zfiles, handles, zdir, lookup, named, spoiled>>

-----------------------------------------------------------------------------
(* Names and directories                                                   *)

\* The FilePath of the FileInfo that is made of an entry
Named(c, index) == [index |-> index, as |-> LeafOf(TransformPathReverse(c, archive[index]))]

\* Stat and Exists
ZipLookUp(path, for) ==
  /\ lookup' = [path |-> path, for |-> for, attempts |-> 1]
  /\ named' = NoName
  /\ UNCHANGED <<archive, zcwd, zfiles, handles, zdir, spoiled, fault>>

EntrySought == Locate(TransformPath(lookup.path))

\* The name that was tried ends with a separator still, or Exists is given no name.
NoMoreNames ==
  IF lookup.path = << >> THEN lookup.for = "Exists"
  ELSE LeftOf(lookup.path) = lookup.path /\ Last(lookup.path) = "/"

\* The name is found, or Stat throws and Exists returns false.
LookUpEnds ==
  /\ lookup # NoLookup /\ (EntrySought > 0 \/ NoMoreNames)
  /\ lookup' = NoLookup
  /\ named' = IF EntrySought > 0 /\ lookup.for = "Stat" THEN Named(Touched, EntrySought) ELSE NoName
  /\ zcwd' = Touched
  /\ UNCHANGED <<archive, zfiles, handles, zdir, spoiled, fault>>

\* Stat and Exists call themselves, with a separator behind what is left of the path.
LookUpAgain ==
  /\ lookup # NoLookup /\ EntrySought = 0 /\ ~NoMoreNames
  /\ lookup.attempts < MaxAttempts
  /\ lookup' = [lookup EXCEPT !.path = Append(LeftOf(lookup.path), "/"), !.attempts = @ + 1]
  /\ zcwd' = Touched /\ named' = NoName
  /\ UNCHANGED <<archive, zfiles, handles, zdir, spoiled, fault>>

FileStat(h) ==
  /\ IsOpen(h)
  /\ named' = Named(zcwd, handles[h].index)
  /\ UNCHANGED <<archive, zcwd, zfiles, handles, zdir, lookup, spoiled, fault>>

ZipChangeDirectory(path) ==
  /\ zcwd' = [text |-> path, length |-> Len(path)]
  /\ named' = NoName
  /\ UNCHANGED <<archive, zfiles, handles, zdir, lookup, spoiled, fault>>

\* Mutant of FirstPosition: the directory itself is looked at.
FirstPosition_Self(index) == index

\* ZipFilesystemDir starts after the entry of the directory.
FirstPosition(index) == index + 1

ZipOpenDirectory(path) ==
  /\ zdir = NoDir /\ TransformPath(path) # << >>
  /\ \A h \in ZipHandles : ~IsOpen(h)   \* bound: files and directories share no state
  /\ LET index == Locate(WithSeparator(TransformPath(path)))
     IN  /\ index > 0
         /\ zdir' = [index |-> index, position |-> FirstPosition(index), given |-> << >>, sought |-> FALSE, ended |-> FALSE]
  /\ zcwd' = Touched /\ named' = NoName
  /\ UNCHANGED <<archive, zfiles, handles, lookup, spoiled, fault>>

\* Open or OpenDirectory of a name that no entry has: FileNotFoundException
ZipMisses(path) ==
  /\ Locate(TransformPath(path)) = 0
  /\ zcwd' = Touched /\ named' = NoName
  /\ UNCHANGED <<archive, zfiles, handles, zdir, lookup, spoiled, fault>>

\* Entries whose name starts with that of the directory
Inside(index) == {i \in DOMAIN archive : IsPrefix(archive[index], archive[i])}

\* ReadDirectory: the next entry in the directory, however deep; NULL at the end
ZipReadDirectory ==
  /\ zdir # NoDir /\ ~zdir.ended
  /\ LET ahead == {i \in Inside(zdir.index) : i >= zdir.position}
     IN  IF ahead = {} THEN zdir' = [zdir EXCEPT !.position = IF @ > Len(archive) THEN @ ELSE Len(archive) + 1, !.ended = TRUE]
         ELSE zdir' = [zdir EXCEPT !.position = Min(ahead) + 1, !.given = Append(@, Min(ahead))]
  /\ named' = NoName
  /\ UNCHANGED <<archive, zcwd, zfiles, handles, lookup, spoiled, fault>>

\* SeekDirectory, to a position that TellDirectory may have given
ZipSeekDirectory(offset) ==
  /\ zdir # NoDir /\ ~zdir.sought
  /\ zdir' = [zdir EXCEPT !.position = offset, !.given = << >>, !.sought = TRUE, !.ended = FALSE]
  /\ named' = NoName
  /\ UNCHANGED <<archive, zcwd, zfiles, handles, lookup, spoiled, fault>>

ZipCloseDirectory ==
  /\ zdir # NoDir /\ zdir' = NoDir /\ named' = NoName
  /\ UNCHANGED <<archive, zcwd, zfiles, handles, lookup, spoiled, fault>>

\* A call that looks for a name is not over before it has found it or given up.
ZipNext ==
  /\ ~fault
  /\ \/ LookUpEnds \/ LookUpAgain
     \/ /\ lookup = NoLookup
        /\ \/ \E h \in ZipHandles :
                \/ \E path \in Paths : ZipOpen(h, path)
                \/ \E n \in 0..EntrySize : ZipRead(h, n)
                \/ \E g \in ZipHandles : ZipDuplicate(h, g)
                \/ \E whence \in {"Begin", "Current", "End"}, offset \in -1..EntrySize :
                     SeekBack(h, Target(h, offset, whence)) \/ SeekForward(h, Target(h, offset, whence))
                \/ ZipClose(h) \/ ZipFault(h) \/ FileStat(h)
           \/ \E path \in Paths :
                \/ ZipLookUp(path, "Stat") \/ ZipLookUp(path, "Exists")
                \/ ZipChangeDirectory(path) \/ ZipOpenDirectory(path) \/ ZipMisses(path)
           \/ ZipReadDirectory \/ ZipCloseDirectory
           \/ \E offset \in 1..Len(archive) + 1 : ZipSeekDirectory(offset)

ZipSpec == ZipInit /\ [][ZipNext]_zipVars

-----------------------------------------------------------------------------
(* Properties                                                              *)

\* A handle that was never duplicated and whose zip_file could be opened again has a
\* zip_file of its own, on its entry, standing where Tell() says: Read() gives the bytes
\* there.  Every zip_file that is open belongs to a handle, which will close it, and libzip is
\* given a closed zip_file or NULL only through one of the other handles.
HandleTracksFile ==
  /\ \A h \in ZipHandles :
       IsOpen(h) /\ h \notin spoiled =>
         /\ Usable(h)
         /\ zfiles[handles[h].file].entry = handles[h].index
         /\ zfiles[handles[h].file].pos = handles[h].position
         /\ \A g \in ZipHandles \ {h} : handles[g].file # handles[h].file
  /\ \A f \in ZipSlots : zfiles[f].open => \E h \in ZipHandles : handles[h].file = f
  /\ fault => spoiled # {}

\* In an archive that stores a directory before its contents, an iteration that ReadDirectory
\* ended gave every entry below the directory once, and not the directory.
ListsWhatIsBelow ==
  zdir # NoDir /\ zdir.ended /\ ~zdir.sought /\ (\A i \in Inside(zdir.index) : i >= zdir.index) =>
    /\ Range(zdir.given) = Inside(zdir.index) \ {zdir.index}
    /\ IsInjective(zdir.given)

\* The name that Stat() or FileStat() gives of the current directory, or of an entry below
\* it, leads back to it from there: Open() of a file's name and OpenDirectory() of a
\* directory's find the entry.  The directory must have been set without a separator at its
\* end (one that had it loses it, but not from the length it is known by), and the name of
\* the entry have no two separators in a row.
NameLeadsBack ==
  LET full == archive[named.index]
      back == TransformPath(named.as)
  IN  /\ named # NoName
      /\ full # << >> /\ \A i \in 2..Len(full) : full[i] = "/" => full[i - 1] # "/"
      /\ Len(zcwd.text) = zcwd.length
      /\ zcwd.length > 0 => Last(zcwd.text) # "/" /\ IsPrefix(zcwd.text \o <<"/">>, full)
      => Locate(IF IsZipDir(full) THEN WithSeparator(back) ELSE back) = named.index

\* A name is looked for as it is given and with a separator behind it, and no further.
LooksTwice == lookup.attempts <= 2
=============================================================================
