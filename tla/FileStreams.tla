---------------------------- MODULE FileStreams ----------------------------
(***************************************************************************)
(* FileStream over the files of PosixFilesystem.                           *)
(*                                                                         *)
(* A FileHandle is a file descriptor, a small number that is given out     *)
(* again once it is closed; a stream made from a handle duplicates it, and *)
(* shares the position with it.  What a byte is does not matter here, only *)
(* where reads and writes happen.  The system calls are external.          *)
(***************************************************************************)
EXTENDS Integers, FiniteSetsExt

CONSTANTS
  FileNames,     \* names of files
  FileObjects,   \* FileStream objects
  MaxFds,        \* descriptors a process can have open
  MaxSize        \* bound on positions and sizes

ASSUME FileStreamsAssumption == MaxFds \in Nat /\ MaxSize \in Nat /\ IsFiniteSet(FileObjects)

VARIABLES
  sizes,     \* length of each file, Absent if there is none
  fds,       \* descriptor -> open file description, 0 when it is free
  described, \* open file description -> file, position, whether it appends
  streamFd,  \* FileStream::handle, NoFd when the object does not exist
  origin     \* reference: the file each stream is for, the family of streams it shares its
             \* position with, and that position

fileVars == <<sizes, fds, described, streamFd, origin>>

Absent == -1
NoFd == -1
Fds == 0 .. MaxFds - 1
Ids == 1 .. Cardinality(FileObjects)
FileOpenMode == {"Open", "Create", "CreateNew", "Append", "Truncate"}
SeekTypes == {"Beginning", "Current", "End"}

NoDescription == [file |-> "none", position |-> 0, append |-> FALSE]
NoOrigin == [file |-> "none", family |-> 0, position |-> 0]

FilesInit ==
  /\ sizes = [file \in FileNames |-> Absent]
  /\ fds = [fd \in Fds |-> 0]
  /\ described = [i \in Ids |-> NoDescription]
  /\ streamFd = [h \in FileObjects |-> NoFd]
  /\ origin = [h \in FileObjects |-> NoOrigin]

Live == {h \in FileObjects : streamFd[h] # NoFd}
Description(h) == described[fds[streamFd[h]]]
IsOpenFd(fd) == fd # NoFd /\ fds[fd] # 0

\* open and dup give the lowest number that is free (external).
FreeFds == {fd \in Fds : fds[fd] = 0}
FreeIds(used) == {i \in Ids : i \notin used}

\* The object exists, with the handle that was opened or duplicated for it.
Construct(h, fd, from) ==
  /\ streamFd' = [streamFd EXCEPT ![h] = fd]
  /\ origin' = [origin EXCEPT ![h] = from]

-----------------------------------------------------------------------------
(* The constructors and the destructor                                     *)

\* FileStream(path, createmode), for reading and writing: open(), which fails for a file
\* that should or should not be there; a constructor that throws leaves nothing behind.
OpenFile(h, file, createmode) ==
  LET id     == Min(FreeIds({fds[fd] : fd \in Fds}))
      family == Min(FreeIds({origin[g].family : g \in Live}))
  IN  /\ h \notin Live /\ FreeFds # {}
      /\ createmode \in {"Open", "Append", "Truncate"} => sizes[file] # Absent
      /\ createmode = "CreateNew" => sizes[file] = Absent
      /\ sizes' = [sizes EXCEPT ![file] = IF createmode \in {"Open", "Append"} THEN @ ELSE 0]
      /\ fds' = [fds EXCEPT ![Min(FreeFds)] = id]
      /\ described' = [described EXCEPT ![id] = [file |-> file, position |-> 0, append |-> createmode = "Append"]]
      /\ Construct(h, Min(FreeFds), [file |-> file, family |-> family, position |-> 0])

\* Mutant of Duplicate: the handle itself is used.
Duplicate_Same(fd) == fd

\* PosixFilesystem::Duplicate
Duplicate(fd) == Min(FreeFds)

\* FileStream(handle), with the handle of another stream.
OpenHandle(h, g) ==
  LET fd == streamFd[g]
  IN  /\ h \notin Live /\ g \in Live /\ FreeFds # {}
      /\ fds' = [fds EXCEPT ![Duplicate(fd)] = fds[fd]]
      /\ Construct(h, Duplicate(fd), origin[g])
      /\ UNCHANGED <<sizes, described>>

\* ~FileStream(): the description goes with its last descriptor.
Close(h) ==
  LET fd   == streamFd[h]
      last == \A other \in Fds \ {fd} : fds[other] # fds[fd]
  IN  /\ h \in Live /\ IsOpenFd(fd)
      /\ fds' = [fds EXCEPT ![fd] = 0]
      /\ described' = IF last THEN [described EXCEPT ![fds[fd]] = NoDescription] ELSE described
      /\ streamFd' = [streamFd EXCEPT ![h] = NoFd]
      /\ origin' = [origin EXCEPT ![h] = NoOrigin]
      /\ UNCHANGED sizes

-----------------------------------------------------------------------------
(* Calls of a stream                                                       *)

\* Its position, and in the reference that of its family, becomes `to'.
Move(h, to) ==
  /\ to \in 0 .. MaxSize
  /\ described' = [described EXCEPT ![fds[streamFd[h]]].position = to]
  /\ origin' = [g \in FileObjects |->
                  IF g \in Live /\ origin[g].family = origin[h].family
                  THEN [origin[g] EXCEPT !.position = to] ELSE origin[g]]

Ready(h) == h \in Live /\ IsOpenFd(streamFd[h])

ReadFile(h, n) ==
  LET d    == Description(h)
      left == Max({0, sizes[d.file] - d.position})
  IN  /\ Ready(h) /\ Move(h, d.position + Min({n, left}))
      /\ UNCHANGED <<sizes, fds, streamFd>>

\* Also past the end, which leaves a hole
WriteFile(h, n) ==
  LET d  == Description(h)
      at == IF d.append THEN sizes[d.file] ELSE d.position
  IN  /\ Ready(h) /\ Move(h, at + n)
      /\ sizes' = [sizes EXCEPT ![d.file] = Max({@, at + n})]
      /\ UNCHANGED <<fds, streamFd>>

\* Seek: a target before the start throws.
Seek(h, offset, whence) ==
  LET d == Description(h)
  IN  /\ Ready(h)
      /\ Move(h, offset + (CASE whence = "Beginning" -> 0 [] whence = "Current" -> d.position [] whence = "End" -> sizes[d.file]))
      /\ UNCHANGED <<sizes, fds, streamFd>>

\* SetLength: positions stay, also those beyond.
TruncateFile(h, length) ==
  /\ Ready(h)
  /\ sizes' = [sizes EXCEPT ![Description(h).file] = length]
  /\ UNCHANGED <<fds, described, streamFd, origin>>

FilesNext ==
  \E h \in FileObjects :
    \/ \E file \in FileNames, createmode \in FileOpenMode : OpenFile(h, file, createmode)
    \/ \E g \in FileObjects : OpenHandle(h, g)
    \/ Close(h)
    \/ \E n \in 0 .. MaxSize : ReadFile(h, n) \/ WriteFile(h, n) \/ TruncateFile(h, n)
    \/ \E whence \in SeekTypes, offset \in -1 .. MaxSize : Seek(h, offset, whence)

FilesSpec == FilesInit /\ [][FilesNext]_fileVars

-----------------------------------------------------------------------------
(* Properties                                                              *)

\* Every FileStream has an open descriptor of its own and none is left open without one;
\* over any order of constructors, calls and destructors it stays on the file it was made for, at the
\* position where the calls on it and on the streams that share its handle have left it.
OwnsItsDescriptor ==
  /\ \A h \in Live : IsOpenFd(streamFd[h])
  /\ \A g, h \in Live : streamFd[g] = streamFd[h] => g = h
  /\ \A fd \in Fds : fds[fd] # 0 => \E h \in Live : streamFd[h] = fd
  /\ \A h \in Live :
       /\ Description(h).file = origin[h].file
       /\ Description(h).position = origin[h].position
=============================================================================
