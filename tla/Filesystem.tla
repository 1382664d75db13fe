----------------------------- MODULE Filesystem -----------------------------
(***************************************************************************)
(* PosixFilesystem and FilesystemNode: the tree of directories, and what   *)
(* creating, moving around, iterating and deleting do to it.               *)
(*                                                                         *)
(* A path is a sequence of names from the root; a client may also name one *)
(* relative to the current directory.  The system calls are external.      *)
(***************************************************************************)
EXTENDS Integers, SequencesExt

CONSTANTS
  Names,        \* names of files and directories
  MaxDepth,     \* bound on the length of a path
  MaxNodes,     \* bound on the number of files and directories
  MaxOpenDirs   \* directories a process can have open

ASSUME FilesystemAssumption ==
  /\ MaxDepth \in Nat /\ MaxNodes \in Nat /\ MaxOpenDirs \in Nat \ {0} /\ IsFiniteSet(Names)

VARIABLES
  dirs,      \* paths of the directories but the root
  files,     \* paths of the files
  cwd,       \* the current directory of the process
  listing,   \* the open directory: path, names still to come, names given
  last       \* history: the last DeleteDirectory: target, before, whether it threw

fsVars == <<dirs, files, cwd, listing, last>>

Root == << >>
IsDirectory(tree, p) == p = Root \/ p \in tree.dirs
IsFile(tree, p) == p \in tree.files
Exists(tree, p) == IsDirectory(tree, p) \/ IsFile(tree, p)
Tree == [dirs |-> dirs, files |-> files]

Children(tree, p) == {q \in tree.dirs \cup tree.files : q # Root /\ Front(q) = p}
Below(tree, p) == {q \in tree.dirs \cup tree.files : IsPrefix(p, q)}

\* FilePath::RootPath(current directory), and the resolution of a path by the kernel
RootPath(p, rooted) == IF rooted THEN p ELSE cwd \o p

NoListing == [open |-> FALSE, path |-> Root, ahead |-> {}, given |-> {}]
NoDelete == [target |-> Root, recursive |-> FALSE, tree |-> [dirs |-> {}, files |-> {}], at |-> Root, threw |-> TRUE]

FsInit ==
  /\ dirs = {} /\ files = {} /\ cwd = Root
  /\ listing = NoListing /\ last = NoDelete

-----------------------------------------------------------------------------
(* Creating, and walking around                                            *)

Create(p) == p # Root /\ Len(p) <= MaxDepth /\ Cardinality(dirs \cup files) < MaxNodes /\ IsDirectory(Tree, Front(p))

\* CreateFile: open(O_CREAT), which takes a file that exists as it is
CreateFile(p) ==
  /\ Create(p) /\ ~IsDirectory(Tree, p)
  /\ files' = files \cup {p}
  /\ last' = NoDelete
  /\ UNCHANGED <<dirs, cwd, listing>>

CreateDirectory(p) ==
  /\ Create(p) /\ ~Exists(Tree, p)
  /\ dirs' = dirs \cup {p}
  /\ last' = NoDelete
  /\ UNCHANGED <<files, cwd, listing>>

ChangeCurrentDirectory(p) ==
  /\ IsDirectory(Tree, p) /\ p # cwd
  /\ cwd' = p /\ last' = NoDelete
  /\ UNCHANGED <<dirs, files, listing>>

DeleteFile(p) ==
  /\ IsFile(Tree, p)
  /\ files' = files \ {p}
  /\ last' = NoDelete
  /\ UNCHANGED <<dirs, cwd, listing>>

-----------------------------------------------------------------------------
(* The iterator of a FilesystemNode                                        *)

\* OpenDirectory, by a foreach
OpenDirectory(p) ==
  /\ ~listing.open /\ IsDirectory(Tree, p)
  /\ listing' = [open |-> TRUE, path |-> p, ahead |-> {Last(q) : q \in Children(Tree, p)}, given |-> {}]
  /\ last' = NoDelete
  /\ UNCHANGED <<dirs, files, cwd>>

\* ReadDirectory: a node for the next entry, with the bare name for its path.  (readdir
\* may or may not give an entry made or removed since; the model gives those of the start.)
ReadDirectory(name) ==
  /\ listing.open /\ name \in listing.ahead
  /\ listing' = [listing EXCEPT !.ahead = @ \ {name}, !.given = @ \cup {name}]
  /\ last' = NoDelete
  /\ UNCHANGED <<dirs, files, cwd>>

\* ReadDirectory gives NULL and the iterator is destroyed: CloseDirectory.
CloseDirectory ==
  /\ listing.open /\ listing' = NoListing /\ last' = NoDelete
  /\ UNCHANGED <<dirs, files, cwd>>

\* GetFullPath of a node that ReadDirectory made: its name, in the current directory
GetFullPath(name) == RootPath(<<name>>, FALSE)

-----------------------------------------------------------------------------
(* DeleteDirectory                                                         *)

\* Mutant of Rmdir: a directory that is not empty is left, and no error reported.
Rmdir_Quiet(outcome, p) == [outcome EXCEPT !.tree.dirs = IF Children(outcome.tree, p) = {} THEN @ \ {p} ELSE @]

\* rmdir, the last step
Rmdir(outcome, p) ==
  IF p \in outcome.tree.dirs /\ Children(outcome.tree, p) = {}
  THEN [outcome EXCEPT !.tree.dirs = @ \ {p}]
  ELSE [outcome EXCEPT !.threw = TRUE]

\* The path the recursion is called with for a subdirectory of that name
Subdirectory(name) == GetFullPath(name)

\* What a deletion works on: the tree so far, and whether an exception is on its way
Outcomes == [tree : [dirs : SUBSET Seq(Names), files : SUBSET Seq(Names)], threw : BOOLEAN]
Thrown(outcome) == [outcome EXCEPT !.threw = TRUE]

\* One entry of the directory p, which was as in "start" when it was opened.  For a file,
\* DeleteFile(path) is called, with the path of the directory, which unlink refuses.
DeleteEntry(start, sofar, p, name, below) ==
  IF sofar.threw \/ Append(p, name) \notin Children(start, p) THEN sofar
  ELSE IF Append(p, name) \in start.dirs THEN below[sofar][Subdirectory(name)]
  ELSE Thrown(sofar)

\* The loop over the entries, in the order readdir gives them
DeleteEntries(outcome, p, order, below) ==
  LET emptied[i \in 0..Len(order)] ==
        IF i = 0 THEN outcome ELSE DeleteEntry(outcome.tree, emptied[i - 1], p, order[i], below)
  IN  emptied[Len(order)]

\* DeleteDirectory(p, true), where "below" is what the calls for subdirectories do
DeleteContents(outcome, p, order, below) ==
  LET emptied == DeleteEntries(outcome, p, order, below)
  IN  IF outcome.threw \/ ~IsDirectory(outcome.tree, p) THEN Thrown(outcome)
      ELSE IF emptied.threw THEN emptied ELSE Rmdir(emptied, p)

\* The recursion, in which each level has a directory open
DeleteTree(order) ==
  LET deleted[open \in 0..MaxOpenDirs] ==
        [outcome \in Outcomes |-> [p \in Seq(Names) |->
           IF open = 0 THEN Thrown(outcome) ELSE DeleteContents(outcome, p, order, deleted[open - 1])]]
  IN  deleted[MaxOpenDirs]

\* DeleteDirectory(path, recursive)
DeleteDirectory(p, recursive, order) ==
  LET start   == [tree |-> Tree, threw |-> FALSE]
      outcome == IF recursive THEN DeleteTree(order)[start][p] ELSE Rmdir(start, p)
  IN  /\ dirs' = outcome.tree.dirs /\ files' = outcome.tree.files
      /\ last' = [target |-> p, recursive |-> recursive, tree |-> Tree, at |-> cwd, threw |-> outcome.threw]
      /\ UNCHANGED <<cwd, listing>>

FsNext ==
  \/ \E p \in BoundedSeq(Names, MaxDepth) :
       \/ CreateFile(p) \/ CreateDirectory(p) \/ DeleteFile(p) \/ OpenDirectory(p)
       \/ ChangeCurrentDirectory(p)
       \/ p # Root /\ \E order \in SetToSeqs(Names) : DeleteDirectory(p, TRUE, order)
       \/ p # Root /\ \E order \in {SetToSeq(Names)} : DeleteDirectory(p, FALSE, order)
  \/ \E name \in Names : ReadDirectory(name)
  \/ CloseDirectory

FsSpec == FsInit /\ [][FsNext]_fsVars

-----------------------------------------------------------------------------
(* Properties                                                              *)

\* When DeleteDirectory returns, every file and directory in the directory, and the directory
\* itself, are gone.  Whether it returns or throws, it has removed nothing outside, provided
\* that the current directory is in it or it has no subdirectory: a subdirectory is looked
\* up by its bare name in the current directory, and the one found there is deleted instead.
DeleteIsExact ==
  /\ ~last.threw => Below(Tree, last.target) = {}
  /\ IsPrefix(last.target, last.at) \/ (\A q \in Children(last.tree, last.target) : q \in last.tree.files) =>
       \A q \in last.tree.dirs \cup last.tree.files : ~IsPrefix(last.target, q) => q \in dirs \cup files
=============================================================================
