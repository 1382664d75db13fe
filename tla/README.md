# A TLA+ model of libbricks

libbricks ("Bricks") is a C++ framework: reference-counted objects, collections,
streams and filesystems, threads and task queues, and bindings to zip, FFmpeg,
FreeType, PNG and Java. This directory holds TLA+ modules of the parts whose
correctness depends on the order of events, the TLC configurations that check
them on small instances, and theorems about them that TLAPS proves for every
value of the constants. Paths below are relative to `src/`.

## 1. Inventory

| Component | State it keeps | Operations | Interacts through |
|---|---|---|---|
| Mutex, Condition, ConditionLock (`threading/mutex,condition,conditionlock`) | a pthread mutex, a pthread condition variable, a volatile `condition` | Lock, Lock(c), timed Lock, TryLock, Unlock, Unlock(c), Signal(c), Broadcast(c), SetCondition | used by Thread (its status) and TaskQueue (its queue) |
| Thread (`threading/thread`) | pthread handle, status lock, reference count | Start, Wait, timed Wait, TryWait, Stop, Detach, destructor | the started thread copies the object, runs `Main()`, unlocks the status lock with `Stopped` |
| Task, TaskQueue (`threading/task,taskqueue`) | queue, condition (Waiting, Ready, Cancel), worker threads; per task a mutex that is locked until it has run | PushTask, Start, Stop, destructor; Wait, TryWait, Run | workers pop and run tasks; waiters block on the task's mutex |
| Semaphore, timed attempts, thread local storage, Monitor | sem_t; pthread key with reference-counted values | Signal, Wait, timed Wait, TryWait; SetValue, thread exit | – |
| ListGuard (`collections/listguard.h`) | a list and the registry of its iterators; per iterator a position or a cache | every mutator of List, assignment, destruction; GetIterator, MoveNext, GetCurrent | mutators call `ListChanged()` of every registered iterator first; Event dispatches over it |
| Array, AutoArray, Deque, Queue, Stack, Dictionary | items, with a reference each in the Auto variants | List, Collection and Dictionary operations | – |
| CacheStream (`io/cachestream`) | cache, cacheOffset, cacheLength, cachePosition, dirty flag, position | Read, Write, Flush, SetPosition, SetLength | reads and writes the stream behind, whose position it believes to know |
| MemoryStream, Substream, FileStream | bytes or a handle, a position | Stream operations | several Substreams share one stream |
| Reader, writer, navigator, serializer | endianness, position stack | typed reads and writes | a Stream |
| Filesystem, ZipFilesystem | handles, current directory | Open, Read, Seek, Duplicate, Close, directory listing, recursive deletion | libc, libzip |
| Object, pointers | non-atomic reference counts | Retain, Release, AutoPointer assignment | everything |
| Delegate, Event | listeners | +=, -=, dispatch | ListGuard over AutoArray |
| Value, String, Data, Time, Timespan, Random | values | conversion, arithmetic | – |
| Hash, CRC32 | – | hash of bytes or of a stream | Stream |
| MidiReader, FFmpeg decoders | tracks and time; packet queues per stream | ReadEvent; ReadPacket, CloseStream | Stream, FFmpeg |
| Imaging, Java bridge, sample | – | – | libpng, FreeType, JNI |

What is hard in this code:

* **concurrency**: the notifying operations of ConditionLock take no lock
  (`conditionlock.cpp:47-63`); TaskQueue::Start() uses the condition and the
  queue without the lock (`taskqueue.cpp:72`); Stop() mistakes the Cancel of an
  empty queue for its own (`:87`); a Thread is started before its handle is
  stored and is waited for, stopped and released meanwhile (`thread.cpp:97-147`);
* **reentrancy**: lists change under the iterators of loops in progress;
* **stale beliefs**: CacheStream remembers where the stream behind stands,
  String its length, ZipFilesystem the length of its current directory;
* **sharing**: Strings share buffers, Substreams and descriptors a position,
  pointers an object with a plain count, decoders one queue of packets;
* **arithmetic**: unsigned differences wrap, a deadline is normalised by hand;
* **failure**: pthread_create fails, writes are short, waits time out, decoding
  or a serializer fails part way;
* **liveness**: sleepers must be woken, queues drained, waits must return.

`PROJECT.json` lists the hazards with their lines and the properties aimed at
them; smaller ones are at the end of section 6.

## 2. Modules

| Module | Models | Shape |
|---|---|---|
| `ConditionLock` | Mutex, Condition, ConditionLock | one step per pthread call, test of the condition or assignment to it |
| `ConditionLockHandoff` | the ConditionLock unit test, composed with the lock | each thread runs the calls of its program |
| `TaskPool` | what a TaskQueue promises | abstract: pending, running, finished |
| `TaskQueue` | TaskQueue, its workers, Task | owner, pushers, workers and waiters; refines `TaskPool` |
| `Thread` | Thread | one object, its successive pthreads, an owner and pollers |
| `TimedWait` | Semaphore, timed locks, timedtry_internal, Time, Timespan | one step per attempt and test of the loops, and a ticking clock |
| `ListGuard`, `Event` | ListGuard and its iterators; Event over it | one step per iterator or list operation |
| `Objects` | Object, pointers, AutoArray, AutoThreadLocalStorage | operations are sequences of Retain and Release, each a load and a store |
| `Strings` | String, its encoding, FilePath | one step per call, next to strings that are values |
| `Streams` | MemoryStream, Substream, StreamReader, StreamWriter, StreamNavigator | one step per call, unsigned arithmetic |
| `Serializer` | Serializer, its registry and its built-in types | recursive operators, one step per record |
| `Value` | Value | one step per call, next to a number of 64 bits |
| `Filesystem` | PosixFilesystem directories, FilesystemNode | one step per call |
| `FileStreams` | FileStream, the descriptors of PosixFilesystem | one step per call, next to the file and position a stream should have |
| `ZipFilesystem` | ZipFilesystem over libzip | one step per call |
| `Media` | FFmpegDecoder, its audio and video decoders | one step per call |
| `MidiReader` | MidiReader | one step per call, next to the song the file was written from |
| `CacheStream` | CacheStream in front of a MemoryStream | one step per recursion level of Read and Write, next to a plain stream as reference |
| `MCConditionLock`, `MCTaskQueue`, `MCEvent` | – | symmetry sets and the batch order of the task queue test |
| `MCWaits`, `MCValues`, `MCFiles` | – | one of several independent modules, chosen at the start |
| `Waits_proofs`, `TaskQueue_proofs`, `Thread_proofs`, `Event_proofs`, `Files_proofs`, `Values_proofs`, `Streams_proofs`, `Media_proofs` | – | theorems and their proofs |

Definitions named `X_Y` above a definition `X` are plausible mistakes in the
code of `X`; each property is tried against one of them and must fail there.

`MCWaits`, `MCValues` and `MCFiles` put modules with no common state into one
instance. Their variable `part` says in Init which of them runs; the others keep
their initial values, so the states are the sum of those of the parts.

Where the code leaves what it promises (it says so, or it has undefined
behaviour), the model goes on as the code does and a history variable remembers
what is no longer covered. The properties name these exemptions; each is listed
below with the lines it comes from.

### ConditionLock

`locked` and `condition` are the mutex and the volatile integer; `pc[t]` tells
where thread t is in `condition.h`: before the mutex (`acquire`), at the loop
condition (`test`), between the failed test and pthread_cond_wait (`wait`),
asleep (`sleep`), out of the wait but without the mutex (`woken`, `expired`),
about to unlock and return false (`giveup`), owner (`held`), between the
assignment and the wake call of a notification (`notify` as owner, `loose` not),
and in the Unlock of Unlock(c) (`release`). A sleeper may be woken spuriously at
any time, and a timed wait may expire at any time. `sound` is a history
variable: it is TRUE while the last assignment to `condition` was made by the
owner of the mutex, in an operation that wakes everybody. The code promises
nothing about a waiter after any other assignment.

### TaskQueue and TaskPool

queueCondition is reduced to its owner (`holder`) and condition, which the
proofs about ConditionLock justify for a mutex used as a critical section.
Critical sections in which other threads can observe a difference (push then
signal, pop then signal) are two steps; the signal picks the sleeper to wake.
Start() is two unlocked accesses, a read of the queue and a write of the
condition, followed by one step per thread that is created, or not created when
pthread_create fails. Stop(wait) is its critical section, then per thread the
status read and the join. A TaskBase::mutex is `Unrun` from the constructor to
the end of Run(), then free or held by a waiter. `atStop` and `outcome` record
what the last Stop() found and how it ended, `returned` what waiters came back
from. Each task is pushed once. The destructor is Stop(false) followed by the
end of the owner; it is assumed not to run before every worker has taken its
references (`taskqueue.cpp:32`).

The refinement maps the pool's `pending` to the queue, `running` to the tasks of
workers between the pop and the end of Main(), `finished` to `done`, with one
slot per worker.

### Thread

One Thread object that may be started several times; each start has its own
status lock and pthread. Reclaiming a pthread twice, or passing a NULL handle to
a pthread call, sets `fault`. The owner holds a reference and calls everything;
it restarts or releases the object only when no poller is inside a call. The
pollers call TryWait and Wait(timeout) only. The status read of Wait() and Stop()
and the pthread call that follows are separate steps.

### ListGuard

`registered`, `bound`, `pos`, `status`, `cached`, `cache`, `cursor` are the
fields of the list and its iterators; `snapshot` and `seen` record what the list
was when an iterator was made and what it has been moved to. `ListCache` keeps
the behaviour of `listguard.h:76` on an iterator that has not been moved yet:
nothing of a list with items, an arbitrary item past the end of an empty one.
Such iterators are remembered in `early` and excluded from two properties: a
foreach moves its iterator before its body can run.

`Event` is the guard around an AutoArray of delegates: += and -= are AddItem and
RemoveItems, a dispatch is a loop, and listeners that change the event are
changes of the list while iterators stand in it. What it adds are the removal of
every method of an object (`-= object`), and the assignment of an Event, which
stores the new delegates in `listInternal` without `ListChanged()`: dispatches in
progress lose their list and become `early`.

### TimedWait

`units` and `holds` are a semaphore or a mutex, `clock` the time in nanoseconds.
`build` says whether the platform's timed calls are compiled in, or the loops of
`timedtry_internal.h`, which try (`attempt`) and then look at the result and the
clock (`test`) in separate steps. A deadline is a Time, made from the clock and
Timespans by the + and - of `time.cpp` and `timespan.cpp`, unnormalised remainders
included: a subtraction that borrows leaves the nanoseconds negative, and the
platform refuses such a deadline at once (EINVAL). Wait(timespan) of a Semaphore
subtracts the timespan (`semaphore.h:21`), so `GivesUpWhenDue` is about the other
forms. A signal may interrupt sem_wait, which returns without a unit
(`semaphore.cpp:40`), and sem_timedwait, whose EINTR is a false (`:58`): such calls
are `interrupted`. The loop goes on when an attempt succeeds and the deadline is past
(`timedtry_internal.h:41`): such threads are `late`, and may take unit after unit.

`GivesUpWhenDue` exempts the interrupted calls and the deadlines with negative
nanoseconds, which do give up early; `TimedTakesOne` and `TimedCallReturns` exempt
`late`, and TimedCallReturns of a plain mutex does not need to.

### Objects

Each thread has AutoPointers, an AutoArray and its value in one
AutoThreadLocalStorage. An operation queues its Retain and Release calls in the
order of the source; each is a load and a store of `count`. Two exemptions:
`raced`, objects that two threads counted at the same time (the count is a plain
integer, `object.h:46`), and `handedBack`, objects stored over themselves by
SetItem or SetValue, which release before they retain (`autoarray.h:30`,
`threadlocalstorage.h:81`). Destroying the storage keeps the references that
threads have in it. After an access to a deleted object, `fault`, nothing more
happens in the model: such a program has no defined behaviour.

### Strings

`buffer` and `heap` are which Data a String has and its bytes, `dataLength` the
cached length; `text` is what each String would hold if it were a value. The
UTF-8 encoding is that of `string.cpp`, which leaves the top bit of the bytes
after the first clear, so that such a byte may be zero: U+00C0 becomes C3 00.
`spoiled` marks Strings whose buffer was written through a copy, or that were
copied up to a zero byte; `stale` those whose cached length is out of date.
FilePath operations cut and join at separators.

### Streams, Serializer

All handles of `Streams` share one MemoryStream and its position. The unsigned
long has `Word` values, a block `BlockSize` bytes instead of 1024. A call is an
operator from the streams to the streams and the outcome: bytes, an exception,
or `fault` for an access outside the memory. The loops of the code (the reads of a
string, the pieces of Pad) are recursive functions over their turns. Handles that stand past their end
(`Strayed`) are exempt, where the difference of length and position wraps; so is
ReadByte at the end of a MemoryStream, which does not look at the length.
Integers have two, four or eight bytes. `CompilerSwaps` says which swaps of
`endian.h` are compiled in: those of the compiler reverse the bytes, and so do the
macros for 16 and 32 bits, but that for 64 bits (`:50`) applies the swap of 32 bits
to 64-bit operands and mixes bits of one half into the other (`SwapBytes`). The
compiler is taken to have them from GCC 4.3 on, by a test of the minor version that
fails for GCC 5.1 or clang; `CompilerSwaps = FALSE` is such a build.

`Serializer` writes records to a sequence and reads them back. Clients change
the registry between records, and a nested object without a serializer makes a
call fail when part of it is written. Text with characters of several bytes
comes back longer than it was (the length in bytes is taken for one in
characters), so `ReadsBack` asks for a prefix there and for the same text
otherwise.

### Value

`kept` is the type and the eight octets of each Value, lowest first; `register` is one
number that the setters overwrite from below and a count of the octets that were ever
set. The constructors store a number with its type, the setters convert it to the type
there is, SetType changes what the octets are taken for and leaves them alone. The size
that the code gives for a Byte is 8 (`value.cpp:14`): its constructor copies seven octets
from behind its parameter, which may be anything. `GetsWhatWasSet` exempts octets that
nobody set, those seven among them, and a Boolean made of an octet that is neither 0
nor 1. Floating point numbers are left out, and octets have `Base` values instead of 256.

### Filesystem, FileStreams

`Filesystem` is the tree, the current directory, an open listing and
DeleteDirectory with its recursion: a file inside makes it call DeleteFile with
the path of the directory, which fails, and a subdirectory is looked up by its
bare name in the current directory (`filesystem.cpp:327`). The recursion is a
function of the number of directories that may still be opened, each level given
what the calls for its subdirectories do. The second part of
`DeleteIsExact` is about deletions this does not lead elsewhere.

`FileStreams` keeps descriptors, the open file descriptions behind them and the
FileStream objects. A stream made from the handle of another duplicates it and
shares its position. Numbers of closed descriptors are used again; clients pass
only handles of streams that are alive.

### ZipFilesystem

A handle has a `zip_file` of libzip, which reads forward only; seeking back
closes it and opens another. Names are sequences of characters, as the code cuts
prefixes off. TransformPath joins the current directory and a FilePath of the
argument, and a FilePath truncates the separator at its end in the buffer that it
shares with the String it is made of (`filepath.h:19-30`): `LeafOf` is what the
callers of TransformPath are left with, `Touched` what becomes of currentDirectory,
whose cached length stays. Stat and Exists look for the name and, where it does not
end with a separator, call themselves with one (`lookup`, one step per attempt); with
a current directory the separator is cut off again and the attempts have no end
(`zip_lookup`; `MaxAttempts` cuts them off). `spoiled` marks handles that were duplicated (the duplicate has the
same zip_file, and either closes it) or whose file could not be opened again.

### Media, MidiReader

`Media` takes packets of three streams off one file: one for each of the two
decoders and one for another client, which may also ask for any packet. `got`
and `since` record what each stream was given since it was opened or sought.
`intact` is FALSE when packets of the audio stream went to another client, did
not decode, or the video decoder moved the file: nothing is said of the samples
then. The rounds of the two Read loops and the chunks of a packet are recursive
functions; `Queued` is what one ReadPacket leaves in the queue.

`MidiReader` reads files laid out from songs (`stored`, piece by piece in `FileTo` and
`Encoded`). System exclusive events (F0 and F7) are not
implemented and throw behind their identifier, and streams on a track, read at any
time after GetTrackStream, move the common position: both leave the reader `astray`
until NextTrack or SeekTrack. ReadEvent parses on all the same, wherever it stands,
and keeps the identifier it finds; what it gives then is not in `played`. Where the
file ends inside an event it throws (`ReadEventShort`), and where it ends inside a
number it never returns, as Stream::ReadByte goes on to give -1, the byte 255
(`ReadEventHangs`).

### CacheStream

The record `c` has the fields of the CacheStream and the stream behind it, `doing` is the
call in progress.
`content` and `expected` are what a plain stream would hold and return. SeekRule
limits the SetPosition calls of the clients, ReadPastEnd allows reads that meet
the end, and `Aligned` restricts writes to where the stream behind stands.

## 3. Runs

| Run | Question and answer |
|---|---|
| `lock_safety` | Is the mutex owned by one thread, or none, on every path; does Lock(c) keep its promise; is no wakeup lost? Yes, the last two while notifiers are `sound`. Three threads, two conditions, all operations. |
| `lock_handoff_window` (violation) | Does the hand-over of the unit test always complete? No: the broadcast without the mutex can fall between a test and a wait and be missed. |
| `waits` | Does a pending Lock(c) return? Does a timed call return, having taken one unit or none, and not give up before it is due? Yes, but for the `late` ones of the emulation, and for those that were interrupted or given a malformed deadline. Two threads, under fairness. |
| `queue` | Two tasks, two Starts of one worker each that may fail, one Stop, a waiting client: tasks once and in order, joins and waits mean what they say, the queue drains while a worker is left, waiters return; and it implements `TaskPool`. |
| `queue_stop_true` (violation) | "Stop(true) waits for queue to finish", with all tasks pushed before Start as in the test? No: it returns at once after the last pop. |
| `thread` | Two starts, an owner and two pollers: no stale handle is used, the object is alive when it is copied, waits mean the end of Main(), stopped threads end. |
| `event` | Two dispatches, two listeners, lists of up to three: a dispatch calls the listeners there were, keeps the one it is calling and is registered exactly while it must be. |
| `cache_seek` (violation) | Does it for any seek? No. |
| `cache_end` (violation) | Does Read return at the end of the stream? No, it recurses for ever. |
| `values` | Strings hold their text and paths split at the right place (`HoldsItsText`, `PathSplits`); counts are the owners, and nothing deleted is counted (`CountsOwners`, `CountsLiveObjects`); streams stay in their memory and windows and integers come back (`AccessInBounds`, `KeepsToItsWindow`, `IntegerReadsBack`); records come back (`ReadsBack`); a Value read as another type gives the lower octets of what was set (`GetsWhatWasSet`). |
| `zip_lookup` (violation) | Do Stat and Exists look for a name no more than twice? No: with a current directory, a name that no file has is looked for without end. |
| `files` | A deletion removes its target and nothing else (`DeleteIsExact`); streams keep their descriptors (`OwnsItsDescriptor`); archive handles stand where they say, listings are complete and names lead back (`HandleTracksFile`, `ListsWhatIsBelow`, `NameLeadsBack`); a CacheStream behaves like a plain stream when seeks leave the cache and the believed position, reads stay inside and writes go where the stream behind stands (`ReadsTheStream`, `WritesReachTheStream`); packets and samples are delivered once and in order (`EachPacketOnce`, `SamplesInOrder`); tracks are played as written, whatever a reader that strayed has parsed before (`PlaysTheTrack`). |

### Bounds

* Three threads are needed for a signal that wakes the wrong sleeper while a
  third owns the mutex; two condition values for a waiter of each. Liveness
  needs a waiter and a notifier.
* Two tasks show order, doubling and loss; two workers show races of pop, exit
  and join. They come from two Starts, so that the second one also meets a
  queue in use. One Stop lies between any two other events.
* Two starts of a Thread distinguish its handle from a stale one; two pollers
  race each other as well as the owner.
* A second of two ticks of two nanoseconds has a carry at each place; spans of
  one and of three ticks stay inside a second and cross it, and a span (`Cuts`) is
  taken off again, with and without a borrow. Calls start from `FirstStart` to
  `LastStart`, and `MaxClock` lets the latest deadline pass before the clock stops.
  Two units (`MaxUnits`) and any number of signals let a loop of the emulation take
  one after the other past its deadline.
* Lists of three items have a middle; two iterators are nested loops.
* A cache of two bytes in front of three, with requests of up to three, makes
  reads and writes hit, cross, fill and outrun the cache. `Capacity` bounds the
  stream behind, and a write beyond it is short, which is the error path.
* Strings: characters of one and two bytes, one of them with a zero byte, a
  separator and a dot; two variables share a buffer or not. Three operations
  (`MaxSteps`) construct, change and look.
* Objects: two threads share one object and make another, with two operations
  each, cut into loads and stores.
* Streams: two windows over two bytes, blocks of two bytes, three calls: make a
  window, move, access. One number of each size, the longest with a byte in
  either half. A `Word` of 128 is larger than any sum of positions that
  those calls can build up (`WordAssumption`), as 2^64 is for any stream that fits
  a memory, so that only differences wrap.
* Value: octets of three values, the numbers 0, 2, 5 and 100 (one, two and more octets), and
  four operations (`MaxValueCalls`): construct, set, change the type, set again.
* Serializer: nested objects of every type, three records, a client's type and a
  replacement of a built-in one.
* Files: two names in trees of depth two have siblings of the same name; the
  three open directories are one more than the depth. Two descriptors are given
  out again at once. Archives store a directory before its contents, nested, and
  after. Packets of three streams are mixed, with two decode calls a packet and
  two samples a call, so that reads end inside a call, inside a packet and
  between. Every song of one track with up to two events, each kind following each;
  songs of two tracks and four longer ones, chosen so that bytes read astray look
  like events, like numbers without end and like identifiers to repeat. A third
  attempt (`MaxAttempts`) is one too many for a lookup.

The named bounds are `MaxStarts`, `MaxStops` (TaskQueue), `MaxStarts` (Thread),
`MaxUnits`, `LastStart`, `MaxClock` (TimedWait), `MaxLen` (ListGuard), `Capacity`,
`MaxRequest` (CacheStream), `MaxCharacters`, `MaxSteps` (Strings), `MaxItems`,
`MaxOps` (Objects), `MaxLength`, `MaxCalls` (Streams), `MaxRecords` (Serializer),
`MaxValueCalls` (Value),
`MaxDepth`, `MaxNodes`, `MaxOpenDirs` (Filesystem), `MaxFds`, `MaxSize`
(FileStreams), `MaxZipFiles`, `MaxAttempts` (ZipFilesystem), `MaxCount`, `MaxPosition` (Media) and
`MaxTracks`, `Numbers` and `Sizes` (MidiReader; ReadInteger counts the last three
groups of a number, four and a half in the code, which only readers astray meet).

Deadlock is checked in `lock_safety`. Elsewhere the system really may stop: the
queue is gone, the program of the test is over, the object was released, the
client stopped after an exception, or a bound on the calls is reached.

### Fairness

A thread inside a library call keeps running (weak fairness of its steps).
Acquiring a mutex that is free again and again is strongly fair: pthreads
implementations wake waiters of a mutex, and without it no lock can promise
anything. Nothing makes a client call, a sleeper wake or a timeout happen.
Main() of a task terminates; Main() of a Thread need only end once it has been
cancelled. `LockReturns` states its own premises: the condition settles, and the
mutex is released again and again.
In `TimedWait` the clock goes on to tick (up to `MaxClock`) and a thread whose
step is possible takes it; nobody need signal a semaphore, and nothing need
interrupt a wait.
In `ConditionLockHandoff` the one second of Lock(3, 1 s) passes only when the
other threads have nothing left to do.

## 4. Proofs

TLAPS proves the following for any number of threads, tasks, clients, workers,
starts and stops, list items, objects, strings, streams and archives, bytes and buffer sizes. The
assumptions on the constants are the named ASSUMEs of the modules, which keep the
identities of tasks, workers and markers apart and give numbers their types; the
ones that say more are given below (ZipFilesystem, Strings, Streams, MidiReader).

**ConditionLock** (`Waits_proofs`): `TypeOK`, `MutualExclusion`,
`OwnerKnowsCondition`, `NoLostWakeup`. The inductive invariant `IInv` adds two
facts to the four. `WaiterTested`: between a failed test and the sleep the
condition does not come true, because the tester has the mutex and so has a
sound notifier. `NotifierBroadcasts`: the owner whose wake call is still to come
wakes everybody. Without the first, going to sleep could lose a wakeup; without
the second, the wake call that `NoLostWakeup` counts on could be spent on
another thread. The lemma `HarmlessMove` covers the many steps that only move
one thread to a place where it owes nothing.

**TaskQueue** (`TaskQueue_proofs`): `TypeOK`, `EachTaskOnce`, `WaitMeansDone`,
`WorkersNeverSleep`, `NoBusyLoop`, `JoinedMeansFinished`. `IInv` adds `LockOwned`
(who is in the critical section), `TaskCarried` (what a worker holds and what an
unlocked task mutex tells), `StartOrder` (before the first write of the
condition there are no workers, after it the condition is never Waiting),
`EmptyMeansCancel` (with one Start, an empty queue is Cancel, or about to be) and
`StopProgress` (the workers Stop has passed have exited, and every task it found
is done, with a worker, or queued with a live worker left). The last one carries
`JoinedMeansFinished`: a worker leaves only when it sees the queue empty under
the lock, so the last one to leave leaves nothing behind.

**Refinement** (`TaskQueue_proofs`): `Spec => ImplementsPool`. Push maps to
Push, the pop to Take, the end of Main() to Finish, all else to stuttering. The
free slot needed by Take comes from a cardinality argument: the popping worker
runs nothing, so the running tasks are fewer than the workers.

**Thread** (`Thread_proofs`): `TypeOK`, `NoFault`, `WaitedIsOver`,
`RunningIsNamed`, `CopiesLiveObject` and the action property
`PollerThrowsOnlyInRace`. `IInv` rests on who may drop the handle: only the
owner's join and the destructor. So a Start() that finds NULL has nothing running
before it (`EarlierAreOver`), what the owner saw before pthread_join or
pthread_cancel still holds (`OwnerPlace`), and a poller, let through by a status
lock that says Stopped, never reaches the join (`PollerPlace`). `CountExact` says
what the reference count counts, `HandleTells` and `StatusTells` tie handle and
status lock to the pthread.

The type invariants of these three modules and `WorkersNeverSleep`, `NoBusyLoop`
and `PollerThrowsOnlyInRace` are proved and in no run: the theorems say more.

**ListGuard and Event** (`Event_proofs`): `RegistryExact`, `VisitsSnapshot`,
`CurrentSurvives`, for the Spec of Event, whose handlers iterate over the list
while other code adds and removes. The registry needs that an iterator keeps its
place in the map for as long as it is used. `VisitsSnapshot` needs that
what an iterator has still to visit is, in order, what is left of the list it was
told of, whichever lists replaced it in between; removal in the middle is the hard
case, and rests on what `Without` leaves of a sequence. That is an induction over
the length: the theorem `NatSetInduction` states it for a SET of naturals, which
needs no operator as parameter.

**TimedWait** (`Waits_proofs`): `TimedTakesOne`, `GivesUpWhenDue`. `TimedInv`
adds what has been taken so far at each place of the loop, that the deadline a
caller compares the clock with is the one its timespans give and is well formed unless
something was subtracted (`DeadlineIsDue`), and which of the two loops the build has.
A wait that a signal interrupts has taken nothing; when it was due is not claimed of it,
nor of a deadline that a subtraction left with negative nanoseconds.

**Filesystem** (`Files_proofs`): `DeleteIsExact`, for any names, tree, order of the
entries and depth of the recursion. `FsInv` adds `Whole`: every file and directory
lies in a directory of the tree, up to the root, so that a directory without
entries has nothing below it (`Ancestor`). The recursion is shown `Careful` level by
level: a call only takes directories away and keeps the tree whole (`Lessens`), and
in a call for a path in T, from a current directory in T, all that goes is in T
(`Spares`), because the names of subdirectories are looked up there.

**FileStreams and ZipFilesystem** (`Files_proofs`): `OwnsItsDescriptor` from
`FamilyIsDescription` (streams that share a descriptor were duplicated from each
other, all others have their own; that a free descriptor exists is a cardinality
argument, `IdIsFree`); `HandleTracksFile` from `ClosedIsNone`; `ListsWhatIsBelow`
from what a directory has given so far; `NameLeadsBack` from `CutAndJoin`, that
what a cut takes off a name joins to it again, up to the separator at its end, which
Path::Combine cuts off and OpenDirectory puts back. The assumption: two entries
of one archive have two names, as zip_name_locate needs.

**CacheStream** (`Files_proofs`): `ReadsTheStream` and
`WritesReachTheStream`, both under `SeekRule # "any"`, the hypothesis that a caller
does not seek inside the cached range; the run `cache_seek` shows that without it
they are false. `CacheInv` says, until a call fails: the cache lies inside its
buffer (`InRange`), the stream under it stands where the next FillCache or Flush
believes it to be (`Synced`), the cached bytes that are not dirty are the stream's
(`CacheIsCopy`), and at each recursion level of Read and Write the bytes moved so
far are the beginning of what the call should move (`Underway`, `Reaches`). The
lemmas on `Overwrite` and `BytesAt` (a piece of a piece, two writes in a row) do
the arithmetic once, and Flush, FillCache and a copy out of the cache are each
shown to keep a sound cache sound.

**Objects** (`Values_proofs`): `CountsLiveObjects` and `CountsOwners`, for any
finite number of threads and of AutoPointers in each, any objects and arrays of
any length. Neither is inductive: in the middle of an operation the count is not
the number of owners, and what keeps an object alive then is the order of the
calls still to come. `ObjectsInv` says of a thread and an object (`ThreadsSafe`):
the references it has in its slots, plus the releases and minus the retains it has
still to make, are never negative from any pending call on, and at least one where
that call is on the object, unless it was stored over itself. That number is the
thread's `Share` of the count, and of an object that was not raced for (`Exact`)
the count is the sum of the shares, a deleted object has none, and a count that was
read is still the current one and read by one thread. So a thread about to count
an object has a share in it, and it is not deleted. A sum over the threads is the
cardinality of a set of pairs, `Pairs`: one call changes it by one pair
(`PairsPlus`). Each operation is shown to settle
(`Settles`): the slots it writes and the calls it queues leave the share as it was,
in a safe order. This is where retaining before releasing matters (`Swap`), and
where SetItem and SetValue need their exemption.

**Strings** (`Values_proofs`): `HoldsItsText` and `PathSplits`, for any finite number
of Strings and any code points up to the last of Unicode but zero, which the assumption
asks for: a zero character ends a String. `Spelling` says of bytes,
characters and the offsets of the characters that they belong together: every
character starts at a byte that is not zero, takes the bytes which that byte announces
and decodes to itself, and a zero comes after the last. `Reads` adds that this zero is
the terminator; it need not be the first zero of the buffer, which is why operations
built on strlen need `Whole`. What is written of a character decodes to it, by
arithmetic on its digits of base 64 (`EncodeIs`); joining, parting, moving and cutting
spelled bytes does the same to their characters (`AtJoin`, `AtParts`, `AtMoved`,
`TruncateReads`, `ReplaceReads`, `SubstringReads`). `StringsInv` says that every buffer in
use can be read (otherwise a walk over it would leave it), that of a String which was not
spoiled it reads as `text`, and that a cached length which is not stale is the length of
`text`. A new buffer is free because the Strings are fewer than the buffers
(`FreshGives`), and a cut through a copy marks whoever shares the buffer (`CutGives`).
`PathSplits` follows for the bytes of any whole String, spoiled or not.

**Streams** (`Streams_proofs`): `AccessInBounds`, `KeepsToItsWindow` and
`IntegerReadsBack`, for any number of Substreams, nested contents and calls.
`StreamsInv` says, until an access faults: no position, offset or length is larger
than `Reach` of the calls made, which grows by one `Stride` a call, so that with
`WordAssumption` (`(MaxCalls + 3) * (2 * MaxLength + BlockSize + 2) < Word`: no
stream gets as long as an unsigned long can count) no sum wraps and every handle
that has not strayed computes with true numbers; the memory backs the length
(rounded up to blocks); and every integer that was written and not overwritten is
still in the memory, in the byte order it was written with (`Held`). `IntegerReadsBack`
has the hypothesis that the build has the compiler's swaps or the program no integers of
64 bits; without it, it is false (section 5). Each call of
the reader, writer and navigator is a sequence of Reads and Writes of one stream, and
each of these is shown to change only bytes of its own window.

**Media** (`Media_proofs`): `EachPacketOnce` and `SamplesInOrder`, for any file, number
of chunks and samples. `Arrives` says of every stream: its queue rises and is behind
the position in the file, the packets that came are in order and before those queued
(`Came`), and of an open stream, all since it was opened are among the two (`Kept`).
`MediaInv` adds that the allocated packets are those in the queue and the one the
video decoder works on. ReadPacket keeps `Arrives`; each round of the two Read loops is
one ReadPacket and a decoding, so the loops keep it for any number of rounds (`LoopRuns`,
`LoopKeeps`). For the samples, a round keeps `Sounds`: what was given and what is in
the cache are the samples of the packets so far; the cache is empty whenever a
packet is decoded (`Served`), which is why the order survives.

**MidiReader** (`Media_proofs`): `PlaysTheTrack`, for any songs whose tracks fit in 16
bits of size and whose numbers fit in two groups of seven bits (`MidiAssumption`). The
file and each track grow by pieces, and a piece stays where it was put (`Grows`,
`GrowingHas`); so the reader finds every track behind the one before it (`TrackStands`)
and every event behind the one before it (`EventStands`). Reading at an event gives that
event, its end and the identifier to repeat after it (`MetaReads`, `ChannelReads`): an
event written without its identifier has a first parameter below 128, which is how it is
told. `MidiInv` says that the reader knows where its track is, that it has read the
first k events of it and, unless it strayed, that it stands behind them with the
identifier the writer had there, so that it does not hang. NextTrack and each round of SeekTrack establish it
anew, whatever the reader strayed to before.

Model-checked only: liveness under fairness, which this prover does not do, and
`GetsWhatWasSet` of `Value` and `ReadsBack` of `Serializer`. The Serializer is a RECURSIVE operator over nested objects:
what it computes is an induction over data that the provers cannot instantiate.

## 5. Findings

The five violation runs show the code to disagree with a test of the repository: the missed Broadcast of the ConditionLock test, Stop(true)
returning before the last tasks are done, CacheStream reading wrong bytes after
SetPosition, CacheStream::Read not returning at the end of the stream, and
Stat and Exists of a ZipFilesystem calling themselves for ever below a current directory
(`zipfilesystem.cpp:225`). `PROJECT.json` quotes the lines.

Another one has no run of its own. The 64-bit swap that `endian.h:50` falls back on is not
the one of `:45`: an integer of 64 bits does not read back in the byte order the machine
has not. `Values.cfg` with `CompilerSwaps = FALSE` violates `IntegerReadsBack`.

## 6. Not modelled, and the plan

Left out for good:

* **Imaging and fonts, hashes, random numbers, floating point in a Value, number
  formatting, calendars**: arithmetic on values, sequential and without state
  between calls; TLC could only repeat the arithmetic.
* **Java bridge**: what a call does is decided by the virtual machine.
* **Other collections** (Deque, Queue, Stack, Dictionary, iteration interfaces):
  thin wrappers of the standard containers.
* **C89Filesystem**: an abstract class nothing instantiates. **Console**: output.
* **Delegate** storage and calls: templates over function pointers.
* **Monitor**: a Mutex around each call of an object. **Named semaphores**.
* **The sample program**: no logic of its own.

Left open inside modelled components (`PROJECT.json` has them by component):
copies of ListGuard iterators, CacheStream::SetLength, a task whose Main()
throws, the destructor of a queue whose workers have not begun
(`taskqueue.cpp:32`), NullStream and CopyTo, decoders that cannot be constructed.

Smaller hazards met while modelling, in the models where a module is named:

* a Thread found Stopped is neither joined nor detached (`thread.cpp:132`);
* TryWait of a finished task fails while another waiter holds the mutex
  (`task.cpp:19`, TaskQueue);
* workers leave as soon as the queue is empty, and tasks pushed later wait for
  the next Start (`taskqueue.cpp:98`, TaskQueue);
* the object keeps a locked status lock when pthread_create fails
  (`thread.cpp:99`, Thread);
* Semaphore::Wait(timespan) gives up at once (`semaphore.h:21`, TimedWait);
* references in a destroyed thread storage are kept (`threadlocalstorage.cpp:36`,
  Objects);
* an iterator told of a change before it was moved (`listguard.h:76`, ListGuard),
  copies of iterators (`listguard.h:109`);
* += keeps the cached length (`string.cpp:244`, Strings);
* ReadByte does not look at the length (`memorystream.cpp:90`), and Pad writes
  bytes that were never set (`streamwriter.cpp:48`, Streams);
* a CacheStream drops dirty bytes when destroyed (`cachestream.cpp:15`) and
  repeats them after a short write (`:35`);
* a replaced serializer's identifier is in earlier records (`serializer.cpp:139`,
  Serializer);
* packets of streams that are not open are never freed (`ffmpegdecoder.cpp:143`,
  Media), a seek may queue a packet from before it (`:189`, Media), the destructor
  iterates over what CloseStream removes from (`:88`), and a frame that does not
  decode is tried for ever (`ffmpegvideodecoder.cpp:125`, Media);
* a signal that interrupts sem_wait makes Wait() return without a unit (`semaphore.cpp:40`),
  one that interrupts sem_timedwait makes it false too early (`:58`, TimedWait);
* ReadDirectory of an archive gives names from its root, Stat from the current directory
  (`zipfilesystem.cpp:294`);
* a number that the end of a MIDI file cuts off is read for ever (`midireader.cpp:17`,
  MidiReader);
* a Byte counts as eight octets (`value.cpp:14`, Value);
* Hash takes every piece for a full buffer (`hash.cpp:20`).
