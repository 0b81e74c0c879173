# pexync: a verification project

pexync keeps a destination directory in step with a source directory, on one
machine or between a client and a server, by sending the difference between
files only. This directory holds TLA+ models of its core, what TLC checks of
them on small instances, and what TLAPS proves of them for every instance.

Paths and line numbers are those of the repository: `workers/writers.go:168` is
`src/workers/writers.go`, line 168. `PROJECT.json` maps every definition that
models code to the lines it models.

## 1. The system

    sender:    parse dir -> list -> (answer) -> spawn readers -> requests -> FIN
                                                      |
                            roll readers   bytes readers    (errgroup)
                                      \        /
                     local: channel remote      http: 2*ccIo dataSenders, POST
                                      \        /
    receiver:  compare, checksums  ->  loop / handlers  ->  map of FileWriters
                                                              -> temp files
                                                              -> destination

A synchronisation has four parts. The sender lists its directory and sends the
list. The receiver compares it with its own, adds the sums of the blocks of
files that differ, and answers. The sender spawns readers and gives each a
request for a file, or for a section of one; a reader turns its request into a
stream of numbered data messages. The receiver gives every message to the
writer of its file, which orders the messages of each stream in a temporary
file and, once all streams have ended, joins them to the destination.

### Components

| component | state | operations | talks to |
| --- | --- | --- | --- |
| `FileWriter` (workers/writers.go) | temporary files by offset, expected number and cache of each stream, count of open streams, the destination and its `.ref` | open, receive, write frames, drain the cache, rebuild, remove `.ref`, close | its inbox (a channel); `closeFunc` changes the receiver's map |
| http data path (workers/receiver.go 412-500, workers/helpers.go 130-242, workers/sender.go 320-410) | map of writers under a mutex; one message in hand for each dataSender | post, look up, make, put, answer, time out, stop | POST /data; the writers |
| rolling reader (workers/readers.go 45-302, core/block_hash.go, lfs `DataDesc`) | map of sums, window, read-ahead, descriptor with two buffers | fill, match, no match, send, finish | section reader; `sendWithTimeout` to the receiver |
| bytes reader (workers/readers.go 304-402) | offset, number | read a block, send | as above |
| sender (workers/sender.go) | lists of files, two channels of requests, errgroup | send list, spawn, hand out sections, stop the readers, FIN | readers, receiver, dataSenders |
| local receiver (workers/receiver.go 502-640) | list, map of writers, FIN seen | INI, WSQ, FIN, end of the loop | channels from and to the sender |
| comparison (workers/receiver.go 44-262) | both lists, state of each file | compare, fixMeta, add checksums and hashes, answer | hash readers |
| hash readers (workers/readers.go 404-457) | unbuffered channel of requests and FINs | sums and SHA-1 of a file, stop | comparison |
| rolling hash (core/rolling_hash.go) | two uint32 sums, ring of the window | Write, Roll, Reset, GetWindow, Sum32 | rolling reader |
| monitor (workers/monitor.go, workers/receiver.go 310-401) | locks of names, descriptors of known files, last index; the list of the server | evaluate an event, add to the list, ADD, UPD | watcher, POST /meta |
| fsnotify (fsnotify/inotify.go) | kernel queue, maps from paths to watch descriptors and back | Add, read, look up, filter, offer | kernel, monitor |
| directory listing, commands, test programs | - | walk, flags, start | - |

### What is hard about it

* Messages of one file come from several readers over several dataSenders and
  several handlers: any order across streams, and, with concurrent requests,
  any order within one.
* One map of writers is shared by handlers that look up and enter in separate
  critical sections, and by the writers' own `closeFunc`.
* A file is replaced in several file operations, any of which may fail.
* Five kinds of bounded channels (requests, messages, dataSenders, inboxes, and
  the hash readers) with goroutines stopped by FINs that travel in the same
  channels as the work.
* Timeouts at every send and every answer, against work that goes on.
* Boundaries in the delta algorithm: the last block, the end of the section in
  the window or the read-ahead, the division into sections.
* Arithmetic in unsigned words that must wrap without showing.
* Events that arrive after what they tell of is gone, or is there again as
  another file; a queue that overflows; a watch that belongs to an inode, in maps
  that go by paths.

`PROJECT.json` lists each as a hazard at the line where it bites, with the
properties that watch it, or the reason why none does.

## 2. The modules

| module | models | extends |
| --- | --- | --- |
| `AtomicFile` | the abstract specification of a destination file: the best complete version on the disk changes once, from what it was to the new one | - |
| `FileWriter` | `FileWriter.Start` and `writeToFile`, any number of writers at one file | - |
| `HttpReceiver` | dataSenders, requests, handlers, the map of writers | `FileWriter` |
| `DataDesc` | frames of a data message | - |
| `RollReader` | block sums, sections, `rollV3`, the bytes reader, and what `writeToFile` makes of the frames | `DataDesc` |
| `RollingSum` | the abstract rolling sum: a window that grows, moves on or is cleared, and its checksum | - |
| `Radler32` | the rolling hash with its ring and its arithmetic in words, and the mapping to `RollingSum` | - |
| `SyncRun` | a whole run: sender, reader pools, channels, dataSenders, receiving loop, hash readers, writers as counters of messages | - |
| `Session` | repeated local synchronisations of one file, with edits and interruptions: comparison, answer, effect of the transfer | - |
| `Watcher` | the kernel queue, a user, `Watcher.Add` and `readEvents` of fsnotify | - |
| `Monitor` | `StartMon`, `evalEvent`, ADD and UPD at the server | `Watcher` |
| `FileWriterProofs`, `InstallProofs` | theorems about `FileWriter`; that it implements `AtomicFile` | `FileWriter`, TLAPS |
| `HttpReceiverProofs` | that `HttpReceiver` implements `FileWriter`, and its own invariants | `HttpReceiver`, `FileWriterProofs` |
| `RollReaderProofs` | theorems about `RollReader`, with lemmas on frames, descriptors and flattened sequences | `RollReader`, TLAPS |
| `SyncRunProofs`, `SessionProofs`, `Radler32Proofs`, `MonitorProofs` | theorems about these modules; `Radler32Proofs` has the refinement of `RollingSum` | the module, TLAPS |
| `MCFileWriter`, `MCHttpReceiver`, `MCSession`, `MCRadler32`, `MCMonitor` | values for the constants | |

Several composition steps tie them together. `HttpReceiver` extends `FileWriter`:
its handlers call the actions `Route` and `Put`, its writers take
`WriterStep`, and `HttpSpec` implements `FileWriter`'s `Spec` (checked by
`http_race`, proved as `HttpImplementsWriters`), so that what is proved of the
latter holds of the former. `FileWriter` in turn implements `AtomicFile` under
the mapping `best` (checked by `fw_race`, proved as `InstallIsAtomic`).
`Radler32` implements `RollingSum` with the ring put in order as its content and
`Sum32` as its sum (checked by `radler`, proved as `RollsAsSum`); this is what
`RollReader` takes the hash to be. `Monitor` extends `Watcher` and takes its events. `SyncRun`
is the same system seen from above: a writer is what it has been given and has
written, and a stream is its numbers; `RollReader` is one stream seen from
inside (`MessagesInOrder` there is what `SyncRun` and `FileWriter` assume of a
stream), and `FileWriter` one writer.

### FileWriter

A message is its stream (the offset of the section) and its number; the last one
of a stream carries the End frame. `srcFd.refs` is the set of messages that hold
index frames. `own[w]` are the messages the receiver has taken for writer `w`,
`held[w]` those of them it is still sending to the inbox. A temporary file is
the sequence of numbers written to it, the destination a sequence of such
pieces, so that "complete" and "in order" are statements about numbers.

| action | code |
| --- | --- |
| `Route`, `Put` | `processData` / the local loop: choose the writer, send to its inbox (receiver.go:430-455, 590-615) |
| `Open` | rename to `.ref`, open it (writers.go:64-85) |
| `CacheMsg` | out of sequence (writers.go:178-184) |
| `ReceiveData`, `ReceiveEnd` | in sequence: write; on End close the file and count down (writers.go:117-151) |
| `DrainData`, `DrainEnd`, `DrainDone` | the loop over the cache (writers.go:152-177) |
| `WriteFailure` | `writeToFile` or `newTempFile` returns an error (writers.go:107-172, 281-342) |
| `CtxDone` | the context is done: leave the loop and rebuild all the same (writers.go:90) |
| `RebuildRename`, `RebuildCreate`, `Merge`, `MergeDone` | one temporary file is renamed, several are appended to a new file in ascending offset (writers.go:201-263) |
| `RebuildPanic` | one temporary file whose offset is not 0: `fileMap[0]` is nil (writers.go:203) |
| `Unref`, `Close` | remove `.ref`, `closeFunc` (writers.go:265-278) |
| `IoFailure` | any of the file operations in between fails |

`EndStream` keeps an oddity of the code: the End frame met in the cache while
other streams are open neither removes the message nor advances the number
(`continue` at writers.go:168), which is what `fw_cached_end` is about.

### HttpReceiver

`Post`, `Answer`, `Timeout`, `Fin` are a dataSender; `Arrive`, `Found`,
`NotFound`, `Make`, `HandlerPut` are `processData`, one step for each critical
section of the map's mutex and for the blocking send to the inbox; `Lose` is a
request that never arrives. `Write` is a writer's step, with `closeFunc`
deleting the entry in the last one. Messages of a stream are posted in order,
because a reader sends them one after the other over an unbuffered channel, but
two dataSenders may have two of them on the way at once.

### DataDesc and RollReader

The bytes are real here: `src` and `dst` are all files over a small alphabet up
to a bound. The state is that of `rollV3`: what the section reader still has
(`rest`), the window of the rolling hash, the bytes read ahead (`buf`), and the
descriptor with its mode and two buffers. `Buffer` in `AddChecksums` keeps the
end of the previous block behind a short last one, as the code's reused slice
does. `Adler32` is computed; that `Roll` computes the same is shown in
`Radler32`. A file without a version at the destination is read by the bytes
reader instead (`ReadBlock`, `ReadEnd`; readers.go:357-396): a message for each
block, the last one as long as it is, and one with the End frame alone. The
binary header of a frame is left out.

What the writer makes of a stream is a definition and no action (`writeToFile`;
writers.go:281-342): it has the frames before the first End frame (`Heard`), each
stands for its bytes or for the blocks its indexes name (`Content`), and a block
that is shorter than the others is an error (`Copyable`). The descriptor writes
single bytes and indexes as the reader rolls (`WriteByte`, `WriteIndex`), and what
is left at the end at once (`WriteBytes`).

### RollingSum and Radler32

`window` and `oldest` are the ring, `a`, `b` and `n` the fields of the struct.
The bytes that enter are the next ones of a section, as a rolling reader writes
and rolls them, so that the sum of any window is a difference of the running
sums of the section (`Sum1`, `Sum2`), and no recursion is needed to say what
`adler32.Checksum` returns. Every result of `+`, `-` and `*` in `Roll` is taken
modulo `Word`, the width of uint32; 65521 and 2^32 are the constants `Mod` and
`Word`, so that TLC can use a modulus of 5, which sums and lengths do exceed.
`ModAssumption` is what the real numbers fulfil: 65521 * 258 < 2^32.

### SyncRun

`spc` goes through `LocalSender.Start` or `HttpSender.Start`, `rpc` through
`LocalReceiver.Start`. A local run begins before the list is sent; a client run
after the lists have been exchanged, as a failure before that ends the program.
`diffList` and `missList` are any disjoint sets of files (the result of the
comparison). What may fail is chosen by `Faults`. The variable `hand` is the
message the receiving loop holds while it waits for room in an inbox: the loop
takes nothing else meanwhile, which is where a circle of waiting could close.

With the list (`LoopList`) the loop starts the hash readers and gives each file
that both sides have to one that is free (`HashRequest`: the channel has no
buffer), then as many FINs as there are hash readers (`HashFin`), waits for all
of them and answers (`Answer`). The files to digest are those that differ and
any others that were equal or too short to differ: `diffMap` has them all
(receiver.go:165). `unhashed` are those without sums.

### Session

One file over any number of runs of the local command. An entry of a directory
is its size, its data and its modification time; `list` is the source as the
session has listed it, `got` as the reader has opened it, while `src` may be
edited or removed at any moment. The content of a file is the first `size` bytes
of `data`, so that a file that has grown since it was listed arrives cut to the
listed size (the section reader's limit), and one edited while it is read may
arrive as some of each (`"mixed"`). Times are compared for equality only, as in
the code: a new time is one not in use, which keeps the state finite without a
bound on the number of sessions.

There is one action for each branch of `compare` (receiver.go:127-265), one for
the sender's answer with its digest (`parseRemoteList`), and then the steps of
the transfer at which the destination changes: `Open` (put aside), `Merge`
(several streams are joined in place), `Install`. `Interrupt` stands for a crash
or an error at any step, those of the other modules included, and for the user
who ends a run that does not end by itself. `doubtful` is a
history variable: the file has got the new time from `fixMeta`, and no session
has yet found or made its content to be the new one.

What `RollReader` and `FileWriter` check, that a transfer that ends has
reproduced the bytes that were read, is taken as given here.

### Watcher

The kernel is a queue of bounded length: an event goes into it if the directory
it happened in has a watch, once if it equals the last one, and as one overflow
event when the queue is full. A watch is one of an inode, and inodes are never
used again. The user makes, opens, writes, closes, moves, removes and touches
files, and makes and removes directories, in any order, at most `MaxOps` times.
A file that is open for writing is neither moved nor removed; directories are
not renamed.

| action | code |
| --- | --- |
| `Add` | `Watcher.Add` under the mutex: the new descriptor goes into an entry that is there, without the map back (inotify.go:89-121) |
| `ReadQueue` | `unix.Read` of all there is (inotify.go:184-235) |
| `Lookup` | the path of the descriptor, and `forget` with IN_DELETE_SELF (inotify.go:237-278) |
| `Offer` | `ignoreLinux`, with the file system as it is then, and the send on the unbuffered channel (inotify.go:280-290, 298-314) |

Two history variables serve the properties: `followed` are the files all of
whose changes, since they were made or listed, happened under a watch;
`restored` are the directories for which `Add` met an entry of another inode.

### Monitor

`pc` goes through `StartMon` and `evalEvent`, one step for each access to the
file system (`Scan`), to the watcher and to the server; the user and the reader of
events go on between any two. `fileLocks` are the names whose mutex is held.
`Keeps` is the oddity of the code that decides most here: after CloseWrite and
Rename `evalEvent` returns without `FileUnlock`, so that the next event of that
name blocks the only goroutine for ever (`Stuck`). `kept` records which names
those are. An event of a name that is not blocked is evaluated:

| action | code |
| --- | --- |
| `ScanCreated`, `AddToMonList`, `Announce` | Create: the next index, a watch if it is a directory, the list of known files, ADD (monitor.go:151-203, receiver.go:310-363) |
| `ScanClosed`, `Update` | CloseWrite: UPD if the size is not that of the known descriptor (monitor.go:207-252, receiver.go:364-401) |
| `Ignored` | Write, Remove, Chmod, Rename (monitor.go:336-367) |
| `AddFails`, `Unreachable`, `Stop` | an error: `StartMon` returns, the command ends |
| `Restart` | the server is started again, with an empty list |

The descriptor in `fileWatchMap` is never replaced, as `fd = efd`
(monitor.go:248) assigns a local variable. At the server, `stale` are indices
that an earlier client has left in `srcList`, which is never emptied.

## 3. What TLC checks

| run | module | states | shows |
| --- | --- | --- | --- |
| `fw_race` | MCFileWriter | 84 000 | two writers share the messages of a file in a stream of three and one of two, any order, any file operation may fail: `InOrder`, `InstalledWhole`, `OneInstaller`, and `AtomicInstall`, the refinement of `AtomicFile` |
| `fw_cancel` | MCFileWriter | 12 000 | one writer behind the inbox of local mode, a stream of three messages and one of one, with cancellation and failures, state Diff or Meta, arbitrary index frames: `TypeOK`, `InstalledWhole` |
| `http_race` | MCHttpReceiver | 43 000 | two dataSenders, two writers, timeouts and lost requests: `HttpTypeOK`, `AckedTaken`, `UnfinishedEntered`, `StoppedAcked`; the refinement `Spec`; `AckedInstalled` under fairness |
| `roll_delta` | RollReader | 85 000 | every source of 1 to 7 bytes, with every old file of 3 or 4 bytes or without one, over {0, 1}, block size 2, two sections above 6 bytes: `TypeOK`, `Conserved`, `Rebuildable`, `MessagesInOrder`, `NoKnownBlockSent`, `SectionsCover`, `Terminates` |
| `run_local` | SyncRun | 132 000 | two files, two readers in each pool and two hash readers; list, hash readers, readers, writers and sends may fail: `TypeOK`, `Conserved`, `ReceiverComplete`, `RunCompletes` |
| `run_http` | SyncRun | 135 000 | one file, differing in two sections or new, four dataSenders; readers, dataSenders, writers and sends may fail: `Conserved`, `Delivered`, `RunCompletes`. Only with a new file the client comes to its end (5, pools), so `Delivered` is about that case here |
| `sessions` | MCSession | 16 000 | any number of sessions with one file of 0 to 3 bytes, block size 2, two streams above 2: `TypeOK`, `SkipMatches`, `SessionSyncs`, `NothingResent` |
| `radler` | MCRadler32 | 168 000 | every section of six bytes of 0 to 3, modulus 5, halves of 3 bits: `TypeOK`, `WindowHoldsSection`, `SumOfWindow`, and `RollsOn`, the refinement of `RollingSum` |
| `monitor` | MCMonitor | 616 000 | a file, a directory and a file in it, a queue of three events and four operations of the user, up to two files of an earlier client, losses, one restart of the server: `TypeOK`, `InSyncWhenQuiet`, `RefusedForStale`, and `Served` under fairness |
| `watcher` | MCMonitor | 490 000 | a directory and a file in it, a queue of four and seven operations: `EventsNamed`, `InSyncWhenQuiet` |
| `fw_cached_end` | MCFileWriter | violation | `NoWriterFails` fails, see 5.1 |
| `monitor_panic` | MCMonitor | violation | `PanicsUnfollowed` fails, with a user who begins after the directory is watched, see 5.2 |

Every property has a mutant of a mapped definition, next to that definition in
its module, which makes TLC report that property.

Deadlock is not checked anywhere: every one of these systems really stops, when
the file is installed, the run has ended, a goroutine has failed, or the user
has done all that the bound lets him. That they
do not stop early is what the liveness properties say.

### Bounds, and why they are enough

* Two streams are the least with an order within and across streams. In `fw_race`
  and `fw_cancel` one has three messages, so that a message is cached and drained
  in the middle of it, and, in `fw_cancel`, an inbox of two fills up. In
  `http_race` one stream has one message and the other two: it is enough for an
  End frame out of order, for a second writer, and for a stream that has ended
  while the other is open.
* Two writers: a third handler that misses the entry behaves as the second one.
* `roll_delta`: blocks of two bytes, sources up to three and a half blocks, old
  files up to two: every alignment of a match, a miss and the end of the section
  in window and read-ahead. Sums of two bytes never collide; collisions need
  four (5, below).
* `sessions`: sizes of nothing, less than a block, a block, and more than both the
  block and the split size; at most four times are in use at once (source,
  destination, listed, opened), so of five one is always new. Times and data are
  interchangeable, which the symmetry uses.
* `SyncRun`: ccIo is two, so pools and `remote` have two places, there are four
  dataSenders, and the list of a run can fill a channel. With one message more
  per stream the runs are out of reach of a few minutes; the theorems of
  `SyncRunProofs` hold for any number.
* `radler`: windows of up to six bytes, so that length (modulo 5), bytes times
  length and both halves exceed the modulus, and the subtractions wrap.
* `monitor` and `watcher`: seven operations make, remove and make again a
  directory with a file in it while the reader is behind; four are enough to fill
  a queue of three, to make a file anew under the name of an old one, and to
  change a file that was listed. Two names are needed for an index of one to be
  refused because of another. A restart happens at most once: after it nothing
  distinguishes a second one.

### Fairness

Weak fairness only, per goroutine: the Go scheduler runs every goroutine that
can go on. `FileWriter` takes it for each writer and for the send to each inbox;
`HttpReceiver` for each dataSender, handler and writer; `RollReader` for the
reader, whose sends have a timeout; `SyncRun` for the sender, each reader,
dataSender, hash reader, writer and for the receiving loop; `Monitor` for the
goroutine of the monitor and the reader of events, not for the user. Nothing is
assumed of failures, timeouts, losses, cancellation or restarts.

### Premises that are part of the properties

* `AtomicInstall` is about state Diff. In state Meta there is no `.ref`, and with
  several streams `os.Create` truncates the only complete version
  (writers.go:209): a crash there loses it.
* `InstalledWhole` excludes a cancelled writer, which installs what it has.
* `Rebuildable` needs an old file of whole blocks, `Conserved` an index that can
  be copied: the note on short last blocks in section 5 is why.
* `RunCompletes` excludes a run in which something has failed (`Broken`): the
  notes on failed readers, hash readers, dataSenders and writers in section 5 are
  why. It has no premise on the lists. When a pool was spawned that nobody stops
  (`NeverStopped`: the rolling readers of a local run without a differing file,
  the readers of missing files of a client run without a missing one) the run
  cannot end (5, pools); `RunCompletes` then demands that all files are written, every
  other reader has returned, and the sender waits for that pool only
  (`WaitsForIdle`).
* `UnfinishedEntered` does not say that a writer that waits is in the map: another
  handler may have entered a second one over it (`Make`), and that one is found.
* `AckedInstalled` is about a file with one writer: the note on two writers in
  section 5 is why.
* `SkipMatches` and `SessionSyncs` except an emptied source and a file that is
  `doubtful`: the notes on empty sources, on `fixMeta` and on state Meta in
  section 5 are why.
* `InSyncWhenQuiet` is about files that were `followed`, and excepts those below a
  `restored` directory and a server that was started again: the notes on the
  monitor in section 5 are why. It says nothing while the monitor waits for a
  lock it kept, since then nothing is quiet; `Served` names that case.

## 4. What is proved

`FileWriterProofs` proves of `FileWriter`, for every set of writers, of streams
and their lengths, for every state, transport, failure and cancellation:

| theorem | statement |
| --- | --- |
| `TypeCorrect` | `Spec => []TypeOK`, with the bound of the inboxes |
| `WritersInOrder` | `Spec => []InOrder` |
| `WritersInstallWhole` | `Spec => []InstalledWhole` |
| `WritersExclude` | `Spec => []OneInstaller` |

The assumptions are the named ones of `FileWriter`: offsets are a finite set of
numbers with 0 (readers start at 0), stream lengths are numbers, the settings
have their values, a missing file has one stream (sender.go:168-175), and only a
single writer is considered when the context may be cancelled (two that were
both cancelled would write to one inode, which is not modelled).

The three properties are not inductive. `IInv` adds what they rest on:

* `Ownership`: no message is with two writers, and what a writer has in its
  inbox or cache it has been given.
* `Progress`: the temporary file of a stream holds exactly the numbers below the
  expected one (and the End frame, once closed), and all of them are the
  writer's own.
* `Counting`: the count of streams is the number of those not closed, and a
  writer past its loop, not cancelled, has closed them all.
* `Building`: what has been merged are ascending, complete pieces of the writer
  at work.

A writer that installs has closed every stream (`Counting`), so it has had every
message (`Progress`), so no other writer has had any (`Ownership`), so none is
at work (lemma `Sole`), so what is at the destination is all its own
(`Building`). There is one lemma for each part and step (`OwnershipStep`,
`ProgressStep`, `CountingStep`, and one for each step of the rebuild), with one
proof step for each action; `Inductive` puts them together.

`InstallProofs` proves the refinement of `AtomicFile`:

| theorem | statement |
| --- | --- |
| `InstallIsAtomic` | `~MayCancel`, `States \subseteq {"Diff", "Missing"}` imply `Spec => AtomicInstall` |

To `IInv` it adds that a destination that has been touched was built by a writer
that had every message (`BuiltByOne`, so nobody else moves it away), and that the
old file is under its name or aside until the new one is whole (`OldAside`);
a missing file is installed by one rename (`Renamed`).

`HttpReceiverProofs` proves of `HttpReceiver`, for any dataSenders, writers,
streams, losses and timeouts:

| theorem | statement |
| --- | --- |
| `HttpImplementsWriters` | `HttpSpec => Spec` |
| `HttpTyped` | `HttpSpec => []HttpTypeOK` |
| `AcknowledgedOnce` | `HttpSpec => []AckedTaken` |
| `StoppedIsAnswered` | `HttpSpec => []StoppedAcked` |
| `UnfinishedIsFound` | `HttpSpec => []UnfinishedEntered` |

Each step of a client or of a handler is a `Route`, a `Put`, a step of a writer,
or leaves the writers alone; with that refinement `IInv` of the writers holds
here, and the other theorems use it. `Takes` ties the stage of a request to the
writer that has its message, `Waits` says that a message not answered is with
the dataSender that waits for it, as long as none has given up. `EntryInv` says
that the entry is that of a writer with messages, and is gone only when a writer
has had all of them, since only one that is done deletes it (`DoneHadAll`); as no
message is with two writers, none is unfinished then (`EntryMeans`). That a writer
that waits can be overwritten by a second one (`Make`, receiver.go:483) is not
excluded: what the theorem says is that later messages find a writer that waits.

`SessionProofs` proves of `Session`, for any sizes, data, times and block size,
and so for any number of sessions, edits and interruptions:

| theorem | statement |
| --- | --- |
| `SessionType` | `Spec => []TypeOK` |
| `SkippedFilesMatch` | `Spec => []SkipMatches` |
| `SessionsRepair` | `Spec => []SessionSyncs` |
| `SentOnlyIfDifferent` | `Spec => []NothingResent` |

The assumptions (`SessionAssumption`) are that sizes are numbers, that the
default block is not empty, and that the content of an empty or of a mixed file
is not that of another. `IInv` adds:

* `Distinct`: versions of the source that are still known (now, listed, opened)
  and have the same time are the same version.
* `Trusted`: if the destination has size and time of the source as it is now, or
  of a list that is about to be compared, it has its content, or is doubtful.
  This is what makes comparing lists sound. An edit takes a new time, a merge or
  an install too; the two branches that copy the time of the list do it to a file
  of another size, or make it doubtful.
* `Stages`: what the session has found out by each phase: a file to send as
  missing is absent or no longer than a block, a different one has another size,
  one with its time set is there with that time; what was opened is what was
  listed if that is still the source.

There is one lemma for each action. `SessionSyncs` after an answer needs the
time: a file left alone has the content of the source as the sender reads it
then, which is the listed one if the source still is. TLC has found `IInv` to be
inductive on a small instance before (all its states with two data, sizes
0, 1, 3 and 4, taken as initial ones).

`SyncRunProofs` proves of `SyncRun`, for any files, readers, dataSenders, lengths
of streams and failures, in both modes:

| theorem | statement |
| --- | --- |
| `RunTyped` | `Spec => []TypeOK`, with the bounds of all channels and inboxes |
| `RunReceives` | `Spec => []ReceiverComplete` |
| `RunDelivers` | `Spec => []Delivered` |
| `RunConserves` | `Spec => []Conserved` |

The only assumption is `RunAssumption`: finite sets, at least one reader. None
of them is inductive, since that the end of a run finds everything written
rests on each hand-over before it. `RunInv` has a part for each:

* `PoolInv`, `FinInv`: in the channel to a pool the FINs come after all
  requests, and those in it, those not yet sent and the readers that have not
  stopped are as many as each other; so a pool that has stopped left no request.
* `PhaseInv`, `WireInv`: what is over by each phase of the sender; nothing
  follows the FIN in `remote`, and it is sent once.
* `HashInv`, `SumInv`: a file without sums is in the list, or with a hash reader
  that is busy or has failed, until the answer.
* `WriterInv`: a writer that is done has written every message.
* `StreamInv`: every message of a listed file is still to be read (its request is
  waiting, or with a reader that has not come to it or has failed), or it is
  there: in a channel, with a dataSender, in hand, in an inbox, or written.
* `BoundInv`: the bounds.

When the sender is done, no request waits and no reader has failed (`PhaseInv`,
`PoolInv`), so no message is to be read, and `StreamInv` leaves the receiver's
side only; when the loop has met the FIN and its writers have ended, nothing is
left but `written`. TLC has found each part to hold on the instances of both
runs first.

`RunInv` says that no message is lost, not that none is doubled. For `Conserved`
`CountInv` adds: each request is in one place, with the sender, in the channel of
its pool or with one reader of it (`RequestsInv`); each message is in one place of
`remote`, dataSenders, hand, inbox and written, and there once (`MessagesInv`);
what is on its way has been sent by its reader, and what was not sent is still to
be read (`SentInv`), so that the next number a reader sends is nowhere yet; and
before the readers are spawned there is nothing anywhere (`EarlyInv`). A send that
times out (readers.go) leaves the message with the reader that fails, and takes
it from nobody else.

`Radler32Proofs` proves of `Radler32`, for any modulus, width, sections and any
sequence of writes, rolls, resets and reads, under `ModAssumption` (of which the
real constants are an instance) and `SumAssumption` (which says what running
sums are):

| theorem | statement |
| --- | --- |
| `RadlerTyped` | `Spec => []TypeOK` |
| `RingHoldsSection` | `Spec => []WindowHoldsSection` |
| `RolledIsAnew` | `Spec => []SumOfWindow` |

| `RollsAsSum` | `Spec => RollsOn`, the refinement of `RollingSum` |

The first three together are inductive. The arithmetic is in lemmas of its own: no
sum of `Roll` falls below zero or exceeds the word where it matters, so that
wrapping does not show, and remainders of equal sums are equal; the ring is in
lemmas on sequences that are turned.

For the refinement each step is mapped: a write makes the content longer, a roll
moves it on by a byte, a reset or a reading of the window clears it. That the sum
is the checksum of the content needs more than the invariant, since `Checksum` is
a recursive function over any sequence of bytes, while the halves are differences
of running sums. `SumsAgree` shows by induction on the length of the content that
both are the same. The induction is one over a set of numbers, the lengths for
which it is so: a set of numbers that does not hold all of them has a least one
missing (`WFMin` of the library).

`MonitorProofs` proves of `Monitor`, for any tree, user, queue, server and
losses:

| theorem | statement |
| --- | --- |
| `MonitorTypes` | `Spec => []TypeOK` |
| `EventsAreNamed` | `Spec => []EventsNamed` |
| `ServerInSync` | `Spec => []InSyncWhenQuiet` |
| `RefusalsExplained` | `Spec => []RefusedForStale` |
| `StuckAfterKept` | `Spec => [](Stuck => cur.name \in kept)` |

`IndexInv` says that the server has no index but those counted so far and those
of an earlier client (`Counted`), that the one about to be announced is the last
(`Fresh`), and that the server has that of every known file unless it was
started again (`Known`).

The first three rest on `WatcherInv`, which is about the user, the kernel, the
reader of events and the channel together:

* `TreeInv`: an inode is that of one directory, and what exists is in a directory
  that exists.
* `QueueInv`: the queue and the batch hold what the kernel tells, within the
  bound.
* `WatchInv`: the two maps of the watcher lead to each other, but for directories
  that are `restored` (`MapInv`); of what is unread, nothing comes by the
  descriptor of a directory after its IN_DELETE_SELF, that directory is gone, and
  the descriptor of everything that is told is still in the map (`Kept`). So no
  event is looked up after its path was forgotten.
* `EventInv`: the kinds of events and indices.

`ServerInSync` adds two parts. `BookInv` is about client and server: no two names
have one index, and the client's descriptor has the server's size as long as the
name is not locked; it is what the stale descriptor of monitor.go:248 would break
if the lock were not kept as well. `SyncInv` is why nothing is missed: as long as
nothing was lost, of each followed file either the event of its making is on its
way (unread, on the channel, or at the monitor), or the server lists it, and then
it has its size, or the closing of it is on its way, or somebody is writing it
under a watch. A removal that makes the filter drop an event (inotify.go:309)
also ends the following of the file, and when it is made again a new Create is
put into the queue. `NameAssumption` (the name of the directory itself is none of
the names in it) is the only assumption on names besides `TreeAssumption`.

`RollReaderProofs` proves of `RollReader`, for any files over any byte values, any
block size, split size, and any choice of section:

| theorem | statement |
| --- | --- |
| `RollTypes` | `Spec => []TypeOK` |
| `InOrder` | `Spec => []MessagesInOrder` |
| `CanRebuild` | `Spec => []Rebuildable` |
| `SectionConserved` | `Spec => [](NoCollision => Conserved)` |
| `SectionsJoin` | `Spec => [](CcIo <= 2 => SectionsCover)` |
| `KnownBlocksFound` | `Spec => []NoKnownBlockSent` |

The assumption is `ReaderAssumption`: bytes are bytes, sizes and the number of
readers are not zero. Two of the statements have a premise that is the code's:

* `NoCollision`: no part of the source has the weak sum of a block of the old
  file that it differs from. The reader compares nothing else (readers.go:175);
  with a collision the wrong block is copied, and `Conserved` is false. `roll_delta`
  needs no such premise, since sums of two bytes do not collide. The blocks
  meant are the buffers that are summed, so a short last block, which is summed
  with the end of the block before it, is covered: its index cannot be copied, and
  `Conserved` claims nothing then.
* `CcIo <= 2`: with three readers or more the sections overlap (section 5).

`RollInv` is inductive:

* `TypesInv` (`FilesInv`, `BuffersInv`, `DescInv`): window, read-ahead and
  descriptor keep their bounds; the descriptor holds bytes in one mode and indexes
  in the other, never both, and each index is below the number of blocks, since it
  comes from the map of sums.
* `RunningInv`: before the end messages are numbered, without an End frame, and
  what the frames sent and those the descriptor holds stand for, followed by the
  window, the read-ahead and the rest, is the section.
* `EndedInv`: afterwards the last message is the frames before the End frame, the
  End frame, and what follows it, of which the writer reads nothing; what stands
  before it is the section.

The proof of `Conserved` is the one of a rebuild: a match replaces the window by an
index, whose block has the sum of the window (`KnownBlock`, from `HashMapIs`) and
so, without a collision, its bytes; a miss moves the first byte of the window to
the descriptor (`NoMatchMoves`); the refill at the end of the section moves bytes
between the three buffers (`MatchMoves`); a message takes the descriptor's frames
over (`MessageSent`). Below that are lemmas on what a descriptor holds after each
of its operations, also when it changes its mode (`BytesWritten`, `IndexWritten`),
and on `FlattenSeq`, which the community modules define by recursion:
`FlattenNext`, `FlattenConcat` and the rest are shown by the same induction on
numbers.

`KnownBlocksFound` says that the delta is a small one, which is another matter than
its being right, and needs an invariant of its own. `DeltaInv` reads what was sent
and what the descriptor holds item by item (`Things`, a byte or an index each),
across frames, messages and changes of mode, and puts the window behind it
(`Literal`). In the loop this sequence is `Quiet`: no block of bytes with a known
sum starts in it anywhere but at the last place, which is the window, not looked
up yet. A miss is what makes the window's own place quiet, and only then a byte
follows (`MissKeeps`); a match puts an index in its place, over which no block of
bytes reaches, and what follows is no longer than one block (`MatchKeeps`). At the
end what is left follows too: after a match it is a block at most (`MatchShort`),
and after a miss nothing was read ahead. No premise on collisions is needed.

Only model-checked: all liveness (`AckedInstalled`, `Terminates`, `RunCompletes`,
`Served`), since fairness is out of the prover's reach. Every safety property of
a passing run is a theorem, `Conserved` and `SectionsCover` of `RollReader` and the
others named above under their premises.

## 5. Where the code departs from what is said of it

With a run each, in `PROJECT.json` under "findings":

1. `fw_cached_end`: a cached message with an End frame, while another stream is
   open, is written again after its file was closed; the writer fails
   (writers.go:168).
2. `monitor_panic`: the source directory is watched; a name is made, closed and
   removed before its events are looked at, so that its Create is dropped
   (inotify.go:309); it is made again, and the CLOSE_WRITE of the first file
   passes the filter and arrives while the Create of the second is still in the
   queue: `panic("unknown unmonitored file")` (monitor.go:251) over a file whose
   making was watched.

Seen with these models or while writing them, without a run of their own:

* Two handlers may both miss the entry of a file and make two writers, neither
  of which finishes (receiver.go:430-455), where the map is called "mutex safe"
  (receiver.go:480). `SingleWriter` in `HttpReceiver` says that they do not.
* The pools that are spawned are not those that are stopped. `RunEnds` in
  `SyncRun` says that a run with something to send ends; it fails in both modes
  without any fault:
  * In client mode the readers of missing files are spawned whatever the lists
    (`syncOnce`, client.go:47, sender.go:129), and stopped only if `missList` is
    not empty (sender.go:186). A client run with a file that differs and none
    that is missing sends and writes everything, and then waits at `g.Wait`
    (sender.go:390) for ever, where it should "stop the readers if in sync once
    mode" (sender.go:386). This is what `run_http` does with its file in two
    sections.
  * In local mode the rolling readers are spawned in any case (sender.go:118) and
    stopped only if a file differs (sender.go:180). A local run with new files
    only writes them, never sends its FIN, and sender and receiver wait for ever.
  * A run with nothing to send does not end in either mode.
* A source file that has become empty is skipped over a destination longer than
  a block, which keeps its content (receiver.go:178-188), where Skip means "file
  exists and matches" (lfs.go:28). `SkipIsMatch` in `Session` says that it does.
* A file in state Meta whose digest differs is sent with index frames, but the
  writer opens the reference file for state Diff only, and fails (writers.go:68,
  sender.go:80; `WriteFails` in `FileWriter`).
* `fixMeta` gives the old content the new time before the transfer
  (receiver.go:195). If the transfer fails, as it does in the case above, or is
  interrupted, every later session skips the file with its old content: this is
  the exception `doubtful` of `SkipMatches`.
* The short last block of the old file is summed with stale bytes
  (block_hash.go:50-61); a window with that sum is sent as an index that cannot
  be copied (writers.go:327). It is why `Rebuildable` has its premise.
* A source file of one block or less, over a longer destination, is refused by
  the rolling reader (readers.go:127-136); the action `FillFails` is that.
* Blocks are known by their 32-bit sum alone (readers.go:175), where README.md:10
  promises a digest too; with blocks of four bytes or more two can share one.
* With `io_concurrency` of three or more the inner sections of a big file run
  into the next: the end of the section is passed as its length
  (sender.go:155, readers.go:115). `SectionsCover` holds for two.
* A dataSender that has failed takes no FIN, and the client waits to stop it
  (sender.go:395-398).
* When all readers of a pool have failed, the sender blocks on their channel
  (sender.go:160, 183); when it does return its error, it sends no FIN, and the
  local receiver polls for ever (receiver.go:545).
* A hash reader that has failed takes no FIN, and as many FINs are sent as there
  were hash readers: the last one blocks for ever, and the error that
  `hashReaders.Wait` would return (receiver.go:85-88) is never seen.
* A writer that has failed stays alive in the map (writers.go:366), and the loop
  polls for ever too (receiver.go:534).
* A file of up to a block is sent in every session, since its time is never set
  (receiver.go:173); `NothingResent` is about longer ones.
* A missing file in a subdirectory cannot be written: the writer uses the name
  and not the path (writers.go:65), and a temporary name with a separator is
  refused (writers.go:346).
* The monitor keeps the lock of a name after CloseWrite and Rename
  (monitor.go:254, 363); with the next event of that name the only goroutine
  waits for itself. This hides the stale descriptor of monitor.go:248: a second
  CloseWrite of a file is never evaluated (with the mutant `KeepsNone`, which
  gives the lock up, `InSyncWhenQuiet` fails).
* The monitor announces names and sizes, and sends no content: the requests to
  the readers are commented out (monitor.go:256-331). A new file is not made at
  the server either, a directory is (receiver.go:335).
* "add remaining directories" (monitor.go:81) adds the files only: changes below
  a directory that was there at the start are not seen.
* `AddToMonList` returns with the mutex held when the directory cannot be watched
  (monitor.go:128); that error ends the command.
* A directory that is removed and made again, and whose Create is evaluated
  before the removal was read, is watched by an entry without a way back: its
  events have no path (inotify.go:115-117), where inotify.go:255 would "always"
  fill the name "with a valid filename". `EventsNamed` excepts this (`restored`).
* A server that was started again has no descriptor for an UPD and dereferences
  nil (receiver.go:379); a monitor that is started again with fewer files is
  refused for what the last one left ("file id collision", receiver.go:321).

## 6. What is not modelled

* Writers that an interrupted client leaves at the server, which would take the
  messages of the next one; two clients at one server at a time.
* `Watcher.Remove` and `Watcher.Close`, which nothing calls, and the poller
  (fsnotify/inotify_poller.go), whose pipe only serves `Close`. Renamed
  directories, files removed while they are open, and inode numbers used again.
* The initial synchronisation of the monitor is that of `SyncRun`; what its
  dataSenders do afterwards is nothing, since no data is sent.
* Directories in `compare`; two cancelled writers at one file; file modes and
  owners; the growth of the block size with files beyond 490000 bytes and its
  configured value (`DefaultSize` is a constant); gzip; JSON; the binary header;
  the command line, configuration and logging; `ParseDir`, which only walks a
  directory.
* `test/` and `cmd/test.go` are experiments that no command uses.

## 7. What is left to do

`ServerSessions`: several clients after each other at one server that never resets
its writers; a writer installs one version.

Runs stay few: a module's questions are put to one instance where one instance
can answer them, and a disagreement that a property's premise names has none.

## 8. Running it

    tlc -workers 2 -config fw_race.cfg MCFileWriter
    tlc -workers 2 -config monitor.cfg MCMonitor
    tlapm FileWriterProofs.tla

`PROJECT.json` names the module of each configuration. `SyncRunProofs`, `MonitorProofs`
and `RollReaderProofs` take the prover some minutes each, the other proofs less.
