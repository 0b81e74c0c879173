------------------------------- MODULE Watcher -------------------------------
(***************************************************************************)
(* The watcher of fsnotify/inotify.go: the queue of the kernel, the        *)
(* goroutine that reads it and offers events on an unbuffered channel, and *)
(* the two maps it shares with Add.  Files are made, written, moved and    *)
(* removed by a user at any time; a watch belongs to the inode of a        *)
(* directory, not to its path.  Directories are not renamed, Remove and    *)
(* Close are never called.                                                 *)
(***************************************************************************)
EXTENDS Integers, Sequences, SequencesExt, FiniteSets

CONSTANTS
  Files, Dirs, \* names below the source directory
  Top,         \* the source directory
  Parent,      \* the directory of each file and directory
  MaxSize,     \* bound on the size of files
  QueueMax,    \* fs.inotify.max_queued_events
  MaxOps       \* bound on the number of operations of the user

Paths == Files \cup Dirs
Folders == Dirs \cup {Top}

ASSUME TreeAssumption ==
  /\ IsFiniteSet(Paths)
  /\ Files \cap Folders = {} /\ Top \notin Dirs
  /\ Parent \in [Paths -> Folders]
  /\ MaxSize \in Nat /\ QueueMax \in Nat \ {0} /\ MaxOps \in Nat

Absent == -1

\* The name of an event whose directory the reader does not know: the name of
\* the file in the root of the file system, or none.
NoPath == "/"

\* In the place of a leaf: the event is about the directory itself.
Self == "self"

\* Neither is the name of a file below the source directory.
ASSUME NameAssumption == {NoPath, Self} \cap (Paths \cup Folders) = {}

VARIABLES
  size,     \* of files, or Absent
  inode,    \* of directories, 0 for none
  made,     \* inodes made so far
  writing,  \* files that are open for writing
  ops,      \* operations of the user
  marks,    \* inodes with a watch; the watch descriptor is the inode here
  queue,    \* of the kernel
  batch,    \* events read from it
  event,    \* the event the reader is at
  watches,  \* from paths to watch descriptors
  paths,    \* and back
  followed, \* history: files and directories all of whose changes since they
            \* were made or listed were put into the queue
  restored  \* history: directories watched anew under an entry for an inode
            \* that is gone

fsVars == <<size, inode, made, writing, ops, followed>>
readerVars == <<batch, event>>
mapVars == <<marks, watches, paths, restored>>
watcherVars == <<fsVars, queue, readerVars, mapVars>>

Exists(p) ==
  \/ p \in Files /\ size[p] # Absent
  \/ p \in Folders /\ inode[p] # 0

Without(f, k) == [x \in DOMAIN f \ {k} |-> f[x]]
With(f, k, v) == [x \in DOMAIN f \cup {k} |-> IF x = k THEN v ELSE f[x]]

-----------------------------------------------------------------------------
\* The kernel.  It puts events of watched inodes into the queue, an event equal
\* to the last one once, and one event for all that find the queue full.

Raw(d, mask, leaf) == [wd |-> inode[d], mask |-> mask, leaf |-> leaf]
Overflow == [wd |-> -1, mask |-> "IN_Q_OVERFLOW", leaf |-> Self]

Enqueue(q, raw) ==
  IF q # << >> /\ Last(q) \in {raw, Overflow} THEN q
  ELSE Append(q, IF Len(q) < QueueMax THEN raw ELSE Overflow)

Notify(q, raw) == IF raw.wd \in marks THEN Enqueue(q, raw) ELSE q

Seen(p) == inode[Parent[p]] \in marks

-----------------------------------------------------------------------------
\* The user of the source directory.

Operation ==
  /\ ops < MaxOps
  /\ ops' = ops + 1
  /\ UNCHANGED <<readerVars, mapVars>>

Create(p) ==
  /\ Operation
  /\ size[p] = Absent /\ inode[Parent[p]] # 0
  /\ size' = [size EXCEPT ![p] = 0]
  /\ writing' = writing \cup {p}
  /\ queue' = Notify(queue, Raw(Parent[p], "IN_CREATE", p))
  /\ followed' = IF Seen(p) THEN followed \cup {p} ELSE followed
  /\ UNCHANGED <<inode, made>>

OpenForWriting(p) ==
  /\ Operation
  /\ size[p] # Absent /\ p \notin writing
  /\ writing' = writing \cup {p}
  /\ UNCHANGED <<size, inode, made, queue, followed>>

Modify(p) ==
  /\ Operation
  /\ p \in writing
  /\ \E n \in 0..MaxSize \ {size[p]} : size' = [size EXCEPT ![p] = n]
  /\ queue' = Notify(queue, Raw(Parent[p], "IN_MODIFY", p))
  /\ followed' = IF Seen(p) THEN followed ELSE followed \ {p}
  /\ UNCHANGED <<inode, made, writing>>

CloseFile(p) ==
  /\ Operation
  /\ p \in writing
  /\ writing' = writing \ {p}
  /\ queue' = Notify(queue, Raw(Parent[p], "IN_CLOSE_WRITE", p))
  /\ UNCHANGED <<size, inode, made, followed>>

Delete(p) ==
  /\ Operation
  /\ size[p] # Absent /\ p \notin writing
  /\ size' = [size EXCEPT ![p] = Absent]
  /\ queue' = Notify(queue, Raw(Parent[p], "IN_DELETE", p))
  /\ followed' = followed \ {p}
  /\ UNCHANGED <<inode, made, writing>>

Move(p, q) ==
  /\ Operation
  /\ p # q /\ p \notin writing /\ q \notin writing
  /\ size[p] # Absent /\ inode[Parent[q]] # 0
  /\ size' = [size EXCEPT ![q] = size[p], ![p] = Absent]
  /\ queue' = Notify(Notify(queue, Raw(Parent[p], "IN_MOVED_FROM", p)),
                    Raw(Parent[q], "IN_MOVED_TO", q))
  /\ followed' = (followed \ {p, q}) \cup {r \in {q} : Seen(r)}
  /\ UNCHANGED <<inode, made, writing>>

Touch(p) ==
  /\ Operation
  /\ Exists(p)
  /\ queue' = Notify(queue, Raw(Parent[p], "IN_ATTRIB", p))
  /\ UNCHANGED <<size, inode, made, writing, followed>>

MakeDir(d) ==
  /\ Operation
  /\ inode[d] = 0 /\ inode[Parent[d]] # 0
  /\ made' = made + 1
  /\ inode' = [inode EXCEPT ![d] = made + 1]
  /\ queue' = Notify(queue, Raw(Parent[d], "IN_CREATE", d))
  /\ followed' = IF Seen(d) THEN followed \cup {d} ELSE followed
  /\ UNCHANGED <<size, writing>>

RemoveDir(d) ==
  /\ Operation
  /\ inode[d] # 0
  /\ \A p \in Paths : Parent[p] = d => ~Exists(p)
  /\ inode' = [inode EXCEPT ![d] = 0]
  /\ LET told == Notify(queue, Raw(Parent[d], "IN_DELETE", d))
         gone == Notify(told, Raw(d, "IN_DELETE_SELF", Self))
     IN queue' = Notify(gone, Raw(d, "IN_IGNORED", Self))
  /\ followed' = followed \ {d}
  /\ UNCHANGED <<size, made, writing>>

User ==
  \/ \E p \in Files : \/ Create(p) \/ OpenForWriting(p) \/ Modify(p) \/ CloseFile(p)
                      \/ Delete(p) \/ Touch(p)
  \/ \E p, q \in Files : Move(p, q)
  \/ \E d \in Dirs : MakeDir(d) \/ RemoveDir(d)

-----------------------------------------------------------------------------
\* Watcher.Add: the system call and the maps under one lock, which the reader
\* takes too.  An entry that is there is given the new descriptor, and the map
\* from descriptors to paths is left as it is.
Add(d) ==
  /\ inode[d] # 0
  /\ marks' = marks \cup {inode[d]}
  /\ watches' = With(watches, d, inode[d])
  /\ paths' = IF d \in DOMAIN watches THEN paths ELSE With(paths, inode[d], d)
  /\ restored' = IF d \in DOMAIN watches /\ watches[d] \in DOMAIN paths \ {inode[d]}
                 THEN restored \cup {d} ELSE restored

-----------------------------------------------------------------------------
\* The goroutine readEvents.

NoEvent == [op |-> "none", name |-> NoPath, stage |-> "none"]

\* newEvent.
Op(mask) ==
  CASE mask \in {"IN_CREATE", "IN_MOVED_TO"} -> "Create"
    [] mask \in {"IN_DELETE", "IN_DELETE_SELF"} -> "Remove"
    [] mask = "IN_MODIFY" -> "Write"
    [] mask = "IN_CLOSE_WRITE" -> "CloseWrite"
    [] mask = "IN_MOVED_FROM" -> "Rename"
    [] mask = "IN_ATTRIB" -> "Chmod"
    [] mask = "IN_Q_OVERFLOW" -> "overflow"
    [] mask = "IN_IGNORED" -> "none"

\* unix.Read, when the poller has found something to read.
ReadQueue ==
  /\ event = NoEvent /\ batch = << >> /\ queue # << >>
  /\ batch' = queue
  /\ queue' = << >>
  /\ UNCHANGED <<fsVars, event, mapVars>>

\* Mutant of forget: the entry of the path stays.
forgetDescriptor(wd) ==
  /\ paths' = Without(paths, wd)
  /\ UNCHANGED watches

\* Mutant of forget: the maps are those of what is below the directory too.
forgetAll(wd) == paths' = << >> /\ watches' = << >>

forget(wd) ==
  /\ paths' = Without(paths, wd)
  /\ watches' = Without(watches, paths[wd])

\* The path of the directory is looked up, and forgotten with the directory.
Lookup ==
  /\ event = NoEvent /\ batch # << >>
  /\ LET raw == Head(batch)
         known == raw.wd \in DOMAIN paths
         name == IF ~known THEN NoPath
                 ELSE IF raw.leaf = Self THEN paths[raw.wd] ELSE raw.leaf
     IN /\ event' = IF raw.mask = "IN_IGNORED" THEN NoEvent
                    ELSE [op |-> Op(raw.mask), name |-> name, stage |-> "named"]
        /\ IF known /\ raw.mask = "IN_DELETE_SELF"
           THEN forget(raw.wd)
           ELSE UNCHANGED <<paths, watches>>
  /\ batch' = Tail(batch)
  /\ UNCHANGED <<fsVars, queue, marks, restored>>

\* What does not tell of a removal must be about something that exists.
ignoreLinux(op, name) == op \notin {"Remove", "Rename"} /\ ~Exists(name)

\* The event is dropped, or offered on the channel; the error of an overflow is
\* offered on another.
Offer ==
  /\ event.stage = "named"
  /\ event' = IF event.op # "overflow" /\ ignoreLinux(event.op, event.name)
              THEN NoEvent ELSE [event EXCEPT !.stage = "offered"]
  /\ UNCHANGED <<fsVars, queue, batch, mapVars>>

Reader == ReadQueue \/ Lookup \/ Offer

\* Every event carries the path of what it is about, whenever the user removes
\* and makes directories and however late the reader is: the descriptor of a
\* directory is in the map from the moment the kernel may report by it to the
\* last such event.  It is not when a directory was watched anew before the
\* removal of its last inode was seen.
EventsNamed ==
  event.stage # "none" /\ event.op # "overflow" /\ restored = {} =>
    event.name # NoPath

=============================================================================
