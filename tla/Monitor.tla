------------------------------- MODULE Monitor -------------------------------
(***************************************************************************)
(* The monitor of a client (workers/monitor.go): one goroutine that takes  *)
(* the events of the watcher one by one, and announces new and changed     *)
(* files to the server (ADD and UPD in workers/receiver.go).  The server   *)
(* keeps its list of files from client to client and loses it when it is   *)
(* started again.  An error of the monitor ends the client.                *)
(***************************************************************************)
EXTENDS Watcher

CONSTANTS
  Order,      \* the order of the listing
  MaxStale,   \* bound on the files of an earlier client of the server
  MayRestart, \* whether the server may be started again
  MayLose     \* whether requests to the server, and watches, may fail

ASSUME MonitorAssumption ==
  /\ Order \in [Paths -> 1..Cardinality(Paths)]
  /\ \A p, q \in Paths : Order[p] = Order[q] => p = q
  /\ MaxStale \in Nat /\ MayRestart \in BOOLEAN /\ MayLose \in BOOLEAN

VARIABLES
  pc,          \* where StartMon and evalEvent are
  cur,         \* the event that is evaluated
  fd,          \* the descriptor made of it
  fileWatchMap, \* descriptors of the known files and directories
  fileLocks,   \* names whose lock is held
  lastFileIdx,
  srcList,     \* of the server
  stale,       \* its indices that an earlier client has left
  restarted,   \* the server was started again
  kept         \* history: names of which the last event that was evaluated is one
               \* that does not give up the lock

monVars == <<cur, fd, fileWatchMap, fileLocks, lastFileIdx, kept>>
serverVars == <<srcList, stale, restarted>>
vars == <<watcherVars, pc, monVars, serverVars>>

Ended == {"vanished", "unwatched", "refused", "unreachable", "overflow", "panic"}

NoFd == [idx |-> 0, size |-> 0]
Entry(p, n) == [path |-> p, size |-> n]

\* The watch list is filled from the listing of the initial synchronization.
Init ==
  /\ size \in [Files -> 0..MaxSize \cup {Absent}]
  /\ \E dirs \in SUBSET Dirs :
       inode = [d \in Folders |-> IF d = Top THEN 1
                                  ELSE IF d \in dirs THEN 1 + Order[d] ELSE 0]
  /\ \A p \in Paths : Exists(p) => inode[Parent[p]] # 0
  /\ made = 1 + Cardinality(Paths)
  /\ writing = {} /\ ops = 0
  /\ followed = {p \in Files : Exists(p)}
  /\ marks = {} /\ watches = << >> /\ paths = << >> /\ restored = {}
  /\ queue = << >> /\ batch = << >> /\ event = NoEvent
  /\ pc = "start"
  /\ LET listed == {p \in Paths : Exists(p)}
         Idx(p) == Cardinality({q \in listed : Order[q] <= Order[p]})
         At(i) == CHOOSE p \in listed : Idx(p) = i
         n == Cardinality(listed)
         SizeOf(p) == IF p \in Files THEN size[p] ELSE 0
     IN /\ fileWatchMap =
             [p \in listed \cap Files |-> [idx |-> Idx(p), size |-> size[p]]]
        /\ lastFileIdx = n
        /\ \E m \in 0..MaxStale :
             /\ stale = (n + 1)..m
             /\ srcList = [i \in 1..n \cup stale |->
                             IF i \in stale THEN Entry(NoPath, 0)
                             ELSE Entry(At(i), SizeOf(At(i)))]
  /\ cur = NoEvent /\ fd = NoFd
  /\ fileLocks = {} /\ kept = {}
  /\ restarted = FALSE

Goto(l) == pc' = l

\* StartMon watches the source directory, and no directory below it.
Watch ==
  /\ pc = "start"
  /\ Add(Top)
  /\ Goto("select")
  /\ UNCHANGED <<fsVars, queue, readerVars, monVars, serverVars>>

\* The receive from the channels of the watcher; an error ends the monitor.
Receive ==
  /\ pc = "select" /\ event.stage = "offered"
  /\ event' = NoEvent
  /\ cur' = event
  /\ Goto(IF event.op = "overflow" THEN "overflow" ELSE "lock")
  /\ UNCHANGED <<fsVars, queue, batch, mapVars, fd, fileWatchMap, fileLocks,
                 lastFileIdx, kept, serverVars>>

\* Mutant of Keeps: the lock is given up after every event.
KeepsNone(op) == FALSE

\* Mutant of Keeps: the lock is not given up after an event that is ignored.
KeepsWrite(op) == op \in {"CloseWrite", "Rename", "Write"}

\* The events after which evalEvent does not give up the lock.
Keeps(op) == op \in {"CloseWrite", "Rename"}

\* evalEvent is through with the event, whose descriptor goes.
Return ==
  /\ fileLocks' = IF Keeps(cur.op) THEN fileLocks \cup {cur.name}
                  ELSE fileLocks \ {cur.name}
  /\ kept' = IF cur.op \in {"CloseWrite", "Rename"} THEN kept \cup {cur.name} ELSE kept
  /\ cur' = NoEvent /\ fd' = NoFd
  /\ Goto("select")

\* evalEvent goes on, or ends with an error; the lock is given up for that only
\* when the event is a Create.
Continue(l) ==
  /\ Goto(l)
  /\ fileLocks' = fileLocks \cup {cur.name}
  /\ UNCHANGED <<cur, kept>>

Stop(why) ==
  /\ Goto(why)
  /\ fileLocks' = IF cur.op = "Create" THEN fileLocks \ {cur.name}
                  ELSE fileLocks \cup {cur.name}
  /\ UNCHANGED <<cur, fd, kept>>

\* FileLock, which blocks for as long as the lock of the name is held.
Locked(ops_) ==
  /\ pc = "lock" /\ cur.op \in ops_
  /\ cur.name \notin fileLocks

Ignored ==
  /\ Locked({"Write", "Remove", "Chmod", "Rename"})
  /\ Return
  /\ UNCHANGED <<watcherVars, fileWatchMap, lastFileIdx, serverVars>>

SizeNow(p) == IF p \in Files THEN size[p] ELSE 0

\* Mutant of NextIdx: the index is that of the last file.
SameIdx == lastFileIdx

NextIdx == lastFileIdx + 1

\* A new name: Scan, and the next index.
ScanCreated ==
  /\ Locked({"Create"})
  /\ IF Exists(cur.name)
     THEN /\ fd' = [idx |-> NextIdx, size |-> SizeNow(cur.name)]
          /\ lastFileIdx' = NextIdx
          /\ Continue("add")
     ELSE Stop("vanished") /\ UNCHANGED lastFileIdx
  /\ UNCHANGED <<watcherVars, fileWatchMap, serverVars>>

\* AddToMonList.  A directory is watched first, if it is still there.
AddToMonList ==
  /\ pc = "add"
  /\ IF cur.name \in Dirs THEN Add(cur.name) ELSE UNCHANGED mapVars
  /\ fileWatchMap' = With(fileWatchMap, cur.name, fd)
  /\ Goto("announce")
  /\ UNCHANGED <<fsVars, queue, readerVars, cur, fd, fileLocks, lastFileIdx, kept,
                 serverVars>>

AddFails ==
  /\ pc = "add"
  /\ cur.name \in Dirs
  /\ MayLose \/ ~Exists(cur.name)
  /\ Stop("unwatched")
  /\ UNCHANGED <<watcherVars, fileWatchMap, lastFileIdx, serverVars>>

\* ADD: the server stores the descriptor, unless it has one of that index.
Announce ==
  /\ pc = "announce"
  /\ IF fd.idx \in DOMAIN srcList
     THEN Stop("refused") /\ UNCHANGED srcList
     ELSE /\ srcList' = With(srcList, fd.idx, Entry(cur.name, fd.size))
          /\ Return
  /\ UNCHANGED <<watcherVars, fileWatchMap, lastFileIdx, stale, restarted>>

\* Mutant of differs: only growth is noticed.
grows(old, new) == old < new

differs(old, new) == old # new

\* A file that was written is known, or this is a panic; it has changed if its
\* size has.  The descriptor in the map stays as it is.
ScanClosed ==
  /\ Locked({"CloseWrite"})
  /\ CASE ~Exists(cur.name) -> Stop("vanished")
       [] Exists(cur.name) /\ cur.name \notin DOMAIN fileWatchMap -> Stop("panic")
       [] OTHER ->
            IF differs(fileWatchMap[cur.name].size, size[cur.name])
            THEN /\ fd' = [fileWatchMap[cur.name] EXCEPT !.size = size[cur.name]]
                 /\ Continue("update")
            ELSE Return
  /\ UNCHANGED <<watcherVars, fileWatchMap, lastFileIdx, serverVars>>

\* UPD: the server changes the descriptor of that index, which it has to have.
Update ==
  /\ pc = "update"
  /\ IF fd.idx \in DOMAIN srcList
     THEN /\ srcList' = [srcList EXCEPT ![fd.idx].size = fd.size]
          /\ Return
     ELSE Stop("refused") /\ UNCHANGED srcList
  /\ UNCHANGED <<watcherVars, fileWatchMap, lastFileIdx, stale, restarted>>

\* The request or its answer is lost, whether the server has it or not.
Unreachable ==
  /\ MayLose
  /\ pc \in {"announce", "update"}
  /\ Stop("unreachable")
  /\ UNCHANGED <<watcherVars, fileWatchMap, lastFileIdx, serverVars>>

Restart ==
  /\ MayRestart /\ ~restarted
  /\ restarted' = TRUE
  /\ srcList' = << >>
  /\ stale' = {}
  /\ UNCHANGED <<watcherVars, pc, monVars>>

StartMon ==
  \/ Watch \/ Receive \/ Ignored
  \/ ScanCreated \/ AddToMonList \/ AddFails \/ Announce
  \/ ScanClosed \/ Update \/ Unreachable

\* An end of the monitor is an end of the client.
Next ==
  /\ pc \notin Ended
  /\ \/ User /\ UNCHANGED <<pc, monVars, serverVars>>
     \/ Reader /\ UNCHANGED <<pc, monVars, serverVars>>
     \/ StartMon
     \/ Restart

Spec == Init /\ [][Next]_vars

\* Both goroutines run whenever nothing blocks them.
FairSpec ==
  /\ Spec
  /\ WF_vars(pc \notin Ended /\ Reader /\ UNCHANGED <<pc, monVars, serverVars>>)
  /\ WF_vars(pc \notin Ended /\ StartMon)

-----------------------------------------------------------------------------
Idle == queue = << >> /\ batch = << >> /\ event = NoEvent
Quiet == pc = "select" /\ Idle

\* StartMon waits for a lock that it holds itself.
Stuck == pc = "lock" /\ cur.name \in fileLocks

\* The variables hold values of the kind the code gives them.
TypeOK ==
  /\ size \in [Files -> 0..MaxSize \cup {Absent}]
  /\ inode \in [Folders -> 0..made]
  /\ writing \subseteq {p \in Files : size[p] # Absent}
  /\ Len(queue) <= QueueMax + 1
  /\ pc \in {"start", "select", "lock", "add", "announce", "update"} \cup Ended
  /\ DOMAIN fileWatchMap \subseteq Paths
  /\ \A p \in DOMAIN fileWatchMap : fileWatchMap[p].idx \in 1..lastFileIdx
  /\ fileLocks \subseteq Paths \cup Folders \cup {NoPath}

\* When nothing is left to read, to take or to evaluate, the server knows every
\* file and directory whose making and changes happened under a watch, by the
\* index the client knows it by, and with its size, unless it is being written:
\* an event that is dropped because the file is gone, merged, or refers to an
\* earlier file of the name, is made up for by a later one.  It is not when the
\* server was started again, or below a directory that was watched anew before
\* the removal of its last inode was seen.
InSyncWhenQuiet ==
  Quiet /\ ~restarted =>
    \A p \in followed :
      \/ Parent[p] \in restored
      \/ /\ p \in DOMAIN fileWatchMap
         /\ fileWatchMap[p].idx \in DOMAIN srcList
         /\ LET entry == srcList[fileWatchMap[p].idx]
            IN entry.path = p /\ (p \in Files \ writing => entry.size = size[p])

\* The server refuses a file only for an index of an earlier client that is
\* still in its list, or a change for one that it lost when it was started
\* again: the indices that the monitor counts up are new ones, and an index that
\* was announced stays.
RefusedForStale == pc = "refused" => fd.idx \in stale \/ restarted

\* The monitor does not panic over a file that was listed, or whose making put a
\* Create into the queue: a file it does not know is an "unmonitored" one
\* (monitor.go).
PanicsUnfollowed == pc = "panic" => cur.name \notin followed

\* The reader and the monitor come to the end of the queue, unless the monitor
\* ends, or is stuck at a name which was closed after writing or renamed before.
Served ==
  queue # << >> ~> Quiet \/ pc \in Ended \/ (Stuck /\ cur.name \in kept)

=============================================================================
