---------------------------- MODULE MonitorProofs ----------------------------
(***************************************************************************)
(* Proofs about the monitor, for any tree of files, any user and any       *)
(* server: which requests the server refuses, which names block the        *)
(* monitor, which path an event carries, and what the server knows when    *)
(* all events are evaluated.                                               *)
(***************************************************************************)
EXTENDS Monitor, FiniteSetTheorems, SequenceTheorems, TLAPS

IsFd(r) == r = [idx |-> r.idx, size |-> r.size]

-----------------------------------------------------------------------------
(* Indices. *)

\* The indices are counted up, and the server has none but these and those of
\* an earlier client.
Counted ==
  /\ lastFileIdx \in Nat
  /\ DOMAIN srcList \subseteq 1..lastFileIdx \cup stale

\* A file that is being added has the last index, which no other file of this
\* client has.
Fresh ==
  pc \in {"add", "announce"} =>
    /\ fd.idx = lastFileIdx /\ lastFileIdx > 0
    /\ fd.idx \in DOMAIN srcList => fd.idx \in stale

\* The server has the index of every file that the monitor knows, but for the
\* one that is being announced, unless it was started again.
Known ==
  /\ \A p \in DOMAIN fileWatchMap : IsFd(fileWatchMap[p])
  /\ pc \notin Ended /\ ~restarted =>
       \A p \in DOMAIN fileWatchMap :
         \/ fileWatchMap[p].idx \in DOMAIN srcList
         \/ pc = "announce" /\ fileWatchMap[p].idx = fd.idx

Updated == pc = "update" => fd.idx \in DOMAIN srcList \/ restarted

IndexInv ==
  /\ IsFd(fd) /\ Counted /\ Fresh /\ Known /\ Updated
  /\ RefusedForStale

indexVars == <<pc, fd, fileWatchMap, lastFileIdx, srcList, stale, restarted>>

LEMMA SameIndices == IndexInv /\ UNCHANGED indexVars => IndexInv'
BY DEF IndexInv, indexVars, IsFd, Counted, Fresh, Known, Updated, RefusedForStale

\* A place that changes without an entry being made.
LEMMA OtherPlace ==
  ASSUME IndexInv,
         UNCHANGED <<fileWatchMap, lastFileIdx, srcList, stale, restarted>>,
         IsFd(fd'), pc' \notin {"add", "announce", "update", "refused"},
         pc \notin Ended, pc # "announce" \/ pc' \in Ended
  PROVE  IndexInv'
BY DEF IndexInv, IsFd, Counted, Fresh, Known, Updated, RefusedForStale

\* The index of a name in the listing.
LEMMA Listing ==
  ASSUME NEW listed \in SUBSET Paths, NEW p \in listed
  PROVE  /\ Cardinality(listed) \in Nat
         /\ Cardinality({q \in listed : Order[q] <= Order[p]})
              \in 1..Cardinality(listed)
<1> DEFINE below == {q \in listed : Order[q] <= Order[p]}
<1>1. IsFiniteSet(listed)
  BY TreeAssumption, FS_Subset
<1>2. Cardinality(listed) \in Nat
  BY <1>1, FS_CardinalityType
<1>3. IsFiniteSet(below) /\ Cardinality(below) <= Cardinality(listed)
  BY <1>1, FS_Subset
<1>4. p \in below
  <2>1. Order[p] \in Int
    BY MonitorAssumption
  <2> QED
    BY <2>1
<1>5. Cardinality(below) \in Nat /\ Cardinality(below) # 0
  BY <1>3, <1>4, FS_CardinalityType, FS_EmptySet
<1> QED
  BY <1>2, <1>3, <1>5

LEMMA InitIndices == Init => IndexInv
<1> SUFFICES ASSUME Init PROVE IndexInv
  OBVIOUS
<1> DEFINE listed == {p \in Paths : Exists(p)}
           n == Cardinality(listed)
           Idx(p) == Cardinality({q \in listed : Order[q] <= Order[p]})
<1>1. /\ pc = "start" /\ fd = NoFd /\ restarted = FALSE
      /\ fileWatchMap = [p \in listed \cap Files |-> [idx |-> Idx(p), size |-> size[p]]]
      /\ lastFileIdx = n
      /\ \E m \in 0..MaxStale :
           /\ stale = (n + 1)..m
           /\ DOMAIN srcList = 1..n \cup stale
  BY DEF Init
<1>2. n \in Nat
  <2>1. IsFiniteSet(listed)
    BY TreeAssumption, FS_Subset
  <2> QED
    BY <2>1, FS_CardinalityType
<1>3. \A p \in listed : Idx(p) \in 1..n
  BY Listing
<1> HIDE DEF listed, n, Idx
<1>4. IsFd(fd)
  BY <1>1 DEF IsFd, NoFd
<1>5. Counted
  BY <1>1, <1>2 DEF Counted
<1>6. Known
  BY <1>1, <1>3 DEF Known, IsFd
<1>7. Fresh /\ Updated /\ RefusedForStale
  BY <1>1 DEF Fresh, Updated, RefusedForStale
<1> QED
  BY <1>4, <1>5, <1>6, <1>7 DEF IndexInv

LEMMA NextIndices == IndexInv /\ [Next]_vars => IndexInv'
<1> SUFFICES ASSUME IndexInv, [Next]_vars PROVE IndexInv'
  OBVIOUS
<1>1. CASE UNCHANGED vars
  BY <1>1, SameIndices DEF vars, monVars, serverVars, indexVars
<1>2. CASE User /\ UNCHANGED <<pc, monVars, serverVars>>
  BY <1>2, SameIndices DEF monVars, serverVars, indexVars
<1>3. CASE Reader /\ UNCHANGED <<pc, monVars, serverVars>>
  BY <1>3, SameIndices DEF monVars, serverVars, indexVars
<1>4. CASE Watch
  <2>1. /\ pc = "start" /\ pc' = "select"
        /\ UNCHANGED <<fd, fileWatchMap, lastFileIdx, srcList, stale, restarted>>
    BY <1>4 DEF Watch, Goto, monVars, serverVars
  <2> QED
    BY <2>1, OtherPlace DEF IndexInv, IsFd, Ended
<1>5. CASE Receive
  <2>1. /\ pc = "select" /\ pc' \in {"overflow", "lock"}
        /\ UNCHANGED <<fd, fileWatchMap, lastFileIdx, srcList, stale, restarted>>
    BY <1>5 DEF Receive, Goto, serverVars
  <2> QED
    BY <2>1, OtherPlace DEF IndexInv, IsFd, Ended
<1>6. CASE Ignored
  <2>1. /\ pc = "lock" /\ pc' = "select" /\ fd' = NoFd
        /\ UNCHANGED <<fileWatchMap, lastFileIdx, srcList, stale, restarted>>
    BY <1>6 DEF Ignored, Locked, Return, Goto, serverVars
  <2> QED
    BY <2>1, OtherPlace DEF IsFd, NoFd, Ended
<1>7. CASE ScanCreated
  <2>1. pc = "lock" /\ UNCHANGED <<fileWatchMap, srcList, stale, restarted>>
    BY <1>7 DEF ScanCreated, Locked, serverVars
  <2>2. CASE Exists(cur.name)
    <3>1. /\ pc' = "add" /\ lastFileIdx' = lastFileIdx + 1
          /\ fd' = [idx |-> lastFileIdx + 1, size |-> SizeNow(cur.name)]
      BY <1>7, <2>2 DEF ScanCreated, Continue, Goto, NextIdx
    <3>2. IsFd(fd') /\ fd'.idx = lastFileIdx' /\ lastFileIdx' > 0
      BY <3>1 DEF IsFd, IndexInv, Counted
    <3>3. lastFileIdx' \in Nat /\ lastFileIdx' \notin 1..lastFileIdx
      BY <3>1 DEF IndexInv, Counted
    <3>4. DOMAIN srcList' \subseteq 1..lastFileIdx' \cup stale'
      BY <2>1, <3>1, <3>3 DEF IndexInv, Counted
    <3>5. fd'.idx \in DOMAIN srcList' => fd'.idx \in stale'
      BY <2>1, <3>2, <3>3 DEF IndexInv, Counted
    <3>6. Known'
      BY <2>1, <3>1 DEF IndexInv, Known, IsFd, Ended
    <3> QED
      BY <3>1, <3>2, <3>3, <3>4, <3>5, <3>6
      DEF IndexInv, IsFd, Counted, Fresh, Updated, RefusedForStale
  <2>3. CASE ~Exists(cur.name)
    <3>1. pc' = "vanished" /\ UNCHANGED <<fd, lastFileIdx>>
      BY <1>7, <2>3 DEF ScanCreated, Stop, Goto
    <3> QED
      BY <2>1, <3>1, OtherPlace DEF IndexInv, IsFd, Ended
  <2> QED
    BY <2>2, <2>3
<1>8. CASE AddToMonList
  <2>1. /\ pc = "add" /\ pc' = "announce"
        /\ fileWatchMap' = With(fileWatchMap, cur.name, fd)
        /\ UNCHANGED <<fd, lastFileIdx, srcList, stale, restarted>>
    BY <1>8 DEF AddToMonList, Goto, serverVars
  <2>2. \A p \in DOMAIN fileWatchMap' :
          \/ fileWatchMap'[p] = fd
          \/ p \in DOMAIN fileWatchMap /\ fileWatchMap'[p] = fileWatchMap[p]
    BY <2>1 DEF With
  <2>3. Known'
    BY <2>1, <2>2 DEF IndexInv, Known, IsFd, Ended
  <2> QED
    BY <2>1, <2>3 DEF IndexInv, IsFd, Counted, Fresh, Updated, RefusedForStale
<1>9. CASE AddFails
  <2>1. /\ pc = "add" /\ pc' = "unwatched"
        /\ UNCHANGED <<fd, fileWatchMap, lastFileIdx, srcList, stale, restarted>>
    BY <1>9 DEF AddFails, Stop, Goto, serverVars
  <2> QED
    BY <2>1, OtherPlace DEF IndexInv, IsFd, Ended
<1>10. CASE Announce
  <2>1. pc = "announce" /\ UNCHANGED <<fileWatchMap, lastFileIdx, stale, restarted>>
    BY <1>10 DEF Announce
  <2>2. CASE fd.idx \in DOMAIN srcList
    <3>1. pc' = "refused" /\ UNCHANGED <<fd, srcList>>
      BY <1>10, <2>2 DEF Announce, Stop, Goto
    <3>2. fd.idx \in stale
      BY <2>1, <2>2 DEF IndexInv, Fresh
    <3> QED
      BY <2>1, <3>1, <3>2
      DEF IndexInv, IsFd, Counted, Fresh, Known, Updated, RefusedForStale, Ended
  <2>3. CASE fd.idx \notin DOMAIN srcList
    <3>1. /\ pc' = "select" /\ fd' = NoFd
          /\ srcList' = With(srcList, fd.idx, Entry(cur.name, fd.size))
      BY <1>10, <2>3 DEF Announce, Return, Goto
    <3>2. DOMAIN srcList' = DOMAIN srcList \cup {fd.idx}
      BY <3>1 DEF With
    <3>3. Counted'
      <4>1. fd.idx \in 1..lastFileIdx
        BY <2>1 DEF IndexInv, Counted, Fresh
      <4> QED
        BY <2>1, <3>2, <4>1 DEF IndexInv, Counted
    <3>4. Known'
      BY <2>1, <3>1, <3>2 DEF IndexInv, Known, IsFd, Ended
    <3> QED
      BY <3>1, <3>3, <3>4 DEF IndexInv, IsFd, NoFd, Fresh, Updated, RefusedForStale
  <2> QED
    BY <2>2, <2>3
<1>11. CASE ScanClosed
  <2>1. pc = "lock" /\ UNCHANGED <<fileWatchMap, lastFileIdx, srcList, stale, restarted>>
    BY <1>11 DEF ScanClosed, Locked, serverVars
  <2>2. CASE pc' \in {"vanished", "panic"} /\ UNCHANGED fd
    BY <2>1, <2>2, OtherPlace DEF IndexInv, IsFd, Ended
  <2>3. CASE pc' = "select" /\ fd' = NoFd
    BY <2>1, <2>3, OtherPlace DEF IsFd, NoFd, Ended
  <2>4. CASE /\ pc' = "update" /\ cur.name \in DOMAIN fileWatchMap
             /\ fd' = [fileWatchMap[cur.name] EXCEPT !.size = size[cur.name]]
    <3>1. IsFd(fileWatchMap[cur.name])
      BY <2>4 DEF IndexInv, Known
    <3>2. IsFd(fd') /\ fd'.idx = fileWatchMap[cur.name].idx
      BY <2>4, <3>1 DEF IsFd
    <3>3. fd'.idx \in DOMAIN srcList \/ restarted
      BY <2>1, <2>4, <3>2 DEF IndexInv, Known, Ended
    <3>4. Known'
      BY <2>1, <2>4 DEF IndexInv, Known, IsFd, Ended
    <3> QED
      BY <2>1, <2>4, <3>2, <3>3, <3>4
      DEF IndexInv, IsFd, Counted, Fresh, Updated, RefusedForStale
  <2> QED
    BY <1>11, <2>2, <2>3, <2>4 DEF ScanClosed, Stop, Return, Continue, Goto
<1>12. CASE Update
  <2>1. pc = "update" /\ UNCHANGED <<fileWatchMap, lastFileIdx, stale, restarted>>
    BY <1>12 DEF Update
  <2>2. CASE fd.idx \in DOMAIN srcList
    <3>1. /\ pc' = "select" /\ fd' = NoFd
          /\ srcList' = [srcList EXCEPT ![fd.idx].size = fd.size]
      BY <1>12, <2>2 DEF Update, Return, Goto
    <3>2. DOMAIN srcList' = DOMAIN srcList
      BY <3>1
    <3> QED
      BY <2>1, <3>1, <3>2
      DEF IndexInv, IsFd, NoFd, Counted, Fresh, Known, Updated, RefusedForStale, Ended
  <2>3. CASE fd.idx \notin DOMAIN srcList
    <3>1. pc' = "refused" /\ UNCHANGED <<fd, srcList>>
      BY <1>12, <2>3 DEF Update, Stop, Goto
    <3>2. restarted
      BY <2>1, <2>3 DEF IndexInv, Updated
    <3> QED
      BY <2>1, <3>1, <3>2
      DEF IndexInv, IsFd, Counted, Fresh, Known, Updated, RefusedForStale, Ended
  <2> QED
    BY <2>2, <2>3
<1>13. CASE Unreachable
  <2>1. /\ pc \in {"announce", "update"} /\ pc' = "unreachable"
        /\ UNCHANGED <<fd, fileWatchMap, lastFileIdx, srcList, stale, restarted>>
    BY <1>13 DEF Unreachable, Stop, Goto, serverVars
  <2> QED
    BY <2>1, OtherPlace DEF IndexInv, IsFd, Ended
<1>14. CASE Restart /\ pc \notin Ended
  <2>1. /\ restarted' = TRUE /\ srcList' = << >> /\ stale' = {}
        /\ UNCHANGED <<pc, fd, fileWatchMap, lastFileIdx>>
    BY <1>14 DEF Restart, monVars
  <2>2. DOMAIN srcList' = {}
    BY <2>1
  <2> QED
    BY <1>14, <2>1, <2>2
    DEF IndexInv, IsFd, Counted, Fresh, Known, Updated, RefusedForStale, Ended
<1> QED
  BY <1>1, <1>2, <1>3, <1>4, <1>5, <1>6, <1>7, <1>8, <1>9, <1>10, <1>11, <1>12,
     <1>13, <1>14 DEF Next, StartMon

\* The server refuses a file or a change only for what an earlier client has
\* left in its list, or what it lost in a restart (ADD and UPD in receiver.go):
\* RefusedForStale.
THEOREM RefusalsExplained == Spec => []RefusedForStale
<1>1. IndexInv => RefusedForStale
  BY DEF IndexInv
<1> QED
  BY InitIndices, NextIndices, <1>1, PTL DEF Spec

-----------------------------------------------------------------------------
(* Locks. *)

\* Between two events a lock is held only for a name that was closed after
\* writing or renamed, and during one for its name too.
LocksKept ==
  /\ pc \in {"start", "select", "lock"} => fileLocks \subseteq kept
  /\ pc \in {"add", "announce", "update"} => fileLocks \subseteq kept \cup {cur.name}

lockVars == <<pc, cur, fileLocks, kept>>

LEMMA LocksInit == Init => LocksKept
BY DEF Init, LocksKept

LEMMA LocksNext == LocksKept /\ [Next]_vars => LocksKept'
<1> SUFFICES ASSUME LocksKept, [Next]_vars PROVE LocksKept'
  OBVIOUS
<1>1. CASE UNCHANGED lockVars
  BY <1>1 DEF LocksKept, lockVars
<1>2. CASE Return /\ pc \in {"lock", "add", "announce", "update"}
  <2>1. fileLocks \subseteq kept \cup {cur.name}
    BY <1>2 DEF LocksKept
  <2>2. fileLocks' \subseteq kept'
    BY <1>2, <2>1 DEF Return, Keeps
  <2> QED
    BY <1>2, <2>2 DEF Return, Goto, LocksKept
<1>3. ASSUME NEW l \in {"add", "update"}, Continue(l), pc = "lock"
      PROVE  LocksKept'
  BY <1>3 DEF Continue, Goto, LocksKept
<1>4. ASSUME NEW why \in Ended, Stop(why)
      PROVE  LocksKept'
  BY <1>4 DEF Stop, Goto, LocksKept, Ended
<1>5. CASE Watch
  BY <1>5 DEF Watch, Goto, monVars, LocksKept
<1>6. CASE Receive
  BY <1>6 DEF Receive, Goto, LocksKept
<1>7. CASE AddToMonList
  BY <1>7 DEF AddToMonList, Goto, LocksKept
<1>8. CASE Ignored
  BY <1>2, <1>8 DEF Ignored, Locked
<1>9. CASE ScanCreated
  BY <1>3, <1>4, <1>9 DEF ScanCreated, Locked, Ended
<1>10. CASE AddFails
  BY <1>4, <1>10 DEF AddFails, Ended
<1>11. CASE Announce
  BY <1>2, <1>4, <1>11 DEF Announce, Ended
<1>12. CASE ScanClosed
  BY <1>2, <1>3, <1>4, <1>12 DEF ScanClosed, Locked, Ended
<1>13. CASE Update
  BY <1>2, <1>4, <1>13 DEF Update, Ended
<1>14. CASE Unreachable
  BY <1>4, <1>14 DEF Unreachable, Ended
<1> QED
  BY <1>1, <1>5, <1>6, <1>7, <1>8, <1>9, <1>10, <1>11, <1>12, <1>13, <1>14
  DEF Next, StartMon, Restart, monVars, serverVars, vars, lockVars

\* The monitor waits for a lock of its own only at a name that was closed after
\* writing or renamed before (evalEvent in monitor.go); Served says that it
\* serves every other event.
THEOREM StuckAfterKept == Spec => [](Stuck => cur.name \in kept)
<1>1. LocksKept => (Stuck => cur.name \in kept)
  BY DEF LocksKept, Stuck
<1> QED
  BY LocksInit, LocksNext, <1>1, PTL DEF Spec

-----------------------------------------------------------------------------
(* The watcher: the tree, the queue, the maps and the events. *)

\* What the kernel has told and the reader has not looked at yet, in its order.
Unread == batch \o queue

\* What the kernel tells of a leaf of a watched directory, and of the directory
\* itself.
LeafMasks == {"IN_CREATE", "IN_MOVED_TO", "IN_DELETE", "IN_MODIFY",
              "IN_CLOSE_WRITE", "IN_MOVED_FROM", "IN_ATTRIB"}
SelfMasks == {"IN_DELETE_SELF", "IN_IGNORED"}

\* What the queue holds: only inodes with a watch are told of.
Raws == [wd : marks, mask : LeafMasks, leaf : Paths]
          \cup [wd : marks, mask : SelfMasks, leaf : {Self}] \cup {Overflow}

EventOps == {"none", "Create", "Remove", "Write", "CloseWrite", "Rename", "Chmod"}
Events == [op : EventOps \cup {"overflow"}, name : Paths \cup Folders \cup {NoPath},
           stage : {"none", "named", "offered"}]

\* The tree of the user: an inode is of one directory, and what is there is in a
\* directory that is there.
TreeInv ==
  /\ made \in Nat
  /\ size \in [Files -> 0..MaxSize \cup {Absent}]
  /\ inode \in [Folders -> 0..made]
  /\ writing \subseteq {p \in Files : size[p] # Absent}
  /\ \A d, e \in Folders : inode[d] = inode[e] /\ inode[d] # 0 => d = e
  /\ \A p \in Paths : Exists(p) => inode[Parent[p]] # 0
  /\ followed \subseteq {p \in Paths : Exists(p)}

\* One event more than the limit fits, which stands for all that are lost.
Bounded(q) ==
  /\ Len(q) <= QueueMax + 1
  /\ Len(q) = QueueMax + 1 => q[Len(q)] = Overflow

\* The queue and the batch hold what the kernel tells.
QueueInv ==
  /\ marks \subseteq 1..made
  /\ queue \in Seq(Raws) /\ batch \in Seq(Raws)
  /\ Bounded(queue)

\* An event on the channel or at the monitor is one of the seven kinds or an
\* overflow, and what is made is never the source directory; indices are those
\* that were counted.
EventInv ==
  /\ event \in Events /\ cur \in Events
  /\ event.op = "Create" => event.name \in Paths \cup {NoPath}
  /\ cur.op = "Create" => cur.name \in Paths \cup {NoPath}
  /\ pc \in {"start", "select", "lock", "add", "announce", "update"} \cup Ended
  /\ fileLocks \subseteq Paths \cup Folders \cup {NoPath}
  /\ pc = "add" => cur.name \in Paths /\ fd.idx \in 1..lastFileIdx
  /\ lastFileIdx \in Nat
  /\ DOMAIN fileWatchMap \subseteq Paths
  /\ \A p \in DOMAIN fileWatchMap : fileWatchMap[p].idx \in 1..lastFileIdx

\* An event that reaches the channel with a path.
Tells(raw) == raw.mask \notin {"IN_IGNORED", "IN_Q_OVERFLOW"}

\* Nothing is told by the descriptor of a directory after its removal.
Ordered(s) ==
  \A i, j \in 1..Len(s) :
    i < j /\ s[i].mask = "IN_DELETE_SELF" /\ Tells(s[j]) => s[j].wd # s[i].wd

\* A directory whose removal is unread is gone.
Removed(s) ==
  \A i \in 1..Len(s) :
    s[i].mask = "IN_DELETE_SELF" => \A d \in Folders : inode[d] # s[i].wd

\* The path of what is unread is known: the descriptor is in the map.
Named(s) ==
  restored = {} => \A i \in 1..Len(s) : Tells(s[i]) => s[i].wd \in DOMAIN paths

\* The two maps: an entry of watches is for the inode the path has or had, and
\* paths leads back, unless the directory was watched anew under an old entry.
MapInv ==
  /\ DOMAIN watches \subseteq Folders
  /\ DOMAIN paths \subseteq 1..made
  /\ \A w \in DOMAIN paths : paths[w] \in Folders
  /\ \A d \in DOMAIN watches :
       /\ watches[d] \in 1..made
       /\ \A e \in Folders \ {d} : inode[e] # watches[d]
  /\ \A d \in DOMAIN watches \ restored :
       watches[d] \in DOMAIN paths /\ paths[watches[d]] = d
  /\ \A d \in Folders \ restored :
       inode[d] \in marks => inode[d] \in DOMAIN paths

Kept(s) == Ordered(s) /\ Removed(s) /\ Named(s)

\* What is unread agrees with the maps.
WatchInv == Kept(Unread) /\ MapInv

\* An event of p is unread.
Waits(p, masks) ==
  \E i \in 1..Len(Unread) :
    /\ Unread[i].leaf = p /\ Unread[i].mask \in masks
    /\ Unread[i].wd = inode[Parent[p]]

\* An event of p is unread, on the channel or at the monitor.
Comes(p, op, masks) ==
  \/ Waits(p, masks)
  \/ event.name = p /\ event.op = op
  \/ pc = "lock" /\ cur.name = p /\ cur.op = op

CreateComes(p) == Comes(p, "Create", {"IN_CREATE", "IN_MOVED_TO"})
CloseComes(p) == Comes(p, "CloseWrite", {"IN_CLOSE_WRITE"})

\* Events were lost, and the monitor ends when it comes to that.
Lost ==
  \/ \E i \in 1..Len(Unread) : Unread[i] = Overflow
  \/ event.op = "overflow"

\* The server has p by the index the client knows it by, or is about to have it.
Listed(p) ==
  \/ pc \in {"add", "announce"} /\ cur.name = p
  \/ /\ p \in DOMAIN fileWatchMap
     /\ fileWatchMap[p].idx \in DOMAIN srcList
     /\ srcList[fileWatchMap[p].idx].path = p

\* The size the server has of p, or is about to have.
SizeTold(p) ==
  IF pc \in {"add", "announce", "update"} /\ cur.name = p THEN fd.size
  ELSE srcList[fileWatchMap[p].idx].size

\* Either the making of p is still to be evaluated, or the server has it, and of
\* a file its size, unless it is being written or its closing is still to be
\* evaluated.
InSync(p) ==
  \/ CreateComes(p)
  \/ /\ Listed(p)
     /\ p \in Files =>
          \/ CloseComes(p)
          \/ p \in writing /\ Seen(p)
          \/ SizeTold(p) = size[p]

IsEntry(e) == e = Entry(e.path, e.size)

\* The watch list and the list of the server: no two names have one index, and a
\* size that is known to the client is that of the server, unless the lock of the
\* name is held: after a change the client's descriptor stays as it was, but so
\* does the lock.
BookInv ==
  /\ \A i \in DOMAIN srcList : IsEntry(srcList[i])
  /\ \A p, q \in DOMAIN fileWatchMap :
       fileWatchMap[p].idx = fileWatchMap[q].idx => p = q
  /\ pc = "add" => \A p \in DOMAIN fileWatchMap : fileWatchMap[p].idx # fd.idx
  /\ pc = "announce" => cur.name \in DOMAIN fileWatchMap /\ fileWatchMap[cur.name] = fd
  /\ pc = "update" => cur.name \in DOMAIN fileWatchMap /\ fileWatchMap[cur.name].idx = fd.idx
  /\ pc \in {"add", "announce", "update"} => cur.name \in fileLocks
  /\ pc \in {"add", "announce"} => cur.op = "Create"
  /\ pc = "update" => cur.op = "CloseWrite"
  /\ pc \notin Ended => \A p \in DOMAIN fileWatchMap \ fileLocks :
       fileWatchMap[p].idx \in DOMAIN srcList =>
         srcList[fileWatchMap[p].idx].size = fileWatchMap[p].size

\* Of every file and directory that is followed the server knows, or will.
SyncInv ==
  pc \notin Ended /\ ~restarted /\ ~Lost =>
    \A p \in followed : Parent[p] \in restored \/ InSync(p)

\* The names of files, of directories and of neither are different ones.
LEMMA Names ==
  /\ NoPath \notin Paths /\ NoPath \notin Folders /\ Self \notin Paths
  /\ Files \subseteq Paths /\ Files \cap Folders = {}
BY NameAssumption, TreeAssumption DEF Paths

\* What the kernel does with an event: it adds it, or an overflow, or finds it at
\* the end of the queue, which stays within its limit.
LEMMA Notified ==
  ASSUME NEW q \in Seq(Raws), NEW raw, raw.wd \in marks => raw \in Raws
  PROVE  /\ Notify(q, raw) \in Seq(Raws)
         /\ \/ Notify(q, raw) = q
            \/ raw.wd \in marks /\ Notify(q, raw) = Append(q, raw)
            \/ Notify(q, raw) = Append(q, Overflow)
         /\ raw.wd \in marks =>
              \E i \in 1..Len(Notify(q, raw)) : Notify(q, raw)[i] \in {raw, Overflow}
         /\ Bounded(q) => Bounded(Notify(q, raw))
<1>0. Overflow \in Raws /\ QueueMax \in Nat /\ Len(q) \in Nat /\ QueueMax >= 1
  BY TreeAssumption DEF Raws
<1>1. CASE raw.wd \notin marks
  BY <1>1 DEF Notify
<1>2. CASE raw.wd \in marks /\ q # << >> /\ q[Len(q)] \in {raw, Overflow}
  <2>1. Notify(q, raw) = q
    BY <1>2 DEF Notify, Enqueue, Last
  <2>2. Len(q) \in 1..Len(q)
    BY <1>0, <1>2
  <2> QED
    BY <1>2, <2>1, <2>2
<1>3. CASE raw.wd \in marks /\ (q = << >> \/ q[Len(q)] \notin {raw, Overflow})
  <2> DEFINE new == IF Len(q) < QueueMax THEN raw ELSE Overflow
  <2>1. Notify(q, raw) = Append(q, new)
    BY <1>3 DEF Notify, Enqueue, Last
  <2>2. new \in Raws
    BY <1>0, <1>3
  <2>3. Len(Append(q, new)) = Len(q) + 1 /\ Append(q, new)[Len(q) + 1] = new
        /\ Append(q, new) \in Seq(Raws)
    BY <1>0, <2>2, AppendProperties
  <2>4. new \in {raw, Overflow} /\ (Len(q) >= QueueMax => new = Overflow)
    BY <1>0
  <2>5. Bounded(q) => Len(q) <= QueueMax
    BY <1>0, <1>3 DEF Bounded
  <2> HIDE DEF new
  <2>6. Len(q) + 1 \in 1..(Len(q) + 1)
    BY <1>0
  <2> QED
    BY <1>0, <1>3, <2>1, <2>3, <2>4, <2>5, <2>6 DEF Bounded
<1> QED
  BY <1>1, <1>2, <1>3

\* What is unread before is unread after, in its place.
Extends(s, t) == Len(s) <= Len(t) /\ \A i \in 1..Len(s) : t[i] = s[i]

\* From s to t, the kernel has told of raw.
Told(s, t, raw) ==
  /\ t \in Seq(Raws) /\ Extends(s, t)
  /\ \/ t = s
     \/ raw.wd \in marks /\ t = Append(s, raw)
     \/ t = Append(s, Overflow)
  /\ raw.wd \in marks => \E i \in 1..Len(t) : t[i] \in {raw, Overflow}

\* What is told is told behind what the reader has taken.
LEMMA UnreadTold ==
  ASSUME NEW b \in Seq(Raws), NEW q \in Seq(Raws),
         NEW raw, raw.wd \in marks => raw \in Raws
  PROVE  Told(b \o q, b \o Notify(q, raw), raw)
<1> DEFINE n == Notify(q, raw)
<1>1. n \in Seq(Raws) /\ b \o q \in Seq(Raws) /\ b \o n \in Seq(Raws)
  BY Notified, ConcatProperties
<1>2. /\ Len(b \o q) = Len(b) + Len(q) /\ Len(b \o n) = Len(b) + Len(n)
      /\ Len(b) \in Nat /\ Len(q) \in Nat /\ Len(n) \in Nat
      /\ \A i \in 1..Len(n) : (b \o n)[Len(b) + i] = n[i]
  <2>1. /\ Len(b \o q) = Len(b) + Len(q) /\ Len(b \o n) = Len(b) + Len(n)
        /\ Len(b) \in Nat /\ Len(q) \in Nat /\ Len(n) \in Nat
    BY <1>1, ConcatProperties, LenProperties
  <2>2. \A i \in 1..Len(n) : (b \o n)[Len(b) + i] = n[i]
    <3> SUFFICES ASSUME NEW i \in 1..Len(n) PROVE (b \o n)[Len(b) + i] = n[i]
      OBVIOUS
    <3>1. Len(b) + i \in 1..Len(b) + Len(n) /\ ~(Len(b) + i <= Len(b)) /\ Len(b) + i - Len(b) = i
      BY <2>1
    <3> HIDE DEF n
    <3> QED
      BY <1>1, <3>1, ConcatProperties
  <2> QED
    BY <2>1, <2>2
<1>3. \/ b \o n = b \o q
      \/ raw.wd \in marks /\ b \o n = Append(b \o q, raw)
      \/ b \o n = Append(b \o q, Overflow)
  <2>1. ASSUME NEW x \in Raws
        PROVE  b \o Append(q, x) = Append(b \o q, x)
    <3>1. /\ Append(q, x) = q \o <<x>> /\ <<x>> \in Seq(Raws)
          /\ Append(b \o q, x) = (b \o q) \o <<x>>
      BY <1>1, AppendIsConcat
    <3> QED
      BY <3>1, ConcatAssociative
  <2>2. Overflow \in Raws
    BY DEF Raws
  <2> QED
    BY <2>1, <2>2, Notified
<1>4. raw.wd \in marks => \E i \in 1..Len(b \o n) : (b \o n)[i] \in {raw, Overflow}
  <2> SUFFICES ASSUME raw.wd \in marks
               PROVE  \E i \in 1..Len(b \o n) : (b \o n)[i] \in {raw, Overflow}
    OBVIOUS
  <2>1. PICK i \in 1..Len(n) : n[i] \in {raw, Overflow}
    BY Notified
  <2>2. Len(b) + i \in 1..Len(b \o n)
    BY <1>2
  <2> HIDE DEF n
  <2> QED
    BY <1>2, <2>1, <2>2
<1>5. Len(b \o q) <= Len(b \o n) /\ \A i \in 1..Len(b \o q) : (b \o n)[i] = (b \o q)[i]
  <2> HIDE DEF n
  <2>1. ASSUME NEW x, b \o n = Append(b \o q, x), x \in Raws
        PROVE  /\ Len(b \o q) <= Len(b \o n)
               /\ \A i \in 1..Len(b \o q) : (b \o n)[i] = (b \o q)[i]
    BY <1>1, <2>1, AppendProperties, LenProperties
  <2>2. Overflow \in Raws
    BY DEF Raws
  <2>3. CASE b \o n = b \o q
    BY <1>1, <2>3, LenProperties
  <2>4. CASE b \o n = Append(b \o q, Overflow)
    BY <2>1, <2>2, <2>4
  <2>5. CASE raw.wd \in marks /\ b \o n = Append(b \o q, raw)
    BY <2>1, <2>5
  <2> QED
    BY <1>3, <2>3, <2>4, <2>5
<1> HIDE DEF n
<1>6. Told(b \o q, b \o n, raw)
  BY <1>1, <1>3, <1>4, <1>5 DEF Told, Extends
<1> QED
  BY <1>6 DEF n

\* Of what is told nothing comes after the removal of its directory.
LEMMA ToldOrdered ==
  ASSUME NEW s \in Seq(Raws), NEW t, NEW raw, Told(s, t, raw), Ordered(s),
         Tells(raw) => \A i \in 1..Len(s) : s[i].mask = "IN_DELETE_SELF" => s[i].wd # raw.wd
  PROVE  Ordered(t)
<1>0. ~Tells(Overflow)
  BY DEF Tells, Overflow
<1>1. CASE t = s
  BY <1>1
<1>2. ASSUME NEW x, x = raw \/ x = Overflow, t = Append(s, x)
      PROVE  Ordered(t)
  <2>1. Len(t) = Len(s) + 1 /\ Len(s) \in Nat /\ t[Len(s) + 1] = x
        /\ \A i \in 1..Len(s) : t[i] = s[i]
    BY <1>2 DEF Told, Extends
  <2>2. SUFFICES ASSUME NEW i \in 1..Len(t), NEW j \in 1..Len(t), i < j,
                        t[i].mask = "IN_DELETE_SELF", Tells(t[j])
                 PROVE  t[j].wd # t[i].wd
    BY DEF Ordered
  <2>3. i \in 1..Len(s)
    BY <2>1, <2>2
  <2>4. CASE j \in 1..Len(s)
    BY <2>1, <2>2, <2>3, <2>4 DEF Ordered
  <2>5. CASE j = Len(s) + 1
    BY <1>0, <1>2, <2>1, <2>2, <2>3, <2>5
  <2> QED
    BY <2>1, <2>4, <2>5
<1> QED
  BY <1>1, <1>2 DEF Told

\* What is told of a leaf is no removal of a watched directory.
LEMMA ToldRemoved ==
  ASSUME NEW s \in Seq(Raws), NEW t, NEW raw, Told(s, t, raw), Removed(s),
         raw.mask # "IN_DELETE_SELF"
  PROVE  Removed(t)
<1>0. Overflow.mask # "IN_DELETE_SELF"
  BY DEF Overflow
<1>1. CASE t = s
  BY <1>1
<1>2. ASSUME NEW x, x = raw \/ x = Overflow, t = Append(s, x)
      PROVE  Removed(t)
  <2>1. Len(t) = Len(s) + 1 /\ Len(s) \in Nat /\ t[Len(s) + 1] = x
        /\ \A i \in 1..Len(s) : t[i] = s[i]
    BY <1>2 DEF Told, Extends
  <2>2. \A i \in 1..Len(t) : i \in 1..Len(s) \/ i = Len(s) + 1
    BY <2>1
  <2> QED
    BY <1>0, <1>2, <2>1, <2>2 DEF Removed
<1> QED
  BY <1>1, <1>2 DEF Told

\* What is told by a known descriptor is known.
LEMMA ToldNamed ==
  ASSUME NEW s \in Seq(Raws), NEW t, NEW raw, Told(s, t, raw), Named(s),
         restored = {} /\ Tells(raw) /\ raw.wd \in marks => raw.wd \in DOMAIN paths
  PROVE  Named(t)
<1>0. ~Tells(Overflow)
  BY DEF Tells, Overflow
<1>1. CASE t = s
  BY <1>1
<1>2. ASSUME NEW x, (x = raw /\ raw.wd \in marks) \/ x = Overflow, t = Append(s, x)
      PROVE  Named(t)
  <2>1. Len(t) = Len(s) + 1 /\ Len(s) \in Nat /\ t[Len(s) + 1] = x
        /\ \A i \in 1..Len(s) : t[i] = s[i]
    BY <1>2 DEF Told, Extends
  <2>2. \A i \in 1..Len(t) : i \in 1..Len(s) \/ i = Len(s) + 1
    BY <2>1
  <2> QED
    BY <1>0, <1>2, <2>1, <2>2 DEF Named
<1> QED
  BY <1>1, <1>2 DEF Told

\* Nothing is told but that.
LEMMA ToldOnly ==
  ASSUME NEW s \in Seq(Raws), NEW t, NEW raw, Told(s, t, raw), NEW i \in 1..Len(t)
  PROVE  \/ i \in 1..Len(s) /\ t[i] = s[i]
         \/ t[i] = raw /\ raw.wd \in marks
         \/ t[i] = Overflow
<1>1. CASE t = s
  BY <1>1
<1>2. ASSUME NEW x, t = Append(s, x)
      PROVE  (i \in 1..Len(s) /\ t[i] = s[i]) \/ t[i] = x
  <2>1. Len(t) = Len(s) + 1 /\ Len(s) \in Nat /\ t[Len(s) + 1] = x
        /\ \A j \in 1..Len(s) : t[j] = s[j]
    BY <1>2 DEF Told, Extends
  <2> QED
    BY <2>1
<1> QED
  BY <1>1, <1>2 DEF Told

\* The event of an operation on a leaf.
LEMMA LeafRaw ==
  ASSUME NEW p \in Paths, NEW mask \in LeafMasks
  PROVE  LET raw == Raw(Parent[p], mask, p) IN
         /\ raw.wd = inode[Parent[p]] /\ raw.leaf = p /\ raw.mask = mask
         /\ raw.wd \in marks => raw \in Raws
         /\ Tells(raw) /\ mask # "IN_DELETE_SELF"
         /\ Parent[p] \in Folders
BY TreeAssumption DEF Raw, Raws, Tells, LeafMasks

\* An operation that is told of as one on a leaf.
LEMMA LeafTold ==
  ASSUME QueueInv, MapInv, NEW q \in Seq(Raws), Kept(batch \o q),
         NEW p \in Paths, NEW mask \in LeafMasks
  PROVE  /\ Told(batch \o q, batch \o Notify(q, Raw(Parent[p], mask, p)),
                 Raw(Parent[p], mask, p))
         /\ Kept(batch \o Notify(q, Raw(Parent[p], mask, p)))
         /\ Notify(q, Raw(Parent[p], mask, p)) \in Seq(Raws)
         /\ Bounded(q) => Bounded(Notify(q, Raw(Parent[p], mask, p)))
<1> DEFINE raw == Raw(Parent[p], mask, p)
           s == batch \o q
           t == batch \o Notify(q, raw)
<1>1. /\ raw.wd = inode[Parent[p]] /\ raw.mask # "IN_DELETE_SELF"
      /\ raw.wd \in marks => raw \in Raws
      /\ Parent[p] \in Folders
  BY LeafRaw
<1> HIDE DEF raw
<1>2. /\ Notify(q, raw) \in Seq(Raws) /\ Told(s, t, raw)
      /\ Bounded(q) => Bounded(Notify(q, raw))
  BY <1>1, Notified, UnreadTold DEF QueueInv
<1>3. s \in Seq(Raws)
  BY ConcatProperties DEF QueueInv
<1> HIDE DEF s, t
<1>4. Ordered(t)
  BY <1>1, <1>2, <1>3, ToldOrdered DEF Kept, Removed, s
<1>5. Removed(t)
  BY <1>1, <1>2, <1>3, ToldRemoved DEF Kept, s
<1>6. Named(t)
  BY <1>1, <1>2, <1>3, ToldNamed DEF Kept, MapInv, s
<1> QED
  BY <1>2, <1>4, <1>5, <1>6 DEF Kept, raw, s, t

watchVars == <<marks, watches, paths, restored, inode, made, batch>>

\* An operation that makes and removes no directory.
LEMMA LeafOp ==
  ASSUME QueueInv, WatchInv, UNCHANGED watchVars,
         NEW p \in Paths, NEW mask \in LeafMasks,
         queue' = Notify(queue, Raw(Parent[p], mask, p))
  PROVE  QueueInv' /\ WatchInv' /\ Told(Unread, Unread', Raw(Parent[p], mask, p))
<1>1. /\ Told(Unread, Unread', Raw(Parent[p], mask, p)) /\ Kept(Unread')
      /\ queue' \in Seq(Raws) /\ Bounded(queue')
  BY LeafTold DEF Unread, QueueInv, WatchInv, watchVars
<1>2. QueueInv'
  BY <1>1 DEF QueueInv, watchVars, Raws, Bounded
<1>3. WatchInv'
  BY <1>1 DEF WatchInv, MapInv, Kept, Ordered, Removed, Named, watchVars, Tells
<1> QED
  BY <1>1, <1>2, <1>3

\* Nothing of the watcher is changed by the user but the queue.
LEMMA UserFrame == User => UNCHANGED <<batch, event, marks, watches, paths, restored>>
BY DEF User, Create, OpenForWriting, Modify, CloseFile, Delete, Move, Touch, MakeDir,
       RemoveDir, Operation, readerVars, mapVars

\* The directories that are there have inodes of their own, and the files and
\* directories in them, and none but those, may be.
LEMMA UserTree == TreeInv /\ User => TreeInv'
<1> SUFFICES ASSUME TreeInv, User PROVE TreeInv'
  OBVIOUS
<1> USE Names
<1>1. ASSUME NEW p \in Files, Create(p) PROVE TreeInv'
  <2>1. /\ inode' = inode /\ made' = made /\ size' = [size EXCEPT ![p] = 0]
        /\ writing' = writing \cup {p} /\ followed' \subseteq followed \cup {p}
        /\ inode[Parent[p]] # 0
    BY <1>1 DEF Create
  <2>2. size' \in [Files -> 0..MaxSize \cup {Absent}] /\ 0 # Absent
    BY <2>1, TreeAssumption DEF TreeInv, Absent
  <2> QED
    BY <2>1, <2>2 DEF TreeInv, Exists
<1>2. ASSUME NEW p \in Files, OpenForWriting(p) PROVE TreeInv'
  BY <1>2 DEF OpenForWriting, TreeInv, Exists
<1>3. ASSUME NEW p \in Files, Modify(p) PROVE TreeInv'
  <2>1. PICK n \in 0..MaxSize \ {size[p]} : size' = [size EXCEPT ![p] = n]
    BY <1>3 DEF Modify
  <2>2. /\ inode' = inode /\ made' = made /\ writing' = writing
        /\ followed' \subseteq followed /\ p \in writing
    BY <1>3 DEF Modify
  <2>3. n # Absent /\ size[p] # Absent
    BY <2>2, TreeAssumption DEF TreeInv, Absent
  <2> QED
    BY <2>1, <2>2, <2>3 DEF TreeInv, Exists
<1>4. ASSUME NEW p \in Files, CloseFile(p) PROVE TreeInv'
  BY <1>4 DEF CloseFile, TreeInv, Exists
<1>5. ASSUME NEW p \in Files, Delete(p) PROVE TreeInv'
  BY <1>5 DEF Delete, TreeInv, Exists
<1>6. ASSUME NEW p \in Files, Touch(p) PROVE TreeInv'
  BY <1>6 DEF Touch, TreeInv, Exists
<1>7. ASSUME NEW p \in Files, NEW q \in Files, Move(p, q) PROVE TreeInv'
  <2>1. /\ inode' = inode /\ made' = made /\ writing' = writing
        /\ size' = [size EXCEPT ![q] = size[p], ![p] = Absent]
        /\ followed' \subseteq (followed \ {p, q}) \cup {q}
        /\ p # q /\ p \notin writing /\ q \notin writing
        /\ size[p] # Absent /\ inode[Parent[q]] # 0
    BY <1>7 DEF Move
  <2>2. size' \in [Files -> 0..MaxSize \cup {Absent}]
    BY <2>1 DEF TreeInv
  <2>3. \A r \in Files : size'[r] = IF r = p THEN Absent ELSE IF r = q THEN size[p] ELSE size[r]
    BY <2>1 DEF TreeInv
  <2> QED
    BY <2>1, <2>2, <2>3 DEF TreeInv, Exists
<1>8. ASSUME NEW d \in Dirs, MakeDir(d) PROVE TreeInv'
  <2>1. /\ size' = size /\ writing' = writing /\ made' = made + 1
        /\ inode' = [inode EXCEPT ![d] = made + 1]
        /\ inode[d] = 0 /\ inode[Parent[d]] # 0
        /\ followed' \subseteq followed \cup {d}
    BY <1>8 DEF MakeDir
  <2>2. d \in Folders /\ made \in Nat /\ made + 1 # 0 /\ \A e \in Folders : inode[e] # made + 1
    BY DEF TreeInv, Folders
  <2>3. inode' \in [Folders -> 0..made']
    BY <2>1, <2>2 DEF TreeInv
  <2>4. \A e \in Folders : inode'[e] = IF e = d THEN made + 1 ELSE inode[e]
    BY <2>1 DEF TreeInv
  <2>5. Parent \in [Paths -> Folders] /\ d \in Paths
    BY TreeAssumption DEF Paths
  <2> QED
    BY <2>1, <2>2, <2>3, <2>4, <2>5 DEF TreeInv, Exists
<1>9. ASSUME NEW d \in Dirs, RemoveDir(d) PROVE TreeInv'
  <2>1. /\ size' = size /\ writing' = writing /\ made' = made
        /\ inode' = [inode EXCEPT ![d] = 0]
        /\ \A p \in Paths : Parent[p] = d => ~Exists(p)
        /\ followed' = followed \ {d}
    BY <1>9 DEF RemoveDir
  <2>2. d \in Folders /\ made \in Nat
    BY DEF TreeInv, Folders
  <2>3. inode' \in [Folders -> 0..made']
    BY <2>1, <2>2 DEF TreeInv
  <2>4. \A e \in Folders : inode'[e] = IF e = d THEN 0 ELSE inode[e]
    BY <2>1 DEF TreeInv
  <2>5. Parent \in [Paths -> Folders] /\ d \in Paths
    BY TreeAssumption DEF Paths
  <2> QED
    BY <2>1, <2>2, <2>3, <2>4, <2>5 DEF TreeInv, Exists
<1> QED
  BY <1>1, <1>2, <1>3, <1>4, <1>5, <1>6, <1>7, <1>8, <1>9 DEF User

\* Extends is transitive.
LEMMA ExtendsMore ==
  ASSUME NEW r \in Seq(Raws), NEW s \in Seq(Raws), NEW t, Extends(r, s), Extends(s, t),
         t \in Seq(Raws)
  PROVE  Extends(r, t)
BY LenProperties DEF Extends

\* Whatever the user does, the queue grows, stays within its limit and agrees with
\* the maps: a directory that is removed is empty, and its removal is the last of it.
LEMMA UserWatch ==
  ASSUME TreeInv, QueueInv, WatchInv, User
  PROVE  QueueInv' /\ WatchInv' /\ Extends(Unread, Unread')
<1>0. UNCHANGED <<batch, event, marks, watches, paths, restored>>
  BY UserFrame
<1>1. CASE queue' = queue /\ UNCHANGED <<inode, made>>
  <2>1. Unread' = Unread
    BY <1>0, <1>1 DEF Unread
  <2>2. QueueInv'
    BY <1>0, <1>1 DEF QueueInv, Raws, Bounded
  <2>3. MapInv'
    BY <1>0, <1>1 DEF WatchInv, MapInv
  <2>4. Unread \in Seq(Raws)
    BY ConcatProperties DEF QueueInv, Unread
  <2>5. Extends(Unread, Unread')
    BY <2>1, <2>4, LenProperties DEF Extends
  <2> QED
    BY <1>0, <1>1, <2>1, <2>2, <2>3, <2>5 DEF WatchInv, Kept, Ordered, Removed, Named, Tells
<1>2. ASSUME NEW p \in Paths, NEW mask \in LeafMasks,
             queue' = Notify(queue, Raw(Parent[p], mask, p)), UNCHANGED <<inode, made>>
      PROVE  QueueInv' /\ WatchInv' /\ Extends(Unread, Unread')
  BY <1>0, <1>2, LeafOp DEF watchVars, Told
<1>3. ASSUME NEW p \in Files, NEW q \in Files, Move(p, q)
      PROVE  QueueInv' /\ WatchInv' /\ Extends(Unread, Unread')
  <2> DEFINE half == Notify(queue, Raw(Parent[p], "IN_MOVED_FROM", p))
  <2>1. /\ p \in Paths /\ q \in Paths
        /\ "IN_MOVED_FROM" \in LeafMasks /\ "IN_MOVED_TO" \in LeafMasks
    BY DEF Paths, LeafMasks
  <2>2. queue' = Notify(half, Raw(Parent[q], "IN_MOVED_TO", q)) /\ UNCHANGED <<inode, made>>
    BY <1>3 DEF Move
  <2>3. half \in Seq(Raws) /\ Kept(batch \o half)
    BY <2>1, LeafTold DEF QueueInv, WatchInv, Unread
  <2>4. Bounded(half)
    BY <2>1, LeafTold DEF QueueInv, WatchInv, Unread
  <2> HIDE DEF half
  <2>5. Kept(Unread') /\ queue' \in Seq(Raws)
    BY <1>0, <2>1, <2>2, <2>3, LeafTold DEF WatchInv, Unread
  <2>6. Bounded(queue')
    BY <2>1, <2>2, <2>3, <2>4, LeafTold DEF WatchInv
  <2>7. QueueInv'
    BY <1>0, <2>2, <2>5, <2>6 DEF QueueInv, Raws, Bounded
  <2>8. Extends(Unread, batch \o half) /\ Unread \in Seq(Raws) /\ batch \o half \in Seq(Raws)
    BY <2>1, <2>3, LeafTold, ConcatProperties DEF QueueInv, WatchInv, Unread, Told, half
  <2>9. Extends(batch \o half, Unread') /\ Unread' \in Seq(Raws)
    BY <1>0, <2>1, <2>2, <2>3, LeafTold DEF WatchInv, Unread, Told
  <2>10. Extends(Unread, Unread')
    BY <2>8, <2>9, ExtendsMore
  <2> QED
    BY <1>0, <2>2, <2>5, <2>7, <2>10 DEF WatchInv, MapInv, Kept, Ordered, Removed, Named, Tells
<1>4. ASSUME NEW d \in Dirs, MakeDir(d)
      PROVE  QueueInv' /\ WatchInv' /\ Extends(Unread, Unread')
  <2> DEFINE raw == Raw(Parent[d], "IN_CREATE", d)
  <2>1. d \in Paths /\ "IN_CREATE" \in LeafMasks /\ d \in Folders
    BY DEF Paths, LeafMasks, Folders
  <2>2. /\ queue' = Notify(queue, raw) /\ made' = made + 1
        /\ inode' = [inode EXCEPT ![d] = made + 1]
    BY <1>4 DEF MakeDir
  <2>4. Ordered(Unread') /\ Removed(Unread') /\ Named(Unread') /\ queue' \in Seq(Raws)
    BY <1>0, <2>1, <2>2, LeafTold DEF QueueInv, WatchInv, Kept, Unread
  <2>5. Bounded(queue')
    BY <2>1, <2>2, LeafTold DEF QueueInv, WatchInv, Unread
  <2>6. /\ made \in Nat /\ inode' \in [Folders -> Nat]
        /\ \A e \in Folders : inode'[e] = IF e = d THEN made + 1 ELSE inode[e]
    BY <2>1, <2>2 DEF TreeInv
  <2>7. QueueInv'
    BY <1>0, <2>2, <2>4, <2>5, <2>6 DEF QueueInv, Raws, Bounded
  <2>8. /\ Unread' \in Seq(Raws)
        /\ \A i \in 1..Len(Unread') :
             Unread'[i].mask = "IN_DELETE_SELF" => Unread'[i].wd \in marks
    <3>1. Unread' \in Seq(Raws)
      BY <1>0, <2>4, ConcatProperties DEF QueueInv, Unread
    <3>2. \A r \in Raws : r.mask = "IN_DELETE_SELF" => r.wd \in marks
      BY DEF Raws, Overflow, LeafMasks, SelfMasks
    <3> QED
      BY <3>1, <3>2, ElementOfSeq
  <2>9. Removed(Unread)'
    <3> SUFFICES ASSUME NEW i \in 1..Len(Unread'), Unread'[i].mask = "IN_DELETE_SELF",
                        NEW e \in Folders
                 PROVE  inode'[e] # Unread'[i].wd
      BY DEF Removed
    <3>1. Unread'[i].wd \in 1..made
      BY <2>8 DEF QueueInv
    <3>2. CASE e = d
      BY <2>6, <3>1, <3>2
    <3>3. CASE e # d
      BY <2>4, <2>6, <3>3 DEF Removed
    <3> QED
      BY <3>2, <3>3
  <2>10. MapInv'
    BY <1>0, <2>2, <2>6 DEF WatchInv, MapInv, QueueInv
  <2>11. Extends(Unread, Unread')
    BY <1>0, <2>1, <2>2, LeafTold DEF QueueInv, WatchInv, Unread, Told
  <2> QED
    BY <1>0, <2>4, <2>7, <2>9, <2>10, <2>11 DEF WatchInv, Kept, Ordered, Named, Tells
<1>5. ASSUME NEW d \in Dirs, RemoveDir(d)
      PROVE  QueueInv' /\ WatchInv' /\ Extends(Unread, Unread')
  <2> DEFINE told == Notify(queue, Raw(Parent[d], "IN_DELETE", d))
             self == Raw(d, "IN_DELETE_SELF", Self)
             gone == Notify(told, self)
             last == Raw(d, "IN_IGNORED", Self)
  <2>1. d \in Paths /\ "IN_DELETE" \in LeafMasks /\ d \in Folders
    BY DEF Paths, LeafMasks, Folders
  <2>2. /\ queue' = Notify(gone, last) /\ made' = made
        /\ inode' = [inode EXCEPT ![d] = 0] /\ inode[d] # 0
    BY <1>5 DEF RemoveDir
  <2>3. /\ told \in Seq(Raws) /\ Kept(batch \o told)
        /\ Bounded(told)
    BY <2>1, LeafTold DEF QueueInv, WatchInv, Unread
  <2>4. /\ self.wd = inode[d] /\ self.mask = "IN_DELETE_SELF" /\ Tells(self)
        /\ self.wd \in marks => self \in Raws
        /\ last.mask = "IN_IGNORED" /\ ~Tells(last)
        /\ last.wd \in marks => last \in Raws
    BY DEF Raw, Raws, SelfMasks, Tells
  <2> HIDE DEF told, self, last
  <2>5. /\ gone \in Seq(Raws) /\ Told(batch \o told, batch \o gone, self)
        /\ Bounded(gone)
    BY <2>3, <2>4, Notified, UnreadTold DEF QueueInv
  <2> HIDE DEF gone
  <2>6. /\ queue' \in Seq(Raws) /\ Told(batch \o gone, Unread', last)
        /\ Bounded(queue')
    BY <1>0, <2>2, <2>4, <2>5, Notified, UnreadTold DEF QueueInv, Unread
  <2> DEFINE u1 == batch \o told
             u2 == batch \o gone
  <2>7. /\ u1 \in Seq(Raws) /\ u2 \in Seq(Raws) /\ Kept(u1)
        /\ Told(u1, u2, self) /\ Told(u2, Unread', last)
    BY <2>3, <2>5, <2>6, ConcatProperties DEF QueueInv
  <2>14. Told(Unread, u1, Raw(Parent[d], "IN_DELETE", d)) /\ Unread \in Seq(Raws)
    BY <2>1, LeafTold, ConcatProperties DEF QueueInv, WatchInv, Unread, told
  <2> HIDE DEF u1, u2
  <2>15. Extends(Unread, Unread')
    <3>1. Extends(Unread, u2)
      BY <2>7, <2>14, ExtendsMore DEF Told
    <3> QED
      BY <2>7, <2>14, <3>1, ExtendsMore DEF Told
  <2>8. Ordered(Unread')
    <3>1. Ordered(u2)
      BY <2>1, <2>4, <2>7, ToldOrdered DEF Kept, Removed
    <3> QED
      BY <2>4, <2>7, <3>1, ToldOrdered
  <2>9. Named(Unread')
    <3>1. Named(u2)
      BY <2>1, <2>4, <2>7, ToldNamed DEF Kept, WatchInv, MapInv
    <3> QED
      BY <2>4, <2>7, <3>1, ToldNamed
  <2>10. /\ inode \in [Folders -> Nat] /\ \A e \in Folders : inode'[e] = IF e = d THEN 0 ELSE inode[e]
         /\ \A e \in Folders : e # d => inode[e] # inode[d]
    BY <2>1, <2>2 DEF TreeInv
  <2>11. Removed(Unread)'
    <3> SUFFICES ASSUME NEW i \in 1..Len(Unread'), Unread'[i].mask = "IN_DELETE_SELF",
                        NEW e \in Folders
                 PROVE  inode'[e] # Unread'[i].wd
      BY DEF Removed
    <3>1. i \in 1..Len(u2) /\ Unread'[i] = u2[i]
      BY <2>4, <2>7, ToldOnly DEF Overflow
    <3>2. \/ i \in 1..Len(u1) /\ Unread'[i] = u1[i]
          \/ Unread'[i] = self
      BY <2>7, <3>1, ToldOnly DEF Overflow
    <3>3. CASE Unread'[i] = self
      BY <2>2, <2>4, <2>10, <3>3
    <3>4. CASE i \in 1..Len(u1) /\ Unread'[i] = u1[i]
      <4>1. inode[e] # u1[i].wd
        BY <2>7, <3>4 DEF Kept, Removed
      <4>2. u1[i].wd # 0
        <5>1. u1[i] \in Raws /\ u1[i].mask = "IN_DELETE_SELF"
          BY <2>7, <3>4, ElementOfSeq
        <5>2. u1[i].wd \in marks
          BY <5>1 DEF Raws, Overflow, LeafMasks, SelfMasks
        <5> QED
          BY <5>2 DEF QueueInv, TreeInv
      <4> QED
        BY <2>10, <3>4, <4>1, <4>2
    <3> QED
      BY <3>2, <3>3, <3>4
  <2>12. QueueInv'
    BY <1>0, <2>2, <2>6 DEF QueueInv, Raws, Bounded
  <2>13. MapInv'
    BY <1>0, <2>2, <2>10 DEF WatchInv, MapInv, QueueInv
  <2> QED
    BY <1>0, <2>8, <2>9, <2>11, <2>12, <2>13, <2>15 DEF WatchInv, Kept, Ordered, Named, Tells
<1>6. ASSUME NEW p \in Files, Create(p) \/ OpenForWriting(p) \/ Modify(p) \/ CloseFile(p)
                              \/ Delete(p) \/ Touch(p)
      PROVE  QueueInv' /\ WatchInv' /\ Extends(Unread, Unread')
  <2>1. /\ UNCHANGED <<inode, made>>
        /\ \/ queue' = queue
           \/ \E mask \in LeafMasks : queue' = Notify(queue, Raw(Parent[p], mask, p))
    BY <1>6 DEF Create, OpenForWriting, Modify, CloseFile, Delete, Touch, LeafMasks
  <2>2. p \in Paths
    BY DEF Paths
  <2> QED
    BY <1>1, <1>2, <2>1, <2>2
<1> QED
  BY <1>3, <1>4, <1>5, <1>6 DEF User

-----------------------------------------------------------------------------
(* The reader. *)

\* Without(f, k) and With(f, k, v), entry by entry.
LEMMA MapFacts ==
  ASSUME NEW g, NEW k, NEW v
  PROVE  /\ DOMAIN Without(g, k) = DOMAIN g \ {k}
         /\ \A x \in DOMAIN g \ {k} : Without(g, k)[x] = g[x]
         /\ DOMAIN With(g, k, v) = DOMAIN g \cup {k}
         /\ With(g, k, v)[k] = v
         /\ \A x \in DOMAIN g \ {k} : With(g, k, v)[x] = g[x]
BY DEF With, Without

\* The first of what is unread.
LEMMA UnreadHead ==
  ASSUME QueueInv, batch # << >>, batch' = Tail(batch), queue' = queue
  PROVE  /\ Unread \in Seq(Raws) /\ 1 \in 1..Len(Unread)
         /\ Head(batch) = Unread[1] /\ Head(batch) \in Raws
         /\ batch' \in Seq(Raws) /\ Unread' \in Seq(Raws)
         /\ Len(Unread') = Len(Unread) - 1
         /\ \A i \in 1..Len(Unread') : i + 1 \in 1..Len(Unread) /\ Unread'[i] = Unread[i + 1]
<1>1. /\ batch \in Seq(Raws) /\ queue \in Seq(Raws)
      /\ Head(batch) \in Raws /\ Tail(batch) \in Seq(Raws) /\ Len(Tail(batch)) = Len(batch) - 1
      /\ \A i \in 1..Len(Tail(batch)) : Tail(batch)[i] = batch[i + 1]
      /\ Len(batch) \in Nat /\ Len(batch) >= 1 /\ Len(queue) \in Nat
      /\ Head(batch) = batch[1]
  BY HeadTailProperties, EmptySeq, LenProperties DEF QueueInv
<1>2. /\ Unread \in Seq(Raws) /\ Len(Unread) = Len(batch) + Len(queue)
      /\ \A i \in 1..Len(batch) + Len(queue) :
           Unread[i] = IF i <= Len(batch) THEN batch[i] ELSE queue[i - Len(batch)]
  BY <1>1, ConcatProperties DEF Unread
<1>3. /\ Unread' \in Seq(Raws) /\ Len(Unread') = Len(batch') + Len(queue)
      /\ \A i \in 1..Len(batch') + Len(queue) :
           Unread'[i] = IF i <= Len(batch') THEN batch'[i] ELSE queue[i - Len(batch')]
  BY <1>1, ConcatProperties DEF Unread
<1>4. ASSUME NEW i \in 1..Len(Unread')
      PROVE  i + 1 \in 1..Len(Unread) /\ Unread'[i] = Unread[i + 1]
  <2>1. i + 1 \in 1..Len(Unread) /\ Len(batch') = Len(batch) - 1
    BY <1>1, <1>2, <1>3
  <2>2. CASE i <= Len(batch')
    <3>1. Unread'[i] = batch[i + 1] /\ i + 1 <= Len(batch)
      BY <1>1, <1>3, <2>1, <2>2
    <3> QED
      BY <1>2, <2>1, <3>1
  <2>3. CASE ~(i <= Len(batch'))
    <3>1. Unread'[i] = queue[i - Len(batch')] /\ ~(i + 1 <= Len(batch))
      BY <1>1, <1>3, <2>1, <2>3
    <3>2. i - Len(batch') = i + 1 - Len(batch)
      BY <1>1, <2>1
    <3> QED
      BY <1>2, <2>1, <3>1, <3>2
  <2> QED
    BY <2>2, <2>3
<1> QED
  BY <1>1, <1>2, <1>3, <1>4

\* The reader forgets a descriptor with the last event that is told by it.
LEMMA LookupWatch ==
  ASSUME TreeInv, QueueInv, WatchInv, Lookup
  PROVE  QueueInv' /\ WatchInv'
<1> DEFINE raw == Head(batch)
<1>1. /\ batch # << >> /\ batch' = Tail(batch) /\ UNCHANGED <<fsVars, queue, marks, restored>>
      /\ \/ UNCHANGED <<paths, watches>>
         \/ raw.wd \in DOMAIN paths /\ raw.mask = "IN_DELETE_SELF" /\ forget(raw.wd)
  BY DEF Lookup
<1>2. /\ Unread \in Seq(Raws) /\ 1 \in 1..Len(Unread)
      /\ raw = Unread[1] /\ raw \in Raws
      /\ batch' \in Seq(Raws) /\ Unread' \in Seq(Raws)
      /\ Len(Unread') = Len(Unread) - 1
      /\ \A i \in 1..Len(Unread') : i + 1 \in 1..Len(Unread) /\ Unread'[i] = Unread[i + 1]
  BY <1>1, UnreadHead
<1> HIDE DEF raw
<1>3. QueueInv'
  BY <1>1, <1>2 DEF QueueInv, Raws, Bounded, fsVars
<1>4. Ordered(Unread')
  <2> SUFFICES ASSUME NEW i \in 1..Len(Unread'), NEW j \in 1..Len(Unread'), i < j,
                      Unread'[i].mask = "IN_DELETE_SELF", Tells(Unread'[j])
               PROVE  Unread'[j].wd # Unread'[i].wd
    BY DEF Ordered
  <2>1. i + 1 < j + 1 /\ i + 1 \in 1..Len(Unread) /\ j + 1 \in 1..Len(Unread)
        /\ Unread'[i] = Unread[i + 1] /\ Unread'[j] = Unread[j + 1]
    BY <1>2
  <2> QED
    BY <2>1 DEF WatchInv, Kept, Ordered
<1>5. Removed(Unread)'
  BY <1>1, <1>2 DEF WatchInv, Kept, Removed, fsVars
<1>6. Named(Unread)' /\ MapInv'
  <2>1. CASE UNCHANGED <<paths, watches>>
    <3>1. Named(Unread)'
      BY <1>1, <1>2, <2>1 DEF WatchInv, Kept, Named, Tells
    <3>2. MapInv'
      BY <1>1, <2>1 DEF WatchInv, MapInv, fsVars
    <3> QED
      BY <3>1, <3>2
  <2>2. CASE raw.wd \in DOMAIN paths /\ raw.mask = "IN_DELETE_SELF" /\ forget(raw.wd)
    <3>1. /\ DOMAIN paths' = DOMAIN paths \ {raw.wd}
          /\ \A w \in DOMAIN paths' : paths'[w] = paths[w]
          /\ DOMAIN watches' = DOMAIN watches \ {paths[raw.wd]}
          /\ \A d \in DOMAIN watches' : watches'[d] = watches[d]
      BY <2>2 DEF forget, Without
    <3>2. Named(Unread)'
      <4> SUFFICES ASSUME restored = {}, NEW i \in 1..Len(Unread'), Tells(Unread'[i])
                   PROVE  Unread'[i].wd \in DOMAIN paths'
        BY <1>1 DEF Named, Tells
      <4>1. i + 1 \in 1..Len(Unread) /\ Unread'[i] = Unread[i + 1] /\ 1 < i + 1
        BY <1>2
      <4>2. Unread[i + 1].wd \in DOMAIN paths
        BY <4>1 DEF WatchInv, Kept, Named
      <4>3. Unread[i + 1].wd # raw.wd
        BY <1>2, <2>2, <4>1 DEF WatchInv, Kept, Ordered
      <4> QED
        BY <3>1, <4>1, <4>2, <4>3
    <3>3. \A d \in Folders : inode[d] # raw.wd
      BY <1>2, <2>2 DEF WatchInv, Kept, Removed
    <3>4. MapInv'
      BY <1>1, <3>1, <3>3 DEF WatchInv, MapInv, fsVars
    <3> QED
      BY <3>2, <3>4
  <2> QED
    BY <1>1, <2>1, <2>2
<1> QED
  BY <1>3, <1>4, <1>5, <1>6 DEF WatchInv, Kept, Ordered, Tells

\* The reader changes nothing that is unread, and no map but with a removal.
LEMMA ReaderWatch ==
  ASSUME TreeInv, QueueInv, WatchInv, Reader
  PROVE  TreeInv' /\ QueueInv' /\ WatchInv'
<1>1. TreeInv'
  BY DEF Reader, ReadQueue, Lookup, Offer, fsVars, TreeInv, Exists
<1>2. CASE ReadQueue
  <2>1. batch = << >> /\ batch' = queue /\ queue' = << >> /\ UNCHANGED <<fsVars, mapVars>>
    BY <1>2 DEF ReadQueue
  <2>2. Unread' = Unread
    BY <2>1, ConcatEmptySeq DEF Unread, QueueInv
  <2>3. QueueInv'
    <3>1. queue' \in Seq(Raws) /\ Len(queue') = 0 /\ QueueMax \in Nat
      BY <2>1, EmptySeq, TreeAssumption
    <3> QED
      BY <2>1, <3>1 DEF QueueInv, Raws, Bounded, fsVars, mapVars
  <2> QED
    BY <1>1, <2>1, <2>2, <2>3
    DEF WatchInv, MapInv, Kept, Ordered, Removed, Named, Tells, fsVars, mapVars
<1>3. CASE Offer
  <2>1. UNCHANGED <<fsVars, mapVars, batch, queue>>
    BY <1>3 DEF Offer
  <2>2. Unread' = Unread
    BY <2>1 DEF Unread
  <2>3. QueueInv'
    BY <2>1 DEF QueueInv, Raws, Bounded, fsVars, mapVars
  <2> QED
    BY <1>1, <2>1, <2>2, <2>3
    DEF WatchInv, MapInv, Kept, Ordered, Removed, Named, Tells, fsVars, mapVars
<1> QED
  BY <1>1, <1>2, <1>3, LookupWatch DEF Reader

-----------------------------------------------------------------------------
(* The monitor. *)

\* Watcher.Add keeps the maps in agreement, or restores the directory.
LEMMA AddWatch ==
  ASSUME TreeInv, QueueInv, WatchInv, NEW d \in Folders, Add(d),
         UNCHANGED <<fsVars, queue, batch>>
  PROVE  QueueInv' /\ WatchInv'
<1>1. /\ inode[d] # 0 /\ inode[d] \in 1..made
      /\ marks' = marks \cup {inode[d]} /\ watches' = With(watches, d, inode[d])
      /\ UNCHANGED <<made, inode>> /\ Unread' = Unread
  BY DEF Add, fsVars, Unread, TreeInv
<1>2. QueueInv'
  <2>1. Raws \subseteq Raws'
    BY <1>1 DEF Raws
  <2>2. queue' \in Seq(Raws') /\ batch' \in Seq(Raws')
    BY <2>1, SeqMonotonic DEF QueueInv
  <2> QED
    BY <1>1, <2>2 DEF QueueInv, Bounded
<1>3. /\ DOMAIN watches' = DOMAIN watches \cup {d}
      /\ watches'[d] = inode[d]
      /\ \A e \in DOMAIN watches \ {d} : watches'[e] = watches[e]
  BY <1>1 DEF With
<1>4. /\ DOMAIN paths' \subseteq DOMAIN paths \cup {inode[d]}
      /\ DOMAIN paths \subseteq DOMAIN paths'
      /\ \A w \in DOMAIN paths \ {inode[d]} : paths'[w] = paths[w]
      /\ \/ inode[d] \in DOMAIN paths' /\ paths'[inode[d]] = d /\ d \notin DOMAIN watches
         \/ paths' = paths /\ d \in DOMAIN watches
  BY DEF Add, With
<1>5. /\ restored \subseteq restored'
      /\ d \in DOMAIN watches /\ d \notin restored' /\ watches[d] \in DOMAIN paths =>
           watches[d] = inode[d]
  BY DEF Add
<1>6. MapInv'
  <2>1. DOMAIN watches' \subseteq Folders /\ DOMAIN paths' \subseteq 1..made'
    BY <1>1, <1>3, <1>4 DEF WatchInv, MapInv
  <2>2. \A w \in DOMAIN paths' : paths'[w] \in Folders
    BY <1>4 DEF WatchInv, MapInv
  <2>3. \A e \in DOMAIN watches' :
          /\ watches'[e] \in 1..made'
          /\ \A c \in Folders \ {e} : inode'[c] # watches'[e]
    BY <1>1, <1>3 DEF WatchInv, MapInv, TreeInv
  <2>4. \A e \in DOMAIN watches' \ restored' :
          watches'[e] \in DOMAIN paths' /\ paths'[watches'[e]] = e
    <3> SUFFICES ASSUME NEW e \in DOMAIN watches' \ restored'
                 PROVE  watches'[e] \in DOMAIN paths' /\ paths'[watches'[e]] = e
      OBVIOUS
    <3>1. CASE e = d
      BY <1>3, <1>4, <1>5, <3>1 DEF WatchInv, MapInv
    <3>2. CASE e # d
      <4>1. e \in DOMAIN watches \ restored /\ watches'[e] = watches[e]
        BY <1>3, <1>5, <3>2
      <4>2. watches[e] \in DOMAIN paths /\ paths[watches[e]] = e /\ inode[d] # watches[e]
        BY <3>2, <4>1 DEF WatchInv, MapInv
      <4> QED
        BY <1>4, <4>1, <4>2
    <3> QED
      BY <3>1, <3>2
  <2>5. \A e \in Folders \ restored' : inode'[e] \in marks' => inode'[e] \in DOMAIN paths'
    <3> SUFFICES ASSUME NEW e \in Folders \ restored', inode[e] \in marks'
                 PROVE  inode[e] \in DOMAIN paths'
      BY <1>1
    <3>1. CASE inode[e] \in marks
      BY <1>4, <1>5, <3>1 DEF WatchInv, MapInv
    <3>2. CASE inode[e] = inode[d]
      <4>1. e = d
        BY <1>1, <3>2 DEF TreeInv
      <4> QED
        BY <1>4, <1>5, <4>1 DEF WatchInv, MapInv
    <3> QED
      BY <1>1, <3>1, <3>2
  <2> QED
    BY <2>1, <2>2, <2>3, <2>4, <2>5 DEF MapInv
<1>7. Kept(Unread)'
  BY <1>1, <1>4, <1>5 DEF WatchInv, Kept, Ordered, Removed, Named, Tells
<1> QED
  BY <1>2, <1>6, <1>7 DEF WatchInv

\* What is there has a name.
LEMMA ExistsNames == \A x : Exists(x) => x \in Paths \cup Folders
BY DEF Exists, Paths

\* A step that leaves the tree, the queue and the maps alone.
LEMMA OtherWatch ==
  ASSUME TreeInv, QueueInv, WatchInv, UNCHANGED <<fsVars, queue, batch, mapVars>>
  PROVE  TreeInv' /\ QueueInv' /\ WatchInv'
<1>1. Unread' = Unread
  BY DEF Unread
<1>2. TreeInv'
  BY DEF TreeInv, Exists, fsVars
<1>3. QueueInv'
  BY DEF QueueInv, Raws, Bounded, fsVars, mapVars
<1> QED
  BY <1>1, <1>2, <1>3 DEF WatchInv, MapInv, Kept, Ordered, Removed, Named, Tells, fsVars, mapVars

\* The monitor adds watches, and changes nothing else of the watcher.
LEMMA MonWatch ==
  ASSUME TreeInv, QueueInv, WatchInv, EventInv, StartMon \/ Restart
  PROVE  TreeInv' /\ QueueInv' /\ WatchInv'
<1>1. ASSUME NEW d \in Folders, Add(d), UNCHANGED <<fsVars, queue, readerVars>>
      PROVE  TreeInv' /\ QueueInv' /\ WatchInv'
  <2>1. TreeInv'
    BY <1>1 DEF TreeInv, Exists, fsVars
  <2> QED
    BY <1>1, <2>1, AddWatch DEF readerVars
<1>2. CASE Watch
  BY <1>1, <1>2 DEF Watch, Folders
<1>3. CASE AddToMonList
  <2>1. CASE cur.name \in Dirs
    BY <1>1, <1>3, <2>1 DEF AddToMonList, Folders
  <2>2. CASE cur.name \notin Dirs
    BY <1>3, <2>2, OtherWatch DEF AddToMonList, readerVars
  <2> QED
    BY <2>1, <2>2
<1>4. CASE UNCHANGED <<fsVars, queue, batch, mapVars>>
  BY <1>4, OtherWatch
<1> QED
  BY <1>2, <1>3, <1>4
  DEF StartMon, Receive, Ignored, ScanCreated, AddFails, Announce, ScanClosed, Update,
      Unreachable, Restart, watcherVars, readerVars

-----------------------------------------------------------------------------
(* Events and descriptors. *)

eventVars == <<event, cur, pc, fileLocks, fd, lastFileIdx, fileWatchMap>>

\* A step that leaves the events and the monitor alone.
LEMMA SameEvents == EventInv /\ UNCHANGED eventVars => EventInv'
BY DEF EventInv, eventVars

\* The reader makes one event of what it takes (newEvent).
LEMMA LookupEvents ==
  ASSUME QueueInv, WatchInv, EventInv, Lookup, UNCHANGED <<pc, monVars>>
  PROVE  EventInv'
<1> DEFINE raw == Head(batch)
<1>1. raw \in Raws
  BY HeadTailProperties DEF Lookup, QueueInv
<1>2. \/ event' = NoEvent
      \/ /\ raw.mask # "IN_IGNORED"
         /\ \E name \in Paths \cup Folders \cup {NoPath} :
              /\ event' = [op |-> Op(raw.mask), name |-> name, stage |-> "named"]
              /\ raw.leaf \in Paths => name \in Paths \cup {NoPath}
  <2>1. raw.leaf = Self \/ raw.leaf \in Paths
    BY <1>1 DEF Raws, Overflow
  <2>2. Self \notin Paths /\ \A w \in DOMAIN paths : paths[w] \in Folders
    BY Names DEF WatchInv, MapInv
  <2> QED
    BY <2>1, <2>2 DEF Lookup
<1>3. /\ raw.mask # "IN_IGNORED" => Op(raw.mask) \in EventOps \cup {"overflow"}
      /\ raw.mask # "IN_IGNORED" /\ Op(raw.mask) = "Create" => raw.leaf \in Paths
  <2>1. CASE raw = Overflow
    BY <2>1 DEF Overflow, Op
  <2>2. CASE raw.mask \in SelfMasks
    BY <2>2 DEF Op, EventOps, SelfMasks
  <2>3. CASE raw.mask \in LeafMasks /\ raw.leaf \in Paths
    BY <2>3 DEF Op, EventOps, LeafMasks
  <2> QED
    BY <1>1, <2>1, <2>2, <2>3 DEF Raws
<1>4. NoEvent \in Events /\ NoEvent.op # "Create"
  BY DEF NoEvent, Events, EventOps
<1> HIDE DEF raw
<1>5. event' \in Events /\ (event'.op = "Create" => event'.name \in Paths \cup {NoPath})
  BY <1>2, <1>3, <1>4 DEF Events
<1> QED
  BY <1>5 DEF EventInv, monVars

\* The monitor takes events that the reader made, and counts up its indices.
LEMMA MonEvents ==
  ASSUME EventInv, StartMon \/ Restart
  PROVE  EventInv'
<1>1. ASSUME Return, UNCHANGED <<event, lastFileIdx, fileWatchMap>>
      PROVE  EventInv'
  <2>1. /\ cur' \in Events /\ cur'.op # "Create" /\ pc' = "select"
        /\ cur.name \in Paths \cup Folders \cup {NoPath}
    BY <1>1 DEF Return, Goto, NoEvent, Events, EventOps, EventInv
  <2>2. fileLocks' \subseteq fileLocks \cup {cur.name}
    BY <1>1 DEF Return
  <2> QED
    BY <1>1, <2>1, <2>2 DEF EventInv
<1>2. ASSUME NEW why \in Ended, Stop(why), UNCHANGED <<event, lastFileIdx, fileWatchMap>>
      PROVE  EventInv'
  <2>1. cur' = cur /\ pc' = why /\ cur.name \in Paths \cup Folders \cup {NoPath} /\ pc' # "add"
    BY <1>2 DEF Stop, Goto, Events, EventInv, Ended
  <2>2. fileLocks' \subseteq fileLocks \cup {cur.name}
    BY <1>2 DEF Stop
  <2> QED
    BY <1>2, <2>1, <2>2 DEF EventInv
<1>3. ASSUME NEW l \in {"add", "update"}, Continue(l),
             event' = event, fileWatchMap' = fileWatchMap,
             lastFileIdx' \in Nat /\ lastFileIdx' >= lastFileIdx,
             l = "add" => cur.name \in Paths /\ fd'.idx \in 1..lastFileIdx'
      PROVE  EventInv'
  <2>1. cur' = cur /\ pc' = l /\ cur.name \in Paths \cup Folders \cup {NoPath}
    BY <1>3 DEF Continue, Goto, Events, EventInv
  <2>2. fileLocks' \subseteq fileLocks \cup {cur.name}
    BY <1>3 DEF Continue
  <2>3. \A p \in DOMAIN fileWatchMap' : fileWatchMap'[p].idx \in 1..lastFileIdx'
    BY <1>3 DEF EventInv
  <2> QED
    BY <1>3, <2>1, <2>2, <2>3 DEF EventInv
<1>4. CASE Watch
  BY <1>4 DEF Watch, Goto, EventInv, readerVars, monVars
<1>5. CASE Receive
  <2>1. NoEvent \in Events /\ NoEvent.op # "Create"
    BY DEF NoEvent, Events, EventOps
  <2>2. pc' \in {"overflow", "lock"}
    BY <1>5 DEF Receive, Goto
  <2> QED
    BY <1>5, <2>1, <2>2 DEF Receive, EventInv, Ended
<1>6. CASE Ignored
  BY <1>1, <1>6 DEF Ignored, watcherVars, readerVars
<1>7. CASE ScanCreated
  <2>1. UNCHANGED <<event, fileWatchMap>>
    BY <1>7 DEF ScanCreated, watcherVars, readerVars
  <2>2. CASE Exists(cur.name)
    <3>1. cur.name \in Paths
      BY <1>7, <2>2, ExistsNames, Names DEF ScanCreated, Locked, EventInv
    <3>2. lastFileIdx' = lastFileIdx + 1 /\ fd'.idx = lastFileIdx + 1 /\ Continue("add")
      BY <1>7, <2>2 DEF ScanCreated, NextIdx
    <3>3. lastFileIdx' \in Nat /\ lastFileIdx' >= lastFileIdx /\ fd'.idx \in 1..lastFileIdx'
      BY <3>2 DEF EventInv
    <3> QED
      BY <1>3, <2>1, <3>1, <3>2, <3>3
  <2>3. CASE ~Exists(cur.name)
    BY <1>2, <1>7, <2>1, <2>3 DEF ScanCreated, Ended
  <2> QED
    BY <2>2, <2>3
<1>8. CASE AddToMonList
  <2>1. /\ pc = "add" /\ pc' = "announce" /\ UNCHANGED <<event, cur, fd, fileLocks, lastFileIdx>>
        /\ fileWatchMap' = With(fileWatchMap, cur.name, fd)
    BY <1>8 DEF AddToMonList, Goto, readerVars
  <2>2. /\ DOMAIN fileWatchMap' = DOMAIN fileWatchMap \cup {cur.name}
        /\ \A p \in DOMAIN fileWatchMap' :
             \/ fileWatchMap'[p] = fd
             \/ p \in DOMAIN fileWatchMap /\ fileWatchMap'[p] = fileWatchMap[p]
    BY <2>1 DEF With
  <2>3. cur.name \in Paths /\ fd.idx \in 1..lastFileIdx
    BY <2>1 DEF EventInv
  <2>4. \A p \in DOMAIN fileWatchMap' : fileWatchMap'[p].idx \in 1..lastFileIdx
    BY <2>2, <2>3 DEF EventInv
  <2> QED
    BY <2>1, <2>2, <2>3, <2>4 DEF EventInv
<1>9. CASE AddFails
  BY <1>2, <1>9 DEF AddFails, watcherVars, readerVars, Ended
<1>10. CASE Announce
  BY <1>1, <1>2, <1>10 DEF Announce, watcherVars, readerVars, Ended
<1>11. CASE ScanClosed
  BY <1>1, <1>2, <1>3, <1>11 DEF ScanClosed, watcherVars, readerVars, Ended, EventInv
<1>12. CASE Update
  BY <1>1, <1>2, <1>12 DEF Update, watcherVars, readerVars, Ended
<1>13. CASE Unreachable
  BY <1>2, <1>13 DEF Unreachable, watcherVars, readerVars, Ended
<1>14. CASE Restart
  BY <1>14, SameEvents DEF Restart, watcherVars, readerVars, monVars, eventVars
<1> QED
  BY <1>4, <1>5, <1>6, <1>7, <1>8, <1>9, <1>10, <1>11, <1>12, <1>13, <1>14 DEF StartMon

\* An event that is offered is the one that was made.
LEMMA ReaderEvents ==
  ASSUME QueueInv, WatchInv, EventInv, Reader, UNCHANGED <<pc, monVars>>
  PROVE  EventInv'
<1>1. CASE ReadQueue
  BY <1>1, SameEvents DEF ReadQueue, eventVars, monVars
<1>2. CASE Offer
  <2>1. event' \in {NoEvent, [event EXCEPT !.stage = "offered"]}
    BY <1>2 DEF Offer
  <2>2. NoEvent \in Events /\ NoEvent.op # "Create"
    BY DEF NoEvent, Events, EventOps
  <2>3. /\ [event EXCEPT !.stage = "offered"] \in Events
        /\ [event EXCEPT !.stage = "offered"].op = event.op
        /\ [event EXCEPT !.stage = "offered"].name = event.name
    BY DEF EventInv, Events
  <2>4. event' \in Events /\ (event'.op = "Create" => event'.name \in Paths \cup {NoPath})
    BY <2>1, <2>2, <2>3 DEF EventInv
  <2> QED
    BY <2>4 DEF EventInv, monVars
<1> QED
  BY <1>1, <1>2, LookupEvents DEF Reader

-----------------------------------------------------------------------------
\* The invariant of the watcher under the monitor.
WatcherInv == TreeInv /\ QueueInv /\ WatchInv /\ EventInv

\* It holds before the source directory is watched, for every listing.
LEMMA InitWatcher == Init => WatcherInv
<1> SUFFICES ASSUME Init PROVE WatcherInv
  OBVIOUS
<1>1. /\ made = 1 + Cardinality(Paths) /\ Cardinality(Paths) \in Nat
      /\ marks = {} /\ watches = << >> /\ paths = << >> /\ restored = {}
      /\ queue = << >> /\ batch = << >>
      /\ event = NoEvent /\ cur = NoEvent /\ pc = "start" /\ fileLocks = {}
  BY TreeAssumption, FS_CardinalityType DEF Init
<1>2. Unread = << >> /\ Len(Unread) = 0 /\ << >> \in Seq(Raws) /\ Len(queue) = 0
  BY <1>1, EmptySeq, ConcatEmptySeq DEF Unread
<1>3. TreeInv
  <2>1. PICK dirs \in SUBSET Dirs :
          inode = [d \in Folders |-> IF d = Top THEN 1
                                     ELSE IF d \in dirs THEN 1 + Order[d] ELSE 0]
    BY DEF Init
  <2>2. \A d \in Dirs : d \in Paths /\ Order[d] \in 1..Cardinality(Paths)
    BY MonitorAssumption DEF Paths
  <2>3. inode \in [Folders -> 0..made]
    BY <1>1, <2>1, <2>2 DEF Folders
  <2>4. \A d, e \in Folders : inode[d] = inode[e] /\ inode[d] # 0 => d = e
    BY <1>1, <2>1, <2>2, MonitorAssumption DEF Folders
  <2>5. followed \subseteq {p \in Paths : Exists(p)}
    BY Names DEF Init
  <2> QED
    BY <1>1, <2>3, <2>4, <2>5 DEF Init, TreeInv
<1>4. QueueInv
  BY <1>1, <1>2, TreeAssumption DEF QueueInv, Bounded
<1>5. WatchInv
  BY <1>1, <1>2 DEF WatchInv, Kept, Ordered, Removed, Named, MapInv
<1>6. EventInv
  <2>1. NoEvent \in Events /\ NoEvent.op # "Create"
    BY DEF NoEvent, Events, EventOps
  <2>2. /\ lastFileIdx \in Nat /\ DOMAIN fileWatchMap \subseteq Paths
        /\ \A p \in DOMAIN fileWatchMap : fileWatchMap[p].idx \in 1..lastFileIdx
    <3> DEFINE listed == {p \in Paths : Exists(p)}
               Idx(p) == Cardinality({q \in listed : Order[q] <= Order[p]})
    <3>1. /\ lastFileIdx = Cardinality(listed)
          /\ fileWatchMap = [p \in listed \cap Files |-> [idx |-> Idx(p), size |-> size[p]]]
      BY DEF Init
    <3>2. \A p \in listed : Idx(p) \in 1..Cardinality(listed)
      BY Listing
    <3>3. Cardinality(listed) \in Nat
      BY TreeAssumption, FS_Subset, FS_CardinalityType
    <3> HIDE DEF Idx
    <3> QED
      BY <3>1, <3>2, <3>3
  <2> QED
    BY <1>1, <2>1, <2>2 DEF EventInv
<1> QED
  BY <1>3, <1>4, <1>5, <1>6 DEF WatcherInv

\* Every step of the user, the reader and the monitor keeps it.
LEMMA NextWatcher == WatcherInv /\ [Next]_vars => WatcherInv'
<1> SUFFICES ASSUME WatcherInv, [Next]_vars PROVE WatcherInv'
  OBVIOUS
<1>1. CASE UNCHANGED vars
  BY <1>1, OtherWatch, SameEvents
  DEF WatcherInv, vars, watcherVars, monVars, readerVars, eventVars
<1>2. CASE User /\ UNCHANGED <<pc, monVars, serverVars>>
  BY <1>2, UserTree, UserWatch, UserFrame, SameEvents DEF WatcherInv, monVars, eventVars
<1>3. CASE Reader /\ UNCHANGED <<pc, monVars, serverVars>>
  BY <1>3, ReaderWatch, ReaderEvents DEF WatcherInv
<1>4. CASE StartMon \/ Restart
  BY <1>4, MonWatch, MonEvents DEF WatcherInv
<1> QED
  BY <1>1, <1>2, <1>3, <1>4 DEF Next

\* The variables of the watcher and of the monitor stay of their kinds, and the
\* queue of the kernel within its limit, which one event for all that was lost
\* may exceed (max_queued_events).
THEOREM MonitorTypes == Spec => []TypeOK
<1>1. WatcherInv => TypeOK
  BY DEF WatcherInv, TreeInv, QueueInv, Bounded, EventInv, TypeOK
<1> QED
  BY InitWatcher, NextWatcher, <1>1, PTL DEF Spec

\* A directory that was restored stays in the history.
LEMMA RestoredGrows == [Next]_vars => restored \subseteq restored'
<1>1. User => restored' = restored
  BY UserFrame
<1>2. Reader => restored' = restored
  BY DEF Reader, ReadQueue, Lookup, Offer, mapVars
<1>3. \A d : Add(d) => restored \subseteq restored'
  BY DEF Add
<1>4. Watch \/ AddToMonList => restored \subseteq restored'
  BY <1>3 DEF Watch, AddToMonList, mapVars
<1>5. Receive \/ Ignored \/ ScanCreated \/ AddFails \/ Announce \/ ScanClosed \/ Update
        \/ Unreachable \/ Restart => restored' = restored
  BY DEF Receive, Ignored, ScanCreated, AddFails, Announce, ScanClosed, Update,
         Unreachable, Restart, watcherVars, mapVars
<1>6. UNCHANGED vars => restored' = restored
  BY DEF vars, watcherVars, mapVars
<1> QED
  BY <1>1, <1>2, <1>4, <1>5, <1>6 DEF Next, StartMon

\* An event gets the path of its descriptor while that is in the map.
LEMMA NextNamed == WatcherInv /\ EventsNamed /\ [Next]_vars => EventsNamed'
<1> SUFFICES ASSUME WatcherInv, EventsNamed, [Next]_vars PROVE EventsNamed'
  OBVIOUS
<1>0. restored' = {} => restored = {}
  BY RestoredGrows
<1>1. CASE event' = event \/ event' = NoEvent
  BY <1>0, <1>1 DEF EventsNamed, NoEvent
<1>2. CASE Offer
  <2>1. event \in Events
    BY DEF WatcherInv, EventInv
  <2> QED
    BY <1>0, <1>1, <1>2, <2>1 DEF Offer, EventsNamed, Events
<1>3. CASE Lookup
  <2> DEFINE raw == Head(batch)
  <2>1. raw \in Raws /\ 1 \in 1..Len(Unread) /\ raw = Unread[1]
    BY <1>3, UnreadHead DEF Lookup, WatcherInv
  <2>2. raw.leaf # Self => raw.leaf # NoPath
    BY <2>1, Names DEF Raws, Overflow
  <2>3. raw.mask = "IN_Q_OVERFLOW" => Op(raw.mask) = "overflow"
    BY DEF Op
  <2>4. restored = {} /\ Tells(raw) =>
          raw.wd \in DOMAIN paths /\ paths[raw.wd] # NoPath
    BY <2>1, Names DEF WatcherInv, WatchInv, MapInv, Kept, Named
  <2>5. CASE raw.mask = "IN_IGNORED"
    BY <1>1, <1>3, <2>5 DEF Lookup
  <2>6. CASE raw.mask # "IN_IGNORED"
    <3>1. event' = [op |-> Op(raw.mask),
                    name |-> IF raw.wd \notin DOMAIN paths THEN NoPath
                             ELSE IF raw.leaf = Self THEN paths[raw.wd] ELSE raw.leaf,
                    stage |-> "named"]
      BY <1>3, <2>6 DEF Lookup
    <3> HIDE DEF raw
    <3> QED
      BY <1>0, <2>2, <2>3, <2>4, <2>6, <3>1 DEF EventsNamed, Tells
  <2> QED
    BY <2>5, <2>6
<1>4. CASE Reader
  BY <1>1, <1>2, <1>3, <1>4 DEF Reader, ReadQueue
<1>5. CASE StartMon \/ Restart
  BY <1>1, <1>5
  DEF StartMon, Watch, Receive, Ignored, ScanCreated, AddToMonList, AddFails, Announce,
      ScanClosed, Update, Unreachable, Restart, watcherVars, readerVars
<1>6. CASE User
  BY <1>1, <1>6, UserFrame
<1> QED
  BY <1>1, <1>4, <1>5, <1>6 DEF Next, vars, watcherVars, readerVars

\* Every event carries the path of what it is about, whatever the user makes and
\* removes and however late the reader is (the maps paths and watches in
\* inotify.go), as long as no directory was watched anew before its removal was
\* seen: EventsNamed.
THEOREM EventsAreNamed == Spec => []EventsNamed
<1>1. Init => WatcherInv /\ EventsNamed
  <2>1. Init => event = NoEvent
    BY DEF Init
  <2> QED
    BY <2>1, InitWatcher DEF EventsNamed, NoEvent
<1>2. WatcherInv /\ EventsNamed /\ [Next]_vars => (WatcherInv /\ EventsNamed)'
  BY NextWatcher, NextNamed
<1> QED
  BY <1>1, <1>2, PTL DEF Spec

-----------------------------------------------------------------------------
(* The list of the server. *)

\* Of the listing: no two names have one index.
LEMMA ListingOrder ==
  ASSUME NEW listed \in SUBSET Paths, NEW p \in listed, NEW q \in listed,
         Cardinality({r \in listed : Order[r] <= Order[p]})
           = Cardinality({r \in listed : Order[r] <= Order[q]})
  PROVE  p = q
<1> DEFINE Below(x) == {r \in listed : Order[r] <= Order[x]}
<1>0. \A x \in listed : Order[x] \in Nat
  BY MonitorAssumption
<1>1. \A x \in listed : IsFiniteSet(Below(x))
  BY TreeAssumption, FS_Subset
<1>2. ASSUME NEW x \in listed, NEW y \in listed, Order[x] <= Order[y],
             Cardinality(Below(x)) = Cardinality(Below(y))
      PROVE  Order[x] = Order[y]
  <2>1. Below(x) \subseteq Below(y)
    BY <1>0, <1>2
  <2>2. Below(y) = Below(x)
    BY <1>1, <1>2, <2>1, FS_Subset
  <2>3. y \in Below(y)
    BY <1>0
  <2> QED
    BY <1>0, <1>2, <2>2, <2>3
<1>3. Order[p] = Order[q]
  <2>1. Order[p] <= Order[q] \/ Order[q] <= Order[p]
    BY <1>0
  <2> HIDE DEF Below
  <2>2. Cardinality(Below(p)) = Cardinality(Below(q))
    BY DEF Below
  <2> QED
    BY <1>2, <2>1, <2>2
<1> QED
  BY <1>3, MonitorAssumption

\* What the client knows of the listing is what the server has of it.
LEMMA InitBook ==
  ASSUME Init
  PROVE  BookInv /\ \A p \in followed : Listed(p) /\ SizeTold(p) = size[p]
<1> DEFINE listed == {p \in Paths : Exists(p)}
           n == Cardinality(listed)
           Idx(p) == Cardinality({q \in listed : Order[q] <= Order[p]})
           At(i) == CHOOSE p \in listed : Idx(p) = i
           SizeOf(p) == IF p \in Files THEN size[p] ELSE 0
<1>1. /\ pc = "start" /\ fd = NoFd /\ cur = NoEvent
      /\ fileWatchMap = [p \in listed \cap Files |-> [idx |-> Idx(p), size |-> size[p]]]
      /\ \E m \in 0..MaxStale :
           /\ stale = (n + 1)..m
           /\ srcList = [i \in 1..n \cup stale |->
                            IF i \in stale THEN Entry(NoPath, 0)
                            ELSE Entry(At(i), SizeOf(At(i)))]
  BY DEF Init
<1>2. n \in Nat /\ \A p \in listed : Idx(p) \in 1..n
  <2>1. n \in Nat
    BY TreeAssumption, FS_Subset, FS_CardinalityType
  <2> QED
    BY <2>1, Listing
<1>3. \A p, q \in listed : Idx(p) = Idx(q) => p = q
  BY ListingOrder
<1>4. \A p \in listed : At(Idx(p)) = p
  <2> SUFFICES ASSUME NEW p \in listed PROVE At(Idx(p)) = p
    OBVIOUS
  <2>1. At(Idx(p)) \in listed /\ Idx(At(Idx(p))) = Idx(p)
    OBVIOUS
  <2> QED
    BY <1>3, <2>1
<1>5. followed = listed \cap Files
  BY Names DEF Init
<1> HIDE DEF listed, n, Idx, At, SizeOf
<1>6. \A p \in listed \cap Files :
        /\ Idx(p) \in DOMAIN srcList
        /\ srcList[Idx(p)] = Entry(p, size[p])
  BY <1>1, <1>2, <1>4 DEF SizeOf
<1>7. \A i \in DOMAIN srcList : IsEntry(srcList[i])
  BY <1>1 DEF IsEntry, Entry
<1>8. /\ DOMAIN fileWatchMap = listed \cap Files
      /\ \A p \in listed \cap Files :
           fileWatchMap[p].idx = Idx(p) /\ fileWatchMap[p].size = size[p]
  BY <1>1
<1>9. \A p \in DOMAIN fileWatchMap :
        /\ fileWatchMap[p].idx \in DOMAIN srcList
        /\ srcList[fileWatchMap[p].idx].path = p
        /\ srcList[fileWatchMap[p].idx].size = size[p]
  <2> SUFFICES ASSUME NEW p \in listed \cap Files
               PROVE  /\ fileWatchMap[p].idx \in DOMAIN srcList
                      /\ srcList[fileWatchMap[p].idx].path = p
                      /\ srcList[fileWatchMap[p].idx].size = size[p]
    BY <1>8
  <2>1. fileWatchMap[p].idx = Idx(p)
    BY <1>8
  <2>2. /\ fileWatchMap[p].idx \in DOMAIN srcList
        /\ srcList[fileWatchMap[p].idx] = Entry(p, size[p])
    BY <1>6, <2>1
  <2> QED
    BY <2>2 DEF Entry
<1>10. \A p, q \in DOMAIN fileWatchMap :
         fileWatchMap[p].idx = fileWatchMap[q].idx => p = q
  BY <1>3, <1>8
<1>11. BookInv
  BY <1>1, <1>7, <1>8, <1>9, <1>10 DEF BookInv
<1> QED
  BY <1>1, <1>5, <1>8, <1>9, <1>11 DEF Listed, SizeTold

bookVars == <<pc, cur, fd, fileWatchMap, fileLocks, srcList>>

\* A step that leaves the watch list and the server alone.
LEMMA SameBook == BookInv /\ UNCHANGED bookVars => BookInv'
BY DEF BookInv, bookVars, IsEntry, Entry

\* A place at which no file is being added, announced or changed; more names may
\* be locked, or the monitor has ended.
LEMMA OtherBook ==
  ASSUME BookInv, UNCHANGED <<fileWatchMap, srcList>>, pc \notin Ended,
         pc' \notin {"add", "announce", "update"},
         pc' \in Ended \/ fileLocks \subseteq fileLocks'
  PROVE  BookInv'
BY DEF BookInv, IsEntry, Entry

\* Every step keeps the two lists in agreement.
LEMMA NextBook ==
  ASSUME BookInv, EventInv, IndexInv, [Next]_vars
  PROVE  BookInv'
<1>1. CASE UNCHANGED bookVars
  BY <1>1, SameBook
<1>2. CASE Watch /\ pc \notin Ended
  <2>1. pc' = "select" /\ UNCHANGED <<fileWatchMap, srcList, fileLocks>>
    BY <1>2 DEF Watch, Goto, monVars, serverVars
  <2> QED
    BY <1>2, <2>1, OtherBook
<1>3. CASE Receive /\ pc \notin Ended
  <2>1. pc' \in {"overflow", "lock"} /\ UNCHANGED <<fileWatchMap, srcList, fileLocks>>
    BY <1>3 DEF Receive, Goto, serverVars
  <2> QED
    BY <1>3, <2>1, OtherBook
<1>4. CASE Ignored /\ pc \notin Ended
  <2>1. /\ pc' = "select" /\ cur.name \notin fileLocks /\ fileLocks \subseteq fileLocks'
        /\ UNCHANGED <<fileWatchMap, srcList>>
    BY <1>4 DEF Ignored, Return, Locked, Goto, serverVars
  <2> QED
    BY <1>4, <2>1, OtherBook
<1>5. CASE ScanCreated /\ pc \notin Ended
  <2>1. CASE Exists(cur.name)
    <3>1. /\ pc' = "add" /\ fd'.idx = lastFileIdx + 1 /\ cur.op = "Create"
          /\ fileLocks' = fileLocks \cup {cur.name}
          /\ UNCHANGED <<cur, fileWatchMap, srcList>>
      BY <1>5, <2>1 DEF ScanCreated, Continue, Goto, Locked, NextIdx, serverVars
    <3>2. \A p \in DOMAIN fileWatchMap : fileWatchMap[p].idx # lastFileIdx + 1
      BY DEF EventInv
    <3> QED
      BY <1>5, <3>1, <3>2 DEF BookInv, IsEntry, Entry, Ended
  <2>2. CASE ~Exists(cur.name)
    <3>1. pc' = "vanished" /\ UNCHANGED <<fileWatchMap, srcList>>
      BY <1>5, <2>2 DEF ScanCreated, Stop, Goto, serverVars
    <3> QED
      BY <1>5, <3>1, OtherBook DEF Ended
  <2> QED
    BY <2>1, <2>2
<1>6. CASE AddToMonList /\ pc \notin Ended
  <2>1. /\ pc = "add" /\ pc' = "announce" /\ UNCHANGED <<cur, fd, fileLocks, srcList>>
        /\ fileWatchMap' = With(fileWatchMap, cur.name, fd)
    BY <1>6 DEF AddToMonList, Goto, serverVars
  <2>2. /\ DOMAIN fileWatchMap' = DOMAIN fileWatchMap \cup {cur.name}
        /\ fileWatchMap'[cur.name] = fd
        /\ \A p \in DOMAIN fileWatchMap \ {cur.name} : fileWatchMap'[p] = fileWatchMap[p]
    BY <2>1 DEF With
  <2>3. /\ cur.name \in fileLocks /\ cur.op = "Create"
        /\ \A p \in DOMAIN fileWatchMap : fileWatchMap[p].idx # fd.idx
    BY <2>1 DEF BookInv
  <2>4. \A p, q \in DOMAIN fileWatchMap' :
          fileWatchMap'[p].idx = fileWatchMap'[q].idx => p = q
    BY <2>2, <2>3 DEF BookInv
  <2> QED
    BY <1>6, <2>1, <2>2, <2>3, <2>4 DEF BookInv, IsEntry, Entry
<1>7. CASE AddFails /\ pc \notin Ended
  <2>1. pc' = "unwatched" /\ UNCHANGED <<fileWatchMap, srcList>>
    BY <1>7 DEF AddFails, Stop, Goto, serverVars
  <2> QED
    BY <1>7, <2>1, OtherBook DEF Ended
<1>8. CASE Announce /\ pc \notin Ended
  <2>1. CASE fd.idx \in DOMAIN srcList
    <3>1. pc' = "refused" /\ UNCHANGED <<fileWatchMap, srcList>>
      BY <1>8, <2>1 DEF Announce, Stop, Goto
    <3> QED
      BY <1>8, <3>1, OtherBook DEF Ended
  <2>2. CASE fd.idx \notin DOMAIN srcList
    <3>1. /\ pc = "announce" /\ cur.op = "Create"
          /\ cur.name \in DOMAIN fileWatchMap /\ fileWatchMap[cur.name] = fd
      BY <1>8 DEF Announce, BookInv
    <3>2. /\ pc' = "select" /\ fileLocks' = fileLocks \ {cur.name}
          /\ fileWatchMap' = fileWatchMap
          /\ srcList' = With(srcList, fd.idx, Entry(cur.name, fd.size))
      BY <1>8, <2>2, <3>1 DEF Announce, Return, Goto, Keeps
    <3>3. /\ DOMAIN srcList' = DOMAIN srcList \cup {fd.idx}
          /\ srcList'[fd.idx] = Entry(cur.name, fd.size)
          /\ \A i \in DOMAIN srcList \ {fd.idx} : srcList'[i] = srcList[i]
      BY <3>2 DEF With
    <3>4. \A i \in DOMAIN srcList' : IsEntry(srcList'[i])
      BY <3>3 DEF BookInv, IsEntry, Entry
    <3>5. ASSUME NEW p \in DOMAIN fileWatchMap \ fileLocks',
                 fileWatchMap[p].idx \in DOMAIN srcList'
          PROVE  srcList'[fileWatchMap[p].idx].size = fileWatchMap[p].size
      <4>1. CASE p = cur.name
        BY <3>1, <3>3, <4>1 DEF Entry
      <4>2. CASE p # cur.name
        <5>1. fileWatchMap[p].idx # fd.idx /\ p \in DOMAIN fileWatchMap \ fileLocks
          BY <3>1, <3>2, <3>5, <4>2 DEF BookInv
        <5> QED
          BY <1>8, <3>3, <3>5, <5>1 DEF BookInv
      <4> QED
        BY <4>1, <4>2
    <3> QED
      BY <3>2, <3>4, <3>5 DEF BookInv, IsEntry, Entry
  <2> QED
    BY <2>1, <2>2
<1>9. CASE ScanClosed /\ pc \notin Ended
  <2>1. UNCHANGED <<fileWatchMap, srcList>> /\ cur.op = "CloseWrite"
    BY <1>9 DEF ScanClosed, Locked, serverVars
  <2>2. CASE pc' \in {"vanished", "panic"}
    BY <1>9, <2>1, <2>2, OtherBook DEF Ended
  <2>3. CASE Return
    BY <1>9, <2>1, <2>3, OtherBook DEF Return, Goto, Keeps
  <2>4. CASE /\ Continue("update") /\ cur.name \in DOMAIN fileWatchMap
             /\ fd' = [fileWatchMap[cur.name] EXCEPT !.size = size[cur.name]]
    <3>1. IsFd(fileWatchMap[cur.name])
      BY <2>4 DEF IndexInv, Known
    <3>2. fd'.idx = fileWatchMap[cur.name].idx
      BY <2>4, <3>1 DEF IsFd
    <3>3. pc' = "update" /\ fileLocks' = fileLocks \cup {cur.name} /\ cur' = cur
      BY <2>4 DEF Continue, Goto
    <3> QED
      BY <1>9, <2>1, <2>4, <3>2, <3>3 DEF BookInv, IsEntry, Entry, Ended
  <2> QED
    BY <1>9, <2>2, <2>3, <2>4 DEF ScanClosed, Stop, Goto
<1>10. CASE Update /\ pc \notin Ended
  <2>1. CASE fd.idx \notin DOMAIN srcList
    <3>1. pc' = "refused" /\ UNCHANGED <<fileWatchMap, srcList>>
      BY <1>10, <2>1 DEF Update, Stop, Goto
    <3> QED
      BY <1>10, <3>1, OtherBook DEF Ended
  <2>2. CASE fd.idx \in DOMAIN srcList
    <3>1. /\ pc = "update" /\ cur.op = "CloseWrite"
          /\ cur.name \in DOMAIN fileWatchMap /\ fileWatchMap[cur.name].idx = fd.idx
      BY <1>10 DEF Update, BookInv
    <3>2. /\ pc' = "select" /\ fileLocks' = fileLocks \cup {cur.name}
          /\ fileWatchMap' = fileWatchMap
          /\ srcList' = [srcList EXCEPT ![fd.idx].size = fd.size]
      BY <1>10, <2>2, <3>1 DEF Update, Return, Goto, Keeps
    <3>3. /\ DOMAIN srcList' = DOMAIN srcList
          /\ srcList'[fd.idx] = [srcList[fd.idx] EXCEPT !.size = fd.size]
          /\ \A i \in DOMAIN srcList \ {fd.idx} : srcList'[i] = srcList[i]
      BY <2>2, <3>2
    <3>4. \A i \in DOMAIN srcList' : IsEntry(srcList'[i])
      BY <3>3 DEF BookInv, IsEntry, Entry
    <3>5. ASSUME NEW p \in DOMAIN fileWatchMap \ fileLocks',
                 fileWatchMap[p].idx \in DOMAIN srcList
          PROVE  srcList'[fileWatchMap[p].idx].size = fileWatchMap[p].size
      <4>1. fileWatchMap[p].idx # fd.idx /\ p \in DOMAIN fileWatchMap \ fileLocks
        BY <3>1, <3>2, <3>5 DEF BookInv
      <4> QED
        BY <1>10, <3>3, <3>5, <4>1 DEF BookInv
    <3> QED
      BY <3>2, <3>3, <3>4, <3>5 DEF BookInv, IsEntry, Entry
  <2> QED
    BY <2>1, <2>2
<1>11. CASE Unreachable /\ pc \notin Ended
  <2>1. pc' = "unreachable" /\ UNCHANGED <<fileWatchMap, srcList>>
    BY <1>11 DEF Unreachable, Stop, Goto, serverVars
  <2> QED
    BY <1>11, <2>1, OtherBook DEF Ended
<1>12. CASE Restart
  <2>1. srcList' = << >> /\ UNCHANGED <<pc, monVars>>
    BY <1>12 DEF Restart
  <2>2. DOMAIN srcList' = {}
    BY <2>1
  <2> QED
    BY <2>1, <2>2 DEF BookInv, monVars
<1>13. UNCHANGED vars => UNCHANGED bookVars
  BY DEF vars, monVars, serverVars, bookVars
<1>14. UNCHANGED <<pc, monVars, serverVars>> => UNCHANGED bookVars
  BY DEF monVars, serverVars, bookVars
<1> QED
  BY <1>1, <1>2, <1>3, <1>4, <1>5, <1>6, <1>7, <1>8, <1>9, <1>10, <1>11, <1>12, <1>13,
     <1>14 DEF Next, StartMon

-----------------------------------------------------------------------------
(* What the server does not know comes. *)

\* An operation on a leaf of a watched directory is among what is unread, or
\* lost with an overflow.
LEMMA LeafComes ==
  ASSUME QueueInv, NEW q \in Seq(Raws), NEW p \in Paths, NEW mask \in LeafMasks,
         inode[Parent[p]] \in marks, Unread' = batch \o Notify(q, Raw(Parent[p], mask, p)),
         event' = event,
         inode'[Parent[p]] = inode[Parent[p]], ~Lost', NEW masks, mask \in masks
  PROVE  Waits(p, masks)'
<1> DEFINE raw == Raw(Parent[p], mask, p)
<1>1. /\ raw.wd = inode[Parent[p]] /\ raw.leaf = p /\ raw.mask = mask
      /\ raw.wd \in marks /\ raw \in Raws
  BY LeafRaw
<1> HIDE DEF raw
<1>2. Told(batch \o q, Unread', raw)
  BY <1>1, UnreadTold DEF QueueInv, raw
<1>3. PICK i \in 1..Len(Unread') : Unread'[i] \in {raw, Overflow}
  BY <1>1, <1>2 DEF Told
<1>4. Unread'[i] # Overflow
  BY DEF Lost, Overflow
<1> QED
  BY <1>1, <1>3, <1>4 DEF Waits

\* What is unread stays unread until it is read.
LEMMA WaitsOn ==
  ASSUME QueueInv, Extends(Unread, Unread'), Unread' \in Seq(Raws'), NEW p,
         inode'[Parent[p]] = inode[Parent[p]], NEW masks, Waits(p, masks)
  PROVE  Waits(p, masks)'
<1>1. PICK i \in 1..Len(Unread) :
        /\ Unread[i].leaf = p /\ Unread[i].mask \in masks
        /\ Unread[i].wd = inode[Parent[p]]
  BY DEF Waits
<1>2. Len(Unread) \in Nat /\ Len(Unread') \in Nat
  BY ConcatProperties, LenProperties DEF Unread, QueueInv
<1>3. i \in 1..Len(Unread') /\ Unread'[i] = Unread[i]
  BY <1>2 DEF Extends
<1> QED
  BY <1>1, <1>3 DEF Waits

\* Whatever the user does to a file or directory that is followed, the event it
\* makes, or the one it was waiting for, tells of it.
LEMMA UserSync ==
  ASSUME TreeInv, QueueInv, WatchInv, SyncInv, User, UNCHANGED <<pc, monVars, serverVars>>
  PROVE  SyncInv'
<1>1. /\ UNCHANGED <<batch, event, marks, watches, paths, restored>>
      /\ UNCHANGED <<pc, cur, fd, fileWatchMap, srcList, restarted>>
      /\ TreeInv' /\ QueueInv' /\ Extends(Unread, Unread')
  BY UserFrame, UserTree, UserWatch DEF monVars, serverVars
<1> SUFFICES ASSUME pc \notin Ended, ~restarted, ~Lost',
                    NEW p \in followed', Parent[p] \notin restored
             PROVE  InSync(p)'
  BY <1>1 DEF SyncInv
<1>2. /\ Unread \in Seq(Raws) /\ Unread' \in Seq(Raws')
      /\ Len(Unread) \in Nat /\ Len(Unread') \in Nat
  BY <1>1, ConcatProperties, LenProperties DEF Unread, QueueInv
<1>3. ~Lost
  BY <1>1, <1>2 DEF Lost, Extends, Overflow
<1>4. /\ p \in Paths /\ Exists(p)' /\ inode'[Parent[p]] # 0 /\ Parent[p] \in Folders
      /\ p \in Files \/ p \in Dirs
  BY <1>1, TreeAssumption DEF TreeInv, Paths
<1>5. inode'[Parent[p]] = inode[Parent[p]]
  <2>1. ASSUME NEW d \in Dirs, MakeDir(d)
        PROVE  inode'[Parent[p]] = inode[Parent[p]]
    <3>1. /\ inode' = [inode EXCEPT ![d] = made + 1] /\ inode[d] = 0 /\ inode[Parent[d]] # 0
          /\ p \in followed \cup {d}
      BY <2>1 DEF MakeDir
    <3>2. Parent[p] # d
      BY <3>1, <1>4 DEF TreeInv
    <3> QED
      BY <1>4, <3>1, <3>2 DEF TreeInv
  <2>2. ASSUME NEW d \in Dirs, RemoveDir(d)
        PROVE  inode'[Parent[p]] = inode[Parent[p]]
    <3>1. inode' = [inode EXCEPT ![d] = 0]
      BY <2>2 DEF RemoveDir
    <3> QED
      BY <1>4, <3>1 DEF TreeInv
  <2>3. (\A d \in Dirs : ~MakeDir(d) /\ ~RemoveDir(d)) => inode' = inode
    BY DEF User, Create, OpenForWriting, Modify, CloseFile, Delete, Move, Touch
  <2> QED
    BY <2>1, <2>2, <2>3
<1>6. /\ CreateComes(p) => CreateComes(p)'
      /\ CloseComes(p) => CloseComes(p)'
      /\ Listed(p)' <=> Listed(p)
      /\ SizeTold(p)' = SizeTold(p)
      /\ Seen(p)' <=> Seen(p)
  <2>1. \A masks : Waits(p, masks) => Waits(p, masks)'
    BY <1>1, <1>2, <1>5, WaitsOn
  <2> QED
    BY <1>1, <1>5, <2>1 DEF CreateComes, CloseComes, Comes, Listed, SizeTold, Seen
<1>7. ASSUME p \in followed,
             p \in Files => /\ size'[p] = size[p]
                            /\ p \in writing => p \in writing' \/ CloseComes(p)' \/ ~Seen(p)
      PROVE  InSync(p)'
  BY <1>1, <1>3, <1>6, <1>7 DEF SyncInv, InSync
<1>8. ASSUME Seen(p), NEW mask \in {"IN_CREATE", "IN_MOVED_TO"}, NEW q \in Seq(Raws),
             queue' = Notify(q, Raw(Parent[p], mask, p))
      PROVE  InSync(p)'
  <2>1. mask \in LeafMasks /\ Unread' = batch \o Notify(q, Raw(Parent[p], mask, p))
    BY <1>1, <1>8 DEF LeafMasks, Unread
  <2>2. Waits(p, {"IN_CREATE", "IN_MOVED_TO"})'
    BY <1>1, <1>4, <1>5, <1>8, <2>1, LeafComes DEF Seen
  <2> QED
    BY <2>2 DEF InSync, CreateComes, Comes
<1>9. ASSUME NEW f \in Files, Create(f) PROVE InSync(p)'
  <2>1. /\ queue' = Notify(queue, Raw(Parent[f], "IN_CREATE", f))
        /\ size' = [size EXCEPT ![f] = 0] /\ writing' = writing \cup {f} /\ size[f] = Absent
        /\ p \in followed \/ (p = f /\ Seen(f))
    BY <1>9 DEF Create
  <2>2. f \notin followed
    BY <2>1, Names DEF TreeInv, Exists
  <2>3. CASE p = f
    BY <1>8, <2>1, <2>2, <2>3 DEF QueueInv
  <2>4. CASE p # f
    BY <1>7, <2>1, <2>4 DEF TreeInv
  <2> QED
    BY <2>3, <2>4
<1>10. ASSUME NEW f \in Files, OpenForWriting(f) PROVE InSync(p)'
  BY <1>7, <1>10 DEF OpenForWriting
<1>11. ASSUME NEW f \in Files, Modify(f) PROVE InSync(p)'
  <2>1. /\ f \in writing /\ writing' = writing
        /\ \E n : size' = [size EXCEPT ![f] = n]
        /\ p \in followed /\ (p = f => Seen(p))
    BY <1>11 DEF Modify
  <2>2. CASE p = f
    BY <1>1, <1>3, <1>6, <2>1, <2>2 DEF SyncInv, InSync
  <2>3. CASE p # f
    BY <1>7, <2>1, <2>3 DEF TreeInv
  <2> QED
    BY <2>2, <2>3
<1>12. ASSUME NEW f \in Files, CloseFile(f) PROVE InSync(p)'
  <2>1. /\ queue' = Notify(queue, Raw(Parent[f], "IN_CLOSE_WRITE", f))
        /\ size' = size /\ writing' = writing \ {f} /\ followed' = followed
    BY <1>12 DEF CloseFile
  <2>2. ASSUME p = f, Seen(p) PROVE CloseComes(p)'
    <3>1. "IN_CLOSE_WRITE" \in LeafMasks
          /\ Unread' = batch \o Notify(queue, Raw(Parent[p], "IN_CLOSE_WRITE", p))
      BY <1>1, <2>1, <2>2 DEF LeafMasks, Unread
    <3>2. Waits(p, {"IN_CLOSE_WRITE"})'
      BY <1>1, <1>4, <1>5, <2>2, <3>1, LeafComes DEF Seen, QueueInv
    <3> QED
      BY <3>2 DEF CloseComes, Comes
  <2> QED
    BY <1>7, <2>1, <2>2
<1>13. ASSUME NEW f \in Files, Delete(f) PROVE InSync(p)'
  BY <1>7, <1>13 DEF Delete, TreeInv
<1>14. ASSUME NEW f \in Files, NEW g \in Files, Move(f, g) PROVE InSync(p)'
  <2> DEFINE half == Notify(queue, Raw(Parent[f], "IN_MOVED_FROM", f))
  <2>1. /\ queue' = Notify(half, Raw(Parent[g], "IN_MOVED_TO", g))
        /\ size' = [size EXCEPT ![g] = size[f], ![f] = Absent] /\ writing' = writing
        /\ p \in followed \ {f, g} \/ (p = g /\ Seen(g))
    BY <1>14 DEF Move
  <2>2. half \in Seq(Raws)
    <3>1. f \in Paths /\ "IN_MOVED_FROM" \in LeafMasks
      BY DEF Paths, LeafMasks
    <3> QED
      BY <3>1, LeafTold DEF QueueInv, WatchInv, Unread
  <2> HIDE DEF half
  <2>3. CASE p = g /\ Seen(g)
    BY <1>8, <2>1, <2>2, <2>3
  <2>4. CASE p \in followed \ {f, g}
    BY <1>7, <2>1, <2>4 DEF TreeInv
  <2> QED
    BY <2>1, <2>3, <2>4
<1>15. ASSUME NEW f \in Files, Touch(f) PROVE InSync(p)'
  BY <1>7, <1>15 DEF Touch
<1>16. ASSUME NEW d \in Dirs, MakeDir(d) PROVE InSync(p)'
  <2>1. /\ queue' = Notify(queue, Raw(Parent[d], "IN_CREATE", d))
        /\ size' = size /\ writing' = writing /\ inode[d] = 0
        /\ p \in followed \/ (p = d /\ Seen(d))
    BY <1>16 DEF MakeDir
  <2>2. CASE p \in followed
    BY <1>7, <2>1, <2>2
  <2>3. CASE p = d /\ Seen(d)
    BY <1>8, <2>1, <2>3 DEF QueueInv
  <2> QED
    BY <2>1, <2>2, <2>3
<1>17. ASSUME NEW d \in Dirs, RemoveDir(d) PROVE InSync(p)'
  BY <1>7, <1>17 DEF RemoveDir
<1> QED
  BY <1>9, <1>10, <1>11, <1>12, <1>13, <1>14, <1>15, <1>16, <1>17 DEF User

\* The reader takes what comes of a file or directory from the queue to the
\* channel: its directory is known, and the file is there.
LEMMA ReaderSync ==
  ASSUME TreeInv, QueueInv, WatchInv, EventInv, SyncInv, Reader,
         UNCHANGED <<pc, monVars, serverVars>>
  PROVE  SyncInv'
<1>1. /\ UNCHANGED <<fsVars, marks, restored>>
      /\ UNCHANGED <<pc, cur, fd, fileWatchMap, srcList, restarted>>
  BY DEF Reader, ReadQueue, Lookup, Offer, mapVars, monVars, serverVars
<1> SUFFICES ASSUME pc \notin Ended, ~restarted, ~Lost',
                    NEW p \in followed, Parent[p] \notin restored
             PROVE  InSync(p)'
  BY <1>1 DEF SyncInv, fsVars, mapVars
<1>2. /\ p \in Paths /\ Exists(p) /\ Parent[p] \in Folders /\ p # NoPath /\ p # Self
  BY TreeAssumption, Names DEF TreeInv
<1>3. /\ Listed(p)' <=> Listed(p)
      /\ SizeTold(p)' = SizeTold(p)
      /\ Seen(p)' <=> Seen(p)
      /\ size'[p] = size[p] /\ writing' = writing
  BY <1>1 DEF Listed, SizeTold, Seen, fsVars, mapVars
<1>4. ASSUME ~Lost, CreateComes(p) => CreateComes(p)', CloseComes(p) => CloseComes(p)'
      PROVE  InSync(p)'
  BY <1>3, <1>4 DEF SyncInv, InSync
<1>5. CASE ReadQueue
  <2>1. batch = << >> /\ batch' = queue /\ queue' = << >> /\ event' = event
    BY <1>5 DEF ReadQueue
  <2>2. Unread' = Unread
    BY <2>1, ConcatEmptySeq DEF Unread, QueueInv
  <2> QED
    BY <1>1, <1>4, <2>1, <2>2
    DEF Lost, CreateComes, CloseComes, Comes, Waits, fsVars
<1>6. CASE Offer
  <2>1. /\ UNCHANGED <<batch, queue>>
        /\ \/ event' = NoEvent /\ event.op # "overflow" /\ ignoreLinux(event.op, event.name)
           \/ event' = [event EXCEPT !.stage = "offered"]
    BY <1>6 DEF Offer
  <2>2. Unread' = Unread
    BY <2>1 DEF Unread
  <2>3. event \in Events
    BY DEF EventInv
  <2>4. event.name = p /\ event.op \in {"Create", "CloseWrite"} =>
          event'.name = p /\ event'.op = event.op
    BY <1>2, <2>1, <2>3 DEF Events, ignoreLinux
  <2>5. event.op = "overflow" => event'.op = "overflow"
    BY <2>1, <2>3 DEF Events
  <2> QED
    BY <1>1, <1>4, <2>2, <2>4, <2>5
    DEF Lost, CreateComes, CloseComes, Comes, Waits, fsVars
<1>7. CASE Lookup
  <2> DEFINE raw == Head(batch)
  <2>1. /\ Unread \in Seq(Raws) /\ 1 \in 1..Len(Unread)
        /\ raw = Unread[1] /\ raw \in Raws
        /\ Unread' \in Seq(Raws)
        /\ Len(Unread') = Len(Unread) - 1
        /\ \A i \in 1..Len(Unread') : i + 1 \in 1..Len(Unread) /\ Unread'[i] = Unread[i + 1]
    BY <1>7, UnreadHead DEF Lookup
  <2>2. Len(Unread) \in Nat /\ Len(Unread') \in Nat
    BY <2>1, LenProperties
  <2>3. \A i \in 1..Len(Unread) :
          i = 1 \/ (i - 1 \in 1..Len(Unread') /\ Unread'[i - 1] = Unread[i])
    <3> SUFFICES ASSUME NEW i \in 1..Len(Unread), i # 1
                 PROVE  i - 1 \in 1..Len(Unread') /\ Unread'[i - 1] = Unread[i]
      OBVIOUS
    <3>1. i - 1 \in 1..Len(Unread') /\ i - 1 + 1 = i
      BY <2>1, <2>2
    <3> QED
      BY <2>1, <3>1
  <2>4. /\ event = NoEvent
        /\ raw.mask # "IN_IGNORED" =>
             event' = [op |-> Op(raw.mask),
                       name |-> IF raw.wd \notin DOMAIN paths THEN NoPath
                                ELSE IF raw.leaf = Self THEN paths[raw.wd] ELSE raw.leaf,
                       stage |-> "named"]
    BY <1>7 DEF Lookup
  <2>5. ~Lost
    <3> SUFFICES ASSUME NEW i \in 1..Len(Unread), Unread[i] = Overflow PROVE FALSE
      BY <2>4 DEF Lost, NoEvent
    <3>1. CASE i = 1
      BY <2>1, <2>4, <3>1 DEF Overflow, Op, Lost
    <3> QED
      BY <2>3, <3>1 DEF Lost, Overflow
  <2> HIDE DEF raw
  <2>6. ASSUME raw.leaf = p, raw.wd = inode[Parent[p]]
        PROVE  raw.wd \in DOMAIN paths
    <3>1. raw.wd \in marks
      BY <1>2, <2>1, <2>6 DEF Raws, Overflow
    <3> QED
      BY <1>2, <2>6, <3>1 DEF WatchInv, MapInv
  <2>7. ASSUME NEW masks, NEW op, Waits(p, masks), raw.mask \in masks =>
                 raw.mask # "IN_IGNORED" /\ Op(raw.mask) = op
        PROVE  Waits(p, masks)' \/ (event'.name = p /\ event'.op = op)
    <3>1. PICK i \in 1..Len(Unread) :
            /\ Unread[i].leaf = p /\ Unread[i].mask \in masks
            /\ Unread[i].wd = inode[Parent[p]]
      BY <2>7 DEF Waits
    <3>2. CASE i = 1
      BY <1>2, <2>1, <2>4, <2>6, <2>7, <3>1, <3>2
    <3>3. CASE i # 1
      BY <1>1, <2>3, <3>1, <3>3 DEF Waits, fsVars
    <3> QED
      BY <3>2, <3>3
  <2>8. NoEvent.name # p
    BY <1>2 DEF NoEvent
  <2>9. CreateComes(p) => CreateComes(p)'
    <3>1. raw.mask \in {"IN_CREATE", "IN_MOVED_TO"} =>
            raw.mask # "IN_IGNORED" /\ Op(raw.mask) = "Create"
      BY DEF Op
    <3> QED
      BY <1>1, <2>4, <2>7, <2>8, <3>1 DEF CreateComes, Comes
  <2>10. CloseComes(p) => CloseComes(p)'
    <3>1. raw.mask \in {"IN_CLOSE_WRITE"} =>
            raw.mask # "IN_IGNORED" /\ Op(raw.mask) = "CloseWrite"
      BY DEF Op
    <3> QED
      BY <1>1, <2>4, <2>7, <2>8, <3>1 DEF CloseComes, Comes
  <2> QED
    BY <1>4, <2>5, <2>9, <2>10
<1> QED
  BY <1>5, <1>6, <1>7 DEF Reader

\* The monitor takes what comes of a file from the channel to the server.
LEMMA MonSync ==
  ASSUME TreeInv, QueueInv, EventInv, IndexInv, BookInv, SyncInv, pc \notin Ended,
         StartMon \/ Restart
  PROVE  SyncInv'
<1> SUFFICES ASSUME pc' \notin Ended, ~restarted', ~Lost',
                    NEW p \in followed', Parent[p] \notin restored'
             PROVE  InSync(p)'
  BY DEF SyncInv
<1>1. /\ UNCHANGED <<fsVars, queue, batch>>
      /\ restored \subseteq restored' /\ marks \subseteq marks'
      /\ restarted' = restarted
      /\ event' = event \/ Receive
  <2>1. \A d : Add(d) => restored \subseteq restored' /\ marks \subseteq marks'
    BY DEF Add
  <2> QED
    BY <2>1 DEF StartMon, Watch, Receive, Ignored, ScanCreated, AddToMonList, AddFails,
       Announce, ScanClosed, Update, Unreachable, Restart, watcherVars, readerVars,
       mapVars, serverVars
<1>2. /\ p \in followed /\ p \in Paths /\ p # NoPath /\ Parent[p] \notin restored
  BY <1>1, Names DEF TreeInv, fsVars
<1>3. /\ size'[p] = size[p] /\ writing' = writing /\ (Seen(p) => Seen(p)')
      /\ \A masks : Waits(p, masks)' <=> Waits(p, masks)
  BY <1>1 DEF Waits, Unread, Seen, fsVars
<1>4. ~Lost
  <2>1. event' = event => ~Lost
    BY <1>1 DEF Lost, Unread
  <2>2. Receive => event.op # "overflow"
    BY DEF Receive, Goto, Ended
  <2> QED
    BY <1>1, <2>1, <2>2 DEF Lost, Unread
<1>5. InSync(p)
  BY <1>1, <1>2, <1>4 DEF SyncInv
<1>6. ASSUME event' = event,
             pc = "lock" => cur.name # p \/ cur.op \notin {"Create", "CloseWrite"}
      PROVE  /\ CreateComes(p) => CreateComes(p)'
             /\ CloseComes(p) => CloseComes(p)'
  BY <1>3, <1>6 DEF CreateComes, CloseComes, Comes
<1>7. ASSUME CreateComes(p) => CreateComes(p)', CloseComes(p) => CloseComes(p)',
             UNCHANGED <<fileWatchMap, srcList>>,
             pc \notin {"add", "announce", "update"} \/ cur.name # p,
             pc' \notin {"add", "announce", "update"} \/ cur'.name # p
      PROVE  InSync(p)'
  <2>1. Listed(p)' <=> Listed(p)
    BY <1>7 DEF Listed
  <2>2. SizeTold(p)' = SizeTold(p)
    BY <1>7 DEF SizeTold
  <2> QED
    BY <1>3, <1>5, <1>7, <2>1, <2>2 DEF InSync
<1>8. CASE Watch
  <2>1. /\ pc = "start" /\ pc' = "select" /\ event' = event /\ UNCHANGED <<fileWatchMap, srcList>>
    BY <1>8 DEF Watch, Goto, monVars, serverVars, readerVars
  <2> QED
    BY <1>6, <1>7, <2>1
<1>9. CASE Receive
  <2>1. /\ pc = "select" /\ pc' = "lock" /\ cur' = event /\ UNCHANGED <<fileWatchMap, srcList>>
    BY <1>9 DEF Receive, Goto, serverVars, Ended
  <2>2. (CreateComes(p) => CreateComes(p)') /\ (CloseComes(p) => CloseComes(p)')
    BY <1>3, <2>1 DEF CreateComes, CloseComes, Comes
  <2> QED
    BY <1>7, <2>1, <2>2
<1>10. CASE Ignored
  <2>1. /\ pc = "lock" /\ cur.op \notin {"Create", "CloseWrite"} /\ pc' = "select"
        /\ event' = event /\ UNCHANGED <<fileWatchMap, srcList>>
    BY <1>10 DEF Ignored, Locked, Return, Goto, watcherVars, readerVars, serverVars
  <2> QED
    BY <1>6, <1>7, <2>1
<1>11. CASE ScanCreated
  <2>1. /\ pc = "lock" /\ pc' = "add" /\ cur' = cur /\ cur.op = "Create"
        /\ fd'.size = SizeNow(cur.name)
        /\ event' = event /\ UNCHANGED <<fileWatchMap, srcList>>
    BY <1>11 DEF ScanCreated, Locked, Continue, Stop, Goto, watcherVars, readerVars,
                 serverVars, Ended
  <2>2. CASE cur.name = p
    BY <1>3, <2>1, <2>2 DEF InSync, Listed, SizeTold, SizeNow
  <2>3. CASE cur.name # p
    BY <1>6, <1>7, <2>1, <2>3
  <2> QED
    BY <2>2, <2>3
<1>12. CASE AddToMonList
  <2>1. /\ pc = "add" /\ pc' = "announce" /\ UNCHANGED <<event, cur, fd, srcList>>
        /\ fileWatchMap' = With(fileWatchMap, cur.name, fd)
    BY <1>12 DEF AddToMonList, Goto, serverVars, readerVars
  <2>2. (CreateComes(p) => CreateComes(p)') /\ (CloseComes(p) => CloseComes(p)')
    BY <1>6, <2>1
  <2>3. cur.name # p => /\ p \in DOMAIN fileWatchMap' <=> p \in DOMAIN fileWatchMap
                        /\ p \in DOMAIN fileWatchMap => fileWatchMap'[p] = fileWatchMap[p]
    BY <2>1 DEF With
  <2>4. Listed(p) => Listed(p)' /\ SizeTold(p)' = SizeTold(p)
    BY <2>1, <2>3 DEF Listed, SizeTold
  <2> QED
    BY <1>3, <1>5, <2>2, <2>4 DEF InSync
<1>13. CASE Announce
  <2>1. /\ pc = "announce" /\ pc' = "select" /\ UNCHANGED <<event, fileWatchMap>>
        /\ srcList' = With(srcList, fd.idx, Entry(cur.name, fd.size))
    BY <1>13 DEF Announce, Return, Stop, Goto, watcherVars, readerVars, Ended
  <2>2. (CreateComes(p) => CreateComes(p)') /\ (CloseComes(p) => CloseComes(p)')
    BY <1>6, <2>1
  <2>3. cur.name \in DOMAIN fileWatchMap /\ fileWatchMap[cur.name] = fd
    BY <2>1 DEF BookInv
  <2>4. /\ DOMAIN srcList' = DOMAIN srcList \cup {fd.idx}
        /\ srcList'[fd.idx] = Entry(cur.name, fd.size)
        /\ \A i \in DOMAIN srcList \ {fd.idx} : srcList'[i] = srcList[i]
    BY <2>1 DEF With
  <2>5. CASE cur.name = p
    BY <1>3, <1>5, <2>1, <2>2, <2>3, <2>4, <2>5 DEF InSync, Listed, SizeTold, Entry
  <2>6. CASE cur.name # p
    <3>1. p \in DOMAIN fileWatchMap => fileWatchMap[p].idx # fd.idx
      BY <2>3, <2>6 DEF BookInv
    <3>2. Listed(p) => Listed(p)' /\ SizeTold(p)' = SizeTold(p)
      BY <2>1, <2>4, <2>6, <3>1 DEF Listed, SizeTold
    <3> QED
      BY <1>3, <1>5, <2>2, <3>2 DEF InSync
  <2> QED
    BY <2>5, <2>6
<1>14. CASE ScanClosed
  <2>1. /\ pc = "lock" /\ cur.op = "CloseWrite" /\ cur.name \notin fileLocks
        /\ event' = event /\ UNCHANGED <<fileWatchMap, srcList>>
        /\ cur.name \in DOMAIN fileWatchMap
        /\ \/ /\ pc' = "update" /\ cur' = cur
              /\ fd' = [fileWatchMap[cur.name] EXCEPT !.size = size[cur.name]]
           \/ pc' = "select" /\ fileWatchMap[cur.name].size = size[cur.name]
    BY <1>14 DEF ScanClosed, Locked, Continue, Return, Stop, Goto, watcherVars, readerVars,
                 serverVars, Ended, differs
  <2>2. CASE cur.name # p
    BY <1>6, <1>7, <2>1, <2>2
  <2>3. CASE cur.name = p
    <3>1. CreateComes(p) => CreateComes(p)'
      BY <1>3, <2>1 DEF CreateComes, Comes
    <3>2. Listed(p) => Listed(p)'
      BY <2>1 DEF Listed
    <3>3. CASE pc' = "update" /\ cur' = cur
               /\ fd' = [fileWatchMap[cur.name] EXCEPT !.size = size[cur.name]]
      <4>1. fd'.size = size[cur.name]
        <5>1. IsFd(fileWatchMap[cur.name])
          BY <2>1 DEF IndexInv, Known
        <5> QED
          BY <3>3, <5>1 DEF IsFd
      <4>2. SizeTold(p)' = size[p]
        BY <2>3, <3>3, <4>1 DEF SizeTold
      <4> QED
        BY <1>3, <1>5, <3>1, <3>2, <4>2 DEF InSync
    <3>4. CASE pc' = "select" /\ fileWatchMap[cur.name].size = size[cur.name]
      <4>1. Listed(p) => SizeTold(p)' = size[p]
        BY <2>1, <2>3, <3>4 DEF SizeTold, Listed, BookInv
      <4> QED
        BY <1>3, <1>5, <3>1, <3>2, <4>1 DEF InSync
    <3> QED
      BY <2>1, <3>3, <3>4
  <2> QED
    BY <2>2, <2>3
<1>15. CASE Update
  <2>1. /\ pc = "update" /\ pc' = "select" /\ UNCHANGED <<event, fileWatchMap>>
        /\ fd.idx \in DOMAIN srcList
        /\ srcList' = [srcList EXCEPT ![fd.idx].size = fd.size]
    BY <1>15 DEF Update, Return, Stop, Goto, watcherVars, readerVars, Ended
  <2>2. (CreateComes(p) => CreateComes(p)') /\ (CloseComes(p) => CloseComes(p)')
    BY <1>6, <2>1
  <2>3. cur.name \in DOMAIN fileWatchMap /\ fileWatchMap[cur.name].idx = fd.idx
    BY <2>1 DEF BookInv
  <2>4. /\ DOMAIN srcList' = DOMAIN srcList
        /\ srcList'[fd.idx] = [srcList[fd.idx] EXCEPT !.size = fd.size]
        /\ \A i \in DOMAIN srcList \ {fd.idx} : srcList'[i] = srcList[i]
    BY <2>1
  <2>5. srcList'[fd.idx].path = srcList[fd.idx].path /\ srcList'[fd.idx].size = fd.size
    BY <2>1, <2>4 DEF BookInv, IsEntry, Entry
  <2>6. CASE cur.name = p
    BY <1>3, <1>5, <2>1, <2>2, <2>3, <2>4, <2>5, <2>6 DEF InSync, Listed, SizeTold
  <2>7. CASE cur.name # p
    <3>1. p \in DOMAIN fileWatchMap => fileWatchMap[p].idx # fd.idx
      BY <2>3, <2>7 DEF BookInv
    <3>2. Listed(p) => Listed(p)' /\ SizeTold(p)' = SizeTold(p)
      BY <2>1, <2>4, <2>7, <3>1 DEF Listed, SizeTold
    <3> QED
      BY <1>3, <1>5, <2>2, <3>2 DEF InSync
  <2> QED
    BY <2>6, <2>7
<1>16. ~AddFails /\ ~Unreachable /\ ~Restart
  BY <1>1 DEF AddFails, Unreachable, Restart, Stop, Goto, Ended
<1> QED
  BY <1>8, <1>9, <1>10, <1>11, <1>12, <1>13, <1>14, <1>15, <1>16 DEF StartMon

\* What the watcher, the monitor and the server hold, together.
MonitorInv == WatcherInv /\ IndexInv /\ BookInv /\ SyncInv

\* It holds after the listing of the initial synchronization.
LEMMA InitMonitor == Init => MonitorInv
<1> SUFFICES ASSUME Init PROVE MonitorInv
  OBVIOUS
<1>1. \A p \in followed : Listed(p) /\ SizeTold(p) = size[p]
  BY InitBook
<1>2. SyncInv
  BY <1>1 DEF SyncInv, InSync
<1> QED
  BY <1>2, InitWatcher, InitIndices, InitBook DEF MonitorInv

\* Every step keeps it.
LEMMA NextMonitor == MonitorInv /\ [Next]_vars => MonitorInv'
<1> SUFFICES ASSUME MonitorInv, [Next]_vars PROVE MonitorInv'
  OBVIOUS
<1>1. WatcherInv' /\ IndexInv' /\ BookInv'
  BY NextWatcher, NextIndices, NextBook DEF MonitorInv, WatcherInv
<1>2. SyncInv'
  <2>1. CASE UNCHANGED vars
    BY <2>1 DEF MonitorInv, SyncInv, InSync, CreateComes, CloseComes, Comes, Waits, Unread,
                Listed, SizeTold, Lost, Seen, vars, watcherVars, fsVars, readerVars,
                mapVars, monVars, serverVars
  <2> QED
    BY <2>1, UserSync, ReaderSync, MonSync DEF MonitorInv, WatcherInv, Next
<1> QED
  BY <1>1, <1>2 DEF MonitorInv

\* When all is read, taken and evaluated, the server has every file and directory
\* whose changes happened under a watch, with its size (monitor.go, inotify.go
\* and the ADD and UPD of receiver.go, together): InSyncWhenQuiet.
THEOREM ServerInSync == Spec => []InSyncWhenQuiet
<1>1. MonitorInv => InSyncWhenQuiet
  <2> SUFFICES ASSUME MonitorInv, Quiet, ~restarted, NEW p \in followed,
                      Parent[p] \notin restored
               PROVE  /\ p \in DOMAIN fileWatchMap
                      /\ fileWatchMap[p].idx \in DOMAIN srcList
                      /\ srcList[fileWatchMap[p].idx].path = p
                      /\ p \in Files \ writing => srcList[fileWatchMap[p].idx].size = size[p]
    BY DEF InSyncWhenQuiet
  <2>1. pc = "select" /\ Unread = << >> /\ Len(Unread) = 0 /\ event = NoEvent
    BY EmptySeq, ConcatEmptySeq DEF Quiet, Idle, Unread
  <2>2. ~Lost
    BY <2>1 DEF Lost, NoEvent
  <2>3. ~CreateComes(p) /\ ~CloseComes(p)
    BY <2>1 DEF CreateComes, CloseComes, Comes, Waits, NoEvent
  <2>4. InSync(p)
    BY <2>1, <2>2 DEF MonitorInv, SyncInv, Ended
  <2> QED
    BY <2>1, <2>3, <2>4 DEF InSync, Listed, SizeTold
<1> QED
  BY InitMonitor, NextMonitor, <1>1, PTL DEF Spec

=============================================================================
