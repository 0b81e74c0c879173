----------------------------- MODULE FileWriter -----------------------------
(***************************************************************************)
(* The writers of ONE file on the receiving side (workers/writers.go).     *)
(* The file arrives as parallel streams, one per section of the source     *)
(* file, named by the section's offset.  A message of a stream is known by *)
(* its offset and sequence number, the last one of a stream carries the    *)
(* End frame.  A writer puts each stream in a temporary file of its own,   *)
(* in sequence order, and when every stream has ended installs the         *)
(* concatenation as the destination file.                                  *)
(*                                                                         *)
(* The set of writers is a parameter: the receiver means to have one per   *)
(* file, HttpReceiver shows when there can be more.                        *)
(***************************************************************************)
EXTENDS Integers, Sequences, FiniteSets

CONSTANTS
  Writers,    \* FileWriter instances that may be made for the file
  Offsets,    \* offsets of the streams; their number is the stream count
  LastSeq,    \* LastSeq[o]: sequence number of the last message of stream o
  States,     \* states of the file in the answer to the sender
  Transport,  \* "local": one receiving loop, "http": concurrent handlers
  MayFail,    \* whether file operations may fail
  MayCancel   \* whether the context may be cancelled

ASSUME OffsetsAssumption ==
  Offsets \subseteq Nat /\ IsFiniteSet(Offsets) /\ 0 \in Offsets

ASSUME LastSeqAssumption == LastSeq \in [Offsets -> Nat]

ASSUME SettingAssumption ==
  /\ States \subseteq {"Missing", "Diff", "Meta"}
  /\ Transport \in {"local", "http"}
  /\ MayFail \in BOOLEAN
  /\ MayCancel \in BOOLEAN

\* A missing file is always sent as one stream.
ASSUME StreamsAssumption == "Missing" \in States => Offsets = {0}

\* Two writers that both rebuild the file can only be met after a
\* cancellation, and their writes to one inode are not modelled.
ASSUME CancelAssumption ==
  MayCancel => \A v, w \in Writers : v = w

Msgs == UNION {[off : {o}, seq : 0..LastSeq[o]] : o \in Offsets}

IsEnd(m) == m.seq = LastSeq[m.off]

Streams == Cardinality(Offsets)

\* Capacity of a writer's inbox.
InboxCap == IF Transport = "local" THEN Streams ELSE 2 * Streams

VARIABLES
  srcFd,     \* state of the file and the messages with index frames
  dst,       \* the destination file
  ref,       \* the file beside it with suffix .ref
  cancelled, \* the context is done
  pc,        \* where each writer is in Start
  own,       \* messages the receiver has taken for each writer
  held,      \* those it has not yet put into the writer's inbox
  inbox,
  fileMap,   \* offsets of the temporary files a writer has opened
  tmp,       \* tmp[w][o]: sequence numbers written to that temporary file
  seq,       \* seq[w][o]: next sequence number expected
  dataBuf,   \* messages cached because they came out of order
  closed,    \* offsets of the temporary files a writer has closed
  streams,   \* count of streams that have not ended
  cur,       \* offset of the stream whose cache is being emptied
  left       \* offsets of the temporary files not yet merged

fdVars == <<dst, ref>>
chanVars == <<own, held, inbox>>
tmpVars == <<fileMap, tmp, seq, dataBuf, closed, streams, cur>>
vars == <<srcFd, fdVars, cancelled, pc, chanVars, tmpVars, left>>

Pieces == Seq([off : Offsets, toks : Seq(Nat)])
Absent == [kind |-> "absent", pieces |-> << >>]
Old == [kind |-> "old", pieces |-> << >>]
Stale == [kind |-> "stale", pieces |-> << >>]
Built(p) == [kind |-> "built", pieces |-> p]
Contents == [kind : {"absent", "old", "stale", "built"}, pieces : Pieces]

\* Every number from 0 to n, in order: the data of a stream, complete.
UpTo(n) == [i \in 1..(n + 1) |-> i - 1]

\* The new file, complete: every stream, complete, in ascending offset.
Whole(c) ==
  /\ c.kind = "built"
  /\ \A i \in DOMAIN c.pieces : c.pieces[i].toks = UpTo(LastSeq[c.pieces[i].off])
  /\ \A i, j \in DOMAIN c.pieces : i < j => c.pieces[i].off < c.pieces[j].off
  /\ {c.pieces[i].off : i \in DOMAIN c.pieces} = Offsets

Taken == UNION {own[w] : w \in Writers}

-----------------------------------------------------------------------------
\* A file found missing has no index frames, and those of a file with
\* differences can always be read: they are left out.  A missing file can be
\* there all the same: one no longer than a block is sent as missing.
Init ==
  /\ srcFd \in [state : States, refs : SUBSET Msgs]
  /\ dst \in {Absent, Old}
  /\ srcFd.state # "Meta" => srcFd.refs = {}
  /\ srcFd.state # "Missing" => dst = Old
  /\ ref \in {Absent, Stale}
  /\ cancelled = FALSE
  /\ pc = [w \in Writers |-> "none"]
  /\ own = [w \in Writers |-> {}]
  /\ held = [w \in Writers |-> {}]
  /\ inbox = [w \in Writers |-> << >>]
  /\ fileMap = [w \in Writers |-> {}]
  /\ tmp = [w \in Writers |-> [o \in Offsets |-> << >>]]
  /\ seq = [w \in Writers |-> [o \in Offsets |-> 0]]
  /\ dataBuf = [w \in Writers |-> {}]
  /\ closed = [w \in Writers |-> {}]
  /\ streams = [w \in Writers |-> Streams]
  /\ cur = [w \in Writers |-> 0]
  /\ left = [w \in Writers |-> {}]

-----------------------------------------------------------------------------
\* The receiving loop of local mode handles one message at a time, gets those
\* of a stream in order and finds the writer it has made.
InTurn(w, m) ==
  /\ \A v \in Writers : held[v] = {} /\ (pc[v] # "none" => v = w)
  /\ \A k \in Msgs : k.off = m.off /\ k.seq < m.seq => k \in Taken

\* The receiver takes a message for a writer, which it makes and starts when
\* there was none.
Route(w, m) ==
  /\ m \notin Taken
  /\ Transport = "local" => InTurn(w, m)
  /\ pc[w] # "done"
  /\ own' = [own EXCEPT ![w] = @ \cup {m}]
  /\ held' = [held EXCEPT ![w] = @ \cup {m}]
  /\ pc' = [pc EXCEPT ![w] = IF @ = "none" THEN "start" ELSE @]
  /\ UNCHANGED <<srcFd, fdVars, cancelled, inbox, tmpVars, left>>

\* Mutant of Put: the inbox has no bound.
PutUnbounded(w, m) ==
  /\ m \in held[w]
  /\ held' = [held EXCEPT ![w] = @ \ {m}]
  /\ inbox' = [inbox EXCEPT ![w] = Append(@, m)]
  /\ UNCHANGED <<srcFd, fdVars, cancelled, pc, own, tmpVars, left>>

\* The send to the inbox blocks while it is full.
Put(w, m) ==
  /\ m \in held[w]
  /\ Len(inbox[w]) < InboxCap
  /\ held' = [held EXCEPT ![w] = @ \ {m}]
  /\ inbox' = [inbox EXCEPT ![w] = Append(@, m)]
  /\ UNCHANGED <<srcFd, fdVars, cancelled, pc, own, tmpVars, left>>

Cancel ==
  /\ MayCancel
  /\ cancelled' = TRUE
  /\ UNCHANGED <<srcFd, fdVars, pc, chanVars, tmpVars, left>>

-----------------------------------------------------------------------------
\* Steps of Start.

Goto(w, l) == pc' = [pc EXCEPT ![w] = l]

\* Mutant of Open: the old file is removed instead of put aside.
OpenRemoves(w) ==
  /\ pc[w] = "start"
  /\ dst' = IF srcFd.state = "Diff" THEN Absent ELSE dst
  /\ Goto(w, "recv")
  /\ UNCHANGED <<srcFd, ref, cancelled, chanVars, tmpVars, left>>

\* A file with differences is put aside to read the known blocks from.
Open(w) ==
  /\ pc[w] = "start"
  /\ \/ /\ srcFd.state # "Diff"
        /\ Goto(w, "recv")
        /\ UNCHANGED fdVars
     \/ /\ srcFd.state = "Diff"
        /\ dst # Absent
        /\ ref' = dst
        /\ dst' = Absent
        /\ \/ Goto(w, "recv")
           \/ MayFail /\ Goto(w, "failed")
     \/ /\ srcFd.state = "Diff"
        /\ dst = Absent
        /\ Goto(w, "failed")
        /\ UNCHANGED fdVars
  /\ UNCHANGED <<srcFd, cancelled, chanVars, tmpVars, left>>

\* An index frame is read from the reference file, which only a file with
\* differences has; a closed temporary file takes no data.
WriteFails(w, m) ==
  \/ m.off \in closed[w]
  \/ m \in srcFd.refs /\ srcFd.state # "Diff"

writeToFile(w, m) ==
  /\ ~WriteFails(w, m)
  /\ tmp' = [tmp EXCEPT ![w][m.off] = Append(@, m.seq)]

\* The next message to write: from the inbox, or from the cache of the stream
\* that has just advanced.
FromInbox(w, m) ==
  /\ pc[w] = "recv"
  /\ inbox[w] # << >>
  /\ m = Head(inbox[w])
  /\ inbox' = [inbox EXCEPT ![w] = Tail(@)]
  /\ fileMap' = [fileMap EXCEPT ![w] = @ \cup {m.off}]

\* Mutant of InSequence: a later message is written, only earlier ones wait.
NotBefore(w, m) == m.seq >= seq[w][m.off]

InSequence(w, m) == m.seq = seq[w][m.off]

\* Mutant of CacheMsg: what is out of order is dropped.
CacheMsgDrops(w, m) ==
  /\ FromInbox(w, m)
  /\ ~InSequence(w, m)
  /\ UNCHANGED <<srcFd, fdVars, cancelled, pc, own, held, tmp, seq, dataBuf,
                 closed, streams, cur, left>>

CacheMsg(w, m) ==
  /\ FromInbox(w, m)
  /\ ~InSequence(w, m)
  /\ dataBuf' = [dataBuf EXCEPT ![w] = @ \cup {m}]
  /\ UNCHANGED <<srcFd, fdVars, cancelled, pc, own, held, tmp, seq, closed,
                 streams, cur, left>>

ReceiveData(w, m) ==
  /\ FromInbox(w, m)
  /\ InSequence(w, m)
  /\ ~IsEnd(m)
  /\ writeToFile(w, m)
  /\ seq' = [seq EXCEPT ![w][m.off] = @ + 1]
  /\ cur' = [cur EXCEPT ![w] = m.off]
  /\ Goto(w, "drain")
  /\ UNCHANGED <<srcFd, fdVars, cancelled, own, held, dataBuf, closed,
                 streams, left>>

\* Mutant of EndStream: the count is off by one.
EndStreamEarly(w, o) ==
  /\ closed' = [closed EXCEPT ![w] = @ \cup {o}]
  /\ streams' = [streams EXCEPT ![w] = @ - 1]
  /\ pc' = [pc EXCEPT ![w] = IF streams'[w] <= 1 THEN "rebuild" ELSE @]

\* The End frame closes the temporary file; the last one ends the loop, and
\* otherwise the writer goes on where it is.
EndStream(w, o) ==
  /\ closed' = [closed EXCEPT ![w] = @ \cup {o}]
  /\ streams' = [streams EXCEPT ![w] = @ - 1]
  /\ pc' = [pc EXCEPT ![w] = IF streams'[w] = 0 THEN "rebuild" ELSE @]

ReceiveEnd(w, m) ==
  /\ FromInbox(w, m)
  /\ InSequence(w, m)
  /\ IsEnd(m)
  /\ writeToFile(w, m)
  /\ EndStream(w, m.off)
  /\ UNCHANGED <<srcFd, fdVars, cancelled, own, held, seq, dataBuf, cur, left>>

FromCache(w, m) ==
  /\ pc[w] = "drain"
  /\ m \in dataBuf[w]
  /\ m.off = cur[w]
  /\ InSequence(w, m)

DrainData(w, m) ==
  /\ FromCache(w, m)
  /\ ~IsEnd(m)
  /\ writeToFile(w, m)
  /\ dataBuf' = [dataBuf EXCEPT ![w] = @ \ {m}]
  /\ seq' = [seq EXCEPT ![w][m.off] = @ + 1]
  /\ UNCHANGED <<srcFd, fdVars, cancelled, pc, chanVars, fileMap, closed,
                 streams, cur, left>>

\* While other streams are open the loop over the cache goes on, and the
\* message with the End frame is still the next one in the cache.
DrainEnd(w, m) ==
  /\ FromCache(w, m)
  /\ IsEnd(m)
  /\ writeToFile(w, m)
  /\ EndStream(w, m.off)
  /\ UNCHANGED <<srcFd, fdVars, cancelled, chanVars, fileMap, seq, dataBuf,
                 cur, left>>

DrainDone(w) ==
  /\ pc[w] = "drain"
  /\ ~ \E m \in dataBuf[w] : FromCache(w, m)
  /\ Goto(w, "recv")
  /\ UNCHANGED <<srcFd, fdVars, cancelled, chanVars, tmpVars, left>>

\* A write that fails, or a temporary file that cannot be made, ends the writer;
\* the files stay as they are.
WriteFailure(w, m) ==
  /\ \/ FromInbox(w, m) /\ (InSequence(w, m) \/ m.off \notin fileMap[w])
     \/ FromCache(w, m) /\ UNCHANGED <<inbox, fileMap>>
  /\ MayFail \/ (InSequence(w, m) /\ WriteFails(w, m))
  /\ Goto(w, "failed")
  /\ UNCHANGED <<srcFd, fdVars, cancelled, own, held, tmp, seq, dataBuf,
                 closed, streams, cur, left>>

\* A cancelled context ends the loop, and the file is rebuilt all the same.
CtxDone(w) ==
  /\ pc[w] = "recv"
  /\ cancelled
  /\ Goto(w, "rebuild")
  /\ UNCHANGED <<srcFd, fdVars, cancelled, chanVars, tmpVars, left>>

Piece(w, o) == [off |-> o, toks |-> tmp[w][o]]

\* With one temporary file, of offset 0, the rebuild is a rename.
RebuildRename(w) ==
  /\ pc[w] = "rebuild"
  /\ fileMap[w] = {0}
  /\ dst' = Built(<<Piece(w, 0)>>)
  /\ Goto(w, "unref")
  /\ UNCHANGED <<srcFd, ref, cancelled, chanVars, tmpVars, left>>

\* With one temporary file of another offset it dereferences a nil pointer,
\* which ends the process.
RebuildPanic(w) ==
  /\ pc[w] = "rebuild"
  /\ \E o \in fileMap[w] : o # 0 /\ fileMap[w] = {o}
  /\ pc' = [v \in Writers |-> "failed"]
  /\ UNCHANGED <<srcFd, fdVars, cancelled, chanVars, tmpVars, left>>

\* Mutant of RebuildCreate: the reference file is removed before the merge.
RebuildUnrefs(w) ==
  /\ pc[w] = "rebuild"
  /\ ~ \E o \in fileMap[w] : fileMap[w] = {o}
  /\ dst' = Built(<< >>)
  /\ ref' = Absent
  /\ left' = [left EXCEPT ![w] = fileMap[w]]
  /\ Goto(w, "merge")
  /\ UNCHANGED <<srcFd, cancelled, chanVars, tmpVars>>

\* Otherwise the destination is created empty, and the temporary files are
\* appended to it in ascending offset.
RebuildCreate(w) ==
  /\ pc[w] = "rebuild"
  /\ ~ \E o \in fileMap[w] : fileMap[w] = {o}
  /\ dst' = Built(<< >>)
  /\ left' = [left EXCEPT ![w] = fileMap[w]]
  /\ Goto(w, "merge")
  /\ UNCHANGED <<srcFd, ref, cancelled, chanVars, tmpVars>>

Merge(w, o) ==
  /\ pc[w] = "merge"
  /\ o \in left[w]
  /\ \A p \in left[w] : o <= p
  /\ dst' = Built(Append(dst.pieces, Piece(w, o)))
  /\ left' = [left EXCEPT ![w] = @ \ {o}]
  /\ UNCHANGED <<srcFd, ref, cancelled, pc, chanVars, tmpVars>>

MergeDone(w) ==
  /\ pc[w] = "merge"
  /\ left[w] = {}
  /\ Goto(w, "unref")
  /\ UNCHANGED <<srcFd, fdVars, cancelled, chanVars, tmpVars, left>>

\* The reference file is removed only after the new file is in place.
Unref(w) ==
  /\ pc[w] = "unref"
  /\ ref' = IF srcFd.state = "Diff" THEN Absent ELSE ref
  /\ Goto(w, "close")
  /\ UNCHANGED <<srcFd, dst, cancelled, chanVars, tmpVars, left>>

\* closeFunc takes the writer out of the receiver's map.
Close(w) ==
  /\ pc[w] = "close"
  /\ Goto(w, "done")
  /\ UNCHANGED <<srcFd, fdVars, cancelled, chanVars, tmpVars, left>>

\* A file operation outside writeToFile fails: the writer returns.
IoFailure(w) ==
  /\ MayFail
  /\ pc[w] \in {"start", "rebuild", "merge", "unref"}
  /\ pc[w] = "start" => srcFd.state = "Diff"
  /\ pc[w] = "unref" => srcFd.state = "Diff"
  /\ Goto(w, "failed")
  /\ UNCHANGED <<srcFd, fdVars, cancelled, chanVars, tmpVars, left>>

-----------------------------------------------------------------------------
WriterStep(w) ==
  \/ Open(w)
  \/ \E m \in Msgs :
       \/ CacheMsg(w, m) \/ ReceiveData(w, m) \/ ReceiveEnd(w, m)
       \/ DrainData(w, m) \/ DrainEnd(w, m) \/ WriteFailure(w, m)
  \/ DrainDone(w)
  \/ CtxDone(w)
  \/ RebuildRename(w) \/ RebuildPanic(w) \/ RebuildCreate(w)
  \/ \E o \in Offsets : Merge(w, o)
  \/ MergeDone(w)
  \/ Unref(w) \/ Close(w)
  \/ IoFailure(w)

Next ==
  \/ \E w \in Writers :
       \/ \E m \in Msgs : Route(w, m) \/ Put(w, m)
       \/ WriterStep(w)
  \/ Cancel

Spec == Init /\ [][Next]_vars

-----------------------------------------------------------------------------
\* Every variable holds a value of the kind the code gives it, and an inbox no
\* more messages than its channel has room for.
TypeOK ==
  /\ srcFd \in [state : States, refs : SUBSET Msgs]
  /\ dst \in Contents /\ ref \in Contents
  /\ cancelled \in BOOLEAN
  /\ pc \in [Writers -> {"none", "start", "recv", "drain", "rebuild", "merge",
                         "unref", "close", "done", "failed"}]
  /\ own \in [Writers -> SUBSET Msgs]
  /\ held \in [Writers -> SUBSET Msgs]
  /\ inbox \in [Writers -> Seq(Msgs)]
  /\ \A w \in Writers : Len(inbox[w]) <= InboxCap
  /\ fileMap \in [Writers -> SUBSET Offsets]
  /\ tmp \in [Writers -> [Offsets -> Seq(Nat)]]
  /\ seq \in [Writers -> [Offsets -> Nat]]
  /\ dataBuf \in [Writers -> SUBSET Msgs]
  /\ closed \in [Writers -> SUBSET Offsets]
  /\ streams \in [Writers -> Int]
  /\ cur \in [Writers -> Offsets]
  /\ left \in [Writers -> SUBSET Offsets]

\* Whatever the order of arrival, a temporary file holds the first messages of
\* its stream, each once and in sequence order (the sequence check and the
\* cache of Start), and so does every piece of a file built from them, even
\* one built early because the context was cancelled; the pieces ascend.
InOrder ==
  /\ \A w \in Writers : \A o \in Offsets : tmp[w][o] = UpTo(Len(tmp[w][o]) - 1)
  /\ \A i \in DOMAIN dst.pieces :
       dst.pieces[i].toks = UpTo(Len(dst.pieces[i].toks) - 1)
  /\ \A i, j \in DOMAIN dst.pieces :
       i < j => dst.pieces[i].off < dst.pieces[j].off

\* A writer that gets past the rebuild has installed the complete file: every
\* stream, complete, in place.  The count of streams it relies on must hold
\* even when another writer has taken part of the messages.
InstalledWhole ==
  \A w \in Writers :
    pc[w] \in {"unref", "close", "done"} /\ ~cancelled => Whole(dst)

\* At most one writer ever gets as far as rebuilding the file.
OneInstaller ==
  \A v, w \in Writers :
    /\ pc[v] \in {"rebuild", "merge", "unref", "close", "done"}
    /\ pc[w] \in {"rebuild", "merge", "unref", "close", "done"}
    => v = w

\* No writer gives up.  With file operations that succeed, this is what the
\* sequence numbers (lfs.go: "for proper reconstruction") and the reference
\* file are for.
NoWriterFails == \A w \in Writers : pc[w] # "failed"

\* The promise to the user of the receiver: a file with differences is at
\* every moment complete under its name or as .ref, until the complete new
\* version replaces it (the order rename, rebuild, remove of Start).
best == IF Whole(dst) THEN "new"
        ELSE IF dst = Old \/ ref = Old THEN "old"
        ELSE "none"

File == INSTANCE AtomicFile WITH best <- best

AtomicInstall == File!Spec

=============================================================================
