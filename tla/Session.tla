------------------------------ MODULE Session ------------------------------
(***************************************************************************)
(* Repeated local synchronisations of ONE file, with edits of the source   *)
(* at any time and sessions that are cut short: the comparison of the two  *)
(* lists (compare, workers/receiver.go), what the sender makes of the      *)
(* answer (parseRemoteList, workers/sender.go), and the effect of the      *)
(* transfer on the destination.  A session knows the source by what it has *)
(* listed; the readers read what is there when they come to it.            *)
(*                                                                         *)
(* The content of a file is the first bytes, as many as its size, of some  *)
(* data.  Times are only compared for equality: a new one is one that is   *)
(* not in use.                                                             *)
(***************************************************************************)
EXTENDS Integers

CONSTANTS
  Sizes,       \* sizes of the source file
  Datas,       \* data of the source file
  Times,       \* modification times
  DefaultSize, \* the block size of files that are not small (700)
  SplitSize    \* files above this size are written in several streams

ASSUME SessionAssumption ==
  /\ Sizes \subseteq Nat
  /\ DefaultSize \in Nat \ {0}
  /\ SplitSize \in Nat
  /\ "mixed" \notin Datas /\ "empty" \notin Datas

VARIABLES
  src,     \* the source file
  dst,     \* the destination file
  phase,   \* where the session is
  list,    \* the source file as it was listed
  state,   \* state of the file in the answer
  got,     \* the source file as the reader has opened it
  doubtful \* the file has got its new time, but not yet its content

listVars == <<list, state>>
vars == <<src, dst, phase, listVars, got, doubtful>>

Absent == [kind |-> "absent"]

FileOf(n, d, t) ==
  [kind |-> "file", size |-> n, data |-> IF n = 0 THEN "empty" ELSE d, time |-> t]

SourceFiles == {FileOf(n, d, t) : n \in Sizes, d \in Datas, t \in Times}

There(e) == e # Absent

SameContent(e, g) ==
  There(e) /\ There(g) /\ e.size = g.size /\ e.data = g.data

\* The first n bytes of a file.
Prefix(e, n, t) == FileOf(IF n < e.size THEN n ELSE e.size, e.data, t)

Fresh(t) == \A e \in {src, dst, list, got} : There(e) => e.time # t

\* A file smaller than the default block is one block.
BlockSize(e) == IF e.size \in 1..(DefaultSize - 1) THEN e.size ELSE DefaultSize

Init ==
  /\ src \in SourceFiles \cup {Absent}
  /\ dst \in SourceFiles \cup {Absent}
  /\ There(src) /\ There(dst) /\ src.time = dst.time => SameContent(src, dst)
  /\ phase = "idle"
  /\ list = Absent
  /\ state = "none"
  /\ got = Absent
  /\ doubtful = FALSE

-----------------------------------------------------------------------------
\* The user of the source directory writes, touches or removes the file.  A
\* write that keeps both size and time is beyond any comparison of lists.
Edit ==
  /\ \/ \E n \in Sizes, d \in Datas, t \in Times :
          Fresh(t) /\ src' = FileOf(n, d, t)
     \/ src' = Absent
  /\ UNCHANGED <<dst, phase, listVars, got, doubtful>>

-----------------------------------------------------------------------------
\* The session.

Goto(p) == phase' = p

\* A file that is not in the source is in no list, and stays at the
\* destination.
genSrcList ==
  /\ phase \in {"idle", "done"}
  /\ list' = src
  /\ state' = "none"
  /\ got' = Absent
  /\ Goto(IF There(src) THEN "compare" ELSE "done")
  /\ UNCHANGED <<src, dst, doubtful>>

\* Mutant of Unchanged: the times are not compared.
SameSize == There(dst) /\ list.size = dst.size

Unchanged == There(dst) /\ list.size = dst.size /\ list.time = dst.time

\* The old file is no longer than a block of the new one.
Short == dst.size <= BlockSize(list)

Compared(s) ==
  /\ phase = "compare"
  /\ state' = s
  /\ Goto("digest")
  /\ UNCHANGED <<src, list, got>>

fixMeta == dst' = [dst EXCEPT !.time = list.time]

CompareSkip == Compared("skip") /\ Unchanged /\ UNCHANGED <<dst, doubtful>>

\* Whatever the difference, a short file is sent whole.
CompareShort ==
  /\ Compared("missing")
  /\ There(dst) /\ ~Unchanged
  /\ Short
  /\ UNCHANGED <<dst, doubtful>>

\* The source file has become empty: it is taken for done.
CompareEmptied ==
  /\ Compared("skip")
  /\ There(dst) /\ ~Unchanged /\ ~Short
  /\ list.size = 0
  /\ fixMeta
  /\ UNCHANGED doubtful

\* The size is the same: the time is set at once, and the content left to the
\* sender to decide.
CompareMeta ==
  /\ Compared("meta")
  /\ There(dst) /\ ~Unchanged /\ ~Short
  /\ list.size = dst.size
  /\ fixMeta
  /\ doubtful' = TRUE

CompareDiff ==
  /\ Compared("diff")
  /\ There(dst) /\ ~Short
  /\ list.size \notin {0, dst.size}
  /\ UNCHANGED <<dst, doubtful>>

\* An empty file is made by the receiver itself, with a time of its own.
CompareNewEmpty ==
  /\ Compared("skip")
  /\ ~There(dst) /\ list.size = 0
  /\ \E t \in Times : Fresh(t) /\ dst' = FileOf(0, "empty", t)
  /\ doubtful' = FALSE

CompareMissing ==
  /\ Compared("missing")
  /\ ~There(dst) /\ list.size # 0
  /\ UNCHANGED <<dst, doubtful>>

compare ==
  \/ CompareSkip \/ CompareShort \/ CompareEmptied \/ CompareMeta
  \/ CompareDiff \/ CompareNewEmpty \/ CompareMissing

\* Mutants of parseRemoteList: files whose time was set are left alone, or
\* sent whatever their digest.
leaveMeta ==
  /\ phase = "digest"
  /\ Goto(IF state \in {"skip", "meta"} THEN "done" ELSE "open")
  /\ doubtful' = (doubtful /\ state # "meta")
  /\ UNCHANGED <<src, dst, listVars, got>>

sendMeta ==
  /\ phase = "digest"
  /\ state = "meta" => There(src)
  /\ Goto(IF state = "skip" THEN "done" ELSE "open")
  /\ UNCHANGED <<src, dst, listVars, got, doubtful>>

\* The sender sends what is missing or different, and of the files whose time
\* was set those that have another digest than the file it has now.
parseRemoteList ==
  LET matches == state = "meta" /\ SameContent(src, dst)
  IN /\ phase = "digest"
     /\ state = "meta" => There(src)
     /\ Goto(IF state = "skip" \/ matches THEN "done" ELSE "open")
     /\ doubtful' = (doubtful /\ ~matches)
     /\ UNCHANGED <<src, dst, listVars, got>>

\* A reader opens the file.  The rolling one refuses a file of one block.
Read ==
  /\ phase = "open"
  /\ There(src)
  /\ state # "missing" => src.size > BlockSize(list) /\ list.size > BlockSize(list)
  /\ got' = src
  /\ Goto("send")
  /\ UNCHANGED <<src, dst, listVars, doubtful>>

\* Mutant of Open: the old file is put aside whatever its state.
OpenAny ==
  /\ phase = "send"
  /\ dst' = Absent
  /\ Goto("write")
  /\ UNCHANGED <<src, listVars, got, doubtful>>

\* The writer puts a file with differences aside, as .ref, where the next
\* session does not look (FileWriter has the .ref).
Open ==
  /\ phase = "send"
  /\ dst' = IF state = "diff" THEN Absent ELSE dst
  /\ Goto("write")
  /\ UNCHANGED <<src, listVars, got, doubtful>>

\* What has arrived: the file as it was opened, up to the size it was listed
\* with; if it has been edited since, that or the new one or some of each.
Arrived(t) ==
  {Prefix(got, list.size, t)}
    \cup IF src = got THEN {}
         ELSE {FileOf(n, "mixed", t) : n \in 1..list.size}
                \cup IF There(src) THEN {Prefix(src, list.size, t)} ELSE {}

Streams == state # "missing" /\ list.size > SplitSize

\* The temporary files of several streams are joined in place.
Merge ==
  /\ phase = "write"
  /\ Streams
  /\ \E t \in Times, n \in 0..(list.size - 1) :
       /\ Fresh(t)
       /\ \E e \in Arrived(t) : dst' = Prefix(e, n, t)
  /\ Goto("merge")
  /\ UNCHANGED <<src, listVars, got, doubtful>>

Install ==
  /\ phase \in {"write", "merge"}
  /\ phase = "merge" <=> Streams
  /\ \E t \in Times : Fresh(t) /\ dst' \in Arrived(t)
  /\ doubtful' = FALSE
  /\ Goto("done")
  /\ UNCHANGED <<src, listVars, got>>

\* The session is interrupted, or fails.
Interrupt ==
  /\ phase \notin {"idle", "done"}
  /\ Goto("idle")
  /\ UNCHANGED <<src, dst, listVars, got, doubtful>>

-----------------------------------------------------------------------------
Next ==
  \/ Edit
  \/ genSrcList \/ compare \/ parseRemoteList
  \/ Read \/ Open \/ Merge \/ Install
  \/ Interrupt

Spec == Init /\ [][Next]_vars

-----------------------------------------------------------------------------
Anything == [kind : {"file"}, size : Nat, data : Datas \cup {"mixed", "empty"}, time : Times]

\* The variables hold values of the kind the code gives them; the destination
\* is away only for a missing file or one that is being rewritten.
TypeOK ==
  /\ src \in SourceFiles \cup {Absent} /\ list \in SourceFiles \cup {Absent}
  /\ got \in SourceFiles \cup {Absent}
  /\ dst \in Anything \cup {Absent}
  /\ phase \in {"idle", "compare", "digest", "open", "send", "write", "merge", "done"}
  /\ state \in {"none", "skip", "missing", "diff", "meta"}
  /\ doubtful \in BOOLEAN
  /\ ~There(dst) /\ phase \in {"write", "merge"} => state \in {"missing", "diff"}

\* The receiver took the file for done although the source is empty.
Emptied == list.size = 0 /\ There(dst) /\ dst.size > DefaultSize

\* A file the answer says to skip has the content the source was listed with,
\* after any history of edits and of sessions cut short at any step: nothing
\* partial, mixed or outdated ever carries the time of the source.  Except for
\* a source that was emptied, and for a file that has got its time from
\* fixMeta in a session that did not come to send the content.
SkipMatches ==
  state = "skip" /\ phase # "idle" => SameContent(dst, list) \/ Emptied \/ doubtful

\* A session that comes to its end, and whose source is still as it was listed,
\* has made the destination equal to it, with the same exceptions; what earlier
\* sessions left half done is repaired.
SessionSyncs ==
  phase = "done" /\ There(src) /\ src = list
    => SameContent(dst, src) \/ Emptied \/ doubtful

\* A file of more than a block that the destination has already is not sent
\* again (NOTES.md: "make sure to not send the same file").
NothingResent ==
  phase = "open" /\ There(src) /\ src = list /\ SameContent(dst, src)
    => src.size <= BlockSize(src)

\* Skip means "file exists and matches" (lfs.go), once more without exceptions.
SkipIsMatch == state = "skip" /\ phase # "idle" => SameContent(dst, list)

=============================================================================
