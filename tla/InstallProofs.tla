---------------------------- MODULE InstallProofs ----------------------------
(***************************************************************************)
(* The writers of a file with differences, or of a missing one, implement  *)
(* AtomicFile when nothing cancels them: whichever of their operations     *)
(* fail, and whatever writers share the messages.                          *)
(***************************************************************************)
EXTENDS FileWriterProofs

Late == {"merge", "unref", "close", "done", "failed"}

\* A destination that a writer has begun to build is of one that had every
\* message, so that no other can come and move it away or build over it.
BuiltByOne ==
  \/ dst \in {Absent, Old}
  \/ /\ dst.kind = "built"
     /\ \E w \in Writers : own[w] = Msgs /\ pc[w] \in Late

\* The old file is under its name or aside, from where no writer removes it
\* before the new one is whole.
OldAside ==
  srcFd.state = "Diff" =>
    /\ \A w \in Writers : pc[w] \in {"recv", "drain", "rebuild", "merge"} => ref = Old
    /\ dst = Old \/ ref = Old \/ Whole(dst)

\* A missing file is installed by a rename.
Renamed ==
  srcFd.state = "Missing" => /\ \A w \in Writers : pc[w] # "merge"
                             /\ ref # Old
                             /\ dst \in {Absent, Old} \/ Whole(dst)

Setting ==
  /\ srcFd.state \in {"Diff", "Missing"}
  /\ ~cancelled

AInv == IInv /\ Setting /\ BuiltByOne /\ OldAside /\ Renamed

-----------------------------------------------------------------------------
LEMMA Kinds ==
  /\ Absent # Old /\ ~Whole(Absent) /\ ~Whole(Old)
  /\ \A p \in Pieces : Built(p).kind = "built" /\ Built(p) # Old /\ Built(p) # Absent
  /\ Old.kind # "built" /\ Absent.kind # "built"
BY DEF Absent, Old, Whole, Built

LEMMA SomeMessage == Msgs # {}
<1>1. 0 \in Offsets /\ 0 \in 0..LastSeq[0]
  BY OffsetsAssumption, LastSeqAssumption
<1> QED
  BY <1>1, MsgsType

\* Who may still come to the destination finds it as it was.
LEMMA Untouched ==
  ASSUME AInv, NEW w \in Writers, pc[w] \in {"start", "recv", "drain", "rebuild"}
  PROVE  dst \in {Absent, Old}
<1> SUFFICES ASSUME NEW v \in Writers, own[v] = Msgs, pc[v] \in Late PROVE FALSE
  BY DEF AInv, BuiltByOne
<1>1. v # w
  BY DEF Late
<1>2. own[w] \subseteq Msgs /\ own[w] # {}
  BY DEF AInv, IInv, TypeOK, Ownership
<1> QED
  BY <1>1, <1>2 DEF AInv, IInv, Ownership

\* A writer that installs has had every message.
LEMMA HadAll ==
  ASSUME AInv, NEW w \in Writers, pc[w] \in Installing
  PROVE  closed[w] = Offsets /\ own[w] = Msgs
BY ClosedAll DEF AInv, IInv, Setting, Counting

\* The invariant is kept by a step that leaves the files alone and lets no
\* writer past the opening.
LEMMA FilesAlone ==
  ASSUME AInv, IInv', UNCHANGED <<srcFd, dst, ref, cancelled>>,
         \A w \in Writers : own[w] \subseteq own'[w],
         \A w \in Writers : pc[w] \in Late => pc'[w] \in Late,
         \A w \in Writers : pc'[w] \in {"recv", "drain", "rebuild", "merge"} =>
           \/ pc[w] \in {"recv", "drain", "rebuild", "merge"}
           \/ srcFd.state = "Missing",
         \A w \in Writers : pc'[w] = "merge" => pc[w] = "merge"
  PROVE  AInv' /\ best' = best
<1>1. BuiltByOne'
  <2>1. CASE dst \in {Absent, Old}
    BY <2>1 DEF BuiltByOne
  <2>2. CASE dst \notin {Absent, Old}
    <3>1. PICK w \in Writers : own[w] = Msgs /\ pc[w] \in Late /\ dst.kind = "built"
      BY <2>2 DEF AInv, BuiltByOne
    <3>2. own'[w] = Msgs
      BY <3>1 DEF IInv, TypeOK
    <3> QED
      BY <3>1, <3>2 DEF BuiltByOne
  <2> QED
    BY <2>1, <2>2
<1>2. Setting' /\ Renamed' /\ best' = best
  BY DEF AInv, Setting, Renamed, Whole, best
<1>3. OldAside'
  BY DEF AInv, OldAside, Whole
<1> QED
  BY <1>1, <1>2, <1>3 DEF AInv

\* What AtomicFile allows a step to do.
Replaces == best' = best \/ (best # "new" /\ best' = "new")

LEMMA OpenStep ==
  ASSUME AInv, IInv', NEW w \in Writers, Open(w)
  PROVE  AInv' /\ Replaces
<1>1. UNCHANGED <<srcFd, cancelled, own>> /\ pc[w] = "start"
      /\ \/ pc' = [pc EXCEPT ![w] = "recv"]
         \/ pc' = [pc EXCEPT ![w] = "failed"]
  BY DEF Open, Goto, chanVars
<1>2. pc \in [Writers -> {"none", "start", "recv", "drain", "rebuild", "merge",
                          "unref", "close", "done", "failed"}]
  BY DEF AInv, IInv, TypeOK
<1>3. CASE UNCHANGED <<dst, ref>> /\ (pc'[w] = "failed" \/ srcFd.state = "Missing")
  <2>1. AInv' /\ best' = best
    BY <1>1, <1>2, <1>3, FilesAlone DEF Late
  <2> QED
    BY <2>1 DEF Replaces
<1>4. CASE ref' = dst /\ dst' = Absent /\ dst # Absent /\ srcFd.state = "Diff"
  <2>1. dst = Old
    BY <1>1, <1>4, Untouched
  <2>2. best = "old" /\ best' = "old"
    BY <1>4, <2>1, Kinds DEF best
  <2>3. BuiltByOne' /\ OldAside' /\ Renamed' /\ Setting'
    BY <1>1, <1>4, <2>1 DEF AInv, BuiltByOne, OldAside, Renamed, Setting
  <2> QED
    BY <2>2, <2>3 DEF AInv, Replaces
<1> QED
  BY <1>2, <1>3, <1>4 DEF Open, Goto, fdVars, AInv, Setting

LEMMA RenameInstalls ==
  ASSUME AInv, IInv', NEW w \in Writers, RebuildRename(w)
  PROVE  AInv' /\ Replaces
<1>1. /\ UNCHANGED <<srcFd, cancelled, own, ref>> /\ pc[w] = "rebuild"
      /\ pc' = [pc EXCEPT ![w] = "unref"]
      /\ dst' = Built(<<Piece(w, 0)>>)
  BY DEF RebuildRename, Goto, chanVars
<1>2. pc'[w] = "unref" /\ \A v \in Writers : v # w => pc'[v] = pc[v]
  BY <1>1 DEF AInv, IInv, TypeOK
<1>3. Whole(dst')
  BY <1>1, <1>2 DEF AInv, Setting, IInv, Building, InstalledWhole, Whole
<1>4. dst \in {Absent, Old}
  BY <1>1, Untouched
<1>5. best # "new" /\ best' = "new"
  BY <1>3, <1>4, Kinds DEF best, Whole
<1>6. dst'.kind = "built" /\ own'[w] = Msgs
  BY <1>1, HadAll DEF Built, Installing
<1>7. BuiltByOne'
  BY <1>2, <1>6 DEF BuiltByOne, Late
<1>8. Whole(dst)'
  BY <1>3 DEF Whole
<1>9. OldAside' /\ Renamed' /\ Setting'
  BY <1>1, <1>2, <1>8 DEF AInv, OldAside, Renamed, Setting
<1> QED
  BY <1>5, <1>7, <1>9 DEF AInv, Replaces

LEMMA CreateAside ==
  ASSUME AInv, IInv', NEW w \in Writers, RebuildCreate(w)
  PROVE  AInv' /\ Replaces
<1>1. /\ UNCHANGED <<srcFd, cancelled, own, ref>> /\ pc[w] = "rebuild"
      /\ pc' = [pc EXCEPT ![w] = "merge"]
      /\ dst' = Built(<< >>)
      /\ ~ \E o \in fileMap[w] : fileMap[w] = {o}
  BY DEF RebuildCreate, Goto, chanVars
<1>2. pc'[w] = "merge" /\ \A v \in Writers : v # w => pc'[v] = pc[v]
  BY <1>1 DEF AInv, IInv, TypeOK
<1>3. closed[w] = Offsets /\ own[w] = Msgs
  BY <1>1, HadAll DEF Installing
<1>4. fileMap[w] = Offsets
  <2>1. closed[w] \subseteq fileMap[w]
    BY DEF AInv, IInv, Progress
  <2>2. fileMap[w] \subseteq Offsets
    BY DEF AInv, IInv, TypeOK
  <2> QED
    BY <1>3, <2>1, <2>2
<1>5. srcFd.state = "Diff"
  <2>1. srcFd.state = "Missing" => "Missing" \in States
    BY DEF AInv, IInv, TypeOK
  <2>2. Offsets # {0}
    BY <1>1, <1>4
  <2> QED
    BY <2>1, <2>2, StreamsAssumption DEF AInv, Setting
<1>6. ref = Old /\ ref' = Old
  BY <1>1, <1>5 DEF AInv, OldAside
<1>7. dst \in {Absent, Old}
  BY <1>1, Untouched
<1>8. ~Whole(dst')
  <2>1. dst'.pieces = << >>
    BY <1>1 DEF Built
  <2>2. {dst'.pieces[i].off : i \in DOMAIN dst'.pieces} = {}
    BY <2>1
  <2> QED
    BY <2>2, OffsetsAssumption DEF Whole
<1>9. best = "old" /\ best' = "old"
  BY <1>6, <1>7, <1>8, Kinds DEF best, Whole
<1>10. BuiltByOne'
  BY <1>1, <1>2, <1>3 DEF BuiltByOne, Late, Built
<1>11. OldAside' /\ Renamed' /\ Setting'
  BY <1>1, <1>5, <1>6 DEF AInv, OldAside, Renamed, Setting
<1> QED
  BY <1>9, <1>10, <1>11 DEF AInv, Replaces

LEMMA MergeAside ==
  ASSUME AInv, IInv', NEW w \in Writers, NEW o \in Offsets, Merge(w, o)
  PROVE  AInv' /\ Replaces
<1>1. /\ UNCHANGED <<srcFd, cancelled, own, ref, pc>> /\ pc[w] = "merge"
      /\ dst' = Built(Append(dst.pieces, Piece(w, o)))
      /\ o \in left[w]
  BY DEF Merge, chanVars
<1>2. srcFd.state = "Diff" /\ ref = Old
  BY <1>1 DEF AInv, Setting, Renamed, OldAside
<1>3. ~Whole(dst)
  <2>1. {dst.pieces[i].off : i \in 1..Len(dst.pieces)} = fileMap[w] \ left[w]
    BY <1>1 DEF AInv, IInv, Building, Merged
  <2>2. DOMAIN dst.pieces = 1..Len(dst.pieces)
    <3>1. dst.pieces \in Pieces
      BY ContentsType DEF AInv, IInv, TypeOK
    <3> QED
      BY <3>1 DEF Pieces
  <2>3. fileMap[w] \subseteq Offsets /\ o \in Offsets
    BY DEF AInv, IInv, TypeOK
  <2>4. {dst.pieces[i].off : i \in DOMAIN dst.pieces} # Offsets
    BY <1>1, <2>1, <2>2, <2>3
  <2> QED
    BY <2>4 DEF Whole
<1>4. best = "old" /\ best' \in {"old", "new"}
  BY <1>1, <1>2, <1>3 DEF best
<1>5. own[w] = Msgs
  BY <1>1, HadAll DEF Installing
<1>6. BuiltByOne'
  BY <1>1, <1>5 DEF BuiltByOne, Late, Built
<1>7. OldAside' /\ Renamed' /\ Setting'
  BY <1>1, <1>2 DEF AInv, OldAside, Renamed, Setting
<1> QED
  BY <1>4, <1>6, <1>7 DEF AInv, Replaces

LEMMA UnrefWhole ==
  ASSUME AInv, IInv', NEW w \in Writers, Unref(w)
  PROVE  AInv' /\ Replaces
<1>1. /\ UNCHANGED <<srcFd, cancelled, own, dst>> /\ pc[w] = "unref"
      /\ pc' = [pc EXCEPT ![w] = "close"]
      /\ ref' = IF srcFd.state = "Diff" THEN Absent ELSE ref
  BY DEF Unref, Goto, chanVars
<1>2. Whole(dst) /\ Whole(dst')
  BY <1>1 DEF AInv, Setting, IInv, Building, InstalledWhole, Whole
<1>3. best' = best
  BY <1>2 DEF best, Whole
<1>4. pc'[w] = "close" /\ \A v \in Writers : v # w => pc'[v] \in {"none", "failed"}
  BY <1>1, Sole DEF AInv, IInv, TypeOK, Installing
<1>5. own[w] = Msgs
  BY <1>1, HadAll DEF Installing
<1>6. BuiltByOne'
  BY <1>1, <1>2, <1>4, <1>5 DEF BuiltByOne, Late, Whole
<1>7. Whole(dst)'
  BY <1>2 DEF Whole
<1>8. OldAside' /\ Renamed' /\ Setting'
  BY <1>1, <1>4, <1>7, Kinds DEF AInv, OldAside, Renamed, Setting
<1> QED
  BY <1>3, <1>6, <1>8 DEF AInv, Replaces

\* Every step keeps the invariant and is a step or a stutter of AtomicFile.
LEMMA InstallStep ==
  ASSUME ~MayCancel, AInv, IInv', [Next]_vars
  PROVE  AInv' /\ Replaces
<1> USE DEF Goto
<1>1. ASSUME UNCHANGED <<srcFd, dst, ref, cancelled>>,
             \A w \in Writers : own[w] \subseteq own'[w],
             \A w \in Writers : pc[w] \in Late => pc'[w] \in Late,
             \A w \in Writers : pc'[w] \in {"recv", "drain", "rebuild", "merge"} =>
               pc[w] \in {"recv", "drain", "rebuild", "merge"},
             \A w \in Writers : pc'[w] = "merge" => pc[w] = "merge"
      PROVE  AInv' /\ Replaces
  BY <1>1, FilesAlone DEF Replaces
<1>2. pc \in [Writers -> {"none", "start", "recv", "drain", "rebuild", "merge",
                          "unref", "close", "done", "failed"}]
      /\ own \in [Writers -> SUBSET Msgs]
  BY DEF AInv, IInv, TypeOK
<1>3. ASSUME NEW w \in Writers, NEW m \in Msgs, Route(w, m) PROVE AInv' /\ Replaces
  BY <1>1, <1>2, <1>3 DEF Route, fdVars, Late
<1>4. ASSUME NEW w \in Writers, NEW m \in Msgs, Put(w, m) PROVE AInv' /\ Replaces
  BY <1>1, <1>2, <1>4 DEF Put, fdVars
<1>5. ASSUME NEW w \in Writers, NEW m \in Msgs,
             CacheMsg(w, m) \/ DrainData(w, m)
      PROVE  AInv' /\ Replaces
  BY <1>1, <1>2, <1>5 DEF CacheMsg, DrainData, fdVars, chanVars
<1>6. ASSUME NEW w \in Writers, NEW m \in Msgs, ReceiveData(w, m)
      PROVE  AInv' /\ Replaces
  BY <1>1, <1>2, <1>6 DEF ReceiveData, FromInbox, fdVars, Late
<1>7. ASSUME NEW w \in Writers, NEW m \in Msgs, ReceiveEnd(w, m) \/ DrainEnd(w, m)
      PROVE  AInv' /\ Replaces
  <2>1. /\ UNCHANGED <<srcFd, fdVars, cancelled, own>> /\ pc[w] \in {"recv", "drain"}
        /\ pc' = pc \/ pc' = [pc EXCEPT ![w] = "rebuild"]
    BY <1>2, <1>7 DEF ReceiveEnd, DrainEnd, FromInbox, FromCache, EndStream, chanVars
  <2> QED
    BY <1>1, <1>2, <2>1 DEF fdVars, Late
<1>8. ASSUME NEW w \in Writers, NEW m \in Msgs, WriteFailure(w, m)
      PROVE  AInv' /\ Replaces
  <2>1. UNCHANGED <<srcFd, fdVars, cancelled, own>> /\ pc' = [pc EXCEPT ![w] = "failed"]
    BY <1>8 DEF WriteFailure
  <2> QED
    BY <1>1, <1>2, <2>1 DEF fdVars, Late
<1>9. ASSUME NEW w \in Writers, DrainDone(w) \/ CtxDone(w)
      PROVE  AInv' /\ Replaces
  BY <1>1, <1>2, <1>9 DEF DrainDone, CtxDone, fdVars, chanVars, Late
<1>10. ASSUME NEW w \in Writers,
              RebuildPanic(w) \/ MergeDone(w) \/ Close(w) \/ IoFailure(w)
       PROVE  AInv' /\ Replaces
  BY <1>1, <1>2, <1>10
  DEF RebuildPanic, MergeDone, Close, IoFailure, fdVars, chanVars, Late
<1>11. CASE Cancel
  BY <1>11 DEF Cancel
<1>12. CASE UNCHANGED vars
  BY <1>1, <1>12 DEF vars, fdVars, chanVars
<1> QED
  BY <1>3, <1>4, <1>5, <1>6, <1>7, <1>8, <1>9, <1>10, <1>11, <1>12, OpenStep,
     RenameInstalls, CreateAside, MergeAside, UnrefWhole DEF Next, WriterStep

-----------------------------------------------------------------------------
\* Init: the destination is as the last run left it.
LEMMA InstallInit ==
  ASSUME ~MayCancel, States \subseteq {"Diff", "Missing"}, Init, IInv
  PROVE  AInv /\ best \in {"none", "old"}
<1>1. /\ srcFd.state \in {"Diff", "Missing"} /\ cancelled = FALSE
      /\ dst \in {Absent, Old} /\ ref \in {Absent, Stale}
      /\ srcFd.state # "Missing" => dst = Old
      /\ \A w \in Writers : pc[w] = "none"
  BY DEF Init
<1>2. Stale # Old
  BY DEF Stale, Old
<1> QED
  BY <1>1, <1>2, Kinds DEF AInv, Setting, BuiltByOne, OldAside, Renamed, best

\* The promise of the receiver, for any writers, streams, lengths and failing
\* file operations: the best complete version beside the name of the file is
\* only ever replaced by the complete new one (the order of rename, rebuild and
\* removal in FileWriter.Start): AtomicInstall, for a file that is not "Meta"
\* and without cancellation.
THEOREM InstallIsAtomic ==
  ASSUME ~MayCancel, States \subseteq {"Diff", "Missing"}
  PROVE  Spec => AtomicInstall
<1>1. Init /\ IInv => AInv /\ File!Init
  BY InstallInit DEF File!Init
<1>2. AInv /\ IInv' /\ [Next]_vars => AInv' /\ [File!Next]_best
  BY InstallStep DEF Replaces, File!Next, File!Install
<1> QED
  BY <1>1, <1>2, Inductive, PTL DEF Spec, AtomicInstall, File!Spec

=============================================================================
