--------------------------- MODULE SessionProofs ---------------------------
(***************************************************************************)
(* What holds of every number of sessions of Session, for any sizes, data  *)
(* and times.                                                              *)
(***************************************************************************)
EXTENDS Session, TLAPS

Entries == SourceFiles \cup {Absent}

\* Files of the source are files, and no file is absent.
LEMMA FilesType ==
  /\ SourceFiles \subseteq Anything
  /\ \A e \in Anything : There(e)
  /\ ~There(Absent)
  /\ \A e \in Entries : There(e) => e \in SourceFiles
<1>1. SourceFiles \subseteq Anything
  BY SessionAssumption DEF SourceFiles, FileOf, Anything
<1>2. \A e \in Anything : There(e)
  BY DEF There, Absent, Anything
<1>3. QED
  BY <1>1, <1>2 DEF There, Entries

\* A block has a size, and the block of an empty file the default one.
LEMMA BlockSizeType ==
  \A e \in Anything : BlockSize(e) \in Nat \ {0} /\ (e.size = 0 => BlockSize(e) = DefaultSize)
BY SessionAssumption DEF Anything, BlockSize

\* A prefix of a file is a file, and all of it when it is long enough.
LEMMA PrefixType ==
  ASSUME NEW e \in Anything, NEW n \in Nat, NEW t \in Times
  PROVE  /\ Prefix(e, n, t) \in Anything
         /\ Prefix(e, n, t).time = t
<1>1. (IF n < e.size THEN n ELSE e.size) \in Nat /\ e.data \in Datas \cup {"mixed", "empty"}
  BY DEF Anything
<1>2. QED
  BY <1>1 DEF Prefix, FileOf, Anything

LEMMA PrefixSame ==
  ASSUME NEW e \in SourceFiles, NEW t \in Times
  PROVE  Prefix(e, e.size, t).size = e.size /\ Prefix(e, e.size, t).data = e.data
<1>1. PICK n \in Sizes, d \in Datas, u \in Times : e = FileOf(n, d, u)
  BY DEF SourceFiles
<1>2. e.size = n /\ e.data = (IF n = 0 THEN "empty" ELSE d) /\ n \in Nat
  BY <1>1, SessionAssumption DEF FileOf
<1>3. QED
  BY <1>2 DEF Prefix, FileOf

\* Everything that can arrive is a file with the time it is written at.
LEMMA ArrivedType ==
  ASSUME TypeOK, There(list), There(got), NEW t \in Times, NEW e \in Arrived(t)
  PROVE  e \in Anything /\ e.time = t
<1>1. list \in Anything /\ got \in Anything /\ list.size \in Nat
  BY FilesType DEF TypeOK, Anything, Entries
<1>2. CASE e = Prefix(got, list.size, t)
  BY <1>1, <1>2, PrefixType
<1>3. CASE There(src) /\ e = Prefix(src, list.size, t)
  <2>1. src \in Anything
    BY <1>3, FilesType DEF TypeOK, Entries
  <2>2. QED
    BY <2>1, <1>1, <1>3, PrefixType
<1>4. CASE \E n \in 1..list.size : e = FileOf(n, "mixed", t)
  BY <1>1, <1>4 DEF FileOf, Anything
<1>5. QED
  BY <1>2, <1>3, <1>4 DEF Arrived

-----------------------------------------------------------------------------
\* The inductive invariant.

\* No two versions of the source have the same time.
Distinct ==
  \A e, g \in {src, list, got} : There(e) /\ There(g) /\ e.time = g.time => e = g

\* The size and time of a version vouch for its content.
Trusts(e) ==
  There(e) /\ There(dst) /\ e.time = dst.time /\ e.size = dst.size
    => e.data = dst.data \/ doubtful

Trusted == Trusts(src) /\ (phase = "compare" => Trusts(list))

\* What the session has found out at each of its stages.
Stages ==
  /\ phase \notin {"idle", "done"} => There(list)
  /\ state # "none" => There(list)
  /\ phase = "digest" => state # "none"
  /\ phase \in {"open", "send", "write", "merge"} => state \in {"missing", "diff", "meta"}
  /\ phase \in {"send", "write", "merge"} => There(got)
  /\ There(got) => There(list)
  /\ There(got) /\ src = list => got = list
  /\ phase \in {"digest", "open"} =>
       /\ state = "missing" => ~There(dst) \/ dst.size <= BlockSize(list)
       /\ state = "diff" => There(dst) /\ dst.size # list.size
  /\ phase \in {"digest", "open", "send"} /\ state = "meta" => There(dst)
  /\ phase = "digest" /\ state = "meta" => dst.time = list.time

IInv ==
  /\ TypeOK /\ Distinct /\ Trusted /\ Stages
  /\ SkipMatches /\ SessionSyncs /\ NothingResent

LEMMA Initially == Init => IInv
<1> SUFFICES ASSUME Init PROVE IInv
  OBVIOUS
<1>1. TypeOK
  BY FilesType DEF Init, TypeOK
<1>2. Distinct
  BY FilesType DEF Init, Distinct
<1>3. Trusted
  BY DEF Init, Trusted, Trusts, SameContent
<1>4. Stages /\ SkipMatches /\ SessionSyncs /\ NothingResent
  BY FilesType DEF Init, Stages, SkipMatches, SessionSyncs, NothingResent
<1>5. QED
  BY <1>1, <1>2, <1>3, <1>4 DEF IInv

-----------------------------------------------------------------------------
\* Each action preserves it.

\* An edit gives the source a time that nothing else has.
LEMMA EditStep == IInv /\ Edit => IInv'
<1> SUFFICES ASSUME IInv, Edit PROVE IInv'
  OBVIOUS
<1> USE DEF IInv
<1>1. UNCHANGED <<dst, phase, list, state, got, doubtful>>
  BY DEF Edit, listVars
<1>2. (src' = Absent) \/ (src' \in SourceFiles /\ Fresh(src'.time))
  <2>1. CASE \E n \in Sizes, d \in Datas, t \in Times : Fresh(t) /\ src' = FileOf(n, d, t)
    <3>1. PICK n \in Sizes, d \in Datas, t \in Times : Fresh(t) /\ src' = FileOf(n, d, t)
      BY <2>1
    <3>2. src' \in SourceFiles
      BY <3>1 DEF SourceFiles
    <3>3. src'.time = t
      BY <3>1 DEF FileOf
    <3>4. QED
      BY <3>1, <3>2, <3>3
  <2>2. CASE src' = Absent
    BY <2>2
  <2>3. QED
    BY <2>1, <2>2, Zenon DEF Edit
<1>3. TypeOK'
  BY <1>1, <1>2 DEF TypeOK, There
<1>4. Distinct'
  BY <1>1, <1>2, FilesType DEF Distinct, Fresh, There
<1>5. Trusted'
  BY <1>1, <1>2, FilesType DEF Trusted, Trusts, Fresh, There
<1>6. There(src') => src' # list /\ src' # got
  BY <1>2, FilesType DEF Fresh, There
<1>7. Stages'
  BY <1>1, <1>6 DEF Stages, There
<1>8. SkipMatches' /\ SessionSyncs' /\ NothingResent'
  BY <1>1, <1>6 DEF SkipMatches, SessionSyncs, NothingResent, SameContent, Emptied, There
<1>9. QED
  BY <1>3, <1>4, <1>5, <1>7, <1>8

LEMMA ListStep == IInv /\ genSrcList => IInv'
<1> SUFFICES ASSUME IInv, genSrcList PROVE IInv'
  OBVIOUS
<1> USE DEF IInv
<1>1. /\ UNCHANGED <<src, dst, doubtful>>
      /\ list' = src /\ state' = "none" /\ got' = Absent
      /\ phase' = IF There(src) THEN "compare" ELSE "done"
  BY DEF genSrcList, Goto
<1>2. TypeOK'
  BY <1>1 DEF TypeOK, There
<1>3. Distinct' /\ Trusted'
  BY <1>1 DEF Distinct, Trusted, Trusts, There
<1>4. Stages'
  BY <1>1 DEF Stages, There
<1>5. SkipMatches' /\ SessionSyncs' /\ NothingResent'
  BY <1>1 DEF SkipMatches, SessionSyncs, NothingResent, There
<1>6. QED
  BY <1>2, <1>3, <1>4, <1>5

\* A file whose size and time are those of the list has its content.
LEMMA SkipStep == IInv /\ CompareSkip => IInv'
<1> SUFFICES ASSUME IInv, CompareSkip PROVE IInv'
  OBVIOUS
<1> USE DEF IInv
<1>1. /\ phase = "compare" /\ phase' = "digest" /\ state' = "skip"
      /\ UNCHANGED <<src, list, got, dst, doubtful>>
      /\ Unchanged
  BY DEF CompareSkip, Compared, Goto
<1>2. TypeOK'
  BY <1>1 DEF TypeOK
<1>3. Distinct' /\ Trusted' /\ Stages'
  BY <1>1 DEF Distinct, Trusted, Trusts, Stages, There
<1>4. SkipMatches'
  BY <1>1 DEF SkipMatches, Unchanged, Trusted, Trusts, Stages, SameContent, There
<1>5. SessionSyncs' /\ NothingResent'
  BY <1>1 DEF SessionSyncs, NothingResent
<1>6. QED
  BY <1>2, <1>3, <1>4, <1>5

LEMMA ShortStep == IInv /\ CompareShort => IInv'
<1> SUFFICES ASSUME IInv, CompareShort PROVE IInv'
  OBVIOUS
<1> USE DEF IInv
<1>1. /\ phase = "compare" /\ phase' = "digest" /\ state' = "missing"
      /\ UNCHANGED <<src, list, got, dst, doubtful>>
      /\ dst.size <= BlockSize(list)
  BY DEF CompareShort, Compared, Goto, Short
<1>2. TypeOK'
  BY <1>1 DEF TypeOK
<1>3. Distinct' /\ Trusted' /\ Stages'
  BY <1>1 DEF Distinct, Trusted, Trusts, Stages, There, BlockSize
<1>4. SkipMatches' /\ SessionSyncs' /\ NothingResent'
  BY <1>1 DEF SkipMatches, SessionSyncs, NothingResent
<1>5. QED
  BY <1>2, <1>3, <1>4

\* The time of the source goes to a file of another size, which it does not
\* vouch for.
LEMMA EmptiedStep == IInv /\ CompareEmptied => IInv'
<1> SUFFICES ASSUME IInv, CompareEmptied PROVE IInv'
  OBVIOUS
<1> USE DEF IInv
<1>1. /\ phase = "compare" /\ phase' = "digest" /\ state' = "skip"
      /\ UNCHANGED <<src, list, got, doubtful>>
      /\ There(dst) /\ ~(dst.size <= BlockSize(list)) /\ list.size = 0
      /\ dst' = [dst EXCEPT !.time = list.time]
  BY DEF CompareEmptied, Compared, Goto, Short, fixMeta
<1>2. There(list) /\ list \in SourceFiles /\ list \in Anything /\ dst \in Anything
  BY <1>1, FilesType DEF Stages, TypeOK, There, Entries
<1>3. /\ dst' \in Anything /\ There(dst')
      /\ dst'.size = dst.size /\ dst'.time = list.time
  <2>1. dst' \in Anything /\ dst'.size = dst.size /\ dst'.time = list.time
    BY <1>1, <1>2 DEF Anything
  <2>2. QED
    BY <2>1, FilesType
<1>4. dst.size > DefaultSize /\ dst.size # 0 /\ dst.size # list.size
  BY <1>1, <1>2, BlockSizeType, SessionAssumption DEF Anything
<1>5. TypeOK'
  BY <1>1, <1>3 DEF TypeOK
<1>6. Distinct'
  BY <1>1 DEF Distinct, There
<1>7. Trusted'
  BY <1>1, <1>2, <1>3, <1>4 DEF Trusted, Trusts, Distinct, There
<1>8. Stages' /\ SessionSyncs' /\ NothingResent'
  BY <1>1, <1>2 DEF Stages, SessionSyncs, NothingResent, There
<1>9. SkipMatches'
  BY <1>1, <1>3, <1>4 DEF SkipMatches, Emptied
<1>10. QED
  BY <1>5, <1>6, <1>7, <1>8, <1>9

\* Nor does it vouch for a file of its size, until the digests are compared.
LEMMA MetaStep == IInv /\ CompareMeta => IInv'
<1> SUFFICES ASSUME IInv, CompareMeta PROVE IInv'
  OBVIOUS
<1> USE DEF IInv
<1>1. /\ phase = "compare" /\ phase' = "digest" /\ state' = "meta"
      /\ UNCHANGED <<src, list, got>>
      /\ There(dst) /\ doubtful' = TRUE
      /\ dst' = [dst EXCEPT !.time = list.time]
  BY DEF CompareMeta, Compared, Goto, fixMeta
<1>2. There(list) /\ list \in Anything /\ dst \in Anything
  BY <1>1, FilesType DEF Stages, TypeOK, There, Entries
<1>3. dst' \in Anything /\ There(dst') /\ dst'.time = list.time
  <2>1. dst' \in Anything /\ dst'.time = list.time
    BY <1>1, <1>2 DEF Anything
  <2>2. QED
    BY <2>1, FilesType
<1>4. TypeOK'
  BY <1>1, <1>3 DEF TypeOK
<1>5. Distinct' /\ Trusted'
  BY <1>1 DEF Distinct, Trusted, Trusts, There
<1>6. Stages'
  BY <1>1, <1>2, <1>3 DEF Stages, There
<1>7. SkipMatches' /\ SessionSyncs' /\ NothingResent'
  BY <1>1 DEF SkipMatches, SessionSyncs, NothingResent
<1>8. QED
  BY <1>4, <1>5, <1>6, <1>7

LEMMA DiffStep == IInv /\ CompareDiff => IInv'
<1> SUFFICES ASSUME IInv, CompareDiff PROVE IInv'
  OBVIOUS
<1> USE DEF IInv
<1>1. /\ phase = "compare" /\ phase' = "digest" /\ state' = "diff"
      /\ UNCHANGED <<src, list, got, dst, doubtful>>
      /\ There(dst) /\ list.size # dst.size
  BY DEF CompareDiff, Compared, Goto
<1>2. TypeOK'
  BY <1>1 DEF TypeOK
<1>3. Distinct' /\ Trusted' /\ Stages'
  BY <1>1 DEF Distinct, Trusted, Trusts, Stages, There
<1>4. SkipMatches' /\ SessionSyncs' /\ NothingResent'
  BY <1>1 DEF SkipMatches, SessionSyncs, NothingResent
<1>5. QED
  BY <1>2, <1>3, <1>4

LEMMA NewEmptyStep == IInv /\ CompareNewEmpty => IInv'
<1> SUFFICES ASSUME IInv, CompareNewEmpty PROVE IInv'
  OBVIOUS
<1> USE DEF IInv
<1>1. /\ phase = "compare" /\ phase' = "digest" /\ state' = "skip"
      /\ UNCHANGED <<src, list, got>>
      /\ list.size = 0
  BY DEF CompareNewEmpty, Compared, Goto
<1>2. PICK t \in Times : Fresh(t) /\ dst' = FileOf(0, "empty", t)
  BY DEF CompareNewEmpty
<1>3. dst' \in Anything /\ dst'.size = 0 /\ dst'.data = "empty" /\ dst'.time = t
  BY <1>2 DEF FileOf, Anything
<1>4. There(dst') /\ There(list) /\ list \in SourceFiles
  BY <1>1, <1>3, FilesType DEF Stages, TypeOK, Entries, There
<1>5. list.data = "empty"
  BY <1>1, <1>4 DEF SourceFiles, FileOf
<1>6. TypeOK'
  BY <1>1, <1>3 DEF TypeOK, CompareNewEmpty
<1>7. Distinct' /\ Trusted'
  BY <1>1, <1>2, <1>3 DEF Distinct, Trusted, Trusts, Fresh, There
<1>8. Stages' /\ SessionSyncs' /\ NothingResent'
  BY <1>1, <1>4 DEF Stages, SessionSyncs, NothingResent, There
<1>9. SkipMatches'
  BY <1>1, <1>3, <1>4, <1>5 DEF SkipMatches, SameContent, There
<1>10. QED
  BY <1>6, <1>7, <1>8, <1>9

LEMMA MissingStep == IInv /\ CompareMissing => IInv'
<1> SUFFICES ASSUME IInv, CompareMissing PROVE IInv'
  OBVIOUS
<1> USE DEF IInv
<1>1. /\ phase = "compare" /\ phase' = "digest" /\ state' = "missing"
      /\ UNCHANGED <<src, list, got, dst, doubtful>>
      /\ ~There(dst)
  BY DEF CompareMissing, Compared, Goto
<1>2. TypeOK'
  BY <1>1 DEF TypeOK
<1>3. Distinct' /\ Trusted' /\ Stages'
  BY <1>1 DEF Distinct, Trusted, Trusts, Stages, There
<1>4. SkipMatches' /\ SessionSyncs' /\ NothingResent'
  BY <1>1 DEF SkipMatches, SessionSyncs, NothingResent
<1>5. QED
  BY <1>2, <1>3, <1>4

LEMMA CompareStep == IInv /\ compare => IInv'
BY SkipStep, ShortStep, EmptiedStep, MetaStep, DiffStep, NewEmptyStep, MissingStep DEF compare

\* A file that the sender leaves alone has the digest of the source it has now;
\* if that has the time of the list, it is what was listed.
LEMMA AnswerStep == IInv /\ parseRemoteList => IInv'
<1> SUFFICES ASSUME IInv, parseRemoteList PROVE IInv'
  OBVIOUS
<1> USE DEF IInv
<1> DEFINE matches == state = "meta" /\ SameContent(src, dst)
<1>1. /\ phase = "digest" /\ UNCHANGED <<src, dst, list, state, got>>
      /\ state = "meta" => There(src)
      /\ phase' = IF state = "skip" \/ matches THEN "done" ELSE "open"
      /\ doubtful' = (doubtful /\ ~matches)
  BY DEF parseRemoteList, listVars, Goto
<1>2. phase' \in {"done", "open"} /\ doubtful' \in BOOLEAN /\ (doubtful' => doubtful)
  BY <1>1 DEF TypeOK
<1>3. TypeOK'
  BY <1>1, <1>2 DEF TypeOK
<1>4. Distinct'
  BY <1>1 DEF Distinct, There
<1>5. Trusted'
  BY <1>1, <1>2 DEF Trusted, Trusts, SameContent, There
<1>6. Stages'
  BY <1>1, <1>2 DEF Stages, TypeOK, There, BlockSize
<1>7. SkipMatches'
  BY <1>1, <1>2 DEF SkipMatches, SameContent, Emptied, There
<1>8. SessionSyncs'
  <2> SUFFICES ASSUME phase' = "done", There(src), src = list
               PROVE  SameContent(dst, src) \/ Emptied \/ doubtful'
    BY <1>1 DEF SessionSyncs, SameContent, Emptied, There
  <2>1. CASE state = "skip"
    BY <2>1, <1>1 DEF SkipMatches
  <2>2. CASE matches
    BY <2>2 DEF SameContent
  <2>3. QED
    BY <1>1, <2>1, <2>2
<1>9. NothingResent'
  <2> SUFFICES ASSUME phase' = "open", There(src), src = list, SameContent(dst, src)
               PROVE  src.size <= BlockSize(src)
    BY <1>1 DEF NothingResent, SameContent, There, BlockSize
  <2>1. state \in {"missing", "diff", "meta"} /\ ~matches
    BY <1>1 DEF TypeOK, Stages
  <2>2. state = "missing"
    BY <1>1, <2>1 DEF Stages, SameContent
  <2>3. QED
    BY <1>1, <2>2 DEF Stages, SameContent
<1>10. QED
  BY <1>3, <1>4, <1>5, <1>6, <1>7, <1>8, <1>9

\* What a reader opens is the source, and so has no other time.
LEMMA ReadStep == IInv /\ Read => IInv'
<1> SUFFICES ASSUME IInv, Read PROVE IInv'
  OBVIOUS
<1> USE DEF IInv
<1>1. /\ phase = "open" /\ phase' = "send" /\ There(src) /\ got' = src
      /\ UNCHANGED <<src, dst, list, state, doubtful>>
  BY DEF Read, listVars, Goto
<1>2. TypeOK' /\ Distinct' /\ Trusted' /\ Stages'
  BY <1>1 DEF TypeOK, Distinct, Trusted, Trusts, Stages, There
<1>3. SkipMatches' /\ SessionSyncs' /\ NothingResent'
  BY <1>1 DEF SkipMatches, SessionSyncs, NothingResent, Stages
<1>4. QED
  BY <1>2, <1>3

LEMMA OpenStep == IInv /\ Open => IInv'
<1> SUFFICES ASSUME IInv, Open PROVE IInv'
  OBVIOUS
<1> USE DEF IInv
<1>1. /\ phase = "send" /\ phase' = "write"
      /\ dst' = IF state = "diff" THEN Absent ELSE dst
      /\ UNCHANGED <<src, list, state, got, doubtful>>
      /\ state \in {"missing", "diff", "meta"}
  BY DEF Open, listVars, Goto, Stages
<1>2. TypeOK'
  BY <1>1 DEF TypeOK, Stages, There
<1>3. Distinct' /\ Trusted' /\ Stages'
  BY <1>1 DEF Distinct, Trusted, Trusts, Stages, There
<1>4. SkipMatches' /\ SessionSyncs' /\ NothingResent'
  BY <1>1 DEF SkipMatches, SessionSyncs, NothingResent
<1>5. QED
  BY <1>2, <1>3, <1>4

\* The file that is being joined has a time that vouches for nothing.
LEMMA MergeStep == IInv /\ Merge => IInv'
<1> SUFFICES ASSUME IInv, Merge PROVE IInv'
  OBVIOUS
<1> USE DEF IInv
<1>1. /\ phase = "write" /\ phase' = "merge"
      /\ UNCHANGED <<src, list, state, got, doubtful>>
      /\ There(list) /\ There(got)
  BY DEF Merge, listVars, Goto, Stages
<1>2. PICK t \in Times, n \in 0..(list.size - 1) :
        Fresh(t) /\ \E e \in Arrived(t) : dst' = Prefix(e, n, t)
  BY DEF Merge
<1>3. PICK e \in Arrived(t) : dst' = Prefix(e, n, t)
  BY <1>2
<1>4. e \in Anything
  BY <1>1, ArrivedType
<1>5. dst' \in Anything /\ dst'.time = t /\ There(dst')
  <2>1. n \in Nat
    OBVIOUS
  <2>2. dst' \in Anything /\ dst'.time = t
    BY <1>3, <1>4, <2>1, PrefixType
  <2>3. QED
    BY <2>2, FilesType
<1>6. TypeOK'
  BY <1>1, <1>5 DEF TypeOK
<1>7. Distinct' /\ Trusted'
  BY <1>1, <1>2, <1>5 DEF Distinct, Trusted, Trusts, Fresh, There
<1>8. Stages'
  BY <1>1 DEF Stages, There
<1>9. SkipMatches' /\ SessionSyncs' /\ NothingResent'
  BY <1>1 DEF SkipMatches, SessionSyncs, NothingResent, Stages
<1>10. QED
  BY <1>6, <1>7, <1>8, <1>9

\* A source that has not been edited arrives as it was listed.
LEMMA InstallStep == IInv /\ Install => IInv'
<1> SUFFICES ASSUME IInv, Install PROVE IInv'
  OBVIOUS
<1> USE DEF IInv
<1>1. /\ phase \in {"write", "merge"} /\ phase' = "done" /\ doubtful' = FALSE
      /\ UNCHANGED <<src, list, state, got>>
      /\ There(list) /\ There(got) /\ state \in {"missing", "diff", "meta"}
  BY DEF Install, listVars, Goto, Stages
<1>2. PICK t \in Times : Fresh(t) /\ dst' \in Arrived(t)
  BY DEF Install
<1>3. dst' \in Anything /\ dst'.time = t /\ There(dst')
  <2>1. dst' \in Anything /\ dst'.time = t
    BY <1>1, <1>2, ArrivedType
  <2>2. QED
    BY <2>1, FilesType
<1>4. TypeOK'
  BY <1>1, <1>3 DEF TypeOK
<1>5. Distinct' /\ Trusted'
  BY <1>1, <1>2, <1>3 DEF Distinct, Trusted, Trusts, Fresh, There
<1>6. Stages'
  BY <1>1 DEF Stages, There
<1>7. SkipMatches' /\ NothingResent'
  BY <1>1 DEF SkipMatches, NothingResent
<1>8. SessionSyncs'
  <2> SUFFICES ASSUME There(src), src = list
               PROVE  SameContent(dst, src)'
    BY <1>1 DEF SessionSyncs
  <2>1. got = list /\ src = got /\ list \in SourceFiles
    BY <1>1, FilesType DEF Stages, TypeOK, Entries
  <2>2. dst' = Prefix(src, src.size, t)
    BY <1>2, <2>1 DEF Arrived
  <2>3. dst'.size = src.size /\ dst'.data = src.data
    BY <2>1, <2>2, PrefixSame
  <2>4. QED
    BY <1>1, <1>3, <2>3 DEF SameContent, There
<1>9. QED
  BY <1>4, <1>5, <1>6, <1>7, <1>8

LEMMA InterruptStep == IInv /\ Interrupt => IInv'
<1> SUFFICES ASSUME IInv, Interrupt PROVE IInv'
  OBVIOUS
<1> USE DEF IInv
<1>1. phase' = "idle" /\ UNCHANGED <<src, dst, list, state, got, doubtful>>
  BY DEF Interrupt, listVars, Goto
<1>2. TypeOK' /\ Distinct' /\ Trusted' /\ Stages'
  BY <1>1 DEF TypeOK, Distinct, Trusted, Trusts, Stages, There
<1>3. SkipMatches' /\ SessionSyncs' /\ NothingResent'
  BY <1>1 DEF SkipMatches, SessionSyncs, NothingResent
<1>4. QED
  BY <1>2, <1>3

LEMMA StutterStep == IInv /\ UNCHANGED vars => IInv'
<1> SUFFICES ASSUME IInv, UNCHANGED vars PROVE IInv'
  OBVIOUS
<1>1. UNCHANGED <<src, dst, phase, list, state, got, doubtful>>
  BY DEF vars, listVars
<1>2. TypeOK' /\ Distinct' /\ Trusted' /\ Stages'
  BY <1>1 DEF IInv, TypeOK, Distinct, Trusted, Trusts, Stages, There, BlockSize
<1>3. SkipMatches' /\ SessionSyncs' /\ NothingResent'
  BY <1>1 DEF IInv, SkipMatches, SessionSyncs, NothingResent, SameContent, Emptied,
              There, BlockSize
<1>4. QED
  BY <1>2, <1>3 DEF IInv

-----------------------------------------------------------------------------
\* The theorems.

LEMMA Invariant == Spec => []IInv
<1>1. IInv /\ [Next]_vars => IInv'
  BY EditStep, ListStep, CompareStep, AnswerStep, ReadStep, OpenStep, MergeStep,
     InstallStep, InterruptStep, StutterStep DEF Next
<1>2. QED
  BY Initially, <1>1, PTL DEF Spec

\* The state of a session is always of the kind the code gives it, and the
\* destination is away only while its file is missing or being rewritten.
THEOREM SessionType == Spec => []TypeOK
BY Invariant, PTL DEF IInv

\* The comparison of lists (compare in workers/receiver.go) passes over a file
\* only when its content is what was listed, whatever was edited and whichever
\* sessions were cut short before; the exceptions are those of SkipMatches.
THEOREM SkippedFilesMatch == Spec => []SkipMatches
BY Invariant, PTL DEF IInv

\* A session that comes to its end while the source stays as it was listed
\* leaves the destination equal to it, whatever was left there by sessions that
\* did not (compare, parseRemoteList, and the writing of the file).
THEOREM SessionsRepair == Spec => []SessionSyncs
BY Invariant, PTL DEF IInv

\* The sender (parseRemoteList in workers/sender.go) comes to send a file of
\* more than a block only when the destination does not have it.
THEOREM SentOnlyIfDifferent == Spec => []NothingResent
BY Invariant, PTL DEF IInv

=============================================================================
