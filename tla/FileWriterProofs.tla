-------------------------- MODULE FileWriterProofs --------------------------
(***************************************************************************)
(* Proofs about FileWriter, for any number of writers, streams and         *)
(* messages.                                                               *)
(***************************************************************************)
EXTENDS FileWriter, FiniteSetTheorems, TLAPS

\* A message is its stream and its number, and every pair in range is one.
LEMMA MsgsType ==
  /\ \A m \in Msgs : /\ m.off \in Offsets /\ m.seq \in Nat
                     /\ m.seq <= LastSeq[m.off]
                     /\ m = [off |-> m.off, seq |-> m.seq]
  /\ \A o \in Offsets : \A n \in 0..LastSeq[o] : [off |-> o, seq |-> n] \in Msgs
<1>1. ASSUME NEW m \in Msgs
      PROVE  /\ m.off \in Offsets /\ m.seq \in Nat
             /\ m.seq <= LastSeq[m.off]
             /\ m = [off |-> m.off, seq |-> m.seq]
  <2>1. PICK o \in Offsets : m \in [off : {o}, seq : 0..LastSeq[o]]
    BY DEF Msgs
  <2>2. LastSeq[o] \in Nat
    BY LastSeqAssumption
  <2>3. QED
    BY <2>1, <2>2
<1>2. ASSUME NEW o \in Offsets, NEW n \in 0..LastSeq[o]
      PROVE  [off |-> o, seq |-> n] \in Msgs
  <2>1. [off |-> o, seq |-> n] \in [off : {o}, seq : 0..LastSeq[o]]
    OBVIOUS
  <2>2. QED
    BY <2>1 DEF Msgs
<1>3. QED
  BY <1>1, <1>2

\* The stream count is a number, and a full inbox holds at least one message.
LEMMA StreamsType == Streams \in Nat \ {0} /\ InboxCap \in Nat \ {0}
<1>1. Streams \in Nat
  BY OffsetsAssumption, FS_CardinalityType DEF Streams
<1>2. Streams # 0
  BY OffsetsAssumption, FS_EmptySet DEF Streams
<1>3. QED
  BY <1>1, <1>2 DEF InboxCap

\* The contents of a file are a kind and a sequence of pieces.
LEMMA PiecesType ==
  /\ << >> \in Pieces
  /\ \A p \in Pieces : \A o \in Offsets : \A t \in Seq(Nat) :
       Append(p, [off |-> o, toks |-> t]) \in Pieces
  /\ \A o \in Offsets : \A t \in Seq(Nat) : <<[off |-> o, toks |-> t]>> \in Pieces
<1> DEFINE P == [off : Offsets, toks : Seq(Nat)]
<1>1. \A o \in Offsets : \A t \in Seq(Nat) : [off |-> o, toks |-> t] \in P
  OBVIOUS
<1> HIDE DEF P
<1>2. << >> \in Seq(P)
  OBVIOUS
<1>3. \A p \in Seq(P) : \A x \in P : Append(p, x) \in Seq(P) /\ <<x>> \in Seq(P)
  OBVIOUS
<1>4. Pieces = Seq(P)
  BY DEF Pieces, P
<1>5. QED
  BY <1>1, <1>2, <1>3, <1>4

\* And an absent, an old and a built file are such contents.
LEMMA ContentsType ==
  /\ Absent \in Contents /\ Old \in Contents /\ Stale \in Contents
  /\ \A p \in Pieces : Built(p) \in Contents /\ Built(p).pieces = p
  /\ \A c \in Contents : c.pieces \in Pieces
BY PiecesType DEF Contents, Absent, Old, Stale, Built

\* Taking a message from the inbox keeps the types of what it changes.
LEMMA FromInboxType ==
  ASSUME TypeOK, NEW w \in Writers, NEW m \in Msgs, FromInbox(w, m)
  PROVE  /\ inbox' \in [Writers -> Seq(Msgs)]
         /\ \A v \in Writers : Len(inbox'[v]) <= InboxCap
         /\ fileMap' \in [Writers -> SUBSET Offsets]
<1>1. inbox[w] \in Seq(Msgs) /\ inbox[w] # << >>
  BY DEF TypeOK, FromInbox
<1>2. Tail(inbox[w]) \in Seq(Msgs) /\ Len(Tail(inbox[w])) <= Len(inbox[w])
  BY <1>1
<1>3. /\ inbox' = [inbox EXCEPT ![w] = Tail(inbox[w])]
      /\ fileMap' = [fileMap EXCEPT ![w] = @ \cup {m.off}]
  BY DEF FromInbox
<1>4. inbox' \in [Writers -> Seq(Msgs)]
  BY <1>2, <1>3 DEF TypeOK
<1>5. \A v \in Writers : Len(inbox'[v]) <= InboxCap
  BY <1>2, <1>3, StreamsType DEF TypeOK
<1>6. fileMap' \in [Writers -> SUBSET Offsets]
  BY <1>3, MsgsType DEF TypeOK
<1>7. QED
  BY <1>4, <1>5, <1>6

\* So does writing one.
LEMMA WriteType ==
  ASSUME TypeOK, NEW w \in Writers, NEW m \in Msgs, writeToFile(w, m)
  PROVE  tmp' \in [Writers -> [Offsets -> Seq(Nat)]]
<1>1. tmp[w][m.off] \in Seq(Nat) /\ m.seq \in Nat /\ m.off \in Offsets
  BY MsgsType DEF TypeOK
<1>2. Append(tmp[w][m.off], m.seq) \in Seq(Nat)
  BY <1>1
<1>3. QED
  BY <1>1, <1>2 DEF TypeOK, writeToFile

\* And so does ending a stream.
LEMMA EndStreamType ==
  ASSUME TypeOK, NEW w \in Writers, NEW o \in Offsets, EndStream(w, o)
  PROVE  /\ closed' \in [Writers -> SUBSET Offsets]
         /\ streams' \in [Writers -> Int]
         /\ pc' \in [Writers -> {"none", "start", "recv", "drain", "rebuild", "merge",
                                "unref", "close", "done", "failed"}]
<1>1. closed' \in [Writers -> SUBSET Offsets] /\ streams' \in [Writers -> Int]
  BY DEF TypeOK, EndStream
<1>2. pc' \in [Writers -> {"none", "start", "recv", "drain", "rebuild", "merge",
                          "unref", "close", "done", "failed"}]
  BY DEF TypeOK, EndStream
<1>3. QED
  BY <1>1, <1>2

\* Every variable keeps its type (FileWriter!TypeOK), and an inbox its bound,
\* in every behaviour of the receiver and its writers.
THEOREM TypeCorrect == Spec => []TypeOK
<1>1. Init => TypeOK
  <2> SUFFICES ASSUME Init PROVE TypeOK
    OBVIOUS
  <2>1. dst \in Contents /\ ref \in Contents
    BY ContentsType DEF Init
  <2>2. inbox \in [Writers -> Seq(Msgs)] /\ \A w \in Writers : Len(inbox[w]) <= InboxCap
    BY StreamsType DEF Init
  <2>3. srcFd \in [state : States, refs : SUBSET Msgs]
    BY DEF Init
  <2>4. tmp \in [Writers -> [Offsets -> Seq(Nat)]]
    BY DEF Init
  <2>5. cur \in [Writers -> Offsets] /\ streams \in [Writers -> Int]
    BY StreamsType, OffsetsAssumption DEF Init
  <2>6. QED
    BY <2>1, <2>2, <2>3, <2>4, <2>5 DEF Init, TypeOK
<1>2. TypeOK /\ [Next]_vars => TypeOK'
  <2> SUFFICES ASSUME TypeOK, [Next]_vars PROVE TypeOK'
    OBVIOUS
  <2> USE DEF TypeOK, Goto
  <2>1. ASSUME NEW w \in Writers, NEW m \in Msgs, Route(w, m) PROVE TypeOK'
    BY <2>1 DEF Route, fdVars, tmpVars
  <2>2. ASSUME NEW w \in Writers, NEW m \in Msgs, Put(w, m) PROVE TypeOK'
    BY <2>2, StreamsType DEF Put, fdVars, tmpVars
  <2>3. CASE Cancel
    BY <2>3 DEF Cancel, fdVars, tmpVars, chanVars
  <2>4. ASSUME NEW w \in Writers, Open(w) PROVE TypeOK'
    BY <2>4, ContentsType DEF Open, fdVars, tmpVars, chanVars
  <2>5. ASSUME NEW w \in Writers, NEW m \in Msgs, CacheMsg(w, m) PROVE TypeOK'
    BY <2>5, MsgsType, FromInboxType DEF CacheMsg, fdVars
  <2>6. ASSUME NEW w \in Writers, NEW m \in Msgs, ReceiveData(w, m) PROVE TypeOK'
    <3>1. seq' \in [Writers -> [Offsets -> Nat]] /\ cur' \in [Writers -> Offsets]
      BY <2>6, MsgsType DEF ReceiveData
    <3>2. QED
      BY <2>6, <3>1, FromInboxType, WriteType DEF ReceiveData, fdVars
  <2>7. ASSUME NEW w \in Writers, NEW m \in Msgs, ReceiveEnd(w, m) PROVE TypeOK'
    <3>1. EndStream(w, m.off) /\ writeToFile(w, m) /\ FromInbox(w, m) /\ m.off \in Offsets
      BY <2>7, MsgsType DEF ReceiveEnd
    <3>2. QED
      BY <2>7, <3>1, EndStreamType, FromInboxType, WriteType DEF ReceiveEnd, fdVars
  <2>8. ASSUME NEW w \in Writers, NEW m \in Msgs, DrainData(w, m) PROVE TypeOK'
    <3>1. seq' \in [Writers -> [Offsets -> Nat]] /\ dataBuf' \in [Writers -> SUBSET Msgs]
      BY <2>8, MsgsType DEF DrainData
    <3>2. QED
      BY <2>8, <3>1, WriteType DEF DrainData, fdVars, chanVars
  <2>9. ASSUME NEW w \in Writers, NEW m \in Msgs, DrainEnd(w, m) PROVE TypeOK'
    <3>1. EndStream(w, m.off) /\ writeToFile(w, m) /\ m.off \in Offsets
      BY <2>9, MsgsType DEF DrainEnd
    <3>2. QED
      BY <2>9, <3>1, EndStreamType, WriteType DEF DrainEnd, fdVars, chanVars
  <2>10. ASSUME NEW w \in Writers, NEW m \in Msgs, WriteFailure(w, m) PROVE TypeOK'
    <3>1. CASE FromInbox(w, m)
      BY <2>10, <3>1, FromInboxType DEF WriteFailure, fdVars
    <3>2. CASE UNCHANGED <<inbox, fileMap>>
      BY <2>10, <3>2 DEF WriteFailure, fdVars
    <3>3. QED
      BY <2>10, <3>1, <3>2 DEF WriteFailure
  <2>11. ASSUME NEW w \in Writers, DrainDone(w) PROVE TypeOK'
    BY <2>11 DEF DrainDone, fdVars, tmpVars, chanVars
  <2>12. ASSUME NEW w \in Writers, CtxDone(w) PROVE TypeOK'
    BY <2>12 DEF CtxDone, fdVars, tmpVars, chanVars
  <2>13. ASSUME NEW w \in Writers, RebuildRename(w) PROVE TypeOK'
    BY <2>13, PiecesType, ContentsType, OffsetsAssumption
       DEF RebuildRename, Piece, tmpVars, chanVars
  <2>14. ASSUME NEW w \in Writers, RebuildPanic(w) PROVE TypeOK'
    BY <2>14 DEF RebuildPanic, fdVars, tmpVars, chanVars
  <2>15. ASSUME NEW w \in Writers, RebuildCreate(w) PROVE TypeOK'
    BY <2>15, PiecesType, ContentsType DEF RebuildCreate, tmpVars, chanVars
  <2>16. ASSUME NEW w \in Writers, NEW o \in Offsets, Merge(w, o) PROVE TypeOK'
    BY <2>16, PiecesType, ContentsType DEF Merge, Piece, tmpVars, chanVars
  <2>17. ASSUME NEW w \in Writers, MergeDone(w) PROVE TypeOK'
    BY <2>17 DEF MergeDone, fdVars, tmpVars, chanVars
  <2>18. ASSUME NEW w \in Writers, Unref(w) PROVE TypeOK'
    BY <2>18, ContentsType DEF Unref, tmpVars, chanVars
  <2>19. ASSUME NEW w \in Writers, Close(w) PROVE TypeOK'
    BY <2>19 DEF Close, fdVars, tmpVars, chanVars
  <2>20. ASSUME NEW w \in Writers, IoFailure(w) PROVE TypeOK'
    BY <2>20 DEF IoFailure, fdVars, tmpVars, chanVars
  <2>21. CASE UNCHANGED vars
    BY <2>21 DEF vars, fdVars, tmpVars, chanVars
  <2>22. QED
    BY <2>1, <2>2, <2>3, <2>4, <2>5, <2>6, <2>7, <2>8, <2>9, <2>10, <2>11,
       <2>12, <2>13, <2>14, <2>15, <2>16, <2>17, <2>18, <2>19, <2>20, <2>21
       DEF Next, WriterStep
<1>3. QED
  BY <1>1, <1>2, PTL DEF Spec

-----------------------------------------------------------------------------
(***************************************************************************)
(* The inductive invariant.  A writer that installs the file has closed    *)
(* every stream (Counting), so it has had every message (Progress), so no  *)
(* other writer has had any (Ownership), so no other is at work, and the   *)
(* destination is its own to build (Building).                             *)
(***************************************************************************)
Installing == {"rebuild", "merge", "unref", "close", "done"}

Ownership ==
  /\ \A v, w \in Writers : v # w => own[v] \cap own[w] = {}
  /\ \A w \in Writers :
       /\ held[w] \subseteq own[w]
       /\ \A i \in 1..Len(inbox[w]) : inbox[w][i] \in own[w]
       /\ dataBuf[w] \subseteq own[w]
       /\ pc[w] \notin {"none", "failed"} => own[w] # {}

\* What a writer has written of a stream is what it has taken, from the first
\* message on, and a stream it has closed is complete.
StreamProgress(w, o) ==
  /\ seq[w][o] <= LastSeq[o]
  /\ \A n \in 0..(seq[w][o] - 1) : [off |-> o, seq |-> n] \in own[w]
  /\ o \in closed[w] => /\ seq[w][o] = LastSeq[o]
                        /\ [off |-> o, seq |-> LastSeq[o]] \in own[w]
  /\ tmp[w][o] = UpTo(IF o \in closed[w] THEN seq[w][o] ELSE seq[w][o] - 1)

Progress ==
  \A w \in Writers :
    /\ closed[w] \subseteq fileMap[w]
    /\ \A m \in dataBuf[w] : m.off \in fileMap[w]
    /\ \A o \in Offsets : StreamProgress(w, o)

Counting ==
  /\ cancelled => MayCancel
  /\ \A w \in Writers :
       /\ streams[w] = Cardinality(Offsets \ closed[w])
       /\ pc[w] \in Installing /\ ~cancelled => closed[w] = Offsets

Ascending(p) ==
  \A i, j \in 1..Len(p) : i < j => p[i].off < p[j].off

\* The pieces of the destination while writer w appends to it.
Merged(w) ==
  /\ left[w] \subseteq fileMap[w]
  /\ dst.kind = "built"
  /\ {dst.pieces[i].off : i \in 1..Len(dst.pieces)} = fileMap[w] \ left[w]
  /\ \A i \in 1..Len(dst.pieces) : dst.pieces[i].toks = tmp[w][dst.pieces[i].off]
  /\ \A i \in 1..Len(dst.pieces) : \A o \in left[w] : dst.pieces[i].off < o

Building ==
  /\ Ascending(dst.pieces)
  /\ \A i \in 1..Len(dst.pieces) :
       dst.pieces[i].toks = UpTo(Len(dst.pieces[i].toks) - 1)
  /\ \A w \in Writers : pc[w] = "merge" => Merged(w)
  /\ InstalledWhole

IInv == TypeOK /\ Ownership /\ Progress /\ Counting /\ Building

-----------------------------------------------------------------------------
\* The sequence 0, ..., n grows at its end.
LEMMA UpToFacts ==
  /\ UpTo(-1) = << >>
  /\ \A n \in Nat : UpTo(n) \in Seq(Nat) /\ Len(UpTo(n)) = n + 1
  /\ \A n \in Nat : Append(UpTo(n - 1), n) = UpTo(n)
<1>1. UpTo(-1) = << >>
  BY DEF UpTo
<1>2. ASSUME NEW n \in Nat
      PROVE  UpTo(n) \in Seq(Nat) /\ Len(UpTo(n)) = n + 1
  BY DEF UpTo
<1>3. ASSUME NEW n \in Nat
      PROVE  Append(UpTo(n - 1), n) = UpTo(n)
  <2>1. UpTo(n - 1) \in Seq(Nat) /\ Len(UpTo(n - 1)) = n
    BY <1>1, <1>2 DEF UpTo
  <2>2. \A i \in 1..n : UpTo(n - 1)[i] = i - 1
    BY DEF UpTo
  <2>3. /\ Append(UpTo(n - 1), n) \in Seq(Nat)
        /\ Len(Append(UpTo(n - 1), n)) = n + 1
        /\ \A i \in 1..(n + 1) : Append(UpTo(n - 1), n)[i] = i - 1
    BY <2>1, <2>2
  <2>4. UpTo(n) \in Seq(Nat) /\ Len(UpTo(n)) = n + 1
        /\ \A i \in 1..(n + 1) : UpTo(n)[i] = i - 1
    BY <1>2 DEF UpTo
  <2>5. QED
    BY <2>3, <2>4
<1>4. QED
  BY <1>1, <1>2, <1>3

\* Taking a message from the inbox takes one of the writer's own.
LEMMA FromInboxOwn ==
  ASSUME TypeOK, Ownership, NEW w \in Writers, NEW m \in Msgs, FromInbox(w, m)
  PROVE  /\ m \in own[w]
         /\ \A v \in Writers : \A i \in 1..Len(inbox'[v]) : inbox'[v][i] \in own[v]
<1>1. /\ inbox[w] \in Seq(Msgs) /\ inbox[w] # << >>
      /\ m = inbox[w][1]
      /\ inbox' = [inbox EXCEPT ![w] = Tail(@)]
  BY DEF TypeOK, FromInbox
<1>2. Len(inbox[w]) >= 1
  BY <1>1
<1>3. Len(Tail(inbox[w])) = Len(inbox[w]) - 1
      /\ \A i \in 1..Len(Tail(inbox[w])) : Tail(inbox[w])[i] = inbox[w][i + 1]
  BY <1>1, <1>2
<1>4. \A i \in 1..Len(Tail(inbox[w])) : Tail(inbox[w])[i] \in own[w]
  BY <1>1, <1>2, <1>3 DEF Ownership
<1>5. QED
  BY <1>1, <1>2, <1>4 DEF TypeOK, Ownership

\* Ownership is kept by every step: a message is taken for one writer only.
LEMMA OwnershipStep ==
  ASSUME TypeOK, Ownership, [Next]_vars
  PROVE  Ownership'
<1> USE DEF Goto
<1>1. ASSUME NEW w \in Writers, NEW m \in Msgs, Route(w, m) PROVE Ownership'
  <2>1. /\ \A v \in Writers : m \notin own[v]
        /\ own' = [own EXCEPT ![w] = @ \cup {m}]
        /\ held' = [held EXCEPT ![w] = @ \cup {m}]
        /\ pc' = [pc EXCEPT ![w] = IF @ = "none" THEN "start" ELSE @]
        /\ inbox' = inbox /\ dataBuf' = dataBuf
    BY <1>1 DEF Route, Taken, tmpVars
  <2>2. \A v \in Writers : own[v] \subseteq own'[v]
    BY <2>1 DEF TypeOK
  <2>3. ASSUME NEW v \in Writers, NEW u \in Writers, v # u
        PROVE  own'[v] \cap own'[u] = {}
    <3>1. own[v] \cap own[u] = {}
      BY <2>3 DEF Ownership
    <3>2. \A x \in Writers : own'[x] = IF x = w THEN own[x] \cup {m} ELSE own[x]
      BY <2>1 DEF TypeOK
    <3>3. QED
      BY <2>1, <2>3, <3>1, <3>2
  <2>4. ASSUME NEW v \in Writers
        PROVE  /\ held'[v] \subseteq own'[v]
               /\ pc'[v] \notin {"none", "failed"} => own'[v] # {}
    BY <2>1, <2>2 DEF TypeOK, Ownership
  <2>5. ASSUME NEW v \in Writers
        PROVE  /\ \A i \in 1..Len(inbox[v]) : inbox[v][i] \in own'[v]
               /\ dataBuf[v] \subseteq own'[v]
    BY <2>2 DEF Ownership
  <2>6. QED
    BY <2>1, <2>3, <2>4, <2>5 DEF Ownership
<1>2. ASSUME NEW w \in Writers, NEW m \in Msgs, Put(w, m) PROVE Ownership'
  <2>1. \A i \in 1..Len(Append(inbox[w], m)) : Append(inbox[w], m)[i] \in own[w]
    BY <1>2 DEF Put, TypeOK, Ownership
  <2>2. /\ UNCHANGED <<own, dataBuf, pc>>
        /\ held' = [held EXCEPT ![w] = @ \ {m}]
        /\ inbox' = [inbox EXCEPT ![w] = Append(@, m)]
    BY <1>2 DEF Put, tmpVars
  <2>3. \A v \in Writers : held'[v] \subseteq held[v]
    BY <2>2 DEF TypeOK
  <2>4. \A v \in Writers : \A i \in 1..Len(inbox'[v]) : inbox'[v][i] \in own[v]
    BY <2>1, <2>2 DEF TypeOK, Ownership
  <2>5. QED
    BY <2>2, <2>3, <2>4 DEF Ownership
<1>3. CASE Cancel
  BY <1>3 DEF Cancel, chanVars, tmpVars, Ownership
<1>4. ASSUME NEW w \in Writers, Open(w) PROVE Ownership'
  <2>1. UNCHANGED <<own, held, inbox, dataBuf>>
    BY <1>4 DEF Open, chanVars, tmpVars
  <2>2. \A v \in Writers : pc'[v] \notin {"none", "failed"} => pc[v] \notin {"none", "failed"}
    BY <1>4 DEF Open, TypeOK
  <2>3. QED
    BY <2>1, <2>2 DEF Ownership
<1>5. ASSUME NEW w \in Writers, NEW m \in Msgs, CacheMsg(w, m) PROVE Ownership'
  <2>1. FromInbox(w, m)
    BY <1>5 DEF CacheMsg
  <2>2. /\ UNCHANGED <<own, held, pc>>
        /\ dataBuf' = [dataBuf EXCEPT ![w] = @ \cup {m}]
    BY <1>5 DEF CacheMsg
  <2>3. /\ m \in own[w]
        /\ \A v \in Writers : \A i \in 1..Len(inbox'[v]) : inbox'[v][i] \in own[v]
    BY <2>1, FromInboxOwn
  <2>4. \A v \in Writers : dataBuf'[v] \subseteq own[v]
    BY <2>2, <2>3 DEF TypeOK, Ownership
  <2>5. QED
    BY <2>2, <2>3, <2>4 DEF Ownership
<1>6. ASSUME NEW w \in Writers, NEW m \in Msgs, ReceiveData(w, m) PROVE Ownership'
  <2>1. FromInbox(w, m)
    BY <1>6 DEF ReceiveData
  <2>2. UNCHANGED <<own, held, dataBuf>>
    BY <1>6 DEF ReceiveData
  <2>3. \A v \in Writers : pc'[v] \notin {"none", "failed"} => pc[v] \notin {"none", "failed"}
    BY <1>6, <2>1 DEF ReceiveData, FromInbox, TypeOK
  <2>4. QED
    BY <2>1, <2>2, <2>3, FromInboxOwn DEF Ownership
<1>7. ASSUME NEW w \in Writers, NEW m \in Msgs, ReceiveEnd(w, m) PROVE Ownership'
  <2>1. FromInbox(w, m)
    BY <1>7 DEF ReceiveEnd
  <2>2. UNCHANGED <<own, held, dataBuf>>
    BY <1>7 DEF ReceiveEnd
  <2>3. \A v \in Writers : pc'[v] \notin {"none", "failed"} => pc[v] \notin {"none", "failed"}
    BY <1>7, <2>1 DEF ReceiveEnd, EndStream, FromInbox, TypeOK
  <2>4. QED
    BY <2>1, <2>2, <2>3, FromInboxOwn DEF Ownership
<1>8. ASSUME NEW w \in Writers, NEW m \in Msgs, DrainData(w, m) PROVE Ownership'
  BY <1>8 DEF DrainData, chanVars, TypeOK, Ownership
<1>9. ASSUME NEW w \in Writers, NEW m \in Msgs, DrainEnd(w, m) PROVE Ownership'
  <2>1. \A v \in Writers : pc'[v] \notin {"none", "failed"} => own[v] # {}
    BY <1>9 DEF DrainEnd, FromCache, EndStream, TypeOK, Ownership
  <2>2. QED
    BY <1>9, <2>1 DEF DrainEnd, chanVars, TypeOK, Ownership
<1>10. ASSUME NEW w \in Writers, NEW m \in Msgs, WriteFailure(w, m) PROVE Ownership'
  <2>1. UNCHANGED <<own, held, dataBuf>>
    BY <1>10 DEF WriteFailure
  <2>2. \A v \in Writers : pc'[v] \notin {"none", "failed"} => pc[v] \notin {"none", "failed"}
    BY <1>10 DEF WriteFailure, TypeOK
  <2>3. CASE FromInbox(w, m)
    BY <2>1, <2>2, <2>3, FromInboxOwn DEF Ownership
  <2>4. CASE UNCHANGED <<inbox, fileMap>>
    BY <2>1, <2>2, <2>4 DEF Ownership
  <2>5. QED
    BY <1>10, <2>3, <2>4 DEF WriteFailure
<1>11. ASSUME NEW w \in Writers, DrainDone(w) PROVE Ownership'
  BY <1>11 DEF DrainDone, chanVars, tmpVars, TypeOK, Ownership
<1>12. ASSUME NEW w \in Writers, CtxDone(w) PROVE Ownership'
  BY <1>12 DEF CtxDone, chanVars, tmpVars, TypeOK, Ownership
<1>13. ASSUME NEW w \in Writers, RebuildRename(w) PROVE Ownership'
  BY <1>13 DEF RebuildRename, chanVars, tmpVars, TypeOK, Ownership
<1>14. ASSUME NEW w \in Writers, RebuildPanic(w) PROVE Ownership'
  BY <1>14 DEF RebuildPanic, chanVars, tmpVars, TypeOK, Ownership
<1>15. ASSUME NEW w \in Writers, RebuildCreate(w) PROVE Ownership'
  BY <1>15 DEF RebuildCreate, chanVars, tmpVars, TypeOK, Ownership
<1>16. ASSUME NEW w \in Writers, NEW o \in Offsets, Merge(w, o) PROVE Ownership'
  BY <1>16 DEF Merge, chanVars, tmpVars, TypeOK, Ownership
<1>17. ASSUME NEW w \in Writers, MergeDone(w) PROVE Ownership'
  BY <1>17 DEF MergeDone, chanVars, tmpVars, TypeOK, Ownership
<1>18. ASSUME NEW w \in Writers, Unref(w) PROVE Ownership'
  BY <1>18 DEF Unref, chanVars, tmpVars, TypeOK, Ownership
<1>19. ASSUME NEW w \in Writers, Close(w) PROVE Ownership'
  BY <1>19 DEF Close, chanVars, tmpVars, TypeOK, Ownership
<1>20. ASSUME NEW w \in Writers, IoFailure(w) PROVE Ownership'
  BY <1>20 DEF IoFailure, chanVars, tmpVars, TypeOK, Ownership
<1>21. CASE UNCHANGED vars
  BY <1>21 DEF vars, chanVars, tmpVars, Ownership
<1>22. QED
  BY <1>1, <1>2, <1>3, <1>4, <1>5, <1>6, <1>7, <1>8, <1>9, <1>10, <1>11,
     <1>12, <1>13, <1>14, <1>15, <1>16, <1>17, <1>18, <1>19, <1>20, <1>21
     DEF Next, WriterStep

\* The message in sequence, written, extends the temporary file by its number.
LEMMA WriteProgress ==
  ASSUME TypeOK, Progress, NEW w \in Writers, NEW m \in Msgs,
         InSequence(w, m), writeToFile(w, m)
  PROVE  /\ m.off \in Offsets /\ m.off \notin closed[w]
         /\ tmp'[w][m.off] = UpTo(m.seq)
         /\ \A v \in Writers : \A o \in Offsets :
              v # w \/ o # m.off => tmp'[v][o] = tmp[v][o]
<1>1. m.off \in Offsets /\ m.seq \in Nat
  BY MsgsType
<1>2. m.off \notin closed[w]
  BY DEF writeToFile, WriteFails
<1>3. tmp[w][m.off] = UpTo(m.seq - 1)
  <2>1. StreamProgress(w, m.off)
    BY <1>1 DEF Progress
  <2>2. tmp[w][m.off] = UpTo(seq[w][m.off] - 1)
    BY <1>2, <2>1 DEF StreamProgress
  <2>3. QED
    BY <2>2 DEF InSequence
<1>4. tmp' = [tmp EXCEPT ![w][m.off] = Append(tmp[w][m.off], m.seq)]
  BY DEF writeToFile
<1>5. tmp'[w][m.off] = Append(tmp[w][m.off], m.seq)
  BY <1>1, <1>4 DEF TypeOK
<1>6. \A v \in Writers : \A o \in Offsets :
        v # w \/ o # m.off => tmp'[v][o] = tmp[v][o]
  BY <1>1, <1>4 DEF TypeOK
<1>7. QED
  BY <1>1, <1>2, <1>3, <1>5, <1>6, UpToFacts

\* Progress is kept by every step: the sequence check and the cache let a
\* message be written only after those before it.
LEMMA ProgressStep ==
  ASSUME TypeOK, Ownership, Progress, [Next]_vars
  PROVE  Progress'
<1>1. ASSUME tmpVars' = tmpVars, \A w \in Writers : own[w] \subseteq own'[w]
      PROVE  Progress'
  <2>1. \A w \in Writers : \A o \in Offsets : StreamProgress(w, o)'
    BY <1>1 DEF tmpVars, Progress, StreamProgress
  <2>2. QED
    BY <1>1, <2>1 DEF tmpVars, Progress
<1>2. ASSUME NEW w \in Writers, NEW m \in Msgs, Route(w, m) PROVE Progress'
  <2>1. own' = [own EXCEPT ![w] = own[w] \cup {m}] /\ tmpVars' = tmpVars
    BY <1>2 DEF Route
  <2>2. \A v \in Writers : own[v] \subseteq own'[v]
    BY <2>1 DEF TypeOK
  <2>3. QED
    BY <1>1, <2>1, <2>2
<1>3. ASSUME NEW w \in Writers, NEW m \in Msgs, Put(w, m) PROVE Progress'
  BY <1>1, <1>3 DEF Put
<1>4. CASE Cancel
  BY <1>1, <1>4 DEF Cancel, chanVars
<1>5. ASSUME NEW w \in Writers, NEW m \in Msgs, CacheMsg(w, m) PROVE Progress'
  <2>1. UNCHANGED <<own, tmp, seq, closed>> /\ m.off \in Offsets
        /\ fileMap' = [fileMap EXCEPT ![w] = fileMap[w] \cup {m.off}]
        /\ dataBuf' = [dataBuf EXCEPT ![w] = dataBuf[w] \cup {m}]
    BY <1>5, MsgsType DEF CacheMsg, FromInbox
  <2>2. \A v \in Writers : \A o \in Offsets : StreamProgress(v, o)'
    BY <2>1 DEF Progress, StreamProgress
  <2>3. \A v \in Writers : /\ closed[v] \subseteq fileMap'[v]
                           /\ \A k \in dataBuf'[v] : k.off \in fileMap'[v]
    BY <2>1 DEF TypeOK, Progress
  <2>4. QED
    BY <2>1, <2>2, <2>3 DEF Progress
<1>6. ASSUME NEW w \in Writers, NEW m \in Msgs, ReceiveData(w, m) PROVE Progress'
  <2>1. UNCHANGED <<own, dataBuf, closed>>
        /\ FromInbox(w, m) /\ InSequence(w, m) /\ writeToFile(w, m)
        /\ fileMap' = [fileMap EXCEPT ![w] = fileMap[w] \cup {m.off}]
        /\ seq' = [seq EXCEPT ![w][m.off] = seq[w][m.off] + 1]
    BY <1>6 DEF ReceiveData, FromInbox
  <2>2. m.seq < LastSeq[m.off] /\ m.seq = seq[w][m.off] /\ m \in own[w]
        /\ m = [off |-> m.off, seq |-> m.seq]
    BY <1>6, <2>1, MsgsType, LastSeqAssumption, FromInboxOwn DEF ReceiveData, InSequence, IsEnd
  <2>3. \A v \in Writers : /\ closed[v] \subseteq fileMap'[v]
                           /\ \A k \in dataBuf[v] : k.off \in fileMap'[v]
    BY <2>1 DEF TypeOK, Progress
  <2>4. ASSUME NEW v \in Writers, NEW o \in Offsets PROVE StreamProgress(v, o)'
    <3>1. CASE v = w /\ o = m.off
      <4>1. seq'[v][o] = m.seq + 1 /\ m.seq \in Nat
        BY <2>1, <2>2, <3>1, MsgsType DEF TypeOK
      <4>2. StreamProgress(w, m.off)
        BY <3>1 DEF Progress
      <4>3. \A n \in 0..m.seq : [off |-> o, seq |-> n] \in own[v]
        BY <2>2, <3>1, <4>1, <4>2 DEF StreamProgress
      <4>4. o \notin closed'[v] /\ tmp'[v][o] = UpTo(m.seq)
        BY <2>1, <3>1, WriteProgress
      <4>5. LastSeq[o] \in Nat
        BY LastSeqAssumption
      <4>6. m.seq + 1 <= LastSeq[o] /\ (m.seq + 1) - 1 = m.seq
        BY <2>2, <3>1, <4>1, <4>5
      <4>7. QED
        BY <2>1, <4>1, <4>3, <4>4, <4>6 DEF StreamProgress
    <3>2. CASE ~(v = w /\ o = m.off)
      <4>1. seq'[v][o] = seq[v][o]
        BY <2>1, <3>2 DEF TypeOK
      <4>2. QED
        BY <2>1, <3>2, <4>1, WriteProgress DEF Progress, StreamProgress
    <3>3. QED
      BY <3>1, <3>2
  <2>5. QED
    BY <2>1, <2>3, <2>4 DEF Progress
<1>7. ASSUME NEW w \in Writers, NEW m \in Msgs, ReceiveEnd(w, m) PROVE Progress'
  <2>1. UNCHANGED <<own, dataBuf, seq>>
        /\ FromInbox(w, m) /\ InSequence(w, m) /\ writeToFile(w, m)
        /\ fileMap' = [fileMap EXCEPT ![w] = fileMap[w] \cup {m.off}]
        /\ closed' = [closed EXCEPT ![w] = closed[w] \cup {m.off}]
    BY <1>7 DEF ReceiveEnd, EndStream, FromInbox
  <2>2. m.seq = LastSeq[m.off] /\ m.seq = seq[w][m.off] /\ m \in own[w]
        /\ m = [off |-> m.off, seq |-> m.seq]
    BY <1>7, <2>1, MsgsType, FromInboxOwn DEF ReceiveEnd, InSequence, IsEnd
  <2>3. \A v \in Writers : /\ closed'[v] \subseteq fileMap'[v]
                           /\ \A k \in dataBuf[v] : k.off \in fileMap'[v]
    BY <2>1 DEF TypeOK, Progress
  <2>4. ASSUME NEW v \in Writers, NEW o \in Offsets PROVE StreamProgress(v, o)'
    <3>1. CASE v = w /\ o = m.off
      <4>1. StreamProgress(w, m.off)
        BY <3>1 DEF Progress
      <4>2. o \in closed'[v] /\ tmp'[v][o] = UpTo(m.seq)
        BY <2>1, <3>1, WriteProgress DEF TypeOK
      <4>3. QED
        BY <2>1, <2>2, <3>1, <4>1, <4>2 DEF StreamProgress
    <3>2. CASE ~(v = w /\ o = m.off)
      <4>1. o \in closed'[v] <=> o \in closed[v]
        BY <2>1, <3>2 DEF TypeOK
      <4>2. QED
        BY <2>1, <3>2, <4>1, WriteProgress DEF Progress, StreamProgress
    <3>3. QED
      BY <3>1, <3>2
  <2>5. QED
    BY <2>1, <2>3, <2>4 DEF Progress
<1>8. ASSUME NEW w \in Writers, NEW m \in Msgs, DrainData(w, m) PROVE Progress'
  <2>1. UNCHANGED <<own, fileMap, closed>>
        /\ InSequence(w, m) /\ writeToFile(w, m)
        /\ dataBuf' = [dataBuf EXCEPT ![w] = dataBuf[w] \ {m}]
        /\ seq' = [seq EXCEPT ![w][m.off] = seq[w][m.off] + 1]
    BY <1>8 DEF DrainData, FromCache, chanVars
  <2>2. m.seq < LastSeq[m.off] /\ m.seq = seq[w][m.off] /\ m \in own[w]
        /\ m = [off |-> m.off, seq |-> m.seq]
    BY <1>8, <2>1, MsgsType, LastSeqAssumption DEF DrainData, FromCache, InSequence, IsEnd, Ownership
  <2>3. \A v \in Writers : dataBuf'[v] \subseteq dataBuf[v]
    BY <2>1 DEF TypeOK
  <2>4. ASSUME NEW v \in Writers, NEW o \in Offsets PROVE StreamProgress(v, o)'
    <3>1. CASE v = w /\ o = m.off
      <4>1. seq'[v][o] = m.seq + 1 /\ m.seq \in Nat
        BY <2>1, <2>2, <3>1, MsgsType DEF TypeOK
      <4>2. StreamProgress(w, m.off)
        BY <3>1 DEF Progress
      <4>3. \A n \in 0..m.seq : [off |-> o, seq |-> n] \in own[v]
        BY <2>2, <3>1, <4>1, <4>2 DEF StreamProgress
      <4>4. o \notin closed'[v] /\ tmp'[v][o] = UpTo(m.seq)
        BY <2>1, <3>1, WriteProgress
      <4>5. LastSeq[o] \in Nat
        BY LastSeqAssumption
      <4>6. m.seq + 1 <= LastSeq[o] /\ (m.seq + 1) - 1 = m.seq
        BY <2>2, <3>1, <4>1, <4>5
      <4>7. QED
        BY <2>1, <4>1, <4>3, <4>4, <4>6 DEF StreamProgress
    <3>2. CASE ~(v = w /\ o = m.off)
      <4>1. seq'[v][o] = seq[v][o]
        BY <2>1, <3>2 DEF TypeOK
      <4>2. QED
        BY <2>1, <3>2, <4>1, WriteProgress DEF Progress, StreamProgress
    <3>3. QED
      BY <3>1, <3>2
  <2>5. QED
    BY <2>1, <2>3, <2>4 DEF Progress
<1>9. ASSUME NEW w \in Writers, NEW m \in Msgs, DrainEnd(w, m) PROVE Progress'
  <2>1. UNCHANGED <<own, dataBuf, fileMap, seq>> /\ m \in dataBuf[w]
        /\ InSequence(w, m) /\ writeToFile(w, m)
        /\ closed' = [closed EXCEPT ![w] = closed[w] \cup {m.off}]
    BY <1>9 DEF DrainEnd, EndStream, FromCache, chanVars
  <2>2. m.seq = LastSeq[m.off] /\ m.seq = seq[w][m.off] /\ m \in own[w]
        /\ m = [off |-> m.off, seq |-> m.seq]
    BY <1>9, <2>1, MsgsType DEF DrainEnd, InSequence, IsEnd, Ownership
  <2>3. \A v \in Writers : closed'[v] \subseteq fileMap[v]
    BY <2>1 DEF TypeOK, Progress
  <2>4. ASSUME NEW v \in Writers, NEW o \in Offsets PROVE StreamProgress(v, o)'
    <3>1. CASE v = w /\ o = m.off
      <4>1. StreamProgress(w, m.off)
        BY <3>1 DEF Progress
      <4>2. o \in closed'[v] /\ tmp'[v][o] = UpTo(m.seq)
        BY <2>1, <3>1, WriteProgress DEF TypeOK
      <4>3. QED
        BY <2>1, <2>2, <3>1, <4>1, <4>2 DEF StreamProgress
    <3>2. CASE ~(v = w /\ o = m.off)
      <4>1. o \in closed'[v] <=> o \in closed[v]
        BY <2>1, <3>2 DEF TypeOK
      <4>2. QED
        BY <2>1, <3>2, <4>1, WriteProgress DEF Progress, StreamProgress
    <3>3. QED
      BY <3>1, <3>2
  <2>5. QED
    BY <2>1, <2>3, <2>4 DEF Progress
<1>10. ASSUME NEW w \in Writers, NEW m \in Msgs, WriteFailure(w, m) PROVE Progress'
  <2>1. UNCHANGED <<own, tmp, seq, closed, dataBuf>>
        /\ (fileMap' = [fileMap EXCEPT ![w] = fileMap[w] \cup {m.off}] \/ fileMap' = fileMap)
    BY <1>10 DEF WriteFailure, FromInbox
  <2>2. \A v \in Writers : fileMap[v] \subseteq fileMap'[v]
    <3>1. CASE fileMap' = [fileMap EXCEPT ![w] = fileMap[w] \cup {m.off}]
      BY <3>1 DEF TypeOK
    <3>2. QED
      BY <2>1, <3>1
  <2>3. \A v \in Writers : \A o \in Offsets : StreamProgress(v, o)'
    BY <2>1 DEF Progress, StreamProgress
  <2>4. QED
    BY <2>1, <2>2, <2>3 DEF Progress
<1>11. ASSUME NEW w \in Writers,
              Open(w) \/ DrainDone(w) \/ CtxDone(w) \/ RebuildRename(w)
                \/ RebuildPanic(w) \/ RebuildCreate(w) \/ MergeDone(w)
                \/ Unref(w) \/ Close(w) \/ IoFailure(w)
       PROVE  Progress'
  <2>1. tmpVars' = tmpVars /\ own' = own
    BY <1>11 DEF Open, DrainDone, CtxDone, RebuildRename, RebuildPanic, RebuildCreate,
                MergeDone, Unref, Close, IoFailure, chanVars
  <2>2. QED
    BY <1>1, <2>1
<1>12. ASSUME NEW w \in Writers, NEW o \in Offsets, Merge(w, o) PROVE Progress'
  BY <1>1, <1>12 DEF Merge, chanVars
<1>13. CASE UNCHANGED vars
  BY <1>1, <1>13 DEF vars, chanVars
<1>14. QED
  BY <1>2, <1>3, <1>4, <1>5, <1>6, <1>7, <1>8, <1>9, <1>10, <1>11, <1>12, <1>13
     DEF Next, WriterStep

\* Ending an open stream takes one from the count, and the count is zero only
\* when every stream has ended.
LEMMA EndStreamCount ==
  ASSUME TypeOK, Counting, NEW w \in Writers, NEW o \in Offsets,
         o \notin closed[w], EndStream(w, o)
  PROVE  /\ \A v \in Writers : streams'[v] = Cardinality(Offsets \ closed'[v])
         /\ streams'[w] = 0 => closed'[w] = Offsets
         /\ \A v \in Writers : v # w => closed'[v] = closed[v] /\ pc'[v] = pc[v]
         /\ pc'[w] # pc[w] => pc'[w] = "rebuild" /\ streams'[w] = 0
<1>1. /\ closed'[w] = closed[w] \cup {o}
      /\ streams'[w] = streams[w] - 1
      /\ pc'[w] # pc[w] => pc'[w] = "rebuild" /\ streams'[w] = 0
  BY DEF TypeOK, EndStream
<1>2. \A v \in Writers : v # w => /\ closed'[v] = closed[v]
                                /\ streams'[v] = streams[v]
                                /\ pc'[v] = pc[v]
  BY DEF TypeOK, EndStream
<1>3. IsFiniteSet(Offsets \ closed[w]) /\ o \in Offsets \ closed[w]
  BY OffsetsAssumption, FS_Difference
<1>4. (Offsets \ closed[w]) \ {o} = Offsets \ closed'[w]
  BY <1>1
<1>5. /\ IsFiniteSet(Offsets \ closed'[w])
      /\ Cardinality(Offsets \ closed'[w]) = Cardinality(Offsets \ closed[w]) - 1
  BY <1>3, <1>4, FS_RemoveElement
<1>6. closed'[w] \subseteq Offsets
  BY <1>1 DEF TypeOK
<1>7. streams'[w] = Cardinality(Offsets \ closed'[w])
  BY <1>1, <1>5 DEF Counting
<1>8. streams'[w] = 0 => closed'[w] = Offsets
  BY <1>5, <1>6, <1>7, FS_EmptySet
<1>9. \A v \in Writers : streams'[v] = Cardinality(Offsets \ closed'[v])
  BY <1>2, <1>7 DEF Counting
<1>10. QED
  BY <1>1, <1>2, <1>8, <1>9

\* Counting is kept by every step: a writer leaves its loop for the rebuild
\* when the last stream has ended, or when the context is done.
LEMMA CountingStep ==
  ASSUME TypeOK, Progress, Counting, [Next]_vars
  PROVE  Counting'
<1> USE DEF Goto
<1>1. ASSUME UNCHANGED <<closed, streams, cancelled>>,
             \A w \in Writers : pc'[w] \in Installing => pc[w] \in Installing \/ cancelled
      PROVE  Counting'
  BY <1>1 DEF Counting
<1>2. ASSUME NEW w \in Writers, NEW m \in Msgs, Route(w, m) PROVE Counting'
  BY <1>1, <1>2 DEF Route, tmpVars, TypeOK, Installing
<1>3. ASSUME NEW w \in Writers, NEW m \in Msgs, Put(w, m) PROVE Counting'
  BY <1>1, <1>3 DEF Put, tmpVars
<1>4. CASE Cancel
  BY <1>4 DEF Cancel, tmpVars, Counting
<1>5. ASSUME NEW w \in Writers, Open(w) PROVE Counting'
  <2>1. \A v \in Writers : pc'[v] \in Installing => pc[v] \in Installing
    BY <1>5 DEF Open, TypeOK, Installing
  <2>2. QED
    BY <1>1, <1>5, <2>1 DEF Open, tmpVars
<1>6. ASSUME NEW w \in Writers, NEW m \in Msgs, CacheMsg(w, m) PROVE Counting'
  BY <1>1, <1>6 DEF CacheMsg
<1>7. ASSUME NEW w \in Writers, NEW m \in Msgs, ReceiveData(w, m) PROVE Counting'
  <2>1. \A v \in Writers : pc'[v] \in Installing => pc[v] \in Installing
    BY <1>7 DEF ReceiveData, TypeOK, Installing
  <2>2. QED
    BY <1>1, <1>7, <2>1 DEF ReceiveData
<1>8. ASSUME NEW w \in Writers, NEW m \in Msgs, ReceiveEnd(w, m) PROVE Counting'
  <2>1. m.off \in Offsets /\ m.off \notin closed[w] /\ EndStream(w, m.off)
        /\ pc[w] \notin Installing /\ cancelled' = cancelled
    BY <1>8, MsgsType DEF ReceiveEnd, writeToFile, WriteFails, FromInbox, Installing
  <2>2. QED
    BY <2>1, EndStreamCount DEF Counting
<1>9. ASSUME NEW w \in Writers, NEW m \in Msgs, DrainData(w, m) PROVE Counting'
  BY <1>1, <1>9 DEF DrainData
<1>10. ASSUME NEW w \in Writers, NEW m \in Msgs, DrainEnd(w, m) PROVE Counting'
  <2>1. m.off \in Offsets /\ m.off \notin closed[w] /\ EndStream(w, m.off)
        /\ pc[w] \notin Installing /\ cancelled' = cancelled
    BY <1>10, MsgsType DEF DrainEnd, writeToFile, WriteFails, FromCache, Installing
  <2>2. QED
    BY <2>1, EndStreamCount DEF Counting
<1>11. ASSUME NEW w \in Writers, NEW m \in Msgs, WriteFailure(w, m) PROVE Counting'
  <2>1. \A v \in Writers : pc'[v] \in Installing => pc[v] \in Installing
    BY <1>11 DEF WriteFailure, TypeOK, Installing
  <2>2. QED
    BY <1>1, <1>11, <2>1 DEF WriteFailure
<1>12. ASSUME NEW w \in Writers, DrainDone(w) PROVE Counting'
  BY <1>1, <1>12 DEF DrainDone, tmpVars, TypeOK, Installing
<1>13. ASSUME NEW w \in Writers, CtxDone(w) PROVE Counting'
  BY <1>1, <1>13 DEF CtxDone, tmpVars, TypeOK
<1>14. ASSUME NEW w \in Writers,
              RebuildRename(w) \/ RebuildPanic(w) \/ RebuildCreate(w) \/ MergeDone(w)
                \/ Unref(w) \/ Close(w) \/ IoFailure(w)
       PROVE  Counting'
  <2>1. UNCHANGED <<closed, streams, cancelled>>
    BY <1>14 DEF RebuildRename, RebuildPanic, RebuildCreate, MergeDone, Unref, Close,
                 IoFailure, tmpVars
  <2>2. \A v \in Writers : v # w => pc'[v] = pc[v] \/ pc'[v] = "failed"
    BY <1>14 DEF RebuildRename, RebuildPanic, RebuildCreate, MergeDone, Unref, Close,
                 IoFailure, TypeOK
  <2>3. pc'[w] = "failed" \/ pc[w] \in Installing
    BY <1>14 DEF RebuildRename, RebuildPanic, RebuildCreate, MergeDone, Unref, Close,
                 IoFailure, TypeOK, Installing
  <2>4. QED
    BY <1>1, <2>1, <2>2, <2>3 DEF Installing
<1>15. ASSUME NEW w \in Writers, NEW o \in Offsets, Merge(w, o) PROVE Counting'
  BY <1>1, <1>15 DEF Merge, tmpVars
<1>16. CASE UNCHANGED vars
  BY <1>1, <1>16 DEF vars, tmpVars
<1>17. QED
  BY <1>2, <1>3, <1>4, <1>5, <1>6, <1>7, <1>8, <1>9, <1>10, <1>11, <1>12, <1>13,
     <1>14, <1>15, <1>16 DEF Next, WriterStep

\* A writer that has closed every stream has had every message.
LEMMA ClosedAll ==
  ASSUME TypeOK, Progress, NEW w \in Writers, closed[w] = Offsets
  PROVE  own[w] = Msgs
<1>1. ASSUME NEW m \in Msgs PROVE m \in own[w]
  <2>1. /\ m.off \in Offsets /\ m.seq \in Nat /\ m.seq <= LastSeq[m.off]
        /\ m = [off |-> m.off, seq |-> m.seq]
    BY MsgsType
  <2>2. StreamProgress(w, m.off) /\ LastSeq[m.off] \in Nat
    BY <2>1, LastSeqAssumption DEF Progress
  <2>3. /\ seq[w][m.off] = LastSeq[m.off]
        /\ [off |-> m.off, seq |-> LastSeq[m.off]] \in own[w]
        /\ \A n \in 0..(seq[w][m.off] - 1) : [off |-> m.off, seq |-> n] \in own[w]
    BY <2>1, <2>2 DEF StreamProgress
  <2>4. CASE m.seq = LastSeq[m.off]
    BY <2>1, <2>3, <2>4
  <2>5. CASE m.seq # LastSeq[m.off]
    <3>1. m.seq \in 0..(seq[w][m.off] - 1)
      BY <2>1, <2>2, <2>3, <2>5
    <3>2. QED
      BY <2>1, <2>3, <3>1
  <2>6. QED
    BY <2>4, <2>5
<1>2. own[w] \subseteq Msgs
  BY DEF TypeOK
<1>3. QED
  BY <1>1, <1>2

\* While a writer installs the file no other is at work.
LEMMA Sole ==
  ASSUME TypeOK, Ownership, Progress, Counting,
         NEW w \in Writers, pc[w] \in Installing
  PROVE  \A v \in Writers : v # w => pc[v] \in {"none", "failed"}
<1>1. CASE cancelled
  BY <1>1, CancelAssumption DEF Counting
<1>2. CASE ~cancelled
  <2>1. own[w] = Msgs
    BY <1>2, ClosedAll DEF Counting
  <2>2. ASSUME NEW v \in Writers, v # w PROVE own[v] = {}
    BY <2>1, <2>2 DEF TypeOK, Ownership
  <2>3. QED
    BY <2>2 DEF Ownership
<1>3. QED
  BY <1>1, <1>2

\* A temporary file is in order, and complete once its stream is closed.
LEMMA TmpInOrder ==
  ASSUME TypeOK, Progress, NEW w \in Writers, NEW o \in Offsets
  PROVE  /\ tmp[w][o] = UpTo(Len(tmp[w][o]) - 1)
         /\ o \in closed[w] => tmp[w][o] = UpTo(LastSeq[o])
<1>1. StreamProgress(w, o) /\ seq[w][o] \in Nat
  BY DEF TypeOK, Progress
<1>2. o \in closed[w] => tmp[w][o] = UpTo(LastSeq[o])
  BY <1>1 DEF StreamProgress
<1>3. PICK k \in Nat \cup {-1} : tmp[w][o] = UpTo(k)
  BY <1>1 DEF StreamProgress
<1>4. Len(UpTo(k)) - 1 = k
  <2>1. CASE k = -1
    BY <2>1, UpToFacts
  <2>2. CASE k \in Nat
    <3>1. Len(UpTo(k)) = k + 1
      BY <2>2, UpToFacts
    <3>2. QED
      BY <2>2, <3>1
  <2>3. QED
    BY <2>1, <2>2
<1>5. QED
  BY <1>2, <1>3, <1>4

\* The whole file, from its pieces.
LEMMA WholeBuilt ==
  ASSUME NEW p \in Pieces, Ascending(p),
         {p[i].off : i \in 1..Len(p)} = Offsets,
         \A i \in 1..Len(p) : p[i].toks = UpTo(LastSeq[p[i].off])
  PROVE  Whole(Built(p))
<1>1. DOMAIN p = 1..Len(p)
  BY DEF Pieces
<1>2. QED
  BY <1>1 DEF Whole, Built, Ascending

\* Building is kept by a step that leaves the destination alone and lets no
\* writer into the merge, nor past the rebuild.
LEMMA BuildingKept ==
  ASSUME Building, UNCHANGED <<dst, left>>, cancelled => cancelled',
         \A w \in Writers :
           pc'[w] = "merge" => pc[w] = "merge" /\ tmp'[w] = tmp[w] /\ fileMap'[w] = fileMap[w],
         \A w \in Writers :
           pc'[w] \in {"unref", "close", "done"} => pc[w] \in {"unref", "close", "done"}
  PROVE  Building'
<1>1. ASSUME NEW w \in Writers, pc'[w] = "merge" PROVE Merged(w)'
  BY <1>1 DEF Building, Merged
<1>2. InstalledWhole'
  BY DEF Building, InstalledWhole, Whole
<1>3. QED
  BY <1>1, <1>2 DEF Building, Ascending

\* Building is kept by the rename of the only temporary file: it is whole.
LEMMA RenameStep ==
  ASSUME TypeOK, Ownership, Progress, Counting, Building,
         NEW w \in Writers, RebuildRename(w)
  PROVE  Building'
<1> DEFINE p == <<Piece(w, 0)>>
<1>1. /\ dst' = Built(p) /\ cancelled' = cancelled
      /\ pc[w] = "rebuild" /\ fileMap[w] = {0}
      /\ pc' = [pc EXCEPT ![w] = "unref"]
  BY DEF RebuildRename, Goto
<1>2. 0 \in Offsets /\ tmp[w][0] \in Seq(Nat)
  BY OffsetsAssumption DEF TypeOK
<1>3. /\ p \in Pieces /\ Len(p) = 1 /\ p[1].off = 0 /\ p[1].toks = tmp[w][0]
      /\ dst'.pieces = p
  BY <1>1, <1>2, PiecesType, ContentsType DEF Piece
<1> HIDE DEF p
<1>4. Ascending(p)
  BY <1>3 DEF Ascending
<1>5. \A i \in 1..Len(p) : p[i].toks = UpTo(Len(p[i].toks) - 1)
  BY <1>2, <1>3, TmpInOrder
<1>6. \A v \in Writers : pc'[v] # "merge"
  BY <1>1, Sole DEF TypeOK, Installing
<1>7. ASSUME ~cancelled PROVE Whole(Built(p))
  <2>1. closed[w] = Offsets /\ closed[w] \subseteq fileMap[w]
    BY <1>1, <1>7 DEF Counting, Installing, Progress
  <2>2. Offsets = {0}
    BY <1>1, <1>2, <2>1
  <2>3. p[1].toks = UpTo(LastSeq[0])
    BY <1>2, <1>3, <2>1, TmpInOrder
  <2>4. {p[i].off : i \in 1..Len(p)} = Offsets
    BY <1>3, <2>2
  <2>5. \A i \in 1..Len(p) : p[i].toks = UpTo(LastSeq[p[i].off])
    BY <1>3, <2>3
  <2>6. QED
    BY <1>3, <1>4, <2>4, <2>5, WholeBuilt
<1>8. InstalledWhole'
  BY <1>1, <1>7 DEF InstalledWhole, Whole
<1>9. QED
  BY <1>3, <1>4, <1>5, <1>6, <1>8 DEF Building

\* Building is kept by appending a temporary file: the lowest that is left.
LEMMA MergeStep ==
  ASSUME TypeOK, Ownership, Progress, Counting, Building,
         NEW w \in Writers, NEW o \in Offsets, Merge(w, o)
  PROVE  Building'
<1> DEFINE p == dst.pieces
           q == Append(p, Piece(w, o))
<1>1. /\ dst' = Built(q) /\ UNCHANGED <<cancelled, pc, tmp, fileMap>>
      /\ pc[w] = "merge" /\ o \in left[w] /\ (\A r \in left[w] : o <= r)
      /\ left' = [left EXCEPT ![w] = left[w] \ {o}]
  BY DEF Merge, tmpVars
<1>2. o \in Nat /\ tmp[w][o] \in Seq(Nat)
  BY OffsetsAssumption DEF TypeOK
<1>3. p \in Pieces /\ q \in Pieces
  BY <1>2, PiecesType, ContentsType DEF Piece, TypeOK
<1>4. /\ Len(p) \in Nat /\ Len(q) = Len(p) + 1
      /\ \A i \in 1..Len(p) : q[i] = p[i]
      /\ q[Len(q)] = Piece(w, o)
  BY <1>3 DEF Pieces
<1>5. Piece(w, o).off = o /\ Piece(w, o).toks = tmp[w][o]
  BY DEF Piece
<1>6. dst'.pieces = q /\ dst'.kind = "built"
  BY <1>1, <1>3, ContentsType DEF Built
<1>7. Merged(w) /\ Ascending(p)
  BY <1>1 DEF Building
<1> HIDE DEF p, q
<1>8. Ascending(q)
  <2> SUFFICES ASSUME NEW i \in 1..Len(q), NEW j \in 1..Len(q), i < j
               PROVE  q[i].off < q[j].off
    BY DEF Ascending
  <2>1. i \in 1..Len(p)
    BY <1>4
  <2>2. CASE j \in 1..Len(p)
    BY <1>4, <1>7, <2>1, <2>2 DEF Ascending
  <2>3. CASE j = Len(q)
    <3>1. p[i].off < o
      BY <1>1, <1>7, <2>1 DEF Merged, p
    <3>2. QED
      BY <1>4, <1>5, <2>1, <2>3, <3>1
  <2>4. QED
    BY <1>4, <2>2, <2>3
<1>9. \A i \in 1..Len(q) : q[i].toks = UpTo(Len(q[i].toks) - 1)
  <2>1. \A i \in 1..Len(p) : p[i].toks = UpTo(Len(p[i].toks) - 1)
    BY DEF Building, p
  <2>2. tmp[w][o] = UpTo(Len(tmp[w][o]) - 1)
    BY TmpInOrder
  <2>3. SUFFICES ASSUME NEW i \in 1..Len(q)
                 PROVE  q[i].toks = UpTo(Len(q[i].toks) - 1)
    OBVIOUS
  <2>4. CASE i \in 1..Len(p)
    <3>1. q[i] = p[i]
      BY <1>4, <2>4
    <3>2. QED
      BY <2>1, <2>4, <3>1
  <2>5. CASE i = Len(q)
    <3>1. q[i].toks = tmp[w][o]
      BY <1>4, <1>5, <2>5
    <3>2. QED
      BY <2>2, <3>1
  <2>6. QED
    BY <1>4, <2>4, <2>5
<1>10. Merged(w)'
  <2>1. left'[w] = left[w] \ {o} /\ left[w] \subseteq fileMap[w] /\ left[w] \subseteq Nat
    BY <1>1, <1>7, OffsetsAssumption DEF TypeOK, Merged
  <2>2. {p[i].off : i \in 1..Len(p)} = fileMap[w] \ left[w]
    BY <1>7 DEF Merged, p
  <2>3. {q[i].off : i \in 1..Len(q)} = {p[i].off : i \in 1..Len(p)} \cup {o}
    BY <1>4, <1>5
  <2>4. {q[i].off : i \in 1..Len(q)} = fileMap[w] \ left'[w]
    BY <1>1, <2>1, <2>2, <2>3
  <2>5. \A i \in 1..Len(q) : q[i].toks = tmp[w][q[i].off]
    BY <1>4, <1>5, <1>7 DEF Merged, p
  <2>6. \A i \in 1..Len(q) : \A r \in left'[w] : q[i].off < r
    <3>1. \A r \in left'[w] : r \in left[w] /\ r \in Nat /\ o < r
      BY <1>1, <1>2, <2>1
    <3>2. \A i \in 1..Len(p) : \A r \in left[w] : p[i].off < r
      BY <1>7 DEF Merged, p
    <3>3. \A i \in 1..Len(q) : i \in 1..Len(p) \/ i = Len(q)
      BY <1>4
    <3>4. QED
      BY <1>4, <1>5, <3>1, <3>2, <3>3
  <2>7. QED
    BY <1>1, <1>6, <2>1, <2>4, <2>5, <2>6 DEF Merged
<1>11. \A v \in Writers : v # w => pc'[v] \in {"none", "failed"}
  BY <1>1, Sole DEF Installing
<1>12. InstalledWhole'
  BY <1>1, <1>11 DEF InstalledWhole
<1>13. QED
  BY <1>6, <1>8, <1>9, <1>10, <1>11, <1>12 DEF Building

\* When every temporary file has been merged, the destination is whole.
LEMMA MergeDoneStep ==
  ASSUME TypeOK, Ownership, Progress, Counting, Building,
         NEW w \in Writers, MergeDone(w)
  PROVE  Building'
<1>1. /\ UNCHANGED <<dst, cancelled>> /\ pc[w] = "merge" /\ left[w] = {}
      /\ pc' = [pc EXCEPT ![w] = "unref"]
  BY DEF MergeDone, fdVars, Goto
<1>2. \A v \in Writers : v # w => pc'[v] \in {"none", "failed"}
  BY <1>1, Sole DEF Installing, TypeOK
<1>3. ASSUME ~cancelled PROVE Whole(dst)
  <2>1. closed[w] = Offsets /\ closed[w] \subseteq fileMap[w] /\ fileMap[w] \subseteq Offsets
    BY <1>1, <1>3 DEF Counting, Installing, Progress, TypeOK
  <2>2. Merged(w) /\ Ascending(dst.pieces)
    BY <1>1 DEF Building
  <2>3. {dst.pieces[i].off : i \in 1..Len(dst.pieces)} = Offsets
    BY <1>1, <2>1, <2>2 DEF Merged
  <2>4. dst.pieces \in Pieces /\ dst = Built(dst.pieces)
    BY <2>2, ContentsType DEF TypeOK, Merged, Built, Contents
  <2>5. \A i \in 1..Len(dst.pieces) :
          dst.pieces[i].toks = UpTo(LastSeq[dst.pieces[i].off])
    BY <2>1, <2>2, <2>3, TmpInOrder DEF Merged
  <2>6. QED
    BY <2>2, <2>3, <2>4, <2>5, WholeBuilt
<1>4. InstalledWhole'
  BY <1>1, <1>2, <1>3 DEF InstalledWhole, Whole
<1>5. \A v \in Writers : pc'[v] # "merge"
  BY <1>1, <1>2 DEF TypeOK
<1>6. QED
  BY <1>1, <1>4, <1>5 DEF Building, Ascending

\* Building is kept by every step.
LEMMA BuildingStep ==
  ASSUME TypeOK, Ownership, Progress, Counting, Building, [Next]_vars
  PROVE  Building'
<1> USE DEF Goto
<1>1. ASSUME NEW w \in Writers, NEW m \in Msgs, Route(w, m) PROVE Building'
  BY <1>1, BuildingKept DEF Route, fdVars, tmpVars, TypeOK
<1>2. ASSUME NEW w \in Writers, NEW m \in Msgs, Put(w, m) PROVE Building'
  BY <1>2, BuildingKept DEF Put, fdVars, tmpVars
<1>3. CASE Cancel
  BY <1>3, BuildingKept DEF Cancel, fdVars, tmpVars
<1>4. ASSUME NEW w \in Writers, Open(w) PROVE Building'
  <2>1. \A v \in Writers : pc[v] \notin Installing
    BY <1>4, Sole DEF Open, Installing
  <2>2. \A v \in Writers : pc'[v] \notin Installing
    BY <1>4, <2>1 DEF Open, TypeOK, Installing
  <2>3. dst' = dst \/ dst' = Absent
    BY <1>4 DEF Open, fdVars
  <2>4. Absent.pieces = << >> /\ Len(<< >>) = 0
    BY DEF Absent
  <2>5. Ascending(dst'.pieces) /\ \A i \in 1..Len(dst'.pieces) :
          dst'.pieces[i].toks = UpTo(Len(dst'.pieces[i].toks) - 1)
    BY <2>3, <2>4 DEF Building, Ascending
  <2>6. QED
    BY <2>2, <2>5 DEF Building, InstalledWhole, Installing
<1>5. ASSUME NEW w \in Writers, NEW m \in Msgs, CacheMsg(w, m) PROVE Building'
  <2>1. \A v \in Writers : v # w => fileMap'[v] = fileMap[v]
    BY <1>5 DEF CacheMsg, FromInbox, TypeOK
  <2>2. pc[w] = "recv" /\ UNCHANGED <<dst, left, cancelled, pc, tmp>>
    BY <1>5 DEF CacheMsg, FromInbox, fdVars
  <2>3. QED
    BY <2>1, <2>2, BuildingKept
<1>6. ASSUME NEW w \in Writers, NEW m \in Msgs,
             ReceiveData(w, m) \/ ReceiveEnd(w, m) \/ DrainData(w, m) \/ DrainEnd(w, m)
      PROVE  Building'
  <2>1. UNCHANGED <<dst, left, cancelled>>
    BY <1>6 DEF ReceiveData, ReceiveEnd, DrainData, DrainEnd, fdVars
  <2>2. pc'[w] \in {"recv", "drain", "rebuild"}
    BY <1>6 DEF ReceiveData, ReceiveEnd, DrainData, DrainEnd, FromInbox, FromCache,
                EndStream, TypeOK
  <2>3. \A v \in Writers : v # w => pc'[v] = pc[v]
    BY <1>6 DEF ReceiveData, ReceiveEnd, DrainData, DrainEnd, EndStream, TypeOK
  <2>4. \A v \in Writers : v # w => tmp'[v] = tmp[v] /\ fileMap'[v] = fileMap[v]
    BY <1>6 DEF ReceiveData, ReceiveEnd, DrainData, DrainEnd, FromInbox, writeToFile, TypeOK
  <2>5. QED
    BY <2>1, <2>2, <2>3, <2>4, BuildingKept
<1>7. ASSUME NEW w \in Writers, NEW m \in Msgs, WriteFailure(w, m) PROVE Building'
  <2>1. UNCHANGED <<dst, left, cancelled, tmp>> /\ pc' = [pc EXCEPT ![w] = "failed"]
    BY <1>7 DEF WriteFailure, fdVars
  <2>2. \A v \in Writers : v # w => fileMap'[v] = fileMap[v]
    BY <1>7 DEF WriteFailure, FromInbox, TypeOK
  <2>3. QED
    BY <2>1, <2>2, BuildingKept DEF TypeOK
<1>8. ASSUME NEW w \in Writers,
             DrainDone(w) \/ CtxDone(w) \/ RebuildPanic(w) \/ Unref(w) \/ Close(w)
               \/ IoFailure(w)
      PROVE  Building'
  <2>1. UNCHANGED <<dst, left, cancelled, tmp, fileMap>>
    BY <1>8 DEF DrainDone, CtxDone, RebuildPanic, Unref, Close, IoFailure, fdVars, tmpVars
  <2>2. \A v \in Writers : /\ pc'[v] = "merge" => pc[v] = "merge"
                           /\ pc'[v] \in {"unref", "close", "done"}
                                => pc[v] \in {"unref", "close", "done"}
    BY <1>8 DEF DrainDone, CtxDone, RebuildPanic, Unref, Close, IoFailure, TypeOK
  <2>3. QED
    BY <2>1, <2>2, BuildingKept
<1>9. ASSUME NEW w \in Writers, RebuildCreate(w) PROVE Building'
  <2>1. /\ dst' = Built(<< >>) /\ pc[w] = "rebuild" /\ fileMap' = fileMap
        /\ left'[w] = fileMap[w] /\ pc' = [pc EXCEPT ![w] = "merge"]
    BY <1>9 DEF RebuildCreate, tmpVars, TypeOK
  <2>2. dst'.pieces = << >> /\ dst'.kind = "built" /\ Len(<< >>) = 0
    BY <2>1 DEF Built
  <2>3. \A v \in Writers : v # w => pc'[v] \in {"none", "failed"}
    BY <2>1, Sole DEF Installing, TypeOK
  <2>4. pc'[w] = "merge"
    BY <2>1 DEF TypeOK
  <2>5. Merged(w)'
    <3>1. {dst'.pieces[i].off : i \in 1..Len(dst'.pieces)} = {}
      BY <2>2
    <3>2. QED
      BY <2>1, <2>2, <3>1 DEF Merged
  <2>6. QED
    BY <2>2, <2>3, <2>4, <2>5 DEF Building, Ascending, InstalledWhole
<1>10. ASSUME NEW w \in Writers, RebuildRename(w) PROVE Building'
  BY <1>10, RenameStep
<1>11. ASSUME NEW w \in Writers, NEW o \in Offsets, Merge(w, o) PROVE Building'
  BY <1>11, MergeStep
<1>12. ASSUME NEW w \in Writers, MergeDone(w) PROVE Building'
  BY <1>12, MergeDoneStep
<1>13. CASE UNCHANGED vars
  BY <1>13, BuildingKept DEF vars, fdVars, tmpVars
<1>14. QED
  BY <1>1, <1>2, <1>3, <1>4, <1>5, <1>6, <1>7, <1>8, <1>9, <1>10, <1>11, <1>12, <1>13
     DEF Next, WriterStep

-----------------------------------------------------------------------------
\* The inductive invariant holds of the initial states, and so always.
LEMMA Inductive == Spec => []IInv
<1>1. Init => Ownership /\ Progress /\ Counting /\ Building
  <2> SUFFICES ASSUME Init PROVE Ownership /\ Progress /\ Counting /\ Building
    OBVIOUS
  <2>1. Ownership
    BY DEF Init, Ownership
  <2>2. Progress
    BY UpToFacts, LastSeqAssumption DEF Init, Progress, StreamProgress
  <2>3. Counting
    BY DEF Init, Counting, Streams, Installing
  <2>4. dst.pieces = << >> /\ Len(<< >>) = 0
    BY DEF Init, Absent, Old
  <2>5. Building
    BY <2>4 DEF Init, Building, Ascending, InstalledWhole
  <2>6. QED
    BY <2>1, <2>2, <2>3, <2>5
<1>2. TypeOK /\ Ownership /\ Progress /\ Counting /\ Building /\ [Next]_vars
        => Ownership' /\ Progress' /\ Counting' /\ Building'
  <2> SUFFICES ASSUME TypeOK, Ownership, Progress, Counting, Building, [Next]_vars
               PROVE  Ownership' /\ Progress' /\ Counting' /\ Building'
    OBVIOUS
  <2>1. Ownership'
    BY OwnershipStep
  <2>2. Progress'
    BY ProgressStep
  <2>3. Counting'
    BY CountingStep
  <2>4. Building'
    BY BuildingStep
  <2>5. QED
    BY <2>1, <2>2, <2>3, <2>4
<1>3. QED
  BY <1>1, <1>2, TypeCorrect, PTL DEF Spec, IInv

\* Whatever the order in which messages arrive and writers run, temporary
\* files and the file built from them are in sequence order, and the pieces
\* in ascending offset (FileWriter!InOrder).
THEOREM WritersInOrder == Spec => []InOrder
<1>1. IInv => InOrder
  <2> SUFFICES ASSUME IInv PROVE InOrder
    OBVIOUS
  <2>1. DOMAIN dst.pieces = 1..Len(dst.pieces)
    BY ContentsType DEF IInv, TypeOK, Pieces
  <2>2. \A w \in Writers : \A o \in Offsets : tmp[w][o] = UpTo(Len(tmp[w][o]) - 1)
    BY TmpInOrder DEF IInv
  <2>3. QED
    BY <2>1, <2>2 DEF IInv, Building, Ascending, InOrder
<1>2. QED
  BY <1>1, Inductive, PTL

\* A writer past the rebuild has installed every stream, complete, unless the
\* context was cancelled, however many writers shared the messages
\* (FileWriter!InstalledWhole).
THEOREM WritersInstallWhole == Spec => []InstalledWhole
<1>1. IInv => InstalledWhole
  BY DEF IInv, Building
<1>2. QED
  BY <1>1, Inductive, PTL

\* No two writers ever rebuild the file (FileWriter!OneInstaller): the stream
\* count, which nothing else protects, excludes it.
THEOREM WritersExclude == Spec => []OneInstaller
<1>1. IInv => OneInstaller
  <2> SUFFICES ASSUME IInv, NEW v \in Writers, NEW w \in Writers,
                      pc[v] \in Installing, pc[w] \in Installing
               PROVE  v = w
    BY DEF OneInstaller, Installing
  <2>1. v # w => pc[v] \in {"none", "failed"}
    BY Sole DEF IInv
  <2>2. QED
    BY <2>1 DEF Installing
<1>2. QED
  BY <1>1, Inductive, PTL

=============================================================================
