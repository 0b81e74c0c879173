--------------------------- MODULE SyncRunProofs ---------------------------
(***************************************************************************)
(* Proofs about a run, for any files, readers, dataSenders, lengths of     *)
(* streams and failures, in both modes: nothing is lost between the        *)
(* requests and the writers.                                               *)
(***************************************************************************)
EXTENDS SyncRun, FiniteSetTheorems, SequenceTheorems, TLAPS

Reqs == Requests(Listed)
Msgs == UNION {MessagesOf(f) : f \in Listed}

SenderPcs == {"start", "list", "spawn", "send", "stop", "wait", "fin", "done", "failed"}
ReaderPcs == {"none", "idle", "busy", "stopped", "failed"}

ListTypes == diffList \in SUBSET Files /\ missList \in SUBSET (Files \ diffList)

SenderTypes ==
  /\ spc \in SenderPcs
  /\ todo \subseteq Reqs
  /\ fins \in [Kinds \cup {"data"} -> Nat]

PoolTypes ==
  /\ readerCh \in [Kinds -> Seq(Reqs \cup {FIN})]
  /\ readers \in [Kinds -> [Workers -> [pc : ReaderPcs, req : SUBSET Reqs, seq : 0..Last]]]

WireTypes ==
  /\ remote \in Seq(Msgs \cup {FIN, INI})
  /\ senders \in [Senders -> [pc : {"idle", "posting", "stopped", "failed"}, msg : SUBSET Msgs]]

LoopTypes ==
  /\ rpc \in {"loop", "hash", "wait", "done", "failed"}
  /\ hand \subseteq Msgs /\ finSent \in BOOLEAN

HashTypes ==
  /\ hashers \in [Workers -> [pc : ReaderPcs, file : SUBSET Files]]
  /\ toHash \subseteq Files /\ unhashed \subseteq Files /\ hashFins \in Nat

WriterTypes ==
  /\ inboxes \in [Files -> SUBSET Msgs]
  /\ written \in [Files -> SUBSET Msgs]
  /\ \A f \in Files : inboxes[f] \cup written[f] \subseteq MessagesOf(f)
  /\ writers \in [Files -> {"none", "open", "done", "failed"}]

Types ==
  /\ ListTypes /\ SenderTypes /\ PoolTypes /\ WireTypes
  /\ LoopTypes /\ HashTypes /\ WriterTypes

-----------------------------------------------------------------------------
(* The constants and the requests. *)

LEMMA Counts == ccIo \in Nat /\ ccIo >= 1 /\ Cardinality(Senders) \in Nat
<1>1. ccIo \in Nat /\ Cardinality(Senders) \in Nat
  BY RunAssumption, FS_CardinalityType DEF ccIo
<1>2. ccIo # 0
  BY RunAssumption, FS_EmptySet DEF ccIo
<1> QED
  BY <1>1, <1>2

LEMMA StreamCount == \A f : Streams(f) \in Nat /\ Streams(f) >= 1
BY Counts DEF Streams

LEMMA RequestsAre ==
  \A fs, r : r \in Requests(fs) <=>
               /\ r \in [file : fs, chunk : Nat]
               /\ r.chunk \in 0..(Streams(r.file) - 1)
<1> SUFFICES ASSUME NEW fs, NEW r
             PROVE  r \in Requests(fs) <=>
                      /\ r \in [file : fs, chunk : Nat]
                      /\ r.chunk \in 0..(Streams(r.file) - 1)
  OBVIOUS
<1>1. ASSUME r \in Requests(fs)
      PROVE  /\ r \in [file : fs, chunk : Nat]
             /\ r.chunk \in 0..(Streams(r.file) - 1)
  <2>1. PICK f \in fs : r \in [file : {f}, chunk : 0..(Streams(f) - 1)]
    BY <1>1 DEF Requests
  <2> QED
    BY <2>1, StreamCount
<1>2. ASSUME r \in [file : fs, chunk : Nat], r.chunk \in 0..(Streams(r.file) - 1)
      PROVE  r \in Requests(fs)
  <2>1. r \in [file : {r.file}, chunk : 0..(Streams(r.file) - 1)] /\ r.file \in fs
    BY <1>2
  <2> QED
    BY <2>1 DEF Requests
<1> QED
  BY <1>1, <1>2

LEMMA MessagesAre ==
  \A f : MessagesOf(f) = {Message(r, n) : r \in Requests({f}), n \in 0..Last}
BY DEF MessagesOf

\* A message belongs to the file it names.
LEMMA MessageFile == \A f, m : m \in MessagesOf(f) => m.file = f
<1> SUFFICES ASSUME NEW f, NEW m \in MessagesOf(f) PROVE m.file = f
  OBVIOUS
<1>1. PICK r \in Requests({f}), n \in 0..Last : m = Message(r, n)
  BY DEF MessagesOf
<1>2. r.file = f
  BY RequestsAre
<1> QED
  BY <1>1, <1>2 DEF Message

LEMMA MessageOfRequest ==
  \A r \in Reqs, n \in 0..Last : /\ Message(r, n) \in MessagesOf(r.file)
                                 /\ r.file \in Listed
                                 /\ Message(r, n) \in Msgs
<1> SUFFICES ASSUME NEW r \in Reqs, NEW n \in 0..Last
             PROVE  Message(r, n) \in MessagesOf(r.file) /\ r.file \in Listed
  BY DEF Msgs
<1>1. r \in Requests({r.file}) /\ r.file \in Listed
  BY RequestsAre DEF Reqs
<1> QED
  BY <1>1 DEF MessagesOf

LEMMA Msgs1 == \A m \in Msgs : m.file \in Listed /\ m \in MessagesOf(m.file)
BY MessageFile DEF Msgs

\* Control messages are not requests or messages with data.
LEMMA Control == FIN \notin Reqs /\ FIN \notin Msgs /\ INI \notin Msgs /\ FIN # INI
<1>1. ASSUME NEW m \in Msgs PROVE m # FIN /\ m # INI
  <2>1. PICK r \in Reqs, n \in 0..Last : m = Message(r, n)
    <3>1. PICK f \in Listed : m \in MessagesOf(f)
      BY DEF Msgs
    <3>2. PICK r \in Requests({f}), n \in 0..Last : m = Message(r, n)
      BY <3>1 DEF MessagesOf
    <3>3. r \in Reqs
      BY RequestsAre DEF Reqs
    <3> QED
      BY <3>2, <3>3
  <2>2. DOMAIN m = {"file", "chunk", "seq"} /\ DOMAIN FIN = {"flag"} /\ DOMAIN INI = {"flag"}
    BY <2>1 DEF Message, FIN, INI
  <2> QED
    BY <2>2
<1>2. ASSUME NEW r \in Reqs PROVE r # FIN
  <2>1. r \in [file : Listed, chunk : Nat]
    BY RequestsAre DEF Reqs
  <2>2. DOMAIN r = {"file", "chunk"} /\ DOMAIN FIN = {"flag"}
    BY <2>1 DEF FIN
  <2> QED
    BY <2>2
<1>3. FIN.flag # INI.flag
  BY DEF FIN, INI
<1> QED
  BY <1>1, <1>2, <1>3

LEMMA Kinded == \A r : KindOf(r) \in Kinds
BY DEF KindOf, Kinds

-----------------------------------------------------------------------------
(* Types. *)

\* The lists are those of the exchange, and so are requests and messages.
LEMMA ListsStay ==
  ASSUME [Next]_vars
  PROVE  /\ UNCHANGED listVars
         /\ Reqs' = Reqs /\ Msgs' = Msgs
         /\ \A r : KindOf(r)' = KindOf(r)
         /\ \A f : MessagesOf(f)' = MessagesOf(f)
<1>1. UNCHANGED listVars
  BY DEF Next, vars, SenderStep, SendList, ListTimeout, spawnReaders, sendDataToReaders,
     beginStop, stopReaders, stopped, waitReaders, SendFin, StopSender, waitSenders,
     ReaderStep, ReaderTake, ReaderSend, Posted, LoopStep, LoopList, LoopReceive,
     HashRequest, HashFin, Answer, notHashing, LoopData, LoopFin, LoopPut, LoopEnd,
     waitWriters, HashFile, WriterStep, WriterWrite, WriterDone, Failure, ListFails,
     FinTimeout, HashFails, ReaderFails, SenderFails, WriterFails
<1>2. diffList' = diffList /\ missList' = missList
  BY <1>1 DEF listVars
<1> QED
  BY <1>1, <1>2 DEF Reqs, Msgs, Listed, Requests, Streams, KindOf, MessagesOf

LEMMA TypesInit == Init => Types
<1> SUFFICES ASSUME Init PROVE Types
  OBVIOUS
<1>1. ListTypes /\ SenderTypes
  BY DEF Init, ListTypes, SenderTypes, SenderPcs
<1>2. PoolTypes
  BY RunAssumption DEF Init, PoolTypes, Resting, Reader, ReaderPcs
<1>3. WireTypes
  BY EmptySeq DEF Init, WireTypes, DataSender
<1>6. LoopTypes
  BY DEF Init, LoopTypes
<1>4. HashTypes
  BY DEF Init, HashTypes, Hasher, ReaderPcs
<1>5. WriterTypes
  BY DEF Init, WriterTypes
<1> QED
  BY <1>1, <1>2, <1>3, <1>4, <1>5, <1>6 DEF Types

\* A message of a request in hand, in the channel or with a dataSender.
LEMMA AcceptTypes ==
  ASSUME Types, UNCHANGED listVars, Msgs' = Msgs, NEW m \in Msgs, Accept(m)
  PROVE  WireTypes'
<1>1. CASE Mode = "local"
  <2>1. remote' = Append(remote, m) /\ UNCHANGED senders
    BY <1>1 DEF Accept
  <2>2. remote' \in Seq(Msgs \cup {FIN, INI})
    BY <2>1, AppendProperties DEF Types, WireTypes
  <2> QED
    BY <2>1, <2>2 DEF Types, WireTypes
<1>2. CASE Mode = "http"
  BY <1>2 DEF Accept, Types, WireTypes, DataSender
<1> QED
  BY <1>1, <1>2, RunAssumption

LEMMA SenderKeepsTypes ==
  ASSUME Types, [Next]_vars, SenderStep
  PROVE  Types'
<1> USE ListsStay
<1> USE DEF Types, ListTypes, SenderTypes, SenderPcs
<1>1. CASE SendList
  <2>1. remote' \in Seq(Msgs \cup {FIN, INI})
    BY <1>1, AppendProperties DEF SendList, WireTypes
  <2> QED
    BY <1>1, <2>1 DEF SendList, Sender, listVars, poolVars, loopVars, hashVars, writerVars,
       PoolTypes, WireTypes, LoopTypes, HashTypes, WriterTypes
<1>2. CASE ListTimeout
  BY <1>2, Counts DEF ListTimeout, Sender, Kinds,
     listVars, poolVars, wireVars, loopVars, hashVars, writerVars,
     PoolTypes, WireTypes, LoopTypes, HashTypes, WriterTypes
<1>8. CASE beginStop
  BY <1>8, Counts DEF beginStop, Sender, Kinds,
     listVars, poolVars, wireVars, loopVars, hashVars, writerVars,
     PoolTypes, WireTypes, LoopTypes, HashTypes, WriterTypes
<1>9. CASE stopped
  BY <1>9, Counts DEF stopped, Sender, Kinds,
     listVars, poolVars, wireVars, loopVars, hashVars, writerVars,
     PoolTypes, WireTypes, LoopTypes, HashTypes, WriterTypes
<1>10. CASE waitReaders
  BY <1>10, Counts DEF waitReaders, Sender, Kinds,
     listVars, poolVars, wireVars, loopVars, hashVars, writerVars,
     PoolTypes, WireTypes, LoopTypes, HashTypes, WriterTypes
<1>11. CASE waitSenders
  BY <1>11, Counts DEF waitSenders, Sender, Kinds,
     listVars, poolVars, wireVars, loopVars, hashVars, writerVars,
     PoolTypes, WireTypes, LoopTypes, HashTypes, WriterTypes
<1>3. CASE spawnReaders
  <2>1. readers' \in [Kinds -> [Workers -> [pc : ReaderPcs, req : SUBSET Reqs, seq : 0..Last]]]
    BY <1>3, RunAssumption DEF spawnReaders, PoolTypes, Resting, Reader, ReaderPcs
  <2>2. todo' = Reqs'
    BY <1>3 DEF spawnReaders, Reqs, Listed
  <2> QED
    BY <1>3, <2>1, <2>2 DEF spawnReaders, Sender,
       listVars, wireVars, loopVars, hashVars, writerVars,
       PoolTypes, WireTypes, LoopTypes, HashTypes, WriterTypes
<1>4. ASSUME NEW r \in Requests(Files), sendDataToReaders(r) PROVE Types'
  <2>1. readerCh' \in [Kinds -> Seq(Reqs \cup {FIN})]
    BY <1>4, Kinded, AppendProperties DEF sendDataToReaders, PoolTypes
  <2> QED
    BY <1>4, <2>1 DEF sendDataToReaders, listVars, wireVars, loopVars, hashVars, writerVars,
       PoolTypes, WireTypes, LoopTypes, HashTypes, WriterTypes
<1>5. ASSUME NEW k \in Kinds, stopReaders(k) PROVE Types'
  <2>1. readerCh' \in [Kinds -> Seq(Reqs \cup {FIN})]
    BY <1>5, AppendProperties DEF stopReaders, PoolTypes
  <2> QED
    BY <1>5, <2>1 DEF stopReaders, listVars, wireVars, loopVars, hashVars, writerVars,
       PoolTypes, WireTypes, LoopTypes, HashTypes, WriterTypes
<1>6. CASE SendFin
  <2>1. remote' \in Seq(Msgs \cup {FIN, INI})
    BY <1>6, AppendProperties DEF SendFin, WireTypes
  <2> QED
    BY <1>6, <2>1 DEF SendFin, Sender, listVars, poolVars, loopVars, hashVars, writerVars,
       PoolTypes, WireTypes, LoopTypes, HashTypes, WriterTypes
<1>7. ASSUME NEW d \in Senders, StopSender(d) PROVE Types'
  BY <1>7 DEF StopSender, DataSender, listVars, poolVars, loopVars, hashVars, writerVars,
     PoolTypes, WireTypes, LoopTypes, HashTypes, WriterTypes
<1> QED
  BY <1>1, <1>2, <1>3, <1>4, <1>5, <1>6, <1>7, <1>8, <1>9, <1>10, <1>11 DEF SenderStep

LEMMA ReadersKeepTypes ==
  ASSUME Types, [Next]_vars, NEW k \in Kinds, NEW i \in Workers,
         ReaderStep(k, i) \/ ReaderFails(k, i)
  PROVE  Types'
<1> USE ListsStay
<1> USE DEF Types, ListTypes, SenderTypes
<1>1. readers[k][i] \in [pc : ReaderPcs, req : SUBSET Reqs, seq : 0..Last]
  BY DEF PoolTypes
<1>2. CASE ReaderTake(k, i)
  <2>1. /\ Head(readerCh[k]) \in Reqs \cup {FIN}
        /\ Tail(readerCh[k]) \in Seq(Reqs \cup {FIN})
    BY <1>2, HeadTailProperties DEF ReaderTake, PoolTypes
  <2>2. PoolTypes'
    BY <1>2, <2>1, RunAssumption DEF ReaderTake, PoolTypes, Resting, Reader, ReaderPcs
  <2> QED
    BY <1>2, <2>2 DEF ReaderTake, listVars, senderVars, wireVars, loopVars, hashVars,
       writerVars, WireTypes, LoopTypes, HashTypes, WriterTypes
<1>3. CASE ReaderSend(k, i)
  <2>1. PICK q \in readers[k][i].req : Accept(Message(q, readers[k][i].seq))
    BY <1>3 DEF ReaderSend
  <2>2. WireTypes'
    BY <1>1, <2>1, MessageOfRequest, AcceptTypes
  <2>3. PoolTypes'
    BY <1>1, <1>3, RunAssumption DEF ReaderSend, PoolTypes, Resting, Reader, ReaderPcs
  <2> QED
    BY <1>3, <2>2, <2>3 DEF ReaderSend, listVars, senderVars, loopVars, hashVars,
       writerVars, LoopTypes, HashTypes, WriterTypes
<1>4. CASE ReaderFails(k, i)
  <2>1. PoolTypes'
    BY <1>1, <1>4 DEF ReaderFails, PoolTypes, Reader, ReaderPcs
  <2> QED
    BY <1>4, <2>1 DEF ReaderFails, listVars, senderVars, wireVars, loopVars, hashVars,
       writerVars, WireTypes, LoopTypes, HashTypes, WriterTypes
<1> QED
  BY <1>2, <1>3, <1>4 DEF ReaderStep

\* The message at the head of the channel is taken.
LEMMA ReceiveTypes ==
  ASSUME Types, Msgs' = Msgs, NEW m, LoopReceive(m)
  PROVE  WireTypes'
BY HeadTailProperties DEF Types, WireTypes, LoopReceive

LEMMA HashKeepsTypes ==
  ASSUME Types, [Next]_vars,
         \/ LoopList \/ Answer
         \/ \E i \in Workers : \/ \E f \in Files : HashRequest(i, f)
                               \/ HashFile(i) \/ HashFails(i) \/ HashFin(i)
  PROVE  Types'
<1> USE ListsStay
<1> USE DEF Types, ListTypes, SenderTypes, SenderPcs
<1>1. CASE LoopList
  <2>1. WireTypes'
    BY <1>1, ReceiveTypes DEF LoopList
  <2>2. HashTypes'
    BY <1>1, Counts DEF LoopList, HashTypes, Hasher, ReaderPcs, hashVars
  <2> QED
    BY <1>1, <2>1, <2>2 DEF LoopList, LoopReceive, listVars, poolVars, writerVars,
       PoolTypes, LoopTypes, WriterTypes
<1>2. CASE Answer
  BY <1>2 DEF Answer, notHashing, listVars, poolVars, wireVars, hashVars, writerVars,
     PoolTypes, WireTypes, LoopTypes, HashTypes, WriterTypes
<1>3. ASSUME NEW i \in Workers, HashTypes', spc' = spc, rpc' = rpc, notHashing
      PROVE  Types'
  BY <1>3 DEF notHashing, listVars, poolVars, wireVars, writerVars,
     PoolTypes, WireTypes, LoopTypes, WriterTypes
<1>4. ASSUME NEW i \in Workers, NEW f \in Files, HashRequest(i, f)
      PROVE  Types'
  BY <1>3, <1>4 DEF HashRequest, Hasher, HashTypes, ReaderPcs
<1>5. ASSUME NEW i \in Workers, HashFile(i) \/ HashFails(i) \/ HashFin(i)
      PROVE  Types'
  <2>1. HashTypes'
    BY <1>5 DEF HashFile, HashFails, HashFin, Hasher, HashTypes, ReaderPcs
  <2> QED
    BY <1>3, <1>5, <2>1 DEF HashFile, HashFails, HashFin
<1> QED
  BY <1>1, <1>2, <1>4, <1>5

\* A message reaches the writer of its file.
LEMMA PutTypes ==
  ASSUME Types, [Next]_vars, NEW m \in Msgs, PutInbox(m)
  PROVE  WriterTypes'
<1> USE ListsStay, Msgs1
<1>1. m.file \in Files
  BY DEF Types, ListTypes, Listed
<1> QED
  BY <1>1 DEF PutInbox, Types, WriterTypes

LEMMA ReceiverKeepsTypes ==
  ASSUME Types, [Next]_vars,
         \/ LoopData \/ LoopFin \/ LoopPut \/ LoopEnd \/ waitWriters
         \/ \E d \in Senders : Posted(d) \/ SenderFails(d)
         \/ \E f \in Files : WriterStep(f) \/ WriterFails(f)
  PROVE  Types'
<1> USE ListsStay
<1> USE DEF Types, ListTypes, SenderTypes, SenderPcs
<1>1. CASE LoopData
  <2>1. PICK f \in Listed : \E m \in MessagesOf(f) : LoopReceive(m) /\ hand' = {m}
    BY <1>1 DEF LoopData
  <2>2. PICK m \in Msgs : LoopReceive(m) /\ hand' = {m}
    BY <2>1 DEF Msgs
  <2>3. WireTypes'
    BY <2>2, ReceiveTypes
  <2> QED
    BY <1>1, <2>2, <2>3 DEF LoopData, LoopReceive, listVars, poolVars, writerVars, hashVars,
       PoolTypes, LoopTypes, HashTypes, WriterTypes
<1>2. CASE LoopFin
  <2>1. WireTypes'
    BY <1>2, ReceiveTypes DEF LoopFin
  <2> QED
    BY <1>2, <2>1 DEF LoopFin, LoopReceive, listVars, poolVars, writerVars, hashVars,
       PoolTypes, LoopTypes, HashTypes, WriterTypes
<1>3. CASE LoopPut
  <2>1. WriterTypes'
    BY <1>3, PutTypes DEF LoopPut, LoopTypes
  <2> QED
    BY <1>3, <2>1 DEF LoopPut, listVars, senderVars, poolVars, wireVars, hashVars,
       PoolTypes, WireTypes, LoopTypes, HashTypes
<1>4. CASE LoopEnd
  BY <1>4 DEF LoopEnd, listVars, senderVars, poolVars, wireVars, hashVars, writerVars,
     PoolTypes, WireTypes, LoopTypes, HashTypes, WriterTypes
<1>5. CASE waitWriters
  BY <1>5 DEF waitWriters, listVars, senderVars, poolVars, wireVars, hashVars, writerVars,
     PoolTypes, WireTypes, LoopTypes, HashTypes, WriterTypes
<1>6. ASSUME NEW d \in Senders, Posted(d)
      PROVE  Types'
  <2>1. senders[d].msg \subseteq Msgs
    BY DEF WireTypes
  <2>2. WriterTypes'
    BY <1>6, <2>1, PutTypes DEF Posted
  <2> QED
    BY <1>6, <2>2 DEF Posted, listVars, senderVars, poolVars, loopVars, hashVars, DataSender,
       PoolTypes, WireTypes, LoopTypes, HashTypes
<1>7. ASSUME NEW d \in Senders, SenderFails(d)
      PROVE  Types'
  BY <1>7 DEF SenderFails, listVars, senderVars, poolVars, loopVars, hashVars, writerVars,
     DataSender, PoolTypes, WireTypes, LoopTypes, HashTypes, WriterTypes
<1>8. ASSUME NEW f \in Files, WriterWrite(f)
      PROVE  Types'
  BY <1>8 DEF WriterWrite, listVars, senderVars, poolVars, wireVars, loopVars, hashVars,
     PoolTypes, WireTypes, LoopTypes, HashTypes, WriterTypes
<1>9. ASSUME NEW f \in Files, WriterDone(f)
      PROVE  Types'
  BY <1>9 DEF WriterDone, listVars, senderVars, poolVars, wireVars, loopVars, hashVars,
     PoolTypes, WireTypes, LoopTypes, HashTypes, WriterTypes
<1>10. ASSUME NEW f \in Files, WriterFails(f)
      PROVE  Types'
  BY <1>10 DEF WriterFails, listVars, senderVars, poolVars, wireVars, loopVars, hashVars,
     PoolTypes, WireTypes, LoopTypes, HashTypes, WriterTypes
<1> QED
  BY <1>1, <1>2, <1>3, <1>4, <1>5, <1>6, <1>7, <1>8, <1>9, <1>10 DEF WriterStep

LEMMA EndsKeepTypes ==
  ASSUME Types, [Next]_vars, ListFails \/ FinTimeout
  PROVE  Types'
<1> USE ListsStay
<1> USE DEF Types, ListTypes, SenderTypes, SenderPcs
<1>1. CASE ListFails
  BY <1>1 DEF ListFails, Sender, listVars, poolVars, wireVars, loopVars, hashVars, writerVars,
     PoolTypes, WireTypes, LoopTypes, HashTypes, WriterTypes
<1>2. CASE FinTimeout
  BY <1>2 DEF FinTimeout, Sender, listVars, poolVars, wireVars, loopVars, hashVars, writerVars,
     PoolTypes, WireTypes, LoopTypes, HashTypes, WriterTypes
<1> QED
  BY <1>1, <1>2

LEMMA StutterKeepsTypes == Types /\ UNCHANGED vars => Types'
<1> SUFFICES ASSUME Types, UNCHANGED vars PROVE Types'
  OBVIOUS
<1> USE ListsStay
<1> USE DEF vars, listVars, senderVars, poolVars, wireVars, loopVars, hashVars, writerVars
<1>1. ListTypes' /\ SenderTypes' /\ PoolTypes'
  BY DEF Types, ListTypes, SenderTypes, PoolTypes
<1>2. WireTypes' /\ LoopTypes' /\ HashTypes'
  BY DEF Types, WireTypes, LoopTypes, HashTypes
<1>3. WriterTypes'
  BY DEF Types, WriterTypes
<1> QED
  BY <1>1, <1>2, <1>3 DEF Types

LEMMA TypesStep == Types /\ [Next]_vars => Types'
BY SenderKeepsTypes, ReadersKeepTypes, HashKeepsTypes, ReceiverKeepsTypes, EndsKeepTypes,
   StutterKeepsTypes DEF Next, LoopStep, Failure

LEMMA TypesHold == Spec => []Types
BY TypesInit, TypesStep, PTL DEF Spec

-----------------------------------------------------------------------------
(* The inductive invariant. *)

HasFiles(k) == IF k = "roll" THEN diffList # {} ELSE missList # {}

StoppedOf(k) == {i \in Workers : readers[k][i].pc = "stopped"}

\* A pool's channel holds its own requests, and a reader one request at most.
PoolInv ==
  \A k \in Kinds :
    /\ \A n \in 1..Len(readerCh[k]) : readerCh[k][n] # FIN => KindOf(readerCh[k][n]) = k
    /\ \A i \in Workers :
         /\ readers[k][i].pc \in {"none", "idle", "stopped"} => readers[k][i].req = {}
         /\ \A q, r \in readers[k][i].req : q = r

\* The FINs of a pool come after its requests, and there are no more of them,
\* sent, taken and to be sent, than readers.
Stopping == spc \in {"stop", "wait", "fin", "done", "failed"}

FinOf(k) ==
  /\ \A n \in 1..Len(readerCh[k]) :
       readerCh[k][n] = FIN =>
         /\ \A p \in n..Len(readerCh[k]) : readerCh[k][p] = FIN
         /\ Len(readerCh[k]) - n + 1 + fins[k] + Cardinality(StoppedOf(k)) <= ccIo
         /\ Stopping /\ HasFiles(k)
  /\ StoppedOf(k) # {} =>
       /\ \A n \in 1..Len(readerCh[k]) : readerCh[k][n] = FIN
       /\ Stopping /\ HasFiles(k)
  /\ fins[k] > 0 => Stopping /\ HasFiles(k)
  /\ fins[k] + Cardinality(StoppedOf(k)) <= ccIo

FinInv == \A k \in Kinds : FinOf(k)

\* What the place of the sender says of its pools.
PhaseInv ==
  /\ spc \in {"stop", "wait", "fin", "done"} => todo = {}
  /\ \A k \in Kinds :
       /\ spc \in {"start", "list", "spawn"} => \A i \in Workers : readers[k][i].pc = "none"
       /\ spc \in {"send", "stop", "wait", "fin", "done"} /\ HasFiles(k)
            => \A i \in Workers : readers[k][i].pc # "none"
       /\ spc \in {"fin", "done"} =>
            /\ readerCh[k] = << >>
            /\ \A i \in Workers : readers[k][i].pc \in {"none", "stopped"}

\* What is on the wire, where nothing follows the FIN.
WireInv ==
  /\ Mode = "http" => /\ remote = << >> /\ hand = {} /\ rpc = "loop" /\ ~finSent
                      /\ spc # "start"
  /\ Mode = "local" => \A d \in Senders : senders[d].pc = "idle"
  /\ \A d \in Senders : /\ senders[d].pc # "posting" => senders[d].msg = {}
                        /\ \A m, q \in senders[d].msg : m = q
  /\ \A m, q \in hand : m = q
  /\ \A n \in 1..Len(remote) : remote[n] = FIN => n = Len(remote) /\ spc = "done"
  /\ finSent => remote = << >> /\ hand = {} /\ spc = "done"
  /\ Mode = "http" /\ spc = "done" => \A d \in Senders : senders[d].pc = "stopped"

\* The list is alone on the wire, and is answered when all sums are made.
HashInv ==
  /\ spc = "start" => remote = << >> /\ rpc = "loop"
  /\ \A n \in 1..Len(remote) :
       remote[n] = INI =>
         /\ Len(remote) = 1 /\ rpc = "loop" /\ spc \in {"list", "failed"}
         /\ \A k \in Kinds, i \in Workers : readers[k][i].pc = "none"
  /\ rpc = "hash" => spc \in {"list", "failed"}
  /\ Mode = "local" /\ spc \notin {"start", "list", "failed"} => unhashed = {}

\* A file without sums is still to be asked for or with a hash reader.
SumInv ==
  /\ toHash \subseteq unhashed
  /\ \A f \in unhashed : f \in toHash \/ \E i \in Workers : f \in hashers[i].file
  /\ \A i \in Workers : /\ hashers[i].pc \in {"none", "idle", "stopped"} => hashers[i].file = {}
                        /\ hashers[i].file \cap toHash = {}

WriterInv ==
  /\ \A f \in Files :
       /\ inboxes[f] \cup written[f] # {} => writers[f] # "none"
       /\ writers[f] = "done" => written[f] = MessagesOf(f)
  /\ rpc \in {"wait", "done"} => finSent /\ hand = {}
  /\ rpc = "done" => \A f \in Files : writers[f] \notin {"open", "failed"}

\* A message that has been read and is not lost with a dataSender.
There(m) ==
  \/ m \in inboxes[m.file] \cup written[m.file] \cup hand
  \/ \E n \in 1..Len(remote) : remote[n] = m
  \/ \E d \in Senders : m \in senders[d].msg \/ senders[d].pc = "failed"

\* Message n of request r is still to be read.
Unread(r, n) ==
  \/ r \in todo
  \/ \E p \in 1..Len(readerCh[KindOf(r)]) : readerCh[KindOf(r)][p] = r
  \/ \E i \in Workers : /\ r \in readers[KindOf(r)][i].req
                        /\ readers[KindOf(r)][i].seq <= n

StreamInv ==
  spc \in {"send", "stop", "wait", "fin", "done"} =>
    \A r \in Reqs, n \in 0..Last : There(Message(r, n)) \/ Unread(r, n)

BoundInv ==
  /\ \A k \in Kinds : Len(readerCh[k]) <= ccIo
  /\ Len(remote) <= ccIo
  /\ \A f \in Files : IsFiniteSet(inboxes[f]) /\ Cardinality(inboxes[f]) <= InboxCap(f)

RunInv ==
  /\ Types
  /\ PoolInv /\ FinInv /\ PhaseInv
  /\ WireInv /\ HashInv /\ SumInv
  /\ WriterInv /\ StreamInv /\ BoundInv

-----------------------------------------------------------------------------
(* Which steps change what. *)

LEMMA PoolSteps ==
  ASSUME [Next]_vars
  PROVE  \/ UNCHANGED <<readerCh, readers>>
         \/ spawnReaders
         \/ \E r \in Requests(Files) : sendDataToReaders(r)
         \/ \E k \in Kinds : stopReaders(k)
         \/ \E k \in Kinds, i \in Workers :
              ReaderTake(k, i) \/ ReaderSend(k, i) \/ ReaderFails(k, i)
BY DEF Next, vars, SenderStep, SendList, ListTimeout, spawnReaders, sendDataToReaders,
   beginStop, stopReaders, stopped, waitReaders, SendFin, StopSender, waitSenders,
   ReaderStep, ReaderTake, ReaderSend, Posted, LoopStep, LoopList, LoopReceive,
   HashRequest, HashFin, Answer, notHashing, LoopData, LoopFin, LoopPut, LoopEnd,
   waitWriters, HashFile, WriterStep, WriterWrite, WriterDone, Failure, ListFails,
   FinTimeout, HashFails, ReaderFails, SenderFails, WriterFails, Sender,
   poolVars

LEMMA PlaceSteps ==
  ASSUME [Next]_vars
  PROVE  \/ UNCHANGED spc
         \/ SendList \/ ListTimeout \/ ListFails \/ spawnReaders \/ beginStop \/ stopped
         \/ waitReaders \/ SendFin \/ FinTimeout \/ waitSenders \/ Answer
BY DEF Next, vars, SenderStep, SendList, ListTimeout, spawnReaders, sendDataToReaders,
   beginStop, stopReaders, stopped, waitReaders, SendFin, StopSender, waitSenders,
   ReaderStep, ReaderTake, ReaderSend, Posted, LoopStep, LoopList, LoopReceive,
   HashRequest, HashFin, Answer, notHashing, LoopData, LoopFin, LoopPut, LoopEnd,
   waitWriters, HashFile, WriterStep, WriterWrite, WriterDone, Failure, ListFails,
   FinTimeout, HashFails, ReaderFails, SenderFails, WriterFails, Sender,
   senderVars

LEMMA FinSteps ==
  ASSUME [Next]_vars
  PROVE  \/ \A k \in Kinds : fins'[k] = fins[k]
         \/ beginStop \/ waitReaders
         \/ \E k \in Kinds : stopReaders(k)
         \/ \E d \in Senders : StopSender(d)
BY DEF Next, vars, SenderStep, SendList, ListTimeout, spawnReaders, sendDataToReaders,
   beginStop, stopReaders, stopped, waitReaders, SendFin, StopSender, waitSenders,
   ReaderStep, ReaderTake, ReaderSend, Posted, LoopStep, LoopList, LoopReceive,
   HashRequest, HashFin, Answer, notHashing, LoopData, LoopFin, LoopPut, LoopEnd,
   waitWriters, HashFile, WriterStep, WriterWrite, WriterDone, Failure, ListFails,
   FinTimeout, HashFails, ReaderFails, SenderFails, WriterFails, Sender,
   senderVars

LEMMA TodoSteps ==
  ASSUME [Next]_vars
  PROVE  UNCHANGED todo \/ spawnReaders \/ \E r \in Requests(Files) : sendDataToReaders(r)
BY DEF Next, vars, SenderStep, SendList, ListTimeout, spawnReaders, sendDataToReaders,
   beginStop, stopReaders, stopped, waitReaders, SendFin, StopSender, waitSenders,
   ReaderStep, ReaderTake, ReaderSend, Posted, LoopStep, LoopList, LoopReceive,
   HashRequest, HashFin, Answer, notHashing, LoopData, LoopFin, LoopPut, LoopEnd,
   waitWriters, HashFile, WriterStep, WriterWrite, WriterDone, Failure, ListFails,
   FinTimeout, HashFails, ReaderFails, SenderFails, WriterFails, Sender,
   senderVars

LEMMA RemoteSteps ==
  ASSUME [Next]_vars
  PROVE  \/ UNCHANGED remote
         \/ SendList \/ SendFin \/ LoopList \/ LoopData \/ LoopFin
         \/ \E k \in Kinds, i \in Workers : ReaderSend(k, i)
BY DEF Next, vars, SenderStep, SendList, ListTimeout, spawnReaders, sendDataToReaders,
   beginStop, stopReaders, stopped, waitReaders, SendFin, StopSender, waitSenders,
   ReaderStep, ReaderTake, ReaderSend, Posted, LoopStep, LoopList, LoopReceive,
   HashRequest, HashFin, Answer, notHashing, LoopData, LoopFin, LoopPut, LoopEnd,
   waitWriters, HashFile, WriterStep, WriterWrite, WriterDone, Failure, ListFails,
   FinTimeout, HashFails, ReaderFails, SenderFails, WriterFails, Sender,
   wireVars

LEMMA DataSenderSteps ==
  ASSUME [Next]_vars
  PROVE  \/ UNCHANGED senders
         \/ \E d \in Senders : StopSender(d) \/ Posted(d) \/ SenderFails(d)
         \/ \E k \in Kinds, i \in Workers : ReaderSend(k, i)
BY DEF Next, vars, SenderStep, SendList, ListTimeout, spawnReaders, sendDataToReaders,
   beginStop, stopReaders, stopped, waitReaders, SendFin, StopSender, waitSenders,
   ReaderStep, ReaderTake, ReaderSend, Posted, LoopStep, LoopList, LoopReceive,
   HashRequest, HashFin, Answer, notHashing, LoopData, LoopFin, LoopPut, LoopEnd,
   waitWriters, HashFile, WriterStep, WriterWrite, WriterDone, Failure, ListFails,
   FinTimeout, HashFails, ReaderFails, SenderFails, WriterFails, Sender,
   wireVars

LEMMA LoopSteps ==
  ASSUME [Next]_vars
  PROVE  \/ UNCHANGED <<rpc, hand, finSent>>
         \/ LoopList \/ Answer \/ LoopData \/ LoopFin \/ LoopPut \/ LoopEnd \/ waitWriters
BY DEF Next, vars, SenderStep, SendList, ListTimeout, spawnReaders, sendDataToReaders,
   beginStop, stopReaders, stopped, waitReaders, SendFin, StopSender, waitSenders,
   ReaderStep, ReaderTake, ReaderSend, Posted, LoopStep, LoopList, LoopReceive,
   HashRequest, HashFin, Answer, notHashing, LoopData, LoopFin, LoopPut, LoopEnd,
   waitWriters, HashFile, WriterStep, WriterWrite, WriterDone, Failure, ListFails,
   FinTimeout, HashFails, ReaderFails, SenderFails, WriterFails, Sender,
   loopVars

LEMMA HashSteps ==
  ASSUME [Next]_vars
  PROVE  \/ UNCHANGED <<hashers, toHash, unhashed>>
         \/ LoopList
         \/ \E i \in Workers : \/ \E f \in Files : HashRequest(i, f)
                               \/ HashFile(i) \/ HashFails(i) \/ HashFin(i)
BY DEF Next, vars, SenderStep, SendList, ListTimeout, spawnReaders, sendDataToReaders,
   beginStop, stopReaders, stopped, waitReaders, SendFin, StopSender, waitSenders,
   ReaderStep, ReaderTake, ReaderSend, Posted, LoopStep, LoopList, LoopReceive,
   HashRequest, HashFin, Answer, notHashing, LoopData, LoopFin, LoopPut, LoopEnd,
   waitWriters, HashFile, WriterStep, WriterWrite, WriterDone, Failure, ListFails,
   FinTimeout, HashFails, ReaderFails, SenderFails, WriterFails, Sender,
   loopVars, hashVars

LEMMA WriterSteps ==
  ASSUME [Next]_vars
  PROVE  \/ UNCHANGED <<inboxes, written, writers>>
         \/ LoopPut
         \/ \E d \in Senders : Posted(d)
         \/ \E f \in Files : WriterWrite(f) \/ WriterDone(f) \/ WriterFails(f)
BY DEF Next, vars, SenderStep, SendList, ListTimeout, spawnReaders, sendDataToReaders,
   beginStop, stopReaders, stopped, waitReaders, SendFin, StopSender, waitSenders,
   ReaderStep, ReaderTake, ReaderSend, Posted, LoopStep, LoopList, LoopReceive,
   HashRequest, HashFin, Answer, notHashing, LoopData, LoopFin, LoopPut, LoopEnd,
   waitWriters, HashFile, WriterStep, WriterWrite, WriterDone, Failure, ListFails,
   FinTimeout, HashFails, ReaderFails, SenderFails, WriterFails, Sender,
   writerVars

\* A channel with something more at its end.
LEMMA Appended ==
  ASSUME Types, NEW k \in Kinds, NEW x \in Reqs \cup {FIN},
         readerCh' = [readerCh EXCEPT ![k] = Append(@, x)]
  PROVE  /\ Len(readerCh'[k]) = Len(readerCh[k]) + 1
         /\ \A n \in 1..Len(readerCh[k]) : readerCh'[k][n] = readerCh[k][n]
         /\ readerCh'[k][Len(readerCh[k]) + 1] = x
         /\ \A j \in Kinds \ {k} : readerCh'[j] = readerCh[j]
BY AppendProperties DEF Types, PoolTypes

\* A channel from which a reader has taken the first element.
LEMMA Taken ==
  ASSUME Types, NEW k \in Kinds, NEW i \in Workers, ReaderTake(k, i)
  PROVE  /\ Len(readerCh[k]) \in Nat /\ Len(readerCh[k]) >= 1
         /\ Len(readerCh'[k]) = Len(readerCh[k]) - 1
         /\ \A n \in 1..Len(readerCh'[k]) : readerCh'[k][n] = readerCh[k][n + 1]
         /\ \A j \in Kinds \ {k} : readerCh'[j] = readerCh[j]
         /\ readers'[k][i] = IF readerCh[k][1] = FIN THEN Resting("stopped")
                             ELSE Reader("busy", {readerCh[k][1]}, 0)
         /\ readers[k][i].pc = "idle"
<1>1. readerCh[k] \in Seq(Reqs \cup {FIN}) /\ readerCh[k] # << >>
  BY DEF ReaderTake, Types, PoolTypes
<1>2. readerCh'[k] = Tail(readerCh[k]) /\ Head(readerCh[k]) = readerCh[k][1]
  BY <1>1 DEF ReaderTake, Types, PoolTypes
<1>3. Len(readerCh[k]) \in Nat /\ Len(readerCh[k]) >= 1
  BY <1>1
<1>4. \A j \in Kinds \ {k} : readerCh'[j] = readerCh[j]
  BY DEF ReaderTake, Types, PoolTypes
<1>5. readers'[k][i] = IF readerCh[k][1] = FIN THEN Resting("stopped")
                             ELSE Reader("busy", {readerCh[k][1]}, 0)
  BY <1>2 DEF ReaderTake, Types, PoolTypes
<1>6. /\ Len(readerCh'[k]) = Len(readerCh[k]) - 1
      /\ \A n \in 1..Len(readerCh'[k]) : readerCh'[k][n] = readerCh[k][n + 1]
  BY <1>1, <1>2, HeadTailProperties
<1>7. readers[k][i].pc = "idle"
  BY DEF ReaderTake
<1> QED
  BY <1>3, <1>4, <1>5, <1>6, <1>7

\* Only one reader moves.
LEMMA OneReader ==
  ASSUME Types, NEW k \in Kinds, NEW i \in Workers,
         ReaderTake(k, i) \/ ReaderSend(k, i) \/ ReaderFails(k, i)
  PROVE  \A j \in Kinds, l \in Workers :
           j # k \/ l # i => readers'[j][l] = readers[j][l]
BY DEF ReaderTake, ReaderSend, ReaderFails, Types, PoolTypes

\* A reader that sends has the next message of the same request, or none.
LEMMA ReaderMoves ==
  ASSUME Types, NEW k \in Kinds, NEW i \in Workers
  PROVE  /\ readers[k][i].pc \in ReaderPcs /\ readers[k][i].req \subseteq Reqs
         /\ readers[k][i].seq \in 0..Last
         /\ ReaderSend(k, i) =>
              /\ readerCh' = readerCh
              /\ readers'[k][i] = IF readers[k][i].seq = Last THEN Resting("idle")
                                  ELSE Reader("busy", readers[k][i].req, readers[k][i].seq + 1)
         /\ ReaderFails(k, i) =>
              /\ readerCh' = readerCh
              /\ readers'[k][i] = Reader("failed", readers[k][i].req, readers[k][i].seq)
<1>1. readers[k][i] \in [pc : ReaderPcs, req : SUBSET Reqs, seq : 0..Last]
  BY DEF Types, PoolTypes
<1>2. ASSUME ReaderSend(k, i)
      PROVE  readers'[k][i] = IF readers[k][i].seq = Last THEN Resting("idle")
                              ELSE Reader("busy", readers[k][i].req, readers[k][i].seq + 1)
  BY <1>2 DEF ReaderSend, Types, PoolTypes
<1>3. ASSUME ReaderFails(k, i)
      PROVE  readers'[k][i] = Reader("failed", readers[k][i].req, readers[k][i].seq)
  BY <1>3 DEF ReaderFails, Types, PoolTypes
<1> QED
  BY <1>1, <1>2, <1>3 DEF ReaderSend, ReaderFails

LEMMA SpawnedReaders ==
  ASSUME Types, spawnReaders
  PROVE  \A k \in Kinds, i \in Workers :
           \/ Spawned(k) /\ readers'[k][i] = Resting("idle")
           \/ ~Spawned(k) /\ readers'[k][i] = readers[k][i]
BY DEF spawnReaders, Types, PoolTypes

-----------------------------------------------------------------------------
(* Pools. *)

LEMMA PoolStep ==
  ASSUME RunInv, [Next]_vars
  PROVE  PoolInv'
<1> USE ListsStay
<1> USE DEF RunInv
<1> SUFFICES ASSUME NEW k \in Kinds
             PROVE  /\ \A n \in 1..Len(readerCh'[k]) :
                         readerCh'[k][n] # FIN => KindOf(readerCh'[k][n]) = k
                    /\ \A i \in Workers :
                         /\ readers'[k][i].pc \in {"none", "idle", "stopped"}
                              => readers'[k][i].req = {}
                         /\ \A q, r \in readers'[k][i].req : q = r
  BY DEF PoolInv
<1>1. CASE UNCHANGED <<readerCh, readers>>
  BY <1>1 DEF PoolInv
<1>2. CASE spawnReaders
  BY <1>2, SpawnedReaders DEF PoolInv, spawnReaders, Resting, Reader
<1>3. ASSUME NEW r \in Requests(Files), sendDataToReaders(r)
      PROVE  \A n \in 1..Len(readerCh'[k]) :
               readerCh'[k][n] # FIN => KindOf(readerCh'[k][n]) = k
  <2>1. r \in Reqs /\ KindOf(r) \in Kinds
    BY <1>3, Kinded DEF sendDataToReaders, Types, SenderTypes
  <2> QED
    BY <1>3, <2>1, Appended DEF PoolInv, sendDataToReaders, Types, PoolTypes
<1>4. ASSUME NEW j \in Kinds, stopReaders(j)
      PROVE  \A n \in 1..Len(readerCh'[k]) :
               readerCh'[k][n] # FIN => KindOf(readerCh'[k][n]) = k
  BY <1>4, Appended DEF PoolInv, stopReaders, Types, PoolTypes
<1>5. ASSUME NEW j \in Kinds, NEW i \in Workers, ReaderTake(j, i)
      PROVE  /\ \A n \in 1..Len(readerCh'[k]) :
                  readerCh'[k][n] # FIN => KindOf(readerCh'[k][n]) = k
             /\ \A l \in Workers :
                  /\ readers'[k][l].pc \in {"none", "idle", "stopped"}
                       => readers'[k][l].req = {}
                  /\ \A q, r \in readers'[k][l].req : q = r
  <2> USE <1>5
  <2>0. /\ Len(readerCh[j]) \in Nat /\ Len(readerCh'[j]) = Len(readerCh[j]) - 1
        /\ \A n \in 1..Len(readerCh'[j]) : readerCh'[j][n] = readerCh[j][n + 1]
        /\ \A l \in Kinds \ {j} : readerCh'[l] = readerCh[l]
        /\ readers'[j][i] = IF readerCh[j][1] = FIN THEN Resting("stopped")
                            ELSE Reader("busy", {readerCh[j][1]}, 0)
    BY Taken
  <2>1. ASSUME NEW n \in 1..Len(readerCh'[k]), readerCh'[k][n] # FIN
        PROVE  KindOf(readerCh'[k][n]) = k
    <3>1. CASE k = j
      <4>1. n + 1 \in 1..Len(readerCh[k]) /\ readerCh'[k][n] = readerCh[k][n + 1]
        BY <2>0, <3>1
      <4> QED
        BY <2>1, <4>1 DEF PoolInv
    <3>2. CASE k # j
      BY <2>0, <2>1, <3>2 DEF PoolInv
    <3> QED
      BY <3>1, <3>2
  <2>2. ASSUME NEW l \in Workers
        PROVE  /\ readers'[k][l].pc \in {"none", "idle", "stopped"} => readers'[k][l].req = {}
               /\ \A q, r \in readers'[k][l].req : q = r
    <3>1. CASE k = j /\ l = i
      BY <2>0, <3>1 DEF Resting, Reader
    <3>2. CASE k # j \/ l # i
      BY <1>5, <3>2, OneReader DEF PoolInv
    <3> QED
      BY <3>1, <3>2
  <2> QED
    BY <2>1, <2>2
<1>6. ASSUME NEW j \in Kinds, NEW i \in Workers, ReaderSend(j, i) \/ ReaderFails(j, i)
      PROVE  /\ readerCh' = readerCh
             /\ \A l \in Workers :
                  /\ readers'[k][l].pc \in {"none", "idle", "stopped"}
                       => readers'[k][l].req = {}
                  /\ \A q, r \in readers'[k][l].req : q = r
  <2>1. readerCh' = readerCh
    BY <1>6, ReaderMoves
  <2>2. ASSUME NEW l \in Workers
        PROVE  /\ readers'[k][l].pc \in {"none", "idle", "stopped"} => readers'[k][l].req = {}
               /\ \A q, r \in readers'[k][l].req : q = r
    <3>1. CASE k = j /\ l = i
      <4>1. \A q, r \in readers[k][i].req : q = r
        BY DEF PoolInv
      <4>2. CASE ReaderSend(j, i)
        <5>1. readers'[k][i] = IF readers[k][i].seq = Last THEN Resting("idle")
                               ELSE Reader("busy", readers[k][i].req, readers[k][i].seq + 1)
          BY <3>1, <4>2, ReaderMoves
        <5> QED
          BY <3>1, <4>1, <5>1 DEF Resting, Reader
      <4>3. CASE ReaderFails(j, i)
        <5>1. readers'[k][i] = Reader("failed", readers[k][i].req, readers[k][i].seq)
          BY <3>1, <4>3, ReaderMoves
        <5> QED
          BY <3>1, <4>1, <5>1 DEF Reader
      <4> QED
        BY <1>6, <4>2, <4>3
    <3>2. CASE k # j \/ l # i
      BY <1>6, <3>2, OneReader DEF PoolInv
    <3> QED
      BY <3>1, <3>2
  <2> QED
    BY <2>1, <2>2
<1>7. ASSUME UNCHANGED readers
      PROVE  \A l \in Workers :
               /\ readers'[k][l].pc \in {"none", "idle", "stopped"} => readers'[k][l].req = {}
               /\ \A q, r \in readers'[k][l].req : q = r
  BY <1>7 DEF PoolInv
<1> QED
  <2>1. CASE \E r \in Requests(Files) : sendDataToReaders(r)
    BY <1>3, <1>7, <2>1 DEF sendDataToReaders
  <2>2. CASE \E j \in Kinds : stopReaders(j)
    BY <1>4, <1>7, <2>2 DEF stopReaders
  <2>3. CASE \E j \in Kinds, i \in Workers : ReaderTake(j, i)
    BY <1>5, <2>3
  <2>4. CASE \E j \in Kinds, i \in Workers : ReaderSend(j, i) \/ ReaderFails(j, i)
    BY <1>6, <2>4 DEF PoolInv
  <2> QED
    BY <1>1, <1>2, <2>1, <2>2, <2>3, <2>4, PoolSteps

-----------------------------------------------------------------------------
(* FINs of the pools. *)

LEMMA StoppedFinite == \A k : IsFiniteSet(StoppedOf(k)) /\ Cardinality(StoppedOf(k)) \in Nat
BY RunAssumption, FS_Subset, FS_CardinalityType DEF StoppedOf

LEMMA StoppingStays ==
  ASSUME [Next]_vars, Stopping
  PROVE  Stopping'
BY PlaceSteps DEF Stopping, SendList, ListTimeout, ListFails, spawnReaders, beginStop, stopped,
   waitReaders, SendFin, FinTimeout, waitSenders, Answer, Sender

\* Before the stop there is no FIN anywhere.
LEMMA NoFins ==
  ASSUME Types, FinInv, NEW k \in Kinds, ~Stopping
  PROVE  /\ \A n \in 1..Len(readerCh[k]) : readerCh[k][n] # FIN
         /\ StoppedOf(k) = {} /\ fins[k] = 0
<1>1. fins[k] \in Nat /\ FinOf(k)
  BY DEF Types, SenderTypes, FinInv
<1> QED
  BY <1>1 DEF FinOf

LEMMA NoFinsFin ==
  ASSUME NEW k \in Kinds,
         \A n \in 1..Len(readerCh'[k]) : readerCh'[k][n] # FIN,
         StoppedOf(k)' = {}, fins'[k] = 0
  PROVE  FinOf(k)'
<1>1. Cardinality(StoppedOf(k)') = 0
  BY FS_EmptySet
<1> QED
  BY <1>1, Counts DEF FinOf

\* What leaves a pool's channel, its FINs and its stopped readers as they are.
LEMMA FinSame ==
  ASSUME RunInv, [Next]_vars, NEW k \in Kinds,
         readerCh'[k] = readerCh[k], StoppedOf(k)' = StoppedOf(k), fins'[k] = fins[k]
  PROVE  FinOf(k)'
<1>1. HasFiles(k)' = HasFiles(k)
  BY ListsStay DEF HasFiles, listVars
<1>2. FinOf(k) /\ (Stopping => Stopping')
  BY StoppingStays DEF RunInv, FinInv
<1>3. Cardinality(StoppedOf(k)') = Cardinality(StoppedOf(k))
  OBVIOUS
<1> QED
  BY <1>1, <1>2, <1>3 DEF FinOf

\* A FIN that a reader takes from a channel of l of them: the channel is one
\* shorter, the stopped readers are one more, and all still fit.
LEMMA OneFinTaken ==
  ASSUME NEW l \in Nat, NEW m \in Nat, NEW f \in Nat, NEW c \in Nat, NEW d \in Nat,
         NEW io \in Nat, m = l - 1, d = c + 1, l + f + c <= io
  PROVE  /\ f + d <= io
         /\ \A n \in 1..m : m - n + 1 + f + d <= io
OBVIOUS

\* A reader that takes a request or a FIN leaves no more FINs than fit.
LEMMA FinStepTake ==
  ASSUME RunInv, [Next]_vars, NEW k \in Kinds, NEW i \in Workers, ReaderTake(k, i)
  PROVE  FinOf(k)'
<1>0. /\ Len(readerCh[k]) \in Nat /\ Len(readerCh[k]) >= 1
      /\ Len(readerCh'[k]) = Len(readerCh[k]) - 1
      /\ \A n \in 1..Len(readerCh'[k]) : readerCh'[k][n] = readerCh[k][n + 1]
      /\ readers'[k][i] = IF readerCh[k][1] = FIN THEN Resting("stopped")
                          ELSE Reader("busy", {readerCh[k][1]}, 0)
      /\ readers[k][i].pc = "idle"
  BY Taken DEF RunInv
<1>1. fins'[k] = fins[k] /\ fins[k] \in Nat /\ UNCHANGED <<spc, diffList, missList>>
  BY DEF ReaderTake, senderVars, listVars, RunInv, Types, SenderTypes
<1>2. FinOf(k) /\ HasFiles(k)' = HasFiles(k) /\ Stopping' = Stopping
  BY <1>1 DEF RunInv, FinInv, HasFiles, Stopping
<1>3. CASE readerCh[k][1] = FIN
  <2>1. StoppedOf(k)' = StoppedOf(k) \cup {i} /\ i \notin StoppedOf(k)
    <3>1. readers'[k][i].pc = "stopped"
      BY <1>0, <1>3 DEF Resting, Reader
    <3>2. \A l \in Workers \ {i} : readers'[k][l] = readers[k][l]
      BY OneReader DEF RunInv
    <3> QED
      BY <1>0, <3>1, <3>2 DEF StoppedOf
  <2>2. Cardinality(StoppedOf(k)') = Cardinality(StoppedOf(k)) + 1
    BY <2>1, StoppedFinite, FS_AddElement
  <2>3. \A n \in 1..Len(readerCh[k]) : readerCh[k][n] = FIN
    BY <1>0, <1>2, <1>3 DEF FinOf
  <2>4. /\ Len(readerCh[k]) + fins[k] + Cardinality(StoppedOf(k)) <= ccIo
        /\ Stopping /\ HasFiles(k)
    BY <1>0, <1>1, <1>2, <1>3, StoppedFinite DEF FinOf
  <2>5. \A n \in 1..Len(readerCh'[k]) : readerCh'[k][n] = FIN
    BY <1>0, <2>3
  <2>6. Cardinality(StoppedOf(k)) \in Nat /\ ccIo \in Nat
    BY StoppedFinite, Counts
  <2>7. /\ fins[k] + Cardinality(StoppedOf(k)') <= ccIo
        /\ \A n \in 1..Len(readerCh'[k]) :
             Len(readerCh'[k]) - n + 1 + fins[k] + Cardinality(StoppedOf(k)') <= ccIo
    <3>1. /\ Len(readerCh[k]) \in Nat /\ fins[k] \in Nat /\ Len(readerCh'[k]) \in Nat
          /\ Len(readerCh'[k]) = Len(readerCh[k]) - 1
      BY <1>0, <1>1
    <3>2. Len(readerCh[k]) + fins[k] + Cardinality(StoppedOf(k)) <= ccIo
      BY <2>4
    <3>3. Cardinality(StoppedOf(k)') \in Nat
      BY <2>2, <2>6
    <3> QED
      BY <2>2, <2>6, <3>1, <3>2, <3>3, OneFinTaken
  <2>8. \A n \in 1..Len(readerCh'[k]) :
          \A p \in n..Len(readerCh'[k]) : readerCh'[k][p] = FIN
    BY <1>0, <2>5
  <2> QED
    BY <1>1, <1>2, <2>4, <2>5, <2>7, <2>8 DEF FinOf
<1>4. CASE readerCh[k][1] # FIN
  <2>1. StoppedOf(k)' = StoppedOf(k)
    <3>1. readers'[k][i].pc = "busy"
      BY <1>0, <1>4 DEF Reader
    <3>2. \A l \in Workers \ {i} : readers'[k][l] = readers[k][l]
      BY OneReader DEF RunInv
    <3> QED
      BY <1>0, <3>1, <3>2 DEF StoppedOf
  <2>2. StoppedOf(k) = {}
    BY <1>0, <1>2, <1>4 DEF FinOf
  <2>3. ASSUME NEW n \in 1..Len(readerCh'[k]), readerCh'[k][n] = FIN
        PROVE  /\ \A p \in n..Len(readerCh'[k]) : readerCh'[k][p] = FIN
               /\ Len(readerCh'[k]) - n + 1 + fins[k] + Cardinality(StoppedOf(k)) <= ccIo
               /\ Stopping /\ HasFiles(k)
    <3>1. n + 1 \in 1..Len(readerCh[k]) /\ readerCh[k][n + 1] = FIN
      BY <1>0, <2>3
    <3>2. /\ \A p \in (n + 1)..Len(readerCh[k]) : readerCh[k][p] = FIN
          /\ Len(readerCh[k]) - (n + 1) + 1 + fins[k] + Cardinality(StoppedOf(k)) <= ccIo
          /\ Stopping /\ HasFiles(k)
      BY <1>2, <3>1 DEF FinOf
    <3>3. ASSUME NEW p \in n..Len(readerCh'[k]) PROVE readerCh'[k][p] = FIN
      <4>1. p + 1 \in (n + 1)..Len(readerCh[k]) /\ p \in 1..Len(readerCh'[k])
        BY <1>0
      <4> QED
        BY <1>0, <3>2, <4>1
    <3> QED
      BY <1>0, <1>1, <3>2, <3>3, StoppedFinite, Counts
  <2> QED
    BY <1>1, <1>2, <2>1, <2>2, <2>3 DEF FinOf
<1> QED
  BY <1>3, <1>4

LEMMA FinStepStop ==
  ASSUME RunInv, [Next]_vars, NEW k \in Kinds, stopReaders(k)
  PROVE  FinOf(k)'
<1>1. /\ Len(readerCh'[k]) = Len(readerCh[k]) + 1
      /\ \A n \in 1..Len(readerCh[k]) : readerCh'[k][n] = readerCh[k][n]
      /\ readerCh'[k][Len(readerCh[k]) + 1] = FIN
  BY Appended DEF stopReaders, RunInv
<1>2. /\ fins[k] \in Nat /\ fins[k] > 0 /\ fins'[k] = fins[k] - 1 /\ spc = "stop"
      /\ UNCHANGED <<spc, diffList, missList, readers>>
      /\ Len(readerCh[k]) \in Nat
  BY DEF stopReaders, RunInv, Types, SenderTypes, PoolTypes, listVars
<1>3. /\ StoppedOf(k)' = StoppedOf(k) /\ HasFiles(k)' = HasFiles(k)
      /\ Stopping /\ Stopping' /\ HasFiles(k)
      /\ FinOf(k)
      /\ Cardinality(StoppedOf(k)) \in Nat /\ ccIo \in Nat
  BY <1>2, StoppedFinite, Counts DEF RunInv, FinInv, FinOf, StoppedOf, HasFiles, Stopping
<1>4. fins[k] + Cardinality(StoppedOf(k)) <= ccIo
  BY <1>3 DEF FinOf
<1>5. ASSUME NEW n \in 1..Len(readerCh'[k]), readerCh'[k][n] = FIN
      PROVE  /\ \A p \in n..Len(readerCh'[k]) : readerCh'[k][p] = FIN
             /\ Len(readerCh'[k]) - n + 1 + fins'[k] + Cardinality(StoppedOf(k)) <= ccIo
  <2>1. CASE n = Len(readerCh'[k])
    BY <1>1, <1>2, <1>3, <1>4, <2>1
  <2>2. CASE n # Len(readerCh'[k])
    <3>1. n \in 1..Len(readerCh[k]) /\ readerCh[k][n] = FIN
      BY <1>1, <1>2, <1>5, <2>2
    <3>2. /\ \A p \in n..Len(readerCh[k]) : readerCh[k][p] = FIN
          /\ Len(readerCh[k]) - n + 1 + fins[k] + Cardinality(StoppedOf(k)) <= ccIo
      BY <1>3, <3>1 DEF FinOf
    <3>3. ASSUME NEW p \in n..Len(readerCh'[k]) PROVE readerCh'[k][p] = FIN
      <4>1. CASE p = Len(readerCh[k]) + 1
        BY <1>1, <4>1
      <4>2. CASE p # Len(readerCh[k]) + 1
        <5>1. p \in n..Len(readerCh[k]) /\ p \in 1..Len(readerCh[k])
          BY <1>1, <1>2, <3>1, <4>2
        <5> QED
          BY <1>1, <3>2, <5>1
      <4> QED
        BY <4>1, <4>2
    <3>4. Len(readerCh'[k]) - n + 1 + fins'[k] + Cardinality(StoppedOf(k)) <= ccIo
      BY <1>1, <1>2, <1>3, <3>1, <3>2
    <3> QED
      BY <3>3, <3>4
  <2> QED
    BY <2>1, <2>2
<1>6. ASSUME StoppedOf(k) # {}, NEW n \in 1..Len(readerCh'[k])
      PROVE  readerCh'[k][n] = FIN
  <2>1. \A p \in 1..Len(readerCh[k]) : readerCh[k][p] = FIN
    BY <1>3, <1>6 DEF FinOf
  <2>2. n \in 1..Len(readerCh[k]) \/ n = Len(readerCh[k]) + 1
    BY <1>1, <1>2
  <2> QED
    BY <1>1, <2>1, <2>2
<1>7. fins'[k] + Cardinality(StoppedOf(k)) <= ccIo
  BY <1>2, <1>3, <1>4
<1> QED
  BY <1>3, <1>5, <1>6, <1>7 DEF FinOf

LEMMA FinStep ==
  ASSUME RunInv, [Next]_vars
  PROVE  FinInv'
<1> SUFFICES ASSUME NEW k \in Kinds PROVE FinOf(k)'
  BY DEF FinInv
<1> USE DEF RunInv
<1>1. CASE spawnReaders
  <2>1. ~Stopping /\ fins' = fins /\ readerCh' = readerCh
    BY <1>1 DEF spawnReaders, Sender, Stopping
  <2>2. StoppedOf(k)' = {}
    BY <1>1, <2>1, NoFins, SpawnedReaders DEF StoppedOf, Resting, Reader
  <2> QED
    BY <2>1, <2>2, NoFins, NoFinsFin
<1>2. ASSUME NEW r \in Requests(Files), sendDataToReaders(r) PROVE FinOf(k)'
  <2>1. ~Stopping /\ fins' = fins /\ readers' = readers /\ r \in Reqs /\ KindOf(r) \in Kinds
    BY <1>2, Kinded DEF sendDataToReaders, Stopping, Types, SenderTypes
  <2>2. \A n \in 1..Len(readerCh'[k]) : readerCh'[k][n] # FIN
    BY <1>2, <2>1, NoFins, Appended, Control DEF sendDataToReaders, Types, PoolTypes
  <2>3. StoppedOf(k)' = {}
    BY <2>1, NoFins DEF StoppedOf
  <2> QED
    BY <2>1, <2>2, <2>3, NoFins, NoFinsFin
<1>3. CASE beginStop
  <2>1. ~Stopping /\ Stopping' /\ UNCHANGED <<readerCh, readers, diffList, missList>>
    BY <1>3 DEF beginStop, Sender, Stopping, poolVars, listVars
  <2>2. fins'[k] = IF HasFiles(k) THEN ccIo ELSE 0
    BY <1>3 DEF beginStop, Types, SenderTypes, HasFiles, Kinds
  <2>3. StoppedOf(k)' = {} /\ Cardinality(StoppedOf(k)') = 0
    BY <2>1, NoFins, FS_EmptySet DEF StoppedOf
  <2>4. \A n \in 1..Len(readerCh'[k]) : readerCh'[k][n] # FIN
    BY <2>1, NoFins
  <2>5. HasFiles(k)' = HasFiles(k)
    BY <2>1 DEF HasFiles
  <2>6. /\ fins'[k] + Cardinality(StoppedOf(k)') <= ccIo
        /\ fins'[k] > 0 => HasFiles(k)
    BY <2>2, <2>3, Counts
  <2> QED
    BY <2>1, <2>3, <2>4, <2>5, <2>6 DEF FinOf
<1>4. ASSUME NEW j \in Kinds, stopReaders(j) PROVE FinOf(k)'
  <2>1. CASE j = k
    BY <1>4, <2>1, FinStepStop
  <2>2. CASE j # k
    <3>1. readerCh'[k] = readerCh[k] /\ readers' = readers /\ fins'[k] = fins[k]
      BY <1>4, <2>2 DEF stopReaders, Types, PoolTypes, SenderTypes
    <3>2. StoppedOf(k)' = StoppedOf(k)
      BY <3>1 DEF StoppedOf
    <3> QED
      BY <3>1, <3>2, FinSame
  <2> QED
    BY <2>1, <2>2
<1>5. ASSUME NEW j \in Kinds, NEW i \in Workers, ReaderTake(j, i) PROVE FinOf(k)'
  <2>1. CASE j = k
    BY <1>5, <2>1, FinStepTake
  <2>2. CASE j # k
    <3>1. readerCh'[k] = readerCh[k] /\ fins' = fins
      BY <1>5, <2>2 DEF ReaderTake, senderVars, Types, PoolTypes
    <3>2. \A l \in Workers : readers'[k][l] = readers[k][l]
      BY <1>5, <2>2, OneReader
    <3>3. StoppedOf(k)' = StoppedOf(k)
      BY <3>2 DEF StoppedOf
    <3> QED
      BY <3>1, <3>3, FinSame
  <2> QED
    BY <2>1, <2>2
<1>6. ASSUME NEW j \in Kinds, NEW i \in Workers, ReaderSend(j, i) \/ ReaderFails(j, i)
      PROVE  FinOf(k)'
  <2>1. readerCh' = readerCh /\ fins' = fins /\ readers[j][i].pc = "busy"
    BY <1>6 DEF ReaderSend, ReaderFails, senderVars
  <2>2. readers'[j][i].pc # "stopped"
    <3>1. CASE ReaderSend(j, i)
      <4>1. readers'[j][i] = IF readers[j][i].seq = Last THEN Resting("idle")
                             ELSE Reader("busy", readers[j][i].req, readers[j][i].seq + 1)
        BY <3>1, ReaderMoves
      <4> QED
        BY <4>1 DEF Resting, Reader
    <3>2. CASE ReaderFails(j, i)
      <4>1. readers'[j][i] = Reader("failed", readers[j][i].req, readers[j][i].seq)
        BY <3>2, ReaderMoves
      <4> QED
        BY <4>1 DEF Reader
    <3> QED
      BY <1>6, <3>1, <3>2
  <2>3. StoppedOf(k)' = StoppedOf(k)
    BY <1>6, <2>1, <2>2, OneReader DEF StoppedOf
  <2> QED
    BY <2>1, <2>3, FinSame
<1>7. CASE UNCHANGED <<readerCh, readers>> /\ fins'[k] = fins[k]
  <2>1. StoppedOf(k)' = StoppedOf(k)
    BY <1>7 DEF StoppedOf
  <2> QED
    BY <1>7, <2>1, FinSame
<1>8. CASE UNCHANGED <<readerCh, readers>> /\ ~beginStop /\ \A j \in Kinds : ~stopReaders(j)
  <2>1. fins'[k] = fins[k]
    BY <1>8, FinSteps DEF waitReaders, StopSender, Types, SenderTypes, Kinds
  <2> QED
    BY <1>7, <1>8, <2>1
<1> QED
  BY <1>1, <1>2, <1>3, <1>4, <1>5, <1>6, <1>8, PoolSteps

-----------------------------------------------------------------------------
(* What the place of the sender says of its pools. *)

LEMMA PlacesBefore ==
  ASSUME [Next]_vars
  PROVE  /\ spc' \in {"start", "list", "spawn"} => spc \in {"start", "list", "spawn"}
         /\ spc' \in {"send", "stop", "wait", "fin", "done"} =>
              spc \in {"send", "stop", "wait", "fin", "done"} \/ spawnReaders
         /\ spc' \in {"stop", "wait", "fin", "done"} =>
              spc \in {"stop", "wait", "fin", "done"} \/ beginStop
         /\ spc' \in {"fin", "done"} => spc \in {"fin", "done"} \/ waitReaders
         /\ spc' = "done" => spc = "done" \/ SendFin \/ waitSenders
BY PlaceSteps DEF SendList, ListTimeout, ListFails, spawnReaders, beginStop, stopped,
   waitReaders, SendFin, FinTimeout, waitSenders, Answer, Sender

\* When all readers of a pool that had files are stopped, nothing is left in its
\* channel.
LEMMA EmptyChannel ==
  ASSUME RunInv, spc # "failed", NEW k \in Kinds,
         spc \in {"send", "stop", "wait", "fin", "done"},
         \A i \in Workers : readers[k][i].pc \in {"none", "stopped"}
  PROVE  readerCh[k] = << >>
<1> USE DEF RunInv
<1>1. readerCh[k] \in Seq(Reqs \cup {FIN}) /\ Len(readerCh[k]) \in Nat
  BY DEF Types, PoolTypes
<1>2. SUFFICES ASSUME Len(readerCh[k]) >= 1 PROVE FALSE
  BY <1>1
<1>3. HasFiles(k)
  <2>1. CASE readerCh[k][1] = FIN
    BY <1>1, <1>2, <2>1 DEF FinInv, FinOf
  <2>2. CASE readerCh[k][1] # FIN
    <3>1. readerCh[k][1] \in Reqs /\ KindOf(readerCh[k][1]) = k
      BY <1>1, <1>2, <2>2 DEF PoolInv
    <3>2. readerCh[k][1].file \in Listed
      BY <3>1, RequestsAre DEF Reqs
    <3> QED
      BY <3>1, <3>2 DEF KindOf, HasFiles, Listed
  <2> QED
    BY <2>1, <2>2
<1>4. StoppedOf(k) = Workers
  BY <1>3 DEF PhaseInv, StoppedOf
<1>5. StoppedOf(k) # {} /\ Cardinality(StoppedOf(k)) = ccIo
  BY <1>4, RunAssumption DEF ccIo
<1>6. readerCh[k][1] = FIN
  BY <1>1, <1>2, <1>5 DEF FinInv, FinOf
<1>7. Len(readerCh[k]) - 1 + 1 + fins[k] + ccIo <= ccIo
  BY <1>1, <1>2, <1>5, <1>6 DEF FinInv, FinOf
<1> QED
  BY <1>1, <1>2, <1>7, Counts DEF Types, SenderTypes

LEMMA PhaseStep ==
  ASSUME RunInv, [Next]_vars
  PROVE  PhaseInv'
<1> USE DEF RunInv
<1>1. ASSUME spc' \in {"stop", "wait", "fin", "done"} PROVE todo' = {}
  <2>1. todo = {}
    BY <1>1, PlacesBefore DEF PhaseInv, beginStop
  <2>2. ~spawnReaders /\ \A r \in Requests(Files) : ~sendDataToReaders(r)
    BY <1>1, <2>1 DEF spawnReaders, Sender, sendDataToReaders
  <2> QED
    BY <2>1, <2>2, TodoSteps
<1>2. ASSUME NEW k \in Kinds, NEW i \in Workers, spc' \in {"start", "list", "spawn"}
      PROVE  readers'[k][i].pc = "none"
  <2>1. \A j \in Kinds, l \in Workers : readers[j][l].pc = "none"
    BY <1>2, PlacesBefore DEF PhaseInv
  <2>2. readers' = readers
    BY <1>2, <2>1, PoolSteps DEF spawnReaders, Sender, sendDataToReaders, stopReaders,
       ReaderTake, ReaderSend, ReaderFails
  <2> QED
    BY <2>1, <2>2
<1>3. ASSUME NEW k \in Kinds, NEW i \in Workers, HasFiles(k)',
             spc' \in {"send", "stop", "wait", "fin", "done"}
      PROVE  readers'[k][i].pc # "none"
  <2>1. HasFiles(k)
    BY <1>3, ListsStay DEF HasFiles, listVars
  <2>2. CASE spawnReaders
    <3>1. Spawned(k)
      BY <2>1 DEF HasFiles, Spawned, Kinds
    <3>2. readers'[k][i] = Resting("idle")
      BY <2>2, <3>1, SpawnedReaders
    <3> QED
      BY <3>2 DEF Resting, Reader
  <2>3. CASE ~spawnReaders
    <3>1. readers[k][i].pc # "none"
      BY <1>3, <2>1, <2>3, PlacesBefore DEF PhaseInv
    <3>2. ASSUME ReaderTake(k, i) PROVE readers'[k][i].pc # "none"
      <4>1. readers'[k][i] = IF readerCh[k][1] = FIN THEN Resting("stopped")
                             ELSE Reader("busy", {readerCh[k][1]}, 0)
        BY <3>2, Taken
      <4> QED
        BY <4>1 DEF Resting, Reader
    <3>3. ASSUME ReaderSend(k, i) PROVE readers'[k][i].pc # "none"
      <4>1. readers'[k][i] = IF readers[k][i].seq = Last THEN Resting("idle")
                             ELSE Reader("busy", readers[k][i].req, readers[k][i].seq + 1)
        BY <3>3, ReaderMoves
      <4> QED
        BY <4>1 DEF Resting, Reader
    <3>4. ASSUME ReaderFails(k, i) PROVE readers'[k][i].pc # "none"
      <4>1. readers'[k][i] = Reader("failed", readers[k][i].req, readers[k][i].seq)
        BY <3>4, ReaderMoves
      <4> QED
        BY <4>1 DEF Reader
    <3>5. \/ readers'[k][i] = readers[k][i]
          \/ ReaderTake(k, i) \/ ReaderSend(k, i) \/ ReaderFails(k, i)
      BY <2>3, PoolSteps, OneReader DEF sendDataToReaders, stopReaders
    <3> QED
      BY <3>1, <3>2, <3>3, <3>4, <3>5
  <2> QED
    BY <2>2, <2>3
<1>4. ASSUME NEW k \in Kinds, spc' \in {"fin", "done"}
      PROVE  /\ readerCh'[k] = << >>
             /\ \A i \in Workers : readers'[k][i].pc \in {"none", "stopped"}
  <2>1. CASE spc \in {"fin", "done"}
    <3>1. /\ \A j \in Kinds : readerCh[j] = << >>
          /\ \A j \in Kinds, i \in Workers : readers[j][i].pc \in {"none", "stopped"}
      BY <2>1 DEF PhaseInv
    <3>2. UNCHANGED <<readerCh, readers>>
      BY <2>1, <3>1, PoolSteps DEF spawnReaders, Sender, sendDataToReaders, stopReaders,
         ReaderTake, ReaderSend, ReaderFails
    <3> QED
      BY <3>1, <3>2
  <2>2. CASE waitReaders
    <3>1. spc = "wait" /\ UNCHANGED <<readerCh, readers>>
      BY <2>2 DEF waitReaders, poolVars
    <3>2. \A i \in Workers : readers[k][i].pc \in {"none", "stopped", "failed"}
      BY <2>2 DEF waitReaders, Kinds
    <3>3. \A i \in Workers : readers[k][i].pc # "failed"
      BY <1>4, <2>2 DEF waitReaders, Kinds
    <3> QED
      BY <3>1, <3>2, <3>3, EmptyChannel
  <2> QED
    BY <1>4, <2>1, <2>2, PlacesBefore
<1> QED
  BY <1>1, <1>2, <1>3, <1>4 DEF PhaseInv

-----------------------------------------------------------------------------
(* The wire. *)

LEMMA DoneStays ==
  ASSUME [Next]_vars
  PROVE  /\ spc = "done" => spc' = "done"
         /\ spc' = "start" => spc = "start"
         /\ spc = "failed" => spc' = "failed"
BY PlaceSteps DEF SendList, ListTimeout, ListFails, spawnReaders, beginStop, stopped,
   waitReaders, SendFin, FinTimeout, waitSenders, Answer, Sender

LEMMA WireSent ==
  ASSUME Types, NEW x \in Msgs \cup {FIN, INI}, remote' = Append(remote, x)
  PROVE  /\ Len(remote) \in Nat /\ Len(remote') = Len(remote) + 1
         /\ \A n \in 1..Len(remote) : remote'[n] = remote[n]
         /\ remote'[Len(remote) + 1] = x
BY AppendProperties DEF Types, WireTypes

LEMMA WireTaken ==
  ASSUME Types, NEW m, LoopReceive(m)
  PROVE  /\ Len(remote) \in Nat /\ Len(remote) >= 1 /\ remote[1] = m
         /\ remote' \in Seq(Msgs \cup {FIN, INI})
         /\ Len(remote') = Len(remote) - 1
         /\ \A n \in 1..Len(remote') : remote'[n] = remote[n + 1]
<1>1. remote \in Seq(Msgs \cup {FIN, INI}) /\ remote # << >>
  BY DEF LoopReceive, Types, WireTypes
<1>2. remote' = Tail(remote) /\ remote[1] = m
  BY <1>1 DEF LoopReceive
<1>3. Len(remote) \in Nat /\ Len(remote) >= 1
  BY <1>1
<1> QED
  BY <1>1, <1>2, <1>3, HeadTailProperties

LEMMA LoopTakes ==
  /\ LoopList => LoopReceive(INI)
  /\ LoopFin => LoopReceive(FIN)
  /\ LoopData => \E m \in Msgs : LoopReceive(m) /\ hand' = {m}
BY DEF LoopList, LoopFin, LoopData, Msgs

LEMMA ReaderSends ==
  ASSUME Types, NEW k \in Kinds, NEW i \in Workers, ReaderSend(k, i)
  PROVE  \E q \in readers[k][i].req :
           /\ Accept(Message(q, readers[k][i].seq))
           /\ Message(q, readers[k][i].seq) \in Msgs
BY ReaderMoves, MessageOfRequest DEF ReaderSend

LEMMA WireStep ==
  ASSUME RunInv, [Next]_vars
  PROVE  WireInv'
<1> USE DEF RunInv
<1>1. ASSUME Mode = "http"
      PROVE  /\ remote' = << >> /\ hand' = {} /\ rpc' = "loop" /\ ~finSent'
             /\ spc' # "start"
  <2>1. remote = << >> /\ hand = {} /\ rpc = "loop" /\ ~finSent /\ spc # "start"
    BY <1>1 DEF WireInv
  <2>2. remote' = remote
    BY <1>1, <2>1, RemoteSteps, ReaderSends DEF SendList, Sender, SendFin, LoopList, LoopData,
       LoopFin, LoopReceive, Accept
  <2>3. UNCHANGED <<rpc, hand, finSent>>
    BY <1>1, <2>1, LoopSteps DEF LoopList, Answer, LoopData, LoopFin, LoopPut, LoopEnd,
       waitWriters, LoopReceive, writtersDone
  <2> QED
    BY <2>1, <2>2, <2>3, DoneStays
<1>2. ASSUME Mode = "local", NEW d \in Senders
      PROVE  senders'[d].pc = "idle"
  <2>1. \A e \in Senders : senders[e].pc = "idle" /\ senders[e].msg = {}
    BY <1>2 DEF WireInv
  <2>2. senders' = senders
    BY <1>2, <2>1, DataSenderSteps, ReaderSends DEF StopSender, Posted, SenderFails, Accept
  <2> QED
    BY <2>1, <2>2
<1>3. ASSUME NEW d \in Senders
      PROVE  /\ senders'[d].pc # "posting" => senders'[d].msg = {}
             /\ \A m, q \in senders'[d].msg : m = q
  <2>1. CASE senders'[d] = senders[d]
    BY <2>1 DEF WireInv
  <2>2. ASSUME NEW e \in Senders, StopSender(e) \/ Posted(e) \/ SenderFails(e)
        PROVE  senders'[d] = senders[d] \/ senders'[d].msg = {}
    BY <2>2 DEF StopSender, Posted, SenderFails, DataSender, Types, WireTypes
  <2>3. ASSUME NEW k \in Kinds, NEW i \in Workers, ReaderSend(k, i)
        PROVE  \/ senders'[d] = senders[d]
               \/ senders'[d].pc = "posting" /\ \E m : senders'[d].msg = {m}
    <3>1. PICK m : Accept(m)
      BY <2>3, ReaderSends
    <3>2. CASE senders' = senders
      BY <3>2
    <3>3. ASSUME NEW e \in Senders,
                 senders' = [senders EXCEPT ![e] = DataSender("posting", {m})]
          PROVE  \/ senders'[d] = senders[d]
                 \/ senders'[d].pc = "posting" /\ senders'[d].msg = {m}
      <4>1. senders'[d] = senders[d] \/ senders'[d] = DataSender("posting", {m})
        BY <3>3 DEF Types, WireTypes
      <4> QED
        BY <4>1 DEF DataSender
    <3> QED
      BY <3>1, <3>2, <3>3 DEF Accept
  <2> QED
    BY <2>1, <2>2, <2>3, DataSenderSteps
<1>7. \A m, q \in hand' : m = q
  BY LoopSteps, LoopTakes DEF WireInv, LoopList, Answer, notHashing, LoopFin, LoopPut, LoopEnd,
     waitWriters
<1>4. ASSUME NEW n \in 1..Len(remote'), remote'[n] = FIN
      PROVE  n = Len(remote') /\ spc' = "done"
  <2>0. Len(remote) \in Nat
    BY DEF Types, WireTypes
  <2>1. CASE remote' = remote
    BY <1>4, <2>1, DoneStays DEF WireInv
  <2>2. CASE SendList
    <3>1. remote = << >> /\ remote' = Append(remote, INI)
      BY <2>2 DEF SendList, Sender, HashInv
    <3>2. Len(remote') = 1 /\ remote'[1] = INI
      BY <3>1
    <3> QED
      BY <1>4, <3>2, Control
  <2>3. CASE SendFin
    <3>1. /\ Len(remote') = Len(remote) + 1
          /\ \A p \in 1..Len(remote) : remote'[p] = remote[p]
      BY <2>3, WireSent DEF SendFin
    <3>2. spc = "fin" /\ spc' = "done"
      BY <2>3 DEF SendFin, Sender
    <3>3. n \notin 1..Len(remote)
      BY <1>4, <3>1, <3>2 DEF WireInv
    <3> QED
      BY <2>0, <3>1, <3>2, <3>3
  <2>4. ASSUME NEW m, LoopReceive(m)
        PROVE  n = Len(remote') /\ spc' = "done"
    <3>1. /\ Len(remote') = Len(remote) - 1
          /\ remote'[n] = remote[n + 1]
      BY <2>4, WireTaken
    <3>2. n + 1 \in 1..Len(remote)
      BY <2>0, <3>1
    <3>3. n + 1 = Len(remote) /\ spc = "done"
      BY <1>4, <3>1, <3>2 DEF WireInv
    <3> QED
      BY <2>0, <3>1, <3>3, DoneStays
  <2>5. ASSUME NEW k \in Kinds, NEW i \in Workers, ReaderSend(k, i)
        PROVE  n = Len(remote') /\ spc' = "done"
    <3>1. PICK m \in Msgs : Accept(m)
      BY <2>5, ReaderSends
    <3>2. spc # "done"
      BY <2>5 DEF ReaderSend, PhaseInv
    <3>3. CASE remote' = Append(remote, m)
      <4>1. /\ Len(remote') = Len(remote) + 1
            /\ \A p \in 1..Len(remote) : remote'[p] = remote[p]
            /\ remote'[Len(remote) + 1] = m
        BY <3>3, WireSent
      <4>2. n \in 1..Len(remote)
        BY <1>4, <2>0, <3>1, <4>1, Control
      <4> QED
        BY <1>4, <3>2, <4>1, <4>2 DEF WireInv
    <3> QED
      BY <2>1, <3>1, <3>3 DEF Accept
  <2> QED
    BY <2>1, <2>2, <2>3, <2>4, <2>5, RemoteSteps, LoopTakes
<1>5. ASSUME finSent'
      PROVE  remote' = << >> /\ hand' = {} /\ spc' = "done"
  <2>1. CASE finSent
    <3>1. remote = << >> /\ hand = {} /\ spc = "done"
      BY <2>1 DEF WireInv
    <3>2. \A k \in Kinds, i \in Workers : ~ReaderSend(k, i)
      BY <3>1 DEF PhaseInv, ReaderSend
    <3>3. remote' = << >>
      BY <3>1, <3>2, RemoteSteps, LoopTakes DEF SendList, Sender, SendFin, LoopReceive
    <3>4. hand' = {}
      BY <3>1, LoopSteps, LoopTakes DEF LoopReceive, LoopPut, LoopEnd, waitWriters, Answer, notHashing
    <3> QED
      BY <3>1, <3>3, <3>4, DoneStays
  <2>2. CASE LoopFin
    <3>1. LoopReceive(FIN)
      BY <2>2, LoopTakes
    <3>2. /\ Len(remote) \in Nat /\ Len(remote) >= 1 /\ remote[1] = FIN
          /\ remote' \in Seq(Msgs \cup {FIN, INI}) /\ Len(remote') = Len(remote) - 1
      BY <3>1, WireTaken
    <3>3. Len(remote) = 1 /\ spc = "done"
      BY <3>2 DEF WireInv
    <3>4. hand' = {}
      BY <2>2 DEF LoopFin, LoopReceive
    <3> QED
      BY <3>2, <3>3, <3>4, DoneStays
  <2> QED
    BY <1>5, <2>1, <2>2, LoopSteps DEF LoopList, Answer, notHashing, LoopData, LoopPut, LoopEnd,
       waitWriters
<1>6. ASSUME Mode = "http", spc' = "done", NEW d \in Senders
      PROVE  senders'[d].pc = "stopped"
  <2>1. CASE waitSenders
    BY <1>6, <2>1 DEF waitSenders, wireVars
  <2>2. CASE spc = "done"
    <3>1. \A e \in Senders : senders[e].pc = "stopped" /\ senders[e].msg = {}
      BY <1>6, <2>2 DEF WireInv
    <3>2. \A k \in Kinds, i \in Workers : ~ReaderSend(k, i)
      BY <2>2 DEF PhaseInv, ReaderSend
    <3>3. senders' = senders
      BY <2>2, <3>1, <3>2, DataSenderSteps DEF StopSender, Posted, SenderFails
    <3> QED
      BY <3>1, <3>3
  <2> QED
    BY <1>6, <2>1, <2>2, PlacesBefore DEF SendFin
<1> QED
  BY <1>1, <1>2, <1>3, <1>4, <1>5, <1>6, <1>7 DEF WireInv

-----------------------------------------------------------------------------
(* The list and its answer. *)

LEMMA SumStep ==
  ASSUME RunInv, [Next]_vars
  PROVE  SumInv'
<1> USE DEF RunInv
<1>1. CASE UNCHANGED <<hashers, toHash, unhashed>>
  BY <1>1 DEF SumInv
<1>2. CASE LoopList
  BY <1>2, <1>1 DEF SumInv, LoopList, Hasher, hashVars
<1>3. ASSUME NEW i \in Workers, NEW f \in Files, HashRequest(i, f) PROVE SumInv'
  <2>1. /\ toHash' = toHash \ {f} /\ unhashed' = unhashed /\ f \in toHash
        /\ hashers'[i] = Hasher("busy", {f}) /\ hashers[i].pc = "idle"
        /\ \A j \in Workers \ {i} : hashers'[j] = hashers[j]
    BY <1>3 DEF HashRequest, Types, HashTypes
  <2>2. hashers'[i].file = {f} /\ hashers'[i].pc = "busy" /\ hashers[i].file = {}
    BY <2>1 DEF Hasher, SumInv
  <2> QED
    BY <2>1, <2>2 DEF SumInv
<1>4. ASSUME NEW i \in Workers, HashFile(i) PROVE SumInv'
  <2>1. /\ toHash' = toHash /\ unhashed' = unhashed \ hashers[i].file
        /\ hashers'[i] = Hasher("idle", {})
        /\ \A j \in Workers \ {i} : hashers'[j] = hashers[j]
    BY <1>4 DEF HashFile, Types, HashTypes
  <2>2. hashers'[i].file = {}
    BY <2>1 DEF Hasher
  <2> QED
    BY <2>1, <2>2 DEF SumInv
<1>5. ASSUME NEW i \in Workers, HashFails(i) PROVE SumInv'
  <2>1. /\ toHash' = toHash /\ unhashed' = unhashed
        /\ hashers'[i] = Hasher("failed", hashers[i].file)
        /\ \A j \in Workers \ {i} : hashers'[j] = hashers[j]
    BY <1>5 DEF HashFails, Types, HashTypes
  <2>2. hashers'[i].file = hashers[i].file /\ hashers'[i].pc = "failed"
    BY <2>1 DEF Hasher
  <2> QED
    BY <2>1, <2>2 DEF SumInv
<1>6. ASSUME NEW i \in Workers, HashFin(i) PROVE SumInv'
  <2>1. /\ toHash' = toHash /\ unhashed' = unhashed
        /\ hashers'[i] = Hasher("stopped", {}) /\ hashers[i].pc = "idle"
        /\ \A j \in Workers \ {i} : hashers'[j] = hashers[j]
    BY <1>6 DEF HashFin, Types, HashTypes
  <2>2. hashers'[i].file = {} /\ hashers[i].file = {}
    BY <2>1 DEF Hasher, SumInv
  <2> QED
    BY <2>1, <2>2 DEF SumInv
<1> QED
  BY <1>1, <1>2, <1>3, <1>4, <1>5, <1>6, HashSteps

LEMMA HashStep ==
  ASSUME RunInv, [Next]_vars
  PROVE  HashInv'
<1> USE DEF RunInv
<1>1. ASSUME spc' = "start"
      PROVE  remote' = << >> /\ rpc' = "loop"
  <2>1. spc = "start" /\ remote = << >> /\ rpc = "loop" /\ ~finSent
    BY <1>1, DoneStays DEF HashInv, WireInv
  <2>2. \A k \in Kinds, i \in Workers : ~ReaderSend(k, i)
    BY <2>1 DEF PhaseInv, ReaderSend
  <2>3. remote' = remote
    BY <1>1, <2>1, <2>2, RemoteSteps, LoopTakes DEF SendList, SendFin, Sender, LoopReceive
  <2>4. rpc' = rpc
    BY <2>1, LoopSteps, LoopTakes DEF Answer, LoopPut, LoopEnd, waitWriters, writtersDone,
       LoopReceive
  <2> QED
    BY <2>1, <2>3, <2>4
<1>2. ASSUME NEW n \in 1..Len(remote'), remote'[n] = INI
      PROVE  /\ Len(remote') = 1 /\ rpc' = "loop" /\ spc' \in {"list", "failed"}
             /\ \A k \in Kinds, i \in Workers : readers'[k][i].pc = "none"
  <2>0. Len(remote) \in Nat
    BY DEF Types, WireTypes
  <2>1. CASE remote' = remote
    <3>1. /\ Len(remote) = 1 /\ rpc = "loop" /\ spc \in {"list", "failed"}
          /\ \A k \in Kinds, i \in Workers : readers[k][i].pc = "none"
      BY <1>2, <2>1 DEF HashInv
    <3>2. \A m : ~LoopReceive(m)
      BY <2>0, <2>1, <3>1, WireTaken
    <3>3. rpc' = rpc
      BY <3>1, <3>2, LoopSteps, LoopTakes DEF Answer, LoopPut, LoopEnd, waitWriters, writtersDone,
         WireInv
    <3>4. spc' \in {"list", "failed"}
      BY <3>1, PlaceSteps DEF SendList, ListTimeout, ListFails, spawnReaders, beginStop, stopped,
         waitReaders, SendFin, FinTimeout, waitSenders, Answer, Sender
    <3>5. readers' = readers
      BY <3>1, PoolSteps DEF spawnReaders, Sender, sendDataToReaders, stopReaders,
         ReaderTake, ReaderSend, ReaderFails
    <3> QED
      BY <2>1, <3>1, <3>3, <3>4, <3>5
  <2>2. CASE SendList
    <3>1. /\ spc = "start" /\ spc' = "list" /\ remote = << >> /\ rpc = "loop"
          /\ remote' = Append(remote, INI) /\ UNCHANGED <<readers, rpc>>
      BY <2>2 DEF SendList, Sender, HashInv, poolVars, loopVars
    <3>2. Len(remote') = 1
      BY <3>1
    <3> QED
      BY <3>1, <3>2 DEF PhaseInv
  <2>3. CASE SendFin
    <3>1. /\ Len(remote') = Len(remote) + 1
          /\ \A p \in 1..Len(remote) : remote'[p] = remote[p]
          /\ remote'[Len(remote) + 1] = FIN
      BY <2>3, WireSent DEF SendFin
    <3>2. spc = "fin"
      BY <2>3 DEF SendFin, Sender
    <3>3. n \notin 1..Len(remote)
      BY <1>2, <3>1, <3>2 DEF HashInv
    <3> QED
      BY <1>2, <2>0, <3>1, <3>3, Control
  <2>4. ASSUME NEW m, LoopReceive(m)
        PROVE  FALSE
    <3>1. Len(remote') = Len(remote) - 1 /\ remote'[n] = remote[n + 1]
      BY <2>4, WireTaken
    <3>2. n + 1 \in 1..Len(remote)
      BY <2>0, <3>1
    <3>3. Len(remote) = 1
      BY <1>2, <3>1, <3>2 DEF HashInv
    <3> QED
      BY <3>2, <3>3
  <2>5. ASSUME NEW k \in Kinds, NEW i \in Workers, ReaderSend(k, i), remote' # remote
        PROVE  FALSE
    <3>1. PICK m \in Msgs : Accept(m)
      BY <2>5, ReaderSends
    <3>2. readers[k][i].pc = "busy"
      BY <2>5 DEF ReaderSend
    <3>3. /\ Len(remote') = Len(remote) + 1
          /\ \A p \in 1..Len(remote) : remote'[p] = remote[p]
          /\ remote'[Len(remote) + 1] = m
      BY <2>5, <3>1, WireSent DEF Accept
    <3>4. n \in 1..Len(remote)
      BY <1>2, <2>0, <3>1, <3>3, Control
    <3> QED
      BY <1>2, <3>2, <3>3, <3>4 DEF HashInv
  <2> QED
    BY <2>1, <2>2, <2>3, <2>4, <2>5, RemoteSteps, LoopTakes
<1>3. ASSUME rpc' = "hash"
      PROVE  spc' \in {"list", "failed"}
  <2>1. CASE rpc = "hash"
    <3>1. spc \in {"list", "failed"} /\ ~Answer
      BY <1>3, <2>1 DEF HashInv, Answer
    <3> QED
      BY <3>1, PlaceSteps DEF SendList, ListTimeout, ListFails, spawnReaders, beginStop, stopped,
         waitReaders, SendFin, FinTimeout, waitSenders, Sender
  <2>2. CASE LoopList
    <3>1. Len(remote) >= 1 /\ Len(remote) \in Nat /\ remote[1] = INI
      BY <2>2, WireTaken, LoopTakes
    <3> QED
      BY <2>2, <3>1 DEF HashInv, LoopList
  <2> QED
    BY <1>3, <2>1, <2>2, LoopSteps DEF Answer, LoopData, LoopFin, LoopPut, LoopEnd, waitWriters
<1>4. ASSUME Mode = "local", spc' \notin {"start", "list", "failed"}
      PROVE  unhashed' = {}
  <2>1. CASE spc \notin {"start", "list", "failed"}
    <3>1. unhashed = {}
      BY <1>4, <2>1 DEF HashInv
    <3>2. ~LoopList
      <4>1. ASSUME LoopList PROVE Len(remote) >= 1 /\ Len(remote) \in Nat /\ remote[1] = INI
        BY <4>1, WireTaken, LoopTakes
      <4> QED
        BY <2>1, <4>1 DEF HashInv
    <3> QED
      BY <3>1, <3>2, HashSteps DEF HashRequest, HashFile, HashFails, HashFin
  <2>2. CASE Answer
    <3>1. /\ toHash = {} /\ unhashed' = unhashed
          /\ \A i \in Workers : hashers[i].pc \in {"stopped", "failed"}
      BY <2>2 DEF Answer, hashVars
    <3>2. \A i \in Workers : hashers[i].pc # "failed"
      BY <1>4, <2>2, <2>1, DoneStays DEF Answer, HashInv
    <3>3. \A i \in Workers : hashers[i].file = {}
      BY <3>1, <3>2 DEF SumInv
    <3> QED
      BY <3>1, <3>3 DEF SumInv
  <2> QED
    BY <1>4, <2>1, <2>2, PlaceSteps, RunAssumption DEF SendList, ListTimeout, ListFails, spawnReaders,
       beginStop, stopped, waitReaders, SendFin, FinTimeout, waitSenders, Sender
<1> QED
  BY <1>1, <1>2, <1>3, <1>4 DEF HashInv

-----------------------------------------------------------------------------
(* Writers. *)

LEMMA PutEffects ==
  ASSUME Types, NEW m \in Msgs, PutInbox(m)
  PROVE  /\ m.file \in Files
         /\ inboxes'[m.file] = inboxes[m.file] \cup {m}
         /\ writers'[m.file] = IF writers[m.file] = "none" THEN "open" ELSE writers[m.file]
         /\ \A f \in Files \ {m.file} : inboxes'[f] = inboxes[f] /\ writers'[f] = writers[f]
         /\ written' = written
<1>1. m.file \in Files
  BY Msgs1 DEF Types, ListTypes, Listed
<1> QED
  BY <1>1 DEF PutInbox, Types, WriterTypes

\* A message comes from the hand of the loop or from a dataSender.
LEMMA Puts ==
  ASSUME Types
  PROVE  /\ LoopPut => \E m \in Msgs : m \in hand /\ PutInbox(m)
         /\ \A d \in Senders :
              Posted(d) => \E m \in Msgs : m \in senders[d].msg /\ PutInbox(m)
BY DEF LoopPut, Posted, Types, LoopTypes, WireTypes

LEMMA WriterInvStep ==
  ASSUME RunInv, [Next]_vars
  PROVE  WriterInv'
<1> USE DEF RunInv
<1>0. ASSUME NEW f \in Files PROVE MessagesOf(f)' = MessagesOf(f)
  BY ListsStay
<1>1. ASSUME NEW f \in Files
      PROVE  /\ inboxes'[f] \cup written'[f] # {} => writers'[f] # "none"
             /\ writers'[f] = "done" => written'[f] = MessagesOf(f)'
  <2>1. /\ inboxes[f] \cup written[f] # {} => writers[f] # "none"
        /\ writers[f] = "done" => written[f] = MessagesOf(f)
    BY DEF WriterInv
  <2>2. CASE UNCHANGED <<inboxes, written, writers>>
    BY <1>0, <2>1, <2>2
  <2>3. ASSUME NEW m \in Msgs, PutInbox(m)
        PROVE  /\ inboxes'[f] \cup written'[f] # {} => writers'[f] # "none"
               /\ writers'[f] = "done" => written'[f] = MessagesOf(f)'
    BY <1>0, <2>1, <2>3, PutEffects
  <2>4. ASSUME NEW g \in Files, WriterWrite(g)
        PROVE  /\ inboxes'[f] \cup written'[f] # {} => writers'[f] # "none"
               /\ writers'[f] = "done" => written'[f] = MessagesOf(f)'
    BY <1>0, <2>1, <2>4 DEF WriterWrite, Types, WriterTypes
  <2>5. ASSUME NEW g \in Files, WriterDone(g) \/ WriterFails(g)
        PROVE  /\ inboxes'[f] \cup written'[f] # {} => writers'[f] # "none"
               /\ writers'[f] = "done" => written'[f] = MessagesOf(f)'
    BY <1>0, <2>1, <2>5 DEF WriterDone, WriterFails, Types, WriterTypes
  <2> QED
    BY <2>2, <2>3, <2>4, <2>5, WriterSteps, Puts
<1>2. ASSUME rpc' \in {"wait", "done"}
      PROVE  finSent' /\ hand' = {}
  BY <1>2, LoopSteps DEF WriterInv, LoopList, LoopReceive, Answer, LoopData, LoopFin, LoopPut, LoopEnd,
     waitWriters, writtersDone
<1>3. ASSUME rpc' = "done", NEW f \in Files
      PROVE  writers'[f] \notin {"open", "failed"}
  <2>1. CASE rpc = "done"
    <3>1. hand = {} /\ \A g \in Files : writers[g] \notin {"open", "failed"}
      BY <2>1 DEF WriterInv
    <3>2. \A d \in Senders : senders[d].msg = {}
      BY <2>1, RunAssumption DEF WireInv
    <3>3. writers' = writers
      BY <3>1, <3>2, WriterSteps DEF LoopPut, Posted, WriterWrite, WriterDone, WriterFails
    <3> QED
      BY <3>1, <3>3
  <2>2. CASE waitWriters
    BY <1>3, <2>2 DEF waitWriters, writerVars
  <2> QED
    BY <1>3, <2>1, <2>2, LoopSteps DEF LoopList, Answer, LoopData, LoopFin, LoopPut, LoopEnd
<1> QED
  BY <1>1, <1>2, <1>3 DEF WriterInv

LEMMA BoundStep ==
  ASSUME RunInv, [Next]_vars
  PROVE  BoundInv'
<1> USE DEF RunInv
<1>1. ASSUME NEW k \in Kinds PROVE Len(readerCh'[k]) <= ccIo
  <2>0. Len(readerCh[k]) \in Nat /\ Len(readerCh[k]) <= ccIo /\ ccIo \in Nat
    BY Counts DEF BoundInv, Types, PoolTypes
  <2>1. CASE readerCh'[k] = readerCh[k]
    BY <2>0, <2>1
  <2>2. ASSUME NEW r \in Requests(Files), sendDataToReaders(r)
        PROVE  Len(readerCh'[k]) <= ccIo
    <3>1. r \in Reqs /\ KindOf(r) \in Kinds /\ Len(readerCh[KindOf(r)]) < ccIo
      BY <2>2, Kinded DEF sendDataToReaders, Room, Types, SenderTypes
    <3>2. /\ Len(readerCh'[KindOf(r)]) = Len(readerCh[KindOf(r)]) + 1
          /\ \A j \in Kinds \ {KindOf(r)} : readerCh'[j] = readerCh[j]
      BY <2>2, <3>1, Appended DEF sendDataToReaders
    <3> QED
      BY <2>0, <3>1, <3>2
  <2>3. ASSUME NEW j \in Kinds, stopReaders(j)
        PROVE  Len(readerCh'[k]) <= ccIo
    <3>1. /\ Len(readerCh'[j]) = Len(readerCh[j]) + 1 /\ Len(readerCh[j]) < ccIo
          /\ \A l \in Kinds \ {j} : readerCh'[l] = readerCh[l]
      BY <2>3, Appended DEF stopReaders, Room
    <3> QED
      BY <2>0, <3>1
  <2>4. ASSUME NEW j \in Kinds, NEW i \in Workers, ReaderTake(j, i)
        PROVE  Len(readerCh'[k]) <= ccIo
    <3>1. /\ Len(readerCh'[j]) = Len(readerCh[j]) - 1
          /\ \A l \in Kinds \ {j} : readerCh'[l] = readerCh[l]
      BY <2>4, Taken
    <3> QED
      BY <2>0, <3>1
  <2> QED
    BY <2>1, <2>2, <2>3, <2>4, PoolSteps DEF spawnReaders, ReaderSend, ReaderFails
<1>2. Len(remote') <= ccIo
  <2>0. Len(remote) \in Nat /\ Len(remote) <= ccIo /\ ccIo \in Nat /\ ccIo >= 1
    BY Counts DEF BoundInv, Types, WireTypes
  <2>1. CASE SendList
    <3>1. remote = << >> /\ remote' = Append(remote, INI)
      BY <2>1 DEF SendList, Sender, HashInv
    <3> QED
      BY <2>0, <3>1
  <2>2. CASE SendFin
    BY <2>0, <2>2, WireSent DEF SendFin
  <2>3. ASSUME NEW m, LoopReceive(m) PROVE Len(remote') <= ccIo
    BY <2>0, <2>3, WireTaken
  <2>4. ASSUME NEW k \in Kinds, NEW i \in Workers, ReaderSend(k, i)
        PROVE  Len(remote') <= ccIo
    <3>1. PICK m \in Msgs : Accept(m)
      BY <2>4, ReaderSends
    <3> QED
      BY <2>0, <3>1, WireSent DEF Accept
  <2> QED
    BY <2>0, <2>1, <2>2, <2>3, <2>4, RemoteSteps, LoopTakes
<1>3. ASSUME NEW f \in Files
      PROVE  IsFiniteSet(inboxes'[f]) /\ Cardinality(inboxes'[f]) <= InboxCap(f)'
  <2>0. /\ IsFiniteSet(inboxes[f]) /\ Cardinality(inboxes[f]) <= InboxCap(f)
        /\ Cardinality(inboxes[f]) \in Nat
        /\ InboxCap(f) \in Nat /\ InboxCap(f)' = InboxCap(f)
    <3>1. diffList' = diffList
      BY ListsStay DEF listVars
    <3>2. Streams(f)' = Streams(f) /\ Streams(f) \in Nat
      BY <3>1, StreamCount DEF Streams
    <3> QED
      BY <3>2, FS_CardinalityType DEF BoundInv, InboxCap
  <2>1. CASE inboxes'[f] = inboxes[f]
    BY <2>0, <2>1
  <2>2. ASSUME NEW m \in Msgs, PutInbox(m)
        PROVE  IsFiniteSet(inboxes'[f]) /\ Cardinality(inboxes'[f]) <= InboxCap(f)
    <3>1. CASE f = m.file
      <4>1. inboxes'[f] = inboxes[f] \cup {m} /\ Cardinality(inboxes[f]) < InboxCap(f)
        BY <2>2, <3>1, PutEffects DEF PutInbox
      <4>2. /\ IsFiniteSet(inboxes[f] \cup {m})
            /\ Cardinality(inboxes[f] \cup {m}) \in
                 {Cardinality(inboxes[f]), Cardinality(inboxes[f]) + 1}
        BY <2>0, FS_AddElement
      <4> QED
        BY <2>0, <4>1, <4>2
    <3>2. CASE f # m.file
      BY <2>0, <2>2, <3>2, PutEffects
    <3> QED
      BY <3>1, <3>2
  <2>3. ASSUME NEW g \in Files, WriterWrite(g), inboxes'[f] # inboxes[f]
        PROVE  IsFiniteSet(inboxes'[f]) /\ Cardinality(inboxes'[f]) <= InboxCap(f)
    <3>1. PICK m : inboxes'[f] = inboxes[f] \ {m}
      BY <2>3 DEF WriterWrite, Types, WriterTypes
    <3>2. /\ IsFiniteSet(inboxes[f] \ {m})
          /\ Cardinality(inboxes[f] \ {m}) \in
               {Cardinality(inboxes[f]), Cardinality(inboxes[f]) - 1}
      BY <2>0, FS_RemoveElement
    <3> QED
      BY <2>0, <3>1, <3>2
  <2> QED
    BY <2>0, <2>1, <2>2, <2>3, WriterSteps, Puts DEF WriterDone, WriterFails
<1> QED
  BY <1>1, <1>2, <1>3 DEF BoundInv

-----------------------------------------------------------------------------
(* Streams. *)

\* What has been sent stays on its way.
LEMMA ThereStays ==
  ASSUME RunInv, [Next]_vars, NEW m \in Msgs, There(m)
  PROVE  There(m)'
<1> USE DEF RunInv
<1>1. m.file \in Files
  BY Msgs1 DEF Types, ListTypes, Listed
<1>2. CASE m \in inboxes[m.file] \cup written[m.file]
  <2>1. ASSUME NEW q \in Msgs, PutInbox(q)
        PROVE  m \in inboxes'[m.file] \cup written'[m.file]
    BY <1>1, <1>2, <2>1, PutEffects
  <2>2. ASSUME NEW f \in Files, WriterWrite(f)
        PROVE  m \in inboxes'[m.file] \cup written'[m.file]
    BY <1>1, <1>2, <2>2 DEF WriterWrite, Types, WriterTypes
  <2>3. m \in inboxes'[m.file] \cup written'[m.file]
    BY <1>2, <2>1, <2>2, WriterSteps, Puts DEF WriterDone, WriterFails
  <2> QED
    BY <2>3 DEF There
<1>3. CASE m \in hand
  <2>1. CASE LoopPut
    <3>1. PICK q \in Msgs : q \in hand /\ PutInbox(q)
      BY <2>1, Puts
    <3>2. q = m
      BY <1>3, <3>1 DEF WireInv
    <3>3. m \in inboxes'[m.file]
      BY <3>1, <3>2, PutEffects
    <3> QED
      BY <3>3 DEF There
  <2>2. CASE hand' = hand
    BY <1>3, <2>2 DEF There
  <2> QED
    BY <1>3, <2>1, <2>2, LoopSteps DEF LoopList, LoopReceive, Answer, notHashing, LoopData, LoopFin,
       LoopEnd, waitWriters
<1>4. ASSUME NEW n \in 1..Len(remote), remote[n] = m
      PROVE  There(m)'
  <2>0. Len(remote) \in Nat
    BY DEF Types, WireTypes
  <2>1. CASE remote' = remote
    BY <1>4, <2>1 DEF There
  <2>2. ASSUME NEW x \in Msgs \cup {FIN, INI}, remote' = Append(remote, x)
        PROVE  There(m)'
    <3>1. n \in 1..Len(remote') /\ remote'[n] = m
      BY <1>4, <2>0, <2>2, WireSent
    <3> QED
      BY <3>1 DEF There
  <2>3. ASSUME NEW q, LoopReceive(q), n # 1
        PROVE  There(m)'
    <3>1. /\ Len(remote') = Len(remote) - 1
          /\ \A p \in 1..Len(remote') : remote'[p] = remote[p + 1]
      BY <2>3, WireTaken
    <3>2. n - 1 \in 1..Len(remote') /\ remote'[n - 1] = m
      BY <1>4, <2>0, <2>3, <3>1
    <3> QED
      BY <3>2 DEF There
  <2>4. ASSUME LoopList \/ LoopFin \/ LoopData, n = 1
        PROVE  There(m)'
    <3>1. \A q : LoopReceive(q) => q = m
      BY <1>4, <2>4, WireTaken
    <3>2. hand' = {m}
      BY <2>4, <3>1, LoopTakes, Control
    <3> QED
      BY <3>2 DEF There
  <2>5. ASSUME NEW k \in Kinds, NEW i \in Workers, ReaderSend(k, i)
        PROVE  There(m)'
    BY <2>1, <2>2, <2>5, ReaderSends DEF Accept
  <2> QED
    BY <2>1, <2>2, <2>3, <2>4, <2>5, RemoteSteps, LoopTakes DEF SendList, SendFin
<1>5. ASSUME NEW d \in Senders, m \in senders[d].msg \/ senders[d].pc = "failed"
      PROVE  There(m)'
  <2>1. senders[d].pc \in {"posting", "failed"}
    BY <1>5 DEF WireInv, Types, WireTypes
  <2>2. CASE senders'[d] = senders[d]
    BY <1>5, <2>2 DEF There
  <2>3. ASSUME Posted(d) PROVE There(m)'
    <3>1. PICK q \in Msgs : q \in senders[d].msg /\ PutInbox(q)
      BY <2>3, Puts
    <3>2. q = m
      BY <1>5, <3>1 DEF WireInv
    <3>3. m \in inboxes'[m.file]
      BY <3>1, <3>2, PutEffects
    <3> QED
      BY <3>3 DEF There
  <2>4. ASSUME SenderFails(d) PROVE There(m)'
    <3>1. senders'[d] = DataSender("failed", {})
      BY <2>4 DEF SenderFails, Types, WireTypes
    <3>2. senders'[d].pc = "failed"
      BY <3>1 DEF DataSender
    <3> QED
      BY <3>2 DEF There
  <2>5. ASSUME NEW e \in Senders, e # d, StopSender(e) \/ Posted(e) \/ SenderFails(e)
        PROVE  senders'[d] = senders[d]
    BY <2>5 DEF StopSender, Posted, SenderFails, Types, WireTypes
  <2>6. ASSUME NEW k \in Kinds, NEW i \in Workers, ReaderSend(k, i)
        PROVE  senders'[d] = senders[d]
    BY <2>1, <2>6, ReaderSends DEF Accept, Types, WireTypes
  <2> QED
    BY <2>1, <2>2, <2>3, <2>4, <2>5, <2>6, DataSenderSteps DEF StopSender
<1> QED
  BY <1>2, <1>3, <1>4, <1>5 DEF There

\* What is accepted is on its way.
LEMMA Accepted ==
  ASSUME Types, NEW m \in Msgs, Accept(m)
  PROVE  There(m)'
<1>1. CASE remote' = Append(remote, m)
  <2>1. Len(remote) + 1 \in 1..Len(remote') /\ remote'[Len(remote) + 1] = m
    BY <1>1, WireSent
  <2> QED
    BY <2>1 DEF There
<1>2. ASSUME NEW d \in Senders, senders' = [senders EXCEPT ![d] = DataSender("posting", {m})]
      PROVE  There(m)'
  <2>1. senders'[d] = DataSender("posting", {m})
    BY <1>2 DEF Types, WireTypes
  <2>2. m \in senders'[d].msg
    BY <2>1 DEF DataSender
  <2> QED
    BY <2>2 DEF There
<1> QED
  BY <1>1, <1>2 DEF Accept

\* What is still to be read is waiting, or with its reader, or on its way.
LEMMA UnreadMoves ==
  ASSUME RunInv, [Next]_vars, spc # "spawn",
         NEW r \in Reqs, NEW n \in 0..Last, Unread(r, n)
  PROVE  There(Message(r, n))' \/ Unread(r, n)'
<1> DEFINE k == KindOf(r)
<1> USE DEF RunInv
<1>0. k \in Kinds /\ KindOf(r)' = k /\ ~spawnReaders
  BY Kinded, ListsStay DEF spawnReaders, Sender
<1> HIDE DEF k
<1>1. CASE r \in todo
  <2>1. CASE todo' = todo
    BY <1>1, <2>1 DEF Unread
  <2>2. ASSUME NEW q \in Requests(Files), sendDataToReaders(q)
        PROVE  Unread(r, n)'
    <3>1. CASE q = r
      <4>1. readerCh' = [readerCh EXCEPT ![k] = Append(@, r)]
        BY <2>2, <3>1 DEF sendDataToReaders, k
      <4>2. /\ Len(readerCh'[k]) = Len(readerCh[k]) + 1 /\ Len(readerCh[k]) \in Nat
            /\ readerCh'[k][Len(readerCh[k]) + 1] = r
        BY <1>0, <4>1, Appended DEF Types, PoolTypes
      <4>3. Len(readerCh[k]) + 1 \in 1..Len(readerCh'[k])
        BY <4>2
      <4> QED
        BY <1>0, <4>2, <4>3 DEF Unread
    <3>2. CASE q # r
      BY <1>1, <2>2, <3>2 DEF sendDataToReaders, Unread
    <3> QED
      BY <3>1, <3>2
  <2> QED
    BY <1>0, <2>1, <2>2, TodoSteps
<1>2. ASSUME NEW p \in 1..Len(readerCh[k]), readerCh[k][p] = r
      PROVE  Unread(r, n)'
  <2>0. Len(readerCh[k]) \in Nat
    BY <1>0 DEF Types, PoolTypes
  <2>1. CASE readerCh'[k] = readerCh[k]
    BY <1>0, <1>2, <2>1 DEF Unread
  <2>2. ASSUME NEW x \in Reqs \cup {FIN}, NEW j \in Kinds,
               readerCh' = [readerCh EXCEPT ![j] = Append(@, x)]
        PROVE  Unread(r, n)'
    <3>1. CASE j = k
      <4>1. /\ Len(readerCh'[k]) = Len(readerCh[k]) + 1
            /\ \A l \in 1..Len(readerCh[k]) : readerCh'[k][l] = readerCh[k][l]
        BY <2>2, <3>1, Appended
      <4>2. p \in 1..Len(readerCh'[k]) /\ readerCh'[k][p] = r
        BY <1>2, <2>0, <4>1
      <4> QED
        BY <1>0, <4>2 DEF Unread
    <3>2. CASE j # k
      BY <1>0, <2>1, <2>2, <3>2, Appended
    <3> QED
      BY <3>1, <3>2
  <2>3. ASSUME NEW i \in Workers, ReaderTake(k, i)
        PROVE  Unread(r, n)'
    <3>1. /\ Len(readerCh'[k]) = Len(readerCh[k]) - 1
          /\ \A l \in 1..Len(readerCh'[k]) : readerCh'[k][l] = readerCh[k][l + 1]
          /\ readers'[k][i] = IF readerCh[k][1] = FIN THEN Resting("stopped")
                              ELSE Reader("busy", {readerCh[k][1]}, 0)
      BY <1>0, <2>3, Taken
    <3>2. CASE p = 1
      <4>1. readers'[k][i] = Reader("busy", {r}, 0)
        BY <1>2, <3>1, <3>2, Control
      <4>2. r \in readers'[k][i].req /\ readers'[k][i].seq <= n
        BY <4>1 DEF Reader
      <4> QED
        BY <1>0, <4>2 DEF Unread
    <3>3. CASE p # 1
      <4>1. p - 1 \in 1..Len(readerCh'[k]) /\ readerCh'[k][p - 1] = r
        BY <1>2, <2>0, <3>1, <3>3
      <4> QED
        BY <1>0, <4>1 DEF Unread
    <3> QED
      BY <3>2, <3>3
  <2>4. ASSUME NEW j \in Kinds, NEW i \in Workers, ReaderTake(j, i), j # k
        PROVE  Unread(r, n)'
    BY <1>0, <2>1, <2>4, Taken
  <2>5. ASSUME NEW q \in Requests(Files), sendDataToReaders(q)
        PROVE  Unread(r, n)'
    BY <2>2, <2>5, Kinded DEF sendDataToReaders, Types, SenderTypes
  <2>6. ASSUME NEW j \in Kinds, stopReaders(j)
        PROVE  Unread(r, n)'
    BY <2>2, <2>6 DEF stopReaders
  <2> QED
    BY <1>0, <2>1, <2>3, <2>4, <2>5, <2>6, PoolSteps DEF ReaderSend, ReaderFails
<1>3. ASSUME NEW i \in Workers, r \in readers[k][i].req, readers[k][i].seq <= n
      PROVE  There(Message(r, n))' \/ Unread(r, n)'
  <2>1. readers[k][i].pc \notin {"none", "idle", "stopped"} /\ readers[k][i].seq \in 0..Last
    BY <1>0, <1>3, ReaderMoves DEF PoolInv
  <2>2. CASE readers'[k][i] = readers[k][i]
    BY <1>0, <1>3, <2>2 DEF Unread
  <2>3. ASSUME ReaderSend(k, i), readers[k][i].seq = n
        PROVE  There(Message(r, n))'
    <3>1. PICK q \in readers[k][i].req : /\ Accept(Message(q, readers[k][i].seq))
                                         /\ Message(q, readers[k][i].seq) \in Msgs
      BY <1>0, <2>3, ReaderSends
    <3>2. q = r
      BY <1>0, <1>3 DEF PoolInv
    <3> QED
      BY <2>3, <3>1, <3>2, Accepted
  <2>4. ASSUME ReaderSend(k, i), readers[k][i].seq # n
        PROVE  Unread(r, n)'
    <3>1. readers[k][i].seq # Last /\ readers[k][i].seq + 1 <= n
      BY <1>3, <2>1, <2>4
    <3>2. readers'[k][i] = Reader("busy", readers[k][i].req, readers[k][i].seq + 1)
      BY <1>0, <2>4, <3>1, ReaderMoves
    <3>3. r \in readers'[k][i].req /\ readers'[k][i].seq <= n
      BY <1>3, <3>1, <3>2 DEF Reader
    <3> QED
      BY <1>0, <3>3 DEF Unread
  <2>5. ASSUME ReaderFails(k, i) PROVE Unread(r, n)'
    <3>1. readers'[k][i] = Reader("failed", readers[k][i].req, readers[k][i].seq)
      BY <1>0, <2>5, ReaderMoves
    <3>2. r \in readers'[k][i].req /\ readers'[k][i].seq <= n
      BY <1>3, <3>1 DEF Reader
    <3> QED
      BY <1>0, <3>2 DEF Unread
  <2>6. ~ReaderTake(k, i)
    BY <2>1 DEF ReaderTake
  <2>7. ASSUME NEW j \in Kinds, NEW l \in Workers, j # k \/ l # i,
               ReaderTake(j, l) \/ ReaderSend(j, l) \/ ReaderFails(j, l)
        PROVE  readers'[k][i] = readers[k][i]
    BY <1>0, <2>7, OneReader
  <2> QED
    BY <1>0, <2>2, <2>3, <2>4, <2>5, <2>6, <2>7, PoolSteps DEF sendDataToReaders, stopReaders
<1> QED
  BY <1>1, <1>2, <1>3 DEF Unread, k

LEMMA StreamStep ==
  ASSUME RunInv, [Next]_vars
  PROVE  StreamInv'
<1> USE DEF RunInv
<1>1. SUFFICES ASSUME spc' \in {"send", "stop", "wait", "fin", "done"},
                      NEW r \in Reqs, NEW n \in 0..Last
               PROVE  There(Message(r, n))' \/ Unread(r, n)'
  BY ListsStay DEF StreamInv
<1>2. CASE spawnReaders
  <2>1. r \in todo'
    BY <1>2 DEF spawnReaders, Reqs
  <2> QED
    BY <2>1 DEF Unread
<1>3. CASE ~spawnReaders
  <2>1. spc \in {"send", "stop", "wait", "fin", "done"}
    BY <1>1, <1>3, PlacesBefore
  <2>2. There(Message(r, n)) \/ Unread(r, n)
    BY <2>1 DEF StreamInv
  <2>3. Message(r, n) \in Msgs
    BY MessageOfRequest
  <2> QED
    BY <2>1, <2>2, <2>3, ThereStays, UnreadMoves
<1> QED
  BY <1>2, <1>3

-----------------------------------------------------------------------------
(* The invariant. *)

LEMMA RunInvInit == Init => RunInv
<1> SUFFICES ASSUME Init PROVE RunInv
  OBVIOUS
<1>1. \A k \in Kinds : /\ readerCh[k] = << >> /\ Len(readerCh[k]) = 0 /\ fins[k] = 0
                       /\ \A i \in Workers : readers[k][i] = Resting("none")
  BY DEF Init
<1>2. \A k \in Kinds, i \in Workers : readers[k][i].pc = "none" /\ readers[k][i].req = {}
  BY <1>1 DEF Resting, Reader
<1>3. PoolInv
  BY <1>1, <1>2 DEF PoolInv
<1>4. FinInv
  <2>1. \A k \in Kinds : StoppedOf(k) = {} /\ Cardinality(StoppedOf(k)) = 0
    BY <1>2, FS_EmptySet DEF StoppedOf
  <2> QED
    BY <1>1, <2>1, Counts DEF FinInv, FinOf
<1>5. PhaseInv
  BY <1>2 DEF PhaseInv, Init
<1>6. Len(remote) = 0 /\ remote = << >>
  BY DEF Init
<1>7. \A d \in Senders : senders[d].pc = "idle" /\ senders[d].msg = {}
  BY DEF Init, DataSender
<1>8. WireInv
  BY <1>6, <1>7, RunAssumption DEF WireInv, Init
<1>9. HashInv
  BY <1>6 DEF HashInv, Init
<1>10. SumInv
  <2>1. \A i \in Workers : hashers[i].file = {}
    BY DEF Init, Hasher
  <2> QED
    BY <2>1 DEF SumInv, Init
<1>11. WriterInv
  BY DEF WriterInv, Init
<1>12. StreamInv
  BY DEF StreamInv, Init
<1>13. BoundInv
  <2>1. \A f \in Files : InboxCap(f) \in Nat /\ inboxes[f] = {}
    BY StreamCount DEF InboxCap, Init
  <2>2. IsFiniteSet({}) /\ Cardinality({}) = 0
    BY FS_EmptySet
  <2>3. \A k \in Kinds : Len(readerCh[k]) <= ccIo
    BY <1>1, Counts
  <2>4. Len(remote) <= ccIo
    BY <1>6, Counts
  <2>5. \A f \in Files : IsFiniteSet(inboxes[f]) /\ Cardinality(inboxes[f]) <= InboxCap(f)
    BY <2>1, <2>2
  <2> QED
    BY <2>3, <2>4, <2>5 DEF BoundInv
<1> QED
  BY <1>3, <1>4, <1>5, <1>8, <1>9, <1>10, <1>11, <1>12, <1>13, TypesInit DEF RunInv

LEMMA RunInvStep == RunInv /\ [Next]_vars => RunInv'
<1> SUFFICES ASSUME RunInv, [Next]_vars PROVE RunInv'
  OBVIOUS
<1>1. Types'
  BY TypesStep DEF RunInv
<1>2. PoolInv' /\ FinInv' /\ PhaseInv'
  BY PoolStep, FinStep, PhaseStep
<1>3. WireInv' /\ HashInv' /\ SumInv'
  BY WireStep, HashStep, SumStep
<1>4. WriterInv' /\ StreamInv' /\ BoundInv'
  BY WriterInvStep, StreamStep, BoundStep
<1> QED
  BY <1>1, <1>2, <1>3, <1>4 DEF RunInv

LEMMA RunInvHolds == Spec => []RunInv
BY RunInvInit, RunInvStep, PTL DEF Spec

-----------------------------------------------------------------------------
(* What it says. *)

\* Every variable holds a value of its kind, and no channel or inbox holds more
\* than it has room for.
THEOREM RunTyped == Spec => []TypeOK
<1>1. RunInv => TypeOK
  <2> SUFFICES ASSUME RunInv PROVE TypeOK
    OBVIOUS
  <2> USE DEF RunInv
  <2>1. spc \in SenderPcs /\ todo \subseteq Requests(Listed)
    BY DEF Types, SenderTypes, Reqs
  <2>2. \A k \in Kinds, i \in Workers : readers[k][i].pc \in ReaderPcs
    BY DEF Types, PoolTypes
  <2>3. \A i \in Workers : hashers[i].pc \in ReaderPcs
    BY DEF Types, HashTypes
  <2>4. toHash \subseteq unhashed
    BY DEF SumInv
  <2>5. \A f \in Files : /\ inboxes[f] \cup written[f] \subseteq MessagesOf(f)
                         /\ writers[f] \in {"none", "open", "done", "failed"}
    BY DEF Types, WriterTypes
  <2> QED
    BY <2>1, <2>2, <2>3, <2>4, <2>5 DEF TypeOK, BoundInv, SenderPcs, ReaderPcs
<1> QED
  BY <1>1, RunInvHolds, PTL

\* When the sender has ended, every message of every file has left it.
LEMMA AllThere ==
  ASSUME RunInv, spc = "done", NEW f \in Listed, NEW m \in MessagesOf(f)
  PROVE  There(m) /\ m.file = f /\ f \in Files
<1> USE DEF RunInv
<1>1. PICK r \in Requests({f}), n \in 0..Last : m = Message(r, n)
  BY DEF MessagesOf
<1>2. r \in Reqs /\ KindOf(r) \in Kinds
  BY RequestsAre, Kinded DEF Reqs
<1>3. todo = {} /\ readerCh[KindOf(r)] = << >>
  BY <1>2 DEF PhaseInv
<1>4. \A i \in Workers : readers[KindOf(r)][i].req = {}
  BY <1>2 DEF PhaseInv, PoolInv
<1>5. ~Unread(r, n)
  BY <1>3, <1>4 DEF Unread
<1> QED
  BY <1>1, <1>2, <1>5, MessageFile DEF StreamInv, Types, ListTypes, Listed

\* In local mode the receiver has an answer only when every file that differs
\* has its sums, and ends well only when every file of the lists has been written
\* to its end (LocalReceiver.Start): nothing that was read is lost on the way.
THEOREM RunReceives == Spec => []ReceiverComplete
<1>1. RunInv => ReceiverComplete
  <2> SUFFICES ASSUME RunInv, Mode = "local"
               PROVE  /\ spc \notin {"start", "list", "failed"} => diffList \cap unhashed = {}
                      /\ rpc = "done" =>
                           /\ spc = "done"
                           /\ \A f \in Listed : writers[f] = "done" /\ written[f] = MessagesOf(f)
    BY DEF ReceiverComplete
  <2> USE DEF RunInv
  <2>1. spc \notin {"start", "list", "failed"} => diffList \cap unhashed = {}
    BY DEF HashInv
  <2>2. ASSUME rpc = "done" PROVE spc = "done" /\ remote = << >> /\ hand = {}
    BY <2>2 DEF WriterInv, WireInv
  <2>3. ASSUME rpc = "done", NEW f \in Listed
        PROVE  writers[f] = "done" /\ written[f] = MessagesOf(f)
    <3>1. f \in Files
      BY DEF Types, ListTypes, Listed
    <3>2. ASSUME NEW m \in MessagesOf(f) PROVE m \in inboxes[f] \cup written[f]
      BY <2>2, <2>3, AllThere DEF There, WireInv
    <3>3. MessagesOf(f) # {}
      <4>1. [file |-> f, chunk |-> 0] \in Requests({f})
        BY RequestsAre, StreamCount
      <4>2. 0 \in 0..Last
        BY RunAssumption
      <4> QED
        BY <4>1, <4>2 DEF MessagesOf
    <3>4. writers[f] \notin {"none", "open", "failed"}
      BY <2>3, <3>1, <3>2, <3>3 DEF WriterInv
    <3>5. writers[f] = "done"
      BY <3>1, <3>4 DEF Types, WriterTypes
    <3> QED
      BY <3>1, <3>5 DEF WriterInv
  <2> QED
    BY <2>1, <2>2, <2>3
<1> QED
  BY <1>1, RunInvHolds, PTL

\* A sender that ends well has left nothing behind, in either mode: no request
\* and no FIN in a pool's channel, and each message with its writer or, in local
\* mode, before the FIN on its way there (Start of workers/sender.go).
THEOREM RunDelivers == Spec => []Delivered
<1>1. RunInv => Delivered
  <2> SUFFICES ASSUME RunInv, spc = "done"
               PROVE  /\ \A k \in Kinds : readerCh[k] = << >>
                      /\ \A f \in Listed : \A m \in MessagesOf(f) :
                           \/ m \in inboxes[f] \cup written[f]
                           \/ /\ Mode = "local" /\ ~finSent
                              /\ m \in hand \/ \E n \in DOMAIN remote : remote[n] = m
    BY DEF Delivered
  <2> USE DEF RunInv
  <2>1. \A k \in Kinds : readerCh[k] = << >>
    BY DEF PhaseInv
  <2>2. ASSUME NEW f \in Listed, NEW m \in MessagesOf(f), m \notin inboxes[f] \cup written[f]
        PROVE  /\ Mode = "local" /\ ~finSent
               /\ m \in hand \/ \E n \in DOMAIN remote : remote[n] = m
    <3>1. There(m) /\ m.file = f
      BY AllThere
    <3>2. \A d \in Senders : senders[d].msg = {} /\ senders[d].pc # "failed"
      BY RunAssumption DEF WireInv
    <3>3. m \in hand \/ \E n \in 1..Len(remote) : remote[n] = m
      BY <2>2, <3>1, <3>2 DEF There
    <3>4. Mode = "local"
      BY <3>3, RunAssumption DEF WireInv
    <3>5. ~finSent
      BY <3>3 DEF WireInv
    <3>6. DOMAIN remote = 1..Len(remote)
      BY DEF Types, WireTypes
    <3> QED
      BY <3>3, <3>4, <3>5, <3>6
  <2> QED
    BY <2>1, <2>2
<1> QED
  BY <1>1, RunInvHolds, PTL

-----------------------------------------------------------------------------
(* What is read and on its way, counted; unlike StreamInv also after the sender *)
(* has failed. *)

OnWire(m) == \E n \in 1..Len(remote) : remote[n] = m

Posting(m) == \E d \in Senders : m \in senders[d].msg

Placed(m) ==
  OnWire(m) \/ Posting(m) \/ m \in hand \cup inboxes[m.file] \cup written[m.file]

\* A message is in one place.
Alone(m) ==
  /\ \A n, p \in 1..Len(remote) : remote[n] = m /\ remote[p] = m => n = p
  /\ \A d, e \in Senders : m \in senders[d].msg /\ m \in senders[e].msg => d = e
  /\ OnWire(m) => m \notin hand
  /\ OnWire(m) \/ m \in hand => ~Posting(m)
  /\ OnWire(m) \/ Posting(m) \/ m \in hand => m \notin inboxes[m.file] \cup written[m.file]
  /\ m \notin inboxes[m.file] \cap written[m.file]

InChannel(r) == \E n \in 1..Len(readerCh[KindOf(r)]) : readerCh[KindOf(r)][n] = r

\* A request is in one place: with the sender, in its pool's channel or with a
\* reader of its pool.
OneAt(r) ==
  /\ \A n, p \in 1..Len(readerCh[KindOf(r)]) :
       readerCh[KindOf(r)][n] = r /\ readerCh[KindOf(r)][p] = r => n = p
  /\ \A i, j \in Holders(r) : i = j
  /\ r \in todo => ~InChannel(r)
  /\ r \in todo \/ InChannel(r) => Holders(r) = {}
  /\ \A k \in Kinds, i \in Workers : r \in readers[k][i].req => k = KindOf(r)

\* Before the readers are spawned there is nothing anywhere.
EarlyInv ==
  spc \in {"start", "list", "spawn"} =>
    /\ \A k \in Kinds : readerCh[k] = << >>
    /\ \A m \in Msgs : ~Placed(m)

RequestsInv == \A r \in Reqs : OneAt(r)

MessagesInv == \A m \in Msgs : Alone(m)

\* What is on its way has been sent, and what has not been sent is to be read.
SentInv ==
  \A r \in Reqs, n \in 0..Last :
    /\ Placed(Message(r, n)) => Sent(r, n)
    /\ Begun => There(Message(r, n)) \/ Unread(r, n)

CountInv == RunInv /\ EarlyInv /\ RequestsInv /\ MessagesInv /\ SentInv

-----------------------------------------------------------------------------
(* Messages. *)

\* Which steps move messages.
LEMMA MessageSteps ==
  ASSUME [Next]_vars
  PROVE  \/ UNCHANGED <<remote, senders, hand, inboxes, written>>
         \/ SendList \/ SendFin \/ LoopList \/ LoopFin \/ LoopData \/ LoopPut
         \/ \E k \in Kinds, i \in Workers : ReaderSend(k, i)
         \/ \E d \in Senders : StopSender(d) \/ Posted(d) \/ SenderFails(d)
         \/ \E f \in Files : WriterWrite(f)
<1>1. CASE remote' # remote
  BY <1>1, RemoteSteps
<1>2. CASE senders' # senders
  BY <1>2, DataSenderSteps
<1>3. CASE hand' # hand
  BY <1>3, LoopSteps DEF Answer, notHashing, LoopEnd, waitWriters
<1>4. CASE inboxes' # inboxes \/ written' # written
  BY <1>4, WriterSteps DEF WriterDone, WriterFails
<1> QED
  BY <1>1, <1>2, <1>3, <1>4

\* Different requests have different messages.
LEMMA MessageOne ==
  ASSUME NEW r \in Reqs, NEW q \in Reqs, NEW n, NEW l, Message(r, n) = Message(q, l)
  PROVE  r = q /\ n = l
<1>1. r \in [file : Listed, chunk : Nat] /\ q \in [file : Listed, chunk : Nat]
  BY RequestsAre DEF Reqs
<1>2. Message(r, n).file = r.file /\ Message(r, n).chunk = r.chunk /\ Message(r, n).seq = n
  BY DEF Message
<1>3. Message(q, l).file = q.file /\ Message(q, l).chunk = q.chunk /\ Message(q, l).seq = l
  BY DEF Message
<1> QED
  BY <1>1, <1>2, <1>3

\* Something else at the end of the wire.
LEMMA WireGrows ==
  ASSUME Types, NEW x \in Msgs \cup {FIN, INI}, remote' = Append(remote, x), NEW m,
         \A n, p \in 1..Len(remote) : remote[n] = m /\ remote[p] = m => n = p,
         x = m => ~OnWire(m)
  PROVE  /\ \A n, p \in 1..Len(remote') : remote'[n] = m /\ remote'[p] = m => n = p
         /\ OnWire(m)' <=> OnWire(m) \/ x = m
<1>0. /\ Len(remote) \in Nat /\ Len(remote') = Len(remote) + 1
      /\ \A n \in 1..Len(remote) : remote'[n] = remote[n]
      /\ remote'[Len(remote) + 1] = x
  BY WireSent
<1>1. \A n \in 1..Len(remote') : n \in 1..Len(remote) \/ n = Len(remote) + 1
  BY <1>0
<1>2. \A n \in 1..Len(remote) : n \in 1..Len(remote')
  BY <1>0
<1>3. Len(remote) + 1 \in 1..Len(remote')
  BY <1>0
<1>4. ASSUME NEW n \in 1..Len(remote'), NEW p \in 1..Len(remote'),
             remote'[n] = m, remote'[p] = m
      PROVE  n = p
  BY <1>0, <1>1, <1>4 DEF OnWire
<1>5. OnWire(m)' => OnWire(m) \/ x = m
  BY <1>0, <1>1 DEF OnWire
<1>6. OnWire(m) \/ x = m => OnWire(m)'
  BY <1>0, <1>2, <1>3 DEF OnWire
<1> QED
  BY <1>4, <1>5, <1>6

\* The head of the wire is taken.
LEMMA WireShrinks ==
  ASSUME Types, NEW q, LoopReceive(q), NEW m,
         \A n, p \in 1..Len(remote) : remote[n] = m /\ remote[p] = m => n = p
  PROVE  /\ \A n, p \in 1..Len(remote') : remote'[n] = m /\ remote'[p] = m => n = p
         /\ OnWire(m)' <=> OnWire(m) /\ q # m
         /\ q = m => OnWire(m)
<1>0. /\ Len(remote) \in Nat /\ Len(remote) >= 1 /\ remote[1] = q
      /\ Len(remote') = Len(remote) - 1
      /\ \A n \in 1..Len(remote') : remote'[n] = remote[n + 1]
  BY WireTaken
<1>1. \A n \in 1..Len(remote') : n + 1 \in 1..Len(remote) /\ n + 1 # 1
  BY <1>0
<1>2. ASSUME NEW n \in 1..Len(remote'), NEW p \in 1..Len(remote'),
             remote'[n] = m, remote'[p] = m
      PROVE  n = p
  <2>1. n + 1 = p + 1
    BY <1>0, <1>1, <1>2
  <2> QED
    BY <2>1
<1>3. 1 \in 1..Len(remote)
  BY <1>0
<1>4. OnWire(m)' => OnWire(m) /\ q # m
  <2> SUFFICES ASSUME NEW n \in 1..Len(remote'), remote'[n] = m
               PROVE  OnWire(m) /\ q # m
    BY DEF OnWire
  <2>1. remote[n + 1] = m
    BY <1>0
  <2> QED
    BY <1>0, <1>1, <1>3, <2>1 DEF OnWire
<1>5. OnWire(m) /\ q # m => OnWire(m)'
  <2> SUFFICES ASSUME NEW n \in 1..Len(remote), remote[n] = m, q # m
               PROVE  OnWire(m)'
    BY DEF OnWire
  <2>1. n # 1
    BY <1>0
  <2>2. n - 1 \in 1..Len(remote') /\ remote'[n - 1] = m
    BY <1>0, <2>1
  <2> QED
    BY <2>2 DEF OnWire
<1>6. q = m => OnWire(m)
  BY <1>0, <1>3 DEF OnWire
<1> QED
  BY <1>2, <1>4, <1>5, <1>6

\* Nothing moves.
LEMMA AloneSame ==
  ASSUME NEW m, Alone(m), OnWire(m)' <=> OnWire(m),
         \A n, p \in 1..Len(remote') : remote'[n] = m /\ remote'[p] = m => n = p,
         UNCHANGED <<senders, hand, inboxes, written>>
  PROVE  Alone(m)' /\ (Placed(m)' => Placed(m))
<1>1. /\ Posting(m)' <=> Posting(m)
      /\ m \in hand' <=> m \in hand
      /\ inboxes'[m.file] = inboxes[m.file] /\ written'[m.file] = written[m.file]
  BY DEF Posting
<1>2. \A d, e \in Senders : m \in senders'[d].msg /\ m \in senders'[e].msg => d = e
  BY DEF Alone
<1> QED
  BY <1>1, <1>2 DEF Alone, Placed

\* A reader's message is taken by the channel or by a dataSender.
LEMMA AloneAccept ==
  ASSUME RunInv, NEW m \in Msgs, Alone(m), NEW x \in Msgs, Accept(x),
         UNCHANGED <<hand, inboxes, written>>,
         x = m => ~Placed(m)
  PROVE  Alone(m)' /\ (Placed(m)' => Placed(m) \/ x = m)
<1> USE DEF RunInv
<1>1. CASE remote' = Append(remote, x) /\ UNCHANGED senders
  <2>1. /\ \A n, p \in 1..Len(remote') : remote'[n] = m /\ remote'[p] = m => n = p
        /\ OnWire(m)' <=> OnWire(m) \/ x = m
    BY <1>1, WireGrows DEF Alone, Placed
  <2>2. CASE x = m
    <3>1. Posting(m)' <=> Posting(m)
      BY <1>1 DEF Posting
    <3>2. \A d, e \in Senders : m \in senders'[d].msg /\ m \in senders'[e].msg => d = e
      BY <1>1 DEF Alone
    <3>3. Placed(m)' => x = m
      BY <2>2
    <3> QED
      BY <2>1, <2>2, <3>1, <3>2, <3>3 DEF Alone, Placed
  <2>3. CASE x # m
    BY <1>1, <2>1, <2>3, AloneSame
  <2> QED
    BY <2>2, <2>3
<1>2. ASSUME NEW d \in Senders, senders[d].pc = "idle", UNCHANGED remote,
             senders' = [senders EXCEPT ![d] = DataSender("posting", {x})]
      PROVE  Alone(m)' /\ (Placed(m)' => Placed(m) \/ x = m)
  <2>1. senders'[d].msg = {x} /\ \A e \in Senders \ {d} : senders'[e] = senders[e]
    BY <1>2 DEF Types, WireTypes, DataSender
  <2>2. senders[d].msg = {}
    BY <1>2 DEF WireInv
  <2>3. Posting(m)' <=> Posting(m) \/ x = m
    BY <2>1, <2>2 DEF Posting
  <2>4. \A e, g \in Senders : m \in senders'[e].msg /\ m \in senders'[g].msg => e = g
    <3>1. CASE x = m
      BY <2>1, <3>1 DEF Placed, Posting
    <3>2. CASE x # m
      BY <2>1, <2>2, <3>2 DEF Alone
    <3> QED
      BY <3>1, <3>2
  <2>5. /\ OnWire(m)' <=> OnWire(m)
        /\ \A n, p \in 1..Len(remote') : remote'[n] = m /\ remote'[p] = m => n = p
    BY <1>2 DEF OnWire, Alone
  <2>6. /\ m \in hand' <=> m \in hand
        /\ inboxes'[m.file] = inboxes[m.file] /\ written'[m.file] = written[m.file]
    OBVIOUS
  <2> QED
    BY <2>3, <2>4, <2>5, <2>6 DEF Alone, Placed
<1> QED
  BY <1>1, <1>2 DEF Accept

\* A message goes into an inbox from where it was.
LEMMA AlonePut ==
  ASSUME RunInv, NEW m \in Msgs, Alone(m), NEW q \in Msgs, PutInbox(q), UNCHANGED remote,
         Posting(m)' <=> Posting(m) /\ ~(q = m /\ Posting(q)),
         \A d, e \in Senders : m \in senders'[d].msg /\ m \in senders'[e].msg => d = e,
         m \in hand' <=> m \in hand /\ ~(q = m /\ q \in hand),
         Posting(q) \/ q \in hand
  PROVE  Alone(m)' /\ (Placed(m)' => Placed(m))
<1>1. m.file \in Files
  BY Msgs1 DEF RunInv, Types, ListTypes, Listed
<1>2. written'[m.file] = written[m.file]
  BY DEF PutInbox
<1>3. m \in inboxes'[m.file] <=> m \in inboxes[m.file] \/ q = m
  BY <1>1, PutEffects DEF RunInv
<1>5. /\ OnWire(m)' <=> OnWire(m)
      /\ \A n, p \in 1..Len(remote') : remote'[n] = m /\ remote'[p] = m => n = p
  BY DEF OnWire, Alone
<1>6. CASE q = m
  BY <1>2, <1>3, <1>5, <1>6 DEF Alone, Placed
<1>7. CASE q # m
  BY <1>2, <1>3, <1>5, <1>7 DEF Alone, Placed
<1> QED
  BY <1>6, <1>7

\* Every message is in one place, unless it is sent again; and it is sent by its
\* reader.
LEMMA AloneStep ==
  ASSUME RunInv, [Next]_vars, NEW m \in Msgs, Alone(m),
         \A k \in Kinds, i \in Workers : \A q \in readers[k][i].req :
           ReaderSend(k, i) /\ m = Message(q, readers[k][i].seq) => ~Placed(m)
  PROVE  /\ Alone(m)'
         /\ Placed(m)' =>
              \/ Placed(m)
              \/ \E k \in Kinds, i \in Workers : \E q \in readers[k][i].req :
                   ReaderSend(k, i) /\ m = Message(q, readers[k][i].seq)
<1> USE DEF RunInv
<1>0. m.file \in Files /\ m # FIN /\ m # INI
  BY Msgs1, Control DEF Types, ListTypes, Listed
<1>a. \A n, p \in 1..Len(remote) : remote[n] = m /\ remote[p] = m => n = p
  BY DEF Alone
<1>1. CASE UNCHANGED <<remote, senders, hand, inboxes, written>>
  <2>1. OnWire(m)' <=> OnWire(m)
    BY <1>1 DEF OnWire
  <2> QED
    BY <1>1, <1>a, <2>1, AloneSame
<1>2. CASE SendList \/ SendFin
  <2>1. PICK x \in {FIN, INI} : remote' = Append(remote, x)
    BY <1>2 DEF SendList, SendFin
  <2>2. UNCHANGED <<senders, hand, inboxes, written>>
    BY <1>2 DEF SendList, SendFin, loopVars, writerVars
  <2>3. /\ \A n, p \in 1..Len(remote') : remote'[n] = m /\ remote'[p] = m => n = p
        /\ OnWire(m)' <=> OnWire(m)
    BY <1>0, <1>a, <2>1, WireGrows
  <2> QED
    BY <2>2, <2>3, AloneSame
<1>3. CASE LoopList \/ LoopFin
  <2>1. PICK x \in {FIN, INI} : LoopReceive(x)
    BY <1>3, LoopTakes
  <2>2. UNCHANGED <<senders, hand, inboxes, written>>
    BY <1>3 DEF LoopList, LoopFin, LoopReceive, writerVars
  <2>3. /\ \A n, p \in 1..Len(remote') : remote'[n] = m /\ remote'[p] = m => n = p
        /\ OnWire(m)' <=> OnWire(m)
    BY <1>0, <1>a, <2>1, WireShrinks
  <2> QED
    BY <2>2, <2>3, AloneSame
<1>4. CASE LoopData
  <2>1. PICK x \in Msgs : LoopReceive(x) /\ hand' = {x}
    BY <1>4, LoopTakes
  <2>2. UNCHANGED <<senders, inboxes, written>> /\ hand = {}
    BY <2>1 DEF LoopReceive, writerVars
  <2>3. /\ \A n, p \in 1..Len(remote') : remote'[n] = m /\ remote'[p] = m => n = p
        /\ OnWire(m)' <=> OnWire(m) /\ x # m
        /\ x = m => OnWire(m)
    BY <1>a, <2>1, WireShrinks
  <2>4. /\ Posting(m)' <=> Posting(m)
        /\ inboxes'[m.file] = inboxes[m.file] /\ written'[m.file] = written[m.file]
    BY <2>2 DEF Posting
  <2>5. \A d, e \in Senders : m \in senders'[d].msg /\ m \in senders'[e].msg => d = e
    BY <2>2 DEF Alone
  <2>6. m \in hand' <=> x = m
    BY <2>1
  <2> QED
    BY <2>2, <2>3, <2>4, <2>5, <2>6 DEF Alone, Placed
<1>5. CASE LoopPut
  <2>1. PICK q \in Msgs : q \in hand /\ PutInbox(q)
    BY <1>5, Puts
  <2>2. hand' = {} /\ UNCHANGED <<remote, senders>> /\ hand = {q}
    BY <1>5, <2>1 DEF LoopPut, wireVars, WireInv
  <2>3. Posting(m)' <=> Posting(m)
    BY <2>2 DEF Posting
  <2>4. q = m => ~Posting(m)
    BY <2>1 DEF Alone
  <2>5. \A d, e \in Senders : m \in senders'[d].msg /\ m \in senders'[e].msg => d = e
    BY <2>2 DEF Alone
  <2> QED
    BY <2>1, <2>2, <2>3, <2>4, <2>5, AlonePut
<1>6. ASSUME NEW k \in Kinds, NEW i \in Workers, ReaderSend(k, i)
      PROVE  /\ Alone(m)'
             /\ Placed(m)' =>
                  Placed(m) \/ \E q \in readers[k][i].req : m = Message(q, readers[k][i].seq)
  <2>1. PICK q \in readers[k][i].req : /\ Accept(Message(q, readers[k][i].seq))
                                       /\ Message(q, readers[k][i].seq) \in Msgs
    BY <1>6, ReaderSends
  <2>2. UNCHANGED <<hand, inboxes, written>>
    BY <1>6 DEF ReaderSend, loopVars, writerVars
  <2> HIDE DEF RunInv
  <2> QED
    BY <1>6, <2>1, <2>2, AloneAccept
<1>7. ASSUME NEW d \in Senders, StopSender(d) \/ SenderFails(d)
      PROVE  Alone(m)' /\ (Placed(m)' => Placed(m))
  <2>1. /\ senders'[d].msg = {} /\ \A e \in Senders \ {d} : senders'[e] = senders[e]
        /\ UNCHANGED <<remote, hand, inboxes, written>>
    BY <1>7 DEF StopSender, SenderFails, DataSender, Types, WireTypes, loopVars, writerVars
  <2>2. Posting(m)' => Posting(m)
    BY <2>1 DEF Posting
  <2>3. \A e, g \in Senders : m \in senders'[e].msg /\ m \in senders'[g].msg => e = g
    BY <2>1 DEF Alone
  <2>4. /\ OnWire(m)' <=> OnWire(m)
        /\ \A n, p \in 1..Len(remote') : remote'[n] = m /\ remote'[p] = m => n = p
        /\ m \in hand' <=> m \in hand
        /\ inboxes'[m.file] = inboxes[m.file] /\ written'[m.file] = written[m.file]
    BY <1>a, <2>1 DEF OnWire
  <2> QED
    BY <2>2, <2>3, <2>4 DEF Alone, Placed
<1>8. ASSUME NEW d \in Senders, Posted(d)
      PROVE  Alone(m)' /\ (Placed(m)' => Placed(m))
  <2>1. PICK q \in Msgs : q \in senders[d].msg /\ PutInbox(q)
    BY <1>8, Puts
  <2>2. /\ senders'[d].msg = {} /\ \A e \in Senders \ {d} : senders'[e] = senders[e]
        /\ UNCHANGED <<remote, hand>>
    BY <1>8 DEF Posted, DataSender, Types, WireTypes, loopVars
  <2>3. senders[d].msg = {q}
    BY <2>1 DEF WireInv
  <2>4. \A e, g \in Senders : m \in senders'[e].msg /\ m \in senders'[g].msg => e = g
    BY <2>2 DEF Alone
  <2>5. q = m => m \notin hand
    BY <2>1 DEF Alone, Posting
  <2>6. Posting(m)' <=> Posting(m) /\ q # m
    <3>1. CASE q = m
      BY <2>1, <2>2, <3>1 DEF Alone, Posting
    <3>2. CASE q # m
      BY <2>2, <2>3, <3>2 DEF Posting
    <3> QED
      BY <3>1, <3>2
  <2>7. Posting(q)
    BY <2>1 DEF Posting
  <2> HIDE DEF RunInv
  <2> QED
    BY <2>1, <2>2, <2>4, <2>5, <2>6, <2>7, AlonePut
<1>9. ASSUME NEW f \in Files, WriterWrite(f)
      PROVE  Alone(m)' /\ (Placed(m)' => Placed(m))
  <2>1. PICK q \in inboxes[f] :
          /\ inboxes' = [inboxes EXCEPT ![f] = @ \ {q}]
          /\ written' = [written EXCEPT ![f] = @ \cup {q}]
    BY <1>9 DEF WriterWrite
  <2>2. UNCHANGED <<remote, senders, hand>>
    BY <1>9 DEF WriterWrite, wireVars, loopVars
  <2>3. q.file = f
    BY <2>1, MessageFile DEF Types, WriterTypes
  <2>4. /\ m \in inboxes'[m.file] <=> m \in inboxes[m.file] /\ q # m
        /\ m \in written'[m.file] <=> m \in written[m.file] \/ q = m
    BY <1>0, <2>1, <2>3 DEF Types, WriterTypes
  <2>5. q = m => m \in inboxes[m.file]
    BY <2>1, <2>3
  <2>6. /\ OnWire(m)' <=> OnWire(m)
        /\ Posting(m)' <=> Posting(m)
        /\ \A n, p \in 1..Len(remote') : remote'[n] = m /\ remote'[p] = m => n = p
        /\ \A d, e \in Senders : m \in senders'[d].msg /\ m \in senders'[e].msg => d = e
        /\ m \in hand' <=> m \in hand
    BY <2>2 DEF OnWire, Posting, Alone
  <2> QED
    BY <2>4, <2>5, <2>6 DEF Alone, Placed
<1> HIDE DEF RunInv
<1> QED
  BY <1>1, <1>2, <1>3, <1>4, <1>5, <1>6, <1>7, <1>8, <1>9, MessageSteps

-----------------------------------------------------------------------------
(* Requests. *)

\* Which steps move requests.
LEMMA RequestSteps ==
  ASSUME [Next]_vars
  PROVE  \/ UNCHANGED <<todo, readerCh, readers>>
         \/ spawnReaders
         \/ \E r \in Requests(Files) : sendDataToReaders(r)
         \/ \E k \in Kinds : stopReaders(k)
         \/ \E k \in Kinds, i \in Workers :
              ReaderTake(k, i) \/ ReaderSend(k, i) \/ ReaderFails(k, i)
<1>1. CASE UNCHANGED <<readerCh, readers>>
  BY <1>1, TodoSteps
<1>2. CASE ~UNCHANGED <<readerCh, readers>>
  BY <1>2, PoolSteps
<1> QED
  BY <1>1, <1>2

\* What waits is with the sender or in its channel.
LEMMA WaitingIs ==
  /\ Types => \A r : Waiting(r) <=> r \in todo \/ InChannel(r)
  /\ Types' => \A r : Waiting(r)' <=> r \in todo' \/ InChannel(r)'
<1>1. ASSUME Types, NEW r PROVE Waiting(r) <=> r \in todo \/ InChannel(r)
  <2>1. DOMAIN readerCh[KindOf(r)] = 1..Len(readerCh[KindOf(r)])
    BY <1>1, Kinded DEF Types, PoolTypes
  <2> QED
    BY <2>1 DEF Waiting, InChannel
<1>2. ASSUME Types', NEW r PROVE Waiting(r)' <=> r \in todo' \/ InChannel(r)'
  <2>1. KindOf(r)' \in Kinds
    BY DEF KindOf, Kinds
  <2>2. DOMAIN readerCh'[KindOf(r)'] = 1..Len(readerCh'[KindOf(r)'])
    BY <1>2, <2>1 DEF Types, PoolTypes
  <2> QED
    BY <2>2 DEF Waiting, InChannel
<1> QED
  BY <1>1, <1>2

\* Something more at the end of a channel.
LEMMA ChannelGrows ==
  ASSUME Types, [Next]_vars, NEW k \in Kinds, NEW x \in Reqs \cup {FIN},
         readerCh' = [readerCh EXCEPT ![k] = Append(@, x)],
         NEW r \in Reqs, OneAt(r), x = r /\ k = KindOf(r) => ~InChannel(r)
  PROVE  /\ \A n, p \in 1..Len(readerCh'[KindOf(r)]) :
              readerCh'[KindOf(r)][n] = r /\ readerCh'[KindOf(r)][p] = r => n = p
         /\ InChannel(r)' <=> InChannel(r) \/ (x = r /\ k = KindOf(r))
<1> DEFINE j == KindOf(r)
<1>1. KindOf(r)' = j /\ j \in Kinds
  BY ListsStay, Kinded
<1>2. \A n, p \in 1..Len(readerCh[j]) : readerCh[j][n] = r /\ readerCh[j][p] = r => n = p
  BY DEF OneAt
<1>3. InChannel(r)' <=> \E n \in 1..Len(readerCh'[j]) : readerCh'[j][n] = r
  BY <1>1 DEF InChannel
<1>4. InChannel(r) <=> \E n \in 1..Len(readerCh[j]) : readerCh[j][n] = r
  BY DEF InChannel
<1> HIDE DEF j
<1>5. CASE k = j
  <2>1. /\ Len(readerCh'[j]) = Len(readerCh[j]) + 1
        /\ \A n \in 1..Len(readerCh[j]) : readerCh'[j][n] = readerCh[j][n]
        /\ readerCh'[j][Len(readerCh[j]) + 1] = x
        /\ Len(readerCh[j]) \in Nat
    BY <1>1, <1>5, Appended DEF Types, PoolTypes
  <2>2. \A n \in 1..Len(readerCh'[j]) : n \in 1..Len(readerCh[j]) \/ n = Len(readerCh[j]) + 1
    BY <2>1
  <2>3. /\ \A n \in 1..Len(readerCh[j]) : n \in 1..Len(readerCh'[j])
        /\ Len(readerCh[j]) + 1 \in 1..Len(readerCh'[j])
    BY <2>1
  <2>4. x = r => ~InChannel(r)
    BY <1>5 DEF j
  <2>5. ASSUME NEW n \in 1..Len(readerCh'[j]), NEW p \in 1..Len(readerCh'[j]),
               readerCh'[j][n] = r, readerCh'[j][p] = r
        PROVE  n = p
    BY <1>2, <1>4, <2>1, <2>2, <2>4, <2>5
  <2>6. InChannel(r)' <=> InChannel(r) \/ x = r
    BY <1>3, <1>4, <2>1, <2>2, <2>3
  <2> QED
    BY <1>5, <2>5, <2>6 DEF j
<1>6. CASE k # j
  <2>1. readerCh'[j] = readerCh[j]
    BY <1>1, <1>6, Appended
  <2> QED
    BY <1>2, <1>3, <1>4, <1>6, <2>1 DEF j
<1> QED
  BY <1>5, <1>6

\* A reader takes what is at the head of its channel.
LEMMA ChannelShrinks ==
  ASSUME Types, [Next]_vars, NEW k \in Kinds, NEW i \in Workers, ReaderTake(k, i),
         NEW r \in Reqs, OneAt(r)
  PROVE  /\ \A n, p \in 1..Len(readerCh'[KindOf(r)]) :
              readerCh'[KindOf(r)][n] = r /\ readerCh'[KindOf(r)][p] = r => n = p
         /\ InChannel(r)' <=> InChannel(r) /\ ~(readerCh[k][1] = r /\ k = KindOf(r))
         /\ readerCh[k][1] = r /\ k = KindOf(r) => InChannel(r)
<1> DEFINE j == KindOf(r)
<1>1. KindOf(r)' = j /\ j \in Kinds
  BY ListsStay, Kinded
<1>2. \A n, p \in 1..Len(readerCh[j]) : readerCh[j][n] = r /\ readerCh[j][p] = r => n = p
  BY DEF OneAt
<1>3. InChannel(r)' <=> \E n \in 1..Len(readerCh'[j]) : readerCh'[j][n] = r
  BY <1>1 DEF InChannel
<1>4. InChannel(r) <=> \E n \in 1..Len(readerCh[j]) : readerCh[j][n] = r
  BY DEF InChannel
<1> HIDE DEF j
<1>5. CASE k = j
  <2>1. /\ Len(readerCh[j]) \in Nat /\ Len(readerCh[j]) >= 1
        /\ Len(readerCh'[j]) = Len(readerCh[j]) - 1
        /\ \A n \in 1..Len(readerCh'[j]) : readerCh'[j][n] = readerCh[j][n + 1]
    BY <1>5, Taken
  <2>2. /\ 1 \in 1..Len(readerCh[j])
        /\ \A n \in 1..Len(readerCh'[j]) : n + 1 \in 1..Len(readerCh[j]) /\ n + 1 # 1
        /\ \A n \in 1..Len(readerCh[j]) : n # 1 => n - 1 \in 1..Len(readerCh'[j])
        /\ \A n \in 1..Len(readerCh[j]) : (n - 1) + 1 = n
    BY <2>1
  <2>3. ASSUME NEW n \in 1..Len(readerCh'[j]), NEW p \in 1..Len(readerCh'[j]),
               readerCh'[j][n] = r, readerCh'[j][p] = r
        PROVE  n = p
    <3>1. n + 1 = p + 1
      BY <1>2, <2>1, <2>2, <2>3
    <3> QED
      BY <3>1
  <2>4. InChannel(r)' => InChannel(r) /\ readerCh[j][1] # r
    <3> SUFFICES ASSUME NEW n \in 1..Len(readerCh'[j]), readerCh'[j][n] = r
                 PROVE  InChannel(r) /\ readerCh[j][1] # r
      BY <1>3
    <3>1. readerCh[j][n + 1] = r /\ n + 1 \in 1..Len(readerCh[j]) /\ n + 1 # 1
      BY <2>1, <2>2
    <3> QED
      BY <1>2, <1>4, <2>2, <3>1
  <2>5. InChannel(r) /\ readerCh[j][1] # r => InChannel(r)'
    <3> SUFFICES ASSUME NEW n \in 1..Len(readerCh[j]), readerCh[j][n] = r,
                        readerCh[j][1] # r
                 PROVE  InChannel(r)'
      BY <1>4
    <3>1. n - 1 \in 1..Len(readerCh'[j]) /\ readerCh'[j][n - 1] = r
      BY <2>1, <2>2
    <3> QED
      BY <1>3, <3>1
  <2>6. readerCh[j][1] = r => InChannel(r)
    BY <1>4, <2>2
  <2> QED
    BY <1>5, <2>3, <2>4, <2>5, <2>6 DEF j
<1>6. CASE k # j
  <2>1. readerCh'[j] = readerCh[j]
    BY <1>1, <1>6, Taken
  <2> QED
    BY <1>2, <1>3, <1>4, <1>6, <2>1 DEF j
<1> QED
  BY <1>5, <1>6

\* Before the readers are spawned none of them has a request.
LEMMA NoHolders ==
  ASSUME RunInv, spc \in {"start", "list", "spawn"}
  PROVE  /\ \A k \in Kinds, i \in Workers : readers[k][i].pc = "none" /\ readers[k][i].req = {}
         /\ \A r : Holders(r) = {}
BY Kinded DEF RunInv, PhaseInv, PoolInv, Holders

\* What a step does to the readers of a request.
LEMMA HolderMoves ==
  ASSUME RunInv, [Next]_vars, NEW r \in Reqs,
         NEW k \in Kinds, NEW i \in Workers
  PROVE  /\ ReaderTake(k, i) =>
              /\ readers[k][i].req = {}
              /\ r \in readers'[k][i].req <=> readerCh[k][1] = r
         /\ ReaderSend(k, i) \/ ReaderFails(k, i) =>
              (r \in readers'[k][i].req =>
                 r \in readers[k][i].req /\ readers[k][i].seq <= readers'[k][i].seq)
<1> USE DEF RunInv
<1>0. readers[k][i].seq \in 0..Last /\ Last \in Nat
  BY ReaderMoves, RunAssumption
<1>1. ASSUME ReaderTake(k, i)
      PROVE  readers[k][i].req = {} /\ (r \in readers'[k][i].req <=> readerCh[k][1] = r)
  <2>1. /\ readers'[k][i] = IF readerCh[k][1] = FIN THEN Resting("stopped")
                            ELSE Reader("busy", {readerCh[k][1]}, 0)
        /\ readers[k][i].pc = "idle"
    BY <1>1, Taken
  <2>2. readers[k][i].req = {}
    BY <2>1 DEF PoolInv
  <2> QED
    BY <2>1, <2>2, Control DEF Resting, Reader
<1>2. ASSUME ReaderSend(k, i), r \in readers'[k][i].req
      PROVE  r \in readers[k][i].req /\ readers[k][i].seq <= readers'[k][i].seq
  <2>1. readers'[k][i] = IF readers[k][i].seq = Last THEN Resting("idle")
                         ELSE Reader("busy", readers[k][i].req, readers[k][i].seq + 1)
    BY <1>2, ReaderMoves
  <2>2. readers'[k][i] = Reader("busy", readers[k][i].req, readers[k][i].seq + 1)
    BY <1>2, <2>1 DEF Resting, Reader
  <2> QED
    BY <1>0, <1>2, <2>2 DEF Reader
<1>3. ASSUME ReaderFails(k, i), r \in readers'[k][i].req
      PROVE  r \in readers[k][i].req /\ readers[k][i].seq <= readers'[k][i].seq
  <2>1. readers'[k][i] = Reader("failed", readers[k][i].req, readers[k][i].seq)
    BY <1>3, ReaderMoves
  <2> QED
    BY <1>0, <1>3, <2>1 DEF Reader
<1> QED
  BY <1>1, <1>2, <1>3

\* A request goes from the sender into the channel of its pool and from there to
\* one reader, which never goes back; only spawnReaders makes a new one.
LEMMA OneAtStep ==
  ASSUME RunInv, EarlyInv, [Next]_vars, NEW r \in Reqs, OneAt(r)
  PROVE  /\ OneAt(r)'
         /\ ~spawnReaders =>
              /\ Waiting(r)' => Waiting(r)
              /\ \A i \in Holders(r)' :
                   \/ Waiting(r)
                   \/ /\ i \in Holders(r)
                      /\ readers[KindOf(r)][i].seq <= readers'[KindOf(r)][i].seq
<1> DEFINE k == KindOf(r)
<1> DEFINE Single == \A n, p \in 1..Len(readerCh'[k]) :
                       readerCh'[k][n] = r /\ readerCh'[k][p] = r => n = p
<1>1. Types /\ Types' /\ KindOf(r)' = k /\ k \in Kinds
  BY TypesStep, ListsStay, Kinded DEF RunInv
<1>2. /\ Waiting(r) <=> r \in todo \/ InChannel(r)
      /\ Waiting(r)' <=> r \in todo' \/ InChannel(r)'
  BY <1>1, WaitingIs
<1>3. /\ \A i : i \in Holders(r) <=> i \in Workers /\ r \in readers[k][i].req
      /\ \A i : i \in Holders(r)' <=> i \in Workers /\ r \in readers'[k][i].req
  BY <1>1 DEF Holders
<1>4. /\ \A n, p \in 1..Len(readerCh[k]) : readerCh[k][n] = r /\ readerCh[k][p] = r => n = p
      /\ \A i, j \in Holders(r) : i = j
      /\ r \in todo => ~InChannel(r)
      /\ r \in todo \/ InChannel(r) => Holders(r) = {}
      /\ \A j \in Kinds, i \in Workers : r \in readers[j][i].req => j = k
  BY DEF OneAt
<1>5. ASSUME Single, \A i, j \in Holders(r)' : i = j,
             r \in todo' => ~InChannel(r)', r \in todo' \/ InChannel(r)' => Holders(r)' = {},
             \A j \in Kinds, i \in Workers : r \in readers'[j][i].req => j = k
      PROVE  OneAt(r)'
  BY <1>1, <1>5 DEF OneAt
<1>6. \A j \in Kinds, i \in Workers :
        readers[j][i].seq \in 0..Last /\ readers[j][i].seq <= readers[j][i].seq
  BY <1>1, ReaderMoves, RunAssumption
<1>7. ASSUME readerCh'[k] = readerCh[k] PROVE Single /\ (InChannel(r)' <=> InChannel(r))
  BY <1>1, <1>4, <1>7 DEF InChannel
<1>8. ASSUME \A j \in Kinds, i \in Workers : readers'[j][i] = readers[j][i]
      PROVE  /\ Holders(r)' = Holders(r)
             /\ \A j \in Kinds, i \in Workers : r \in readers'[j][i].req => j = k
             /\ \A i \in Holders(r)' : readers[k][i].seq <= readers'[k][i].seq
  <2>1. Holders(r)' = Holders(r)
    BY <1>1, <1>8 DEF Holders
  <2>2. \A i \in Holders(r)' : readers[k][i].seq <= readers'[k][i].seq
    BY <1>1, <1>3, <1>6, <1>8
  <2> QED
    BY <1>4, <1>8, <2>1, <2>2
<1> HIDE DEF k, Single
<1> DEFINE Goal ==
      /\ OneAt(r)'
      /\ ~spawnReaders =>
           /\ Waiting(r)' => Waiting(r)
           /\ \A i \in Holders(r)' :
                \/ Waiting(r)
                \/ i \in Holders(r) /\ readers[k][i].seq <= readers'[k][i].seq
<1>10. ASSUME UNCHANGED <<todo, readerCh, readers>> PROVE Goal
  BY <1>2, <1>4, <1>5, <1>7, <1>8, <1>10
<1>11. ASSUME spawnReaders PROVE Goal
  <2>1. readerCh'[k] = << >> /\ spc = "spawn"
    BY <1>1, <1>11 DEF EarlyInv, spawnReaders, Sender
  <2>2. \A j \in Kinds, i \in Workers : readers[j][i].req = {}
    BY <2>1, NoHolders
  <2>3. \A j \in Kinds, i \in Workers : readers'[j][i].req = {}
    BY <1>1, <1>11, <2>2, SpawnedReaders DEF Resting, Reader
  <2>4. Holders(r)' = {}
    BY <1>1, <1>3, <2>3
  <2>5. Single /\ ~InChannel(r)'
    BY <1>1, <2>1 DEF Single, InChannel
  <2> QED
    BY <1>5, <1>11, <2>3, <2>4, <2>5
<1>12. ASSUME NEW q \in Requests(Files), sendDataToReaders(q) PROVE Goal
  <2>1. /\ q \in todo /\ q \in Reqs /\ todo' = todo \ {q} /\ readers' = readers
        /\ readerCh' = [readerCh EXCEPT ![KindOf(q)] = Append(@, q)]
    BY <1>1, <1>12 DEF sendDataToReaders, Types, SenderTypes
  <2>2. /\ Single
        /\ InChannel(r)' <=> InChannel(r) \/ q = r
    <3>1. /\ q \in Reqs \cup {FIN} /\ KindOf(q) \in Kinds
          /\ q = r => ~InChannel(r)
      BY <1>4, <2>1, Kinded
    <3>2. /\ \A n, p \in 1..Len(readerCh'[KindOf(r)]) :
               readerCh'[KindOf(r)][n] = r /\ readerCh'[KindOf(r)][p] = r => n = p
          /\ InChannel(r)' <=> InChannel(r) \/ (q = r /\ KindOf(q) = KindOf(r))
      BY <1>1, <2>1, <3>1, ChannelGrows
    <3> QED
      BY <3>2 DEF Single, k
  <2> QED
    BY <1>2, <1>4, <1>5, <1>8, <2>1, <2>2
<1>13. ASSUME NEW j \in Kinds, stopReaders(j) PROVE Goal
  <2>1. /\ todo' = todo /\ readers' = readers
        /\ readerCh' = [readerCh EXCEPT ![j] = Append(@, FIN)]
    BY <1>13 DEF stopReaders
  <2>2. /\ Single
        /\ InChannel(r)' <=> InChannel(r)
    <3>1. FIN \in Reqs \cup {FIN} /\ FIN # r
      BY Control
    <3>2. /\ \A n, p \in 1..Len(readerCh'[KindOf(r)]) :
               readerCh'[KindOf(r)][n] = r /\ readerCh'[KindOf(r)][p] = r => n = p
          /\ InChannel(r)' <=> InChannel(r) \/ (FIN = r /\ j = KindOf(r))
      BY <1>1, <2>1, <3>1, ChannelGrows
    <3> QED
      BY <3>1, <3>2 DEF Single, k
  <2> QED
    BY <1>2, <1>4, <1>5, <1>8, <2>1, <2>2
<1>14. ASSUME NEW j \in Kinds, NEW i \in Workers, ReaderTake(j, i) PROVE Goal
  <2>1. /\ Single
        /\ InChannel(r)' <=> InChannel(r) /\ ~(readerCh[j][1] = r /\ j = k)
        /\ readerCh[j][1] = r /\ j = k => InChannel(r)
    BY <1>1, <1>14, ChannelShrinks DEF Single, k
  <2>2. /\ readers[j][i].req = {}
        /\ r \in readers'[j][i].req <=> readerCh[j][1] = r
    BY <1>14, HolderMoves
  <2>3. \A h \in Kinds, l \in Workers : h # j \/ l # i => readers'[h][l] = readers[h][l]
    BY <1>1, <1>14, OneReader
  <2>4. todo' = todo
    BY <1>14 DEF ReaderTake, senderVars
  <2>5. readerCh[j][1] = r => j = k
    <3>0. Len(readerCh[j]) \in Nat /\ Len(readerCh[j]) >= 1
      BY <1>1, <1>14, Taken
    <3>1. 1 \in 1..Len(readerCh[j])
      BY <3>0
    <3> QED
      BY <3>1, Control DEF RunInv, PoolInv, k
  <2>6. \A h \in Kinds, l \in Workers : r \in readers'[h][l].req => h = k
    BY <1>4, <2>2, <2>3, <2>5
  <2>7. CASE readerCh[j][1] = r
    <3>1. Holders(r) = {} /\ InChannel(r) /\ r \notin todo /\ ~InChannel(r)' /\ j = k
      BY <1>4, <2>1, <2>5, <2>7
    <3>2. \A l \in Holders(r)' : l = i
      BY <1>1, <1>3, <2>2, <2>3, <3>1
    <3> QED
      BY <1>2, <1>5, <2>1, <2>4, <2>6, <3>1, <3>2
  <2>8. CASE readerCh[j][1] # r
    <3>1. Holders(r)' = Holders(r)
      BY <1>1, <1>3, <2>2, <2>3, <2>8
    <3>2. \A l \in Holders(r)' : readers[k][l].seq <= readers'[k][l].seq
      BY <1>1, <1>3, <1>6, <2>2, <2>3, <3>1
    <3> QED
      BY <1>2, <1>4, <1>5, <2>1, <2>4, <2>6, <2>8, <3>1, <3>2
  <2> QED
    BY <2>7, <2>8
<1>15. ASSUME NEW j \in Kinds, NEW i \in Workers, ReaderSend(j, i) \/ ReaderFails(j, i)
       PROVE  Goal
  <2>1. readerCh' = readerCh /\ todo' = todo
    BY <1>1, <1>15, ReaderMoves DEF ReaderSend, ReaderFails, senderVars
  <2>2. \A h \in Kinds, l \in Workers : h # j \/ l # i => readers'[h][l] = readers[h][l]
    BY <1>1, <1>15, OneReader
  <2>3. r \in readers'[j][i].req =>
          r \in readers[j][i].req /\ readers[j][i].seq <= readers'[j][i].seq
    BY <1>15, HolderMoves
  <2>4. \A h \in Kinds, l \in Workers :
          r \in readers'[h][l].req =>
            r \in readers[h][l].req /\ readers[h][l].seq <= readers'[h][l].seq
    BY <1>6, <2>2, <2>3
  <2>5. \A l \in Holders(r)' : l \in Holders(r) /\ readers[k][l].seq <= readers'[k][l].seq
    BY <1>1, <1>3, <2>4
  <2>6. \A h \in Kinds, l \in Workers : r \in readers'[h][l].req => h = k
    BY <1>4, <2>4
  <2>7. Single /\ (InChannel(r)' <=> InChannel(r))
    BY <1>7, <2>1
  <2> QED
    BY <1>2, <1>4, <1>5, <2>1, <2>5, <2>6, <2>7
<1>16. Goal
  BY <1>10, <1>11, <1>12, <1>13, <1>14, <1>15, RequestSteps
<1> QED
  BY <1>16 DEF k

-----------------------------------------------------------------------------
(* The steps of the invariant, and what it says. *)

\* A reader sends what it has not sent before.
LEMMA NotSentBefore ==
  ASSUME CountInv, NEW k \in Kinds, NEW i \in Workers, NEW q \in readers[k][i].req
  PROVE  /\ q \in Reqs /\ KindOf(q) = k /\ i \in Holders(q)
         /\ readers[k][i].seq \in 0..Last
         /\ ~Placed(Message(q, readers[k][i].seq))
<1>1. q \in Reqs /\ readers[k][i].seq \in 0..Last
  BY ReaderMoves DEF CountInv, RunInv
<1>2. KindOf(q) = k
  BY <1>1 DEF CountInv, RequestsInv, OneAt
<1>3. i \in Holders(q)
  BY <1>2 DEF Holders
<1>4. ~Sent(q, readers[k][i].seq)
  BY <1>1, <1>2, <1>3 DEF Sent
<1>5. ~Placed(Message(q, readers[k][i].seq))
  BY <1>1, <1>4 DEF CountInv, SentInv
<1> QED
  BY <1>1, <1>2, <1>3, <1>5

\* Each message stays alone, and only its reader sends it.
LEMMA MessagesStep ==
  ASSUME CountInv, [Next]_vars, NEW m \in Msgs
  PROVE  /\ Alone(m)'
         /\ Placed(m)' =>
              \/ Placed(m)
              \/ \E k \in Kinds, i \in Workers : \E q \in readers[k][i].req :
                   ReaderSend(k, i) /\ m = Message(q, readers[k][i].seq)
<1>1. RunInv /\ Alone(m)
  BY DEF CountInv, MessagesInv
<1>2. \A k \in Kinds, i \in Workers : \A q \in readers[k][i].req :
        ReaderSend(k, i) /\ m = Message(q, readers[k][i].seq) => ~Placed(m)
  BY NotSentBefore
<1> QED
  BY <1>1, <1>2, AloneStep

\* Nothing comes before the readers.
LEMMA EarlyStep ==
  ASSUME CountInv, [Next]_vars
  PROVE  EarlyInv'
<1>1. SUFFICES ASSUME spc' \in {"start", "list", "spawn"}
               PROVE  /\ \A k \in Kinds : readerCh'[k] = << >>
                      /\ \A m \in Msgs : ~Placed(m)'
  BY ListsStay DEF EarlyInv
<1>2. spc \in {"start", "list", "spawn"}
  BY <1>1, PlacesBefore
<1>3. \A k \in Kinds, i \in Workers : readers[k][i].pc = "none"
  BY <1>2, NoHolders DEF CountInv
<1>4. \A k \in Kinds, i \in Workers : ~ReaderSend(k, i)
  BY <1>3 DEF ReaderSend
<1>5. readerCh' = readerCh
  BY <1>1, <1>2, <1>3, PoolSteps DEF spawnReaders, Sender, sendDataToReaders, stopReaders,
     ReaderTake, ReaderFails, ReaderSend
<1> QED
  BY <1>2, <1>4, <1>5, MessagesStep DEF CountInv, EarlyInv

\* The readers begin when they are spawned.
LEMMA BegunBefore ==
  ASSUME [Next]_vars, Begun'
  PROVE  Begun \/ spawnReaders
<1>1. CASE UNCHANGED readers
  BY <1>1 DEF Begun
<1>2. CASE \E k \in Kinds, i \in Workers :
             ReaderTake(k, i) \/ ReaderSend(k, i) \/ ReaderFails(k, i)
  BY <1>2 DEF Begun, ReaderTake, ReaderSend, ReaderFails
<1> QED
  BY <1>1, <1>2, PoolSteps DEF sendDataToReaders, stopReaders

\* What has been sent remains sent.
LEMMA SentStays ==
  ASSUME CountInv, [Next]_vars, ~spawnReaders, NEW r \in Reqs, NEW n \in 0..Last, Sent(r, n)
  PROVE  Sent(r, n)'
<1>1. OneAt(r) /\ RunInv /\ EarlyInv
  BY DEF CountInv, RequestsInv
<1>2. /\ ~Waiting(r)'
      /\ \A i \in Holders(r)' : /\ i \in Holders(r)
                                /\ readers[KindOf(r)][i].seq <= readers'[KindOf(r)][i].seq
  BY <1>1, OneAtStep DEF Sent
<1>3. KindOf(r)' = KindOf(r) /\ KindOf(r) \in Kinds /\ Types /\ Types'
  BY <1>1, TypesStep, ListsStay, Kinded DEF RunInv
<1>4. ASSUME NEW i \in Holders(r)' PROVE n < readers'[KindOf(r)][i].seq
  <2>1. i \in Workers /\ n < readers[KindOf(r)][i].seq
    BY <1>2, <1>4 DEF Holders, Sent
  <2>2. readers[KindOf(r)][i].seq \in 0..Last
    BY <1>3, <2>1, ReaderMoves
  <2>3. readers'[KindOf(r)][i].seq \in 0..Last'
    BY <1>3, <2>1 DEF Types, PoolTypes
  <2> QED
    BY <1>2, <1>4, <2>1, <2>2, <2>3, RunAssumption
<1> QED
  BY <1>2, <1>3, <1>4 DEF Sent

\* When a reader has sent a message, it has.
LEMMA SentNow ==
  ASSUME CountInv, [Next]_vars, NEW k \in Kinds, NEW i \in Workers, ReaderSend(k, i),
         NEW r \in readers[k][i].req, NEW n \in 0..Last, n = readers[k][i].seq
  PROVE  Sent(r, n)'
<1>1. r \in Reqs /\ KindOf(r) = k /\ i \in Holders(r) /\ n \in 0..Last
  BY NotSentBefore
<1>2. /\ OneAt(r) /\ RunInv /\ EarlyInv /\ ~spawnReaders
      /\ KindOf(r)' = k
  <2>1. ~spawnReaders
    BY NoHolders DEF CountInv, spawnReaders, Sender, ReaderSend
  <2> QED
    BY <1>1, <2>1, ListsStay DEF CountInv, RequestsInv
<1>3. ~Waiting(r) /\ Holders(r) = {i}
  BY <1>1, <1>2, WaitingIs DEF OneAt, RunInv
<1>4. ~Waiting(r)' /\ \A l \in Holders(r)' : l = i
  BY <1>1, <1>2, <1>3, OneAtStep
<1>5. readers'[k][i] = IF n = Last THEN Resting("idle")
                       ELSE Reader("busy", readers[k][i].req, n + 1)
  BY <1>2, ReaderMoves DEF RunInv
<1>6. ASSUME i \in Holders(r)' PROVE n < readers'[k][i].seq
  <2>1. r \in readers'[k][i].req
    BY <1>2, <1>6 DEF Holders
  <2>2. readers'[k][i] = Reader("busy", readers[k][i].req, n + 1)
    BY <1>5, <2>1 DEF Resting, Reader
  <2> QED
    BY <1>1, <2>2, RunAssumption DEF Reader
<1>7. \A l \in Holders(r)' : n < readers'[k][l].seq
  BY <1>4, <1>6
<1> QED
  BY <1>2, <1>4, <1>7 DEF Sent

\* What is on its way is what has been read.
LEMMA SentStep ==
  ASSUME CountInv, [Next]_vars
  PROVE  SentInv'
<1> SUFFICES ASSUME NEW r \in Reqs, NEW n \in 0..Last
             PROVE  /\ Placed(Message(r, n))' => Sent(r, n)'
                    /\ Begun' => There(Message(r, n))' \/ Unread(r, n)'
  BY ListsStay DEF SentInv
<1>1. Message(r, n) \in Msgs /\ RunInv
  BY MessageOfRequest DEF CountInv
<1>2. ASSUME Placed(Message(r, n))' PROVE Sent(r, n)'
  <2>1. CASE Placed(Message(r, n))
    <3>1. Sent(r, n)
      BY <2>1 DEF CountInv, SentInv
    <3>2. ~spawnReaders
      BY <1>1, <2>1 DEF CountInv, EarlyInv, spawnReaders, Sender
    <3> QED
      BY <3>1, <3>2, SentStays
  <2>2. ASSUME NEW k \in Kinds, NEW i \in Workers, NEW q \in readers[k][i].req,
               ReaderSend(k, i), Message(r, n) = Message(q, readers[k][i].seq)
        PROVE  Sent(r, n)'
    <3>1. q \in Reqs
      BY NotSentBefore
    <3>2. r = q /\ n = readers[k][i].seq
      BY <2>2, <3>1, MessageOne
    <3> QED
      BY <2>2, <3>2, SentNow
  <2> QED
    BY <1>1, <1>2, <2>1, <2>2, MessagesStep
<1>3. ASSUME Begun' PROVE There(Message(r, n))' \/ Unread(r, n)'
  <2>1. CASE spawnReaders
    <3>1. r \in todo'
      BY <2>1 DEF spawnReaders, Reqs
    <3> QED
      BY <3>1 DEF Unread
  <2>2. CASE ~spawnReaders
    <3>1. Begun
      BY <1>3, <2>2, BegunBefore
    <3>2. spc # "spawn"
      BY <1>1, <3>1, NoHolders DEF Begun
    <3>3. There(Message(r, n)) \/ Unread(r, n)
      BY <3>1 DEF CountInv, SentInv
    <3> QED
      BY <1>1, <3>2, <3>3, ThereStays, UnreadMoves
  <2> QED
    BY <2>1, <2>2
<1> QED
  BY <1>2, <1>3

\* The invariant holds in the beginning, and every step keeps it.
LEMMA CountInvInit == Init => CountInv
<1> SUFFICES ASSUME Init PROVE CountInv
  OBVIOUS
<1>1. /\ \A k \in Kinds : readerCh[k] = << >>
      /\ \A k \in Kinds, i \in Workers : readers[k][i] = Resting("none")
      /\ todo = {} /\ remote = << >> /\ hand = {}
      /\ \A d \in Senders : senders[d] = DataSender("idle", {})
      /\ \A f \in Files : inboxes[f] = {} /\ written[f] = {}
  BY DEF Init
<1>2. /\ \A k \in Kinds, i \in Workers : readers[k][i].pc = "none" /\ readers[k][i].req = {}
      /\ \A d \in Senders : senders[d].msg = {}
  BY <1>1 DEF Resting, Reader, DataSender
<1>3. RunInv
  BY RunInvInit
<1>4. \A m \in Msgs : ~Placed(m)
  <2> SUFFICES ASSUME NEW m \in Msgs PROVE ~Placed(m)
    OBVIOUS
  <2>1. m.file \in Files
    BY <1>3, Msgs1 DEF RunInv, Types, ListTypes, Listed
  <2> QED
    BY <1>1, <1>2, <2>1 DEF Placed, OnWire, Posting
<1>5. \A r \in Reqs : OneAt(r)
  BY <1>1, <1>2, Kinded DEF OneAt, InChannel, Holders
<1>6. \A m \in Msgs : Alone(m)
  BY <1>1, <1>2, <1>4 DEF Alone, Placed, OnWire, Posting
<1>7. ~Begun
  BY <1>2 DEF Begun
<1>8. SentInv
  BY <1>4, <1>7, MessageOfRequest DEF SentInv
<1> QED
  BY <1>1, <1>3, <1>4, <1>5, <1>6, <1>8 DEF CountInv, EarlyInv, RequestsInv, MessagesInv

LEMMA CountInvStep == CountInv /\ [Next]_vars => CountInv'
<1> SUFFICES ASSUME CountInv, [Next]_vars PROVE CountInv'
  OBVIOUS
<1>1. RunInv'
  BY RunInvStep DEF CountInv
<1>2. EarlyInv' /\ SentInv'
  BY EarlyStep, SentStep
<1>3. RequestsInv'
  BY OneAtStep, ListsStay DEF CountInv, RequestsInv
<1>4. MessagesInv'
  BY MessagesStep, ListsStay DEF MessagesInv
<1> QED
  BY <1>1, <1>2, <1>3, <1>4 DEF CountInv

\* A set without two elements.
LEMMA AtMostOne ==
  ASSUME NEW S, \A x, y \in S : x = y
  PROVE  Cardinality(S) = IF S = {} THEN 0 ELSE 1
<1>1. CASE S = {}
  BY <1>1, FS_EmptySet
<1>2. ASSUME NEW x \in S PROVE Cardinality(S) = 1
  <2>1. S = {x}
    BY <1>2
  <2> QED
    BY <2>1, FS_Singleton
<1> QED
  BY <1>1, <1>2

\* The copies of a message that is alone are as many as the places it is in.
LEMMA CopiesAre ==
  ASSUME CountInv, NEW m \in Msgs
  PROVE  Copies(m) = IF Placed(m) THEN 1 ELSE 0
<1>1. Alone(m) /\ DOMAIN remote = 1..Len(remote)
  BY DEF CountInv, MessagesInv, RunInv, Types, WireTypes
<1>2. Cardinality({n \in DOMAIN remote : remote[n] = m}) = IF OnWire(m) THEN 1 ELSE 0
  <2> DEFINE S == {n \in DOMAIN remote : remote[n] = m}
  <2>1. /\ \A x, y \in S : x = y
        /\ S = {} <=> ~OnWire(m)
    BY <1>1 DEF Alone, OnWire
  <2> HIDE DEF S
  <2>2. Cardinality(S) = IF OnWire(m) THEN 1 ELSE 0
    BY <2>1, AtMostOne
  <2> QED
    BY <2>2 DEF S
<1>3. Cardinality({d \in Senders : m \in senders[d].msg}) = IF Posting(m) THEN 1 ELSE 0
  <2> DEFINE S == {d \in Senders : m \in senders[d].msg}
  <2>1. /\ \A x, y \in S : x = y
        /\ S = {} <=> ~Posting(m)
    BY <1>1 DEF Alone, Posting
  <2> HIDE DEF S
  <2>2. Cardinality(S) = IF Posting(m) THEN 1 ELSE 0
    BY <2>1, AtMostOne
  <2> QED
    BY <2>2 DEF S
<1>4. \A S : Cardinality(S \cap {m}) = IF m \in S THEN 1 ELSE 0
  <2> SUFFICES ASSUME NEW S PROVE Cardinality(S \cap {m}) = IF m \in S THEN 1 ELSE 0
    OBVIOUS
  <2>1. (S \cap {m}) = IF m \in S THEN {m} ELSE {}
    BY Zenon
  <2> QED
    BY <2>1, FS_EmptySet, FS_Singleton
<1> QED
  BY <1>1, <1>2, <1>3, <1>4 DEF Copies, Alone, Placed

\* Whatever fails, a request is with the sender, in its pool's channel or with
\* one reader, and of its stream there is exactly what has been read, each message
\* in one channel, hand, inbox or file; only what a failed dataSender had may be
\* gone (workers/sender.go, readers.go, helpers.go and receiver.go).
THEOREM RunConserves == Spec => []Conserved
<1>1. CountInv => Conserved
  <2> SUFFICES ASSUME CountInv, Begun, NEW r \in Reqs
               PROVE  /\ Cardinality(Holders(r)) + (IF Waiting(r) THEN 1 ELSE 0) <= 1
                      /\ \A n \in 0..Last :
                           /\ Copies(Message(r, n)) <= IF Sent(r, n) THEN 1 ELSE 0
                           /\ Sent(r, n) /\ (\A d \in Senders : senders[d].pc # "failed")
                                => Copies(Message(r, n)) = 1
    BY DEF Conserved, Reqs
  <2>1. OneAt(r) /\ Types
    BY DEF CountInv, RequestsInv, RunInv
  <2>2. Cardinality(Holders(r)) + (IF Waiting(r) THEN 1 ELSE 0) <= 1
    <3>1. Cardinality(Holders(r)) = IF Holders(r) = {} THEN 0 ELSE 1
      BY <2>1, AtMostOne DEF OneAt
    <3>2. Waiting(r) => Holders(r) = {}
      BY <2>1, WaitingIs DEF OneAt
    <3> QED
      BY <3>1, <3>2
  <2>3. ASSUME NEW n \in 0..Last
        PROVE  /\ Copies(Message(r, n)) <= IF Sent(r, n) THEN 1 ELSE 0
               /\ Sent(r, n) /\ (\A d \in Senders : senders[d].pc # "failed")
                    => Copies(Message(r, n)) = 1
    <3>1. Copies(Message(r, n)) = IF Placed(Message(r, n)) THEN 1 ELSE 0
      BY MessageOfRequest, CopiesAre
    <3>2. Placed(Message(r, n)) => Sent(r, n)
      BY DEF CountInv, SentInv
    <3>3. ASSUME Sent(r, n), \A d \in Senders : senders[d].pc # "failed"
          PROVE  Placed(Message(r, n))
      <4>1. ~Unread(r, n)
        <5>1. ~(r \in todo) /\ ~InChannel(r)
          BY <2>1, <3>3, WaitingIs DEF Sent
        <5>2. \A i \in Workers : r \in readers[KindOf(r)][i].req =>
                                   ~(readers[KindOf(r)][i].seq <= n)
          <6> SUFFICES ASSUME NEW i \in Workers, r \in readers[KindOf(r)][i].req
                       PROVE  ~(readers[KindOf(r)][i].seq <= n)
            OBVIOUS
          <6>1. n < readers[KindOf(r)][i].seq
            BY <3>3 DEF Sent, Holders
          <6>2. readers[KindOf(r)][i].seq \in 0..Last
            BY <2>1, Kinded, ReaderMoves
          <6> QED
            BY <6>1, <6>2
        <5> QED
          BY <5>1, <5>2 DEF Unread, InChannel
      <4>2. There(Message(r, n))
        BY <4>1 DEF CountInv, SentInv
      <4> QED
        BY <3>3, <4>2 DEF There, Placed, OnWire, Posting
    <3> QED
      BY <3>1, <3>2, <3>3
  <2> QED
    BY <2>2, <2>3
<1> QED
  BY <1>1, CountInvInit, CountInvStep, PTL DEF Spec

=============================================================================
