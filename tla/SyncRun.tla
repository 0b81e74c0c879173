------------------------------ MODULE SyncRun ------------------------------
(***************************************************************************)
(* One synchronisation from beginning to end: the sender fills two pools   *)
(* of readers with requests and stops them (workers/sender.go); the        *)
(* readers send the messages of each request (Start of workers/readers.go) *)
(* to the receiving loop of local mode (LocalReceiver.Start,               *)
(* workers/receiver.go) or, in client mode, to the dataSender goroutines   *)
(* (workers/helpers.go).                                                   *)
(*                                                                         *)
(* A writer is modelled by the messages it has been given and has written; *)
(* FileWriter has its detail.                                              *)
(***************************************************************************)
EXTENDS Integers, Sequences, FiniteSets

CONSTANTS
  Files,    \* files of the source directory
  Big,      \* files that are read in sections when the destination has them
  Last,     \* sequence number of the last message of every stream
  Workers,  \* names of the readers of each pool, io_concurrency of them
  Senders,  \* the dataSenders, twice as many
  Mode,     \* "local", or "http": the client command
  Faults    \* what may fail: "list", "hash", "reader", "sender", "writer",
            \* "timeout"

ASSUME RunAssumption ==
  /\ IsFiniteSet(Files) /\ Big \subseteq Files
  /\ Last \in Nat
  /\ IsFiniteSet(Workers) /\ Workers # {}
  /\ IsFiniteSet(Senders) /\ Cardinality(Senders) = 2 * Cardinality(Workers)
  /\ Mode \in {"local", "http"}
  /\ Faults \subseteq {"list", "hash", "reader", "sender", "writer", "timeout"}

ccIo == Cardinality(Workers)

\* The client command makes its sender with syncOnce, the local one without.
syncOnce == Mode = "http"

Kinds == {"roll", "bytes"}

FIN == [flag |-> "FIN"]
INI == [flag |-> "INI"]

VARIABLES
  diffList, missList, \* files to be sent
  spc,      \* where the sender is in Start
  todo,     \* requests it has still to hand out
  fins,     \* FINs it has still to send, to each pool and to the dataSenders
  readerCh, \* the channel of each pool of readers
  readers,  \* state of each reader, with its request and sequence number
  remote,   \* the channel to the receiving loop
  senders,  \* state of each dataSender, with the message it has posted
  rpc,      \* where the receiving loop is
  hand,     \* the message it has taken and not yet put into an inbox
  finSent,  \* the loop has received FIN
  hashers,  \* state of each hash reader, with the file it sums
  toHash,   \* files for which it has still to be asked
  hashFins, \* FINs that the hash readers have still to be sent
  unhashed, \* files both sides have that have no sums yet
  inboxes,  \* messages in the inbox of the writer of each file
  written,  \* messages each writer has written
  writers   \* state of each writer

listVars == <<diffList, missList>>
senderVars == <<spc, todo, fins>>
poolVars == <<readerCh, readers>>
wireVars == <<remote, senders>>
hashVars == <<hashers, toHash, hashFins, unhashed>>
loopVars == <<rpc, hand, finSent, hashVars>>
writerVars == <<inboxes, written, writers>>
vars == <<listVars, senderVars, poolVars, wireVars, loopVars, writerVars>>

Listed == diffList \cup missList

\* A file the destination has in another version is read in sections when it
\* is big, any other in one stream.
Streams(f) == IF f \in diffList \cap Big /\ ccIo > 1 THEN ccIo ELSE 1

Requests(fs) == UNION {[file : {f}, chunk : 0..(Streams(f) - 1)] : f \in fs}

KindOf(r) == IF r.file \in diffList THEN "roll" ELSE "bytes"

\* A WSQ message, known by its stream and number.
Message(r, n) == [file |-> r.file, chunk |-> r.chunk, seq |-> n]

MessagesOf(f) == {Message(r, n) : r \in Requests({f}), n \in 0..Last}

\* The states of a reader, with its request and the number it has come to, of a
\* hash reader with its file, and of a dataSender with the message it posts.
Reader(pc, req, n) == [pc |-> pc, req |-> req, seq |-> n]
Resting(pc) == Reader(pc, {}, 0)
Hasher(pc, file) == [pc |-> pc, file |-> file]
DataSender(pc, msg) == [pc |-> pc, msg |-> msg]

\* In client mode the lists have been exchanged when the run begins: a failure
\* of that exchange ends the program.
Init ==
  /\ diffList \in SUBSET Files
  /\ missList \in SUBSET (Files \ diffList)
  /\ spc = IF Mode = "local" THEN "start" ELSE "spawn"
  /\ todo = {}
  /\ fins = [p \in Kinds \cup {"data"} |-> 0]
  /\ readerCh = [k \in Kinds |-> << >>]
  /\ readers = [k \in Kinds |-> [i \in Workers |-> Resting("none")]]
  /\ remote = << >>
  /\ senders = [d \in Senders |-> DataSender("idle", {})]
  /\ rpc = "loop"
  /\ hand = {}
  /\ finSent = FALSE
  /\ hashers = [i \in Workers |-> Hasher("none", {})]
  /\ toHash = {} /\ hashFins = 0 /\ unhashed = {}
  /\ inboxes = [f \in Files |-> {}]
  /\ written = [f \in Files |-> {}]
  /\ writers = [f \in Files |-> "none"]

-----------------------------------------------------------------------------
\* The sender.

Sender(from, to) == spc = from /\ spc' = to

\* The list goes to the receiver, which answers with what it lacks.
SendList ==
  /\ Sender("start", "list")
  /\ remote' = Append(remote, INI)
  /\ UNCHANGED <<listVars, todo, fins, poolVars, senders, loopVars, writerVars>>

\* The answer is late, or the receiver has given up.
ListTimeout ==
  /\ "timeout" \in Faults \/ rpc = "failed"
  /\ Sender("list", "failed")
  /\ UNCHANGED <<listVars, todo, fins, poolVars, wireVars, loopVars, writerVars>>

\* The source directory, or a file of it whose digest is wanted, cannot be read.
ListFails ==
  /\ "list" \in Faults
  /\ Mode = "local"
  /\ Sender("start", "failed") \/ Sender("spawn", "failed")
  /\ UNCHANGED <<listVars, todo, fins, poolVars, wireVars, loopVars, writerVars>>

Spawned(k) ==
  IF k = "roll" THEN diffList # {} \/ ~syncOnce ELSE missList # {} \/ syncOnce

spawnReaders ==
  /\ Sender("spawn", "send")
  /\ readers' = [k \in Kinds |-> IF Spawned(k) THEN [i \in Workers |-> Resting("idle")]
                                 ELSE readers[k]]
  /\ todo' = Requests(Listed)
  /\ UNCHANGED <<listVars, fins, readerCh, wireVars, loopVars, writerVars>>

\* Mutant of Room: one request too many.
RoomForOneMore(k) == Len(readerCh[k]) <= ccIo

Room(k) == Len(readerCh[k]) < ccIo

\* Requests go out file by file, those for differing files first, the sections
\* of a file from its beginning.
sendDataToReaders(r) ==
  /\ spc = "send"
  /\ r \in todo
  /\ r.file \in missList => todo \subseteq Requests(missList)
  /\ \A q \in todo : q.file = r.file => r.chunk <= q.chunk
  /\ \A f \in Listed \ {r.file} : todo \cap Requests({f}) \in {{}, Requests({f})}
  /\ Room(KindOf(r))
  /\ readerCh' = [readerCh EXCEPT ![KindOf(r)] = Append(@, r)]
  /\ todo' = todo \ {r}
  /\ UNCHANGED <<listVars, spc, fins, readers, wireVars, loopVars, writerVars>>

\* Mutant of beginStop: one reader gets no FIN.
beginStopShort ==
  /\ Sender("send", "stop")
  /\ todo = {}
  /\ fins' = [fins EXCEPT !["roll"] = IF diffList # {} THEN ccIo - 1 ELSE 0,
                          !["bytes"] = IF missList # {} THEN ccIo ELSE 0]
  /\ UNCHANGED <<listVars, todo, poolVars, wireVars, loopVars, writerVars>>

\* Every reader of a pool is stopped by a FIN of its own, but only if the pool
\* had a file to read.
beginStop ==
  /\ Sender("send", "stop")
  /\ todo = {}
  /\ fins' = [fins EXCEPT !["roll"] = IF diffList # {} THEN ccIo ELSE 0,
                          !["bytes"] = IF missList # {} THEN ccIo ELSE 0]
  /\ UNCHANGED <<listVars, todo, poolVars, wireVars, loopVars, writerVars>>

stopReaders(k) ==
  /\ spc = "stop"
  /\ fins[k] > 0
  /\ k = "bytes" => fins["roll"] = 0
  /\ Room(k)
  /\ readerCh' = [readerCh EXCEPT ![k] = Append(@, FIN)]
  /\ fins' = [fins EXCEPT ![k] = @ - 1]
  /\ UNCHANGED <<listVars, spc, todo, readers, wireVars, loopVars, writerVars>>

stopped ==
  /\ Sender("stop", "wait")
  /\ \A k \in Kinds : fins[k] = 0
  /\ UNCHANGED <<listVars, todo, fins, poolVars, wireVars, loopVars, writerVars>>

\* Mutant of waitReaders: only half of the dataSenders are stopped.
waitReadersHalf ==
  LET state(k) == {readers[k][i].pc : i \in Workers}
      states == state("roll") \cup state("bytes")
  IN /\ spc = "wait"
     /\ states \subseteq {"none", "stopped", "failed"}
     /\ spc' = IF "failed" \in states THEN "failed" ELSE "fin"
     /\ fins' = [fins EXCEPT !["data"] = ccIo]
     /\ UNCHANGED <<listVars, todo, poolVars, wireVars, loopVars, writerVars>>

\* g.Wait: all readers have returned, and the first error ends the sender.
waitReaders ==
  LET state(k) == {readers[k][i].pc : i \in Workers}
      states == state("roll") \cup state("bytes")
  IN /\ spc = "wait"
     /\ states \subseteq {"none", "stopped", "failed"}
     /\ spc' = IF "failed" \in states THEN "failed" ELSE "fin"
     /\ fins' = [fins EXCEPT !["data"] = Cardinality(Senders)]
     /\ UNCHANGED <<listVars, todo, poolVars, wireVars, loopVars, writerVars>>

SendFin ==
  /\ Mode = "local"
  /\ Len(remote) < ccIo
  /\ Sender("fin", "done")
  /\ remote' = Append(remote, FIN)
  /\ UNCHANGED <<listVars, todo, fins, poolVars, senders, loopVars, writerVars>>

FinTimeout ==
  /\ "timeout" \in Faults
  /\ Mode = "local"
  /\ Len(remote) = ccIo
  /\ Sender("fin", "failed")
  /\ UNCHANGED <<listVars, todo, fins, poolVars, wireVars, loopVars, writerVars>>

\* The channel to the dataSenders has no buffer: one that is free takes the
\* FIN and returns.
StopSender(d) ==
  /\ Mode = "http"
  /\ spc = "fin"
  /\ fins["data"] > 0
  /\ senders[d].pc = "idle"
  /\ senders' = [senders EXCEPT ![d] = DataSender("stopped", {})]
  /\ fins' = [fins EXCEPT !["data"] = @ - 1]
  /\ UNCHANGED <<listVars, spc, todo, poolVars, remote, loopVars, writerVars>>

\* eg.Wait
waitSenders ==
  LET states == {senders[d].pc : d \in Senders}
  IN /\ Mode = "http"
     /\ spc = "fin"
     /\ fins["data"] = 0
     /\ states \subseteq {"stopped", "failed"}
     /\ spc' = IF "failed" \in states THEN "failed" ELSE "done"
     /\ UNCHANGED <<listVars, todo, fins, poolVars, wireVars, loopVars, writerVars>>

-----------------------------------------------------------------------------
\* The readers.

ReaderTake(k, i) ==
  /\ readers[k][i].pc = "idle"
  /\ readerCh[k] # << >>
  /\ readerCh' = [readerCh EXCEPT ![k] = Tail(@)]
  /\ readers' = [readers EXCEPT ![k][i] =
                   IF Head(readerCh[k]) = FIN THEN Resting("stopped")
                   ELSE Reader("busy", {Head(readerCh[k])}, 0)]
  /\ UNCHANGED <<listVars, senderVars, wireVars, loopVars, writerVars>>

\* sendWithTimeout: into the channel of the receiving loop if it has room, or
\* to a dataSender that is waiting for a message.
Accept(m) ==
  \/ /\ Mode = "local"
     /\ Len(remote) < ccIo
     /\ remote' = Append(remote, m)
     /\ UNCHANGED senders
  \/ /\ Mode = "http"
     /\ \E d \in Senders :
          /\ senders[d].pc = "idle"
          /\ senders' = [senders EXCEPT ![d] = DataSender("posting", {m})]
     /\ UNCHANGED remote

Refused == IF Mode = "local" THEN Len(remote) = ccIo
           ELSE \A d \in Senders : senders[d].pc # "idle"

\* Mutant of ReaderSend: after a timeout the message is sent again.
ReaderSendAgain(k, i) ==
  LET r == readers[k][i]
  IN /\ r.pc = "busy"
     /\ \E q \in r.req : Accept(Message(q, r.seq))
     /\ \/ readers' = [readers EXCEPT ![k][i] =
                         IF r.seq = Last THEN Resting("idle")
                         ELSE Reader("busy", r.req, r.seq + 1)]
        \/ "timeout" \in Faults /\ UNCHANGED readers
     /\ UNCHANGED <<listVars, senderVars, readerCh, loopVars, writerVars>>

ReaderSend(k, i) ==
  LET r == readers[k][i]
  IN /\ r.pc = "busy"
     /\ \E q \in r.req : Accept(Message(q, r.seq))
     /\ readers' = [readers EXCEPT ![k][i] =
                      IF r.seq = Last THEN Resting("idle")
                      ELSE Reader("busy", r.req, r.seq + 1)]
     /\ UNCHANGED <<listVars, senderVars, readerCh, loopVars, writerVars>>

\* Mutant of ReaderFails: the reader returns without an error.
ReaderQuits(k, i) ==
  /\ readers[k][i].pc = "busy"
  /\ "reader" \in Faults \/ ("timeout" \in Faults /\ Refused)
  /\ readers' = [readers EXCEPT ![k][i] = Reader("stopped", @.req, @.seq)]
  /\ UNCHANGED <<listVars, senderVars, readerCh, wireVars, loopVars, writerVars>>

\* A file cannot be read, or nothing takes the message in time.
ReaderFails(k, i) ==
  /\ readers[k][i].pc = "busy"
  /\ "reader" \in Faults \/ ("timeout" \in Faults /\ Refused)
  /\ readers' = [readers EXCEPT ![k][i] = Reader("failed", @.req, @.seq)]
  /\ UNCHANGED <<listVars, senderVars, readerCh, wireVars, loopVars, writerVars>>

-----------------------------------------------------------------------------
\* The receiving side.

InboxCap(f) == IF Mode = "local" THEN Streams(f) ELSE 2 * Streams(f)

\* A message goes into the inbox of its file's writer, made for the first one.
PutInbox(m) ==
  /\ Cardinality(inboxes[m.file]) < InboxCap(m.file)
  /\ inboxes' = [inboxes EXCEPT ![m.file] = @ \cup {m}]
  /\ writers' = [writers EXCEPT ![m.file] = IF @ = "none" THEN "open" ELSE @]
  /\ UNCHANGED written

\* IsAlive: the writer has streams left.
Alive(f) == writers[f] \in {"open", "failed"} /\ written[f] # MessagesOf(f)

\* Mutant of writtersDone: the FIN is not waited for.
noneAlive == \A f \in Files : ~Alive(f)

writtersDone == finSent /\ \A f \in Files : ~Alive(f)

LoopReceive(m) ==
  /\ Mode = "local"
  /\ rpc = "loop" /\ hand = {}
  /\ ~writtersDone
  /\ remote # << >> /\ m = Head(remote)
  /\ remote' = Tail(remote)
  /\ UNCHANGED <<listVars, todo, fins, poolVars, senders, writerVars>>

\* The lists are compared, and hash readers started for the files that both
\* sides have; of these some turn out to be the same, or too short to differ.
LoopList ==
  /\ LoopReceive(INI)
  /\ \/ /\ rpc' = "hash"
        /\ \E fs \in SUBSET (Files \ diffList) : toHash' = diffList \cup fs
        /\ unhashed' = toHash'
        /\ hashFins' = ccIo
        /\ hashers' = [i \in Workers |-> Hasher("idle", {})]
     \/ /\ "list" \in Faults
        /\ rpc' = "failed"
        /\ UNCHANGED hashVars
  /\ UNCHANGED <<spc, hand, finSent>>

notHashing ==
  UNCHANGED <<listVars, todo, fins, poolVars, wireVars, hand, finSent, writerVars>>

\* The channel to the hash readers has no buffer.
HashRequest(i, f) ==
  /\ rpc = "hash"
  /\ f \in toHash
  /\ hashers[i].pc = "idle"
  /\ toHash' = toHash \ {f}
  /\ hashers' = [hashers EXCEPT ![i] = Hasher("busy", {f})]
  /\ UNCHANGED <<spc, rpc, hashFins, unhashed>> /\ notHashing

HashFile(i) ==
  /\ hashers[i].pc = "busy"
  /\ unhashed' = unhashed \ hashers[i].file
  /\ hashers' = [hashers EXCEPT ![i] = Hasher("idle", {})]
  /\ UNCHANGED <<spc, rpc, toHash, hashFins>> /\ notHashing

HashFails(i) ==
  /\ "hash" \in Faults
  /\ hashers[i].pc = "busy"
  /\ hashers' = [hashers EXCEPT ![i] = Hasher("failed", @.file)]
  /\ UNCHANGED <<spc, rpc, toHash, hashFins, unhashed>> /\ notHashing

\* As many FINs as there are hash readers, each for one that is free.
HashFin(i) ==
  /\ rpc = "hash"
  /\ toHash = {} /\ hashFins > 0
  /\ hashers[i].pc = "idle"
  /\ hashFins' = hashFins - 1
  /\ hashers' = [hashers EXCEPT ![i] = Hasher("stopped", {})]
  /\ UNCHANGED <<spc, rpc, toHash, unhashed>> /\ notHashing

\* Mutant of Answer: the hash readers are neither stopped nor waited for.
AnswerEarly ==
  /\ rpc = "hash"
  /\ toHash = {}
  /\ rpc' = "loop"
  /\ spc' = IF spc = "list" THEN "spawn" ELSE spc
  /\ UNCHANGED hashVars /\ notHashing

\* hashReaders.Wait, and the answer, if the sender still waits for it.
Answer ==
  LET states == {hashers[i].pc : i \in Workers}
  IN /\ rpc = "hash"
     /\ toHash = {} /\ hashFins = 0
     /\ states \subseteq {"stopped", "failed"}
     /\ IF "failed" \in states
        THEN rpc' = "failed" /\ UNCHANGED spc
        ELSE rpc' = "loop" /\ spc' = IF spc = "list" THEN "spawn" ELSE spc
     /\ UNCHANGED hashVars /\ notHashing

LoopData ==
  /\ \E f \in Listed : \E m \in MessagesOf(f) : LoopReceive(m) /\ hand' = {m}
  /\ UNCHANGED <<spc, rpc, finSent, hashVars>>

LoopFin ==
  /\ LoopReceive(FIN)
  /\ finSent' = TRUE
  /\ UNCHANGED <<spc, rpc, hand, hashVars>>

LoopPut ==
  /\ \E m \in hand : PutInbox(m)
  /\ hand' = {}
  /\ UNCHANGED <<listVars, senderVars, poolVars, wireVars, rpc, finSent, hashVars>>

LoopEnd ==
  /\ rpc = "loop" /\ hand = {}
  /\ writtersDone
  /\ rpc' = "wait"
  /\ UNCHANGED <<listVars, senderVars, poolVars, wireVars, hand, finSent, hashVars,
                 writerVars>>

\* fileWriters.Wait
waitWriters ==
  LET states == {writers[f] : f \in Files}
  IN /\ rpc = "wait"
     /\ "open" \notin states
     /\ rpc' = IF "failed" \in states THEN "failed" ELSE "done"
     /\ UNCHANGED <<listVars, senderVars, poolVars, wireVars, hand, finSent, hashVars,
                 writerVars>>

\* Mutant of Posted: a late answer makes the dataSender post again.
PostedAgain(d) ==
  /\ \E m \in senders[d].msg : PutInbox(m)
  /\ \/ senders' = [senders EXCEPT ![d] = DataSender("idle", {})]
     \/ "timeout" \in Faults /\ UNCHANGED senders
  /\ UNCHANGED <<listVars, senderVars, poolVars, remote, loopVars>>

\* The server answers a posted message once it is in the inbox.
Posted(d) ==
  /\ \E m \in senders[d].msg : PutInbox(m)
  /\ senders' = [senders EXCEPT ![d] = DataSender("idle", {})]
  /\ UNCHANGED <<listVars, senderVars, poolVars, remote, loopVars>>

SenderFails(d) ==
  /\ "sender" \in Faults
  /\ senders[d].pc = "posting"
  /\ senders' = [senders EXCEPT ![d] = DataSender("failed", {})]
  /\ UNCHANGED <<listVars, senderVars, poolVars, remote, loopVars, writerVars>>

WriterWrite(f) ==
  /\ writers[f] = "open"
  /\ \E m \in inboxes[f] :
       /\ inboxes' = [inboxes EXCEPT ![f] = @ \ {m}]
       /\ written' = [written EXCEPT ![f] = @ \cup {m}]
  /\ UNCHANGED <<listVars, senderVars, poolVars, wireVars, loopVars, writers>>

WriterDone(f) ==
  /\ writers[f] = "open"
  /\ written[f] = MessagesOf(f)
  /\ writers' = [writers EXCEPT ![f] = "done"]
  /\ UNCHANGED <<listVars, senderVars, poolVars, wireVars, loopVars, inboxes, written>>

WriterFails(f) ==
  /\ "writer" \in Faults
  /\ writers[f] = "open"
  /\ writers' = [writers EXCEPT ![f] = "failed"]
  /\ UNCHANGED <<listVars, senderVars, poolVars, wireVars, loopVars, inboxes, written>>

-----------------------------------------------------------------------------
SenderStep ==
  \/ SendList \/ ListTimeout \/ spawnReaders
  \/ \E r \in Requests(Files) : sendDataToReaders(r)
  \/ beginStop \/ (\E k \in Kinds : stopReaders(k)) \/ stopped
  \/ waitReaders \/ SendFin \/ (\E d \in Senders : StopSender(d)) \/ waitSenders

ReaderStep(k, i) == ReaderTake(k, i) \/ ReaderSend(k, i)

LoopStep ==
  \/ LoopList \/ (\E i \in Workers, f \in Files : HashRequest(i, f))
  \/ (\E i \in Workers : HashFin(i)) \/ Answer
  \/ LoopData \/ LoopFin \/ LoopPut \/ LoopEnd \/ waitWriters

WriterStep(f) == WriterWrite(f) \/ WriterDone(f)

Failure ==
  \/ ListFails \/ FinTimeout
  \/ \E i \in Workers : HashFails(i)
  \/ \E k \in Kinds, i \in Workers : ReaderFails(k, i)
  \/ \E d \in Senders : SenderFails(d)
  \/ \E f \in Files : WriterFails(f)

Next ==
  \/ SenderStep
  \/ \E k \in Kinds, i \in Workers : ReaderStep(k, i)
  \/ \E d \in Senders : Posted(d)
  \/ LoopStep
  \/ \E i \in Workers : HashFile(i)
  \/ \E f \in Files : WriterStep(f)
  \/ Failure

Spec == Init /\ [][Next]_vars

\* Each of these is a goroutine, which is run when it can go on.
Fairness ==
  /\ WF_vars(SenderStep) /\ WF_vars(LoopStep)
  /\ \A k \in Kinds, i \in Workers : WF_vars(ReaderStep(k, i))
  /\ \A d \in Senders : WF_vars(Posted(d))
  /\ \A i \in Workers : WF_vars(HashFile(i))
  /\ \A f \in Files : WF_vars(WriterStep(f))

FairSpec == Spec /\ Fairness

-----------------------------------------------------------------------------
\* Every variable holds a value of the kind the code gives it, and the channels
\* and inboxes no more than they have room for.
TypeOK ==
  /\ spc \in {"start", "list", "spawn", "send", "stop", "wait", "fin", "done", "failed"}
  /\ todo \subseteq Requests(Listed)
  /\ \A k \in Kinds : Len(readerCh[k]) <= ccIo
  /\ \A k \in Kinds, i \in Workers :
       readers[k][i].pc \in {"none", "idle", "busy", "stopped", "failed"}
  /\ \A i \in Workers :
       hashers[i].pc \in {"none", "idle", "busy", "stopped", "failed"}
  /\ toHash \subseteq unhashed
  /\ Len(remote) <= ccIo
  /\ \A f \in Files :
       /\ Cardinality(inboxes[f]) <= InboxCap(f)
       /\ inboxes[f] \cup written[f] \subseteq MessagesOf(f)
       /\ writers[f] \in {"none", "open", "done", "failed"}

\* Where a message is: on its way to the receiver, in its hands, or with the
\* writer.
Copies(m) ==
  Cardinality({n \in DOMAIN remote : remote[n] = m})
    + Cardinality({d \in Senders : m \in senders[d].msg})
    + Cardinality(hand \cap {m}) + Cardinality(inboxes[m.file] \cap {m})
    + Cardinality(written[m.file] \cap {m})

Waiting(r) == r \in todo \/ \E n \in DOMAIN readerCh[KindOf(r)] :
                              readerCh[KindOf(r)][n] = r

Begun == \E k \in Kinds, i \in Workers : readers[k][i].pc # "none"

Holders(r) == {i \in Workers : r \in readers[KindOf(r)][i].req}

Sent(r, n) ==
  ~Waiting(r) /\ \A i \in Holders(r) : n < readers[KindOf(r)][i].seq

\* A request is read by one reader of its pool and from beginning to end; of
\* the stream there is, in all channels, inboxes and files together, exactly
\* what has been read so far, each message once, whatever fails on the way;
\* only what a failed dataSender had in hand may be gone.
Conserved ==
  Begun =>
    \A r \in Requests(Listed) :
      /\ Cardinality(Holders(r)) + (IF Waiting(r) THEN 1 ELSE 0) <= 1
      /\ \A n \in 0..Last :
           /\ Copies(Message(r, n)) <= IF Sent(r, n) THEN 1 ELSE 0
           /\ Sent(r, n) /\ (\A d \in Senders : senders[d].pc # "failed")
                => Copies(Message(r, n)) = 1

\* A sender that ends without an error has left nothing behind: no request in a
\* pool's channel, and every message with its writer, or, in local mode, on its
\* way there before the FIN.
Delivered ==
  spc = "done" =>
    /\ \A k \in Kinds : readerCh[k] = << >>
    /\ \A f \in Listed : \A m \in MessagesOf(f) :
         \/ m \in inboxes[f] \cup written[f]
         \/ /\ Mode = "local" /\ ~finSent
            /\ m \in hand \/ \E n \in DOMAIN remote : remote[n] = m

\* The receiving loop of local mode answers only when every file that differs
\* has its sums, and ends without an error only when every file of the lists has
\* been written to its end.
ReceiverComplete ==
  Mode = "local" =>
    /\ spc \notin {"start", "list", "failed"} => diffList \cap unhashed = {}
    /\ rpc = "done" =>
         /\ spc = "done"
         /\ \A f \in Listed : writers[f] = "done" /\ written[f] = MessagesOf(f)

\* Something has gone wrong.
Broken ==
  \/ "failed" \in {spc, rpc}
  \/ \E k \in Kinds, i \in Workers : readers[k][i].pc = "failed"
  \/ \E i \in Workers : hashers[i].pc = "failed"
  \/ \E d \in Senders : senders[d].pc = "failed"
  \/ \E f \in Files : writers[f] = "failed"

\* The sender and, in local mode, the receiver have ended without an error.
Finished == spc = "done" /\ (Mode = "local" => rpc = "done")

\* A pool that was spawned though it has no file to read gets no FIN: a rolling
\* one in local mode, one for missing files in client mode.
NeverStopped(k) ==
  Spawned(k) /\ (IF k = "roll" THEN diffList = {} ELSE missList = {})

\* The sender is at g.Wait, and the only readers that have not returned are those
\* of a pool that nobody stops.
WaitsForIdle ==
  /\ spc = "wait"
  /\ \E k \in Kinds : NeverStopped(k)
  /\ \A k \in Kinds, i \in Workers :
       readers[k][i].pc \in (IF NeverStopped(k) THEN {"idle"} ELSE {"none", "stopped"})

\* Unless something fails, every listed file is written to its end, and the run
\* ends on both sides, or the sender waits for a pool that it should not have
\* spawned: no order of requests, messages, FINs and writes makes the channels,
\* pools and inboxes wait for each other.
RunCompletes ==
  <>(Broken \/ ((\A f \in Listed : writers[f] = "done") /\ (Finished \/ WaitsForIdle)))

\* A command with something to send ends: the sender "stop[s] the readers if in
\* sync once mode", when "all data [is] sent" (sender.go).
RunEnds ==
  Listed # {} => <>(spc \in {"done", "failed"} /\ (Mode = "local" => rpc \in {"done", "failed"}))

=============================================================================
