---------------------------- MODULE HttpReceiver ----------------------------
(***************************************************************************)
(* The data path of client/server mode for ONE file: the readers of the    *)
(* client hand the messages of each stream, in order, to 2*ccIo dataSender *)
(* goroutines over an unbuffered channel (workers/helpers.go); each posts  *)
(* its message to the server and waits for the answer; the server runs a   *)
(* handler, processData (workers/receiver.go), for every request, and the  *)
(* handlers share the map from files to writers.  The writers themselves   *)
(* are those of FileWriter.                                                *)
(***************************************************************************)
EXTENDS FileWriter

CONSTANTS
  DataSenders, \* the dataSender goroutines of the client
  MayTimeout   \* whether a request may time out or be lost

ASSUME HttpAssumption ==
  /\ Transport = "http"
  /\ ~MayCancel
  /\ MayTimeout \in BOOLEAN
  /\ DataSenders # {}

VARIABLES
  produced, \* produced[o]: messages of stream o its reader has handed over
  posting,  \* message each dataSender has posted, at most one
  stopped,  \* dataSenders that have received their FIN
  dead,     \* dataSenders that have returned an error
  handler,  \* where the handler of each message is
  target,   \* the writer the handler of a message puts it to, at most one
  entry     \* the entry of the file in fileWritersLMap, at most one writer

clientVars == <<produced, posting, stopped, dead>>
serverVars == <<handler, target, entry>>
httpVars == <<vars, clientVars, serverVars>>

HttpInit ==
  /\ Init
  /\ produced = [o \in Offsets |-> 0]
  /\ posting = [d \in DataSenders |-> {}]
  /\ stopped = {}
  /\ dead = {}
  /\ handler = [m \in Msgs |-> "none"]
  /\ target = [m \in Msgs |-> {}]
  /\ entry = {}

Free(d) == posting[d] = {} /\ d \notin stopped \cup dead

-----------------------------------------------------------------------------
\* The client.

\* Mutant of Post: the dataSender does not wait for the answer.
PostAhead(d, m) ==
  /\ d \notin stopped \cup dead
  /\ m.seq = produced[m.off]
  /\ produced' = [produced EXCEPT ![m.off] = @ + 1]
  /\ posting' = [posting EXCEPT ![d] = @ \cup {m}]
  /\ handler' = [handler EXCEPT ![m] = "wire"]
  /\ UNCHANGED <<vars, stopped, dead, target, entry>>

\* A free dataSender receives the next message of a stream and posts it.
Post(d, m) ==
  /\ Free(d)
  /\ m.seq = produced[m.off]
  /\ produced' = [produced EXCEPT ![m.off] = @ + 1]
  /\ posting' = [posting EXCEPT ![d] = {m}]
  /\ handler' = [handler EXCEPT ![m] = "wire"]
  /\ UNCHANGED <<vars, stopped, dead, target, entry>>

\* The answer makes the dataSender free for its next message.
Answer(d, m) ==
  /\ m \in posting[d]
  /\ handler[m] = "acked"
  /\ posting' = [posting EXCEPT ![d] = {}]
  /\ UNCHANGED <<vars, produced, stopped, dead, serverVars>>

\* The HTTP client gives up waiting, and the dataSender returns; the handler,
\* if the request has reached the server, goes on.
Timeout(d) ==
  /\ MayTimeout
  /\ posting[d] # {}
  /\ posting' = [posting EXCEPT ![d] = {}]
  /\ dead' = dead \cup {d}
  /\ UNCHANGED <<vars, produced, stopped, serverVars>>

\* Mutant of Fin: a dataSender is stopped whatever it is doing.
FinBusy(d) ==
  /\ d \notin stopped \cup dead
  /\ \A o \in Offsets : produced[o] = LastSeq[o] + 1
  /\ stopped' = stopped \cup {d}
  /\ UNCHANGED <<vars, produced, posting, dead, serverVars>>

\* After the readers the client stops the dataSenders, one FIN for each.
Fin(d) ==
  /\ Free(d)
  /\ \A o \in Offsets : produced[o] = LastSeq[o] + 1
  /\ stopped' = stopped \cup {d}
  /\ UNCHANGED <<vars, produced, posting, dead, serverVars>>

-----------------------------------------------------------------------------
\* The server: processData, one step for each access to the shared map and
\* to an inbox.

Arrive(m) ==
  /\ handler[m] = "wire"
  /\ handler' = [handler EXCEPT ![m] = "lookup"]
  /\ UNCHANGED <<vars, clientVars, target, entry>>

\* Mutant of Lose: the handler gives up with the request, its message in hand.
LoseHeld(m) ==
  /\ MayTimeout
  /\ handler[m] = "put"
  /\ handler' = [handler EXCEPT ![m] = "lost"]
  /\ held' = [w \in Writers |-> held[w] \ {m}]
  /\ UNCHANGED <<srcFd, fdVars, cancelled, pc, own, inbox, tmpVars, left,
                 clientVars, target, entry>>

\* A request is lost on the way, which its sender learns by the timeout.
Lose(m) ==
  /\ MayTimeout
  /\ handler[m] = "wire"
  /\ handler' = [handler EXCEPT ![m] = "lost"]
  /\ UNCHANGED <<vars, clientVars, target, entry>>

\* GetWritter, with the mutex held: the file has a writer.
Found(m, w) ==
  /\ handler[m] = "lookup"
  /\ w \in entry
  /\ handler' = [handler EXCEPT ![m] = "put"]
  /\ target' = [target EXCEPT ![m] = {w}]
  /\ Route(w, m)
  /\ UNCHANGED <<clientVars, entry>>

\* GetWritter finds none.
NotFound(m) ==
  /\ handler[m] = "lookup"
  /\ entry = {}
  /\ handler' = [handler EXCEPT ![m] = "make"]
  /\ UNCHANGED <<vars, clientVars, target, entry>>

\* A new writer is made, entered with AddWritter, which holds the mutex but
\* looks at nothing, and started.
Make(m, w) ==
  /\ handler[m] = "make"
  /\ pc[w] = "none"
  /\ handler' = [handler EXCEPT ![m] = "put"]
  /\ target' = [target EXCEPT ![m] = {w}]
  /\ entry' = {w}
  /\ Route(w, m)
  /\ UNCHANGED clientVars

\* Mutant of HandlerPut: the answer comes before the message is in the inbox.
HandlerAnswers(m, w) ==
  /\ handler[m] = "put"
  /\ w \in target[m]
  /\ handler' = [handler EXCEPT ![m] = "acked"]
  /\ UNCHANGED <<vars, clientVars, target, entry>>

\* The handler puts the message into the inbox and answers.
HandlerPut(m, w) ==
  /\ handler[m] = "put"
  /\ w \in target[m]
  /\ Put(w, m)
  /\ handler' = [handler EXCEPT ![m] = "acked"]
  /\ UNCHANGED <<clientVars, target, entry>>

\* Mutant of Write: closeFunc runs on every return, a failed one included.
WriteDefers(w) ==
  /\ WriterStep(w)
  /\ entry' = IF pc'[w] \in {"done", "failed"} THEN {} ELSE entry
  /\ UNCHANGED <<clientVars, handler, target>>

\* A step of a writer; closeFunc is RemWritter, which deletes the entry of the
\* file whichever writer it holds.
Write(w) ==
  /\ WriterStep(w)
  /\ entry' = IF pc'[w] = "done" THEN {} ELSE entry
  /\ UNCHANGED <<clientVars, handler, target>>

-----------------------------------------------------------------------------
Handler(m) ==
  \/ Arrive(m)
  \/ NotFound(m)
  \/ \E w \in Writers : Found(m, w) \/ Make(m, w) \/ HandlerPut(m, w)

Client(d) == Fin(d) \/ \E m \in Msgs : Post(d, m) \/ Answer(d, m)

HttpNext ==
  \/ \E d \in DataSenders : Client(d) \/ Timeout(d)
  \/ \E m \in Msgs : Handler(m) \/ Lose(m)
  \/ \E w \in Writers : Write(w)

HttpSpec == HttpInit /\ [][HttpNext]_httpVars

\* Every goroutine of client and server that can go on is run.
HttpFairness ==
  /\ \A d \in DataSenders : WF_httpVars(Client(d))
  /\ \A m \in Msgs : WF_httpVars(Handler(m))
  /\ \A w \in Writers : WF_httpVars(Write(w))

HttpFairSpec == HttpSpec /\ HttpFairness

-----------------------------------------------------------------------------
\* The handlers' and clients' variables hold values of the kind the code gives
\* them, and a dataSender posts one message at a time.
HttpTypeOK ==
  /\ TypeOK
  /\ produced \in [Offsets -> Nat]
  /\ \A o \in Offsets : produced[o] <= LastSeq[o] + 1
  /\ posting \in [DataSenders -> {{}} \cup {{m} : m \in Msgs}]
  /\ stopped \subseteq DataSenders /\ dead \subseteq DataSenders
  /\ handler \in [Msgs -> {"none", "wire", "lost", "lookup", "make", "put", "acked"}]
  /\ target \in [Msgs -> {{}} \cup {{w} : w \in Writers}]
  /\ entry \in {{}} \cup {{w} : w \in Writers}

\* An acknowledged message is with exactly one writer and not with its handler
\* any more, in whatever order the requests of the streams were handled.
AckedTaken ==
  \A m \in Msgs : handler[m] = "acked" =>
    \E w \in Writers :
      /\ m \in own[w] \ held[w]
      /\ \A v \in Writers : m \in own[v] => v = w

\* A writer that has been given some of the messages of the file, and not all.
Unfinished(w) == own[w] \notin {{}, Msgs}

\* As long as a writer is unfinished, the map leads to an unfinished writer of
\* the file: to that one, or, when two handlers have missed the entry (Make
\* enters a writer over one that waits), to the one that was entered last.
\* closeFunc, which deletes the entry whichever writer it holds, runs only when
\* no writer of the file is unfinished, and a failed writer keeps its entry.
UnfinishedEntered ==
  \A w \in Writers : Unfinished(w) => \E v \in Writers : entry = {v} /\ Unfinished(v)

\* A client whose dataSenders have all been stopped has had every message of
\* the file acknowledged.
StoppedAcked ==
  stopped = DataSenders => \A m \in Msgs : handler[m] = "acked"

Made == {w \in Writers : pc[w] # "none"}

\* When the handlers have met one writer only, a file whose messages were all
\* acknowledged ends up complete under its name, unless the writer gives up
\* (see NoWriterFails).
AckedInstalled ==
  (\A m \in Msgs : handler[m] = "acked") /\ (\A v, w \in Made : v = w)
    ~> Whole(dst) \/ (\E w \in Made : pc[w] = "failed")

\* A file has one writer: what the mutex around the map is for
\* (receiver.go: "mutex safe").
SingleWriter == \A v, w \in Made : v = w

=============================================================================
