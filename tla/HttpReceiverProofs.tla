------------------------- MODULE HttpReceiverProofs -------------------------
(***************************************************************************)
(* Proofs about the data path of client/server mode, for any streams,      *)
(* writers, dataSenders, lost requests and timeouts: it implements the     *)
(* specification of the writers, and what it acknowledges is taken.        *)
(***************************************************************************)
EXTENDS HttpReceiver, FileWriterProofs

Stages == {"none", "wire", "lost", "lookup", "make", "put", "acked"}

\* No step of a writer takes or gives back messages.
LEMMA WriterOwns ==
  ASSUME NEW w \in Writers, WriterStep(w)
  PROVE  UNCHANGED <<own, held>>
BY DEF WriterStep, Open, CacheMsg, ReceiveData, ReceiveEnd, DrainData, DrainEnd,
       WriteFailure, DrainDone, CtxDone, RebuildRename, RebuildPanic, RebuildCreate,
       Merge, MergeDone, Unref, Close, IoFailure, chanVars

\* Every step is one of a writer, of the receiver at a writer's inbox, or leaves
\* writers and files alone.
LEMMA StepSimulation == [HttpNext]_httpVars => [Next]_vars
<1> SUFFICES ASSUME HttpNext PROVE [Next]_vars
  BY DEF httpVars
<1>1. ASSUME NEW d \in DataSenders, Client(d) \/ Timeout(d) PROVE UNCHANGED vars
  BY <1>1 DEF Client, Fin, Post, Answer, Timeout
<1>2. ASSUME NEW m \in Msgs, Lose(m) \/ Arrive(m) \/ NotFound(m) PROVE UNCHANGED vars
  BY <1>2 DEF Lose, Arrive, NotFound
<1>3. ASSUME NEW m \in Msgs, NEW w \in Writers,
             Found(m, w) \/ Make(m, w) \/ HandlerPut(m, w)
      PROVE  Route(w, m) \/ Put(w, m)
  BY <1>3 DEF Found, Make, HandlerPut
<1>4. ASSUME NEW w \in Writers, Write(w) PROVE WriterStep(w)
  BY <1>4 DEF Write
<1> QED
  BY <1>1, <1>2, <1>3, <1>4 DEF HttpNext, Handler, Next

\* The handlers and dataSenders around the writers implement the specification
\* in which messages are simply taken for one writer or another (processData in
\* receiver.go, dataSender in helpers.go): Spec, and with it every theorem of
\* FileWriterProofs.
THEOREM HttpImplementsWriters == HttpSpec => Spec
<1>1. HttpInit => Init
  BY DEF HttpInit
<1> QED
  BY <1>1, StepSimulation, PTL DEF HttpSpec, Spec

LEMMA WritersInvariant == HttpSpec => []IInv
BY HttpImplementsWriters, Inductive, PTL

-----------------------------------------------------------------------------
(* Types. *)

Types ==
  /\ produced \in [Offsets -> Nat]
  /\ \A o \in Offsets : produced[o] <= LastSeq[o] + 1
  /\ posting \in [DataSenders -> {{}} \cup {{m} : m \in Msgs}]
  /\ stopped \subseteq DataSenders /\ dead \subseteq DataSenders
  /\ handler \in [Msgs -> Stages]
  /\ target \in [Msgs -> {{}} \cup {{w} : w \in Writers}]
  /\ entry \in {{}} \cup {{w} : w \in Writers}

LEMMA TypesStep ==
  ASSUME Types, [HttpNext]_httpVars
  PROVE  Types'
<1>1. ASSUME NEW d \in DataSenders, NEW m \in Msgs, Post(d, m) PROVE Types'
  <2>1. m.off \in Offsets /\ m.seq \in Nat /\ m.seq <= LastSeq[m.off]
    BY MsgsType
  <2>2. produced' = [produced EXCEPT ![m.off] = @ + 1] /\ m.seq = produced[m.off]
    BY <1>1 DEF Post
  <2>3. /\ produced' \in [Offsets -> Nat]
        /\ \A o \in Offsets : produced'[o] <= LastSeq[o] + 1
    <3>1. produced \in [Offsets -> Nat] /\ \A o \in Offsets : produced[o] <= LastSeq[o] + 1
      BY DEF Types
    <3>2. \A o \in Offsets :
            produced'[o] = IF o = m.off THEN produced[o] + 1 ELSE produced[o]
      BY <2>2, <3>1
    <3>3. LastSeq[m.off] \in Nat
      BY <2>1, LastSeqAssumption
    <3>4. produced'[m.off] <= LastSeq[m.off] + 1
      BY <2>1, <2>2, <3>2, <3>3
    <3>5. \A o \in Offsets : produced'[o] <= LastSeq[o] + 1
      <4> TAKE o \in Offsets
      <4>1. CASE o = m.off
        BY <3>4, <4>1
      <4>2. CASE o # m.off
        BY <3>1, <3>2, <4>2
      <4> QED
        BY <4>1, <4>2
    <3>6. produced' \in [Offsets -> Nat]
      <4>1. produced[m.off] + 1 \in Nat
        BY <2>1, <3>1
      <4> QED
        BY <2>2, <3>1, <4>1
    <3> QED
      BY <3>5, <3>6
  <2> QED
    BY <1>1, <2>3 DEF Post, Types, Stages
<1>2. ASSUME NEW d \in DataSenders, NEW m \in Msgs, Answer(d, m) PROVE Types'
  BY <1>2 DEF Answer, Types, serverVars
<1>3. ASSUME NEW d \in DataSenders, Timeout(d) \/ Fin(d) PROVE Types'
  BY <1>3 DEF Timeout, Fin, Types, serverVars
<1>4. ASSUME NEW m \in Msgs, Lose(m) \/ Arrive(m) \/ NotFound(m) PROVE Types'
  BY <1>4 DEF Lose, Arrive, NotFound, Types, Stages, clientVars
<1>5. ASSUME NEW m \in Msgs, NEW w \in Writers,
             Found(m, w) \/ Make(m, w) \/ HandlerPut(m, w)
      PROVE  Types'
  BY <1>5 DEF Found, Make, HandlerPut, Types, Stages, clientVars
<1>6. ASSUME NEW w \in Writers, Write(w) PROVE Types'
  BY <1>6 DEF Write, Types, clientVars
<1>7. CASE UNCHANGED httpVars
  BY <1>7 DEF httpVars, clientVars, serverVars, Types
<1> QED
  BY <1>1, <1>2, <1>3, <1>4, <1>5, <1>6, <1>7 DEF HttpNext, Client, Handler

LEMMA TypesInvariant == HttpSpec => []Types
<1>1. HttpInit => Types
  BY LastSeqAssumption DEF HttpInit, Types, Stages
<1> QED
  BY <1>1, TypesStep, PTL DEF HttpSpec

\* Handlers, dataSenders and the map hold values of their kinds, and a
\* dataSender posts one message at a time: HttpTypeOK.
THEOREM HttpTyped == HttpSpec => []HttpTypeOK
<1>1. Types /\ IInv => HttpTypeOK
  BY DEF Types, IInv, HttpTypeOK, Stages
<1> QED
  BY <1>1, TypesInvariant, WritersInvariant, PTL

-----------------------------------------------------------------------------
(* What a handler has taken. *)

\* A message that is still to be put is with the handler that routed it, and
\* an acknowledged one in an inbox.
Takes ==
  \A m \in Msgs :
    /\ \A w \in Writers : m \in held[w] => handler[m] = "put"
    /\ handler[m] = "put" => \E w \in Writers : target[m] = {w} /\ m \in own[w]
    /\ handler[m] = "acked" => \E w \in Writers : m \in own[w] \ held[w]

LEMMA RouteTakes ==
  ASSUME Types, IInv, Takes, NEW m \in Msgs, NEW w \in Writers, Route(w, m),
         handler' = [handler EXCEPT ![m] = "put"],
         target' = [target EXCEPT ![m] = {w}],
         handler[m] \notin {"put", "acked"}
  PROVE  Takes'
<1>1. /\ own' = [own EXCEPT ![w] = @ \cup {m}]
      /\ held' = [held EXCEPT ![w] = @ \cup {m}]
      /\ own \in [Writers -> SUBSET Msgs] /\ held \in [Writers -> SUBSET Msgs]
  BY DEF Route, IInv, TypeOK
<1>2. ASSUME NEW k \in Msgs
      PROVE  /\ \A v \in Writers : k \in held'[v] => handler'[k] = "put"
             /\ handler'[k] = "put" => \E v \in Writers : target'[k] = {v} /\ k \in own'[v]
             /\ handler'[k] = "acked" => \E v \in Writers : k \in own'[v] \ held'[v]
  <2>1. CASE k = m
    BY <1>1, <2>1 DEF Types
  <2>2. CASE k # m
    <3>1. /\ handler'[k] = handler[k] /\ target'[k] = target[k]
          /\ \A v \in Writers : (k \in own'[v] <=> k \in own[v])
                                /\ (k \in held'[v] <=> k \in held[v])
      BY <1>1, <2>2 DEF Types
    <3> QED
      BY <3>1 DEF Takes
  <2> QED
    BY <2>1, <2>2
<1> QED
  BY <1>2 DEF Takes

LEMMA PutTakes ==
  ASSUME Types, IInv, Takes, NEW m \in Msgs, NEW w \in Writers, HandlerPut(m, w)
  PROVE  Takes'
<1>1. /\ m \in held[w] /\ held' = [held EXCEPT ![w] = @ \ {m}] /\ own' = own
      /\ handler' = [handler EXCEPT ![m] = "acked"] /\ target' = target
      /\ own \in [Writers -> SUBSET Msgs] /\ held \in [Writers -> SUBSET Msgs]
  BY DEF HandlerPut, Put, IInv, TypeOK
<1>2. m \in own[w] /\ \A v \in Writers : v # w => m \notin own[v] /\ m \notin held[v]
  BY <1>1 DEF IInv, Ownership
<1>3. ASSUME NEW k \in Msgs
      PROVE  /\ \A v \in Writers : k \in held'[v] => handler'[k] = "put"
             /\ handler'[k] = "put" => \E v \in Writers : target'[k] = {v} /\ k \in own'[v]
             /\ handler'[k] = "acked" => \E v \in Writers : k \in own'[v] \ held'[v]
  <2>1. CASE k = m
    BY <1>1, <1>2, <2>1 DEF Types
  <2>2. CASE k # m
    <3>1. /\ handler'[k] = handler[k]
          /\ \A v \in Writers : k \in held'[v] <=> k \in held[v]
      BY <1>1, <2>2 DEF Types
    <3> QED
      BY <1>1, <3>1 DEF Takes
  <2> QED
    BY <2>1, <2>2
<1> QED
  BY <1>3 DEF Takes

\* A handler that only moves on before it has routed its message.
LEMMA EarlyTakes ==
  ASSUME Types, Takes, NEW m \in Msgs, UNCHANGED <<own, held, target>>,
         NEW s \in {"wire", "lost", "lookup", "make"},
         handler' = [handler EXCEPT ![m] = s],
         handler[m] \notin {"put", "acked"}
  PROVE  Takes'
<1>1. \A k \in Msgs : handler'[k] = IF k = m THEN s ELSE handler[k]
  BY DEF Types
<1> QED
  BY <1>1 DEF Takes

\* A message is posted once, when its number is the next one of its stream.
Posted ==
  \A m \in Msgs : handler[m] = "none" <=> produced[m.off] <= m.seq

LEMMA TakesStep ==
  ASSUME Types, IInv, Takes, Posted, [HttpNext]_httpVars
  PROVE  Takes'
<1>1. ASSUME NEW d \in DataSenders, NEW m \in Msgs, Post(d, m) PROVE Takes'
  <2>1. handler[m] = "none"
    BY <1>1, MsgsType DEF Post, Posted, Types
  <2> QED
    BY <1>1, <2>1, EarlyTakes DEF Post, vars, chanVars
<1>2. ASSUME UNCHANGED <<own, held, handler, target>> PROVE Takes'
  BY <1>2 DEF Takes
<1>3. ASSUME NEW d \in DataSenders, NEW m \in Msgs, Answer(d, m) PROVE Takes'
  BY <1>2, <1>3 DEF Answer, vars, chanVars, serverVars
<1>4. ASSUME NEW d \in DataSenders, Timeout(d) \/ Fin(d) PROVE Takes'
  BY <1>2, <1>4 DEF Timeout, Fin, vars, chanVars, serverVars
<1>5. ASSUME NEW m \in Msgs, Lose(m) \/ Arrive(m) \/ NotFound(m) PROVE Takes'
  BY <1>5, EarlyTakes DEF Lose, Arrive, NotFound, vars, chanVars
<1>6. ASSUME NEW m \in Msgs, NEW w \in Writers, Found(m, w) \/ Make(m, w)
      PROVE  Takes'
  BY <1>6, RouteTakes DEF Found, Make
<1>7. ASSUME NEW m \in Msgs, NEW w \in Writers, HandlerPut(m, w) PROVE Takes'
  BY <1>7, PutTakes
<1>8. ASSUME NEW w \in Writers, Write(w) PROVE Takes'
  BY <1>2, <1>8, WriterOwns DEF Write
<1>9. CASE UNCHANGED httpVars
  BY <1>2, <1>9 DEF httpVars, vars, chanVars, serverVars
<1> QED
  BY <1>1, <1>3, <1>4, <1>5, <1>6, <1>7, <1>8, <1>9 DEF HttpNext, Client, Handler

LEMMA PostedStep ==
  ASSUME Types, Posted, [HttpNext]_httpVars
  PROVE  Posted'
<1>1. ASSUME produced' = produced,
             \A m \in Msgs : handler'[m] = "none" <=> handler[m] = "none"
      PROVE  Posted'
  BY <1>1 DEF Posted
<1>2. ASSUME NEW d \in DataSenders, NEW m \in Msgs, Post(d, m) PROVE Posted'
  <2>1. /\ m.off \in Offsets /\ m.seq \in Nat
        /\ m.seq = produced[m.off]
        /\ produced' = [produced EXCEPT ![m.off] = @ + 1]
        /\ handler' = [handler EXCEPT ![m] = "wire"]
    BY <1>2, MsgsType DEF Post
  <2>2. ASSUME NEW k \in Msgs PROVE (handler[k] = "none" <=> produced[k.off] <= k.seq)'
    <3>1. k.off \in Offsets /\ k.seq \in Nat
          /\ k = [off |-> k.off, seq |-> k.seq] /\ m = [off |-> m.off, seq |-> m.seq]
      BY MsgsType
    <3>2. CASE k = m
      BY <2>1, <3>2 DEF Types
    <3>3. CASE k # m /\ k.off = m.off
      <4>1. k.seq # m.seq
        BY <3>1, <3>3
      <4>2. handler'[k] = handler[k] /\ produced'[k.off] = m.seq + 1
            /\ produced[k.off] = m.seq
        BY <2>1, <3>3 DEF Types
      <4> QED
        BY <2>1, <3>1, <4>1, <4>2 DEF Posted
    <3>4. CASE k.off # m.off
      <4>1. handler'[k] = handler[k] /\ produced'[k.off] = produced[k.off]
        BY <2>1, <3>1, <3>4 DEF Types
      <4> QED
        BY <4>1 DEF Posted
    <3> QED
      BY <3>2, <3>3, <3>4
  <2> QED
    BY <2>2 DEF Posted
<1>3. ASSUME NEW d \in DataSenders, NEW m \in Msgs, Answer(d, m) PROVE Posted'
  BY <1>1, <1>3 DEF Answer, serverVars
<1>4. ASSUME NEW d \in DataSenders, Timeout(d) \/ Fin(d) PROVE Posted'
  BY <1>1, <1>4 DEF Timeout, Fin, serverVars
<1>5. ASSUME NEW m \in Msgs, Lose(m) \/ Arrive(m) \/ NotFound(m) PROVE Posted'
  BY <1>1, <1>5 DEF Lose, Arrive, NotFound, clientVars, Types
<1>6. ASSUME NEW m \in Msgs, NEW w \in Writers,
             Found(m, w) \/ Make(m, w) \/ HandlerPut(m, w)
      PROVE  Posted'
  BY <1>1, <1>6 DEF Found, Make, HandlerPut, clientVars, Types
<1>7. ASSUME NEW w \in Writers, Write(w) PROVE Posted'
  BY <1>1, <1>7 DEF Write, clientVars
<1>8. CASE UNCHANGED httpVars
  BY <1>1, <1>8 DEF httpVars, clientVars, serverVars
<1> QED
  BY <1>2, <1>3, <1>4, <1>5, <1>6, <1>7, <1>8 DEF HttpNext, Client, Handler

LEMMA TakesInvariant == HttpSpec => [](Takes /\ Posted)
<1>1. HttpInit => Takes /\ Posted
  BY MsgsType DEF HttpInit, Init, Takes, Posted
<1>2. Types /\ IInv /\ Takes /\ Posted /\ [HttpNext]_httpVars => Takes' /\ Posted'
  BY TakesStep, PostedStep
<1> QED
  BY <1>1, <1>2, TypesInvariant, WritersInvariant, PTL DEF HttpSpec

\* What the server answers for is with exactly one writer, in its inbox or
\* beyond, however handlers, timeouts and writers interleave (processData in
\* receiver.go): AckedTaken.
THEOREM AcknowledgedOnce == HttpSpec => []AckedTaken
<1>1. Takes /\ IInv => AckedTaken
  BY DEF Takes, IInv, TypeOK, Ownership, AckedTaken
<1> QED
  BY <1>1, TakesInvariant, WritersInvariant, PTL

-----------------------------------------------------------------------------
(* The dataSenders. *)

\* A message that is on its way has a dataSender that waits for its answer, or
\* one has given up; and none that is to stop waits.
Waits ==
  /\ stopped \cap dead = {}
  /\ \A d \in stopped : posting[d] = {}
  /\ stopped # {} => \A o \in Offsets : produced[o] = LastSeq[o] + 1
  /\ dead = {} =>
       \A m \in Msgs : handler[m] \notin {"none", "acked"} =>
         \E d \in DataSenders : posting[d] = {m}

\* A request stays on its way, or is answered.
LEMMA HandledWaits ==
  ASSUME Waits, UNCHANGED clientVars,
         \A m \in Msgs : handler'[m] \notin {"none", "acked"} =>
           handler[m] \notin {"none", "acked"}
  PROVE  Waits'
BY DEF Waits, clientVars

LEMMA WaitsStep ==
  ASSUME Types, Posted, Waits, [HttpNext]_httpVars
  PROVE  Waits'
<1>1. ASSUME NEW d \in DataSenders, NEW m \in Msgs, Post(d, m) PROVE Waits'
  <2>1. /\ posting[d] = {} /\ d \notin stopped /\ d \notin dead
        /\ m.off \in Offsets /\ m.seq \in Nat /\ m.seq <= LastSeq[m.off]
        /\ m.seq = produced[m.off]
        /\ posting' = [posting EXCEPT ![d] = {m}]
        /\ handler' = [handler EXCEPT ![m] = "wire"]
        /\ UNCHANGED <<stopped, dead>>
    BY <1>1, MsgsType DEF Post, Free
  <2>2. stopped = {}
    BY <2>1, LastSeqAssumption DEF Waits
  <2>3. \A k \in Msgs : handler'[k] = IF k = m THEN "wire" ELSE handler[k]
    BY <2>1 DEF Types
  <2>4. posting'[d] = {m} /\ \A e \in DataSenders : e # d => posting'[e] = posting[e]
    BY <2>1 DEF Types
  <2>5. ASSUME dead = {}, NEW k \in Msgs, handler'[k] \notin {"none", "acked"}
        PROVE  \E e \in DataSenders : posting'[e] = {k}
    <3>1. CASE k = m
      BY <2>4, <3>1
    <3>2. CASE k # m
      <4>1. PICK e \in DataSenders : posting[e] = {k}
        BY <2>3, <2>5, <3>2 DEF Waits
      <4>2. e # d
        BY <2>1, <4>1
      <4> QED
        BY <2>4, <4>1, <4>2
    <3> QED
      BY <3>1, <3>2
  <2> QED
    BY <2>1, <2>2, <2>5 DEF Waits
<1>2. ASSUME NEW d \in DataSenders, NEW m \in Msgs, Answer(d, m) PROVE Waits'
  <2>1. /\ m \in posting[d] /\ handler[m] = "acked"
        /\ posting' = [posting EXCEPT ![d] = {}]
        /\ UNCHANGED <<produced, stopped, dead, handler>>
    BY <1>2 DEF Answer, serverVars
  <2>2. posting[d] = {m}
    BY <2>1 DEF Types
  <2>3. \A e \in DataSenders : posting'[e] = IF e = d THEN {} ELSE posting[e]
    BY <2>1 DEF Types
  <2>4. \A e \in stopped : posting'[e] = {}
    BY <2>3 DEF Waits, Types
  <2>5. \A k \in Msgs : \A e \in DataSenders :
          handler[k] # "acked" /\ posting[e] = {k} => posting'[e] = {k}
    BY <2>1, <2>2, <2>3
  <2> QED
    BY <2>1, <2>4, <2>5 DEF Waits
<1>3. ASSUME NEW d \in DataSenders, Timeout(d) PROVE Waits'
  <2>1. /\ posting[d] # {} /\ dead' = dead \cup {d}
        /\ posting' = [posting EXCEPT ![d] = {}]
        /\ UNCHANGED <<produced, stopped, handler>>
    BY <1>3 DEF Timeout, serverVars
  <2>2. d \notin stopped /\ dead' # {}
    BY <2>1 DEF Waits
  <2>3. \A e \in stopped : posting'[e] = {}
    BY <2>1 DEF Waits, Types
  <2> QED
    BY <2>1, <2>2, <2>3 DEF Waits
<1>4. ASSUME NEW d \in DataSenders, Fin(d) PROVE Waits'
  BY <1>4 DEF Fin, Free, Waits, serverVars
<1>5. ASSUME NEW m \in Msgs, Lose(m) \/ Arrive(m) \/ NotFound(m) PROVE Waits'
  BY <1>5, HandledWaits DEF Lose, Arrive, NotFound, clientVars, Types
<1>6. ASSUME NEW m \in Msgs, NEW w \in Writers,
             Found(m, w) \/ Make(m, w) \/ HandlerPut(m, w)
      PROVE  Waits'
  BY <1>6, HandledWaits DEF Found, Make, HandlerPut, clientVars, Types
<1>7. ASSUME NEW w \in Writers, Write(w) PROVE Waits'
  BY <1>7, HandledWaits DEF Write
<1>8. CASE UNCHANGED httpVars
  BY <1>8, HandledWaits DEF httpVars, serverVars
<1> QED
  BY <1>1, <1>2, <1>3, <1>4, <1>5, <1>6, <1>7, <1>8 DEF HttpNext, Client, Handler

\* A client that has stopped all of its dataSenders has had an answer for every
\* message (HttpSender.Start, dataSender): StoppedAcked.
THEOREM StoppedIsAnswered == HttpSpec => []StoppedAcked
<1>1. HttpInit => Waits
  BY DEF HttpInit, Waits
<1>2. Types /\ Posted /\ Waits /\ [HttpNext]_httpVars => Waits'
  BY WaitsStep
<1>3. Types /\ Posted /\ Waits => StoppedAcked
  <2> SUFFICES ASSUME Types, Posted, Waits, stopped = DataSenders, NEW m \in Msgs
               PROVE  handler[m] = "acked"
    BY DEF StoppedAcked
  <2>1. stopped # {} /\ dead = {}
    BY HttpAssumption DEF Waits, Types
  <2>2. m.off \in Offsets /\ m.seq \in Nat /\ m.seq <= LastSeq[m.off]
    BY MsgsType
  <2>3. handler[m] # "none"
    BY <2>1, <2>2, LastSeqAssumption DEF Waits, Posted
  <2>4. \A d \in DataSenders : posting[d] # {m}
    BY DEF Waits
  <2> QED
    BY <2>1, <2>3, <2>4 DEF Waits
<1> QED
  BY <1>1, <1>2, <1>3, TypesInvariant, TakesInvariant, PTL DEF HttpSpec

-----------------------------------------------------------------------------
(* The map of writers. *)

DoneHadAll == \A w \in Writers : pc[w] = "done" => own[w] = Msgs

LEMMA DoneIsAll == IInv => DoneHadAll
<1>1. IInv => ~cancelled
  BY HttpAssumption DEF IInv, Counting
<1> QED
  BY <1>1, ClosedAll DEF IInv, Counting, Installing, DoneHadAll

\* The entry is that of a writer that has had a message, and is gone only when one
\* writer has had all of them.
EntryInv ==
  /\ \A w \in entry : own[w] # {}
  /\ (\E w \in Writers : own[w] # {}) => entry # {} \/ \E w \in Writers : own[w] = Msgs

LEMMA EntryStep ==
  ASSUME Types, IInv, DoneHadAll', EntryInv, [HttpNext]_httpVars
  PROVE  EntryInv'
<1>1. ASSUME entry' = entry, own' = own PROVE EntryInv'
  BY <1>1 DEF EntryInv
<1>2. ASSUME NEW d \in DataSenders, Client(d) \/ Timeout(d) PROVE EntryInv'
  BY <1>1, <1>2 DEF Client, Fin, Post, Answer, Timeout, serverVars, vars, chanVars
<1>3. ASSUME NEW m \in Msgs, Lose(m) \/ Arrive(m) \/ NotFound(m) PROVE EntryInv'
  BY <1>1, <1>3 DEF Lose, Arrive, NotFound, vars, chanVars
<1>4. ASSUME NEW m \in Msgs, NEW w \in Writers, Found(m, w) \/ Make(m, w)
      PROVE  EntryInv'
  <2>1. entry' = {w}
    BY <1>4 DEF Found, Make, Types
  <2>2. own' = [own EXCEPT ![w] = @ \cup {m}] /\ own \in [Writers -> SUBSET Msgs]
    BY <1>4 DEF Found, Make, Route, IInv, TypeOK
  <2>3. m \in own'[w]
    BY <2>2
  <2> QED
    BY <2>1, <2>3 DEF EntryInv
<1>5. ASSUME NEW m \in Msgs, NEW w \in Writers, HandlerPut(m, w) PROVE EntryInv'
  BY <1>1, <1>5 DEF HandlerPut, Put
<1>6. ASSUME NEW w \in Writers, Write(w) PROVE EntryInv'
  <2>1. CASE pc'[w] = "done"
    BY <1>6, <2>1 DEF Write, DoneHadAll, EntryInv
  <2>2. CASE pc'[w] # "done"
    BY <1>1, <1>6, <2>2, WriterOwns DEF Write
  <2> QED
    BY <2>1, <2>2
<1>7. CASE UNCHANGED httpVars
  BY <1>1, <1>7 DEF httpVars, serverVars, vars, chanVars
<1> QED
  BY <1>2, <1>3, <1>4, <1>5, <1>6, <1>7 DEF HttpNext, Handler

\* No two writers have one message, so beside an unfinished writer none has had
\* all.
LEMMA EntryMeans ==
  ASSUME Types, IInv, EntryInv
  PROVE  UnfinishedEntered
<1> SUFFICES ASSUME NEW w \in Writers, Unfinished(w)
             PROVE  \E v \in Writers : entry = {v} /\ Unfinished(v)
  BY DEF UnfinishedEntered
<1>1. own \in [Writers -> SUBSET Msgs] /\ own[w] # {} /\ own[w] # Msgs
  BY DEF Unfinished, IInv, TypeOK
<1>2. \A u \in Writers : own[u] # Msgs
  <2> SUFFICES ASSUME NEW u \in Writers, own[u] = Msgs PROVE FALSE
    OBVIOUS
  <2>1. u # w
    BY <1>1
  <2>2. own[u] \cap own[w] = {}
    BY <2>1 DEF IInv, Ownership
  <2> QED
    BY <1>1, <2>2
<1>3. entry # {}
  BY <1>1, <1>2 DEF EntryInv
<1>4. PICK v \in Writers : entry = {v}
  BY <1>3 DEF Types
<1> QED
  BY <1>2, <1>4 DEF EntryInv, Unfinished

\* While a writer of the file waits for messages, the next handler finds one that
\* does: its entry gives way to that of another such writer only, and closeFunc
\* (RemWritter in receiver.go) runs when none is left: UnfinishedEntered.
THEOREM UnfinishedIsFound == HttpSpec => []UnfinishedEntered
<1>1. HttpInit => EntryInv
  BY DEF HttpInit, Init, EntryInv
<1>2. Types /\ IInv /\ DoneHadAll' /\ EntryInv /\ [HttpNext]_httpVars => EntryInv'
  BY EntryStep
<1>3. Types /\ IInv /\ EntryInv => UnfinishedEntered
  BY EntryMeans
<1> QED
  BY <1>1, <1>2, <1>3, DoneIsAll, TypesInvariant, WritersInvariant, PTL DEF HttpSpec

=============================================================================
