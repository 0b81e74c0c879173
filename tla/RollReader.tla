----------------------------- MODULE RollReader -----------------------------
(***************************************************************************)
(* The delta algorithm for one section of a file that the destination has  *)
(* in another version: the block hashes of the old file (AddChecksums,     *)
(* core/block_hash.go), the section a reader is given (sendDataToReaders,  *)
(* workers/sender.go), the rolling reader itself (rollV3,                  *)
(* workers/readers.go) and what the writer makes of its messages           *)
(* (writeToFile, workers/writers.go).  A file the destination is missing   *)
(* goes to a bytes reader instead, whose messages the same writer reads.   *)
(*                                                                         *)
(* The rolling hash is modelled by its window: that it equals the Adler-32 *)
(* of the window is a matter of core/rolling_hash.go.                      *)
(***************************************************************************)
EXTENDS DataDesc, SequencesExt

CONSTANTS
  Bytes,       \* byte values
  DefaultSize, \* the block size of files that are not small (700)
  SplitSize,   \* files above this size are read in sections
  CcIo,        \* number of concurrent readers
  MaxSrc,      \* bound on the length of the source file
  MaxDst,      \* bound on the length of the old file
  MayFail      \* whether reading, or sending before the timeout, may fail

ASSUME ReaderAssumption ==
  /\ Bytes \subseteq 0..255
  /\ DefaultSize \in Nat \ {0}
  /\ SplitSize \in Nat \ {0}
  /\ CcIo \in Nat \ {0}
  /\ MaxSrc \in Nat /\ MaxDst \in Nat
  /\ MayFail \in BOOLEAN

Take(s, n) == SubSeq(s, 1, IF n < Len(s) THEN n ELSE Len(s))
Drop(s, n) == SubSeq(s, n + 1, Len(s))

\* hash/adler32.
Mod == 65521
Adler32(w) ==
  LET sum[i \in 0..Len(w)] ==
        IF i = 0 THEN [a |-> 1, b |-> 0]
        ELSE LET h == sum[i - 1]
             IN [a |-> (h.a + w[i]) % Mod, b |-> (h.b + h.a + w[i]) % Mod]
  IN sum[Len(w)]

\* A file smaller than the default block is one block; an empty one still has
\* a block size.
SetBlockSize(n) == IF n \in 1..(DefaultSize - 1) THEN n ELSE DefaultSize

BlockCount(n, bs) == (n + bs - 1) \div bs

\* Block i of a file, which is short at the end of the file.
Block(old, bs, i) == Take(Drop(old, i * bs), bs)

\* The buffer after block i was read into it: a last block that is short leaves
\* the end of the block before it in place, and the sum is taken of it all.
Buffer(old, i, bs) ==
  LET block == Block(old, bs, i)
      before == IF i = 0 THEN [k \in 1..bs |-> 0] ELSE Block(old, bs, i - 1)
  IN block \o Drop(before, Len(block))

AddChecksums(old, bs) ==
  [i \in 1..BlockCount(Len(old), bs) |-> Adler32(Buffer(old, i - 1, bs))]

\* Mutant of Sections: every section has the length of a chunk.
SectionsEqual(n) ==
  IF n > SplitSize /\ CcIo > 1
  THEN LET chunk == n \div CcIo
       IN [c \in 1..CcIo |-> [offset |-> (c - 1) * chunk, limit |-> chunk]]
  ELSE <<[offset |-> 0, limit |-> n]>>

\* Start and length of the section of each reader; the length is computed as
\* the place where the section ends.
Sections(n) ==
  IF n > SplitSize /\ CcIo > 1
  THEN LET chunk == n \div CcIo
       IN [c \in 1..CcIo |->
             [offset |-> (c - 1) * chunk,
              limit |-> IF chunk * c > n THEN n ELSE chunk * c]]
  ELSE <<[offset |-> 0, limit |-> n]>>

\* io.NewSectionReader(r, offset, n): n bytes from offset, or what there is.
NewSectionReader(s, offset, n) == Take(Drop(s, offset), n)

VARIABLES
  src,     \* the source file
  dst,     \* the old file at the destination
  section, \* the part of the source file the reader has been given
  pc,
  hMap,    \* from the sum of a block of the old file to its index
  rest,    \* what the section reader has not returned yet
  window,  \* the window of the rolling hash, oldest byte first
  buf,     \* bytes read ahead
  dd,      \* the descriptor being filled
  out      \* messages sent, as serialized

fileVars == <<src, dst, section>>
readVars == <<rest, window, buf>>
vars == <<fileVars, pc, hMap, readVars, dd, out>>

BlockSize == SetBlockSize(Len(src))

\* Mutant of HashMap: blocks are counted from one.
HashMapFromOne(weak) ==
  [h \in Range(weak) |-> SelectLastInSeq(weak, LAMBDA x : x = h)]

\* The last block with a sum is the one that is found.
HashMap(weak) ==
  [h \in Range(weak) |-> SelectLastInSeq(weak, LAMBDA x : x = h) - 1]

Files(max) == UNION {[1..n -> Bytes] : n \in 0..max}

\* A file reaches a rolling reader when the destination has a version that is
\* longer than a block and differs, and the source is not empty (compare).
Differs ==
  /\ dst # src
  /\ Len(dst) > BlockSize
  /\ section \in Range(Sections(Len(src)))
  /\ pc = "start"

\* It reaches a bytes reader when the destination has no version or one of a
\* block at most, of which the writer keeps nothing; it is then read as a whole.
Missing ==
  /\ dst = << >>
  /\ section = [offset |-> 0, limit |-> Len(src)]
  /\ pc = "bytes"

Init ==
  /\ src \in Files(MaxSrc) \ {<< >>}
  /\ dst \in Files(MaxDst)
  /\ Differs \/ Missing
  /\ hMap = << >>
  /\ rest = NewSectionReader(src, section.offset, section.limit)
  /\ window = << >>
  /\ buf = << >>
  /\ dd = NewDataDesc(0)
  /\ out = << >>

Goto(l) == pc' = l

\* The map is made of the sums in the file's descriptor.  One block is read for
\* the window, and at least a byte more ahead.
Fill ==
  /\ pc = "start"
  /\ hMap' = HashMap(AddChecksums(dst, BlockSize))
  /\ Len(rest) > BlockSize
  /\ window' = Take(rest, BlockSize)
  /\ buf' = Take(Drop(rest, BlockSize), BlockSize)
  /\ rest' = Drop(rest, 2 * BlockSize)
  /\ Goto("roll")
  /\ UNCHANGED <<fileVars, dd, out>>

FillFails ==
  /\ pc = "start"
  /\ Len(rest) <= BlockSize
  /\ Goto("failed")
  /\ UNCHANGED <<fileVars, hMap, readVars, dd, out>>

\* Mutant of SendData: the next descriptor has the number of this one.
SendDataSameSeq ==
  /\ pc = "roll"
  /\ DescLen(dd) > BlockSize
  /\ out' = Append(out, [seq |-> dd.seq, frames |-> Serialize(dd)])
  /\ dd' = NewDataDesc(dd.seq)
  /\ UNCHANGED <<fileVars, pc, hMap, readVars>>

SendData ==
  /\ pc = "roll"
  /\ DescLen(dd) > BlockSize
  /\ out' = Append(out, [seq |-> dd.seq, frames |-> Serialize(dd)])
  /\ dd' = NewDataDesc(dd.seq + 1)
  /\ UNCHANGED <<fileVars, pc, hMap, readVars>>

\* Mutant of Looking: a full descriptor may wait.
Rolling == pc = "roll"

Looking == pc = "roll" /\ DescLen(dd) <= BlockSize

\* Mutant of Known: a block is looked up only with bytes read ahead.
KnownAhead == buf # << >> /\ Adler32(window) \in DOMAIN hMap

Known == Adler32(window) \in DOMAIN hMap

\* Match: the window becomes an index, the bytes read ahead, topped up to a
\* block, become the window, and a new block is read ahead; the loop ends when
\* there is nothing to top up with or to read ahead.
Match ==
  /\ Looking
  /\ Known
  /\ dd' = WriteIndex(dd, hMap[Adler32(window)])
  /\ LET need == BlockSize - Len(buf)
         after == Drop(rest, need)
     IN IF need > 0 /\ rest = << >>
        THEN /\ window' = << >>
             /\ Goto("finish")
             /\ UNCHANGED <<rest, buf>>
        ELSE /\ window' = buf \o Take(rest, need)
             /\ buf' = Take(after, BlockSize)
             /\ rest' = Drop(after, BlockSize)
             /\ Goto(IF after = << >> THEN "finish" ELSE "roll")
  /\ UNCHANGED <<fileVars, hMap, out>>

\* No match: the window moves on by a byte, and the byte that leaves it is
\* written as it is.
NoMatch ==
  /\ Looking
  /\ ~Known
  /\ LET refill == buf = << >>
         ahead == IF refill THEN Take(rest, BlockSize) ELSE buf
     IN /\ ahead # << >>
        /\ buf' = Tail(ahead)
        /\ rest' = IF refill THEN Drop(rest, BlockSize) ELSE rest
        /\ window' = Append(Tail(window), Head(ahead))
        /\ dd' = WriteByte(dd, Head(window))
  /\ UNCHANGED <<fileVars, pc, hMap, out>>

\* Mutant of NoMatchAtEnd: the end is only seen with an empty window.
NoMatchEmpty ==
  /\ Looking
  /\ window = << >> /\ rest = << >>
  /\ Goto("finish")
  /\ UNCHANGED <<fileVars, hMap, readVars, dd, out>>

NoMatchAtEnd ==
  /\ Looking
  /\ ~Known
  /\ buf = << >> /\ rest = << >>
  /\ Goto("finish")
  /\ UNCHANGED <<fileVars, hMap, readVars, dd, out>>

\* What is left in the window and in the buffer goes into the last message.
Finish ==
  /\ pc = "finish"
  /\ LET last == MarkAsLast(WriteBytes(dd, window \o buf))
     IN out' = Append(out, [seq |-> last.seq, frames |-> Serialize(last)])
  /\ window' = << >>
  /\ buf' = << >>
  /\ Goto("done")
  /\ UNCHANGED <<fileVars, hMap, rest, dd>>

\* Mutant of ReadBlock: a last block that is short is left out.
ReadFullBlock ==
  /\ pc = "bytes"
  /\ rest # << >>
  /\ rest' = Drop(rest, BlockSize)
  /\ out' = IF Len(rest) < BlockSize THEN out
            ELSE Append(out, [seq |-> dd.seq, frames |-> Serialize(Write(dd, Take(rest, BlockSize)))])
  /\ dd' = NewDataDesc(dd.seq + 1)
  /\ UNCHANGED <<fileVars, pc, hMap, window, buf>>

\* A bytes reader sends block by block, the last one as long as it is, ...
ReadBlock ==
  /\ pc = "bytes"
  /\ rest # << >>
  /\ rest' = Drop(rest, BlockSize)
  /\ out' = Append(out, [seq |-> dd.seq, frames |-> Serialize(Write(dd, Take(rest, BlockSize)))])
  /\ dd' = NewDataDesc(dd.seq + 1)
  /\ UNCHANGED <<fileVars, pc, hMap, window, buf>>

\* ... and ends the stream with a message of its own.
ReadEnd ==
  /\ pc = "bytes"
  /\ rest = << >>
  /\ out' = Append(out, [seq |-> dd.seq, frames |-> Serialize(MarkAsLast(dd))])
  /\ Goto("done")
  /\ UNCHANGED <<fileVars, hMap, readVars, dd>>

Failure ==
  /\ MayFail
  /\ pc \in {"start", "roll", "finish", "bytes"}
  /\ Goto("failed")
  /\ UNCHANGED <<fileVars, hMap, readVars, dd, out>>

Read ==
  \/ Fill \/ FillFails
  \/ SendData \/ Match \/ NoMatch \/ NoMatchAtEnd
  \/ Finish
  \/ ReadBlock \/ ReadEnd

Next == Read \/ Failure

Spec == Init /\ [][Next]_vars

\* The reader is a goroutine that nothing blocks but its own sends, and those
\* have a timeout.
FairSpec == Spec /\ WF_vars(Read)

-----------------------------------------------------------------------------
\* What the writer makes of frames.

\* Nothing is read after an End frame.
Heard(frames) ==
  LET end == SelectInSeq(frames, LAMBDA f : f.flag = End)
  IN IF end = 0 THEN frames ELSE SubSeq(frames, 1, end - 1)

\* A frame stands for its bytes, or for the blocks its indexes name, ...
Content(old, bs, frame) ==
  IF frame.flag = Data THEN frame.body
  ELSE FlattenSeq([k \in DOMAIN frame.body |-> Block(old, bs, frame.body[k])])

\* ... and copying a block that is short is an error.
Copyable(old, bs, frame) ==
  frame.flag = Index =>
    \A k \in DOMAIN frame.body : Len(Block(old, bs, frame.body[k])) = bs

\* The bytes count only when nothing has failed.
writeToFile(old, bs, frames) ==
  LET heard == Heard(frames)
      ok == \A i \in DOMAIN heard : Copyable(old, bs, heard[i])
  IN [ok |-> ok, ended |-> ok /\ heard # frames,
      bytes |-> FlattenSeq([i \in DOMAIN heard |-> Content(old, bs, heard[i])])]

Frames(msgs) == FlattenSeq([i \in DOMAIN msgs |-> msgs[i].frames])

\* The file the writer has from the messages sent so far.
Rebuilt == writeToFile(dst, BlockSize, Frames(out))

\* The same with what the descriptor holds, before the stream is ended.
Pending == writeToFile(dst, BlockSize, Frames(out) \o Serialize(dd))

Section == NewSectionReader(src, section.offset, section.limit)

-----------------------------------------------------------------------------
\* The reader's variables hold values of the kind the code gives them, and the
\* buffers keep their bounds: a window and a read-ahead of at most a block, and
\* never more than one byte over a block gathered before it is sent.
TypeOK ==
  /\ pc \in {"start", "roll", "finish", "bytes", "done", "failed"}
  /\ rest \in Seq(Bytes) /\ window \in Seq(Bytes) /\ buf \in Seq(Bytes)
  /\ Len(window) <= BlockSize /\ Len(buf) <= BlockSize
  /\ pc = "roll" => Len(window) = BlockSize
  /\ dd.mode \in {Data, Index}
  /\ dd.seq \in Nat
  /\ dd.readBuf \in Seq(Bytes) /\ DescLen(dd) <= BlockSize + 1
  /\ dd.iBuff \in Seq(0..(BlockCount(Len(dst), BlockSize) - 1))

\* Nothing of the section is lost, doubled or moved on its way through the
\* window, the read-ahead, the two buffers of the descriptor and the frames:
\* what the writer makes of everything sent and gathered so far, followed by
\* what has been read and by what has not, is the section; and once the stream
\* has ended, the writer has the section.  It is unless an index cannot be
\* copied, in which case the writer stops (see Rebuildable).
Conserved ==
  /\ pc # "done" /\ Pending.ok =>
       Pending.bytes \o window \o buf \o rest = Section
  /\ pc = "done" /\ Rebuilt.ok =>
       Rebuilt.ended /\ Rebuilt.bytes = Section

\* The writer can follow every index, when the old file has no short block.
Rebuildable == Len(dst) % BlockSize = 0 => Pending.ok

\* The messages of a section are numbered from 0 without a gap, and the End
\* frame is in the last of them and in no other, which is what the writer's
\* sequence check and its count of streams rely on.
MessagesInOrder ==
  /\ \A i \in DOMAIN out : out[i].seq = i - 1
  /\ \A i \in DOMAIN out :
       (\E k \in DOMAIN out[i].frames : out[i].frames[k].flag = End)
         <=> pc = "done" /\ i = Len(out)

\* The content of a stream, byte by byte and index by index.
Expand(frame) == [k \in DOMAIN frame.body |-> <<frame.flag, frame.body[k]>>]

Items(frames) ==
  FlattenSeq([i \in DOMAIN Heard(frames) |-> Expand(Heard(frames)[i])])

\* The delta is one: no block whose sum is in the list is sent byte by byte,
\* wherever in the section it starts, except for the last one.
NoKnownBlockSent ==
  pc = "done" =>
    LET items == Items(Frames(out)) IN
    \A i \in 1..(Len(items) - BlockSize) :
      LET run == SubSeq(items, i, i + BlockSize - 1)
      IN (\A k \in DOMAIN run : run[k][1] = Data)
           => Adler32([k \in DOMAIN run |-> run[k][2]]) \notin DOMAIN hMap

\* The sections the readers are given make up the file, so that the streams
\* joined by the writer do.
SectionsCover ==
  FlattenSeq([c \in DOMAIN Sections(Len(src)) |->
     NewSectionReader(src, Sections(Len(src))[c].offset, Sections(Len(src))[c].limit)])
    = src

\* The reader comes to an end: no sequence of matches and misses keeps it in
\* the loop.
Terminates == <>(pc \in {"done", "failed"})

=============================================================================
