------------------------------ MODULE DataDesc ------------------------------
(***************************************************************************)
(* The body of a data message (lfs/lfs.go): a sequence of frames, each     *)
(* with literal bytes, with indexes of blocks of the old file, or with the *)
(* mark that ends a stream.  A descriptor gathers bytes or indexes in one  *)
(* of two buffers and writes a frame when it changes from one to the       *)
(* other.  The binary layout of a frame is left out.                       *)
(***************************************************************************)
EXTENDS Integers, Sequences

Data == "data"
Index == "index"
End == "end"

Frame(flag, body) == [flag |-> flag, body |-> body]

NewDataDesc(n) ==
  [seq |-> n, mode |-> Data, iBuff |-> << >>, readBuf |-> << >>, data |-> << >>]

\* Mutant of flush: no buffer is cleared.
flushKeeps(dd) ==
  IF dd.mode = Data /\ dd.readBuf # << >>
  THEN [dd EXCEPT !.data = Append(@, Frame(Data, dd.readBuf))]
  ELSE IF dd.mode = Index /\ dd.iBuff # << >>
  THEN [dd EXCEPT !.data = Append(@, Frame(Index, dd.iBuff))]
  ELSE dd

\* flush writes the frame of the current mode if there is something to write,
\* and clears the buffer of the OTHER mode.
flush(dd) ==
  IF dd.mode = Data /\ dd.readBuf # << >>
  THEN [dd EXCEPT !.data = Append(@, Frame(Data, dd.readBuf)), !.iBuff = << >>]
  ELSE IF dd.mode = Index /\ dd.iBuff # << >>
  THEN [dd EXCEPT !.data = Append(@, Frame(Index, dd.iBuff)), !.readBuf = << >>]
  ELSE dd

\* flush when the mode changes, and only then.
InMode(dd, mode) ==
  IF dd.mode = mode THEN dd ELSE [flush(dd) EXCEPT !.mode = mode]

WriteByte(dd, b) ==
  LET d == InMode(dd, Data) IN [d EXCEPT !.readBuf = Append(@, b)]

\* One byte after the other: the mode changes before the first, if at all.
WriteBytes(dd, bytes) ==
  IF bytes = << >> THEN dd
  ELSE LET d == InMode(dd, Data) IN [d EXCEPT !.readBuf = @ \o bytes]

WriteIndex(dd, i) ==
  LET d == InMode(dd, Index) IN [d EXCEPT !.iBuff = Append(@, i)]

\* A block of bytes becomes a frame at once, past the buffers.
Write(dd, block) == [dd EXCEPT !.data = Append(@, Frame(Data, block))]

\* The length a reader goes by is that of the buffer of bytes.
DescLen(dd) == Len(dd.readBuf)

MarkAsLast(dd) ==
  LET d == flush(dd) IN [d EXCEPT !.data = Append(@, Frame(End, << >>))]

\* Serialize flushes once more: after MarkAsLast this repeats the last frame
\* behind the End frame, where no reader looks.
Serialize(dd) == flush(dd).data

=============================================================================
