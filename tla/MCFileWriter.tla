---------------------------- MODULE MCFileWriter ----------------------------
(***************************************************************************)
(* Small instances of FileWriter: the number of messages of each stream.   *)
(***************************************************************************)
EXTENDS FileWriter, TLC

\* Two streams, and the number of the last message of each.
TwoStreams == {0, 2}
LastSeqTwo == [o \in Offsets |-> 1]
LastSeqUneven == [o \in Offsets |-> IF o = 0 THEN 2 ELSE 0]
LastSeqThreeTwo == [o \in Offsets |-> IF o = 0 THEN 2 ELSE 1]

\* Writers differ in nothing but their names.
WriterSymmetry == Permutations(Writers)

=============================================================================
