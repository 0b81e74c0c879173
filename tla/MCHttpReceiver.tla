--------------------------- MODULE MCHttpReceiver ---------------------------
(***************************************************************************)
(* Small instances of HttpReceiver.                                        *)
(***************************************************************************)
EXTENDS HttpReceiver, TLC

OneStream == {0}
TwoStreams == {0, 2}
LastSeqShort == [o \in Offsets |-> IF o = 0 THEN 1 ELSE 0]
LastSeqTwo == [o \in Offsets |-> 1]

=============================================================================
