----------------------------- MODULE MCSession -----------------------------
(***************************************************************************)
(* Small instances of Session: sizes of nothing, less than a block, a      *)
(* block, and two sizes above it.                                          *)
(***************************************************************************)
EXTENDS Session, TLC

CONSTANTS t1, t2, t3, t4, t5, d1, d2

\* Times and data are only compared for equality.  Four times are in use at
\* most, so a fifth can always be new.
AnySizes == 0..3
AllTimes == {t1, t2, t3, t4, t5}
AllDatas == {d1, d2}
SessionSymmetry == Permutations(AllTimes) \cup Permutations(AllDatas)

=============================================================================
