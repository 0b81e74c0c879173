---------------------------- MODULE MCRadler32 ----------------------------
(***************************************************************************)
(* Small instances of Radler32: a modulus that both the length of a window *)
(* and the sums exceed, and words just wide enough for it.                 *)
(***************************************************************************)
EXTENDS Radler32

CONSTANT Length

AllSections == [1..Length -> 0..MaxByte]

RunningSums(terms) ==
  LET f[i \in 0..Length] == IF i = 0 THEN 0 ELSE f[i - 1] + terms[i] IN f

AllSum1 == [s \in AllSections |-> RunningSums(s)]
AllSum2 == [s \in AllSections |-> RunningSums(AllSum1[s])]

=============================================================================
