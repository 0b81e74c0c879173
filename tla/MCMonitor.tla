------------------------------ MODULE MCMonitor ------------------------------
(***************************************************************************)
(* Small instances of Monitor: a directory with one file, and a file       *)
(* beside it.                                                              *)
(***************************************************************************)
EXTENDS Monitor

CONSTANTS d, f, x, top

OneDir == [p \in Paths |-> IF p = x THEN d ELSE top]
ListOrder == [p \in Paths |-> IF p = d THEN 1 ELSE IF p = x THEN 2 ELSE Cardinality(Paths)]

\* The user does nothing before the source directory is watched: every file in
\* it was listed, or has been made under the watch.
WatchedNext == Watch \/ (pc # "start" /\ Next)
WatchedSpec == Init /\ [][WatchedNext]_vars

=============================================================================
