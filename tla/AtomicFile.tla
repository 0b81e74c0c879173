----------------------------- MODULE AtomicFile -----------------------------
(***************************************************************************)
(* What the receiver promises about one destination file, whatever writers *)
(* are at work on it: among the destination and the .ref file beside it    *)
(* there is always a complete version to fall back on, and the only thing  *)
(* that ever happens to the best such version is that the complete new     *)
(* one replaces it.                                                        *)
(***************************************************************************)

\* The best complete version on the disk: none, the old one or the new one.
VARIABLE best

Versions == {"none", "old", "new"}

Init == best \in {"none", "old"}

Install ==
  /\ best # "new"
  /\ best' = "new"

Next == Install

Spec == Init /\ [][Next]_best

=============================================================================
