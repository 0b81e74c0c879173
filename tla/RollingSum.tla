----------------------------- MODULE RollingSum -----------------------------
(***************************************************************************)
(* What a rolling reader relies on: a window that bytes are written to, or *)
(* that moves on by one byte, or that is cleared, and whose sum is at      *)
(* every moment the sum of what it holds, as if it had just been computed. *)
(***************************************************************************)
EXTENDS Sequences, Integers

CONSTANT Checksum(_)

VARIABLES content, sum

Init == content = << >>

Longer ==
  /\ Len(content') > Len(content)
  /\ SubSeq(content', 1, Len(content)) = content

Moved ==
  /\ content # << >>
  /\ Len(content') = Len(content)
  /\ SubSeq(content', 1, Len(content) - 1) = Tail(content)

Cleared == content' = << >>

Spec ==
  /\ Init
  /\ [][Longer \/ Moved \/ Cleared]_content
  /\ [](sum = Checksum(content))

=============================================================================
