------------------------------ MODULE Radler32 ------------------------------
(***************************************************************************)
(* The rolling Adler-32 (core/rolling_hash.go) as a rolling reader uses    *)
(* it: the bytes that are written to the window or rolled into it are the  *)
(* next ones of the section.  The window is a ring once bytes are rolled;  *)
(* the two halves of the sum are machine words, whose width is a           *)
(* parameter.                                                              *)
(***************************************************************************)
EXTENDS Integers, Sequences

CONSTANTS
  Mod,      \* 65521
  Half,     \* 2^16
  MaxByte,  \* 255
  Sections, \* the contents of sections, sequences of bytes
  Sum1,     \* for each section: the sums of its first 0, 1, ... bytes,
  Sum2      \* and the sums of these

Word == Half * Half

\* The sums are given by their recurrence, from which the sum of any part
\* follows by subtraction.
IsRunningSum(s, terms, sums) ==
  /\ sums \in [0..Len(s) -> Nat]
  /\ sums[0] = 0
  /\ \A i \in 1..Len(s) : sums[i] = sums[i - 1] + terms[i]

ASSUME ModAssumption ==
  /\ Mod \in Nat /\ Mod > 1
  /\ Half \in Nat /\ Mod <= Half
  /\ MaxByte \in Nat /\ MaxByte <= Mod
  /\ Mod * (MaxByte + 3) <= Word

ASSUME SumAssumption ==
  \A s \in Sections :
    /\ s \in Seq(0..MaxByte)
    /\ IsRunningSum(s, s, Sum1[s])
    /\ IsRunningSum(s, Sum1[s], Sum2[s])

VARIABLES
  section, \* the section that is read
  left,    \* how many of its bytes have been in the window and left it
  window,  \* a ring
  oldest,  \* place in the ring of the oldest byte, counted from 0
  a, b,    \* the halves of the sum
  n        \* length of the window, as the sum uses it

ring == <<window, oldest>>
sums == <<a, b, n>>
vars == <<section, left, ring, sums>>

\* hash/adler32 of the bytes first+1 .. first+k of the section: one more than
\* the sum of the bytes, and the sum of all such partial sums.
ByteSum(first, k) == 1 + Sum1[section][first + k] - Sum1[section][first]
PartialSum(first, k) ==
  k + Sum2[section][first + k] - Sum2[section][first] - k * Sum1[section][first]

Adler32(first, k) ==
  [a |-> ByteSum(first, k) % Mod, b |-> PartialSum(first, k) % Mod]

Init ==
  /\ section \in Sections
  /\ left = 0
  /\ window = << >>
  /\ oldest = 0
  /\ a = 1 /\ b = 0 /\ n = 0

\* Bytes of the section that have not been in the window yet.
Unread == Len(section) - left - Len(window)

\* The ring turned so that the oldest byte comes first.
sorted ==
  SubSeq(window, oldest + 1, Len(window)) \o SubSeq(window, 1, oldest)

\* Mutant of Write: the ring is not sorted before bytes are added.
WriteUnsorted ==
  \E k \in 1..Unread :
    /\ window' = window \o SubSeq(section, left + Len(window) + 1, left + Len(window) + k)
    /\ oldest' = 0
    /\ a' = Adler32(left, Len(window) + k).a
    /\ b' = Adler32(left, Len(window) + k).b
    /\ n' = (Len(window) + k) % Mod
    /\ UNCHANGED <<section, left>>

\* Bytes are added behind the newest one, and the sum is computed anew.
Write ==
  \E k \in 1..Unread :
    /\ window' = sorted \o SubSeq(section, left + Len(window) + 1, left + Len(window) + k)
    /\ oldest' = 0
    /\ a' = Adler32(left, Len(window) + k).a
    /\ b' = Adler32(left, Len(window) + k).b
    /\ n' = (Len(window) + k) % Mod
    /\ UNCHANGED <<section, left>>

\* Mutant of rollA: the byte that leaves may be more than a half holds.
rollAShort(enter, leave) == (a + Mod + enter - leave) % Word

\* The sums after a byte has entered and another has left.
rollA(enter, leave) == ((a + Mod + enter - leave) % Word) % Mod

\* Mutant of rollB: the multiple of Mod that keeps the word positive is the
\* one below the product.
rollBBelow(a1, leave) ==
  LET drop == (n * leave) % Word
  IN ((b + (drop \div Mod) * Mod + a1 - drop - 1) % Word) % Mod

rollB(a1, leave) ==
  LET drop == (n * leave) % Word
  IN ((b + (drop \div Mod + 1) * Mod + a1 - drop - 1) % Word) % Mod

Roll ==
  /\ Len(window) > 0
  /\ Unread > 0
  /\ LET enter == section[left + Len(window) + 1]
         leave == window[oldest + 1]
     IN /\ window' = [window EXCEPT ![oldest + 1] = enter]
        /\ oldest' = IF oldest + 1 >= Len(window) THEN 0 ELSE oldest + 1
        /\ a' = rollA(enter, leave)
        /\ b' = rollB(rollA(enter, leave), leave)
  /\ left' = left + 1
  /\ UNCHANGED <<section, n>>

\* After a match the window is dropped and filled again.
Reset ==
  /\ left' = left + Len(window)
  /\ window' = << >>
  /\ oldest' = 0
  /\ a' = 1 /\ b' = 0 /\ n' = 0
  /\ UNCHANGED section

\* Mutant of GetWindow: the ring is turned and the place of the oldest byte kept.
GetWindowKeepsOldest ==
  /\ window' = sorted
  /\ UNCHANGED <<section, left, oldest, sums>>

\* At the end of the section the window is read out.
GetWindow ==
  /\ window' = sorted
  /\ oldest' = 0
  /\ UNCHANGED <<section, left, sums>>

Next == Write \/ Roll \/ Reset \/ GetWindow

Spec == Init /\ [][Next]_vars

Sum32 == ((b * Half) % Word) + a

-----------------------------------------------------------------------------
\* The variables hold values of the kind the code gives them.
TypeOK ==
  /\ section \in Sections
  /\ left \in 0..Len(section)
  /\ window \in Seq(0..MaxByte)
  /\ left + Len(window) <= Len(section)
  /\ oldest \in Nat
  /\ oldest < Len(window) \/ oldest = 0
  /\ a \in 0..(Mod - 1) /\ b \in 0..(Mod - 1) /\ n \in 0..(Mod - 1)

\* However often the window was filled, turned, rolled around and dropped, the
\* ring holds the bytes of the section that come after those that have left, in
\* order: what Roll returns and GetWindow reads out is what was read.
WindowHoldsSection ==
  sorted = SubSeq(section, left + 1, left + Len(window))

\* The halves rolled along with wrapping words are those of a sum computed
\* anew over the window, for windows longer than Mod too: the byte that leaves
\* is subtracted as often as it was added.
SumOfWindow ==
  /\ a = Adler32(left, Len(window)).a
  /\ b = Adler32(left, Len(window)).b
  /\ n = Len(window) % Mod

-----------------------------------------------------------------------------
\* Adler-32 byte by byte, as hash/adler32 does it.
Checksum(w) ==
  LET sum[i \in 0..Len(w)] ==
        IF i = 0 THEN [x |-> 1, y |-> 0]
        ELSE [x |-> (sum[i - 1].x + w[i]) % Mod,
              y |-> (sum[i - 1].y + sum[i - 1].x + w[i]) % Mod]
  IN sum[Len(w)].y * Half + sum[Len(w)].x

Rolling == INSTANCE RollingSum WITH content <- sorted, sum <- Sum32

\* The rolling hash is a rolling sum: what it reports is the Adler-32 of the
\* window at every moment (TestRhash checks eight steps of one window).
RollsOn == Rolling!Spec

=============================================================================
