--------------------------- MODULE Radler32Proofs ---------------------------
(***************************************************************************)
(* Proofs about the rolling Adler-32 for every modulus, width and section. *)
(***************************************************************************)
EXTENDS Radler32, SequenceTheorems, WellFoundedInduction, TLAPS

-----------------------------------------------------------------------------
(* Remainders. *)

\* Division with remainder.
LEMMA Division ==
  ASSUME NEW m \in Nat, m > 0, NEW x \in Int
  PROVE  /\ x \div m \in Int
         /\ x % m \in 0..(m - 1)
         /\ x = m * (x \div m) + (x % m)
<1>1. x % m \in 0..(m - 1)
  OBVIOUS
<1>2. x \div m \in Int
  OBVIOUS
<1>3. x = m * (x \div m) + (x % m)
  BY Z3
<1> QED
  BY <1>1, <1>2, <1>3

\* A remainder is what is left of a multiple.
LEMMA RemainderIs ==
  ASSUME NEW m \in Nat, m > 0, NEW q \in Int, NEW r \in 0..(m - 1)
  PROVE  (m * q + r) % m = r
<1> DEFINE x == m * q + r
<1>1. x \in Int
  OBVIOUS
<1>2. x = m * (x \div m) + (x % m) /\ x % m \in 0..(m - 1) /\ x \div m \in Int
  BY <1>1, Division
<1>3. m * (q - (x \div m)) = (x % m) - r
  BY <1>2
<1>4. q - (x \div m) = 0
  BY <1>2, <1>3
<1> QED
  BY <1>2, <1>3, <1>4

LEMMA Small ==
  ASSUME NEW m \in Nat, m > 0, NEW x \in 0..(m - 1)
  PROVE  x % m = x
<1>1. m * 0 + x = x
  OBVIOUS
<1> QED
  BY <1>1, RemainderIs, 0 \in Int

\* Multiples do not count.
LEMMA Shift ==
  ASSUME NEW m \in Nat, m > 0, NEW x \in Int, NEW k \in Int
  PROVE  (x + m * k) % m = x % m
<1> DEFINE q == x \div m
           r == x % m
<1>1. q \in Int /\ r \in 0..(m - 1) /\ x = m * q + r
  BY Division
<1> HIDE DEF q, r
<1>2. x + m * k = m * (q + k) + r
  BY <1>1
<1>3. q + k \in Int
  BY <1>1
<1>4. (m * (q + k) + r) % m = r
  BY <1>1, <1>3, RemainderIs
<1>5. r = x % m
  BY DEF r
<1> QED
  BY <1>2, <1>4, <1>5

\* A summand may be replaced by its remainder.
LEMMA Summand ==
  ASSUME NEW m \in Nat, m > 0, NEW x \in Int, NEW y \in Int
  PROVE  ((x % m) + y) % m = (x + y) % m
<1> DEFINE q == x \div m
           r == x % m
<1>1. q \in Int /\ r \in 0..(m - 1) /\ x = m * q + r
  BY Division
<1> HIDE DEF q, r
<1>2. x + y = (r + y) + m * q
  BY <1>1
<1>3. r + y \in Int
  BY <1>1
<1>4. ((r + y) + m * q) % m = (r + y) % m
  BY <1>1, <1>3, Shift
<1> QED
  BY <1>2, <1>4 DEF r

\* So may one that is multiplied.
LEMMA Factor ==
  ASSUME NEW m \in Nat, m > 0, NEW x \in Int, NEW y \in Int, NEW z \in Int
  PROVE  (y - (x % m) * z) % m = (y - x * z) % m
<1> DEFINE q == x \div m
           r == x % m
<1>1. q \in Int /\ r \in 0..(m - 1) /\ x = m * q + r
  BY Division
<1> HIDE DEF q, r
<1>2. x * z = m * (q * z) + r * z
  BY <1>1
<1>3. q * z \in Int /\ r * z \in Int
  BY <1>1
<1>4. y - r * z = (y - x * z) + m * (q * z)
  BY <1>2, <1>3, <1>1
<1>5. y - x * z \in Int
  BY <1>2, <1>3, <1>1
<1>6. ((y - x * z) + m * (q * z)) % m = (y - x * z) % m
  BY <1>3, <1>5, Shift
<1> QED
  BY <1>4, <1>6 DEF r

-----------------------------------------------------------------------------
(* The machine words do not wrap. *)

LEMMA Words ==
  /\ Word \in Nat /\ Word > 0
  /\ 3 * Mod <= Word
  /\ Mod * MaxByte <= Word
<1>1. Half * Half \in Nat
  BY ModAssumption
<1>2. Mod * MaxByte \in Nat /\ Mod * (MaxByte + 3) = Mod * MaxByte + 3 * Mod
  BY ModAssumption
<1> QED
  BY <1>1, <1>2, ModAssumption DEF Word

LEMMA RollA ==
  ASSUME a \in 0..(Mod - 1), NEW enter \in 0..MaxByte, NEW leave \in 0..MaxByte
  PROVE  rollA(enter, leave) = (a + enter - leave) % Mod
<1> DEFINE x == a + Mod + enter - leave
<1>1. x \in 0..(Word - 1)
  BY Words, ModAssumption
<1>2. x % Word = x
  BY <1>1, Words, Small
<1>3. x = (a + enter - leave) + Mod * 1
  BY ModAssumption
<1>4. x % Mod = (a + enter - leave) % Mod
  BY <1>3, Shift, ModAssumption, a + enter - leave \in Int
<1> QED
  BY <1>2, <1>4 DEF rollA

LEMMA RollB ==
  ASSUME b \in 0..(Mod - 1), n \in 0..(Mod - 1),
         NEW a1 \in 0..(Mod - 1), NEW leave \in 0..MaxByte
  PROVE  rollB(a1, leave) = (b + a1 - n * leave - 1) % Mod
<1> DEFINE drop == n * leave
           q == drop \div Mod
           r == drop % Mod
           x == b + (q + 1) * Mod + a1 - drop - 1
<1>1. drop \in Nat
  BY ModAssumption
<1>2. drop <= Mod * MaxByte - MaxByte
  <2>1. n * leave <= (Mod - 1) * MaxByte
    <3>1. n * leave <= n * MaxByte
      BY ModAssumption
    <3>2. n * MaxByte <= (Mod - 1) * MaxByte
      BY ModAssumption
    <3> QED
      BY <3>1, <3>2, ModAssumption
  <2> QED
    BY <2>1, ModAssumption
<1>3. drop % Word = drop
  <2>1. drop \in 0..(Word - 1)
    <3>1. CASE MaxByte = 0
      <4>1. drop = 0
        BY <3>1, ModAssumption
      <4> QED
        BY <4>1, Words
    <3>2. CASE MaxByte > 0
      BY <1>1, <1>2, <3>2, Words, ModAssumption
    <3> QED
      BY <3>1, <3>2, ModAssumption
  <2> QED
    BY <2>1, Words, Small
<1>4. q \in Int /\ r \in 0..(Mod - 1) /\ drop = Mod * q + r
  BY <1>1, Division, ModAssumption
<1> HIDE DEF drop, q, r
<1>5. x = b + a1 + Mod - r - 1
  BY <1>1, <1>4, ModAssumption
<1>6. x \in 0..(Word - 1)
  BY <1>4, <1>5, Words, ModAssumption
<1>7. x % Word = x
  BY <1>6, Words, Small
<1>8. x = (b + a1 - drop - 1) + Mod * (q + 1)
  BY <1>1, <1>4, ModAssumption
<1>9. x % Mod = (b + a1 - drop - 1) % Mod
  <2>1. b + a1 - drop - 1 \in Int /\ q + 1 \in Int /\ Mod \in Nat /\ Mod > 0
    BY <1>1, <1>4, ModAssumption
  <2>2. ((b + a1 - drop - 1) + Mod * (q + 1)) % Mod = (b + a1 - drop - 1) % Mod
    BY <2>1, Shift
  <2> QED
    BY <2>2, <1>8
<1>10. rollB(a1, leave) = (x % Word) % Mod
  BY <1>3 DEF rollB, drop, q
<1> QED
  BY <1>7, <1>9, <1>10 DEF drop

-----------------------------------------------------------------------------
(* The ring. *)

Turn(w, o) == SubSeq(w, o + 1, Len(w)) \o SubSeq(w, 1, o)

\* The ring that is turned, byte by byte.
LEMMA Turned ==
  ASSUME NEW S, NEW w \in Seq(S), NEW o \in Nat, o < Len(w) \/ o = 0
  PROVE  /\ Turn(w, o) \in Seq(S)
         /\ Len(Turn(w, o)) = Len(w)
         /\ \A i \in 1..Len(w) :
              Turn(w, o)[i] = w[IF o + i <= Len(w) THEN o + i ELSE o + i - Len(w)]
<1> DEFINE L == Len(w)
           new == SubSeq(w, o + 1, L)
           old == SubSeq(w, 1, o)
<1>1. L \in Nat /\ o \in Nat /\ o <= L
  <2>1. L \in Nat
    BY LenProperties
  <2> QED
    BY <2>1
<1>2. \A i \in 1..L : w[i] \in S
  BY <1>1, ElementOfSeq
<1>3. /\ new \in Seq(S)
      /\ Len(new) = L - o
      /\ \A i \in 1..(L - o) : new[i] = w[o + i]
  <2>1. \A i \in (o + 1)..L : w[i] \in S
    BY <1>1, <1>2
  <2>2. o + 1 \in Int /\ L \in Int
    BY <1>1
  <2> HIDE DEF L
  <2>3. /\ new \in Seq(S)
        /\ Len(new) = IF o + 1 <= L THEN L - (o + 1) + 1 ELSE 0
        /\ \A i \in 1..(L - (o + 1) + 1) : new[i] = w[(o + 1) + i - 1]
    BY <2>1, <2>2, SubSeqProperties
  <2> HIDE DEF new
  <2> QED
    BY <1>1, <2>3
<1>4. /\ old \in Seq(S)
      /\ Len(old) = o
      /\ \A i \in 1..o : old[i] = w[i]
  <2>1. \A i \in 1..o : w[i] \in S
    BY <1>1, <1>2
  <2>2. 1 \in Int /\ o \in Int
    OBVIOUS
  <2> HIDE DEF L
  <2>3. /\ old \in Seq(S)
        /\ Len(old) = IF 1 <= o THEN o - 1 + 1 ELSE 0
        /\ \A i \in 1..(o - 1 + 1) : old[i] = w[1 + i - 1]
    BY <2>1, <2>2, SubSeqProperties
  <2> QED
    BY <2>3
<1>5. Turn(w, o) = new \o old
  BY DEF Turn
<1> HIDE DEF L, new, old
<1>6. /\ new \o old \in Seq(S)
      /\ Len(new \o old) = Len(new) + Len(old)
      /\ \A i \in 1..(Len(new) + Len(old)) :
           (new \o old)[i] = IF i <= Len(new) THEN new[i] ELSE old[i - Len(new)]
  BY <1>3, <1>4, ConcatProperties
<1>7. Len(new) + Len(old) = L
  BY <1>1, <1>3, <1>4
<1>8. ASSUME NEW i \in 1..L
      PROVE  Turn(w, o)[i] = w[IF o + i <= L THEN o + i ELSE o + i - L]
  <2>1. CASE o + i <= L
    <3>1. i <= Len(new) /\ i \in 1..(L - o)
      BY <1>1, <1>3, <2>1
    <3> QED
      BY <1>3, <1>5, <1>6, <1>7, <2>1, <3>1
  <2>2. CASE o + i > L
    <3> HIDE DEF L
    <3>1. ~(i <= Len(new)) /\ i - Len(new) \in 1..o /\ i - Len(new) = o + i - L
      BY <1>1, <1>3, <2>2
    <3>2. ~(o + i <= L)
      BY <1>1, <2>2
    <3>3. Turn(w, o)[i] = old[i - Len(new)]
      BY <1>5, <1>6, <1>7, <3>1
    <3> QED
      BY <1>4, <3>1, <3>2, <3>3
  <2> QED
    BY <1>1, <2>1, <2>2
<1> QED
  BY <1>5, <1>6, <1>7, <1>8 DEF L

\* A part of the section, byte by byte.
LEMMA Part ==
  ASSUME TypeOK, NEW first \in Nat, NEW k \in Nat, first + k <= Len(section)
  PROVE  /\ SubSeq(section, first + 1, first + k) \in Seq(0..MaxByte)
         /\ Len(SubSeq(section, first + 1, first + k)) = k
         /\ \A i \in 1..k : SubSeq(section, first + 1, first + k)[i] = section[first + i]
<1> DEFINE S == 0..MaxByte
<1>1. section \in Seq(S) /\ Len(section) \in Nat
  BY SumAssumption, LenProperties DEF TypeOK
<1>2. \A i \in 1..Len(section) : section[i] \in S
  BY <1>1, ElementOfSeq
<1>3. \A i \in (first + 1)..(first + k) : section[i] \in S
  BY <1>1, <1>2
<1>4. first + 1 \in Int /\ first + k \in Int
  OBVIOUS
<1> HIDE DEF S
<1>5. /\ SubSeq(section, first + 1, first + k) \in Seq(S)
      /\ Len(SubSeq(section, first + 1, first + k)) =
           IF first + 1 <= first + k THEN (first + k) - (first + 1) + 1 ELSE 0
      /\ \A i \in 1..((first + k) - (first + 1) + 1) :
           SubSeq(section, first + 1, first + k)[i] = section[(first + 1) + i - 1]
  BY <1>3, <1>4, SubSeqProperties
<1>6. SubSeq(section, first + 1, first + k) \in Seq(0..MaxByte)
  BY <1>5 DEF S
<1>7. /\ (first + k) - (first + 1) + 1 = k
      /\ k >= 1 => first + 1 <= first + k
      /\ k < 1 => k = 0 /\ ~(first + 1 <= first + k)
  OBVIOUS
<1>8. Len(SubSeq(section, first + 1, first + k)) = k
  BY <1>5, <1>7
<1>9. ASSUME NEW i \in 1..k
      PROVE  SubSeq(section, first + 1, first + k)[i] = section[first + i]
  <2>1. SubSeq(section, first + 1, first + k)[i] = section[(first + 1) + i - 1]
    BY <1>5, <1>7
  <2>2. (first + 1) + i - 1 = first + i
    OBVIOUS
  <2> QED
    BY <2>1, <2>2
<1> QED
  BY <1>6, <1>8, <1>9

-----------------------------------------------------------------------------
(* The sums. *)

LEMMA Running ==
  ASSUME TypeOK, NEW i \in 0..Len(section)
  PROVE  /\ Sum1[section][i] \in Nat
         /\ Sum2[section][i] \in Nat
         /\ i < Len(section) =>
              /\ Sum1[section][i + 1] = Sum1[section][i] + section[i + 1]
              /\ Sum2[section][i + 1] = Sum2[section][i] + Sum1[section][i + 1]
              /\ section[i + 1] \in 0..MaxByte
<1>1. /\ section \in Seq(0..MaxByte)
      /\ IsRunningSum(section, section, Sum1[section])
      /\ IsRunningSum(section, Sum1[section], Sum2[section])
  BY SumAssumption DEF TypeOK
<1>2. Len(section) \in Nat /\ \A j \in 1..Len(section) : section[j] \in 0..MaxByte
  BY <1>1, LenProperties, ElementOfSeq
<1>3. Sum1[section][i] \in Nat /\ Sum2[section][i] \in Nat
  BY <1>1 DEF IsRunningSum
<1>4. ASSUME i < Len(section)
      PROVE  /\ Sum1[section][i + 1] = Sum1[section][i] + section[i + 1]
             /\ Sum2[section][i + 1] = Sum2[section][i] + Sum1[section][i + 1]
             /\ section[i + 1] \in 0..MaxByte
  <2>1. i + 1 \in 1..Len(section) /\ (i + 1) - 1 = i
    BY <1>2, <1>4
  <2>2. Sum1[section][i + 1] = Sum1[section][(i + 1) - 1] + section[i + 1]
    BY <1>1, <2>1 DEF IsRunningSum
  <2>3. Sum2[section][i + 1] = Sum2[section][(i + 1) - 1] + Sum1[section][i + 1]
    BY <1>1, <2>1 DEF IsRunningSum
  <2> QED
    BY <1>2, <2>1, <2>2, <2>3
<1> QED
  BY <1>3, <1>4

LEMMA SumsAreInts ==
  ASSUME TypeOK, NEW first \in Nat, NEW k \in Nat, first + k <= Len(section)
  PROVE  /\ ByteSum(first, k) \in Int
         /\ PartialSum(first, k) \in Int
         /\ Adler32(first, k).a \in 0..(Mod - 1)
         /\ Adler32(first, k).b \in 0..(Mod - 1)
<1> DEFINE s1 == Sum1[section][first]
           t1 == Sum1[section][first + k]
           s2 == Sum2[section][first]
           t2 == Sum2[section][first + k]
<1>1. first \in 0..Len(section) /\ first + k \in 0..Len(section)
  BY LenProperties, SumAssumption DEF TypeOK
<1>2. s1 \in Nat /\ t1 \in Nat /\ s2 \in Nat /\ t2 \in Nat
  BY <1>1, Running
<1>3. ByteSum(first, k) = 1 + t1 - s1 /\ PartialSum(first, k) = k + t2 - s2 - k * s1
  BY DEF ByteSum, PartialSum
<1> HIDE DEF s1, t1, s2, t2
<1>4. k * s1 \in Int
  BY <1>2
<1>5. ByteSum(first, k) \in Int /\ PartialSum(first, k) \in Int
  BY <1>2, <1>3, <1>4
<1> QED
  BY <1>5, Division, ModAssumption DEF Adler32

\* Running sums that move on by a byte at both ends.
LEMMA Ends ==
  ASSUME NEW k \in Nat, NEW s1 \in Int, NEW t1 \in Int, NEW s2 \in Int, NEW t2 \in Int,
         NEW x \in Int, NEW y \in Int
  PROVE  LET s == s1 + x
             t == t1 + y
         IN /\ 1 + t - s = (1 + t1 - s1) + y - x
            /\ k + (t2 + t) - (s2 + s) - k * s =
                 (k + t2 - s2 - k * s1) + (1 + t - s) - 1 - k * x
<1>1. k * (s1 + x) = k * s1 + k * x /\ k * s1 \in Int /\ k * x \in Int
  OBVIOUS
<1> QED
  BY <1>1

\* The sums of the window that has moved on by a byte.
LEMMA MovedOn ==
  ASSUME TypeOK, NEW first \in Nat, NEW k \in Nat, first + k < Len(section)
  PROVE  /\ ByteSum(first + 1, k) =
              ByteSum(first, k) + section[first + k + 1] - section[first + 1]
         /\ PartialSum(first + 1, k) =
              PartialSum(first, k) + ByteSum(first + 1, k) - 1 - k * section[first + 1]
<1> DEFINE j == first + k
           s1 == Sum1[section][first]
           t1 == Sum1[section][j]
           s2 == Sum2[section][first]
           t2 == Sum2[section][j]
           x == section[first + 1]
           y == section[j + 1]
<1>1. first \in 0..Len(section) /\ j \in 0..Len(section) /\ first < Len(section)
      /\ j < Len(section) /\ (first + 1) + k = j + 1
  BY LenProperties, SumAssumption DEF TypeOK
<1>2. /\ s1 \in Int /\ s2 \in Int /\ x \in Int
      /\ Sum1[section][first + 1] = s1 + x
      /\ Sum2[section][first + 1] = s2 + (s1 + x)
  BY <1>1, Running, ModAssumption
<1>3. /\ t1 \in Int /\ t2 \in Int /\ y \in Int
      /\ Sum1[section][j + 1] = t1 + y
      /\ Sum2[section][j + 1] = t2 + (t1 + y)
  BY <1>1, Running, ModAssumption
<1>4. ByteSum(first, k) = 1 + t1 - s1 /\ PartialSum(first, k) = k + t2 - s2 - k * s1
  BY DEF ByteSum, PartialSum
<1>5. /\ ByteSum(first + 1, k) = 1 + (t1 + y) - (s1 + x)
      /\ PartialSum(first + 1, k) =
           k + (t2 + (t1 + y)) - (s2 + (s1 + x)) - k * (s1 + x)
  BY <1>1, <1>2, <1>3 DEF ByteSum, PartialSum
<1> HIDE DEF s1, t1, s2, t2, x, y
<1>6. /\ 1 + (t1 + y) - (s1 + x) = (1 + t1 - s1) + y - x
      /\ k + (t2 + (t1 + y)) - (s2 + (s1 + x)) - k * (s1 + x) =
           (k + t2 - s2 - k * s1) + (1 + (t1 + y) - (s1 + x)) - 1 - k * x
  BY <1>2, <1>3, Ends
<1>7. /\ ByteSum(first + 1, k) = ByteSum(first, k) + y - x
      /\ PartialSum(first + 1, k) = PartialSum(first, k) + ByteSum(first + 1, k) - 1 - k * x
  BY <1>4, <1>5, <1>6
<1> QED
  BY <1>7 DEF x, y

-----------------------------------------------------------------------------
(* The invariant and the steps. *)

IInv == TypeOK /\ WindowHoldsSection /\ SumOfWindow

\* A section is a sequence of bytes, and the window a part of it.
LEMMA Bytes ==
  ASSUME TypeOK
  PROVE  /\ section \in Seq(0..MaxByte) /\ Len(section) \in Nat
         /\ window \in Seq(0..MaxByte) /\ Len(window) \in Nat
         /\ left \in Nat /\ oldest \in Nat
         /\ left + Len(window) <= Len(section)
BY SumAssumption, LenProperties DEF TypeOK

\* The sums of an empty window.
LEMMA Empty ==
  ASSUME TypeOK, NEW first \in 0..Len(section)
  PROVE  Adler32(first, 0) = [a |-> 1, b |-> 0]
<1> DEFINE s1 == Sum1[section][first]
           s2 == Sum2[section][first]
<1>1. s1 \in Nat /\ s2 \in Nat /\ first \in Nat /\ first + 0 = first
  BY Running, Bytes
<1>2. ByteSum(first, 0) = 1 + s1 - s1 /\ PartialSum(first, 0) = 0 + s2 - s2 - 0 * s1
  BY <1>1 DEF ByteSum, PartialSum
<1> HIDE DEF s1, s2
<1>3. ByteSum(first, 0) = 1 /\ PartialSum(first, 0) = 0
  BY <1>1, <1>2
<1>4. 1 % Mod = 1 /\ 0 % Mod = 0
  BY Small, ModAssumption
<1> QED
  BY <1>3, <1>4 DEF Adler32

\* The window after a step, byte by byte, and what the invariant says of it.
LEMMA Holding ==
  ASSUME TypeOK, section' = section,
         window' \in Seq(0..MaxByte), oldest' \in Nat,
         oldest' < Len(window') \/ oldest' = 0,
         left' \in Nat, left' + Len(window') <= Len(section),
         \A i \in 1..Len(window') : Turn(window', oldest')[i] = section[left' + i]
  PROVE  WindowHoldsSection'
<1> DEFINE T == Turn(window', oldest')
           P == SubSeq(section, left' + 1, left' + Len(window'))
           L == Len(window')
<1>1. L \in Nat
  BY LenProperties
<1>2. T \in Seq(0..MaxByte) /\ Len(T) = L
  BY Turned
<1>3. P \in Seq(0..MaxByte) /\ Len(P) = L /\ \A i \in 1..L : P[i] = section[left' + i]
  BY <1>1, Part
<1>4. \A i \in 1..Len(T) : T[i] = P[i]
  BY <1>2, <1>3
<1> HIDE DEF T, P, L
<1>5. T = P
  BY <1>2, <1>3, <1>4, SeqEqual
<1> QED
  BY <1>5 DEF WindowHoldsSection, sorted, Turn, T, P

\* The ring holds the section, byte by byte.
LEMMA Held ==
  ASSUME TypeOK, WindowHoldsSection
  PROVE  /\ sorted \in Seq(0..MaxByte)
         /\ Len(sorted) = Len(window)
         /\ \A i \in 1..Len(window) : sorted[i] = section[left + i]
<1>1. sorted = SubSeq(section, left + 1, left + Len(window))
  BY DEF WindowHoldsSection
<1> QED
  BY <1>1, Bytes, Part

\* The sums after a step are computed over the new window.
LEMMA Summing ==
  ASSUME section' = section
  PROVE  SumOfWindow' <=> /\ a' = Adler32(left', Len(window')).a
                          /\ b' = Adler32(left', Len(window')).b
                          /\ n' = Len(window') % Mod
BY DEF SumOfWindow, Adler32, ByteSum, PartialSum

LEMMA InitHolds == Init => IInv
<1> SUFFICES ASSUME Init PROVE IInv
  OBVIOUS
<1>1. section \in Sections /\ left = 0 /\ window = << >> /\ oldest = 0
      /\ a = 1 /\ b = 0 /\ n = 0
  BY DEF Init
<1>2. window \in Seq(0..MaxByte) /\ Len(window) = 0
  BY <1>1, EmptySeq
<1>3. section \in Seq(0..MaxByte) /\ Len(section) \in Nat
  BY <1>1, SumAssumption, LenProperties
<1>4. TypeOK
  BY <1>1, <1>2, <1>3, ModAssumption DEF TypeOK
<1>5. WindowHoldsSection
  <2> DEFINE P == SubSeq(section, left + 1, left + Len(window))
  <2>1. sorted \in Seq(0..MaxByte) /\ Len(sorted) = 0
    BY <1>1, <1>2, Turned DEF sorted, Turn
  <2>2. P \in Seq(0..MaxByte) /\ Len(P) = 0
    BY <1>1, <1>2, <1>3, <1>4, Part
  <2> HIDE DEF P
  <2>3. sorted = P
    BY <2>1, <2>2, SeqEqual
  <2> QED
    BY <2>3 DEF WindowHoldsSection, P
<1>6. SumOfWindow
  <2>1. Adler32(left, Len(window)) = [a |-> 1, b |-> 0]
    BY <1>1, <1>2, <1>3, <1>4, Empty
  <2>2. Len(window) % Mod = 0
    BY <1>2, Small, ModAssumption
  <2> QED
    BY <1>1, <2>1, <2>2 DEF SumOfWindow
<1> QED
  BY <1>4, <1>5, <1>6 DEF IInv

LEMMA WriteHolds == IInv /\ Write => IInv'
<1> SUFFICES ASSUME IInv, Write PROVE IInv'
  OBVIOUS
<1> DEFINE L == Len(window)
<1>1. PICK k \in 1..Unread :
        /\ window' = sorted \o SubSeq(section, left + L + 1, left + L + k)
        /\ oldest' = 0
        /\ a' = Adler32(left, L + k).a
        /\ b' = Adler32(left, L + k).b
        /\ n' = (L + k) % Mod
        /\ UNCHANGED <<section, left>>
  BY DEF Write
<1> DEFINE Q == SubSeq(section, left + L + 1, left + L + k)
<1>2. /\ section \in Seq(0..MaxByte) /\ Len(section) \in Nat
      /\ L \in Nat /\ left \in Nat /\ section \in Sections
  BY Bytes DEF IInv, TypeOK
<1> HIDE DEF L
<1>3. k \in Nat /\ left + L + k <= Len(section) /\ left + L \in Nat /\ L + k \in Nat
  BY <1>2 DEF Unread, L
<1>4. /\ Q \in Seq(0..MaxByte) /\ Len(Q) = k
      /\ \A i \in 1..k : Q[i] = section[left + L + i]
  BY <1>3, Part DEF IInv
<1>5. /\ sorted \in Seq(0..MaxByte) /\ Len(sorted) = L
      /\ \A i \in 1..L : sorted[i] = section[left + i]
  BY Held DEF IInv, L
<1> HIDE DEF Q
<1>6. /\ sorted \o Q \in Seq(0..MaxByte)
      /\ Len(sorted \o Q) = L + k
      /\ \A i \in 1..(L + k) :
           (sorted \o Q)[i] = IF i <= L THEN sorted[i] ELSE Q[i - L]
  <2> DEFINE T == sorted
  <2>1. T \in Seq(0..MaxByte) /\ Len(T) = L /\ Q \in Seq(0..MaxByte) /\ Len(Q) = k
    BY <1>4, <1>5
  <2> HIDE DEF T
  <2>2. /\ T \o Q \in Seq(0..MaxByte)
        /\ Len(T \o Q) = Len(T) + Len(Q)
        /\ \A i \in 1..(Len(T) + Len(Q)) :
             (T \o Q)[i] = IF i <= Len(T) THEN T[i] ELSE Q[i - Len(T)]
    BY <2>1, ConcatProperties
  <2> QED
    BY <2>1, <2>2 DEF T
<1>7. window' = sorted \o Q
  BY <1>1 DEF Q
<1>8. \A i \in 1..(L + k) : window'[i] = section[left + i]
  <2> TAKE i \in 1..(L + k)
  <2>1. CASE i <= L
    BY <1>2, <1>5, <1>6, <1>7, <2>1
  <2>2. CASE i > L
    <3>1. i - L \in 1..k /\ left + L + (i - L) = left + i /\ ~(i <= L)
      BY <1>2, <1>3, <2>2
    <3>2. window'[i] = Q[i - L]
      BY <1>6, <1>7, <3>1
    <3>3. Q[i - L] = section[left + L + (i - L)]
      BY <1>4, <3>1
    <3> QED
      BY <3>1, <3>2, <3>3
  <2> QED
    BY <1>2, <2>1, <2>2
<1>9. window' \in Seq(0..MaxByte) /\ Len(window') = L + k
  BY <1>6, <1>7
<1>10. \A i \in 1..Len(window') : Turn(window', oldest')[i] = section[left' + i]
  <2>1. \A i \in 1..Len(window') : Turn(window', 0)[i] = window'[i]
    BY <1>3, <1>9, Turned
  <2> QED
    BY <1>1, <1>8, <1>9, <2>1
<1>11. /\ Adler32(left, L + k).a \in 0..(Mod - 1)
       /\ Adler32(left, L + k).b \in 0..(Mod - 1)
       /\ (L + k) % Mod \in 0..(Mod - 1)
  <2>1. left + (L + k) <= Len(section)
    BY <1>2, <1>3
  <2>2. (L + k) % Mod \in 0..(Mod - 1)
    BY <1>3, Division, ModAssumption
  <2> QED
    BY <1>2, <1>3, <2>1, <2>2, SumsAreInts DEF IInv
<1>12. TypeOK'
  <2>1. left' \in 0..Len(section') /\ left' + Len(window') <= Len(section')
        /\ oldest' \in Nat /\ oldest' = 0
    BY <1>1, <1>2, <1>3, <1>9
  <2> QED
    BY <1>1, <1>2, <1>9, <1>11, <2>1 DEF TypeOK
<1>13. WindowHoldsSection'
  <2>1. left' + Len(window') <= Len(section) /\ left' \in Nat /\ oldest' \in Nat
    BY <1>1, <1>2, <1>3, <1>9
  <2> QED
    BY <1>1, <1>9, <1>10, <2>1, Holding DEF IInv
<1>14. SumOfWindow'
  BY <1>1, <1>9, Summing
<1> QED
  BY <1>12, <1>13, <1>14 DEF IInv

LEMMA ResetHolds == IInv /\ Reset => IInv'
<1> SUFFICES ASSUME IInv, Reset PROVE IInv'
  OBVIOUS
<1>1. /\ left' = left + Len(window) /\ window' = << >> /\ oldest' = 0
      /\ a' = 1 /\ b' = 0 /\ n' = 0 /\ section' = section
  BY DEF Reset
<1>2. /\ Len(section) \in Nat /\ Len(window) \in Nat /\ left \in Nat
      /\ section \in Sections /\ left + Len(window) <= Len(section)
  BY Bytes DEF IInv, TypeOK
<1>3. left' \in 0..Len(section)
  BY <1>1, <1>2
<1>4. window' \in Seq(0..MaxByte) /\ Len(window') = 0
  BY <1>1, EmptySeq
<1>5. TypeOK'
  BY <1>1, <1>2, <1>3, <1>4, ModAssumption DEF TypeOK
<1>6. WindowHoldsSection'
  <2>1. \A i \in 1..Len(window') : Turn(window', oldest')[i] = section[left' + i]
    BY <1>4
  <2> QED
    BY <1>1, <1>2, <1>3, <1>4, <2>1, Holding DEF IInv
<1>7. SumOfWindow'
  <2>1. Adler32(left', 0) = [a |-> 1, b |-> 0]
    BY <1>3, Empty DEF IInv
  <2>2. 0 % Mod = 0
    BY Small, ModAssumption
  <2> QED
    BY <1>1, <1>4, <2>1, <2>2, Summing
<1> QED
  BY <1>5, <1>6, <1>7 DEF IInv

LEMMA GetWindowHolds == IInv /\ GetWindow => IInv'
<1> SUFFICES ASSUME IInv, GetWindow PROVE IInv'
  OBVIOUS
<1>1. window' = sorted /\ oldest' = 0 /\ UNCHANGED <<section, left, a, b, n>>
  BY DEF GetWindow, sums
<1>2. /\ sorted \in Seq(0..MaxByte) /\ Len(sorted) = Len(window)
      /\ \A i \in 1..Len(window) : sorted[i] = section[left + i]
  BY Held DEF IInv
<1>3. /\ left \in Nat /\ left + Len(window) <= Len(section)
  BY Bytes DEF IInv
<1>4. TypeOK'
  BY <1>1, <1>2 DEF IInv, TypeOK
<1>5. WindowHoldsSection'
  <2>1. \A i \in 1..Len(window') : Turn(window', 0)[i] = window'[i]
    BY <1>1, <1>2, LenProperties, Turned
  <2> QED
    BY <1>1, <1>2, <1>3, <2>1, Holding DEF IInv
<1>6. SumOfWindow'
  BY <1>1, <1>2, Summing DEF IInv, SumOfWindow
<1> QED
  BY <1>4, <1>5, <1>6 DEF IInv

LEMMA RollHolds == IInv /\ Roll => IInv'
<1> SUFFICES ASSUME IInv, Roll PROVE IInv'
  OBVIOUS
<1> DEFINE L == Len(window)
           enter == section[left + L + 1]
           leave == window[oldest + 1]
<1>1. /\ L > 0 /\ Unread > 0
      /\ window' = [window EXCEPT ![oldest + 1] = enter]
      /\ oldest' = IF oldest + 1 >= L THEN 0 ELSE oldest + 1
      /\ a' = rollA(enter, leave)
      /\ b' = rollB(rollA(enter, leave), leave)
      /\ left' = left + 1 /\ section' = section /\ n' = n
  BY DEF Roll
<1>2. /\ section \in Seq(0..MaxByte) /\ Len(section) \in Nat
      /\ window \in Seq(0..MaxByte) /\ L \in Nat /\ left \in Nat /\ oldest \in Nat
      /\ left + L < Len(section) /\ oldest < L
  <2>1. Len(section) - left - L > 0
    BY <1>1 DEF Unread
  <2>2. oldest < L \/ oldest = 0
    BY DEF IInv, TypeOK
  <2> QED
    BY <1>1, <2>1, <2>2, Bytes DEF IInv
<1>3. \A i \in 1..L : window[i] \in 0..MaxByte
  BY <1>2, ElementOfSeq
<1>4. enter \in 0..MaxByte /\ leave \in 0..MaxByte
  <2>1. left + L + 1 \in 1..Len(section) /\ oldest + 1 \in 1..L
    BY <1>2
  <2> QED
    BY <1>2, <1>3, <2>1, ElementOfSeq
<1>5. \A i \in 1..L :
        window[IF oldest + i <= L THEN oldest + i ELSE oldest + i - L] = section[left + i]
  <2>1. \A i \in 1..L : sorted[i] = section[left + i]
    BY Held DEF IInv
  <2>2. \A i \in 1..L :
          Turn(window, oldest)[i]
            = window[IF oldest + i <= L THEN oldest + i ELSE oldest + i - L]
    BY <1>2, Turned
  <2> QED
    BY <2>1, <2>2 DEF sorted, Turn
<1>6. leave = section[left + 1]
  BY <1>2, <1>5
<1> HIDE DEF L, enter, leave
<1>7. /\ window' \in Seq(0..MaxByte) /\ Len(window') = L
      /\ \A i \in 1..L : window'[i] = IF i = oldest + 1 THEN enter ELSE window[i]
  <2>1. oldest + 1 \in 1..L
    BY <1>2
  <2> QED
    BY <1>1, <1>2, <1>4, <2>1, ExceptSeq DEF L
<1>8. oldest' \in Nat /\ (oldest' < L \/ oldest' = 0)
  BY <1>1, <1>2
<1>9. \A i \in 1..L : Turn(window', oldest')[i] = section[left' + i]
  <2> TAKE i \in 1..L
  <2> DEFINE at == IF oldest' + i <= L THEN oldest' + i ELSE oldest' + i - L
  <2>1. Turn(window', oldest')[i] = window'[at]
    BY <1>7, <1>8, Turned
  <2>2. CASE i = L
    <3>1. at = oldest + 1 /\ at \in 1..L /\ left' + i = left + L + 1
      BY <1>1, <1>2, <2>2
    <3> QED
      BY <1>7, <2>1, <3>1 DEF enter
  <2>3. CASE i # L
    <3>1. /\ at = IF oldest + (i + 1) <= L THEN oldest + (i + 1) ELSE oldest + (i + 1) - L
          /\ at \in 1..L /\ at # oldest + 1 /\ i + 1 \in 1..L /\ left' + i = left + (i + 1)
      BY <1>1, <1>2, <2>3
    <3> HIDE DEF at
    <3>2. window'[at] = window[at]
      BY <1>7, <3>1
    <3>3. window[at] = section[left + (i + 1)]
      BY <1>5, <3>1
    <3> QED
      BY <2>1, <3>1, <3>2, <3>3
  <2> QED
    BY <2>2, <2>3
<1>10. WindowHoldsSection'
  <2>1. left' \in Nat /\ left' + L <= Len(section)
    BY <1>1, <1>2
  <2> QED
    BY <1>1, <1>7, <1>8, <1>9, <2>1, Holding DEF IInv
<1>11. /\ a \in 0..(Mod - 1) /\ b \in 0..(Mod - 1) /\ n \in 0..(Mod - 1)
       /\ a = ByteSum(left, L) % Mod /\ b = PartialSum(left, L) % Mod /\ n = L % Mod
  BY DEF IInv, TypeOK, SumOfWindow, Adler32, L
<1>12. Mod \in Nat /\ Mod > 0
  BY ModAssumption
<1>13. /\ ByteSum(left, L) \in Int /\ PartialSum(left, L) \in Int
       /\ ByteSum(left + 1, L) \in Int /\ PartialSum(left + 1, L) \in Int
  <2>1. left + 1 \in Nat /\ (left + 1) + L <= Len(section) /\ left + L <= Len(section)
    BY <1>2
  <2> QED
    BY <1>2, <2>1, SumsAreInts DEF IInv
<1>14. /\ ByteSum(left + 1, L) = ByteSum(left, L) + enter - leave
       /\ PartialSum(left + 1, L) = PartialSum(left, L) + ByteSum(left + 1, L) - 1 - L * leave
  BY <1>2, <1>6, MovedOn DEF IInv, enter
<1>15. a' = ByteSum(left + 1, L) % Mod
  <2>1. a' = (a + enter - leave) % Mod
    BY <1>1, <1>4, <1>11, RollA
  <2>2. enter - leave \in Int /\ a + enter - leave = a + (enter - leave)
    BY <1>4, <1>11, ModAssumption
  <2>3. ((ByteSum(left, L) % Mod) + (enter - leave)) % Mod
          = (ByteSum(left, L) + (enter - leave)) % Mod
    BY <1>12, <1>13, <2>2, Summand
  <2>4. ByteSum(left, L) + (enter - leave) = ByteSum(left + 1, L)
    BY <1>4, <1>13, <1>14, ModAssumption
  <2> QED
    BY <1>11, <2>1, <2>2, <2>3, <2>4
<1>16. b' = PartialSum(left + 1, L) % Mod
  <2> DEFINE B == PartialSum(left, L)
             A == ByteSum(left + 1, L)
  <2>1. a' \in 0..(Mod - 1) /\ a' = A % Mod
    BY <1>12, <1>13, <1>15, Division
  <2>2. b' = (b + a' - n * leave - 1) % Mod
    BY <1>1, <1>4, <1>11, <2>1, RollB
  <2>3. leave \in Int /\ L \in Int /\ A \in Int /\ B \in Int /\ a' \in Int /\ b \in Int
        /\ b = B % Mod /\ n = L % Mod
    BY <1>2, <1>4, <1>11, <1>13, <2>1, ModAssumption
  <2>4. PartialSum(left + 1, L) = B + A - 1 - L * leave
    BY <1>14
  <2> HIDE DEF A, B
  <2> DEFINE nl == n * leave
             Ll == L * leave
  <2>5. nl \in Int /\ Ll \in Int
    BY <2>3, <1>11
  <2>6. ((B % Mod) + (a' - nl - 1)) % Mod = (B + (a' - nl - 1)) % Mod
    BY <1>12, <2>3, <2>5, Summand, a' - nl - 1 \in Int
  <2>7. ((A % Mod) + (B - nl - 1)) % Mod = (A + (B - nl - 1)) % Mod
    BY <1>12, <2>3, <2>5, Summand, B - nl - 1 \in Int
  <2>8. ((A + B - 1) - (L % Mod) * leave) % Mod = ((A + B - 1) - L * leave) % Mod
    <3> DEFINE y == A + B - 1
    <3>1. y \in Int
      BY <2>3
    <3>2. L \in Int /\ leave \in Int
      BY <2>3
    <3> HIDE DEF y
    <3>3. (y - (L % Mod) * leave) % Mod = (y - L * leave) % Mod
      BY <1>12, <3>1, <3>2, Factor, Zenon
    <3> QED
      BY <3>3 DEF y
  <2>9. ((A + B - 1) - nl) % Mod = ((A + B - 1) - Ll) % Mod
    BY <2>3, <2>8
  <2>10. b' = (b + a' - nl - 1) % Mod /\ PartialSum(left + 1, L) = B + A - 1 - Ll
    BY <2>2, <2>4
  <2> HIDE DEF nl, Ll
  <2>11. /\ b + a' - nl - 1 = (B % Mod) + (a' - nl - 1)
         /\ B + (a' - nl - 1) = (A % Mod) + (B - nl - 1)
         /\ A + (B - nl - 1) = (A + B - 1) - nl
         /\ B + A - 1 - Ll = (A + B - 1) - Ll
    BY <2>1, <2>3, <2>5
  <2> QED
    BY <2>6, <2>7, <2>9, <2>10, <2>11
<1>17. SumOfWindow'
  <2>1. /\ a' = Adler32(left', L).a /\ b' = Adler32(left', L).b /\ n' = L % Mod
    BY <1>1, <1>11, <1>15, <1>16 DEF Adler32
  <2> QED
    BY <1>1, <1>7, <2>1, Summing
<1>18. TypeOK'
  <2>1. a' \in 0..(Mod - 1) /\ b' \in 0..(Mod - 1) /\ n' \in 0..(Mod - 1)
    BY <1>1, <1>11, <1>12, <1>13, <1>15, <1>16, Division
  <2>2. left' \in 0..Len(section') /\ left' + Len(window') <= Len(section')
    BY <1>1, <1>2, <1>7
  <2>3. section' \in Sections
    BY <1>1 DEF IInv, TypeOK
  <2> QED
    BY <1>7, <1>8, <2>1, <2>2, <2>3 DEF TypeOK
<1> QED
  BY <1>10, <1>17, <1>18 DEF IInv

LEMMA StutterHolds == IInv /\ UNCHANGED vars => IInv'
BY DEF IInv, TypeOK, WindowHoldsSection, SumOfWindow, sorted, Adler32, ByteSum,
       PartialSum, vars, ring, sums

-----------------------------------------------------------------------------
\* The invariant holds in every reachable state.
LEMMA Invariance == Spec => []IInv
<1>1. IInv /\ [Next]_vars => IInv'
  BY WriteHolds, RollHolds, ResetHolds, GetWindowHolds, StutterHolds DEF Next
<1> QED
  BY InitHolds, <1>1, PTL DEF Spec

\* The ring and the halves of the sum stay in their ranges, for every modulus
\* and word for which the code's own bounds hold: TypeOK.
THEOREM RadlerTyped == Spec => []TypeOK
<1>1. IInv => TypeOK
  BY DEF IInv
<1> QED
  BY Invariance, <1>1, PTL

\* The ring is the part of the section that has been read and not left, in
\* order, for every section and every window length: WindowHoldsSection.
THEOREM RingHoldsSection == Spec => []WindowHoldsSection
<1>1. IInv => WindowHoldsSection
  BY DEF IInv
<1> QED
  BY Invariance, <1>1, PTL

\* The rolled sum is the sum computed anew, although the words wrap and the
\* window may be longer than the modulus: SumOfWindow.
THEOREM RolledIsAnew == Spec => []SumOfWindow
<1>1. IInv => SumOfWindow
  BY DEF IInv
<1> QED
  BY Invariance, <1>1, PTL

-----------------------------------------------------------------------------
(* The rolling hash is a rolling sum.                                      *)

\* The order of the numbers, as the relation the library's theorem is about.
LEMMA LessThan == \A x, y \in Nat : x < y => <<x, y>> \in OpToRel(<, Nat)
BY DEF OpToRel

\* What holds of zero and of the successors up to k holds up to k.
LEMMA UpTo ==
  ASSUME NEW S, NEW k \in Nat, 0 \in S, \A i \in 1..k : i - 1 \in S => i \in S
  PROVE  \A i \in 0..k : i \in S
<1> SUFFICES ASSUME NEW j \in 0..k, j \notin S PROVE FALSE
  OBVIOUS
<1> DEFINE T == {i \in 0..k : i \notin S}
<1>1. T \subseteq Nat /\ T # {}
  OBVIOUS
<1>2. PICK m \in T : \A y \in T : ~(<<y, m>> \in OpToRel(<, Nat))
  BY <1>1, NatLessThanWellFounded, WFMin
<1>3. m \in 1..k /\ m \notin S
  OBVIOUS
<1>4. m - 1 \in T /\ m - 1 < m /\ m - 1 \in Nat /\ m \in Nat
  BY <1>3
<1>5. <<m - 1, m>> \in OpToRel(<, Nat)
  BY <1>4, LessThan
<1> QED
  BY <1>2, <1>4, <1>5

\* The sum byte by byte: the function its definition chooses.
Sums(w, f) ==
  f = [i \in 0..Len(w) |->
         IF i = 0 THEN [x |-> 1, y |-> 0]
         ELSE [x |-> (f[i - 1].x + w[i]) % Mod,
               y |-> (f[i - 1].y + f[i - 1].x + w[i]) % Mod]]

\* There is one such function, if there is one.
LEMMA SumsAgree ==
  ASSUME NEW w, Len(w) \in Nat, NEW f, NEW g, Sums(w, f), Sums(w, g)
  PROVE  f = g
<1> DEFINE S == {i \in 0..Len(w) : f[i] = g[i]}
<1>1. /\ \A i \in 1..Len(w) : i \in 0..Len(w) /\ i # 0
      /\ 0 \in 0..Len(w)
  OBVIOUS
<1>2. f[0] = [x |-> 1, y |-> 0] /\ g[0] = [x |-> 1, y |-> 0]
  BY <1>1 DEF Sums
<1>3. 0 \in S
  BY <1>1, <1>2
<1>4. ASSUME NEW i \in 1..Len(w), i - 1 \in S PROVE i \in S
  <2>1. f[i] = [x |-> (f[i - 1].x + w[i]) % Mod,
                y |-> (f[i - 1].y + f[i - 1].x + w[i]) % Mod]
    BY <1>1 DEF Sums
  <2>2. g[i] = [x |-> (g[i - 1].x + w[i]) % Mod,
                y |-> (g[i - 1].y + g[i - 1].x + w[i]) % Mod]
    BY <1>1 DEF Sums
  <2>3. f[i - 1] = g[i - 1]
    BY <1>4
  <2> QED
    BY <1>1, <2>1, <2>2, <2>3
<1> HIDE DEF S
<1>5. \A i \in 0..Len(w) : i \in S
  BY <1>3, <1>4, UpTo
<1>6. f = [i \in 0..Len(w) |-> f[i]] /\ g = [i \in 0..Len(w) |-> g[i]]
  BY DEF Sums
<1>7. \A i \in 0..Len(w) : f[i] = g[i]
  BY <1>5 DEF S
<1> QED
  BY <1>6, <1>7

\* So what the definition chooses is a function that is found.
LEMMA ChecksumIs ==
  ASSUME NEW w, Len(w) \in Nat, NEW g, Sums(w, g)
  PROVE  Checksum(w) = g[Len(w)].y * Half + g[Len(w)].x
<1> DEFINE f == CHOOSE f : Sums(w, f)
<1>1. Sums(w, f)
  OBVIOUS
<1>2. f = g
  BY <1>1, SumsAgree
<1>3. Checksum(w) = f[Len(w)].y * Half + f[Len(w)].x
  BY DEF Checksum, Sums
<1> QED
  BY <1>2, <1>3

\* One byte more: of a sum, the remainder is enough.
LEMMA ByteMore ==
  ASSUME NEW m \in Nat, m > 0, NEW p \in Int, NEW q \in Int, NEW v \in Int
  PROVE  /\ ((p % m) + v) % m = (p + v) % m
         /\ ((q % m) + (p % m) + v) % m = (q + (p + v)) % m
<1> DEFINE x == (p % m) + v
           y == q + v
<1>1. p % m \in Int /\ q % m \in Int
  BY Division
<1>2. x \in Int /\ y \in Int
  BY <1>1
<1>3. x % m = (p + v) % m
  BY Summand
<1>4. (q % m) + (p % m) + v = (q % m) + x /\ q + x = (p % m) + y /\ p + y = q + (p + v)
  BY <1>1
<1> HIDE DEF x, y
<1>5. ((q % m) + x) % m = (q + x) % m
  BY <1>2, Summand
<1>6. ((p % m) + y) % m = (p + y) % m
  BY <1>2, Summand
<1> QED
  BY <1>3, <1>4, <1>5, <1>6 DEF x

\* Byte by byte, the sums of a part of a section are those of Adler32.
LEMMA PartSums ==
  ASSUME TypeOK, NEW first \in Nat, NEW w \in Seq(0..MaxByte), first + Len(w) <= Len(section),
         \A i \in 1..Len(w) : w[i] = section[first + i]
  PROVE  Checksum(w) = Adler32(first, Len(w)).b * Half + Adler32(first, Len(w)).a
<1> DEFINE k == Len(w)
           A(i) == ByteSum(first, i)
           B(i) == PartialSum(first, i)
           g == [i \in 0..k |-> [x |-> A(i) % Mod, y |-> B(i) % Mod]]
<1>1. k \in Nat /\ Len(section) \in Nat /\ Mod \in Nat /\ Mod > 1
  BY Bytes, LenProperties, ModAssumption
<1>2. \A i \in 1..k : w[i] \in 0..MaxByte
  BY ElementOfSeq
<1>3. ASSUME NEW i \in 0..k
      PROVE  A(i) \in Int /\ B(i) \in Int
  <2>1. i \in Nat /\ first + i <= Len(section)
    BY <1>1
  <2> QED
    BY <2>1, SumsAreInts
<1>4. A(0) % Mod = 1 /\ B(0) % Mod = 0
  <2>1. first \in 0..Len(section)
    BY <1>1
  <2>2. Adler32(first, 0) = [a |-> 1, b |-> 0]
    BY <2>1, Empty
  <2> QED
    BY <2>2 DEF Adler32
<1>5. ASSUME NEW i \in 1..k
      PROVE  /\ A(i) = A(i - 1) + w[i]
             /\ B(i) = B(i - 1) + A(i)
  <2> DEFINE j == first + (i - 1)
             s1 == Sum1[section][first]
             s2 == Sum2[section][first]
             t1 == Sum1[section][j]
             t2 == Sum2[section][j]
             z == section[j + 1]
  <2>1. j \in 0..Len(section) /\ j < Len(section) /\ first \in 0..Len(section)
        /\ j + 1 = first + i /\ i \in Nat /\ i - 1 \in Nat
    BY <1>1
  <2>2. w[i] = z
    BY <2>1
  <2>3. /\ t1 \in Nat /\ t2 \in Nat /\ s1 \in Nat /\ s2 \in Nat /\ z \in Nat
        /\ Sum1[section][j + 1] = t1 + z
        /\ Sum2[section][j + 1] = t2 + (t1 + z)
    <3>1. /\ t1 \in Nat /\ t2 \in Nat
          /\ Sum1[section][j + 1] = t1 + z
          /\ Sum2[section][j + 1] = t2 + Sum1[section][j + 1]
          /\ z \in 0..MaxByte
      BY <2>1, Running
    <3>2. s1 \in Nat /\ s2 \in Nat
      BY <2>1, Running
    <3> QED
      BY <3>1, <3>2, ModAssumption
  <2>4. A(i) = 1 + (t1 + z) - s1 /\ A(i - 1) = 1 + t1 - s1
    BY <2>1, <2>3 DEF ByteSum
  <2>5. /\ B(i) = i + (t2 + (t1 + z)) - s2 - i * s1
        /\ B(i - 1) = (i - 1) + t2 - s2 - (i - 1) * s1
    BY <2>1, <2>3 DEF PartialSum
  <2> HIDE DEF s1, s2, t1, t2, z, j, A, B, k
  <2>6. (i - 1) * s1 = i * s1 - s1 /\ i * s1 \in Nat
    BY <2>1, <2>3
  <2> DEFINE p == i * s1
  <2>7. B(i) = i + (t2 + (t1 + z)) - s2 - p /\ B(i - 1) = (i - 1) + t2 - s2 - (p - s1) /\ p \in Nat
    BY <2>5, <2>6
  <2> HIDE DEF p
  <2> QED
    BY <2>1, <2>2, <2>3, <2>4, <2>7
<1> HIDE DEF A, B
<1>6. ASSUME NEW i \in 1..k
      PROVE  g[i] = [x |-> (g[i - 1].x + w[i]) % Mod,
                     y |-> (g[i - 1].y + g[i - 1].x + w[i]) % Mod]
  <2> DEFINE p == A(i - 1)
             q == B(i - 1)
             v == w[i]
  <2>1. i \in 0..k /\ i - 1 \in 0..k
    BY <1>1
  <2>2. p \in Int /\ q \in Int /\ v \in Int
    <3>1. v \in Int
      BY <1>2, ModAssumption
    <3> QED
      BY <1>3, <2>1, <3>1
  <2>3. g[i] = [x |-> A(i) % Mod, y |-> B(i) % Mod]
        /\ g[i - 1] = [x |-> p % Mod, y |-> q % Mod]
    BY <2>1
  <2>4. A(i) = p + v /\ B(i) = q + (p + v)
    BY <1>5
  <2> HIDE DEF p, q, v, g
  <2>5. /\ ((p % Mod) + v) % Mod = (p + v) % Mod
        /\ ((q % Mod) + (p % Mod) + v) % Mod = (q + (p + v)) % Mod
    <3>1. Mod \in Nat /\ Mod > 0
      BY ModAssumption
    <3> QED
      BY <2>2, <3>1, ByteMore
  <2> QED
    BY <2>3, <2>4, <2>5 DEF v
<1>7. g[0] = [x |-> 1, y |-> 0]
  BY <1>1, <1>4
<1>8. Sums(w, g)
  <2>1. \A i \in 0..k : i = 0 \/ i \in 1..k
    BY <1>1
  <2>2. g = [i \in 0..k |-> g[i]]
    OBVIOUS
  <2> HIDE DEF g
  <2>3. [i \in 0..k |-> g[i]] =
          [i \in 0..k |->
             IF i = 0 THEN [x |-> 1, y |-> 0]
             ELSE [x |-> (g[i - 1].x + w[i]) % Mod,
                   y |-> (g[i - 1].y + g[i - 1].x + w[i]) % Mod]]
    BY <1>6, <1>7, <2>1
  <2> QED
    BY <2>2, <2>3 DEF Sums
<1>9. g[k] = [x |-> A(k) % Mod, y |-> B(k) % Mod]
  BY <1>1
<1> HIDE DEF g
<1>10. Checksum(w) = g[k].y * Half + g[k].x
  BY <1>1, <1>8, ChecksumIs
<1> QED
  BY <1>9, <1>10 DEF Adler32, A, B

\* What the hash reports is the checksum of its window.
LEMMA SumIsChecksum == IInv => Sum32 = Checksum(sorted)
<1> SUFFICES ASSUME IInv PROVE Sum32 = Checksum(sorted)
  OBVIOUS
<1> DEFINE w == sorted
           L == Len(window)
<1>1. /\ TypeOK /\ left \in Nat /\ L \in Nat /\ left + L <= Len(section)
      /\ a = Adler32(left, L).a /\ b = Adler32(left, L).b
      /\ b \in 0..(Mod - 1)
  BY Bytes DEF IInv, TypeOK, SumOfWindow
<1>2. w \in Seq(0..MaxByte) /\ Len(w) = L /\ \A i \in 1..L : w[i] = section[left + i]
  BY Held DEF IInv
<1> HIDE DEF w, L
<1>3. Checksum(w) = b * Half + a
  BY <1>1, <1>2, PartSums
<1>4. (b * Half) % Word = b * Half
  <2>1. b * Half <= (Half - 1) * Half /\ b * Half \in Nat /\ (Half - 1) * Half = Half * Half - Half
    <3>1. b \in Nat /\ Half \in Nat /\ Half > 1 /\ b <= Half - 1
      BY <1>1, ModAssumption
    <3>2. \A x, y, z \in Nat : x <= y => x * z <= y * z
      BY Z3
    <3> QED
      BY <3>1, <3>2
  <2>2. b * Half \in 0..(Word - 1)
    BY <2>1, ModAssumption DEF Word
  <2> QED
    BY <2>2, Words, Small
<1> QED
  BY <1>3, <1>4 DEF Sum32, w

\* Every step of the ring is one of the abstract window.
LEMMA StepRolls ==
  ASSUME IInv, IInv', [Next]_vars
  PROVE  [Rolling!Longer \/ Rolling!Moved \/ Rolling!Cleared]_sorted
<1> DEFINE w == sorted
           v == sorted'
           L == Len(window)
           M == Len(window')
           S == 0..MaxByte
<1>1. /\ w \in Seq(S) /\ Len(w) = L /\ \A i \in 1..L : w[i] = section[left + i]
      /\ L \in Nat /\ left \in Nat
  BY Held, Bytes DEF IInv
<1>2. section' = section
  BY DEF Next, Write, Roll, Reset, GetWindow, vars, ring, sums
<1>3. /\ v \in Seq(S) /\ Len(v) = M /\ \A i \in 1..M : v[i] = section[left' + i]
      /\ M \in Nat
  <2>1. window' \in Seq(S) /\ left' \in Nat /\ left' + M <= Len(section)
    BY <1>2, Bytes DEF IInv, TypeOK
  <2>2. M \in Nat
    BY <2>1, LenProperties
  <2>3. v = SubSeq(section, left' + 1, left' + M)
    BY <1>2 DEF IInv, WindowHoldsSection
  <2> HIDE DEF M, v
  <2> QED
    BY <2>1, <2>2, <2>3, Part DEF IInv
<1>4. CASE left' = left /\ M > L
  <2> DEFINE u == SubSeq(v, 1, L)
  <2> HIDE DEF w, v, L, M, S
  <2>1. u \in Seq(S) /\ Len(u) = L /\ \A i \in 1..L : u[i] = v[i]
    BY <1>1, <1>3, <1>4
  <2>2. \A i \in 1..L : v[i] = w[i]
    <3>1. \A i \in 1..L : i \in 1..M
      BY <1>1, <1>3, <1>4
    <3>2. \A i \in 1..M : v[i] = section[left + i]
      BY <1>3, <1>4
    <3> QED
      BY <1>1, <3>1, <3>2
  <2> HIDE DEF u
  <2>3. u = w
    BY <1>1, <2>1, <2>2, SeqEqual
  <2>4. Len(v) > Len(w) /\ SubSeq(v, 1, Len(w)) = w
    BY <1>1, <1>3, <1>4, <2>3 DEF u
  <2> QED
    BY <2>4 DEF Rolling!Longer, w, v
<1>5. CASE left' = left /\ M = L
  <2> HIDE DEF w, v, L, M, S
  <2>1. v = w
    BY <1>1, <1>3, <1>5, SeqEqual
  <2> QED
    BY <2>1 DEF w, v
<1>6. CASE left' = left + 1 /\ M = L /\ L > 0
  <2> DEFINE u == SubSeq(v, 1, L - 1)
             t == Tail(w)
  <2> HIDE DEF w, v, L, M, S
  <2>1. u \in Seq(S) /\ Len(u) = L - 1 /\ \A i \in 1..(L - 1) : u[i] = v[i]
    BY <1>1, <1>3, <1>6
  <2>2. t \in Seq(S) /\ Len(t) = L - 1 /\ \A i \in 1..(L - 1) : t[i] = w[i + 1]
    BY <1>1, <1>6
  <2> HIDE DEF u, t
  <2>3. \A i \in 1..(L - 1) : u[i] = t[i]
    <3> SUFFICES ASSUME NEW i \in 1..(L - 1) PROVE u[i] = t[i]
      OBVIOUS
    <3>1. i \in 1..M /\ i + 1 \in 1..L /\ left' + i = left + (i + 1)
      BY <1>1, <1>3, <1>6
    <3>2. u[i] = v[i] /\ t[i] = w[i + 1]
      BY <2>1, <2>2
    <3>3. v[i] = section[left' + i]
      BY <1>3, <3>1
    <3>4. w[i + 1] = section[left + (i + 1)]
      BY <1>1, <3>1
    <3> QED
      BY <3>1, <3>2, <3>3, <3>4
  <2>4. u = t
    BY <2>1, <2>2, <2>3, SeqEqual
  <2>5. w # << >> /\ Len(v) = Len(w) /\ SubSeq(v, 1, Len(w) - 1) = Tail(w)
    BY <1>1, <1>3, <1>6, <2>4 DEF u, t
  <2> QED
    BY <2>5 DEF Rolling!Moved, w, v
<1>7. CASE M = 0
  <2> HIDE DEF v
  <2>1. v = << >>
    BY <1>3, <1>7, EmptySeq
  <2> QED
    BY <2>1 DEF Rolling!Cleared, v
<1>8. CASE Write
  <2>1. PICK k \in 1..Unread :
          /\ window' = sorted \o SubSeq(section, left + L + 1, left + L + k)
          /\ left' = left
    BY <1>8 DEF Write
  <2>2. k \in Nat /\ k > 0 /\ left + L + k <= Len(section) /\ Len(section) \in Nat
    BY <1>1, Bytes DEF Unread, IInv
  <2> DEFINE Q == SubSeq(section, left + L + 1, left + L + k)
  <2>3. Q \in Seq(S) /\ Len(Q) = k
    <3> DEFINE f == left + L
    <3>1. f \in Nat /\ f + k <= Len(section)
      BY <1>1, <2>2
    <3> HIDE DEF f
    <3>2. SubSeq(section, f + 1, f + k) \in Seq(S) /\ Len(SubSeq(section, f + 1, f + k)) = k
      BY <2>2, <3>1, Part DEF IInv
    <3> QED
      BY <3>2 DEF f
  <2> HIDE DEF Q
  <2>4. Len(w \o Q) = Len(w) + Len(Q)
    BY <1>1, <2>3, ConcatProperties
  <2>5. M = L + k
    BY <1>1, <2>1, <2>3, <2>4 DEF Q
  <2> QED
    BY <1>1, <1>4, <2>1, <2>2, <2>5
<1>9. CASE Roll
  <2>1. left' = left + 1 /\ L > 0
    BY <1>9 DEF Roll
  <2>2. M = L
    <3>1. DOMAIN window' = DOMAIN window
      BY <1>9 DEF Roll
    <3>2. window \in Seq(S) /\ window' \in Seq(S)
      BY DEF IInv, TypeOK
    <3>3. DOMAIN window = 1..L /\ DOMAIN window' = 1..M /\ L \in Nat /\ M \in Nat
      BY <3>2, LenProperties
    <3> QED
      BY <3>1, <3>3
  <2> QED
    BY <1>6, <2>1, <2>2
<1>10. CASE Reset
  BY <1>7, <1>10, EmptySeq DEF Reset
<1>11. CASE GetWindow
  BY <1>1, <1>5, <1>11 DEF GetWindow
<1>12. CASE UNCHANGED vars
  BY <1>12 DEF vars, ring, sorted
<1> QED
  BY <1>8, <1>9, <1>10, <1>11, <1>12 DEF Next

\* Radler32 implements the abstract rolling sum, with the ring put in order as
\* its content: whatever is written, rolled, cleared or read out, the window
\* grows at its end, moves on by one byte or is dropped, and what Sum32 returns
\* is the Adler-32 of its bytes, computed byte by byte.
THEOREM RollsAsSum == Spec => RollsOn
<1>1. Init => Rolling!Init
  <2> SUFFICES ASSUME Init PROVE sorted = << >>
    BY DEF Rolling!Init
  <2>1. IInv /\ Len(window) = 0
    BY InitHolds, EmptySeq DEF Init
  <2>2. sorted \in Seq(0..MaxByte) /\ Len(sorted) = 0
    BY <2>1, Held DEF IInv
  <2> HIDE DEF sorted
  <2> QED
    BY <2>2, EmptySeq
<1>2. IInv /\ IInv' /\ [Next]_vars => [Rolling!Longer \/ Rolling!Moved \/ Rolling!Cleared]_sorted
  BY StepRolls
<1>3. IInv => Sum32 = Checksum(sorted)
  BY SumIsChecksum
<1> QED
  BY Invariance, <1>1, <1>2, <1>3, PTL DEF Spec, RollsOn, Rolling!Spec

=============================================================================
