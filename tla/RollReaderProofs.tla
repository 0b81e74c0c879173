-------------------------- MODULE RollReaderProofs --------------------------
(***************************************************************************)
(* Proofs about the delta algorithm of one section (RollReader): what its  *)
(* variables hold, that the messages are numbered and ended as the writer  *)
(* expects, that the writer can follow every index, that nothing of the    *)
(* section is lost on its way, and that no block the destination has is    *)
(* sent byte by byte.                                                      *)
(***************************************************************************)
EXTENDS RollReader, SequenceTheorems, WellFoundedInduction, TLAPS

-----------------------------------------------------------------------------
(* Induction, for a set of numbers in place of a predicate.                *)

\* The order of the numbers, as the relation the library's theorem is about.
LEMMA LessThan == \A x, y \in Nat : x < y => <<x, y>> \in OpToRel(<, Nat)
BY DEF OpToRel

\* A set with zero and with the successor of each of its numbers has them all.
LEMMA Induction ==
  ASSUME NEW S, 0 \in S, \A n \in Nat : n \in S => n + 1 \in S
  PROVE  \A n \in Nat : n \in S
<1> SUFFICES ASSUME NEW k \in Nat, k \notin S PROVE FALSE
  OBVIOUS
<1> DEFINE T == {n \in Nat : n \notin S}
<1>1. T \subseteq Nat /\ T # {}
  OBVIOUS
<1>2. PICK m \in T : \A y \in T : ~(<<y, m>> \in OpToRel(<, Nat))
  BY <1>1, NatLessThanWellFounded, WFMin
<1>3. m # 0 /\ m \in Nat /\ m \notin S
  OBVIOUS
<1>4. m - 1 \in Nat /\ m - 1 < m /\ (m - 1) + 1 = m
  BY <1>3
<1>5. m - 1 \in T
  BY <1>3, <1>4
<1> QED
  BY <1>2, <1>3, <1>4, <1>5, LessThan

-----------------------------------------------------------------------------
(* Joining a sequence of sequences (FlattenSeq).                           *)

\* The function that joins the first i of them, which the definition chooses.
Joins(f, s) ==
  f = [i \in 1..Len(s) |-> IF i = 1 THEN s[i] ELSE f[i - 1] \o s[i]]

\* The same as far as n.
JoinsTo(n, f, s) ==
  \A i \in 1..n : f[i] = IF i = 1 THEN s[i] ELSE f[i - 1] \o s[i]

\* One that joins the first n is continued with the next.
LEMMA JoinMore ==
  ASSUME NEW S, NEW s \in Seq(Seq(S)), NEW n \in Nat, n + 1 <= Len(s),
         NEW g \in [1..n -> Seq(S)], JoinsTo(n, g, s)
  PROVE  \E f \in [1..(n + 1) -> Seq(S)] : JoinsTo(n + 1, f, s)
<1>1. Len(s) \in Nat /\ n + 1 \in 1..Len(s)
  BY LenProperties
<1>2. s[n + 1] \in Seq(S)
  BY <1>1, ElementOfSeq
<1> DEFINE v == IF n = 0 THEN s[n + 1] ELSE g[n] \o s[n + 1]
           f == [i \in 1..(n + 1) |-> IF i <= n THEN g[i] ELSE v]
<1>3. v \in Seq(S)
  <2>1. CASE n = 0
    BY <1>2, <2>1
  <2>2. CASE n # 0
    <3>1. g[n] \in Seq(S)
      BY <2>2
    <3> QED
      BY <3>1, <1>2, <2>2, ConcatProperties
  <2> QED
    BY <2>1, <2>2
<1>4. f \in [1..(n + 1) -> Seq(S)]
  BY <1>3
<1>5. v = IF n = 0 THEN s[n + 1] ELSE g[n] \o s[n + 1]
  OBVIOUS
<1> HIDE DEF v
<1>6. /\ \A i \in 1..n : f[i] = g[i]
      /\ f[n + 1] = v
  OBVIOUS
<1> HIDE DEF f
<1>7. ASSUME NEW i \in 1..(n + 1)
      PROVE  f[i] = IF i = 1 THEN s[i] ELSE f[i - 1] \o s[i]
  <2>1. CASE i \in 1..n
    <3>1. f[i] = g[i]
      BY <1>6, <2>1
    <3>2. i # 1 => i - 1 \in 1..n
      BY <2>1
    <3>3. g[i] = IF i = 1 THEN s[i] ELSE g[i - 1] \o s[i]
      BY <2>1 DEF JoinsTo
    <3> QED
      BY <3>1, <3>2, <3>3, <1>6
  <2>2. CASE i = n + 1
    <3>1. n # 0 => n \in 1..n
      OBVIOUS
    <3>2. i - 1 = n
      BY <2>2
    <3>3. n # 0 => f[i - 1] = g[n]
      BY <3>1, <3>2, <1>6
    <3> QED
      BY <3>3, <1>5, <1>6, <2>2
  <2> QED
    BY <2>1, <2>2
<1> QED
  BY <1>4, <1>7 DEF JoinsTo

\* There is one that joins them all, and its values are sequences.
LEMMA JoinExists ==
  ASSUME NEW S, NEW s \in Seq(Seq(S))
  PROVE  \E f \in [1..Len(s) -> Seq(S)] : Joins(f, s)
<1> DEFINE I == {n \in Nat : n <= Len(s) =>
                   \E f \in [1..n -> Seq(S)] : JoinsTo(n, f, s)}
<1>0. Len(s) \in Nat
  BY LenProperties
<1>1. 0 \in I
  <2>1. [i \in 1..0 |-> << >>] \in [1..0 -> Seq(S)]
    OBVIOUS
  <2>2. JoinsTo(0, [i \in 1..0 |-> << >>], s)
    BY DEF JoinsTo
  <2> QED
    BY <2>1, <2>2
<1>2. ASSUME NEW n \in Nat, n \in I PROVE n + 1 \in I
  <2>1. ASSUME n + 1 <= Len(s)
        PROVE  \E f \in [1..(n + 1) -> Seq(S)] : JoinsTo(n + 1, f, s)
    <3>1. n <= Len(s)
      BY <2>1, <1>0
    <3>2. PICK g \in [1..n -> Seq(S)] : JoinsTo(n, g, s)
      BY <3>1, <1>2
    <3> QED
      BY <3>2, <2>1, JoinMore
  <2> QED
    BY <2>1
<1> HIDE DEF I
<1>3. Len(s) \in I
  BY <1>0, <1>1, <1>2, Induction
<1>4. PICK f \in [1..Len(s) -> Seq(S)] : JoinsTo(Len(s), f, s)
  BY <1>0, <1>3 DEF I
<1>5. Joins(f, s)
  BY <1>4 DEF Joins, JoinsTo
<1> QED
  BY <1>5

\* t goes on where s ends.
Begins(s, t) == Len(s) <= Len(t) /\ \A i \in 1..Len(s) : s[i] = t[i]

\* Two that join the same sequences agree as far as the shorter one goes.
LEMMA JoinAgrees ==
  ASSUME NEW S, NEW s \in Seq(Seq(S)), NEW t \in Seq(Seq(S)),
         NEW f, NEW g, Joins(f, s), Joins(g, t), Begins(s, t)
  PROVE  \A i \in 1..Len(s) : f[i] = g[i]
<1> DEFINE I == {n \in Nat : n \in 1..Len(s) => f[n] = g[n]}
<1>0. /\ Len(s) \in Nat /\ Len(t) \in Nat
      /\ Len(s) <= Len(t) /\ \A i \in 1..Len(s) : s[i] = t[i]
  BY LenProperties DEF Begins
<1>1. 0 \in I
  BY <1>0
<1>2. ASSUME NEW n \in Nat, n \in I PROVE n + 1 \in I
  <2> SUFFICES ASSUME n + 1 \in 1..Len(s) PROVE f[n + 1] = g[n + 1]
    OBVIOUS
  <2>1. n + 1 \in 1..Len(t) /\ (n + 1) - 1 = n
    BY <1>0
  <2>2. f[n + 1] = IF n + 1 = 1 THEN s[n + 1] ELSE f[n] \o s[n + 1]
    BY <2>1 DEF Joins
  <2>3. g[n + 1] = IF n + 1 = 1 THEN t[n + 1] ELSE g[n] \o t[n + 1]
    BY <2>1 DEF Joins
  <2>4. n + 1 # 1 => f[n] = g[n]
    BY <1>2, <1>0
  <2> QED
    BY <2>2, <2>3, <2>4, <1>0
<1> HIDE DEF I
<1>3. \A n \in Nat : n \in I
  BY <1>1, <1>2, Induction
<1> QED
  BY <1>3, <1>0 DEF I

\* What the operator returns is the last value of that function.
LEMMA JoinIs ==
  ASSUME NEW S, NEW s \in Seq(Seq(S)), s # << >>
  PROVE  \E f \in [1..Len(s) -> Seq(S)] : Joins(f, s) /\ FlattenSeq(s) = f[Len(s)]
<1>0. Len(s) \in Nat \ {0}
  BY EmptySeq
<1>1. PICK f \in [1..Len(s) -> Seq(S)] : Joins(f, s)
  BY JoinExists
<1> DEFINE g == CHOOSE h : h = [i \in 1..Len(s) |-> IF i = 1 THEN s[i] ELSE h[i - 1] \o s[i]]
<1>2. g = [i \in 1..Len(s) |-> IF i = 1 THEN s[i] ELSE g[i - 1] \o s[i]]
  BY <1>1 DEF Joins
<1>3. FlattenSeq(s) = g[Len(s)]
  BY <1>0, Zenon DEF FlattenSeq
<1> HIDE DEF g
<1>4. Joins(g, s)
  BY <1>2 DEF Joins
<1>5. f[Len(s)] = g[Len(s)]
  <2>1. \A i \in 1..Len(s) : f[i] = g[i]
    <3>1. Begins(s, s)
      BY <1>0 DEF Begins
    <3> QED
      BY <3>1, <1>1, <1>4, JoinAgrees
  <2> QED
    BY <2>1, <1>0
<1> QED
  BY <1>1, <1>3, <1>5

LEMMA FlattenEmpty == FlattenSeq(<< >>) = << >>
BY DEF FlattenSeq

\* It is a sequence of what the parts are sequences of.
LEMMA FlattenType ==
  ASSUME NEW S, NEW s \in Seq(Seq(S))
  PROVE  FlattenSeq(s) \in Seq(S)
<1>1. CASE s = << >>
  <2>1. << >> \in Seq(S)
    BY EmptySeq
  <2> QED
    BY <1>1, <2>1, FlattenEmpty
<1>2. CASE s # << >>
  <2>1. PICK f \in [1..Len(s) -> Seq(S)] : FlattenSeq(s) = f[Len(s)]
    BY <1>2, JoinIs
  <2>2. Len(s) \in 1..Len(s)
    BY <1>2, EmptySeq
  <2> QED
    BY <2>1, <2>2
<1> QED
  BY <1>1, <1>2

\* One more at the end ...
LEMMA FlattenNext ==
  ASSUME NEW S, NEW s \in Seq(Seq(S)), NEW t \in Seq(Seq(S)),
         Len(t) = Len(s) + 1, \A i \in 1..Len(s) : s[i] = t[i]
  PROVE  FlattenSeq(t) = FlattenSeq(s) \o t[Len(t)]
<1>1. Len(s) \in Nat /\ t # << >> /\ t[Len(t)] \in Seq(S)
  BY LenProperties, EmptySeq, ElementOfSeq
<1>2. PICK g : Joins(g, t) /\ FlattenSeq(t) = g[Len(t)]
  BY <1>1, JoinIs
<1>3. g[Len(t)] = IF Len(t) = 1 THEN t[Len(t)] ELSE g[Len(s)] \o t[Len(t)]
  <2>1. Len(t) \in 1..Len(t) /\ Len(t) - 1 = Len(s)
    BY <1>1
  <2> QED
    BY <2>1, <1>2 DEF Joins
<1>4. CASE s = << >>
  <2>1. FlattenSeq(t) = t[Len(t)]
    BY <1>1, <1>2, <1>3, <1>4
  <2>2. << >> \o t[Len(t)] = t[Len(t)]
    BY <1>1, ConcatEmptySeq
  <2> QED
    BY <2>1, <2>2, <1>4, FlattenEmpty
<1>5. CASE s # << >>
  <2>1. PICK f : Joins(f, s) /\ FlattenSeq(s) = f[Len(s)]
    BY <1>5, JoinIs
  <2>2. Len(s) \in 1..Len(s) /\ Len(s) <= Len(t)
    BY <1>1, <1>5, EmptySeq
  <2>3. f[Len(s)] = g[Len(s)]
    <3>1. \A i \in 1..Len(s) : f[i] = g[i]
      <4>1. Begins(s, t)
        BY <2>2 DEF Begins
      <4> QED
        BY <4>1, <2>1, <1>2, JoinAgrees
    <3> QED
      BY <3>1, <2>2
  <2> QED
    <3>1. Len(t) # 1
      BY <1>1, <2>2
    <3>2. g[Len(t)] = g[Len(s)] \o t[Len(t)]
      BY <1>3, <3>1
    <3> QED
      BY <1>2, <2>1, <2>3, <3>2, Zenon
<1> QED
  BY <1>4, <1>5

LEMMA FlattenAppend ==
  ASSUME NEW S, NEW s \in Seq(Seq(S)), NEW x \in Seq(S)
  PROVE  FlattenSeq(Append(s, x)) = FlattenSeq(s) \o x
<1>1. /\ Append(s, x) \in Seq(Seq(S)) /\ Len(Append(s, x)) = Len(s) + 1
      /\ \A i \in 1..Len(s) : s[i] = Append(s, x)[i]
      /\ Append(s, x)[Len(s) + 1] = x
  BY AppendProperties
<1> QED
  BY <1>1, FlattenNext

\* ... or several.
LEMMA FlattenConcat ==
  ASSUME NEW S
  PROVE  \A s, t \in Seq(Seq(S)) :
           FlattenSeq(s \o t) = FlattenSeq(s) \o FlattenSeq(t)
<1>1. \A a, b, c \in Seq(S) : (a \o b) \o c = a \o (b \o c)
  <2> SUFFICES ASSUME NEW a \in Seq(S), NEW b \in Seq(S), NEW c \in Seq(S)
               PROVE  (a \o b) \o c = a \o (b \o c)
    OBVIOUS
  <2> QED
    BY ConcatAssociative, SMTT(20)
<1>2. \A a, b, c \in Seq(Seq(S)) : (a \o b) \o c = a \o (b \o c)
  <2> SUFFICES ASSUME NEW a \in Seq(Seq(S)), NEW b \in Seq(Seq(S)), NEW c \in Seq(Seq(S))
               PROVE  (a \o b) \o c = a \o (b \o c)
    OBVIOUS
  <2> QED
    BY ConcatAssociative, SMTT(20)
<1> SUFFICES ASSUME NEW s \in Seq(Seq(S))
             PROVE  \A t \in Seq(Seq(S)) :
                      FlattenSeq(s \o t) = FlattenSeq(s) \o FlattenSeq(t)
  OBVIOUS
<1> DEFINE I == {n \in Nat : \A u \in Seq(Seq(S)) : Len(u) = n =>
                   FlattenSeq(s \o u) = FlattenSeq(s) \o FlattenSeq(u)}
<1>3. 0 \in I
  <2> SUFFICES ASSUME NEW u \in Seq(Seq(S)), Len(u) = 0
               PROVE  FlattenSeq(s \o u) = FlattenSeq(s) \o FlattenSeq(u)
    OBVIOUS
  <2>1. u = << >> /\ s \o u = s
    BY EmptySeq, ConcatEmptySeq
  <2> QED
    BY <2>1, FlattenEmpty, FlattenType, ConcatEmptySeq
<1>4. ASSUME NEW n \in Nat, n \in I PROVE n + 1 \in I
  <2> SUFFICES ASSUME NEW u \in Seq(Seq(S)), Len(u) = n + 1
               PROVE  FlattenSeq(s \o u) = FlattenSeq(s) \o FlattenSeq(u)
    OBVIOUS
  <2>1. u # << >>
    BY EmptySeq
  <2>2. PICK v \in Seq(Seq(S)), x \in Seq(S) : u = Append(v, x)
    BY <2>1, SequenceEmptyOrAppend
  <2>3. Len(v) = n
    <3>1. Len(v) \in Nat /\ Len(u) = Len(v) + 1
      BY <2>2, AppendProperties, LenProperties
    <3> QED
      BY <3>1
  <2>4. FlattenSeq(s \o v) = FlattenSeq(s) \o FlattenSeq(v)
    BY <1>4, <2>3
  <2>5. s \o v \in Seq(Seq(S)) /\ s \o u = Append(s \o v, x)
    <3>1. s \o v \in Seq(Seq(S)) /\ << x >> \in Seq(Seq(S))
      BY ConcatProperties
    <3>2. u = v \o << x >> /\ Append(s \o v, x) = (s \o v) \o << x >>
      BY <2>2, <3>1, AppendIsConcat
    <3>3. (s \o v) \o << x >> = s \o (v \o << x >>)
      BY <3>1, <1>2, SMTT(20)
    <3> QED
      BY <3>1, <3>2, <3>3, Zenon
  <2>6. FlattenSeq(s \o u) = FlattenSeq(s \o v) \o x
    BY <2>5, FlattenAppend
  <2>7. FlattenSeq(u) = FlattenSeq(v) \o x
    BY <2>2, FlattenAppend
  <2>8. FlattenSeq(s) \in Seq(S) /\ FlattenSeq(v) \in Seq(S) /\ x \in Seq(S)
    BY FlattenType
  <2>9. (FlattenSeq(s) \o FlattenSeq(v)) \o x = FlattenSeq(s) \o (FlattenSeq(v) \o x)
    BY <1>1, <2>8
  <2> QED
    BY <2>4, <2>6, <2>7, <2>9
<1>5. \A n \in Nat : n \in I
  <2> HIDE DEF I
  <2> QED
    BY <1>3, <1>4, Induction
<1> QED
  BY <1>5, LenProperties

\* One part is itself.
LEMMA FlattenOne ==
  ASSUME NEW S, NEW x \in Seq(S)
  PROVE  FlattenSeq(<< x >>) = x
<1>1. << >> \in Seq(Seq(S)) /\ Append(<< >>, x) = << x >>
  BY EmptySeq
<1>2. FlattenSeq(Append(<< >>, x)) = FlattenSeq(<< >>) \o x
  BY <1>1, FlattenAppend
<1>3. << >> \o x = x
  BY ConcatEmptySeq
<1> QED
  BY <1>1, <1>2, <1>3, FlattenEmpty

-----------------------------------------------------------------------------
(* Parts of a file: Take, Drop and Block.                                  *)

\* Concatenation of bytes is associative (the library's theorem), ...
LEMMA BytesConcat ==
  \A a, b \in Seq(Bytes) : a \o b \in Seq(Bytes) /\ Len(a \o b) = Len(a) + Len(b)
<1> SUFFICES ASSUME NEW a \in Seq(Bytes), NEW b \in Seq(Bytes)
             PROVE  a \o b \in Seq(Bytes) /\ Len(a \o b) = Len(a) + Len(b)
  OBVIOUS
<1> QED
  BY ConcatProperties

LEMMA BytesRegroup ==
  \A a, b, c \in Seq(Bytes) : (a \o b) \o c = a \o (b \o c)
<1> SUFFICES ASSUME NEW a \in Seq(Bytes), NEW b \in Seq(Bytes), NEW c \in Seq(Bytes)
             PROVE  (a \o b) \o c = a \o (b \o c)
  OBVIOUS
<1> QED
  BY ConcatAssociative, SMTT(20)

\* ... and nothing added is nothing changed.
LEMMA BytesEmpty ==
  /\ << >> \in Seq(Bytes)
  /\ \A a \in Seq(Bytes) : a \o << >> = a /\ << >> \o a = a /\ Len(a) \in Nat
  /\ \A a \in Seq(Bytes) : a = << >> <=> Len(a) = 0
<1>1. << >> \in Seq(Bytes) /\ Len(<< >>) = 0
  BY EmptySeq
<1>2. ASSUME NEW a \in Seq(Bytes)
      PROVE  a \o << >> = a /\ << >> \o a = a /\ Len(a) \in Nat /\ (a = << >> <=> Len(a) = 0)
  BY ConcatEmptySeq, LenProperties, EmptySeq
<1> QED
  BY <1>1, <1>2

\* The first n of s, ...
LEMMA TakeType ==
  ASSUME NEW S, NEW s \in Seq(S), NEW n \in Nat
  PROVE  /\ Take(s, n) \in Seq(S)
         /\ Len(Take(s, n)) = IF n < Len(s) THEN n ELSE Len(s)
         /\ \A i \in 1..Len(Take(s, n)) : Take(s, n)[i] = s[i]
<1> DEFINE m == IF n < Len(s) THEN n ELSE Len(s)
<1>1. Len(s) \in Nat /\ m \in Nat /\ m <= Len(s) /\ m \in Int /\ 1 \in Int
  BY LenProperties
<1>2. \A i \in 1..m : s[i] \in S
  BY <1>1, ElementOfSeq
<1>3. Take(s, n) = SubSeq(s, 1, m)
  BY DEF Take
<1> HIDE DEF m
<1>4. /\ SubSeq(s, 1, m) \in Seq(S)
      /\ Len(SubSeq(s, 1, m)) = IF 1 <= m THEN m - 1 + 1 ELSE 0
      /\ \A i \in 1..(m - 1 + 1) : SubSeq(s, 1, m)[i] = s[1 + i - 1]
  BY <1>1, <1>2, SubSeqProperties
<1>5. Len(SubSeq(s, 1, m)) = m
  BY <1>4, <1>1
<1>6. ASSUME NEW i \in 1..m PROVE SubSeq(s, 1, m)[i] = s[i]
  <2>1. i \in 1..(m - 1 + 1) /\ 1 + i - 1 = i
    BY <1>1
  <2> QED
    BY <2>1, <1>4
<1> QED
  BY <1>3, <1>4, <1>5, <1>6 DEF m

\* ... and the others.
LEMMA DropType ==
  ASSUME NEW S, NEW s \in Seq(S), NEW n \in Nat
  PROVE  /\ Drop(s, n) \in Seq(S)
         /\ Len(Drop(s, n)) = IF n < Len(s) THEN Len(s) - n ELSE 0
         /\ \A i \in 1..Len(Drop(s, n)) : Drop(s, n)[i] = s[n + i]
<1> DEFINE l == Len(s)
<1>1. l \in Nat /\ l \in Int /\ n + 1 \in Int
  BY LenProperties
<1>2. \A i \in (n + 1)..l : s[i] \in S
  BY ElementOfSeq
<1>3. Drop(s, n) = SubSeq(s, n + 1, l)
  BY DEF Drop
<1> HIDE DEF l
<1>4. /\ SubSeq(s, n + 1, l) \in Seq(S)
      /\ Len(SubSeq(s, n + 1, l)) = IF n + 1 <= l THEN l - (n + 1) + 1 ELSE 0
      /\ \A i \in 1..(l - (n + 1) + 1) : SubSeq(s, n + 1, l)[i] = s[(n + 1) + i - 1]
  BY <1>1, <1>2, SubSeqProperties
<1>5. Len(SubSeq(s, n + 1, l)) = IF n < l THEN l - n ELSE 0
  BY <1>4, <1>1
<1>6. ASSUME NEW i \in 1..(IF n < l THEN l - n ELSE 0)
      PROVE  SubSeq(s, n + 1, l)[i] = s[n + i]
  <2>1. i \in 1..(l - (n + 1) + 1) /\ (n + 1) + i - 1 = n + i
    BY <1>1
  <2> QED
    BY <2>1, <1>4
<1> QED
  BY <1>3, <1>4, <1>5, <1>6 DEF l

\* Together they are s.
LEMMA TakeDropIs ==
  ASSUME NEW S, NEW s \in Seq(S), NEW n \in Nat
  PROVE  Take(s, n) \o Drop(s, n) = s
<1>1. Len(s) \in Nat
  BY LenProperties
<1>2. CASE n < Len(s)
  <2>1. SubSeq(s, 1, n) \o SubSeq(s, n + 1, Len(s)) = SubSeq(s, 1, Len(s))
    <3>1. /\ 1 \in 1..(Len(s) + 1) /\ n \in (1 - 1)..Len(s)
          /\ Len(s) \in n..Len(s)
      BY <1>1, <1>2
    <3> QED
      BY <3>1, ConcatAdjacentSubSeq
  <2> QED
    BY <2>1, <1>2, SubSeqFull DEF Take, Drop
<1>3. CASE ~(n < Len(s))
  <2>1. Take(s, n) = s
    BY <1>3, SubSeqFull DEF Take
  <2>2. Drop(s, n) = << >>
    BY <1>1, <1>3, SubSeqEmpty DEF Drop
  <2> QED
    BY <2>1, <2>2, ConcatEmptySeq
<1> QED
  BY <1>2, <1>3

\* All of this for bytes.
LEMMA Parts ==
  \A s \in Seq(Bytes), n \in Nat :
    /\ Take(s, n) \in Seq(Bytes) /\ Drop(s, n) \in Seq(Bytes)
    /\ Len(Take(s, n)) = IF n < Len(s) THEN n ELSE Len(s)
    /\ Len(Drop(s, n)) = IF n < Len(s) THEN Len(s) - n ELSE 0
    /\ Take(s, n) \o Drop(s, n) = s
<1> SUFFICES ASSUME NEW s \in Seq(Bytes), NEW n \in Nat
             PROVE  /\ Take(s, n) \in Seq(Bytes) /\ Drop(s, n) \in Seq(Bytes)
                    /\ Len(Take(s, n)) = IF n < Len(s) THEN n ELSE Len(s)
                    /\ Len(Drop(s, n)) = IF n < Len(s) THEN Len(s) - n ELSE 0
                    /\ Take(s, n) \o Drop(s, n) = s
  OBVIOUS
<1>1. Take(s, n) \in Seq(Bytes) /\ Len(Take(s, n)) = IF n < Len(s) THEN n ELSE Len(s)
  BY TakeType
<1>2. Drop(s, n) \in Seq(Bytes) /\ Len(Drop(s, n)) = IF n < Len(s) THEN Len(s) - n ELSE 0
  BY DropType
<1> QED
  BY <1>1, <1>2, TakeDropIs

\* What is dropped twice.
LEMMA DropDrop ==
  \A s \in Seq(Bytes), n \in Nat : Drop(s, 2 * n) = Drop(Drop(s, n), n)
<1> SUFFICES ASSUME NEW s \in Seq(Bytes), NEW n \in Nat
             PROVE  Drop(s, 2 * n) = Drop(Drop(s, n), n)
  OBVIOUS
<1> DEFINE d == Drop(s, n)
           e == Drop(d, n)
           f == Drop(s, 2 * n)
<1>1. /\ d \in Seq(Bytes) /\ Len(d) = IF n < Len(s) THEN Len(s) - n ELSE 0
      /\ \A i \in 1..Len(d) : d[i] = s[n + i]
  BY DropType
<1>2. /\ f \in Seq(Bytes) /\ Len(f) = IF 2 * n < Len(s) THEN Len(s) - 2 * n ELSE 0
      /\ \A i \in 1..Len(f) : f[i] = s[2 * n + i]
  <2>1. 2 * n \in Nat
    OBVIOUS
  <2> QED
    BY <2>1, DropType
<1> HIDE DEF d, f
<1>3. /\ e \in Seq(Bytes) /\ Len(e) = IF n < Len(d) THEN Len(d) - n ELSE 0
      /\ \A i \in 1..Len(e) : e[i] = d[n + i]
  BY <1>1, DropType
<1> HIDE DEF e
<1>4. Len(s) \in Nat
  BY BytesEmpty
<1>5. Len(e) = Len(f)
  BY <1>1, <1>2, <1>3, <1>4
<1>6. ASSUME NEW i \in 1..Len(f) PROVE f[i] = e[i]
  <2>1. n + i \in 1..Len(d) /\ n + (n + i) = 2 * n + i
    BY <1>1, <1>2, <1>4
  <2> QED
    BY <2>1, <1>1, <1>2, <1>3, <1>5
<1>7. f = e
  BY <1>2, <1>3, <1>5, <1>6, SeqEqual
<1> QED
  BY <1>7 DEF d, e, f

\* The first byte and the others.
LEMMA HeadAndTail ==
  \A s \in Seq(Bytes) : s # << >> =>
    /\ Head(s) \in Bytes /\ Tail(s) \in Seq(Bytes)
    /\ Len(Tail(s)) = Len(s) - 1
    /\ s = << Head(s) >> \o Tail(s)
<1> SUFFICES ASSUME NEW s \in Seq(Bytes), s # << >>
             PROVE  /\ Head(s) \in Bytes /\ Tail(s) \in Seq(Bytes)
                    /\ Len(Tail(s)) = Len(s) - 1
                    /\ s = << Head(s) >> \o Tail(s)
  OBVIOUS
<1>1. /\ Head(s) \in Bytes /\ Tail(s) \in Seq(Bytes)
      /\ Len(Tail(s)) = Len(s) - 1
      /\ Head(s) = s[1] /\ Tail(s) = SubSeq(s, 2, Len(s))
  BY HeadTailProperties, TailIsSubSeq
<1>2. Len(s) \in Nat \ {0}
  BY EmptySeq
<1>3. SubSeq(s, 1, Len(s)) = << s[1] >> \o SubSeq(s, 2, Len(s))
  <2>1. 1 \in 1..Len(s) /\ Len(s) \in 1..Len(s) /\ 1 + 1 = 2
    BY <1>2
  <2>2. SubSeq(s, 1, Len(s)) = << s[1] >> \o SubSeq(s, 1 + 1, Len(s))
    BY <2>1, SubSeqRecursiveFirst
  <2> QED
    BY <2>1, <2>2
<1>4. SubSeq(s, 1, Len(s)) = s
  BY SubSeqFull
<1> QED
  BY <1>1, <1>3, <1>4

-----------------------------------------------------------------------------
(* Frames and what they stand for.                                         *)

\* Frames of bytes, frames of indexes below n, and the sequences of them that
\* a stream has before it ends.
DataFrames == [flag : {Data}, body : Seq(Bytes)]
IndexFrames(n) == [flag : {Index}, body : Seq(0..(n - 1))]
Stream(n) == Seq(DataFrames \cup IndexFrames(n))

\* The bytes that frames stand for.
Contents(old, bs, frames) ==
  FlattenSeq([i \in DOMAIN frames |-> Content(old, bs, frames[i])])

\* Every index among them can be copied.
AllCopyable(old, bs, frames) ==
  \A i \in DOMAIN frames : Copyable(old, bs, frames[i])

\* The flags are different.
LEMMA Flags == Data # Index /\ Data # End /\ Index # End
BY DEF Data, Index, End

\* A block is a sequence of bytes.
LEMMA BlockType ==
  \A old \in Seq(Bytes), bs \in Nat, i \in Nat :
    Block(old, bs, i) \in Seq(Bytes) /\ Len(Block(old, bs, i)) <= bs
<1> SUFFICES ASSUME NEW old \in Seq(Bytes), NEW bs \in Nat, NEW i \in Nat
             PROVE  Block(old, bs, i) \in Seq(Bytes) /\ Len(Block(old, bs, i)) <= bs
  OBVIOUS
<1>1. i * bs \in Nat
  OBVIOUS
<1>2. Drop(old, i * bs) \in Seq(Bytes)
  BY <1>1, Parts
<1>3. Len(Drop(old, i * bs)) \in Nat
  BY <1>2, BytesEmpty
<1> QED
  BY <1>2, <1>3, Parts DEF Block

\* So is the content of a frame.
LEMMA ContentType ==
  ASSUME NEW old \in Seq(Bytes), NEW bs \in Nat, NEW n \in Nat,
         NEW frame \in DataFrames \cup IndexFrames(n)
  PROVE  Content(old, bs, frame) \in Seq(Bytes)
<1>1. CASE frame \in DataFrames
  BY <1>1 DEF Content, DataFrames
<1>2. CASE frame \in IndexFrames(n)
  <2>1. frame.flag = Index /\ frame.body \in Seq(0..(n - 1))
    BY <1>2 DEF IndexFrames
  <2>2. DOMAIN frame.body = 1..Len(frame.body) /\ Len(frame.body) \in Nat
    BY <2>1, LenProperties
  <2>3. \A k \in 1..Len(frame.body) : frame.body[k] \in Nat
    BY <2>1, ElementOfSeq
  <2>4. \A k \in 1..Len(frame.body) : Block(old, bs, frame.body[k]) \in Seq(Bytes)
    BY <2>3, BlockType
  <2>5. [k \in DOMAIN frame.body |-> Block(old, bs, frame.body[k])] \in Seq(Seq(Bytes))
    BY <2>2, <2>4
  <2>6. FlattenSeq([k \in DOMAIN frame.body |-> Block(old, bs, frame.body[k])]) \in Seq(Bytes)
    BY <2>5, FlattenType
  <2> QED
    BY <2>1, <2>6, Flags DEF Content
<1> QED
  BY <1>1, <1>2

\* The contents of frames, one by one, ...
LEMMA ContentsOf ==
  ASSUME NEW old \in Seq(Bytes), NEW bs \in Nat, NEW n \in Nat,
         NEW frames \in Stream(n)
  PROVE  /\ [i \in DOMAIN frames |-> Content(old, bs, frames[i])] \in Seq(Seq(Bytes))
         /\ Contents(old, bs, frames) \in Seq(Bytes)
<1>1. DOMAIN frames = 1..Len(frames) /\ Len(frames) \in Nat
  BY LenProperties DEF Stream
<1>2. \A i \in 1..Len(frames) : frames[i] \in DataFrames \cup IndexFrames(n)
  BY ElementOfSeq DEF Stream
<1>3. \A i \in 1..Len(frames) : Content(old, bs, frames[i]) \in Seq(Bytes)
  BY <1>2, ContentType
<1>4. [i \in DOMAIN frames |-> Content(old, bs, frames[i])] \in Seq(Seq(Bytes))
  BY <1>1, <1>3
<1> QED
  BY <1>4, FlattenType DEF Contents

\* ... and of frames that follow one another.
LEMMA ContentsConcat ==
  ASSUME NEW old \in Seq(Bytes), NEW bs \in Nat, NEW n \in Nat,
         NEW s \in Stream(n), NEW t \in Stream(n)
  PROVE  /\ s \o t \in Stream(n)
         /\ Contents(old, bs, s \o t) = Contents(old, bs, s) \o Contents(old, bs, t)
         /\ AllCopyable(old, bs, s \o t) <=> AllCopyable(old, bs, s) /\ AllCopyable(old, bs, t)
<1> DEFINE u == s \o t
           cs == [i \in DOMAIN s |-> Content(old, bs, s[i])]
           ct == [i \in DOMAIN t |-> Content(old, bs, t[i])]
           cu == [i \in DOMAIN u |-> Content(old, bs, u[i])]
<1>1. /\ u \in Stream(n) /\ Len(u) = Len(s) + Len(t)
      /\ \A i \in 1..(Len(s) + Len(t)) : u[i] = IF i <= Len(s) THEN s[i] ELSE t[i - Len(s)]
  BY ConcatProperties DEF Stream
<1>2. /\ Len(s) \in Nat /\ Len(t) \in Nat
      /\ DOMAIN s = 1..Len(s) /\ DOMAIN t = 1..Len(t) /\ DOMAIN u = 1..(Len(s) + Len(t))
  BY <1>1, LenProperties DEF Stream
<1>3. cs \in Seq(Seq(Bytes)) /\ ct \in Seq(Seq(Bytes)) /\ cu \in Seq(Seq(Bytes))
  BY <1>1, ContentsOf
<1> HIDE DEF u
<1>4. Len(cs) = Len(s) /\ Len(ct) = Len(t) /\ Len(cu) = Len(s) + Len(t)
  BY <1>2
<1>5. \A i \in 1..Len(s) : cs[i] = Content(old, bs, s[i])
  BY <1>2
<1>6. \A i \in 1..Len(t) : ct[i] = Content(old, bs, t[i])
  BY <1>2
<1>7. \A i \in 1..(Len(s) + Len(t)) : cu[i] = Content(old, bs, u[i])
  BY <1>2
<1>8. AllCopyable(old, bs, u) <=> AllCopyable(old, bs, s) /\ AllCopyable(old, bs, t)
  <2>1. \A i \in 1..Len(s) : i \in DOMAIN u /\ u[i] = s[i]
    BY <1>1, <1>2
  <2>2. \A i \in 1..Len(t) : Len(s) + i \in DOMAIN u /\ u[Len(s) + i] = t[i]
    <3> SUFFICES ASSUME NEW i \in 1..Len(t)
                 PROVE  Len(s) + i \in DOMAIN u /\ u[Len(s) + i] = t[i]
      OBVIOUS
    <3>1. /\ Len(s) + i \in 1..(Len(s) + Len(t)) /\ ~(Len(s) + i <= Len(s))
          /\ Len(s) + i - Len(s) = i
      BY <1>2
    <3> QED
      BY <3>1, <1>1, <1>2
  <2>3. \A i \in DOMAIN u : i \in 1..Len(s) \/ (i - Len(s) \in 1..Len(t) /\ Len(s) + (i - Len(s)) = i)
    BY <1>2
  <2> QED
    BY <2>1, <2>2, <2>3, <1>2 DEF AllCopyable
<1> HIDE DEF cs, ct, cu
<1>9. cu = cs \o ct
  <2>1. cs \o ct \in Seq(Seq(Bytes)) /\ Len(cs \o ct) = Len(cu)
    <3>1. cs \o ct \in Seq(Seq(Bytes)) /\ Len(cs \o ct) = Len(cs) + Len(ct)
      BY <1>3, ConcatProperties
    <3> QED
      BY <3>1, <1>4
  <2>2. ASSUME NEW i \in 1..Len(cu) PROVE cu[i] = (cs \o ct)[i]
    <3>1. (cs \o ct)[i] = IF i <= Len(cs) THEN cs[i] ELSE ct[i - Len(cs)]
      <4>1. \A j \in 1..(Len(cs) + Len(ct)) :
              (cs \o ct)[j] = IF j <= Len(cs) THEN cs[j] ELSE ct[j - Len(cs)]
        BY <1>3, ConcatProperties
      <4>2. Len(cu) = Len(cs) + Len(ct)
        BY <1>4
      <4> QED
        BY <4>1, <4>2
    <3>2. CASE i <= Len(s)
      <4>1. i \in 1..Len(s)
        BY <3>2, <1>4, <1>2
      <4> QED
        BY <4>1, <3>1, <3>2, <1>1, <1>4, <1>5, <1>7
    <3>3. CASE ~(i <= Len(s))
      <4>1. i - Len(s) \in 1..Len(t)
        BY <3>3, <1>4, <1>2
      <4> QED
        BY <4>1, <3>1, <3>3, <1>1, <1>4, <1>6, <1>7
    <3> QED
      BY <3>2, <3>3
  <2> QED
    BY <2>1, <2>2, <1>3, SeqEqual
<1>10. FlattenSeq(cu) = FlattenSeq(cs) \o FlattenSeq(ct)
  BY <1>3, <1>9, FlattenConcat
<1> QED
  BY <1>1, <1>8, <1>10 DEF Contents, u, cs, ct, cu

\* No frame stands for nothing, and one for its content.
LEMMA ContentsOne ==
  ASSUME NEW old \in Seq(Bytes), NEW bs \in Nat, NEW n \in Nat,
         NEW frame \in DataFrames \cup IndexFrames(n)
  PROVE  /\ << frame >> \in Stream(n)
         /\ Contents(old, bs, << frame >>) = Content(old, bs, frame)
         /\ AllCopyable(old, bs, << frame >>) <=> Copyable(old, bs, frame)
<1>1. << frame >> \in Stream(n)
  BY DEF Stream
<1>2. [i \in DOMAIN << frame >> |-> Content(old, bs, << frame >>[i])] = << Content(old, bs, frame) >>
  OBVIOUS
<1>3. Content(old, bs, frame) \in Seq(Bytes)
  BY ContentType
<1>4. Contents(old, bs, << frame >>) = Content(old, bs, frame)
  BY <1>2, <1>3, FlattenOne DEF Contents
<1>5. AllCopyable(old, bs, << frame >>) <=> Copyable(old, bs, frame)
  BY DEF AllCopyable
<1> QED
  BY <1>1, <1>4, <1>5

LEMMA ContentsNone ==
  ASSUME NEW old, NEW bs, NEW n
  PROVE  /\ << >> \in Stream(n)
         /\ Contents(old, bs, << >>) = << >>
         /\ AllCopyable(old, bs, << >>)
<1>1. << >> \in Stream(n)
  BY DEF Stream
<1>2. [i \in DOMAIN << >> |-> Content(old, bs, << >>[i])] = << >>
  OBVIOUS
<1> QED
  BY <1>1, <1>2, FlattenEmpty DEF Contents, AllCopyable

\* One frame more.
LEMMA ContentsAppend ==
  ASSUME NEW old \in Seq(Bytes), NEW bs \in Nat, NEW n \in Nat,
         NEW s \in Stream(n), NEW frame \in DataFrames \cup IndexFrames(n)
  PROVE  /\ Append(s, frame) \in Stream(n)
         /\ Contents(old, bs, Append(s, frame)) =
              Contents(old, bs, s) \o Content(old, bs, frame)
         /\ AllCopyable(old, bs, Append(s, frame)) <=>
              AllCopyable(old, bs, s) /\ Copyable(old, bs, frame)
<1>1. Append(s, frame) = s \o << frame >>
  BY AppendIsConcat DEF Stream
<1>2. /\ << frame >> \in Stream(n)
      /\ Contents(old, bs, << frame >>) = Content(old, bs, frame)
      /\ AllCopyable(old, bs, << frame >>) <=> Copyable(old, bs, frame)
  BY ContentsOne
<1> DEFINE t == << frame >>
<1>3. t \in Stream(n)
  BY <1>2
<1> HIDE DEF t
<1>4. /\ s \o t \in Stream(n)
      /\ Contents(old, bs, s \o t) = Contents(old, bs, s) \o Contents(old, bs, t)
      /\ AllCopyable(old, bs, s \o t) <=> AllCopyable(old, bs, s) /\ AllCopyable(old, bs, t)
  BY <1>3, ContentsConcat
<1> QED
  BY <1>1, <1>2, <1>4 DEF t

\* A frame of bytes or of indexes that is continued.
LEMMA ContentData ==
  ASSUME NEW old \in Seq(Bytes), NEW bs \in Nat, NEW b \in Seq(Bytes)
  PROVE  /\ Frame(Data, b) \in DataFrames
         /\ Content(old, bs, Frame(Data, b)) = b
         /\ Copyable(old, bs, Frame(Data, b))
BY Flags DEF Frame, DataFrames, Content, Copyable

LEMMA ContentIndex ==
  ASSUME NEW old \in Seq(Bytes), NEW bs \in Nat, NEW n \in Nat, NEW i \in 0..(n - 1)
  PROVE  \A b \in Seq(0..(n - 1)) :
           /\ Frame(Index, b) \in IndexFrames(n)
           /\ Frame(Index, Append(b, i)) \in IndexFrames(n)
           /\ Content(old, bs, Frame(Index, Append(b, i))) =
                Content(old, bs, Frame(Index, b)) \o Block(old, bs, i)
           /\ Copyable(old, bs, Frame(Index, Append(b, i))) <=>
                Copyable(old, bs, Frame(Index, b)) /\ Len(Block(old, bs, i)) = bs
<1> SUFFICES
      ASSUME NEW b \in Seq(0..(n - 1))
      PROVE  /\ Frame(Index, b) \in IndexFrames(n)
             /\ Frame(Index, Append(b, i)) \in IndexFrames(n)
             /\ Content(old, bs, Frame(Index, Append(b, i))) =
                  Content(old, bs, Frame(Index, b)) \o Block(old, bs, i)
             /\ Copyable(old, bs, Frame(Index, Append(b, i))) <=>
                  Copyable(old, bs, Frame(Index, b)) /\ Len(Block(old, bs, i)) = bs
  OBVIOUS
<1> DEFINE c == Append(b, i)
<1>1. /\ c \in Seq(0..(n - 1)) /\ Len(c) = Len(b) + 1
      /\ \A k \in 1..Len(b) : c[k] = b[k]
      /\ c[Len(b) + 1] = i
  BY AppendProperties
<1>2. /\ Len(b) \in Nat /\ DOMAIN b = 1..Len(b) /\ DOMAIN c = 1..(Len(b) + 1)
  BY <1>1, LenProperties
<1> HIDE DEF c
<1>3. Frame(Index, b) \in IndexFrames(n) /\ Frame(Index, c) \in IndexFrames(n)
  BY <1>1 DEF Frame, IndexFrames
<1> DEFINE pb == [k \in DOMAIN b |-> Block(old, bs, b[k])]
           pc0 == [k \in DOMAIN c |-> Block(old, bs, c[k])]
           x == Block(old, bs, i)
<1>4. x \in Seq(Bytes)
  BY BlockType
<1>5. pb \in Seq(Seq(Bytes))
  <2>1. \A k \in 1..Len(b) : b[k] \in Nat
    BY ElementOfSeq
  <2>2. \A k \in 1..Len(b) : Block(old, bs, b[k]) \in Seq(Bytes)
    BY <2>1, BlockType
  <2> QED
    BY <2>2, <1>2
<1>6. pc0 = Append(pb, x)
  <2>1. \A k \in 1..Len(b) : pc0[k] = Block(old, bs, b[k])
    BY <1>1, <1>2
  <2>2. pc0[Len(b) + 1] = x
    BY <1>1, <1>2
  <2>3. Len(pb) = Len(b) /\ \A k \in 1..Len(b) : pb[k] = Block(old, bs, b[k])
    BY <1>2
  <2>4. DOMAIN pc0 = 1..(Len(b) + 1) /\ pc0 = [k \in DOMAIN pc0 |-> pc0[k]]
    BY <1>2
  <2> HIDE DEF pb, pc0, x
  <2>5. pc0 \in Seq(Seq(Bytes)) /\ Len(pc0) = Len(b) + 1
    <3>1. \A k \in 1..(Len(b) + 1) : pc0[k] \in Seq(Bytes)
      <4>1. \A k \in 1..Len(b) : pb[k] \in Seq(Bytes)
        BY <1>5, <2>3, ElementOfSeq
      <4>2. \A k \in 1..(Len(b) + 1) : k \in 1..Len(b) \/ k = Len(b) + 1
        BY <1>2
      <4> QED
        BY <4>1, <4>2, <2>1, <2>2, <2>3, <1>4
    <3>2. \A k \in 1..(Len(b) + 1) : Block(old, bs, c[k]) \in Seq(Bytes)
      BY <3>1, <1>2 DEF pc0
    <3> QED
      BY <3>2, <1>2 DEF pc0
  <2>6. /\ Append(pb, x) \in Seq(Seq(Bytes)) /\ Len(Append(pb, x)) = Len(b) + 1
        /\ \A k \in 1..Len(b) : Append(pb, x)[k] = pb[k]
        /\ Append(pb, x)[Len(b) + 1] = x
    BY <1>4, <1>5, <2>3, AppendProperties
  <2>7. \A k \in 1..Len(pc0) : pc0[k] = Append(pb, x)[k]
    <3>1. \A k \in 1..(Len(b) + 1) : k \in 1..Len(b) \/ k = Len(b) + 1
      BY <1>2
    <3> QED
      BY <3>1, <2>1, <2>2, <2>3, <2>5, <2>6
  <2> QED
    BY <2>5, <2>6, <2>7, SeqEqual
<1>7. FlattenSeq(pc0) = FlattenSeq(pb) \o x
  <2> HIDE DEF pb, pc0, x
  <2> QED
    BY <1>4, <1>5, <1>6, FlattenAppend
<1>8. Copyable(old, bs, Frame(Index, c)) <=>
        Copyable(old, bs, Frame(Index, b)) /\ Len(x) = bs
  <2>1. \A k \in DOMAIN c : k \in DOMAIN b \/ k = Len(b) + 1
    BY <1>2
  <2>2. \A k \in DOMAIN b : k \in DOMAIN c /\ c[k] = b[k]
    BY <1>1, <1>2
  <2>3. Len(b) + 1 \in DOMAIN c /\ c[Len(b) + 1] = i
    BY <1>1, <1>2
  <2> QED
    BY <2>1, <2>2, <2>3 DEF Copyable, Frame
<1>9. /\ Content(old, bs, Frame(Index, c)) = FlattenSeq(pc0)
      /\ Content(old, bs, Frame(Index, b)) = FlattenSeq(pb)
  BY Flags DEF Content, Frame
<1> QED
  BY <1>3, <1>7, <1>8, <1>9 DEF c, x

-----------------------------------------------------------------------------
(* The descriptor: what writing to it adds to its frames.                  *)

\* A descriptor with indexes below n.  In the mode of bytes, indexes are left
\* from before only behind a frame of them; in the mode of indexes there is one.
IsDesc(d, n) ==
  /\ d \in [seq : Nat, mode : {Data, Index}, iBuff : Seq(0..(n - 1)),
            readBuf : Seq(Bytes), data : Stream(n)]
  /\ d.mode = Data /\ d.readBuf = << >> => d.iBuff = << >>
  /\ d.mode = Index => d.iBuff # << >>

\* A new one is one, without frames.
LEMMA NewDescIs ==
  ASSUME NEW m \in Nat, NEW n
  PROVE  /\ IsDesc(NewDataDesc(m), n)
         /\ NewDataDesc(m).seq = m /\ DescLen(NewDataDesc(m)) = 0
         /\ Serialize(NewDataDesc(m)) = << >>
BY Flags, BytesEmpty DEF IsDesc, NewDataDesc, Stream, DescLen, Serialize, flush

\* The frames of a descriptor: the last one is that of the current mode.
LEMMA SerializeIs ==
  ASSUME NEW n \in Nat, NEW d, IsDesc(d, n)
  PROVE  /\ Serialize(d) \in Stream(n)
         /\ d.mode = Data /\ d.readBuf = << >> => Serialize(d) = d.data
         /\ d.mode = Data /\ d.readBuf # << >> =>
              Serialize(d) = Append(d.data, Frame(Data, d.readBuf))
         /\ d.mode = Index => Serialize(d) = Append(d.data, Frame(Index, d.iBuff))
<1>1. Frame(Data, d.readBuf) \in DataFrames /\ Frame(Index, d.iBuff) \in IndexFrames(n)
  BY DEF IsDesc, Frame, DataFrames, IndexFrames
<1>2. /\ d.data \in Stream(n)
      /\ Append(d.data, Frame(Data, d.readBuf)) \in Stream(n)
      /\ Append(d.data, Frame(Index, d.iBuff)) \in Stream(n)
  BY <1>1, AppendProperties DEF IsDesc, Stream
<1> QED
  BY <1>2, Flags DEF IsDesc, Serialize, flush

\* Bytes are added to the frame of bytes, or are a frame of their own.
LEMMA WriteBytesIs ==
  ASSUME NEW n \in Nat, NEW d, IsDesc(d, n),
         NEW x \in Seq(Bytes), x # << >>
  PROVE  /\ IsDesc(WriteBytes(d, x), n)
         /\ WriteBytes(d, x).seq = d.seq
         /\ WriteBytes(d, x).readBuf = x \/ WriteBytes(d, x).readBuf = d.readBuf \o x
         /\ \/ Serialize(WriteBytes(d, x)) = Append(Serialize(d), Frame(Data, x))
            \/ /\ Serialize(d) = Append(d.data, Frame(Data, d.readBuf))
               /\ Serialize(WriteBytes(d, x)) = Append(d.data, Frame(Data, d.readBuf \o x))
<1> DEFINE e == WriteBytes(d, x)
<1>1. /\ d.readBuf \in Seq(Bytes) /\ d.data \in Stream(n)
      /\ d.readBuf \o x \in Seq(Bytes) /\ d.readBuf \o x # << >>
      /\ << >> \o x = x
  <2>1. d.readBuf \in Seq(Bytes) /\ d.data \in Stream(n)
    BY DEF IsDesc
  <2> QED
    BY <2>1, ConcatProperties, ConcatEmptySeq, EmptySeq, ConcatEqualIffEmpty
<1>2. CASE d.mode = Data
  <2>1. e = [d EXCEPT !.readBuf = d.readBuf \o x]
    BY <1>2 DEF WriteBytes, InMode
  <2> HIDE DEF e
  <2>2. /\ e.mode = Data /\ e.seq = d.seq /\ e.readBuf = d.readBuf \o x
        /\ e.data = d.data /\ IsDesc(e, n)
    BY <2>1, <1>1, <1>2, Flags DEF IsDesc
  <2>3. Serialize(e) = Append(d.data, Frame(Data, d.readBuf \o x))
    BY <2>2, <1>1, SerializeIs
  <2>4. CASE d.readBuf = << >>
    <3>1. Serialize(e) = Append(Serialize(d), Frame(Data, x))
      BY <2>3, <2>4, <1>1, <1>2, SerializeIs
    <3> QED
      BY <3>1, <2>2 DEF e
  <2>5. CASE d.readBuf # << >>
    <3>1. Serialize(d) = Append(d.data, Frame(Data, d.readBuf))
      BY <2>5, <1>2, SerializeIs
    <3> QED
      BY <3>1, <2>2, <2>3 DEF e
  <2> QED
    BY <2>4, <2>5
<1>3. CASE d.mode = Index
  <2>1. Serialize(d) = Append(d.data, Frame(Index, d.iBuff))
    BY <1>3, SerializeIs
  <2>2. Serialize(d) \in Stream(n)
    BY SerializeIs
  <2>3. e = [d EXCEPT !.data = Serialize(d), !.readBuf = << >> \o x, !.mode = Data]
    BY <1>3, <2>1, Flags DEF WriteBytes, InMode, flush, IsDesc
  <2> HIDE DEF e
  <2>4. /\ e.mode = Data /\ e.seq = d.seq /\ e.readBuf = x
        /\ e.data = Serialize(d) /\ IsDesc(e, n)
    BY <2>2, <2>3, <1>1, <1>3, Flags DEF IsDesc
  <2>5. Serialize(e) = Append(Serialize(d), Frame(Data, x))
    BY <2>4, <1>1, SerializeIs
  <2> QED
    BY <2>4, <2>5 DEF e
<1> QED
  BY <1>2, <1>3 DEF IsDesc

\* A single byte is no exception.
LEMMA WriteByteIs ==
  ASSUME NEW n \in Nat, NEW d, IsDesc(d, n), NEW b \in Bytes
  PROVE  WriteByte(d, b) = WriteBytes(d, << b >>) /\ << b >> \in Seq(Bytes) /\ << b >> # << >>
<1>1. InMode(d, Data).readBuf \in Seq(Bytes)
  BY BytesEmpty, Flags DEF InMode, flush, IsDesc
<1>2. Append(InMode(d, Data).readBuf, b) = InMode(d, Data).readBuf \o << b >>
  BY <1>1, AppendIsConcat
<1>3. << b >> \in Seq(Bytes) /\ << b >> # << >>
  OBVIOUS
<1> QED
  BY <1>2, <1>3 DEF WriteByte, WriteBytes

\* An index is added to the frame of indexes, or is a frame of its own.
LEMMA WriteIndexIs ==
  ASSUME NEW n \in Nat, NEW d, IsDesc(d, n), NEW i \in 0..(n - 1)
  PROVE  /\ IsDesc(WriteIndex(d, i), n)
         /\ WriteIndex(d, i).seq = d.seq
         /\ WriteIndex(d, i).readBuf = d.readBuf
         /\ WriteIndex(d, i).mode = Index
         /\ \/ Serialize(WriteIndex(d, i)) = Append(Serialize(d), Frame(Index, Append(<< >>, i)))
            \/ /\ Serialize(d) = Append(d.data, Frame(Index, d.iBuff))
               /\ Serialize(WriteIndex(d, i)) = Append(d.data, Frame(Index, Append(d.iBuff, i)))
<1> DEFINE e == WriteIndex(d, i)
<1>1. /\ d.iBuff \in Seq(0..(n - 1)) /\ d.data \in Stream(n)
      /\ Append(d.iBuff, i) \in Seq(0..(n - 1)) /\ Append(d.iBuff, i) # << >>
      /\ Append(<< >>, i) \in Seq(0..(n - 1)) /\ Append(<< >>, i) # << >>
  <2>1. d.iBuff \in Seq(0..(n - 1)) /\ d.data \in Stream(n) /\ << >> \in Seq(0..(n - 1))
    BY EmptySeq DEF IsDesc
  <2> QED
    BY <2>1, AppendProperties
<1>2. CASE d.mode = Index
  <2>1. e = [d EXCEPT !.iBuff = Append(d.iBuff, i)]
    BY <1>2 DEF WriteIndex, InMode
  <2> HIDE DEF e
  <2>2. /\ e.mode = Index /\ e.seq = d.seq /\ e.readBuf = d.readBuf
        /\ e.iBuff = Append(d.iBuff, i) /\ e.data = d.data /\ IsDesc(e, n)
    BY <2>1, <1>1, <1>2, Flags DEF IsDesc
  <2>3. Serialize(e) = Append(d.data, Frame(Index, Append(d.iBuff, i)))
    BY <2>2, SerializeIs
  <2>4. Serialize(d) = Append(d.data, Frame(Index, d.iBuff))
    BY <1>2, SerializeIs
  <2> QED
    BY <2>2, <2>3, <2>4 DEF e
<1>3. CASE d.mode = Data
  <2>1. Serialize(d) \in Stream(n)
    BY SerializeIs
  <2>2. e = [d EXCEPT !.data = Serialize(d), !.iBuff = Append(<< >>, i), !.mode = Index]
    <3>1. CASE d.readBuf = << >>
      <4>1. Serialize(d) = d.data /\ d.iBuff = << >>
        BY <1>3, <3>1, SerializeIs DEF IsDesc
      <4> QED
        BY <1>3, <3>1, <4>1, Flags DEF WriteIndex, InMode, flush, IsDesc
    <3>2. CASE d.readBuf # << >>
      <4>1. Serialize(d) = Append(d.data, Frame(Data, d.readBuf))
        BY <1>3, <3>2, SerializeIs
      <4> QED
        BY <1>3, <3>2, <4>1, Flags DEF WriteIndex, InMode, flush, IsDesc
    <3> QED
      BY <3>1, <3>2
  <2> HIDE DEF e
  <2>3. /\ e.mode = Index /\ e.seq = d.seq /\ e.readBuf = d.readBuf
        /\ e.iBuff = Append(<< >>, i) /\ e.data = Serialize(d) /\ IsDesc(e, n)
    BY <2>1, <2>2, <1>1, <1>3, Flags DEF IsDesc
  <2>4. Serialize(e) = Append(Serialize(d), Frame(Index, Append(<< >>, i)))
    BY <2>3, SerializeIs
  <2> QED
    BY <2>3, <2>4 DEF e
<1> QED
  BY <1>2, <1>3 DEF IsDesc

\* What written bytes add to the contents of a descriptor.
LEMMA BytesWritten ==
  ASSUME NEW old \in Seq(Bytes), NEW bs \in Nat, NEW n \in Nat, NEW d, IsDesc(d, n),
         NEW x \in Seq(Bytes)
  PROVE  /\ IsDesc(WriteBytes(d, x), n)
         /\ WriteBytes(d, x).seq = d.seq
         /\ DescLen(WriteBytes(d, x)) <= DescLen(d) + Len(x)
         /\ Contents(old, bs, Serialize(WriteBytes(d, x))) =
              Contents(old, bs, Serialize(d)) \o x
         /\ AllCopyable(old, bs, Serialize(WriteBytes(d, x))) <=>
              AllCopyable(old, bs, Serialize(d))
<1> DEFINE e == WriteBytes(d, x)
           c == Contents(old, bs, Serialize(d))
<1>1. /\ Serialize(d) \in Stream(n) /\ c \in Seq(Bytes)
      /\ d.readBuf \in Seq(Bytes) /\ d.data \in Stream(n)
  BY SerializeIs, ContentsOf DEF IsDesc
<1>2. CASE x = << >>
  <2>1. e = d
    BY <1>2 DEF WriteBytes
  <2>2. Len(x) = 0 /\ DescLen(d) \in Nat /\ c \o x = c
    BY <1>1, <1>2, BytesEmpty DEF DescLen
  <2> QED
    BY <2>1, <2>2
<1>3. CASE x # << >>
  <2>1. /\ IsDesc(e, n) /\ e.seq = d.seq
        /\ e.readBuf = x \/ e.readBuf = d.readBuf \o x
        /\ \/ Serialize(e) = Append(Serialize(d), Frame(Data, x))
           \/ /\ Serialize(d) = Append(d.data, Frame(Data, d.readBuf))
              /\ Serialize(e) = Append(d.data, Frame(Data, d.readBuf \o x))
    BY <1>3, WriteBytesIs
  <2> HIDE DEF e
  <2>2. DescLen(e) <= DescLen(d) + Len(x)
    <3>1. Len(d.readBuf) \in Nat /\ Len(x) \in Nat /\ Len(d.readBuf \o x) = Len(d.readBuf) + Len(x)
      BY <1>1, BytesEmpty, BytesConcat
    <3> QED
      BY <3>1, <2>1 DEF DescLen
  <2>3. d.readBuf \o x \in Seq(Bytes)
    BY <1>1, BytesConcat
  <2>4. CASE Serialize(e) = Append(Serialize(d), Frame(Data, x))
    <3>1. /\ Frame(Data, x) \in DataFrames
          /\ Content(old, bs, Frame(Data, x)) = x /\ Copyable(old, bs, Frame(Data, x))
      BY ContentData
    <3>2. Frame(Data, x) \in DataFrames \cup IndexFrames(n)
      BY <3>1
    <3> HIDE DEF c
    <3>3. /\ Contents(old, bs, Append(Serialize(d), Frame(Data, x))) =
               Contents(old, bs, Serialize(d)) \o Content(old, bs, Frame(Data, x))
          /\ AllCopyable(old, bs, Append(Serialize(d), Frame(Data, x))) <=>
               AllCopyable(old, bs, Serialize(d)) /\ Copyable(old, bs, Frame(Data, x))
      BY <1>1, <3>2, ContentsAppend
    <3> QED
      BY <3>1, <3>3, <2>1, <2>2, <2>4 DEF e
  <2>5. CASE /\ Serialize(d) = Append(d.data, Frame(Data, d.readBuf))
             /\ Serialize(e) = Append(d.data, Frame(Data, d.readBuf \o x))
    <3> DEFINE f == Frame(Data, d.readBuf)
               g == Frame(Data, d.readBuf \o x)
               p == Contents(old, bs, d.data)
    <3>1. /\ f \in DataFrames \cup IndexFrames(n) /\ g \in DataFrames \cup IndexFrames(n)
          /\ Content(old, bs, f) = d.readBuf /\ Content(old, bs, g) = d.readBuf \o x
          /\ Copyable(old, bs, f) /\ Copyable(old, bs, g)
      BY <1>1, <2>3, ContentData
    <3> HIDE DEF f, g
    <3>2. /\ Contents(old, bs, Append(d.data, f)) = p \o Content(old, bs, f)
          /\ AllCopyable(old, bs, Append(d.data, f)) <=>
               AllCopyable(old, bs, d.data) /\ Copyable(old, bs, f)
      BY <1>1, <3>1, ContentsAppend
    <3>3. /\ Contents(old, bs, Append(d.data, g)) = p \o Content(old, bs, g)
          /\ AllCopyable(old, bs, Append(d.data, g)) <=>
               AllCopyable(old, bs, d.data) /\ Copyable(old, bs, g)
      BY <1>1, <3>1, ContentsAppend
    <3>4. p \in Seq(Bytes)
      BY <1>1, ContentsOf
    <3> HIDE DEF p
    <3>5. (p \o d.readBuf) \o x = p \o (d.readBuf \o x)
      BY <3>4, <1>1, BytesRegroup
    <3> QED
      BY <3>1, <3>2, <3>3, <3>5, <2>1, <2>2, <2>5 DEF e, f, g
  <2> QED
    BY <2>1, <2>4, <2>5
<1> QED
  BY <1>2, <1>3

\* What an index adds: its block.
LEMMA IndexWritten ==
  ASSUME NEW old \in Seq(Bytes), NEW bs \in Nat, NEW n \in Nat, NEW d, IsDesc(d, n)
  PROVE  \A i \in 0..(n - 1) :
           /\ IsDesc(WriteIndex(d, i), n)
           /\ WriteIndex(d, i).seq = d.seq
           /\ DescLen(WriteIndex(d, i)) = DescLen(d)
           /\ Contents(old, bs, Serialize(WriteIndex(d, i))) =
                Contents(old, bs, Serialize(d)) \o Block(old, bs, i)
           /\ AllCopyable(old, bs, Serialize(WriteIndex(d, i))) <=>
                AllCopyable(old, bs, Serialize(d)) /\ Len(Block(old, bs, i)) = bs
<1> SUFFICES ASSUME NEW i \in 0..(n - 1)
             PROVE  /\ IsDesc(WriteIndex(d, i), n)
                    /\ WriteIndex(d, i).seq = d.seq
                    /\ DescLen(WriteIndex(d, i)) = DescLen(d)
                    /\ Contents(old, bs, Serialize(WriteIndex(d, i))) =
                         Contents(old, bs, Serialize(d)) \o Block(old, bs, i)
                    /\ AllCopyable(old, bs, Serialize(WriteIndex(d, i))) <=>
                         AllCopyable(old, bs, Serialize(d)) /\ Len(Block(old, bs, i)) = bs
  OBVIOUS
<1> DEFINE e == WriteIndex(d, i)
           x == Block(old, bs, i)
<1>1. /\ Serialize(d) \in Stream(n) /\ x \in Seq(Bytes)
      /\ d.iBuff \in Seq(0..(n - 1)) /\ d.data \in Stream(n)
      /\ << >> \in Seq(0..(n - 1))
  <2>1. i \in Nat
    OBVIOUS
  <2>2. x \in Seq(Bytes)
    BY <2>1, BlockType
  <2>3. d.iBuff \in Seq(0..(n - 1)) /\ d.data \in Stream(n)
    BY DEF IsDesc
  <2>4. << >> \in Seq(0..(n - 1))
    BY EmptySeq
  <2>5. Serialize(d) \in Stream(n)
    BY SerializeIs
  <2> QED
    BY <2>2, <2>3, <2>4, <2>5
<1>0. \A b \in Seq(0..(n - 1)) :
        /\ Frame(Index, b) \in IndexFrames(n)
        /\ Frame(Index, Append(b, i)) \in IndexFrames(n)
        /\ Content(old, bs, Frame(Index, Append(b, i))) =
             Content(old, bs, Frame(Index, b)) \o x
        /\ Copyable(old, bs, Frame(Index, Append(b, i))) <=>
             Copyable(old, bs, Frame(Index, b)) /\ Len(x) = bs
  BY ContentIndex
<1>2. /\ IsDesc(e, n) /\ e.seq = d.seq /\ e.readBuf = d.readBuf
      /\ \/ Serialize(e) = Append(Serialize(d), Frame(Index, Append(<< >>, i)))
         \/ /\ Serialize(d) = Append(d.data, Frame(Index, d.iBuff))
            /\ Serialize(e) = Append(d.data, Frame(Index, Append(d.iBuff, i)))
  BY WriteIndexIs
<1> HIDE DEF e, x
<1>3. CASE Serialize(e) = Append(Serialize(d), Frame(Index, Append(<< >>, i)))
  <2> DEFINE f == Frame(Index, << >>)
             g == Frame(Index, Append(<< >>, i))
             p == Contents(old, bs, Serialize(d))
  <2>1. /\ f \in IndexFrames(n) /\ g \in IndexFrames(n)
        /\ Content(old, bs, g) = Content(old, bs, f) \o x
        /\ Copyable(old, bs, g) <=> Copyable(old, bs, f) /\ Len(x) = bs
    BY <1>0, <1>1
  <2>2. Content(old, bs, f) = << >> /\ Copyable(old, bs, f)
    <3>1. [k \in DOMAIN << >> |-> Block(old, bs, << >>[k])] = << >>
      OBVIOUS
    <3>2. Content(old, bs, f) = FlattenSeq([k \in DOMAIN << >> |-> Block(old, bs, << >>[k])])
      BY Flags DEF Content, Frame
    <3>3. Copyable(old, bs, f)
      BY DEF Copyable, Frame
    <3> QED
      BY <3>1, <3>2, <3>3, FlattenEmpty
  <2>3. g \in DataFrames \cup IndexFrames(n)
    BY <2>1
  <2> HIDE DEF f, g
  <2>4. /\ Contents(old, bs, Append(Serialize(d), g)) = p \o Content(old, bs, g)
        /\ AllCopyable(old, bs, Append(Serialize(d), g)) <=>
             AllCopyable(old, bs, Serialize(d)) /\ Copyable(old, bs, g)
    BY <1>1, <2>3, ContentsAppend
  <2>5. Content(old, bs, g) = x
    BY <2>1, <2>2, <1>1, BytesEmpty
  <2> QED
    BY <1>2, <1>3, <2>1, <2>2, <2>4, <2>5 DEF e, x, g, DescLen
<1>4. CASE /\ Serialize(d) = Append(d.data, Frame(Index, d.iBuff))
           /\ Serialize(e) = Append(d.data, Frame(Index, Append(d.iBuff, i)))
  <2> DEFINE f == Frame(Index, d.iBuff)
             g == Frame(Index, Append(d.iBuff, i))
             p == Contents(old, bs, d.data)
             y == Content(old, bs, f)
  <2>1. /\ f \in IndexFrames(n) /\ g \in IndexFrames(n)
        /\ Content(old, bs, g) = y \o x
        /\ Copyable(old, bs, g) <=> Copyable(old, bs, f) /\ Len(x) = bs
    BY <1>0, <1>1
  <2>2. f \in DataFrames \cup IndexFrames(n) /\ g \in DataFrames \cup IndexFrames(n)
    BY <2>1
  <2> HIDE DEF f, g
  <2>3. /\ Contents(old, bs, Append(d.data, f)) = p \o y
        /\ AllCopyable(old, bs, Append(d.data, f)) <=>
             AllCopyable(old, bs, d.data) /\ Copyable(old, bs, f)
    BY <1>1, <2>2, ContentsAppend
  <2>4. /\ Contents(old, bs, Append(d.data, g)) = p \o Content(old, bs, g)
        /\ AllCopyable(old, bs, Append(d.data, g)) <=>
             AllCopyable(old, bs, d.data) /\ Copyable(old, bs, g)
    BY <1>1, <2>2, ContentsAppend
  <2>5. p \in Seq(Bytes) /\ y \in Seq(Bytes)
    BY <1>1, <2>2, ContentsOf, ContentType
  <2> HIDE DEF p, y
  <2>6. (p \o y) \o x = p \o (y \o x)
    BY <2>5, <1>1, BytesRegroup
  <2> QED
    BY <1>2, <1>4, <2>1, <2>3, <2>4, <2>6 DEF e, x, f, g, DescLen
<1> QED
  BY <1>2, <1>3, <1>4

-----------------------------------------------------------------------------
(* The end of a stream, and messages.                                      *)

EndFrame == Frame(End, << >>)

\* Frames of every kind, and messages.
AnyFrames(n) == DataFrames \cup IndexFrames(n) \cup {EndFrame}
Messages(n) == [seq : Nat, frames : Stream(n)]

\* All of a stream that has not ended is read, ...
LEMMA HeardAll ==
  ASSUME NEW n \in Nat, NEW s \in Stream(n)
  PROVE  Heard(s) = s
<1>1. Len(s) \in Nat /\ \A i \in 1..Len(s) : s[i] \in DataFrames \cup IndexFrames(n)
  BY LenProperties, ElementOfSeq DEF Stream
<1>2. \A i \in 1..Len(s) : s[i].flag # End
  BY <1>1, Flags DEF DataFrames, IndexFrames
<1>3. {i \in 1..Len(s) : s[i].flag = End} = {}
  BY <1>2
<1> QED
  BY <1>3 DEF Heard, SelectInSeq

\* ... and of one that has, what is before the end.
LEMMA HeardEnd ==
  ASSUME NEW n \in Nat, NEW s \in Stream(n), NEW u \in Seq(AnyFrames(n))
  PROVE  Heard(Append(s, EndFrame) \o u) = s /\ Append(s, EndFrame) \o u # s
<1> DEFINE t == Append(s, EndFrame)
           r == t \o u
           l == Len(s)
<1>1. /\ l \in Nat /\ \A i \in 1..l : s[i] \in DataFrames \cup IndexFrames(n)
      /\ s \in Seq(AnyFrames(n)) /\ EndFrame \in AnyFrames(n)
  BY LenProperties, ElementOfSeq DEF Stream, AnyFrames
<1>2. \A i \in 1..l : s[i].flag # End
  BY <1>1, Flags DEF DataFrames, IndexFrames
<1>3. /\ t \in Seq(AnyFrames(n)) /\ Len(t) = l + 1
      /\ \A i \in 1..l : t[i] = s[i]
      /\ t[l + 1] = EndFrame
  BY <1>1, AppendProperties
<1> HIDE DEF t
<1>4. /\ Len(r) = Len(t) + Len(u) /\ Len(u) \in Nat
      /\ \A i \in 1..(Len(t) + Len(u)) : r[i] = IF i <= Len(t) THEN t[i] ELSE u[i - Len(t)]
  BY <1>3, ConcatProperties, LenProperties
<1>5. r \in Seq(AnyFrames(n))
  BY <1>3, ConcatProperties
<1> HIDE DEF r
<1>6. \A i \in 1..l : r[i] = s[i]
  BY <1>1, <1>3, <1>4
<1>7. r[l + 1] = EndFrame /\ l + 1 \in 1..Len(r)
  BY <1>1, <1>3, <1>4
<1> DEFINE I == {i \in 1..Len(r) : r[i].flag = End}
<1>8. l + 1 \in I /\ \A i \in I : l + 1 <= i
  <2>1. EndFrame.flag = End
    BY DEF EndFrame, Frame
  <2>2. \A i \in I : i \notin 1..l
    BY <1>2, <1>6
  <2>3. \A i \in I : i \in Nat /\ i >= 1
    BY <1>4, <1>3, <1>1
  <2> QED
    BY <2>1, <2>2, <2>3, <1>1, <1>7
<1>9. Min(I) = l + 1
  <2>1. \A i \in I : i \in Int
    BY <1>1, <1>3, <1>4
  <2> HIDE DEF I
  <2> QED
    BY <1>1, <1>8, <2>1 DEF Min
<1>10. I # {}
  BY <1>8
<1>11. Heard(r) = SubSeq(r, 1, l)
  <2>1. Heard(r) = LET end == IF I # {} THEN Min(I) ELSE 0
                   IN IF end = 0 THEN r ELSE SubSeq(r, 1, end - 1)
    BY Zenon DEF Heard, SelectInSeq
  <2> HIDE DEF I
  <2> QED
    BY <2>1, <1>1, <1>9, <1>10
<1>12. SubSeq(r, 1, l) = s
  <2>1. \A i \in 1..l : r[i] \in AnyFrames(n)
    BY <1>1, <1>6, ElementOfSeq
  <2>2. /\ SubSeq(r, 1, l) \in Seq(AnyFrames(n))
        /\ Len(SubSeq(r, 1, l)) = IF 1 <= l THEN l - 1 + 1 ELSE 0
        /\ \A i \in 1..(l - 1 + 1) : SubSeq(r, 1, l)[i] = r[1 + i - 1]
    BY <2>1, <1>1, SubSeqProperties
  <2>3. Len(SubSeq(r, 1, l)) = l
    BY <2>2, <1>1
  <2>4. \A i \in 1..l : SubSeq(r, 1, l)[i] = s[i]
    BY <2>2, <1>1, <1>6
  <2> QED
    BY <2>2, <2>3, <2>4, <1>1, SeqEqual
<1>13. r # s
  BY <1>1, <1>3, <1>4
<1> QED
  BY <1>11, <1>12, <1>13 DEF r, t

\* The frames of messages, and of one message more.
LEMMA FramesAppend ==
  ASSUME NEW T, NEW msgs \in Seq([seq : Nat, frames : Seq(T)]),
         NEW m \in [seq : Nat, frames : Seq(T)]
  PROVE  /\ Frames(msgs) \in Seq(T)
         /\ Frames(Append(msgs, m)) = Frames(msgs) \o m.frames
<1> DEFINE a == Append(msgs, m)
           fs == [i \in DOMAIN msgs |-> msgs[i].frames]
           fa == [i \in DOMAIN a |-> a[i].frames]
<1>1. /\ Len(msgs) \in Nat /\ DOMAIN msgs = 1..Len(msgs)
      /\ \A i \in 1..Len(msgs) : msgs[i].frames \in Seq(T)
      /\ m.frames \in Seq(T)
  <2>1. Len(msgs) \in Nat /\ DOMAIN msgs = 1..Len(msgs)
    BY LenProperties
  <2>2. \A i \in 1..Len(msgs) : msgs[i] \in [seq : Nat, frames : Seq(T)]
    BY ElementOfSeq
  <2> QED
    BY <2>1, <2>2
<1>2. /\ a \in Seq([seq : Nat, frames : Seq(T)]) /\ Len(a) = Len(msgs) + 1
      /\ \A i \in 1..Len(msgs) : a[i] = msgs[i]
      /\ a[Len(msgs) + 1] = m
  BY AppendProperties
<1>3. DOMAIN a = 1..(Len(msgs) + 1)
  BY <1>2, LenProperties
<1> HIDE DEF a
<1>4. /\ fs \in Seq(Seq(T)) /\ Len(fs) = Len(msgs)
      /\ \A i \in 1..Len(msgs) : fs[i] = msgs[i].frames
  BY <1>1
<1>5. \A i \in 1..(Len(msgs) + 1) : i \in 1..Len(msgs) \/ i = Len(msgs) + 1
  BY <1>1
<1>6. \A i \in 1..(Len(msgs) + 1) : a[i].frames \in Seq(T)
  BY <1>1, <1>2, <1>5
<1>7. /\ fa \in Seq(Seq(T)) /\ Len(fa) = Len(msgs) + 1
      /\ \A i \in 1..(Len(msgs) + 1) : fa[i] = a[i].frames
  BY <1>1, <1>3, <1>6
<1>8. \A i \in 1..Len(fs) : fs[i] = fa[i]
  <2> SUFFICES ASSUME NEW i \in 1..Len(msgs) PROVE fs[i] = fa[i]
    BY <1>4
  <2>1. i \in 1..(Len(msgs) + 1)
    BY <1>1
  <2> HIDE DEF fs, fa
  <2> QED
    BY <2>1, <1>2, <1>4, <1>7
<1>9. fa[Len(fa)] = m.frames /\ Len(fa) = Len(fs) + 1
  BY <1>1, <1>2, <1>4, <1>7
<1> HIDE DEF fs, fa
<1>10. FlattenSeq(fa) = FlattenSeq(fs) \o fa[Len(fa)]
  BY <1>4, <1>7, <1>8, <1>9, FlattenNext
<1>11. FlattenSeq(fs) \in Seq(T)
  BY <1>4, FlattenType
<1> QED
  BY <1>9, <1>10, <1>11 DEF Frames, a, fs, fa

\* The last message has the frames of the descriptor before the End frame.
LEMMA LastIs ==
  ASSUME NEW n \in Nat, NEW d, IsDesc(d, n)
  PROVE  /\ MarkAsLast(d).seq = d.seq
         /\ \E u \in Stream(n) :
              Serialize(MarkAsLast(d)) = Append(Serialize(d), EndFrame) \o u
<1> DEFINE e == MarkAsLast(d)
           t == Append(Serialize(d), EndFrame)
<1>1. /\ d.readBuf \in Seq(Bytes) /\ d.iBuff \in Seq(0..(n - 1))
      /\ Frame(Data, d.readBuf) \in DataFrames \cup IndexFrames(n)
      /\ Frame(Index, d.iBuff) \in DataFrames \cup IndexFrames(n)
  BY DEF IsDesc, Frame, DataFrames, IndexFrames
<1>2. /\ << >> \in Stream(n)
      /\ << Frame(Data, d.readBuf) >> \in Stream(n)
      /\ << Frame(Index, d.iBuff) >> \in Stream(n)
  BY <1>1 DEF Stream
<1>3. t \in Seq(AnyFrames(n))
  <2>1. Serialize(d) \in Seq(AnyFrames(n))
    <3>1. Serialize(d) \in Seq(DataFrames \cup IndexFrames(n))
      BY SerializeIs DEF Stream
    <3>2. DataFrames \cup IndexFrames(n) \subseteq AnyFrames(n)
      BY DEF AnyFrames
    <3> QED
      BY <3>1, <3>2, SeqMonotonic
  <2>2. EndFrame \in AnyFrames(n)
    BY DEF AnyFrames
  <2> QED
    BY <2>1, <2>2, AppendProperties
<1>4. e.seq = d.seq /\ e.data = t
  BY DEF MarkAsLast, flush, Serialize, EndFrame, IsDesc
<1>5. CASE d.mode = Data /\ d.readBuf = << >>
  <2>1. e = [d EXCEPT !.data = t]
    BY <1>5, Flags DEF MarkAsLast, flush, Serialize, EndFrame, IsDesc
  <2> HIDE DEF t
  <2>2. Serialize(e) = t
    BY <1>5, <2>1, Flags DEF Serialize, flush, IsDesc
  <2>3. t \o << >> = t
    BY <1>3, ConcatEmptySeq
  <2> QED
    BY <1>2, <1>4, <2>2, <2>3 DEF t
<1>6. CASE d.mode = Data /\ d.readBuf # << >>
  <2>1. e = [d EXCEPT !.data = t, !.iBuff = << >>]
    BY <1>6, Flags DEF MarkAsLast, flush, Serialize, EndFrame, IsDesc
  <2> HIDE DEF t
  <2>2. Serialize(e) = Append(t, Frame(Data, d.readBuf))
    BY <1>6, <2>1, Flags DEF Serialize, flush, IsDesc
  <2>3. Append(t, Frame(Data, d.readBuf)) = t \o << Frame(Data, d.readBuf) >>
    <3>1. Frame(Data, d.readBuf) \in AnyFrames(n)
      BY <1>1 DEF AnyFrames
    <3> QED
      BY <3>1, <1>3, AppendIsConcat
  <2> QED
    BY <1>2, <1>4, <2>2, <2>3 DEF t
<1>7. CASE d.mode = Index
  <2>1. e = [d EXCEPT !.data = t, !.readBuf = << >>]
    BY <1>7, Flags DEF MarkAsLast, flush, Serialize, EndFrame, IsDesc
  <2> HIDE DEF t
  <2>2. Serialize(e) = Append(t, Frame(Index, d.iBuff))
    BY <1>7, <2>1, Flags DEF Serialize, flush, IsDesc
  <2>3. Append(t, Frame(Index, d.iBuff)) = t \o << Frame(Index, d.iBuff) >>
    <3>1. Frame(Index, d.iBuff) \in AnyFrames(n)
      BY <1>1 DEF AnyFrames
    <3> QED
      BY <3>1, <1>3, AppendIsConcat
  <2> QED
    BY <1>2, <1>4, <2>2, <2>3 DEF t
<1> QED
  BY <1>5, <1>6, <1>7 DEF IsDesc

\* A message of a bytes reader has one frame.
LEMMA BlockWritten ==
  ASSUME NEW m \in Nat, NEW x \in Seq(Bytes)
  PROVE  /\ Write(NewDataDesc(m), x).seq = m
         /\ Serialize(Write(NewDataDesc(m), x)) = << Frame(Data, x) >>
BY Flags DEF Write, NewDataDesc, Serialize, flush, Frame

-----------------------------------------------------------------------------
(* Blocks: their size, their number, their buffers and the map of sums.    *)

LEMMA SizeType ==
  \A n \in Nat : SetBlockSize(n) \in Nat \ {0}
BY ReaderAssumption DEF SetBlockSize

LEMMA CountType ==
  \A n \in Nat, bs \in Nat \ {0} : BlockCount(n, bs) \in Nat
BY DEF BlockCount

\* Without a short block, every block is full.
LEMMA FullBlock ==
  ASSUME NEW old \in Seq(Bytes), NEW bs \in Nat \ {0}, Len(old) % bs = 0,
         NEW i \in 0..(BlockCount(Len(old), bs) - 1)
  PROVE  Len(Block(old, bs, i)) = bs
<1> DEFINE n == Len(old)
           q == n \div bs
<1>1. n \in Nat
  BY BytesEmpty
<1>2. q \in Nat /\ n = bs * q + (n % bs)
  BY <1>1
<1>3. n = bs * q
  BY <1>1, <1>2
<1> HIDE DEF q, n
<1>4. BlockCount(n, bs) = q
  <2>1. n + bs - 1 = bs * q + (bs - 1)
    BY <1>1, <1>3
  <2>2. (bs * q + (bs - 1)) \div bs = q
    BY <1>2
  <2> QED
    BY <2>1, <2>2 DEF BlockCount
<1>5. i \in Nat /\ i + 1 <= q
  BY <1>2, <1>4 DEF n
<1>6. bs * (i + 1) <= bs * q
  BY <1>2, <1>5
<1>7. i * bs \in Nat /\ i * bs + bs <= n
  BY <1>3, <1>5, <1>6
<1>8. /\ Drop(old, i * bs) \in Seq(Bytes)
      /\ Len(Drop(old, i * bs)) = n - i * bs
  BY <1>1, <1>7, Parts DEF n
<1>9. ~(bs < n - i * bs) => n - i * bs = bs
  BY <1>1, <1>7
<1> QED
  BY <1>8, <1>9, Parts DEF Block

\* The buffer a sum is taken of is the block, if it is full.
LEMMA BufferIs ==
  ASSUME NEW old \in Seq(Bytes), NEW bs \in Nat, NEW i \in Nat,
         Len(Block(old, bs, i)) = bs
  PROVE  Buffer(old, i, bs) = Block(old, bs, i)
<1> DEFINE before == IF i = 0 THEN [k \in 1..bs |-> 0] ELSE Block(old, bs, i - 1)
<1>1. Len(before) \in Nat /\ Len(before) <= bs
  <2>1. CASE i = 0
    BY <2>1
  <2>2. CASE i # 0
    <3>1. i - 1 \in Nat
      BY <2>2
    <3> QED
      BY <3>1, <2>2, BlockType, BytesEmpty
  <2> QED
    BY <2>1, <2>2
<1> HIDE DEF before
<1>2. Drop(before, bs) = << >>
  <2>1. Len(before) < bs + 1 /\ bs + 1 \in Int /\ Len(before) \in Int
    BY <1>1
  <2> QED
    BY <2>1, SubSeqEmpty DEF Drop
<1>3. Buffer(old, i, bs) = Block(old, bs, i) \o Drop(before, bs)
  BY DEF Buffer, before
<1> QED
  BY <1>2, <1>3, BlockType, BytesEmpty

\* A set of numbers up to n has a greatest, if it has one at all.
LEMMA MaxExists ==
  ASSUME NEW n \in Nat, NEW T, T \subseteq 1..n, T # {}
  PROVE  \E m \in T : \A y \in T : m >= y
<1> DEFINE U == {k \in Nat : n - k \in T}
<1>1. U \subseteq Nat /\ U # {}
  <2>1. PICK t \in T : TRUE
    OBVIOUS
  <2>2. n - t \in Nat /\ n - (n - t) = t
    BY <2>1
  <2> QED
    BY <2>1, <2>2
<1>2. PICK k \in U : \A y \in U : ~(<<y, k>> \in OpToRel(<, Nat))
  BY <1>1, NatLessThanWellFounded, WFMin
<1>3. n - k \in T /\ k \in Nat
  OBVIOUS
<1>4. ASSUME NEW y \in T PROVE n - k >= y
  <2>1. y \in 1..n /\ n - y \in Nat /\ n - (n - y) = y
    OBVIOUS
  <2>2. n - y \in U
    BY <2>1
  <2>3. ~(n - y < k)
    BY <2>1, <2>2, <1>2, <1>3, LessThan
  <2> QED
    BY <2>1, <2>3, <1>3
<1> QED
  BY <1>3, <1>4

\* The map leads from a sum to the index of a block with that sum.
LEMMA HashMapIs ==
  ASSUME NEW n \in Nat, NEW weak, DOMAIN weak = 1..n, Len(weak) = n,
         NEW h \in DOMAIN HashMap(weak)
  PROVE  /\ HashMap(weak)[h] \in 0..(n - 1)
         /\ weak[HashMap(weak)[h] + 1] = h
<1> DEFINE I == {i \in 1..n : weak[i] = h}
<1>1. h \in Range(weak)
  BY DEF HashMap
<1>2. PICK j \in DOMAIN weak : weak[j] = h
  BY <1>1 DEF Range
<1>3. I # {} /\ I \subseteq 1..n
  BY <1>2
<1>4. HashMap(weak)[h] = (IF I # {} THEN Max(I) ELSE 0) - 1
  BY <1>1 DEF HashMap, SelectLastInSeq
<1>5. \E m \in I : \A y \in I : m >= y
  <2> HIDE DEF I
  <2> QED
    BY <1>3, MaxExists
<1>6. Max(I) \in I
  <2> HIDE DEF I
  <2> QED
    BY <1>5 DEF Max
<1>7. HashMap(weak)[h] = Max(I) - 1
  BY <1>3, <1>4
<1> QED
  BY <1>6, <1>7

-----------------------------------------------------------------------------
(* What the variables of the reader hold.                                  *)

\* The number of blocks of the old file.
Blocks == BlockCount(Len(dst), BlockSize)

\* The files and the section.
FilesInv ==
  /\ src \in Seq(Bytes) /\ src # << >> /\ dst \in Seq(Bytes)
  /\ section.offset \in Nat /\ section.limit \in Nat

\* The window and the read-ahead: full in the loop, empty before it, and
\* nothing left to read behind it.
BuffersInv ==
  /\ pc \in {"start", "roll", "finish", "bytes", "done", "failed"}
  /\ rest \in Seq(Bytes) /\ window \in Seq(Bytes) /\ buf \in Seq(Bytes)
  /\ Len(window) <= BlockSize /\ Len(buf) <= BlockSize
  /\ pc = "roll" => Len(window) = BlockSize
  /\ pc \in {"start", "bytes"} => window = << >> /\ buf = << >>
  /\ pc = "finish" => rest = << >>

\* The descriptor and the map.
DescInv ==
  /\ IsDesc(dd, Blocks) /\ DescLen(dd) <= BlockSize + 1
  /\ pc \in {"start", "bytes"} => dd = NewDataDesc(dd.seq)
  /\ pc \in {"roll", "finish"} => hMap = HashMap(AddChecksums(dst, BlockSize))

TypesInv == FilesInv /\ BuffersInv /\ DescInv

\* The files stay what they are, and with them the sizes.
LEMMA SameFiles ==
  ASSUME FilesInv, UNCHANGED fileVars
  PROVE  FilesInv' /\ BlockSize' = BlockSize /\ Blocks' = Blocks
BY DEF FilesInv, fileVars, BlockSize, Blocks

LEMMA Sizes ==
  ASSUME FilesInv
  PROVE  BlockSize \in Nat \ {0} /\ Blocks \in Nat
<1>1. Len(src) \in Nat /\ Len(dst) \in Nat
  BY BytesEmpty DEF FilesInv
<1>2. BlockSize \in Nat \ {0}
  BY <1>1, SizeType DEF BlockSize
<1> QED
  BY <1>1, <1>2, CountType DEF Blocks

\* The sections of a file start in it and have a length.
LEMMA SectionsType ==
  ASSUME NEW n \in Nat, NEW s \in Range(Sections(n))
  PROVE  s.offset \in Nat /\ s.limit \in Nat
<1>1. CASE n > SplitSize /\ CcIo > 1
  <2> DEFINE chunk == n \div CcIo
  <2>1. chunk \in Nat /\ CcIo \in Nat
    BY ReaderAssumption
  <2> HIDE DEF chunk
  <2>2. Sections(n) = [c \in 1..CcIo |->
             [offset |-> (c - 1) * chunk,
              limit |-> IF chunk * c > n THEN n ELSE chunk * c]]
    BY <1>1 DEF Sections, chunk
  <2>3. PICK c \in 1..CcIo :
          s = [offset |-> (c - 1) * chunk,
               limit |-> IF chunk * c > n THEN n ELSE chunk * c]
    BY <2>2 DEF Range
  <2>4. c - 1 \in Nat /\ c \in Nat
    BY <2>1
  <2>5. (c - 1) * chunk \in Nat /\ chunk * c \in Nat
    BY <2>1, <2>4
  <2> QED
    BY <2>3, <2>5
<1>2. CASE ~(n > SplitSize /\ CcIo > 1)
  <2>1. Sections(n) = << [offset |-> 0, limit |-> n] >>
    BY <1>2 DEF Sections
  <2>2. s = [offset |-> 0, limit |-> n]
    BY <2>1 DEF Range
  <2> QED
    BY <2>2
<1> QED
  BY <1>1, <1>2

\* At the start.
LEMMA TypesInit == Init => TypesInv
<1> SUFFICES ASSUME Init PROVE TypesInv
  OBVIOUS
<1>1. \A max : Files(max) \subseteq Seq(Bytes)
  BY DEF Files
<1>2. src \in Seq(Bytes) /\ src # << >> /\ dst \in Seq(Bytes)
  BY <1>1 DEF Init
<1>3. Len(src) \in Nat /\ << >> \in Seq(Bytes)
  BY <1>2, BytesEmpty
<1>4. section.offset \in Nat /\ section.limit \in Nat
  <2>1. CASE Differs
    BY <2>1, <1>3, SectionsType DEF Differs
  <2>2. CASE Missing
    BY <2>2, <1>3 DEF Missing
  <2> QED
    BY <2>1, <2>2 DEF Init
<1>5. FilesInv
  BY <1>2, <1>4 DEF FilesInv
<1>6. BlockSize \in Nat \ {0} /\ Blocks \in Nat
  BY <1>5, Sizes
<1>7. rest \in Seq(Bytes)
  <2>1. rest = Take(Drop(src, section.offset), section.limit)
    BY DEF Init, NewSectionReader
  <2> QED
    BY <2>1, <1>2, <1>4, Parts
<1>8. pc \in {"start", "bytes"}
  BY DEF Init, Differs, Missing
<1>9. BuffersInv
  BY <1>3, <1>6, <1>7, <1>8, BytesEmpty DEF BuffersInv, Init
<1>10. dd = NewDataDesc(0) /\ IsDesc(dd, Blocks) /\ dd.seq = 0 /\ DescLen(dd) = 0
  BY NewDescIs DEF Init
<1>11. DescInv
  BY <1>6, <1>8, <1>10 DEF DescInv
<1> QED
  BY <1>5, <1>9, <1>11 DEF TypesInv

\* A match leads to a block with the sum of the window.
LEMMA KnownBlock ==
  ASSUME TypesInv, pc = "roll", Known
  PROVE  /\ hMap[Adler32(window)] \in 0..(Blocks - 1)
         /\ Adler32(Buffer(dst, hMap[Adler32(window)], BlockSize)) = Adler32(window)
<1> DEFINE weak == AddChecksums(dst, BlockSize)
           h == Adler32(window)
<1>1. BlockSize \in Nat \ {0} /\ Blocks \in Nat
  BY Sizes DEF TypesInv
<1>2. weak = [i \in 1..Blocks |-> Adler32(Buffer(dst, i - 1, BlockSize))]
  BY DEF AddChecksums, Blocks
<1>3. hMap = HashMap(weak)
  BY DEF TypesInv, DescInv
<1> HIDE DEF weak
<1>4. DOMAIN weak = 1..Blocks /\ Len(weak) = Blocks
  BY <1>1, <1>2
<1>5. h \in DOMAIN HashMap(weak)
  BY <1>3 DEF Known
<1> HIDE DEF h
<1>6. HashMap(weak)[h] \in 0..(Blocks - 1) /\ weak[HashMap(weak)[h] + 1] = h
  BY <1>1, <1>4, <1>5, HashMapIs
<1> DEFINE i == HashMap(weak)[h]
<1>7. i \in 0..(Blocks - 1) /\ weak[i + 1] = h
  BY <1>6
<1> HIDE DEF i
<1>8. i + 1 \in 1..Blocks /\ (i + 1) - 1 = i
  BY <1>1, <1>7
<1>9. weak[i + 1] = Adler32(Buffer(dst, i, BlockSize))
  BY <1>2, <1>8
<1> QED
  BY <1>3, <1>7, <1>9 DEF h, i

\* What has been read and not written, and what has not been read.
Left == window \o (buf \o rest)

\* The first block becomes the window.
LEMMA FillMoves ==
  ASSUME TypesInv, Fill
  PROVE  BuffersInv' /\ Left' = Left
<1> DEFINE bs == BlockSize
           more == Drop(rest, bs)
<1>1. /\ bs \in Nat \ {0} /\ BlockSize' = bs
      /\ rest \in Seq(Bytes) /\ window = << >> /\ buf = << >>
  BY Sizes, SameFiles DEF TypesInv, BuffersInv, Fill
<1>2. /\ Len(rest) > bs /\ window' = Take(rest, bs) /\ buf' = Take(more, bs)
      /\ rest' = Drop(rest, 2 * bs) /\ pc' = "roll"
  BY DEF Fill, Goto
<1>3. Len(rest) \in Nat
  BY <1>1, BytesEmpty
<1> HIDE DEF bs, more
<1>4. /\ Take(rest, bs) \in Seq(Bytes) /\ Len(Take(rest, bs)) = bs
      /\ more \in Seq(Bytes) /\ Take(rest, bs) \o more = rest
  BY <1>1, <1>2, <1>3, Parts DEF more
<1>5. /\ Take(more, bs) \in Seq(Bytes) /\ Drop(more, bs) \in Seq(Bytes)
      /\ Len(Take(more, bs)) <= bs
      /\ Take(more, bs) \o Drop(more, bs) = more
  <2>1. Len(more) \in Nat
    BY <1>4, BytesEmpty
  <2> QED
    BY <2>1, <1>1, <1>4, Parts
<1>6. rest' = Drop(more, bs)
  BY <1>1, <1>2, DropDrop DEF more
<1>7. BuffersInv'
  BY <1>1, <1>2, <1>4, <1>5, <1>6 DEF BuffersInv
<1>8. Left = rest
  BY <1>1, BytesEmpty DEF Left
<1>9. Left' = rest
  BY <1>2, <1>4, <1>5, <1>6 DEF Left
<1> QED
  BY <1>7, <1>8, <1>9

\* Behind a match, the bytes read ahead become the window.
LEMMA MatchMoves ==
  ASSUME TypesInv, Match
  PROVE  BuffersInv' /\ Left = window \o Left'
<1> DEFINE bs == BlockSize
           need == bs - Len(buf)
           after == Drop(rest, need)
<1>1. /\ bs \in Nat \ {0} /\ BlockSize' = bs
      /\ rest \in Seq(Bytes) /\ window \in Seq(Bytes) /\ buf \in Seq(Bytes)
      /\ Len(buf) <= bs /\ Len(window) <= bs
  BY Sizes, SameFiles DEF TypesInv, BuffersInv, Match
<1>2. Len(buf) \in Nat /\ Len(rest) \in Nat /\ need \in Nat
  BY <1>1, BytesEmpty
<1>3. CASE need > 0 /\ rest = << >>
  <2>1. window' = << >> /\ pc' = "finish" /\ rest' = rest /\ buf' = buf
    BY <1>3 DEF Match, Goto
  <2>2. << >> \in Seq(Bytes) /\ Len(<< >>) = 0
    BY BytesEmpty
  <2>3. BuffersInv'
    BY <1>1, <1>3, <2>1, <2>2 DEF BuffersInv
  <2>4. Left' = buf \o rest
    <3>1. buf \o rest \in Seq(Bytes)
      BY <1>1, BytesConcat
    <3> QED
      BY <3>1, <2>1, BytesEmpty DEF Left
  <2> QED
    BY <2>3, <2>4 DEF Left
<1>4. CASE ~(need > 0 /\ rest = << >>)
  <2>1. /\ window' = buf \o Take(rest, need) /\ buf' = Take(after, bs)
        /\ rest' = Drop(after, bs)
        /\ pc' = IF after = << >> THEN "finish" ELSE "roll"
    BY <1>4 DEF Match, Goto
  <2> HIDE DEF bs, need
  <2>2. /\ Take(rest, need) \in Seq(Bytes)
        /\ Len(Take(rest, need)) = IF need < Len(rest) THEN need ELSE Len(rest)
        /\ after \in Seq(Bytes)
        /\ Len(after) = IF need < Len(rest) THEN Len(rest) - need ELSE 0
        /\ Take(rest, need) \o after = rest
    BY <1>1, <1>2, Parts
  <2> HIDE DEF after
  <2>3. /\ Take(after, bs) \in Seq(Bytes) /\ Drop(after, bs) \in Seq(Bytes)
        /\ Len(Take(after, bs)) <= bs
        /\ Take(after, bs) \o Drop(after, bs) = after
        /\ Len(Drop(after, bs)) = IF bs < Len(after) THEN Len(after) - bs ELSE 0
    <3>1. Len(after) \in Nat /\ after \in Seq(Bytes) /\ bs \in Nat
      BY <1>1, <2>2, BytesEmpty
    <3>2. /\ Take(after, bs) \in Seq(Bytes) /\ Drop(after, bs) \in Seq(Bytes)
          /\ Len(Take(after, bs)) = IF bs < Len(after) THEN bs ELSE Len(after)
          /\ Take(after, bs) \o Drop(after, bs) = after
          /\ Len(Drop(after, bs)) = IF bs < Len(after) THEN Len(after) - bs ELSE 0
      BY <3>1, Parts
    <3> QED
      BY <3>1, <3>2
  <2>4. /\ buf \o Take(rest, need) \in Seq(Bytes)
        /\ Len(buf \o Take(rest, need)) = Len(buf) + Len(Take(rest, need))
    BY <1>1, <2>2, BytesConcat
  <2>5. Len(window') <= bs /\ (after # << >> => Len(window') = bs)
    <3>1. after # << >> => Len(after) # 0
      BY <2>2, BytesEmpty
    <3>2. Len(window') = Len(buf) + (IF need < Len(rest) THEN need ELSE Len(rest))
      BY <2>1, <2>2, <2>4
    <3>3. need = bs - Len(buf) /\ bs \in Nat
      BY <1>1 DEF need
    <3>4. after # << >> => need < Len(rest)
      BY <3>1, <2>2
    <3> QED
      BY <3>2, <3>3, <3>4, <1>2
  <2>6. after = << >> => Drop(after, bs) = << >>
    <3>1. after = << >> => Len(after) = 0
      BY <2>2, BytesEmpty
    <3>2. after = << >> => Len(Drop(after, bs)) = 0
      BY <3>1, <1>1, <2>3
    <3> QED
      BY <3>2, <2>3, BytesEmpty
  <2>7. BuffersInv'
    BY <1>1, <2>1, <2>3, <2>4, <2>5, <2>6 DEF BuffersInv
  <2>8. Left' = buf \o rest
    <3>1. Left' = (buf \o Take(rest, need)) \o after
      BY <2>1, <2>3 DEF Left
    <3>2. (buf \o Take(rest, need)) \o after = buf \o (Take(rest, need) \o after)
      BY <1>1, <2>2, BytesRegroup
    <3> QED
      BY <3>1, <3>2, <2>2
  <2> QED
    BY <2>7, <2>8 DEF Left
<1> QED
  BY <1>3, <1>4

\* Without a match, the first byte leaves the window.
LEMMA NoMatchMoves ==
  ASSUME TypesInv, NoMatch
  PROVE  /\ BuffersInv' /\ Head(window) \in Bytes
         /\ Left = << Head(window) >> \o Left'
<1> DEFINE bs == BlockSize
           ahead == IF buf = << >> THEN Take(rest, bs) ELSE buf
           left == IF buf = << >> THEN Drop(rest, bs) ELSE rest
<1>1. /\ bs \in Nat \ {0} /\ BlockSize' = bs
      /\ rest \in Seq(Bytes) /\ window \in Seq(Bytes) /\ buf \in Seq(Bytes)
      /\ Len(buf) <= bs /\ Len(window) = bs
  BY Sizes, SameFiles DEF TypesInv, BuffersInv, NoMatch, Looking
<1>2. /\ ahead # << >> /\ buf' = Tail(ahead) /\ rest' = left
      /\ window' = Append(Tail(window), Head(ahead)) /\ pc' = pc /\ pc = "roll"
  BY DEF NoMatch, Looking
<1>3. /\ ahead \in Seq(Bytes) /\ left \in Seq(Bytes) /\ Len(ahead) <= bs
      /\ ahead \o left = buf \o rest
  <2>1. /\ Take(rest, bs) \in Seq(Bytes) /\ Drop(rest, bs) \in Seq(Bytes)
        /\ Len(Take(rest, bs)) <= bs /\ Take(rest, bs) \o Drop(rest, bs) = rest
    <3>1. Len(rest) \in Nat
      BY <1>1, BytesEmpty
    <3> QED
      BY <3>1, <1>1, Parts
  <2>2. << >> \o rest = rest
    BY <1>1, BytesEmpty
  <2> QED
    BY <2>1, <2>2, <1>1
<1> HIDE DEF bs, ahead, left
<1>4. window # << >>
  BY <1>1, BytesEmpty
<1>5. /\ Head(window) \in Bytes /\ Tail(window) \in Seq(Bytes)
      /\ Len(Tail(window)) = Len(window) - 1
      /\ window = << Head(window) >> \o Tail(window)
  BY <1>1, <1>4, HeadAndTail
<1>6. /\ Head(ahead) \in Bytes /\ Tail(ahead) \in Seq(Bytes)
      /\ Len(Tail(ahead)) = Len(ahead) - 1
      /\ ahead = << Head(ahead) >> \o Tail(ahead)
  BY <1>2, <1>3, HeadAndTail
<1> DEFINE x == << Head(window) >>
           y == << Head(ahead) >>
           tw == Tail(window)
           ta == Tail(ahead)
<1>7. x \in Seq(Bytes) /\ y \in Seq(Bytes) /\ tw \in Seq(Bytes) /\ ta \in Seq(Bytes)
  BY <1>5, <1>6
<1>8. window' = tw \o y /\ Len(y) = 1
  BY <1>2, <1>5, <1>6, AppendIsConcat
<1>9. BuffersInv'
  <2>1. tw \o y \in Seq(Bytes) /\ Len(tw \o y) = Len(tw) + 1
    BY <1>7, <1>8, BytesConcat
  <2>2. Len(tw \o y) = bs /\ Len(ta) <= bs
    <3>1. Len(ahead) \in Nat /\ Len(window) \in Nat
      BY <1>1, <1>3, BytesEmpty
    <3> QED
      BY <3>1, <2>1, <1>1, <1>3, <1>5, <1>6
  <2> QED
    BY <2>1, <2>2, <1>1, <1>2, <1>3, <1>7, <1>8 DEF BuffersInv
<1> HIDE DEF x, y, tw, ta
<1>10. window = x \o tw /\ ahead = y \o ta /\ buf' = ta
  BY <1>2, <1>5, <1>6 DEF x, y, tw, ta
<1>11. Left' = (tw \o y) \o (ta \o left)
  BY <1>2, <1>8, <1>10 DEF Left
<1>12. Left = (x \o tw) \o ((y \o ta) \o left)
  BY <1>3, <1>10 DEF Left
<1>13. /\ ta \o left \in Seq(Bytes) /\ y \o (ta \o left) \in Seq(Bytes)
  BY <1>3, <1>7, BytesConcat
<1>14. (y \o ta) \o left = y \o (ta \o left)
  BY <1>3, <1>7, BytesRegroup, SMTT(20)
<1> DEFINE v == ta \o left
           z == y \o v
<1>15. (tw \o y) \o (ta \o left) = tw \o (y \o (ta \o left))
  <2>1. tw \in Seq(Bytes) /\ y \in Seq(Bytes) /\ v \in Seq(Bytes)
    BY <1>7, <1>13
  <2> HIDE DEF v
  <2>2. (tw \o y) \o v = tw \o (y \o v)
    BY <2>1, BytesRegroup
  <2> QED
    BY <2>2 DEF v
<1>16. (x \o tw) \o (y \o (ta \o left)) = x \o (tw \o (y \o (ta \o left)))
  <2>1. x \in Seq(Bytes) /\ tw \in Seq(Bytes) /\ z \in Seq(Bytes)
    BY <1>7, <1>13
  <2> HIDE DEF z
  <2>2. (x \o tw) \o z = x \o (tw \o z)
    BY <2>1, BytesRegroup
  <2> QED
    BY <2>2 DEF z
<1>17. Left = x \o Left'
  BY <1>11, <1>12, <1>14, <1>15, <1>16
<1> QED
  BY <1>5, <1>9, <1>17 DEF x

-----------------------------------------------------------------------------
(* The stream: what has been sent and gathered is the section so far.      *)

\* r is made of three parts.
Parted(r, a, b, c) == r = a \o (b \o c)

\* A part of a section is a part of the file.
LEMMA Middle ==
  ASSUME NEW s \in Seq(Bytes), NEW off \in Nat, NEW lim \in Nat, NEW n \in Nat \ {0},
         NEW a \in Seq(Bytes), NEW b \in Seq(Bytes), NEW c \in Seq(Bytes),
         Len(b) = n, Parted(NewSectionReader(s, off, lim), a, b, c)
  PROVE  \E k \in Nat : k + n <= Len(s) /\ b = Take(Drop(s, k), n)
<1> DEFINE k == off + Len(a)
           d == Drop(s, off)
           t == Take(d, lim)
           e == Drop(s, k)
           f == Take(e, Len(b))
           r == a \o (b \o c)
<1>1. /\ Len(s) \in Nat /\ Len(a) \in Nat /\ Len(b) \in Nat \ {0} /\ Len(c) \in Nat
      /\ k \in Nat
  BY BytesEmpty
<1>2. /\ d \in Seq(Bytes) /\ Len(d) = IF off < Len(s) THEN Len(s) - off ELSE 0
      /\ \A i \in 1..Len(d) : d[i] = s[off + i]
  BY DropType
<1>3. /\ e \in Seq(Bytes) /\ Len(e) = IF k < Len(s) THEN Len(s) - k ELSE 0
      /\ \A i \in 1..Len(e) : e[i] = s[k + i]
  BY <1>1, DropType
<1>4. r = t
  BY DEF NewSectionReader, Parted
<1>5. k = off + Len(a)
  OBVIOUS
<1> HIDE DEF d, e, k
<1>6. /\ Len(t) = IF lim < Len(d) THEN lim ELSE Len(d)
      /\ \A i \in 1..Len(t) : t[i] = d[i]
  BY <1>2, TakeType
<1>7. /\ f \in Seq(Bytes) /\ Len(f) = IF Len(b) < Len(e) THEN Len(b) ELSE Len(e)
      /\ \A i \in 1..Len(f) : f[i] = e[i]
  BY <1>1, <1>3, TakeType
<1> HIDE DEF t, f
<1> DEFINE m == b \o c
<1>8. /\ m \in Seq(Bytes) /\ Len(m) = Len(b) + Len(c)
      /\ \A i \in 1..(Len(b) + Len(c)) : m[i] = IF i <= Len(b) THEN b[i] ELSE c[i - Len(b)]
  BY ConcatProperties
<1>9. r = a \o m
  OBVIOUS
<1> HIDE DEF m, r
<1>10. /\ Len(r) = Len(a) + Len(m)
       /\ \A i \in 1..(Len(a) + Len(m)) : r[i] = IF i <= Len(a) THEN a[i] ELSE m[i - Len(a)]
  <2>1. m \in Seq(Bytes)
    BY <1>8
  <2>2. /\ Len(a \o m) = Len(a) + Len(m)
        /\ \A i \in 1..(Len(a) + Len(m)) :
             (a \o m)[i] = IF i <= Len(a) THEN a[i] ELSE m[i - Len(a)]
    BY <2>1, ConcatProperties
  <2> QED
    BY <2>2, <1>9
<1>11. Len(a) + Len(b) <= Len(d)
  <2>1. Len(r) = Len(a) + (Len(b) + Len(c))
    BY <1>8, <1>10
  <2>2. Len(r) <= Len(d)
    BY <1>1, <1>2, <1>4, <1>6
  <2>3. Len(a) \in Nat /\ Len(b) \in Nat /\ Len(c) \in Nat /\ Len(d) \in Nat
    BY <1>1, <1>2
  <2> QED
    BY <2>1, <2>2, <2>3
<1>12. k + Len(b) <= Len(s)
  BY <1>1, <1>2, <1>5, <1>11
<1>13. Len(f) = Len(b)
  BY <1>1, <1>3, <1>7, <1>12
<1>14. ASSUME NEW i \in 1..Len(b) PROVE b[i] = f[i]
  <2>1. m[i] = b[i] /\ i \in 1..Len(m)
    BY <1>1, <1>8
  <2>2. Len(a) + i \in 1..(Len(a) + Len(m)) /\ (Len(a) + i) - Len(a) = i /\ ~(Len(a) + i <= Len(a))
    BY <2>1, <1>1, <1>8
  <2>3. r[Len(a) + i] = b[i]
    BY <2>1, <2>2, <1>10
  <2>4. Len(a) + i \in 1..Len(t) /\ Len(a) + i \in 1..Len(d)
    BY <2>2, <1>1, <1>4, <1>10, <1>11
  <2>5. r[Len(a) + i] = s[off + (Len(a) + i)]
    BY <2>4, <1>2, <1>4, <1>6
  <2>6. i \in 1..Len(f) /\ i \in 1..Len(e)
    BY <1>1, <1>3, <1>12, <1>13
  <2>7. f[i] = s[k + i]
    BY <2>6, <1>3, <1>7
  <2>8. off + (Len(a) + i) = k + i
    BY <1>1, <1>5
  <2> QED
    BY <2>3, <2>5, <2>7, <2>8
<1>15. b = f
  BY <1>7, <1>13, <1>14, SeqEqual
<1> QED
  BY <1>1, <1>12, <1>15 DEF f, e, k

\* No part of the source file has the sum of a block of the old file that it is
\* not: a reader that compares nothing but sums would copy that block.
NoCollision ==
  \A k \in 0..(Len(src) - BlockSize), i \in 0..(Blocks - 1) :
    LET part == Take(Drop(src, k), BlockSize)
        block == Buffer(dst, i, BlockSize)
    IN Adler32(part) = Adler32(block) => part = block

\* The frames sent, and those the descriptor holds.
Sent == Frames(out) \o Serialize(dd)

Numbered(msgs) == \A i \in 1..Len(msgs) : msgs[i].seq = i - 1

\* Before the stream has ended.
RunningInv ==
  pc # "done" =>
    /\ out \in Seq(Messages(Blocks)) /\ Numbered(out) /\ dd.seq = Len(out)
    /\ NoCollision /\ AllCopyable(dst, BlockSize, Sent) =>
         Contents(dst, BlockSize, Sent) \o Left = Section

\* And then: the frames before the End frame, in the last message.
EndedInv ==
  pc = "done" =>
    \E msgs \in Seq(Messages(Blocks)), t, u \in Stream(Blocks) :
      /\ out = Append(msgs, [seq |-> Len(msgs), frames |-> Append(t, EndFrame) \o u])
      /\ Numbered(msgs)
      /\ NoCollision /\ AllCopyable(dst, BlockSize, Frames(msgs) \o t) =>
           Contents(dst, BlockSize, Frames(msgs) \o t) = Section

RollInv == TypesInv /\ RunningInv /\ EndedInv

\* The frames of messages and of a descriptor.
LEMMA SentIs ==
  ASSUME NEW old \in Seq(Bytes), NEW bs \in Nat, NEW n \in Nat,
         NEW msgs \in Seq(Messages(n)), NEW d, IsDesc(d, n)
  PROVE  /\ Frames(msgs) \in Stream(n) /\ Serialize(d) \in Stream(n)
         /\ Frames(msgs) \o Serialize(d) \in Stream(n)
         /\ Contents(old, bs, Frames(msgs) \o Serialize(d)) =
              Contents(old, bs, Frames(msgs)) \o Contents(old, bs, Serialize(d))
         /\ AllCopyable(old, bs, Frames(msgs) \o Serialize(d)) <=>
              AllCopyable(old, bs, Frames(msgs)) /\ AllCopyable(old, bs, Serialize(d))
<1>1. Frames(msgs) \in Stream(n)
  <2>1. msgs \in Seq([seq : Nat, frames : Seq(DataFrames \cup IndexFrames(n))])
    BY DEF Messages, Stream
  <2>2. << >> \in Seq(DataFrames \cup IndexFrames(n))
    BY EmptySeq
  <2>3. [seq |-> 0, frames |-> << >>] \in [seq : Nat, frames : Seq(DataFrames \cup IndexFrames(n))]
    BY <2>2
  <2> QED
    BY <2>1, <2>3, FramesAppend DEF Stream
<1>2. Serialize(d) \in Stream(n)
  BY SerializeIs
<1> QED
  BY <1>1, <1>2, ContentsConcat

\* One message more.
LEMMA MessageSent ==
  ASSUME NEW n \in Nat, NEW msgs \in Seq(Messages(n)), NEW m \in Messages(n),
         Numbered(msgs), m.seq = Len(msgs)
  PROVE  /\ Append(msgs, m) \in Seq(Messages(n))
         /\ Numbered(Append(msgs, m))
         /\ Len(Append(msgs, m)) = m.seq + 1
         /\ Frames(Append(msgs, m)) = Frames(msgs) \o m.frames
<1>1. /\ Append(msgs, m) \in Seq(Messages(n)) /\ Len(Append(msgs, m)) = Len(msgs) + 1
      /\ \A i \in 1..Len(msgs) : Append(msgs, m)[i] = msgs[i]
      /\ Append(msgs, m)[Len(msgs) + 1] = m
      /\ Len(msgs) \in Nat
  BY AppendProperties, LenProperties
<1>2. Numbered(Append(msgs, m))
  <2>1. \A i \in 1..(Len(msgs) + 1) : i \in 1..Len(msgs) \/ i = Len(msgs) + 1
    BY <1>1
  <2> QED
    BY <2>1, <1>1 DEF Numbered
<1>3. Frames(Append(msgs, m)) = Frames(msgs) \o m.frames
  BY FramesAppend DEF Messages, Stream
<1> QED
  BY <1>1, <1>2, <1>3

\* What depends on the files only.
LEMMA SameSection ==
  ASSUME FilesInv, UNCHANGED fileVars
  PROVE  Section' = Section /\ (NoCollision' <=> NoCollision)
<1>1. BlockSize' = BlockSize /\ Blocks' = Blocks
  BY SameFiles
<1> QED
  BY <1>1 DEF Section, NoCollision, fileVars

\* The section, and what is known of it in the loop.
LEMMA LeftType == TypesInv => Left \in Seq(Bytes) /\ Section \in Seq(Bytes)
<1> SUFFICES ASSUME TypesInv PROVE Left \in Seq(Bytes) /\ Section \in Seq(Bytes)
  OBVIOUS
<1>1. buf \o rest \in Seq(Bytes) /\ window \in Seq(Bytes)
  BY BytesConcat DEF TypesInv, BuffersInv
<1>2. Left \in Seq(Bytes)
  BY <1>1, BytesConcat DEF Left
<1>3. Section \in Seq(Bytes)
  BY Parts DEF TypesInv, FilesInv, Section, NewSectionReader
<1> QED
  BY <1>2, <1>3

\* The same for the old file and its blocks, and for what is written to a
\* descriptor with indexes of them.
LEMMA SentNow ==
  ASSUME FilesInv, out \in Seq(Messages(Blocks)), NEW d, IsDesc(d, Blocks)
  PROVE  /\ Frames(out) \in Stream(Blocks) /\ Serialize(d) \in Stream(Blocks)
         /\ Contents(dst, BlockSize, Frames(out) \o Serialize(d)) =
              Contents(dst, BlockSize, Frames(out)) \o Contents(dst, BlockSize, Serialize(d))
         /\ AllCopyable(dst, BlockSize, Frames(out) \o Serialize(d)) <=>
              AllCopyable(dst, BlockSize, Frames(out)) /\ AllCopyable(dst, BlockSize, Serialize(d))
<1>1. dst \in Seq(Bytes) /\ BlockSize \in Nat /\ Blocks \in Nat
  BY Sizes DEF FilesInv
<1> QED
  BY <1>1, SentIs

LEMMA BytesNow ==
  ASSUME FilesInv, NEW d, IsDesc(d, Blocks), NEW x \in Seq(Bytes)
  PROVE  /\ IsDesc(WriteBytes(d, x), Blocks)
         /\ WriteBytes(d, x).seq = d.seq
         /\ DescLen(WriteBytes(d, x)) <= DescLen(d) + Len(x)
         /\ Contents(dst, BlockSize, Serialize(WriteBytes(d, x))) =
              Contents(dst, BlockSize, Serialize(d)) \o x
         /\ AllCopyable(dst, BlockSize, Serialize(WriteBytes(d, x))) <=>
              AllCopyable(dst, BlockSize, Serialize(d))
<1>1. dst \in Seq(Bytes) /\ BlockSize \in Nat /\ Blocks \in Nat
  BY Sizes DEF FilesInv
<1> QED
  BY <1>1, BytesWritten

LEMMA IndexNow ==
  ASSUME FilesInv, NEW d, IsDesc(d, Blocks)
  PROVE  \A i \in 0..(Blocks - 1) :
           /\ IsDesc(WriteIndex(d, i), Blocks)
           /\ WriteIndex(d, i).seq = d.seq
           /\ DescLen(WriteIndex(d, i)) = DescLen(d)
           /\ Contents(dst, BlockSize, Serialize(WriteIndex(d, i))) =
                Contents(dst, BlockSize, Serialize(d)) \o Block(dst, BlockSize, i)
           /\ AllCopyable(dst, BlockSize, Serialize(WriteIndex(d, i))) <=>
                AllCopyable(dst, BlockSize, Serialize(d)) /\ Len(Block(dst, BlockSize, i)) = BlockSize
<1>1. dst \in Seq(Bytes) /\ BlockSize \in Nat /\ Blocks \in Nat
  BY Sizes DEF FilesInv
<1> QED
  BY <1>1, IndexWritten

\* At the start nothing has been sent.
LEMMA RollInit == Init => RollInv
<1> SUFFICES ASSUME Init PROVE RollInv
  OBVIOUS
<1>1. TypesInv
  BY TypesInit
<1>2. pc # "done"
  BY DEF Init, Differs, Missing
<1>3. out = << >> /\ dd = NewDataDesc(0) /\ window = << >> /\ buf = << >> /\ rest = Section
  BY DEF Init, Section
<1>4. dd.seq = 0 /\ Serialize(dd) = << >>
  BY <1>3, NewDescIs
<1>5. out \in Seq(Messages(Blocks)) /\ Numbered(out) /\ Len(out) = 0
  BY <1>3 DEF Numbered
<1>6. Frames(out) = << >>
  <2>1. [i \in DOMAIN << >> |-> << >>[i].frames] = << >>
    OBVIOUS
  <2> QED
    BY <1>3, <2>1, FlattenEmpty DEF Frames
<1>7. Sent = << >>
  BY <1>4, <1>6 DEF Sent
<1>8. Contents(dst, BlockSize, Sent) \o Left = Section
  <2>1. Contents(dst, BlockSize, Sent) = << >>
    BY <1>7, ContentsNone
  <2>2. Left = rest /\ rest \in Seq(Bytes)
    BY <1>1, <1>3, BytesEmpty DEF Left, TypesInv, BuffersInv
  <2> QED
    BY <1>3, <2>1, <2>2, BytesEmpty
<1> QED
  BY <1>1, <1>2, <1>4, <1>5, <1>8 DEF RollInv, RunningInv, EndedInv

\* A step that leaves the stream and what is left as they are.
LEMMA Still ==
  ASSUME RollInv, UNCHANGED <<fileVars, out, dd>>, Left' = Left,
         pc # "done", pc' # "done"
  PROVE  RunningInv' /\ EndedInv'
<1>1. /\ dst' = dst /\ BlockSize' = BlockSize /\ Blocks' = Blocks
      /\ Section' = Section /\ (NoCollision' <=> NoCollision)
  BY SameFiles, SameSection DEF RollInv, TypesInv, fileVars
<1>2. Sent' = Sent
  BY DEF Sent
<1>3. RunningInv
  BY DEF RollInv
<1> QED
  BY <1>1, <1>2, <1>3 DEF RunningInv, EndedInv

\* The file's sums become the map.
LEMMA FillStep == RollInv /\ Fill => RollInv'
<1> SUFFICES ASSUME RollInv, Fill PROVE RollInv'
  OBVIOUS
<1>1. TypesInv /\ pc = "start" /\ pc' = "roll" /\ UNCHANGED <<fileVars, out, dd>>
  BY DEF RollInv, Fill, Goto
<1>2. FilesInv' /\ BlockSize' = BlockSize /\ Blocks' = Blocks /\ dst' = dst
  BY <1>1, SameFiles DEF TypesInv, fileVars
<1>3. BuffersInv' /\ Left' = Left
  BY <1>1, FillMoves
<1>4. hMap' = HashMap(AddChecksums(dst, BlockSize))
  BY DEF Fill
<1>5. DescInv'
  BY <1>1, <1>2, <1>4 DEF TypesInv, DescInv
<1> QED
  BY <1>1, <1>2, <1>3, <1>5, Still DEF RollInv, TypesInv

\* Nothing but the place changes.
LEMMA PlaceStep ==
  ASSUME RollInv, UNCHANGED <<fileVars, hMap, readVars, dd, out>>, pc # "done",
         pc' = "failed" \/ (pc' = "finish" /\ pc = "roll" /\ rest = << >>)
  PROVE  RollInv'
<1>1. FilesInv' /\ BlockSize' = BlockSize /\ Blocks' = Blocks /\ dst' = dst
  BY SameFiles DEF RollInv, TypesInv, fileVars
<1>2. BuffersInv'
  BY <1>1 DEF RollInv, TypesInv, BuffersInv, readVars
<1>3. DescInv'
  BY <1>1 DEF RollInv, TypesInv, DescInv
<1>4. Left' = Left /\ pc' # "done"
  BY DEF Left, readVars
<1> QED
  BY <1>1, <1>2, <1>3, <1>4, Still DEF RollInv, TypesInv

\* The descriptor becomes a message.
LEMMA SendStep == RollInv /\ SendData => RollInv'
<1> SUFFICES ASSUME RollInv, SendData PROVE RollInv'
  OBVIOUS
<1> DEFINE m == [seq |-> dd.seq, frames |-> Serialize(dd)]
           n == Blocks
           bs == BlockSize
<1>1. /\ TypesInv /\ pc = "roll" /\ pc' = pc /\ UNCHANGED <<fileVars, hMap, readVars>>
      /\ out' = Append(out, m) /\ dd' = NewDataDesc(dd.seq + 1)
  BY DEF RollInv, SendData
<1>2. /\ FilesInv' /\ BlockSize' = bs /\ Blocks' = n /\ dst' = dst
      /\ Section' = Section /\ (NoCollision' <=> NoCollision)
      /\ bs \in Nat \ {0} /\ n \in Nat
  BY <1>1, SameFiles, SameSection, Sizes DEF TypesInv, fileVars
<1>3. BuffersInv' /\ Left' = Left
  BY <1>1, <1>2 DEF TypesInv, BuffersInv, readVars, Left
<1>4. /\ IsDesc(dd, n) /\ dd.seq \in Nat /\ out \in Seq(Messages(n))
      /\ Numbered(out) /\ dd.seq = Len(out)
      /\ NoCollision /\ AllCopyable(dst, bs, Sent) => Contents(dst, bs, Sent) \o Left = Section
  BY <1>1 DEF RollInv, TypesInv, DescInv, IsDesc, RunningInv
<1> HIDE DEF n, bs
<1>5. /\ IsDesc(dd', n) /\ dd'.seq = dd.seq + 1 /\ DescLen(dd') = 0 /\ Serialize(dd') = << >>
  BY <1>1, <1>2, <1>4, NewDescIs
<1>6. DescInv'
  BY <1>1, <1>2, <1>5 DEF DescInv, TypesInv, bs, n
<1>7. m \in Messages(n) /\ m.seq = Len(out) /\ m.frames = Serialize(dd)
  BY <1>2, <1>4, SerializeIs DEF Messages
<1> HIDE DEF m
<1>8. /\ Append(out, m) \in Seq(Messages(n)) /\ Numbered(Append(out, m))
      /\ Len(Append(out, m)) = m.seq + 1
      /\ Frames(Append(out, m)) = Frames(out) \o m.frames
  BY <1>2, <1>4, <1>7, MessageSent
<1>9. Sent' = Sent
  <2>1. Frames(out) \o Serialize(dd) \in Stream(n)
    BY <1>1, <1>2, <1>4, SentIs DEF TypesInv, FilesInv
  <2>2. (Frames(out) \o Serialize(dd)) \o << >> = Frames(out) \o Serialize(dd)
    BY <2>1, ConcatEmptySeq DEF Stream
  <2> QED
    BY <1>1, <1>5, <1>7, <1>8, <2>2 DEF Sent
<1>10. RunningInv'
  BY <1>1, <1>2, <1>3, <1>4, <1>5, <1>7, <1>8, <1>9 DEF RunningInv
<1>11. EndedInv'
  BY <1>1 DEF EndedInv
<1> QED
  BY <1>2, <1>3, <1>6, <1>10, <1>11 DEF RollInv, TypesInv

\* Bytes written to the descriptor that leave what is left.
LEMMA WrittenStep ==
  ASSUME RollInv, pc # "done", pc' # "done", pc' # "start", pc' # "bytes",
         UNCHANGED <<fileVars, out>>, NEW x \in Seq(Bytes),
         IsDesc(dd', Blocks), dd'.seq = dd.seq,
         NoCollision /\ AllCopyable(dst, BlockSize, Serialize(dd'))
                     /\ AllCopyable(dst, BlockSize, Sent) =>
           Contents(dst, BlockSize, Serialize(dd')) =
             Contents(dst, BlockSize, Serialize(dd)) \o x,
         AllCopyable(dst, BlockSize, Serialize(dd')) =>
           AllCopyable(dst, BlockSize, Serialize(dd)),
         Left = x \o Left', Left' \in Seq(Bytes)
  PROVE  RunningInv' /\ EndedInv'
<1> DEFINE n == Blocks
           bs == BlockSize
           f == Contents(dst, bs, Frames(out))
           p == Contents(dst, bs, Serialize(dd))
           q == Contents(dst, bs, Serialize(dd'))
<1>1. /\ FilesInv /\ BlockSize' = bs /\ Blocks' = n /\ dst' = dst /\ out' = out
      /\ Section' = Section /\ (NoCollision' <=> NoCollision)
      /\ bs \in Nat \ {0} /\ n \in Nat /\ dst \in Seq(Bytes)
  BY SameFiles, SameSection, Sizes DEF RollInv, TypesInv, FilesInv, fileVars
<1>2. /\ IsDesc(dd, n) /\ out \in Seq(Messages(n)) /\ Numbered(out) /\ dd.seq = Len(out)
      /\ NoCollision /\ AllCopyable(dst, bs, Sent) => Contents(dst, bs, Sent) \o Left = Section
  BY DEF RollInv, TypesInv, DescInv, RunningInv
<1> HIDE DEF n, bs
<1>3. /\ Frames(out) \in Stream(n) /\ Serialize(dd) \in Stream(n)
      /\ Contents(dst, bs, Sent) = f \o p
      /\ AllCopyable(dst, bs, Sent) <=>
           AllCopyable(dst, bs, Frames(out)) /\ AllCopyable(dst, bs, Serialize(dd))
  BY <1>1, <1>2, SentNow DEF Sent, n, bs
<1>4. /\ Sent' = Frames(out) \o Serialize(dd')
      /\ Contents(dst, bs, Sent') = f \o q
      /\ AllCopyable(dst, bs, Sent') <=>
           AllCopyable(dst, bs, Frames(out)) /\ AllCopyable(dst, bs, Serialize(dd'))
  <2> DEFINE d == dd'
  <2>1. IsDesc(d, n) /\ Sent' = Frames(out) \o Serialize(d)
    BY <1>1 DEF Sent, n
  <2> HIDE DEF d
  <2>2. /\ Contents(dst, bs, Frames(out) \o Serialize(d)) =
             Contents(dst, bs, Frames(out)) \o Contents(dst, bs, Serialize(d))
        /\ AllCopyable(dst, bs, Frames(out) \o Serialize(d)) <=>
             AllCopyable(dst, bs, Frames(out)) /\ AllCopyable(dst, bs, Serialize(d))
    BY <1>1, <1>2, <2>1, SentNow DEF n, bs
  <2> QED
    BY <2>1, <2>2 DEF d
<1>5. f \in Seq(Bytes) /\ p \in Seq(Bytes)
  BY <1>1, <1>3, ContentsOf
<1>6. NoCollision /\ AllCopyable(dst, bs, Sent') => Contents(dst, bs, Sent') \o Left' = Section
  <2> SUFFICES ASSUME NoCollision, AllCopyable(dst, bs, Sent')
               PROVE  Contents(dst, bs, Sent') \o Left' = Section
    OBVIOUS
  <2>1. AllCopyable(dst, bs, Sent) /\ AllCopyable(dst, bs, Serialize(dd'))
    BY <1>3, <1>4 DEF bs
  <2>2. (f \o p) \o Left = Section
    BY <1>2, <1>3, <2>1
  <2>3. q = p \o x
    BY <2>1 DEF bs
  <2> HIDE DEF f, p, q
  <2>4. p \o x \in Seq(Bytes) /\ f \o p \in Seq(Bytes)
    BY <1>5, BytesConcat
  <2>5. f \o (p \o x) = (f \o p) \o x
    BY <1>5, BytesRegroup
  <2>6. ((f \o p) \o x) \o Left' = (f \o p) \o (x \o Left')
    BY <2>4, BytesRegroup
  <2> QED
    BY <1>4, <2>2, <2>3, <2>5, <2>6
<1>7. RunningInv'
  BY <1>1, <1>2, <1>6 DEF RunningInv
<1>8. EndedInv'
  BY DEF EndedInv
<1> QED
  BY <1>7, <1>8

\* A byte that leaves the window is written as it is.
LEMMA NoMatchStep == RollInv /\ NoMatch => RollInv'
<1> SUFFICES ASSUME RollInv, NoMatch PROVE RollInv'
  OBVIOUS
<1> DEFINE x == << Head(window) >>
<1>1. /\ TypesInv /\ pc = "roll" /\ pc' = pc /\ UNCHANGED <<fileVars, hMap, out>>
      /\ dd' = WriteByte(dd, Head(window)) /\ DescLen(dd) <= BlockSize
  BY DEF RollInv, NoMatch, Looking
<1>2. BuffersInv' /\ Head(window) \in Bytes /\ Left = x \o Left'
  BY <1>1, NoMatchMoves
<1>3. /\ FilesInv' /\ BlockSize' = BlockSize /\ Blocks' = Blocks /\ dst' = dst
      /\ BlockSize \in Nat \ {0} /\ Blocks \in Nat /\ dst \in Seq(Bytes)
      /\ IsDesc(dd, Blocks)
  BY <1>1, SameFiles, Sizes DEF TypesInv, FilesInv, DescInv, fileVars
<1>4. dd' = WriteBytes(dd, x) /\ x \in Seq(Bytes) /\ Len(x) = 1
  BY <1>1, <1>2, <1>3, WriteByteIs
<1> HIDE DEF x
<1>5. /\ IsDesc(dd', Blocks) /\ dd'.seq = dd.seq
      /\ DescLen(dd') <= DescLen(dd) + Len(x)
      /\ Contents(dst, BlockSize, Serialize(dd')) = Contents(dst, BlockSize, Serialize(dd)) \o x
      /\ AllCopyable(dst, BlockSize, Serialize(dd')) <=>
           AllCopyable(dst, BlockSize, Serialize(dd))
  <2> DEFINE d == WriteBytes(dd, x)
  <2>1. /\ IsDesc(d, Blocks) /\ d.seq = dd.seq
        /\ DescLen(d) <= DescLen(dd) + Len(x)
        /\ Contents(dst, BlockSize, Serialize(d)) = Contents(dst, BlockSize, Serialize(dd)) \o x
        /\ AllCopyable(dst, BlockSize, Serialize(d)) <=>
             AllCopyable(dst, BlockSize, Serialize(dd))
    BY <1>1, <1>3, <1>4, BytesNow DEF TypesInv
  <2> HIDE DEF d
  <2>2. dd' = d
    BY <1>4 DEF d
  <2> QED
    BY <2>1, <2>2
<1>6. DescLen(dd') <= BlockSize + 1
  <2>1. DescLen(dd) \in Nat /\ DescLen(dd') \in Nat
    BY <1>3, <1>5, BytesEmpty DEF DescLen, IsDesc
  <2> QED
    BY <2>1, <1>1, <1>3, <1>4, <1>5
<1>7. DescInv'
  BY <1>1, <1>3, <1>5, <1>6 DEF DescInv, TypesInv
<1>8. TypesInv'
  BY <1>2, <1>3, <1>7 DEF TypesInv
<1>9. Left' \in Seq(Bytes)
  BY <1>2, BytesConcat DEF BuffersInv, Left
<1> QED
  BY <1>1, <1>2, <1>4, <1>5, <1>8, <1>9, WrittenStep DEF RollInv

\* The block a match leads to is the window, if the sums do not collide and the
\* block can be copied.
LEMMA MatchIs ==
  ASSUME RollInv, pc = "roll", Known, NoCollision, AllCopyable(dst, BlockSize, Sent),
         Len(Block(dst, BlockSize, hMap[Adler32(window)])) = BlockSize
  PROVE  Block(dst, BlockSize, hMap[Adler32(window)]) = window
<1> DEFINE n == Blocks
           bs == BlockSize
           i == hMap[Adler32(window)]
           a == Contents(dst, bs, Sent)
           c == buf \o rest
           off == section.offset
<1>1. /\ TypesInv /\ FilesInv /\ src \in Seq(Bytes) /\ dst \in Seq(Bytes)
      /\ off \in Nat /\ section.limit \in Nat
      /\ window \in Seq(Bytes) /\ buf \in Seq(Bytes) /\ rest \in Seq(Bytes)
      /\ Len(window) = bs /\ IsDesc(dd, n)
  BY DEF RollInv, TypesInv, FilesInv, BuffersInv, DescInv
<1>2. /\ out \in Seq(Messages(n)) /\ a \o (window \o c) = Section
  BY DEF RollInv, RunningInv, Left
<1>3. bs \in Nat \ {0} /\ n \in Nat
  BY <1>1, Sizes
<1>4. i \in 0..(n - 1) /\ Adler32(Buffer(dst, i, bs)) = Adler32(window)
  BY <1>1, KnownBlock
<1>5. Len(Block(dst, bs, i)) = bs
  OBVIOUS
<1> HIDE DEF n, bs, i
<1>6. a \in Seq(Bytes)
  <2>1. Sent \in Stream(n)
    BY <1>1, <1>2, <1>3, SentIs DEF Sent
  <2> HIDE DEF a
  <2> QED
    BY <1>1, <1>3, <2>1, ContentsOf DEF a
<1>7. c \in Seq(Bytes) /\ window # << >>
  BY <1>1, <1>3, BytesConcat, BytesEmpty
<1>8. a \o (window \o c) = NewSectionReader(src, off, section.limit)
  BY <1>2 DEF Section
<1> HIDE DEF a, c, off
<1>9. PICK k \in 0..(Len(src) - bs) : window = Take(Drop(src, k), bs)
  <2> DEFINE lim == section.limit
  <2>1. /\ lim \in Nat /\ off \in Nat /\ bs \in Nat \ {0} /\ Len(src) \in Nat
        /\ src \in Seq(Bytes) /\ a \in Seq(Bytes) /\ window \in Seq(Bytes) /\ c \in Seq(Bytes)
        /\ Len(window) = bs
    BY <1>1, <1>3, <1>6, <1>7, BytesEmpty
  <2>2. Parted(NewSectionReader(src, off, lim), a, window, c)
    BY <1>8 DEF Parted
  <2> HIDE DEF lim
  <2>3. \E k \in Nat : k + bs <= Len(src) /\ window = Take(Drop(src, k), bs)
    BY <2>1, <2>2, Middle, SMTT(30)
  <2> QED
    BY <1>3, <2>1, <2>3
<1>10. Adler32(window) = Adler32(Buffer(dst, i, bs)) => window = Buffer(dst, i, bs)
  <2>1. LET part == Take(Drop(src, k), bs)
            block == Buffer(dst, i, bs)
        IN Adler32(part) = Adler32(block) => part = block
    BY <1>4, <1>9 DEF NoCollision, n, bs
  <2> QED
    BY <2>1, <1>9
<1>11. window = Buffer(dst, i, bs)
  BY <1>4, <1>10
<1>12. i \in Nat
  BY <1>4
<1>13. Buffer(dst, i, bs) = Block(dst, bs, i)
  BY <1>1, <1>3, <1>5, <1>12, BufferIs
<1> QED
  BY <1>11, <1>13 DEF i, bs

\* The window becomes an index.
LEMMA MatchStep == RollInv /\ Match => RollInv'
<1> SUFFICES ASSUME RollInv, Match PROVE RollInv'
  OBVIOUS
<1> DEFINE i == hMap[Adler32(window)]
<1>1. /\ TypesInv /\ pc = "roll" /\ pc' \in {"roll", "finish"} /\ UNCHANGED <<fileVars, hMap, out>>
      /\ dd' = WriteIndex(dd, i) /\ DescLen(dd) <= BlockSize /\ Known
  BY DEF RollInv, Match, Looking, Goto
<1>2. BuffersInv' /\ Left = window \o Left' /\ window \in Seq(Bytes)
  BY <1>1, MatchMoves DEF TypesInv, BuffersInv
<1>3. /\ FilesInv' /\ BlockSize' = BlockSize /\ Blocks' = Blocks /\ dst' = dst
      /\ BlockSize \in Nat \ {0} /\ Blocks \in Nat /\ dst \in Seq(Bytes)
      /\ IsDesc(dd, Blocks)
  BY <1>1, SameFiles, Sizes DEF TypesInv, FilesInv, DescInv, fileVars
<1>4. i \in 0..(Blocks - 1)
  BY <1>1, KnownBlock
<1>5. Len(Block(dst, BlockSize, i)) = BlockSize /\ NoCollision
        /\ AllCopyable(dst, BlockSize, Sent) => Block(dst, BlockSize, i) = window
  BY <1>1, MatchIs
<1> HIDE DEF i
<1>6. /\ IsDesc(dd', Blocks) /\ dd'.seq = dd.seq
      /\ DescLen(dd') = DescLen(dd)
      /\ Contents(dst, BlockSize, Serialize(dd')) =
           Contents(dst, BlockSize, Serialize(dd)) \o Block(dst, BlockSize, i)
      /\ AllCopyable(dst, BlockSize, Serialize(dd')) <=>
           AllCopyable(dst, BlockSize, Serialize(dd)) /\ Len(Block(dst, BlockSize, i)) = BlockSize
  <2> DEFINE d == WriteIndex(dd, i)
  <2>1. /\ IsDesc(d, Blocks) /\ d.seq = dd.seq
        /\ DescLen(d) = DescLen(dd)
        /\ Contents(dst, BlockSize, Serialize(d)) =
             Contents(dst, BlockSize, Serialize(dd)) \o Block(dst, BlockSize, i)
        /\ AllCopyable(dst, BlockSize, Serialize(d)) <=>
             AllCopyable(dst, BlockSize, Serialize(dd)) /\ Len(Block(dst, BlockSize, i)) = BlockSize
    BY <1>1, <1>3, <1>4, IndexNow DEF TypesInv
  <2> HIDE DEF d
  <2>2. dd' = d
    BY <1>1 DEF d
  <2> QED
    BY <2>1, <2>2
<1>7. DescInv'
  BY <1>1, <1>3, <1>6 DEF DescInv, TypesInv
<1>8. TypesInv'
  BY <1>2, <1>3, <1>7 DEF TypesInv
<1>9. Left' \in Seq(Bytes)
  BY <1>2, BytesConcat DEF BuffersInv, Left
<1>10. NoCollision /\ AllCopyable(dst, BlockSize, Serialize(dd'))
                   /\ AllCopyable(dst, BlockSize, Sent) =>
         Contents(dst, BlockSize, Serialize(dd')) =
           Contents(dst, BlockSize, Serialize(dd)) \o window
  BY <1>5, <1>6
<1> QED
  BY <1>1, <1>2, <1>6, <1>8, <1>9, <1>10, WrittenStep DEF RollInv

\* A frame of bytes behind others.
LEMMA DataSent ==
  ASSUME NEW old \in Seq(Bytes), NEW bs \in Nat, NEW n \in Nat,
         NEW s \in Stream(n), NEW x \in Seq(Bytes)
  PROVE  /\ << Frame(Data, x) >> \in Stream(n)
         /\ s \o << Frame(Data, x) >> \in Stream(n)
         /\ Contents(old, bs, s \o << Frame(Data, x) >>) = Contents(old, bs, s) \o x
         /\ AllCopyable(old, bs, s \o << Frame(Data, x) >>) <=> AllCopyable(old, bs, s)
<1> DEFINE f == Frame(Data, x)
           w == << f >>
<1>1. /\ f \in DataFrames \cup IndexFrames(n)
      /\ Content(old, bs, f) = x /\ Copyable(old, bs, f)
  BY ContentData
<1> HIDE DEF f
<1>2. w \in Stream(n) /\ Contents(old, bs, w) = x /\ AllCopyable(old, bs, w)
  BY <1>1, ContentsOne
<1> HIDE DEF w
<1>3. /\ s \o w \in Stream(n)
      /\ Contents(old, bs, s \o w) = Contents(old, bs, s) \o Contents(old, bs, w)
      /\ AllCopyable(old, bs, s \o w) <=> AllCopyable(old, bs, s) /\ AllCopyable(old, bs, w)
  BY <1>2, ContentsConcat
<1> QED
  BY <1>2, <1>3 DEF f, w

\* A bytes reader sends a block.
LEMMA ReadStep == RollInv /\ ReadBlock => RollInv'
<1> SUFFICES ASSUME RollInv, ReadBlock PROVE RollInv'
  OBVIOUS
<1> DEFINE n == Blocks
           bs == BlockSize
           x == Take(rest, bs)
           y == Drop(rest, bs)
           m == [seq |-> dd.seq, frames |-> Serialize(Write(dd, x))]
<1>1. /\ TypesInv /\ pc = "bytes" /\ pc' = pc /\ UNCHANGED <<fileVars, hMap, window, buf>>
      /\ rest' = y /\ out' = Append(out, m) /\ dd' = NewDataDesc(dd.seq + 1)
  BY DEF RollInv, ReadBlock
<1>2. /\ FilesInv' /\ BlockSize' = bs /\ Blocks' = n /\ dst' = dst
      /\ Section' = Section /\ (NoCollision' <=> NoCollision)
      /\ bs \in Nat \ {0} /\ n \in Nat /\ dst \in Seq(Bytes)
  BY <1>1, SameFiles, SameSection, Sizes DEF TypesInv, FilesInv, fileVars
<1>3. /\ IsDesc(dd, n) /\ dd.seq \in Nat /\ out \in Seq(Messages(n))
      /\ dd = NewDataDesc(dd.seq) /\ window = << >> /\ buf = << >> /\ rest \in Seq(Bytes)
      /\ Numbered(out) /\ dd.seq = Len(out)
      /\ NoCollision /\ AllCopyable(dst, bs, Sent) => Contents(dst, bs, Sent) \o Left = Section
  BY <1>1 DEF RollInv, TypesInv, DescInv, BuffersInv, IsDesc, RunningInv
<1>4. x \in Seq(Bytes) /\ y \in Seq(Bytes) /\ rest = x \o y
  BY <1>2, <1>3, Parts
<1> HIDE DEF n, bs, x, y
<1>5. m.seq = dd.seq /\ m.frames = << Frame(Data, x) >> /\ Serialize(dd) = << >>
  BY <1>3, <1>4, BlockWritten, NewDescIs
<1>6. Frames(out) \in Stream(n)
  BY <1>2, <1>3, SentIs
<1> DEFINE w == << Frame(Data, x) >>
           f == Frames(out)
<1>12. /\ w \in Stream(n) /\ f \o w \in Stream(n)
       /\ Contents(dst, bs, f \o w) = Contents(dst, bs, f) \o x
       /\ AllCopyable(dst, bs, f \o w) <=> AllCopyable(dst, bs, f)
  <2> HIDE DEF f
  <2>1. /\ f \in Stream(n) /\ x \in Seq(Bytes)
        /\ dst \in Seq(Bytes) /\ bs \in Nat /\ n \in Nat
    BY <1>2, <1>4, <1>6 DEF f
  <2> HIDE DEF m
  <2> QED
    BY <2>1, DataSent
<1> HIDE DEF w
<1>7. m \in Messages(n) /\ m.frames = w
  BY <1>3, <1>5, <1>12 DEF Messages, w
<1> HIDE DEF m
<1>8. /\ Append(out, m) \in Seq(Messages(n)) /\ Numbered(Append(out, m))
      /\ Len(Append(out, m)) = m.seq + 1
      /\ Frames(Append(out, m)) = Frames(out) \o w
  BY <1>2, <1>3, <1>5, <1>7, MessageSent
<1>9. /\ IsDesc(dd', n) /\ dd'.seq = dd.seq + 1 /\ DescLen(dd') = 0 /\ Serialize(dd') = << >>
  <2>1. dd' = NewDataDesc(dd.seq + 1) /\ dd.seq + 1 \in Nat
    BY <1>1, <1>2, <1>3
  <2> DEFINE q == dd.seq + 1
  <2> HIDE DEF q
  <2>2. /\ IsDesc(NewDataDesc(q), n) /\ NewDataDesc(q).seq = q
        /\ DescLen(NewDataDesc(q)) = 0 /\ Serialize(NewDataDesc(q)) = << >>
    BY <2>1, NewDescIs DEF q
  <2> QED
    BY <2>1, <2>2 DEF q
<1>10. DescInv'
  BY <1>1, <1>2, <1>9 DEF DescInv, TypesInv, bs, n
<1>11. BuffersInv'
  BY <1>1, <1>2, <1>3, <1>4 DEF BuffersInv, TypesInv, bs
<1>13. Sent = f /\ Sent' = f \o w
  <2>1. f \o << >> = f
    BY <1>6, ConcatEmptySeq DEF Stream
  <2>2. (f \o w) \o << >> = f \o w
    BY <1>12, ConcatEmptySeq DEF Stream
  <2> QED
    BY <1>1, <1>5, <1>8, <1>9, <2>1, <2>2 DEF Sent
<1>14. /\ Contents(dst, bs, Sent') = Contents(dst, bs, Sent) \o x
       /\ AllCopyable(dst, bs, Sent') <=> AllCopyable(dst, bs, Sent)
  BY <1>12, <1>13
<1>15. Left = rest /\ Left' = y
  BY <1>1, <1>3, <1>4, BytesEmpty DEF Left
<1>16. NoCollision /\ AllCopyable(dst, bs, Sent') => Contents(dst, bs, Sent') \o Left' = Section
  <2> SUFFICES ASSUME NoCollision, AllCopyable(dst, bs, Sent')
               PROVE  Contents(dst, bs, Sent') \o Left' = Section
    OBVIOUS
  <2> DEFINE p == Contents(dst, bs, Sent)
  <2>1. p \in Seq(Bytes)
    BY <1>2, <1>6, <1>13, ContentsOf
  <2>2. p \o (x \o y) = Section
    BY <1>3, <1>4, <1>14, <1>15
  <2> HIDE DEF p
  <2>3. (p \o x) \o y = p \o (x \o y)
    BY <1>4, <2>1, BytesRegroup
  <2> QED
    BY <1>14, <1>15, <2>2, <2>3 DEF p
<1>17. RunningInv'
  BY <1>1, <1>2, <1>3, <1>5, <1>8, <1>9, <1>16 DEF RunningInv
<1>18. EndedInv'
  BY <1>1 DEF EndedInv
<1> QED
  BY <1>2, <1>10, <1>11, <1>17, <1>18 DEF RollInv, TypesInv

\* The message that ends the stream.
LEMMA EndStep ==
  ASSUME RollInv, pc # "done", pc' = "done", UNCHANGED fileVars,
         NEW e, IsDesc(e, Blocks), e.seq = dd.seq,
         out' = Append(out, [seq |-> MarkAsLast(e).seq, frames |-> Serialize(MarkAsLast(e))]),
         NoCollision /\ AllCopyable(dst, BlockSize, Frames(out) \o Serialize(e)) =>
           Contents(dst, BlockSize, Frames(out) \o Serialize(e)) = Section
  PROVE  RunningInv' /\ EndedInv'
<1> DEFINE n == Blocks
           t == Serialize(e)
<1>1. /\ FilesInv /\ BlockSize' = BlockSize /\ Blocks' = n /\ dst' = dst
      /\ Section' = Section /\ (NoCollision' <=> NoCollision) /\ n \in Nat
      /\ out \in Seq(Messages(n)) /\ Numbered(out) /\ dd.seq = Len(out)
      /\ IsDesc(e, n)
  BY SameFiles, SameSection, Sizes DEF RollInv, TypesInv, RunningInv, fileVars
<1> HIDE DEF n
<1>2. t \in Stream(n)
  BY <1>1, SerializeIs
<1>3. PICK u \in Stream(n) : Serialize(MarkAsLast(e)) = Append(t, EndFrame) \o u
  BY <1>1, LastIs
<1>4. MarkAsLast(e).seq = Len(out)
  BY <1>1, LastIs
<1>5. out' = Append(out, [seq |-> Len(out), frames |-> Append(t, EndFrame) \o u])
  BY <1>3, <1>4
<1>6. NoCollision' /\ AllCopyable(dst', BlockSize', Frames(out) \o t) =>
        Contents(dst', BlockSize', Frames(out) \o t) = Section'
  BY <1>1
<1> HIDE DEF t
<1>7. \E msgs \in Seq(Messages(n)), s, v \in Stream(n) :
        /\ out' = Append(msgs, [seq |-> Len(msgs), frames |-> Append(s, EndFrame) \o v])
        /\ Numbered(msgs)
        /\ NoCollision' /\ AllCopyable(dst', BlockSize', Frames(msgs) \o s) =>
             Contents(dst', BlockSize', Frames(msgs) \o s) = Section'
  BY <1>1, <1>2, <1>3, <1>5, <1>6, Zenon
<1>8. EndedInv'
  BY <1>1, <1>7 DEF EndedInv
<1>9. RunningInv'
  BY DEF RunningInv
<1> QED
  BY <1>8, <1>9

\* A rolling reader ends with what is left in the window and in the buffer.
LEMMA FinishStep == RollInv /\ Finish => RollInv'
<1> SUFFICES ASSUME RollInv, Finish PROVE RollInv'
  OBVIOUS
<1> DEFINE n == Blocks
           bs == BlockSize
           x == window \o buf
           e == WriteBytes(dd, x)
<1>1. /\ TypesInv /\ pc = "finish" /\ pc' = "done" /\ UNCHANGED <<fileVars, hMap, rest, dd>>
      /\ window' = << >> /\ buf' = << >>
      /\ out' = Append(out, [seq |-> MarkAsLast(e).seq, frames |-> Serialize(MarkAsLast(e))])
  BY DEF RollInv, Finish, Goto
<1>2. /\ FilesInv' /\ BlockSize' = bs /\ Blocks' = n /\ dst' = dst
      /\ FilesInv /\ bs \in Nat \ {0} /\ n \in Nat /\ dst \in Seq(Bytes)
  BY <1>1, SameFiles, Sizes DEF TypesInv, FilesInv, fileVars
<1>3. /\ IsDesc(dd, n) /\ out \in Seq(Messages(n)) /\ rest = << >>
      /\ window \in Seq(Bytes) /\ buf \in Seq(Bytes)
      /\ NoCollision /\ AllCopyable(dst, bs, Sent) => Contents(dst, bs, Sent) \o Left = Section
  BY <1>1 DEF RollInv, TypesInv, DescInv, BuffersInv, RunningInv
<1>4. x \in Seq(Bytes) /\ Left = x
  BY <1>3, BytesConcat, BytesEmpty DEF Left
<1>5. DescInv'
  BY <1>1, <1>2 DEF DescInv, TypesInv
<1>6. BuffersInv'
  BY <1>1, <1>2, <1>3, BytesEmpty DEF BuffersInv
<1> HIDE DEF n, bs, x
<1>7. /\ IsDesc(e, n) /\ e.seq = dd.seq
      /\ Contents(dst, bs, Serialize(e)) = Contents(dst, bs, Serialize(dd)) \o x
      /\ AllCopyable(dst, bs, Serialize(e)) <=> AllCopyable(dst, bs, Serialize(dd))
  BY <1>2, <1>3, <1>4, BytesNow DEF n, bs
<1> HIDE DEF e
<1> DEFINE f == Contents(dst, bs, Frames(out))
           p == Contents(dst, bs, Serialize(dd))
<1>8. /\ Contents(dst, bs, Frames(out) \o Serialize(e)) = f \o Contents(dst, bs, Serialize(e))
      /\ AllCopyable(dst, bs, Frames(out) \o Serialize(e)) <=>
           AllCopyable(dst, bs, Frames(out)) /\ AllCopyable(dst, bs, Serialize(e))
  BY <1>2, <1>3, <1>7, SentNow DEF n, bs
<1>9. /\ Contents(dst, bs, Sent) = f \o p
      /\ AllCopyable(dst, bs, Sent) <=>
           AllCopyable(dst, bs, Frames(out)) /\ AllCopyable(dst, bs, Serialize(dd))
      /\ Frames(out) \in Stream(n) /\ Serialize(dd) \in Stream(n)
  BY <1>2, <1>3, SentNow DEF Sent, n, bs
<1>10. f \in Seq(Bytes) /\ p \in Seq(Bytes)
  BY <1>2, <1>9, ContentsOf
<1>11. NoCollision /\ AllCopyable(dst, bs, Frames(out) \o Serialize(e)) =>
         Contents(dst, bs, Frames(out) \o Serialize(e)) = Section
  <2> SUFFICES ASSUME NoCollision, AllCopyable(dst, bs, Frames(out) \o Serialize(e))
               PROVE  Contents(dst, bs, Frames(out) \o Serialize(e)) = Section
    OBVIOUS
  <2>1. (f \o p) \o x = Section
    BY <1>3, <1>4, <1>7, <1>8, <1>9
  <2>2. Contents(dst, bs, Frames(out) \o Serialize(e)) = f \o (p \o x)
    BY <1>7, <1>8
  <2> HIDE DEF f, p
  <2>3. (f \o p) \o x = f \o (p \o x)
    BY <1>4, <1>10, BytesRegroup
  <2> QED
    BY <2>1, <2>2, <2>3
<1>12. RunningInv' /\ EndedInv'
  BY <1>1, <1>7, <1>11, EndStep DEF n, bs
<1> QED
  BY <1>2, <1>5, <1>6, <1>12 DEF RollInv, TypesInv

\* A bytes reader ends with a message of its own.
LEMMA ReadEndStep == RollInv /\ ReadEnd => RollInv'
<1> SUFFICES ASSUME RollInv, ReadEnd PROVE RollInv'
  OBVIOUS
<1>1. /\ TypesInv /\ pc = "bytes" /\ pc' = "done" /\ UNCHANGED <<fileVars, hMap, readVars, dd>>
      /\ rest = << >>
      /\ out' = Append(out, [seq |-> dd.seq, frames |-> Serialize(MarkAsLast(dd))])
  BY DEF RollInv, ReadEnd, Goto
<1>2. /\ FilesInv' /\ BlockSize' = BlockSize /\ Blocks' = Blocks /\ dst' = dst
      /\ FilesInv /\ BlockSize \in Nat \ {0} /\ Blocks \in Nat /\ dst \in Seq(Bytes)
  BY <1>1, SameFiles, Sizes DEF TypesInv, FilesInv, fileVars
<1>3. /\ IsDesc(dd, Blocks) /\ out \in Seq(Messages(Blocks))
      /\ window = << >> /\ buf = << >>
      /\ NoCollision /\ AllCopyable(dst, BlockSize, Sent) =>
           Contents(dst, BlockSize, Sent) \o Left = Section
  BY <1>1 DEF RollInv, TypesInv, DescInv, BuffersInv, RunningInv
<1>4. MarkAsLast(dd).seq = dd.seq
  BY <1>2, <1>3, LastIs
<1>5. DescInv'
  BY <1>1, <1>2 DEF DescInv, TypesInv
<1>6. BuffersInv'
  BY <1>1, <1>2 DEF TypesInv, BuffersInv, readVars
<1>7. Left = << >>
  BY <1>1, <1>3, BytesEmpty DEF Left
<1>8. Contents(dst, BlockSize, Sent) \in Seq(Bytes)
  BY <1>2, <1>3, SentIs, ContentsOf DEF Sent
<1>9. NoCollision /\ AllCopyable(dst, BlockSize, Sent) => Contents(dst, BlockSize, Sent) = Section
  BY <1>3, <1>7, <1>8, BytesEmpty
<1>10. RunningInv' /\ EndedInv'
  BY <1>1, <1>3, <1>4, <1>9, EndStep DEF Sent
<1> QED
  BY <1>2, <1>5, <1>6, <1>10 DEF RollInv, TypesInv

\* No step disturbs the invariant.
LEMMA RollNext == RollInv /\ [Next]_vars => RollInv'
<1> SUFFICES ASSUME RollInv, [Next]_vars PROVE RollInv'
  OBVIOUS
<1>1. CASE Fill
  BY <1>1, FillStep
<1>2. CASE FillFails
  BY <1>2, PlaceStep DEF FillFails, Goto
<1>3. CASE SendData
  BY <1>3, SendStep
<1>4. CASE Match
  BY <1>4, MatchStep
<1>5. CASE NoMatch
  BY <1>5, NoMatchStep
<1>6. CASE NoMatchAtEnd
  BY <1>6, PlaceStep DEF NoMatchAtEnd, Looking, Goto, readVars
<1>7. CASE Finish
  BY <1>7, FinishStep
<1>8. CASE ReadBlock
  BY <1>8, ReadStep
<1>9. CASE ReadEnd
  BY <1>9, ReadEndStep
<1>10. CASE Failure
  BY <1>10, PlaceStep DEF Failure, Goto
<1>11. CASE UNCHANGED vars
  <2>1. UNCHANGED <<fileVars, src, dst, section, pc, hMap, rest, window, buf, dd, out>>
    BY <1>11 DEF vars, fileVars, readVars
  <2>2. /\ FilesInv /\ BlockSize' = BlockSize /\ Blocks' = Blocks
        /\ Section' = Section /\ (NoCollision' <=> NoCollision)
    BY <2>1, SameFiles, SameSection DEF RollInv, TypesInv
  <2>3. TypesInv'
    BY <2>1, <2>2 DEF RollInv, TypesInv, FilesInv, BuffersInv, DescInv
  <2>4. Sent' = Sent /\ Left' = Left
    BY <2>1 DEF Sent, Left
  <2>5. RunningInv'
    BY <2>1, <2>2, <2>4 DEF RollInv, RunningInv
  <2>6. EndedInv'
    BY <2>1, <2>2 DEF RollInv, EndedInv
  <2> QED
    BY <2>3, <2>5, <2>6 DEF RollInv
<1> QED
  BY <1>1, <1>2, <1>3, <1>4, <1>5, <1>6, <1>7, <1>8, <1>9, <1>10, <1>11 DEF Next, Read

LEMMA RollInductive == Spec => []RollInv
BY RollInit, RollNext, PTL DEF Spec

-----------------------------------------------------------------------------
(* The properties.                                                         *)

\* The variables of the reader have their types and the buffers their bounds:
\* the window and the read-ahead of rollV3 a block at most, the descriptor a
\* byte more, and the map only indexes of blocks the old file has.
THEOREM RollTypes == Spec => []TypeOK
<1>1. RollInv => TypeOK
  BY DEF RollInv, TypesInv, BuffersInv, DescInv, IsDesc, Blocks, TypeOK
<1> QED
  BY <1>1, RollInductive, PTL

\* A frame of a stream is not an End frame.
LEMMA NoEnd ==
  ASSUME NEW n \in Nat, NEW s \in Stream(n)
  PROVE  \A k \in 1..Len(s) : s[k].flag # End
<1>1. \A k \in 1..Len(s) : s[k] \in DataFrames \cup IndexFrames(n)
  BY ElementOfSeq DEF Stream
<1> QED
  BY <1>1, Flags DEF DataFrames, IndexFrames

\* The message that ends a stream has one.
LEMMA HasEnd ==
  ASSUME NEW n \in Nat, NEW t \in Stream(n), NEW u \in Stream(n)
  PROVE  \E k \in DOMAIN (Append(t, EndFrame) \o u) : (Append(t, EndFrame) \o u)[k].flag = End
<1> DEFINE T == AnyFrames(n)
           a == Append(t, EndFrame)
<1>1. t \in Seq(T) /\ u \in Seq(T) /\ EndFrame \in T
  BY DEF Stream, AnyFrames
<1> HIDE DEF T
<1>2. a \in Seq(T) /\ Len(a) = Len(t) + 1 /\ a[Len(a)] = EndFrame /\ Len(t) \in Nat
  BY <1>1, AppendProperties, LenProperties
<1> HIDE DEF a
<1>3. Len(a) \in 1..Len(a \o u) /\ (a \o u)[Len(a)] = EndFrame /\ a \o u \in Seq(T)
  BY <1>1, <1>2, ConcatProperties
<1>4. DOMAIN (a \o u) = 1..Len(a \o u)
  BY <1>3, LenProperties
<1>5. EndFrame.flag = End
  BY DEF EndFrame, Frame
<1>6. \E k \in DOMAIN (a \o u) : (a \o u)[k].flag = End
  BY <1>3, <1>4, <1>5
<1> QED
  BY <1>6 DEF a

\* The messages of a stream are numbered without a gap, and the End frame is in
\* the last of them and in no other, which is what streamWriter's sequence
\* check and its count of the streams that have ended rely on.
THEOREM InOrder == Spec => []MessagesInOrder
<1>1. RollInv => MessagesInOrder
  <2> SUFFICES ASSUME RollInv PROVE MessagesInOrder
    OBVIOUS
  <2> DEFINE n == Blocks
             HasEndFrame(m) == \E k \in DOMAIN m.frames : m.frames[k].flag = End
  <2>1. n \in Nat
    BY Sizes DEF RollInv, TypesInv
  <2>2. ASSUME NEW msgs \in Seq(Messages(n)), NEW i \in DOMAIN msgs
        PROVE  ~HasEndFrame(msgs[i])
    <3> HIDE DEF n
    <3>1. msgs[i] \in Messages(n)
      BY <2>2
    <3>2. msgs[i].frames \in Stream(n)
      BY <3>1 DEF Messages
    <3>3. \A k \in 1..Len(msgs[i].frames) : msgs[i].frames[k].flag # End
      BY <2>1, <3>2, NoEnd
    <3>4. DOMAIN msgs[i].frames = 1..Len(msgs[i].frames)
      BY <3>2 DEF Stream
    <3> QED
      BY <3>3, <3>4
  <2>3. CASE pc # "done"
    <3>1. out \in Seq(Messages(n)) /\ Numbered(out)
      BY <2>3 DEF RollInv, RunningInv
    <3>2. DOMAIN out = 1..Len(out)
      BY <3>1
    <3> QED
      BY <2>2, <2>3, <3>1, <3>2 DEF MessagesInOrder, Numbered
  <2>4. CASE pc = "done"
    <3>1. PICK msgs \in Seq(Messages(n)), t \in Stream(n), u \in Stream(n) :
            /\ out = Append(msgs, [seq |-> Len(msgs), frames |-> Append(t, EndFrame) \o u])
            /\ Numbered(msgs)
      BY <2>4 DEF RollInv, EndedInv
    <3> DEFINE last == [seq |-> Len(msgs), frames |-> Append(t, EndFrame) \o u]
    <3>2. last.seq = Len(msgs) /\ HasEndFrame(last)
      <4> HIDE DEF n
      <4> QED
        BY <2>1, HasEnd
    <3> HIDE DEF last, n
    <3>3. Len(msgs) \in Nat /\ DOMAIN msgs = 1..Len(msgs)
      BY LenProperties
    <3>4. /\ Len(out) = Len(msgs) + 1 /\ DOMAIN out = 1..(Len(msgs) + 1)
          /\ out[Len(msgs) + 1] = last
          /\ \A i \in 1..Len(msgs) : out[i] = msgs[i]
      <4>1. out = Append(msgs, last)
        BY <3>1 DEF last
      <4> QED
        BY <4>1, <3>3
    <3>5. \A i \in DOMAIN out : i \in 1..Len(msgs) \/ i = Len(msgs) + 1
      BY <3>3, <3>4
    <3>6. \A i \in DOMAIN out : out[i].seq = i - 1
      BY <3>1, <3>2, <3>3, <3>4, <3>5 DEF Numbered
    <3>7. \A i \in DOMAIN out : HasEndFrame(out[i]) <=> i = Len(out)
      <4> SUFFICES ASSUME NEW i \in DOMAIN out
                   PROVE  HasEndFrame(out[i]) <=> i = Len(out)
        OBVIOUS
      <4>1. CASE i \in 1..Len(msgs)
        <5>1. out[i] = msgs[i] /\ i # Len(out) /\ i \in DOMAIN msgs
          BY <3>3, <3>4, <4>1
        <5>2. ~HasEndFrame(msgs[i])
          BY <2>2, <5>1
        <5> QED
          BY <5>1, <5>2
      <4>2. CASE i = Len(msgs) + 1
        BY <3>2, <3>4, <4>2
      <4> QED
        BY <3>5, <4>1, <4>2
    <3> QED
      BY <2>4, <3>6, <3>7 DEF MessagesInOrder
  <2> QED
    BY <2>3, <2>4
<1> QED
  BY <1>1, RollInductive, PTL

\* What the writer makes of a stream that has not ended, ...
LEMMA WriteOpen ==
  ASSUME NEW old, NEW bs, NEW n \in Nat, NEW s \in Stream(n)
  PROVE  /\ writeToFile(old, bs, s).ok <=> AllCopyable(old, bs, s)
         /\ writeToFile(old, bs, s).bytes = Contents(old, bs, s)
<1>1. Heard(s) = s
  BY HeardAll
<1> QED
  BY <1>1 DEF writeToFile, AllCopyable, Contents

\* ... and of one that has.
LEMMA WriteEnded ==
  ASSUME NEW old, NEW bs, NEW n \in Nat, NEW s \in Stream(n), NEW u \in Seq(AnyFrames(n)),
         NEW r, r = Append(s, EndFrame) \o u
  PROVE  /\ writeToFile(old, bs, r).ok <=> AllCopyable(old, bs, s)
         /\ writeToFile(old, bs, r).ended <=> AllCopyable(old, bs, s)
         /\ writeToFile(old, bs, r).bytes = Contents(old, bs, s)
<1>1. Heard(r) = s /\ r # s
  BY HeardEnd
<1> QED
  BY <1>1 DEF writeToFile, AllCopyable, Contents

\* The index frames of a file without a short block can be followed.
LEMMA AllFull ==
  ASSUME NEW old \in Seq(Bytes), NEW bs \in Nat \ {0}, (Len(old) % bs) = 0,
         NEW s \in Stream(BlockCount(Len(old), bs))
  PROVE  AllCopyable(old, bs, s)
<1> DEFINE n == BlockCount(Len(old), bs)
<1>1. s \in Seq(DataFrames \cup IndexFrames(n))
  BY DEF Stream
<1>2. ASSUME NEW i \in 0..(n - 1) PROVE Len(Block(old, bs, i)) = bs
  BY FullBlock
<1> HIDE DEF n
<1>3. ASSUME NEW i \in DOMAIN s PROVE Copyable(old, bs, s[i])
  <2>1. s[i] \in DataFrames \cup IndexFrames(n)
    BY <1>1
  <2>2. CASE s[i] \in DataFrames
    BY <2>2, Flags DEF DataFrames, Copyable
  <2>3. CASE s[i] \in IndexFrames(n)
    <3> DEFINE b == s[i].body
    <3>1. b \in Seq(0..(n - 1))
      BY <2>3 DEF IndexFrames
    <3> HIDE DEF b
    <3>2. \A k \in DOMAIN b : b[k] \in 0..(n - 1)
      BY <3>1, LenProperties, ElementOfSeq
    <3> QED
      BY <1>2, <3>2 DEF Copyable, b
  <2> QED
    BY <2>1, <2>2, <2>3
<1> QED
  BY <1>3 DEF AllCopyable

\* What has been sent, when the stream has ended.
LEMMA EndedFrames ==
  ASSUME NEW n \in Nat
  PROVE  \A msgs \in Seq(Messages(n)), t, u \in Stream(n) :
           Frames(Append(msgs, [seq |-> Len(msgs), frames |-> Append(t, EndFrame) \o u])) =
             Append(Frames(msgs) \o t, EndFrame) \o u
<1> SUFFICES ASSUME NEW msgs \in Seq(Messages(n)), NEW t \in Stream(n), NEW u \in Stream(n)
             PROVE  Frames(Append(msgs, [seq |-> Len(msgs), frames |-> Append(t, EndFrame) \o u])) =
                      Append(Frames(msgs) \o t, EndFrame) \o u
  OBVIOUS
<1> DEFINE o == Append(msgs, [seq |-> Len(msgs), frames |-> Append(t, EndFrame) \o u])
<1> DEFINE T == AnyFrames(n)
           m == [seq |-> Len(msgs), frames |-> Append(t, EndFrame) \o u]
           f == Frames(msgs)
<1>1. t \in Seq(T) /\ u \in Seq(T) /\ EndFrame \in T
  BY DEF Stream, AnyFrames
<1>2. msgs \in Seq([seq : Nat, frames : Seq(T)])
  <2>1. Messages(n) \subseteq [seq : Nat, frames : Seq(T)]
    BY DEF Stream, AnyFrames, Messages
  <2> DEFINE M == Messages(n)
             N == [seq : Nat, frames : Seq(T)]
  <2>2. M \subseteq N /\ msgs \in Seq(M)
    BY <2>1
  <2> HIDE DEF M, N
  <2>3. msgs \in Seq(N)
    BY <2>2, SeqMonotonic
  <2> QED
    BY <2>3 DEF N
<1>3. Len(msgs) \in Nat
  BY LenProperties
<1> HIDE DEF T
<1>4. Append(t, EndFrame) \in Seq(T) /\ << EndFrame >> \in Seq(T)
  BY <1>1
<1>5. Append(t, EndFrame) \o u \in Seq(T)
  BY <1>1, <1>4, ConcatProperties
<1>6. m \in [seq : Nat, frames : Seq(T)]
  BY <1>3, <1>5
<1>7. m.frames = Append(t, EndFrame) \o u /\ o = Append(msgs, m)
  OBVIOUS
<1> HIDE DEF m, o
<1>8. f \in Seq(T) /\ Frames(o) = f \o m.frames
  BY <1>2, <1>6, <1>7, FramesAppend
<1> HIDE DEF f
<1>9. /\ Append(t, EndFrame) = t \o << EndFrame >>
      /\ Append(f \o t, EndFrame) = (f \o t) \o << EndFrame >>
      /\ f \o t \in Seq(T)
  BY <1>1, <1>8, AppendIsConcat, ConcatProperties
<1>10. f \o ((t \o << EndFrame >>) \o u) = ((f \o t) \o << EndFrame >>) \o u
  <2>1. ASSUME NEW p \in Seq(T), NEW q \in Seq(T), NEW r \in Seq(T)
        PROVE  (p \o q) \o r = p \o (q \o r)
    BY ConcatAssociative, SMTT(20)
  <2> DEFINE e == << EndFrame >>
             x == t \o e
  <2>2. e \in Seq(T) /\ x \in Seq(T)
    BY <1>1, <1>4, ConcatProperties
  <2> HIDE DEF e
  <2>3. (f \o t) \o e = f \o x
    BY <1>1, <1>8, <2>1, <2>2, Zenon
  <2> HIDE DEF x
  <2>4. (f \o x) \o u = f \o (x \o u)
    BY <1>1, <1>8, <2>1, <2>2, Zenon
  <2> QED
    BY <2>3, <2>4, Zenon DEF e, x
<1> QED
  BY <1>7, <1>8, <1>9, <1>10 DEF f, o

\* Frames behind the end.
LEMMA EndedMore ==
  ASSUME NEW n \in Nat, NEW s \in Stream(n), NEW u \in Stream(n), NEW v \in Stream(n)
  PROVE  /\ (Append(s, EndFrame) \o u) \o v = Append(s, EndFrame) \o (u \o v)
         /\ u \o v \in Seq(AnyFrames(n)) /\ u \in Seq(AnyFrames(n))
<1> DEFINE T == AnyFrames(n)
           a == Append(s, EndFrame)
<1>1. s \in Seq(T) /\ u \in Seq(T) /\ v \in Seq(T) /\ EndFrame \in T
  BY DEF Stream, AnyFrames
<1> HIDE DEF T
<1>2. a \in Seq(T) /\ u \o v \in Seq(T)
  BY <1>1, ConcatProperties
<1> HIDE DEF a
<1>3. (a \o u) \o v = a \o (u \o v)
  BY <1>1, <1>2, ConcatAssociative, SMTT(20)
<1> QED
  BY <1>1, <1>2, <1>3 DEF a, T

\* The frames of the reader when its stream has ended: those before the end are
\* what the writer reads, and they are the section.
LEMMA AtEnd ==
  ASSUME RollInv, pc = "done"
  PROVE  \E s \in Stream(Blocks), u, v \in Seq(AnyFrames(Blocks)) :
           /\ Frames(out) = Append(s, EndFrame) \o u
           /\ Frames(out) \o Serialize(dd) = Append(s, EndFrame) \o v
           /\ NoCollision /\ AllCopyable(dst, BlockSize, s) =>
                Contents(dst, BlockSize, s) = Section
<1> DEFINE n == Blocks
<1>1. n \in Nat /\ dst \in Seq(Bytes) /\ BlockSize \in Nat /\ IsDesc(dd, n)
  BY Sizes DEF RollInv, TypesInv, FilesInv, DescInv
<1>2. PICK msgs \in Seq(Messages(n)), t \in Stream(n), u \in Stream(n) :
        /\ out = Append(msgs, [seq |-> Len(msgs), frames |-> Append(t, EndFrame) \o u])
        /\ NoCollision /\ AllCopyable(dst, BlockSize, Frames(msgs) \o t) =>
             Contents(dst, BlockSize, Frames(msgs) \o t) = Section
  BY DEF RollInv, EndedInv
<1> DEFINE s == Frames(msgs) \o t
           v == u \o Serialize(dd)
<1> HIDE DEF n
<1>3. Frames(out) = Append(s, EndFrame) \o u
  <2>1. \A a \in Seq(Messages(n)), b, c \in Stream(n) :
          Frames(Append(a, [seq |-> Len(a), frames |-> Append(b, EndFrame) \o c])) =
            Append(Frames(a) \o b, EndFrame) \o c
    BY <1>1, EndedFrames, Zenon
  <2> QED
    BY <1>2, <2>1, Zenon DEF s
<1>4. Serialize(dd) \in Stream(n) /\ Frames(msgs) \in Stream(n)
  BY <1>1, SentIs
<1>5. s \in Stream(n)
  <2> DEFINE f == Frames(msgs)
  <2>1. f \in Stream(n)
    BY <1>4
  <2> HIDE DEF f
  <2>2. f \o t \in Stream(n)
    BY <1>1, <2>1, ContentsConcat
  <2> QED
    BY <2>2 DEF f
<1> DEFINE w == Serialize(dd)
<1> HIDE DEF s, w
<1>6. /\ (Append(s, EndFrame) \o u) \o w = Append(s, EndFrame) \o (u \o w)
      /\ u \o w \in Seq(AnyFrames(n)) /\ u \in Seq(AnyFrames(n))
  BY <1>1, <1>4, <1>5, EndedMore DEF w
<1>7. Frames(out) \o Serialize(dd) = Append(s, EndFrame) \o v
  BY <1>3, <1>6 DEF w
<1>8. v \in Seq(AnyFrames(n))
  BY <1>6 DEF w
<1>9. NoCollision /\ AllCopyable(dst, BlockSize, s) => Contents(dst, BlockSize, s) = Section
  BY <1>2 DEF s
<1> HIDE DEF v
<1>10. \E x \in Stream(n), y, z \in Seq(AnyFrames(n)) :
          /\ Frames(out) = Append(x, EndFrame) \o y
          /\ Frames(out) \o Serialize(dd) = Append(x, EndFrame) \o z
          /\ NoCollision /\ AllCopyable(dst, BlockSize, x) =>
               Contents(dst, BlockSize, x) = Section
  BY <1>3, <1>5, <1>6, <1>7, <1>8, <1>9, Zenon
<1> QED
  BY <1>10 DEF n

\* The writer can follow every index it is sent, when the old file has no short
\* block at its end: writeBlock never reads less than a block.
THEOREM CanRebuild == Spec => []Rebuildable
<1>1. RollInv => Rebuildable
  <2> SUFFICES ASSUME RollInv, (Len(dst) % BlockSize) = 0 PROVE Pending.ok
    BY DEF Rebuildable
  <2> DEFINE bs == BlockSize
             n == Blocks
  <2>1. /\ n \in Nat /\ n = BlockCount(Len(dst), bs) /\ dst \in Seq(Bytes)
        /\ bs \in Nat \ {0} /\ IsDesc(dd, n)
    BY Sizes DEF RollInv, TypesInv, FilesInv, DescInv, Blocks
  <2>2. Pending = writeToFile(dst, bs, Frames(out) \o Serialize(dd))
    BY DEF Pending
  <2>3. (Len(dst) % bs) = 0
    OBVIOUS
  <2>4. CASE pc # "done"
    <3>1. out \in Seq(Messages(n))
      BY <2>4 DEF RollInv, RunningInv
    <3> DEFINE s == Frames(out) \o Serialize(dd)
    <3> HIDE DEF n, bs
    <3>2. s \in Stream(n)
      BY <2>1, <3>1, SentIs
    <3> HIDE DEF s
    <3>3. AllCopyable(dst, bs, s)
      BY <2>1, <2>3, <3>2, AllFull
    <3>4. writeToFile(dst, bs, s).ok <=> AllCopyable(dst, bs, s)
      BY <2>1, <3>2, WriteOpen
    <3> QED
      BY <2>2, <3>3, <3>4 DEF s
  <2>5. CASE pc = "done"
    <3> DEFINE r == Frames(out) \o Serialize(dd)
    <3>1. PICK s \in Stream(n), v \in Seq(AnyFrames(n)) : r = Append(s, EndFrame) \o v
      BY <2>5, AtEnd
    <3> HIDE DEF n, bs, r
    <3>2. AllCopyable(dst, bs, s)
      BY <2>1, <2>3, AllFull
    <3>3. writeToFile(dst, bs, r).ok <=> AllCopyable(dst, bs, s)
      BY <2>1, <3>1, WriteEnded
    <3> QED
      BY <2>2, <3>2, <3>3 DEF r
  <2> QED
    BY <2>4, <2>5
<1> QED
  BY <1>1, RollInductive, PTL

\* Nothing of the section is lost, doubled or moved, as long as no part of the
\* source file has the weak sum of a block of the old file that it is not: the
\* reader compares nothing else (readers.go:175), and with a collision the file
\* is rebuilt with that block in the place of the part.
THEOREM SectionConserved == Spec => [](NoCollision => Conserved)
<1>1. RollInv => (NoCollision => Conserved)
  <2> SUFFICES ASSUME RollInv, NoCollision PROVE Conserved
    OBVIOUS
  <2> DEFINE bs == BlockSize
             n == Blocks
  <2>1. /\ n \in Nat /\ dst \in Seq(Bytes) /\ bs \in Nat \ {0} /\ IsDesc(dd, n)
        /\ window \in Seq(Bytes) /\ buf \in Seq(Bytes) /\ rest \in Seq(Bytes)
    BY Sizes DEF RollInv, TypesInv, FilesInv, DescInv, BuffersInv
  <2>2. CASE pc # "done"
    <3> DEFINE s == Frames(out) \o Serialize(dd)
               p == Contents(dst, bs, s)
    <3>1. /\ out \in Seq(Messages(n))
          /\ AllCopyable(dst, bs, s) => p \o (window \o (buf \o rest)) = Section
      BY <2>2 DEF RollInv, RunningInv, Sent, Left
    <3>2. Pending = writeToFile(dst, bs, s)
      BY DEF Pending
    <3> HIDE DEF n, bs
    <3>3. s \in Stream(n)
      BY <2>1, <3>1, SentIs
    <3> HIDE DEF s
    <3>4. p \in Seq(Bytes)
      BY <2>1, <3>3, ContentsOf
    <3>5. /\ Pending.ok <=> AllCopyable(dst, bs, s)
          /\ Pending.bytes = p
      BY <2>1, <3>2, <3>3, WriteOpen
    <3> HIDE DEF p
    <3>6. ((p \o window) \o buf) \o rest = p \o (window \o (buf \o rest))
      <4> DEFINE y == p \o window
      <4>1. y \in Seq(Bytes)
        BY <2>1, <3>4, BytesConcat
      <4> HIDE DEF y
      <4>2. (y \o buf) \o rest = y \o (buf \o rest)
        BY <2>1, <4>1, BytesRegroup
      <4> DEFINE x == buf \o rest
      <4>3. x \in Seq(Bytes)
        BY <2>1, BytesConcat
      <4> HIDE DEF x
      <4>4. (p \o window) \o x = p \o (window \o x)
        BY <2>1, <3>4, <4>3, BytesRegroup, SMTT(20)
      <4> QED
        BY <4>2, <4>4 DEF x, y
    <3> QED
      BY <2>2, <3>1, <3>5, <3>6 DEF Conserved
  <2>3. CASE pc = "done"
    <3> DEFINE r == Frames(out)
    <3>1. PICK s \in Stream(n), u \in Seq(AnyFrames(n)) :
            /\ r = Append(s, EndFrame) \o u
            /\ AllCopyable(dst, bs, s) => Contents(dst, bs, s) = Section
      BY <2>3, AtEnd
    <3>2. Rebuilt = writeToFile(dst, bs, r)
      BY DEF Rebuilt
    <3> HIDE DEF n, bs, r
    <3>3. /\ Rebuilt.ok <=> AllCopyable(dst, bs, s)
          /\ Rebuilt.ended <=> AllCopyable(dst, bs, s)
          /\ Rebuilt.bytes = Contents(dst, bs, s)
      BY <2>1, <3>1, <3>2, WriteEnded
    <3> QED
      BY <2>3, <3>1, <3>3 DEF Conserved
  <2> QED
    BY <2>2, <2>3
<1> QED
  BY <1>1, RollInductive, PTL

\* The whole of a file, and what is left behind its first bytes.
LEMMA WholeIs ==
  \A s \in Seq(Bytes) :
    /\ Take(Drop(s, 0), Len(s)) = s
    /\ \A m \in Nat : Len(Drop(s, m)) <= m + m => Take(Drop(s, m), m + m) = Drop(s, m)
<1> SUFFICES ASSUME NEW s \in Seq(Bytes)
             PROVE  /\ Take(Drop(s, 0), Len(s)) = s
                    /\ \A m \in Nat :
                         Len(Drop(s, m)) <= m + m => Take(Drop(s, m), m + m) = Drop(s, m)
  OBVIOUS
<1>1. ASSUME NEW t \in Seq(Bytes), NEW k \in Nat, Len(t) <= k
      PROVE  Take(t, k) = t
  <2>1. /\ Take(t, k) \in Seq(Bytes) /\ Len(t) \in Nat
        /\ Len(Take(t, k)) = IF k < Len(t) THEN k ELSE Len(t)
        /\ \A i \in 1..Len(Take(t, k)) : Take(t, k)[i] = t[i]
    BY <1>1, TakeType, BytesEmpty
  <2> DEFINE x == Take(t, k)
  <2>2. Len(x) = Len(t)
    BY <1>1, <2>1
  <2> HIDE DEF x
  <2>3. x \in Seq(Bytes) /\ \A i \in 1..Len(x) : x[i] = t[i]
    BY <2>1 DEF x
  <2>4. x = t
    BY <2>2, <2>3, SeqEqual
  <2> QED
    BY <2>4 DEF x
<1>2. Drop(s, 0) = s
  <2> DEFINE x == Drop(s, 0)
  <2>1. /\ x \in Seq(Bytes) /\ Len(s) \in Nat
        /\ Len(x) = IF 0 < Len(s) THEN Len(s) - 0 ELSE 0
        /\ \A i \in 1..Len(x) : x[i] = s[0 + i]
    BY DropType, BytesEmpty
  <2> HIDE DEF x
  <2>2. Len(x) = Len(s) /\ \A i \in 1..Len(x) : x[i] = s[i]
    BY <2>1
  <2>3. x = s
    BY <2>1, <2>2, SeqEqual
  <2> QED
    BY <2>3 DEF x
<1>3. Len(s) \in Nat
  BY BytesEmpty
<1>4. ASSUME NEW m \in Nat, Len(Drop(s, m)) <= m + m
      PROVE  Take(Drop(s, m), m + m) = Drop(s, m)
  <2> DEFINE t == Drop(s, m)
             k == m + m
  <2>1. t \in Seq(Bytes) /\ k \in Nat /\ Len(t) <= k
    BY <1>4, Parts
  <2> HIDE DEF t, k
  <2>2. Take(t, k) = t
    BY <1>1, <2>1
  <2> QED
    BY <2>2 DEF t, k
<1> QED
  BY <1>1, <1>2, <1>3, <1>4

\* Two sections joined.
LEMMA JoinTwo ==
  ASSUME NEW a \in Seq(Bytes), NEW b \in Seq(Bytes)
  PROVE  FlattenSeq([c \in 1..2 |-> IF c = 1 THEN a ELSE b]) = a \o b
<1> DEFINE s == << a >>
           t == [c \in 1..2 |-> IF c = 1 THEN a ELSE b]
<1>1. s \in Seq(Seq(Bytes)) /\ Len(s) = 1 /\ s[1] = a
  OBVIOUS
<1>2. t \in Seq(Seq(Bytes)) /\ Len(t) = 2 /\ t[1] = a /\ t[2] = b
  OBVIOUS
<1>3. FlattenSeq(s) = a
  BY FlattenOne
<1> HIDE DEF s, t
<1>4. FlattenSeq(t) = FlattenSeq(s) \o t[Len(t)]
  <2>1. Len(t) = Len(s) + 1 /\ \A i \in 1..Len(s) : s[i] = t[i]
    BY <1>1, <1>2
  <2> QED
    BY <1>1, <1>2, <2>1, FlattenNext
<1> QED
  BY <1>2, <1>3, <1>4 DEF t

\* The sections of a file that one reader or two are given make up the file.
\* (With three readers or more the inner ones overlap: sender.go:155 passes the
\* place where a section ends as its length.)
THEOREM SectionsJoin == Spec => [](CcIo <= 2 => SectionsCover)
<1>1. RollInv => (CcIo <= 2 => SectionsCover)
  <2> SUFFICES ASSUME RollInv, CcIo <= 2 PROVE SectionsCover
    OBVIOUS
  <2> DEFINE n == Len(src)
             chunk == n \div CcIo
             parts == [c \in DOMAIN Sections(n) |->
                         NewSectionReader(src, Sections(n)[c].offset, Sections(n)[c].limit)]
  <2>1. src \in Seq(Bytes) /\ n \in Nat
    BY BytesEmpty DEF RollInv, TypesInv, FilesInv
  <2>2. CASE n > SplitSize /\ CcIo > 1
    <3>1. CcIo = 2 /\ n >= 2
      BY <2>1, <2>2, ReaderAssumption
    <3>2. /\ chunk \in Nat /\ 2 * chunk <= n /\ n <= 2 * chunk + 1 /\ chunk >= 1
      BY <2>1, <3>1
    <3> DEFINE S == [c \in 1..2 |->
                       [offset |-> (c - 1) * chunk,
                        limit |-> IF chunk * c > n THEN n ELSE chunk * c]]
    <3>3. Sections(n) = S
      BY <2>2, <3>1 DEF Sections
    <3> HIDE DEF n, chunk
    <3>4. /\ S[1].offset = 0 /\ S[1].limit = chunk
          /\ S[2].offset = chunk /\ S[2].limit = chunk + chunk
      BY <2>1, <3>2
    <3> DEFINE a == Take(Drop(src, 0), chunk)
               b == Take(Drop(src, chunk), chunk + chunk)
    <3>5. parts = [c \in 1..2 |-> IF c = 1 THEN a ELSE b]
      <4>1. DOMAIN Sections(n) = 1..2
        BY <3>3
      <4>2. \A c \in 1..2 : c = 1 \/ c = 2
        OBVIOUS
      <4> HIDE DEF S
      <4>3. ASSUME NEW c \in 1..2
            PROVE  NewSectionReader(src, Sections(n)[c].offset, Sections(n)[c].limit)
                     = IF c = 1 THEN a ELSE b
        BY <3>3, <3>4, <4>2 DEF NewSectionReader
      <4> QED
        BY <4>1, <4>3
    <3>6. b = Drop(src, chunk) /\ a = Take(src, chunk) /\ a \in Seq(Bytes) /\ b \in Seq(Bytes)
      <4>1. Len(Drop(src, chunk)) <= chunk + chunk
        <5>1. Len(Drop(src, chunk)) = IF chunk < n THEN n - chunk ELSE 0
          BY <2>1, <3>2, Parts DEF n
        <5> QED
          BY <5>1, <2>1, <3>2
      <4>2. b = Drop(src, chunk)
        BY <2>1, <3>2, <4>1, WholeIs
      <4>3. Drop(src, 0) = src
        <5>1. Take(src, 0) \o Drop(src, 0) = src /\ Take(src, 0) = << >> /\ Drop(src, 0) \in Seq(Bytes)
          <6>1. /\ Take(src, 0) \o Drop(src, 0) = src /\ Take(src, 0) \in Seq(Bytes)
                /\ Len(Take(src, 0)) = IF 0 < Len(src) THEN 0 ELSE Len(src)
                /\ Drop(src, 0) \in Seq(Bytes)
            BY <2>1, Parts
          <6>2. Len(Take(src, 0)) = 0
            BY <2>1, <6>1 DEF n
          <6> QED
            BY <6>1, <6>2, BytesEmpty
        <5> QED
          BY <5>1, BytesEmpty
      <4> QED
        BY <2>1, <3>2, <4>2, <4>3, Parts
    <3>7. a \o b = src
      BY <2>1, <3>2, <3>6, Parts
    <3> HIDE DEF a, b, parts
    <3>8. FlattenSeq(parts) = a \o b
      BY <3>5, <3>6, JoinTwo
    <3> QED
      BY <3>7, <3>8 DEF SectionsCover, parts, n
  <2>3. CASE ~(n > SplitSize /\ CcIo > 1)
    <3>1. Sections(n) = << [offset |-> 0, limit |-> n] >>
      BY <2>3 DEF Sections
    <3> DEFINE a == Take(Drop(src, 0), n)
    <3>2. a = src
      BY <2>1, WholeIs
    <3>3. parts = << a >>
      BY <3>1 DEF NewSectionReader
    <3> HIDE DEF a, parts
    <3>4. FlattenSeq(<< a >>) = a
      BY <2>1, <3>2, FlattenOne
    <3> QED
      BY <3>2, <3>3, <3>4 DEF SectionsCover, parts
  <2> QED
    BY <2>2, <2>3
<1> QED
  BY <1>1, RollInductive, PTL

-----------------------------------------------------------------------------
(* The delta is one: what is sent byte by byte, item by item.              *)

\* A byte or an index, with its flag.
Item == {Data, Index} \X Nat

\* The items of frames, and those of bytes.
Things(frames) == FlattenSeq([i \in DOMAIN frames |-> Expand(frames[i])])
Literal(x) == Expand(Frame(Data, x))

\* What a body stands for, one by one.
LEMMA ExpandIs ==
  ASSUME NEW flag \in {Data, Index}
  PROVE  \A b \in Seq(Nat) :
           /\ Expand(Frame(flag, b)) \in Seq(Item)
           /\ Len(Expand(Frame(flag, b))) = Len(b)
           /\ \A k \in 1..Len(b) : Expand(Frame(flag, b))[k] = <<flag, b[k]>>
<1> SUFFICES ASSUME NEW b \in Seq(Nat)
             PROVE  /\ Expand(Frame(flag, b)) \in Seq(Item)
                    /\ Len(Expand(Frame(flag, b))) = Len(b)
                    /\ \A k \in 1..Len(b) : Expand(Frame(flag, b))[k] = <<flag, b[k]>>
  OBVIOUS
<1>1. DOMAIN b = 1..Len(b) /\ Len(b) \in Nat /\ \A k \in 1..Len(b) : b[k] \in Nat
  BY LenProperties, ElementOfSeq
<1>2. Expand(Frame(flag, b)) = [k \in 1..Len(b) |-> <<flag, b[k]>>]
  BY <1>1 DEF Expand, Frame
<1>3. \A k \in 1..Len(b) : <<flag, b[k]>> \in Item
  BY <1>1 DEF Item
<1> QED
  BY <1>1, <1>2, <1>3

\* A body that is continued.
LEMMA ExpandConcat ==
  ASSUME NEW flag \in {Data, Index}, NEW b \in Seq(Nat), NEW x \in Seq(Nat)
  PROVE  Expand(Frame(flag, b \o x)) = Expand(Frame(flag, b)) \o Expand(Frame(flag, x))
<1> DEFINE c == b \o x
           eb == Expand(Frame(flag, b))
           ex == Expand(Frame(flag, x))
           ec == Expand(Frame(flag, c))
<1>1. /\ c \in Seq(Nat) /\ Len(c) = Len(b) + Len(x)
      /\ \A k \in 1..(Len(b) + Len(x)) : c[k] = IF k <= Len(b) THEN b[k] ELSE x[k - Len(b)]
      /\ Len(b) \in Nat /\ Len(x) \in Nat
  BY ConcatProperties, LenProperties
<1> HIDE DEF c
<1>2. /\ eb \in Seq(Item) /\ Len(eb) = Len(b) /\ \A k \in 1..Len(b) : eb[k] = <<flag, b[k]>>
      /\ ex \in Seq(Item) /\ Len(ex) = Len(x) /\ \A k \in 1..Len(x) : ex[k] = <<flag, x[k]>>
      /\ ec \in Seq(Item) /\ Len(ec) = Len(c) /\ \A k \in 1..Len(c) : ec[k] = <<flag, c[k]>>
  BY <1>1, ExpandIs
<1> HIDE DEF eb, ex, ec
<1>3. /\ eb \o ex \in Seq(Item) /\ Len(eb \o ex) = Len(b) + Len(x)
      /\ \A k \in 1..(Len(b) + Len(x)) :
           (eb \o ex)[k] = IF k <= Len(b) THEN eb[k] ELSE ex[k - Len(b)]
  <2>1. /\ eb \o ex \in Seq(Item) /\ Len(eb \o ex) = Len(eb) + Len(ex)
        /\ \A k \in 1..(Len(eb) + Len(ex)) :
             (eb \o ex)[k] = IF k <= Len(eb) THEN eb[k] ELSE ex[k - Len(eb)]
    <3>1. eb \in Seq(Item) /\ ex \in Seq(Item)
      BY <1>2
    <3> QED
      BY <3>1, ConcatProperties
  <2> QED
    BY <2>1, <1>2
<1>4. \A k \in 1..Len(ec) : ec[k] = (eb \o ex)[k]
  <2> SUFFICES ASSUME NEW k \in 1..(Len(b) + Len(x)) PROVE ec[k] = (eb \o ex)[k]
    BY <1>1, <1>2
  <2>0. ec[k] = <<flag, c[k]>>
    BY <1>1, <1>2
  <2>1. CASE k <= Len(b)
    <3>1. k \in 1..Len(b)
      BY <2>1, <1>1
    <3>2. eb[k] = <<flag, b[k]>> /\ c[k] = b[k] /\ (eb \o ex)[k] = eb[k]
      BY <3>1, <2>1, <1>1, <1>2, <1>3
    <3> QED
      BY <3>2, <2>0
  <2>2. CASE ~(k <= Len(b))
    <3>1. k - Len(b) \in 1..Len(x)
      BY <2>2, <1>1
    <3>2. /\ ex[k - Len(b)] = <<flag, x[k - Len(b)]>> /\ c[k] = x[k - Len(b)]
          /\ (eb \o ex)[k] = ex[k - Len(b)]
      BY <3>1, <2>2, <1>1, <1>2, <1>3
    <3> QED
      BY <3>2, <2>0
  <2> QED
    BY <2>1, <2>2
<1>5. ec = eb \o ex
  BY <1>1, <1>2, <1>3, <1>4, SeqEqual
<1> QED
  BY <1>5 DEF c, eb, ex, ec

\* The frames of a stream have items.
LEMMA FrameItems ==
  ASSUME NEW n \in Nat, NEW f \in DataFrames \cup IndexFrames(n)
  PROVE  Expand(f) \in Seq(Item)
<1>1. f.flag \in {Data, Index} /\ f.body \in Seq(Nat) /\ f = Frame(f.flag, f.body)
  <2>1. CASE f \in DataFrames
    <3>1. Bytes \subseteq Nat
      BY ReaderAssumption
    <3>2. f.body \in Seq(Bytes) /\ f.flag = Data /\ f = Frame(f.flag, f.body)
      BY <2>1 DEF DataFrames, Frame
    <3> QED
      BY <3>1, <3>2, SeqMonotonic
  <2>2. CASE f \in IndexFrames(n)
    <3>1. 0..(n - 1) \subseteq Nat
      OBVIOUS
    <3>2. f.body \in Seq(0..(n - 1)) /\ f.flag = Index /\ f = Frame(f.flag, f.body)
      BY <2>2 DEF IndexFrames, Frame
    <3> QED
      BY <3>1, <3>2, SeqMonotonic
  <2> QED
    BY <2>1, <2>2
<1> QED
  BY <1>1, ExpandIs

\* One frame more.
LEMMA ThingsAppend ==
  ASSUME NEW n \in Nat, NEW s \in Stream(n), NEW f \in DataFrames \cup IndexFrames(n)
  PROVE  /\ Things(s) \in Seq(Item) /\ Append(s, f) \in Stream(n)
         /\ Things(Append(s, f)) = Things(s) \o Expand(f)
<1> DEFINE a == Append(s, f)
           es == [i \in DOMAIN s |-> Expand(s[i])]
           ea == [i \in DOMAIN a |-> Expand(a[i])]
<1>1. /\ a \in Stream(n) /\ Len(a) = Len(s) + 1
      /\ \A i \in 1..Len(s) : a[i] = s[i]
      /\ a[Len(s) + 1] = f
  BY AppendProperties DEF Stream
<1>2. /\ Len(s) \in Nat /\ DOMAIN s = 1..Len(s) /\ DOMAIN a = 1..(Len(s) + 1)
      /\ \A i \in 1..Len(s) : s[i] \in DataFrames \cup IndexFrames(n)
  BY <1>1, LenProperties, ElementOfSeq DEF Stream
<1> HIDE DEF a
<1>3. /\ Expand(f) \in Seq(Item)
      /\ \A i \in 1..Len(s) : Expand(s[i]) \in Seq(Item)
  BY <1>2, FrameItems
<1>4. es \in Seq(Seq(Item)) /\ Len(es) = Len(s) /\ \A i \in 1..Len(s) : es[i] = Expand(s[i])
  BY <1>2, <1>3
<1>5. \A i \in 1..(Len(s) + 1) : i \in 1..Len(s) \/ i = Len(s) + 1
  BY <1>2
<1>6. \A i \in 1..(Len(s) + 1) : Expand(a[i]) \in Seq(Item)
  BY <1>1, <1>3, <1>5
<1>7. /\ ea \in Seq(Seq(Item)) /\ Len(ea) = Len(s) + 1
      /\ \A i \in 1..(Len(s) + 1) : ea[i] = Expand(a[i])
  BY <1>2, <1>6
<1> HIDE DEF es, ea
<1>8. /\ Len(ea) = Len(es) + 1 /\ ea[Len(ea)] = Expand(f)
      /\ \A i \in 1..Len(es) : es[i] = ea[i]
  <2>1. \A i \in 1..Len(s) : i \in 1..(Len(s) + 1)
    BY <1>2
  <2>2. Len(s) + 1 \in 1..(Len(s) + 1)
    BY <1>2
  <2> QED
    BY <2>1, <2>2, <1>1, <1>4, <1>7
<1>9. FlattenSeq(ea) = FlattenSeq(es) \o Expand(f) /\ FlattenSeq(es) \in Seq(Item)
  <2>1. es \in Seq(Seq(Item)) /\ ea \in Seq(Seq(Item))
    BY <1>4, <1>7
  <2>2. FlattenSeq(ea) = FlattenSeq(es) \o ea[Len(ea)]
    BY <2>1, <1>8, FlattenNext
  <2>3. FlattenSeq(es) \in Seq(Item)
    BY <2>1, FlattenType
  <2> QED
    BY <2>2, <2>3, <1>8
<1> QED
  BY <1>1, <1>9 DEF Things, a, es, ea

\* What frames that follow one another stand for.
LEMMA ThingsConcat ==
  ASSUME NEW n \in Nat, NEW s \in Stream(n), NEW t \in Stream(n)
  PROVE  /\ s \o t \in Stream(n)
         /\ Things(s) \in Seq(Item) /\ Things(t) \in Seq(Item)
         /\ Things(s \o t) = Things(s) \o Things(t)
<1> DEFINE u == s \o t
           es == [i \in DOMAIN s |-> Expand(s[i])]
           et == [i \in DOMAIN t |-> Expand(t[i])]
           eu == [i \in DOMAIN u |-> Expand(u[i])]
<1>1. /\ u \in Stream(n) /\ Len(u) = Len(s) + Len(t)
      /\ \A i \in 1..(Len(s) + Len(t)) : u[i] = IF i <= Len(s) THEN s[i] ELSE t[i - Len(s)]
  BY ConcatProperties DEF Stream
<1>2. /\ Len(s) \in Nat /\ DOMAIN s = 1..Len(s)
      /\ \A i \in 1..Len(s) : s[i] \in DataFrames \cup IndexFrames(n)
      /\ Len(t) \in Nat /\ DOMAIN t = 1..Len(t)
      /\ \A i \in 1..Len(t) : t[i] \in DataFrames \cup IndexFrames(n)
      /\ DOMAIN u = 1..(Len(s) + Len(t))
      /\ \A i \in 1..(Len(s) + Len(t)) : u[i] \in DataFrames \cup IndexFrames(n)
  BY <1>1, LenProperties, ElementOfSeq DEF Stream
<1> HIDE DEF u
<1>3. /\ \A i \in 1..Len(s) : Expand(s[i]) \in Seq(Item)
      /\ \A i \in 1..Len(t) : Expand(t[i]) \in Seq(Item)
      /\ \A i \in 1..(Len(s) + Len(t)) : Expand(u[i]) \in Seq(Item)
  BY <1>2, FrameItems
<1>4. es \in Seq(Seq(Item)) /\ Len(es) = Len(s) /\ \A i \in 1..Len(s) : es[i] = Expand(s[i])
  BY <1>2, <1>3
<1>5. et \in Seq(Seq(Item)) /\ Len(et) = Len(t) /\ \A i \in 1..Len(t) : et[i] = Expand(t[i])
  BY <1>2, <1>3
<1>6. /\ eu \in Seq(Seq(Item)) /\ Len(eu) = Len(s) + Len(t)
      /\ \A i \in 1..(Len(s) + Len(t)) : eu[i] = Expand(u[i])
  BY <1>2, <1>3
<1> HIDE DEF es, et, eu
<1>7. eu = es \o et
  <2>1. /\ es \o et \in Seq(Seq(Item)) /\ Len(es \o et) = Len(es) + Len(et)
        /\ \A i \in 1..(Len(es) + Len(et)) :
             (es \o et)[i] = IF i <= Len(es) THEN es[i] ELSE et[i - Len(es)]
    <3>1. es \in Seq(Seq(Item)) /\ et \in Seq(Seq(Item))
      BY <1>4, <1>5
    <3> QED
      BY <3>1, ConcatProperties
  <2>2. ASSUME NEW i \in 1..(Len(s) + Len(t)) PROVE eu[i] = (es \o et)[i]
    <3>1. CASE i <= Len(s)
      <4>1. i \in 1..Len(s)
        BY <3>1, <1>2
      <4> QED
        BY <4>1, <3>1, <1>1, <1>4, <1>5, <1>6, <2>1
    <3>2. CASE ~(i <= Len(s))
      <4>1. i - Len(s) \in 1..Len(t)
        BY <3>2, <1>2
      <4> QED
        BY <4>1, <3>2, <1>1, <1>4, <1>5, <1>6, <2>1
    <3> QED
      BY <3>1, <3>2
  <2>3. Len(es \o et) = Len(eu) /\ \A i \in 1..Len(eu) : eu[i] = (es \o et)[i]
    BY <1>4, <1>5, <1>6, <2>1, <2>2
  <2> QED
    BY <1>6, <2>1, <2>3, SeqEqual
<1>8. /\ FlattenSeq(eu) = FlattenSeq(es) \o FlattenSeq(et)
      /\ FlattenSeq(es) \in Seq(Item) /\ FlattenSeq(et) \in Seq(Item)
  BY <1>4, <1>5, <1>7, FlattenConcat, FlattenType
<1> QED
  BY <1>1, <1>8 DEF Things, u, es, et, eu

\* Sequences of items, put together.
LEMMA ItemsRegroup ==
  \A a, b, c \in Seq(Item) : (a \o b) \o c = a \o (b \o c)
BY ConcatAssociative, SMTT(20)

\* A frame that is continued.
LEMMA ThingsContinued ==
  ASSUME NEW n \in Nat, NEW s \in Stream(n), NEW flag \in {Data, Index},
         NEW b \in Seq(Nat), NEW x \in Seq(Nat),
         Frame(flag, b) \in DataFrames \cup IndexFrames(n),
         Frame(flag, b \o x) \in DataFrames \cup IndexFrames(n)
  PROVE  Things(Append(s, Frame(flag, b \o x))) =
           Things(Append(s, Frame(flag, b))) \o Expand(Frame(flag, x))
<1> DEFINE eb == Expand(Frame(flag, b))
           ex == Expand(Frame(flag, x))
           g == Things(s)
<1>1. /\ Things(Append(s, Frame(flag, b))) = g \o eb /\ g \in Seq(Item)
      /\ Things(Append(s, Frame(flag, b \o x))) = g \o Expand(Frame(flag, b \o x))
  BY ThingsAppend
<1>2. Expand(Frame(flag, b \o x)) = eb \o ex
  BY ExpandConcat
<1>3. eb \in Seq(Item) /\ ex \in Seq(Item)
  BY ExpandIs
<1> HIDE DEF eb, ex, g
<1>4. (g \o eb) \o ex = g \o (eb \o ex)
  <2>1. g \in Seq(Item)
    BY <1>1
  <2> QED
    BY <2>1, <1>3, ItemsRegroup
<1> QED
  BY <1>1, <1>2, <1>4 DEF ex

\* What writing adds to the items of a descriptor: the bytes, ...
LEMMA BytesThings ==
  ASSUME NEW n \in Nat, NEW d, IsDesc(d, n), NEW x \in Seq(Bytes)
  PROVE  /\ Things(Serialize(d)) \in Seq(Item)
         /\ Things(Serialize(WriteBytes(d, x))) = Things(Serialize(d)) \o Literal(x)
<1> DEFINE e == WriteBytes(d, x)
           b == d.readBuf
<1>1. /\ d.data \in Stream(n) /\ Serialize(d) \in Stream(n)
      /\ b \in Seq(Bytes) /\ b \o x \in Seq(Bytes)
  BY SerializeIs, BytesConcat DEF IsDesc
<1>2. b \in Seq(Nat) /\ x \in Seq(Nat)
  <2>1. Bytes \subseteq Nat
    BY ReaderAssumption
  <2> QED
    BY <1>1, <2>1, SeqMonotonic
<1>3. \A y \in {b, x, b \o x} : Frame(Data, y) \in DataFrames \cup IndexFrames(n)
  BY <1>1 DEF Frame, DataFrames
<1>4. Things(Serialize(d)) \in Seq(Item)
  BY <1>1, ThingsConcat
<1>5. CASE x = << >>
  <2>1. e = d
    BY <1>5 DEF WriteBytes
  <2>2. Literal(x) = << >>
    BY <1>5 DEF Literal, Expand, Frame
  <2>3. Things(Serialize(d)) \o << >> = Things(Serialize(d))
    BY <1>4, ConcatEmptySeq
  <2> QED
    BY <1>4, <2>1, <2>2, <2>3
<1>6. CASE x # << >>
  <2>1. \/ Serialize(e) = Append(Serialize(d), Frame(Data, x))
        \/ /\ Serialize(d) = Append(d.data, Frame(Data, b))
           /\ Serialize(e) = Append(d.data, Frame(Data, b \o x))
    BY <1>6, WriteBytesIs
  <2> HIDE DEF b, e
  <2>2. CASE Serialize(e) = Append(Serialize(d), Frame(Data, x))
    <3>1. Things(Serialize(e)) = Things(Serialize(d)) \o Expand(Frame(Data, x))
      BY <2>2, <1>1, <1>3, ThingsAppend
    <3> QED
      BY <3>1, <1>4 DEF e, Literal
  <2>3. CASE /\ Serialize(d) = Append(d.data, Frame(Data, b))
             /\ Serialize(e) = Append(d.data, Frame(Data, b \o x))
    <3>1. /\ Frame(Data, b) \in DataFrames \cup IndexFrames(n)
          /\ Frame(Data, b \o x) \in DataFrames \cup IndexFrames(n)
      BY <1>3
    <3>2. Things(Append(d.data, Frame(Data, b \o x))) =
            Things(Append(d.data, Frame(Data, b))) \o Expand(Frame(Data, x))
      BY <3>1, <1>1, <1>2, ThingsContinued
    <3> QED
      BY <2>3, <3>2, <1>4 DEF e, Literal
  <2> QED
    BY <2>1, <2>2, <2>3
<1> QED
  BY <1>5, <1>6

\* ... or the index.
LEMMA IndexThings ==
  ASSUME NEW n \in Nat, NEW d, IsDesc(d, n), NEW i \in 0..(n - 1)
  PROVE  Things(Serialize(WriteIndex(d, i))) = Append(Things(Serialize(d)), <<Index, i>>)
<1> DEFINE e == WriteIndex(d, i)
           b == d.iBuff
           x == Append(<< >>, i)
           N == 0..(n - 1)
<1>1. /\ d.data \in Stream(n) /\ Serialize(d) \in Stream(n)
      /\ b \in Seq(N) /\ x = << i >> /\ x \in Seq(N) /\ b \o x \in Seq(N)
      /\ Append(b, i) = b \o x
  <2>1. d.data \in Stream(n) /\ Serialize(d) \in Stream(n) /\ b \in Seq(N)
    BY SerializeIs DEF IsDesc
  <2>2. x = << i >> /\ x \in Seq(N)
    OBVIOUS
  <2> HIDE DEF N, b
  <2>3. b \o x \in Seq(N)
    BY <2>1, <2>2, ConcatProperties
  <2>4. i \in N
    BY DEF N
  <2>5. Append(b, i) = b \o << i >>
    BY <2>1, <2>4, AppendIsConcat
  <2> QED
    BY <2>1, <2>2, <2>3, <2>5
<1>2. b \in Seq(Nat) /\ x \in Seq(Nat)
  <2>1. N \subseteq Nat
    OBVIOUS
  <2> QED
    BY <1>1, <2>1, SeqMonotonic
<1>3. \A y \in {b, x, b \o x} : Frame(Index, y) \in DataFrames \cup IndexFrames(n)
  BY <1>1 DEF Frame, IndexFrames
<1>4. Things(Serialize(d)) \in Seq(Item)
  BY <1>1, ThingsConcat
<1>5. \/ Serialize(e) = Append(Serialize(d), Frame(Index, x))
      \/ /\ Serialize(d) = Append(d.data, Frame(Index, b))
         /\ Serialize(e) = Append(d.data, Frame(Index, Append(b, i)))
  BY WriteIndexIs
<1>6. Expand(Frame(Index, x)) = << <<Index, i>> >>
  BY <1>1 DEF Expand, Frame
<1>7. <<Index, i>> \in Item
  BY DEF Item
<1> HIDE DEF b, e, x
<1>8. Things(Serialize(e)) = Things(Serialize(d)) \o Expand(Frame(Index, x))
  <2>1. CASE Serialize(e) = Append(Serialize(d), Frame(Index, x))
    BY <2>1, <1>1, <1>3, ThingsAppend
  <2>2. CASE /\ Serialize(d) = Append(d.data, Frame(Index, b))
             /\ Serialize(e) = Append(d.data, Frame(Index, Append(b, i)))
    <3>1. Serialize(e) = Append(d.data, Frame(Index, b \o x))
      BY <1>1, <2>2
    <3>2. /\ Frame(Index, b) \in DataFrames \cup IndexFrames(n)
          /\ Frame(Index, b \o x) \in DataFrames \cup IndexFrames(n)
      BY <1>3
    <3>3. Things(Append(d.data, Frame(Index, b \o x))) =
            Things(Append(d.data, Frame(Index, b))) \o Expand(Frame(Index, x))
      BY <3>2, <1>1, <1>2, ThingsContinued
    <3> QED
      BY <2>2, <3>1, <3>3
  <2> QED
    BY <1>5, <2>1, <2>2
<1>9. Append(Things(Serialize(d)), <<Index, i>>) = Things(Serialize(d)) \o << <<Index, i>> >>
  BY <1>4, <1>7, AppendIsConcat
<1> QED
  BY <1>6, <1>8, <1>9 DEF e

-----------------------------------------------------------------------------
(* Blocks that were looked up.                                             *)

\* From place i on, items are not bs bytes with one of the sums.
Unknown(items, bs, sums, i) ==
  (\A k \in 1..bs : items[i + k - 1][1] = Data) =>
    Adler32([k \in 1..bs |-> items[i + k - 1][2]]) \notin sums

\* Nowhere but at the last place.
Quiet(items, bs, sums) ==
  \A i \in 1..(Len(items) - bs) : Unknown(items, bs, sums, i)

\* It depends on the items of the block only.
LEMMA SameUnknown ==
  ASSUME NEW s, NEW t, NEW bs \in Nat, NEW sums, NEW i \in Nat,
         \A k \in 1..bs : s[i + k - 1] = t[i + k - 1], Unknown(s, bs, sums, i)
  PROVE  Unknown(t, bs, sums, i)
<1>1. [k \in 1..bs |-> s[i + k - 1][2]] = [k \in 1..bs |-> t[i + k - 1][2]]
  OBVIOUS
<1> QED
  BY <1>1 DEF Unknown

\* Bytes as items.
LEMMA LiteralIs ==
  \A x \in Seq(Bytes) :
    /\ x \in Seq(Nat) /\ Len(x) \in Nat
    /\ Literal(x) \in Seq(Item) /\ Len(Literal(x)) = Len(x)
    /\ \A k \in 1..Len(x) : Literal(x)[k] = <<Data, x[k]>>
<1> SUFFICES ASSUME NEW x \in Seq(Bytes)
             PROVE  /\ x \in Seq(Nat) /\ Len(x) \in Nat
                    /\ Literal(x) \in Seq(Item) /\ Len(Literal(x)) = Len(x)
                    /\ \A k \in 1..Len(x) : Literal(x)[k] = <<Data, x[k]>>
  OBVIOUS
<1>1. x \in Seq(Nat) /\ Len(x) \in Nat
  <2>1. Bytes \subseteq Nat
    BY ReaderAssumption
  <2> QED
    BY <2>1, SeqMonotonic, LenProperties
<1> QED
  BY <1>1, ExpandIs DEF Literal

LEMMA LiteralConcat ==
  \A x, y \in Seq(Bytes) : Literal(x \o y) = Literal(x) \o Literal(y)
<1> SUFFICES ASSUME NEW x \in Seq(Bytes), NEW y \in Seq(Bytes)
             PROVE  Literal(x \o y) = Literal(x) \o Literal(y)
  OBVIOUS
<1>1. x \in Seq(Nat) /\ y \in Seq(Nat)
  BY LiteralIs
<1> QED
  BY <1>1, ExpandConcat DEF Literal

\* Items, and bytes after them.
LEMMA Followed ==
  ASSUME NEW g \in Seq(Item), NEW x \in Seq(Bytes)
  PROVE  /\ g \o Literal(x) \in Seq(Item) /\ Len(g) \in Nat /\ Len(x) \in Nat
         /\ Len(g \o Literal(x)) = Len(g) + Len(x)
         /\ \A i \in 1..Len(g) : (g \o Literal(x))[i] = g[i]
         /\ \A k \in 1..Len(x) : (g \o Literal(x))[Len(g) + k] = <<Data, x[k]>>
<1> DEFINE t == Literal(x)
           s == g \o t
<1>1. t \in Seq(Item) /\ Len(t) = Len(x) /\ Len(x) \in Nat
      /\ \A k \in 1..Len(x) : t[k] = <<Data, x[k]>>
  BY LiteralIs
<1> HIDE DEF t
<1>2. Len(g) \in Nat
  BY LenProperties
<1>3. /\ s \in Seq(Item) /\ Len(s) = Len(g) + Len(t)
      /\ \A i \in 1..(Len(g) + Len(t)) : s[i] = IF i <= Len(g) THEN g[i] ELSE t[i - Len(g)]
  <2>1. t \in Seq(Item)
    BY <1>1
  <2> QED
    BY <2>1, ConcatProperties
<1> HIDE DEF s
<1>4. \A i \in 1..Len(g) : s[i] = g[i]
  BY <1>1, <1>2, <1>3
<1>5. ASSUME NEW k \in 1..Len(x) PROVE s[Len(g) + k] = <<Data, x[k]>>
  <2>1. Len(g) + k \in 1..(Len(g) + Len(t)) /\ ~(Len(g) + k <= Len(g)) /\ (Len(g) + k) - Len(g) = k
    BY <1>1, <1>2
  <2> QED
    BY <2>1, <1>1, <1>3
<1> QED
  BY <1>1, <1>2, <1>3, <1>4, <1>5 DEF s, t

\* The window was looked up, and a byte leaves it for one more at its end.
LEMMA MissKeeps ==
  ASSUME NEW g \in Seq(Item), NEW w \in Seq(Bytes), NEW b \in Bytes,
         NEW sums, w # << >>, Adler32(w) \notin sums,
         Quiet(g \o Literal(w), Len(w), sums)
  PROVE  Quiet((g \o Literal(<< Head(w) >>)) \o Literal(Append(Tail(w), b)), Len(w), sums)
<1> DEFINE bs == Len(w)
           x == w \o << b >>
           s == g \o Literal(w)
           t == g \o Literal(x)
           h == << Head(w) >>
           y == Append(Tail(w), b)
<1>1. /\ h \in Seq(Bytes) /\ y \in Seq(Bytes) /\ x \in Seq(Bytes)
      /\ x = h \o y /\ bs \in Nat \ {0}
  <2>1. Head(w) \in Bytes /\ Tail(w) \in Seq(Bytes) /\ w = h \o Tail(w)
    BY HeadAndTail
  <2>2. h \in Seq(Bytes) /\ << b >> \in Seq(Bytes)
    BY <2>1
  <2>3. y = Tail(w) \o << b >>
    BY <2>1, AppendIsConcat
  <2> HIDE DEF h
  <2>4. (h \o Tail(w)) \o << b >> = h \o (Tail(w) \o << b >>)
    BY <2>1, <2>2, BytesRegroup
  <2>5. Tail(w) \o << b >> \in Seq(Bytes) /\ w \o << b >> \in Seq(Bytes)
    BY <2>1, <2>2, BytesConcat
  <2>6. bs \in Nat \ {0}
    BY BytesEmpty
  <2> QED
    BY <2>1, <2>2, <2>3, <2>4, <2>5, <2>6
<1>2. (g \o Literal(h)) \o Literal(y) = t
  <2>1. Literal(x) = Literal(h) \o Literal(y)
    BY <1>1, LiteralConcat
  <2> DEFINE lh == Literal(h)
             ly == Literal(y)
  <2>2. lh \in Seq(Item) /\ ly \in Seq(Item)
    BY <1>1, LiteralIs
  <2> HIDE DEF lh, ly
  <2>3. (g \o lh) \o ly = g \o (lh \o ly)
    BY <2>2, ItemsRegroup
  <2> QED
    BY <2>1, <2>3 DEF lh, ly, t
<1>3. /\ Len(x) = bs + 1 /\ \A k \in 1..bs : x[k] = w[k]
  <2>1. x = Append(w, b)
    BY AppendIsConcat
  <2> QED
    BY <2>1, AppendProperties
<1> HIDE DEF x, h, y
<1>4. /\ s \in Seq(Item) /\ Len(g) \in Nat /\ Len(s) = Len(g) + bs
      /\ \A i \in 1..Len(g) : s[i] = g[i]
      /\ \A k \in 1..bs : s[Len(g) + k] = <<Data, w[k]>>
  BY Followed
<1>5. /\ t \in Seq(Item) /\ Len(t) = Len(g) + (bs + 1)
      /\ \A i \in 1..Len(g) : t[i] = g[i]
      /\ \A k \in 1..(bs + 1) : t[Len(g) + k] = <<Data, x[k]>>
  <2>1. /\ t \in Seq(Item) /\ Len(t) = Len(g) + Len(x)
        /\ \A i \in 1..Len(g) : t[i] = g[i]
        /\ \A k \in 1..Len(x) : t[Len(g) + k] = <<Data, x[k]>>
    BY <1>1, Followed
  <2> QED
    BY <2>1, <1>3
<1>0. Quiet(s, bs, sums)
  OBVIOUS
<1> HIDE DEF s, t, bs
<1>6. \A j \in 1..(Len(g) + bs) : s[j] = t[j]
  <2> SUFFICES ASSUME NEW j \in 1..(Len(g) + bs) PROVE s[j] = t[j]
    OBVIOUS
  <2>1. CASE j <= Len(g)
    <3>1. j \in 1..Len(g)
      BY <2>1, <1>4
    <3> QED
      BY <3>1, <1>4, <1>5
  <2>2. CASE ~(j <= Len(g))
    <3> DEFINE k == j - Len(g)
    <3>1. k \in 1..bs /\ k \in 1..(bs + 1) /\ Len(g) + k = j
      BY <2>2, <1>1, <1>4
    <3> HIDE DEF k
    <3>2. s[j] = <<Data, w[k]>> /\ t[j] = <<Data, x[k]>> /\ x[k] = w[k]
      BY <3>1, <1>3, <1>4, <1>5
    <3> QED
      BY <3>2
  <2> QED
    BY <2>1, <2>2
<1>7. ASSUME NEW i \in 1..(Len(t) - bs) PROVE Unknown(t, bs, sums, i)
  <2>1. i \in Nat /\ i >= 1 /\ i <= Len(g) + 1
    BY <1>1, <1>4, <1>5
  <2>2. CASE i <= Len(g)
    <3>1. i \in 1..(Len(s) - bs)
      BY <2>1, <2>2, <1>1, <1>4
    <3>2. Unknown(s, bs, sums, i)
      BY <3>1, <1>0 DEF Quiet
    <3>3. \A k \in 1..bs : i + k - 1 \in 1..(Len(g) + bs)
      BY <2>1, <2>2, <1>1, <1>4
    <3>4. \A k \in 1..bs : s[i + k - 1] = t[i + k - 1]
      BY <3>3, <1>6
    <3> QED
      BY <2>1, <3>2, <3>4, <1>1, SameUnknown
  <2>3. CASE ~(i <= Len(g))
    <3>1. i = Len(g) + 1
      BY <2>1, <2>3, <1>4
    <3>2. \A k \in 1..bs : i + k - 1 = Len(g) + k /\ k \in 1..(bs + 1)
      BY <3>1, <1>1, <1>4
    <3>3. ASSUME NEW k \in 1..bs PROVE t[i + k - 1][2] = w[k]
      <4>1. i + k - 1 = Len(g) + k /\ k \in 1..(bs + 1) /\ x[k] = w[k]
        BY <3>2, <1>3 DEF bs
      <4>2. t[i + k - 1] = <<Data, x[k]>>
        BY <4>1, <1>5
      <4> QED
        BY <4>1, <4>2
    <3>4. w = [k \in 1..bs |-> w[k]]
      BY DEF bs
    <3>5. [k \in 1..bs |-> t[i + k - 1][2]] = w
      BY <3>3, <3>4
    <3> QED
      BY <3>5 DEF Unknown
  <2> QED
    BY <2>2, <2>3
<1> QED
  BY <1>2, <1>7 DEF Quiet, bs, h, y

\* The window becomes an index; no block reaches over it, and what follows is no
\* longer than a block.
LEMMA MatchKeeps ==
  ASSUME NEW g \in Seq(Item), NEW w \in Seq(Bytes), NEW m \in Nat, NEW y \in Seq(Bytes),
         NEW sums, w # << >>, Len(y) <= Len(w),
         Quiet(g \o Literal(w), Len(w), sums)
  PROVE  Quiet(Append(g, <<Index, m>>) \o Literal(y), Len(w), sums)
<1> DEFINE bs == Len(w)
           h == Append(g, <<Index, m>>)
           s == g \o Literal(w)
           t == h \o Literal(y)
<1>1. bs \in Nat \ {0} /\ Len(y) \in Nat /\ Len(y) <= bs
  BY BytesEmpty
<1>2. /\ s \in Seq(Item) /\ Len(g) \in Nat /\ Len(s) = Len(g) + bs
      /\ \A i \in 1..Len(g) : s[i] = g[i]
  BY Followed
<1>3. /\ h \in Seq(Item) /\ Len(h) = Len(g) + 1
      /\ \A i \in 1..Len(g) : h[i] = g[i]
      /\ h[Len(g) + 1] = <<Index, m>>
  <2>1. <<Index, m>> \in Item
    BY DEF Item
  <2> QED
    BY <2>1, AppendProperties
<1> HIDE DEF h
<1>4. /\ Len(t) = Len(h) + Len(y)
      /\ \A i \in 1..Len(h) : t[i] = h[i]
  BY <1>3, Followed
<1>5. Len(t) = Len(g) + 1 + Len(y)
  BY <1>1, <1>2, <1>3, <1>4
<1>6. \A i \in 1..Len(g) : t[i] = s[i]
  BY <1>2, <1>3, <1>4
<1>7. t[Len(g) + 1][1] # Data
  <2>1. Len(g) + 1 \in 1..Len(h)
    BY <1>2, <1>3
  <2>2. t[Len(g) + 1] = <<Index, m>>
    BY <2>1, <1>3, <1>4
  <2> QED
    BY <2>2, Flags
<1>0. Quiet(s, bs, sums)
  OBVIOUS
<1> HIDE DEF s, t, bs
<1>8. ASSUME NEW i \in 1..(Len(t) - bs) PROVE Unknown(t, bs, sums, i)
  <2>1. i \in Nat /\ i >= 1 /\ i <= Len(g) + 1
    BY <1>1, <1>2, <1>5
  <2>2. CASE i + bs - 1 <= Len(g)
    <3>1. i \in 1..(Len(s) - bs)
      BY <2>1, <2>2, <1>1, <1>2
    <3>2. Unknown(s, bs, sums, i)
      BY <3>1, <1>0 DEF Quiet
    <3>3. \A k \in 1..bs : i + k - 1 \in 1..Len(g)
      BY <2>1, <2>2, <1>1, <1>2
    <3>4. \A k \in 1..bs : s[i + k - 1] = t[i + k - 1]
      BY <3>3, <1>6
    <3> QED
      BY <2>1, <3>2, <3>4, <1>1, SameUnknown
  <2>3. CASE ~(i + bs - 1 <= Len(g))
    <3> DEFINE k == Len(g) + 2 - i
    <3>1. k \in 1..bs /\ i + k - 1 = Len(g) + 1
      BY <2>1, <2>3, <1>1, <1>2
    <3> HIDE DEF k
    <3>2. t[i + k - 1][1] # Data
      BY <3>1, <1>7
    <3> QED
      BY <3>1, <3>2 DEF Unknown
  <2> QED
    BY <2>2, <2>3
<1> QED
  BY <1>8 DEF Quiet, bs, h, t

\* Nothing but one block, or less, is quiet.
LEMMA ShortQuiet ==
  ASSUME NEW x \in Seq(Bytes), NEW bs \in Nat, NEW sums, Len(x) <= bs
  PROVE  Quiet(<< >> \o Literal(x), bs, sums)
<1>1. Literal(x) \in Seq(Item) /\ Len(Literal(x)) = Len(x) /\ Len(x) \in Nat
  BY LiteralIs
<1>2. << >> \o Literal(x) = Literal(x)
  BY <1>1, ConcatEmptySeq
<1>3. 1..(Len(Literal(x)) - bs) = {}
  BY <1>1
<1> QED
  BY <1>2, <1>3 DEF Quiet

-----------------------------------------------------------------------------
\* What is looked up by each place of the reader.
DeltaInv ==
  /\ pc \in {"start", "bytes"} => hMap = << >>
  /\ pc = "start" => Sent = << >>
  /\ pc = "roll" => Quiet(Things(Sent) \o Literal(window), BlockSize, DOMAIN hMap)
  /\ pc = "finish" =>
       Quiet(Things(Sent) \o Literal(window \o buf), BlockSize, DOMAIN hMap)
  /\ NoKnownBlockSent

\* The frames before the End frame are all that counts in the end.
LEMMA QuietEnd ==
  ASSUME NEW n \in Nat, NEW s \in Stream(n), NEW u \in Stream(n),
         Frames(out') = Append(s, EndFrame) \o u,
         BlockSize' \in Nat \ {0},
         Quiet(Things(s), BlockSize', DOMAIN hMap')
  PROVE  NoKnownBlockSent'
<1> DEFINE items == Items(Frames(out'))
           bs == BlockSize'
<1>1. u \in Seq(AnyFrames(n))
  <2>1. DataFrames \cup IndexFrames(n) \subseteq AnyFrames(n)
    BY DEF AnyFrames
  <2> QED
    BY <2>1, SeqMonotonic DEF Stream
<1>2. Heard(Frames(out')) = s
  BY <1>1, HeardEnd
<1>3. items = Things(s)
  BY <1>2 DEF Items, Things
<1>4. items \in Seq(Item) /\ Len(items) \in Nat
  BY <1>3, ThingsConcat, LenProperties
<1>5. Quiet(items, bs, DOMAIN hMap') /\ bs \in Nat \ {0}
  BY <1>3
<1> HIDE DEF items, bs
<1>6. ASSUME NEW i \in 1..(Len(items) - bs),
             LET run == SubSeq(items, i, i + bs - 1)
             IN \A k \in DOMAIN run : run[k][1] = Data
      PROVE  LET run == SubSeq(items, i, i + bs - 1)
             IN Adler32([k \in DOMAIN run |-> run[k][2]]) \notin DOMAIN hMap'
  <2> DEFINE run == SubSeq(items, i, i + bs - 1)
  <2>1. i \in Nat /\ i + bs - 1 \in Nat /\ i >= 1 /\ i + bs - 1 <= Len(items)
    BY <1>4, <1>5
  <2>2. /\ Len(run) = bs /\ DOMAIN run = 1..bs
        /\ \A k \in 1..bs : run[k] = items[i + k - 1]
    <3> DEFINE e == i + bs - 1
    <3>1. i <= e /\ e - i + 1 = bs /\ i \in Int /\ e \in Int
      BY <2>1, <1>5
    <3>2. \A j \in i..e : items[j] \in Item
      BY <2>1, <1>4, ElementOfSeq
    <3>3. run = SubSeq(items, i, e)
      BY DEF run
    <3> HIDE DEF e, run
    <3>4. /\ SubSeq(items, i, e) \in Seq(Item)
          /\ Len(SubSeq(items, i, e)) = IF i <= e THEN e - i + 1 ELSE 0
          /\ \A k \in 1..(e - i + 1) : SubSeq(items, i, e)[k] = items[i + k - 1]
      BY <3>1, <3>2, SubSeqProperties
    <3> QED
      BY <3>1, <3>3, <3>4, LenProperties
  <2> HIDE DEF run
  <2>3. \A k \in 1..bs : items[i + k - 1][1] = Data
    BY <1>6, <2>2 DEF run
  <2>4. [k \in DOMAIN run |-> run[k][2]] = [k \in 1..bs |-> items[i + k - 1][2]]
    BY <2>2
  <2>5. Unknown(items, bs, DOMAIN hMap', i)
    BY <1>5 DEF Quiet
  <2> QED
    BY <2>3, <2>4, <2>5 DEF Unknown, run
<1> QED
  BY <1>6 DEF NoKnownBlockSent, items, bs

\* The items of what is sent, and their kind.
LEMMA ThingsSent ==
  ASSUME FilesInv, out \in Seq(Messages(Blocks)), NEW d, IsDesc(d, Blocks)
  PROVE  /\ Frames(out) \in Stream(Blocks) /\ Serialize(d) \in Stream(Blocks)
         /\ Frames(out) \o Serialize(d) \in Stream(Blocks)
         /\ Things(Frames(out)) \in Seq(Item) /\ Things(Serialize(d)) \in Seq(Item)
         /\ Things(Frames(out) \o Serialize(d)) \in Seq(Item)
         /\ Things(Frames(out) \o Serialize(d)) = Things(Frames(out)) \o Things(Serialize(d))
<1>1. dst \in Seq(Bytes) /\ BlockSize \in Nat /\ Blocks \in Nat
  BY Sizes DEF FilesInv
<1>2. /\ Frames(out) \in Stream(Blocks) /\ Serialize(d) \in Stream(Blocks)
      /\ Frames(out) \o Serialize(d) \in Stream(Blocks)
  BY <1>1, SentIs
<1>3. /\ Things(Frames(out)) \in Seq(Item) /\ Things(Serialize(d)) \in Seq(Item)
      /\ Things(Frames(out) \o Serialize(d)) = Things(Frames(out)) \o Things(Serialize(d))
  BY <1>1, <1>2, ThingsConcat
<1>4. Things(Frames(out) \o Serialize(d)) \in Seq(Item)
  BY <1>1, <1>2, ThingsConcat
<1> QED
  BY <1>2, <1>3, <1>4

\* Bytes that are written follow what was sent, ...
LEMMA BytesFollow ==
  ASSUME FilesInv, out \in Seq(Messages(Blocks)), IsDesc(dd, Blocks), NEW x \in Seq(Bytes)
  PROVE  /\ Things(Sent) \in Seq(Item)
         /\ Things(Frames(out) \o Serialize(WriteBytes(dd, x))) = Things(Sent) \o Literal(x)
<1> DEFINE d == WriteBytes(dd, x)
           f == Things(Frames(out))
           p == Things(Serialize(dd))
           l == Literal(x)
<1>1. IsDesc(d, Blocks) /\ Blocks \in Nat
  BY BytesNow, Sizes
<1>2. Things(Serialize(d)) = p \o l /\ p \in Seq(Item)
  BY <1>1, BytesThings
<1> HIDE DEF d
<1>3. /\ Things(Frames(out) \o Serialize(d)) = f \o Things(Serialize(d)) /\ f \in Seq(Item)
      /\ Things(Sent) = f \o p /\ Things(Sent) \in Seq(Item)
  BY <1>1, ThingsSent DEF Sent
<1>4. l \in Seq(Item)
  BY LiteralIs
<1> HIDE DEF f, p, l
<1>5. (f \o p) \o l = f \o (p \o l)
  BY <1>2, <1>3, <1>4, ItemsRegroup
<1> QED
  BY <1>2, <1>3, <1>5 DEF d, l

\* ... and so does an index.
LEMMA IndexFollows ==
  ASSUME FilesInv, out \in Seq(Messages(Blocks)), IsDesc(dd, Blocks),
         NEW i \in 0..(Blocks - 1)
  PROVE  Things(Frames(out) \o Serialize(WriteIndex(dd, i))) = Append(Things(Sent), <<Index, i>>)
<1> DEFINE d == WriteIndex(dd, i)
           f == Things(Frames(out))
           p == Things(Serialize(dd))
           y == <<Index, i>>
<1>1. IsDesc(d, Blocks) /\ Blocks \in Nat
  BY IndexNow, Sizes
<1>2. Things(Serialize(d)) = Append(p, y)
  BY <1>1, IndexThings
<1> HIDE DEF d
<1>3. /\ Things(Frames(out) \o Serialize(d)) = f \o Things(Serialize(d)) /\ f \in Seq(Item)
      /\ Things(Sent) = f \o p /\ Things(Sent) \in Seq(Item) /\ p \in Seq(Item)
  BY <1>1, ThingsSent DEF Sent
<1>4. y \in Item
  BY DEF Item
<1> HIDE DEF f, p, y
<1>5. Append(p, y) = p \o << y >> /\ Append(f \o p, y) = (f \o p) \o << y >>
  BY <1>3, <1>4, AppendIsConcat
<1>6. (f \o p) \o << y >> = f \o (p \o << y >>)
  <2>1. << y >> \in Seq(Item)
    BY <1>4
  <2> QED
    BY <2>1, <1>3, ItemsRegroup
<1> QED
  BY <1>2, <1>3, <1>5, <1>6 DEF d, y

\* Before the reader has begun nothing is known.
LEMMA DeltaInit == Init => DeltaInv
<1> SUFFICES ASSUME Init PROVE DeltaInv
  OBVIOUS
<1>1. pc \in {"start", "bytes"} /\ hMap = << >> /\ out = << >> /\ dd = NewDataDesc(0)
  BY DEF Init, Differs, Missing
<1>2. Serialize(dd) = << >>
  BY <1>1, NewDescIs
<1>3. Frames(out) = << >>
  <2>1. [i \in DOMAIN << >> |-> << >>[i].frames] = << >>
    OBVIOUS
  <2> QED
    BY <1>1, <2>1, FlattenEmpty DEF Frames
<1>4. Sent = << >>
  BY <1>2, <1>3 DEF Sent
<1> QED
  BY <1>1, <1>4 DEF DeltaInv, NoKnownBlockSent

\* The first window was not looked up yet.
LEMMA FillDelta == RollInv /\ DeltaInv /\ Fill => DeltaInv'
<1> SUFFICES ASSUME RollInv, DeltaInv, Fill PROVE DeltaInv'
  OBVIOUS
<1>1. /\ pc = "start" /\ pc' = "roll" /\ UNCHANGED <<fileVars, out, dd>> /\ Sent = << >>
      /\ TypesInv
  BY DEF RollInv, DeltaInv, Fill, Goto
<1>2. BlockSize' = BlockSize /\ BlockSize \in Nat
  BY <1>1, SameFiles, Sizes DEF TypesInv
<1>3. window' \in Seq(Bytes) /\ Len(window') <= BlockSize
  BY <1>1, <1>2, FillMoves DEF BuffersInv
<1>4. Things(Sent') = << >>
  <2>1. Sent' = << >>
    BY <1>1 DEF Sent
  <2>2. [i \in DOMAIN << >> |-> Expand(<< >>[i])] = << >>
    OBVIOUS
  <2> QED
    BY <2>1, <2>2, FlattenEmpty DEF Things
<1>5. Quiet(<< >> \o Literal(window'), BlockSize, DOMAIN hMap')
  BY <1>2, <1>3, ShortQuiet
<1>6. NoKnownBlockSent'
  BY <1>1 DEF NoKnownBlockSent
<1> QED
  BY <1>1, <1>2, <1>4, <1>5, <1>6 DEF DeltaInv

\* A message takes the frames of the descriptor over.
LEMMA SendDelta == RollInv /\ DeltaInv /\ SendData => DeltaInv'
<1> SUFFICES ASSUME RollInv, DeltaInv, SendData PROVE DeltaInv'
  OBVIOUS
<1> DEFINE m == [seq |-> dd.seq, frames |-> Serialize(dd)]
           n == Blocks
<1>1. /\ TypesInv /\ pc = "roll" /\ pc' = pc /\ UNCHANGED <<fileVars, hMap, readVars>>
      /\ out' = Append(out, m) /\ dd' = NewDataDesc(dd.seq + 1)
  BY DEF RollInv, SendData
<1>2. /\ IsDesc(dd, n) /\ dd.seq \in Nat /\ out \in Seq(Messages(n))
      /\ Numbered(out) /\ dd.seq = Len(out) /\ n \in Nat /\ FilesInv
      /\ BlockSize' = BlockSize
  BY <1>1, Sizes, SameFiles DEF RollInv, TypesInv, DescInv, IsDesc, RunningInv
<1> HIDE DEF n
<1>3. Serialize(dd') = << >>
  BY <1>1, <1>2, NewDescIs
<1>4. m \in Messages(n) /\ m.seq = Len(out) /\ m.frames = Serialize(dd)
  BY <1>2, SerializeIs DEF Messages
<1> HIDE DEF m
<1>5. Frames(out') = Sent /\ Sent \in Stream(n)
  BY <1>1, <1>2, <1>4, MessageSent, ThingsSent DEF Sent, n
<1>6. Sent' = Sent
  BY <1>3, <1>5, ConcatEmptySeq DEF Sent, Stream
<1>7. NoKnownBlockSent'
  BY <1>1 DEF NoKnownBlockSent
<1> QED
  BY <1>1, <1>2, <1>6, <1>7 DEF DeltaInv, readVars


\* A byte leaves the window for the descriptor.
LEMMA NoMatchDelta == RollInv /\ DeltaInv /\ NoMatch => DeltaInv'
<1> SUFFICES ASSUME RollInv, DeltaInv, NoMatch PROVE DeltaInv'
  OBVIOUS
<1> DEFINE x == << Head(window) >>
           ahead == IF buf = << >> THEN Take(rest, BlockSize) ELSE buf
           b == Head(ahead)
           sums == DOMAIN hMap
           g == Things(Sent)
<1>1. /\ TypesInv /\ pc = "roll" /\ pc' = pc /\ UNCHANGED <<fileVars, hMap, out>>
      /\ dd' = WriteByte(dd, Head(window)) /\ Adler32(window) \notin sums
      /\ ahead # << >> /\ window' = Append(Tail(window), b)
  BY DEF RollInv, NoMatch, Looking, Known
<1>2. /\ FilesInv /\ BlockSize' = BlockSize /\ BlockSize \in Nat \ {0} /\ Blocks \in Nat
      /\ IsDesc(dd, Blocks) /\ out \in Seq(Messages(Blocks))
      /\ window \in Seq(Bytes) /\ Len(window) = BlockSize
      /\ buf \in Seq(Bytes) /\ rest \in Seq(Bytes)
  BY <1>1, SameFiles, Sizes DEF RollInv, TypesInv, DescInv, BuffersInv, RunningInv
<1>3. window # << >>
  BY <1>2, BytesEmpty
<1>4. Head(window) \in Bytes /\ b \in Bytes
  <2>1. Take(rest, BlockSize) \in Seq(Bytes)
    BY <1>2, Parts
  <2>2. ahead \in Seq(Bytes)
    BY <2>1, <1>2
  <2> HIDE DEF ahead
  <2> QED
    BY <1>1, <1>2, <1>3, <2>2, HeadAndTail
<1>5. dd' = WriteBytes(dd, x) /\ x \in Seq(Bytes)
  BY <1>1, <1>2, <1>4, WriteByteIs
<1>6. Quiet(g \o Literal(window), BlockSize, sums)
  BY <1>1 DEF DeltaInv
<1> HIDE DEF sums, b, ahead
<1>7. g \in Seq(Item) /\ Things(Sent') = g \o Literal(x)
  <2>1. /\ g \in Seq(Item)
        /\ Things(Frames(out) \o Serialize(WriteBytes(dd, x))) = g \o Literal(x)
    BY <1>2, <1>5, BytesFollow
  <2>2. Sent' = Frames(out) \o Serialize(WriteBytes(dd, x))
    BY <1>1, <1>5 DEF Sent
  <2> QED
    BY <2>1, <2>2
<1>8. Quiet((g \o Literal(x)) \o Literal(window'), BlockSize, sums)
  <2>1. /\ g \in Seq(Item) /\ window \in Seq(Bytes) /\ b \in Bytes /\ window # << >>
        /\ Adler32(window) \notin sums /\ Quiet(g \o Literal(window), Len(window), sums)
    BY <1>1, <1>2, <1>3, <1>4, <1>6, <1>7
  <2> HIDE DEF g
  <2>2. Quiet((g \o Literal(<< Head(window) >>)) \o Literal(Append(Tail(window), b)),
              Len(window), sums)
    BY <2>1, MissKeeps
  <2> QED
    BY <2>2, <1>1, <1>2 DEF x
<1>9. NoKnownBlockSent'
  BY <1>1 DEF NoKnownBlockSent
<1> QED
  BY <1>1, <1>2, <1>7, <1>8, <1>9 DEF DeltaInv, sums

\* Behind a match there is no more than a block to come when the loop ends.
LEMMA MatchShort ==
  ASSUME TypesInv, Match
  PROVE  LET y == IF pc' = "roll" THEN window' ELSE window' \o buf'
         IN y \in Seq(Bytes) /\ Len(y) <= BlockSize
<1> DEFINE bs == BlockSize
           need == bs - Len(buf)
           after == Drop(rest, need)
<1>1. /\ bs \in Nat \ {0} /\ BlockSize' = bs /\ BuffersInv'
      /\ rest \in Seq(Bytes) /\ buf \in Seq(Bytes) /\ Len(buf) <= bs
  BY Sizes, SameFiles, MatchMoves DEF TypesInv, BuffersInv, Match
<1>2. window' \in Seq(Bytes) /\ buf' \in Seq(Bytes) /\ Len(window') <= bs
  BY <1>1 DEF BuffersInv
<1>3. CASE need > 0 /\ rest = << >>
  <2>1. window' = << >> /\ pc' = "finish" /\ buf' = buf
    BY <1>3 DEF Match, Goto
  <2>2. window' \o buf' = buf
    BY <1>1, <2>1, BytesEmpty
  <2> QED
    BY <1>1, <2>1, <2>2
<1>4. CASE ~(need > 0 /\ rest = << >>)
  <2>1. /\ buf' = Take(after, bs)
        /\ pc' = IF after = << >> THEN "finish" ELSE "roll"
    BY <1>4 DEF Match, Goto
  <2>2. CASE after = << >>
    <3>1. Take(<< >>, bs) = << >>
      <4>1. << >> \in Seq(Bytes) /\ Len(<< >>) = 0
        BY BytesEmpty
      <4>2. bs \in Nat /\ ~(bs < 0)
        BY <1>1
      <4> HIDE DEF bs
      <4>3. Take(<< >>, bs) \in Seq(Bytes) /\ Len(Take(<< >>, bs)) = 0
        BY <4>1, <4>2, Parts
      <4> QED
        BY <4>3, BytesEmpty
    <3>2. window' \o buf' = window'
      BY <1>2, <2>1, <2>2, <3>1, BytesEmpty
    <3> QED
      BY <1>2, <3>2, <2>1
  <2>3. CASE after # << >>
    BY <1>2, <2>1, <2>3
  <2> QED
    BY <2>2, <2>3
<1> QED
  BY <1>3, <1>4

\* The window becomes an index.
LEMMA MatchDelta == RollInv /\ DeltaInv /\ Match => DeltaInv'
<1> SUFFICES ASSUME RollInv, DeltaInv, Match PROVE DeltaInv'
  OBVIOUS
<1> DEFINE i == hMap[Adler32(window)]
           y == IF pc' = "roll" THEN window' ELSE window' \o buf'
           sums == DOMAIN hMap
           g == Things(Sent)
<1>1. /\ TypesInv /\ pc = "roll" /\ pc' \in {"roll", "finish"}
      /\ UNCHANGED <<fileVars, hMap, out>>
      /\ dd' = WriteIndex(dd, i) /\ Known
  BY DEF RollInv, Match, Looking, Goto
<1>2. /\ FilesInv /\ BlockSize' = BlockSize /\ BlockSize \in Nat \ {0} /\ Blocks \in Nat
      /\ IsDesc(dd, Blocks) /\ out \in Seq(Messages(Blocks))
      /\ window \in Seq(Bytes) /\ Len(window) = BlockSize
  BY <1>1, SameFiles, Sizes DEF RollInv, TypesInv, DescInv, BuffersInv, RunningInv
<1>3. window # << >>
  BY <1>2, BytesEmpty
<1>4. i \in 0..(Blocks - 1)
  BY <1>1, KnownBlock
<1>5. y \in Seq(Bytes) /\ Len(y) <= BlockSize
  BY <1>1, MatchShort
<1>6. Quiet(g \o Literal(window), BlockSize, sums)
  BY <1>1 DEF DeltaInv
<1> HIDE DEF i, sums
<1>7. g \in Seq(Item)
  BY <1>2, ThingsSent DEF Sent
<1>8. Things(Sent') = Append(g, <<Index, i>>)
  <2>1. Things(Frames(out) \o Serialize(WriteIndex(dd, i))) = Append(g, <<Index, i>>)
    BY <1>2, <1>4, IndexFollows
  <2>2. Sent' = Frames(out) \o Serialize(WriteIndex(dd, i))
    BY <1>1 DEF Sent
  <2> QED
    BY <2>1, <2>2
<1>9. Quiet(Append(g, <<Index, i>>) \o Literal(y), BlockSize, sums)
  <2>1. i \in Nat
    BY <1>2, <1>4
  <2>2. /\ g \in Seq(Item) /\ window \in Seq(Bytes) /\ y \in Seq(Bytes) /\ window # << >>
        /\ Len(y) <= Len(window) /\ Quiet(g \o Literal(window), Len(window), sums)
    BY <1>2, <1>3, <1>5, <1>6, <1>7
  <2> HIDE DEF g, y
  <2>3. Quiet(Append(g, <<Index, i>>) \o Literal(y), Len(window), sums)
    BY <2>1, <2>2, MatchKeeps
  <2> QED
    BY <2>3, <1>2
<1>10. NoKnownBlockSent'
  BY <1>1 DEF NoKnownBlockSent
<1>11. /\ pc' = "roll" => Quiet(Things(Sent') \o Literal(window'), BlockSize', DOMAIN hMap')
       /\ pc' = "finish" =>
            Quiet(Things(Sent') \o Literal(window' \o buf'), BlockSize', DOMAIN hMap')
  BY <1>1, <1>2, <1>8, <1>9 DEF sums
<1> QED
  BY <1>1, <1>10, <1>11 DEF DeltaInv

\* The loop ends without a match: the window is all that is left.
LEMMA EndDelta == RollInv /\ DeltaInv /\ NoMatchAtEnd => DeltaInv'
<1> SUFFICES ASSUME RollInv, DeltaInv, NoMatchAtEnd PROVE DeltaInv'
  OBVIOUS
<1>1. /\ pc = "roll" /\ pc' = "finish" /\ UNCHANGED <<fileVars, hMap, readVars, dd, out>>
      /\ buf = << >> /\ FilesInv /\ window \in Seq(Bytes)
  BY DEF NoMatchAtEnd, Looking, Goto, RollInv, TypesInv, BuffersInv
<1>2. window' \o buf' = window
  BY <1>1, BytesEmpty DEF readVars
<1>3. BlockSize' = BlockSize
  BY <1>1, SameFiles
<1>4. Sent' = Sent
  BY <1>1 DEF Sent
<1>5. NoKnownBlockSent'
  BY <1>1 DEF NoKnownBlockSent
<1> QED
  BY <1>1, <1>2, <1>3, <1>4, <1>5 DEF DeltaInv

\* What is left goes into the last message, in front of the End frame.
LEMMA FinishDelta == RollInv /\ DeltaInv /\ Finish => DeltaInv'
<1> SUFFICES ASSUME RollInv, DeltaInv, Finish PROVE DeltaInv'
  OBVIOUS
<1> DEFINE n == Blocks
           x == window \o buf
           e == WriteBytes(dd, x)
           t == Serialize(e)
           s == Frames(out) \o t
<1>1. /\ pc = "finish" /\ pc' = "done" /\ UNCHANGED <<fileVars, hMap, rest, dd>>
      /\ out' = Append(out, [seq |-> MarkAsLast(e).seq, frames |-> Serialize(MarkAsLast(e))])
  BY DEF Finish, Goto
<1>2. /\ FilesInv /\ BlockSize' = BlockSize /\ BlockSize \in Nat \ {0} /\ n \in Nat
      /\ IsDesc(dd, n) /\ out \in Seq(Messages(n)) /\ dd.seq = Len(out)
      /\ window \in Seq(Bytes) /\ buf \in Seq(Bytes)
  BY <1>1, SameFiles, Sizes DEF RollInv, TypesInv, DescInv, BuffersInv, RunningInv
<1>3. Quiet(Things(Sent) \o Literal(x), BlockSize, DOMAIN hMap)
  BY <1>1 DEF DeltaInv
<1>4. x \in Seq(Bytes)
  BY <1>2, BytesConcat
<1> HIDE DEF x
<1>5. IsDesc(e, n) /\ e.seq = dd.seq
  BY <1>2, <1>4, BytesNow
<1>6. Things(s) = Things(Sent) \o Literal(x)
  BY <1>2, <1>4, BytesFollow
<1> HIDE DEF e
<1>7. t \in Stream(n) /\ s \in Stream(n)
  BY <1>2, <1>5, ThingsSent
<1> HIDE DEF n
<1>8. PICK u \in Stream(n) : Serialize(MarkAsLast(e)) = Append(t, EndFrame) \o u
  BY <1>2, <1>5, LastIs
<1>9. MarkAsLast(e).seq = Len(out)
  BY <1>2, <1>5, LastIs
<1>10. out' = Append(out, [seq |-> Len(out), frames |-> Append(t, EndFrame) \o u])
  BY <1>1, <1>8, <1>9
<1> HIDE DEF t
<1>11. Frames(out') = Append(s, EndFrame) \o u
  <2>1. \A a \in Seq(Messages(n)), b, c \in Stream(n) :
          Frames(Append(a, [seq |-> Len(a), frames |-> Append(b, EndFrame) \o c])) =
            Append(Frames(a) \o b, EndFrame) \o c
    BY <1>2, EndedFrames, Zenon
  <2> QED
    BY <1>2, <1>7, <1>8, <1>10, <2>1, Zenon DEF s
<1>12. Quiet(Things(s), BlockSize', DOMAIN hMap') /\ BlockSize' \in Nat \ {0}
  BY <1>1, <1>2, <1>3, <1>6
<1> HIDE DEF s
<1>13. NoKnownBlockSent'
  BY <1>2, <1>7, <1>8, <1>11, <1>12, QuietEnd
<1> QED
  BY <1>1, <1>13 DEF DeltaInv

\* A bytes reader knows no block, ...
LEMMA BytesDelta == DeltaInv /\ (ReadBlock \/ ReadEnd) => DeltaInv'
<1> SUFFICES ASSUME DeltaInv, ReadBlock \/ ReadEnd PROVE DeltaInv'
  OBVIOUS
<1>1. hMap' = << >> /\ pc' \in {"bytes", "done"}
  BY DEF DeltaInv, ReadBlock, ReadEnd, Goto
<1>2. DOMAIN hMap' = {}
  BY <1>1
<1>3. NoKnownBlockSent'
  BY <1>2 DEF NoKnownBlockSent
<1> QED
  BY <1>1, <1>3 DEF DeltaInv

\* ... and a reader that has failed ends no stream.
LEMMA FailedDelta == FillFails \/ Failure => DeltaInv'
<1> SUFFICES ASSUME FillFails \/ Failure PROVE DeltaInv'
  OBVIOUS
<1>1. pc' = "failed"
  BY DEF FillFails, Failure, Goto
<1> QED
  BY <1>1 DEF DeltaInv, NoKnownBlockSent

\* No step sends a known block, or leaves one behind unseen.
LEMMA DeltaNext == RollInv /\ DeltaInv /\ [Next]_vars => DeltaInv'
<1> SUFFICES ASSUME RollInv, DeltaInv, [Next]_vars PROVE DeltaInv'
  OBVIOUS
<1>1. CASE Fill
  BY <1>1, FillDelta
<1>2. CASE FillFails \/ Failure
  BY <1>2, FailedDelta
<1>3. CASE SendData
  BY <1>3, SendDelta
<1>4. CASE Match
  BY <1>4, MatchDelta
<1>5. CASE NoMatch
  BY <1>5, NoMatchDelta
<1>6. CASE NoMatchAtEnd
  BY <1>6, EndDelta
<1>7. CASE Finish
  BY <1>7, FinishDelta
<1>8. CASE ReadBlock \/ ReadEnd
  BY <1>8, BytesDelta
<1>9. CASE UNCHANGED vars
  <2>1. /\ UNCHANGED <<fileVars, pc, hMap, window, buf, dd, out>>
        /\ BlockSize' = BlockSize
    BY <1>9, SameFiles DEF vars, readVars, RollInv, TypesInv
  <2>2. Sent' = Sent
    BY <2>1 DEF Sent
  <2>3. NoKnownBlockSent'
    BY <2>1 DEF DeltaInv, NoKnownBlockSent
  <2> QED
    BY <2>1, <2>2, <2>3 DEF DeltaInv
<1> QED
  BY <1>1, <1>2, <1>3, <1>4, <1>5, <1>6, <1>7, <1>8, <1>9 DEF Next, Read

\* The delta is one, whatever the files: no block whose sum is in the list goes
\* out byte by byte from any place of the section but the last, though the window
\* jumps over a block with every match and is filled anew behind it (rollV3).
THEOREM KnownBlocksFound == Spec => []NoKnownBlockSent
<1>1. DeltaInv => NoKnownBlockSent
  BY DEF DeltaInv
<1> QED
  BY <1>1, DeltaInit, DeltaNext, RollInductive, PTL DEF Spec

=============================================================================
