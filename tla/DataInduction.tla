--------------------------- MODULE DataInduction ---------------------------
(***************************************************************************)
(* Induction over data without operators as parameters: induction on a set *)
(* of numbers, the functions it defines, and what FlattenSeq returns.      *)
(***************************************************************************)
EXTENDS SequencesExt, SequenceTheorems, WellFoundedInduction, TLAPS

\* A set with 0, and with the successor of each of its numbers, has all of them: the
\* property to prove is the set of the numbers that have it.
LEMMA SetInduction ==
  ASSUME NEW S, 0 \in S, \A n \in Nat : n \in S => n + 1 \in S
  PROVE  Nat \subseteq S
<1> SUFFICES ASSUME ~(Nat \subseteq S) PROVE FALSE
  OBVIOUS
<1> DEFINE T == Nat \ S
           R == {pair \in Nat \X Nat : pair[1] < pair[2]}
<1>1. IsWellFoundedOn(R, Nat)
  BY NatLessThanWellFounded DEF OpToRel
<1>2. T \subseteq Nat /\ T # {}
  OBVIOUS
<1>3. \A x, y \in Nat : y < x => <<y, x>> \in R
  OBVIOUS
<1> HIDE DEF T, R
<1>4. PICK x \in T : \A y \in T : ~(<<y, x>> \in R)
  BY <1>1, <1>2, WFMin
<1>5. x \in Nat /\ x \notin S /\ x # 0
  BY <1>2 DEF T
<1>6. x - 1 \in Nat /\ x - 1 < x /\ (x - 1) + 1 = x
  BY <1>5
<1>7. x - 1 \notin T
  BY <1>3, <1>4, <1>5, <1>6
<1>8. x - 1 \in S
  BY <1>6, <1>7 DEF T
<1> QED
  BY <1>5, <1>6, <1>8

\* A function given by its first value and by its step exists.
IsRecursion(f, D, base, step, m) ==
  f \in [0..m -> D] /\ f[0] = base /\ \A n \in 1..m : f[n] = step[n][f[n - 1]]

\* Such a function exists for every number of steps.
LEMMA Recursion ==
  ASSUME NEW D, NEW base, base \in D, NEW step, step \in [Nat -> [D -> D]],
         NEW m, m \in Nat
  PROVE  \E f : IsRecursion(f, D, base, step, m)
<1> DEFINE Def(f, k) == f[0] = base /\ \A n \in 1..k : f[n] = step[n][f[n - 1]]
           S == {k \in Nat : \E f \in [0..k -> D] : Def(f, k)}
<1>1. 0 \in S
  <2> DEFINE f == [n \in 0..0 |-> base]
  <2>1. f \in [0..0 -> D] /\ Def(f, 0)
    OBVIOUS
  <2> HIDE DEF f, Def
  <2> QED
    BY <2>1
<1>2. ASSUME NEW k \in Nat, k \in S PROVE k + 1 \in S
  <2>1. PICK f \in [0..k -> D] : Def(f, k)
    BY <1>2
  <2>2. step[k + 1] \in [D -> D] /\ f[k] \in D
    BY k \in 0..k
  <2> DEFINE g == [n \in 0..(k + 1) |-> IF n = k + 1 THEN step[k + 1][f[k]] ELSE f[n]]
  <2>3. ASSUME NEW n \in 0..(k + 1) PROVE g[n] \in D
    <3>1. CASE n = k + 1
      BY <2>2, <3>1
    <3>2. CASE n # k + 1
      BY <3>2, n \in 0..k
    <3> QED
      BY <3>1, <3>2
  <2>4. g[k + 1] = step[k + 1][f[k]] /\ \A n \in 0..k : g[n] = f[n]
    OBVIOUS
  <2>5. g \in [0..(k + 1) -> D]
    BY <2>3
  <2> HIDE DEF g
  <2>6. Def(g, k + 1)
    <3>1. g[0] = base
      BY <2>1, <2>4
    <3>2. ASSUME NEW n \in 1..(k + 1) PROVE g[n] = step[n][g[n - 1]]
      <4>1. CASE n = k + 1
        BY <2>4, <4>1, k \in 0..k, n - 1 = k
      <4>2. CASE n # k + 1
        <5>1. n \in 1..k /\ n \in 0..k /\ n - 1 \in 0..k
          BY <4>2
        <5> QED
          BY <2>1, <2>4, <5>1
      <4> QED
        BY <4>1, <4>2
    <3> QED
      BY <3>1, <3>2
  <2> HIDE DEF Def
  <2> QED
    BY <2>5, <2>6
<1> HIDE DEF S
<1>3. Nat \subseteq S
  BY <1>1, <1>2, SetInduction
<1> QED
  BY <1>3 DEF S, IsRecursion

-----------------------------------------------------------------------------
\* Where each element of a concatenation is.
IsConcat(st, s, t) ==
  /\ Len(st) = Len(s) + Len(t)
  /\ \A i \in 1..Len(s) : st[i] = s[i]
  /\ \A i \in 1..Len(t) : st[Len(s) + i] = t[i]

\* A concatenation is a sequence, and has its two parts.
LEMMA Concatenated ==
  ASSUME NEW S, NEW s \in Seq(S), NEW t \in Seq(S)
  PROVE  s \o t \in Seq(S) /\ IsConcat(s \o t, s, t)
<1>1. Len(s) \in Nat /\ Len(t) \in Nat
  OBVIOUS
<1>2. /\ s \o t \in Seq(S) /\ Len(s \o t) = Len(s) + Len(t)
      /\ \A i \in 1..(Len(s) + Len(t)) :
           (s \o t)[i] = IF i <= Len(s) THEN s[i] ELSE t[i - Len(s)]
  BY ConcatProperties
<1> DEFINE m == Len(s)
           n == Len(t)
           st == s \o t
<1> HIDE DEF m, n, st
<1>3. /\ m \in Nat /\ n \in Nat
      /\ \A i \in 1..(m + n) : st[i] = IF i <= m THEN s[i] ELSE t[i - m]
  BY <1>1, <1>2 DEF m, n, st
<1>4. \A i \in 1..m : st[i] = s[i]
  BY <1>3
<1>5. ASSUME NEW i \in 1..n PROVE st[m + i] = t[i]
  <2>1. m + i \in 1..(m + n) /\ ~(m + i <= m) /\ (m + i) - m = i
    BY <1>3
  <2> QED
    BY <1>3, <2>1
<1> QED
  BY <1>2, <1>4, <1>5 DEF m, n, st, IsConcat

\* Without one of its elements, a sequence is shorter by one.
LEMMA RemoveAtProperties ==
  ASSUME NEW S, NEW s \in Seq(S), NEW at \in 1..Len(s)
  PROVE  /\ RemoveAt(s, at) \in Seq(S) /\ Len(RemoveAt(s, at)) = Len(s) - 1
         /\ \A j \in 1..(Len(s) - 1) : RemoveAt(s, at)[j] = IF j < at THEN s[j] ELSE s[j + 1]
<1> DEFINE n == Len(s)
           head == SubSeq(s, 1, at - 1)
           tail == SubSeq(s, at + 1, n)
           left == head \o tail
<1>1. n \in Nat /\ at \in 1..n /\ \A i \in 1..n : s[i] \in S
  OBVIOUS
<1>2. RemoveAt(s, at) = left
  BY DEF RemoveAt
<1> HIDE DEF n
<1>3. 1 \in Int /\ at - 1 \in Int /\ at + 1 \in Int /\ n \in Int
  BY <1>1
<1>4. (\A i \in 1..(at - 1) : s[i] \in S) /\ (\A i \in (at + 1)..n : s[i] \in S)
  BY <1>1
<1>5. /\ head \in Seq(S) /\ Len(head) = IF 1 <= at - 1 THEN (at - 1) - 1 + 1 ELSE 0
      /\ \A i \in 1..((at - 1) - 1 + 1) : head[i] = s[1 + i - 1]
  BY <1>3, <1>4, SubSeqProperties
<1>6. /\ tail \in Seq(S) /\ Len(tail) = IF at + 1 <= n THEN n - (at + 1) + 1 ELSE 0
      /\ \A i \in 1..(n - (at + 1) + 1) : tail[i] = s[(at + 1) + i - 1]
  BY <1>3, <1>4, SubSeqProperties
<1> HIDE DEF head, tail
<1>7. left \in Seq(S) /\ IsConcat(left, head, tail)
  BY <1>5, <1>6, Concatenated
<1> HIDE DEF left
<1>8. Len(head) = at - 1 /\ Len(tail) = n - at
  BY <1>1, <1>5, <1>6
<1>9. /\ Len(left) = (at - 1) + (n - at) /\ \A i \in 1..(at - 1) : left[i] = head[i]
      /\ \A i \in 1..(n - at) : left[(at - 1) + i] = tail[i]
  BY <1>7, <1>8 DEF IsConcat
<1>10. ASSUME NEW j \in 1..(n - 1) PROVE left[j] = IF j < at THEN s[j] ELSE s[j + 1]
  <2>1. CASE j < at
    <3>1. j \in 1..(at - 1) /\ j \in 1..((at - 1) - 1 + 1) /\ 1 + j - 1 = j
      BY <1>1, <2>1
    <3> QED
      BY <1>5, <1>9, <2>1, <3>1
  <2>2. CASE ~(j < at)
    <3> DEFINE i == j - (at - 1)
    <3>1. /\ i \in 1..(n - at) /\ i \in 1..(n - (at + 1) + 1)
          /\ (at - 1) + i = j /\ (at + 1) + i - 1 = j + 1
      BY <1>1, <2>2
    <3> HIDE DEF i
    <3> QED
      BY <1>6, <1>9, <2>2, <3>1
  <2> QED
    BY <2>1, <2>2
<1>11. Len(left) = n - 1
  BY <1>1, <1>9
<1> QED
  BY <1>2, <1>7, <1>10, <1>11 DEF n

\* Where each of the sequences begins in their concatenation, less one.
IsOffsets(seqs, ofs) ==
  /\ ofs \in [0..Len(seqs) -> Nat] /\ ofs[0] = 0
  /\ \A k \in 1..Len(seqs) : ofs[k] = ofs[k - 1] + Len(seqs[k])

\* A later sequence begins later.
LEMMA OffsetsGrow ==
  ASSUME NEW seqs, NEW ofs, IsOffsets(seqs, ofs), Len(seqs) \in Nat,
         \A k \in 1..Len(seqs) : Len(seqs[k]) \in Nat,
         NEW i \in 0..Len(seqs), NEW j \in 0..Len(seqs), i <= j
  PROVE  ofs[i] <= ofs[j]
<1> DEFINE m == Len(seqs)
           T == {n \in Nat : i + n <= m => ofs[i] <= ofs[i + n]}
<1>1. 0 \in T
  BY DEF IsOffsets
<1>2. ASSUME NEW n \in Nat, n \in T PROVE n + 1 \in T
  <2> SUFFICES ASSUME i + (n + 1) <= m PROVE ofs[i] <= ofs[i + (n + 1)]
    OBVIOUS
  <2>1. i + (n + 1) \in 1..m /\ (i + (n + 1)) - 1 = i + n /\ i + n \in 0..m /\ i + (n + 1) \in 0..m
    OBVIOUS
  <2>2. ofs[i + (n + 1)] = ofs[i + n] + Len(seqs[i + (n + 1)])
    BY <2>1 DEF IsOffsets
  <2>3. ofs[i] <= ofs[i + n]
    BY <1>2, <2>1
  <2>4. ofs[i] \in Nat /\ ofs[i + n] \in Nat /\ Len(seqs[i + (n + 1)]) \in Nat
    BY <2>1 DEF IsOffsets
  <2> QED
    BY <2>2, <2>3, <2>4
<1> HIDE DEF T
<1>3. j - i \in T
  BY <1>1, <1>2, SetInduction
<1> QED
  BY <1>3, i + (j - i) = j DEF T

\* What FlattenSeq has computed after each sequence.
IsFlattening(seqs, flat, S) ==
  /\ flat \in [0..Len(seqs) -> Seq(S)] /\ flat[0] = <<>>
  /\ \A n \in 1..Len(seqs) : flat[n] = flat[n - 1] \o seqs[n]

\* The partial concatenations of every sequence of sequences exist.
LEMMA FlatteningExists ==
  ASSUME NEW S, NEW seqs \in Seq(Seq(S))
  PROVE  \E flat : IsFlattening(seqs, flat, S)
<1> DEFINE D == Seq(S)
           m == Len(seqs)
           empty == <<>>
           step == [n \in Nat |-> [s \in D |-> IF n \in 1..m THEN s \o seqs[n] ELSE s]]
<1>1. m \in Nat /\ \A n \in 1..m : seqs[n] \in D
  OBVIOUS
<1>2. step \in [Nat -> [D -> D]]
  BY <1>1
<1>3. empty \in D
  OBVIOUS
<1>4. \A n \in 1..m : \A s \in D : step[n][s] = s \o seqs[n]
  <2> SUFFICES ASSUME NEW n \in 1..m, NEW s \in D PROVE step[n][s] = s \o seqs[n]
    OBVIOUS
  <2>1. n \in Nat
    OBVIOUS
  <2>2. step[n] = [t \in D |-> IF n \in 1..m THEN t \o seqs[n] ELSE t]
    BY <2>1
  <2> QED
    BY <2>2
<1> HIDE DEF D, m, empty, step
<1>5. PICK flat : IsRecursion(flat, D, empty, step, m)
  BY <1>1, <1>2, <1>3, Recursion
<1>6. ASSUME NEW n \in 1..m PROVE flat[n] = flat[n - 1] \o seqs[n]
  <2>1. n - 1 \in 0..m
    BY <1>1
  <2>2. flat[n - 1] \in D
    BY <1>5, <2>1 DEF IsRecursion
  <2> QED
    BY <1>4, <1>5, <2>2 DEF IsRecursion
<1> QED
  BY <1>5, <1>6 DEF IsFlattening, IsRecursion, D, m, empty

\* FlattenSeq recurs from the first sequence on.
LEMMA FlattenIsLast ==
  ASSUME NEW S, NEW seqs \in Seq(Seq(S)), NEW flat, IsFlattening(seqs, flat, S)
  PROVE  FlattenSeq(seqs) = flat[Len(seqs)]
<1> DEFINE m == Len(seqs)
           Def(f) == f = [i \in 1..m |-> IF i = 1 THEN seqs[i] ELSE f[i - 1] \o seqs[i]]
           f0 == [i \in 1..m |-> flat[i]]
           f1 == CHOOSE f : Def(f)
<1>1. m \in Nat /\ \A n \in 1..m : seqs[n] \in Seq(S)
  OBVIOUS
<1>2. flat[0] = <<>> /\ \A n \in 1..m : flat[n] = flat[n - 1] \o seqs[n]
  BY DEF IsFlattening
<1>3. m # 0 => flat[1] = seqs[1]
  <2> SUFFICES ASSUME m # 0 PROVE flat[1] = seqs[1]
    OBVIOUS
  <2>1. 1 \in 1..m /\ 1 - 1 = 0
    BY <1>1
  <2>2. flat[1] = <<>> \o seqs[1]
    BY <1>2, <2>1
  <2>3. seqs[1] \in Seq(S)
    BY <1>1, <2>1
  <2> QED
    BY <2>2, <2>3, ConcatEmptySeq
<1>4. Def(f0)
  <2>1. ASSUME NEW i \in 1..m
        PROVE  flat[i] = IF i = 1 THEN seqs[i] ELSE f0[i - 1] \o seqs[i]
    <3>1. CASE i = 1
      BY <1>3, <3>1
    <3>2. CASE i # 1
      <4>1. i - 1 \in 1..m
        BY <1>1, <3>2
      <4> QED
        BY <1>2, <3>2, <4>1
    <3> QED
      BY <3>1, <3>2
  <2> QED
    BY <2>1
<1>5. Def(f1)
  <2> HIDE DEF Def, f0
  <2> QED
    BY <1>4
<1>6. CASE m = 0
  BY <1>2, <1>6 DEF FlattenSeq
<1>7. CASE m # 0
  <2>1. FlattenSeq(seqs) = f1[m]
    BY <1>7 DEF FlattenSeq
  <2> HIDE DEF f1
  <2>2. \A i \in 1..m : f1[i] = IF i = 1 THEN seqs[i] ELSE f1[i - 1] \o seqs[i]
    <3> HIDE DEF m
    <3> QED
      BY <1>5
  <2> HIDE DEF Def, m
  <2>8. 1 \in 1..m
    BY <1>1, <1>7
  <2> DEFINE U == {n \in Nat : n + 1 <= m => f1[n + 1] = flat[n + 1]}
  <2>3. 0 \in U
    BY <1>3, <1>7, <2>2, <2>8
  <2>4. ASSUME NEW n \in Nat, n \in U PROVE n + 1 \in U
    <3> SUFFICES ASSUME (n + 1) + 1 <= m PROVE f1[(n + 1) + 1] = flat[(n + 1) + 1]
      OBVIOUS
    <3>1. (n + 1) + 1 \in 1..m /\ (n + 1) + 1 # 1 /\ ((n + 1) + 1) - 1 = n + 1 /\ n + 1 <= m
      BY <1>1
    <3>2. f1[(n + 1) + 1] = f1[n + 1] \o seqs[(n + 1) + 1]
      BY <2>2, <3>1
    <3>3. flat[(n + 1) + 1] = flat[n + 1] \o seqs[(n + 1) + 1]
      BY <1>2, <3>1
    <3> QED
      BY <2>4, <3>1, <3>2, <3>3
  <2>5. Nat \subseteq U
    <3> HIDE DEF U
    <3> QED
      BY <2>3, <2>4, SetInduction
  <2>6. m - 1 \in Nat /\ (m - 1) + 1 = m
    BY <1>1, <1>7
  <2>7. f1[m] = flat[m]
    BY <2>5, <2>6
  <2> QED
    BY <2>1, <2>7 DEF m
<1> QED
  BY <1>6, <1>7

\* The place of an element of the second part of a concatenation.
LEMMA After ==
  \A a, c, j \in Nat : 1 <= j /\ j <= c =>
    a + j \in 1..(a + c) /\ ~(a + j <= a) /\ (a + j) - a = j
OBVIOUS

\* The place of an element of the first part.
LEMMA Within ==
  \A a, c, j, o, l \in Nat : 1 <= j /\ j <= l /\ o + l <= a =>
    o + j \in 1..(a + c) /\ o + j \in 1..a /\ o + j <= a
OBVIOUS

\* The ends of the sequences in the whole.
AreEnds(seqs, flat, ofs) ==
  ofs \in [0..Len(seqs) -> Nat] /\ \A k \in 0..Len(seqs) : ofs[k] = Len(flat[k])

\* Where the elements of each sequence are in the whole.
LEMMA FlatteningPlaces ==
  ASSUME NEW S, NEW seqs \in Seq(Seq(S)), NEW flat, IsFlattening(seqs, flat, S),
         NEW ofs, AreEnds(seqs, flat, ofs)
  PROVE  /\ IsOffsets(seqs, ofs)
         /\ \A k \in 1..Len(seqs) : \A j \in 1..Len(seqs[k]) :
              flat[Len(seqs)][ofs[k - 1] + j] = seqs[k][j]
<1> DEFINE m == Len(seqs)
           Placed(n) == \A k \in 1..n : \A j \in 1..Len(seqs[k]) :
                          flat[n][ofs[k - 1] + j] = seqs[k][j]
           T == {n \in Nat : n <= m => Placed(n)}
<1>1. m \in Nat /\ \A n \in 1..m : seqs[n] \in Seq(S) /\ Len(seqs[n]) \in Nat
  OBVIOUS
<1>2. /\ flat[0] = <<>> /\ \A n \in 1..m : flat[n] = flat[n - 1] \o seqs[n]
      /\ \A n \in 0..m : flat[n] \in Seq(S)
  BY DEF IsFlattening
<1>3. \A n \in 0..m : ofs[n] = Len(flat[n]) /\ ofs[n] \in Nat
  BY <1>1, <1>2 DEF AreEnds
<1> HIDE DEF m
<1>4. IsOffsets(seqs, ofs)
  <2>1. ofs \in [0..m -> Nat] /\ ofs[0] = 0
    BY <1>1, <1>2, <1>3 DEF m, AreEnds
  <2>2. ASSUME NEW k \in 1..m PROVE ofs[k] = ofs[k - 1] + Len(seqs[k])
    <3>1. k \in 0..m /\ k - 1 \in 0..m
      BY <1>1
    <3>2. Len(flat[k - 1] \o seqs[k]) = Len(flat[k - 1]) + Len(seqs[k])
      BY <1>1, <1>2, <3>1, ConcatProperties
    <3> QED
      BY <1>2, <1>3, <3>1, <3>2
  <2> QED
    BY <2>1, <2>2 DEF IsOffsets, m
<1>5. 0 \in T
  OBVIOUS
<1>6. ASSUME NEW n \in Nat, n \in T PROVE n + 1 \in T
  <2>0. SUFFICES ASSUME n + 1 <= m PROVE Placed(n + 1)
    <3> HIDE DEF Placed
    <3> QED
      OBVIOUS
  <2> SUFFICES ASSUME NEW k \in 1..(n + 1), NEW j \in 1..Len(seqs[k])
               PROVE  flat[n + 1][ofs[k - 1] + j] = seqs[k][j]
    OBVIOUS
  <2>1. n \in 0..m /\ n + 1 \in 1..m /\ k \in 1..m /\ (n + 1) - 1 = n
    BY <1>1, <2>0
  <2>9. j \in Nat /\ 1 <= j /\ j <= Len(seqs[k])
    BY <1>1, <2>1
  <2>2. Placed(n)
    <3> HIDE DEF Placed
    <3> QED
      BY <1>1, <1>6, <2>1
  <2>3. flat[n] \in Seq(S) /\ seqs[n + 1] \in Seq(S) /\ Len(seqs[k]) \in Nat
    BY <1>1, <1>2, <2>1
  <2>4. flat[n + 1] = flat[n] \o seqs[n + 1]
    BY <1>2, <2>1
  <2> DEFINE a == ofs[n]
             c == Len(seqs[n + 1])
             now == flat[n + 1]
             next == seqs[n + 1]
  <2>6. a = Len(flat[n]) /\ a \in Nat /\ c \in Nat
    BY <1>1, <1>3, <2>1
  <2>5. \A i \in 1..(a + c) : now[i] = IF i <= a THEN flat[n][i] ELSE next[i - a]
    BY <2>3, <2>4, <2>6, ConcatProperties
  <2>7. CASE k = n + 1
    <3>1. ofs[k - 1] = a /\ seqs[k] = next /\ j <= c
      BY <2>1, <2>7, <2>9
    <3> HIDE DEF a, c, now, next
    <3>2. a + j \in 1..(a + c) /\ ~(a + j <= a) /\ (a + j) - a = j
      BY <2>6, <2>9, <3>1, After, Zenon
    <3>3. now[a + j] = next[j]
      BY <2>5, <3>2
    <3> QED
      BY <3>1, <3>3 DEF now
  <2>8. CASE k # n + 1
    <3>1. k \in 1..n /\ k \in 0..m /\ k <= n
      BY <2>1, <2>8
    <3>2. flat[n][ofs[k - 1] + j] = seqs[k][j]
      BY <2>2, <3>1
    <3>3. ofs[k] <= a
      BY <1>1, <1>4, <2>1, <3>1, OffsetsGrow DEF m
    <3>4. ofs[k] = ofs[k - 1] + Len(seqs[k]) /\ ofs[k - 1] \in Nat
      BY <1>3, <1>4, <2>1, k - 1 \in 0..m DEF IsOffsets, m
    <3> DEFINE o == ofs[k - 1]
               l == Len(seqs[k])
    <3>5. o \in Nat /\ l \in Nat /\ o + l <= a /\ j <= l
      BY <2>3, <2>9, <3>3, <3>4
    <3> HIDE DEF a, c, now, next, o, l
    <3>6. o + j \in 1..(a + c) /\ o + j <= a
      BY <2>6, <2>9, <3>5, Within, Zenon
    <3>7. now[o + j] = flat[n][o + j]
      BY <2>5, <3>6
    <3> QED
      BY <3>2, <3>7 DEF now, o
  <2> QED
    BY <2>7, <2>8
<1>7. m \in T
  <2> HIDE DEF T
  <2> QED
    BY <1>1, <1>5, <1>6, SetInduction
<1>8. Placed(m)
  <2> HIDE DEF Placed
  <2> QED
    BY <1>1, <1>7
<1> QED
  BY <1>1, <1>4, <1>8 DEF m

\* The concatenation has each of the sequences, from its offset on.
IsLayout(bytes, seqs, ofs) ==
  /\ IsOffsets(seqs, ofs) /\ Len(bytes) = ofs[Len(seqs)]
  /\ \A k \in 1..Len(seqs) : \A j \in 1..Len(seqs[k]) : bytes[ofs[k - 1] + j] = seqs[k][j]

\* What FlattenSeq returns.
LEMMA FlattenProperties ==
  ASSUME NEW S, NEW seqs \in Seq(Seq(S))
  PROVE  FlattenSeq(seqs) \in Seq(S) /\ \E ofs : IsLayout(FlattenSeq(seqs), seqs, ofs)
<1>1. PICK flat : IsFlattening(seqs, flat, S)
  BY FlatteningExists
<1> DEFINE ofs == [k \in 0..Len(seqs) |-> Len(flat[k])]
<1>2. FlattenSeq(seqs) = flat[Len(seqs)]
  BY <1>1, FlattenIsLast
<1>3. FlattenSeq(seqs) \in Seq(S) /\ Len(FlattenSeq(seqs)) = ofs[Len(seqs)]
  BY <1>1, <1>2 DEF IsFlattening
<1> HIDE DEF ofs
<1>4. AreEnds(seqs, flat, ofs)
  BY <1>1 DEF ofs, IsFlattening, AreEnds
<1>5. /\ IsOffsets(seqs, ofs)
      /\ \A k \in 1..Len(seqs) : \A j \in 1..Len(seqs[k]) :
           flat[Len(seqs)][ofs[k - 1] + j] = seqs[k][j]
  BY <1>1, <1>4, FlatteningPlaces
<1>6. \A k \in 1..Len(seqs) : \A j \in 1..Len(seqs[k]) :
        FlattenSeq(seqs)[ofs[k - 1] + j] = seqs[k][j]
  BY <1>2, <1>5
<1>7. IsLayout(FlattenSeq(seqs), seqs, ofs)
  BY <1>3, <1>5, <1>6 DEF IsLayout
<1> QED
  BY <1>3, <1>7
=============================================================================
