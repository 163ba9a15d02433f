----------------------------- MODULE WireProofs -----------------------------
(***************************************************************************)
(* What holds of the decoder and of the parser for any bytes, any chunks   *)
(* and any sizes.                                                          *)
(***************************************************************************)
EXTENDS WireProps, DataInduction

\* The bytes a body may have.
Bytes == Data \cup Digits \cup {"SP", "SEMI", "CR", "LF"}

\* The bytes of a line that are not in its size are no digits.
LEMMA DigitsAreNotMarks ==
  /\ \A digit \in Digits : digit \notin {"SP", "SEMI", "CR", "LF"}
  /\ "a" \in Digits
<1>1. \A n \in 1..16 : /\ Lower[n] \notin {"SP", "SEMI", "CR", "LF"}
                        /\ Upper[n] \notin {"SP", "SEMI", "CR", "LF"}
  BY DEF Lower, Upper
<1>2. 11 \in 1..16 /\ Lower[11] = "a"
  BY DEF Lower
<1> QED
  BY <1>1, <1>2 DEF Digits

\* What a digit is worth.
LEMMA ValuesAreNat == \A digit \in Digits : Value[digit] \in Nat
<1> SUFFICES ASSUME NEW digit \in Digits PROVE Value[digit] \in Nat
  OBVIOUS
<1>1. \E n \in 1..16 : digit \in {Lower[n], Upper[n]}
  BY DEF Digits
<1> DEFINE v == CHOOSE n \in 1..16 : digit \in {Lower[n], Upper[n]}
<1>2. v \in 1..16
  BY <1>1
<1>3. Value[digit] = v - 1
  BY DEF Value
<1> HIDE DEF v
<1> QED
  BY <1>2, <1>3

-----------------------------------------------------------------------------
(* Numbers                                                                 *)

\* The first of a set of numbers is its Min.
LEMMA MinIs ==
  ASSUME NEW S, NEW x \in S, S \subseteq Nat, \A y \in S : x <= y
  PROVE  Min(S) = x
<1>1. \A y \in S : Min(S) <= y /\ Min(S) \in S
  BY DEF Min
<1>2. Min(S) \in Nat /\ x \in Nat /\ Min(S) <= x /\ x <= Min(S)
  BY <1>1
<1> QED
  BY <1>2

\* The last of a set of numbers is its Max.
LEMMA MaxIs ==
  ASSUME NEW S, NEW x \in S, S \subseteq Nat, \A y \in S : y <= x
  PROVE  Max(S) = x
<1>1. \A y \in S : Max(S) >= y /\ Max(S) \in S
  BY DEF Max
<1>2. Max(S) \in Nat /\ x \in Nat /\ Max(S) <= x /\ x <= Max(S)
  BY <1>1
<1> QED
  BY <1>2

\* Every set of numbers that is not empty has a first one.
LEMMA FirstExists ==
  ASSUME NEW S, S \subseteq Nat, S # {}
  PROVE  \E x \in S : \A y \in S : x <= y
<1> DEFINE R == {pair \in Nat \X Nat : pair[1] < pair[2]}
<1>1. IsWellFoundedOn(R, Nat)
  BY NatLessThanWellFounded DEF OpToRel
<1>2. \A x, y \in Nat : y < x => <<y, x>> \in R
  OBVIOUS
<1> HIDE DEF R
<1>3. PICK x \in S : \A y \in S : ~(<<y, x>> \in R)
  BY <1>1, WFMin
<1>4. ASSUME NEW y \in S PROVE x <= y
  <2>1. x \in Nat /\ y \in Nat /\ ~(y < x)
    BY <1>2, <1>3
  <2> QED
    BY <2>1
<1> QED
  BY <1>4

\* A set of the numbers up to a bound that is not empty has a last one.
LEMMA LastExists ==
  ASSUME NEW n \in Nat, NEW S, S \subseteq 1..n, S # {}
  PROVE  \E x \in S : \A y \in S : y <= x
<1> DEFINE T == {t \in Nat : \E i \in S : t = n - i}
<1>1. T \subseteq Nat /\ T # {} /\ \A i \in S : i \in 1..n /\ n - i \in T
  <2>1. \A i \in S : i \in 1..n /\ n - i \in Nat
    OBVIOUS
  <2>2. \A i \in S : n - i \in T
    BY <2>1
  <2> QED
    BY <2>1, <2>2
<1>2. \A t \in T : \E i \in S : t = n - i
  OBVIOUS
<1> HIDE DEF T
<1>3. PICK t \in T : \A u \in T : t <= u
  BY <1>1, FirstExists
<1>4. PICK x \in S : t = n - x
  BY <1>2
<1>5. ASSUME NEW y \in S PROVE y <= x
  <2>1. t <= n - y /\ x \in 1..n /\ y \in 1..n
    BY <1>1, <1>3
  <2> QED
    BY <1>4, <2>1
<1> QED
  BY <1>5

\* int(size, 16) of any digits is a number.
LEMMA HexValueIsNat ==
  ASSUME NEW text \in Seq(Digits), IsSize(text)
  PROVE  HexValue(text) \in Nat
<1> DEFINE m == Len(text)
           step == [n \in Nat |-> [v \in Nat |-> IF n \in 1..m THEN 16 * v + Value[text[n]] ELSE v]]
           zero == 0
           Def(f) == f = [n \in 0..m |-> IF n = 0 THEN 0 ELSE 16 * f[n - 1] + Value[text[n]]]
           f1 == CHOOSE f : Def(f)
<1>1. m \in Nat /\ \A n \in 1..m : Value[text[n]] \in Nat
  BY ValuesAreNat
<1>2. step \in [Nat -> [Nat -> Nat]]
  BY <1>1
<1>3. \A n \in 1..m : \A v \in Nat : step[n][v] = 16 * v + Value[text[n]]
  <2> SUFFICES ASSUME NEW n \in 1..m, NEW v \in Nat
               PROVE  step[n][v] = 16 * v + Value[text[n]]
    OBVIOUS
  <2>1. n \in Nat
    OBVIOUS
  <2>2. step[n] = [u \in Nat |-> IF n \in 1..m THEN 16 * u + Value[text[n]] ELSE u]
    BY <2>1
  <2> QED
    BY <2>2
<1>4. zero \in Nat
  OBVIOUS
<1> HIDE DEF m, step, zero
<1>5. PICK f : IsRecursion(f, Nat, zero, step, m)
  BY <1>1, <1>2, <1>4, Recursion
<1>6. f \in [0..m -> Nat] /\ f[0] = 0 /\ \A n \in 1..m : f[n] = step[n][f[n - 1]]
  BY <1>5 DEF IsRecursion, zero
<1>7. ASSUME NEW n \in 0..m PROVE f[n] = IF n = 0 THEN 0 ELSE 16 * f[n - 1] + Value[text[n]]
  <2>1. CASE n = 0
    BY <1>6, <2>1
  <2>2. CASE n # 0
    <3>1. n \in 1..m /\ n - 1 \in 0..m
      BY <1>1, <2>2
    <3> QED
      BY <1>3, <1>6, <2>2, <3>1
  <2> QED
    BY <2>1, <2>2
<1>8. Def(f)
  BY <1>6, <1>7
<1>9. Def(f1)
  <2> HIDE DEF Def
  <2> QED
    BY <1>8
<1>10. HexValue(text) = f1[m]
  BY DEF HexValue, m
<1> HIDE DEF f1
<1>11. \A n \in 0..m : f1[n] = IF n = 0 THEN 0 ELSE 16 * f1[n - 1] + Value[text[n]]
  BY <1>9
<1> HIDE DEF Def
<1> DEFINE U == {n \in Nat : n <= m => f1[n] \in Nat}
<1>12. 0 \in U
  BY <1>1, <1>11
<1>13. ASSUME NEW n \in Nat, n \in U PROVE n + 1 \in U
  <2> SUFFICES ASSUME n + 1 <= m PROVE f1[n + 1] \in Nat
    OBVIOUS
  <2>1. n + 1 \in 0..m /\ n + 1 # 0 /\ (n + 1) - 1 = n /\ n + 1 \in 1..m /\ n <= m
    BY <1>1
  <2>2. f1[n + 1] = 16 * f1[n] + Value[text[n + 1]]
    BY <1>11, <2>1
  <2>3. f1[n] \in Nat /\ Value[text[n + 1]] \in Nat
    BY <1>1, <1>13, <2>1
  <2>4. \A a, b \in Nat : 16 * a + b \in Nat
    OBVIOUS
  <2> QED
    BY <2>2, <2>3, <2>4
<1>14. Nat \subseteq U
  <2> HIDE DEF U
  <2> QED
    BY <1>12, <1>13, SetInduction
<1> QED
  BY <1>1, <1>10, <1>14

-----------------------------------------------------------------------------
(* Places of the body                                                      *)

\* An opaque name: the provers lose arithmetic next to a membership in Seq.
BodyIsBytes == body \in Seq(Bytes)

\* The length of the body is a number.
LEMMA BodyLength == BodyIsBytes => Len(body) \in Nat
BY DEF BodyIsBytes

\* The bytes between two places of the body, the second one within it.
LEMMA SliceProperties ==
  ASSUME BodyIsBytes, NEW p \in Nat \ {0}, NEW q \in Nat, q <= Len(body)
  PROVE  /\ Slice(p, q) \in Seq(Bytes)
         /\ Len(Slice(p, q)) = IF p <= q THEN q - p + 1 ELSE 0
         /\ \A j \in 1..(q - p + 1) : Slice(p, q)[j] = body[p + j - 1]
<1>1. Len(body) \in Nat
  BY BodyLength
<1>2. Slice(p, q) = SubSeq(body, p, q)
  BY <1>1 DEF Slice
<1>3. \A i \in p..q : body[i] \in Bytes
  BY <1>1 DEF BodyIsBytes
<1> QED
  BY <1>2, <1>3, SubSeqProperties

\* The end of a line, byte by byte.
LEMMA CrLfProperties == Len(CRLF) = 2 /\ CRLF[1] = "CR" /\ CRLF[2] = "LF" /\ CRLF \in Seq(Bytes)
BY DEF CRLF, Bytes

\* Python compares a slice with the end of a line: a slice that is too short differs.
LEMMA LineEndAt ==
  ASSUME BodyIsBytes, NEW i \in Nat \ {0}
  PROVE  Slice(i, i + 1) = CRLF <=> i + 1 <= Len(body) /\ body[i] = "CR" /\ body[i + 1] = "LF"
<1> DEFINE b == Len(body)
<1>1. b \in Nat
  BY BodyLength
<1>2. CASE i + 1 <= b
  <2>1. i + 1 \in Nat /\ (i + 1) - i + 1 = 2 /\ i <= i + 1 /\ 1 \in 1..2 /\ 2 \in 1..2
        /\ i + 1 - 1 = i /\ i + 2 - 1 = i + 1
    OBVIOUS
  <2>2. /\ Slice(i, i + 1) \in Seq(Bytes) /\ Len(Slice(i, i + 1)) = 2
        /\ \A j \in 1..2 : Slice(i, i + 1)[j] = body[i + j - 1]
    BY <1>2, <2>1, SliceProperties
  <2>3. Slice(i, i + 1)[1] = body[i] /\ Slice(i, i + 1)[2] = body[i + 1]
    BY <2>1, <2>2
  <2> HIDE DEF b
  <2>4. Slice(i, i + 1) = CRLF <=> \A j \in 1..2 : Slice(i, i + 1)[j] = CRLF[j]
    BY <2>2, CrLfProperties, SeqEqual
  <2>5. (\A j \in 1..2 : Slice(i, i + 1)[j] = CRLF[j]) <=> body[i] = "CR" /\ body[i + 1] = "LF"
    BY <2>3, CrLfProperties
  <2> QED
    BY <1>2, <2>4, <2>5 DEF b
<1>3. CASE ~(i + 1 <= b)
  <2>1. Slice(i, i + 1) = Slice(i, b)
    BY <1>1, <1>3 DEF Slice
  <2>2. Len(Slice(i, b)) = IF i <= b THEN b - i + 1 ELSE 0
    BY <1>1, SliceProperties
  <2> HIDE DEF b
  <2>3. Len(Slice(i, b)) # 2
    BY <1>1, <1>3, <2>2
  <2> QED
    BY <1>3, <2>1, <2>3, CrLfProperties DEF b
<1> QED
  BY <1>2, <1>3

\* The rest of the body is the end of a line.
LEMMA LineEndIsAll ==
  ASSUME BodyIsBytes, NEW i \in Nat \ {0}
  PROVE  Slice(i, Len(body)) = CRLF <=>
           Len(body) = i + 1 /\ body[i] = "CR" /\ body[i + 1] = "LF"
<1> DEFINE b == Len(body)
<1>1. b \in Nat
  BY BodyLength
<1>2. Len(Slice(i, b)) = IF i <= b THEN b - i + 1 ELSE 0
  BY <1>1, SliceProperties
<1>3. Slice(i, i + 1) = CRLF <=> i + 1 <= b /\ body[i] = "CR" /\ body[i + 1] = "LF"
  BY LineEndAt
<1> HIDE DEF b
<1>4. CASE b = i + 1
  BY <1>1, <1>3, <1>4 DEF b
<1>5. CASE b # i + 1
  <2>1. Len(Slice(i, b)) # 2
    BY <1>1, <1>2, <1>5
  <2> QED
    BY <1>5, <2>1, CrLfProperties DEF b
<1> QED
  BY <1>4, <1>5

\* The end of a line at the first CR is the one find returns.
LEMMA FirstLineEnd ==
  ASSUME BodyIsBytes, NEW p \in Nat \ {0}, NEW q \in Nat, p <= q, q + 1 <= Len(body),
         body[q] = "CR", body[q + 1] = "LF", \A i \in p..(q - 1) : body[i] # "CR"
  PROVE  FindLineEnd(p) # {} /\ Min(FindLineEnd(p)) = q
<1>1. Len(body) \in Nat
  BY BodyLength
<1>2. q \in FindLineEnd(p)
  <2>1. q \in p..(Len(body) - 1) /\ q \in Nat \ {0}
    BY <1>1
  <2>2. Slice(q, q + 1) = CRLF
    BY <2>1, LineEndAt
  <2> QED
    BY <2>1, <2>2 DEF FindLineEnd
<1>3. ASSUME NEW i \in FindLineEnd(p) PROVE i \in Nat /\ q <= i
  <2>1. i \in p..(Len(body) - 1) /\ Slice(i, i + 1) = CRLF
    BY DEF FindLineEnd
  <2>2. i \in Nat \ {0} /\ p <= i
    BY <1>1, <2>1
  <2>3. body[i] = "CR"
    BY <2>1, <2>2, LineEndAt
  <2>4. ~(i \in p..(q - 1))
    BY <2>3
  <2> QED
    BY <2>2, <2>4
<1> QED
  BY <1>2, <1>3, MinIs

\* Without a CR before the last byte there is no end of a line.
LEMMA NoLineEnd ==
  ASSUME BodyIsBytes, NEW p \in Nat \ {0}, \A i \in p..(Len(body) - 1) : body[i] # "CR"
  PROVE  FindLineEnd(p) = {}
<1> SUFFICES ASSUME NEW i \in FindLineEnd(p) PROVE FALSE
  OBVIOUS
<1>1. i \in p..(Len(body) - 1) /\ Slice(i, i + 1) = CRLF /\ Len(body) \in Nat
  BY BodyLength DEF FindLineEnd
<1>2. i \in Nat \ {0}
  BY <1>1
<1> QED
  BY <1>1, <1>2, LineEndAt

\* Wherever a line ends, it ends in the body.
LEMMA LineEndIsPlace ==
  ASSUME BodyIsBytes, NEW p \in Nat \ {0}, FindLineEnd(p) # {}
  PROVE  Min(FindLineEnd(p)) \in p..(Len(body) - 1)
<1> DEFINE T == FindLineEnd(p)
<1>1. T \subseteq Nat /\ T \subseteq p..(Len(body) - 1) /\ T # {}
  BY BodyLength DEF FindLineEnd
<1> HIDE DEF T
<1>2. PICK x \in T : \A y \in T : x <= y
  BY <1>1, FirstExists
<1>3. Min(T) = x
  BY <1>1, <1>2, MinIs
<1> QED
  BY <1>1, <1>3 DEF T

-----------------------------------------------------------------------------
(* The line of a size                                                      *)

\* The other framing, and the line of a size without its end.
Marked == [before |-> <<"SP">>, after |-> <<"SP", "SEMI", "a">>]
Text(size, framing) == framing.before \o size \o framing.after

\* A text and the end of a line.
IsLine(line, text) ==
  /\ text \in Seq(Bytes) /\ Len(text) \in Nat /\ Len(text) >= 1
  /\ line \in Seq(Bytes) /\ Len(line) = Len(text) + 2
  /\ \A j \in 1..Len(text) : line[j] = text[j] /\ text[j] \notin {"CR", "LF"}
  /\ line[Len(text) + 1] = "CR" /\ line[Len(text) + 2] = "LF"

\* The bytes of a line are bytes of a body.
LEMMA BytesAre ==
  /\ Digits \subseteq Bytes
  /\ "SP" \in Bytes /\ "SEMI" \in Bytes /\ "a" \in Bytes
BY DigitsAreNotMarks DEF Bytes

\* A size is digits, and so has no marks.
LEMMA SizeProperties ==
  ASSUME NEW size \in Seq(Digits), IsSize(size)
  PROVE  /\ Len(size) \in Nat /\ Len(size) >= 1 /\ size \in Seq(Bytes)
         /\ \A j \in 1..Len(size) : size[j] \notin {"SP", "SEMI", "CR", "LF"}
<1>1. Len(size) \in Nat /\ \A j \in 1..Len(size) : size[j] \in Digits
  OBVIOUS
<1>2. Len(size) # 0
  BY DEF IsSize
<1>3. size \in Seq(Bytes)
  BY BytesAre
<1> QED
  BY <1>1, <1>2, <1>3, DigitsAreNotMarks

\* A size with spaces and an extension, byte by byte.
LEMMA MarkedText ==
  ASSUME NEW size \in Seq(Digits), IsSize(size)
  PROVE  LET text == Text(size, Marked)
         IN /\ text \in Seq(Bytes) /\ Len(text) = Len(size) + 4 /\ text[1] = "SP"
            /\ \A j \in 1..Len(size) : text[j + 1] = size[j]
            /\ text[Len(size) + 2] = "SP" /\ text[Len(size) + 3] = "SEMI"
            /\ text[Len(size) + 4] = "a"
<1> DEFINE l == Len(size)
           head == <<"SP">>
           tail == <<"SP", "SEMI", "a">>
           half == head \o size
           text == half \o tail
<1>1. l \in Nat /\ size \in Seq(Bytes)
  BY SizeProperties
<1>2. head \in Seq(Bytes) /\ Len(head) = 1 /\ head[1] = "SP"
  BY BytesAre
<1>3. /\ tail \in Seq(Bytes) /\ Len(tail) = 3
      /\ tail[1] = "SP" /\ tail[2] = "SEMI" /\ tail[3] = "a"
  BY BytesAre
<1>4. Text(size, Marked) = text
  BY DEF Text, Marked
<1> HIDE DEF head, tail
<1>5. half \in Seq(Bytes) /\ IsConcat(half, head, size)
  BY <1>1, <1>2, Concatenated
<1> HIDE DEF half
<1>6. Len(half) = 1 + l /\ half[1] = "SP" /\ \A i \in 1..l : half[1 + i] = size[i]
  BY <1>2, <1>5, 1 \in 1..1 DEF IsConcat
<1>12. text \in Seq(Bytes) /\ IsConcat(text, half, tail)
  BY <1>3, <1>5, Concatenated
<1> HIDE DEF text
<1>7. /\ text \in Seq(Bytes) /\ Len(text) = (1 + l) + 3
      /\ \A i \in 1..(1 + l) : text[i] = half[i]
      /\ \A i \in 1..3 : text[(1 + l) + i] = tail[i]
  BY <1>3, <1>6, <1>12 DEF IsConcat
<1> HIDE DEF l
<1>8. text[1] = "SP"
  <2>1. 1 \in 1..(1 + l)
    BY <1>1
  <2> QED
    BY <1>6, <1>7, <2>1
<1>9. ASSUME NEW j \in 1..l PROVE text[j + 1] = size[j]
  <2>1. j + 1 \in 1..(1 + l) /\ j + 1 = 1 + j
    BY <1>1
  <2> QED
    BY <1>6, <1>7, <2>1
<1>10. text[l + 2] = "SP" /\ text[l + 3] = "SEMI" /\ text[l + 4] = "a"
  <2>1. /\ (1 + l) + 1 = l + 2 /\ (1 + l) + 2 = l + 3 /\ (1 + l) + 3 = l + 4
        /\ 1 \in 1..3 /\ 2 \in 1..3 /\ 3 \in 1..3
    BY <1>1
  <2> QED
    BY <1>3, <1>7, <2>1
<1>11. (1 + l) + 3 = l + 4
  BY <1>1
<1> QED
  BY <1>4, <1>7, <1>8, <1>9, <1>10, <1>11 DEF l

\* A size alone on its line.
LEMMA BareText ==
  ASSUME NEW size \in Seq(Digits)
  PROVE  Text(size, Bare) = size
BY ConcatEmptySeq DEF Text, Bare

\* There are two framings.
LEMMA FramingIs == ASSUME NEW framing \in Framings PROVE framing = Bare \/ framing = Marked
BY DEF Framings, Marked

\* The line of a size is its text, which has no end of a line, and the end of one.
LEMMA SizeLineProperties ==
  ASSUME NEW size \in Seq(Digits), IsSize(size), NEW framing \in Framings
  PROVE  IsLine(SizeLine(size, framing), Text(size, framing))
<1> DEFINE text == Text(size, framing)
           t == Len(text)
           line == SizeLine(size, framing)
<1>1. text \in Seq(Bytes) /\ t \in Nat /\ t >= 1 /\ \A j \in 1..t : text[j] \notin {"CR", "LF"}
  <2>1. CASE framing = Bare
    BY <2>1, BareText, SizeProperties
  <2>2. CASE framing = Marked
    <3> DEFINE l == Len(size)
    <3>1. /\ text \in Seq(Bytes) /\ t = l + 4 /\ text[1] = "SP"
          /\ \A j \in 1..l : text[j + 1] = size[j]
          /\ text[l + 2] = "SP" /\ text[l + 3] = "SEMI" /\ text[l + 4] = "a"
      BY <2>2, MarkedText
    <3>2. l \in Nat /\ \A j \in 1..l : size[j] \notin {"SP", "SEMI", "CR", "LF"}
      BY SizeProperties
    <3> HIDE DEF text, t, l
    <3>3. ASSUME NEW j \in 1..t PROVE text[j] \notin {"CR", "LF"}
      <4>1. j = 1 \/ j - 1 \in 1..l \/ j = l + 2 \/ j = l + 3 \/ j = l + 4
        BY <3>1, <3>2
      <4>2. CASE j - 1 \in 1..l
        <5>1. text[(j - 1) + 1] = size[j - 1] /\ (j - 1) + 1 = j
          BY <3>1, <4>2
        <5> QED
          BY <3>2, <4>2, <5>1
      <4> QED
        BY <3>1, <4>1, <4>2
    <3>4. t \in Nat /\ t >= 1
      BY <3>1, <3>2
    <3> QED
      BY <3>1, <3>3, <3>4
  <2> QED
    BY <2>1, <2>2, FramingIs
<1>2. line = text \o CRLF
  BY DEF SizeLine, Text
<1> HIDE DEF text, line
<1>4. line \in Seq(Bytes) /\ IsConcat(line, text, CRLF)
  BY <1>1, <1>2, CrLfProperties, Concatenated
<1>3. /\ line \in Seq(Bytes) /\ Len(line) = t + 2
      /\ \A j \in 1..t : line[j] = text[j]
      /\ \A j \in 1..2 : line[t + j] = CRLF[j]
  BY <1>4, CrLfProperties DEF IsConcat
<1> HIDE DEF t
<1>5. line[t + 1] = "CR" /\ line[t + 2] = "LF"
  <2>1. 1 \in 1..2 /\ 2 \in 1..2
    OBVIOUS
  <2> QED
    BY <1>3, <2>1, CrLfProperties
<1>6. IsLine(line, text)
  BY <1>1, <1>3, <1>5 DEF IsLine, t
<1> QED
  BY <1>6 DEF line, text

\* What SizeText does to the line.
Trimmed(line) ==
  LET extension == SelectInSeq(line, LAMBDA byte : byte = "SEMI")
  IN Strip(IF extension = 0 THEN line ELSE SubSeq(line, 1, extension - 1))

\* Without its spaces, a line goes from its first other byte to the last one.
LEMMA StripIs ==
  ASSUME NEW line, Len(line) \in Nat, DOMAIN line = 1..Len(line),
         NEW lo \in 1..Len(line), NEW hi \in 1..Len(line),
         line[lo] \notin Space, line[hi] \notin Space,
         \A i \in 1..Len(line) : line[i] \notin Space => lo <= i /\ i <= hi
  PROVE  Strip(line) = SubSeq(line, lo, hi)
<1> DEFINE kept == {i \in DOMAIN line : line[i] \notin Space}
<1>1. /\ lo \in kept /\ hi \in kept /\ kept \subseteq Nat
      /\ \A i \in kept : lo <= i /\ i <= hi
  OBVIOUS
<1>2. Strip(line) = IF kept = {} THEN <<>> ELSE SubSeq(line, Min(kept), Max(kept))
  BY DEF Strip
<1> HIDE DEF kept
<1>3. Min(kept) = lo /\ Max(kept) = hi
  BY <1>1, MinIs, MaxIs
<1> QED
  BY <1>1, <1>2, <1>3

\* A line without an extension is stripped whole.
LEMMA NotFound ==
  ASSUME NEW line, \A i \in 1..Len(line) : line[i] # "SEMI"
  PROVE  Trimmed(line) = Strip(line)
<1>1. {i \in 1..Len(line) : line[i] = "SEMI"} = {}
  OBVIOUS
<1> QED
  BY <1>1 DEF Trimmed, SelectInSeq

\* A line with an extension is stripped up to it.
LEMMA FoundAt ==
  ASSUME NEW line, Len(line) \in Nat, NEW n \in 1..Len(line), line[n] = "SEMI",
         \A i \in 1..Len(line) : line[i] = "SEMI" => n <= i
  PROVE  Trimmed(line) = Strip(SubSeq(line, 1, n - 1))
<1> DEFINE I == {i \in 1..Len(line) : line[i] = "SEMI"}
<1>1. n \in I /\ I \subseteq Nat /\ \A i \in I : n <= i
  OBVIOUS
<1>2. Trimmed(line) = LET extension == IF I # {} THEN Min(I) ELSE 0
                      IN Strip(IF extension = 0 THEN line ELSE SubSeq(line, 1, extension - 1))
  BY DEF Trimmed, SelectInSeq
<1> HIDE DEF I
<1>3. Min(I) = n
  BY <1>1, MinIs
<1>4. I # {} /\ n # 0
  BY <1>1
<1> QED
  BY <1>2, <1>3, <1>4

\* Spaces and extension taken away, the text of a line is the size.
LEMMA TextIsTrimmed ==
  ASSUME NEW size \in Seq(Digits), IsSize(size), NEW framing \in Framings
  PROVE  Trimmed(Text(size, framing)) = size
<1> DEFINE l == Len(size)
<1>1. /\ l \in Nat /\ l >= 1 /\ size \in Seq(Bytes)
      /\ \A j \in 1..l : size[j] \notin {"SP", "SEMI", "CR", "LF"}
  BY SizeProperties
<1>2. CASE framing = Bare
  <2>1. Text(size, framing) = size
    BY <1>2, BareText
  <2>2. Trimmed(size) = Strip(size)
    BY <1>1, NotFound
  <2>3. DOMAIN size = 1..l /\ 1 \in 1..l /\ l \in 1..l
    BY <1>1
  <2>4. \A j \in 1..l : size[j] \notin Space /\ 1 <= j /\ j <= l
    BY <1>1 DEF Space
  <2>5. Strip(size) = SubSeq(size, 1, l)
    BY <1>1, <2>3, <2>4, StripIs
  <2>6. SubSeq(size, 1, l) = size
    BY SubSeqFull
  <2> QED
    BY <2>1, <2>2, <2>5, <2>6
<1>3. CASE framing = Marked
  <2> DEFINE text == Text(size, framing)
             cut == SubSeq(text, 1, l + 2)
  <2>1. /\ text \in Seq(Bytes) /\ Len(text) = l + 4 /\ text[1] = "SP"
        /\ \A j \in 1..l : text[j + 1] = size[j]
        /\ text[l + 2] = "SP" /\ text[l + 3] = "SEMI" /\ text[l + 4] = "a"
    BY <1>3, MarkedText
  <2> HIDE DEF l, text
  <2>2. Trimmed(text) = Strip(SubSeq(text, 1, (l + 3) - 1))
    <3>1. Len(text) \in Nat /\ l + 3 \in 1..Len(text)
      BY <1>1, <2>1
    <3>2. ASSUME NEW i \in 1..Len(text), text[i] = "SEMI" PROVE l + 3 <= i
      <4>1. i = 1 \/ i - 1 \in 1..l \/ i = l + 2 \/ l + 3 <= i
        BY <1>1, <2>1
      <4>2. CASE i - 1 \in 1..l
        <5>1. text[(i - 1) + 1] = size[i - 1] /\ (i - 1) + 1 = i
          BY <2>1, <4>2
        <5> QED
          BY <1>1, <3>2, <4>2, <5>1
      <4> QED
        BY <2>1, <3>2, <4>1, <4>2
    <3> QED
      BY <2>1, <3>1, <3>2, FoundAt
  <2>3. (l + 3) - 1 = l + 2
    BY <1>1
  <2>4. cut \in Seq(Bytes) /\ Len(cut) = l + 2 /\ \A i \in 1..(l + 2) : cut[i] = text[i]
    <3>1. \A i \in 1..(l + 2) : text[i] \in Bytes
      BY <1>1, <2>1
    <3>2. 1 \in Int /\ l + 2 \in Int /\ (l + 2) - 1 + 1 = l + 2 /\ 1 <= l + 2
      BY <1>1
    <3>3. /\ cut \in Seq(Bytes)
          /\ Len(cut) = IF 1 <= l + 2 THEN (l + 2) - 1 + 1 ELSE 0
          /\ \A i \in 1..((l + 2) - 1 + 1) : cut[i] = text[1 + i - 1]
      BY <3>1, <3>2, SubSeqProperties
    <3>4. \A i \in 1..(l + 2) : 1 + i - 1 = i
      BY <1>1
    <3> QED
      BY <3>2, <3>3, <3>4
  <2>5. DOMAIN cut = 1..Len(cut)
    BY <2>4
  <2> HIDE DEF cut
  <2>6. Strip(cut) = SubSeq(cut, 2, l + 1)
    <3>1. Len(cut) \in Nat /\ 2 \in 1..Len(cut) /\ l + 1 \in 1..Len(cut)
      BY <1>1, <2>4
    <3>2. ASSUME NEW j \in 1..l PROVE cut[j + 1] = size[j] /\ cut[j + 1] \notin Space
      <4>1. j + 1 \in 1..(l + 2)
        BY <1>1
      <4> QED
        BY <1>1, <2>1, <2>4, <4>1 DEF Space
    <3>3. cut[2] \notin Space /\ cut[l + 1] \notin Space
      <4>1. 1 \in 1..l /\ l \in 1..l /\ 1 + 1 = 2
        BY <1>1
      <4> QED
        BY <3>2, <4>1
    <3>4. ASSUME NEW i \in 1..Len(cut), cut[i] \notin Space PROVE 2 <= i /\ i <= l + 1
      <4>1. cut[1] = "SP" /\ cut[l + 2] = "SP"
        <5>1. 1 \in 1..(l + 2) /\ l + 2 \in 1..(l + 2)
          BY <1>1
        <5> QED
          BY <2>1, <2>4, <5>1
      <4>2. i # 1 /\ i # l + 2
        BY <3>4, <4>1 DEF Space
      <4> QED
        BY <1>1, <2>4, <4>2
    <3> QED
      BY <2>5, <3>1, <3>3, <3>4, StripIs
  <2>7. SubSeq(cut, 2, l + 1) = size
    <3> DEFINE t == SubSeq(cut, 2, l + 1)
    <3>1. \A i \in 2..(l + 1) : cut[i] \in Bytes
      BY <1>1, <2>4
    <3>2. 2 \in Int /\ l + 1 \in Int /\ 2 <= l + 1 /\ (l + 1) - 2 + 1 = l
      BY <1>1
    <3>3. /\ t \in Seq(Bytes) /\ Len(t) = IF 2 <= l + 1 THEN (l + 1) - 2 + 1 ELSE 0
          /\ \A i \in 1..((l + 1) - 2 + 1) : t[i] = cut[2 + i - 1]
      BY <3>1, <3>2, SubSeqProperties
    <3> HIDE DEF t
    <3>4. ASSUME NEW i \in 1..l PROVE t[i] = size[i]
      <4>1. 2 + i - 1 = i + 1 /\ i + 1 \in 1..(l + 2)
        BY <1>1
      <4> QED
        BY <2>1, <2>4, <3>2, <3>3, <4>1
    <3>5. t = size
      BY <1>1, <3>2, <3>3, <3>4, SeqEqual DEF l
    <3> QED
      BY <3>5 DEF t
  <2>8. Trimmed(text) = size
    BY <2>2, <2>3, <2>6, <2>7 DEF cut
  <2> QED
    BY <2>8 DEF text
<1> QED
  BY <1>2, <1>3, FramingIs

-----------------------------------------------------------------------------
(* Reading the line of a size                                              *)

\* The bytes of a sequence, at a place of the body.
Holds(place, seq) ==
  place + Len(seq) - 1 <= Len(body) /\ \A j \in 1..Len(seq) : body[place + j - 1] = seq[j]

\* Where the body has the line of a size, the decoder finds its end and reads the size.
LEMMA ReadsLine ==
  ASSUME BodyIsBytes, NEW size \in Seq(Digits), IsSize(size), NEW framing \in Framings,
         position \in Nat \ {0}, Holds(position, SizeLine(size, framing))
  PROVE  LET end == position + Len(SizeLine(size, framing)) - 2
         IN FindLineEnd(position) # {} /\ Min(FindLineEnd(position)) = end /\ SizeText(end) = size
<1> DEFINE line == SizeLine(size, framing)
           text == Text(size, framing)
           t == Len(text)
           end == position + t
<1>1. IsLine(line, text)
  BY SizeLineProperties
<1>2. Holds(position, line)
  OBVIOUS
<1>3. Trimmed(text) = size
  BY TextIsTrimmed
<1>4. SizeText(end) = Trimmed(Slice(position, end - 1))
  BY DEF SizeText, Trimmed
<1> HIDE DEF line, text
<1>5. /\ t \in Nat /\ t >= 1 /\ Len(line) = t + 2
      /\ \A j \in 1..t : line[j] = text[j] /\ text[j] \notin {"CR", "LF"}
      /\ line[t + 1] = "CR" /\ line[t + 2] = "LF"
  BY <1>1 DEF IsLine
<1>6. text \in Seq(Bytes)
  BY <1>1 DEF IsLine
<1>7. Len(body) \in Nat
  BY BodyLength
<1>8. /\ position + (t + 2) - 1 <= Len(body)
      /\ \A j \in 1..(t + 2) : body[position + j - 1] = line[j]
  BY <1>2, <1>5 DEF Holds
<1> HIDE DEF t
<1>9. ASSUME NEW j \in 1..t PROVE body[position + j - 1] = text[j]
  BY <1>5, <1>8, j \in 1..(t + 2)
<1>10. body[end] = "CR" /\ body[end + 1] = "LF"
  <2>1. /\ t + 1 \in 1..(t + 2) /\ t + 2 \in 1..(t + 2)
        /\ position + (t + 1) - 1 = end /\ position + (t + 2) - 1 = end + 1
    BY <1>5
  <2> QED
    BY <1>5, <1>8, <2>1
<1>11. \A i \in position..(end - 1) : body[i] # "CR"
  <2> SUFFICES ASSUME NEW i \in position..(end - 1) PROVE body[i] # "CR"
    OBVIOUS
  <2>1. (i - position) + 1 \in 1..t /\ position + ((i - position) + 1) - 1 = i
    BY <1>5
  <2> QED
    BY <1>5, <1>9, <2>1
<1>12. end \in Nat /\ position <= end /\ end + 1 <= Len(body)
  BY <1>5, <1>7, <1>8
<1>13. FindLineEnd(position) # {} /\ Min(FindLineEnd(position)) = end
  <2> HIDE DEF end
  <2> QED
    BY <1>10, <1>11, <1>12, FirstLineEnd
<1>14. Slice(position, end - 1) = text
  <2> DEFINE q == end - 1
             found == Slice(position, q)
  <2>1. q \in Nat /\ q <= Len(body) /\ position <= q /\ q - position + 1 = t
    BY <1>5, <1>7, <1>12
  <2> HIDE DEF q, end
  <2>2. /\ found \in Seq(Bytes) /\ Len(found) = t
        /\ \A j \in 1..t : found[j] = body[position + j - 1]
    BY <2>1, SliceProperties
  <2> HIDE DEF found
  <2>3. \A j \in 1..t : found[j] = text[j]
    BY <1>9, <2>2
  <2>4. found = text
    BY <1>6, <2>2, <2>3, SeqEqual DEF t
  <2> QED
    BY <2>4 DEF found, q
<1>15. position + Len(line) - 2 = end
  BY <1>5
<1> QED
  BY <1>3, <1>4, <1>13, <1>14, <1>15 DEF line

\* A line that the body does not have to its end is not found.
LEMMA MissesLine ==
  ASSUME BodyIsBytes, NEW size \in Seq(Digits), IsSize(size), NEW framing \in Framings,
         position \in Nat \ {0},
         LET line == SizeLine(size, framing)
         IN /\ Len(body) < position + Len(line) - 1
            /\ \A j \in 1..Len(line) : position + j - 1 <= Len(body) => body[position + j - 1] = line[j]
  PROVE  FindLineEnd(position) = {}
<1> DEFINE line == SizeLine(size, framing)
           t == Len(Text(size, framing))
<1>1. IsLine(line, Text(size, framing))
  BY SizeLineProperties
<1>2. /\ t \in Nat /\ Len(line) = t + 2
      /\ \A j \in 1..t : line[j] # "CR"
  BY <1>1 DEF IsLine
<1>3. Len(body) \in Nat
  BY BodyLength
<1> HIDE DEF line
<1>4. /\ Len(body) < position + (t + 2) - 1
      /\ \A j \in 1..(t + 2) : position + j - 1 <= Len(body) => body[position + j - 1] = line[j]
  BY <1>2 DEF line
<1> HIDE DEF t
<1>5. ASSUME NEW i \in position..(Len(body) - 1) PROVE body[i] # "CR"
  <2>1. /\ (i - position) + 1 \in 1..t /\ (i - position) + 1 \in 1..(t + 2)
        /\ position + ((i - position) + 1) - 1 = i /\ i <= Len(body)
    BY <1>2, <1>3, <1>4
  <2> QED
    BY <1>2, <1>4, <2>1
<1> QED
  BY <1>5, NoLineEnd

-----------------------------------------------------------------------------
(* What the Tydom sent                                                     *)

\* What the Tydom cuts the content into.
Chunked == chunks \in Seq(Seq(Data)) /\ \A i \in 1..Len(chunks) : Len(chunks[i]) >= 1

\* The chunks the Tydom sends are not empty.
LEMMA SentIsChunked == Sent => Chunked
<1> SUFFICES ASSUME Sent PROVE Chunked
  OBVIOUS
<1> DEFINE T == UNION {[1..n -> Data] : n \in 1..MaxChunk}
<1>1. PICK m \in 0..MaxChunks : chunks \in [1..m -> T]
  BY DEF Sent, SeqOf
<1>2. \A chunk \in T : chunk \in Seq(Data) /\ Len(chunk) >= 1
  <2> SUFFICES ASSUME NEW n \in 1..MaxChunk, NEW chunk \in [1..n -> Data]
               PROVE  chunk \in Seq(Data) /\ Len(chunk) >= 1
    OBVIOUS
  <2>1. n \in Nat /\ n >= 1
    BY BoundsAreNat
  <2> QED
    BY <2>1
<1> HIDE DEF T
<1>3. m \in Nat
  BY BoundsAreNat
<1>4. chunks \in Seq(T) /\ Len(chunks) = m
  BY <1>1, <1>3
<1>5. chunks \in Seq(Seq(Data))
  BY <1>2, <1>4
<1>6. \A i \in 1..Len(chunks) : Len(chunks[i]) >= 1
  BY <1>1, <1>2, <1>4
<1> QED
  BY <1>5, <1>6 DEF Chunked

\* The chunks and the empty one after them.
LEMMA AllChunksProperties ==
  ASSUME Chunked
  PROVE  /\ Len(chunks) \in Nat /\ Len(AllChunks) = Len(chunks) + 1
         /\ DOMAIN AllChunks = 1..(Len(chunks) + 1)
         /\ \A i \in 1..(Len(chunks) + 1) : AllChunks[i] \in Seq(Data)
         /\ \A i \in 1..Len(chunks) : AllChunks[i] = chunks[i] /\ Len(chunks[i]) >= 1
         /\ AllChunks[Len(chunks) + 1] = <<>>
<1>1. chunks \in Seq(Seq(Data)) /\ <<>> \in Seq(Data)
  BY DEF Chunked
<1>2. /\ AllChunks \in Seq(Seq(Data)) /\ Len(AllChunks) = Len(chunks) + 1
      /\ \A i \in 1..Len(chunks) : AllChunks[i] = chunks[i]
      /\ AllChunks[Len(chunks) + 1] = <<>>
  BY <1>1, AppendProperties DEF AllChunks
<1>3. Len(chunks) \in Nat
  BY <1>1
<1> HIDE DEF AllChunks
<1>4. DOMAIN AllChunks = 1..Len(AllChunks) /\ \A i \in 1..Len(AllChunks) : AllChunks[i] \in Seq(Data)
  BY <1>2
<1> QED
  BY <1>2, <1>3, <1>4 DEF Chunked

\* Each size sent says how long its chunk is.
LEMMA SizesProperties ==
  ASSUME Chunked, NEW sizes \in Sizes
  PROVE  /\ DOMAIN sizes = DOMAIN AllChunks
         /\ \A i \in DOMAIN AllChunks : /\ sizes[i] \in Seq(Digits) /\ IsSize(sizes[i])
                                         /\ HexValue(sizes[i]) = Len(AllChunks[i])
<1>1. sizes \in [DOMAIN AllChunks -> SizeTexts]
      /\ \A i \in DOMAIN sizes : HexValue(sizes[i]) = Len(AllChunks[i])
  BY DEF Sizes
<1>2. ASSUME NEW text \in SizeTexts PROVE text \in Seq(Digits) /\ IsSize(text)
  <2>1. IsSize(text) /\ \E m \in 0..MaxDigits : text \in [1..m -> Digits]
    BY DEF SizeTexts, SeqOf
  <2>2. PICK m \in 0..MaxDigits : text \in [1..m -> Digits]
    BY <2>1
  <2>3. m \in Nat
    BY BoundsAreNat
  <2> QED
    BY <2>1, <2>2, <2>3
<1> QED
  BY <1>1, <1>2

\* A chunk and its end.
LEMMA ChunkEnds ==
  ASSUME NEW chunk \in Seq(Data)
  PROVE  /\ chunk \o CRLF \in Seq(Bytes) /\ Len(chunk) \in Nat /\ Len(chunk \o CRLF) = Len(chunk) + 2
         /\ \A j \in 1..Len(chunk) : (chunk \o CRLF)[j] = chunk[j]
         /\ (chunk \o CRLF)[Len(chunk) + 1] = "CR" /\ (chunk \o CRLF)[Len(chunk) + 2] = "LF"
<1> DEFINE data == chunk \o CRLF
<1>1. chunk \in Seq(Bytes) /\ Len(chunk) \in Nat
  BY DEF Bytes
<1>2. data \in Seq(Bytes) /\ IsConcat(data, chunk, CRLF)
  BY <1>1, CrLfProperties, Concatenated
<1> HIDE DEF data
<1>3. /\ Len(data) = Len(chunk) + 2 /\ \A j \in 1..Len(chunk) : data[j] = chunk[j]
      /\ data[Len(chunk) + 1] = "CR" /\ data[Len(chunk) + 2] = "LF"
  BY <1>2, CrLfProperties, 1 \in 1..2, 2 \in 1..2 DEF IsConcat
<1> QED
  BY <1>1, <1>2, <1>3 DEF data

\* A damage, by its kind.
IsDamage(harm, sizes, framing) ==
  \/ harm = Unharmed
  \/ harm.is = "added" /\ harm.byte \in Data
  \/ harm.is = "cut" /\ harm.at \in 1..Len(Framed(sizes, framing, Unharmed))
  \/ harm.is = "size" /\ harm.frame \in DOMAIN sizes
                     /\ harm.at \in 1..Len(SizeLine(sizes[harm.frame], framing))
  \/ harm.is = "lost" /\ harm.frame \in DOMAIN sizes
                     /\ harm.at \in 1..(Len(AllChunks[harm.frame]) + 2)

\* The damages a body may have.
LEMMA DamagesAre ==
  ASSUME NEW sizes, NEW framing, NEW harm \in Damages(sizes, framing)
  PROVE  IsDamage(harm, sizes, framing)
<1>1. CASE harm \in [is : {"added"}, byte : Data]
  BY <1>1 DEF IsDamage
<1>2. CASE harm \in [is : {"cut"}, at : 1..Len(Framed(sizes, framing, Unharmed))]
  BY <1>2 DEF IsDamage
<1>3. CASE \E i \in DOMAIN sizes :
             harm \in [is : {"size"}, frame : {i}, at : 1..Len(SizeLine(sizes[i], framing))]
  BY <1>3 DEF IsDamage
<1>4. CASE \E i \in DOMAIN sizes :
             harm \in [is : {"lost"}, frame : {i}, at : 1..(Len(AllChunks[i]) + 2)]
  BY <1>4 DEF IsDamage
<1> QED
  BY <1>1, <1>2, <1>3, <1>4 DEF Damages, IsDamage

\* The frames are bytes, whatever became of one.
LEMMA FramesAreBytes ==
  ASSUME Chunked, NEW sizes \in Sizes, NEW framing \in Framings,
         NEW harm, IsDamage(harm, sizes, framing)
  PROVE  /\ Frames(sizes, framing, harm) \in Seq(Seq(Bytes))
         /\ Len(Frames(sizes, framing, harm)) = Len(chunks) + 1
         /\ \A i \in DOMAIN AllChunks :
              Frames(sizes, framing, harm)[i]
                = Frame(SizeLine(sizes[i], framing), AllChunks[i] \o CRLF, i, harm)
<1> DEFINE F == Frames(sizes, framing, harm)
           N == Len(chunks) + 1
<1>1. DOMAIN AllChunks = 1..N /\ N \in Nat
  BY AllChunksProperties
<1>2. ASSUME NEW i \in 1..N
      PROVE  Frame(SizeLine(sizes[i], framing), AllChunks[i] \o CRLF, i, harm) \in Seq(Bytes)
  <2> DEFINE line == SizeLine(sizes[i], framing)
             data == AllChunks[i] \o CRLF
             n == Len(AllChunks[i])
  <2>1. sizes[i] \in Seq(Digits) /\ IsSize(sizes[i]) /\ DOMAIN sizes = 1..N
    BY <1>1, SizesProperties
  <2>2. line \in Seq(Bytes)
    BY <2>1, SizeLineProperties DEF IsLine
  <2>3. data \in Seq(Bytes) /\ Len(data) = n + 2
    BY <1>1, AllChunksProperties, ChunkEnds
  <2>4. harm.is = "size" /\ harm.frame = i => harm.at \in 1..Len(line)
    BY DEF IsDamage, Unharmed
  <2>5. harm.is = "lost" /\ harm.frame = i => harm.at \in 1..(n + 2)
    BY DEF IsDamage, Unharmed
  <2> HIDE DEF line, data, n
  <2>6. harm.is = "size" /\ harm.frame = i => RemoveAt(line, harm.at) \in Seq(Bytes)
    BY <2>2, <2>4, RemoveAtProperties
  <2>7. harm.is = "lost" /\ harm.frame = i => RemoveAt(data, harm.at) \in Seq(Bytes)
    BY <2>3, <2>5, RemoveAtProperties
  <2>8. Frame(line, data, i, harm) \in Seq(Bytes)
    <3>1. CASE harm.is = "size" /\ harm.frame = i
      BY <2>3, <2>6, <3>1, Concatenated DEF Frame
    <3>2. CASE harm.is = "lost" /\ harm.frame = i
      BY <2>2, <2>7, <3>2, Concatenated DEF Frame
    <3>3. CASE ~(harm.is = "size" /\ harm.frame = i) /\ ~(harm.is = "lost" /\ harm.frame = i)
      BY <2>2, <2>3, <3>3, Concatenated DEF Frame
    <3> QED
      BY <3>1, <3>2, <3>3
  <2> QED
    BY <2>8 DEF line, data
<1>3. /\ F \in [1..N -> Seq(Bytes)]
      /\ \A i \in 1..N :
           F[i] = Frame(SizeLine(sizes[i], framing), AllChunks[i] \o CRLF, i, harm)
  BY <1>1, <1>2 DEF Frames
<1> HIDE DEF F, N
<1>4. F \in Seq(Seq(Bytes)) /\ Len(F) = N
  BY <1>1, <1>3
<1> QED
  BY <1>1, <1>3, <1>4 DEF F, N

\* Where each frame is in the body, the part of it that did not get lost.
Laid(sizes, framing, ofs) ==
  LET F == Frames(sizes, framing, damage)
      total == ofs[Len(chunks) + 1]
  IN /\ sizes \in Sizes /\ framing \in Framings /\ IsDamage(damage, sizes, framing)
     /\ IsOffsets(F, ofs)
     /\ damage.is \in {"none", "lost", "size"} => Len(body) = total
     /\ damage.is = "added" => Len(body) = total + 1
     /\ damage.is = "cut" => Len(body) < total
     /\ \A k \in 1..(Len(chunks) + 1) : \A j \in 1..Len(F[k]) :
          ofs[k - 1] + j <= Len(body) => body[ofs[k - 1] + j] = F[k][j]

\* The frames are those of the undamaged body when it is cut.
LEMMA CutFrames ==
  ASSUME NEW sizes, NEW framing, NEW harm, harm.is = "cut"
  PROVE  Frames(sizes, framing, harm) = Frames(sizes, framing, Unharmed)
BY DEF Frames, Frame, Unharmed

\* The kinds of damage.
LEMMA DamageKinds ==
  ASSUME NEW harm, NEW sizes, NEW framing, IsDamage(harm, sizes, framing)
  PROVE  harm.is \in {"none", "added", "cut", "size", "lost"}
BY DEF IsDamage, Unharmed

\* The body sent is laid out frame after frame.
LEMMA FramedIsLaid ==
  ASSUME Chunked, NEW sizes \in Sizes, NEW framing \in Framings,
         damage \in Damages(sizes, framing), body = Framed(sizes, framing, damage)
  PROVE  BodyIsBytes /\ \E ofs : Laid(sizes, framing, ofs)
<1> DEFINE F == Frames(sizes, framing, damage)
           N == Len(chunks) + 1
           bytes == FlattenSeq(F)
           b == Len(body)
<1>1. IsDamage(damage, sizes, framing)
  BY DamagesAre
<1>2. F \in Seq(Seq(Bytes)) /\ Len(F) = N
  BY <1>1, FramesAreBytes
<1>3. N \in Nat /\ N >= 1
  BY AllChunksProperties
<1>4. body = CASE damage.is = "cut" -> SubSeq(bytes, 1, damage.at - 1)
               [] damage.is = "added" -> Append(bytes, damage.byte)
               [] OTHER -> bytes
  BY DEF Framed
<1>5. damage.is = "cut" => damage.at \in 1..Len(bytes)
  <2> SUFFICES ASSUME damage.is = "cut" PROVE damage.at \in 1..Len(bytes)
    OBVIOUS
  <2>1. F = Frames(sizes, framing, Unharmed)
    BY CutFrames
  <2>2. Framed(sizes, framing, Unharmed) = FlattenSeq(Frames(sizes, framing, Unharmed))
    BY DEF Framed, Unharmed
  <2> QED
    BY <1>1, <2>1, <2>2 DEF IsDamage, Unharmed
<1>6. damage.is = "added" => damage.byte \in Bytes
  BY <1>1 DEF IsDamage, Unharmed, Bytes
<1> HIDE DEF F
<1>7. bytes \in Seq(Bytes) /\ \E ofs : IsLayout(bytes, F, ofs)
  BY <1>2, FlattenProperties
<1> HIDE DEF bytes, N
<1>8. PICK ofs : IsLayout(bytes, F, ofs)
  BY <1>7
<1> DEFINE total == ofs[N]
<1>9. /\ IsOffsets(F, ofs) /\ total = Len(bytes)
      /\ \A k \in 1..N : \A j \in 1..Len(F[k]) : bytes[ofs[k - 1] + j] = F[k][j]
  BY <1>2, <1>8 DEF IsLayout
<1>10. total \in Nat
  BY <1>7, <1>9
<1> DEFINE Kept ==
             /\ damage.is \in {"none", "lost", "size"} => b = total
             /\ damage.is = "added" => b = total + 1
             /\ damage.is = "cut" => b < total
             /\ \A i \in 1..total : i <= b => body[i] = bytes[i]
<1>14. body \in Seq(Bytes) /\ Kept
  <2>1. CASE damage.is = "cut"
    <3> DEFINE at == damage.at
    <3>1. /\ at \in Nat /\ at >= 1 /\ at - 1 < total
          /\ \A i \in 1..(at - 1) : bytes[i] \in Bytes
      BY <1>5, <1>7, <1>9, <1>10, <2>1
    <3>2. body = SubSeq(bytes, 1, at - 1)
      BY <1>4, <2>1
    <3> HIDE DEF at
    <3>3. at - 1 \in Int /\ 1 \in Int
      BY <3>1
    <3>4. /\ body \in Seq(Bytes) /\ b = IF 1 <= at - 1 THEN (at - 1) - 1 + 1 ELSE 0
          /\ \A i \in 1..((at - 1) - 1 + 1) : body[i] = bytes[1 + i - 1]
      BY <3>1, <3>2, <3>3, SubSeqProperties
    <3> HIDE DEF b, total
    <3>5. b = at - 1 /\ b < total
      BY <3>1, <3>4
    <3>6. ASSUME NEW i \in 1..total, i <= b PROVE body[i] = bytes[i]
      <4>1. i \in 1..((at - 1) - 1 + 1) /\ 1 + i - 1 = i
        BY <1>10, <3>1, <3>5, <3>6
      <4> QED
        BY <3>4, <4>1
    <3> QED
      BY <2>1, <3>4, <3>5, <3>6
  <2>2. CASE damage.is = "added"
    <3>1. body = Append(bytes, damage.byte)
      BY <1>4, <2>2
    <3>2. /\ body \in Seq(Bytes) /\ b = Len(bytes) + 1
          /\ \A i \in 1..Len(bytes) : body[i] = bytes[i]
      BY <1>6, <1>7, <2>2, <3>1, AppendProperties
    <3> HIDE DEF b, total
    <3> QED
      BY <1>9, <2>2, <3>2
  <2>3. CASE damage.is \in {"none", "lost", "size"}
    <3>1. body = bytes
      BY <1>4, <2>3
    <3> HIDE DEF total
    <3> QED
      BY <1>7, <1>9, <2>3, <3>1
  <2> QED
    BY <1>1, <2>1, <2>2, <2>3, DamageKinds
<1>15. b \in Nat
  BY <1>14
<1>16. ASSUME NEW k \in 1..N, NEW j \in 1..Len(F[k]), ofs[k - 1] + j <= b
       PROVE  body[ofs[k - 1] + j] = F[k][j]
  <2>1. bytes[ofs[k - 1] + j] = F[k][j]
    BY <1>9
  <2>2. ofs[k - 1] + j \in 1..total
    <3>1. \A i \in 1..N : F[i] \in Seq(Bytes) /\ Len(F[i]) \in Nat
      BY <1>2
    <3>2. k - 1 \in 0..N /\ k \in 0..N /\ N \in 0..N /\ k <= N
      BY <1>3
    <3>3. ofs[k] = ofs[k - 1] + Len(F[k]) /\ ofs[k - 1] \in Nat
      BY <1>2, <1>9, <3>2 DEF IsOffsets
    <3>4. ofs[k] <= ofs[N]
      BY <1>2, <1>3, <1>9, <3>1, <3>2, OffsetsGrow
    <3>5. Len(F[k]) \in Nat
      BY <3>1
    <3>6. j \in Nat /\ 1 <= j /\ j <= Len(F[k])
      BY <3>5
    <3>7. ofs[k - 1] + Len(F[k]) <= total
      BY <3>3, <3>4, Zenon
    <3> HIDE DEF total
    <3> QED
      BY <1>10, <3>3, <3>5, <3>6, <3>7, Within, Zenon
  <2> HIDE DEF b, total
  <2>3. body[ofs[k - 1] + j] = bytes[ofs[k - 1] + j]
    BY <1>14, <1>16, <2>2
  <2> QED
    BY <2>1, <2>3
<1>17. Laid(sizes, framing, ofs)
  BY <1>1, <1>9, <1>14, <1>16 DEF Laid, F, N
<1> QED
  BY <1>14, <1>17 DEF BodyIsBytes

-----------------------------------------------------------------------------
(* What the decoder finds at a frame                                       *)

\* As much of a sequence as the body has, at a place.
Starting(place, seq) ==
  \A j \in 1..Len(seq) : place + j - 1 <= Len(body) => body[place + j - 1] = seq[j]

\* A body that starts with a sequence and is long enough has it all.
LEMMA StartingHolds ==
  ASSUME NEW place, NEW seq, Starting(place, seq), BodyIsBytes, place \in Nat, Len(seq) \in Nat,
         place + Len(seq) - 1 <= Len(body)
  PROVE  Holds(place, seq)
<1>1. Len(body) \in Nat
  BY BodyLength
<1>2. ASSUME NEW j \in 1..Len(seq) PROVE body[place + j - 1] = seq[j]
  BY <1>1 DEF Starting
<1> QED
  BY <1>2 DEF Holds

\* Both parts of a frame, one after the other.
LEMMA StartingBoth ==
  ASSUME NEW place \in Nat, NEW s \in Seq(Bytes), NEW t \in Seq(Bytes), Starting(place, s \o t)
  PROVE  Starting(place, s) /\ Starting(place + Len(s), t)
<1> DEFINE st == s \o t
           m == Len(s)
           n == Len(t)
<1>1. IsConcat(st, s, t) /\ Starting(place, st)
  BY Concatenated
<1>2. m \in Nat /\ n \in Nat
  OBVIOUS
<1> HIDE DEF st
<1>3. /\ Len(st) = m + n /\ \A i \in 1..m : st[i] = s[i]
      /\ \A i \in 1..n : st[m + i] = t[i]
      /\ \A j \in 1..Len(st) : place + j - 1 <= Len(body) => body[place + j - 1] = st[j]
  BY <1>1 DEF IsConcat, Starting
<1> HIDE DEF m, n
<1>4. ASSUME NEW j \in 1..m, place + j - 1 <= Len(body) PROVE body[place + j - 1] = s[j]
  BY <1>2, <1>3, <1>4, j \in 1..(m + n)
<1>5. ASSUME NEW j \in 1..n, (place + m) + j - 1 <= Len(body)
      PROVE  body[(place + m) + j - 1] = t[j]
  <2>1. m + j \in 1..(m + n) /\ place + (m + j) - 1 = (place + m) + j - 1
    BY <1>2
  <2> QED
    BY <1>3, <1>5, <2>1
<1> QED
  BY <1>4, <1>5 DEF Starting, m, n

\* A frame, from the end of the one before it to its own.
FrameAt(ofs, k, f) ==
  /\ Starting(ofs[k - 1] + 1, f)
  /\ ofs[k - 1] \in Nat /\ ofs[k] = ofs[k - 1] + Len(f) /\ Len(f) \in Nat
  /\ ofs[k] \in Nat /\ ofs[Len(chunks) + 1] \in Nat /\ ofs[k] <= ofs[Len(chunks) + 1]

\* Each frame begins where the one before it ends.
LEMMA FrameStarts ==
  ASSUME Chunked, NEW sizes, NEW framing, NEW ofs, Laid(sizes, framing, ofs),
         NEW k \in 1..(Len(chunks) + 1)
  PROVE  FrameAt(ofs, k, Frame(SizeLine(sizes[k], framing), AllChunks[k] \o CRLF, k, damage))
<1> DEFINE F == Frames(sizes, framing, damage)
           N == Len(chunks) + 1
           f == Frame(SizeLine(sizes[k], framing), AllChunks[k] \o CRLF, k, damage)
<1>1. /\ sizes \in Sizes /\ framing \in Framings /\ IsDamage(damage, sizes, framing)
      /\ IsOffsets(F, ofs)
      /\ \A i \in 1..N : \A j \in 1..Len(F[i]) :
           ofs[i - 1] + j <= Len(body) => body[ofs[i - 1] + j] = F[i][j]
  BY DEF Laid
<1>2. F \in Seq(Seq(Bytes)) /\ Len(F) = N /\ DOMAIN AllChunks = 1..N /\ N \in Nat
      /\ \A i \in DOMAIN AllChunks :
           F[i] = Frame(SizeLine(sizes[i], framing), AllChunks[i] \o CRLF, i, damage)
  BY <1>1, FramesAreBytes, AllChunksProperties
<1>3. F[k] = f
  BY <1>2
<1> HIDE DEF F, f
<1>4. \A i \in 1..N : F[i] \in Seq(Bytes) /\ Len(F[i]) \in Nat
  BY <1>2
<1> HIDE DEF N
<1>5. k - 1 \in 0..N /\ k \in 0..N /\ N \in 0..N /\ k <= N /\ k \in 1..N
  BY <1>2 DEF N
<1>6. /\ ofs[k] = ofs[k - 1] + Len(F[k]) /\ ofs[k - 1] \in Nat /\ ofs[k] \in Nat /\ ofs[N] \in Nat
  BY <1>1, <1>2, <1>5 DEF IsOffsets
<1>7. ofs[k] <= ofs[N]
  BY <1>1, <1>2, <1>4, <1>5, OffsetsGrow
<1>8. Starting(ofs[k - 1] + 1, F[k])
  <2> SUFFICES ASSUME NEW j \in 1..Len(F[k]), (ofs[k - 1] + 1) + j - 1 <= Len(body)
               PROVE  body[(ofs[k - 1] + 1) + j - 1] = F[k][j]
    BY DEF Starting
  <2>1. j \in Nat
    BY <1>4, <1>5
  <2>2. (ofs[k - 1] + 1) + j - 1 = ofs[k - 1] + j
    <3>1. \A a, b \in Nat : (a + 1) + b - 1 = a + b
      OBVIOUS
    <3> QED
      BY <1>6, <2>1, <3>1, Zenon
  <2> QED
    BY <1>1, <1>5, <2>2
<1> QED
  BY <1>3, <1>4, <1>5, <1>6, <1>7, <1>8 DEF f, N, FrameAt

\* A frame that lost nothing.
WholeAt(ofs, k, line, data) ==
  /\ Starting(ofs[k - 1] + 1, line) /\ Starting((ofs[k - 1] + 1) + Len(line), data)
  /\ ofs[k] = (ofs[k - 1] + Len(line)) + Len(data)

\* A frame from which no byte was lost has its line and its chunk.
LEMMA WholeFrame ==
  ASSUME Chunked, NEW sizes, NEW framing, NEW ofs, Laid(sizes, framing, ofs),
         NEW k \in 1..(Len(chunks) + 1), damage.is # "size", damage.is = "lost" => damage.frame # k
  PROVE  WholeAt(ofs, k, SizeLine(sizes[k], framing), AllChunks[k] \o CRLF)
<1> DEFINE line == SizeLine(sizes[k], framing)
           place == ofs[k - 1] + 1
           data == AllChunks[k] \o CRLF
           f == Frame(line, data, k, damage)
<1>1. f = line \o data
  BY DEF Frame
<1>10. FrameAt(ofs, k, f)
  BY FrameStarts
<1> HIDE DEF f
<1>8. Starting(place, f) /\ ofs[k - 1] \in Nat /\ ofs[k] = ofs[k - 1] + Len(f)
  BY <1>10 DEF FrameAt
<1>2. /\ Starting(place, line \o data) /\ ofs[k - 1] \in Nat
      /\ ofs[k] = ofs[k - 1] + Len(line \o data)
  BY <1>1, <1>8
<1>9. place \in Nat
  BY <1>2
<1>3. line \in Seq(Bytes) /\ data \in Seq(Bytes)
  <2>1. DOMAIN AllChunks = 1..(Len(chunks) + 1) /\ AllChunks[k] \in Seq(Data)
    BY AllChunksProperties
  <2>2. sizes \in Sizes /\ framing \in Framings
    BY DEF Laid
  <2>3. sizes[k] \in Seq(Digits) /\ IsSize(sizes[k])
    BY <2>1, <2>2, SizesProperties
  <2>4. line \in Seq(Bytes)
    BY <2>2, <2>3, SizeLineProperties DEF IsLine
  <2> QED
    BY <2>1, <2>4, ChunkEnds
<1> HIDE DEF line, data
<1>4. Starting(place, line) /\ Starting(place + Len(line), data)
  <2> HIDE DEF place
  <2> QED
    BY <1>2, <1>3, <1>9, StartingBoth
<1>5. Len(line \o data) = Len(line) + Len(data)
  BY <1>3, Concatenated DEF IsConcat
<1>6. Len(line) \in Nat /\ Len(data) \in Nat
  BY <1>3
<1>7. ofs[k] = (ofs[k - 1] + Len(line)) + Len(data)
  <2> DEFINE a == ofs[k - 1]
             m == Len(line)
             n == Len(data)
  <2>1. a \in Nat /\ m \in Nat /\ n \in Nat /\ ofs[k] = a + (m + n)
    BY <1>2, <1>5, <1>6
  <2> HIDE DEF a, m, n
  <2>2. ofs[k] = (a + m) + n
    BY <2>1
  <2> QED
    BY <2>2 DEF a, m, n
<1> QED
  BY <1>4, <1>7 DEF line, data, WholeAt

\* What a frame is made of; its line does not begin with LF.
LEMMA FrameParts ==
  ASSUME Chunked, NEW sizes, NEW framing, NEW ofs, Laid(sizes, framing, ofs),
         NEW k \in 1..(Len(chunks) + 1)
  PROVE  /\ sizes[k] \in Seq(Digits) /\ IsSize(sizes[k]) /\ HexValue(sizes[k]) = Len(AllChunks[k])
         /\ framing \in Framings /\ AllChunks[k] \in Seq(Data) /\ Len(AllChunks[k]) \in Nat
         /\ SizeLine(sizes[k], framing) \in Seq(Bytes) /\ Len(SizeLine(sizes[k], framing)) \in Nat
         /\ Len(SizeLine(sizes[k], framing)) >= 3 /\ SizeLine(sizes[k], framing)[1] # "LF"
<1>1. DOMAIN AllChunks = 1..(Len(chunks) + 1) /\ AllChunks[k] \in Seq(Data)
  BY AllChunksProperties
<1>2. sizes \in Sizes /\ framing \in Framings
  BY DEF Laid
<1>3. sizes[k] \in Seq(Digits) /\ IsSize(sizes[k]) /\ HexValue(sizes[k]) = Len(AllChunks[k])
  BY <1>1, <1>2, SizesProperties
<1> DEFINE line == SizeLine(sizes[k], framing)
           text == Text(sizes[k], framing)
<1>4. IsLine(line, text)
  BY <1>2, <1>3, SizeLineProperties
<1> HIDE DEF line, text
<1>5. /\ line \in Seq(Bytes) /\ Len(text) \in Nat /\ Len(text) >= 1 /\ Len(line) = Len(text) + 2
      /\ \A j \in 1..Len(text) : line[j] = text[j] /\ text[j] \notin {"CR", "LF"}
  BY <1>4 DEF IsLine
<1>6. Len(line) \in Nat /\ Len(line) >= 3
  BY <1>5
<1>7. 1 \in 1..Len(text)
  BY <1>5
<1>8. line[1] # "LF"
  BY <1>5, <1>7
<1>9. Len(AllChunks[k]) \in Nat
  BY <1>1
<1> QED
  BY <1>1, <1>2, <1>3, <1>5, <1>6, <1>8, <1>9 DEF line

\* A frame that lost a byte of its chunk or of its end has no end where its size says.
LEMMA LostFrame ==
  ASSUME Chunked, BodyIsBytes, NEW sizes, NEW framing, NEW ofs, Laid(sizes, framing, ofs),
         NEW k \in 1..(Len(chunks) + 1), damage.is = "lost", damage.frame = k
  PROVE  LET line == SizeLine(sizes[k], framing)
             place == ofs[k - 1] + 1
             end == (place + Len(line)) + Len(AllChunks[k])
         IN /\ Starting(place, line)
            /\ k = Len(chunks) + 1 => Len(body) = end
            /\ k # Len(chunks) + 1 => ~(body[end] = "CR" /\ body[end + 1] = "LF")
<1> DEFINE line == SizeLine(sizes[k], framing)
           place == ofs[k - 1] + 1
           chunk == AllChunks[k]
           data == chunk \o CRLF
           at == damage.at
           rest == RemoveAt(data, at)
           l == Len(line)
           n == Len(chunk)
           N == Len(chunks) + 1
           end == (place + l) + n
           f == Frame(line, data, k, damage)
<1>1. f = line \o rest
  BY DEF Frame
<1>2. /\ Starting(place, f) /\ ofs[k - 1] \in Nat /\ ofs[k] = ofs[k - 1] + Len(f)
      /\ ofs[k] \in Nat /\ ofs[k] <= ofs[N]
  <2>1. FrameAt(ofs, k, f)
    BY FrameStarts
  <2> HIDE DEF f
  <2> QED
    BY <2>1 DEF FrameAt
<1>3. line \in Seq(Bytes) /\ l \in Nat /\ n \in Nat /\ chunk \in Seq(Data)
  BY FrameParts
<1>4. data \in Seq(Bytes) /\ Len(data) = n + 2 /\ data[n + 1] = "CR" /\ data[n + 2] = "LF"
  BY <1>3, ChunkEnds
<1>5. at \in 1..(n + 2)
  BY DEF Laid, IsDamage, Unharmed
<1>6. Len(body) = ofs[N] /\ N \in Nat
  BY AllChunksProperties DEF Laid
<1> HIDE DEF f, line, data, n, at, chunk, l
<1>7. /\ rest \in Seq(Bytes) /\ Len(rest) = Len(data) - 1
      /\ \A j \in 1..(Len(data) - 1) : rest[j] = IF j < at THEN data[j] ELSE data[j + 1]
  BY <1>4, <1>5, RemoveAtProperties
<1> HIDE DEF rest
<1>8. /\ Len(rest) = n + 1
      /\ rest[n + 1] = IF at = n + 2 THEN "CR" ELSE "LF"
  <2>1. Len(data) - 1 = n + 1 /\ n + 1 \in 1..(n + 1) /\ (n + 1) + 1 = n + 2
    BY <1>3, <1>4
  <2>2. n + 1 < at <=> at = n + 2
    BY <1>3, <1>5
  <2> QED
    BY <1>4, <1>7, <2>1, <2>2
<1>9. IsConcat(f, line, rest)
  BY <1>1, <1>3, <1>7, Concatenated
<1>10. Len(f) = l + (n + 1)
  BY <1>8, <1>9 DEF IsConcat, l
<1>11. place \in Nat
  BY <1>2
<1>12. Starting(place, line) /\ Starting(place + l, rest)
  <2> HIDE DEF place
  <2> QED
    BY <1>1, <1>2, <1>3, <1>7, <1>11, StartingBoth DEF l
<1> DEFINE o == ofs[k - 1]
           oo == ofs[k]
           total == ofs[N]
<1>13. o \in Nat /\ place = o + 1 /\ oo = o + (l + (n + 1)) /\ oo <= total /\ total = Len(body)
  BY <1>2, <1>6, <1>10
<1> HIDE DEF o, oo, total, place
<1>14. oo = end
  BY <1>3, <1>13
<1>15. body[end] = rest[n + 1]
  <2>1. n + 1 \in 1..Len(rest)
    BY <1>3, <1>8
  <2>2. (place + l) + (n + 1) - 1 = end
    BY <1>3, <1>11
  <2>3. end <= Len(body)
    BY <1>13, <1>14
  <2> HIDE DEF end
  <2> QED
    BY <1>12, <2>1, <2>2, <2>3 DEF Starting
<1> HIDE DEF end
<1>16. ASSUME k # N PROVE body[end + 1] # "LF"
  <2>1. k + 1 \in 1..N /\ (k + 1) - 1 = k
    BY <1>6, <1>16
  <2> HIDE DEF N
  <2> DEFINE next == SizeLine(sizes[k + 1], framing)
             first == AllChunks[k + 1] \o CRLF
             after == Len(first)
             p == ofs[(k + 1) - 1] + 1
  <2>10. k + 1 \in 1..(Len(chunks) + 1) /\ damage.is # "size" /\ damage.frame # k + 1
    BY <1>6, <2>1 DEF N
  <2>2. /\ Starting(p, next)
        /\ ofs[k + 1] = (ofs[(k + 1) - 1] + Len(next)) + after
    <3>1. WholeAt(ofs, k + 1, next, first)
      BY <2>10, WholeFrame
    <3> HIDE DEF next, first
    <3> QED
      BY <3>1 DEF WholeAt
  <2>3. next[1] # "LF" /\ Len(next) \in Nat /\ Len(next) >= 3 /\ AllChunks[k + 1] \in Seq(Data)
    BY <2>1, FrameParts DEF N
  <2>4. after \in Nat
    BY <2>3, ChunkEnds
  <2>5. ofs[k + 1] <= ofs[N]
    BY <2>10, FrameStarts DEF N, FrameAt
  <2> HIDE DEF next, after
  <2>6. p = end + 1 /\ ofs[(k + 1) - 1] = oo
    BY <1>14, <2>1 DEF oo
  <2>7. ofs[k + 1] = (oo + Len(next)) + after /\ ofs[k + 1] <= total
    BY <2>2, <2>5, <2>6 DEF total
  <2>8. end + 1 <= Len(body) /\ end \in Nat
    <3>1. oo \in Nat
      BY <1>2 DEF oo
    <3>2. \A a, b, c, t \in Nat : b >= 3 /\ (a + b) + c <= t => a + 1 <= t
      OBVIOUS
    <3>3. total \in Nat
      BY <1>6, <1>13, BodyLength
    <3>4. oo + 1 <= total
      BY <2>3, <2>4, <2>7, <3>1, <3>2, <3>3
    <3> QED
      BY <1>13, <1>14, <3>1, <3>4
  <2>9. 1 \in 1..Len(next) /\ (end + 1) + 1 - 1 = end + 1
    BY <2>3, <2>8
  <2> QED
    BY <2>2, <2>3, <2>6, <2>8, <2>9 DEF Starting
<1>17. k = N => Len(body) = end
  BY <1>13, <1>14 DEF oo, total
<1>18. k # N => ~(body[end] = "CR" /\ body[end + 1] = "LF")
  BY <1>16
<1> QED
  BY <1>12, <1>17, <1>18 DEF end, place, line, l, n, chunk

-----------------------------------------------------------------------------
(* The decoder at a frame                                                  *)

\* A part of a sequence of bytes.
LEMMA PartIsBytes ==
  ASSUME NEW line \in Seq(Bytes), NEW lo \in 1..Len(line), NEW hi \in 0..Len(line)
  PROVE  SubSeq(line, lo, hi) \in Seq(Bytes)
<1>1. lo \in Int /\ hi \in Int /\ \A i \in lo..hi : line[i] \in Bytes
  OBVIOUS
<1> QED
  BY <1>1, SubSeqProperties

\* A stripped line is bytes.
LEMMA StripIsBytes ==
  ASSUME NEW line \in Seq(Bytes)
  PROVE  Strip(line) \in Seq(Bytes)
<1> DEFINE kept == {i \in DOMAIN line : line[i] \notin Space}
<1>1. Strip(line) = IF kept = {} THEN <<>> ELSE SubSeq(line, Min(kept), Max(kept))
  BY DEF Strip
<1>2. Len(line) \in Nat /\ kept \subseteq 1..Len(line) /\ kept \subseteq Nat
  OBVIOUS
<1> HIDE DEF kept
<1>3. CASE kept = {}
  BY <1>1, <1>3
<1>4. CASE kept # {}
  <2>1. PICK lo \in kept : \A i \in kept : lo <= i
    BY <1>2, <1>4, FirstExists
  <2>2. PICK hi \in kept : \A i \in kept : i <= hi
    BY <1>2, <1>4, LastExists
  <2>3. Min(kept) = lo /\ Max(kept) = hi
    BY <1>2, <2>1, <2>2, MinIs, MaxIs
  <2>4. lo \in 1..Len(line) /\ hi \in 0..Len(line)
    BY <1>2
  <2> QED
    BY <1>1, <1>4, <2>3, <2>4, PartIsBytes
<1> QED
  BY <1>3, <1>4

\* The text of a size is a part of the body.
LEMMA SizeTextIsBytes ==
  ASSUME BodyIsBytes, position \in Nat \ {0}, NEW end \in Nat, position <= end, end <= Len(body)
  PROVE  SizeText(end) \in Seq(Bytes)
<1> DEFINE line == Slice(position, end - 1)
           I == {i \in 1..Len(line) : line[i] = "SEMI"}
           extension == IF I # {} THEN Min(I) ELSE 0
<1>1. SizeText(end) = Strip(IF extension = 0 THEN line ELSE SubSeq(line, 1, extension - 1))
  BY DEF SizeText, SelectInSeq
<1>2. line \in Seq(Bytes)
  <2>1. end - 1 \in Nat /\ end - 1 <= Len(body)
    BY BodyLength
  <2> QED
    BY <2>1, SliceProperties
<1> HIDE DEF line
<1>3. Len(line) \in Nat
  BY <1>2
<1>4. CASE I = {}
  BY <1>1, <1>2, <1>4, StripIsBytes
<1>5. CASE I # {}
  <2>1. I \subseteq 1..Len(line) /\ I \subseteq Nat
    BY <1>3
  <2> HIDE DEF I
  <2>2. PICK first \in I : \A i \in I : first <= i
    BY <1>5, <2>1, FirstExists
  <2>3. Min(I) = first
    BY <2>1, <2>2, MinIs
  <2>4. 1 \in 1..Len(line) /\ first - 1 \in 0..Len(line) /\ first # 0
    BY <1>3, <2>1
  <2>5. SubSeq(line, 1, first - 1) \in Seq(Bytes)
    BY <1>2, <2>4, PartIsBytes
  <2> QED
    BY <1>1, <1>5, <2>3, <2>4, <2>5, StripIsBytes
<1> QED
  BY <1>4, <1>5

\* One iteration of the loop: it stops, or it goes on at a later place of the body.
LEMMA DecodeAdvances ==
  ASSUME BodyIsBytes, position \in Nat \ {0}, DecodeChunk
  PROVE  \/ phase' \in {"typing", "read"}
         \/ phase' = phase /\ position' \in (position + 1)..(Len(body) + 1)
<1>1. CASE FindLineEnd(position) = {} /\ Refuse
  BY <1>1 DEF Refuse
<1>2. CASE \E lineEnd \in {Min(e) : e \in {FindLineEnd(position)} \ {{}}} :
             \E text \in {SizeText(lineEnd)} :
               \/ ~IsSize(text) /\ Refuse
               \/ /\ IsSize(text)
                  /\ \E size \in {HexValue(text)} :
                       \/ size = 0 /\ TakeLast(lineEnd + 2)
                       \/ size # 0 /\ TakeChunk(lineEnd + 2, lineEnd + 2 + size)
  <2> DEFINE lineEnd == Min(FindLineEnd(position))
             text == SizeText(lineEnd)
             size == HexValue(text)
             start == lineEnd + 2
             end == start + size
  <2>1. FindLineEnd(position) # {}
    BY <1>2
  <2>2. \/ Refuse
        \/ IsSize(text) /\ TakeLast(start)
        \/ IsSize(text) /\ size # 0 /\ TakeChunk(start, end)
    BY <1>2
  <2>3. lineEnd \in position..(Len(body) - 1) /\ Len(body) \in Nat
    BY <2>1, LineEndIsPlace, BodyLength
  <2> HIDE DEF lineEnd
  <2>4. text \in Seq(Bytes)
    <3>1. lineEnd \in Nat /\ position <= lineEnd /\ lineEnd <= Len(body)
      BY <2>3
    <3> QED
      BY <3>1, SizeTextIsBytes
  <2> HIDE DEF text
  <2>5. IsSize(text) => size \in Nat
    <3> SUFFICES ASSUME IsSize(text) PROVE size \in Nat
      OBVIOUS
    <3>1. text \in Seq(Digits)
      BY <2>4 DEF IsSize
    <3> QED
      BY <3>1, HexValueIsNat
  <2> HIDE DEF size
  <2>6. CASE IsSize(text) /\ size # 0 /\ TakeChunk(start, end)
    <3>1. size \in Nat /\ start \in Nat /\ end \in Nat \ {0} /\ position + 3 <= end
      BY <2>3, <2>5, <2>6
    <3> HIDE DEF end, start
    <3>2. CASE Slice(end, end + 1) # CRLF
      BY <2>6, <3>2 DEF TakeChunk, Refuse
    <3>3. CASE Slice(end, end + 1) = CRLF
      <4>1. end + 1 <= Len(body)
        BY <3>1, <3>3, LineEndAt
      <4>2. position' = end + 2 /\ phase' = phase
        BY <2>6, <3>3 DEF TakeChunk
      <4> QED
        BY <2>3, <3>1, <4>1, <4>2
    <3> QED
      BY <3>2, <3>3
  <2> QED
    BY <2>2, <2>6 DEF Refuse, TakeLast
<1> QED
  BY <1>1, <1>2 DEF DecodeChunk

\* At a frame whose line the body has, the decoder reads the size of the chunk.
LEMMA DecodeAtFrame ==
  ASSUME BodyIsBytes, position \in Nat \ {0}, DecodeChunk,
         NEW size \in Seq(Digits), IsSize(size), NEW framing \in Framings, NEW n \in Nat,
         HexValue(size) = n, Starting(position, SizeLine(size, framing))
  PROVE  LET line == SizeLine(size, framing)
             start == position + Len(line)
         IN IF position + Len(line) - 1 <= Len(body)
            THEN (n = 0 /\ TakeLast(start)) \/ (n # 0 /\ TakeChunk(start, start + n))
            ELSE Refuse
<1> DEFINE line == SizeLine(size, framing)
           start == position + Len(line)
           lineEnd == position + Len(line) - 2
<1>1. line \in Seq(Bytes) /\ Len(line) \in Nat
  BY SizeLineProperties DEF IsLine
<1>2. CASE position + Len(line) - 1 <= Len(body)
  <2>1. Holds(position, line)
    <3>1. Starting(position, line) /\ position \in Nat
      OBVIOUS
    <3> HIDE DEF line
    <3> QED
      BY <1>1, <1>2, <3>1, StartingHolds
  <2>2. FindLineEnd(position) # {} /\ Min(FindLineEnd(position)) = lineEnd /\ SizeText(lineEnd) = size
    BY <2>1, ReadsLine
  <2> HIDE DEF lineEnd
  <2>3. (n = 0 /\ TakeLast(lineEnd + 2)) \/ (n # 0 /\ TakeChunk(lineEnd + 2, lineEnd + 2 + n))
    BY <2>2 DEF DecodeChunk
  <2>4. lineEnd + 2 = start
    <3> HIDE DEF line
    <3> QED
      BY <1>1 DEF lineEnd
  <2> HIDE DEF line, start
  <2>5. (n = 0 /\ TakeLast(start)) \/ (n # 0 /\ TakeChunk(start, start + n))
    BY <2>3, <2>4
  <2> QED
    BY <1>2, <2>5 DEF line, start
<1>3. CASE ~(position + Len(line) - 1 <= Len(body))
  <2>1. FindLineEnd(position) = {}
    <3>1. Len(body) < position + Len(line) - 1
      <4> HIDE DEF line
      <4> QED
        BY <1>1, <1>3, BodyLength
    <3>2. \A j \in 1..Len(line) :
             position + j - 1 <= Len(body) => body[position + j - 1] = line[j]
      BY DEF Starting
    <3> QED
      BY <3>1, <3>2, MissesLine
  <2>2. Refuse
    BY <2>1 DEF DecodeChunk
  <2> QED
    BY <1>3, <2>2
<1> QED
  BY <1>2, <1>3

\* The decoder is about to read the k-th frame, has read the chunks before it, and no
\* byte of them was lost.
Synced(sizes, framing, ofs, flat, k) ==
  /\ Laid(sizes, framing, ofs) /\ IsFlattening(chunks, flat, Data)
  /\ k \in 1..(Len(chunks) + 1)
  /\ position = ofs[k - 1] + 1 /\ content = flat[k - 1]
  /\ damage.is = "lost" => k <= damage.frame

\* A chunk that is there to its end is added to the content.
LEMMA TakesChunk ==
  ASSUME BodyIsBytes, NEW start \in Nat \ {0}, NEW chunk \in Seq(Data), Len(chunk) >= 1,
         Starting(start, chunk \o CRLF), TakeChunk(start, start + Len(chunk))
  PROVE  \/ Refuse /\ Len(body) < start + Len(chunk) + 1
         \/ content' = content \o chunk /\ position' = start + Len(chunk) + 2 /\ phase' = phase
<1> DEFINE data == chunk \o CRLF
           n == Len(chunk)
           end == start + n
           b == Len(body)
<1>1. /\ data \in Seq(Bytes) /\ n \in Nat /\ Len(data) = n + 2
      /\ \A j \in 1..n : data[j] = chunk[j]
      /\ data[n + 1] = "CR" /\ data[n + 2] = "LF"
  BY ChunkEnds
<1>2. \A j \in 1..(n + 2) : start + j - 1 <= b => body[start + j - 1] = data[j]
  BY <1>1 DEF Starting
<1>3. b \in Nat
  BY BodyLength
<1>4. Slice(end, end + 1) = CRLF <=> end + 1 <= b /\ body[end] = "CR" /\ body[end + 1] = "LF"
  <2>1. end \in Nat \ {0}
    BY <1>1
  <2> HIDE DEF end
  <2> QED
    BY <2>1, LineEndAt
<1>5. Slice(end, end + 1) # CRLF => Refuse
  BY DEF TakeChunk
<1>6. Slice(end, end + 1) = CRLF =>
        content' = content \o Slice(start, end - 1) /\ position' = end + 2 /\ phase' = phase
  BY DEF TakeChunk
<1> HIDE DEF data, b
<1>7. CASE end + 1 <= b
  <2>1. n + 1 \in 1..(n + 2) /\ n + 2 \in 1..(n + 2)
        /\ start + (n + 1) - 1 = end /\ start + (n + 2) - 1 = end + 1 /\ end <= b
    BY <1>1, <1>3, <1>7
  <2>2. body[end] = "CR" /\ body[end + 1] = "LF"
    BY <1>1, <1>2, <1>7, <2>1
  <2> DEFINE q == end - 1
             found == Slice(start, q)
  <2>3. q \in Nat /\ q <= b /\ q - start + 1 = n /\ start <= q
    BY <1>1, <1>3, <1>7
  <2> HIDE DEF q, n
  <2>4. /\ found \in Seq(Bytes) /\ Len(found) = n
        /\ \A j \in 1..n : found[j] = body[start + j - 1]
    BY <2>3, SliceProperties DEF b
  <2> HIDE DEF found
  <2>5. ASSUME NEW j \in 1..n PROVE found[j] = chunk[j]
    <3>1. j \in 1..(n + 2) /\ start + j - 1 <= b
      BY <1>1, <1>3, <2>3
    <3> QED
      BY <1>1, <1>2, <2>4, <3>1
  <2>6. chunk \in Seq(Bytes)
    BY DEF Bytes
  <2>7. found = chunk
    BY <2>4, <2>5, <2>6, SeqEqual DEF n
  <2>8. content' = content \o chunk /\ position' = end + 2 /\ phase' = phase
    BY <1>4, <1>6, <1>7, <2>2, <2>7 DEF found, q
  <2> QED
    BY <2>8 DEF n
<1>8. CASE ~(end + 1 <= b)
  <2>1. Refuse
    BY <1>4, <1>5, <1>8
  <2>2. b < end + 1
    BY <1>1, <1>3, <1>8
  <2> QED
    BY <2>1, <2>2 DEF b
<1> QED
  BY <1>7, <1>8

\* One iteration at the start of a chunk: the message is damaged and refused, or it is
\* read to its end and is what was sent, or the next chunk is read.
LEMMA DecodeInSync ==
  ASSUME Chunked, BodyIsBytes, NEW sizes, NEW framing, NEW ofs, NEW flat, NEW k,
         Synced(sizes, framing, ofs, flat, k), damage.is # "size", DecodeChunk
  PROVE  \/ phase' = "read" /\ damage.is # "none"
         \/ phase' = "typing" /\ damage.is = "none" /\ content' = Payload
         \/ /\ phase' = phase /\ k <= Len(chunks) /\ position' = ofs[k] + 1 /\ content' = flat[k]
            /\ damage.is = "lost" => k + 1 <= damage.frame
<1> DEFINE N == Len(chunks) + 1
           line == SizeLine(sizes[k], framing)
           chunk == AllChunks[k]
           data == chunk \o CRLF
           l == Len(line)
           n == Len(chunk)
           start == position + l
           o == ofs[k - 1]
           total == ofs[N]
           b == Len(body)
<1>1. /\ Laid(sizes, framing, ofs) /\ IsFlattening(chunks, flat, Data) /\ k \in 1..N
      /\ position = o + 1 /\ content = flat[k - 1]
      /\ damage.is = "lost" => k <= damage.frame
  BY DEF Synced
<1>2. /\ sizes[k] \in Seq(Digits) /\ IsSize(sizes[k]) /\ HexValue(sizes[k]) = n
      /\ framing \in Framings /\ chunk \in Seq(Data) /\ n \in Nat /\ l \in Nat
  BY <1>1, FrameParts
<1>3. N \in Nat /\ N = Len(chunks) + 1 /\ b \in Nat
  BY AllChunksProperties, BodyLength
<1>4. o \in Nat /\ ofs[k] \in Nat /\ total \in Nat /\ ofs[k] <= total
  BY <1>1, FrameStarts DEF FrameAt
<1>5. IF k = N THEN chunk = <<>> /\ n = 0 ELSE chunk = chunks[k] /\ n >= 1
  <2>1. CASE k = N
    BY <2>1, AllChunksProperties
  <2>2. CASE k # N
    <3>1. k \in 1..Len(chunks)
      BY <1>1, <1>3, <2>2
    <3> QED
      BY <2>2, <3>1, AllChunksProperties
  <2> QED
    BY <2>1, <2>2
<1>6. position \in Nat \ {0} /\ start \in Nat \ {0}
  <2>1. l \in Nat /\ o \in Nat /\ position = o + 1
    BY <1>1, <1>2, <1>4
  <2> HIDE DEF l, o
  <2> QED
    BY <2>1
<1>7. /\ damage.is \in {"none", "lost"} => b = total
      /\ damage.is = "added" => b = total + 1
      /\ damage.is = "cut" => b < total
      /\ damage.is \in {"none", "added", "cut", "lost"}
      /\ damage.is = "lost" => damage.frame \in 1..N
  <2>1. IsDamage(damage, sizes, framing) /\ sizes \in Sizes
    BY <1>1 DEF Laid
  <2>2. DOMAIN sizes = 1..N
    BY <2>1, SizesProperties, AllChunksProperties
  <2>3. damage.is = "lost" => damage.frame \in 1..N
    BY <2>1, <2>2 DEF IsDamage, Unharmed
  <2>4. damage.is \in {"none", "added", "cut", "lost"}
    BY <2>1, DamageKinds
  <2>5. /\ damage.is \in {"none", "lost", "size"} => b = total
        /\ damage.is = "added" => b = total + 1
        /\ damage.is = "cut" => b < total
    BY <1>1 DEF Laid
  <2> QED
    BY <2>3, <2>4, <2>5
<1>8. Starting(position, line) =>
        IF position + l - 1 <= b
        THEN (n = 0 /\ TakeLast(start)) \/ (n # 0 /\ TakeChunk(start, start + n))
        ELSE Refuse
  BY <1>2, <1>6, DecodeAtFrame
<1>9. CASE damage.is = "lost" /\ damage.frame = k
  <2>1. /\ Starting(o + 1, line)
        /\ k = N => b = ((o + 1) + l) + n
        /\ k # N => ~(body[((o + 1) + l) + n] = "CR" /\ body[((o + 1) + l) + n + 1] = "LF")
    BY <1>1, <1>9, LostFrame
  <2> HIDE DEF line, chunk, l, n, o, total, b, N
  <2>2. CASE TakeLast(start) /\ k = N
    <3>1. b = start
      BY <1>1, <1>2, <1>4, <1>5, <2>1, <2>2
    <3>2. Slice(start, b) # CRLF
      BY <1>3, <1>6, <3>1, LineEndIsAll DEF b
    <3> QED
      BY <1>9, <2>2, <3>2 DEF TakeLast, Refuse, b
  <2>3. CASE TakeChunk(start, start + n) /\ k # N
    <3>1. start + n = ((o + 1) + l) + n /\ start + n \in Nat \ {0}
      BY <1>1, <1>2, <1>4, <1>6
    <3>2. Slice(start + n, start + n + 1) # CRLF
      BY <2>1, <2>3, <3>1, LineEndAt
    <3> QED
      BY <1>9, <2>3, <3>2 DEF TakeChunk, Refuse
  <2> QED
    BY <1>1, <1>5, <1>8, <1>9, <2>1, <2>2, <2>3 DEF Refuse
<1>10. CASE ~(damage.is = "lost" /\ damage.frame = k)
  <2>1. WholeAt(ofs, k, line, data)
    BY <1>1, <1>10, WholeFrame
  <2>2. data \in Seq(Bytes) /\ Len(data) = n + 2 /\ data[n + 1] = "CR" /\ data[n + 2] = "LF"
    BY <1>2, ChunkEnds
  <2> HIDE DEF line, data
  <2>3. Starting(position, line) /\ Starting(start, data) /\ ofs[k] = (o + l) + (n + 2)
    BY <1>1, <2>1, <2>2 DEF WholeAt
  <2> HIDE DEF chunk, l, n, o, total, b, N
  <2>4. ofs[k] = start + n + 1
    BY <1>1, <1>2, <1>4, <2>3
  <2>5. damage.is = "none" => start + n + 1 <= b
    BY <1>4, <1>7, <2>4
  <2>6. CASE ~(position + l - 1 <= b)
    <3>1. Refuse
      BY <1>8, <2>3, <2>6
    <3>2. position + l - 1 <= start + n + 1
      BY <1>2, <1>6
    <3>3. damage.is # "none"
      BY <1>2, <1>3, <1>6, <2>5, <2>6, <3>2
    <3> QED
      BY <3>1, <3>3 DEF Refuse
  <2>7. CASE n = 0 /\ TakeLast(start)
    <3>1. k = N /\ total = start + 1
      BY <1>2, <1>4, <1>5, <1>6, <2>4, <2>7 DEF total
    <3>2. damage.is # "lost"
      BY <1>1, <1>3, <1>7, <1>10, <3>1
    <3>3. Slice(start, b) = CRLF <=> b = start + 1 /\ body[start] = "CR" /\ body[start + 1] = "LF"
      BY <1>6, LineEndIsAll DEF b
    <3>4. ASSUME damage.is = "none" PROVE Slice(start, b) = CRLF
      <4>1. b = start + 1
        BY <1>7, <3>1, <3>4
      <4>2. /\ 1 \in 1..Len(data) /\ 2 \in 1..Len(data) /\ data[1] = "CR" /\ data[2] = "LF"
            /\ start + 1 - 1 = start /\ start + 2 - 1 = start + 1 /\ start <= b
        BY <1>6, <2>2, <2>7, <4>1
      <4>3. \A j \in 1..Len(data) : start + j - 1 <= b => body[start + j - 1] = data[j]
        BY <2>3 DEF Starting, b
      <4> HIDE DEF start
      <4>4. body[start] = "CR"
        BY <4>2, <4>3
      <4>5. body[start + 1] = "LF"
        <5>1. start + 1 <= b
          BY <1>3, <4>1
        <5> QED
          BY <4>2, <4>3, <5>1
      <4> QED
        BY <3>3, <4>1, <4>4, <4>5 DEF start
    <3>5. CASE Slice(start, b) = CRLF
      <4>1. damage.is = "none"
        BY <1>3, <1>6, <1>7, <3>1, <3>2, <3>3, <3>5
      <4>2. phase' = "typing" /\ content' = content
        BY <2>7, <3>5 DEF TakeLast, b
      <4>3. content = flat[Len(chunks)]
        BY <1>1, <1>3, <3>1, AllChunksProperties
      <4>4. flat[Len(chunks)] = Payload
        BY <1>1, FlattenIsLast DEF Payload, Chunked
      <4> QED
        BY <4>1, <4>2, <4>3, <4>4
    <3>6. CASE Slice(start, b) # CRLF
      BY <2>7, <3>4, <3>6 DEF TakeLast, Refuse, b
    <3> QED
      BY <3>5, <3>6
  <2>8. CASE n # 0 /\ TakeChunk(start, start + n)
    <3>1. k # N /\ n >= 1 /\ chunk = chunks[k]
      BY <1>2, <1>5, <2>8
    <3>2. \/ Refuse /\ b < start + n + 1
          \/ content' = content \o chunk /\ position' = start + n + 2 /\ phase' = phase
      BY <1>2, <1>6, <2>3, <2>8, <3>1, TakesChunk DEF n, b, data
    <3>3. CASE Refuse /\ b < start + n + 1
      <4>1. damage.is # "none"
        BY <1>2, <1>3, <1>6, <2>5, <3>3
      <4> QED
        BY <3>3, <4>1 DEF Refuse
    <3>4. CASE content' = content \o chunk /\ position' = start + n + 2 /\ phase' = phase
      <4>1. k \in 1..Len(chunks) /\ k <= Len(chunks)
        BY <1>1, <1>3, <3>1, AllChunksProperties
      <4>2. flat[k] = flat[k - 1] \o chunks[k]
        BY <1>1, <4>1 DEF IsFlattening
      <4>3. position' = ofs[k] + 1
        BY <1>2, <1>6, <2>4, <3>4
      <4>4. damage.is = "lost" => k + 1 <= damage.frame
        BY <1>1, <1>3, <1>7, <1>10
      <4> QED
        BY <1>1, <3>1, <3>4, <4>1, <4>2, <4>3, <4>4
    <3> QED
      BY <3>2, <3>3, <3>4
  <2> QED
    BY <1>8, <2>3, <2>6, <2>7, <2>8
<1> QED
  BY <1>9, <1>10

-----------------------------------------------------------------------------
(* The invariant                                                           *)

\* What stays as it was sent.
SentInv ==
  /\ Chunked /\ BodyIsBytes /\ message \in Messages /\ asked \in Requests
  /\ message.encoding # "chunked" => damage = Unharmed /\ body = Payload
  /\ message.encoding = "chunked" => \E sizes, framing, ofs : Laid(sizes, framing, ofs)

\* The decoder is at the start of a frame, with whole chunks.
InSync == \E sizes, framing, ofs, flat, k : Synced(sizes, framing, ofs, flat, k)

\* The inductive invariant.
DecodeInv ==
  /\ SentInv
  /\ phase \in {"head", "chunks", "typing", "read"} /\ position \in Nat \ {0}
  /\ phase = "head" => position = 1 /\ content = <<>>
  /\ phase = "chunks" => message.encoding = "chunked" /\ (damage.is # "size" => InSync)
  /\ phase = "typing" => damage.is \in {"none", "size"} /\ (damage.is = "none" => content = Payload)
  /\ ReadAsSent

\* The content sent is a sequence of its bytes.
LEMMA PayloadIsData == Chunked => Payload \in Seq(Data)
<1> SUFFICES ASSUME Chunked PROVE Payload \in Seq(Data)
  OBVIOUS
<1>1. chunks \in Seq(Seq(Data)) /\ Len(chunks) \in Nat /\ Len(chunks) \in 0..Len(chunks)
  BY DEF Chunked
<1>2. PICK flat : IsFlattening(chunks, flat, Data)
  BY <1>1, FlatteningExists
<1>3. Payload = flat[Len(chunks)]
  BY <1>1, <1>2, FlattenIsLast DEF Payload
<1> QED
  BY <1>1, <1>2, <1>3 DEF IsFlattening

\* Every message sent is one of the invariant.
LEMMA WhatIsSent == Sent => SentInv
<1> SUFFICES ASSUME Sent PROVE SentInv
  OBVIOUS
<1>1. Chunked
  BY SentIsChunked
<1>2. asked \in Requests
  BY DEF Sent, Requests
<1>3. PICK sizes \in Sizes, framing \in Framings :
        \/ /\ message = Plain
           /\ damage \in Damages(sizes, framing)
           /\ body = Framed(sizes, framing, damage)
        \/ /\ message \in Messages
           /\ damage = Unharmed
           /\ body = IF message.encoding = "chunked" THEN Framed(sizes, framing, damage) ELSE Payload
  BY DEF Sent
<1>4. CASE message \in Messages /\ message.encoding # "chunked" /\ damage = Unharmed /\ body = Payload
  <2>1. body \in Seq(Bytes)
    BY <1>1, <1>4, PayloadIsData DEF Bytes
  <2> QED
    BY <1>1, <1>2, <1>4, <2>1 DEF SentInv, BodyIsBytes
<1>5. CASE /\ message \in Messages /\ message.encoding = "chunked"
           /\ damage \in Damages(sizes, framing) /\ body = Framed(sizes, framing, damage)
  <2>1. BodyIsBytes /\ \E ofs : Laid(sizes, framing, ofs)
    BY <1>1, <1>5, FramedIsLaid
  <2> QED
    BY <1>1, <1>2, <1>5, <2>1 DEF SentInv
<1>6. Plain \in Messages /\ Plain.encoding = "chunked"
  BY DEF Plain, Messages, Starts, Meanings
<1>7. Unharmed \in Damages(sizes, framing)
  BY DEF Damages
<1> QED
  BY <1>3, <1>4, <1>5, <1>6, <1>7

\* The layout depends on nothing the decoder changes.
LEMMA LaidStays ==
  ASSUME NEW sizes, NEW framing, NEW ofs, UNCHANGED <<chunks, damage, body>>
  PROVE  Laid(sizes, framing, ofs)' <=> Laid(sizes, framing, ofs)
<1>1. chunks' = chunks /\ damage' = damage /\ body' = body
  OBVIOUS
<1>2. AllChunks' = AllChunks
  BY <1>1 DEF AllChunks
<1>3. Sizes' = Sizes
  BY <1>2 DEF Sizes
<1>4. ASSUME NEW harm PROVE Frames(sizes, framing, harm)' = Frames(sizes, framing, harm)
  BY <1>2 DEF Frames
<1>5. Frames(sizes, framing, damage)' = Frames(sizes, framing, damage)
  BY <1>1, <1>2 DEF Frames
<1>6. Framed(sizes, framing, Unharmed)' = Framed(sizes, framing, Unharmed)
  BY <1>4 DEF Framed
<1>7. IsDamage(damage, sizes, framing)' <=> IsDamage(damage, sizes, framing)
  BY <1>1, <1>2, <1>6 DEF IsDamage
<1> QED
  BY <1>1, <1>3, <1>5, <1>7 DEF Laid

\* A step of the reader leaves what was sent alone.
LEMMA SentStays == SentInv /\ UNCHANGED <<message, asked, chunks, damage, body>> => SentInv'
<1> SUFFICES ASSUME SentInv, UNCHANGED <<message, asked, chunks, damage, body>> PROVE SentInv'
  OBVIOUS
<1>1. ASSUME NEW sizes, NEW framing, NEW ofs
      PROVE  Laid(sizes, framing, ofs)' <=> Laid(sizes, framing, ofs)
  BY LaidStays
<1> QED
  BY <1>1 DEF SentInv, Chunked, BodyIsBytes, Payload

\* The invariant holds before the first step.
LEMMA InitHolds == Init => DecodeInv
BY WhatIsSent DEF Init, DecodeInv, ReadAsSent

\* _split_message: the decoder starts at the first frame.
LEMMA SplitHolds == DecodeInv /\ SplitMessage => DecodeInv'
<1> SUFFICES ASSUME DecodeInv, SplitMessage PROVE DecodeInv'
  OBVIOUS
<1>1. SentInv /\ phase = "head" /\ position = 1 /\ content = <<>> /\ position' = position
  BY DEF DecodeInv, SplitMessage
<1>2. UNCHANGED <<message, asked, chunks, damage, body, position, kind>>
  BY DEF SplitMessage
<1>3. SentInv'
  BY <1>1, <1>2, SentStays
<1>4. CASE message.head # "sound" \/ message.encoding = "gzip"
  <2>1. phase' = "read" /\ ~Sound'
    BY <1>2, <1>4 DEF SplitMessage, Sound
  <2> QED
    BY <1>1, <1>2, <1>3, <2>1 DEF DecodeInv, ReadAsSent
<1>5. CASE message.head = "sound" /\ message.encoding = "chunked"
  <2>1. phase' = "chunks" /\ content' = <<>>
    BY <1>1, <1>5 DEF SplitMessage
  <2>2. PICK sizes, framing, ofs : Laid(sizes, framing, ofs)
    BY <1>1, <1>5 DEF SentInv
  <2>3. chunks \in Seq(Seq(Data)) /\ Len(chunks) \in Nat
    BY <1>1 DEF SentInv, Chunked
  <2>4. PICK flat : IsFlattening(chunks, flat, Data)
    BY <2>3, FlatteningExists
  <2>5. ofs[0] = 0 /\ flat[0] = <<>>
    BY <2>2, <2>4 DEF Laid, IsOffsets, IsFlattening
  <2>6. damage.is = "lost" => 1 <= damage.frame
    <3> SUFFICES ASSUME damage.is = "lost" PROVE 1 <= damage.frame
      OBVIOUS
    <3>1. damage.frame \in DOMAIN sizes /\ sizes \in Sizes
      BY <2>2 DEF Laid, IsDamage, Unharmed
    <3>2. DOMAIN sizes = 1..(Len(chunks) + 1)
      BY <1>1, <3>1, SizesProperties, AllChunksProperties DEF SentInv
    <3> QED
      BY <2>3, <3>1, <3>2
  <2>7. Laid(sizes, framing, ofs)'
    BY <1>2, <2>2, LaidStays
  <2>8. 1 \in 1..(Len(chunks') + 1) /\ 1 - 1 = 0 /\ 0 + 1 = 1
    BY <1>2, <2>3
  <2>9. Synced(sizes, framing, ofs, flat, 1)'
    BY <1>1, <1>2, <2>1, <2>4, <2>5, <2>6, <2>7, <2>8 DEF Synced, IsFlattening
  <2> QED
    BY <1>1, <1>2, <1>3, <1>5, <2>1, <2>9 DEF DecodeInv, ReadAsSent, InSync
<1>6. CASE message.head = "sound" /\ message.encoding # "gzip" /\ message.encoding # "chunked"
  <2>1. phase' = "typing" /\ content' = body /\ body = Payload /\ damage = Unharmed
    BY <1>1, <1>6 DEF SplitMessage, SentInv
  <2>2. content' = Payload' /\ damage'.is = "none"
    BY <1>2, <2>1 DEF Payload, Unharmed
  <2> QED
    BY <1>1, <1>2, <1>3, <2>1, <2>2 DEF DecodeInv, ReadAsSent
<1> QED
  BY <1>4, <1>5, <1>6

\* _decode_chunked: from chunk to chunk.
LEMMA DecodeHolds == DecodeInv /\ DecodeChunk => DecodeInv'
<1> SUFFICES ASSUME DecodeInv, DecodeChunk PROVE DecodeInv'
  OBVIOUS
<1>1. SentInv /\ phase = "chunks" /\ position \in Nat \ {0} /\ message.encoding = "chunked"
      /\ (damage.is # "size" => InSync)
  BY DEF DecodeInv, DecodeChunk
<1>2. UNCHANGED <<message, asked, chunks, damage, body, kind>>
  BY DEF DecodeChunk
<1>3. SentInv'
  BY <1>1, <1>2, SentStays
<1>4. Chunked /\ BodyIsBytes
  BY <1>1 DEF SentInv
<1>5. \/ phase' = "typing"
      \/ phase' = "read"
      \/ phase' = "chunks" /\ position' \in (position + 1)..(Len(body) + 1)
  BY <1>1, <1>4, DecodeAdvances
<1>6. position' \in Nat \ {0}
  <2>1. phase' \in {"typing", "read"} => position' = position
    BY <1>1 DEF DecodeChunk, Refuse, TakeLast, TakeChunk
  <2> QED
    BY <1>1, <1>4, <1>5, <2>1, BodyLength
<1>7. CASE damage.is = "size"
  <2>1. damage'.is = "size" /\ ~Sound'
    BY <1>2, <1>7 DEF Sound
  <2> QED
    BY <1>1, <1>2, <1>3, <1>5, <1>6, <2>1 DEF DecodeInv, ReadAsSent
<1>8. CASE damage.is # "size"
  <2>1. PICK sizes, framing, ofs, flat, k : Synced(sizes, framing, ofs, flat, k)
    BY <1>1, <1>8 DEF InSync
  <2>2. \/ phase' = "read" /\ damage.is # "none"
        \/ phase' = "typing" /\ damage.is = "none" /\ content' = Payload
        \/ /\ phase' = phase /\ k <= Len(chunks) /\ position' = ofs[k] + 1 /\ content' = flat[k]
           /\ damage.is = "lost" => k + 1 <= damage.frame
    BY <1>4, <1>8, <2>1, DecodeInSync
  <2>3. CASE phase' = "read" /\ damage.is # "none"
    <3>1. ~Sound'
      BY <1>2, <2>3 DEF Sound
    <3> QED
      BY <1>2, <1>3, <1>6, <2>3, <3>1 DEF DecodeInv, ReadAsSent
  <2>4. CASE phase' = "typing" /\ damage.is = "none" /\ content' = Payload
    <3>1. content' = Payload' /\ damage'.is = "none"
      BY <1>2, <2>4 DEF Payload
    <3> QED
      BY <1>2, <1>3, <1>6, <2>4, <3>1 DEF DecodeInv, ReadAsSent
  <2>5. CASE /\ phase' = phase /\ k <= Len(chunks) /\ position' = ofs[k] + 1 /\ content' = flat[k]
             /\ damage.is = "lost" => k + 1 <= damage.frame
    <3>1. /\ Laid(sizes, framing, ofs) /\ IsFlattening(chunks, flat, Data)
          /\ k \in 1..(Len(chunks) + 1) /\ Len(chunks) \in Nat
      BY <1>4, <2>1, AllChunksProperties DEF Synced
    <3>2. Laid(sizes, framing, ofs)'
      BY <1>2, <3>1, LaidStays
    <3>3. k + 1 \in 1..(Len(chunks) + 1) /\ (k + 1) - 1 = k
      BY <2>5, <3>1
    <3>4. Synced(sizes, framing, ofs, flat, k + 1)'
      BY <1>2, <2>5, <3>1, <3>2, <3>3 DEF Synced, IsFlattening
    <3> QED
      BY <1>1, <1>2, <1>3, <1>6, <2>5, <3>4 DEF DecodeInv, ReadAsSent, InSync
  <2> QED
    BY <2>2, <2>3, <2>4, <2>5
<1> QED
  BY <1>7, <1>8

\* What a sound message is taken for.
LEMMA ParsedAsSent ==
  ASSUME SentInv, Sound, content = Payload, ParseMessage
  PROVE  ReadAsSent'
<1> DEFINE meant == IF Payload = <<>> THEN "empty" ELSE message.meaning
<1>1. /\ message \in Messages /\ asked \in Requests
      /\ message.start \in {"status", "devices", "areas", "other"} /\ message.prefix # "foreign"
  BY DEF SentInv, Sound, Messages, Starts
<1>2. message.meaning \in Meanings /\ message.origin \in {"config", "devices"}
      /\ message.transac \in {"none", "number", "text"} /\ message.json \in BOOLEAN
      /\ message.ok \in BOOLEAN
  BY <1>1 DEF Messages
<1>3. UNCHANGED <<message, asked, chunks, damage, content>> /\ Payload' = Payload
  BY DEF ParseMessage, Payload
<1>4. kind' = IF message.start = "status" THEN ParseResponse(meant) ELSE ParseRequest(meant)
  BY <1>1 DEF ParseMessage, Meaning
<1>5. meant = "empty" <=> Payload = <<>>
  BY <1>2 DEF Meanings
<1>6. meant # "empty" => meant = message.meaning
  OBVIOUS
<1> HIDE DEF meant
<1>7. CASE message.start = "status"
  <2>1. kind' = ParseResponse(meant)
    BY <1>4, <1>7
  <2>2. Accepts(meant) <=>
          /\ message.ok
          /\ \/ asked = "ping" /\ Payload = <<>>
             \/ asked = message.origin /\ message.meaning = asked /\ Payload # <<>>
    <3>1. CASE asked = "ping"
      BY <1>2, <1>5, <3>1 DEF Accepts, Ok
    <3>2. CASE asked = "config"
      BY <1>2, <1>5, <1>6, <3>2 DEF Accepts, ConfigResponse
    <3>3. CASE asked \in {"devices", "areas"}
      BY <1>2, <1>5, <1>6, <3>3 DEF Accepts, DataResponse
    <3> QED
      BY <1>1, <3>1, <3>2, <3>3 DEF Requests
  <2>3. kind' \in {"malformed", "poison", "unexpected", "answer", "error"}
    BY <2>1 DEF ParseResponse
  <2>4. kind' = "answer" => message.ok /\ message.transac = "number"
    BY <1>2, <2>1, <2>2 DEF ParseResponse
  <2>5. message.transac = "number" /\ message.ok =>
          kind' = IF \/ asked = "ping" /\ Payload = <<>>
                     \/ asked = message.origin /\ message.meaning = asked /\ Payload # <<>>
                  THEN "answer" ELSE "error"
    BY <1>7, <2>1, <2>2 DEF ParseResponse
  <2> QED
    BY <1>3, <1>7, <2>3, <2>4, <2>5 DEF ReadAsSent
<1>8. CASE message.start # "status"
  <2>1. kind' = ParseRequest(meant)
    BY <1>4, <1>8
  <2>2. kind' \in {"malformed", "poison", "other", "devices", "areas"}
    BY <1>1, <1>8, <2>1 DEF ParseRequest, JsonRequest
  <2>3. ASSUME NEW url \in {"devices", "areas"}
        PROVE  kind' = url <=> message.start = url /\ message.meaning = url /\ Payload # <<>>
    BY <1>1, <1>5, <1>6, <1>8, <2>1 DEF ParseRequest, JsonRequest
  <2> QED
    BY <1>3, <1>8, <2>2, <2>3 DEF ReadAsSent
<1> QED
  BY <1>7, <1>8

\* parse_message, and the constructors it calls.
LEMMA ParseHolds == DecodeInv /\ ParseMessage => DecodeInv'
<1> SUFFICES ASSUME DecodeInv, ParseMessage PROVE DecodeInv'
  OBVIOUS
<1>1. /\ SentInv /\ position \in Nat \ {0} /\ phase' = "read"
      /\ damage.is = "none" => content = Payload
  BY DEF DecodeInv, ParseMessage
<1>2. UNCHANGED <<message, asked, chunks, damage, body, position, content>>
  BY DEF ParseMessage
<1>3. SentInv'
  BY <1>1, <1>2, SentStays
<1>4. ReadAsSent'
  <2>1. CASE Sound
    BY <1>1, <2>1, ParsedAsSent DEF Sound
  <2>2. CASE ~Sound
    <3>1. ~Sound'
      BY <1>2, <2>2 DEF Sound
    <3> QED
      BY <3>1 DEF ReadAsSent
  <2> QED
    BY <2>1, <2>2
<1> QED
  BY <1>1, <1>2, <1>3, <1>4 DEF DecodeInv

\* A message that was read stays as it is.
LEMMA StutterHolds == DecodeInv /\ UNCHANGED vars => DecodeInv'
<1> SUFFICES ASSUME DecodeInv, UNCHANGED vars PROVE DecodeInv'
  OBVIOUS
<1>1. UNCHANGED <<message, asked, chunks, damage, body, phase, position, content, kind>>
  BY DEF vars
<1>2. SentInv' /\ Payload' = Payload
  BY <1>1, SentStays DEF DecodeInv, Payload
<1>3. InSync => InSync'
  <2> SUFFICES ASSUME InSync PROVE InSync'
    OBVIOUS
  <2>1. PICK sizes, framing, ofs, flat, k : Synced(sizes, framing, ofs, flat, k)
    BY DEF InSync
  <2>2. Laid(sizes, framing, ofs)'
    BY <1>1, <2>1, LaidStays DEF Synced
  <2>3. Synced(sizes, framing, ofs, flat, k)'
    BY <1>1, <2>1, <2>2 DEF Synced, IsFlattening
  <2> QED
    BY <2>3 DEF InSync
<1>4. ReadAsSent => ReadAsSent'
  BY <1>1, <1>2 DEF ReadAsSent, Sound
<1> QED
  BY <1>1, <1>2, <1>3, <1>4 DEF DecodeInv

\* The invariant holds of every message at every step.
LEMMA DecodeInvHolds == Spec => []DecodeInv
<1>1. Init => DecodeInv
  BY InitHolds
<1>2. DecodeInv /\ [Next]_vars => DecodeInv'
  BY SplitHolds, DecodeHolds, ParseHolds, StutterHolds DEF Next, Done
<1> QED
  BY <1>1, <1>2, PTL DEF Spec

-----------------------------------------------------------------------------

\* A sound message is read as it was meant, for any content in any chunks, any sizes of
\* any length and any of the bytes: _decode_chunked gives back the content, and
\* parse_message takes it for what its start line, its headers and its content say.
THEOREM SoundIsReadAsSent == Spec => []ReadAsSent
<1>1. DecodeInv => ReadAsSent
  BY DEF DecodeInv
<1> QED
  BY <1>1, DecodeInvHolds, PTL

\* _decode_chunked refuses a body cut short, with a byte too many or with a byte lost from
\* a chunk or from its end, wherever that is and whatever the other bytes are.
THEOREM LossIsNoticed == Spec => []DamageIsNoticed
<1>1. DecodeInv => DamageIsNoticed
  BY DEF DecodeInv, DamageIsNoticed
<1> QED
  BY <1>1, DecodeInvHolds, PTL

\* Every step of parse_message goes on, in its phases or in the body, never past the end
\* of it: whatever the body is, the loop of _decode_chunked ends.
THEOREM DecodingAdvances == Spec => ReadingAdvances
<1>1. DecodeInv /\ [Next]_vars =>
        [\/ Rank[phase'] > Rank[phase]
         \/ phase' = phase /\ position' \in (position + 1)..(Len(body) + 1)]_vars
  <2> SUFFICES ASSUME DecodeInv, Next
               PROVE  \/ Rank[phase'] > Rank[phase]
                      \/ phase' = phase /\ position' \in (position + 1)..(Len(body) + 1)
                      \/ UNCHANGED vars
    OBVIOUS
  <2>1. CASE SplitMessage
    BY <2>1 DEF SplitMessage, Rank
  <2>2. CASE DecodeChunk
    <3>1. phase = "chunks" /\ BodyIsBytes /\ position \in Nat \ {0}
      BY <2>2 DEF DecodeChunk, DecodeInv, SentInv
    <3>2. \/ phase' \in {"typing", "read"}
          \/ phase' = phase /\ position' \in (position + 1)..(Len(body) + 1)
      BY <2>2, <3>1, DecodeAdvances
    <3> QED
      BY <3>1, <3>2 DEF Rank
  <2>3. CASE ParseMessage
    BY <2>3 DEF ParseMessage, Rank
  <2> QED
    BY <2>1, <2>2, <2>3 DEF Next, Done
<1> QED
  BY <1>1, DecodeInvHolds, PTL DEF Spec, ReadingAdvances
=============================================================================
