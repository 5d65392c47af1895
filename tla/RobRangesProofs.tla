--------------------------- MODULE RobRangesProofs ---------------------------
(***************************************************************************)
(* Proofs about RobRanges: on every list of gaps, of any length, the       *)
(* algorithms of ngtcp2_rob.c compute what RxFlow says of the bytes the    *)
(* gaps leave, and so they do in every state RxFlow reaches.  Inductions   *)
(* are made on sets, through their least members.                          *)
(***************************************************************************)
EXTENDS RobRanges, RxFlowProofs, SequenceTheorems

\* A list of gaps as rob->gapksl keeps it, for the set M of missing bytes: in
\* increasing order, and between any two gaps there is a byte.
Span == [begin : Nat, end : Nat]
In(p, r) == r.begin <= p /\ p < r.end
IsGaps(s, M) ==
  /\ s \in Seq(Span)
  /\ \A i \in 1 .. Len(s) : s[i].begin < s[i].end
  /\ \A i, k \in 1 .. Len(s) : i < k => s[i].end < s[k].begin
  /\ M \subseteq Nat
  /\ \A p \in Int : p \in M <=> \E i \in 1 .. Len(s) : In(p, s[i])

\* The bytes missing in the gaps from a to b.
Held(s, a, b) == {p \in Nat : \E i \in a .. b : In(p, s[i])}

-----------------------------------------------------------------------------
\* What is in a list of gaps.
LEMMA GapsAre ==
  ASSUME NEW s, NEW M, IsGaps(s, M)
  PROVE  /\ Len(s) \in Nat /\ DOMAIN s = 1 .. Len(s) /\ s \in Seq(Span)
         /\ \A i \in 1 .. Len(s) : /\ s[i] \in Span /\ s[i].begin \in Nat /\ s[i].end \in Nat
                                   /\ s[i].begin < s[i].end
                                   /\ s[i] = Gap(s[i].begin, s[i].end)
                                   /\ \A p \in Int : In(p, s[i]) => p \in M
                                   /\ s[i].begin \in M /\ s[i].end \notin M
         /\ \A i, k \in 1 .. Len(s) : i < k => s[i].end < s[k].begin
         /\ \A p \in M : p \in Nat /\ \E i \in 1 .. Len(s) : In(p, s[i])
<1>1. Len(s) \in Nat /\ DOMAIN s = 1 .. Len(s) /\ s \in Seq(Span)
  BY DEF IsGaps
<1>2. \A i \in 1 .. Len(s) : s[i] \in Span
  BY <1>1
<1>3. \A i \in 1 .. Len(s) : /\ s[i].begin \in Nat /\ s[i].end \in Nat
                             /\ s[i] = Gap(s[i].begin, s[i].end)
  BY <1>2 DEF Span, Gap
<1>4. \A i \in 1 .. Len(s) : s[i].begin < s[i].end
  BY DEF IsGaps
<1>5. \A i, k \in 1 .. Len(s) : i < k => s[i].end < s[k].begin
  BY DEF IsGaps
<1>6. /\ \A p \in Int : p \in M <=> \E i \in 1 .. Len(s) : In(p, s[i])
      /\ M \subseteq Nat
  BY DEF IsGaps
<1>7. \A p \in M : p \in Nat /\ \E i \in 1 .. Len(s) : In(p, s[i])
  BY <1>6
<1>8. \A i \in 1 .. Len(s) : \A p \in Int : In(p, s[i]) => p \in M
  BY <1>6
<1>9. \A i \in 1 .. Len(s) : s[i].begin \in M
  BY <1>3, <1>4, <1>8 DEF In
<1>10. ASSUME NEW i \in 1 .. Len(s), s[i].end \in M
       PROVE  FALSE
  <2>1. PICK k \in 1 .. Len(s) : In(s[i].end, s[k])
    BY <1>7, <1>10
  <2>2. s[k].begin <= s[i].end /\ s[i].end < s[k].end
    BY <2>1 DEF In
  <2>3. /\ s[k].begin \in Nat /\ s[i].end \in Nat /\ s[k].end \in Nat /\ s[i].begin \in Nat
        /\ s[i].begin < s[i].end
    BY <1>3, <1>4
  <2>4. CASE i < k
    <3>1. s[i].end < s[k].begin
      BY <1>5, <2>4
    <3> QED
      BY <2>2, <2>3, <3>1
  <2>5. CASE k < i
    <3>1. s[k].end < s[i].begin
      BY <1>5, <2>5
    <3> QED
      BY <2>2, <2>3, <3>1
  <2>6. CASE i = k
    BY <2>2, <2>3, <2>6
  <2> QED
    BY <2>4, <2>5, <2>6
<1> QED
  BY <1>1, <1>2, <1>3, <1>4, <1>5, <1>7, <1>8, <1>9, <1>10

\* A gap begins at the first missing byte after the gaps before it.
LEMMA NextGapIs ==
  ASSUME NEW s, NEW M, IsGaps(s, M), NEW i \in 1 .. Len(s), NEW e \in Nat,
         i = 1 => e = 0, i > 1 => e = s[i - 1].end
  PROVE  e <= s[i].begin /\ \A p \in M : e <= p => s[i].begin <= p
<1>1. /\ Len(s) \in Nat
      /\ \A k \in 1 .. Len(s) : s[k].begin \in Nat /\ s[k].end \in Nat /\ s[k].begin < s[k].end
      /\ \A h, k \in 1 .. Len(s) : h < k => s[h].end < s[k].begin
      /\ \A p \in M : p \in Nat /\ \E k \in 1 .. Len(s) : In(p, s[k])
  BY GapsAre
<1>2. e <= s[i].begin
  <2>1. CASE i = 1
    BY <1>1, <2>1
  <2>2. CASE i > 1
    <3>1. i - 1 \in 1 .. Len(s) /\ i - 1 < i
      BY <1>1, <2>2
    <3>2. s[i - 1].end < s[i].begin
      BY <1>1, <3>1
    <3> QED
      BY <1>1, <2>2, <3>1, <3>2
  <2> QED
    BY <1>1, <2>1, <2>2
<1>3. ASSUME NEW p \in M, e <= p, p < s[i].begin
      PROVE  FALSE
  <2>1. PICK k \in 1 .. Len(s) : In(p, s[k])
    BY <1>1
  <2>2. s[k].begin <= p /\ p < s[k].end /\ p \in Nat
    BY <1>1, <2>1 DEF In
  <2>3. s[k].begin \in Nat /\ s[k].end \in Nat /\ s[i].begin \in Nat
    BY <1>1
  <2>4. CASE i = k
    BY <1>3, <2>2, <2>3, <2>4
  <2>5. CASE i < k
    <3>1. s[i].end < s[k].begin /\ s[i].begin < s[i].end /\ s[i].end \in Nat
      BY <1>1, <2>5
    <3> QED
      BY <1>3, <2>2, <2>3, <3>1
  <2>6. CASE k < i
    <3>1. i > 1 /\ i - 1 \in 1 .. Len(s) /\ (k = i - 1 \/ k < i - 1)
      BY <1>1, <2>6
    <3>2. e = s[i - 1].end /\ s[i - 1].begin \in Nat /\ s[i - 1].end \in Nat
      BY <1>1, <3>1
    <3>3. s[k].end <= e
      <4>1. CASE k = i - 1
        BY <2>3, <3>2, <4>1
      <4>2. CASE k < i - 1
        <5>1. s[k].end < s[i - 1].begin /\ s[i - 1].begin < s[i - 1].end
          BY <1>1, <3>1, <4>2
        <5> QED
          BY <2>3, <3>2, <5>1
      <4> QED
        BY <3>1, <4>1, <4>2
    <3> QED
      BY <1>3, <2>2, <2>3, <3>2, <3>3
  <2> QED
    BY <2>4, <2>5, <2>6
<1>4. \A p \in M : p \in Nat
  BY <1>1
<1>5. s[i].begin \in Nat
  BY <1>1
<1> QED
  BY <1>2, <1>3, <1>4, <1>5

\* A gap of two lists that agree before it is the same in both.
LEMMA SameGap ==
  ASSUME NEW r, NEW s, NEW M, IsGaps(r, M), IsGaps(s, M),
         NEW i \in 1 .. Len(r), i \in 1 .. Len(s),
         \A k \in 1 .. i - 1 : r[k] = s[k]
  PROVE  r[i] = s[i]
<1> DEFINE e == IF i = 1 THEN 0 ELSE s[i - 1].end
<1>1. /\ Len(s) \in Nat /\ i \in Int
      /\ s[i].begin \in M /\ s[i].end \notin M /\ s[i].begin \in Nat /\ s[i].end \in Nat
      /\ s[i].begin < s[i].end /\ s[i] = Gap(s[i].begin, s[i].end)
      /\ \A p \in Int : In(p, s[i]) => p \in M
      /\ \A k \in 1 .. Len(s) : s[k].end \in Nat
  BY GapsAre
<1>2. /\ r[i].begin \in M /\ r[i].end \notin M /\ r[i].begin \in Nat /\ r[i].end \in Nat
      /\ r[i].begin < r[i].end /\ r[i] = Gap(r[i].begin, r[i].end)
      /\ \A p \in Int : In(p, r[i]) => p \in M
  BY GapsAre
<1>3. /\ e \in Nat /\ (i = 1 => e = 0)
      /\ i > 1 => e = s[i - 1].end /\ e = r[i - 1].end
  <2>1. CASE i = 1
    BY <2>1
  <2>2. CASE i > 1
    <3>1. i - 1 \in 1 .. Len(s) /\ i - 1 \in 1 .. i - 1 /\ i # 1
      BY <1>1, <2>2
    <3> QED
      BY <1>1, <3>1
  <2> QED
    BY <1>1, <2>1, <2>2
<1> HIDE DEF e
<1>4. e <= s[i].begin /\ \A p \in M : e <= p => s[i].begin <= p
  BY <1>3, NextGapIs
<1>5. e <= r[i].begin /\ \A p \in M : e <= p => r[i].begin <= p
  BY <1>3, NextGapIs
<1>6. r[i].begin = s[i].begin
  <2>1. s[i].begin <= r[i].begin /\ r[i].begin <= s[i].begin
    BY <1>1, <1>2, <1>4, <1>5
  <2> QED
    BY <1>1, <1>2, <2>1
<1>7. ~(r[i].end < s[i].end)
  BY <1>1, <1>2, <1>6 DEF In
<1>8. ~(s[i].end < r[i].end)
  BY <1>1, <1>2, <1>6 DEF In
<1>9. r[i].end = s[i].end
  BY <1>1, <1>2, <1>7, <1>8
<1> QED
  BY <1>1, <1>2, <1>6, <1>9

LEMMA SameGaps ==
  ASSUME NEW r, NEW s, NEW M, IsGaps(r, M), IsGaps(s, M),
         NEW n \in Nat, n <= Len(r), n <= Len(s)
  PROVE  \A i \in 1 .. n : r[i] = s[i]
<1> DEFINE Z == {i \in 1 .. n : r[i] # s[i]}
<1>1. Len(r) \in Nat /\ Len(s) \in Nat
  BY GapsAre
<1>2. SUFFICES ASSUME Z # {}
               PROVE  FALSE
  OBVIOUS
<1>3. Z \subseteq Nat
  OBVIOUS
<1>4. PICK i \in Z : \A k \in Z : i <= k
  BY <1>2, <1>3, LeastMember, Zenon
<1>5. i \in 1 .. Len(r) /\ i \in 1 .. Len(s)
  BY <1>1
<1>6. \A k \in 1 .. i - 1 : r[k] = s[k]
  <2> TAKE k \in 1 .. i - 1
  <2>1. k \in 1 .. n /\ ~(i <= k)
    OBVIOUS
  <2> QED
    BY <1>4, <2>1
<1>7. r[i] = s[i]
  BY <1>5, <1>6, SameGap
<1> QED
  BY <1>7

LEMMA NotLonger ==
  ASSUME NEW r, NEW s, NEW M, IsGaps(r, M), IsGaps(s, M)
  PROVE  ~(Len(r) < Len(s))
<1> SUFFICES ASSUME Len(r) < Len(s)
             PROVE  FALSE
  OBVIOUS
<1> DEFINE i == Len(r) + 1
<1>1. Len(r) \in Nat /\ Len(s) \in Nat
  BY GapsAre
<1>2. i \in 1 .. Len(s) /\ \A k \in 1 .. Len(r) : k \in 1 .. Len(s) /\ k < i
  BY <1>1
<1>3. s[i].begin \in M /\ s[i].begin \in Nat
  BY <1>2, GapsAre
<1>4. PICK k \in 1 .. Len(r) : In(s[i].begin, r[k])
  <2>1. \A p \in M : \E k \in 1 .. Len(r) : In(p, r[k])
    BY GapsAre
  <2> QED
    BY <1>3, <2>1
<1>5. r[k] = s[k]
  <2>1. \A h \in 1 .. Len(r) : r[h] = s[h]
    BY <1>1, SameGaps
  <2> QED
    BY <2>1
<1>6. s[k].end < s[i].begin /\ s[k].end \in Nat
  BY <1>2, GapsAre
<1> HIDE DEF i
<1> QED
  BY <1>3, <1>4, <1>5, <1>6 DEF In

\* A set of bytes has one list of gaps.
LEMMA OneList ==
  ASSUME NEW r, NEW s, NEW M, IsGaps(r, M), IsGaps(s, M)
  PROVE  r = s
<1>1. Len(r) \in Nat /\ Len(s) \in Nat /\ r \in Seq(Span) /\ s \in Seq(Span)
  BY GapsAre
<1>2. Len(r) = Len(s)
  <2>1. ~(Len(r) < Len(s)) /\ ~(Len(s) < Len(r))
    BY NotLonger
  <2> QED
    BY <1>1, <2>1
<1>3. \A i \in 1 .. Len(r) : r[i] = s[i]
  BY <1>1, <1>2, SameGaps
<1> QED
  BY <1>1, <1>2, <1>3, SeqEqual

-----------------------------------------------------------------------------
\* Two lists make one when a byte lies between them.
LEMMA ConcatIs ==
  ASSUME NEW a, NEW A, NEW b, NEW B, IsGaps(a, A), IsGaps(b, B),
         \A x \in A, y \in B : x + 1 < y
  PROVE  IsGaps(a \o b, A \cup B)
<1> DEFINE m == Len(a)
           n == Len(b)
           c == a \o b
<1>1. /\ m \in Nat /\ n \in Nat /\ a \in Seq(Span) /\ b \in Seq(Span)
      /\ A \subseteq Nat /\ B \subseteq Nat
  BY GapsAre DEF IsGaps
<1>2. /\ c \in Seq(Span) /\ Len(c) = m + n
      /\ \A i \in 1 .. m : c[i] = a[i]
      /\ \A i \in 1 .. m + n : i > m => c[i] = b[i - m]
  BY <1>1
<1>3. \A i \in 1 .. m : i \in 1 .. m + n
  BY <1>1
<1>4. \A i \in 1 .. m + n : i > m => i - m \in 1 .. n
  BY <1>1
<1> HIDE DEF c, m, n
<1>6. /\ \A i \in 1 .. m : /\ a[i].begin \in Nat /\ a[i].end \in Nat
                           /\ a[i].begin < a[i].end
                           /\ \A p \in Int : In(p, a[i]) => p \in A
      /\ \A i, k \in 1 .. m : i < k => a[i].end < a[k].begin
  BY GapsAre DEF m
<1>7. /\ \A i \in 1 .. n : /\ b[i].begin \in Nat /\ b[i].end \in Nat
                           /\ b[i].begin < b[i].end /\ b[i].begin \in B
      /\ \A i, k \in 1 .. n : i < k => b[i].end < b[k].begin
  BY GapsAre DEF n
<1>8. \A i \in 1 .. m + n : i \in Int /\ (i \in 1 .. m \/ i > m)
  BY <1>1
<1>9. \A i \in 1 .. m + n : c[i].begin < c[i].end
  <2> TAKE i \in 1 .. m + n
  <2>1. CASE i \in 1 .. m
    BY <1>2, <1>6, <2>1
  <2>2. CASE i > m
    BY <1>2, <1>4, <1>7, <2>2
  <2> QED
    BY <1>8, <2>1, <2>2
<1>10. ASSUME NEW i \in 1 .. m + n, NEW k \in 1 .. m + n, i < k
       PROVE  c[i].end < c[k].begin
  <2>1. CASE k \in 1 .. m
    <3>1. i \in 1 .. m
      BY <1>1, <1>10, <2>1
    <3> QED
      BY <1>2, <1>6, <1>10, <2>1, <3>1
  <2>2. CASE i > m
    <3>1. k > m /\ i - m < k - m /\ i - m \in 1 .. n /\ k - m \in 1 .. n
      BY <1>1, <1>10, <2>2
    <3> QED
      BY <1>2, <1>7, <2>2, <3>1
  <2>3. CASE i \in 1 .. m /\ k > m
    <3> DEFINE x == a[i].end - 1
               y == b[k - m].begin
    <3>1. y \in B /\ y \in Nat /\ c[k].begin = y
      BY <1>2, <1>4, <1>7, <2>3
    <3>2. a[i].end \in Nat /\ x \in A /\ c[i].end = a[i].end
      <4>1. a[i].end \in Nat /\ a[i].begin \in Nat /\ a[i].begin < a[i].end
        BY <1>6, <2>3
      <4>2. x \in Int /\ In(x, a[i])
        BY <4>1 DEF In
      <4> QED
        BY <1>2, <1>6, <2>3, <4>1, <4>2
    <3>3. x + 1 < y
      BY <3>1, <3>2
    <3>4. x + 1 = a[i].end
      BY <3>2
    <3> QED
      BY <3>1, <3>2, <3>3, <3>4
  <2> QED
    BY <1>8, <2>1, <2>2, <2>3
<1>11. ASSUME NEW p \in Int
       PROVE  p \in A \cup B <=> \E i \in 1 .. m + n : In(p, c[i])
  <2>1. p \in A <=> \E i \in 1 .. m : In(p, a[i])
    BY DEF IsGaps, m
  <2>2. p \in B <=> \E i \in 1 .. n : In(p, b[i])
    BY DEF IsGaps, n
  <2>3. (\E i \in 1 .. m : In(p, a[i])) => \E i \in 1 .. m + n : In(p, c[i])
    BY <1>2, <1>3
  <2>4. (\E i \in 1 .. n : In(p, b[i])) => \E i \in 1 .. m + n : In(p, c[i])
    <3> SUFFICES ASSUME NEW i \in 1 .. n, In(p, b[i])
                 PROVE  \E k \in 1 .. m + n : In(p, c[k])
      OBVIOUS
    <3> DEFINE k == i + m
    <3>a. k \in 1 .. m + n /\ k > m /\ k - m = i
      BY <1>1
    <3> HIDE DEF k
    <3>b. c[k] = b[k - m]
      BY <1>2, <3>a
    <3>1. k \in 1 .. m + n /\ c[k] = b[i]
      BY <3>a, <3>b
    <3> QED
      BY <3>1
  <2>5. ASSUME NEW i \in 1 .. m + n, In(p, c[i])
        PROVE  p \in A \cup B
    <3>1. CASE i \in 1 .. m
      BY <1>2, <2>1, <2>5, <3>1
    <3>2. CASE i > m
      BY <1>2, <1>4, <2>2, <2>5, <3>2
    <3> QED
      BY <1>8, <3>1, <3>2
  <2> QED
    BY <2>1, <2>2, <2>3, <2>4, <2>5
<1>12. A \cup B \subseteq Nat
  BY <1>1
<1> QED
  BY <1>2, <1>9, <1>10, <1>11, <1>12 DEF IsGaps, c

LEMMA NoGaps == IsGaps(<<>>, {})
<1>1. <<>> \in Seq(Span) /\ Len(<<>>) = 0
  OBVIOUS
<1>2. 1 .. 0 = {}
  OBVIOUS
<1> QED
  BY <1>1, <1>2 DEF IsGaps

LEMMA PieceIs ==
  ASSUME NEW begin \in Nat, NEW end \in Nat
  PROVE  IsGaps(Piece(begin, end), {p \in Nat : begin <= p /\ p < end})
<1> DEFINE M == {p \in Nat : begin <= p /\ p < end}
           g == Gap(begin, end)
<1>1. CASE begin < end
  <2>1. g \in Span /\ g.begin = begin /\ g.end = end
    BY DEF Gap, Span
  <2> HIDE DEF g
  <2>2. <<g>> \in Seq(Span) /\ Len(<<g>>) = 1 /\ <<g>>[1] = g
    BY <2>1
  <2>3. \A i \in 1 .. 1 : i = 1
    OBVIOUS
  <2>4. \A p \in Int : p \in M <=> In(p, g)
    BY <2>1 DEF In
  <2>5. IsGaps(<<g>>, M)
    <3>1. \A i \in 1 .. 1 : <<g>>[i].begin < <<g>>[i].end
      BY <1>1, <2>1, <2>2, <2>3
    <3>2. \A i, k \in 1 .. 1 : ~(i < k)
      OBVIOUS
    <3>3. \A p \in Int : p \in M <=> \E i \in 1 .. 1 : In(p, <<g>>[i])
      BY <2>2, <2>3, <2>4
    <3>4. M \subseteq Nat
      OBVIOUS
    <3> HIDE DEF M
    <3> QED
      BY <2>2, <3>1, <3>2, <3>3, <3>4 DEF IsGaps
  <2> QED
    BY <1>1, <2>5 DEF Piece, g
<1>2. CASE ~(begin < end)
  <2>1. M = {}
    BY <1>2
  <2> QED
    BY <1>2, <2>1, NoGaps DEF Piece
<1> QED
  BY <1>1, <1>2

\* A run of a list is the list of what its gaps hold.
LEMMA PartIs ==
  ASSUME NEW s, NEW M, IsGaps(s, M), NEW a \in 1 .. Len(s) + 1, NEW b \in 0 .. Len(s), a <= b + 1
  PROVE  IsGaps(SubSeq(s, a, b), Held(s, a, b))
<1> DEFINE r == SubSeq(s, a, b)
           n == b - a + 1
<1>1. /\ Len(s) \in Nat /\ s \in Seq(Span)
      /\ \A i \in 1 .. Len(s) : s[i] \in Span /\ s[i].begin < s[i].end
      /\ \A i, k \in 1 .. Len(s) : i < k => s[i].end < s[k].begin
  BY GapsAre
<1>2. a \in Int /\ b \in Int /\ n \in Nat
  BY <1>1
<1>3. \A i \in 1 .. n : i + a - 1 \in 1 .. Len(s) /\ i + a - 1 \in a .. b /\ i \in Int
  BY <1>1, <1>2
<1>4. \A k \in a .. b : k - a + 1 \in 1 .. n /\ (k - a + 1) + a - 1 = k
  BY <1>1, <1>2
<1>5. r \in Seq(Span) /\ Len(r) = n /\ \A i \in 1 .. n : r[i] = s[i + a - 1]
  <2>1. \A k \in a .. b : s[k] \in Span
    BY <1>1, <1>4, <1>3
  <2>2. /\ r \in Seq(Span) /\ Len(r) = IF a <= b THEN b - a + 1 ELSE 0
        /\ \A i \in 1 .. b - a + 1 : r[i] = s[a + i - 1]
    BY <1>2, <2>1, SubSeqProperties
  <2> HIDE DEF r
  <2>3. Len(r) = n
    BY <1>2, <2>2
  <2>4. \A i \in 1 .. n : a + i - 1 = i + a - 1
    BY <1>2
  <2> QED
    BY <2>2, <2>3, <2>4
<1> HIDE DEF r, n
<1>6. \A i \in 1 .. n : r[i].begin < r[i].end
  BY <1>1, <1>3, <1>5
<1>7. \A i, k \in 1 .. n : i < k => r[i].end < r[k].begin
  <2> TAKE i, k \in 1 .. n
  <2> HAVE i < k
  <2>1. i + a - 1 < k + a - 1
    BY <1>2, <1>3
  <2> QED
    BY <1>1, <1>3, <1>5, <2>1
<1>8. ASSUME NEW p \in Int
      PROVE  p \in Held(s, a, b) <=> \E i \in 1 .. n : In(p, r[i])
  <2>1. p \in Held(s, a, b) <=> p \in Nat /\ \E k \in a .. b : In(p, s[k])
    BY DEF Held
  <2>2. (\E k \in a .. b : In(p, s[k])) <=> \E i \in 1 .. n : In(p, r[i])
    BY <1>3, <1>4, <1>5
  <2>3. ASSUME NEW i \in 1 .. n, In(p, r[i])
        PROVE  p \in Nat
    <3>1. s[i + a - 1].begin \in Nat
      BY <1>3, GapsAre
    <3> QED
      BY <1>5, <2>3, <3>1 DEF In
  <2> QED
    BY <2>1, <2>2, <2>3
<1>9. Held(s, a, b) \subseteq Nat
  BY DEF Held
<1> QED
  BY <1>5, <1>6, <1>7, <1>8, <1>9 DEF IsGaps, r

-----------------------------------------------------------------------------
\* How many members of T are t or below.
Rank(T, t) == Cardinality({u \in T : u <= t})

LEMMA RankIs ==
  ASSUME NEW T, T \subseteq Int, IsFiniteSet(T), NEW n, n = Cardinality(T)
  PROVE  /\ n \in Nat
         /\ \A t \in T : Rank(T, t) \in 1 .. n
         /\ \A a, b \in T : a < b => Rank(T, a) < Rank(T, b)
<1>1. n \in Nat
  BY FS_CardinalityType
<1> DEFINE Below(t) == {u \in T : u <= t}
<1>2. \A t : Below(t) \in SUBSET T /\ Rank(T, t) = Cardinality(Below(t))
  BY DEF Rank
<1>3. ASSUME NEW t \in T
      PROVE  Rank(T, t) \in 1 .. n
  <2>1. IsFiniteSet(Below(t)) /\ Cardinality(Below(t)) <= n
    BY <1>2, FS_Subset
  <2>2. t \in Below(t)
    OBVIOUS
  <2>3. Cardinality(Below(t)) \in Nat /\ Cardinality(Below(t)) # 0
    BY <2>1, <2>2, FS_CardinalityType, FS_EmptySet
  <2> QED
    BY <1>1, <1>2, <2>1, <2>3
<1>4. ASSUME NEW a \in T, NEW b \in T, a < b
      PROVE  Rank(T, a) < Rank(T, b)
  <2>0. a \in Int /\ b \in Int /\ \A u \in T : u \in Int
    OBVIOUS
  <2>a. (\A u \in T : u <= a => u <= b) /\ b <= b /\ ~(b <= a)
    BY <1>4, <2>0
  <2>1. Below(a) \in SUBSET Below(b) /\ b \in Below(b) /\ b \notin Below(a)
    BY <2>a
  <2>2. IsFiniteSet(Below(b))
    BY <1>2, FS_Subset
  <2> HIDE DEF Below
  <2>3. /\ Cardinality(Below(a)) <= Cardinality(Below(b))
        /\ Cardinality(Below(a)) # Cardinality(Below(b))
    BY <2>1, <2>2, FS_Subset
  <2>4. Rank(T, a) \in Int /\ Rank(T, b) \in Int
    BY <1>3
  <2> QED
    BY <1>2, <2>3, <2>4
<1> QED
  BY <1>1, <1>3, <1>4

\* Increasing(T) has every member of T, in increasing order.
IsIncreasing(d, T) ==
  /\ Cardinality(T) \in Nat /\ d \in Seq(T) /\ Len(d) = Cardinality(T)
  /\ \A i \in 1 .. Len(d) : d[i] \in T
  /\ \A i, k \in 1 .. Len(d) : i < k => d[i] < d[k]
  /\ \A t \in T : \E i \in 1 .. Len(d) : d[i] = t

LEMMA IncreasingIs ==
  ASSUME NEW T, T \subseteq Int, IsFiniteSet(T)
  PROVE  IsIncreasing(Increasing(T), T)
<1> DEFINE n == Cardinality(T)
           d == Increasing(T)
           r == [t \in T |-> Rank(T, t)]
<1>1. /\ n \in Nat
      /\ \A t \in T : Rank(T, t) \in 1 .. n
      /\ \A a, b \in T : a < b => Rank(T, a) < Rank(T, b)
  BY RankIs
<1>2. \A a, b \in T : Rank(T, a) = Rank(T, b) => a = b
  <2> SUFFICES ASSUME NEW a \in T, NEW b \in T, Rank(T, a) = Rank(T, b), a # b
               PROVE  FALSE
    OBVIOUS
  <2>1. a \in Int /\ b \in Int /\ Rank(T, a) \in Int /\ Rank(T, b) \in Int
    BY <1>1
  <2>2. a < b \/ b < a
    BY <2>1
  <2> QED
    BY <1>1, <2>1, <2>2
<1>3. r \in Injection(T, 1 .. n)
  BY <1>1, <1>2 DEF Injection, IsInjective
<1>4. IsFiniteSet(1 .. n) /\ Cardinality(1 .. n) = n
  BY <1>1, FS_Interval
<1>5. r \in Surjection(T, 1 .. n)
  BY <1>3, <1>4, FS_Injection
<1>6. \A i \in 1 .. n : \E t \in T : Rank(T, t) = i
  BY <1>5 DEF Surjection
<1>7. d = [i \in 1 .. n |-> CHOOSE t \in T : Rank(T, t) = i]
  BY DEF Increasing, Rank
<1> HIDE DEF d, n, r
<1>8. \A i \in 1 .. n : d[i] \in T /\ Rank(T, d[i]) = i
  BY <1>6, <1>7
<1>9. d \in [1 .. n -> T]
  BY <1>7, <1>8
<1>10. d \in Seq(T) /\ Len(d) = n
  BY <1>1, <1>9
<1>11. \A i, k \in 1 .. n : i < k => d[i] < d[k]
  <2> TAKE i, k \in 1 .. n
  <2> HAVE i < k
  <2>1. d[i] \in T /\ d[k] \in T /\ Rank(T, d[i]) = i /\ Rank(T, d[k]) = k
    BY <1>8
  <2>2. i \in Int /\ k \in Int /\ ~(k < i) /\ k # i
    BY <1>1
  <2>3. d[i] # d[k]
    BY <2>1, <2>2
  <2>4. ~(d[k] < d[i])
    BY <1>1, <2>1, <2>2
  <2>5. d[i] \in Int /\ d[k] \in Int
    BY <2>1
  <2> QED
    BY <2>3, <2>4, <2>5
<1>12. \A t \in T : \E i \in 1 .. n : d[i] = t
  <2> TAKE t \in T
  <2>1. Rank(T, t) \in 1 .. n
    BY <1>1
  <2>2. d[Rank(T, t)] \in T /\ Rank(T, d[Rank(T, t)]) = Rank(T, t)
    BY <1>8, <2>1
  <2>3. d[Rank(T, t)] = t
    BY <1>2, <2>2
  <2> QED
    BY <2>1, <2>3
<1> QED
  BY <1>1, <1>8, <1>10, <1>11, <1>12 DEF IsIncreasing, n, d

-----------------------------------------------------------------------------
\* The run of missing bytes that begins at k ends somewhere.
LEMMA RunEnds ==
  ASSUME NEW N \in Nat, NEW M, M \subseteq 0 .. N, NEW k \in M
  PROVE  \E e \in k + 1 .. N + 1 : k .. e - 1 \subseteq M /\ e \notin M
<1>1. k \in Nat /\ k <= N /\ \A p \in M : p \in Nat /\ p <= N
  OBVIOUS
<1> DEFINE Z == {e \in Nat : k < e /\ e \notin M}
<1>2. Z \subseteq Nat /\ N + 1 \in Z
  BY <1>1
<1>3. PICK e \in Z : \A z \in Z : e <= z
  BY <1>2, LeastMember, Zenon
<1>4. e \in Nat /\ k < e /\ e \notin M /\ e <= N + 1
  BY <1>2, <1>3
<1>5. k .. e - 1 \subseteq M
  <2> SUFFICES ASSUME NEW p \in k .. e - 1
               PROVE  p \in M
    OBVIOUS
  <2>1. p \in Nat /\ k <= p /\ p < e
    BY <1>1, <1>4
  <2>2. p # k => k < p
    BY <1>1, <2>1
  <2>3. p \notin Z
    BY <1>3, <1>4, <2>1
  <2> QED
    BY <2>1, <2>2, <2>3
<1>6. e \in k + 1 .. N + 1
  BY <1>1, <1>4
<1> QED
  BY <1>4, <1>5, <1>6

\* The run of missing bytes that p is in begins somewhere.
LEMMA RunBegins ==
  ASSUME NEW M, M \subseteq Nat, NEW p \in M
  PROVE  \E k \in M : k <= p /\ k .. p \subseteq M /\ k - 1 \notin M
<1> DEFINE Z == {k \in M : k <= p /\ k .. p \subseteq M}
<1>1. p \in Nat /\ p .. p = {p}
  OBVIOUS
<1>a. p <= p /\ p .. p \subseteq M
  BY <1>1
<1>2. Z \subseteq Nat /\ p \in Z
  BY <1>a, Zenon
<1>3. PICK k \in Z : \A z \in Z : k <= z
  BY <1>2, LeastMember, Zenon
<1>4. k \in M /\ k \in Nat /\ k <= p /\ k .. p \subseteq M
  BY <1>3
<1>5. k - 1 \notin M
  <2> SUFFICES ASSUME k - 1 \in M
               PROVE  FALSE
    OBVIOUS
  <2>1. \A x \in k - 1 .. p : x = k - 1 \/ x \in k .. p
    BY <1>1, <1>4
  <2>2. k - 1 .. p \subseteq M /\ k - 1 <= p
    BY <1>1, <1>4, <2>1
  <2>3. k - 1 \in Z /\ ~(k <= k - 1)
    BY <1>4, <2>2
  <2> QED
    BY <1>3, <2>3
<1> QED
  BY <1>4, <1>5

\* GapsOf makes the list of the bytes a set leaves.
LEMMA GapsOfIs ==
  ASSUME NEW g
  PROVE  IsGaps(GapsOf(g), Offset \ g)
<1> DEFINE M == (0 .. Endless - 1) \ g
           T == {k \in M : k - 1 \notin M}
           d == Increasing(T)
           n == Cardinality(T)
           E(k) == CHOOSE e \in k + 1 .. Endless : k .. e - 1 \subseteq M /\ e \notin M
           s == GapsOf(g)
<1>1. /\ MaxOff \in Nat /\ Endless = MaxOff + 1 /\ Offset \ g = M
      /\ M \subseteq 0 .. MaxOff /\ M \subseteq Nat
  BY RxFlowAssumption DEF Endless, Offset
<1>2. T \subseteq M /\ \A k \in T : k - 1 \notin M
  OBVIOUS
<1>3. IsIncreasing(d, T)
  <2>1. IsFiniteSet(0 .. MaxOff)
    BY <1>1, FS_Interval
  <2>2. IsFiniteSet(T) /\ T \subseteq Int
    BY <1>1, <1>2, <2>1, FS_Subset
  <2> QED
    BY <2>2, IncreasingIs
<1>4. /\ n \in Nat /\ Len(d) = n /\ DOMAIN d = 1 .. n
      /\ \A i \in 1 .. n : d[i] \in T
      /\ \A i, k \in 1 .. n : i < k => d[i] < d[k]
      /\ \A t \in T : \E i \in 1 .. n : d[i] = t
  <2> HIDE DEF d, T
  <2>1. d \in Seq(T) /\ Len(d) = n /\ n \in Nat
    BY <1>3 DEF IsIncreasing
  <2>2. DOMAIN d = 1 .. n
    BY <2>1
  <2> QED
    BY <1>3, <2>1, <2>2 DEF IsIncreasing
<1>5. s = [i \in 1 .. n |-> Gap(d[i], E(d[i]))]
  <2>1. s = [i \in DOMAIN d |-> Gap(d[i], E(d[i]))]
    BY DEF GapsOf
  <2> HIDE DEF d, E, s, n
  <2> QED
    BY <1>4, <2>1
<1>6. \A k \in M : E(k) \in k + 1 .. Endless /\ k .. E(k) - 1 \subseteq M /\ E(k) \notin M
  <2> TAKE k \in M
  <2> HIDE DEF M
  <2>1. \E e \in k + 1 .. MaxOff + 1 : k .. e - 1 \subseteq M /\ e \notin M
    BY <1>1, RunEnds
  <2> QED
    BY <1>1, <2>1
<1> DEFINE F == [k \in M |-> E(k)]
<1>7. /\ \A k \in M : F[k] \in k + 1 .. Endless /\ k .. F[k] - 1 \subseteq M /\ F[k] \notin M
      /\ s = [i \in 1 .. n |-> Gap(d[i], F[d[i]])]
  <2>1. \A i \in 1 .. n : d[i] \in M /\ F[d[i]] = E(d[i])
    BY <1>2, <1>4
  <2>2. \A k \in M : F[k] = E(k)
    OBVIOUS
  <2> HIDE DEF E, F, M, T, d, n, s
  <2> QED
    BY <1>5, <1>6, <2>1, <2>2
<1> HIDE DEF E, F, M, T, d, n, s
<1>8. ASSUME NEW i \in 1 .. n
      PROVE  /\ s[i] = Gap(d[i], F[d[i]]) /\ s[i] \in Span
             /\ s[i].begin = d[i] /\ s[i].end = F[d[i]] /\ d[i] \in Nat /\ F[d[i]] \in Nat
             /\ d[i] < F[d[i]] /\ d[i] .. F[d[i]] - 1 \subseteq M /\ F[d[i]] \notin M
             /\ d[i] \in M /\ d[i] - 1 \notin M
  <2>1. d[i] \in M /\ d[i] - 1 \notin M /\ d[i] \in Nat
    BY <1>1, <1>2, <1>4
  <2>2. F[d[i]] \in d[i] + 1 .. Endless /\ d[i] .. F[d[i]] - 1 \subseteq M /\ F[d[i]] \notin M
    BY <1>7, <2>1
  <2>3. F[d[i]] \in Nat /\ d[i] < F[d[i]]
    BY <1>1, <2>1, <2>2
  <2>4. s[i] = Gap(d[i], F[d[i]])
    BY <1>7
  <2> QED
    BY <2>1, <2>2, <2>3, <2>4 DEF Gap, Span
<1>9. s \in Seq(Span) /\ Len(s) = n
  <2>1. s \in [1 .. n -> Span]
    BY <1>7, <1>8
  <2> QED
    BY <1>4, <2>1
<1>10. \A i \in 1 .. n : s[i].begin < s[i].end
  BY <1>8
<1>11. \A i, k \in 1 .. n : i < k => s[i].end < s[k].begin
  <2> TAKE i, k \in 1 .. n
  <2> HAVE i < k
  <2>1. d[i] < d[k] /\ d[i] \in Nat /\ d[k] \in Nat
    BY <1>4, <1>8
  <2>2. F[d[i]] \in Nat /\ F[d[i]] \notin M /\ d[i] .. F[d[i]] - 1 \subseteq M
    BY <1>8
  <2>3. d[k] \in M /\ d[k] - 1 \notin M
    BY <1>8
  <2>4. F[d[i]] # d[k] /\ d[k] - 1 \notin d[i] .. F[d[i]] - 1
    BY <2>2, <2>3
  <2>5. F[d[i]] < d[k]
    BY <2>1, <2>2, <2>4
  <2> QED
    BY <1>8, <2>5
<1>12. ASSUME NEW p \in M
       PROVE  \E i \in 1 .. n : In(p, s[i])
  <2>1. PICK k \in M : k <= p /\ k .. p \subseteq M /\ k - 1 \notin M
    BY <1>1, RunBegins
  <2>2. PICK i \in 1 .. n : d[i] = k
    BY <1>4, <2>1 DEF T
  <2>3. k \in Nat /\ p \in Nat /\ F[k] \in Nat /\ F[k] \notin M /\ k < F[k]
    BY <1>1, <1>8, <2>2
  <2>4. F[k] \notin k .. p
    BY <2>1, <2>3
  <2>5. p < F[k]
    BY <2>3, <2>4
  <2> QED
    BY <1>8, <2>1, <2>2, <2>5 DEF In
<1>13. ASSUME NEW p \in Int, NEW i \in 1 .. n, In(p, s[i])
       PROVE  p \in M
  <2>1. p \in d[i] .. F[d[i]] - 1
    BY <1>8, <1>13 DEF In
  <2> QED
    BY <1>8, <2>1
<1>14. IsGaps(s, M)
  BY <1>1, <1>9, <1>10, <1>11, <1>12, <1>13 DEF IsGaps
<1> QED
  BY <1>1, <1>14 DEF s

-----------------------------------------------------------------------------
\* What the gaps from i on hold outside q.
Rest(s, i, q) == {p \in Nat : (\E k \in i .. Len(s) : In(p, s[k])) /\ ~In(p, q)}

\* The part of a gap that a range has.
LEMMA MeetIs ==
  ASSUME NEW r \in Span, NEW q \in Span, r.begin < r.end, q.begin < q.end
  PROVE  LET m == Meet(r, q)
         IN /\ r.begin \in Nat /\ r.end \in Nat /\ q.begin \in Nat /\ q.end \in Nat
            /\ m.begin \in Nat /\ m.end \in Nat
            /\ NonEmpty(m) <=> r.begin < q.end /\ q.begin < r.end
            /\ NonEmpty(m) <=> m.begin < m.end
            /\ \A p \in Int : In(p, r) /\ ~In(p, q) /\ NonEmpty(m) <=>
                                NonEmpty(m) /\ (\/ r.begin <= p /\ p < m.begin
                                                \/ m.end <= p /\ p < r.end)
<1> DEFINE m == Meet(r, q)
<1>1. r.begin \in Nat /\ r.end \in Nat /\ q.begin \in Nat /\ q.end \in Nat
  BY DEF Span
<1>2. /\ m.begin = IF r.begin < q.begin THEN q.begin ELSE r.begin
      /\ m.end = IF r.end < q.end THEN r.end ELSE q.end
  BY DEF Meet, Gap
<1> HIDE DEF m
<1>3. m.begin \in Nat /\ m.end \in Nat
  BY <1>1, <1>2
<1>4. NonEmpty(m) <=> m.begin < m.end
  BY DEF NonEmpty
<1>5. NonEmpty(m) <=> r.begin < q.end /\ q.begin < r.end
  BY <1>1, <1>2, <1>4
<1>6. \A p \in Int : In(p, r) /\ ~In(p, q) /\ NonEmpty(m) <=>
                       NonEmpty(m) /\ (\/ r.begin <= p /\ p < m.begin
                                       \/ m.end <= p /\ p < r.end)
  BY <1>1, <1>2, <1>5 DEF In
<1> QED
  BY <1>1, <1>3, <1>4, <1>5, <1>6 DEF m

\* ngtcp2_range_cut leaves what the range did not have.
LEMMA CutIs ==
  ASSUME NEW r \in Span, NEW q \in Span, r.begin < r.end, q.begin < q.end,
         NonEmpty(Meet(r, q))
  PROVE  IsGaps(Cut(r, Meet(r, q)), {p \in Nat : In(p, r) /\ ~In(p, q)})
<1> DEFINE m == Meet(r, q)
           A == {p \in Nat : r.begin <= p /\ p < m.begin}
           B == {p \in Nat : m.end <= p /\ p < r.end}
<1>1. /\ r.begin \in Nat /\ r.end \in Nat /\ m.begin \in Nat /\ m.end \in Nat
      /\ m.begin < m.end
      /\ \A p \in Int : In(p, r) /\ ~In(p, q) <=> \/ r.begin <= p /\ p < m.begin
                                                  \/ m.end <= p /\ p < r.end
  BY MeetIs
<1>2. Cut(r, m) = Piece(r.begin, m.begin) \o Piece(m.end, r.end)
  BY DEF Cut
<1> HIDE DEF m
<1>3. IsGaps(Piece(r.begin, m.begin), A) /\ IsGaps(Piece(m.end, r.end), B)
  BY <1>1, PieceIs
<1>4. \A x \in A, y \in B : x + 1 < y
  BY <1>1
<1>5. A \cup B = {p \in Nat : In(p, r) /\ ~In(p, q)}
  <2>1. \A p \in Nat : In(p, r) /\ ~In(p, q) <=> p \in A \cup B
    BY <1>1
  <2> QED
    BY <2>1
<1> HIDE DEF A, B
<1>6. IsGaps(Cut(r, m), A \cup B)
  BY <1>2, <1>3, <1>4, ConcatIs
<1> QED
  BY <1>5, <1>6 DEF m

\* A range pushed in front of gap i and cut from it leaves the rest of the list.
LEMMA RestStep ==
  ASSUME NEW s, NEW M, IsGaps(s, M), NEW i \in 1 .. Len(s), NEW q, NEW a, NEW w,
         IsGaps(a, {p \in Nat : In(p, s[i]) /\ ~In(p, q)}), IsGaps(w, Rest(s, i + 1, q))
  PROVE  IsGaps(a \o w, Rest(s, i, q))
<1> DEFINE A == {p \in Nat : In(p, s[i]) /\ ~In(p, q)}
           B == Rest(s, i + 1, q)
<1>1. /\ Len(s) \in Nat /\ i \in Int
      /\ \A k \in 1 .. Len(s) : s[k].begin \in Nat /\ s[k].end \in Nat
      /\ \A h, k \in 1 .. Len(s) : h < k => s[h].end < s[k].begin
  BY GapsAre
<1>2. \A k : k \in i .. Len(s) <=> k = i \/ k \in i + 1 .. Len(s)
  BY <1>1
<1>3. A \cup B = Rest(s, i, q)
  BY <1>2 DEF Rest
<1>4. ASSUME NEW x \in A, NEW y \in B
      PROVE  x + 1 < y
  <2>1. x \in Nat /\ x < s[i].end
    BY DEF In
  <2>2. PICK k \in i + 1 .. Len(s) : In(y, s[k])
    BY DEF Rest
  <2>3. y \in Nat /\ s[k].begin <= y
    BY <2>2 DEF In, Rest
  <2>4. k \in 1 .. Len(s) /\ i < k
    BY <1>1
  <2>5. s[i].end < s[k].begin /\ s[i].end \in Nat /\ s[k].begin \in Nat
    BY <1>1, <2>4
  <2> QED
    BY <2>1, <2>3, <2>5
<1> HIDE DEF A, B
<1>5. IsGaps(a \o w, A \cup B)
  BY <1>4, ConcatIs DEF A, B
<1> QED
  BY <1>3, <1>5

\* Gaps beyond q are left as they are.
LEMMA RestWhole ==
  ASSUME NEW s, NEW M, IsGaps(s, M), NEW i \in 1 .. Len(s) + 1, NEW q \in Span,
         \A k \in i .. Len(s) : q.end <= s[k].begin
  PROVE  IsGaps(SubSeq(s, i, Len(s)), Rest(s, i, q))
<1>1. /\ Len(s) \in Nat /\ i \in Int /\ i <= Len(s) + 1 /\ Len(s) \in 0 .. Len(s)
      /\ \A k \in 1 .. Len(s) : s[k].begin \in Nat /\ s[k].end \in Nat
      /\ q.end \in Nat
  BY GapsAre DEF Span
<1>2. IsGaps(SubSeq(s, i, Len(s)), Held(s, i, Len(s)))
  BY <1>1, PartIs
<1>3. ASSUME NEW p \in Nat, NEW k \in i .. Len(s), In(p, s[k])
      PROVE  ~In(p, q)
  <2>1. q.end <= s[k].begin /\ s[k].begin <= p /\ s[k].begin \in Nat
    BY <1>1, <1>3 DEF In
  <2> QED
    BY <1>1, <2>1 DEF In
<1>4. Held(s, i, Len(s)) = Rest(s, i, q)
  BY <1>3 DEF Held, Rest
<1> QED
  BY <1>2, <1>4

LEMMA RestIsPart ==
  ASSUME NEW s, NEW M, IsGaps(s, M), NEW i \in 1 .. Len(s) + 1, NEW q
  PROVE  /\ Rest(s, i, q) \subseteq M
         /\ Rest(s, Len(s) + 1, q) = {}
         /\ Rest(s, 1, q) = {p \in M : ~In(p, q)}
<1>1. /\ Len(s) \in Nat /\ i \in Int /\ \A k \in i .. Len(s) : k \in 1 .. Len(s)
      /\ Len(s) + 1 .. Len(s) = {}
      /\ \A k \in 1 .. Len(s) : \A p \in Int : In(p, s[k]) => p \in M
      /\ \A p \in M : p \in Nat /\ \E k \in 1 .. Len(s) : In(p, s[k])
  BY GapsAre
<1>2. \A p \in Nat : p \in Int
  OBVIOUS
<1> QED
  BY <1>1, <1>2 DEF Rest

-----------------------------------------------------------------------------
\* What passes from each index to the one before it holds for all.
LEMMA Downward ==
  ASSUME NEW n \in Nat, NEW P, n + 1 \in P, \A i \in 1 .. n : i + 1 \in P => i \in P
  PROVE  \A i \in 1 .. n + 1 : i \in P
<1> DEFINE Z == {j \in 0 .. n : n + 1 - j \notin P}
<1> SUFFICES ASSUME NEW i \in 1 .. n + 1, i \notin P
             PROVE  FALSE
  OBVIOUS
<1>1. n + 1 - i \in Z /\ Z \subseteq Nat
  <2>1. n + 1 - i \in 0 .. n /\ n + 1 - (n + 1 - i) = i
    OBVIOUS
  <2> QED
    BY <2>1
<1>2. PICK j \in Z : \A k \in Z : j <= k
  BY <1>1, LeastMember, Zenon
<1>3. j \in 0 .. n /\ n + 1 - j \notin P
  BY <1>2
<1>4. j # 0
  <2>1. n + 1 - 0 = n + 1
    OBVIOUS
  <2> QED
    BY <1>3, <2>1
<1> DEFINE h == n + 1 - j
<1>5. h \in 1 .. n /\ j - 1 \in 0 .. n /\ h + 1 = n + 1 - (j - 1) /\ ~(j <= j - 1)
  BY <1>3, <1>4
<1>6. h + 1 \in P
  BY <1>2, <1>5
<1> HIDE DEF h
<1>7. h \in P
  BY <1>5, <1>6
<1> QED
  BY <1>3, <1>7 DEF h

\* Gap i does not lie wholly before q.
Meets(s, i, q) == NonEmpty(Meet(s[i], q))
Reached(s, i, q) == i <= Len(s) => s[i].begin >= q.begin \/ Meets(s, i, q)

LEMMA MeetsIs ==
  ASSUME NEW s, NEW M, IsGaps(s, M), NEW q \in Span, q.begin < q.end, NEW i \in 1 .. Len(s)
  PROVE  /\ q.begin \in Nat /\ q.end \in Nat /\ s[i].begin \in Nat /\ s[i].end \in Nat
         /\ s[i].begin < s[i].end
         /\ Meets(s, i, q) <=> s[i].begin < q.end /\ q.begin < s[i].end
<1>1. s[i] \in Span /\ s[i].begin < s[i].end
  BY GapsAre
<1> QED
  BY <1>1, MeetIs DEF Meets

\* One round of the loop of ngtcp2_rob_push, given the rounds after it.
PushRound(s, i, q, w) ==
  IF i > Len(s) THEN <<>>
  ELSE IF ~NonEmpty(Meet(s[i], q)) THEN SubSeq(s, i, Len(s))
  ELSE Cut(s[i], Meet(s[i], q)) \o w

LEMMA PushRoundIs ==
  ASSUME NEW s, NEW M, IsGaps(s, M), NEW q \in Span, q.begin < q.end,
         NEW i \in 1 .. Len(s) + 1, Reached(s, i, q), NEW w,
         i <= Len(s) /\ Reached(s, i + 1, q) => IsGaps(w, Rest(s, i + 1, q))
  PROVE  IsGaps(PushRound(s, i, q, w), Rest(s, i, q))
<1>1. /\ Len(s) \in Nat /\ i \in Int /\ (i > Len(s) => i = Len(s) + 1)
      /\ \A h, k \in 1 .. Len(s) : h < k => s[h].end < s[k].begin
      /\ i <= Len(s) => i \in 1 .. Len(s)
  BY GapsAre
<1>2. CASE i > Len(s)
  <2>1. Rest(s, i, q) = {}
    BY <1>1, <1>2, RestIsPart
  <2> QED
    BY <1>2, <2>1, NoGaps DEF PushRound
<1>3. CASE i <= Len(s) /\ ~Meets(s, i, q)
  <2>1. q.end <= s[i].begin /\ q.end \in Nat
    <3>1. i \in 1 .. Len(s) /\ s[i].begin >= q.begin
      BY <1>1, <1>3 DEF Reached
    <3> QED
      BY <1>3, <3>1, MeetsIs
  <2>2. ASSUME NEW k \in i .. Len(s)
        PROVE  q.end <= s[k].begin
    <3>1. k \in 1 .. Len(s) /\ i \in 1 .. Len(s) /\ (k = i \/ i < k)
      BY <1>1, <1>3
    <3>2. s[k].begin \in Nat /\ s[i].begin \in Nat /\ s[i].end \in Nat /\ s[i].begin < s[i].end
      BY <3>1, MeetsIs
    <3>3. i < k => s[i].end < s[k].begin
      BY <1>1, <3>1
    <3> QED
      BY <2>1, <3>1, <3>2, <3>3
  <2>3. IsGaps(SubSeq(s, i, Len(s)), Rest(s, i, q))
    BY <2>2, RestWhole
  <2>4. PushRound(s, i, q, w) = SubSeq(s, i, Len(s))
    BY <1>1, <1>3 DEF PushRound, Meets
  <2> QED
    BY <2>3, <2>4
<1>4. CASE i <= Len(s) /\ Meets(s, i, q)
  <2>1. i \in 1 .. Len(s) /\ s[i] \in Span /\ s[i].begin < s[i].end /\ NonEmpty(Meet(s[i], q))
    BY <1>1, <1>4, GapsAre DEF Meets
  <2>2. Reached(s, i + 1, q)
    <3> SUFFICES ASSUME i + 1 <= Len(s)
                 PROVE  s[i + 1].begin >= q.begin
      BY DEF Reached
    <3>1. i + 1 \in 1 .. Len(s) /\ i < i + 1
      BY <1>1
    <3>2. s[i].end < s[i + 1].begin
      BY <1>1, <2>1, <3>1
    <3>3. q.begin < s[i].end /\ q.begin \in Nat /\ s[i].end \in Nat
      BY <1>4, <2>1, MeetsIs
    <3>4. s[i + 1].begin \in Nat
      BY <3>1, MeetsIs
    <3> QED
      BY <3>2, <3>3, <3>4
  <2>3. IsGaps(w, Rest(s, i + 1, q))
    BY <1>4, <2>2
  <2>4. IsGaps(Cut(s[i], Meet(s[i], q)), {p \in Nat : In(p, s[i]) /\ ~In(p, q)})
    BY <2>1, CutIs
  <2>5. IsGaps(Cut(s[i], Meet(s[i], q)) \o w, Rest(s, i, q))
    BY <2>1, <2>3, <2>4, RestStep
  <2>6. PushRound(s, i, q, w) = Cut(s[i], Meet(s[i], q)) \o w
    BY <1>1, <1>4 DEF PushRound, Meets
  <2> QED
    BY <2>5, <2>6
<1> QED
  BY <1>1, <1>2, <1>3, <1>4

\* ngtcp2_ksl_lower_bound_compar finds the first gap not wholly before q.
LEMMA LowerBoundIs ==
  ASSUME NEW s, NEW M, IsGaps(s, M), NEW q \in Span, q.begin < q.end
  PROVE  LET i == LowerBound(s, q)
         IN /\ i \in 1 .. Len(s) + 1 /\ Reached(s, i, q)
            /\ \A k \in 1 .. i - 1 : k \in 1 .. Len(s) /\ s[k].end <= q.begin
<1> DEFINE L == Len(s)
           Z == {i \in 1 .. L + 1 : Reached(s, i, q)}
           Before(k) == s[k].begin < q.begin /\ ~NonEmpty(Meet(s[k], q))
           i == LowerBound(s, q)
<1>1. L \in Nat
  BY GapsAre
<1>2. Z \subseteq Nat /\ L + 1 \in Z
  BY <1>1 DEF Reached
<1>3. PICK m \in Z : \A k \in Z : m <= k
  BY <1>2, LeastMember, Zenon
<1>4. \A k \in 1 .. m - 1 : Before(k)
  <2> TAKE k \in 1 .. m - 1
  <2>1. k \in 1 .. L /\ k \in 1 .. L + 1 /\ ~(m <= k) /\ k <= L
    BY <1>1, <1>3
  <2>2. ~Reached(s, k, q)
    BY <1>3, <2>1
  <2>3. ~(s[k].begin >= q.begin) /\ ~NonEmpty(Meet(s[k], q))
    BY <2>2 DEF Reached, Meets
  <2>4. s[k].begin \in Nat /\ q.begin \in Nat
    BY <2>1, MeetsIs
  <2> QED
    BY <2>3, <2>4
<1>5. /\ i \in 1 .. L + 1
      /\ i <= L => s[i].begin >= q.begin \/ NonEmpty(Meet(s[i], q))
      /\ \A k \in 1 .. i - 1 : Before(k)
  <2> DEFINE Q(j) == /\ j <= L => s[j].begin >= q.begin \/ NonEmpty(Meet(s[j], q))
                     /\ \A k \in 1 .. j - 1 : Before(k)
  <2>1. i = CHOOSE j \in 1 .. L + 1 : Q(j)
    BY DEF LowerBound
  <2>2. m \in 1 .. L + 1 /\ Q(m)
    BY <1>3, <1>4 DEF Reached, Meets
  <2> HIDE DEF Q, i
  <2>3. i \in 1 .. L + 1 /\ Q(i)
    BY <2>1, <2>2
  <2> QED
    BY <2>3 DEF Q
<1> HIDE DEF i
<1>6. \A k \in 1 .. i - 1 : k \in 1 .. L /\ s[k].end <= q.begin
  <2> TAKE k \in 1 .. i - 1
  <2>1. k \in 1 .. L
    BY <1>1, <1>5
  <2>2. s[k].begin < q.begin /\ ~Meets(s, k, q)
    BY <1>5 DEF Meets
  <2> QED
    BY <2>1, <2>2, MeetsIs
<1>7. Reached(s, i, q)
  BY <1>5 DEF Reached, Meets
<1> QED
  BY <1>5, <1>6, <1>7 DEF i

\* ngtcp2_rob_push takes exactly the bytes of q out of any list of gaps, whether
\* q fills gaps, trims them or splits one.
THEOREM RobPushIs ==
  ASSUME NEW s, NEW M, IsGaps(s, M), M \subseteq Offset, NEW q \in Span, q.begin < q.end
  PROVE  IsGaps(RobPush(s, q), {p \in M : ~In(p, q)})
<1> DEFINE n == Len(s)
           W(h) == [i \in 1 .. n + 1 |->
                      IF i > n THEN <<>>
                      ELSE IF ~NonEmpty(Meet(s[i], q)) THEN SubSeq(s, i, n)
                      ELSE Cut(s[i], Meet(s[i], q)) \o h[i + 1]]
           walk == CHOOSE h : h = W(h)
           lb == LowerBound(s, q)
           Good(i, l) == Reached(s, i, q) => IsGaps(l, Rest(s, i, q))
           g == [i \in 1 .. n + 1 |->
                   IF i <= n /\ ~Meets(s, i, q) THEN SubSeq(s, i, n)
                   ELSE GapsOf(Offset \ Rest(s, i, q))]
<1>1. RobPush(s, q) = SubSeq(s, 1, lb - 1) \o walk[lb]
  BY DEF RobPush
<1>2. n \in Nat /\ \A i \in 1 .. n : i \in 1 .. n + 1 /\ i + 1 \in 1 .. n + 1
  BY GapsAre
<1>3. \A h : W(h) = [i \in 1 .. n + 1 |-> PushRound(s, i, q, h[i + 1])]
  BY DEF PushRound
<1> HIDE DEF W
<1>4. \A h : \A i \in 1 .. n + 1 : h = W(h) => h[i] = PushRound(s, i, q, h[i + 1])
  <2> TAKE h
  <2> TAKE i \in 1 .. n + 1
  <2>1. W(h)[i] = PushRound(s, i, q, h[i + 1])
    BY <1>3
  <2> QED
    BY <2>1
\* A function that satisfies the recursion.
<1>5. \A i \in 1 .. n + 1 : Good(i, g[i])
  <2> TAKE i \in 1 .. n + 1
  <2> SUFFICES ASSUME Reached(s, i, q)
               PROVE  IsGaps(g[i], Rest(s, i, q))
    OBVIOUS
  <2>1. CASE i <= n /\ ~Meets(s, i, q)
    <3>1. IsGaps(PushRound(s, i, q, GapsOf(Offset \ Rest(s, i + 1, q))), Rest(s, i, q))
      <4>1. i + 1 \in 1 .. n + 1
        BY <1>2, <2>1
      <4>2. Rest(s, i + 1, q) \subseteq Offset
        BY <4>1, RestIsPart
      <4>3. Offset \ (Offset \ Rest(s, i + 1, q)) = Rest(s, i + 1, q)
        BY <4>2
      <4>4. IsGaps(GapsOf(Offset \ Rest(s, i + 1, q)), Rest(s, i + 1, q))
        BY <4>3, GapsOfIs
      <4> QED
        BY <4>4, PushRoundIs
    <3>2. PushRound(s, i, q, GapsOf(Offset \ Rest(s, i + 1, q))) = SubSeq(s, i, n)
      <4>1. ~(i > n)
        BY <1>2, <2>1
      <4> QED
        BY <2>1, <4>1 DEF PushRound, Meets
    <3>3. g[i] = SubSeq(s, i, n)
      BY <2>1
    <3> QED
      BY <3>1, <3>2, <3>3
  <2>2. CASE ~(i <= n /\ ~Meets(s, i, q))
    <3>1. g[i] = GapsOf(Offset \ Rest(s, i, q))
      BY <2>2
    <3>2. Rest(s, i, q) \subseteq Offset
      BY RestIsPart
    <3>3. Offset \ (Offset \ Rest(s, i, q)) = Rest(s, i, q)
      BY <3>2
    <3> QED
      BY <3>1, <3>3, GapsOfIs
  <2> QED
    BY <2>1, <2>2
<1>6. g = W(g)
  <2>1. ASSUME NEW i \in 1 .. n + 1
        PROVE  g[i] = PushRound(s, i, q, g[i + 1])
    <3>1. CASE i <= n /\ ~Meets(s, i, q)
      <4>1. ~(i > n)
        BY <1>2, <3>1
      <4>2. PushRound(s, i, q, g[i + 1]) = SubSeq(s, i, n)
        BY <3>1, <4>1 DEF PushRound, Meets
      <4> QED
        BY <3>1, <4>2
    <3>2. CASE ~(i <= n /\ ~Meets(s, i, q))
      <4>1. i \in 1 .. Len(s) + 1 /\ Reached(s, i, q)
        BY <3>2 DEF Reached
      <4>2. i <= Len(s) /\ Reached(s, i + 1, q) => IsGaps(g[i + 1], Rest(s, i + 1, q))
        <5>1. i <= n => i + 1 \in 1 .. n + 1
          BY <1>2
        <5> HIDE DEF g
        <5> QED
          BY <1>5, <5>1
      <4>3. IsGaps(g[i], Rest(s, i, q))
        BY <1>5, <4>1
      <4> HIDE DEF g
      <4>4. IsGaps(PushRound(s, i, q, g[i + 1]), Rest(s, i, q))
        BY <4>1, <4>2, PushRoundIs
      <4> QED
        BY <4>3, <4>4, OneList
    <3> QED
      BY <3>1, <3>2
  <2>2. g = [i \in 1 .. n + 1 |-> g[i]]
    OBVIOUS
  <2>3. W(g) = [i \in 1 .. n + 1 |-> PushRound(s, i, q, g[i + 1])]
    BY <1>3
  <2> HIDE DEF g
  <2> QED
    BY <2>1, <2>2, <2>3
<1>7. walk = W(walk)
  BY <1>6
<1> HIDE DEF walk, g
<1>8. \A i \in 1 .. n + 1 : walk[i] = PushRound(s, i, q, walk[i + 1])
  BY <1>4, <1>7
\* Any such function leaves the rest of the list.
<1> DEFINE P == {i \in 1 .. n + 1 : Good(i, walk[i])}
<1>9. \A i \in 1 .. n + 1 : i \in P
  <2>1. ASSUME NEW i \in 1 .. n + 1, i <= n => i + 1 \in P
        PROVE  i \in P
    <3> SUFFICES ASSUME Reached(s, i, q)
                 PROVE  IsGaps(walk[i], Rest(s, i, q))
      OBVIOUS
    <3>1. i <= Len(s) /\ Reached(s, i + 1, q) => IsGaps(walk[i + 1], Rest(s, i + 1, q))
      BY <2>1
    <3>2. IsGaps(PushRound(s, i, q, walk[i + 1]), Rest(s, i, q))
      BY <3>1, PushRoundIs
    <3> QED
      BY <1>8, <3>2
  <2> HIDE DEF P
  <2>2. n + 1 \in P
    <3>1. n + 1 \in 1 .. n + 1 /\ ~(n + 1 <= n)
      BY <1>2
    <3> QED
      BY <2>1, <3>1
  <2>3. \A i \in 1 .. n : i + 1 \in P => i \in P
    BY <1>2, <2>1
  <2> HIDE DEF n
  <2> QED
    BY <1>2, <2>2, <2>3, Downward
<1>10. /\ lb \in 1 .. n + 1 /\ Reached(s, lb, q)
       /\ \A k \in 1 .. lb - 1 : k \in 1 .. n /\ s[k].end <= q.begin
  BY LowerBoundIs
<1> HIDE DEF lb
<1>11. IsGaps(walk[lb], Rest(s, lb, q))
  BY <1>9, <1>10
<1> DEFINE A == Held(s, 1, lb - 1)
           B == Rest(s, lb, q)
<1>12. IsGaps(SubSeq(s, 1, lb - 1), A)
  <2>1. 1 \in 1 .. Len(s) + 1 /\ lb - 1 \in 0 .. Len(s) /\ 1 <= lb - 1 + 1
    BY <1>2, <1>10
  <2> QED
    BY <2>1, PartIs
<1>13. ASSUME NEW x \in A, NEW y \in B
       PROVE  x + 1 < y
  <2>1. PICK h \in 1 .. lb - 1 : In(x, s[h])
    BY DEF Held
  <2>2. PICK k \in lb .. n : In(y, s[k])
    BY DEF Rest
  <2>3. h \in 1 .. n /\ k \in 1 .. n /\ h < k
    BY <1>2, <1>10, <2>1, <2>2
  <2>4. s[h].end < s[k].begin
    BY <2>3, GapsAre
  <2>5. x \in Nat /\ y \in Nat /\ x < s[h].end /\ s[k].begin <= y
    BY <2>1, <2>2 DEF In, Held, Rest
  <2>6. s[h].end \in Nat /\ s[k].begin \in Nat
    BY <2>3, MeetsIs
  <2> QED
    BY <2>4, <2>5, <2>6
<1>14. A \cup B = {p \in M : ~In(p, q)}
  <2>1. \A k : k \in 1 .. n <=> k \in 1 .. lb - 1 \/ k \in lb .. n
    BY <1>2, <1>10
  <2>2. \A p \in Int : p \in M <=> p \in Nat /\ \E k \in 1 .. n : In(p, s[k])
    BY DEF IsGaps
  <2>3. ASSUME NEW p \in A
        PROVE  ~In(p, q)
    <3>1. PICK k \in 1 .. lb - 1 : In(p, s[k])
      BY DEF Held
    <3>2. s[k].end <= q.begin /\ s[k].end \in Nat /\ q.begin \in Nat
      BY <1>10, MeetsIs
    <3>3. p \in Nat /\ p < s[k].end
      BY <3>1 DEF In, Held
    <3> QED
      BY <3>2, <3>3 DEF In
  <2>4. ASSUME NEW p \in A \cup B
        PROVE  p \in M /\ ~In(p, q)
    <3>1. p \in Nat /\ p \in Int
      BY DEF Held, Rest
    <3>2. \E k \in 1 .. n : In(p, s[k])
      BY <2>1 DEF Held, Rest
    <3>3. p \in B => ~In(p, q)
      BY DEF Rest
    <3> HIDE DEF A, B
    <3> QED
      BY <2>2, <2>3, <3>1, <3>2, <3>3
  <2>5. ASSUME NEW p \in M, ~In(p, q)
        PROVE  p \in A \cup B
    <3>1. p \in Nat /\ p \in Int
      BY GapsAre
    <3>2. PICK k \in 1 .. n : In(p, s[k])
      BY <2>2, <3>1
    <3> QED
      BY <2>1, <2>5, <3>1, <3>2 DEF Held, Rest
  <2> HIDE DEF A, B
  <2> QED
    BY <2>4, <2>5
<1> HIDE DEF A, B
<1>15. IsGaps(SubSeq(s, 1, lb - 1) \o walk[lb], A \cup B)
  <2>1. IsGaps(walk[lb], B)
    BY <1>11 DEF B
  <2> QED
    BY <1>12, <1>13, <2>1, ConcatIs
<1> QED
  BY <1>1, <1>14, <1>15

-----------------------------------------------------------------------------
\* One round of the loop of ngtcp2_rob_remove_prefix, given the rounds after it.
PrefixRound(s, i, offset, w) ==
  IF i > Len(s) THEN <<>>
  ELSE IF offset <= s[i].begin THEN SubSeq(s, i, Len(s))
  ELSE IF offset < s[i].end THEN <<Gap(offset, s[i].end)>> \o SubSeq(s, i + 1, Len(s))
  ELSE w

LEMMA PrefixRoundIs ==
  ASSUME NEW s, NEW M, IsGaps(s, M), NEW offset \in Nat,
         NEW i \in 1 .. Len(s) + 1, NEW w,
         i <= Len(s) => IsGaps(w, Rest(s, i + 1, Gap(0, offset)))
  PROVE  IsGaps(PrefixRound(s, i, offset, w), Rest(s, i, Gap(0, offset)))
<1> DEFINE q == Gap(0, offset)
<1>1. q \in Span /\ q.begin = 0 /\ q.end = offset
  BY DEF Gap, Span
<1>2. \A p \in Nat : In(p, q) <=> p < offset
  BY <1>1 DEF In
<1> HIDE DEF q
<1>3. /\ Len(s) \in Nat /\ i \in Int /\ (i > Len(s) => i = Len(s) + 1)
      /\ \A h, k \in 1 .. Len(s) : h < k => s[h].end < s[k].begin
      /\ i <= Len(s) => i \in 1 .. Len(s) /\ i + 1 \in 1 .. Len(s) + 1 /\ ~(i > Len(s))
      /\ \A k \in 1 .. Len(s) : s[k].begin \in Nat /\ s[k].end \in Nat /\ s[k].begin < s[k].end
  BY GapsAre
<1>4. \A k \in i .. Len(s) : i <= Len(s) /\ k \in 1 .. Len(s) /\ (k = i \/ i < k)
  BY <1>3
<1>5. CASE i > Len(s)
  <2>1. Rest(s, i, q) = {}
    BY <1>3, <1>5, RestIsPart
  <2> QED
    BY <1>5, <2>1, NoGaps DEF PrefixRound, q
<1>6. CASE i <= Len(s) /\ offset <= s[i].begin
  <2>1. ASSUME NEW k \in i .. Len(s)
        PROVE  q.end <= s[k].begin
    <3>1. i < k => s[i].end < s[k].begin
      BY <1>3, <1>4
    <3> QED
      BY <1>1, <1>3, <1>4, <1>6, <3>1
  <2>2. IsGaps(SubSeq(s, i, Len(s)), Rest(s, i, q))
    BY <1>1, <2>1, RestWhole
  <2>3. PrefixRound(s, i, offset, w) = SubSeq(s, i, Len(s))
    BY <1>3, <1>6 DEF PrefixRound
  <2> QED
    BY <2>2, <2>3 DEF q
<1>7. CASE i <= Len(s) /\ ~(offset <= s[i].begin) /\ offset < s[i].end
  <2>1. i \in 1 .. Len(s) /\ i + 1 \in 1 .. Len(s) + 1
    BY <1>3, <1>7
  <2>2. s[i].begin \in Nat /\ s[i].end \in Nat
    BY <1>3, <2>1
  <2>3. ASSUME NEW k \in i + 1 .. Len(s)
        PROVE  q.end <= s[k].begin
    <3>1. k \in 1 .. Len(s) /\ i < k
      BY <1>3, <2>1
    <3>2. s[i].end < s[k].begin /\ s[k].begin \in Nat
      BY <1>3, <2>1, <3>1
    <3> QED
      BY <1>1, <1>7, <2>2, <3>2
  <2>4. IsGaps(SubSeq(s, i + 1, Len(s)), Rest(s, i + 1, q))
    BY <1>1, <2>1, <2>3, RestWhole
  <2>5. IsGaps(Piece(offset, s[i].end), {p \in Nat : In(p, s[i]) /\ ~In(p, q)})
    <3>1. IsGaps(Piece(offset, s[i].end), {p \in Nat : offset <= p /\ p < s[i].end})
      BY <2>2, PieceIs
    <3>2. \A p \in Nat : In(p, s[i]) /\ ~In(p, q) <=> offset <= p /\ p < s[i].end
      BY <1>2, <1>7, <2>2 DEF In
    <3>3. {p \in Nat : In(p, s[i]) /\ ~In(p, q)} = {p \in Nat : offset <= p /\ p < s[i].end}
      BY <3>2
    <3> QED
      BY <3>1, <3>3
  <2>6. IsGaps(Piece(offset, s[i].end) \o SubSeq(s, i + 1, Len(s)), Rest(s, i, q))
    BY <2>1, <2>4, <2>5, RestStep
  <2>7. PrefixRound(s, i, offset, w) = Piece(offset, s[i].end) \o SubSeq(s, i + 1, Len(s))
    BY <1>3, <1>7 DEF PrefixRound, Piece
  <2> QED
    BY <2>6, <2>7 DEF q
<1>8. CASE i <= Len(s) /\ ~(offset <= s[i].begin) /\ ~(offset < s[i].end)
  <2>1. i \in 1 .. Len(s) /\ s[i].begin \in Nat /\ s[i].end \in Nat
    BY <1>3, <1>8
  <2>2. \A k : k \in i .. Len(s) <=> k = i \/ k \in i + 1 .. Len(s)
    BY <1>3, <2>1
  <2>3. \A p \in Nat : In(p, s[i]) => In(p, q)
    BY <1>2, <1>8, <2>1 DEF In
  <2>4. Rest(s, i, q) = Rest(s, i + 1, q)
    BY <2>2, <2>3 DEF Rest
  <2>5. PrefixRound(s, i, offset, w) = w
    BY <1>3, <1>8 DEF PrefixRound
  <2> QED
    BY <1>8, <2>4, <2>5 DEF q
<1> QED
  BY <1>3, <1>5, <1>6, <1>7, <1>8

\* ngtcp2_rob_remove_prefix takes exactly the bytes before offset out of any list
\* of gaps.
THEOREM RobRemovePrefixIs ==
  ASSUME NEW s, NEW M, IsGaps(s, M), M \subseteq Offset, NEW offset \in Nat
  PROVE  IsGaps(RobRemovePrefix(s, offset), {p \in M : ~In(p, Gap(0, offset))})
<1> DEFINE n == Len(s)
           q == Gap(0, offset)
           W(h) == [i \in 1 .. n + 1 |->
                      IF i > n THEN <<>>
                      ELSE IF offset <= s[i].begin THEN SubSeq(s, i, n)
                      ELSE IF offset < s[i].end
                           THEN <<Gap(offset, s[i].end)>> \o SubSeq(s, i + 1, n)
                      ELSE h[i + 1]]
           walk == CHOOSE h : h = W(h)
           g == [i \in 1 .. n + 1 |-> GapsOf(Offset \ Rest(s, i, q))]
<1>1. RobRemovePrefix(s, offset) = walk[1]
  BY DEF RobRemovePrefix
<1>2. n \in Nat /\ \A i \in 1 .. n : i \in 1 .. n + 1 /\ i + 1 \in 1 .. n + 1
  BY GapsAre
<1>3. \A h : W(h) = [i \in 1 .. n + 1 |-> PrefixRound(s, i, offset, h[i + 1])]
  BY DEF PrefixRound
<1> HIDE DEF W, q
<1>4. \A h : \A i \in 1 .. n + 1 : h = W(h) => h[i] = PrefixRound(s, i, offset, h[i + 1])
  <2> TAKE h
  <2> TAKE i \in 1 .. n + 1
  <2>1. W(h)[i] = PrefixRound(s, i, offset, h[i + 1])
    BY <1>3
  <2> QED
    BY <2>1
<1>5. \A i \in 1 .. n + 1 : IsGaps(g[i], Rest(s, i, q))
  <2> TAKE i \in 1 .. n + 1
  <2>1. Rest(s, i, q) \subseteq Offset
    BY RestIsPart
  <2>2. Offset \ (Offset \ Rest(s, i, q)) = Rest(s, i, q)
    BY <2>1
  <2> QED
    BY <2>2, GapsOfIs
<1>6. g = W(g)
  <2>1. ASSUME NEW i \in 1 .. n + 1
        PROVE  g[i] = PrefixRound(s, i, offset, g[i + 1])
    <3>1. i <= Len(s) => IsGaps(g[i + 1], Rest(s, i + 1, q))
      <4>1. i <= n => i + 1 \in 1 .. n + 1
        BY <1>2
      <4> HIDE DEF g
      <4> QED
        BY <1>5, <4>1
    <3>2. IsGaps(g[i], Rest(s, i, q))
      BY <1>5
    <3> HIDE DEF g
    <3>3. IsGaps(PrefixRound(s, i, offset, g[i + 1]), Rest(s, i, q))
      BY <3>1, PrefixRoundIs DEF q
    <3> QED
      BY <3>2, <3>3, OneList
  <2>2. g = [i \in 1 .. n + 1 |-> g[i]]
    OBVIOUS
  <2>3. W(g) = [i \in 1 .. n + 1 |-> PrefixRound(s, i, offset, g[i + 1])]
    BY <1>3
  <2> HIDE DEF g
  <2> QED
    BY <2>1, <2>2, <2>3
<1>7. walk = W(walk)
  BY <1>6
<1> HIDE DEF walk, g
<1>8. \A i \in 1 .. n + 1 : walk[i] = PrefixRound(s, i, offset, walk[i + 1])
  BY <1>4, <1>7
<1> DEFINE P == {i \in 1 .. n + 1 : IsGaps(walk[i], Rest(s, i, q))}
<1>9. \A i \in 1 .. n + 1 : i \in P
  <2>1. ASSUME NEW i \in 1 .. n + 1, i <= n => i + 1 \in P
        PROVE  i \in P
    <3>1. IsGaps(PrefixRound(s, i, offset, walk[i + 1]), Rest(s, i, q))
      BY <2>1, PrefixRoundIs DEF q
    <3> QED
      BY <1>8, <3>1
  <2> HIDE DEF P
  <2>2. n + 1 \in P
    <3>1. n + 1 \in 1 .. n + 1 /\ ~(n + 1 <= n)
      BY <1>2
    <3> QED
      BY <2>1, <3>1
  <2>3. \A i \in 1 .. n : i + 1 \in P => i \in P
    BY <1>2, <2>1
  <2> HIDE DEF n
  <2> QED
    BY <1>2, <2>2, <2>3, Downward
<1>10. 1 \in 1 .. n + 1
  BY <1>2
<1>11. Rest(s, 1, q) = {p \in M : ~In(p, q)}
  BY <1>10, RestIsPart
<1> QED
  BY <1>1, <1>9, <1>10, <1>11 DEF q

-----------------------------------------------------------------------------
\* The first gap of the list is the first gap of the bytes.
LEMMA FirstGapOffsetIs ==
  ASSUME NEW g \in SUBSET Byte
  PROVE  /\ Len(GapsOf(g)) \in Nat \ {0}
         /\ FirstGapOffset(GapsOf(g)) = FirstGap(g)
<1> DEFINE s == GapsOf(g)
           M == Offset \ g
           f == FirstGap(g)
<1>1. IsGaps(s, M)
  BY GapsOfIs
<1>2. f \in M /\ f \in Nat /\ \A k \in Nat : k < f => k \notin M
  BY FirstGapIs, RxFlowAssumption DEF Offset
<1> HIDE DEF s, M, f
<1>3. Len(s) \in Nat /\ \E i \in 1 .. Len(s) : In(f, s[i])
  BY <1>1, <1>2, GapsAre
<1>4. 1 \in 1 .. Len(s) /\ Len(s) # 0
  BY <1>3
<1>5. s[1].begin \in M /\ s[1].begin \in Nat
  BY <1>1, <1>4, GapsAre
<1>6. \A p \in M : 0 <= p => s[1].begin <= p
  BY <1>1, <1>4, NextGapIs
<1>7. s[1].begin <= f /\ ~(s[1].begin < f)
  BY <1>2, <1>5, <1>6
<1> QED
  BY <1>2, <1>3, <1>4, <1>5, <1>7 DEF FirstGapOffset, s, f

\* In every state RxFlow reaches, pushing any frame leaves the list of gaps of
\* the bytes received then, and so does removing a prefix.
THEOREM RobIsRight == Spec => []RobAgrees
<1>1. RxInv => RobAgrees
  <2> SUFFICES ASSUME RxInv, NEW s \in open
               PROVE  LET gaps == GapsOf(got[s])
                      IN /\ FirstGapOffset(gaps) = Rx(s)
                         /\ \A q \in Frames :
                              /\ RobPush(gaps, q) = GapsOf(got[s] \cup q.begin .. q.end - 1)
                              /\ q.begin <= Rx(s) =>
                                   RobRemovePrefix(gaps, q.end) = GapsOf(got[s] \cup 0 .. q.end - 1)
    BY DEF RobAgrees
  <2> DEFINE G == got[s]
             gaps == GapsOf(G)
  <2>1. G \in SUBSET Byte
    BY DEF RxInv, TypeOK
  <2>2. FirstGapOffset(gaps) = Rx(s)
    BY <2>1, FirstGapOffsetIs DEF Rx
  <2>3. IsGaps(gaps, Offset \ G)
    BY GapsOfIs
  <2>4. ASSUME NEW q \in Frames
        PROVE  /\ RobPush(gaps, q) = GapsOf(G \cup q.begin .. q.end - 1)
               /\ RobRemovePrefix(gaps, q.end) = GapsOf(G \cup 0 .. q.end - 1)
    <3>1. /\ q \in Span /\ q.begin < q.end /\ q.begin \in Nat /\ q.end \in Nat
          /\ MaxOff \in Nat
      BY RxFlowAssumption DEF Frames, Span, NonEmpty, Offset
    <3>2. {p \in Offset \ G : ~In(p, q)} = Offset \ (G \cup q.begin .. q.end - 1)
      <4>1. \A p \in Offset : In(p, q) <=> p \in q.begin .. q.end - 1
        BY <3>1 DEF In, Offset
      <4> QED
        BY <4>1
    <3>3. {p \in Offset \ G : ~In(p, Gap(0, q.end))} = Offset \ (G \cup 0 .. q.end - 1)
      <4>1. \A p \in Offset : In(p, Gap(0, q.end)) <=> p \in 0 .. q.end - 1
        BY <3>1 DEF In, Offset, Gap
      <4> QED
        BY <4>1
    <3> HIDE DEF gaps, G
    <3>4. IsGaps(RobPush(gaps, q), Offset \ (G \cup q.begin .. q.end - 1))
      <4>1. Offset \ G \subseteq Offset
        OBVIOUS
      <4>2. IsGaps(RobPush(gaps, q), {p \in Offset \ G : ~In(p, q)})
        BY <2>3, <3>1, <4>1, RobPushIs
      <4> QED
        BY <3>2, <4>2
    <3>5. IsGaps(RobRemovePrefix(gaps, q.end), Offset \ (G \cup 0 .. q.end - 1))
      <4>1. Offset \ G \subseteq Offset
        OBVIOUS
      <4>2. IsGaps(RobRemovePrefix(gaps, q.end), {p \in Offset \ G : ~In(p, Gap(0, q.end))})
        BY <2>3, <3>1, <4>1, RobRemovePrefixIs
      <4> QED
        BY <3>3, <4>2
    <3>6. /\ IsGaps(GapsOf(G \cup q.begin .. q.end - 1), Offset \ (G \cup q.begin .. q.end - 1))
          /\ IsGaps(GapsOf(G \cup 0 .. q.end - 1), Offset \ (G \cup 0 .. q.end - 1))
      BY GapsOfIs
    <3> QED
      BY <3>4, <3>5, <3>6, OneList
  <2> QED
    BY <2>2, <2>4
<1> QED
  BY <1>1, SpecInv, PTL

-----------------------------------------------------------------------------
\* Chunks begin at multiples of their size.
Aligned == \A s \in Stream : \A c \in chunks[s] : c % Chunk = 0

LEMMA LessRemainder ==
  ASSUME NEW K \in Nat \ {0}, NEW k \in Nat
  PROVE  (k - (k % K)) % K = 0
<1> DEFINE y == k \div K
<1>1. k = (K * y) + (k % K) /\ y \in Int /\ k % K \in Int
  OBVIOUS
<1> HIDE DEF y
<1>2. k - (k % K) = K * y
  BY <1>1
<1>3. (K * y) % K = 0
  BY <1>1
<1> QED
  BY <1>2, <1>3

LEMMA SameMultiple ==
  ASSUME NEW K \in Nat \ {0}, NEW c \in Nat, c % K = 0, NEW k \in Nat, c <= k, k < c + K
  PROVE  k - (k % K) = c
OBVIOUS

LEMMA ChunkAligned ==
  ASSUME NEW k \in Nat
  PROVE  ChunkOf(k) % Chunk = 0
<1>1. Chunk \in Nat \ {0}
  BY RxFlowAssumption
<1> QED
  BY <1>1, LessRemainder DEF ChunkOf

\* The multiples of the chunk size, from one to the next.
LEMMA NextAligned ==
  ASSUME NEW c \in Nat, c % Chunk = 0
  PROVE  /\ (c + Chunk) % Chunk = 0
         /\ \A k \in Nat : c <= k /\ k < c + Chunk => ChunkOf(k) = c
         /\ \A k \in Nat : c < k /\ k % Chunk = 0 => c + Chunk <= k
<1>2. Chunk \in Nat \ {0}
  BY RxFlowAssumption
<1>3. \A k \in Nat : c <= k /\ k < c + Chunk => ChunkOf(k) = c
  BY <1>2, SameMultiple DEF ChunkOf
<1>4. ASSUME NEW k \in Nat, c < k, k % Chunk = 0
      PROVE  c + Chunk <= k
  <2>1. k - (k % Chunk) = k
    BY <1>4
  <2>2. k < c + Chunk => k - (k % Chunk) = c
    BY <1>3, <1>4 DEF ChunkOf
  <2> QED
    BY <1>2, <1>4, <2>1, <2>2
<1>5. (c + Chunk) % Chunk = 0
  <2> DEFINE x == c \div Chunk
  <2>1. \A K \in Nat \ {0} : c % K = 0 => c = K * (c \div K) /\ c \div K \in Nat
    OBVIOUS
  <2>2. c = Chunk * x /\ x \in Nat
    BY <1>2, <2>1
  <2> HIDE DEF x
  <2>3. \A K \in Nat \ {0}, y \in Nat : (K * y) % K = 0
    OBVIOUS
  <2>4. \A K \in Nat \ {0}, y \in Nat : K * (y + 1) = K * y + K
    OBVIOUS
  <2>5. x + 1 \in Nat
    BY <2>2
  <2> QED
    BY <1>2, <2>2, <2>3, <2>4, <2>5
<1> QED
  BY <1>3, <1>4, <1>5

LEMMA AlignedStep == RxInv /\ Aligned /\ [Next]_vars => Aligned'
<1> SUFFICES ASSUME RxInv, Aligned, [Next]_vars
             PROVE  Aligned'
  OBVIOUS
<1>1. chunks \in [Stream -> SUBSET Byte] /\ MaxOff \in Nat
  BY RxFlowAssumption DEF RxInv, TypeOK
<1>2. CASE UNCHANGED chunks
  BY <1>2 DEF Aligned
<1>3. ASSUME NEW s \in Stream, NEW off \in Offset, NEW end \in Offset, NEW fin \in BOOLEAN,
             BufferStream(s, off, end, fin)
      PROVE  Aligned'
  <2>1. chunks' = [chunks EXCEPT ![s] = @ \cup BufferChunks(s, off, end)]
    BY <1>3 DEF BufferStream
  <2>2. \A c \in BufferChunks(s, off, end) : c % Chunk = 0
    <3>1. \A k \in off .. end - 1 : k \in Nat
      BY <1>1 DEF Offset
    <3> QED
      BY <3>1, ChunkAligned DEF BufferChunks
  <2> HIDE DEF BufferChunks
  <2> QED
    BY <1>1, <2>1, <2>2 DEF Aligned
<1>4. ASSUME NEW s \in Stream, NEW off \in Offset, NEW end \in Offset, NEW fin \in BOOLEAN,
             NEW stop \in BOOLEAN, NEW b \in Offset, DeliverStream(s, off, end, fin, stop, b)
      PROVE  Aligned'
  <2>1. chunks' = [chunks EXCEPT ![s] = {c \in @ : b < c + Chunk}]
    BY <1>4 DEF DeliverStream
  <2> QED
    BY <1>1, <2>1 DEF Aligned
<1>5. ASSUME NEW s \in Stream, NEW off \in Offset, NEW end \in Offset, NEW fin \in BOOLEAN,
             RefuseStream(s, off, end, fin) \/ DropStream(s, off, end, fin)
      PROVE  UNCHANGED chunks
  BY <1>5 DEF RefuseStream, DropStream, data
<1>6. ASSUME NEW s \in Stream, RecvResetStream(s)
      PROVE  UNCHANGED chunks
  BY <1>6 DEF RecvResetStream, RefuseReset, RecvResetUnopened, RecvReset, data
<1>7. ASSUME NEW s \in Stream, App(s)
      PROVE  UNCHANGED chunks
  BY <1>7 DEF App, OpenStream, FinishWrite, StopStream, Consume, data
<1>8. ASSUME NEW s \in Stream, WriteStreamLimit(s)
      PROVE  UNCHANGED chunks
  BY <1>8 DEF WriteStreamLimit, WriteMaxStreamData, SkipMaxStreamData, WriteLeftover, data
<1>9. ASSUME NEW grow \in BOOLEAN, WriteMaxData(grow)
      PROVE  UNCHANGED chunks
  BY <1>9 DEF WriteMaxData, data
<1>10. ASSUME NEW s \in Stream, RecvStream(s)
       PROVE  Aligned'
  BY <1>2, <1>3, <1>4, <1>5, <1>10 DEF RecvStream
<1>11. CASE UNCHANGED vars
  BY <1>2, <1>11 DEF vars, data
<1> QED
  BY <1>2, <1>6, <1>7, <1>8, <1>9, <1>10, <1>11 DEF Next

\* Every chunk of a reorder buffer begins at a multiple of the chunk size.
THEOREM ChunksAreAligned == Spec => []Aligned
<1>1. Init => Aligned
  BY DEF Init, Aligned
<1>2. RxInv /\ Aligned /\ [Next]_vars => Aligned'
  BY AlignedStep
<1> QED
  BY <1>1, <1>2, SpecInv, PTL DEF Spec

-----------------------------------------------------------------------------
\* The list of chunks of a reorder buffer, and what is left of it from i on.
IsChunks(D) ==
  /\ D \in Seq(Nat)
  /\ \A i \in 1 .. Len(D) : D[i] % Chunk = 0
  /\ \A i, k \in 1 .. Len(D) : i < k => D[i] < D[k]
From(D, i) == SubSeq(D, i, Len(D))
Tails(D) == {SubSeq(D, i, Len(D)) : i \in 1 .. Len(D) + 1}

LEMMA FromIs ==
  ASSUME NEW D \in Seq(Nat), NEW i \in 1 .. Len(D) + 1
  PROVE  /\ From(D, i) \in Tails(D) /\ Len(D) \in Nat
         /\ From(D, i) # <<>> <=> i <= Len(D)
         /\ i <= Len(D) => From(D, i)[1] = D[i] /\ Tail(From(D, i)) = From(D, i + 1)
         /\ {From(D, i)[k] : k \in DOMAIN From(D, i)} = {D[k] : k \in i .. Len(D)}
<1> DEFINE n == Len(D)
           m == n - i + 1
           t == From(D, i)
<1>1. n \in Nat /\ i \in Int /\ m \in Nat
  OBVIOUS
<1>2. t = [k \in 1 .. m |-> D[k + i - 1]]
  BY <1>1 DEF From
<1>3. t \in Seq(Nat) /\ Len(t) = m
  <2> HIDE DEF t
  <2>1. \A k \in 1 .. m : k + i - 1 \in 1 .. n
    BY <1>1
  <2>2. \A k \in 1 .. m : D[k + i - 1] \in Nat
    BY <2>1
  <2> HIDE DEF m
  <2>3. t \in [1 .. m -> Nat]
    BY <1>2, <2>2
  <2>4. m \in Nat
    BY <1>1 DEF m
  <2> QED
    BY <2>3, <2>4
<1>4. t \in Tails(D)
  BY DEF From, Tails
<1> HIDE DEF t
<1>5. t # <<>> <=> i <= n
  BY <1>1, <1>3
<1>6. ASSUME i <= n
      PROVE  t[1] = D[i] /\ Tail(t) = From(D, i + 1)
  <2>1. m # 0 /\ 1 \in 1 .. m /\ 1 + i - 1 = i /\ m - 1 \in Nat
    BY <1>1, <1>6
  <2>2. t[1] = D[i]
    BY <1>2, <2>1
  <2>3. t # <<>>
    BY <1>5, <1>6
  <2>4. Tail(t) \in Seq(Nat) /\ Len(Tail(t)) = m - 1 /\ \A k \in 1 .. m - 1 : Tail(t)[k] = t[k + 1]
    <3> HIDE DEF m
    <3> QED
      BY <1>3, <2>1, <2>3
  <2>5. From(D, i + 1) = [k \in 1 .. m - 1 |-> D[k + i]]
    <3>1. n - (i + 1) + 1 = m - 1 /\ \A k \in Int : k + (i + 1) - 1 = k + i
      BY <1>1
    <3>2. SubSeq(D, i + 1, n) = [k \in 1 .. n - (i + 1) + 1 |-> D[k + (i + 1) - 1]]
      OBVIOUS
    <3>3. [k \in 1 .. m - 1 |-> D[k + (i + 1) - 1]] = [k \in 1 .. m - 1 |-> D[k + i]]
      BY <3>1
    <3> HIDE DEF m, n
    <3> QED
      BY <3>1, <3>2, <3>3 DEF From, n
  <2>6. \A k \in 1 .. m - 1 : Tail(t)[k] = D[k + i]
    <3> TAKE k \in 1 .. m - 1
    <3>1. k + 1 \in 1 .. m /\ k + 1 + i - 1 = k + i
      BY <1>1
    <3> HIDE DEF m
    <3> QED
      BY <1>2, <2>4, <3>1
  <2>7. Tail(t) = [k \in 1 .. m - 1 |-> Tail(t)[k]]
    <3> DEFINE u == Tail(t)
    <3>1. u \in Seq(Nat) /\ Len(u) = m - 1
      BY <2>4
    <3> HIDE DEF u, m
    <3>2. DOMAIN u = 1 .. m - 1 /\ u = [k \in DOMAIN u |-> u[k]]
      BY <3>1
    <3> QED
      BY <3>2 DEF u
  <2> HIDE DEF m
  <2> QED
    BY <2>2, <2>5, <2>6, <2>7
<1>7. {t[k] : k \in DOMAIN t} = {D[k] : k \in i .. n}
  <2>1. DOMAIN t = 1 .. m
    BY <1>2
  <2>2. \A k \in 1 .. m : k + i - 1 \in i .. n /\ t[k] = D[k + i - 1]
    BY <1>1, <1>2
  <2>3. \A k \in i .. n : k - i + 1 \in 1 .. m /\ (k - i + 1) + i - 1 = k
    BY <1>1
  <2>4. ASSUME NEW k \in i .. n
        PROVE  \E h \in 1 .. m : t[h] = D[k]
    <3> DEFINE h == k - i + 1
    <3>1. h \in 1 .. m /\ h + i - 1 = k
      BY <2>3
    <3> HIDE DEF h, m
    <3> QED
      BY <2>2, <3>1
  <2>5. \A k \in DOMAIN t : \E h \in i .. n : t[k] = D[h]
    <3> HIDE DEF m
    <3> QED
      BY <2>1, <2>2
  <2>6. \A h \in i .. n : \E k \in DOMAIN t : t[k] = D[h]
    BY <2>1, <2>4
  <2> HIDE DEF n
  <2> QED
    BY <2>5, <2>6
<1> QED
  BY <1>1, <1>4, <1>5, <1>6, <1>7 DEF t

\* One round of conn_emit_pending_stream_data at offset at[1] with the chunks
\* at[2], given the rounds after it, and where these begin.
EmitStops(gaps, at) == gaps[1].begin <= at[1] \/ ~DataAtAsserts(at[2], at[1])
EmitEnd(gaps, at) == at[1] + DataAt(gaps, at[2], at[1])
EmitNext(gaps, at) == <<EmitEnd(gaps, at), RobPop(at[2], EmitEnd(gaps, at))>>
EmitRound(gaps, at, rest) ==
  IF gaps[1].begin <= at[1]
  THEN [ends |-> {}, ok |-> at[1] = FirstGapOffset(gaps), left |-> at[2]]
  ELSE IF ~DataAtAsserts(at[2], at[1]) THEN [ends |-> {}, ok |-> FALSE, left |-> at[2]]
  ELSE [rest EXCEPT !.ends = @ \cup {EmitEnd(gaps, at)}]

\* The loop goes forward.
LEMMA EmitAdvances ==
  ASSUME NEW D \in Seq(Nat), NEW gaps, gaps[1].begin \in Offset,
         NEW at \in Offset \X Tails(D), ~EmitStops(gaps, at)
  PROVE  EmitNext(gaps, at) \in Offset \X Tails(D) /\ at[1] < EmitNext(gaps, at)[1]
<1> DEFINE o == at[1]
           d == at[2]
           F == gaps[1].begin
           end == EmitEnd(gaps, at)
<1>1. o \in Nat /\ d \in Tails(D) /\ F \in Nat /\ F <= MaxOff /\ MaxOff \in Nat /\ Chunk \in Nat
  BY RxFlowAssumption DEF Offset
<1>2. ~(F <= o) /\ d # <<>> /\ d[1] <= o /\ o < d[1] + Chunk
  BY DEF EmitStops, DataAtAsserts
<1>3. PICK i \in 1 .. Len(D) + 1 : d = From(D, i)
  BY <1>1 DEF Tails, From
<1>4. i <= Len(D) /\ Tail(d) = From(D, i + 1) /\ d[1] = D[i] /\ i + 1 \in 1 .. Len(D) + 1
  BY <1>2, <1>3, FromIs
<1>5. d[1] \in Nat /\ Tail(d) \in Tails(D)
  <2>1. i \in 1 .. Len(D)
    BY <1>4
  <2>2. D[i] \in Nat
    BY <2>1
  <2>3. From(D, i + 1) \in Tails(D)
    BY <1>4, FromIs
  <2> QED
    BY <1>4, <2>2, <2>3
<1>6. end = IF F < d[1] + Chunk THEN F ELSE d[1] + Chunk
  <2>1. end = o + DataAt(gaps, d, o)
    BY DEF EmitEnd
  <2>2. DataAt(gaps, d, o) = (IF F < d[1] + Chunk THEN F ELSE d[1] + Chunk) - o
    BY <1>2 DEF DataAt
  <2> DEFINE e == IF F < d[1] + Chunk THEN F ELSE d[1] + Chunk
  <2>3. e \in Nat
    BY <1>1, <1>5
  <2> HIDE DEF e, end, F, d, o
  <2>4. o + (e - o) = e
    BY <1>1, <2>3
  <2>5. end = e
    BY <2>1, <2>2, <2>4 DEF e
  <2> QED
    BY <2>5 DEF e
<1>7. end \in Offset /\ o < end
  BY <1>1, <1>2, <1>5, <1>6 DEF Offset
<1>8. RobPop(d, end) \in Tails(D)
  BY <1>1, <1>5 DEF RobPop
<1> HIDE DEF end, o, d
<1>9. EmitNext(gaps, at) = <<end, RobPop(d, end)>>
  BY DEF EmitNext, end, d
<1> QED
  BY <1>7, <1>8, <1>9 DEF o

\* So its recursion has a solution: the one up to m bytes from the end extends to
\* m + 1 bytes.
LEMMA EmitExists ==
  ASSUME NEW D \in Seq(Nat), NEW gaps, gaps[1].begin \in Offset
  PROVE  \E h : h = [at \in Offset \X Tails(D) |-> EmitRound(gaps, at, h[EmitNext(gaps, at)])]
<1> DEFINE A == Offset \X Tails(D)
           Near(m) == {at \in A : MaxOff - at[1] < m}
           Solves(h, m) == \A at \in Near(m) : h[at] = EmitRound(gaps, at, h[EmitNext(gaps, at)])
           Z == {m \in 0 .. MaxOff + 1 : ~\E h : Solves(h, m)}
<1>1. MaxOff \in Nat /\ \A at \in A : at[1] \in Int /\ 0 <= at[1] /\ at[1] <= MaxOff
  BY RxFlowAssumption DEF Offset
<1>2. \A at \in A : ~EmitStops(gaps, at) => /\ EmitNext(gaps, at) \in A
                                            /\ at[1] < EmitNext(gaps, at)[1]
  BY EmitAdvances
<1>3. \A at \in A : EmitStops(gaps, at) =>
        \A x, y : EmitRound(gaps, at, x) = EmitRound(gaps, at, y)
  BY DEF EmitRound, EmitStops
<1> HIDE DEF A
<1>4. Z = {}
  <2> SUFFICES ASSUME Z # {}
               PROVE  FALSE
    OBVIOUS
  <2>1. Z \subseteq Nat
    BY <1>1
  <2>2. PICK m \in Z : \A k \in Z : m <= k
    BY <2>1, LeastMember, Zenon
  <2>3. m \in 0 .. MaxOff + 1 /\ ~\E h : Solves(h, m)
    BY <2>2
  <2>4. m # 0
    <3>1. \A at \in A : ~(MaxOff - at[1] < 0)
      <4> HIDE DEF Z, Near, Solves
      <4> TAKE at \in A
      <4> DEFINE o == at[1]
      <4>a. o \in Int /\ o <= MaxOff
        BY <1>1, Zenon
      <4>1. MaxOff \in Int /\ o \in Int /\ o <= MaxOff
        BY <4>a, RxFlowAssumption
      <4> HIDE DEF o
      <4>2. ~(MaxOff - o < 0)
        BY <4>1
      <4> QED
        BY <4>2 DEF o
    <3>2. Solves(<<>>, 0)
      BY <3>1, Zenon
    <3> QED
      BY <2>3, <3>2
  <2>5. m - 1 \in 0 .. MaxOff + 1 /\ ~(m <= m - 1) /\ m \in Int
    BY <1>1, <2>3, <2>4
  <2>6. m - 1 \notin Z
    BY <2>2, <2>5
  <2>7. PICK h : Solves(h, m - 1)
    BY <2>5, <2>6
  <2> DEFINE n == m - 1
             f == [at \in A |-> IF at \in Near(n) THEN h[at]
                                ELSE EmitRound(gaps, at, h[EmitNext(gaps, at)])]
  <2>8. \A at \in A : f[at] = EmitRound(gaps, at, h[EmitNext(gaps, at)])
    <3>1. \A at \in Near(n) : at \in A /\ h[at] = EmitRound(gaps, at, h[EmitNext(gaps, at)])
      BY <2>7
    <3> HIDE DEF Near, Solves
    <3> QED
      BY <3>1
  <2>9. \A at \in Near(n) : f[at] = h[at]
    OBVIOUS
  <2>10. ASSUME NEW at \in Near(m), ~EmitStops(gaps, at)
         PROVE  EmitNext(gaps, at) \in Near(n)
    <3> DEFINE x == EmitNext(gaps, at)
    <3>a. at \in A /\ MaxOff - at[1] < m
      OBVIOUS
    <3>1. at \in A /\ MaxOff - at[1] < m /\ at[1] \in Int
      BY <1>1, <3>a
    <3>2. x \in A /\ at[1] < x[1]
      BY <1>2, <2>10, <3>1
    <3> HIDE DEF x
    <3>3. x[1] \in Int
      BY <1>1, <3>2
    <3>4. MaxOff - x[1] < n
      <4> DEFINE o == at[1]
                 e == x[1]
      <4>1. MaxOff \in Int /\ o \in Int /\ e \in Int /\ o < e /\ MaxOff - o < m /\ m \in Int
        BY <1>1, <2>5, <3>1, <3>2, <3>3
      <4> HIDE DEF o, e
      <4>2. MaxOff - e < m - 1
        BY <4>1
      <4> QED
        BY <4>2 DEF e, n
    <3> QED
      BY <3>2, <3>4, Zenon DEF x
  <2> HIDE DEF f, n
  <2>11. ASSUME NEW at \in Near(m)
         PROVE  f[at] = EmitRound(gaps, at, f[EmitNext(gaps, at)])
    <3>1. at \in A
      OBVIOUS
    <3> HIDE DEF Near
    <3>2. CASE EmitStops(gaps, at)
      BY <1>3, <2>8, <3>1, <3>2
    <3>3. CASE ~EmitStops(gaps, at)
      BY <2>8, <2>9, <2>10, <3>1, <3>3
    <3> QED
      BY <3>2, <3>3
  <2>12. Solves(f, m)
    BY <2>11
  <2> QED
    BY <2>3, <2>12
<1>5. PICK h : Solves(h, MaxOff + 1)
  <2>1. MaxOff + 1 \in 0 .. MaxOff + 1
    BY <1>1
  <2> HIDE DEF Solves
  <2> QED
    BY <1>4, <2>1
<1>6. ASSUME NEW at \in A
      PROVE  h[at] = EmitRound(gaps, at, h[EmitNext(gaps, at)])
  <2>1. at \in Near(MaxOff + 1)
    BY <1>1
  <2> HIDE DEF Near
  <2> QED
    BY <1>5, <2>1
<1> DEFINE f == [at \in A |-> h[at]]
<1>7. ASSUME NEW at \in A
      PROVE  f[at] = EmitRound(gaps, at, f[EmitNext(gaps, at)])
  <2>1. CASE EmitStops(gaps, at)
    BY <1>3, <1>6, <2>1
  <2>2. CASE ~EmitStops(gaps, at)
    BY <1>2, <1>6, <2>2
  <2> QED
    BY <2>1, <2>2
<1>8. f = [at \in A |-> f[at]]
  OBVIOUS
<1> HIDE DEF f
<1>9. f = [at \in A |-> EmitRound(gaps, at, f[EmitNext(gaps, at)])]
  BY <1>7, <1>8
<1> QED
  BY <1>9 DEF A

\* The chunks D from i on feed the loop from offset o to the first gap F, and
\* what it then passes on: where callbacks end, and the chunks that stay.
Fed(D, F, o, i) ==
  /\ i \in 1 .. Len(D) + 1 /\ o \in Offset /\ o <= F
  /\ \A j \in 1 .. Len(D) : j < i => D[j] + Chunk <= o
  /\ \A j \in i .. Len(D) : o < D[j] + Chunk
  /\ \A k \in Nat : o <= k /\ k < F => \E j \in i .. Len(D) : D[j] = ChunkOf(k)
Ends(F, o) == {k \in o + 1 .. F : k = F \/ k % Chunk = 0}
Emitted(D, F, o, e) ==
  \E j \in 1 .. Len(D) + 1 :
    /\ e = [ends |-> Ends(F, o), ok |-> TRUE, left |-> From(D, j)]
    /\ \A k \in 1 .. Len(D) : k < j => D[k] + Chunk <= F
    /\ \A k \in j .. Len(D) : F < D[k] + Chunk

\* At the first gap the loop is done.
LEMMA EmitDone ==
  ASSUME NEW D, IsChunks(D), NEW gaps, NEW F \in Offset, gaps[1].begin = F,
         NEW i, Fed(D, F, F, i), NEW rest
  PROVE  Emitted(D, F, F, EmitRound(gaps, <<F, From(D, i)>>, rest))
<1>1. F \in Nat /\ F <= F
  BY RxFlowAssumption DEF Offset
<1>2. Ends(F, F) = {}
  <2>1. F + 1 .. F = {}
    BY <1>1
  <2> QED
    BY <2>1 DEF Ends
<1>3. EmitRound(gaps, <<F, From(D, i)>>, rest) = [ends |-> {}, ok |-> TRUE, left |-> From(D, i)]
  BY <1>1 DEF EmitRound, FirstGapOffset
<1>4. /\ i \in 1 .. Len(D) + 1
      /\ \A k \in 1 .. Len(D) : k < i => D[k] + Chunk <= F
      /\ \A k \in i .. Len(D) : F < D[k] + Chunk
  BY DEF Fed
<1> QED
  BY <1>2, <1>3, <1>4 DEF Emitted

\* Before it, the first chunk holds the first byte, and the loop goes on behind
\* that chunk or at the gap.
GoesOn(D, gaps, F, o, i) ==
  LET at == <<o, From(D, i)>>
      end == EmitEnd(gaps, at)
  IN /\ ~EmitStops(gaps, at)
     /\ end \in Offset /\ o < end
     /\ \E j \in 1 .. Len(D) + 1 :
          EmitNext(gaps, at) = <<end, From(D, j)>> /\ Fed(D, F, end, j)
     /\ Ends(F, o) = Ends(F, end) \cup {end}

LEMMA EmitGoesOn ==
  ASSUME NEW D, IsChunks(D), NEW gaps, NEW F \in Offset, gaps[1].begin = F,
         NEW o, o # F, NEW i, Fed(D, F, o, i)
  PROVE  GoesOn(D, gaps, F, o, i)
<1> DEFINE n == Len(D)
           d == From(D, i)
           at == <<o, d>>
           end == EmitEnd(gaps, at)
<1>1. /\ n \in Nat /\ D \in Seq(Nat) /\ Chunk \in Nat \ {0} /\ MaxOff \in Nat
      /\ F \in Nat /\ F <= MaxOff /\ o \in Nat /\ o < F /\ i \in 1 .. n + 1 /\ i \in Int
  BY RxFlowAssumption DEF IsChunks, Fed, Offset
<1>2. \A j \in 1 .. n : D[j] \in Nat /\ D[j] % Chunk = 0
  BY <1>1 DEF IsChunks
<1>3. \A j, k \in 1 .. n : j < k => D[j] < D[k]
  BY DEF IsChunks
<1>4. /\ \A j \in 1 .. n : j < i => D[j] + Chunk <= o
      /\ \A j \in i .. n : o < D[j] + Chunk /\ j \in 1 .. n
      /\ \A k \in Nat : o <= k /\ k < F => \E j \in i .. n : D[j] = ChunkOf(k)
  BY <1>1 DEF Fed
<1> HIDE DEF n
<1>5. PICK h \in i .. n : D[h] = ChunkOf(o)
  BY <1>1, <1>4
<1>6. /\ i \in 1 .. n /\ i <= n /\ i + 1 \in 1 .. n + 1 /\ D[i] \in Nat
      /\ D[i] <= o /\ o < D[i] + Chunk
  <2>1. i \in 1 .. n /\ i \in i .. n /\ i <= n /\ h \in 1 .. n /\ (i = h \/ i < h)
    BY <1>1, <1>5
  <2>2. ChunkOf(o) <= o /\ ChunkOf(o) \in Nat
    BY <1>1, ChunkHolds
  <2>3. D[i] <= D[h]
    BY <1>2, <1>3, <2>1
  <2>4. D[i] \in Nat /\ D[h] \in Nat /\ i + 1 \in 1 .. n + 1
    BY <1>1, <1>2, <2>1
  <2> QED
    BY <1>1, <1>4, <1>5, <2>1, <2>2, <2>3, <2>4
<1>7. d # <<>> /\ d[1] = D[i] /\ Tail(d) = From(D, i + 1)
  BY <1>1, <1>6, FromIs DEF n
<1> DEFINE c == D[i]
<1>8. c \in Nat /\ c % Chunk = 0 /\ c <= o /\ o < c + Chunk /\ d[1] = c /\ c + Chunk \in Nat
  <2>1. c % Chunk = 0
    BY <1>2, <1>6
  <2>2. c \in Nat /\ c <= o /\ o < c + Chunk
    BY <1>6
  <2>3. d[1] = c
    BY <1>7
  <2> HIDE DEF c, d
  <2>4. c + Chunk \in Nat
    BY <1>1, <2>2
  <2> QED
    BY <2>1, <2>2, <2>3, <2>4
<1>9. ~EmitStops(gaps, at)
  <2>1. d # <<>> /\ d[1] = c /\ at[1] = o /\ at[2] = d
    BY <1>7, <1>8
  <2>2. F \in Nat /\ o \in Nat /\ o < F
    BY <1>1
  <2> HIDE DEF c, d, at
  <2>3. ~(F <= o)
    BY <2>2
  <2>4. DataAtAsserts(d, o)
    BY <1>8, <2>1 DEF DataAtAsserts
  <2> QED
    BY <2>1, <2>3, <2>4 DEF EmitStops
<1>10. end = IF F < c + Chunk THEN F ELSE c + Chunk
  BY <1>1, <1>8 DEF EmitEnd, DataAt
<1>11. EmitNext(gaps, at) = <<end, IF end < c + Chunk THEN d ELSE Tail(d)>>
  BY <1>8 DEF EmitNext, RobPop
<1> HIDE DEF c, d, at, end
<1>12. end \in Offset /\ o < end /\ end \in Nat /\ end <= F
  BY <1>1, <1>8, <1>10 DEF Offset
\* No callback ends between the offset and where this one does.
<1>13. \A k \in Nat : o < k /\ k < end => k % Chunk # 0
  <2> SUFFICES ASSUME NEW k \in Nat, o < k, k < end, k % Chunk = 0
               PROVE  FALSE
    OBVIOUS
  <2>1. c < k /\ k < c + Chunk
    BY <1>1, <1>8, <1>10, <1>12
  <2>2. c + Chunk <= k
    BY <1>8, <2>1, NextAligned
  <2> QED
    BY <1>8, <2>1, <2>2
<1>14. end = F \/ end % Chunk = 0
  BY <1>8, <1>10, NextAligned
<1>15. Ends(F, o) = Ends(F, end) \cup {end}
  <2>1. \A k \in Int : k \in o + 1 .. F <=> /\ k \in Nat
                                            /\ \/ o < k /\ k < end
                                               \/ k = end \/ k \in end + 1 .. F
    BY <1>1, <1>12
  <2>2. \A k \in Ends(F, o) : k \in Ends(F, end) \cup {end}
    <3> TAKE k \in Ends(F, o)
    <3>1. k \in Int /\ k \in o + 1 .. F /\ (k = F \/ k % Chunk = 0)
      BY <1>1 DEF Ends
    <3>2. CASE k = end
      BY <3>2
    <3>3. CASE k \in end + 1 .. F
      BY <3>1, <3>3 DEF Ends
    <3>4. CASE k \in Nat /\ o < k /\ k < end
      <4>1. k = F
        BY <1>13, <3>1, <3>4
      <4> QED
        BY <1>1, <1>12, <3>4, <4>1
    <3> QED
      BY <2>1, <3>1, <3>2, <3>3, <3>4
  <2>3. \A k \in Ends(F, end) \cup {end} : k \in Ends(F, o)
    <3> TAKE k \in Ends(F, end) \cup {end}
    <3>1. CASE k = end
      <4>1. end \in o + 1 .. F
        BY <1>1, <1>12
      <4> QED
        BY <1>14, <3>1, <4>1 DEF Ends
    <3>2. CASE k \in Ends(F, end)
      <4>1. k \in end + 1 .. F /\ k \in Int /\ (k = F \/ k % Chunk = 0)
        BY <1>1, <1>12, <3>2 DEF Ends
      <4>2. k \in o + 1 .. F
        BY <1>1, <1>12, <4>1
      <4> QED
        BY <4>1, <4>2 DEF Ends
    <3> QED
      BY <3>1, <3>2
  <2> QED
    BY <2>2, <2>3
\* At the gap the chunk stays, if the gap is inside it.
<1>16. CASE end < c + Chunk
  <2>1. end = F
    BY <1>8, <1>10, <1>12, <1>16
  <2>2. \A j \in 1 .. n : j < i => D[j] + Chunk <= end
    <3> TAKE j \in 1 .. n
    <3> HAVE j < i
    <3>1. D[j] + Chunk <= o /\ D[j] \in Nat
      BY <1>2, <1>4
    <3> QED
      BY <1>1, <1>12, <3>1
  <2>3. \A j \in i .. n : end < D[j] + Chunk
    <3> TAKE j \in i .. n
    <3>1. j \in 1 .. n /\ (j = i \/ i < j)
      BY <1>1, <1>4
    <3>2. c <= D[j] /\ D[j] \in Nat
      BY <1>2, <1>3, <1>6, <1>8, <3>1 DEF c
    <3> QED
      BY <1>1, <1>8, <1>12, <1>16, <3>2
  <2>4. Fed(D, F, end, i)
    <3>1. \A k \in Nat : ~(end <= k /\ k < F)
      BY <1>1, <2>1
    <3> QED
      BY <1>1, <1>12, <2>2, <2>3, <3>1 DEF Fed, n
  <2>5. EmitNext(gaps, at) = <<end, From(D, i)>>
    BY <1>11, <1>16 DEF d
  <2> QED
    BY <1>1, <1>9, <1>12, <1>15, <2>4, <2>5 DEF GoesOn, at, d, end, n
\* Otherwise it goes, and the next one begins no earlier than it ended.
<1>17. CASE ~(end < c + Chunk)
  <2>1. end = c + Chunk
    BY <1>1, <1>8, <1>10, <1>12, <1>17
  <2>2. \A j \in 1 .. n : j < i + 1 => D[j] + Chunk <= end
    <3> TAKE j \in 1 .. n
    <3> HAVE j < i + 1
    <3>1. j = i \/ j < i
      BY <1>1
    <3>2. CASE j = i
      BY <1>1, <1>8, <2>1, <3>2 DEF c
    <3>3. CASE j < i
      <4>1. D[j] + Chunk <= o /\ D[j] \in Nat
        BY <1>2, <1>4, <3>3
      <4> QED
        BY <1>1, <1>12, <4>1
    <3> QED
      BY <3>1, <3>2, <3>3
  <2>3. \A j \in i + 1 .. n : j \in 1 .. n /\ i < j /\ j \in i .. n
    BY <1>1
  <2>4. \A j \in i + 1 .. n : end < D[j] + Chunk
    <3> TAKE j \in i + 1 .. n
    <3>1. c < D[j] /\ D[j] \in Nat /\ D[j] % Chunk = 0
      BY <1>2, <1>3, <1>6, <2>3 DEF c
    <3>2. c + Chunk <= D[j]
      BY <1>8, <3>1, NextAligned
    <3> QED
      BY <1>1, <1>8, <2>1, <3>1, <3>2
  <2>5. ASSUME NEW k \in Nat, end <= k, k < F
        PROVE  \E j \in i + 1 .. n : D[j] = ChunkOf(k)
    <3>1. o <= k
      BY <1>1, <1>12, <2>5
    <3>2. PICK j \in i .. n : D[j] = ChunkOf(k)
      BY <1>4, <2>5, <3>1
    <3>3. k < ChunkOf(k) + Chunk /\ ChunkOf(k) \in Nat
      BY ChunkHolds
    <3>4. j # i
      <4> SUFFICES ASSUME j = i
                   PROVE  FALSE
        OBVIOUS
      <4>1. c = ChunkOf(k)
        BY <3>2 DEF c
      <4> QED
        BY <1>1, <1>8, <2>1, <2>5, <3>3, <4>1
    <3>5. j \in i + 1 .. n
      BY <1>1, <3>4
    <3> QED
      BY <3>2, <3>5
  <2>6. Fed(D, F, end, i + 1)
    BY <1>6, <1>12, <2>2, <2>4, <2>5 DEF Fed, n
  <2>7. EmitNext(gaps, at) = <<end, From(D, i + 1)>>
    BY <1>7, <1>11, <1>17
  <2> QED
    BY <1>6, <1>9, <1>12, <1>15, <2>6, <2>7 DEF GoesOn, at, d, end, n
<1> QED
  BY <1>16, <1>17

\* conn_emit_pending_stream_data on any list of chunks that holds the bytes up to
\* the first gap: its assertions hold, its callbacks end at the chunk borders
\* and at the gap, and the chunks wholly passed on are gone.
THEOREM EmitIs ==
  ASSUME NEW D, IsChunks(D), NEW gaps, NEW F \in Offset, gaps[1].begin = F,
         NEW o, Fed(D, F, o, 1)
  PROVE  Emitted(D, F, o, Emit(gaps, D, o))
<1> DEFINE n == Len(D)
           A == Offset \X Tails(D)
           W(h) == [at \in Offset \X {SubSeq(D, i, Len(D)) : i \in 1 .. Len(D) + 1} |->
                      LET p == at[1]
                          d == at[2]
                      IN IF gaps[1].begin <= p
                         THEN [ends |-> {}, ok |-> p = FirstGapOffset(gaps), left |-> d]
                         ELSE IF ~DataAtAsserts(d, p)
                              THEN [ends |-> {}, ok |-> FALSE, left |-> d]
                         ELSE LET end == p + DataAt(gaps, d, p)
                                  rest == h[<<end, RobPop(d, end)>>]
                              IN [rest EXCEPT !.ends = @ \cup {end}]]
           emit == CHOOSE h : h = W(h)
<1>1. Emit(gaps, D, o) = emit[<<o, D>>]
  BY DEF Emit
<1>2. \A h : W(h) = [at \in A |-> EmitRound(gaps, at, h[EmitNext(gaps, at)])]
  BY DEF EmitRound, EmitNext, EmitEnd, Tails
<1>3. D \in Seq(Nat) /\ n \in Nat /\ D = From(D, 1) /\ 1 \in 1 .. n + 1
  <2>1. D \in Seq(Nat) /\ n \in Nat
    BY DEF IsChunks
  <2>2. SubSeq(D, 1, Len(D)) = D
    BY <2>1
  <2> QED
    BY <2>1, <2>2 DEF From
<1>4. \E h : h = W(h)
  <2> HIDE DEF W
  <2>1. PICK h : h = [at \in A |-> EmitRound(gaps, at, h[EmitNext(gaps, at)])]
    BY <1>3, EmitExists
  <2> QED
    BY <1>2, <2>1
<1> HIDE DEF W
<1>5. emit = W(emit)
  BY <1>4
<1> HIDE DEF emit, A
<1>6. \A at \in A : emit[at] = EmitRound(gaps, at, emit[EmitNext(gaps, at)])
  BY <1>2, <1>5
<1> DEFINE Good(p) == \A i \in 1 .. n + 1 : Fed(D, F, p, i) => Emitted(D, F, p, emit[<<p, From(D, i)>>])
           Z == {m \in 0 .. MaxOff : ~Good(MaxOff - m)}
<1>7. MaxOff \in Nat
  BY RxFlowAssumption
<1>8. Z = {}
  <2> SUFFICES ASSUME Z # {}
               PROVE  FALSE
    OBVIOUS
  <2>1. Z \subseteq Nat
    OBVIOUS
  <2>2. PICK m \in Z : \A k \in Z : m <= k
    BY <2>1, LeastMember, Zenon
  <2> DEFINE p == MaxOff - m
  <2>3. ~Good(p) /\ m \in 0 .. MaxOff
    BY <2>2
  <2>4. p \in Offset /\ MaxOff - p = m
    BY <1>7, <2>3 DEF Offset
  <2>5. \A x \in Offset : p < x => Good(x)
    <3> TAKE x \in Offset
    <3> HAVE p < x
    <3>1. x \in Int /\ MaxOff - x \in 0 .. MaxOff /\ ~(m <= MaxOff - x) /\ MaxOff - (MaxOff - x) = x
      BY <1>7, <2>3 DEF Offset
    <3>2. MaxOff - x \notin Z
      BY <2>2, <3>1
    <3> HIDE DEF Good
    <3> QED
      BY <3>1, <3>2
  <2> HIDE DEF p, Z
  <2>6. Good(p)
    <3> SUFFICES ASSUME NEW i \in 1 .. n + 1, Fed(D, F, p, i)
                 PROVE  Emitted(D, F, p, emit[<<p, From(D, i)>>])
      OBVIOUS
    <3> HIDE DEF Good
    <3> DEFINE at == <<p, From(D, i)>>
    <3>1. at \in A
      BY <1>3, <2>4, FromIs DEF A
    <3>2. emit[at] = EmitRound(gaps, at, emit[EmitNext(gaps, at)])
      BY <1>6, <3>1
    <3>3. CASE p = F
      <4>1. Fed(D, F, F, i)
        BY <3>3
      <4>2. Emitted(D, F, F, EmitRound(gaps, <<F, From(D, i)>>, emit[EmitNext(gaps, at)]))
        BY <4>1, EmitDone
      <4> QED
        BY <3>2, <3>3, <4>2
    <3>4. CASE p # F
      <4> DEFINE end == EmitEnd(gaps, at)
      <4>1. /\ ~EmitStops(gaps, at) /\ end \in Offset /\ p < end
            /\ \E j \in 1 .. Len(D) + 1 :
                 EmitNext(gaps, at) = <<end, From(D, j)>> /\ Fed(D, F, end, j)
            /\ Ends(F, p) = Ends(F, end) \cup {end}
        <5>1. GoesOn(D, gaps, F, p, i)
          BY <3>4, EmitGoesOn
        <5> HIDE DEF n
        <5> QED
          BY <5>1 DEF GoesOn
      <4> HIDE DEF at
      <4>2. PICK j \in 1 .. n + 1 : EmitNext(gaps, at) = <<end, From(D, j)>> /\ Fed(D, F, end, j)
        BY <4>1
      <4> DEFINE e == emit[EmitNext(gaps, at)]
      <4>3. EmitRound(gaps, at, e) = [e EXCEPT !.ends = @ \cup {end}]
        BY <4>1 DEF EmitRound, EmitStops
      <4> HIDE DEF end
      <4>4. Emitted(D, F, end, e)
        BY <2>5, <4>1, <4>2 DEF Good
      <4>5. emit[at] = [e EXCEPT !.ends = @ \cup {end}]
        BY <3>2, <4>3
      <4> HIDE DEF e
      <4>6. PICK k \in 1 .. n + 1 :
              /\ e = [ends |-> Ends(F, end), ok |-> TRUE, left |-> From(D, k)]
              /\ \A x \in 1 .. n : x < k => D[x] + Chunk <= F
              /\ \A x \in k .. n : F < D[x] + Chunk
        BY <4>4 DEF Emitted
      <4>7. emit[at] = [ends |-> Ends(F, p), ok |-> TRUE, left |-> From(D, k)]
        BY <4>1, <4>5, <4>6
      <4> QED
        BY <4>6, <4>7 DEF Emitted, at
    <3> QED
      BY <3>3, <3>4
  <2> QED
    BY <2>3, <2>6
<1>9. Good(o)
  <2>1. o \in Offset
    BY DEF Fed
  <2>2. MaxOff - o \in 0 .. MaxOff /\ MaxOff - (MaxOff - o) = o
    BY <1>7, <2>1 DEF Offset
  <2> HIDE DEF Good
  <2> QED
    BY <1>8, <2>2
<1> QED
  BY <1>1, <1>3, <1>9

\* In every state RxFlow reaches, and for every frame at the front of a stream,
\* the loop that passes on what the frame made contiguous asserts nothing false
\* and does what RxFlow says.
THEOREM EmitIsRight == Spec => []EmitAgrees
<1>1. RxInv /\ Aligned => EmitAgrees
  <2> SUFFICES ASSUME RxInv, Aligned, NEW s \in open \ (stopped \cup rst), NEW q \in Frames,
                      q.begin <= Rx(s), Rx(s) < q.end
               PROVE  LET g == got[s] \cup 0 .. q.end - 1
                          rest == {c \in chunks[s] : q.end < c + Chunk}
                          e == Emit(GapsOf(g), Increasing(rest), q.end)
                      IN /\ e.ok
                         /\ e.ends = {k \in q.end + 1 .. FirstGap(g) :
                                        k = FirstGap(g) \/ k % Chunk = 0}
                         /\ {e.left[i] : i \in DOMAIN e.left} =
                              {c \in rest : FirstGap(g) < c + Chunk}
    BY DEF EmitAgrees
  <2> DEFINE g == got[s] \cup 0 .. q.end - 1
             rest == {c \in chunks[s] : q.end < c + Chunk}
             D == Increasing(rest)
             n == Len(D)
             F == FirstGap(g)
             gaps == GapsOf(g)
             e == Emit(gaps, D, q.end)
  <2>1. /\ s \in Stream /\ got[s] \in SUBSET Byte /\ chunks[s] \in SUBSET Byte
        /\ q.end \in Offset /\ q.end \in Nat /\ MaxOff \in Nat /\ Chunk \in Nat \ {0}
    BY RxFlowAssumption DEF RxInv, TypeOK, Frames, Offset
  <2>2. g \in SUBSET Byte
    BY <2>1 DEF Byte, Offset
  <2>3. F \in Offset /\ F \in Nat /\ gaps[1].begin = F /\ q.end <= F
    <3>1. F \in Offset /\ gaps[1].begin = F
      BY <2>2, FirstGapIs, FirstGapOffsetIs DEF FirstGapOffset
    <3>2. \A k \in Byte : k < q.end => k \in g
      BY <2>1 DEF Byte
    <3>3. q.end <= F
      BY <2>1, <2>2, <3>2, FirstGapBounds
    <3> QED
      BY <3>1, <3>3, <2>1 DEF Offset
  <2>4. \A k \in Nat : k < F => k \in g
    BY <2>2, FirstGapIs
  <2>5. Rx(s) \in Nat
    BY <2>1, FirstGapIs DEF Rx, Offset
  <2>6. \A k \in got[s] : k > Rx(s) => ChunkOf(k) \in chunks[s]
    BY DEF RxInv, RobHoldsData
  <2>7. /\ rest \subseteq Nat /\ rest \subseteq Int /\ IsFiniteSet(rest)
        /\ \A c \in rest : c % Chunk = 0 /\ q.end < c + Chunk
    <3>1. IsFiniteSet(Byte)
      BY FS_Interval, RxFlowAssumption DEF Byte
    <3>2. rest \subseteq Byte
      BY <2>1
    <3>3. IsFiniteSet(rest)
      BY <3>1, <3>2, FS_Subset
    <3>4. \A c \in rest : c \in chunks[s] /\ q.end < c + Chunk
      OBVIOUS
    <3>5. \A c \in chunks[s] : c % Chunk = 0
      BY <2>1 DEF Aligned
    <3> HIDE DEF rest
    <3>6. \A c \in rest : c \in Nat /\ c \in Int
      BY <2>1, <3>2 DEF Byte
    <3> QED
      BY <3>3, <3>4, <3>5, <3>6
  <2>8. ASSUME NEW k \in Nat, q.end <= k, k < F
        PROVE  ChunkOf(k) \in rest
    <3>1. k \in got[s] /\ k > Rx(s)
      BY <2>1, <2>4, <2>5, <2>8
    <3>2. ChunkOf(k) \in chunks[s] /\ k < ChunkOf(k) + Chunk /\ ChunkOf(k) \in Nat
      BY <2>6, <3>1, ChunkHolds
    <3> QED
      BY <2>1, <2>8, <3>2
  <2> HIDE DEF g, rest, F, gaps
  <2>9. IsIncreasing(D, rest)
    BY <2>7, IncreasingIs
  <2> HIDE DEF D
  <2>10. /\ D \in Seq(Nat) /\ n \in Nat
         /\ \A i \in 1 .. n : D[i] \in rest
         /\ \A i, k \in 1 .. n : i < k => D[i] < D[k]
         /\ \A c \in rest : \E i \in 1 .. n : D[i] = c
    <3>1. D \in Seq(rest) /\ n \in Nat
      BY <2>9 DEF IsIncreasing
    <3>2. rest \subseteq Nat
      BY <2>7
    <3>3. D \in Seq(Nat)
      BY <3>1, <3>2, SeqMonotonic
    <3> QED
      BY <2>9, <3>1, <3>3 DEF IsIncreasing
  <2>11. IsChunks(D)
    BY <2>7, <2>10 DEF IsChunks
  <2>12. Fed(D, F, q.end, 1)
    <3>1. 1 \in 1 .. n + 1 /\ \A j \in 1 .. n : ~(j < 1)
      BY <2>10
    <3>2. \A j \in 1 .. n : q.end < D[j] + Chunk
      BY <2>7, <2>10
    <3>3. \A k \in Nat : q.end <= k /\ k < F => \E j \in 1 .. n : D[j] = ChunkOf(k)
      BY <2>8, <2>10
    <3> QED
      BY <2>1, <2>3, <3>1, <3>2, <3>3 DEF Fed
  <2>13. Emitted(D, F, q.end, e)
    BY <2>3, <2>11, <2>12, EmitIs
  <2> HIDE DEF e
  <2>14. PICK j \in 1 .. n + 1 :
           /\ e = [ends |-> Ends(F, q.end), ok |-> TRUE, left |-> From(D, j)]
           /\ \A k \in 1 .. n : k < j => D[k] + Chunk <= F
           /\ \A k \in j .. n : F < D[k] + Chunk
    BY <2>13 DEF Emitted
  <2>15. e.ok /\ e.ends = Ends(F, q.end) /\ e.left = From(D, j)
    BY <2>14
  <2>16. {e.left[i] : i \in DOMAIN e.left} = {D[k] : k \in j .. n}
    <3>1. {From(D, j)[i] : i \in DOMAIN From(D, j)} = {D[k] : k \in j .. n}
      BY <2>10, FromIs
    <3> QED
      BY <2>15, <3>1
  <2>17. {D[k] : k \in j .. n} = {c \in rest : F < c + Chunk}
    <3>1. \A k \in j .. n : D[k] \in rest /\ F < D[k] + Chunk
      <4>1. \A k \in j .. n : k \in 1 .. n
        BY <2>10
      <4> QED
        BY <2>10, <2>14, <4>1
    <3>2. ASSUME NEW c \in rest, F < c + Chunk
          PROVE  \E k \in j .. n : D[k] = c
      <4>1. PICK k \in 1 .. n : D[k] = c
        BY <2>10
      <4>2. c \in Nat /\ c + Chunk \in Nat
        BY <2>1, <2>7
      <4>3. ~(k < j)
        BY <2>3, <2>14, <3>2, <4>1, <4>2
      <4>4. k \in j .. n
        BY <2>10, <4>3
      <4> QED
        BY <4>1, <4>4
    <3> HIDE DEF n
    <3> QED
      BY <3>1, <3>2
  <2> QED
    BY <2>15, <2>16, <2>17 DEF Ends, e, D, F, g, rest, gaps
<1> QED
  BY <1>1, SpecInv, ChunksAreAligned, PTL
=============================================================================
