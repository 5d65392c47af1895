--------------------------- MODULE AckRangesProofs ---------------------------
(***************************************************************************)
(* Proofs about AckRanges: on every list of ranges, of any length, the     *)
(* algorithms of ngtcp2_acktr.c compute what AckTracker says of the set    *)
(* the ranges cover; and so they do in every state AckTracker reaches.     *)
(* Inductions are made on sets, through their least members.               *)
(***************************************************************************)
EXTENDS AckRanges, AckTrackerProofs, SequenceTheorems

\* A list of ranges as acktr->ents keeps it: in decreasing order, and between
\* any two ranges a number is missing.
AckRange == [pkt_num : Nat, len : Nat \ {0}]
IsRanges(s) ==
  /\ s \in Seq(AckRange)
  /\ \A i \in 1 .. Len(s) : First(s[i]) \in Nat
  /\ \A i, k \in 1 .. Len(s) : i < k => s[k].pkt_num + 1 < First(s[i])

\* The number p is in range r; the list s stands for the set S.
In(p, r) == First(r) <= p /\ p <= r.pkt_num
ListOf(s, S) == IsRanges(s) /\ Cover(s) = S

-----------------------------------------------------------------------------
\* A nonempty set of naturals has a least member.
LEMMA LeastMember ==
  ASSUME NEW S, S \subseteq Nat, S # {}
  PROVE  \E m \in S : \A k \in S : m <= k
<1>1. PICK m \in S : \A k \in S : ~(<<k, m>> \in OpToRel(<, Nat))
  BY NatLessThanWellFounded, WFMin, Zenon
<1>2. \A k \in S : ~(k < m)
  <2> TAKE k \in S
  <2>1. k \in Nat /\ m \in Nat
    OBVIOUS
  <2>2. ~(<<k, m>> \in OpToRel(<, Nat))
    BY <1>1, Zenon
  <2> QED
    BY <2>1, <2>2, Zenon DEF OpToRel
<1>3. \A k \in S : m <= k
  BY <1>2
<1> QED
  BY <1>3, Zenon

\* How many members of T are t or above.
Rank(T, t) == Cardinality({u \in T : u >= t})

LEMMA RankIs ==
  ASSUME NEW T, T \subseteq Int, IsFiniteSet(T), NEW n, n = Cardinality(T)
  PROVE  /\ n \in Nat
         /\ \A t \in T : Rank(T, t) \in 1 .. n
         /\ \A a, b \in T : a < b => Rank(T, b) < Rank(T, a)
<1>1. n \in Nat
  BY FS_CardinalityType
<1> DEFINE Above(t) == {u \in T : u >= t}
<1>2. \A t : Above(t) \in SUBSET T /\ Rank(T, t) = Cardinality(Above(t))
  BY DEF Rank
<1>3. ASSUME NEW t \in T
      PROVE  Rank(T, t) \in 1 .. n
  <2>1. IsFiniteSet(Above(t)) /\ Cardinality(Above(t)) <= n
    BY <1>2, FS_Subset
  <2>2. t \in Above(t)
    OBVIOUS
  <2>3. Cardinality(Above(t)) \in Nat /\ Cardinality(Above(t)) # 0
    BY <2>1, <2>2, FS_CardinalityType, FS_EmptySet
  <2> QED
    BY <1>1, <1>2, <2>1, <2>3
<1>4. ASSUME NEW a \in T, NEW b \in T, a < b
      PROVE  Rank(T, b) < Rank(T, a)
  <2>0. a \in Int /\ b \in Int /\ \A u \in T : u \in Int
    OBVIOUS
  <2>a. (\A u \in T : u >= b => u >= a) /\ a >= a /\ ~(a >= b)
    BY <1>4, <2>0
  <2>1. Above(b) \in SUBSET Above(a) /\ a \in Above(a) /\ a \notin Above(b)
    BY <2>a
  <2>2. IsFiniteSet(Above(a))
    BY <1>2, FS_Subset
  <2> HIDE DEF Above
  <2>3. /\ Cardinality(Above(b)) <= Cardinality(Above(a))
        /\ Cardinality(Above(b)) # Cardinality(Above(a))
    BY <2>1, <2>2, FS_Subset
  <2>4. Rank(T, a) \in Int /\ Rank(T, b) \in Int
    BY <1>3
  <2> QED
    BY <1>2, <2>3, <2>4
<1> QED
  BY <1>1, <1>3, <1>4

\* Decreasing(T) has every member of T, in decreasing order.
IsDecreasing(d, T) ==
  /\ Cardinality(T) \in Nat /\ d \in Seq(T) /\ Len(d) = Cardinality(T)
  /\ \A i \in 1 .. Len(d) : d[i] \in T
  /\ \A i, k \in 1 .. Len(d) : i < k => d[k] < d[i]
  /\ \A t \in T : \E i \in 1 .. Len(d) : d[i] = t

LEMMA DecreasingIs ==
  ASSUME NEW T, T \subseteq Int, IsFiniteSet(T)
  PROVE  IsDecreasing(Decreasing(T), T)
<1> DEFINE n == Cardinality(T)
           d == Decreasing(T)
           r == [t \in T |-> Rank(T, t)]
<1>1. /\ n \in Nat
      /\ \A t \in T : Rank(T, t) \in 1 .. n
      /\ \A a, b \in T : a < b => Rank(T, b) < Rank(T, a)
  BY RankIs
<1>2. \A a, b \in T : Rank(T, a) = Rank(T, b) => a = b
  <2> SUFFICES ASSUME NEW a \in T, NEW b \in T, Rank(T, a) = Rank(T, b), a # b
               PROVE  FALSE
    OBVIOUS
  <2>1. a \in Int /\ b \in Int /\ Rank(T, a) \in Int /\ Rank(T, b) \in Int
    BY <1>1
  <2>2. a < b \/ b < a
    BY <2>1
  <2> QED
    BY <1>1, <2>1, <2>2
<1>3. r \in Injection(T, 1 .. n)
  BY <1>1, <1>2 DEF Injection, IsInjective
<1>4. IsFiniteSet(1 .. n) /\ Cardinality(1 .. n) = n
  BY <1>1, FS_Interval
<1>5. r \in Surjection(T, 1 .. n)
  BY <1>3, <1>4, FS_Injection
<1>6. \A i \in 1 .. n : \E t \in T : Rank(T, t) = i
  BY <1>5 DEF Surjection
<1>7. d = [i \in 1 .. n |-> CHOOSE t \in T : Rank(T, t) = i]
  BY DEF Decreasing, Rank
<1> HIDE DEF d, n, r
<1>8. \A i \in 1 .. n : d[i] \in T /\ Rank(T, d[i]) = i
  BY <1>6, <1>7
<1>9. d \in [1 .. n -> T]
  BY <1>7, <1>8
<1>10. d \in Seq(T) /\ Len(d) = n
  BY <1>1, <1>9
<1>11. \A i, k \in 1 .. n : i < k => d[k] < d[i]
  <2> TAKE i, k \in 1 .. n
  <2> HAVE i < k
  <2>1. d[i] \in T /\ d[k] \in T /\ Rank(T, d[i]) = i /\ Rank(T, d[k]) = k
    BY <1>8
  <2>2. i \in Int /\ k \in Int /\ ~(k < i) /\ k # i
    BY <1>1
  <2>3. d[i] # d[k]
    BY <2>1, <2>2
  <2>4. ~(d[i] < d[k])
    BY <1>1, <2>1, <2>2
  <2>5. d[i] \in Int /\ d[k] \in Int
    BY <2>1
  <2> QED
    BY <2>3, <2>4, <2>5
<1>12. \A t \in T : \E i \in 1 .. n : d[i] = t
  <2> TAKE t \in T
  <2>1. Rank(T, t) \in 1 .. n
    BY <1>1
  <2>2. d[Rank(T, t)] \in T /\ Rank(T, d[Rank(T, t)]) = Rank(T, t)
    BY <1>8, <2>1
  <2>3. d[Rank(T, t)] = t
    BY <1>2, <2>2
  <2> QED
    BY <2>1, <2>3
<1> QED
  BY <1>1, <1>8, <1>10, <1>11, <1>12 DEF IsDecreasing, n, d

-----------------------------------------------------------------------------
\* The numbers a list of ranges covers.
LEMMA CoverIs ==
  ASSUME NEW s, IsRanges(s)
  PROVE  /\ Cover(s) \subseteq Nat /\ Len(s) \in Nat
         /\ \A p \in Int : p \in Cover(s) <=> \E i \in 1 .. Len(s) : In(p, s[i])
         /\ \A i \in 1 .. Len(s) : /\ s[i] \in AckRange /\ First(s[i]) \in Nat
                                   /\ s[i].pkt_num \in Nat /\ s[i].len \in Nat \ {0}
                                   /\ First(s[i]) <= s[i].pkt_num
<1>1. Len(s) \in Nat /\ DOMAIN s = 1 .. Len(s) /\ \A i \in 1 .. Len(s) : s[i] \in AckRange
  BY DEF IsRanges
<1>2. \A i \in 1 .. Len(s) : /\ First(s[i]) \in Nat
                             /\ s[i].pkt_num \in Nat /\ s[i].len \in Nat \ {0}
  BY <1>1 DEF IsRanges, AckRange
<1>3. \A i \in 1 .. Len(s) : First(s[i]) <= s[i].pkt_num
  BY <1>2 DEF First
<1>4. \A p : p \in Cover(s) <=> \E i \in 1 .. Len(s) : p \in First(s[i]) .. s[i].pkt_num
  BY <1>1 DEF Cover
<1>5. \A p \in Int : \A i \in 1 .. Len(s) : p \in First(s[i]) .. s[i].pkt_num <=> In(p, s[i])
  BY <1>2 DEF In
<1>6. Cover(s) \subseteq Nat
  BY <1>2, <1>4
<1> QED
  BY <1>1, <1>2, <1>3, <1>4, <1>5, <1>6

\* Between the ranges numbers are missing: the last member of a range has no
\* successor and the first no predecessor.
LEMMA EdgesIs ==
  ASSUME NEW s, NEW S, ListOf(s, S)
  PROVE  /\ \A i \in 1 .. Len(s) : /\ First(s[i]) .. s[i].pkt_num \subseteq S
                                   /\ s[i].pkt_num \in S /\ s[i].pkt_num + 1 \notin S
                                   /\ First(s[i]) \in S /\ First(s[i]) - 1 \notin S
         /\ \A t \in Tops(S) : \E i \in 1 .. Len(s) : t = s[i].pkt_num
         /\ \A i, k \in 1 .. Len(s) : \A p \in Int : In(p, s[i]) /\ In(p, s[k]) => i = k
<1>1. /\ S \subseteq Nat /\ Len(s) \in Nat
      /\ \A p \in Int : p \in S <=> \E i \in 1 .. Len(s) : In(p, s[i])
      /\ \A i \in 1 .. Len(s) : /\ First(s[i]) \in Nat /\ s[i].pkt_num \in Nat
                                /\ First(s[i]) <= s[i].pkt_num
      /\ \A i, k \in 1 .. Len(s) : i < k => s[k].pkt_num + 1 < First(s[i])
  BY CoverIs DEF ListOf, IsRanges
<1>2. ASSUME NEW i \in 1 .. Len(s), NEW p \in First(s[i]) .. s[i].pkt_num
      PROVE  p \in S
  <2>1. p \in Int /\ In(p, s[i])
    BY <1>1 DEF In
  <2> QED
    BY <1>1, <2>1
<1>3. ASSUME NEW i \in 1 .. Len(s), NEW k \in 1 .. Len(s), NEW p \in Int, In(p, s[k])
      PROVE  p # s[i].pkt_num + 1 /\ p # First(s[i]) - 1
  <2>1. /\ First(s[i]) \in Nat /\ s[i].pkt_num \in Nat /\ First(s[i]) <= s[i].pkt_num
        /\ First(s[k]) \in Nat /\ s[k].pkt_num \in Nat
        /\ First(s[k]) <= p /\ p <= s[k].pkt_num
    BY <1>1, <1>3 DEF In
  <2>2. CASE i = k
    BY <2>1, <2>2
  <2>3. CASE i < k
    <3>1. s[k].pkt_num + 1 < First(s[i])
      BY <1>1, <2>3
    <3> QED
      BY <2>1, <3>1
  <2>4. CASE k < i
    <3>1. s[i].pkt_num + 1 < First(s[k])
      BY <1>1, <2>4
    <3> QED
      BY <2>1, <3>1
  <2>5. i \in Int /\ k \in Int
    OBVIOUS
  <2> QED
    BY <2>2, <2>3, <2>4, <2>5
<1>4. ASSUME NEW i \in 1 .. Len(s)
      PROVE  s[i].pkt_num + 1 \notin S /\ First(s[i]) - 1 \notin S
  <2>1. s[i].pkt_num + 1 \in Int /\ First(s[i]) - 1 \in Int
    BY <1>1
  <2> QED
    BY <1>1, <1>3, <2>1
<1>5. ASSUME NEW i \in 1 .. Len(s)
      PROVE  /\ First(s[i]) .. s[i].pkt_num \subseteq S
             /\ s[i].pkt_num \in S /\ First(s[i]) \in S
  <2>1. /\ First(s[i]) \in First(s[i]) .. s[i].pkt_num
        /\ s[i].pkt_num \in First(s[i]) .. s[i].pkt_num
    BY <1>1
  <2> QED
    BY <1>2, <2>1
<1>6. ASSUME NEW t \in Tops(S)
      PROVE  \E i \in 1 .. Len(s) : t = s[i].pkt_num
  <2>1. t \in S /\ t + 1 \notin S /\ t \in Int
    BY <1>1 DEF Tops
  <2>2. PICK i \in 1 .. Len(s) : In(t, s[i])
    BY <1>1, <2>1
  <2>3. ~In(t + 1, s[i])
    BY <1>1, <2>1
  <2> QED
    BY <1>1, <2>1, <2>2, <2>3 DEF In
<1>7. ASSUME NEW i \in 1 .. Len(s), NEW k \in 1 .. Len(s), NEW p \in Int,
             In(p, s[i]), In(p, s[k])
      PROVE  i = k
  <2> SUFFICES ASSUME NEW a \in 1 .. Len(s), NEW b \in 1 .. Len(s), a < b,
                      In(p, s[a]), In(p, s[b])
               PROVE  FALSE
    <3>1. i \in Int /\ k \in Int
      OBVIOUS
    <3> QED
      BY <1>7, <3>1
  <2>1. s[b].pkt_num + 1 < First(s[a]) /\ First(s[a]) \in Nat /\ s[b].pkt_num \in Nat
    BY <1>1
  <2> QED
    BY <2>1 DEF In
<1> QED
  BY <1>4, <1>5, <1>6, <1>7

\* The ranges of a list are as many as the sets they stand for have.
LEMMA CountIs ==
  ASSUME NEW s, IsRanges(s), NEW n \in 0 .. Len(s)
  PROVE  LET X == {s[j].pkt_num : j \in 1 .. n}
         IN IsFiniteSet(X) /\ Cardinality(X) = n
<1> DEFINE X == {s[j].pkt_num : j \in 1 .. n}
           f == [j \in 1 .. n |-> s[j].pkt_num]
<1>1. /\ Len(s) \in Nat /\ n \in Nat
      /\ \A i \in 1 .. n : i \in 1 .. Len(s)
      /\ \A i \in 1 .. Len(s) : /\ First(s[i]) \in Nat /\ s[i].pkt_num \in Nat
                                /\ First(s[i]) <= s[i].pkt_num
      /\ \A i, k \in 1 .. Len(s) : i < k => s[k].pkt_num + 1 < First(s[i])
  <2>1. Len(s) \in Nat
    BY CoverIs
  <2>2. n \in Nat /\ \A i \in 1 .. n : i \in 1 .. Len(s)
    BY <2>1
  <2>3. \A i \in 1 .. Len(s) : /\ First(s[i]) \in Nat /\ s[i].pkt_num \in Nat
                                /\ First(s[i]) <= s[i].pkt_num
    BY CoverIs
  <2> QED
    BY <2>1, <2>2, <2>3 DEF IsRanges
<1>2. \A i, k \in 1 .. n : i < k => s[i].pkt_num # s[k].pkt_num
  <2> TAKE i, k \in 1 .. n
  <2> HAVE i < k
  <2>1. i \in 1 .. Len(s) /\ k \in 1 .. Len(s)
    BY <1>1
  <2>2. /\ First(s[i]) \in Nat /\ s[i].pkt_num \in Nat /\ First(s[i]) <= s[i].pkt_num
        /\ s[k].pkt_num \in Nat /\ s[k].pkt_num + 1 < First(s[i])
    BY <1>1, <2>1
  <2> QED
    BY <2>2
<1>3. \A i, k \in 1 .. n : f[i] = f[k] => i = k
  <2> TAKE i, k \in 1 .. n
  <2>1. i \in Int /\ k \in Int /\ f[i] = s[i].pkt_num /\ f[k] = s[k].pkt_num
    OBVIOUS
  <2>2. i < k \/ k < i \/ i = k
    BY <2>1
  <2> QED
    BY <1>2, <2>1, <2>2
<1>4. f \in Surjection(1 .. n, X) /\ f \in Injection(1 .. n, X)
  BY <1>3 DEF Surjection, Injection, IsInjective
<1>5. IsFiniteSet(1 .. n) /\ Cardinality(1 .. n) = n
  <2>1. n \in Nat
    BY <1>1
  <2> QED
    BY <2>1, FS_Interval
<1> HIDE DEF f, X
<1>6. IsFiniteSet(X) /\ Cardinality(X) = n
  BY <1>4, <1>5, FS_Surjection
<1> QED
  BY <1>6 DEF X

LEMMA TopsIs ==
  ASSUME NEW s, NEW S, ListOf(s, S)
  PROVE  /\ Tops(S) = {s[j].pkt_num : j \in 1 .. Len(s)}
         /\ IsFiniteSet(Tops(S)) /\ Cardinality(Tops(S)) = Len(s)
<1>1. Len(s) \in Nat /\ Len(s) \in 0 .. Len(s) /\ IsRanges(s)
  BY CoverIs DEF ListOf
<1>2. \A i \in 1 .. Len(s) : s[i].pkt_num \in S /\ s[i].pkt_num + 1 \notin S
  BY EdgesIs
<1>3. \A t \in Tops(S) : \E i \in 1 .. Len(s) : t = s[i].pkt_num
  BY EdgesIs
<1>4. Tops(S) = {s[j].pkt_num : j \in 1 .. Len(s)}
  BY <1>2, <1>3 DEF Tops
<1> QED
  BY <1>1, <1>4, CountIs

\* NewestRanges(S, n) has the numbers of the first n ranges.
LEMMA NewestIs ==
  ASSUME NEW s, NEW S, ListOf(s, S), NEW n \in Nat,
         NEW i \in 1 .. Len(s), NEW p \in Int, In(p, s[i])
  PROVE  p \in NewestRanges(S, n) <=> i <= n
<1>1. /\ Len(s) \in Nat /\ i \in Nat /\ i \in 0 .. Len(s)
      /\ \A j \in 1 .. i : j \in 1 .. Len(s)
      /\ \A j \in 1 .. Len(s) : /\ First(s[j]) \in Nat /\ s[j].pkt_num \in Nat
                                /\ First(s[j]) <= s[j].pkt_num
      /\ \A j, k \in 1 .. Len(s) : j < k => s[k].pkt_num + 1 < First(s[j])
      /\ IsRanges(s)
  <2>1. IsRanges(s)
    BY DEF ListOf
  <2>2. /\ Len(s) \in Nat
        /\ \A j \in 1 .. Len(s) : /\ First(s[j]) \in Nat /\ s[j].pkt_num \in Nat
                                  /\ First(s[j]) <= s[j].pkt_num
    BY <2>1, CoverIs
  <2>3. i \in Nat /\ i \in 0 .. Len(s) /\ \A j \in 1 .. i : j \in 1 .. Len(s)
    BY <2>2
  <2> QED
    BY <2>1, <2>2, <2>3 DEF IsRanges
<1>2. First(s[i]) <= p /\ p <= s[i].pkt_num
  BY DEF In
<1>3. \A j \in 1 .. Len(s) : s[j].pkt_num >= p <=> j <= i
  <2> TAKE j \in 1 .. Len(s)
  <2>1. /\ First(s[i]) \in Nat /\ s[i].pkt_num \in Nat
        /\ First(s[j]) \in Nat /\ s[j].pkt_num \in Nat /\ First(s[j]) <= s[j].pkt_num
        /\ i \in Int /\ j \in Int
    BY <1>1
  <2>2. CASE i < j
    <3>1. s[j].pkt_num + 1 < First(s[i])
      BY <1>1, <2>2
    <3> QED
      BY <1>2, <2>1, <2>2, <3>1
  <2>3. CASE j < i
    <3>1. s[i].pkt_num + 1 < First(s[j])
      BY <1>1, <2>3
    <3> QED
      BY <1>2, <2>1, <2>3, <3>1
  <2>4. CASE i = j
    BY <1>2, <2>1, <2>4
  <2> QED
    BY <2>1, <2>2, <2>3, <2>4
<1>4. {t \in Tops(S) : t >= p} = {s[j].pkt_num : j \in 1 .. i}
  <2>1. Tops(S) = {s[j].pkt_num : j \in 1 .. Len(s)}
    BY TopsIs
  <2>2. \A j \in 1 .. Len(s) : j <= i <=> j \in 1 .. i
    BY <1>1
  <2> QED
    BY <1>1, <1>3, <2>1, <2>2
<1>5. Cardinality({t \in Tops(S) : t >= p}) = i
  BY <1>1, <1>4, CountIs
<1>6. p \in S
  BY CoverIs DEF ListOf
<1> QED
  BY <1>5, <1>6 DEF NewestRanges

\* The first n ranges of a list are a list of what NewestRanges keeps.
LEMMA PrefixIs ==
  ASSUME NEW s, NEW S, ListOf(s, S), NEW n \in Nat, NEW m \in 0 .. Len(s),
         m = n \/ (m = Len(s) /\ m <= n)
  PROVE  /\ ListOf(SubSeq(s, 1, m), NewestRanges(S, n))
         /\ Len(SubSeq(s, 1, m)) = m
         /\ \A i \in 1 .. m : SubSeq(s, 1, m)[i] = s[i]
<1> DEFINE r == SubSeq(s, 1, m)
<1>1. /\ Len(s) \in Nat /\ m \in Nat /\ s \in Seq(AckRange)
      /\ \A i \in 1 .. m : i \in 1 .. Len(s)
      /\ IsRanges(s)
  BY CoverIs DEF ListOf, IsRanges
<1>2. r \in Seq(AckRange) /\ Len(r) = m /\ \A i \in 1 .. m : r[i] = s[i]
  <2>1. r = [i \in 1 .. m |-> s[i]]
    BY <1>1
  <2>2. \A i \in 1 .. m : s[i] \in AckRange
    BY <1>1
  <2>3. r \in [1 .. m -> AckRange]
    BY <2>1, <2>2
  <2> QED
    BY <1>1, <2>1, <2>3
<1> HIDE DEF r
<1>3. IsRanges(r)
  BY <1>1, <1>2 DEF IsRanges
<1>4. \A p \in Int : p \in Cover(r) <=> p \in NewestRanges(S, n)
  <2> TAKE p \in Int
  <2>1. p \in Cover(r) <=> \E i \in 1 .. m : In(p, s[i])
    BY <1>2, <1>3, CoverIs
  <2>2. p \in S <=> \E i \in 1 .. Len(s) : In(p, s[i])
    BY CoverIs DEF ListOf
  <2>3. \A i \in 1 .. Len(s) : In(p, s[i]) => (p \in NewestRanges(S, n) <=> i <= n)
    BY NewestIs
  <2>4. \A i \in 1 .. Len(s) : i <= n <=> i \in 1 .. m
    BY <1>1
  <2>5. p \in NewestRanges(S, n) => p \in S
    BY NewestRangesSubset
  <2> QED
    BY <1>1, <2>1, <2>2, <2>3, <2>4, <2>5
<1>5. Cover(r) \subseteq Int /\ NewestRanges(S, n) \subseteq Int
  <2>1. Cover(r) \subseteq Nat
    BY <1>3, CoverIs
  <2>2. S \subseteq Nat
    BY <1>1, CoverIs DEF ListOf
  <2>3. NewestRanges(S, n) \subseteq S
    BY NewestRangesSubset
  <2>4. Nat \subseteq Int
    OBVIOUS
  <2> QED
    BY <2>1, <2>2, <2>3, <2>4, Zenon
<1>6. Cover(r) = NewestRanges(S, n)
  BY <1>4, <1>5
<1> QED
  BY <1>2, <1>3, <1>6 DEF ListOf, r

-----------------------------------------------------------------------------
\* RangesOf makes the list of any set of numbers up to a bound.
LEMMA RangesOfIs ==
  ASSUME NEW N \in Nat, NEW S, S \subseteq 0 .. N
  PROVE  ListOf(RangesOf(S), S)
<1> DEFINE F(t) == CHOOSE f \in S : f .. t \subseteq S /\ f - 1 \notin S /\ f <= t
           T == Tops(S)
           d == Decreasing(T)
           n == Cardinality(T)
           s == RangesOf(S)
<1>1. S \subseteq Nat /\ S \subseteq Int /\ \A p \in S : p \in Nat /\ p <= N
  OBVIOUS
<1>2. T \subseteq S /\ \A t \in T : t + 1 \notin S
  BY DEF Tops
<1>3. IsDecreasing(d, T)
  <2>1. IsFiniteSet(0 .. N)
    BY FS_Interval
  <2>2. IsFiniteSet(T) /\ T \subseteq Int
    BY <1>1, <1>2, <2>1, FS_Subset
  <2> QED
    BY <2>2, DecreasingIs
<1>4. /\ n \in Nat /\ Len(d) = n /\ d \in Seq(T) /\ DOMAIN d = 1 .. n
      /\ \A i \in 1 .. n : d[i] \in T
      /\ \A i, k \in 1 .. n : i < k => d[k] < d[i]
      /\ \A t \in T : \E i \in 1 .. n : d[i] = t
  BY <1>3 DEF IsDecreasing
<1> HIDE DEF d, n, T
<1>5. \A t \in S : F(t) \in S /\ F(t) .. t \subseteq S /\ F(t) - 1 \notin S /\ F(t) <= t
  <2> TAKE t \in S
  <2> DEFINE Z == {f \in S : f .. t \subseteq S /\ f <= t}
  <2>1. t \in Nat
    BY <1>1
  <2>2. t .. t = {t}
    BY <2>1
  <2>a. t <= t /\ t .. t \subseteq S
    BY <2>1, <2>2
  <2>3. Z \subseteq Nat /\ t \in Z
    BY <1>1, <2>a, Zenon
  <2>4. PICK f \in Z : \A k \in Z : f <= k
    BY <2>3, LeastMember, Zenon
  <2>5. f \in S /\ f \in Nat /\ f .. t \subseteq S /\ f <= t
    BY <1>1, <2>4
  <2>6. f - 1 \notin S
    <3> SUFFICES ASSUME f - 1 \in S
                 PROVE  FALSE
      OBVIOUS
    <3>1. \A p \in f - 1 .. t : p = f - 1 \/ p \in f .. t
      BY <2>1, <2>5
    <3>2. f - 1 .. t \subseteq S /\ f - 1 <= t
      BY <2>1, <2>5, <3>1
    <3>3. f - 1 \in Z
      BY <3>2
    <3> QED
      BY <2>4, <2>5, <3>3
  <2>7. \E g \in S : g .. t \subseteq S /\ g - 1 \notin S /\ g <= t
    BY <2>5, <2>6
  <2> QED
    BY <2>7
<1>6. s = [i \in 1 .. n |-> Entry(d[i], d[i] - F(d[i]) + 1)]
  BY <1>4 DEF RangesOf, d, T
<1> DEFINE G == [t \in S |-> F(t)]
<1>7. /\ \A t \in S : G[t] \in S /\ G[t] .. t \subseteq S /\ G[t] - 1 \notin S /\ G[t] <= t
      /\ \A i \in 1 .. n : s[i] = Entry(d[i], d[i] - G[d[i]] + 1)
      /\ s = [i \in 1 .. n |-> Entry(d[i], d[i] - G[d[i]] + 1)]
  BY <1>2, <1>4, <1>5, <1>6
<1> HIDE DEF F, G, s
<1>8. \A i \in 1 .. n : /\ d[i] \in S /\ d[i] + 1 \notin S /\ d[i] \in Nat
                        /\ s[i] \in AckRange /\ s[i].pkt_num = d[i]
                        /\ First(s[i]) = G[d[i]] /\ First(s[i]) \in Nat
                        /\ First(s[i]) .. d[i] \subseteq S /\ First(s[i]) - 1 \notin S
                        /\ First(s[i]) <= d[i]
  <2> TAKE i \in 1 .. n
  <2> DEFINE t == d[i]
             g == G[d[i]]
             l == t - g + 1
  <2>1. t \in S /\ t + 1 \notin S /\ t \in Nat
    BY <1>1, <1>2, <1>4
  <2>2. g \in S /\ g .. t \subseteq S /\ g - 1 \notin S /\ g <= t /\ g \in Nat
    BY <1>1, <1>7, <2>1
  <2>3. s[i] = Entry(t, l)
    BY <1>7
  <2> HIDE DEF t, g
  <2>4. l \in Nat \ {0} /\ t - (l - 1) = g
    BY <2>1, <2>2
  <2> HIDE DEF l
  <2>5. s[i] \in AckRange /\ s[i].pkt_num = t /\ s[i].len = l
    BY <2>1, <2>3, <2>4 DEF Entry, AckRange
  <2>6. First(s[i]) = g
    BY <2>4, <2>5 DEF First
  <2> QED
    BY <2>1, <2>2, <2>5, <2>6 DEF t, g
<1>9. s \in Seq(AckRange) /\ Len(s) = n
  <2>1. s \in [1 .. n -> AckRange]
    BY <1>7, <1>8
  <2> QED
    BY <1>4, <2>1
<1>10. \A i, k \in 1 .. n : i < k => s[k].pkt_num + 1 < First(s[i])
  <2> TAKE i, k \in 1 .. n
  <2> HAVE i < k
  <2>1. d[k] < d[i] /\ d[k] \in Nat /\ d[i] \in Nat /\ d[k] + 1 \notin S
    BY <1>4, <1>8
  <2>2. First(s[i]) \in Nat /\ First(s[i]) .. d[i] \subseteq S /\ s[k].pkt_num = d[k]
    BY <1>8
  <2>3. d[k] + 1 \notin First(s[i]) .. d[i]
    BY <2>1, <2>2
  <2> QED
    BY <2>1, <2>2, <2>3
<1>11. IsRanges(s)
  BY <1>8, <1>9, <1>10 DEF IsRanges
<1>12. ASSUME NEW p \in Cover(s)
       PROVE  p \in S
  <2>1. p \in Int
    BY <1>11, CoverIs
  <2>2. PICK i \in 1 .. n : In(p, s[i])
    BY <1>9, <1>11, <2>1, CoverIs
  <2>3. p \in First(s[i]) .. d[i]
    BY <1>8, <2>1, <2>2 DEF In
  <2> QED
    BY <1>8, <2>3
<1>13. ASSUME NEW p \in S
       PROVE  p \in Cover(s)
  <2> DEFINE Z == {t \in S : p <= t /\ p .. t \subseteq S}
  <2>1. p \in Nat /\ p .. p = {p}
    BY <1>1
  <2>a. p <= p /\ p .. p \subseteq S
    BY <2>1
  <2>2. Z \subseteq 0 .. N /\ p \in Z
    BY <2>a, Zenon
  <2>3. PICK t \in Z : \A k \in Z : k <= t
    BY <2>2, LargestMember, Zenon
  <2>4. t \in S /\ t \in Nat /\ p <= t /\ p .. t \subseteq S
    BY <1>1, <2>3
  <2>5. t + 1 \notin S
    <3> SUFFICES ASSUME t + 1 \in S
                 PROVE  FALSE
      OBVIOUS
    <3>1. \A q \in p .. t + 1 : q = t + 1 \/ q \in p .. t
      BY <2>1, <2>4
    <3>2. p .. t + 1 \subseteq S /\ p <= t + 1
      BY <2>1, <2>4, <3>1
    <3>3. t + 1 \in Z
      BY <3>2
    <3> QED
      BY <2>3, <2>4, <3>3
  <2>6. PICK i \in 1 .. n : d[i] = t
    BY <1>4, <2>4, <2>5 DEF T, Tops
  <2>7. /\ First(s[i]) \in Nat /\ First(s[i]) - 1 \notin S /\ First(s[i]) <= t
        /\ s[i].pkt_num = t
    BY <1>8, <2>6
  <2>8. First(s[i]) - 1 \notin p .. t
    BY <2>4, <2>7
  <2>9. First(s[i]) <= p
    BY <2>1, <2>4, <2>7, <2>8
  <2>10. In(p, s[i])
    BY <2>4, <2>7, <2>9 DEF In
  <2>11. p \in Int
    BY <2>1
  <2> QED
    BY <1>9, <1>11, <2>10, <2>11, CoverIs
<1>14. Cover(s) = S
  BY <1>12, <1>13
<1> QED
  BY <1>11, <1>14 DEF ListOf, s

-----------------------------------------------------------------------------
\* r is s with one range in the place of its ranges a + 1 .. b.
Spliced(s, r, a, b) ==
  /\ a \in 0 .. Len(s) /\ b \in a .. Len(s)
  /\ r \in Seq(AckRange) /\ Len(r) = Len(s) - b + a + 1
  /\ \A k \in 1 .. a : r[k] = s[k]
  /\ \A k \in a + 2 .. Len(r) : r[k] = s[k - a - 1 + b]

\* The range put there is apart from those that stay.
Fits(s, e, a, b) ==
  /\ First(e) \in Nat
  /\ \A k \in 1 .. a : e.pkt_num + 1 < First(s[k])
  /\ \A k \in b + 1 .. Len(s) : s[k].pkt_num + 1 < First(e)

LEMMA SplicedIs ==
  ASSUME NEW s, IsRanges(s), NEW r, NEW a, NEW b, Spliced(s, r, a, b), Fits(s, r[a + 1], a, b)
  PROVE  /\ IsRanges(r)
         /\ \A p \in Int :
              p \in Cover(r) <=> \/ In(p, r[a + 1])
                                 \/ \E k \in (1 .. a) \cup (b + 1 .. Len(s)) : In(p, s[k])
<1> DEFINE n == Len(r)
           m == Len(s)
           e == r[a + 1]
<1>1. /\ m \in Nat /\ a \in Nat /\ b \in Nat /\ a <= b /\ b <= m
      /\ r \in Seq(AckRange) /\ n = m - b + a + 1 /\ n \in Nat
  <2>1. m \in Nat
    BY CoverIs
  <2> QED
    BY <2>1 DEF Spliced
<1>2. \A k \in 1 .. m : First(s[k]) \in Nat /\ s[k].pkt_num \in Nat /\ First(s[k]) <= s[k].pkt_num
  BY CoverIs
<1>3. \A k \in 1 .. a : k \in 1 .. m /\ r[k] = s[k]
  BY <1>1 DEF Spliced
<1>4. \A k \in a + 2 .. n : k - a - 1 + b \in b + 1 .. m /\ r[k] = s[k - a - 1 + b]
  BY <1>1 DEF Spliced
<1>5. \A k \in 1 .. n : k \in 1 .. a \/ k = a + 1 \/ k \in a + 2 .. n
  BY <1>1
<1>6. /\ e \in AckRange /\ First(e) \in Nat /\ e.pkt_num \in Nat
      /\ \A k \in 1 .. a : e.pkt_num + 1 < First(s[k])
      /\ \A k \in b + 1 .. m : k \in 1 .. m /\ s[k].pkt_num + 1 < First(e)
  <2>1. a + 1 \in 1 .. n
    BY <1>1
  <2>2. e \in AckRange
    BY <1>1, <2>1
  <2> QED
    BY <1>1, <2>2 DEF Fits, AckRange
<1>7. \A i, k \in 1 .. m : i < k => s[k].pkt_num + 1 < First(s[i])
  BY DEF IsRanges
<1> HIDE DEF n, m, e
<1>8. \A k \in 1 .. n : First(r[k]) \in Nat
  <2> TAKE k \in 1 .. n
  <2>1. CASE k \in 1 .. a
    BY <1>2, <1>3, <2>1
  <2>2. CASE k = a + 1
    BY <1>6, <2>2 DEF e
  <2>3. CASE k \in a + 2 .. n
    BY <1>2, <1>4, <1>6, <2>3
  <2> QED
    BY <1>5, <2>1, <2>2, <2>3
<1>9. \A i, k \in 1 .. n : i < k => r[k].pkt_num + 1 < First(r[i])
  <2> TAKE i, k \in 1 .. n
  <2> HAVE i < k
  <2>0. i \in Int /\ k \in Int
    OBVIOUS
  <2>1. CASE i \in 1 .. a /\ k \in 1 .. a
    BY <1>3, <1>7, <2>1
  <2>2. CASE i \in 1 .. a /\ k = a + 1
    BY <1>3, <1>6, <2>2 DEF e
  <2>3. CASE i \in 1 .. a /\ k \in a + 2 .. n
    <3> DEFINE j == k - a - 1 + b
    <3>1. j \in b + 1 .. m /\ j \in 1 .. m /\ r[k] = s[j] /\ i \in 1 .. m /\ r[i] = s[i]
      BY <1>3, <1>4, <1>6, <2>3
    <3>2. i < j
      BY <1>1, <2>3
    <3> QED
      BY <1>7, <3>1, <3>2
  <2>4. CASE i = a + 1 /\ k \in a + 2 .. n
    BY <1>4, <1>6, <2>4 DEF e
  <2>5. CASE i \in a + 2 .. n /\ k \in a + 2 .. n
    <3> DEFINE j == k - a - 1 + b
               h == i - a - 1 + b
    <3>1. j \in 1 .. m /\ r[k] = s[j] /\ h \in 1 .. m /\ r[i] = s[h]
      BY <1>4, <1>6, <2>5
    <3>2. h < j
      BY <1>1, <2>0
    <3> QED
      BY <1>7, <3>1, <3>2
  <2>6. \/ i \in 1 .. a /\ k \in 1 .. a
        \/ i \in 1 .. a /\ k = a + 1
        \/ i \in 1 .. a /\ k \in a + 2 .. n
        \/ i = a + 1 /\ k \in a + 2 .. n
        \/ i \in a + 2 .. n /\ k \in a + 2 .. n
    BY <1>1, <2>0
  <2> QED
    BY <2>1, <2>2, <2>3, <2>4, <2>5, <2>6
<1>10. IsRanges(r)
  BY <1>1, <1>8, <1>9 DEF IsRanges, n
<1>11. ASSUME NEW p \in Int
       PROVE  p \in Cover(r) <=> \/ In(p, e)
                                 \/ \E k \in (1 .. a) \cup (b + 1 .. m) : In(p, s[k])
  <2>1. p \in Cover(r) <=> \E k \in 1 .. n : In(p, r[k])
    BY <1>10, CoverIs DEF n
  <2>2. ASSUME NEW k \in 1 .. n, In(p, r[k])
        PROVE  \/ In(p, e)
               \/ \E j \in (1 .. a) \cup (b + 1 .. m) : In(p, s[j])
    <3>1. CASE k \in 1 .. a
      BY <1>3, <2>2, <3>1
    <3>2. CASE k = a + 1
      BY <2>2, <3>2 DEF e
    <3>3. CASE k \in a + 2 .. n
      BY <1>4, <2>2, <3>3
    <3> QED
      BY <1>5, <3>1, <3>2, <3>3
  <2>3. In(p, e) => \E k \in 1 .. n : In(p, r[k])
    <3>1. a + 1 \in 1 .. n
      BY <1>1
    <3> QED
      BY <3>1 DEF e
  <2>4. ASSUME NEW j \in 1 .. a, In(p, s[j])
        PROVE  \E k \in 1 .. n : In(p, r[k])
    <3>1. j \in 1 .. n
      BY <1>1
    <3> QED
      BY <1>3, <2>4, <3>1
  <2>5. ASSUME NEW j \in b + 1 .. m, In(p, s[j])
        PROVE  \E k \in 1 .. n : In(p, r[k])
    <3> DEFINE k == j - b + a + 1
    <3>1. k \in a + 2 .. n /\ k \in 1 .. n /\ k - a - 1 + b = j
      BY <1>1
    <3> QED
      BY <1>4, <2>5, <3>1
  <2> QED
    BY <2>1, <2>2, <2>3, <2>4, <2>5
<1> QED
  BY <1>10, <1>11 DEF e, m

\* Where ngtcp2_acktr_add stops searching.
LEMMA LowerBoundIs ==
  ASSUME NEW s, IsRanges(s), NEW pn \in Int, NEW i, i = LowerBound(s, pn)
  PROVE  /\ i \in 1 .. Len(s) + 1
         /\ \A k \in 1 .. i - 1 : k \in 1 .. Len(s) /\ s[k].pkt_num > pn
         /\ \A k \in i .. Len(s) : k \in 1 .. Len(s) /\ s[k].pkt_num <= pn
<1> DEFINE n == Len(s)
           Z == {k \in 1 .. n + 1 : k <= n => s[k].pkt_num <= pn}
<1>1. /\ n \in Nat
      /\ \A k \in 1 .. n : First(s[k]) \in Nat /\ s[k].pkt_num \in Nat /\ First(s[k]) <= s[k].pkt_num
      /\ \A k, j \in 1 .. n : k < j => s[j].pkt_num + 1 < First(s[k])
  BY CoverIs DEF IsRanges
<1>2. Z \subseteq Nat /\ n + 1 \in Z
  BY <1>1
<1>3. PICK m \in Z : \A k \in Z : m <= k
  BY <1>2, LeastMember, Zenon
<1>4. \A k \in 1 .. m - 1 : s[k].pkt_num > pn
  <2> TAKE k \in 1 .. m - 1
  <2>1. k \in 1 .. n /\ k \in 1 .. n + 1 /\ ~(m <= k)
    BY <1>1, <1>3
  <2>2. ~(s[k].pkt_num <= pn)
    BY <1>1, <1>3, <2>1
  <2>3. s[k].pkt_num \in Int
    BY <1>1, <2>1
  <2> QED
    BY <2>2, <2>3
<1>5. \E j \in 1 .. n + 1 : (j <= n => s[j].pkt_num <= pn) /\ \A k \in 1 .. j - 1 : s[k].pkt_num > pn
  BY <1>3, <1>4
<1>6. /\ i \in 1 .. n + 1 /\ (i <= n => s[i].pkt_num <= pn)
      /\ \A k \in 1 .. i - 1 : s[k].pkt_num > pn
  BY <1>5 DEF LowerBound
<1>7. \A k \in 1 .. i - 1 : k \in 1 .. n
  BY <1>1, <1>6
<1>8. ASSUME NEW k \in i .. n
      PROVE  k \in 1 .. n /\ s[k].pkt_num <= pn
  <2>1. k \in 1 .. n /\ i \in 1 .. n
    BY <1>1, <1>6
  <2>2. CASE k = i
    BY <1>6, <2>1, <2>2
  <2>3. CASE k # i
    <3>1. i < k
      BY <1>1, <1>6, <2>3
    <3>2. s[k].pkt_num + 1 < First(s[i])
      BY <1>1, <2>1, <3>1
    <3>3. First(s[i]) <= s[i].pkt_num /\ s[i].pkt_num \in Nat /\ First(s[i]) \in Nat
          /\ s[k].pkt_num \in Nat /\ s[i].pkt_num <= pn
      BY <1>1, <1>6, <2>1
    <3> QED
      BY <2>1, <3>2, <3>3
  <2> QED
    BY <2>2, <2>3
<1> QED
  BY <1>6, <1>7, <1>8

\* The three ways a list of ranges is changed in one place.
LEMMA InsertAtIs ==
  ASSUME NEW s \in Seq(AckRange), NEW i \in 1 .. Len(s) + 1, NEW e \in AckRange
  PROVE  LET r == InsertAt(s, i, e)
         IN Spliced(s, r, i - 1, i - 1) /\ r[i - 1 + 1] = e
<1> DEFINE n == Len(s)
           r == InsertAt(s, i, e)
           x == SubSeq(s, 1, i - 1)
           y == SubSeq(s, i, n)
           z == x \o <<e>>
<1>1. n \in Nat /\ i \in Nat \ {0} /\ i <= n + 1 /\ \A k \in 1 .. n : s[k] \in AckRange
  BY LenProperties, ElementOfSeq
<1>2. x \in Seq(AckRange) /\ Len(x) = i - 1 /\ \A k \in 1 .. i - 1 : x[k] = s[k]
  <2>1. 1 \in Int /\ i - 1 \in Int /\ \A k \in 1 .. i - 1 : s[k] \in AckRange
    BY <1>1
  <2>2. /\ x \in Seq(AckRange) /\ Len(x) = IF 1 <= i - 1 THEN i - 1 - 1 + 1 ELSE 0
        /\ \A k \in 1 .. i - 1 - 1 + 1 : x[k] = s[1 + k - 1]
    BY <2>1, SubSeqProperties
  <2> QED
    BY <1>1, <2>2
<1>3. y \in Seq(AckRange) /\ Len(y) = n - i + 1 /\ \A k \in 1 .. n - i + 1 : y[k] = s[i + k - 1]
  <2>1. i \in Int /\ n \in Int /\ \A k \in i .. n : s[k] \in AckRange
    BY <1>1
  <2>2. /\ y \in Seq(AckRange) /\ Len(y) = IF i <= n THEN n - i + 1 ELSE 0
        /\ \A k \in 1 .. n - i + 1 : y[k] = s[i + k - 1]
    BY <2>1, SubSeqProperties
  <2> QED
    BY <1>1, <2>2
<1>4. <<e>> \in Seq(AckRange) /\ Len(<<e>>) = 1 /\ <<e>>[1] = e
  OBVIOUS
<1>5. r = z \o y
  BY DEF InsertAt
<1> HIDE DEF n, r, x, y
<1>6. /\ z \in Seq(AckRange) /\ Len(z) = i
      /\ \A k \in 1 .. i : z[k] = IF k <= i - 1 THEN x[k] ELSE e
  <2>1. /\ z \in Seq(AckRange) /\ Len(z) = Len(x) + Len(<<e>>)
        /\ \A k \in 1 .. Len(x) + Len(<<e>>) :
             z[k] = IF k <= Len(x) THEN x[k] ELSE <<e>>[k - Len(x)]
    BY <1>2, <1>4, ConcatProperties
  <2>2. \A k \in 1 .. i : ~(k <= i - 1) => k - (i - 1) = 1
    BY <1>1
  <2> QED
    BY <1>1, <1>2, <1>4, <2>1, <2>2
<1> HIDE DEF z
<1>7. /\ r \in Seq(AckRange) /\ Len(r) = n + 1
      /\ \A k \in 1 .. n + 1 : r[k] = IF k <= i THEN z[k] ELSE y[k - i]
  <2>1. /\ r \in Seq(AckRange) /\ Len(r) = Len(z) + Len(y)
        /\ \A k \in 1 .. Len(z) + Len(y) :
             r[k] = IF k <= Len(z) THEN z[k] ELSE y[k - Len(z)]
    BY <1>3, <1>5, <1>6, ConcatProperties
  <2>2. Len(z) + Len(y) = n + 1
    BY <1>1, <1>3, <1>6
  <2> QED
    BY <1>6, <2>1, <2>2
<1>8. \A k \in 1 .. i - 1 : r[k] = s[k]
  BY <1>1, <1>2, <1>6, <1>7
<1>9. r[i] = e
  BY <1>1, <1>6, <1>7
<1>10. \A k \in i + 1 .. n + 1 : r[k] = s[k - 1]
  <2> TAKE k \in i + 1 .. n + 1
  <2>1. k \in 1 .. n + 1 /\ ~(k <= i) /\ k - i \in 1 .. n - i + 1 /\ i + (k - i) - 1 = k - 1
    BY <1>1
  <2> QED
    BY <1>3, <1>7, <2>1
<1>11. /\ i - 1 \in 0 .. n /\ i - 1 \in i - 1 .. n /\ n - (i - 1) + (i - 1) + 1 = n + 1
       /\ i - 1 + 1 = i /\ i - 1 + 2 = i + 1
       /\ \A k \in Int : k - (i - 1) - 1 + (i - 1) = k - 1
  BY <1>1
<1> QED
  BY <1>7, <1>8, <1>9, <1>10, <1>11 DEF Spliced, n, r

LEMMA ReplaceIs ==
  ASSUME NEW s \in Seq(AckRange), NEW i \in 1 .. Len(s), NEW e \in AckRange
  PROVE  LET r == [s EXCEPT ![i] = e]
         IN Spliced(s, r, i - 1, i) /\ r[i - 1 + 1] = e
<1> DEFINE n == Len(s)
           r == [s EXCEPT ![i] = e]
<1>1. n \in Nat /\ i \in Nat \ {0} /\ i <= n
  BY LenProperties
<1>2. /\ r \in Seq(AckRange) /\ Len(r) = n
      /\ \A j \in 1 .. n : r[j] = IF j = i THEN e ELSE s[j]
  BY ExceptSeq
<1> HIDE DEF n, r
<1>3. r[i] = e /\ (\A k \in 1 .. i - 1 : r[k] = s[k]) /\ \A k \in i + 1 .. n : r[k] = s[k]
  BY <1>1, <1>2
<1>4. /\ i - 1 \in 0 .. n /\ i \in i - 1 .. n /\ n - i + (i - 1) + 1 = n
      /\ i - 1 + 1 = i /\ i - 1 + 2 = i + 1
      /\ \A k \in Int : k - (i - 1) - 1 + i = k
  BY <1>1
<1> QED
  BY <1>2, <1>3, <1>4 DEF Spliced, n, r

LEMMA JoinIs ==
  ASSUME NEW s \in Seq(AckRange), NEW i \in 2 .. Len(s), NEW e \in AckRange
  PROVE  LET r == RemoveAt([s EXCEPT ![i - 1] = e], i)
         IN Spliced(s, r, i - 2, i) /\ r[i - 2 + 1] = e
<1> DEFINE n == Len(s)
           t == [s EXCEPT ![i - 1] = e]
           r == RemoveAt(t, i)
           x == SubSeq(t, 1, i - 1)
           y == SubSeq(t, i + 1, n)
<1>1. n \in Nat /\ i \in Nat \ {0, 1} /\ i <= n
  BY LenProperties
<1>2. /\ t \in Seq(AckRange) /\ Len(t) = n
      /\ \A j \in 1 .. n : t[j] = IF j = i - 1 THEN e ELSE s[j]
  <2>1. i - 1 \in 1 .. n
    BY <1>1
  <2> QED
    BY <2>1, ExceptSeq
<1>3. r = x \o y
  BY <1>2 DEF RemoveAt
<1> HIDE DEF n, t, r
<1>4. x \in Seq(AckRange) /\ Len(x) = i - 1 /\ \A k \in 1 .. i - 1 : x[k] = t[k]
  <2>1. 1 \in Int /\ i - 1 \in Int /\ \A k \in 1 .. i - 1 : t[k] \in AckRange
    BY <1>1, <1>2, ElementOfSeq
  <2>2. /\ x \in Seq(AckRange) /\ Len(x) = IF 1 <= i - 1 THEN i - 1 - 1 + 1 ELSE 0
        /\ \A k \in 1 .. i - 1 - 1 + 1 : x[k] = t[1 + k - 1]
    BY <2>1, SubSeqProperties
  <2> QED
    BY <1>1, <2>2
<1>5. y \in Seq(AckRange) /\ Len(y) = n - i /\ \A k \in 1 .. n - i : y[k] = t[i + k]
  <2>1. i + 1 \in Int /\ n \in Int /\ \A k \in i + 1 .. n : t[k] \in AckRange
    BY <1>1, <1>2, ElementOfSeq
  <2>2. /\ y \in Seq(AckRange) /\ Len(y) = IF i + 1 <= n THEN n - (i + 1) + 1 ELSE 0
        /\ \A k \in 1 .. n - (i + 1) + 1 : y[k] = t[i + 1 + k - 1]
    BY <2>1, SubSeqProperties
  <2> QED
    BY <1>1, <2>2
<1> HIDE DEF x, y
<1>6. /\ r \in Seq(AckRange) /\ Len(r) = n - 1
      /\ \A k \in 1 .. n - 1 : r[k] = IF k <= i - 1 THEN x[k] ELSE y[k - (i - 1)]
  <2>1. /\ r \in Seq(AckRange) /\ Len(r) = Len(x) + Len(y)
        /\ \A k \in 1 .. Len(x) + Len(y) :
             r[k] = IF k <= Len(x) THEN x[k] ELSE y[k - Len(x)]
    BY <1>3, <1>4, <1>5, ConcatProperties
  <2>2. Len(x) + Len(y) = n - 1
    BY <1>1, <1>4, <1>5
  <2> QED
    BY <1>4, <2>1, <2>2
<1>7. \A k \in 1 .. i - 2 : r[k] = s[k]
  BY <1>1, <1>2, <1>4, <1>6
<1>8. r[i - 1] = e
  BY <1>1, <1>2, <1>4, <1>6
<1>9. \A k \in i .. n - 1 : r[k] = s[k + 1]
  <2> TAKE k \in i .. n - 1
  <2>1. /\ k \in 1 .. n - 1 /\ ~(k <= i - 1) /\ k - (i - 1) \in 1 .. n - i
        /\ i + (k - (i - 1)) = k + 1 /\ k + 1 \in 1 .. n /\ k + 1 # i - 1
    BY <1>1
  <2> QED
    BY <1>2, <1>5, <1>6, <2>1
<1>10. /\ i - 2 \in 0 .. n /\ i \in i - 2 .. n /\ n - i + (i - 2) + 1 = n - 1
       /\ i - 2 + 1 = i - 1 /\ i - 2 + 2 = i
       /\ \A k \in Int : k - (i - 2) - 1 + i = k + 1
  BY <1>1
<1>11. /\ \A k \in 1 .. i - 2 : r[k] = s[k]
       /\ \A k \in i - 2 + 2 .. n - 1 : r[k] = s[k - (i - 2) - 1 + i]
  <2>1. \A k \in i - 2 + 2 .. n - 1 : k \in i .. n - 1 /\ k \in Int
    BY <1>1
  <2> QED
    BY <1>7, <1>9, <1>10, <2>1
<1>12. Spliced(s, r, i - 2, i)
  BY <1>6, <1>10, <1>11 DEF Spliced, n
<1> QED
  BY <1>8, <1>10, <1>12 DEF n, t, r

\* What becomes of the list when the number pn, which is in no range, is added:
\* one range takes the place of none, one or two.
LEMMA ExtendSplices ==
  ASSUME NEW s, IsRanges(s), NEW pn \in Nat, pn \notin Cover(s)
  PROVE  /\ RangeAddAsserts(s, pn)
         /\ \E a, b \in Nat :
              LET r == Extend(s, pn)
                  e == r[a + 1]
              IN /\ Spliced(s, r, a, b) /\ Fits(s, e, a, b)
                 /\ \A p \in Int : In(p, e) <=> p = pn \/ \E k \in a + 1 .. b : In(p, s[k])
<1> DEFINE n == Len(s)
           i == LowerBound(s, pn)
           above == i > 1 /\ s[i - 1].pkt_num = pn + s[i - 1].len
           below == i <= n /\ s[i].pkt_num + 1 = pn
           lower == s[i]
           upper == s[i - 1]
           r == Extend(s, pn)
<1>1. /\ n \in Nat /\ s \in Seq(AckRange) /\ DOMAIN s = 1 .. n
      /\ \A k \in 1 .. n : /\ s[k] \in AckRange /\ First(s[k]) \in Nat
                           /\ s[k].pkt_num \in Nat /\ s[k].len \in Nat \ {0}
                           /\ First(s[k]) <= s[k].pkt_num
                           /\ First(s[k]) = s[k].pkt_num - (s[k].len - 1)
      /\ \A k, j \in 1 .. n : k < j => s[j].pkt_num + 1 < First(s[k])
  <2>1. n \in Nat /\ s \in Seq(AckRange)
    BY CoverIs DEF IsRanges
  <2>2. DOMAIN s = 1 .. n
    BY <2>1
  <2>3. \A k \in 1 .. n : /\ s[k] \in AckRange /\ First(s[k]) \in Nat
                          /\ s[k].pkt_num \in Nat /\ s[k].len \in Nat \ {0}
                          /\ First(s[k]) <= s[k].pkt_num
    BY CoverIs
  <2> QED
    BY <2>1, <2>2, <2>3 DEF IsRanges, First
<1>2. /\ i \in 1 .. n + 1
      /\ \A k \in 1 .. i - 1 : k \in 1 .. n /\ s[k].pkt_num > pn
      /\ \A k \in i .. n : k \in 1 .. n /\ s[k].pkt_num <= pn
  BY LowerBoundIs
<1>3. r = CASE above /\ below  -> RemoveAt([s EXCEPT ![i - 1].len = @ + s[i].len + 1], i)
            [] above /\ ~below -> [s EXCEPT ![i - 1].len = @ + 1]
            [] ~above /\ below -> [s EXCEPT ![i] = Entry(pn, @.len + 1)]
            [] OTHER           -> InsertAt(s, i, Entry(pn, 1))
  BY DEF Extend
<1>4. RangeAddAsserts(s, pn) <=> /\ i <= n => s[i].pkt_num # pn
                                 /\ i > 1 => s[i - 1].pkt_num >= pn + s[i - 1].len
  BY DEF RangeAddAsserts
<1> HIDE DEF n, i, r
<1>5. \A k \in 1 .. n : ~In(pn, s[k])
  BY CoverIs DEF n
<1>6. \A k \in 1 .. i - 1 : k \in 1 .. n /\ First(s[k]) > pn
  <2> TAKE k \in 1 .. i - 1
  <2>1. k \in 1 .. n /\ s[k].pkt_num > pn
    BY <1>2
  <2>2. First(s[k]) \in Nat /\ s[k].pkt_num \in Nat /\ ~In(pn, s[k])
    BY <1>1, <1>5, <2>1
  <2> QED
    BY <2>1, <2>2 DEF In
<1>7. \A k \in i .. n : k \in 1 .. n /\ s[k].pkt_num < pn
  <2> TAKE k \in i .. n
  <2>1. k \in 1 .. n /\ s[k].pkt_num <= pn
    BY <1>2
  <2>2. First(s[k]) \in Nat /\ s[k].pkt_num \in Nat /\ First(s[k]) <= s[k].pkt_num /\ ~In(pn, s[k])
    BY <1>1, <1>5, <2>1
  <2> QED
    BY <2>1, <2>2 DEF In
<1>8. i > 1 => /\ i - 1 \in 1 .. n /\ i - 1 \in 1 .. i - 1
               /\ upper \in AckRange /\ upper.pkt_num \in Nat /\ upper.len \in Nat \ {0}
               /\ First(upper) = upper.pkt_num - (upper.len - 1)
               /\ First(upper) \in Nat /\ First(upper) > pn
  BY <1>1, <1>2, <1>6
<1>9. i <= n => /\ i \in 1 .. n
                /\ lower \in AckRange /\ lower.pkt_num \in Nat /\ lower.len \in Nat \ {0}
                /\ First(lower) = lower.pkt_num - (lower.len - 1)
                /\ First(lower) \in Nat /\ lower.pkt_num < pn
  BY <1>1, <1>2, <1>7
\* The ranges that do not touch pn stay apart from it.
<1>10. \A k \in 1 .. i - 1 : k < i - 1 \/ ~above => pn + 1 < First(s[k])
  <2> TAKE k \in 1 .. i - 1
  <2>1. i \in Int /\ i > 1 /\ k \in 1 .. n /\ First(s[k]) \in Nat /\ First(s[k]) > pn
    BY <1>1, <1>2, <1>6
  <2>2. CASE k < i - 1
    <3>1. upper.pkt_num + 1 < First(s[k])
      BY <1>1, <1>8, <2>1, <2>2
    <3>2. First(upper) <= upper.pkt_num
      BY <1>8, <2>1
    <3> QED
      BY <1>8, <2>1, <3>1, <3>2
  <2>3. CASE k = i - 1 /\ ~above
    <3>1. upper.pkt_num # pn + upper.len
      BY <2>1, <2>3
    <3>2. First(upper) # pn + 1
      BY <1>8, <2>1, <3>1
    <3> QED
      BY <1>8, <2>1, <2>3, <3>2
  <2>4. k \in Int /\ k <= i - 1
    BY <2>1
  <2> QED
    BY <2>1, <2>2, <2>3, <2>4
<1>11. \A k \in i .. n : k > i \/ ~below => s[k].pkt_num + 1 < pn
  <2> TAKE k \in i .. n
  <2>1. i \in Int /\ i <= n /\ k \in 1 .. n /\ s[k].pkt_num \in Nat /\ s[k].pkt_num < pn
    BY <1>1, <1>2, <1>7
  <2>2. CASE k > i
    <3>1. s[k].pkt_num + 1 < First(lower)
      BY <1>1, <1>9, <2>1, <2>2
    <3>2. First(lower) <= lower.pkt_num
      BY <1>9, <2>1
    <3> QED
      BY <1>9, <2>1, <3>1, <3>2
  <2>3. CASE k = i /\ ~below
    BY <2>1, <2>3
  <2>4. k \in Int /\ k >= i
    BY <2>1
  <2> QED
    BY <2>1, <2>2, <2>3, <2>4
<1>12. RangeAddAsserts(s, pn)
  <2>1. i <= n => s[i].pkt_num # pn
    BY <1>9
  <2>2. i > 1 => upper.pkt_num >= pn + upper.len
    BY <1>8
  <2> QED
    BY <1>4, <2>1, <2>2
<1>13. CASE ~above /\ ~below
  <2> DEFINE a == i - 1
             e == Entry(pn, 1)
  <2>1. e \in AckRange /\ e.pkt_num = pn /\ First(e) = pn
    BY DEF Entry, AckRange, First
  <2>2. r = InsertAt(s, i, e)
    BY <1>3, <1>13
  <2>3. i \in 1 .. Len(s) + 1
    BY <1>2 DEF n
  <2> HIDE DEF e
  <2>4. Spliced(s, r, a, a) /\ r[a + 1] = e
    BY <1>1, <2>1, <2>2, <2>3, InsertAtIs
  <2>5. a \in Nat /\ a + 1 = i /\ a + 1 .. a = {}
    BY <1>1, <1>2
  <2>6. Fits(s, e, a, a)
    BY <1>10, <1>11, <1>13, <2>1, <2>5 DEF Fits, n
  <2>7. \A p \in Int : In(p, e) <=> p = pn
    BY <2>1 DEF In
  <2> QED
    BY <1>12, <2>4, <2>5, <2>6, <2>7 DEF r
<1>14. CASE ~above /\ below
  <2> DEFINE a == i - 1
             e == Entry(pn, lower.len + 1)
  <2>0. /\ i <= n /\ i \in 1 .. n /\ lower.pkt_num + 1 = pn /\ lower.pkt_num \in Nat
        /\ lower.len \in Nat \ {0} /\ First(lower) \in Nat
        /\ First(lower) = lower.pkt_num - (lower.len - 1)
    BY <1>9, <1>14
  <2>1. e \in AckRange /\ e.pkt_num = pn /\ First(e) = First(lower)
    BY <2>0 DEF Entry, AckRange, First
  <2>2. r = [s EXCEPT ![i] = e]
    BY <1>3, <1>14
  <2>3. i \in 1 .. Len(s)
    BY <2>0 DEF n
  <2> HIDE DEF e
  <2>4. Spliced(s, r, a, i) /\ r[a + 1] = e
    BY <1>1, <2>1, <2>2, <2>3, ReplaceIs
  <2>5. a \in Nat /\ i \in Nat /\ a + 1 = i /\ a + 1 .. i = {i}
    BY <1>1, <1>2
  <2>6. Fits(s, e, a, i)
    <3>1. \A k \in i + 1 .. n : s[k].pkt_num + 1 < First(lower)
      <4> TAKE k \in i + 1 .. n
      <4>1. k \in 1 .. n /\ i < k
        BY <1>1, <2>0
      <4> QED
        BY <1>1, <2>0, <4>1
    <3> QED
      BY <1>10, <1>14, <2>0, <2>1, <2>5, <3>1 DEF Fits, n
  <2>7. \A p \in Int : In(p, e) <=> p = pn \/ In(p, lower)
    <3> TAKE p \in Int
    <3>1. First(lower) <= pn
      BY <2>0
    <3> QED
      BY <2>0, <2>1, <3>1 DEF In
  <2> QED
    BY <1>12, <2>4, <2>5, <2>6, <2>7 DEF r
<1>15. CASE above /\ ~below
  <2> DEFINE a == i - 2
             b == i - 1
             e == [upper EXCEPT !.len = @ + 1]
  <2>0. /\ i > 1 /\ b \in 1 .. n /\ upper.pkt_num = pn + upper.len /\ upper.pkt_num \in Nat
        /\ upper \in AckRange /\ upper.len \in Nat \ {0} /\ First(upper) \in Nat
        /\ First(upper) = upper.pkt_num - (upper.len - 1)
    BY <1>8, <1>15
  <2>1. e \in AckRange /\ e.pkt_num = upper.pkt_num /\ First(e) = pn
    <3>1. e \in AckRange /\ e.pkt_num = upper.pkt_num /\ e.len = upper.len + 1
      BY <2>0 DEF AckRange
    <3> QED
      BY <2>0, <3>1 DEF First
  <2>2. r = [s EXCEPT ![b] = e]
    BY <1>3, <1>15
  <2>3. b \in 1 .. Len(s)
    BY <2>0 DEF n
  <2> HIDE DEF e
  <2>5. a \in Nat /\ b \in Nat /\ a + 1 = b /\ b - 1 = a /\ b + 1 = i /\ a + 1 .. b = {b}
    BY <1>1, <1>2, <2>0
  <2>4. Spliced(s, r, a, b) /\ r[a + 1] = e
    <3> HIDE DEF b
    <3>1. Spliced(s, r, b - 1, b) /\ r[b - 1 + 1] = e
      BY <1>1, <2>1, <2>2, <2>3, ReplaceIs
    <3> QED
      BY <2>5, <3>1
  <2>6. Fits(s, e, a, b)
    <3>1. \A k \in 1 .. a : upper.pkt_num + 1 < First(s[k])
      <4> TAKE k \in 1 .. a
      <4>1. b \in 1 .. n /\ n \in Nat
        BY <1>1, <2>0
      <4>2. k \in 1 .. n /\ k < b
        <5> HIDE DEF a, b, n
        <5> QED
          BY <2>5, <4>1
      <4> QED
        BY <1>1, <2>0, <4>2
    <3>2. \A k \in b + 1 .. n : s[k].pkt_num + 1 < pn
      BY <1>11, <1>15, <2>5
    <3> QED
      BY <2>1, <3>1, <3>2 DEF Fits, n
  <2>7. \A p \in Int : In(p, e) <=> p = pn \/ In(p, upper)
    <3> TAKE p \in Int
    <3>1. First(upper) = pn + 1 /\ pn <= upper.pkt_num
      BY <2>0
    <3> QED
      BY <2>0, <2>1, <3>1 DEF In
  <2> QED
    BY <1>12, <2>4, <2>5, <2>6, <2>7 DEF r
<1>16. CASE above /\ below
  <2> DEFINE a == i - 2
             e == [upper EXCEPT !.len = @ + lower.len + 1]
  <2>0. /\ i > 1 /\ i - 1 \in 1 .. n /\ upper.pkt_num = pn + upper.len /\ upper.pkt_num \in Nat
        /\ upper \in AckRange /\ upper.len \in Nat \ {0} /\ First(upper) \in Nat
        /\ First(upper) = upper.pkt_num - (upper.len - 1)
    BY <1>8, <1>16
  <2>a. /\ i <= n /\ i \in 1 .. n /\ lower.pkt_num + 1 = pn /\ lower.pkt_num \in Nat
        /\ lower.len \in Nat \ {0} /\ First(lower) \in Nat
        /\ First(lower) = lower.pkt_num - (lower.len - 1)
    BY <1>9, <1>16
  <2>1. e \in AckRange /\ e.pkt_num = upper.pkt_num /\ First(e) = First(lower)
    <3>0. upper.len + lower.len + 1 \in Nat \ {0}
      BY <2>0, <2>a
    <3>1. /\ e \in AckRange /\ e.pkt_num = upper.pkt_num
          /\ e.len = upper.len + lower.len + 1
      BY <2>0, <3>0 DEF AckRange
    <3>2. First(e) = e.pkt_num - (e.len - 1)
      BY DEF First
    <3> HIDE DEF e
    <3> QED
      BY <2>0, <2>a, <3>1, <3>2
  <2>2. r = RemoveAt([s EXCEPT ![i - 1] = e], i)
    BY <1>3, <1>16
  <2>3. i \in 2 .. Len(s)
    BY <1>1, <2>0, <2>a DEF n
  <2> HIDE DEF e
  <2>4. Spliced(s, r, a, i) /\ r[a + 1] = e
    BY <1>1, <2>1, <2>2, <2>3, JoinIs
  <2>5. a \in Nat /\ i \in Nat /\ a + 1 = i - 1 /\ a + 1 .. i = {i - 1, i}
    <3>1. n \in Nat /\ i \in 1 .. n + 1 /\ i > 1
      BY <1>1, <1>2, <2>0
    <3>2. i \in Int /\ i >= 2
      <4> HIDE DEF n, i
      <4> QED
        BY <3>1
    <3> HIDE DEF i
    <3> QED
      BY <3>2
  <2>6. Fits(s, e, a, i)
    <3>1. \A k \in 1 .. a : upper.pkt_num + 1 < First(s[k])
      <4> TAKE k \in 1 .. a
      <4>1. i - 1 \in 1 .. n /\ n \in Nat
        BY <1>1, <2>0
      <4>2. k \in 1 .. n /\ k < i - 1
        <5> HIDE DEF a, i, n
        <5> QED
          BY <2>5, <4>1
      <4> QED
        BY <1>1, <2>0, <4>2
    <3>2. \A k \in i + 1 .. n : s[k].pkt_num + 1 < First(lower)
      <4> TAKE k \in i + 1 .. n
      <4>1. k \in 1 .. n /\ i < k
        BY <1>1, <2>a
      <4> QED
        BY <1>1, <2>a, <4>1
    <3> QED
      BY <2>1, <2>a, <3>1, <3>2 DEF Fits, n
  <2>7. \A p \in Int : In(p, e) <=> p = pn \/ In(p, upper) \/ In(p, lower)
    <3> TAKE p \in Int
    <3>1. First(upper) = pn + 1 /\ First(lower) <= pn /\ pn <= upper.pkt_num
      BY <2>0, <2>a
    <3> QED
      BY <2>0, <2>a, <2>1, <3>1 DEF In
  <2> QED
    BY <1>12, <2>4, <2>5, <2>6, <2>7 DEF r
<1> QED
  BY <1>13, <1>14, <1>15, <1>16

\* Adding a number that is in no range leaves a list of ranges, which covers
\* that number and what it covered before, and has at most one range more.
LEMMA ExtendIs ==
  ASSUME NEW s, NEW S, ListOf(s, S), NEW pn \in Nat, pn \notin S
  PROVE  /\ RangeAddAsserts(s, pn)
         /\ ListOf(Extend(s, pn), S \cup {pn})
         /\ Len(s) \in Nat /\ Len(Extend(s, pn)) \in Nat
         /\ Len(Extend(s, pn)) <= Len(s) + 1
<1> DEFINE r == Extend(s, pn)
<1>1. IsRanges(s) /\ Cover(s) = S /\ pn \notin Cover(s)
  BY DEF ListOf
<1>2. RangeAddAsserts(s, pn)
  BY <1>1, ExtendSplices
<1>3. PICK a \in Nat, b \in Nat :
        /\ Spliced(s, r, a, b) /\ Fits(s, r[a + 1], a, b)
        /\ \A p \in Int : In(p, r[a + 1]) <=> p = pn \/ \E k \in a + 1 .. b : In(p, s[k])
  BY <1>1, ExtendSplices
<1> HIDE DEF r
<1>4. /\ IsRanges(r)
      /\ \A p \in Int :
           p \in Cover(r) <=> \/ In(p, r[a + 1])
                              \/ \E k \in (1 .. a) \cup (b + 1 .. Len(s)) : In(p, s[k])
  BY <1>1, <1>3, SplicedIs
<1>5. /\ S \subseteq Nat /\ Len(s) \in Nat
      /\ \A p \in Int : p \in S <=> \E i \in 1 .. Len(s) : In(p, s[i])
  BY <1>1, CoverIs
<1>6. Cover(r) \subseteq Nat /\ Len(r) \in Nat
  BY <1>4, CoverIs
<1>7. a \in 0 .. Len(s) /\ b \in a .. Len(s) /\ Len(r) = Len(s) - b + a + 1
  BY <1>3 DEF Spliced
<1>8. \A k : k \in 1 .. Len(s) <=> k \in a + 1 .. b \/ k \in (1 .. a) \cup (b + 1 .. Len(s))
  BY <1>5, <1>7
<1>9. \A p \in Int : p \in Cover(r) <=> p = pn \/ p \in S
  BY <1>3, <1>4, <1>5, <1>8
<1>10. Cover(r) = S \cup {pn}
  <2>1. \A p \in Nat : p \in Int
    OBVIOUS
  <2> QED
    BY <1>5, <1>6, <1>9, <2>1
<1>11. Len(r) <= Len(s) + 1
  BY <1>5, <1>7
<1> QED
  BY <1>2, <1>4, <1>5, <1>6, <1>10, <1>11 DEF ListOf, r

\* All the ranges but the last, and all of them, as prefixes.
LEMMA FrontIs ==
  ASSUME NEW r \in Seq(AckRange), Len(r) > 0
  PROVE  Front(r) = SubSeq(r, 1, Len(r) - 1)
BY DEF Front

LEMMA WholeIs ==
  ASSUME NEW r \in Seq(AckRange)
  PROVE  SubSeq(r, 1, Len(r)) = r
<1>1. Len(r) \in Nat /\ \A k \in 1 .. Len(r) : r[k] \in AckRange
  BY ElementOfSeq
<1> QED
  BY <1>1, SubSeqProperties, SeqEqual

\* ngtcp2_acktr_add on the list is AcktrAdd on the set it stands for.
THEOREM RangeAddIs ==
  ASSUME NEW s, NEW S, ListOf(s, S), Len(s) <= MaxEnt, NEW pn \in Nat, pn \notin S
  PROVE  /\ RangeAddAsserts(s, pn)
         /\ ListOf(RangeAdd(s, pn), AcktrAdd(S, pn))
         /\ Len(RangeAdd(s, pn)) \in Nat /\ Len(RangeAdd(s, pn)) <= MaxEnt
<1> DEFINE r == Extend(s, pn)
           X == S \cup {pn}
           n == Len(r)
<1>1. /\ RangeAddAsserts(s, pn) /\ ListOf(r, X)
      /\ Len(s) \in Nat /\ n \in Nat /\ n <= Len(s) + 1
  BY ExtendIs
<1>2. r \in Seq(AckRange) /\ MaxEnt \in Nat \ {0}
  BY <1>1, BoundsAssumption DEF ListOf, IsRanges
<1>3. RangeAdd(s, pn) = IF n > MaxEnt THEN Front(r) ELSE r
  BY DEF RangeAdd
<1>4. AcktrAdd(S, pn) = NewestRanges(X, MaxEnt)
  BY DEF AcktrAdd
<1> HIDE DEF r, X
<1>5. CASE n > MaxEnt
  <2>1. n - 1 = MaxEnt /\ n - 1 \in 0 .. n /\ n > 0 /\ MaxEnt \in Nat /\ MaxEnt \in 0 .. n
    BY <1>1, <1>2, <1>5
  <2>2. Front(r) = SubSeq(r, 1, MaxEnt)
    BY <1>2, <2>1, FrontIs
  <2>3. ListOf(SubSeq(r, 1, MaxEnt), NewestRanges(X, MaxEnt)) /\ Len(SubSeq(r, 1, MaxEnt)) = MaxEnt
    BY <1>1, <2>1, PrefixIs
  <2> QED
    BY <1>1, <1>2, <1>3, <1>4, <1>5, <2>2, <2>3
<1>6. CASE ~(n > MaxEnt)
  <2>1. n <= MaxEnt /\ n \in 0 .. n /\ MaxEnt \in Nat
    BY <1>1, <1>2, <1>6
  <2>2. SubSeq(r, 1, n) = r
    BY <1>2, WholeIs
  <2>3. ListOf(SubSeq(r, 1, n), NewestRanges(X, MaxEnt))
    BY <1>1, <2>1, PrefixIs
  <2> QED
    BY <1>1, <1>3, <1>4, <1>6, <2>1, <2>2, <2>3
<1> QED
  BY <1>5, <1>6

-----------------------------------------------------------------------------
\* The tracker never holds more than NGTCP2_ACKTR_MAX_ENT ranges.
FewRanges == Cardinality(Tops(ents)) <= MaxEnt

\* Keeping the newest n ranges leaves no more than n, and no more than there were.
LEMMA NewestCount ==
  ASSUME NEW N \in Nat, NEW S, S \subseteq 0 .. N, NEW n \in Nat
  PROVE  LET R == NewestRanges(S, n)
         IN /\ Cardinality(Tops(R)) \in Nat /\ Cardinality(Tops(S)) \in Nat
            /\ Cardinality(Tops(R)) <= n /\ Cardinality(Tops(R)) <= Cardinality(Tops(S))
<1> DEFINE s == RangesOf(S)
           R == NewestRanges(S, n)
           m == IF Len(s) <= n THEN Len(s) ELSE n
           r == SubSeq(s, 1, m)
<1>1. ListOf(s, S)
  BY RangesOfIs
<1>2. Len(s) \in Nat /\ Cardinality(Tops(S)) = Len(s)
  BY <1>1, TopsIs, CoverIs DEF ListOf
<1>3. /\ m \in 0 .. Len(s) /\ (m = n \/ (m = Len(s) /\ m <= n))
      /\ m \in Nat /\ m <= n /\ m <= Len(s)
  BY <1>2
<1> HIDE DEF m, s
<1>4. ListOf(r, R) /\ Len(r) = m
  BY <1>1, <1>3, PrefixIs
<1> HIDE DEF r, R
<1>5. Cardinality(Tops(R)) = m
  BY <1>4, TopsIs
<1> QED
  BY <1>2, <1>3, <1>5 DEF R

LEMMA NextFewRanges ==
  ASSUME IInv, FewRanges, [Next]_vars
  PROVE  FewRanges'
<1>1. ents \subseteq 0 .. MaxRxPkt /\ MaxRxPkt \in Nat /\ MaxEnt \in Nat /\ MaxAckBlks \in Nat
  BY BoundsAssumption DEF IInv, TypeOK, RxPkt
<1>2. ASSUME NEW n \in Nat
      PROVE  Cardinality(Tops(NewestRanges(ents, n))) <= MaxEnt
  <2> DEFINE c == Cardinality(Tops(NewestRanges(ents, n)))
             d == Cardinality(Tops(ents))
  <2>1. c \in Nat /\ d \in Nat /\ c <= d
    BY <1>1, <1>2, NewestCount
  <2>2. d <= MaxEnt
    BY DEF FewRanges
  <2> HIDE DEF c, d
  <2>3. c <= MaxEnt
    BY <1>1, <2>1, <2>2
  <2> QED
    BY <2>3 DEF c
<1>3. ASSUME NEW pn \in RxPkt, NEW e \in BOOLEAN, NEW A \in SUBSET TxPkt, RecvPkt(pn, e, A)
      PROVE  FewRanges'
  <2> DEFINE X == EntsAfterAck(A) \cup {pn}
  <2>1. X \subseteq 0 .. MaxRxPkt
    BY <1>1 DEF EntsAfterAck, RxPkt
  <2>2. ents' = NewestRanges(X, MaxEnt)
    BY <1>3 DEF RecvPkt, AcktrAdd
  <2> HIDE DEF X
  <2>3. Cardinality(Tops(NewestRanges(X, MaxEnt))) <= MaxEnt
    BY <1>1, <2>1, NewestCount
  <2> QED
    BY <2>2, <2>3 DEF FewRanges
<1>4. CASE SendAck \/ SendAckNoBuf
  <2>1. ents' = NewestRanges(ents, IF max_pkt_num \in ents THEN MaxAckBlks + 1 ELSE MaxAckBlks)
    BY <1>4 DEF SendAck, SendAckNoBuf, Reported
  <2>2. (IF max_pkt_num \in ents THEN MaxAckBlks + 1 ELSE MaxAckBlks) \in Nat
    BY <1>1
  <2> QED
    BY <1>2, <2>1, <2>2 DEF FewRanges
<1>5. CASE AbortOnGap \/ SendPkt \/ UNCHANGED vars
  BY <1>5 DEF AbortOnGap, SendPkt, vars, FewRanges
<1> QED
  BY <1>3, <1>4, <1>5 DEF Next

\* acktr->ents is never over its limit, so ngtcp2_acktr_add has at most one
\* range to drop.
THEOREM RangesAreFew == Spec => []FewRanges
<1>1. Init => FewRanges
  <2> SUFFICES ASSUME Init
               PROVE  FewRanges
    OBVIOUS
  <2>1. Tops(ents) = {}
    BY DEF Init, Tops
  <2>2. Cardinality({}) = 0
    BY FS_EmptySet
  <2> QED
    BY <2>1, <2>2, BoundsAssumption DEF FewRanges
<1>2. IInv /\ FewRanges /\ [Next]_vars => FewRanges'
  BY NextFewRanges
<1> QED
  BY <1>1, <1>2, Invariance, PTL DEF Spec

\* In every reachable state and for every packet the duplicate check lets
\* through, ngtcp2_acktr_add does on the list what AckTracker says of the set.
THEOREM RangeAddIsRight == Spec => []RangeAddAgrees
<1>1. IInv /\ FewRanges => RangeAddAgrees
  <2> SUFFICES ASSUME IInv, FewRanges, NEW pn \in RxPkt \ seen
               PROVE  LET s == RangesOf(ents)
                      IN /\ RangeAddAsserts(s, pn)
                         /\ Cover(RangeAdd(s, pn)) = AcktrAdd(ents, pn)
                         /\ Maximal(RangeAdd(s, pn))
    BY DEF RangeAddAgrees
  <2> DEFINE s == RangesOf(ents)
             r == RangeAdd(s, pn)
  <2>1. /\ ents \subseteq 0 .. MaxRxPkt /\ MaxRxPkt \in Nat
        /\ pn \in Nat /\ pn \notin ents
    BY BoundsAssumption DEF IInv, TypeOK, KnownWasReceived, RxPkt
  <2>2. ListOf(s, ents)
    BY <2>1, RangesOfIs
  <2>3. Len(s) <= MaxEnt
    BY <2>2, TopsIs DEF FewRanges
  <2> HIDE DEF s
  <2>4. RangeAddAsserts(s, pn) /\ ListOf(r, AcktrAdd(ents, pn)) /\ Len(r) \in Nat
    BY <2>1, <2>2, <2>3, RangeAddIs
  <2> HIDE DEF r
  <2>5. Maximal(r)
    <3> SUFFICES ASSUME NEW i \in 1 .. Len(r) - 1
                 PROVE  First(r[i]) > r[i + 1].pkt_num + 1
      BY DEF Maximal
    <3>1. i \in 1 .. Len(r) /\ i + 1 \in 1 .. Len(r) /\ i < i + 1
      BY <2>4
    <3>2. IsRanges(r)
      BY <2>4 DEF ListOf
    <3>3. r[i + 1].pkt_num + 1 < First(r[i])
      BY <3>1, <3>2 DEF IsRanges
    <3> QED
      BY <3>3
  <2> QED
    BY <2>4, <2>5 DEF ListOf, s, r
<1> QED
  BY <1>1, Invariance, RangesAreFew, PTL

-----------------------------------------------------------------------------
\* acktr_on_ack on the list forgets the numbers up to largest_ack, and only those:
\* the ranges before the lower bound stay, the last of them cut if it straddles it.
THEOREM RangeOnAckIs ==
  ASSUME NEW s, NEW S, ListOf(s, S), NEW largest_ack \in Nat
  PROVE  ListOf(RangeOnAck(s, largest_ack), {p \in S : p > largest_ack})
<1> DEFINE i == LowerBound(s, largest_ack)
           N == Len(s)
           n == i - 1
           kept == SubSeq(s, 1, n)
           r == RangeOnAck(s, largest_ack)
           cut == [kept EXCEPT ![n].len = kept[n].pkt_num - largest_ack]
<1>1. /\ IsRanges(s) /\ Cover(s) = S /\ s \in Seq(AckRange) /\ N \in Nat /\ S \subseteq Nat
      /\ \A k \in 1 .. N : /\ s[k] \in AckRange /\ First(s[k]) \in Nat
                           /\ s[k].pkt_num \in Nat /\ s[k].len \in Nat \ {0}
                           /\ First(s[k]) <= s[k].pkt_num
      /\ \A p \in Int : p \in S <=> \E k \in 1 .. N : In(p, s[k])
  BY CoverIs DEF ListOf, IsRanges
<1>2. /\ i \in 1 .. N + 1
      /\ \A k \in 1 .. i - 1 : k \in 1 .. N /\ s[k].pkt_num > largest_ack
      /\ \A k \in i .. N : k \in 1 .. N /\ s[k].pkt_num <= largest_ack
  <2>1. largest_ack \in Int
    OBVIOUS
  <2> QED
    BY <1>1, <2>1, LowerBoundIs
<1>3. \A k, j \in 1 .. N : k < j => s[j].pkt_num + 1 < First(s[k])
  BY <1>1 DEF IsRanges
<1> HIDE DEF i, N
<1>4. n \in 0 .. N /\ n \in Nat /\ n + 1 = i /\ n - 1 + 1 = n
  BY <1>1, <1>2
<1>5. /\ kept \in Seq(AckRange) /\ Len(kept) = n
      /\ \A k \in 1 .. n : k \in 1 .. N /\ kept[k] = s[k]
  <2>1. 1 \in Int /\ n \in Int /\ \A k \in 1 .. n : k \in 1 .. N
    BY <1>1, <1>4
  <2>2. /\ kept \in Seq(AckRange) /\ Len(kept) = IF 1 <= n THEN n - 1 + 1 ELSE 0
        /\ \A k \in 1 .. n - 1 + 1 : kept[k] = s[1 + k - 1]
    BY <1>1, <2>1, SubSeqProperties
  <2>3. \A k \in 1 .. n : 1 + k - 1 = k
    OBVIOUS
  <2> HIDE DEF kept, n
  <2> QED
    BY <1>4, <2>1, <2>2, <2>3
<1>6. r = IF n > 0 /\ largest_ack >= First(kept[n]) THEN cut ELSE kept
  BY <1>5 DEF RangeOnAck, i
<1>7. \A k \in 1 .. n : s[k].pkt_num > largest_ack /\ (k < n => First(s[k]) > largest_ack)
  <2> TAKE k \in 1 .. n
  <2>1. k \in 1 .. N /\ s[k].pkt_num > largest_ack
    BY <1>2, <1>5
  <2>2. ASSUME k < n PROVE First(s[k]) > largest_ack
    <3>1. n \in 1 .. n /\ n \in 1 .. N
      BY <1>4, <2>2
    <3>2. s[n].pkt_num > largest_ack /\ s[n].pkt_num \in Nat /\ First(s[k]) \in Nat
      BY <1>1, <1>2, <2>1, <3>1
    <3>3. s[n].pkt_num + 1 < First(s[k])
      BY <1>3, <2>1, <2>2, <3>1
    <3> QED
      BY <3>2, <3>3
  <2> QED
    BY <2>1, <2>2
<1> HIDE DEF kept, n, r, cut
\* Every range of r is the one of s with the numbers up to largest_ack taken away.
<1> DEFINE Trims(q, k) == /\ q \in AckRange /\ q.pkt_num = s[k].pkt_num
                          /\ First(q) \in Nat /\ First(s[k]) <= First(q)
                          /\ \A p \in Int : In(p, q) <=> In(p, s[k]) /\ p > largest_ack
<1>8. \A k \in 1 .. n : First(s[k]) > largest_ack => Trims(s[k], k)
  BY <1>1, <1>5 DEF In
<1>9. r \in Seq(AckRange) /\ Len(r) = n /\ \A k \in 1 .. n : Trims(r[k], k)
  <2>1. CASE n > 0 /\ largest_ack >= First(kept[n])
    <3> DEFINE e == [s[n] EXCEPT !.len = s[n].pkt_num - largest_ack]
    <3>1. n \in 1 .. n /\ n \in 1 .. N /\ kept[n] = s[n]
      BY <1>4, <1>5, <2>1
    <3>2. /\ s[n] \in AckRange /\ First(s[n]) \in Nat /\ s[n].pkt_num \in Nat
          /\ s[n].pkt_num > largest_ack /\ First(s[n]) <= largest_ack
      BY <1>1, <1>7, <2>1, <3>1
    <3>3. e \in AckRange /\ e.pkt_num = s[n].pkt_num /\ e.len = s[n].pkt_num - largest_ack
      BY <3>2 DEF AckRange
    <3>4. First(e) = largest_ack + 1
      BY <3>2, <3>3 DEF First
    <3> HIDE DEF e
    <3>5. Trims(e, n)
      BY <3>2, <3>3, <3>4 DEF In
    <3>6. r = [kept EXCEPT ![n] = e]
      BY <1>6, <2>1, <3>1 DEF cut, e
    <3>7. r \in Seq(AckRange) /\ Len(r) = n /\ \A k \in 1 .. n : r[k] = IF k = n THEN e ELSE kept[k]
      BY <1>5, <3>1, <3>3, <3>6, ExceptSeq
    <3>8. \A k \in 1 .. n : k = n \/ k < n
      BY <1>4
    <3> HIDE DEF Trims
    <3> QED
      BY <1>5, <1>7, <1>8, <3>5, <3>7, <3>8
  <2>2. CASE ~(n > 0 /\ largest_ack >= First(kept[n]))
    <3>1. \A k \in 1 .. n : First(s[k]) > largest_ack
      <4> TAKE k \in 1 .. n
      <4>1. k < n \/ (k = n /\ n > 0)
        BY <1>4
      <4>2. First(s[k]) \in Nat /\ kept[k] = s[k]
        BY <1>1, <1>5
      <4> QED
        BY <1>7, <2>2, <4>1, <4>2
    <3> HIDE DEF Trims
    <3> QED
      BY <1>5, <1>6, <1>8, <2>2, <3>1
  <2> QED
    BY <2>1, <2>2
<1>10. IsRanges(r)
  <2>1. ASSUME NEW k \in 1 .. n, NEW j \in 1 .. n, k < j
        PROVE  r[j].pkt_num + 1 < First(r[k])
    <3>1. r[j].pkt_num = s[j].pkt_num /\ First(s[k]) <= First(r[k]) /\ First(r[k]) \in Nat
      BY <1>9
    <3>2. s[j].pkt_num \in Nat /\ First(s[k]) \in Nat /\ s[j].pkt_num + 1 < First(s[k])
      BY <1>1, <1>3, <1>5, <2>1
    <3> QED
      BY <3>1, <3>2
  <2>2. \A k \in 1 .. n : First(r[k]) \in Nat
    BY <1>9
  <2> QED
    BY <1>9, <2>1, <2>2 DEF IsRanges
<1>11. \A p \in Int : p \in Cover(r) <=> p \in S /\ p > largest_ack
  <2> TAKE p \in Int
  <2>1. p \in Cover(r) <=> \E k \in 1 .. n : In(p, s[k]) /\ p > largest_ack
    <3>1. p \in Cover(r) <=> \E k \in 1 .. n : In(p, r[k])
      BY <1>9, <1>10, CoverIs
    <3> QED
      BY <1>9, <3>1
  <2>2. ASSUME NEW k \in 1 .. N, In(p, s[k]), p > largest_ack
        PROVE  k \in 1 .. n
    <3>1. p <= s[k].pkt_num /\ s[k].pkt_num \in Nat
      BY <1>1, <2>2 DEF In
    <3>2. ~(s[k].pkt_num <= largest_ack)
      BY <2>2, <3>1
    <3>3. k \notin i .. N
      BY <1>2, <3>2
    <3> QED
      BY <1>1, <1>4, <3>3
  <2> QED
    BY <1>1, <1>5, <2>1, <2>2
<1>12. Cover(r) = {p \in S : p > largest_ack}
  <2>1. Cover(r) \subseteq Nat
    BY <1>10, CoverIs
  <2>2. \A p \in Nat : p \in Int
    OBVIOUS
  <2> QED
    BY <1>1, <1>11, <2>1, <2>2
<1> QED
  BY <1>10, <1>12 DEF ListOf, r

-----------------------------------------------------------------------------
\* The frame fr says what the list t says: its ends in the first two fields, and
\* how far each range lies below the one before in the blocks.
Writes(fr, t) ==
  /\ IsRanges(t) /\ Len(t) \in Nat \ {0}
  /\ fr.largest_ack = t[1].pkt_num /\ fr.first_ack_blklen = t[1].len - 1
  /\ Len(fr.blks) = Len(t) - 1
  /\ \A i \in 1 .. Len(t) - 1 : /\ fr.blks[i].gap = First(t[i]) - t[i + 1].pkt_num - 2
                                /\ fr.blks[i].blklen = t[i + 1].len - 1

\* A reader of the frame finds the ranges of the list again, one by one.
LEMMA FrameRangesIs ==
  ASSUME NEW fr, NEW t, Writes(fr, t)
  PROVE  FrameRanges(fr) = [i \in 1 .. Len(t) |-> [max |-> t[i].pkt_num, min |-> First(t[i])]]
<1> DEFINE n == Len(t)
           L == Len(fr.blks)
           W(h) == [i \in 0 .. L |->
                      IF i = 0
                      THEN [max |-> fr.largest_ack, min |-> fr.largest_ack - fr.first_ack_blklen]
                      ELSE LET top == h[i - 1].min - fr.blks[i].gap - 2
                           IN [max |-> top, min |-> top - fr.blks[i].blklen]]
           g == [i \in 0 .. L |-> [max |-> t[i + 1].pkt_num, min |-> First(t[i + 1])]]
           walk == CHOOSE h : h = W(h)
<1>1. /\ n \in Nat \ {0} /\ L = n - 1 /\ L \in Nat /\ L + 1 = n
      /\ fr.largest_ack = t[1].pkt_num /\ fr.first_ack_blklen = t[1].len - 1
      /\ \A i \in 1 .. L : /\ fr.blks[i].gap = First(t[i]) - t[i + 1].pkt_num - 2
                           /\ fr.blks[i].blklen = t[i + 1].len - 1
  <2>1. n \in Nat \ {0} /\ L = n - 1
    BY DEF Writes
  <2>2. L \in Nat /\ L + 1 = n
    <3> HIDE DEF n, L
    <3> QED
      BY <2>1
  <2> QED
    BY <2>1, <2>2 DEF Writes
<1>2. \A k \in 1 .. n : /\ First(t[k]) \in Nat /\ t[k].pkt_num \in Nat /\ t[k].len \in Nat
                        /\ First(t[k]) = t[k].pkt_num - (t[k].len - 1)
  BY CoverIs DEF Writes, First
<1>3. FrameRanges(fr) = [i \in 1 .. L + 1 |-> walk[i - 1]]
  BY DEF FrameRanges
<1> HIDE DEF n, L
<1>4. /\ g[0] = [max |-> fr.largest_ack, min |-> fr.largest_ack - fr.first_ack_blklen]
      /\ \A i \in 1 .. L :
           LET top == g[i - 1].min - fr.blks[i].gap - 2
           IN g[i] = [max |-> top, min |-> top - fr.blks[i].blklen]
  <2>1. g[0] = [max |-> fr.largest_ack, min |-> fr.largest_ack - fr.first_ack_blklen]
    <3>1. 0 \in 0 .. L /\ 1 \in 1 .. n /\ 0 + 1 = 1
      BY <1>1
    <3>2. g[0] = [max |-> t[1].pkt_num, min |-> First(t[1])]
      BY <3>1
    <3>3. First(t[1]) = fr.largest_ack - fr.first_ack_blklen
      BY <1>1, <1>2, <3>1
    <3> QED
      BY <1>1, <3>2, <3>3
  <2>2. ASSUME NEW i \in 1 .. L
        PROVE  LET top == g[i - 1].min - fr.blks[i].gap - 2
               IN g[i] = [max |-> top, min |-> top - fr.blks[i].blklen]
    <3>1. i - 1 \in 0 .. L /\ i \in 0 .. L /\ i - 1 + 1 = i /\ i \in 1 .. n /\ i + 1 \in 1 .. n
      BY <1>1
    <3>2. g[i - 1].min = First(t[i]) /\ g[i] = [max |-> t[i + 1].pkt_num, min |-> First(t[i + 1])]
      BY <3>1
    <3> HIDE DEF g
    <3>3. g[i - 1].min - fr.blks[i].gap - 2 = t[i + 1].pkt_num
      BY <1>1, <1>2, <3>1, <3>2
    <3>4. t[i + 1].pkt_num - fr.blks[i].blklen = First(t[i + 1])
      BY <1>1, <1>2, <3>1
    <3> QED
      BY <3>2, <3>3, <3>4
  <2> QED
    BY <2>1, <2>2
<1>5. DOMAIN g = 0 .. L /\ g = [i \in 0 .. L |-> g[i]]
  OBVIOUS
<1> HIDE DEF g
<1>6. g = W(g)
  <2>1. \A i \in 0 .. L : i = 0 \/ i \in 1 .. L
    BY <1>1
  <2>2. \A i \in 0 .. L : g[i] = W(g)[i]
    BY <1>4, <2>1
  <2>3. W(g) = [i \in 0 .. L |-> W(g)[i]]
    OBVIOUS
  <2> HIDE DEF W
  <2> QED
    BY <1>5, <2>2, <2>3
<1>7. walk = W(walk)
  BY <1>6
<1> HIDE DEF walk
<1>8. /\ walk[0] = [max |-> fr.largest_ack, min |-> fr.largest_ack - fr.first_ack_blklen]
      /\ \A i \in 1 .. L :
           LET top == walk[i - 1].min - fr.blks[i].gap - 2
           IN walk[i] = [max |-> top, min |-> top - fr.blks[i].blklen]
  <2>1. 0 \in 0 .. L /\ \A i \in 1 .. L : i \in 0 .. L /\ i # 0
    BY <1>1
  <2>2. \A i \in 0 .. L : walk[i] = W(walk)[i]
    BY <1>7, Zenon
  <2> QED
    BY <2>1, <2>2
<1>9. \A i \in 0 .. L : walk[i] = g[i]
  <2> DEFINE S == {i \in 0 .. L : walk[i] # g[i]}
  <2> SUFFICES ASSUME S # {}
               PROVE  FALSE
    OBVIOUS
  <2>1. S \subseteq Nat
    OBVIOUS
  <2>2. PICK m \in S : \A k \in S : m <= k
    BY <2>1, LeastMember, Zenon
  <2>3. m \in 1 .. L
    BY <1>1, <1>4, <1>8, <2>2
  <2>4. m - 1 \in 0 .. L /\ ~(m <= m - 1)
    BY <1>1, <2>3
  <2>5. walk[m - 1] = g[m - 1]
    BY <2>2, <2>4
  <2>6. walk[m] = g[m]
    BY <1>4, <1>8, <2>3, <2>5
  <2> QED
    BY <2>2, <2>6
<1>10. \A i \in 1 .. n : walk[i - 1] = [max |-> t[i].pkt_num, min |-> First(t[i])]
  <2> TAKE i \in 1 .. n
  <2>1. i - 1 \in 0 .. L /\ i - 1 + 1 = i
    BY <1>1
  <2>2. g[i - 1] = [max |-> t[i].pkt_num, min |-> First(t[i])]
    BY <2>1 DEF g
  <2> QED
    BY <1>9, <2>1, <2>2
<1> QED
  BY <1>1, <1>3, <1>10 DEF n

\* Such a frame passes ngtcp2_pkt_validate_ack and acknowledges what the list covers.
THEOREM FrameReadsBack ==
  ASSUME NEW fr, NEW t, Writes(fr, t)
  PROVE  ValidateAck(fr) /\ FrameCover(fr) = Cover(t)
<1> DEFINE R == FrameRanges(fr)
           n == Len(t)
<1>1. R = [i \in 1 .. n |-> [max |-> t[i].pkt_num, min |-> First(t[i])]]
  BY FrameRangesIs
<1>2. \A k \in 1 .. n : First(t[k]) \in Nat
  BY CoverIs DEF Writes
<1>3. t \in Seq(AckRange) /\ DOMAIN t = 1 .. n
  BY DEF Writes, IsRanges
<1> HIDE DEF R, n
<1>4. DOMAIN R = 1 .. n /\ \A i \in 1 .. n : R[i].max = t[i].pkt_num /\ R[i].min = First(t[i])
  BY <1>1
<1>5. ValidateAck(fr)
  BY <1>2, <1>4 DEF ValidateAck, R
<1>6. FrameCover(fr) = UNION {r.min .. r.max : r \in {R[i] : i \in DOMAIN R}}
  BY DEF FrameCover, R
<1>7. \A p : p \in FrameCover(fr) <=> \E i \in 1 .. n : p \in R[i].min .. R[i].max
  BY <1>4, <1>6, Zenon
<1>8. \A p : p \in Cover(t) <=> \E i \in 1 .. n : p \in First(t[i]) .. t[i].pkt_num
  BY <1>3, Zenon DEF Cover
<1> QED
  BY <1>4, <1>5, <1>7, <1>8

-----------------------------------------------------------------------------
\* The modulus leaves small values alone, and turns -1 into the largest value.
LEMMA ModSmall ==
  ASSUME NEW W \in Nat \ {0}, NEW x \in 0 .. W - 1
  PROVE  x % W = x
OBVIOUS

LEMMA ModMinusOne ==
  ASSUME NEW W \in Nat \ {0}, NEW x \in Int, x = -1
  PROVE  x % W = W - 1
OBVIOUS

\* The list of a nonempty set begins with its largest number.
LEMMA FirstIsLargest ==
  ASSUME NEW s, NEW S, ListOf(s, S), S # {}
  PROVE  /\ Len(s) \in Nat \ {0} /\ s # <<>>
         /\ s[1].pkt_num \in S /\ s[1].pkt_num \in Nat
         /\ \A p \in S : p <= s[1].pkt_num
<1>1. /\ IsRanges(s) /\ s \in Seq(AckRange) /\ Len(s) \in Nat /\ S \subseteq Nat
      /\ \A k \in 1 .. Len(s) : /\ First(s[k]) \in Nat /\ s[k].pkt_num \in Nat
                                /\ First(s[k]) <= s[k].pkt_num
      /\ \A p \in Int : p \in S <=> \E k \in 1 .. Len(s) : In(p, s[k])
  BY CoverIs DEF ListOf, IsRanges
<1>2. \A p \in S : p \in Int /\ \E k \in 1 .. Len(s) : In(p, s[k])
  <2>1. \A p \in S : p \in Int
    BY <1>1
  <2> QED
    BY <1>1, <2>1
<1>3. Len(s) \in Nat \ {0} /\ 1 \in 1 .. Len(s)
  <2>1. PICK k \in 1 .. Len(s) : TRUE
    BY <1>2
  <2> QED
    BY <1>1, <2>1
<1>4. s[1].pkt_num \in S /\ s[1].pkt_num \in Nat
  BY <1>1, <1>3, EdgesIs
<1>5. \A k \in 1 .. Len(s) : s[k].pkt_num <= s[1].pkt_num
  <2> TAKE k \in 1 .. Len(s)
  <2>1. CASE k = 1
    BY <1>4, <2>1
  <2>2. CASE 1 < k
    <3>1. s[k].pkt_num + 1 < First(s[1])
      BY <1>1, <1>3, <2>2 DEF IsRanges
    <3>2. First(s[1]) <= s[1].pkt_num /\ First(s[1]) \in Nat /\ s[k].pkt_num \in Nat
      BY <1>1, <1>3
    <3> QED
      BY <1>4, <3>1, <3>2
  <2> QED
    BY <2>1, <2>2
<1>6. ASSUME NEW p \in S
      PROVE  p <= s[1].pkt_num
  <2>1. PICK k \in 1 .. Len(s) : In(p, s[k])
    BY <1>2
  <2>2. p <= s[k].pkt_num /\ s[k].pkt_num \in Nat /\ s[k].pkt_num <= s[1].pkt_num /\ p \in Int
    BY <1>1, <1>2, <1>5, <2>1 DEF In
  <2> QED
    BY <1>4, <2>2
<1> QED
  BY <1>1, <1>3, <1>4, <1>6

\* Between two ranges there is a gap that neither wraps nor is negative.
LEMMA GapIs ==
  ASSUME NEW s, IsRanges(s), NEW i \in 1 .. Len(s) - 1, s[1].pkt_num < Word, Word \in Nat \ {0}
  PROVE  (First(s[i]) - s[i + 1].pkt_num - 2) % Word = First(s[i]) - s[i + 1].pkt_num - 2
<1>1. Len(s) \in Nat /\ \A k \in 1 .. Len(s) : /\ First(s[k]) \in Nat /\ s[k].pkt_num \in Nat
                                               /\ First(s[k]) <= s[k].pkt_num
  BY CoverIs
<1>2. /\ i \in 1 .. Len(s) /\ i + 1 \in 1 .. Len(s) /\ i < i + 1 /\ 1 \in 1 .. Len(s)
      /\ (i = 1 \/ 1 < i)
  BY <1>1
<1>3. s[i + 1].pkt_num + 1 < First(s[i])
  BY <1>2 DEF IsRanges
<1>4. 1 < i => s[i].pkt_num + 1 < First(s[1])
  BY <1>2 DEF IsRanges
<1>5. First(s[i]) <= s[1].pkt_num
  BY <1>1, <1>2, <1>4
<1> DEFINE first == First(s[i])
           next == s[i + 1].pkt_num
           top == s[1].pkt_num
           x == first - next - 2
<1>6. x \in 0 .. Word - 1
  <2>1. first \in Nat /\ next \in Nat /\ top \in Nat
    BY <1>1, <1>2
  <2>2. next + 1 < first /\ first <= top /\ top < Word
    BY <1>3, <1>5
  <2> HIDE DEF first, next, top
  <2> QED
    BY <2>1, <2>2
<1> HIDE DEF x
<1>7. x % Word = x
  BY <1>6, ModSmall
<1> QED
  BY <1>7 DEF x

\* A sequence given by its members.
LEMMA SeqByMembers ==
  ASSUME NEW n \in Nat, NEW t \in [1 .. n -> AckRange]
  PROVE  t \in Seq(AckRange) /\ Len(t) = n
OBVIOUS

\* The newest range is the one of max_pkt_num: it is the first block, and
\* NGTCP2_MAX_ACK_BLKS more ranges follow.
LEMMA WholeFrame ==
  ASSUME NEW s, NEW S, ListOf(s, S), S # {}, s[1].pkt_num = max_pkt_num,
         max_pkt_num < Word, Word \in Nat \ {0}, MaxAckBlks \in Nat
  PROVE  \E t : Writes(MakeFrame(s), t) /\ Cover(t) = NewestRanges(S, MaxAckBlks + 1)
<1> DEFINE N == Len(s)
           rest == Tail(s)
           n == IF Len(rest) < MaxAckBlks THEN Len(rest) ELSE MaxAckBlks
           t == SubSeq(s, 1, n + 1)
           fr == MakeFrame(s)
<1>1. /\ IsRanges(s) /\ s \in Seq(AckRange) /\ N \in Nat \ {0} /\ s # <<>>
  BY FirstIsLargest DEF ListOf, IsRanges
<1>2. /\ rest \in Seq(AckRange) /\ Len(rest) = N - 1
      /\ \A i \in 1 .. N - 1 : rest[i] = s[i + 1]
  BY <1>1, HeadTailProperties
<1>3. /\ fr.largest_ack = s[1].pkt_num /\ fr.first_ack_blklen = s[1].len - 1
      /\ fr.blks = [i \in 1 .. n |->
           [gap |-> ((IF i > 1 THEN First(rest[i - 1]) ELSE First(s[1])) - rest[i].pkt_num - 2) % Word,
            blklen |-> rest[i].len - 1]]
  BY <1>1 DEF MakeFrame
<1>4. /\ n \in Nat /\ n <= N - 1 /\ n + 1 \in 0 .. N /\ n + 1 \in Nat \ {0}
      /\ MaxAckBlks + 1 \in Nat
      /\ n + 1 = MaxAckBlks + 1 \/ (n + 1 = N /\ n + 1 <= MaxAckBlks + 1)
  <2>1. N \in Nat \ {0} /\ Len(rest) = N - 1 /\ MaxAckBlks \in Nat
    BY <1>1, <1>2
  <2>2. n = MaxAckBlks \/ n = N - 1
    BY <2>1
  <2>3. n <= MaxAckBlks /\ n <= N - 1 /\ n \in Nat
    BY <2>1
  <2> HIDE DEF n, N
  <2> QED
    BY <2>1, <2>2, <2>3
<1> HIDE DEF n, N, rest, fr
<1>5. /\ ListOf(t, NewestRanges(S, MaxAckBlks + 1)) /\ Len(t) = n + 1
      /\ \A i \in 1 .. n + 1 : t[i] = s[i]
  BY <1>4, PrefixIs DEF N
<1> HIDE DEF t
<1>6. ASSUME NEW i \in 1 .. n
      PROVE  /\ fr.blks[i].gap = First(t[i]) - t[i + 1].pkt_num - 2
             /\ fr.blks[i].blklen = t[i + 1].len - 1
  <2>1. /\ i \in 1 .. N - 1 /\ i \in 1 .. n + 1 /\ i + 1 \in 1 .. n + 1
        /\ (i > 1 => i - 1 \in 1 .. N - 1 /\ i - 1 + 1 = i) /\ (~(i > 1) => i = 1)
    BY <1>1, <1>4
  <2>2. rest[i] = s[i + 1] /\ t[i] = s[i] /\ t[i + 1] = s[i + 1]
    BY <1>2, <1>5, <2>1
  <2>3. (IF i > 1 THEN First(rest[i - 1]) ELSE First(s[1])) = First(s[i])
    BY <1>2, <2>1
  <2>4. fr.blks[i] = [gap |-> (First(s[i]) - s[i + 1].pkt_num - 2) % Word,
                      blklen |-> s[i + 1].len - 1]
    BY <1>3, <2>2, <2>3
  <2>5. (First(s[i]) - s[i + 1].pkt_num - 2) % Word = First(s[i]) - s[i + 1].pkt_num - 2
    BY <1>1, <2>1, GapIs DEF N
  <2> QED
    BY <2>2, <2>4, <2>5
<1>7. Len(fr.blks) = n
  BY <1>3, <1>4
<1>8. t[1] = s[1] /\ n + 1 - 1 = n
  BY <1>4, <1>5
<1>9. Writes(fr, t)
  BY <1>3, <1>4, <1>5, <1>6, <1>7, <1>8 DEF Writes, ListOf
<1> QED
  BY <1>5, <1>9 DEF ListOf, fr

\* max_pkt_num has left the tracker and is not next to its newest range: it is a
\* first block of its own, and at most NGTCP2_MAX_ACK_BLKS ranges follow.
LEMMA LoneFrame ==
  ASSUME NEW s, NEW S, ListOf(s, S), S # {}, max_pkt_num \in Nat,
         s[1].pkt_num + 1 < max_pkt_num,
         max_pkt_num < Word, Word \in Nat \ {0}, MaxAckBlks \in Nat
  PROVE  \E t : /\ Writes(MakeFrame(s), t)
                /\ Cover(t) = NewestRanges(S, MaxAckBlks) \cup {max_pkt_num}
<1> DEFINE N == Len(s)
           n == IF N < MaxAckBlks THEN N ELSE MaxAckBlks
           x == SubSeq(s, 1, n)
           one == Entry(max_pkt_num, 1)
           t == [i \in 1 .. n + 1 |-> IF i = 1 THEN one ELSE s[i - 1]]
           fr == MakeFrame(s)
<1>1. /\ IsRanges(s) /\ s \in Seq(AckRange) /\ N \in Nat \ {0} /\ s # <<>>
      /\ s[1].pkt_num \in Nat /\ s[1].pkt_num # max_pkt_num /\ s[1].pkt_num < Word
  BY FirstIsLargest DEF ListOf, IsRanges
<1>2. \A k \in 1 .. N : /\ s[k] \in AckRange /\ First(s[k]) \in Nat /\ s[k].pkt_num \in Nat
                        /\ First(s[k]) <= s[k].pkt_num
  BY <1>1, CoverIs
<1>3. /\ fr.largest_ack = max_pkt_num /\ fr.first_ack_blklen = 0
      /\ fr.blks = [i \in 1 .. n |->
           [gap |-> ((IF i > 1 THEN First(s[i - 1]) ELSE max_pkt_num) - s[i].pkt_num - 2) % Word,
            blklen |-> s[i].len - 1]]
  BY <1>1 DEF MakeFrame
<1>4. /\ n \in Nat /\ n <= N /\ n \in 0 .. N
      /\ n = MaxAckBlks \/ (n = N /\ n <= MaxAckBlks)
  BY <1>1
<1>5. one \in AckRange /\ one.pkt_num = max_pkt_num /\ one.len = 1 /\ First(one) = max_pkt_num
  BY DEF Entry, AckRange, First
<1> HIDE DEF n, N, fr, one
<1>6. /\ ListOf(x, NewestRanges(S, MaxAckBlks)) /\ Len(x) = n /\ \A i \in 1 .. n : x[i] = s[i]
  BY <1>4, PrefixIs DEF N
<1>7. /\ t \in Seq(AckRange) /\ Len(t) = n + 1 /\ t[1] = one
      /\ \A i \in 1 .. n : t[i + 1] = s[i]
      /\ \A i \in 2 .. n + 1 : i - 1 \in 1 .. N /\ t[i] = s[i - 1]
  <2>1. \A i \in 2 .. n + 1 : i - 1 \in 1 .. N /\ i \in 1 .. n + 1 /\ i # 1
    BY <1>1, <1>4
  <2>2. \A i \in 2 .. n + 1 : t[i] = s[i - 1] /\ t[i] \in AckRange
    BY <1>2, <2>1
  <2>3. 1 \in 1 .. n + 1 /\ n + 1 \in Nat
    BY <1>4
  <2>4. t[1] = one
    BY <2>3
  <2>5. \A i \in 1 .. n + 1 : i = 1 \/ i \in 2 .. n + 1
    BY <1>4
  <2>6. \A i \in 1 .. n + 1 : t[i] \in AckRange
    BY <1>5, <2>2, <2>4, <2>5
  <2>7. t \in [1 .. n + 1 -> AckRange]
    BY <2>6
  <2>8. \A i \in 1 .. n : i + 1 \in 2 .. n + 1 /\ i + 1 - 1 = i
    BY <1>4
  <2> HIDE DEF t
  <2>9. t \in Seq(AckRange) /\ Len(t) = n + 1
    <3> DEFINE m == n + 1
    <3>1. m \in Nat /\ t \in [1 .. m -> AckRange]
      BY <2>3, <2>7
    <3> HIDE DEF m
    <3>2. t \in Seq(AckRange) /\ Len(t) = m
      BY <3>1, SeqByMembers
    <3> QED
      BY <3>2 DEF m
  <2> QED
    BY <2>1, <2>2, <2>4, <2>8, <2>9
<1> HIDE DEF t, x
<1>8. \A k \in 1 .. N : s[k].pkt_num + 1 < max_pkt_num
  <2> TAKE k \in 1 .. N
  <2>1. s[k].pkt_num <= s[1].pkt_num
    BY <1>2, EdgesIs, FirstIsLargest DEF N
  <2> QED
    BY <1>1, <1>2, <2>1
<1>9. IsRanges(t)
  <2>1. \A i \in 1 .. n + 1 : First(t[i]) \in Nat
    <3>1. \A i \in 1 .. n + 1 : i = 1 \/ i \in 2 .. n + 1
      BY <1>4
    <3> QED
      BY <1>2, <1>5, <1>7, <3>1
  <2>2. ASSUME NEW i \in 1 .. n + 1, NEW k \in 1 .. n + 1, i < k
        PROVE  t[k].pkt_num + 1 < First(t[i])
    <3>1. k \in 2 .. n + 1 /\ (i = 1 \/ i \in 2 .. n + 1)
      BY <1>4, <2>2
    <3>2. t[k] = s[k - 1] /\ k - 1 \in 1 .. N
      BY <1>7, <3>1
    <3>3. CASE i = 1
      BY <1>5, <1>7, <1>8, <3>2, <3>3
    <3>4. CASE i \in 2 .. n + 1
      <4>1. t[i] = s[i - 1] /\ i - 1 \in 1 .. N /\ i - 1 < k - 1
        BY <1>7, <2>2, <3>4
      <4> QED
        BY <1>1, <3>2, <4>1 DEF IsRanges, N
    <3> QED
      BY <3>1, <3>3, <3>4
  <2> QED
    BY <1>7, <2>1, <2>2 DEF IsRanges
<1>10. Cover(t) = NewestRanges(S, MaxAckBlks) \cup {max_pkt_num}
  <2>1. /\ Cover(t) \subseteq Nat
        /\ \A p \in Int : p \in Cover(t) <=> \E i \in 1 .. n + 1 : In(p, t[i])
    BY <1>7, <1>9, CoverIs
  <2>2. /\ Cover(x) = NewestRanges(S, MaxAckBlks) /\ Cover(x) \subseteq Nat
        /\ \A p \in Int : p \in Cover(x) <=> \E i \in 1 .. n : In(p, s[i])
    BY <1>6, CoverIs DEF ListOf
  <2>3. \A p \in Int : (\E i \in 1 .. n + 1 : In(p, t[i]))
                       <=> In(p, one) \/ \E i \in 1 .. n : In(p, s[i])
    <3>1. /\ \A i \in 1 .. n + 1 : i = 1 \/ (i \in 2 .. n + 1 /\ i - 1 \in 1 .. n)
          /\ \A i \in 1 .. n : i + 1 \in 1 .. n + 1
          /\ 1 \in 1 .. n + 1
      BY <1>4
    <3> QED
      BY <1>7, <3>1
  <2>4. \A p \in Int : In(p, one) <=> p = max_pkt_num
    BY <1>5 DEF In
  <2>5. \A p \in Nat : p \in Int
    OBVIOUS
  <2> QED
    BY <2>1, <2>2, <2>3, <2>4, <2>5
<1>11. ASSUME NEW i \in 1 .. n
       PROVE  /\ fr.blks[i].gap = First(t[i]) - t[i + 1].pkt_num - 2
              /\ fr.blks[i].blklen = t[i + 1].len - 1
  <2> DEFINE g == (IF i > 1 THEN First(s[i - 1]) ELSE max_pkt_num) - s[i].pkt_num - 2
  <2>1. fr.blks[i].gap = g % Word /\ fr.blks[i].blklen = s[i].len - 1 /\ t[i + 1] = s[i]
    BY <1>3, <1>7
  <2>2. g % Word = g /\ g = First(t[i]) - t[i + 1].pkt_num - 2
    <3>1. CASE i > 1
      <4>1. i - 1 \in 1 .. N - 1 /\ i - 1 + 1 = i /\ i \in 2 .. n + 1
        BY <1>1, <1>4, <3>1
      <4>2. (First(s[i - 1]) - s[i - 1 + 1].pkt_num - 2) % Word
              = First(s[i - 1]) - s[i - 1 + 1].pkt_num - 2
        BY <1>1, <4>1, GapIs DEF N
      <4>3. t[i] = s[i - 1]
        BY <1>7, <4>1
      <4>4. g = First(s[i - 1]) - s[i].pkt_num - 2
        BY <3>1
      <4> HIDE DEF g
      <4>5. g % Word = g
        BY <4>1, <4>2, <4>4
      <4> QED
        BY <2>1, <4>3, <4>4, <4>5
    <3>2. CASE i = 1
      <4>1. g = max_pkt_num - s[1].pkt_num - 2
        BY <3>2
      <4>2. g \in 0 .. Word - 1
        <5> DEFINE top == s[1].pkt_num
        <5>1. /\ g = max_pkt_num - top - 2 /\ top + 1 < max_pkt_num /\ top \in Nat
              /\ max_pkt_num \in Nat /\ max_pkt_num < Word /\ Word \in Nat
          BY <1>1, <4>1
        <5> HIDE DEF g, top
        <5> QED
          BY <5>1
      <4>3. First(t[1]) = max_pkt_num
        BY <1>5, <1>7
      <4> HIDE DEF g
      <4>4. g % Word = g
        BY <4>2, ModSmall
      <4> QED
        BY <2>1, <3>2, <4>1, <4>3, <4>4
    <3>3. i = 1 \/ i > 1
      BY <1>4
    <3> QED
      BY <3>1, <3>2, <3>3
  <2> HIDE DEF g
  <2> QED
    BY <2>1, <2>2
<1>12. Len(fr.blks) = n
  BY <1>3, <1>4
<1>13. Len(t) - 1 = n /\ Len(t) \in Nat \ {0} /\ t[1].pkt_num = max_pkt_num /\ t[1].len - 1 = 0
  BY <1>4, <1>5, <1>7
<1>14. Writes(fr, t)
  BY <1>3, <1>9, <1>11, <1>12, <1>13 DEF Writes
<1> QED
  BY <1>10, <1>14 DEF fr

\* In every reachable state where conn_create_ack_frame does not abort, the frame
\* it makes passes ngtcp2_pkt_validate_ack and reads back as the ranges it reports:
\* no gap wraps, and forgetting max_pkt_num does not make the frame lie.
THEOREM FrameIsRight == Spec => []FrameAgrees
<1>1. IInv => FrameAgrees
  <2> SUFFICES ASSUME IInv, AckDue, GapsEncodable
               PROVE  LET fr == MakeFrame(RangesOf(ents))
                      IN ValidateAck(fr) /\ FrameCover(fr) = Reported \cup {max_pkt_num}
    BY DEF FrameAgrees
  <2> DEFINE s == RangesOf(ents)
             fr == MakeFrame(s)
             top == s[1].pkt_num
  <2>1. /\ ents \subseteq 0 .. MaxRxPkt /\ ents # {} /\ MaxRxPkt \in Nat
        /\ \A p \in ents : p <= max_pkt_num
    BY BoundsAssumption DEF IInv, TypeOK, KnownWasReceived, RxPkt, AckDue
  <2>2. /\ max_pkt_num \in Nat /\ max_pkt_num < Word /\ Word \in Nat \ {0}
        /\ VarintEnd \in Nat /\ VarintEnd < Word /\ MaxAckBlks \in Nat
    <3>1. /\ MaxRxPkt < VarintEnd /\ VarintEnd < Word /\ Word \in Nat /\ VarintEnd \in Nat
          /\ MaxAckBlks \in Nat
      BY BoundsAssumption
    <3>2. max_pkt_num \in 0 .. MaxRxPkt \cup {-1}
      BY DEF IInv, TypeOK, RxPkt
    <3>3. PICK p \in ents : p \in 0 .. MaxRxPkt
      BY <2>1
    <3>4. max_pkt_num \in Int /\ p <= max_pkt_num
      BY <2>1, <3>2, <3>3
    <3> QED
      BY <2>1, <3>1, <3>2, <3>3, <3>4
  <2>3. ListOf(s, ents)
    BY <2>1, RangesOfIs
  <2> HIDE DEF s
  <2>4. top \in ents /\ top \in Nat /\ \A p \in ents : p <= top
    BY <2>1, <2>3, FirstIsLargest
  <2>5. CASE top = max_pkt_num
    <3>1. PICK t : Writes(fr, t) /\ Cover(t) = NewestRanges(ents, MaxAckBlks + 1)
      BY <2>1, <2>2, <2>3, <2>5, WholeFrame
    <3>2. Reported = NewestRanges(ents, MaxAckBlks + 1)
      BY <2>4, <2>5 DEF Reported
    <3>3. max_pkt_num \in Reported
      <4>1. Writes(fr, t) /\ Cover(t) = Reported
        BY <3>1, <3>2
      <4>2. ListOf(t, Reported) /\ fr.largest_ack = t[1].pkt_num /\ 1 \in 1 .. Len(t)
        BY <4>1 DEF Writes, ListOf
      <4>3. t[1].pkt_num \in Reported
        BY <4>2, EdgesIs
      <4>4. fr.largest_ack = max_pkt_num
        BY DEF MakeFrame
      <4> QED
        BY <4>2, <4>3, <4>4
    <3>4. ValidateAck(fr) /\ FrameCover(fr) = Cover(t)
      BY <3>1, FrameReadsBack
    <3> QED
      BY <3>1, <3>2, <3>3, <3>4 DEF s
  <2>6. CASE top # max_pkt_num
    <3>1. max_pkt_num \notin ents /\ top < max_pkt_num
      BY <2>1, <2>2, <2>4, <2>6
    <3>2. top + 1 # max_pkt_num
      <4> SUFFICES ASSUME top + 1 = max_pkt_num
                   PROVE  FALSE
        OBVIOUS
      <4>1. max_pkt_num - top - 2 = -1 /\ max_pkt_num - top - 2 \in Int
        BY <2>2, <2>4
      <4>2. FirstGapField(top) = Word - 1
        BY <2>2, <4>1, ModMinusOne DEF FirstGapField
      <4>3. FirstGapField(top) < VarintEnd
        BY <2>4, <3>1 DEF GapsEncodable
      <4> QED
        BY <2>2, <4>2, <4>3
    <3>3. top + 1 < max_pkt_num
      BY <2>2, <2>4, <3>1, <3>2
    <3>4. PICK t : /\ Writes(fr, t)
                   /\ Cover(t) = NewestRanges(ents, MaxAckBlks) \cup {max_pkt_num}
      BY <2>1, <2>2, <2>3, <3>3, LoneFrame
    <3>5. Reported = NewestRanges(ents, MaxAckBlks)
      BY <3>1 DEF Reported
    <3>6. ValidateAck(fr) /\ FrameCover(fr) = Cover(t)
      BY <3>4, FrameReadsBack
    <3> QED
      BY <3>4, <3>5, <3>6 DEF s
  <2> QED
    BY <2>5, <2>6
<1> QED
  BY <1>1, Invariance, PTL

-----------------------------------------------------------------------------
\* A log of records and a list of ranges as the search of ngtcp2_acktr_recv_ack
\* finds them, both in decreasing order.
Ordered(log, rs) ==
  /\ Len(log) \in Nat /\ Len(rs) \in Nat
  /\ \A i \in 1 .. Len(log) : log[i].pkt_num \in Int
  /\ \A k \in 1 .. Len(rs) : rs[k].max \in Int /\ rs[k].min \in Int /\ rs[k].min <= rs[k].max
  /\ \A i, j \in 1 .. Len(log) : i < j => log[j].pkt_num < log[i].pkt_num
  /\ \A k, m \in 1 .. Len(rs) : k < m => rs[m].max < rs[k].min

\* The packet of record i is in one of the ranges from k on; v is the first
\* such record from j on, or 0 if there is none.
Within(log, rs, i, m) == rs[m].min <= log[i].pkt_num /\ log[i].pkt_num <= rs[m].max
Hit(log, rs, i, k) == \E m \in k .. Len(rs) : Within(log, rs, i, m)
Found(log, rs, j, k, v) ==
  \/ v = 0 /\ \A i \in j .. Len(log) : ~Hit(log, rs, i, k)
  \/ v \in j .. Len(log) /\ Hit(log, rs, v, k) /\ \A i \in j .. v - 1 : ~Hit(log, rs, i, k)

\* There is exactly one such v.
LEMMA FoundOnce ==
  ASSUME NEW log, NEW rs, Len(log) \in Nat, NEW j \in Nat \ {0}, NEW k
  PROVE  /\ \E v \in Nat : Found(log, rs, j, k, v)
         /\ \A v, w : Found(log, rs, j, k, v) /\ Found(log, rs, j, k, w) => v = w
<1> DEFINE L == Len(log)
           S == {i \in j .. L : Hit(log, rs, i, k)}
<1> HIDE DEF L
<1>0. L \in Nat
  BY DEF L
<1>1. \E v \in Nat : Found(log, rs, j, k, v)
  <2>1. CASE S = {}
    <3>1. Found(log, rs, j, k, 0)
      BY <2>1 DEF Found, L
    <3> QED
      BY <3>1
  <2>2. CASE S # {}
    <3>1. S \subseteq Nat
      BY <1>0
    <3>2. PICK m \in S : \A i \in S : m <= i
      BY <2>2, <3>1, LeastMember, Zenon
    <3>3. m \in j .. L /\ m \in Nat /\ Hit(log, rs, m, k)
      BY <3>1, <3>2
    <3>4. ASSUME NEW i \in j .. m - 1
          PROVE  ~Hit(log, rs, i, k)
      <4>1. i \in j .. L /\ ~(m <= i)
        BY <1>0, <3>3
      <4> QED
        BY <3>2, <4>1
    <3>5. Found(log, rs, j, k, m)
      BY <3>3, <3>4 DEF Found, L
    <3> QED
      BY <3>3, <3>5
  <2> QED
    BY <2>1, <2>2
<1>2. ASSUME NEW v, NEW w, Found(log, rs, j, k, v), Found(log, rs, j, k, w)
      PROVE  v = w
  <2>1. v = 0 => w = 0
    BY <1>0, <1>2 DEF Found, L
  <2>2. w = 0 => v = 0
    BY <1>0, <1>2 DEF Found, L
  <2>3. ASSUME v # 0, w # 0
        PROVE  v = w
    <3>1. /\ v \in j .. L /\ Hit(log, rs, v, k) /\ \A i \in j .. v - 1 : ~Hit(log, rs, i, k)
          /\ w \in j .. L /\ Hit(log, rs, w, k) /\ \A i \in j .. w - 1 : ~Hit(log, rs, i, k)
      BY <1>2, <2>3 DEF Found, L
    <3>2. v \notin j .. w - 1 /\ w \notin j .. v - 1
      BY <3>1
    <3> QED
      BY <1>0, <3>1, <3>2
  <2> QED
    BY <2>1, <2>2, <2>3
<1> QED
  BY <1>1, <1>2

\* What a step of the search does: the record that is above the range it looks at
\* is in no later range, and the range that is above the record has no later record.
LEMMA SearchSteps ==
  ASSUME NEW log, NEW rs, Ordered(log, rs),
         NEW j \in 1 .. Len(log) + 1, NEW k \in 1 .. Len(rs) + 1, NEW v
  PROVE  /\ j > Len(log) \/ k > Len(rs) => (Found(log, rs, j, k, v) <=> v = 0)
         /\ j <= Len(log) /\ k <= Len(rs) =>
              /\ j \in 1 .. Len(log) /\ k \in 1 .. Len(rs)
              /\ log[j].pkt_num > rs[k].max =>
                   (Found(log, rs, j, k, v) <=> Found(log, rs, j + 1, k, v))
              /\ log[j].pkt_num < rs[k].min =>
                   (Found(log, rs, j, k, v) <=> Found(log, rs, j, k + 1, v))
              /\ ~(log[j].pkt_num > rs[k].max) /\ ~(log[j].pkt_num < rs[k].min) =>
                   (Found(log, rs, j, k, v) <=> v = j)
<1> DEFINE L == Len(log)
           R == Len(rs)
<1>1. /\ L \in Nat /\ R \in Nat /\ j \in 1 .. L + 1 /\ k \in 1 .. R + 1
      /\ \A i \in 1 .. L : log[i].pkt_num \in Int
      /\ \A m \in 1 .. R : rs[m].max \in Int /\ rs[m].min \in Int /\ rs[m].min <= rs[m].max
      /\ \A a, b \in 1 .. L : a < b => log[b].pkt_num < log[a].pkt_num
      /\ \A a, b \in 1 .. R : a < b => rs[b].max < rs[a].min
  BY DEF Ordered
<1> HIDE DEF L, R
<1>2. CASE j > L
  <2>1. j .. L = {} /\ ~(j <= L)
    BY <1>1, <1>2
  <2> QED
    BY <2>1 DEF Found, L
<1>3. CASE j <= L /\ k > R
  <2>1. k .. R = {} /\ ~(k <= R)
    BY <1>1, <1>3
  <2>2. \A i : ~Hit(log, rs, i, k)
    BY <2>1 DEF Hit, R
  <2> QED
    BY <2>1, <2>2 DEF Found, R
<1>4. CASE j <= L /\ k <= R
  <2>0. j \in 1 .. L /\ k \in 1 .. R /\ j \in Int /\ k \in Int /\ ~(j > L) /\ ~(k > R)
    BY <1>1, <1>4
  <2>1. ASSUME log[j].pkt_num > rs[k].max
        PROVE  Found(log, rs, j, k, v) <=> Found(log, rs, j + 1, k, v)
    <3>1. ASSUME NEW m \in k .. R
          PROVE  ~Within(log, rs, j, m)
      <4>1. m \in 1 .. R /\ (m = k \/ k < m)
        BY <1>1, <2>0
      <4>2. /\ rs[m].max \in Int /\ rs[k].max \in Int /\ rs[k].min \in Int
            /\ rs[k].min <= rs[k].max /\ log[j].pkt_num \in Int
        BY <1>1, <2>0, <4>1
      <4>3. k < m => rs[m].max < rs[k].min
        BY <1>1, <2>0, <4>1
      <4>4. rs[m].max <= rs[k].max
        BY <4>1, <4>2, <4>3
      <4> QED
        BY <2>1, <4>2, <4>4 DEF Within
    <3>2. ~Hit(log, rs, j, k)
      BY <3>1 DEF Hit, R
    <3>3. \A i : i \in j .. L <=> i = j \/ i \in j + 1 .. L
      BY <1>1, <2>0
    <3>4. \A i : v \in j .. L => (i \in j .. v - 1 <=> (i = j /\ v # j) \/ i \in j + 1 .. v - 1)
      BY <1>1, <2>0
    <3> QED
      BY <3>2, <3>3, <3>4 DEF Found, L
  <2>2. ASSUME log[j].pkt_num < rs[k].min
        PROVE  Found(log, rs, j, k, v) <=> Found(log, rs, j, k + 1, v)
    <3>1. ASSUME NEW i \in j .. L
          PROVE  ~Within(log, rs, i, k)
      <4>1. i \in 1 .. L /\ (i = j \/ j < i)
        BY <1>1, <2>0
      <4>2. /\ log[i].pkt_num \in Int /\ log[j].pkt_num \in Int /\ rs[k].min \in Int
        BY <1>1, <2>0, <4>1
      <4>3. j < i => log[i].pkt_num < log[j].pkt_num
        BY <1>1, <2>0, <4>1
      <4>4. log[i].pkt_num <= log[j].pkt_num
        BY <4>1, <4>2, <4>3
      <4> QED
        BY <2>2, <4>2, <4>4 DEF Within
    <3>2. \A m : m \in k .. R <=> m = k \/ m \in k + 1 .. R
      BY <1>1, <2>0
    <3>3. \A i \in j .. L : Hit(log, rs, i, k) <=> Hit(log, rs, i, k + 1)
      BY <3>1, <3>2 DEF Hit, R
    <3>4. \A i : v \in j .. L /\ i \in j .. v - 1 => i \in j .. L
      BY <1>1, <2>0
    <3> QED
      BY <3>3, <3>4 DEF Found, L
  <2>3. ASSUME ~(log[j].pkt_num > rs[k].max), ~(log[j].pkt_num < rs[k].min)
        PROVE  Found(log, rs, j, k, v) <=> v = j
    <3>1. Within(log, rs, j, k)
      BY <1>1, <2>0, <2>3 DEF Within
    <3>2. k \in k .. R /\ j \in j .. L /\ j .. j - 1 = {}
      BY <1>1, <2>0
    <3>3. Hit(log, rs, j, k)
      BY <3>1, <3>2 DEF Hit, R
    <3>4. Found(log, rs, j, k, j)
      BY <3>2, <3>3 DEF Found, L
    <3>5. L \in Nat /\ j \in Nat \ {0}
      BY <1>1, <2>0
    <3> QED
      BY <3>4, <3>5, FoundOnce DEF L
  <2> QED
    BY <2>0, <2>1, <2>2, <2>3 DEF L, R
<1>5. j > L \/ (j <= L /\ k > R) \/ (j <= L /\ k <= R)
  BY <1>1
<1> QED
  BY <1>2, <1>3, <1>4, <1>5 DEF L, R

\* Its two indices together find the first record that lies in any range.
THEOREM SearchIs ==
  ASSUME NEW log, NEW fr, Ordered(log, FrameRanges(fr))
  PROVE  Found(log, FrameRanges(fr), 1, 1, RecvAckSearch(log, fr))
<1> DEFINE rs == FrameRanges(fr)
           L == Len(log)
           R == Len(rs)
           D == (1 .. L + 1) \X (1 .. R + 1)
           Body(h, j, k) == IF j > L \/ k > R THEN 0
                            ELSE IF log[j].pkt_num > rs[k].max THEN h[<<j + 1, k>>]
                            ELSE IF log[j].pkt_num < rs[k].min THEN h[<<j, k + 1>>]
                            ELSE j
           W(h) == [at \in D |-> LET j == at[1]
                                     k == at[2]
                                 IN IF j > L \/ k > R THEN 0
                                    ELSE IF log[j].pkt_num > rs[k].max THEN h[<<j + 1, k>>]
                                    ELSE IF log[j].pkt_num < rs[k].min THEN h[<<j, k + 1>>]
                                    ELSE j]
           step == CHOOSE h : h = W(h)
           F(j, k, v) == Found(log, rs, j, k, v)
           g == [at \in D |-> CHOOSE v \in Nat : F(at[1], at[2], v)]
<1>1. RecvAckSearch(log, fr) = step[<<1, 1>>]
  BY DEF RecvAckSearch
<1>2. Ordered(log, rs) /\ L \in Nat /\ R \in Nat
  BY DEF Ordered
<1> HIDE DEF rs, L, R
<1>3. \A at \in D : at[1] \in 1 .. L + 1 /\ at[2] \in 1 .. R + 1 /\ at = <<at[1], at[2]>>
  OBVIOUS
<1>4. \A j \in 1 .. L + 1, k \in 1 .. R + 1 :
        <<j, k>> \in D /\ <<j, k>>[1] = j /\ <<j, k>>[2] = k
  OBVIOUS
<1> HIDE DEF D
<1>5. ASSUME NEW j \in 1 .. L + 1, NEW k \in 1 .. R + 1
      PROVE  F(j, k, g[<<j, k>>])
  <2>1. g[<<j, k>>] = CHOOSE v \in Nat : F(j, k, v)
    BY <1>4
  <2>2. j \in Nat \ {0}
    BY <1>2
  <2>3. \E v \in Nat : F(j, k, v)
    BY <1>2, <2>2, FoundOnce DEF L
  <2> HIDE DEF g, F
  <2> QED
    BY <2>1, <2>3
<1>6. g = [at \in D |-> g[at]]
  OBVIOUS
<1> HIDE DEF g, F
\* Both indices go up to their ends, in one step each.
<1>7. ASSUME NEW j \in 1 .. L + 1, NEW k \in 1 .. R + 1
      PROVE  /\ j > L \/ k > R => \A v : F(j, k, v) <=> v = 0
             /\ ~(j > L \/ k > R) =>
                  /\ j + 1 \in 1 .. L + 1 /\ k + 1 \in 1 .. R + 1
                  /\ log[j].pkt_num > rs[k].max =>
                       \A v : F(j, k, v) <=> F(j + 1, k, v)
                  /\ log[j].pkt_num < rs[k].min =>
                       \A v : F(j, k, v) <=> F(j, k + 1, v)
                  /\ ~(log[j].pkt_num > rs[k].max) /\ ~(log[j].pkt_num < rs[k].min) =>
                       \A v : F(j, k, v) <=> v = j
  <2>1. ~(j > L \/ k > R) => /\ j <= L /\ k <= R
                             /\ j + 1 \in 1 .. L + 1 /\ k + 1 \in 1 .. R + 1
    BY <1>2
  <2>2. j \in 1 .. Len(log) + 1 /\ k \in 1 .. Len(rs) + 1
    BY DEF L, R
  <2> QED
    BY <1>2, <2>1, <2>2, SearchSteps DEF F, L, R
<1>8. ASSUME NEW j \in 1 .. L + 1, NEW k \in 1 .. R + 1, NEW v, NEW w, F(j, k, v), F(j, k, w)
      PROVE  v = w
  <2>1. j \in Nat \ {0}
    BY <1>2
  <2> QED
    BY <1>2, <1>8, <2>1, FoundOnce DEF F, L
<1>9. \A j \in 1 .. L + 1, k \in 1 .. R + 1 : g[<<j, k>>] = Body(g, j, k)
  <2> TAKE j \in 1 .. L + 1, k \in 1 .. R + 1
  <2> DEFINE b == Body(g, j, k)
  <2>1. F(j, k, g[<<j, k>>])
    BY <1>5
  <2>2. F(j, k, b)
    <3>1. CASE j > L \/ k > R
      BY <1>7, <3>1
    <3>2. CASE ~(j > L \/ k > R) /\ log[j].pkt_num > rs[k].max
      <4>1. F(j + 1, k, g[<<j + 1, k>>])
        BY <1>5, <1>7, <3>2
      <4> QED
        BY <1>7, <3>2, <4>1
    <3>3. CASE ~(j > L \/ k > R) /\ ~(log[j].pkt_num > rs[k].max) /\ log[j].pkt_num < rs[k].min
      <4>1. F(j, k + 1, g[<<j, k + 1>>])
        BY <1>5, <1>7, <3>3
      <4> QED
        BY <1>7, <3>3, <4>1
    <3>4. CASE ~(j > L \/ k > R) /\ ~(log[j].pkt_num > rs[k].max) /\ ~(log[j].pkt_num < rs[k].min)
      BY <1>7, <3>4
    <3> QED
      BY <3>1, <3>2, <3>3, <3>4
  <2> HIDE DEF b
  <2>3. g[<<j, k>>] = b
    BY <1>8, <2>1, <2>2
  <2> QED
    BY <2>3 DEF b
<1>10. g = W(g)
  <2>1. \A at \in D : g[at] = Body(g, at[1], at[2])
    BY <1>3, <1>9
  <2> QED
    BY <1>6, <2>1
<1>11. step = W(step)
  BY <1>10
<1> HIDE DEF step
<1>12. \A j \in 1 .. L + 1, k \in 1 .. R + 1 : step[<<j, k>>] = Body(step, j, k)
  <2>1. \A at \in D : step[at] = Body(step, at[1], at[2])
    BY <1>11
  <2> QED
    BY <1>4, <2>1
<1> HIDE DEF W
<1> DEFINE Left(j, k) == L + 1 - j + (R + 1 - k)
           S == {m \in 0 .. L + R : \E j \in 1 .. L + 1, k \in 1 .. R + 1 :
                                      m = Left(j, k) /\ ~F(j, k, step[<<j, k>>])}
<1>13. S = {}
  <2> SUFFICES ASSUME S # {}
               PROVE  FALSE
    OBVIOUS
  <2>1. S \subseteq Nat
    OBVIOUS
  <2>2. PICK m \in S : \A n \in S : m <= n
    BY <2>1, LeastMember, Zenon
  <2>3. PICK j \in 1 .. L + 1, k \in 1 .. R + 1 : m = Left(j, k) /\ ~F(j, k, step[<<j, k>>])
    OBVIOUS
  <2>4. ASSUME NEW a \in 1 .. L + 1, NEW b \in 1 .. R + 1, Left(a, b) = m - 1
        PROVE  F(a, b, step[<<a, b>>])
    <3>1. m \in Int /\ Left(a, b) \in 0 .. L + R /\ ~(m <= Left(a, b))
      BY <1>2, <2>4
    <3>2. Left(a, b) \notin S
      BY <2>2, <3>1
    <3> QED
      BY <3>1, <3>2
  <2>5. Left(j + 1, k) = m - 1 /\ Left(j, k + 1) = m - 1
    BY <1>2, <2>3
  <2> HIDE DEF Left, S
  <2>6. step[<<j, k>>] = Body(step, j, k)
    BY <1>12
  <2>7. CASE j > L \/ k > R
    BY <1>7, <2>3, <2>6, <2>7
  <2>8. CASE ~(j > L \/ k > R) /\ log[j].pkt_num > rs[k].max
    <3>1. F(j + 1, k, step[<<j + 1, k>>])
      BY <1>7, <2>4, <2>5, <2>8
    <3> QED
      BY <1>7, <2>3, <2>6, <2>8, <3>1
  <2>9. CASE ~(j > L \/ k > R) /\ ~(log[j].pkt_num > rs[k].max) /\ log[j].pkt_num < rs[k].min
    <3>1. F(j, k + 1, step[<<j, k + 1>>])
      BY <1>7, <2>4, <2>5, <2>9
    <3> QED
      BY <1>7, <2>3, <2>6, <2>9, <3>1
  <2>10. CASE ~(j > L \/ k > R) /\ ~(log[j].pkt_num > rs[k].max) /\ ~(log[j].pkt_num < rs[k].min)
    BY <1>7, <2>3, <2>6, <2>10
  <2> QED
    BY <2>7, <2>8, <2>9, <2>10
<1>14. F(1, 1, step[<<1, 1>>])
  <2>1. 1 \in 1 .. L + 1 /\ 1 \in 1 .. R + 1 /\ Left(1, 1) \in 0 .. L + R
    BY <1>2
  <2> HIDE DEF Left
  <2> QED
    BY <1>13, <2>1
<1> QED
  BY <1>1, <1>14 DEF F, rs

\* The log of sent ACK frames as a list: every record once, newest first.
IsLog(log) ==
  /\ Len(log) \in Nat
  /\ \A i \in 1 .. Len(log) : log[i] \in acks
  /\ \A i, j \in 1 .. Len(log) : i < j => log[j].pkt_num < log[i].pkt_num
  /\ \A a \in acks : \E i \in 1 .. Len(log) : log[i] = a

LEMMA AckLogIs ==
  ASSUME TypeOK, AcksOrdered
  PROVE  IsLog(AckLog)
<1> DEFINE T == {a.pkt_num : a \in acks}
           pns == Decreasing(T)
           n == Cardinality(T)
           log == AckLog
<1>1. /\ \A a \in acks : a.pkt_num \in 0 .. MaxTxPkt
      /\ MaxTxPkt \in Nat
  BY BoundsAssumption DEF TypeOK, TxPkt
<1>2. T \subseteq 0 .. MaxTxPkt
  BY <1>1
<1>3. IsFiniteSet(T) /\ T \subseteq Int
  <2>1. IsFiniteSet(0 .. MaxTxPkt) /\ 0 .. MaxTxPkt \subseteq Int
    BY <1>1, FS_Interval
  <2>2. IsFiniteSet(T)
    BY <1>2, <2>1, FS_Subset
  <2> QED
    BY <1>2, <2>1, <2>2
<1> HIDE DEF T
<1>4. /\ n \in Nat /\ Len(pns) = n /\ DOMAIN pns = 1 .. n
      /\ \A i \in 1 .. n : pns[i] \in T
      /\ \A i, k \in 1 .. n : i < k => pns[k] < pns[i]
      /\ \A t \in T : \E i \in 1 .. n : pns[i] = t
  <2>1. IsDecreasing(pns, T)
    BY <1>3, DecreasingIs
  <2> HIDE DEF pns
  <2>2. n \in Nat /\ Len(pns) = n /\ pns \in Seq(T)
    BY <2>1 DEF IsDecreasing
  <2>3. DOMAIN pns = 1 .. n
    BY <2>2
  <2> QED
    BY <2>1, <2>2, <2>3 DEF IsDecreasing
<1>5. log = [i \in 1 .. n |-> CHOOSE a \in acks : a.pkt_num = pns[i]]
  BY <1>4 DEF AckLog, T
<1> HIDE DEF pns, n
<1>6. \A i \in 1 .. n : log[i] \in acks /\ log[i].pkt_num = pns[i]
  <2> TAKE i \in 1 .. n
  <2>1. log[i] = CHOOSE a \in acks : a.pkt_num = pns[i]
    BY <1>5
  <2>2. \E a \in acks : a.pkt_num = pns[i]
    BY <1>4 DEF T
  <2> QED
    BY <2>1, <2>2
<1>7. Len(log) = n
  BY <1>4, <1>5
<1> HIDE DEF log
<1>8. ASSUME NEW a \in acks
      PROVE  \E i \in 1 .. n : log[i] = a
  <2>1. a.pkt_num \in T
    BY DEF T
  <2>2. PICK i \in 1 .. n : pns[i] = a.pkt_num
    BY <1>4, <2>1
  <2>3. log[i] \in acks /\ log[i].pkt_num = a.pkt_num
    BY <1>6, <2>2
  <2>4. log[i] = a
    BY <2>3 DEF AcksOrdered
  <2> QED
    BY <2>4
<1>9. \A i, k \in 1 .. n : i < k => log[k].pkt_num < log[i].pkt_num
  BY <1>4, <1>6
<1> QED
  BY <1>4, <1>6, <1>7, <1>8, <1>9 DEF IsLog, log

\* A frame of the peer for the set A says what the list of A says.
LEMMA FrameForWrites ==
  ASSUME NEW N \in Nat, NEW A, A \subseteq 0 .. N, A # {}
  PROVE  Writes(FrameFor(A), RangesOf(A)) /\ Cover(RangesOf(A)) = A
<1> DEFINE s == RangesOf(A)
           n == Len(s) - 1
           fr == FrameFor(A)
<1>1. ListOf(s, A)
  BY RangesOfIs
<1>2. /\ fr.largest_ack = s[1].pkt_num /\ fr.first_ack_blklen = s[1].len - 1
      /\ fr.blks = [i \in 1 .. n |-> [gap |-> First(s[i]) - s[i + 1].pkt_num - 2,
                                      blklen |-> s[i + 1].len - 1]]
  BY DEF FrameFor
<1> HIDE DEF s, fr
<1>3. Len(s) \in Nat \ {0} /\ IsRanges(s) /\ Cover(s) = A
  BY <1>1, FirstIsLargest DEF ListOf
<1>4. n \in Nat
  BY <1>3
<1> HIDE DEF n
<1>5. Len(fr.blks) = n
  BY <1>2, <1>4
<1>6. \A i \in 1 .. n : /\ fr.blks[i].gap = First(s[i]) - s[i + 1].pkt_num - 2
                        /\ fr.blks[i].blklen = s[i + 1].len - 1
  BY <1>2
<1>7. Writes(fr, s)
  BY <1>2, <1>3, <1>5, <1>6 DEF Writes, n
<1> QED
  BY <1>3, <1>7 DEF s, fr

\* The log and the ranges of such a frame are as the search needs them, and a
\* record is in one of the ranges just when the frame acknowledges its packet.
LEMMA LogAndFrame ==
  ASSUME TypeOK, NEW log, IsLog(log), NEW fr, NEW t, Writes(fr, t)
  PROVE  /\ Ordered(log, FrameRanges(fr))
         /\ \A i \in 1 .. Len(log) :
              Hit(log, FrameRanges(fr), i, 1) <=> log[i].pkt_num \in Cover(t)
<1> DEFINE rs == FrameRanges(fr)
           n == Len(t)
           L == Len(log)
<1>1. /\ L \in Nat /\ \A i \in 1 .. L : log[i].pkt_num \in Int
      /\ \A i, j \in 1 .. L : i < j => log[j].pkt_num < log[i].pkt_num
  <2>1. \A a \in acks : a.pkt_num \in Int
    BY BoundsAssumption DEF TypeOK, TxPkt
  <2> QED
    BY <2>1 DEF IsLog
<1>2. rs = [i \in 1 .. n |-> [max |-> t[i].pkt_num, min |-> First(t[i])]]
  BY FrameRangesIs
<1>3. /\ IsRanges(t) /\ n \in Nat
      /\ \A i \in 1 .. n : /\ First(t[i]) \in Nat /\ t[i].pkt_num \in Nat
                           /\ First(t[i]) <= t[i].pkt_num
      /\ \A p \in Int : p \in Cover(t) <=> \E i \in 1 .. n : In(p, t[i])
  BY CoverIs DEF Writes
<1> HIDE DEF rs, L
<1>4. Len(rs) = n /\ \A i \in 1 .. n : rs[i].max = t[i].pkt_num /\ rs[i].min = First(t[i])
  BY <1>2, <1>3
<1>5. \A i, k \in 1 .. n : i < k => rs[k].max < rs[i].min
  <2> SUFFICES ASSUME NEW i \in 1 .. n, NEW k \in 1 .. n, i < k
               PROVE  rs[k].max < rs[i].min
    OBVIOUS
  <2>1. t[k].pkt_num + 1 < First(t[i])
    BY <1>3 DEF IsRanges
  <2>2. t[k].pkt_num \in Nat /\ First(t[i]) \in Nat
    BY <1>3
  <2> QED
    BY <1>4, <2>1, <2>2
<1>6. \A i \in 1 .. n : rs[i].max \in Int /\ rs[i].min \in Int /\ rs[i].min <= rs[i].max
  BY <1>3, <1>4
<1>7. Ordered(log, rs)
  BY <1>1, <1>3, <1>4, <1>5, <1>6 DEF Ordered, L
<1>8. \A i \in 1 .. L : Hit(log, rs, i, 1) <=> log[i].pkt_num \in Cover(t)
  <2> TAKE i \in 1 .. L
  <2>1. log[i].pkt_num \in Int
    BY <1>1
  <2>2. \A m \in 1 .. n : Within(log, rs, i, m) <=> In(log[i].pkt_num, t[m])
    BY <1>4 DEF Within, In
  <2> QED
    BY <1>3, <1>4, <2>1, <2>2 DEF Hit
<1> QED
  BY <1>7, <1>8 DEF rs, L

\* In every reachable state and for every frame the peer may send, the search of
\* ngtcp2_acktr_recv_ack finds the newest record whose packet is acknowledged, or
\* none, and acktr_on_ack forgets the numbers up to that record's largest_ack.
THEOREM RecvAckIsRight == Spec => []RecvAckAgrees
<1>1. IInv => RecvAckAgrees
  <2> SUFFICES ASSUME IInv, NEW A \in (SUBSET (0 .. last_pkt_num)) \ {{}}
               PROVE  LET j == RecvAckSearch(AckLog, FrameFor(A))
                      IN /\ FrameCover(FrameFor(A)) = A
                         /\ AckedEntry(A) = {AckLog[i] : i \in {j} \ {0}}
                         /\ j # 0 => Cover(RangeOnAck(RangesOf(ents), AckLog[j].largest_ack))
                                       = EntsAfterAck(A)
    BY DEF RecvAckAgrees
  <2> DEFINE fr == FrameFor(A)
             log == AckLog
             t == RangesOf(A)
             rs == FrameRanges(fr)
             L == Len(log)
             j == RecvAckSearch(log, fr)
             s == RangesOf(ents)
  <2>1. /\ TypeOK /\ AcksOrdered /\ ents \subseteq 0 .. MaxRxPkt /\ MaxRxPkt \in Nat
        /\ \A a \in acks : a.pkt_num \in Int /\ a.largest_ack \in Nat
    BY BoundsAssumption DEF IInv, TypeOK, RxPkt, TxPkt
  <2>2. last_pkt_num \in Nat /\ A \subseteq 0 .. last_pkt_num /\ A # {}
    <3>1. last_pkt_num \in Int
      BY <2>1, BoundsAssumption DEF TypeOK, TxPkt
    <3>2. A \in SUBSET (0 .. last_pkt_num)
      OBVIOUS
    <3>3. A # {}
      OBVIOUS
    <3>4. PICK p \in A : p \in 0 .. last_pkt_num
      BY <3>2, <3>3
    <3> QED
      BY <3>1, <3>2, <3>3, <3>4
  <2>3. Writes(fr, t) /\ Cover(t) = A
    BY <2>2, FrameForWrites
  <2>4. IsLog(log)
    BY <2>1, AckLogIs
  <2> HIDE DEF fr, log, t, s
  <2>5. FrameCover(fr) = A
    BY <2>3, FrameReadsBack
  <2>6. /\ Ordered(log, rs)
        /\ \A i \in 1 .. L : Hit(log, rs, i, 1) <=> log[i].pkt_num \in A
    BY <2>1, <2>3, <2>4, LogAndFrame
  <2>7. Found(log, rs, 1, 1, j)
    BY <2>6, SearchIs
  <2> HIDE DEF rs, j
  <2>8. /\ L \in Nat
        /\ \A i \in 1 .. L : log[i] \in acks /\ log[i].pkt_num \in Int
        /\ \A i, k \in 1 .. L : i < k => log[k].pkt_num < log[i].pkt_num
        /\ \A a \in acks : \E i \in 1 .. L : log[i] = a
    BY <2>1, <2>4 DEF IsLog
  <2>9. \/ j = 0 /\ \A i \in 1 .. L : log[i].pkt_num \notin A
        \/ j \in 1 .. L /\ log[j].pkt_num \in A /\ \A i \in 1 .. j - 1 : log[i].pkt_num \notin A
    <3>1. j \in 1 .. L => \A i \in 1 .. j - 1 : i \in 1 .. L
      BY <2>8
    <3> QED
      BY <2>6, <2>7, <3>1 DEF Found
  <2> HIDE DEF L
  <2>10. CASE j = 0
    <3>1. \A i \in 1 .. L : log[i].pkt_num \notin A
      BY <2>8, <2>9, <2>10
    <3>2. AckedEntry(A) = {}
      BY <2>8, <3>1 DEF AckedEntry
    <3>3. {log[i] : i \in {j} \ {0}} = {}
      BY <2>10
    <3> QED
      BY <2>5, <2>10, <3>2, <3>3 DEF fr, log, j
  <2>11. CASE j # 0
    <3>1. /\ j \in 1 .. L /\ log[j].pkt_num \in A
          /\ \A i \in 1 .. j - 1 : log[i].pkt_num \notin A
      BY <2>9, <2>11
    <3>2. \A i \in 1 .. L : log[i].pkt_num \in A => i = j \/ j < i
      BY <2>8, <3>1
    <3>3. log[j] \in AckedEntry(A)
      <4>1. \A b \in acks : b.pkt_num \in A => b.pkt_num <= log[j].pkt_num
        <5> TAKE b \in acks
        <5>1. PICK i \in 1 .. L : log[i] = b
          BY <2>8
        <5> QED
          BY <2>8, <3>1, <3>2, <5>1
      <4> QED
        BY <2>8, <3>1, <4>1 DEF AckedEntry
    <3>4. ASSUME NEW a \in AckedEntry(A)
          PROVE  a = log[j]
      <4>1. a \in acks /\ a.pkt_num \in A /\ log[j].pkt_num <= a.pkt_num
        BY <2>8, <3>1, <3>4 DEF AckedEntry
      <4>2. PICK i \in 1 .. L : log[i] = a
        BY <2>8, <4>1
      <4>3. i = j \/ j < i
        BY <3>2, <4>1, <4>2
      <4>4. ~(j < i)
        BY <2>8, <3>1, <4>1, <4>2
      <4> QED
        BY <4>2, <4>3, <4>4
    <3>5. AckedEntry(A) = {log[j]}
      BY <3>3, <3>4
    <3>6. {log[i] : i \in {j} \ {0}} = {log[j]}
      BY <2>11
    <3>7. EntsAfterAck(A) = {p \in ents : p > log[j].largest_ack}
      BY <3>5 DEF EntsAfterAck
    <3>8. log[j].largest_ack \in Nat
      BY <2>1, <2>8, <3>1
    <3>9. ListOf(s, ents)
      BY <2>1, RangesOfIs DEF s
    <3>10. Cover(RangeOnAck(s, log[j].largest_ack)) = {p \in ents : p > log[j].largest_ack}
      BY <3>8, <3>9, RangeOnAckIs DEF ListOf
    <3> QED
      BY <2>5, <3>5, <3>6, <3>7, <3>10 DEF fr, log, j, s
  <2> QED
    BY <2>10, <2>11
<1> QED
  BY <1>1, Invariance, PTL
=============================================================================
