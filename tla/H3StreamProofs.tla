--------------------------- MODULE H3StreamProofs ---------------------------
(***************************************************************************)
(* What the operations on the sending side of a stream do, for every       *)
(* stream: the sums they are built from, how far the writing position and  *)
(* the acknowledged position move, and how many bytes of the application   *)
(* they report.  Module H3UploadProofs uses these facts.                   *)
(*                                                                         *)
(* The library's induction theorems take the property as a parameter; here *)
(* the induction is on a set, through its least member.                    *)
(***************************************************************************)
EXTENDS H3Stream, SequenceTheorems, WellFoundedInduction, TLAPS

Kind == {"shared", "private", "alien"}
BufferType == [kind : Kind, len : Nat, base : Nat, at : Nat, bytes : Seq(Nat)]
StreamType ==
  [outq : Seq(BufferType), outq_idx : Nat, outq_offset : Nat, ack_offset : Nat, ack_done : Nat,
   frq : BOOLEAN, read_data_blocked : BOOLEAN, fc_blocked : BOOLEAN, write_end_stream : BOOLEAN,
   scheduled : BOOLEAN]

\* A buffer without bytes is the last one and says that there is no more data.
BuffersFull(s) ==
  \A i \in 1 .. Len(s.outq) :
    s.outq[i].len > 0 \/ (i = Len(s.outq) /\ s.outq[i].kind = "private" /\ ~s.frq)

\* Writing goes on inside the buffer at outq_idx, acknowledging inside the first.
Positions(s) ==
  /\ s.outq_idx <= Len(s.outq)
  /\ IF s.outq_idx = Len(s.outq) THEN s.outq_offset = 0
     ELSE s.outq_offset = 0 \/ s.outq_offset < s.outq[s.outq_idx + 1].len
  /\ IF s.outq = <<>> THEN s.ack_offset = 0
     ELSE s.ack_offset = 0 \/ s.ack_offset < s.outq[1].len

\* What was reported of the first buffer is what is acknowledged of it, when it
\* belongs to the application.
Reported(s) == s.ack_done = IF s.outq # <<>> /\ IsAlien(s.outq[1]) THEN s.ack_offset ELSE 0

StreamOK(s) == s \in StreamType /\ BuffersFull(s) /\ Positions(s) /\ Reported(s)

\* The bytes between the two positions, and those of the application in outq.
InFlight(s) == Upto(s.outq, s.outq_idx) + s.outq_offset - s.ack_offset
Data(s) == DataUpto(s.outq, Len(s.outq))

-----------------------------------------------------------------------------
\* A nonempty set of naturals has a least member.
LEMMA LeastMember ==
  ASSUME NEW S, S \subseteq Nat, S # {}
  PROVE  \E m \in S : \A k \in S : m <= k
<1>1. PICK m \in S : \A k \in S : ~(<<k, m>> \in OpToRel(<, Nat))
  BY NatLessThanWellFounded, WFMin, Zenon
<1>2. \A k \in S : ~(k < m)
  <2> TAKE k \in S
  <2>1. k \in Nat /\ m \in Nat
    OBVIOUS
  <2>2. ~(<<k, m>> \in OpToRel(<, Nat))
    BY <1>1, Zenon
  <2> QED
    BY <2>1, <2>2, Zenon DEF OpToRel
<1>3. \A k \in S : m <= k
  BY <1>2
<1> QED
  BY <1>3, Zenon

\* From a on, the members of P up to n are counted until the first that is missing.
LEMMA FirstMissing ==
  ASSUME NEW n \in Nat, NEW a \in 0 .. n, NEW P
  PROVE  \E i \in a .. n : (\A k \in a + 1 .. i : k \in P) /\ (i < n => i + 1 \notin P)
<1> DEFINE S == {i \in a .. n : i < n => i + 1 \notin P}
<1>1. S \subseteq Nat /\ n \in S
  OBVIOUS
<1>2. PICK m \in S : \A k \in S : m <= k
  BY <1>1, LeastMember, Zenon
<1>3. \A k \in a + 1 .. m : k \in P
  <2> SUFFICES ASSUME NEW k \in a + 1 .. m, k \notin P
               PROVE  FALSE
    OBVIOUS
  <2>1. k - 1 \in a .. n /\ k - 1 < m /\ k - 1 + 1 = k
    BY <1>2
  <2> QED
    BY <1>2, <2>1
<1> QED
  BY <1>2, <1>3

\* Two functions that grow by the same steps differ by what they start with.
SameGrowth(n, f, g) ==
  /\ n \in Nat
  /\ \A i \in 0 .. n : f[i] \in Int /\ g[i] \in Int
  /\ \A i \in 1 .. n : f[i] - f[i - 1] = g[i] - g[i - 1]

SameRise(n, f, g) == \A i \in 0 .. n : f[i] - f[0] = g[i] - g[0]

LEMMA SameSteps ==
  ASSUME NEW n, NEW f, NEW g, SameGrowth(n, f, g)
  PROVE  SameRise(n, f, g)
<1> USE DEF SameGrowth, SameRise
<1> DEFINE S == {i \in 0 .. n : f[i] - f[0] # g[i] - g[0]}
<1> SUFFICES ASSUME S # {}
             PROVE  FALSE
  OBVIOUS
<1>1. S \subseteq Nat
  OBVIOUS
<1>2. PICK m \in S : \A k \in S : m <= k
  BY <1>1, LeastMember, Zenon
<1>3. m \in 1 .. n /\ m - 1 \in 0 .. n /\ m - 1 \notin S
  BY <1>2
<1>4. f[m - 1] - f[0] = g[m - 1] - g[0]
  BY <1>3
<1> QED
  BY <1>2, <1>3, <1>4

\* A function that does not fall from one number to the next is monotone.
LEMMA Monotone ==
  ASSUME NEW n \in Nat, NEW f,
         \A i \in 0 .. n : f[i] \in Int,
         \A i \in 1 .. n : f[i - 1] <= f[i]
  PROVE  \A i, j \in 0 .. n : i <= j => f[i] <= f[j]
<1> SUFFICES ASSUME NEW i \in 0 .. n
             PROVE  \A j \in i .. n : f[i] <= f[j]
  OBVIOUS
<1> DEFINE S == {j \in i .. n : ~(f[i] <= f[j])}
<1> SUFFICES ASSUME S # {}
             PROVE  FALSE
  OBVIOUS
<1>1. S \subseteq Nat
  OBVIOUS
<1>2. PICK m \in S : \A k \in S : m <= k
  BY <1>1, LeastMember, Zenon
<1>3. m \in 1 .. n /\ m - 1 \in i .. n /\ m - 1 \notin S
  BY <1>2
<1> QED
  BY <1>2, <1>3

-----------------------------------------------------------------------------
\* A function on 0 .. m that satisfies the recursive equation of Sums(w).
SumsTo(w, m, g) ==
  /\ g \in [0 .. m -> Nat] /\ g[0] = 0
  /\ \A i \in 1 .. m : g[i] = g[i - 1] + w[i]

LEMMA SumsToExists ==
  ASSUME NEW w \in Seq(Nat)
  PROVE  \E g : SumsTo(w, Len(w), g)
<1> DEFINE S == {m \in 0 .. Len(w) : ~ \E g : SumsTo(w, m, g)}
<1>0. Len(w) \in 0 .. Len(w)
  BY LenProperties
<1> SUFFICES ASSUME S # {}
             PROVE  FALSE
  BY <1>0
<1>1. S \subseteq Nat
  OBVIOUS
<1>2. PICK m \in S : \A k \in S : m <= k
  BY <1>1, LeastMember, Zenon
<1>3. m # 0
  <2>1. SumsTo(w, 0, [i \in 0 .. 0 |-> 0])
    BY DEF SumsTo
  <2> QED
    BY <1>2, <2>1
<1>4. m \in 1 .. Len(w) /\ m - 1 \in 0 .. Len(w) /\ m - 1 \notin S
  BY <1>2, <1>3
<1>5. PICK g : SumsTo(w, m - 1, g)
  BY <1>4
<1> DEFINE h == [i \in 0 .. m |-> IF i = m THEN g[m - 1] + w[m] ELSE g[i]]
<1>6. SumsTo(w, m, h)
  <2>1. w[m] \in Nat /\ m \in Nat /\ m - 1 \in Nat
    BY <1>4
  <2>2. g \in [0 .. m - 1 -> Nat] /\ g[0] = 0 /\ \A i \in 1 .. m - 1 : g[i] = g[i - 1] + w[i]
    BY <1>5 DEF SumsTo
  <2>3. g[m - 1] + w[m] \in Nat
    BY <2>1, <2>2
  <2>4. h \in [0 .. m -> Nat]
    BY <2>1, <2>2, <2>3
  <2>5. h[0] = 0
    BY <1>3, <2>1, <2>2
  <2>6. \A i \in 1 .. m : h[i] = h[i - 1] + w[i]
    <3> TAKE i \in 1 .. m
    <3>1. i \in 0 .. m /\ i - 1 \in 0 .. m /\ i - 1 # m
      BY <2>1
    <3>2. h[i - 1] = g[i - 1]
      BY <3>1
    <3>3. CASE i = m
      BY <3>1, <3>2, <3>3
    <3>4. CASE i # m
      <4>1. i \in 1 .. m - 1
        BY <2>1, <3>4
      <4> QED
        BY <2>2, <3>1, <3>2, <3>4, <4>1
    <3> QED
      BY <3>3, <3>4
  <2> QED
    BY <2>4, <2>5, <2>6 DEF SumsTo
<1> QED
  BY <1>2, <1>6

\* The recursive definition of Sums defines the function it seems to define.
LEMMA SumsIs ==
  ASSUME NEW w \in Seq(Nat)
  PROVE  SumsTo(w, Len(w), Sums(w))
<1> DEFINE n == Len(w)
           F(g) == [i \in 0 .. n |-> IF i = 0 THEN 0 ELSE g[i - 1] + w[i]]
<1>1. n \in Nat
  OBVIOUS
<1>2. PICK g : SumsTo(w, n, g)
  BY SumsToExists
<1>3. g = F(g)
  BY <1>1, <1>2 DEF SumsTo
<1>4. Sums(w) = CHOOSE h : h = F(h)
  BY DEF Sums
<1>5. Sums(w) = F(Sums(w))
  BY <1>3, <1>4
<1> HIDE DEF n
<1> DEFINE f == Sums(w)
<1>6. \A i \in 0 .. n : f[i] = IF i = 0 THEN 0 ELSE f[i - 1] + w[i]
  BY <1>5
<1>7. \A i \in 0 .. n : f[i] = g[i]
  <2> DEFINE S == {i \in 0 .. n : f[i] # g[i]}
  <2> SUFFICES ASSUME S # {}
               PROVE  FALSE
    OBVIOUS
  <2>1. S \subseteq Nat
    OBVIOUS
  <2>2. PICK m \in S : \A k \in S : m <= k
    BY <2>1, LeastMember, Zenon
  <2>3. m # 0
    BY <1>1, <1>2, <1>6, <2>2 DEF SumsTo
  <2>4. m \in 1 .. n /\ m - 1 \in 0 .. n /\ m - 1 \notin S
    BY <1>1, <2>2, <2>3
  <2>5. f[m] = f[m - 1] + w[m] /\ g[m] = g[m - 1] + w[m]
    BY <1>1, <1>2, <1>6, <2>4 DEF SumsTo
  <2> QED
    BY <2>2, <2>4, <2>5
<1>8. f = g
  <2>1. f = [i \in 0 .. n |-> f[i]]
    BY <1>5
  <2>2. g = [i \in 0 .. n |-> g[i]]
    BY <1>2 DEF SumsTo
  <2> QED
    BY <1>7, <2>1, <2>2
<1> QED
  BY <1>2, <1>8 DEF n

-----------------------------------------------------------------------------
\* Upto and DataUpto start at nothing and grow by one buffer at a time.
LEMMA UptoIs ==
  ASSUME NEW q \in Seq(BufferType)
  PROVE  /\ \A i \in 0 .. Len(q) : Upto(q, i) \in Nat
         /\ Upto(q, 0) = 0
         /\ \A i \in 1 .. Len(q) : Upto(q, i) = Upto(q, i - 1) + q[i].len
         /\ \A i, j \in 0 .. Len(q) : i <= j => Upto(q, i) <= Upto(q, j)
<1> DEFINE w == [k \in DOMAIN q |-> q[k].len]
           n == Len(q)
<1>1. n \in Nat /\ DOMAIN q = 1 .. n /\ \A k \in 1 .. n : q[k] \in BufferType
  OBVIOUS
<1>2. w \in Seq(Nat) /\ Len(w) = n
  <2>1. w \in [1 .. n -> Nat]
    BY <1>1 DEF BufferType
  <2> QED
    BY <1>1, <2>1
<1>3. SumsTo(w, n, Sums(w))
  BY <1>2, SumsIs
<1>4. \A i : Upto(q, i) = Sums(w)[i]
  BY DEF Upto
<1>5. \A i \in 1 .. n : w[i] = q[i].len /\ w[i] \in Nat
  BY <1>1 DEF BufferType
<1> HIDE DEF w, n
<1>6. /\ \A i \in 0 .. n : Upto(q, i) \in Nat
      /\ Upto(q, 0) = 0
      /\ \A i \in 1 .. n : Upto(q, i) = Upto(q, i - 1) + q[i].len
  BY <1>3, <1>4, <1>5 DEF SumsTo
<1>7. \A i, j \in 0 .. n : i <= j => Upto(q, i) <= Upto(q, j)
  <2> DEFINE f == [i \in 0 .. n |-> Upto(q, i)]
  <2>1. \A i \in 0 .. n : f[i] = Upto(q, i)
    OBVIOUS
  <2> HIDE DEF f
  <2>2. \A i \in 0 .. n : f[i] \in Int
    BY <1>6, <2>1
  <2>3. \A i \in 1 .. n : f[i - 1] <= f[i]
    <3> TAKE i \in 1 .. n
    <3>1. i \in 0 .. n /\ i - 1 \in 0 .. n /\ q[i].len \in Nat
      BY <1>1, <1>5
    <3>2. Upto(q, i - 1) \in Nat /\ Upto(q, i) = Upto(q, i - 1) + q[i].len
      BY <1>6, <3>1
    <3> QED
      BY <2>1, <3>1, <3>2
  <2>4. \A i, j \in 0 .. n : i <= j => f[i] <= f[j]
    BY <1>1, <2>2, <2>3, Monotone
  <2> QED
    BY <2>1, <2>4
<1> QED
  BY <1>6, <1>7 DEF n

\* The bytes of buffer b that belong to the application.
DataLen(b) == IF IsAlien(b) THEN b.len ELSE 0

LEMMA DataUptoIs ==
  ASSUME NEW q \in Seq(BufferType)
  PROVE  /\ \A i \in 0 .. Len(q) : DataUpto(q, i) \in Nat
         /\ DataUpto(q, 0) = 0
         /\ \A i \in 1 .. Len(q) : DataUpto(q, i) = DataUpto(q, i - 1) + DataLen(q[i])
         /\ \A i, j \in 0 .. Len(q) : i <= j => DataUpto(q, i) <= DataUpto(q, j)
<1> DEFINE w == [k \in DOMAIN q |-> IF IsAlien(q[k]) THEN q[k].len ELSE 0]
           n == Len(q)
<1>1. n \in Nat /\ DOMAIN q = 1 .. n /\ \A k \in 1 .. n : q[k] \in BufferType
  OBVIOUS
<1>2. w \in Seq(Nat) /\ Len(w) = n
  <2>1. w \in [1 .. n -> Nat]
    BY <1>1 DEF BufferType
  <2> QED
    BY <1>1, <2>1
<1>3. SumsTo(w, n, Sums(w))
  BY <1>2, SumsIs
<1>4. \A i : DataUpto(q, i) = Sums(w)[i]
  BY DEF DataUpto
<1>5. \A i \in 1 .. n : w[i] = DataLen(q[i]) /\ w[i] \in Nat
  BY <1>1 DEF BufferType, DataLen
<1> HIDE DEF w, n
<1>6. /\ \A i \in 0 .. n : DataUpto(q, i) \in Nat
      /\ DataUpto(q, 0) = 0
      /\ \A i \in 1 .. n : DataUpto(q, i) = DataUpto(q, i - 1) + DataLen(q[i])
  BY <1>3, <1>4, <1>5 DEF SumsTo
<1>7. \A i, j \in 0 .. n : i <= j => DataUpto(q, i) <= DataUpto(q, j)
  <2> DEFINE f == [i \in 0 .. n |-> DataUpto(q, i)]
  <2>1. \A i \in 0 .. n : f[i] = DataUpto(q, i)
    OBVIOUS
  <2> HIDE DEF f
  <2>2. \A i \in 0 .. n : f[i] \in Int
    BY <1>6, <2>1
  <2>3. \A i \in 1 .. n : f[i - 1] <= f[i]
    <3> TAKE i \in 1 .. n
    <3>1. i \in 0 .. n /\ i - 1 \in 0 .. n /\ DataLen(q[i]) \in Nat
      BY <1>1, <1>5
    <3>2. DataUpto(q, i - 1) \in Nat /\ DataUpto(q, i) = DataUpto(q, i - 1) + DataLen(q[i])
      BY <1>6, <3>1
    <3> QED
      BY <2>1, <3>1, <3>2
  <2>4. \A i, j \in 0 .. n : i <= j => f[i] <= f[j]
    BY <1>1, <2>2, <2>3, Monotone
  <2> QED
    BY <2>1, <2>4
<1> QED
  BY <1>6, <1>7 DEF n

\* The same, from a buffer to the next.
LEMMA NextIs ==
  ASSUME NEW q \in Seq(BufferType), NEW i \in 0 .. Len(q) - 1
  PROVE  /\ Upto(q, i + 1) = Upto(q, i) + q[i + 1].len
         /\ DataUpto(q, i + 1) = DataUpto(q, i) + DataLen(q[i + 1])
<1> DEFINE j == i + 1
<1>1. j \in 1 .. Len(q) /\ j - 1 = i
  OBVIOUS
<1> HIDE DEF j
<1>2. Upto(q, j) = Upto(q, j - 1) + q[j].len
  BY <1>1, UptoIs
<1>3. DataUpto(q, j) = DataUpto(q, j - 1) + DataLen(q[j])
  BY <1>1, DataUptoIs
<1>4. Upto(q, j) = Upto(q, i) + q[j].len /\ DataUpto(q, j) = DataUpto(q, i) + DataLen(q[j])
  BY <1>1, <1>2, <1>3, Zenon
<1> QED
  BY <1>4, Zenon DEF j

\* Queues whose buffers have the same lengths from two places on have the same sums
\* from there on.
SameLens(q, r, p, n) ==
  /\ p \in Nat /\ n \in Nat /\ p + n <= Len(q) /\ n <= Len(r)
  /\ \A i \in 1 .. n : r[i].len = q[p + i].len

LEMMA UptoShift ==
  ASSUME NEW q \in Seq(BufferType), NEW r \in Seq(BufferType), NEW p, NEW n,
         SameLens(q, r, p, n)
  PROVE  \A i \in 0 .. n : Upto(r, i) = Upto(q, p + i) - Upto(q, p)
<1> USE DEF SameLens
<1> DEFINE f == [i \in 0 .. n |-> Upto(r, i)]
           g == [i \in 0 .. n |-> Upto(q, p + i)]
<1>1. \A i \in 0 .. n : f[i] = Upto(r, i) /\ g[i] = Upto(q, p + i)
  OBVIOUS
<1> HIDE DEF f, g
<1>2. /\ Len(q) \in Nat /\ Len(r) \in Nat
      /\ \A i \in 1 .. n : r[i] \in BufferType
      /\ \A i \in 0 .. n : i \in 0 .. Len(r) /\ p + i \in 0 .. Len(q)
  OBVIOUS
<1>3. \A i \in 0 .. n : f[i] \in Int /\ g[i] \in Int
  <2>1. \A i \in 0 .. n : Upto(r, i) \in Nat
    BY <1>2, UptoIs
  <2>2. \A i \in 0 .. n : Upto(q, p + i) \in Nat
    BY <1>2, UptoIs
  <2> QED
    BY <1>1, <2>1, <2>2
<1>4. \A i \in 1 .. n : f[i] - f[i - 1] = g[i] - g[i - 1]
  <2> TAKE i \in 1 .. n
  <2>1. /\ i \in 1 .. Len(r) /\ p + i \in 1 .. Len(q) /\ p + i - 1 = p + (i - 1)
        /\ i - 1 \in 0 .. n /\ i \in 0 .. n
    BY <1>2
  <2>2. Upto(r, i) = Upto(r, i - 1) + r[i].len
    BY <2>1, UptoIs
  <2>3. Upto(q, p + i) = Upto(q, p + (i - 1)) + q[p + i].len
    BY <2>1, UptoIs
  <2>a. /\ f[i] = Upto(r, i) /\ f[i - 1] = Upto(r, i - 1)
        /\ g[i] = Upto(q, p + i) /\ g[i - 1] = Upto(q, p + (i - 1))
    BY <1>1, <2>1
  <2>b. f[i - 1] \in Int /\ g[i - 1] \in Int
    BY <1>3, <2>1
  <2>4. r[i].len \in Nat /\ q[p + i].len = r[i].len
    <3>1. r[i] \in BufferType
      BY <1>2
    <3> QED
      BY <3>1 DEF BufferType
  <2>5. f[i] = f[i - 1] + r[i].len /\ g[i] = g[i - 1] + r[i].len
    BY <2>2, <2>3, <2>4, <2>a
  <2>6. r[i].len \in Nat
    BY <2>4
  <2>7. f[i] - f[i - 1] = r[i].len
    BY <2>5, <2>6, <2>b
  <2>8. g[i] - g[i - 1] = r[i].len
    BY <2>5, <2>6, <2>b
  <2> QED
    BY <2>7, <2>8
<1>5. \A i \in 0 .. n : f[i] - f[0] = g[i] - g[0]
  <2>1. n \in Nat
    OBVIOUS
  <2>2. SameGrowth(n, f, g)
    BY <1>3, <1>4, <2>1, Zenon DEF SameGrowth
  <2>3. SameRise(n, f, g)
    BY <2>2, SameSteps, Zenon
  <2> QED
    BY <2>3, Zenon DEF SameRise
<1>6. f[0] = 0 /\ g[0] = Upto(q, p)
  BY <1>1, UptoIs
<1> QED
  BY <1>1, <1>3, <1>5, <1>6

SameDataLens(q, r, p, n) ==
  /\ p \in Nat /\ n \in Nat /\ p + n <= Len(q) /\ n <= Len(r)
  /\ \A i \in 1 .. n : DataLen(r[i]) = DataLen(q[p + i])

LEMMA DataUptoShift ==
  ASSUME NEW q \in Seq(BufferType), NEW r \in Seq(BufferType), NEW p, NEW n,
         SameDataLens(q, r, p, n)
  PROVE  \A i \in 0 .. n : DataUpto(r, i) = DataUpto(q, p + i) - DataUpto(q, p)
<1> USE DEF SameDataLens
<1> DEFINE f == [i \in 0 .. n |-> DataUpto(r, i)]
           g == [i \in 0 .. n |-> DataUpto(q, p + i)]
<1>1. \A i \in 0 .. n : f[i] = DataUpto(r, i) /\ g[i] = DataUpto(q, p + i)
  OBVIOUS
<1> HIDE DEF f, g
<1>2. /\ Len(q) \in Nat /\ Len(r) \in Nat
      /\ \A i \in 1 .. n : r[i] \in BufferType
      /\ \A i \in 0 .. n : i \in 0 .. Len(r) /\ p + i \in 0 .. Len(q)
  OBVIOUS
<1>3. \A i \in 0 .. n : f[i] \in Int /\ g[i] \in Int
  <2>1. \A i \in 0 .. n : DataUpto(r, i) \in Nat
    BY <1>2, DataUptoIs
  <2>2. \A i \in 0 .. n : DataUpto(q, p + i) \in Nat
    BY <1>2, DataUptoIs
  <2> QED
    BY <1>1, <2>1, <2>2
<1>4. \A i \in 1 .. n : f[i] - f[i - 1] = g[i] - g[i - 1]
  <2> TAKE i \in 1 .. n
  <2>1. /\ i \in 1 .. Len(r) /\ p + i \in 1 .. Len(q) /\ p + i - 1 = p + (i - 1)
        /\ i - 1 \in 0 .. n /\ i \in 0 .. n
    BY <1>2
  <2>2. DataUpto(r, i) = DataUpto(r, i - 1) + DataLen(r[i])
    BY <2>1, DataUptoIs
  <2>3. DataUpto(q, p + i) = DataUpto(q, p + (i - 1)) + DataLen(q[p + i])
    BY <2>1, DataUptoIs
  <2>a. /\ f[i] = DataUpto(r, i) /\ f[i - 1] = DataUpto(r, i - 1)
        /\ g[i] = DataUpto(q, p + i) /\ g[i - 1] = DataUpto(q, p + (i - 1))
    BY <1>1, <2>1
  <2>b. f[i - 1] \in Int /\ g[i - 1] \in Int
    BY <1>3, <2>1
  <2>4. DataLen(r[i]) \in Nat /\ DataLen(q[p + i]) = DataLen(r[i])
    <3>1. r[i] \in BufferType
      BY <1>2
    <3> QED
      BY <3>1 DEF BufferType, DataLen
  <2>5. f[i] = f[i - 1] + DataLen(r[i]) /\ g[i] = g[i - 1] + DataLen(r[i])
    BY <2>2, <2>3, <2>4, <2>a
  <2>6. DataLen(r[i]) \in Nat
    BY <2>4
  <2>7. f[i] - f[i - 1] = DataLen(r[i])
    BY <2>5, <2>6, <2>b
  <2>8. g[i] - g[i - 1] = DataLen(r[i])
    BY <2>5, <2>6, <2>b
  <2> QED
    BY <2>7, <2>8
<1>5. \A i \in 0 .. n : f[i] - f[0] = g[i] - g[0]
  <2>1. n \in Nat
    OBVIOUS
  <2>2. SameGrowth(n, f, g)
    BY <1>3, <1>4, <2>1, Zenon DEF SameGrowth
  <2>3. SameRise(n, f, g)
    BY <2>2, SameSteps, Zenon
  <2> QED
    BY <2>3, Zenon DEF SameRise
<1>6. f[0] = 0 /\ g[0] = DataUpto(q, p)
  BY <1>1, DataUptoIs
<1> QED
  BY <1>1, <1>3, <1>5, <1>6

-----------------------------------------------------------------------------
\* The last buffer of a queue grows by c bytes that are not the application's.
LEMMA GrowLast ==
  ASSUME NEW q \in Seq(BufferType), q # <<>>, q[Len(q)].kind = "shared", NEW c \in Nat
  PROVE  LET n == Len(q)
             r == [q EXCEPT ![n].len = @ + c]
         IN /\ n \in Nat \ {0} /\ r \in Seq(BufferType) /\ Len(r) = n
            /\ \A i \in 1 .. n : i # n => r[i] = q[i]
            /\ r[n].kind = "shared" /\ r[n].len = q[n].len + c
            /\ \A i \in 0 .. n - 1 : Upto(r, i) = Upto(q, i)
            /\ Upto(r, n) = Upto(q, n) + c
            /\ \A i \in 0 .. n : DataUpto(r, i) = DataUpto(q, i)
<1> DEFINE n == Len(q)
           r == [q EXCEPT ![n].len = @ + c]
<1>1. n \in Nat \ {0} /\ n \in 1 .. n /\ DOMAIN q = 1 .. n /\ \A i \in 1 .. n : q[i] \in BufferType
  BY EmptySeq, LenProperties, ElementOfSeq
<1>2. DOMAIN r = 1 .. n /\ (\A i \in 1 .. n : i # n => r[i] = q[i])
      /\ r[n] = [q[n] EXCEPT !.len = @ + c]
  BY <1>1
<1>3. r[n] \in BufferType /\ r[n].kind = "shared" /\ r[n].len = q[n].len + c /\ q[n].len \in Nat
  <2> DEFINE b == q[n]
  <2>0. n \in 1 .. n /\ \A i \in 1 .. n : q[i] \in BufferType
    BY <1>1
  <2>1. b \in BufferType /\ b.kind = "shared"
    BY <2>0
  <2> HIDE DEF b, n, r
  <2>a. b.len \in Nat
    BY <2>1 DEF BufferType
  <2>2. b.len \in Nat /\ b.len + c \in Nat
    BY <2>a
  <2>3. /\ [b EXCEPT !.len = b.len + c] \in BufferType
        /\ [b EXCEPT !.len = b.len + c].kind = "shared"
        /\ [b EXCEPT !.len = b.len + c].len = b.len + c
    BY <2>1, <2>2 DEF BufferType
  <2>4. r[n] = [b EXCEPT !.len = b.len + c]
    BY <1>2 DEF b
  <2> QED
    BY <2>2, <2>3, <2>4 DEF b
<1>4. r \in Seq(BufferType) /\ Len(r) = n
  <2>1. r \in [1 .. n -> BufferType]
    BY <1>1, <1>2, <1>3
  <2> QED
    BY <1>1, <2>1
<1> HIDE DEF n, r
<1>5. \A i \in 0 .. n - 1 : Upto(r, i) = Upto(q, i)
  <2>1. /\ 0 \in Nat /\ n - 1 \in Nat /\ 0 + (n - 1) <= Len(q) /\ n - 1 <= Len(r)
        /\ Upto(q, 0) = 0
    BY <1>1, <1>4, UptoIs DEF n
  <2>2. \A i \in 1 .. n - 1 : r[i].len = q[0 + i].len
    <3> TAKE i \in 1 .. n - 1
    <3>1. i \in 1 .. n /\ i # n /\ 0 + i = i
      BY <1>1
    <3> QED
      BY <1>2, <3>1
  <2>3. \A i \in 0 .. n - 1 : Upto(r, i) = Upto(q, 0 + i) - Upto(q, 0)
    <3>1. /\ r \in Seq(BufferType) /\ 0 \in Nat /\ n - 1 \in Nat
          /\ 0 + (n - 1) <= Len(q) /\ n - 1 <= Len(r)
      BY <1>4, <2>1
    <3>2. SameLens(q, r, 0, n - 1)
      BY <2>2, <3>1, Zenon DEF SameLens
    <3> QED
      BY <1>4, <3>2, UptoShift
  <2>4. \A i \in 0 .. n - 1 : Upto(q, i) \in Nat /\ 0 + i = i
    BY <1>1, UptoIs DEF n
  <2> QED
    BY <2>1, <2>3, <2>4
<1>6. Upto(r, n) = Upto(q, n) + c
  <2>1. Upto(r, n) = Upto(r, n - 1) + r[n].len /\ Upto(q, n) = Upto(q, n - 1) + q[n].len
        /\ Upto(q, n - 1) \in Nat
    BY <1>1, <1>4, UptoIs DEF n
  <2>2. Upto(r, n - 1) = Upto(q, n - 1)
    BY <1>1, <1>5
  <2> QED
    BY <1>3, <2>1, <2>2
<1>7. \A i \in 0 .. n : DataUpto(r, i) = DataUpto(q, i)
  <2>1. 0 + n <= n /\ DataUpto(q, 0) = 0
    BY <1>1, DataUptoIs
  <2>2. \A i \in 1 .. n : DataLen(r[i]) = DataLen(q[0 + i])
    <3>1. DataLen(r[n]) = 0 /\ DataLen(q[n]) = 0
      BY <1>3 DEF DataLen, IsAlien, n
    <3> TAKE i \in 1 .. n
    <3>2. 0 + i = i
      OBVIOUS
    <3>3. DataLen(r[i]) = DataLen(q[i])
      BY <1>2, <3>1
    <3> QED
      BY <3>2, <3>3
  <2>a. 0 \in Nat /\ n \in Nat /\ 0 + n <= Len(q) /\ n <= Len(r)
    BY <1>1, <1>4 DEF n
  <2>b. SameDataLens(q, r, 0, n)
    BY <2>2, <2>a, Zenon DEF SameDataLens
  <2>3. \A i \in 0 .. n : DataUpto(r, i) = DataUpto(q, 0 + i) - DataUpto(q, 0)
    BY <1>4, <2>b, DataUptoShift
  <2>4. \A i \in 0 .. n : DataUpto(q, i) \in Nat /\ 0 + i = i
    BY <1>1, DataUptoIs DEF n
  <2> QED
    BY <2>1, <2>3, <2>4
<1> QED
  BY <1>1, <1>2, <1>3, <1>4, <1>5, <1>6, <1>7, Zenon DEF n, r

\* A buffer is added to a queue.
LEMMA AppendIs ==
  ASSUME NEW q \in Seq(BufferType), NEW b \in BufferType
  PROVE  LET n == Len(q)
             r == Append(q, b)
         IN /\ n \in Nat /\ r \in Seq(BufferType) /\ Len(r) = n + 1
            /\ \A i \in 1 .. n : r[i] = q[i]
            /\ r[n + 1] = b
            /\ \A i \in 0 .. n : Upto(r, i) = Upto(q, i) /\ DataUpto(r, i) = DataUpto(q, i)
            /\ Upto(r, n + 1) = Upto(q, n) + b.len
            /\ DataUpto(r, n + 1) = DataUpto(q, n) + DataLen(b)
<1> DEFINE n == Len(q)
           r == Append(q, b)
<1>1. /\ n \in Nat /\ r \in Seq(BufferType) /\ Len(r) = n + 1
      /\ \A i \in 1 .. n : r[i] = q[i]
      /\ r[n + 1] = b
  BY AppendProperties, LenProperties
<1> HIDE DEF n, r
<1>2. \A i \in 0 .. n : Upto(r, i) = Upto(q, i)
  <2>1. Upto(q, 0) = 0
    BY UptoIs
  <2>a. \A i \in 1 .. n : r[i].len = q[0 + i].len
    <3> TAKE i \in 1 .. n
    <3>1. 0 + i = i
      OBVIOUS
    <3> QED
      BY <1>1, <3>1
  <2>b. r \in Seq(BufferType) /\ 0 \in Nat /\ n \in Nat /\ 0 + n <= Len(q) /\ n <= Len(r)
    BY <1>1 DEF n
  <2>c. SameLens(q, r, 0, n)
    BY <2>a, <2>b, Zenon DEF SameLens
  <2>2. \A i \in 0 .. n : Upto(r, i) = Upto(q, 0 + i) - Upto(q, 0)
    BY <2>b, <2>c, UptoShift
  <2>3. \A i \in 0 .. n : Upto(q, i) \in Nat /\ 0 + i = i
    BY <1>1, UptoIs DEF n
  <2> QED
    BY <2>1, <2>2, <2>3
<1>3. \A i \in 0 .. n : DataUpto(r, i) = DataUpto(q, i)
  <2>1. DataUpto(q, 0) = 0
    BY <1>1, DataUptoIs
  <2>a. \A i \in 1 .. n : DataLen(r[i]) = DataLen(q[0 + i])
    <3> TAKE i \in 1 .. n
    <3>1. 0 + i = i
      OBVIOUS
    <3> QED
      BY <1>1, <3>1
  <2>b. r \in Seq(BufferType) /\ 0 \in Nat /\ n \in Nat /\ 0 + n <= Len(q) /\ n <= Len(r)
    BY <1>1 DEF n
  <2>c. SameDataLens(q, r, 0, n)
    BY <2>a, <2>b, Zenon DEF SameDataLens
  <2>2. \A i \in 0 .. n : DataUpto(r, i) = DataUpto(q, 0 + i) - DataUpto(q, 0)
    BY <2>b, <2>c, DataUptoShift
  <2>3. \A i \in 0 .. n : DataUpto(q, i) \in Nat /\ 0 + i = i
    BY <1>1, DataUptoIs DEF n
  <2> QED
    BY <2>1, <2>2, <2>3
<1>4. Upto(r, n + 1) = Upto(q, n) + b.len /\ DataUpto(r, n + 1) = DataUpto(q, n) + DataLen(b)
  <2>1. n + 1 \in 1 .. Len(r) /\ n + 1 - 1 = n /\ n \in 0 .. n
    BY <1>1
  <2>2. Upto(r, n + 1) = Upto(r, n) + b.len
    BY <1>1, <2>1, UptoIs
  <2>3. DataUpto(r, n + 1) = DataUpto(r, n) + DataLen(b)
    BY <1>1, <2>1, DataUptoIs
  <2> QED
    BY <1>2, <1>3, <2>1, <2>2, <2>3
<1> QED
  BY <1>1, <1>2, <1>3, <1>4, Zenon DEF n, r

\* The first p buffers leave a queue.
LEMMA DropIs ==
  ASSUME NEW q \in Seq(BufferType), NEW p \in 0 .. Len(q)
  PROVE  LET r == SubSeq(q, p + 1, Len(q))
             n == Len(q) - p
         IN /\ n \in Nat /\ r \in Seq(BufferType) /\ Len(r) = n
            /\ \A i \in 1 .. n : r[i] = q[p + i]
            /\ \A i \in 0 .. n : /\ Upto(r, i) = Upto(q, p + i) - Upto(q, p)
                                 /\ DataUpto(r, i) = DataUpto(q, p + i) - DataUpto(q, p)
<1> DEFINE r == SubSeq(q, p + 1, Len(q))
           n == Len(q) - p
<1>1. Len(q) \in Nat /\ n \in Nat /\ p \in Nat /\ \A i \in 1 .. Len(q) : q[i] \in BufferType
  BY LenProperties, ElementOfSeq
<1>2. r \in Seq(BufferType) /\ Len(r) = n /\ \A i \in 1 .. n : r[i] = q[p + i]
  <2>1. \A i \in 1 .. n : p + i \in 1 .. Len(q) /\ p + 1 + i - 1 = p + i
    BY <1>1
  <2>2. r = [i \in 1 .. n |-> q[p + 1 + i - 1]]
    BY <1>1
  <2>3. r \in [1 .. n -> BufferType]
    BY <1>1, <2>1, <2>2
  <2> QED
    BY <1>1, <2>1, <2>2, <2>3
<1>3. p + n <= Len(q) /\ n <= Len(r)
  BY <1>1, <1>2
<1> HIDE DEF r, n
<1>4. \A i \in 0 .. n : Upto(r, i) = Upto(q, p + i) - Upto(q, p)
  <2>1. \A i \in 1 .. n : r[i].len = q[p + i].len
    BY <1>2
  <2>2. p \in Nat /\ n \in Nat /\ r \in Seq(BufferType) /\ p + n <= Len(q) /\ n <= Len(r)
    BY <1>1, <1>2, <1>3
  <2>3. SameLens(q, r, p, n)
    BY <2>1, <2>2, Zenon DEF SameLens
  <2> QED
    BY <2>2, <2>3, UptoShift
<1>5. \A i \in 0 .. n : DataUpto(r, i) = DataUpto(q, p + i) - DataUpto(q, p)
  <2>1. \A i \in 1 .. n : DataLen(r[i]) = DataLen(q[p + i])
    BY <1>2
  <2>2. p \in Nat /\ n \in Nat /\ r \in Seq(BufferType) /\ p + n <= Len(q) /\ n <= Len(r)
    BY <1>1, <1>2, <1>3
  <2>3. SameDataLens(q, r, p, n)
    BY <2>1, <2>2, Zenon DEF SameDataLens
  <2> QED
    BY <2>2, <2>3, DataUptoShift
<1> QED
  BY <1>1, <1>2, <1>4, <1>5, Zenon DEF n, r

-----------------------------------------------------------------------------
LEMMA Fields ==
  ASSUME NEW s \in StreamType
  PROVE  /\ s.outq \in Seq(BufferType) /\ Len(s.outq) \in Nat
         /\ \A i \in 1 .. Len(s.outq) : s.outq[i] \in BufferType /\ s.outq[i].len \in Nat
         /\ s.outq_idx \in Nat /\ s.outq_offset \in Nat
         /\ s.ack_offset \in Nat /\ s.ack_done \in Nat /\ s.frq \in BOOLEAN
         /\ s.outq = <<>> <=> Len(s.outq) = 0
<1>1. s.outq \in Seq(BufferType) /\ s.outq_idx \in Nat /\ s.outq_offset \in Nat
      /\ s.ack_offset \in Nat /\ s.ack_done \in Nat /\ s.frq \in BOOLEAN
  BY DEF StreamType
<1>2. \A i \in 1 .. Len(s.outq) : s.outq[i] \in BufferType
  BY <1>1, ElementOfSeq
<1>3. \A b \in BufferType : b.len \in Nat
  BY DEF BufferType
<1>4. Len(s.outq) \in Nat /\ (s.outq = <<>> <=> Len(s.outq) = 0)
  BY <1>1, LenProperties, EmptySeq
<1> QED
  BY <1>1, <1>2, <1>3, <1>4

\* The operations that only turn flags leave the queue and the positions alone.
SameQueue(s, t) ==
  /\ t \in StreamType
  /\ t.outq = s.outq /\ t.outq_idx = s.outq_idx /\ t.outq_offset = s.outq_offset
  /\ t.ack_offset = s.ack_offset /\ t.ack_done = s.ack_done /\ t.frq = s.frq

LEMMA FlagsOnly ==
  ASSUME NEW s \in StreamType
  PROVE  /\ SameQueue(s, s) /\ SameQueue(s, UnscheduleIfIdle(s)) /\ SameQueue(s, BlockStream(s))
         /\ SameQueue(s, UnblockStream(s)) /\ SameQueue(s, ResumeStream(s))
         /\ SameQueue(s, WriteDataBlocked(s))
<1>1. ASSUME NEW t \in StreamType, NEW v \in BOOLEAN
      PROVE  /\ SameQueue(t, [t EXCEPT !.scheduled = v]) /\ SameQueue(t, [t EXCEPT !.fc_blocked = v])
             /\ SameQueue(t, [t EXCEPT !.read_data_blocked = v])
  BY DEF SameQueue, StreamType
<1>2. ASSUME NEW t \in StreamType
      PROVE  /\ SameQueue(t, t) /\ SameQueue(t, Unschedule(t)) /\ SameQueue(t, UnscheduleIfIdle(t))
             /\ SameQueue(t, EnsureScheduled(t))
  <2>1. SameQueue(t, t)
    BY DEF SameQueue
  <2>2. (t.scheduled \/ RequireSchedule(t)) \in BOOLEAN
    OBVIOUS
  <2> QED
    BY <1>1, <2>1, <2>2 DEF Unschedule, UnscheduleIfIdle, EnsureScheduled
<1>3. \A t, u, v : SameQueue(t, u) /\ SameQueue(u, v) => SameQueue(t, v)
  BY DEF SameQueue
<1>4. \A t, u : SameQueue(t, u) => u \in StreamType
  BY DEF SameQueue
<1> QED
  BY <1>1, <1>2, <1>3, <1>4 DEF BlockStream, UnblockStream, ResumeStream, WriteDataBlocked

LEMMA SameQueueKeeps ==
  ASSUME NEW s, NEW t, SameQueue(s, t)
  PROVE  /\ StreamOK(s) => StreamOK(t)
         /\ InFlight(t) = InFlight(s) /\ Unsent(t) = Unsent(s) /\ Data(t) = Data(s)
  BY DEF SameQueue, StreamOK, BuffersFull, Positions, Reported, InFlight, Unsent, Data

\* What Unsent and InFlight say of the positions.
LEMMA PositionsIs ==
  ASSUME NEW s, StreamOK(s)
  PROVE  LET q == s.outq
             n == Len(s.outq)
         IN /\ \A i \in 0 .. n : Upto(q, i) \in Nat /\ DataUpto(q, i) \in Nat
            /\ Unsent(s) \in Nat /\ InFlight(s) \in Int /\ Data(s) \in Nat
            /\ s.outq_idx \in 0 .. n
<1> DEFINE q == s.outq
           n == Len(s.outq)
           x == s.outq_idx
<1>1. /\ q \in Seq(BufferType) /\ n \in Nat /\ x \in 0 .. n
      /\ s.outq_offset \in Nat /\ s.ack_offset \in Nat
  BY Fields DEF StreamOK, Positions
<1>2. \A i \in 0 .. n : Upto(q, i) \in Nat /\ DataUpto(q, i) \in Nat
  BY <1>1, UptoIs, DataUptoIs
<1>3. InFlight(s) \in Int /\ Data(s) \in Nat
  <2>1. n \in 0 .. n
    BY <1>1
  <2> QED
    BY <1>1, <1>2, <2>1 DEF InFlight, Data
<1>4. Unsent(s) \in Nat
  <2>1. CASE x = n
    <3>1. s.outq_offset = 0 /\ Upto(q, n) \in Nat
      BY <1>1, <1>2, <2>1 DEF StreamOK, Positions
    <3> QED
      BY <2>1, <3>1 DEF Unsent
  <2>2. CASE x # n
    <3>1. x + 1 \in 1 .. n /\ x + 1 - 1 = x
      BY <1>1, <2>2
    <3>a. Upto(q, x + 1) = Upto(q, x) + q[x + 1].len
      <4>1. x \in 0 .. Len(q) - 1
        BY <1>1, <3>1
      <4> QED
        BY <1>1, <4>1, NextIs
    <3>b. Upto(q, x + 1) <= Upto(q, n)
      <4>1. x + 1 \in 0 .. Len(q) /\ n \in 0 .. Len(q) /\ x + 1 <= n
        BY <1>1, <3>1
      <4> QED
        BY <1>1, <4>1, UptoIs
    <3>3. q[x + 1].len \in Nat /\ s.outq_offset <= q[x + 1].len
      BY <1>1, <2>2, <3>1, Fields DEF StreamOK, Positions
    <3>4. Upto(q, x) \in Nat /\ Upto(q, n) \in Nat
      BY <1>1, <1>2
    <3>5. s.outq_offset \in Nat /\ Upto(q, x) + s.outq_offset <= Upto(q, n)
      BY <1>1, <3>a, <3>b, <3>3, <3>4
    <3>6. Unsent(s) = Upto(q, n) - Upto(q, x) - s.outq_offset
      BY DEF Unsent
    <3> QED
      BY <3>4, <3>5, <3>6
  <2> QED
    BY <2>1, <2>2
<1> QED
  BY <1>1, <1>2, <1>3, <1>4

-----------------------------------------------------------------------------
NoneEmpty(s) == \A i \in 1 .. Len(s.outq) : s.outq[i].len > 0

\* Stream t is stream s with buffer b put behind c bytes of frame headers.
Added(s, t, b, c) ==
  /\ InFlight(t) = InFlight(s) /\ Unsent(t) = Unsent(s) + c + b.len
  /\ t.ack_done = s.ack_done
  /\ Data(t) = Data(s) + DataLen(b)
  /\ \A i \in 1 .. Len(t.outq) : IsAlien(t.outq[i]) =>
       \/ /\ i \in 1 .. Len(s.outq) /\ t.outq[i] = s.outq[i]
          /\ DataUpto(t.outq, i - 1) = DataUpto(s.outq, i - 1)
       \/ t.outq[i] = b /\ DataUpto(t.outq, i - 1) = Data(s)

\* A buffer becomes one with the last.
LEMMA OutqMerge ==
  ASSUME NEW s, StreamOK(s), NoneEmpty(s), NEW b \in BufferType, b.len > 0,
         s.outq # <<>>, s.outq[Len(s.outq)].kind = "shared", b.kind = "shared"
  PROVE  LET t == OutqAdd(s, b)
         IN StreamOK(t) /\ NoneEmpty(t) /\ Added(s, t, b, 0) /\ t.frq = s.frq
<1> DEFINE t == OutqAdd(s, b)
           q == s.outq
           n == Len(s.outq)
           x == s.outq_idx
           r == [q EXCEPT ![n].len = @ + b.len]
<1>1. /\ s \in StreamType /\ q \in Seq(BufferType) /\ n \in Nat \ {0} /\ x \in 0 .. n
      /\ s.outq_offset \in Nat /\ s.ack_offset \in Nat /\ s.ack_done \in Nat
      /\ \A i \in 1 .. n : q[i] \in BufferType /\ q[i].len \in Nat
      /\ b.len \in Nat /\ q # <<>> /\ Len(q) = n
  <2>1. s \in StreamType /\ x <= n
    BY DEF StreamOK, Positions
  <2>2. b.len \in Nat
    BY DEF BufferType
  <2>3. /\ q \in Seq(BufferType) /\ n \in Nat /\ n # 0 /\ x \in Nat
        /\ s.outq_offset \in Nat /\ s.ack_offset \in Nat /\ s.ack_done \in Nat
        /\ \A i \in 1 .. n : q[i] \in BufferType /\ q[i].len \in Nat
    BY <2>1, Fields
  <2> QED
    BY <2>1, <2>2, <2>3
<1>2. /\ r \in Seq(BufferType) /\ Len(r) = n
      /\ \A i \in 1 .. n : i # n => r[i] = q[i]
      /\ r[n].kind = "shared" /\ r[n].len = q[n].len + b.len
      /\ \A i \in 0 .. n - 1 : Upto(r, i) = Upto(q, i)
      /\ Upto(r, n) = Upto(q, n) + b.len
      /\ \A i \in 0 .. n : DataUpto(r, i) = DataUpto(q, i)
  <2>1. q \in Seq(BufferType) /\ q # <<>> /\ q[Len(q)].kind = "shared" /\ b.len \in Nat
    BY <1>1
  <2> QED
    BY <2>1, GrowLast, Zenon
<1>3. /\ t \in StreamType /\ t.outq = r
      /\ t.outq_idx = IF n = x THEN n - 1 ELSE x
      /\ t.outq_offset = IF n = x THEN q[n].len ELSE s.outq_offset
      /\ t.ack_offset = s.ack_offset /\ t.ack_done = s.ack_done /\ t.frq = s.frq
  <2>1. t = [s EXCEPT !.outq = r, !.outq_idx = IF n = x THEN n - 1 ELSE @,
                      !.outq_offset = IF n = x THEN q[n].len ELSE @]
    BY <1>1 DEF OutqAdd, StreamType
  <2>2. n - 1 \in Nat /\ q[n].len \in Nat /\ n \in 1 .. n
    BY <1>1
  <2> HIDE DEF n, x, q, r, t
  <2>3. /\ t.outq = r
        /\ t.outq_idx = IF n = x THEN n - 1 ELSE x
        /\ t.outq_offset = IF n = x THEN q[n].len ELSE s.outq_offset
        /\ t.ack_offset = s.ack_offset /\ t.ack_done = s.ack_done /\ t.frq = s.frq
    BY <1>1, <2>1 DEF StreamType, x
  <2>4. t \in StreamType
    BY <1>1, <1>2, <2>1, <2>2 DEF StreamType, x
  <2> QED
    BY <2>3, <2>4
<1>4. /\ x = n => s.outq_offset = 0
      /\ x # n => s.outq_offset = 0 \/ s.outq_offset < q[x + 1].len
      /\ s.ack_offset = 0 \/ s.ack_offset < q[1].len
      /\ s.ack_done = IF IsAlien(q[1]) THEN s.ack_offset ELSE 0
      /\ \A i \in 1 .. n : q[i].len > 0
  BY <1>1 DEF StreamOK, Positions, Reported, NoneEmpty
<1>5. DataLen(b) = 0 /\ ~IsAlien(q[n]) /\ ~IsAlien(r[n])
  BY <1>2 DEF DataLen, IsAlien
<1> HIDE DEF t, q, n, x, r
<1>6. NoneEmpty(t)
  <2>1. \A i \in 1 .. n : r[i].len > 0
    BY <1>1, <1>2, <1>4
  <2> QED
    BY <1>2, <1>3, <2>1 DEF NoneEmpty
<1>7. Positions(t)
  <2>1. t.outq_idx \in 0 .. n - 1 /\ t.outq_idx <= n /\ t.outq_idx # n
    BY <1>1, <1>3
  <2>2. t.outq_offset = 0 \/ t.outq_offset < r[t.outq_idx + 1].len
    <3>1. CASE n = x
      <4>1. t.outq_idx + 1 = n /\ t.outq_offset = q[n].len
        BY <1>1, <1>3, <3>1
      <4>2. q[n].len \in Nat /\ r[n].len = q[n].len + b.len
        BY <1>1, <1>2
      <4> QED
        BY <1>1, <4>1, <4>2
    <3>2. CASE n # x
      <4>1. x + 1 \in 1 .. n /\ t.outq_idx = x /\ t.outq_offset = s.outq_offset
        BY <1>1, <1>3, <3>2
      <4>2. /\ q[x + 1].len \in Nat /\ r[x + 1].len \in Nat
            /\ r[x + 1].len >= q[x + 1].len
        <5>1. r[x + 1].len = q[x + 1].len \/ r[x + 1].len = q[x + 1].len + b.len
          BY <1>2, <4>1
        <5>2. q[x + 1].len \in Nat
          BY <1>1, <4>1
        <5>3. b.len \in Nat
          BY <1>1
        <5> QED
          BY <5>1, <5>2, <5>3
      <4> QED
        BY <1>1, <1>4, <3>2, <4>1, <4>2
    <3> QED
      BY <3>1, <3>2
  <2>3. s.ack_offset = 0 \/ s.ack_offset < r[1].len
    <3>1. q[1].len \in Nat /\ (r[1].len = q[1].len \/ r[1].len = q[1].len + b.len)
      BY <1>1, <1>2
    <3> QED
      BY <1>1, <1>4, <3>1
  <2>4. r # <<>>
    BY <1>1, <1>2, EmptySeq
  <2> QED
    BY <1>2, <1>3, <2>1, <2>2, <2>3, <2>4 DEF Positions
<1>8. Reported(t)
  <2>1. IsAlien(r[1]) <=> IsAlien(q[1])
    BY <1>1, <1>2, <1>5
  <2>2. r # <<>>
    BY <1>1, <1>2, EmptySeq
  <2> QED
    BY <1>3, <1>4, <2>1, <2>2 DEF Reported
<1>9. StreamOK(t)
  BY <1>3, <1>6, <1>7, <1>8 DEF StreamOK, BuffersFull, NoneEmpty
<1>10. InFlight(t) = InFlight(s) /\ Unsent(t) = Unsent(s) + 0 + b.len
  <2>1. \A i \in 0 .. n : Upto(q, i) \in Nat
    BY <1>1, UptoIs
  <2>2. Upto(q, n) = Upto(q, n - 1) + q[n].len /\ q[n].len \in Nat /\ n - 1 \in 0 .. n - 1
    <3>1. n \in 1 .. Len(q)
      BY <1>1
    <3> QED
      BY <1>1, <3>1, UptoIs
  <2>3. /\ InFlight(s) = Upto(q, x) + s.outq_offset - s.ack_offset
        /\ Unsent(s) = Upto(q, n) - Upto(q, x) - s.outq_offset
    BY DEF InFlight, Unsent, n, q, x
  <2>4. /\ InFlight(t) = Upto(r, t.outq_idx) + t.outq_offset - s.ack_offset
        /\ Unsent(t) = Upto(r, n) - Upto(r, t.outq_idx) - t.outq_offset
    BY <1>2, <1>3 DEF InFlight, Unsent
  <2>5. Upto(q, n) \in Nat /\ Upto(q, x) \in Nat /\ Upto(q, n - 1) \in Nat
    BY <1>1, <2>1
  <2>6. CASE n = x
    <3>1. t.outq_idx = n - 1 /\ t.outq_offset = q[n].len /\ s.outq_offset = 0
      BY <1>3, <1>4, <2>6
    <3>2. Upto(r, t.outq_idx) = Upto(q, n - 1) /\ Upto(q, x) = Upto(q, n)
      BY <1>2, <2>2, <2>6, <3>1
    <3>3. Upto(r, n) = Upto(q, n) + b.len /\ b.len \in Nat /\ s.ack_offset \in Nat
      BY <1>1, <1>2
    <3>4. InFlight(t) = InFlight(s)
      <4>1. InFlight(t) = Upto(q, n - 1) + q[n].len - s.ack_offset
        BY <2>4, <3>1, <3>2
      <4>2. InFlight(s) = Upto(q, n) - s.ack_offset
        BY <2>3, <2>5, <3>1, <3>2, <3>3
      <4> QED
        BY <2>2, <2>5, <3>3, <4>1, <4>2
    <3>5. Unsent(s) = 0
      BY <2>3, <2>5, <3>1, <3>2
    <3>6. Unsent(t) = b.len
      BY <2>2, <2>4, <2>5, <3>1, <3>2, <3>3
    <3> QED
      BY <3>3, <3>4, <3>5, <3>6
  <2>7. CASE n # x
    <3>1. t.outq_idx = x /\ t.outq_offset = s.outq_offset /\ x \in 0 .. n - 1
      BY <1>1, <1>3, <2>7
    <3>2. Upto(r, t.outq_idx) = Upto(q, x)
      BY <1>2, <3>1
    <3>3. /\ Upto(r, n) = Upto(q, n) + b.len /\ b.len \in Nat /\ s.ack_offset \in Nat
          /\ s.outq_offset \in Nat
      BY <1>1, <1>2
    <3> QED
      BY <2>3, <2>4, <2>5, <3>1, <3>2, <3>3
  <2> QED
    BY <2>6, <2>7
<1>11. Data(t) = Data(s) + DataLen(b)
  <2>1. Data(t) = DataUpto(q, n) /\ Data(s) = DataUpto(q, n) /\ DataUpto(q, n) \in Nat
    BY <1>1, <1>2, <1>3, DataUptoIs DEF Data, n, q
  <2> QED
    BY <1>5, <2>1
<1>12. ASSUME NEW i \in 1 .. Len(t.outq), IsAlien(t.outq[i])
       PROVE  /\ i \in 1 .. Len(s.outq) /\ t.outq[i] = s.outq[i]
              /\ DataUpto(t.outq, i - 1) = DataUpto(s.outq, i - 1)
  <2>1. i \in 1 .. n /\ i # n /\ i - 1 \in 0 .. n
    BY <1>1, <1>2, <1>3, <1>5, <1>12
  <2> QED
    BY <1>2, <1>3, <2>1 DEF n, q
<1> QED
  BY <1>3, <1>6, <1>9, <1>10, <1>11, <1>12 DEF Added, t

\* A buffer of its own.
LEMMA OutqAppend ==
  ASSUME NEW s, StreamOK(s), NoneEmpty(s), NEW b \in BufferType,
         b.len > 0 \/ (b.kind = "private" /\ ~s.frq),
         ~(Len(s.outq) > 0 /\ s.outq[Len(s.outq)].kind = "shared" /\ b.kind = "shared")
  PROVE  LET t == OutqAdd(s, b)
         IN StreamOK(t) /\ (b.len > 0 => NoneEmpty(t)) /\ Added(s, t, b, 0) /\ t.frq = s.frq
<1> DEFINE t == OutqAdd(s, b)
           q == s.outq
           n == Len(s.outq)
           x == s.outq_idx
           r == Append(q, b)
<1>1. /\ s \in StreamType /\ q \in Seq(BufferType) /\ n \in Nat /\ x \in 0 .. n
      /\ s.outq_offset \in Nat /\ s.ack_offset \in Nat /\ s.ack_done \in Nat
      /\ \A i \in 1 .. n : q[i] \in BufferType /\ q[i].len \in Nat
      /\ b.len \in Nat /\ Len(q) = n /\ (q = <<>> <=> n = 0)
  <2>1. s \in StreamType /\ x <= n
    BY DEF StreamOK, Positions
  <2>2. b.len \in Nat
    BY DEF BufferType
  <2>3. /\ q \in Seq(BufferType) /\ n \in Nat /\ x \in Nat
        /\ s.outq_offset \in Nat /\ s.ack_offset \in Nat /\ s.ack_done \in Nat
        /\ \A i \in 1 .. n : q[i] \in BufferType /\ q[i].len \in Nat
        /\ (q = <<>> <=> n = 0)
    BY <2>1, Fields
  <2> QED
    BY <2>1, <2>2, <2>3
<1>2. /\ r \in Seq(BufferType) /\ Len(r) = n + 1
      /\ \A i \in 1 .. n : r[i] = q[i]
      /\ r[n + 1] = b
      /\ \A i \in 0 .. n : Upto(r, i) = Upto(q, i) /\ DataUpto(r, i) = DataUpto(q, i)
      /\ Upto(r, n + 1) = Upto(q, n) + b.len
      /\ DataUpto(r, n + 1) = DataUpto(q, n) + DataLen(b)
  BY <1>1, AppendIs
<1>3. /\ t \in StreamType /\ t.outq = r /\ t.outq_idx = x /\ t.outq_offset = s.outq_offset
      /\ t.ack_offset = s.ack_offset /\ t.ack_done = s.ack_done /\ t.frq = s.frq
  <2>1. t = [s EXCEPT !.outq = r]
    BY DEF OutqAdd
  <2> HIDE DEF t, q, n, x, r
  <2> QED
    BY <1>1, <1>2, <2>1 DEF StreamType, x
<1>4. /\ x = n => s.outq_offset = 0
      /\ x # n => s.outq_offset = 0 \/ s.outq_offset < q[x + 1].len
      /\ n = 0 => s.ack_offset = 0 /\ s.ack_done = 0
      /\ n # 0 => s.ack_offset = 0 \/ s.ack_offset < q[1].len
      /\ n # 0 => s.ack_done = IF IsAlien(q[1]) THEN s.ack_offset ELSE 0
      /\ \A i \in 1 .. n : q[i].len > 0
  BY <1>1 DEF StreamOK, Positions, Reported, NoneEmpty
<1> HIDE DEF t, q, n, x, r
<1>5. Len(r) = n + 1 /\ r # <<>> /\ x # n + 1 /\ x <= n + 1 /\ n + 1 \in 1 .. n + 1
  BY <1>1, <1>2, EmptySeq
<1>6. Positions(t)
  <2>1. s.outq_offset = 0 \/ s.outq_offset < r[x + 1].len
    <3>1. x # n => x + 1 \in 1 .. n
      BY <1>1
    <3> QED
      BY <1>2, <1>4, <3>1
  <2>2. s.ack_offset = 0 \/ s.ack_offset < r[1].len
    <3>1. n # 0 => 1 \in 1 .. n
      BY <1>1
    <3> QED
      BY <1>2, <1>4, <3>1
  <2> QED
    BY <1>3, <1>5, <2>1, <2>2 DEF Positions
<1>7. Reported(t)
  <2>1. CASE n = 0
    BY <1>3, <1>4, <1>5, <2>1 DEF Reported
  <2>2. CASE n # 0
    <3>1. r[1] = q[1]
      BY <1>1, <1>2, <2>2
    <3> QED
      BY <1>3, <1>4, <1>5, <2>2, <3>1 DEF Reported
  <2> QED
    BY <2>1, <2>2
<1>8. BuffersFull(t) /\ (b.len > 0 => NoneEmpty(t))
  <2>1. \A i \in 1 .. n + 1 : i = n + 1 \/ r[i].len > 0
    BY <1>1, <1>2, <1>4
  <2>2. r[n + 1] = b /\ Len(t.outq) = n + 1 /\ t.outq = r /\ t.frq = s.frq
    BY <1>2, <1>3
  <2> QED
    BY <2>1, <2>2 DEF BuffersFull, NoneEmpty
<1>9. StreamOK(t)
  BY <1>3, <1>6, <1>7, <1>8 DEF StreamOK
<1>10. InFlight(t) = InFlight(s) /\ Unsent(t) = Unsent(s) + 0 + b.len /\ Data(t) = Data(s) + DataLen(b)
  <2>1. \A i \in 0 .. n : Upto(q, i) \in Nat
    BY <1>1, UptoIs
  <2>2. n \in 0 .. n /\ x \in 0 .. n
    BY <1>1
  <2>3. /\ InFlight(s) = Upto(q, x) + s.outq_offset - s.ack_offset
        /\ Unsent(s) = Upto(q, n) - Upto(q, x) - s.outq_offset
        /\ Data(s) = DataUpto(q, n)
    BY DEF InFlight, Unsent, Data, n, q, x
  <2>4. /\ InFlight(t) = Upto(r, x) + s.outq_offset - s.ack_offset
        /\ Unsent(t) = Upto(r, n + 1) - Upto(r, x) - s.outq_offset
        /\ Data(t) = DataUpto(r, n + 1)
    BY <1>2, <1>3 DEF InFlight, Unsent, Data
  <2>5. /\ Upto(q, n) \in Nat /\ Upto(q, x) \in Nat /\ Upto(r, x) = Upto(q, x)
        /\ s.outq_offset \in Nat /\ b.len \in Nat
    BY <1>1, <1>2, <2>1, <2>2
  <2>6. Unsent(t) = Unsent(s) + 0 + b.len
    BY <1>2, <2>3, <2>4, <2>5
  <2> QED
    BY <1>2, <2>3, <2>4, <2>5, <2>6
<1>11. ASSUME NEW i \in 1 .. Len(t.outq), IsAlien(t.outq[i])
       PROVE  \/ /\ i \in 1 .. Len(s.outq) /\ t.outq[i] = s.outq[i]
                 /\ DataUpto(t.outq, i - 1) = DataUpto(s.outq, i - 1)
              \/ t.outq[i] = b /\ DataUpto(t.outq, i - 1) = Data(s)
  <2>1. i \in 1 .. n + 1
    BY <1>2, <1>3
  <2>2. CASE i = n + 1
    <3>1. i - 1 = n /\ n \in 0 .. n
      BY <1>1, <2>2
    <3>2. DataUpto(r, n) = DataUpto(q, n) /\ Data(s) = DataUpto(q, n)
      BY <1>2, <3>1 DEF Data, q, n
    <3> QED
      BY <1>2, <1>3, <2>2, <3>1, <3>2
  <2>3. CASE i # n + 1
    <3>1. i \in 1 .. n /\ i - 1 \in 0 .. n
      BY <1>1, <2>1, <2>3
    <3> QED
      BY <1>2, <1>3, <3>1 DEF q, n
  <2> QED
    BY <2>2, <2>3
<1> QED
  BY <1>3, <1>8, <1>9, <1>10, <1>11 DEF Added, t

\* nghttp3_stream_outq_add, whichever way it goes.
LEMMA OutqAddIs ==
  ASSUME NEW s, StreamOK(s), NoneEmpty(s), NEW b \in BufferType,
         b.len > 0 \/ (b.kind = "private" /\ ~s.frq)
  PROVE  LET t == OutqAdd(s, b)
         IN StreamOK(t) /\ (b.len > 0 => NoneEmpty(t)) /\ Added(s, t, b, 0) /\ t.frq = s.frq
<1>1. CASE Len(s.outq) > 0 /\ s.outq[Len(s.outq)].kind = "shared" /\ b.kind = "shared"
  <2>1. s.outq # <<>>
    BY <1>1, Fields DEF StreamOK
  <2>2. b.len > 0
    BY <1>1
  <2> QED
    BY <1>1, <2>1, <2>2, OutqMerge
<1>2. CASE ~(Len(s.outq) > 0 /\ s.outq[Len(s.outq)].kind = "shared" /\ b.kind = "shared")
  BY <1>2, OutqAppend
<1> QED
  BY <1>1, <1>2

LEMMA WriteDataEofIs ==
  ASSUME NEW s, StreamOK(s), s.frq
  PROVE  LET t == WriteDataEof(s)
         IN /\ StreamOK(t) /\ NoneEmpty(s) /\ NoneEmpty(t) /\ ~t.frq
            /\ t.outq = s.outq /\ t.outq_idx = s.outq_idx /\ t.ack_done = s.ack_done
            /\ InFlight(t) = InFlight(s) /\ Unsent(t) = Unsent(s) /\ Data(t) = Data(s)
<1> DEFINE t == WriteDataEof(s)
<1>1. s \in StreamType
  BY DEF StreamOK
<1>2. /\ t \in StreamType /\ ~t.frq
      /\ t.outq = s.outq /\ t.outq_idx = s.outq_idx /\ t.outq_offset = s.outq_offset
      /\ t.ack_offset = s.ack_offset /\ t.ack_done = s.ack_done
  BY <1>1 DEF WriteDataEof, StreamType
<1> HIDE DEF t
<1>3. NoneEmpty(s) /\ NoneEmpty(t)
  BY <1>2 DEF StreamOK, BuffersFull, NoneEmpty
<1>4. StreamOK(t)
  BY <1>2, <1>3 DEF StreamOK, BuffersFull, NoneEmpty, Positions, Reported
<1>5. InFlight(t) = InFlight(s) /\ Unsent(t) = Unsent(s) /\ Data(t) = Data(s)
  BY <1>2 DEF InFlight, Unsent, Data
<1> QED
  BY <1>2, <1>3, <1>4, <1>5 DEF t

LEMMA BufferTypes ==
  /\ Buffer("shared", 1) \in BufferType /\ Buffer("private", 0) \in BufferType
  /\ Buffer("private", 1) \in BufferType
  /\ DataLen(Buffer("shared", 1)) = 0 /\ DataLen(Buffer("private", 0)) = 0
  /\ ~IsAlien(Buffer("shared", 1)) /\ ~IsAlien(Buffer("private", 0))
  /\ ~IsAlien(Buffer("private", 1))
  /\ Buffer("shared", 1).len = 1 /\ Buffer("private", 0).len = 0
  /\ Buffer("private", 0).kind = "private"
<1>1. <<>> \in Seq(Nat)
  BY EmptySeq
<1> QED
  BY <1>1 DEF Buffer, BufferType, Kind, DataLen, IsAlien

\* A chunk of the body is put behind a frame header of length 1; with the end of
\* file the stream has no more frames.
THEOREM WriteDataIs ==
  ASSUME NEW s, StreamOK(s), s.frq, NEW b \in BufferType, IsAlien(b), b.len > 0,
         NEW eof \in BOOLEAN
  PROVE  LET t == WriteData(s, b, eof)
         IN StreamOK(t) /\ Added(s, t, b, 1) /\ (t.frq <=> ~eof)
<1> DEFINE s1 == IF eof THEN WriteDataEof(s) ELSE s
           h == Buffer("shared", 1)
           s2 == OutqAdd(s1, h)
           t == OutqAdd(s2, b)
<1>1. /\ StreamOK(s1) /\ NoneEmpty(s1) /\ (s1.frq <=> ~eof)
      /\ s1.outq = s.outq /\ s1.ack_done = s.ack_done
      /\ InFlight(s1) = InFlight(s) /\ Unsent(s1) = Unsent(s) /\ Data(s1) = Data(s)
  <2>1. CASE eof
    BY <2>1, WriteDataEofIs
  <2>2. CASE ~eof
    BY <2>2, WriteDataEofIs
  <2> QED
    BY <2>1, <2>2
<1>2. h \in BufferType /\ h.len = 1 /\ DataLen(h) = 0 /\ ~IsAlien(h)
  BY BufferTypes
<1> HIDE DEF s1, h
<1>3. StreamOK(s2) /\ NoneEmpty(s2) /\ Added(s1, s2, h, 0) /\ s2.frq = s1.frq
  BY <1>1, <1>2, OutqAddIs
<1> HIDE DEF s2
<1>4. StreamOK(t) /\ Added(s2, t, b, 0) /\ t.frq = s2.frq
  BY <1>3, OutqAddIs
<1> HIDE DEF t
<1>5. b.len \in Nat /\ Unsent(s) \in Nat /\ Data(s) \in Nat
  BY PositionsIs DEF BufferType
<1>6. /\ InFlight(t) = InFlight(s) /\ Unsent(t) = Unsent(s) + 1 + b.len
      /\ t.ack_done = s.ack_done /\ Data(s2) = Data(s) /\ Data(t) = Data(s) + DataLen(b)
  BY <1>1, <1>2, <1>3, <1>4, <1>5 DEF Added
<1>7. ASSUME NEW i \in 1 .. Len(t.outq), IsAlien(t.outq[i])
      PROVE  \/ /\ i \in 1 .. Len(s.outq) /\ t.outq[i] = s.outq[i]
                /\ DataUpto(t.outq, i - 1) = DataUpto(s.outq, i - 1)
             \/ t.outq[i] = b /\ DataUpto(t.outq, i - 1) = Data(s)
  <2>1. \/ /\ i \in 1 .. Len(s2.outq) /\ t.outq[i] = s2.outq[i]
           /\ DataUpto(t.outq, i - 1) = DataUpto(s2.outq, i - 1)
        \/ t.outq[i] = b /\ DataUpto(t.outq, i - 1) = Data(s2)
    BY <1>4, <1>7 DEF Added
  <2>2. CASE /\ i \in 1 .. Len(s2.outq) /\ t.outq[i] = s2.outq[i]
             /\ DataUpto(t.outq, i - 1) = DataUpto(s2.outq, i - 1)
    <3>1. \/ /\ i \in 1 .. Len(s1.outq) /\ s2.outq[i] = s1.outq[i]
             /\ DataUpto(s2.outq, i - 1) = DataUpto(s1.outq, i - 1)
          \/ s2.outq[i] = h
      BY <1>3, <1>7, <2>2 DEF Added
    <3> QED
      BY <1>1, <1>2, <1>7, <2>2, <3>1
  <2> QED
    BY <1>6, <2>1, <2>2
<1> QED
  BY <1>1, <1>3, <1>4, <1>6, <1>7 DEF Added, WriteData, t, s2, s1, h

\* The end of file alone: an empty buffer, if everything else is written.
THEOREM WriteNoDataIs ==
  ASSUME NEW s, StreamOK(s), s.frq
  PROVE  LET t == WriteNoData(s)
         IN /\ StreamOK(t) /\ ~t.frq /\ t.ack_done = s.ack_done
            /\ InFlight(t) = InFlight(s) /\ Unsent(t) = Unsent(s) /\ Data(t) = Data(s)
            /\ \A i \in 1 .. Len(t.outq) : IsAlien(t.outq[i]) =>
                 /\ i \in 1 .. Len(s.outq) /\ t.outq[i] = s.outq[i]
                 /\ DataUpto(t.outq, i - 1) = DataUpto(s.outq, i - 1)
<1> DEFINE s1 == WriteDataEof(s)
           h == Buffer("private", 0)
           t == OutqAdd(s1, h)
<1>1. /\ StreamOK(s1) /\ NoneEmpty(s1) /\ ~s1.frq /\ s1.outq = s.outq
      /\ s1.ack_done = s.ack_done
      /\ InFlight(s1) = InFlight(s) /\ Unsent(s1) = Unsent(s) /\ Data(s1) = Data(s)
  BY WriteDataEofIs
<1>2. h \in BufferType /\ h.len = 0 /\ h.kind = "private" /\ DataLen(h) = 0 /\ ~IsAlien(h)
  BY BufferTypes
<1>3. WriteNoData(s) = IF OutqWriteDone(s1) THEN t ELSE s1
  BY DEF WriteNoData
<1> HIDE DEF s1, h
<1>4. StreamOK(t) /\ Added(s1, t, h, 0) /\ t.frq = s1.frq
  BY <1>1, <1>2, OutqAddIs
<1> HIDE DEF t
<1>5. CASE OutqWriteDone(s1)
  <2>1. Unsent(s) \in Nat /\ Data(s) \in Nat
    BY PositionsIs
  <2>2. /\ t.ack_done = s.ack_done /\ InFlight(t) = InFlight(s)
        /\ Unsent(t) = Unsent(s) /\ Data(t) = Data(s)
    BY <1>1, <1>2, <1>4, <2>1 DEF Added
  <2>3. \A i \in 1 .. Len(t.outq) : IsAlien(t.outq[i]) =>
          /\ i \in 1 .. Len(s.outq) /\ t.outq[i] = s.outq[i]
          /\ DataUpto(t.outq, i - 1) = DataUpto(s.outq, i - 1)
    BY <1>1, <1>2, <1>4 DEF Added
  <2> QED
    BY <1>1, <1>3, <1>4, <1>5, <2>2, <2>3
<1>6. CASE ~OutqWriteDone(s1)
  BY <1>1, <1>3, <1>6
<1> QED
  BY <1>5, <1>6

-----------------------------------------------------------------------------
\* n bytes are written: the writing position goes on by n bytes, over buffers of
\* any length, and stays inside a buffer or at the end.
THEOREM AddWriteOffsetIs ==
  ASSUME NEW s, StreamOK(s), NEW n \in Nat, n <= Unsent(s)
  PROVE  LET t == AddWriteOffset(s, n)
         IN /\ StreamOK(t) /\ t.outq = s.outq /\ t.ack_done = s.ack_done /\ t.frq = s.frq
            /\ InFlight(t) = InFlight(s) + n /\ Unsent(t) = Unsent(s) - n
<1> DEFINE q == s.outq
           m == Len(s.outq)
           x == s.outq_idx
           offset == s.outq_offset + n
           Before(i) == Upto(q, i) - Upto(q, x)
           Passed(i) == offset - Before(i - 1) >= q[i].len
           Stops(i) == (\A k \in x + 1 .. i : Passed(k)) /\ (i < m => ~Passed(i + 1))
           idx == CHOOSE i \in x .. m : Stops(i)
           u == [s EXCEPT !.outq_idx = idx, !.outq_offset = offset - Before(idx)]
           end == Upto(q, x) + offset
<1>1. AddWriteOffset(s, n) = UnscheduleIfIdle(u)
  BY DEF AddWriteOffset
<1>2. /\ s \in StreamType /\ q \in Seq(BufferType) /\ m \in Nat /\ x \in 0 .. m /\ Len(q) = m
      /\ s.outq_offset \in Nat /\ s.ack_offset \in Nat /\ offset \in Nat
      /\ \A i \in 1 .. m : q[i].len \in Nat
  BY Fields DEF StreamOK, Positions
<1>a. /\ InFlight(s) = Upto(q, x) + s.outq_offset - s.ack_offset
      /\ Unsent(s) = Upto(q, m) - Upto(q, x) - s.outq_offset
  BY DEF InFlight, Unsent
<1> HIDE DEF q, m, x
<1>3. /\ \A i \in 0 .. m : Upto(q, i) \in Nat
      /\ \A i \in 1 .. m : Upto(q, i) = Upto(q, i - 1) + q[i].len
  BY <1>2, UptoIs
<1>4. end \in Nat /\ end <= Upto(q, m)
  <2>1. Upto(q, x) \in Nat /\ Upto(q, m) \in Nat
    BY <1>2, <1>3
  <2>2. n <= Upto(q, m) - Upto(q, x) - s.outq_offset
    BY <1>a
  <2>3. offset = s.outq_offset + n /\ s.outq_offset \in Nat /\ end = Upto(q, x) + offset
    BY <1>2
  <2> HIDE DEF offset, end
  <2> QED
    BY <2>1, <2>2, <2>3
<1>5. \A i \in x + 1 .. m : Passed(i) <=> Upto(q, i) <= end
  <2> TAKE i \in x + 1 .. m
  <2>1. i \in 1 .. m /\ i - 1 \in 0 .. m /\ i \in 0 .. m
    BY <1>2
  <2>2. /\ Upto(q, i) = Upto(q, i - 1) + q[i].len /\ q[i].len \in Nat
        /\ Upto(q, i - 1) \in Nat /\ Upto(q, x) \in Nat
    BY <1>2, <1>3, <2>1
  <2>3. Passed(i) <=> offset - (Upto(q, i - 1) - Upto(q, x)) >= q[i].len
    OBVIOUS
  <2>4. end = Upto(q, x) + offset
    OBVIOUS
  <2> HIDE DEF Passed, end, offset
  <2> QED
    BY <1>2, <2>2, <2>3, <2>4
<1> HIDE DEF Passed
<1>6. idx \in x .. m /\ Stops(idx)
  <2> DEFINE P == {k \in x + 1 .. m : Passed(k)}
  <2>0. \A k \in x + 1 .. m : k \in P <=> Passed(k)
    OBVIOUS
  <2> HIDE DEF P
  <2>1. PICK i \in x .. m : (\A k \in x + 1 .. i : k \in P) /\ (i < m => i + 1 \notin P)
    BY <1>2, FirstMissing
  <2>2. i < m => i + 1 \in x + 1 .. m
    BY <1>2, <2>1
  <2>3. Stops(i)
    BY <1>2, <2>0, <2>1, <2>2
  <2> HIDE DEF Stops
  <2> QED
    BY <2>1, <2>3
<1> HIDE DEF idx, end
<1>7. /\ Upto(q, idx) <= end
      /\ idx < m => end < Upto(q, idx + 1)
  <2>1. CASE idx = x
    <3>1. idx < m => idx + 1 \in x + 1 .. m /\ idx + 1 \in 0 .. m
      BY <1>2, <2>1
    <3>2. Upto(q, x) \in Nat
      BY <1>2, <1>3
    <3>3. Upto(q, idx) <= end
      BY <1>2, <2>1, <3>2 DEF end
    <3> QED
      BY <1>3, <1>4, <1>5, <1>6, <3>1, <3>3
  <2>2. CASE idx # x
    <3>1. idx \in x + 1 .. m /\ idx \in x + 1 .. idx /\ idx \in Nat
      BY <1>2, <1>6, <2>2
    <3>2. idx < m => idx + 1 \in x + 1 .. m /\ idx + 1 \in 0 .. m
      BY <1>2, <3>1
    <3> QED
      BY <1>3, <1>4, <1>5, <1>6, <3>1, <3>2
  <2> QED
    BY <2>1, <2>2
<1>8. idx \in 0 .. m /\ idx \in Nat /\ Upto(q, idx) \in Nat /\ Upto(q, x) \in Nat /\ Upto(q, m) \in Nat
  <2>1. idx \in 0 .. m /\ idx \in Nat /\ m \in 0 .. m
    BY <1>2, <1>6
  <2> QED
    BY <1>2, <1>3, <2>1
<1>9. offset - Before(idx) = end - Upto(q, idx) /\ end - Upto(q, idx) \in Nat
  <2>1. offset - Before(idx) = offset - (Upto(q, idx) - Upto(q, x)) /\ end = Upto(q, x) + offset
    BY DEF end
  <2>2. offset \in Nat /\ end \in Nat /\ Upto(q, idx) <= end
    BY <1>2, <1>4, <1>7
  <2>3. Upto(q, idx) \in Nat /\ Upto(q, x) \in Nat
    BY <1>8
  <2> HIDE DEF Before, offset
  <2> QED
    BY <2>1, <2>2, <2>3
<1> HIDE DEF Stops, Before
<1>10. /\ u \in StreamType /\ u.outq = q /\ u.outq_idx = idx
       /\ u.outq_offset = end - Upto(q, idx)
       /\ u.ack_offset = s.ack_offset /\ u.ack_done = s.ack_done /\ u.frq = s.frq
  <2>1. u = [s EXCEPT !.outq_idx = idx, !.outq_offset = end - Upto(q, idx)]
    BY <1>9
  <2>2. s.outq = q
    BY DEF q
  <2> HIDE DEF u, offset
  <2>3. u \in StreamType
    BY <1>2, <1>8, <1>9, <2>1 DEF StreamType
  <2> QED
    BY <1>2, <2>1, <2>2, <2>3 DEF StreamType
<1> HIDE DEF u, offset
<1>11. Positions(u)
  <2>1. CASE idx = m
    <3>1. u.outq_offset = 0
      BY <1>4, <1>7, <1>8, <1>10, <2>1
    <3> QED
      BY <1>10, <1>8, <2>1, <3>1 DEF StreamOK, Positions, m, q
  <2>2. CASE idx # m
    <3>1. idx < m /\ idx + 1 \in 1 .. m /\ idx + 1 - 1 = idx
      BY <1>2, <1>8, <2>2
    <3>2. Upto(q, idx + 1) = Upto(q, idx) + q[idx + 1].len /\ q[idx + 1].len \in Nat
      <4>1. idx \in 0 .. Len(q) - 1
        BY <1>2, <1>8, <3>1
      <4>2. Upto(q, idx + 1) = Upto(q, idx) + q[idx + 1].len
        BY <1>2, <4>1, NextIs
      <4> QED
        BY <1>2, <3>1, <4>2
    <3>3. u.outq_offset < q[idx + 1].len
      BY <1>4, <1>7, <1>8, <1>10, <3>1, <3>2
    <3> QED
      BY <1>2, <1>10, <1>8, <2>2, <3>1, <3>3 DEF StreamOK, Positions, m, q
  <2> QED
    BY <2>1, <2>2
<1>12. StreamOK(u)
  BY <1>10, <1>11 DEF StreamOK, BuffersFull, Reported, q
<1>13. InFlight(u) = InFlight(s) + n /\ Unsent(u) = Unsent(s) - n
  <2>1. /\ InFlight(u) = Upto(q, idx) + (end - Upto(q, idx)) - s.ack_offset
        /\ Unsent(u) = Upto(q, m) - Upto(q, idx) - (end - Upto(q, idx))
    BY <1>10 DEF InFlight, Unsent, m, q
  <2>2. /\ InFlight(s) = Upto(q, x) + s.outq_offset - s.ack_offset
        /\ Unsent(s) = Upto(q, m) - Upto(q, x) - s.outq_offset
    BY <1>a
  <2>3. end = Upto(q, x) + (s.outq_offset + n)
    BY DEF end, offset
  <2>4. /\ end \in Nat /\ Upto(q, x) \in Nat /\ Upto(q, m) \in Nat /\ Upto(q, idx) \in Nat
        /\ s.outq_offset \in Nat /\ s.ack_offset \in Nat
    BY <1>2, <1>4, <1>8
  <2>5. InFlight(u) = InFlight(s) + n
    BY <2>1, <2>2, <2>3, <2>4
  <2>6. Unsent(u) = Unsent(s) - n
    BY <2>1, <2>2, <2>3, <2>4
  <2> QED
    BY <2>5, <2>6
<1>14. SameQueue(u, UnscheduleIfIdle(u))
  BY <1>10, FlagsOnly
<1>15. /\ StreamOK(UnscheduleIfIdle(u))
       /\ InFlight(UnscheduleIfIdle(u)) = InFlight(u)
       /\ Unsent(UnscheduleIfIdle(u)) = Unsent(u)
  BY <1>12, <1>14, SameQueueKeeps
<1> QED
  BY <1>1, <1>10, <1>13, <1>14, <1>15 DEF SameQueue, q

\* What is reported of the first buffer is no more than it holds.
LEMMA ReportedIs ==
  ASSUME NEW s, StreamOK(s)
  PROVE  /\ s.ack_done <= Data(s)
         /\ s.outq # <<>> => s.ack_done <= DataUpto(s.outq, 1)
         /\ s.outq # <<>> /\ IsAlien(s.outq[1]) => s.ack_done <= s.outq[1].len
<1> DEFINE q == s.outq
           n == Len(s.outq)
<1>1. /\ q \in Seq(BufferType) /\ n \in Nat /\ s.ack_done \in Nat /\ s.ack_offset \in Nat
      /\ \A i \in 1 .. n : q[i] \in BufferType /\ q[i].len \in Nat
      /\ (q = <<>> <=> n = 0) /\ Len(q) = n
  BY Fields DEF StreamOK
<1>2. \A i \in 0 .. n : DataUpto(q, i) \in Nat
  BY <1>1, DataUptoIs
<1>3. Data(s) = DataUpto(q, n)
  BY DEF Data
<1>4. CASE q = <<>>
  <2>1. s.ack_done = 0 /\ n \in 0 .. n
    BY <1>1, <1>4 DEF StreamOK, Reported
  <2>2. Data(s) \in Nat
    BY <1>2, <1>3, <2>1
  <2> QED
    BY <1>4, <2>1, <2>2
<1>5. CASE q # <<>>
  <2>1. 1 \in 1 .. n /\ 0 \in 0 .. n - 1 /\ 1 \in 0 .. n /\ n \in 0 .. n
    BY <1>1, <1>5
  <2>2. DataUpto(q, 1) = DataLen(q[1])
    BY <1>1, <2>1, DataUptoIs DEF DataLen
  <2>3. s.ack_done = IF IsAlien(q[1]) THEN s.ack_offset ELSE 0
    BY <1>5 DEF StreamOK, Reported
  <2>4. s.ack_offset <= q[1].len
    BY <1>1, <1>5, <2>1 DEF StreamOK, Positions
  <2>5. s.ack_done <= DataLen(q[1])
    BY <2>3, <2>4 DEF DataLen
  <2>6. DataUpto(q, 1) <= DataUpto(q, n)
    BY <1>1, <2>1, DataUptoIs
  <2>7. DataUpto(q, 1) \in Nat /\ DataUpto(q, n) \in Nat
    BY <1>2, <2>1
  <2> QED
    BY <1>1, <1>3, <2>2, <2>3, <2>4, <2>5, <2>6, <2>7
<1> QED
  BY <1>4, <1>5

\* The loop of nghttp3_stream_add_ack_offset ends before what is not written, or
\* pops the empty buffer at the end of a queue that is written and acknowledged.
LEMMA PoppedIs ==
  ASSUME NEW s, StreamOK(s), NEW n \in Nat, n <= InFlight(s)
  PROVE  LET p == Popped(s, n)
             q == s.outq
             m == Len(s.outq)
         IN /\ p \in 0 .. m /\ AckLeft(s, n) \in Nat
            /\ \/ /\ p <= s.outq_idx
                  /\ p < m => AckLeft(s, n) < q[p + 1].len
                  /\ p = m => AckLeft(s, n) = 0
               \/ /\ p = s.outq_idx + 1 /\ p = m /\ s.outq_offset = 0 /\ AckLeft(s, n) = 0
                  /\ Upto(q, p) = Upto(q, p - 1)
<1> DEFINE q == s.outq
           m == Len(s.outq)
           x == s.outq_idx
           off == s.outq_offset
           A == s.ack_offset + n
           Good(p) == /\ p <= x + 1 /\ Upto(q, p) <= A
                      /\ p < m /\ p <= x => Upto(q, p + 1) > A
           p == Popped(s, n)
           N == IF x < m THEN x + 1 ELSE m
<1>1. /\ q \in Seq(BufferType) /\ m \in Nat /\ x \in 0 .. m /\ Len(q) = m
      /\ off \in Nat /\ s.ack_offset \in Nat /\ A \in Nat
      /\ \A i \in 1 .. m : q[i].len \in Nat
      /\ (q = <<>> <=> m = 0)
  BY Fields DEF StreamOK, Positions
<1>2. p = CHOOSE i \in 0 .. m : Good(i)
  BY DEF Popped
<1>3. AckLeft(s, n) = s.ack_offset + n - Upto(q, p) /\ A = s.ack_offset + n
  BY DEF AckLeft
<1>4. /\ x = m => off = 0
      /\ x # m => off = 0 \/ off < q[x + 1].len
  BY DEF StreamOK, Positions
<1>5. InFlight(s) = Upto(q, x) + off - s.ack_offset
  BY DEF InFlight
<1>6. \A i \in 1 .. m : q[i].len > 0 \/ i = m
  BY DEF StreamOK, BuffersFull
<1> HIDE DEF q, m, x, off, p
<1>7. /\ \A i \in 0 .. m : Upto(q, i) \in Nat
      /\ Upto(q, 0) = 0
      /\ \A i, j \in 0 .. m : i <= j => Upto(q, i) <= Upto(q, j)
  BY <1>1, UptoIs
<1>8. A <= Upto(q, x) + off
  <2>1. Upto(q, x) \in Nat
    BY <1>1, <1>7
  <2>2. n <= Upto(q, x) + off - s.ack_offset
    BY <1>5
  <2> QED
    BY <1>1, <2>1, <2>2
<1> HIDE DEF A
<1>9. p \in 0 .. m /\ Good(p)
  <2>1. N \in 0 .. m /\ N <= x + 1 /\ N \in Nat /\ \A i : i < m /\ i <= x /\ i \in Nat => i < N
    BY <1>1
  <2> DEFINE P == {k \in 0 .. m : Upto(q, k) <= A}
  <2>2. \A k \in 0 .. m : k \in P <=> Upto(q, k) <= A
    OBVIOUS
  <2> HIDE DEF P, N
  <2>a. 0 \in 0 .. N
    BY <2>1
  <2>3. PICK i \in 0 .. N : (\A k \in 0 + 1 .. i : k \in P) /\ (i < N => i + 1 \notin P)
    BY <2>1, <2>a, FirstMissing
  <2>4. i \in 0 .. m /\ i <= x + 1 /\ i \in Nat
    BY <1>1, <2>1, <2>3
  <2>5. Upto(q, i) <= A
    <3>1. CASE i = 0
      BY <1>1, <1>7, <3>1
    <3>2. CASE i # 0
      <4>1. i \in 0 + 1 .. i
        BY <2>4, <3>2
      <4> QED
        BY <2>2, <2>3, <2>4, <4>1
    <3> QED
      BY <3>1, <3>2
  <2>6. i < m /\ i <= x => Upto(q, i + 1) > A
    <3> SUFFICES ASSUME i < m, i <= x
                 PROVE  Upto(q, i + 1) > A
      OBVIOUS
    <3>a. i < N
      BY <2>1, <2>4
    <3>b. i + 1 \in 0 .. m
      BY <1>1, <2>4
    <3>1. i + 1 \notin P /\ i + 1 \in 0 .. m
      BY <2>3, <3>a, <3>b
    <3>2. ~(Upto(q, i + 1) <= A) /\ Upto(q, i + 1) \in Nat
      BY <1>7, <2>2, <3>1
    <3> QED
      BY <1>1, <3>2
  <2>7. Good(i)
    BY <2>4, <2>5, <2>6
  <2> HIDE DEF Good
  <2> QED
    BY <1>2, <2>4, <2>7
<1>10. Upto(q, p) \in Nat /\ AckLeft(s, n) \in Nat /\ AckLeft(s, n) = A - Upto(q, p)
  <2>1. Upto(q, p) \in Nat /\ Upto(q, p) <= A
    BY <1>7, <1>9
  <2> QED
    BY <1>1, <1>3, <2>1
<1>11. CASE p <= x
  <2>1. p < m => AckLeft(s, n) < q[p + 1].len
    <3> SUFFICES ASSUME p < m
                 PROVE  AckLeft(s, n) < q[p + 1].len
      OBVIOUS
    <3>1. p \in 0 .. Len(q) - 1 /\ p + 1 \in 1 .. m
      BY <1>1, <1>9
    <3>2. Upto(q, p + 1) = Upto(q, p) + q[p + 1].len /\ q[p + 1].len \in Nat
      BY <1>1, <3>1, NextIs
    <3>3. Upto(q, p + 1) > A
      BY <1>9, <1>11
    <3> QED
      BY <1>1, <1>3, <1>10, <3>2, <3>3
  <2>2. p = m => AckLeft(s, n) = 0
    <3> SUFFICES ASSUME p = m
                 PROVE  AckLeft(s, n) = 0
      OBVIOUS
    <3>1. x = m /\ off = 0 /\ p = x
      BY <1>1, <1>4, <1>9, <1>11
    <3> QED
      BY <1>1, <1>3, <1>8, <1>10, <3>1
  <2> QED
    BY <1>9, <1>10, <1>11, <2>1, <2>2 DEF q, m, x, p
<1>12. CASE ~(p <= x)
  <2>a. p \in 0 .. m /\ p <= x + 1 /\ x \in Nat /\ m \in Nat /\ Len(q) = m
    BY <1>1, <1>9
  <2>1. p = x + 1 /\ x < m /\ x \in 0 .. Len(q) - 1 /\ x + 1 \in 1 .. m /\ p - 1 = x
    BY <1>12, <2>a
  <2>2. Upto(q, p) = Upto(q, x) + q[x + 1].len /\ q[x + 1].len \in Nat /\ Upto(q, x) \in Nat
    BY <1>1, <1>7, <2>1, NextIs
  <2>3. q[x + 1].len <= off /\ Upto(q, p) <= A
    BY <1>1, <1>8, <1>9, <2>2
  <2>4. off = 0 /\ q[x + 1].len = 0
    BY <1>1, <1>4, <2>1, <2>2, <2>3
  <2>5. p = m
    BY <1>6, <2>1, <2>4
  <2>6. AckLeft(s, n) = 0
    BY <1>1, <1>3, <1>8, <1>10, <2>2, <2>4
  <2>7. Upto(q, p) = Upto(q, p - 1)
    BY <2>1, <2>2, <2>4
  <2> QED
    BY <1>9, <1>10, <2>1, <2>4, <2>5, <2>6, <2>7 DEF q, m, x, p, off
<1> QED
  BY <1>11, <1>12

\* The stream after nghttp3_stream_add_ack_offset.
LEMMA AckedStream ==
  ASSUME NEW s, StreamOK(s), NEW n \in Nat, n <= InFlight(s)
  PROVE  LET t == AddAckOffset(s, n)
             p == Popped(s, n)
             r == SubSeq(s.outq, p + 1, Len(s.outq))
         IN /\ t \in StreamType /\ t.outq = r /\ t.frq = s.frq
            /\ t.outq_idx = IF p <= s.outq_idx THEN s.outq_idx - p ELSE 0
            /\ t.outq_offset = IF p = s.outq_idx + 1 THEN 0 ELSE s.outq_offset
            /\ t.ack_offset = AckLeft(s, n)
            /\ t.ack_done = IF AckReaches(s, n) THEN AckLeft(s, n)
                            ELSE IF p > 0 THEN 0 ELSE s.ack_done
<1> DEFINE t == AddAckOffset(s, n)
           p == Popped(s, n)
           left == AckLeft(s, n)
           reaches == AckReaches(s, n)
           r == SubSeq(s.outq, p + 1, Len(s.outq))
<1>1. p \in 0 .. Len(s.outq) /\ left \in Nat
  BY PoppedIs
<1>2. s \in StreamType /\ s.outq \in Seq(BufferType)
  BY Fields DEF StreamOK
<1>3. r \in Seq(BufferType)
  BY <1>1, <1>2, DropIs
<1>4. t = [s EXCEPT !.outq = r, !.outq_idx = IF p <= @ THEN @ - p ELSE 0,
                    !.outq_offset = IF p = s.outq_idx + 1 THEN 0 ELSE @,
                    !.ack_offset = left,
                    !.ack_done = IF reaches THEN left ELSE IF p > 0 THEN 0 ELSE @]
  BY DEF AddAckOffset
<1> HIDE DEF t, p, left, reaches, r
<1>5. /\ (IF p <= s.outq_idx THEN s.outq_idx - p ELSE 0) \in Nat
      /\ (IF p = s.outq_idx + 1 THEN 0 ELSE s.outq_offset) \in Nat
      /\ (IF reaches THEN left ELSE IF p > 0 THEN 0 ELSE s.ack_done) \in Nat
  BY <1>1, <1>2, Fields
<1>6. t \in StreamType
  BY <1>1, <1>2, <1>3, <1>4, <1>5 DEF StreamType
<1>7. /\ t.outq = r /\ t.frq = s.frq
      /\ t.outq_idx = IF p <= s.outq_idx THEN s.outq_idx - p ELSE 0
      /\ t.outq_offset = IF p = s.outq_idx + 1 THEN 0 ELSE s.outq_offset
      /\ t.ack_offset = left
      /\ t.ack_done = IF reaches THEN left ELSE IF p > 0 THEN 0 ELSE s.ack_done
  BY <1>2, <1>4 DEF StreamType
<1> QED
  BY <1>6, <1>7 DEF t, p, left, reaches, r

\* n bytes are acknowledged: the acknowledged position goes on by n bytes, also
\* over many buffers and inside one, the writing position stays where it is, and
\* the bytes of the application that are passed are reported, each of them once.
THEOREM AddAckOffsetIs ==
  ASSUME NEW s, StreamOK(s), NEW n \in Nat, n <= InFlight(s)
  PROVE  LET t == AddAckOffset(s, n)
         IN /\ StreamOK(t) /\ t.frq = s.frq
            /\ InFlight(t) = InFlight(s) - n /\ Unsent(t) = Unsent(s)
            /\ AckedData(s, n) \in Nat
            /\ Data(t) - t.ack_done = Data(s) - s.ack_done - AckedData(s, n)
            /\ \A i \in 1 .. Len(t.outq) : \E k \in 1 .. Len(s.outq) :
                 /\ t.outq[i] = s.outq[k]
                 /\ Data(t) - DataUpto(t.outq, i - 1) = Data(s) - DataUpto(s.outq, k - 1)
                 /\ k = 1 => i = 1 /\ s.ack_done <= t.ack_done
<1> DEFINE t == AddAckOffset(s, n)
           p == Popped(s, n)
           left == AckLeft(s, n)
           reaches == AckReaches(s, n)
           q == s.outq
           m == Len(s.outq)
           x == s.outq_idx
           off == s.outq_offset
           r == SubSeq(q, p + 1, m)
           h == m - p
           ad == AckedData(s, n)
<1>1. /\ p \in 0 .. m /\ left \in Nat
      /\ \/ /\ p <= x
            /\ p < m => left < q[p + 1].len
            /\ p = m => left = 0
         \/ /\ p = x + 1 /\ p = m /\ off = 0 /\ left = 0
            /\ Upto(q, p) = Upto(q, p - 1)
  BY PoppedIs
<1>2. /\ t \in StreamType /\ t.outq = r /\ t.frq = s.frq
      /\ t.outq_idx = IF p <= x THEN x - p ELSE 0
      /\ t.outq_offset = IF p = x + 1 THEN 0 ELSE off
      /\ t.ack_offset = left
      /\ t.ack_done = IF reaches THEN left ELSE IF p > 0 THEN 0 ELSE s.ack_done
  BY AckedStream
<1>3. /\ q \in Seq(BufferType) /\ m \in Nat /\ x \in 0 .. m /\ Len(q) = m
      /\ off \in Nat /\ s.ack_offset \in Nat /\ s.ack_done \in Nat
      /\ \A i \in 1 .. m : q[i] \in BufferType /\ q[i].len \in Nat
      /\ (q = <<>> <=> m = 0)
  BY Fields DEF StreamOK, Positions
<1>4. /\ h \in Nat /\ r \in Seq(BufferType) /\ Len(r) = h
      /\ \A i \in 1 .. h : r[i] = q[p + i]
      /\ \A i \in 0 .. h : /\ Upto(r, i) = Upto(q, p + i) - Upto(q, p)
                           /\ DataUpto(r, i) = DataUpto(q, p + i) - DataUpto(q, p)
  BY <1>1, <1>3, DropIs
<1>5. reaches <=> p < m /\ p <= x /\ IsAlien(q[p + 1])
  BY DEF AckReaches
<1>6. /\ left = s.ack_offset + n - Upto(q, p)
      /\ ad = DataUpto(q, p) + (IF reaches THEN left ELSE 0) - s.ack_done
  BY DEF AckLeft, AckedData
<1>7. /\ x = m => off = 0
      /\ x # m => off = 0 \/ off < q[x + 1].len
      /\ m = 0 => s.ack_done = 0
      /\ m # 0 => s.ack_done = IF IsAlien(q[1]) THEN s.ack_offset ELSE 0
  BY <1>3 DEF StreamOK, Positions, Reported
<1>8. /\ InFlight(s) = Upto(q, x) + off - s.ack_offset
      /\ Unsent(s) = Upto(q, m) - Upto(q, x) - off
      /\ Data(s) = DataUpto(q, m)
  BY DEF InFlight, Unsent, Data
<1>9. \A i \in 1 .. m : q[i].len > 0 \/ (i = m /\ q[i].kind = "private" /\ ~s.frq)
  BY DEF StreamOK, BuffersFull
<1>10. s.ack_done <= Data(s) /\ (q # <<>> => s.ack_done <= DataUpto(q, 1))
  BY ReportedIs
<1>11. /\ \A i \in 0 .. m : Upto(q, i) \in Nat /\ DataUpto(q, i) \in Nat
       /\ DataUpto(q, 0) = 0
       /\ \A i, j \in 0 .. m : i <= j => DataUpto(q, i) <= DataUpto(q, j)
  BY <1>3, UptoIs, DataUptoIs
<1>12. Len(t.outq) = h /\ (t.outq = <<>> <=> h = 0)
  BY <1>2, <1>4, EmptySeq
<1>13. \A i \in 1 .. h : p + i \in 1 .. m /\ i - 1 \in 0 .. h /\ p + i - 1 = p + (i - 1)
  <2>1. p \in Nat /\ m \in Nat /\ h \in Nat /\ h = m - p
    BY <1>1, <1>3, <1>4
  <2> QED
    BY <2>1
<1>14. Upto(q, 0) = 0
  BY <1>3, UptoIs
<1> HIDE DEF t, p, left, reaches, q, m, x, off, r, ad
<1>15. BuffersFull(t)
  <2> SUFFICES ASSUME NEW i \in 1 .. h
               PROVE  r[i].len > 0 \/ (i = h /\ r[i].kind = "private" /\ ~s.frq)
    BY <1>2, <1>4, <1>12 DEF BuffersFull
  <2>1. r[i] = q[p + i] /\ p + i \in 1 .. m
    BY <1>4, <1>13
  <2>2. p + i = m => i = h
    BY <1>1, <1>3
  <2> QED
    BY <1>9, <2>1, <2>2
<1>16. Positions(t)
  <2>1. t.outq_idx <= h
    BY <1>1, <1>2, <1>3
  <2>2. IF t.outq_idx = h THEN t.outq_offset = 0
        ELSE t.outq_offset = 0 \/ t.outq_offset < r[t.outq_idx + 1].len
    <3>1. CASE p <= x
      <4>1. t.outq_idx = x - p /\ t.outq_offset = off /\ (x - p = h <=> x = m)
        BY <1>1, <1>2, <1>3, <3>1
      <4>2. x # m => x - p + 1 \in 1 .. h /\ p + (x - p + 1) = x + 1
        BY <1>1, <1>3, <3>1
      <4>3. x # m => r[x - p + 1] = q[x + 1]
        BY <1>4, <4>2
      <4> QED
        BY <1>7, <4>1, <4>3
    <3>2. CASE ~(p <= x)
      BY <1>1, <1>2, <1>3, <3>2
    <3> QED
      BY <3>1, <3>2
  <2>3. IF h = 0 THEN left = 0 ELSE left = 0 \/ left < r[1].len
    <3>1. CASE h = 0
      BY <1>1, <1>3, <3>1
    <3>2. CASE h # 0
      <4>1. 1 \in 1 .. h /\ p < m
        BY <1>1, <1>3, <1>4, <3>2
      <4> QED
        BY <1>1, <1>4, <3>2, <4>1
    <3> QED
      BY <3>1, <3>2
  <2> QED
    BY <1>2, <1>12, <2>1, <2>2, <2>3 DEF Positions
\* What is reported of the buffer that is the first now.
<1>17. /\ t.ack_done = IF reaches THEN left ELSE 0
       /\ reaches <=> h # 0 /\ IsAlien(r[1])
       /\ ad \in Nat /\ ad = DataUpto(q, p) + t.ack_done - s.ack_done
  <2>1. CASE p = 0
    <3>1. Upto(q, p) = 0 /\ DataUpto(q, p) = 0 /\ left = s.ack_offset + n
      BY <1>3, <1>6, <1>11, <1>14, <2>1
    <3>2. h = m /\ p <= x /\ (m # 0 => p < m /\ r[1] = q[1] /\ r[1] = q[p + 1])
      BY <1>3, <1>4, <2>1
    <3>3. reaches <=> h # 0 /\ IsAlien(r[1])
      BY <1>3, <1>5, <2>1, <3>2
    <3>4. t.ack_done = IF reaches THEN left ELSE s.ack_done
      BY <1>2, <2>1
    <3>5. reaches => s.ack_done = s.ack_offset
      BY <1>7, <3>2, <3>3
    <3>6. ~reaches => s.ack_done = 0
      BY <1>7, <3>2, <3>3
    <3> QED
      BY <1>1, <1>3, <1>6, <3>1, <3>3, <3>4, <3>5, <3>6
  <2>2. CASE p # 0
    <3>1. p > 0 /\ 1 \in 0 .. m /\ q # <<>>
      BY <1>1, <1>3, <2>2
    <3>2. DataUpto(q, 1) <= DataUpto(q, p) /\ DataUpto(q, p) \in Nat /\ DataUpto(q, 1) \in Nat
      BY <1>1, <1>3, <1>11, <3>1
    <3>3. s.ack_done <= DataUpto(q, p)
      BY <1>3, <1>10, <3>1, <3>2
    <3>4. t.ack_done = IF reaches THEN left ELSE 0
      BY <1>2, <3>1
    <3>5. reaches <=> h # 0 /\ IsAlien(r[1])
      <4>1. CASE p <= x
        <5>1. p < m <=> h # 0
          BY <1>1, <1>3
        <5>2. h # 0 => r[1] = q[p + 1]
          BY <1>4
        <5> QED
          BY <1>5, <4>1, <5>1, <5>2
      <4>2. CASE ~(p <= x)
        BY <1>1, <1>3, <1>5, <4>2
      <4> QED
        BY <4>1, <4>2
    <3> QED
      BY <1>1, <1>3, <1>6, <3>2, <3>3, <3>4, <3>5
  <2> QED
    BY <2>1, <2>2
<1>18. Reported(t)
  BY <1>2, <1>12, <1>17 DEF Reported
<1>19. StreamOK(t)
  BY <1>2, <1>15, <1>16, <1>18 DEF StreamOK
<1>20. Upto(q, p) \in Nat /\ Upto(q, x) \in Nat /\ Upto(q, m) \in Nat
       /\ DataUpto(q, p) \in Nat /\ DataUpto(q, m) \in Nat
  <2>1. m \in 0 .. m
    BY <1>3
  <2> QED
    BY <1>1, <1>3, <1>11, <2>1
<1>21. Data(t) = Data(s) - DataUpto(q, p)
  <2>1. h \in 0 .. h /\ p + h = m
    BY <1>1, <1>3, <1>4
  <2>2. DataUpto(r, h) = DataUpto(q, p + h) - DataUpto(q, p)
    BY <1>4, <2>1
  <2> QED
    BY <1>2, <1>8, <1>12, <2>1, <2>2 DEF Data
<1>22. InFlight(t) = InFlight(s) - n /\ Unsent(t) = Unsent(s)
  <2>1. /\ InFlight(t) = Upto(r, t.outq_idx) + t.outq_offset - left
        /\ Unsent(t) = Upto(r, h) - Upto(r, t.outq_idx) - t.outq_offset
    BY <1>2, <1>12 DEF InFlight, Unsent
  <2>2. Upto(r, h) = Upto(q, m) - Upto(q, p)
    <3>1. h \in 0 .. h /\ p + h = m
      BY <1>1, <1>3, <1>4
    <3> QED
      BY <1>4, <3>1
  <2>3. CASE p <= x
    <3>1. x - p \in 0 .. h /\ p + (x - p) = x /\ p # x + 1
      BY <1>1, <1>3, <2>3
    <3>2. t.outq_idx = x - p /\ t.outq_offset = off
      BY <1>2, <2>3, <3>1
    <3>3. Upto(r, x - p) = Upto(q, x) - Upto(q, p)
      BY <1>4, <3>1
    <3>4. InFlight(t) = InFlight(s) - n
      <4>1. InFlight(t) = Upto(q, x) - Upto(q, p) + off - left
        BY <2>1, <3>2, <3>3
      <4>2. left \in Nat /\ off \in Nat /\ s.ack_offset \in Nat
        BY <1>1, <1>3
      <4> QED
        BY <1>6, <1>8, <1>20, <4>1, <4>2
    <3>5. Unsent(t) = Unsent(s)
      BY <1>3, <1>8, <1>20, <2>1, <2>2, <3>2, <3>3
    <3> QED
      BY <3>4, <3>5
  <2>4. CASE ~(p <= x)
    <3>1. p = x + 1 /\ p = m /\ off = 0 /\ left = 0 /\ Upto(q, p) = Upto(q, x) /\ h = 0
      BY <1>1, <1>3, <2>4
    <3>2. t.outq_idx = 0 /\ t.outq_offset = 0
      BY <1>2, <2>4, <3>1
    <3>3. Upto(r, 0) = 0
      BY <1>4, UptoIs
    <3> QED
      BY <1>3, <1>6, <1>8, <1>20, <2>1, <3>1, <3>2, <3>3
  <2> QED
    BY <2>3, <2>4
<1>23. Data(t) - t.ack_done = Data(s) - s.ack_done - ad
  <2>1. t.ack_done \in Nat /\ s.ack_done \in Nat /\ Data(s) \in Nat
    BY <1>1, <1>3, <1>8, <1>17, <1>20
  <2>2. ad = DataUpto(q, p) + t.ack_done - s.ack_done /\ ad \in Nat
    BY <1>17
  <2>3. Data(t) - t.ack_done = Data(s) - DataUpto(q, p) - t.ack_done
    BY <1>21
  <2> QED
    BY <1>20, <2>1, <2>2, <2>3
<1>24. ASSUME NEW i \in 1 .. Len(t.outq)
       PROVE  \E k \in 1 .. m :
                /\ t.outq[i] = q[k]
                /\ Data(t) - DataUpto(t.outq, i - 1) = Data(s) - DataUpto(q, k - 1)
                /\ k = 1 => i = 1 /\ s.ack_done <= t.ack_done
  <2>1. i \in 1 .. h /\ p + i \in 1 .. m /\ i - 1 \in 0 .. h /\ p + i - 1 = p + (i - 1)
    BY <1>12, <1>13
  <2>2. t.outq[i] = q[p + i]
    BY <1>2, <1>4, <2>1
  <2>3. DataUpto(r, i - 1) = DataUpto(q, p + (i - 1)) - DataUpto(q, p)
    BY <1>4, <2>1
  <2>4. p + (i - 1) \in 0 .. m
    BY <1>1, <1>3, <2>1
  <2>5. DataUpto(q, p + (i - 1)) \in Nat
    BY <1>11, <2>4
  <2>6. Data(t) - DataUpto(t.outq, i - 1) = Data(s) - DataUpto(q, p + i - 1)
    BY <1>2, <1>8, <1>20, <1>21, <2>1, <2>3, <2>5
  <2>7. p + i = 1 => i = 1 /\ s.ack_done <= t.ack_done
    <3>1. p + i = 1 => p = 0 /\ i = 1
      BY <1>1, <2>1
    <3>2. p = 0 => DataUpto(q, p) = 0
      BY <1>11
    <3>3. t.ack_done \in Nat
      BY <1>1, <1>17
    <3> QED
      BY <1>3, <1>17, <3>1, <3>2, <3>3
  <2> DEFINE k == p + i
  <2>a. k - 1 = p + i - 1
    BY <1>1, <2>1
  <2>8. /\ k \in 1 .. m /\ t.outq[i] = q[k]
        /\ Data(t) - DataUpto(t.outq, i - 1) = Data(s) - DataUpto(q, k - 1)
        /\ k = 1 => i = 1 /\ s.ack_done <= t.ack_done
    BY <2>1, <2>2, <2>6, <2>7, <2>a
  <2> HIDE DEF k
  <2> QED
    BY <2>8
<1> QED
  BY <1>2, <1>17, <1>19, <1>22, <1>23, <1>24 DEF t, q, m, ad
=============================================================================
