-------------------------- MODULE H3DownloadProofs ---------------------------
(***************************************************************************)
(* Theorems of H3Download, for every number of transfers, every size of    *)
(* body, buffer and window.  The invariant DownloadInv says of each        *)
(* transfer what is known of its bytes between two iterations of           *)
(* readwrite_data; its parts that are not properties of H3Download are     *)
(* Arrivals, Room, Pending and Stopped.                                    *)
(***************************************************************************)
EXTENDS H3Download, SequenceTheorems, FiniteSetTheorems, TLAPS

-----------------------------------------------------------------------------
\* Sequences of bytes.

\* Only the empty sequence has no bytes.
LEMMA EmptyIs ==
  ASSUME NEW s \in Seq(Byte)
  PROVE  /\ Len(s) \in Nat /\ (s = <<>> <=> Len(s) = 0)
         /\ DOMAIN s = 1 .. Len(s) /\ \A i \in 1 .. Len(s) : s[i] \in Byte
  BY EmptySeq, LenProperties

\* What two sequences hold together.
LEMMA Join ==
  ASSUME NEW s \in Seq(Byte), NEW u \in Seq(Byte)
  PROVE  /\ s \o u \in Seq(Byte) /\ Len(s \o u) = Len(s) + Len(u)
         /\ Bytes(s \o u) = Bytes(s) \cup Bytes(u)
<1>1. /\ s \o u \in Seq(Byte) /\ Len(s \o u) = Len(s) + Len(u)
      /\ \A i \in 1 .. Len(s) + Len(u) : (s \o u)[i] = IF i <= Len(s) THEN s[i] ELSE u[i - Len(s)]
  BY ConcatProperties
<1>2. /\ DOMAIN (s \o u) = 1 .. Len(s) + Len(u) /\ Len(s) \in Nat /\ Len(u) \in Nat
      /\ DOMAIN s = 1 .. Len(s) /\ DOMAIN u = 1 .. Len(u)
  BY <1>1, EmptyIs
<1>3. ASSUME NEW b \in Bytes(s \o u)
      PROVE  b \in Bytes(s) \cup Bytes(u)
  <2>1. PICK i \in 1 .. Len(s) + Len(u) : b = (s \o u)[i]
    BY <1>2, <1>3 DEF Bytes
  <2>2. CASE i <= Len(s)
    BY <1>1, <1>2, <2>1, <2>2 DEF Bytes
  <2>3. CASE ~(i <= Len(s))
    <3>1. i - Len(s) \in 1 .. Len(u) /\ b = u[i - Len(s)]
      BY <1>1, <1>2, <2>1, <2>3
    <3> QED
      BY <1>2, <3>1 DEF Bytes
  <2> QED
    BY <2>2, <2>3
<1>4. ASSUME NEW b \in Bytes(s)
      PROVE  b \in Bytes(s \o u)
  <2>1. PICK i \in 1 .. Len(s) : b = s[i]
    BY <1>2, <1>4 DEF Bytes
  <2>2. i \in 1 .. Len(s) + Len(u) /\ b = (s \o u)[i]
    BY <1>1, <1>2, <2>1
  <2> QED
    BY <1>2, <2>2 DEF Bytes
<1>5. ASSUME NEW b \in Bytes(u)
      PROVE  b \in Bytes(s \o u)
  <2>1. PICK i \in 1 .. Len(u) : b = u[i]
    BY <1>2, <1>5 DEF Bytes
  <2>2. Len(s) + i \in 1 .. Len(s) + Len(u) /\ b = (s \o u)[Len(s) + i]
    BY <1>1, <1>2, <2>1
  <2> QED
    BY <1>2, <2>2 DEF Bytes
<1> QED
  BY <1>1, <1>3, <1>4, <1>5

\* A sequence is its first n bytes and the rest.
LEMMA Split ==
  ASSUME NEW s \in Seq(Byte), NEW n \in 0 .. Len(s)
  PROVE  /\ SubSeq(s, 1, n) \in Seq(Byte) /\ Len(SubSeq(s, 1, n)) = n
         /\ From(s, n) \in Seq(Byte) /\ Len(From(s, n)) = Len(s) - n
         /\ SubSeq(s, 1, n) \o From(s, n) = s
         /\ Bytes(s) = Bytes(SubSeq(s, 1, n)) \cup Bytes(From(s, n))
<1>1. Len(s) \in Nat /\ n \in Nat /\ \A i \in 1 .. Len(s) : s[i] \in Byte
  BY EmptyIs
<1>2. SubSeq(s, 1, n) \in Seq(Byte) /\ Len(SubSeq(s, 1, n)) = n
  <2>1. \A i \in 1 .. n : s[i] \in Byte
    BY <1>1
  <2>2. /\ SubSeq(s, 1, n) \in Seq(Byte)
        /\ Len(SubSeq(s, 1, n)) = IF 1 <= n THEN n - 1 + 1 ELSE 0
    BY <1>1, <2>1, SubSeqProperties
  <2> QED
    BY <1>1, <2>2
<1>3. From(s, n) \in Seq(Byte) /\ Len(From(s, n)) = Len(s) - n
  <2>1. \A i \in n + 1 .. Len(s) : s[i] \in Byte
    BY <1>1
  <2>2. n + 1 \in Int /\ Len(s) \in Int
    BY <1>1
  <2>3. /\ SubSeq(s, n + 1, Len(s)) \in Seq(Byte)
        /\ Len(SubSeq(s, n + 1, Len(s))) = IF n + 1 <= Len(s) THEN Len(s) - (n + 1) + 1 ELSE 0
    BY <2>1, <2>2, SubSeqProperties
  <2> QED
    BY <1>1, <2>3 DEF From
<1>4. SubSeq(s, 1, n) \o From(s, n) = s
  <2>1. /\ 1 \in 1 .. Len(s) + 1 /\ n \in 1 - 1 .. Len(s) /\ Len(s) \in n .. Len(s)
    BY <1>1
  <2>2. SubSeq(s, 1, n) \o SubSeq(s, n + 1, Len(s)) = SubSeq(s, 1, Len(s))
    BY <2>1, ConcatAdjacentSubSeq
  <2> QED
    BY <2>2, SubSeqFull DEF From
<1> QED
  BY <1>2, <1>3, <1>4, Join

\* As many different bytes need as many places.
LEMMA PlacesFor ==
  ASSUME NEW s \in Seq(Byte), NEW n \in Nat, Bytes(s) = 0 .. n - 1
  PROVE  n <= Len(s)
<1>1. s \in Surjection(1 .. Len(s), Bytes(s))
  <2>1. s \in [1 .. Len(s) -> Byte] /\ DOMAIN s = 1 .. Len(s)
    BY LenProperties
  <2>2. Bytes(s) = {s[i] : i \in 1 .. Len(s)}
    BY <2>1 DEF Bytes
  <2>3. s \in [1 .. Len(s) -> Bytes(s)]
    BY <2>1, <2>2
  <2> QED
    BY <2>2, <2>3 DEF Surjection
<1>2. Len(s) \in Nat /\ IsFiniteSet(1 .. Len(s)) /\ Cardinality(1 .. Len(s)) = Len(s)
  <2>1. Len(s) \in Nat
    BY EmptyIs
  <2>2. 1 \in Int /\ Len(s) \in Int
    BY <2>1
  <2>3. /\ IsFiniteSet(1 .. Len(s))
        /\ Cardinality(1 .. Len(s)) = IF 1 > Len(s) THEN 0 ELSE Len(s) - 1 + 1
    BY <2>2, FS_Interval
  <2> QED
    BY <2>1, <2>3
<1>3. Cardinality(Bytes(s)) <= Len(s)
  BY <1>1, <1>2, FS_Surjection
<1>4. Cardinality(0 .. n - 1) = n
  BY FS_Interval
<1> QED
  BY <1>3, <1>4

-----------------------------------------------------------------------------
\* The buffers of a transfer.

\* The length remembered for a read is that of an empty receive buffer.
LEMMA RememberKeeps ==
  ASSUME NEW h \in Struct, NEW n \in Nat
  PROVE  /\ Remember(h, n) \in Struct
         /\ Remember(h, n).mem = h.mem /\ Remember(h, n).overflow = h.overflow
         /\ Remember(h, n).unacked_window = h.unacked_window
         /\ Remember(h, n).closed = h.closed
         /\ Remember(h, n).len = IF h.mem = <<>> THEN n ELSE h.len
  BY DEF Remember, Struct

\* Draining moves bytes within a transfer, and takes none away.
LEMMA DrainKeeps ==
  ASSUME NEW h \in Struct
  PROVE  LET d == DrainOverflow(h)
         IN /\ d \in Struct
            /\ Len(d.mem) + d.len = Len(h.mem) + h.len
            /\ Bytes(d.mem) \cup Bytes(d.overflow) = Bytes(h.mem) \cup Bytes(h.overflow)
            /\ d.unacked_window = h.unacked_window /\ d.closed = h.closed
            /\ d.overflow = <<>> <=> h.overflow = <<>>
            /\ h.overflow = <<>> => d.mem = h.mem
            /\ d.mem = <<>> => h.mem = <<>> /\ (h.len > 0 => h.overflow = <<>>)
<1> DEFINE n == Least(Len(h.overflow), h.len)
           d == DrainOverflow(h)
           moved == SubSeq(h.overflow, 1, n)
<1>1. /\ h.mem \in Seq(Byte) /\ h.overflow \in Seq(Byte) /\ h.len \in Nat
      /\ Len(h.mem) \in Nat /\ Len(h.overflow) \in Nat
  BY EmptyIs DEF Struct
<1>2. n \in 0 .. Len(h.overflow) /\ n <= h.len
  BY <1>1 DEF Least
<1>3. d = [h EXCEPT !.mem = h.mem \o moved, !.len = h.len - n,
                    !.overflow = IF n = Len(h.overflow) THEN h.overflow ELSE From(h.overflow, n)]
  BY DEF DrainOverflow, Struct
<1>4. /\ moved \in Seq(Byte) /\ Len(moved) = n
      /\ From(h.overflow, n) \in Seq(Byte) /\ Len(From(h.overflow, n)) = Len(h.overflow) - n
      /\ Bytes(h.overflow) = Bytes(moved) \cup Bytes(From(h.overflow, n))
      /\ moved \o From(h.overflow, n) = h.overflow
  BY <1>1, <1>2, Split
<1>5. /\ h.mem \o moved \in Seq(Byte) /\ Len(h.mem \o moved) = Len(h.mem) + n
      /\ Bytes(h.mem \o moved) = Bytes(h.mem) \cup Bytes(moved)
  BY <1>1, <1>4, Join
<1> HIDE DEF n, d, moved
<1>6. /\ d \in Struct /\ d.mem = h.mem \o moved /\ d.len = h.len - n
      /\ d.unacked_window = h.unacked_window /\ d.closed = h.closed
      /\ d.overflow = (IF n = Len(h.overflow) THEN h.overflow ELSE From(h.overflow, n))
  <2> DEFINE m == h.mem \o moved
             l == h.len - n
             o == IF n = Len(h.overflow) THEN h.overflow ELSE From(h.overflow, n)
  <2>1. m \in Seq(Byte) /\ l \in Nat /\ o \in Seq(Byte)
    BY <1>1, <1>2, <1>4, <1>5
  <2>2. d = [h EXCEPT !.mem = m, !.len = l, !.overflow = o]
    BY <1>3
  <2> HIDE DEF m, l, o
  <2>3. /\ d \in Struct /\ d.mem = m /\ d.len = l /\ d.overflow = o
        /\ d.unacked_window = h.unacked_window /\ d.closed = h.closed
    BY <2>1, <2>2 DEF Struct
  <2> QED
    BY <2>3 DEF m, l, o
<1>7. Len(d.mem) + d.len = Len(h.mem) + h.len
  BY <1>1, <1>2, <1>5, <1>6
<1>8. Bytes(d.mem) \cup Bytes(d.overflow) = Bytes(h.mem) \cup Bytes(h.overflow)
  BY <1>4, <1>5, <1>6
<1>9. d.overflow = <<>> <=> h.overflow = <<>>
  <2>1. CASE n = Len(h.overflow)
    BY <1>6, <2>1
  <2>2. CASE n # Len(h.overflow)
    <3>1. Len(d.overflow) # 0 /\ Len(h.overflow) # 0 /\ d.overflow \in Seq(Byte)
      BY <1>1, <1>2, <1>4, <1>6, <2>2
    <3> QED
      BY <1>1, <3>1, EmptyIs
  <2> QED
    BY <2>1, <2>2
<1>10. h.overflow = <<>> => d.mem = h.mem
  <2> SUFFICES ASSUME h.overflow = <<>>
               PROVE  d.mem = h.mem
    OBVIOUS
  <2>1. Len(moved) = 0
    BY <1>1, <1>2, <1>4, EmptyIs
  <2>2. moved = <<>>
    BY <1>4, <2>1, EmptyIs
  <2> QED
    BY <1>1, <1>6, <2>2, ConcatEmptySeq
<1>11. d.mem = <<>> => h.mem = <<>> /\ (h.len > 0 => h.overflow = <<>>)
  <2> SUFFICES ASSUME d.mem = <<>>
               PROVE  h.mem = <<>> /\ (h.len > 0 => h.overflow = <<>>)
    OBVIOUS
  <2>1. Len(d.mem) = 0
    BY EmptySeq
  <2>2. Len(h.mem) = 0 /\ n = 0
    BY <1>1, <1>2, <1>5, <1>6, <2>1
  <2>3. h.len > 0 => Len(h.overflow) = 0
    BY <1>1, <2>2 DEF n, Least
  <2> QED
    BY <1>1, <2>2, <2>3, EmptyIs
<1> QED
  BY <1>6, <1>7, <1>8, <1>9, <1>10, <1>11 DEF d

\* A callback adds what came, to the one buffer or the other.
LEMMA WriteKeeps ==
  ASSUME NEW h \in Struct, NEW new \in Seq(Byte)
  PROVE  LET w == WriteData(h, new)
         IN /\ w \in Struct
            /\ Len(w.mem) + w.len = Len(h.mem) + h.len
            /\ Bytes(w.mem) \cup Bytes(w.overflow) =
                 Bytes(h.mem) \cup Bytes(h.overflow) \cup Bytes(new)
            /\ w.unacked_window = h.unacked_window + Len(new) /\ w.closed = h.closed
            /\ w.overflow = <<>> => h.overflow = <<>> /\ w.mem = h.mem \o new
            /\ w.mem = <<>> => h.mem = <<>>
            /\ w.mem = <<>> /\ h.len > 0 => w.overflow = h.overflow /\ new = <<>>
            /\ w.mem = <<>> /\ w.overflow = <<>> => h.mem = <<>> /\ new = <<>>
<1> DEFINE n == Least(Len(new), h.len)
           w == WriteData(h, new)
           fits == SubSeq(new, 1, n)
           spill == From(new, n)
<1>1. /\ h.mem \in Seq(Byte) /\ h.overflow \in Seq(Byte) /\ h.len \in Nat
      /\ h.unacked_window \in Nat
      /\ Len(h.mem) \in Nat /\ Len(h.overflow) \in Nat /\ Len(new) \in Nat
  BY EmptyIs DEF Struct
<1>2. n \in 0 .. Len(new) /\ n <= h.len
  BY <1>1 DEF Least
<1>3. w = [h EXCEPT !.mem = h.mem \o fits, !.len = h.len - n, !.overflow = h.overflow \o spill,
                    !.unacked_window = h.unacked_window + Len(new)]
  BY DEF WriteData, Struct
<1>4. /\ fits \in Seq(Byte) /\ Len(fits) = n
      /\ spill \in Seq(Byte) /\ Len(spill) = Len(new) - n
      /\ Bytes(new) = Bytes(fits) \cup Bytes(spill) /\ fits \o spill = new
  BY <1>1, <1>2, Split
<1>5. /\ h.mem \o fits \in Seq(Byte) /\ Len(h.mem \o fits) = Len(h.mem) + n
      /\ Bytes(h.mem \o fits) = Bytes(h.mem) \cup Bytes(fits)
      /\ h.overflow \o spill \in Seq(Byte)
      /\ Len(h.overflow \o spill) = Len(h.overflow) + Len(spill)
      /\ Bytes(h.overflow \o spill) = Bytes(h.overflow) \cup Bytes(spill)
  <2> HIDE DEF fits, spill, n
  <2>1. /\ h.mem \o fits \in Seq(Byte) /\ Len(h.mem \o fits) = Len(h.mem) + Len(fits)
        /\ Bytes(h.mem \o fits) = Bytes(h.mem) \cup Bytes(fits)
    BY <1>1, <1>4, Join, Zenon
  <2>2. /\ h.overflow \o spill \in Seq(Byte)
        /\ Len(h.overflow \o spill) = Len(h.overflow) + Len(spill)
        /\ Bytes(h.overflow \o spill) = Bytes(h.overflow) \cup Bytes(spill)
    BY <1>1, <1>4, Join, Zenon
  <2> QED
    BY <1>4, <2>1, <2>2, Zenon
<1>6. n = Len(new) => fits = new /\ spill = <<>>
  <2> SUFFICES ASSUME n = Len(new)
               PROVE  fits = new /\ spill = <<>>
    OBVIOUS
  <2>1. spill = <<>>
    BY <1>1, <1>4, EmptyIs
  <2> QED
    BY <1>4, <2>1, ConcatEmptySeq
<1> HIDE DEF n, w, fits, spill
<1>7. /\ w \in Struct /\ w.mem = h.mem \o fits /\ w.len = h.len - n
      /\ w.overflow = h.overflow \o spill
      /\ w.unacked_window = h.unacked_window + Len(new) /\ w.closed = h.closed
  <2> DEFINE m == h.mem \o fits
             l == h.len - n
             o == h.overflow \o spill
             u == h.unacked_window + Len(new)
  <2>1. m \in Seq(Byte) /\ l \in Nat /\ o \in Seq(Byte) /\ u \in Nat
    BY <1>1, <1>2, <1>5
  <2>2. w = [h EXCEPT !.mem = m, !.len = l, !.overflow = o, !.unacked_window = u]
    BY <1>3
  <2> HIDE DEF m, l, o, u
  <2>3. /\ w \in Struct /\ w.mem = m /\ w.len = l /\ w.overflow = o
        /\ w.unacked_window = u /\ w.closed = h.closed
    BY <2>1, <2>2 DEF Struct
  <2> QED
    BY <2>3 DEF m, l, o, u
<1>8. Len(w.mem) + w.len = Len(h.mem) + h.len
  BY <1>1, <1>2, <1>5, <1>7
<1>9. Bytes(w.mem) \cup Bytes(w.overflow) = Bytes(h.mem) \cup Bytes(h.overflow) \cup Bytes(new)
  BY <1>4, <1>5, <1>7
<1>10. w.overflow = <<>> => h.overflow = <<>> /\ spill = <<>> /\ n = Len(new)
  <2> SUFFICES ASSUME w.overflow = <<>>
               PROVE  h.overflow = <<>> /\ spill = <<>> /\ n = Len(new)
    OBVIOUS
  <2>1. Len(h.overflow) + Len(spill) = 0
    BY <1>5, <1>7, EmptySeq
  <2>2. Len(h.overflow) = 0 /\ Len(spill) = 0 /\ n = Len(new)
    BY <1>1, <1>2, <1>4, <2>1
  <2> QED
    BY <1>1, <1>4, <2>2, EmptyIs
<1>11. w.mem = <<>> => h.mem = <<>> /\ n = 0
  <2> SUFFICES ASSUME w.mem = <<>>
               PROVE  h.mem = <<>> /\ n = 0
    OBVIOUS
  <2>1. Len(h.mem) + n = 0
    BY <1>5, <1>7, EmptySeq
  <2>2. Len(h.mem) = 0 /\ n = 0
    BY <1>1, <1>2, <2>1
  <2> QED
    BY <1>1, <2>2, EmptyIs
<1>12. n = 0 /\ (h.len > 0 \/ n = Len(new)) => new = <<>> /\ spill = <<>>
  <2> SUFFICES ASSUME n = 0, h.len > 0 \/ n = Len(new)
               PROVE  new = <<>> /\ spill = <<>>
    OBVIOUS
  <2>1. Len(new) = 0
    BY <1>1 DEF n, Least
  <2> QED
    BY <1>1, <1>6, <2>1, EmptyIs
<1>13. h.overflow \o <<>> = h.overflow
  BY <1>1, ConcatEmptySeq
<1> QED
  BY <1>6, <1>7, <1>8, <1>9, <1>10, <1>11, <1>12, <1>13 DEF w

-----------------------------------------------------------------------------
\* The invariant.

\* What came from the server, and whose credit was returned.
Arrivals(t) ==
  /\ sent[t] <= Body[t] /\ received[t] <= sent[t]
  /\ t \in fin => sent[t] = Body[t]
  /\ http[t].closed => t \in fin /\ received[t] = sent[t]
  /\ returned[t] + http[t].unacked_window = received[t]

\* Callbacks write within the buffer, and reads within the body.
Room(t) ==
  /\ Len(http[t].mem) + http[t].len <= BufferSize
  /\ t \in Sized => Len(got[t]) <= Body[t] /\ (t \in keepRecv => Len(got[t]) < Body[t])

\* Credit that is still to come back has data that will bring it.
Pending(t) ==
  t \in keepRecv /\ http[t].unacked_window > 0 => http[t].mem # <<>> \/ http[t].overflow # <<>>

\* Without the overflow buffer the bytes are in order.
InOrder(t) ==
  t \notin spilled => http[t].overflow = <<>> /\ got[t] \o http[t].mem = First(received[t])

\* With it, every byte that came is somewhere.
Kept(t) ==
  t \in keepRecv /\ outcome[t] = "running" /\ Len(got[t]) < GotMax =>
    Bytes(got[t]) \cup Bytes(http[t].mem) \cup Bytes(http[t].overflow) = 0 .. received[t] - 1

\* A transfer stops reading when it has read all.
Stopped(t) ==
  /\ outcome[t] # "partial" /\ (outcome[t] = "ok" => t \notin keepRecv)
  /\ t \notin keepRecv => /\ t \in Sized => Len(got[t]) = Body[t]
                          /\ t \notin spilled => got[t] = First(Body[t])

Holds(t) == Arrivals(t) /\ Room(t) /\ Pending(t) /\ InOrder(t) /\ Kept(t) /\ Stopped(t)

DownloadInv == Typed /\ turn \subseteq keepRecv /\ \A t \in Transfer : Holds(t)

\* The numbers of a transfer.
LEMMA Numbers ==
  ASSUME Typed, NEW t \in Transfer
  PROVE  /\ sent[t] \in Nat /\ received[t] \in Nat /\ returned[t] \in Nat
         /\ Body[t] \in Nat \ {0} /\ GotMax \in Nat /\ Body[t] < GotMax
         /\ BufferSize \in Nat \ {0}
         /\ http[t] \in Struct /\ got[t] \in Seq(Byte) /\ Len(got[t]) \in Nat
         /\ \A n \in 0 .. Body[t] : n \in Size
         /\ \A n \in 0 .. Body[t] - 1 : n \in Byte
<1>1. Body[t] \in Nat \ {0} /\ GotMax \in Nat /\ Body[t] < GotMax /\ BufferSize \in Nat \ {0}
  BY H3DownloadAssumption
<1>2. \A n \in Size : n \in Nat
  BY H3DownloadAssumption DEF Size
<1>3. sent[t] \in Size /\ received[t] \in Size /\ returned[t] \in Size
  BY DEF Typed
<1>4. http[t] \in Struct /\ got[t] \in Seq(Byte)
  BY DEF Typed
<1>5. \A n \in 0 .. Body[t] : n \in Size
  BY DEF Size
<1>6. ASSUME NEW n \in 0 .. Body[t] - 1
      PROVE  n \in Byte
  <2>1. n \in 0 .. Body[t] /\ n + 1 \in 0 .. Body[t]
    BY <1>1
  <2> QED
    BY <1>5, <2>1 DEF Byte
<1> QED
  BY <1>1, <1>2, <1>3, <1>4, <1>5, <1>6, EmptyIs

\* What waits in the socket follows what was received.
LEMMA WaitingIs ==
  ASSUME Typed, NEW t \in Transfer, Arrivals(t)
  PROVE  /\ Waiting(t) \in Seq(Byte) /\ Len(Waiting(t)) = sent[t] - received[t]
         /\ Bytes(Waiting(t)) = received[t] .. sent[t] - 1
         /\ First(received[t]) \in Seq(Byte) /\ Len(First(received[t])) = received[t]
         /\ First(sent[t]) \in Seq(Byte) /\ Len(First(sent[t])) = sent[t]
         /\ First(received[t]) \o Waiting(t) = First(sent[t])
<1> DEFINE n == sent[t] - received[t]
<1>1. n \in Nat /\ received[t] \in Nat /\ sent[t] \in Nat /\ sent[t] <= Body[t]
      /\ Body[t] \in Nat /\ \A k \in 0 .. Body[t] - 1 : k \in Byte
  BY Numbers DEF Arrivals
<1>2. Waiting(t) \in Seq(Byte) /\ Len(Waiting(t)) = n
  <2>1. \A i \in 1 .. n : received[t] + i - 1 \in Byte
    BY <1>1
  <2>2. Waiting(t) \in [1 .. n -> Byte]
    BY <2>1 DEF Waiting
  <2> QED
    BY <1>1, <2>2
<1>3. \A k \in 0 .. Body[t] : First(k) \in Seq(Byte) /\ Len(First(k)) = k
  <2> SUFFICES ASSUME NEW k \in 0 .. Body[t]
               PROVE  First(k) \in Seq(Byte) /\ Len(First(k)) = k
    OBVIOUS
  <2>1. \A i \in 1 .. k : i - 1 \in Byte
    BY <1>1
  <2>2. First(k) \in [1 .. k -> Byte]
    BY <2>1 DEF First
  <2> QED
    BY <1>1, <2>2
<1>4. Bytes(Waiting(t)) = received[t] .. sent[t] - 1
  <2>1. \A b : b \in Bytes(Waiting(t)) <=> \E i \in 1 .. n : b = received[t] + i - 1
    BY DEF Bytes, Waiting
  <2>2. ASSUME NEW b \in received[t] .. sent[t] - 1
        PROVE  \E i \in 1 .. n : b = received[t] + i - 1
    <3>1. b - received[t] + 1 \in 1 .. n /\ b = received[t] + (b - received[t] + 1) - 1
      BY <1>1
    <3> QED
      BY <3>1
  <2>3. \A i \in 1 .. n : received[t] + i - 1 \in received[t] .. sent[t] - 1
    BY <1>1
  <2> HIDE DEF n
  <2>4. Bytes(Waiting(t)) \subseteq received[t] .. sent[t] - 1
    BY <2>1, <2>3, Zenon
  <2>5. received[t] .. sent[t] - 1 \subseteq Bytes(Waiting(t))
    BY <2>1, <2>2, Zenon
  <2> QED
    BY <2>4, <2>5, Zenon
<1>5. First(received[t]) \o Waiting(t) = First(sent[t])
  <2> DEFINE s == First(received[t]) \o Waiting(t)
  <2>1. First(received[t]) \in Seq(Byte) /\ Len(First(received[t])) = received[t]
        /\ First(sent[t]) \in Seq(Byte) /\ Len(First(sent[t])) = sent[t]
    BY <1>1, <1>3
  <2>2. /\ s \in Seq(Byte) /\ Len(s) = received[t] + n
        /\ \A i \in 1 .. received[t] + n :
             s[i] = IF i <= received[t] THEN First(received[t])[i] ELSE Waiting(t)[i - received[t]]
    <3> DEFINE a == First(received[t])
               b == Waiting(t)
    <3>1. a \in Seq(Byte) /\ Len(a) = received[t] /\ b \in Seq(Byte) /\ Len(b) = n /\ s = a \o b
      BY <1>2, <2>1
    <3> HIDE DEF a, b, s, n
    <3>2. /\ a \o b \in Seq(Byte) /\ Len(a \o b) = Len(a) + Len(b)
          /\ \A i \in 1 .. Len(a) + Len(b) : (a \o b)[i] = IF i <= Len(a) THEN a[i] ELSE b[i - Len(a)]
      BY <3>1, ConcatProperties
    <3>3. /\ s \in Seq(Byte) /\ Len(s) = received[t] + n
          /\ \A i \in 1 .. received[t] + n : s[i] = IF i <= received[t] THEN a[i] ELSE b[i - received[t]]
      BY <3>1, <3>2
    <3> QED
      BY <3>3 DEF a, b
  <2>3. ASSUME NEW i \in 1 .. received[t] + n
        PROVE  s[i] = First(sent[t])[i]
    <3>1. i \in 1 .. sent[t] /\ First(sent[t])[i] = i - 1
      BY <1>1 DEF First
    <3>2. CASE i <= received[t]
      <4>1. First(received[t])[i] = i - 1
        BY <1>1, <3>2 DEF First
      <4> QED
        BY <2>2, <3>1, <3>2, <4>1
    <3>3. CASE ~(i <= received[t])
      <4>1. i - received[t] \in 1 .. n
        BY <1>1, <3>3
      <4>2. Waiting(t)[i - received[t]] = received[t] + (i - received[t]) - 1
        BY <4>1 DEF Waiting
      <4> QED
        BY <1>1, <2>2, <3>1, <3>3, <4>2
    <3> QED
      BY <3>2, <3>3
  <2>4. Len(s) = Len(First(sent[t]))
    BY <1>1, <2>1, <2>2
  <2> QED
    BY <2>1, <2>2, <2>3, <2>4, SeqEqual
<1> QED
  BY <1>1, <1>2, <1>3, <1>4, <1>5

\* What a read asks for fits the receive buffer; while the transfer reads it
\* is something.
LEMMA WantedIs ==
  ASSUME Typed, NEW t \in Transfer, Room(t)
  PROVE  Wanted(t) \in Nat /\ Wanted(t) <= BufferSize /\ (t \in keepRecv => Wanted(t) > 0)
  BY Numbers DEF Wanted, Least, Room

\* A read of t fills the buffers of every transfer u from the socket.
LEMMA FilledKeeps ==
  ASSUME DownloadInv, NEW t \in Transfer, NEW u \in Transfer
  PROVE  LET f == Filled(t)[u]
             h == http[u]
         IN /\ f \in Struct
            /\ Len(f.mem) + f.len <= BufferSize
            /\ f.unacked_window = h.unacked_window + (sent[u] - received[u])
            /\ f.closed = (u \in fin)
            /\ Bytes(f.mem) \cup Bytes(f.overflow) =
                 Bytes(h.mem) \cup Bytes(h.overflow) \cup received[u] .. sent[u] - 1
            /\ f.mem = <<>> /\ f.overflow = <<>> =>
                 h.mem = <<>> /\ h.overflow = <<>> /\ sent[u] = received[u]
            /\ h.overflow = <<>> /\ f.overflow = <<>> => f.mem = h.mem \o Waiting(u)
            /\ u = t /\ t \in keepRecv /\ f.mem = <<>> => f.overflow = <<>>
<1> DEFINE f == Filled(t)[u]
           h == http[u]
           r == Remember(http[t], Wanted(t))
           d == IF u = t THEN DrainOverflow(r) ELSE h
           w == WriteData(d, Waiting(u))
<1>1. /\ Typed /\ Holds(t) /\ Holds(u) /\ h \in Struct /\ http[t] \in Struct
      /\ Wanted(t) \in Nat /\ Wanted(t) <= BufferSize /\ (t \in keepRecv => Wanted(t) > 0)
      /\ BufferSize \in Nat /\ sent[u] \in Nat /\ received[u] \in Nat /\ received[u] <= sent[u]
  BY WantedIs, Numbers DEF DownloadInv, Holds, Arrivals
<1>2. f = [w EXCEPT !.closed = u \in fin]
  <2>1. [http EXCEPT ![t] = DrainOverflow(r)][u] = d
    BY <1>1 DEF Typed
  <2> QED
    BY <2>1 DEF Filled, Ingress
<1>3. /\ Waiting(u) \in Seq(Byte) /\ Len(Waiting(u)) = sent[u] - received[u]
      /\ Bytes(Waiting(u)) = received[u] .. sent[u] - 1
  BY <1>1, WaitingIs DEF Holds
<1>4. /\ h.mem \in Seq(Byte) /\ h.overflow \in Seq(Byte) /\ h.len \in Nat
      /\ h.unacked_window \in Nat /\ Len(h.mem) \in Nat /\ Len(h.mem) + h.len <= BufferSize
  BY <1>1, EmptyIs DEF Struct, Holds, Room
<1>5. /\ d \in Struct
      /\ Len(d.mem) + d.len <= BufferSize
      /\ Bytes(d.mem) \cup Bytes(d.overflow) = Bytes(h.mem) \cup Bytes(h.overflow)
      /\ d.unacked_window = h.unacked_window
      /\ d.overflow = <<>> <=> h.overflow = <<>>
      /\ h.overflow = <<>> => d.mem = h.mem
      /\ d.mem = <<>> => h.mem = <<>>
      /\ u = t /\ t \in keepRecv /\ d.mem = <<>> => d.overflow = <<>> /\ d.len > 0
  <2>1. CASE u # t
    BY <1>1, <1>4, <2>1
  <2>2. CASE u = t
    <3>1. /\ r \in Struct /\ r.mem = h.mem /\ r.overflow = h.overflow
          /\ r.unacked_window = h.unacked_window
          /\ r.len = IF h.mem = <<>> THEN Wanted(t) ELSE h.len
      BY <1>1, <2>2, RememberKeeps
    <3>2. Len(r.mem) + r.len <= BufferSize
      <4>1. h.mem = <<>> => Len(h.mem) = 0
        BY EmptySeq
      <4> QED
        BY <1>1, <1>4, <3>1, <4>1
    <3>3. d = DrainOverflow(r)
      BY <2>2
    <3> HIDE DEF r, d, h
    <3>4. /\ d \in Struct
          /\ Len(d.mem) + d.len = Len(r.mem) + r.len
          /\ Bytes(d.mem) \cup Bytes(d.overflow) = Bytes(r.mem) \cup Bytes(r.overflow)
          /\ d.unacked_window = r.unacked_window
          /\ d.overflow = <<>> <=> r.overflow = <<>>
          /\ r.overflow = <<>> => d.mem = r.mem
          /\ d.mem = <<>> => r.mem = <<>> /\ (r.len > 0 => r.overflow = <<>>)
      BY <3>1, <3>3, DrainKeeps, Zenon
    <3>5. t \in keepRecv /\ d.mem = <<>> => d.overflow = <<>> /\ d.len > 0
      <4> SUFFICES ASSUME t \in keepRecv, d.mem = <<>>
                   PROVE  d.overflow = <<>> /\ d.len > 0
        OBVIOUS
      <4>1. r.mem = <<>> /\ r.len = Wanted(t)
        BY <3>1, <3>4
      <4>2. r.len > 0 /\ r.len \in Nat
        BY <1>1, <4>1
      <4>3. Len(d.mem) = 0 /\ Len(r.mem) = 0
        BY <4>1, EmptySeq
      <4>4. d.len \in Nat
        BY <3>4 DEF Struct
      <4> QED
        BY <3>4, <4>2, <4>3, <4>4
    <3> QED
      BY <3>1, <3>2, <3>4, <3>5
  <2> QED
    BY <2>1, <2>2
<1>6. /\ w \in Struct
      /\ Len(w.mem) + w.len = Len(d.mem) + d.len
      /\ Bytes(w.mem) \cup Bytes(w.overflow) =
           Bytes(d.mem) \cup Bytes(d.overflow) \cup Bytes(Waiting(u))
      /\ w.unacked_window = d.unacked_window + Len(Waiting(u))
      /\ w.overflow = <<>> => d.overflow = <<>> /\ w.mem = d.mem \o Waiting(u)
      /\ w.mem = <<>> => d.mem = <<>>
      /\ w.mem = <<>> /\ d.len > 0 => w.overflow = d.overflow /\ Waiting(u) = <<>>
      /\ w.mem = <<>> /\ w.overflow = <<>> => d.mem = <<>> /\ Waiting(u) = <<>>
  <2> HIDE DEF d
  <2> QED
    BY <1>3, <1>5, WriteKeeps, Zenon
<1> HIDE DEF f, h, d, w
<1>7. /\ f \in Struct /\ f.mem = w.mem /\ f.overflow = w.overflow /\ f.len = w.len
      /\ f.unacked_window = w.unacked_window /\ f.closed = (u \in fin)
  <2> DEFINE c == u \in fin
  <2>1. c \in BOOLEAN /\ f = [w EXCEPT !.closed = c]
    BY <1>2
  <2> HIDE DEF c
  <2>2. /\ f \in Struct /\ f.mem = w.mem /\ f.overflow = w.overflow /\ f.len = w.len
        /\ f.unacked_window = w.unacked_window /\ f.closed = c
    BY <1>6, <2>1 DEF Struct
  <2> QED
    BY <2>2 DEF c
<1>8. Waiting(u) = <<>> => sent[u] = received[u]
  <2>1. Waiting(u) = <<>> => Len(Waiting(u)) = 0
    BY EmptySeq
  <2> QED
    BY <1>1, <1>3, <2>1
<1>9. f.mem = <<>> /\ f.overflow = <<>> =>
        h.mem = <<>> /\ h.overflow = <<>> /\ sent[u] = received[u]
  BY <1>5, <1>6, <1>7, <1>8
<1>10. h.overflow = <<>> /\ f.overflow = <<>> => f.mem = h.mem \o Waiting(u)
  BY <1>5, <1>6, <1>7
<1>11. u = t /\ t \in keepRecv /\ f.mem = <<>> => f.overflow = <<>>
  BY <1>5, <1>6, <1>7
<1>12. Bytes(f.mem) \cup Bytes(f.overflow) =
         Bytes(h.mem) \cup Bytes(h.overflow) \cup received[u] .. sent[u] - 1
  BY <1>3, <1>5, <1>6, <1>7
<1>13. Len(f.mem) + f.len <= BufferSize
       /\ f.unacked_window = h.unacked_window + (sent[u] - received[u])
  BY <1>3, <1>5, <1>6, <1>7
<1> QED
  BY <1>7, <1>9, <1>10, <1>11, <1>12, <1>13 DEF f, h

-----------------------------------------------------------------------------
\* Actions.

Outcome == {"running", "ok", "partial", "error"}

\* The end of Curl_readwrite touches its own transfer only.
LEMMA OverIs ==
  ASSUME NEW t \in Transfer, NEW hs \in [Transfer -> Struct], NEW c \in BOOLEAN,
         outcome \in [Transfer -> Outcome], Over(t, hs, c)
  PROVE  /\ turn' = {} /\ maxloops' = 0 /\ force' = c
         /\ http' \in [Transfer -> Struct] /\ outcome' \in [Transfer -> Outcome]
         /\ \A u \in Transfer \ {t} : http'[u] = hs[u] /\ outcome'[u] = outcome[u]
         /\ http'[t].mem = hs[t].mem /\ http'[t].len = hs[t].len
         /\ http'[t].unacked_window = hs[t].unacked_window /\ http'[t].closed = hs[t].closed
         /\ \/ http'[t] = hs[t] /\ outcome'[t] = outcome[t]
            \/ /\ t \notin keepRecv' \cup paused' /\ http'[t].overflow = <<>>
               /\ outcome'[t] = IF t \in Sized /\ Len(got'[t]) # Body[t] THEN "partial" ELSE "ok"
<1>1. turn' = {} /\ maxloops' = 0 /\ force' = c
  BY DEF Over
<1>2. CASE t \in keepRecv' \cup paused'
  BY <1>1, <1>2 DEF Over, Struct
<1>3. CASE t \notin keepRecv' \cup paused'
  <2> DEFINE e == [hs[t] EXCEPT !.overflow = <<>>]
             o == IF t \in Sized /\ Len(got'[t]) # Body[t] THEN "partial" ELSE "ok"
  <2>1. hs[t] \in Struct /\ <<>> \in Seq(Byte)
    BY EmptySeq
  <2>2. /\ e \in Struct /\ e.mem = hs[t].mem /\ e.len = hs[t].len /\ e.overflow = <<>>
        /\ e.unacked_window = hs[t].unacked_window /\ e.closed = hs[t].closed
    BY <2>1 DEF Struct
  <2>3. http' = [hs EXCEPT ![t] = e] /\ outcome' = [outcome EXCEPT ![t] = o]
    BY <1>3 DEF Over
  <2>4. o \in Outcome
    BY DEF Outcome
  <2> HIDE DEF e
  <2> QED
    BY <1>1, <1>3, <2>2, <2>3, <2>4
<1> QED
  BY <1>2, <1>3

\* A read takes nothing from a transfer it does not return data of.
LEMMA OtherKeeps ==
  ASSUME DownloadInv, NEW t \in Transfer, t \in keepRecv, NEW u \in Transfer,
         UNCHANGED server, received' = sent, http'[u] = Filled(t)[u], got'[u] = got[u],
         returned'[u] = returned[u], u \in keepRecv' <=> u \in keepRecv,
         outcome'[u] = outcome[u],
         spilled' = spilled \cup {v \in Transfer : Filled(t)[v].overflow # <<>>}
  PROVE  Holds(u)'
<1> DEFINE f == Filled(t)[u]
           h == http[u]
<1>1. /\ Typed /\ Holds(u) /\ h \in Struct /\ got[u] \in Seq(Byte)
      /\ sent[u] \in Nat /\ received[u] \in Nat /\ returned[u] \in Nat /\ received[u] <= sent[u]
      /\ h.unacked_window \in Nat /\ h.mem \in Seq(Byte)
  BY Numbers DEF DownloadInv, Holds, Arrivals, Struct
<1>2. /\ f \in Struct
      /\ Len(f.mem) + f.len <= BufferSize
      /\ f.unacked_window = h.unacked_window + (sent[u] - received[u])
      /\ f.closed = (u \in fin)
      /\ Bytes(f.mem) \cup Bytes(f.overflow) =
           Bytes(h.mem) \cup Bytes(h.overflow) \cup received[u] .. sent[u] - 1
      /\ f.mem = <<>> /\ f.overflow = <<>> =>
           h.mem = <<>> /\ h.overflow = <<>> /\ sent[u] = received[u]
      /\ h.overflow = <<>> /\ f.overflow = <<>> => f.mem = h.mem \o Waiting(u)
  BY FilledKeeps, Zenon
<1> HIDE DEF f, h
<1>3. http'[u] = f /\ sent' = sent /\ fin' = fin /\ received'[u] = sent[u]
  BY DEF server, f
<1>4. Arrivals(u)'
  <2>1. returned[u] + f.unacked_window = sent[u]
    BY <1>1, <1>2 DEF Holds, Arrivals, h
  <2>2. f.closed => u \in fin
    BY <1>2, Zenon
  <2>3. received'[u] = sent'[u] /\ (http'[u].closed => u \in fin')
    BY <1>3, <2>2
  <2>4. returned'[u] + http'[u].unacked_window = received'[u]
    BY <1>3, <2>1
  <2>5. sent'[u] <= Body[u] /\ received'[u] <= sent'[u] /\ (u \in fin' => sent'[u] = Body[u])
    BY <1>1, <1>3 DEF Holds, Arrivals
  <2> QED
    BY <2>3, <2>4, <2>5 DEF Arrivals
<1>5. Room(u)'
  BY <1>1, <1>2, <1>3 DEF Holds, Room
<1>6. Pending(u)'
  <2> SUFFICES ASSUME u \in keepRecv, f.unacked_window > 0, f.mem = <<>>, f.overflow = <<>>
               PROVE  FALSE
    BY <1>3 DEF Pending
  <2>1. h.mem = <<>> /\ h.overflow = <<>> /\ h.unacked_window > 0
    BY <1>1, <1>2
  <2> QED
    BY <1>1, <2>1 DEF Holds, Pending, h
<1>7. u \notin spilled' => u \notin spilled /\ f.overflow = <<>>
  BY DEF f
<1>8. InOrder(u)'
  <2> SUFFICES ASSUME u \notin spilled, f.overflow = <<>>
               PROVE  got[u] \o f.mem = First(sent[u])
    BY <1>3, <1>7 DEF InOrder
  <2>1. h.overflow = <<>> /\ got[u] \o h.mem = First(received[u])
    BY <1>1 DEF Holds, InOrder, h
  <2>2. /\ Waiting(u) \in Seq(Byte) /\ First(received[u]) \o Waiting(u) = First(sent[u])
    BY <1>1, WaitingIs DEF Holds
  <2>3. got[u] \o (h.mem \o Waiting(u)) = (got[u] \o h.mem) \o Waiting(u)
    <3> DEFINE a == got[u]
               b == h.mem
               w == Waiting(u)
    <3>1. a \in Seq(Byte) /\ b \in Seq(Byte) /\ w \in Seq(Byte)
      BY <1>1, <2>2
    <3> HIDE DEF a, b, w
    <3>2. (a \o b) \o w = a \o (b \o w)
      BY <3>1, ConcatAssociative
    <3> QED
      BY <3>2 DEF a, b, w
  <2> QED
    BY <1>2, <2>1, <2>2, <2>3
<1>9. Kept(u)'
  <2> SUFFICES ASSUME u \in keepRecv, outcome[u] = "running", Len(got[u]) < GotMax
               PROVE  Bytes(got[u]) \cup Bytes(f.mem) \cup Bytes(f.overflow) = 0 .. sent[u] - 1
    BY <1>3 DEF Kept, Bytes
  <2>1. Bytes(got[u]) \cup Bytes(h.mem) \cup Bytes(h.overflow) = 0 .. received[u] - 1
    BY <1>1 DEF Holds, Kept, h
  <2>2. (0 .. received[u] - 1) \cup (received[u] .. sent[u] - 1) = 0 .. sent[u] - 1
    BY <1>1
  <2> QED
    BY <1>2, <2>1, <2>2
<1>10. Stopped(u)'
  BY <1>1, <1>7 DEF Holds, Stopped, First
<1> QED
  BY <1>4, <1>5, <1>6, <1>8, <1>9, <1>10 DEF Holds

\* The buffers after a read, as a function.
LEMMA FilledType ==
  ASSUME DownloadInv, NEW t \in Transfer, t \in keepRecv
  PROVE  Filled(t) \in [Transfer -> Struct]
<1>1. \A u \in Transfer : Filled(t)[u] \in Struct
  BY FilledKeeps
<1>2. Filled(t) = [u \in Transfer |-> Filled(t)[u]]
  BY DEF Filled, Ingress
<1> QED
  BY <1>1, <1>2

\* A transfer inside readwrite_data still reads.
LEMMA IteratesReads ==
  ASSUME DownloadInv, NEW t \in Transfer, Iterates(t)
  PROVE  t \in keepRecv /\ outcome[t] = "running"
  BY DEF DownloadInv, Iterates, MayRead

\* The end of the stream, or a read that would block.
LEMMA ReadNothingInv ==
  ASSUME DownloadInv, NEW t \in Transfer, ReadNothing(t)
  PROVE  DownloadInv'
<1> DEFINE hs == Filled(t)
           c == Left(t) <= 0
           h == http[t]
<1>1. /\ Typed /\ t \in keepRecv /\ outcome[t] = "running" /\ hs \in [Transfer -> Struct]
      /\ Holds(t)
  BY IteratesReads, FilledType DEF ReadNothing, DownloadInv
<1>2. /\ received' = sent /\ hs[t].mem = <<>>
      /\ keepRecv' = (IF hs[t].closed THEN keepRecv \ {t} ELSE keepRecv)
      /\ spilled' = spilled \cup {u \in Transfer : hs[u].overflow # <<>>}
      /\ UNCHANGED <<server, returned, paused, got, broken>>
      /\ Over(t, hs, c) /\ c \in BOOLEAN
  BY DEF ReadNothing, Arrived
<1>3. outcome \in [Transfer -> Outcome]
  BY <1>1 DEF Typed, Outcome
<1> HIDE DEF c
<1>4. /\ turn' = {} /\ maxloops' = 0 /\ force' = c
      /\ http' \in [Transfer -> Struct] /\ outcome' \in [Transfer -> Outcome]
      /\ \A u \in Transfer \ {t} : http'[u] = hs[u] /\ outcome'[u] = outcome[u]
      /\ http'[t].mem = hs[t].mem /\ http'[t].len = hs[t].len
      /\ http'[t].unacked_window = hs[t].unacked_window /\ http'[t].closed = hs[t].closed
      /\ \/ http'[t] = hs[t] /\ outcome'[t] = outcome[t]
         \/ /\ t \notin keepRecv' \cup paused' /\ http'[t].overflow = <<>>
            /\ outcome'[t] = IF t \in Sized /\ Len(got'[t]) # Body[t] THEN "partial" ELSE "ok"
  <2> HIDE DEF hs
  <2> QED
    BY <1>1, <1>2, <1>3, OverIs, Zenon
<1>5. Typed' /\ turn' \subseteq keepRecv'
  <2>1. 0 \in -1 .. MaxLoops
    BY H3DownloadAssumption
  <2>2. sent' = sent /\ fin' = fin
    BY <1>2 DEF server
  <2> QED
    BY <1>1, <1>2, <1>4, <2>1, <2>2 DEF Typed, Outcome
<1>6. ASSUME NEW u \in Transfer \ {t}
      PROVE  Holds(u)'
  <2>1. http'[u] = Filled(t)[u] /\ outcome'[u] = outcome[u] /\ (u \in keepRecv' <=> u \in keepRecv)
    BY <1>2, <1>4
  <2> QED
    BY <1>1, <1>2, <2>1, OtherKeeps
<1>7. Holds(t)'
  <2>1. CASE ~hs[t].closed
    <3>1. http'[t] = Filled(t)[t] /\ outcome'[t] = outcome[t] /\ keepRecv' = keepRecv
      BY <1>1, <1>2, <1>4, <2>1
    <3> QED
      BY <1>1, <1>2, <3>1, OtherKeeps
  <2>2. CASE hs[t].closed
    <3>1. /\ t \notin keepRecv' /\ hs[t] \in Struct
          /\ Len(hs[t].mem) + hs[t].len <= BufferSize
          /\ hs[t].unacked_window = h.unacked_window + (sent[t] - received[t])
          /\ hs[t].closed = (t \in fin)
          /\ hs[t].overflow = <<>> /\ h.mem = <<>> /\ h.overflow = <<>> /\ sent[t] = received[t]
      BY <1>1, <1>2, <2>2, FilledKeeps
    <3>2. t \in fin
      BY <2>2, <3>1, Zenon
    <3> HIDE DEF hs
    <3>3. /\ sent'[t] = Body[t] /\ received'[t] = Body[t] /\ received[t] = Body[t] /\ t \in fin'
          /\ got'[t] = got[t] /\ returned'[t] = returned[t]
          /\ http'[t].mem = <<>> /\ http'[t].overflow = <<>>
          /\ http'[t].unacked_window = h.unacked_window
      BY <1>1, <1>2, <1>4, <3>1, <3>2, Numbers DEF server, Holds, Arrivals, Struct
    <3>4. got[t] \in Seq(Byte) /\ got[t] \o <<>> = got[t] /\ Bytes(<<>>) = {}
          /\ Len(got[t]) \in Nat /\ Body[t] \in Nat /\ GotMax \in Nat /\ Body[t] < GotMax
      BY <1>1, Numbers, ConcatEmptySeq DEF Bytes
    <3>5. t \notin Sized
      <4> SUFFICES ASSUME t \in Sized
                   PROVE  FALSE
        OBVIOUS
      <4>1. Len(got[t]) < Body[t] /\ Len(got[t]) < GotMax
        BY <1>1, <3>4 DEF Holds, Room
      <4>2. Bytes(got[t]) = 0 .. Body[t] - 1
        BY <1>1, <3>1, <3>3, <3>4, <4>1 DEF Holds, Kept
      <4>3. Body[t] <= Len(got[t])
        BY <3>4, <4>2, PlacesFor
      <4> QED
        BY <3>4, <4>1, <4>3
    <3>6. t \notin spilled' => got[t] = First(Body[t])
      <4> SUFFICES ASSUME t \notin spilled'
                   PROVE  got[t] = First(Body[t])
        OBVIOUS
      <4>1. got[t] \o <<>> = First(received[t])
        BY <1>1, <1>2, <3>1 DEF Holds, InOrder
      <4> QED
        BY <3>3, <3>4, <4>1
    <3>7. Arrivals(t)'
      <4>1. sent'[t] <= Body[t] /\ received'[t] <= sent'[t]
        BY <3>3, <3>4
      <4>2. returned'[t] + http'[t].unacked_window = received'[t]
        BY <1>1, <3>3 DEF Holds, Arrivals
      <4> QED
        BY <3>3, <4>1, <4>2 DEF Arrivals
    <3>8. Room(t)' /\ Pending(t)' /\ Kept(t)'
      BY <1>4, <3>1, <3>5 DEF Room, Pending, Kept
    <3>9. InOrder(t)'
      BY <3>3, <3>4, <3>6 DEF InOrder, First
    <3>10. Stopped(t)'
      <4>1. outcome'[t] \in {"running", "ok"}
        BY <1>1, <1>4, <3>5
      <4> QED
        BY <3>1, <3>3, <3>5, <3>6, <4>1 DEF Stopped, First
    <3> QED
      BY <3>7, <3>8, <3>9, <3>10 DEF Holds
  <2> QED
    BY <2>1, <2>2
<1> QED
  BY <1>5, <1>6, <1>7 DEF DownloadInv

\* The smaller of two numbers.
LEMMA LeastIs ==
  ASSUME NEW a \in Nat, NEW b \in Nat
  PROVE  /\ Least(a, b) \in Nat /\ Least(a, b) <= a /\ Least(a, b) <= b
         /\ (a <= b => Least(a, b) = a) /\ (b <= a => Least(a, b) = b)
  BY DEF Least

\* What the client of t has been passed after a read that returned data.
LEMMA GotIs ==
  ASSUME DownloadInv, NEW t \in Transfer, NEW pause \in BOOLEAN, ReadData(t, pause)
  PROVE  LET all == Len(got[t]) + Len(Filled(t)[t].mem)
         IN /\ got' \in [Transfer -> Seq(Byte)]
            /\ \A u \in Transfer \ {t} : got'[u] = got[u]
            /\ all \in Nat
            /\ t \in Sized => Len(got'[t]) = Least(all, Body[t])
            /\ t \notin Sized => Len(got'[t]) = Least(all, GotMax)
            /\ (IF t \in Sized THEN all <= Body[t] ELSE all <= GotMax) =>
                 got'[t] = got[t] \o Filled(t)[t].mem
<1> DEFINE mem == Filled(t)[t].mem
           left == Body[t] - Len(got[t])
           data == IF t \in Sized THEN SubSeq(mem, 1, Least(Len(mem), left)) ELSE mem
           whole == got[t] \o data
           new == SubSeq(whole, 1, Least(Len(whole), GotMax))
<1>1. Typed /\ t \in keepRecv /\ Holds(t)
  BY IteratesReads DEF ReadData, DownloadInv
<1>2. /\ got[t] \in Seq(Byte) /\ Len(got[t]) \in Nat /\ Body[t] \in Nat /\ GotMax \in Nat
      /\ Body[t] < GotMax /\ (t \in Sized => left \in Nat)
  BY <1>1, Numbers DEF Holds, Room
<1>3. mem \in Seq(Byte) /\ Len(mem) \in Nat
  <2>1. Filled(t)[t] \in Struct
    BY <1>1, FilledKeeps
  <2> QED
    BY <2>1, EmptyIs DEF Struct
<1>4. got' = [got EXCEPT ![t] = new]
  BY DEF ReadData
<1> HIDE DEF mem, left
<1>5. /\ data \in Seq(Byte)
      /\ Len(data) = IF t \in Sized THEN Least(Len(mem), left) ELSE Len(mem)
      /\ (t \in Sized => Len(mem) <= left) => data = mem
  <2>1. CASE t \in Sized
    <3>1. Least(Len(mem), left) \in 0 .. Len(mem)
      BY <1>2, <1>3, <2>1 DEF Least
    <3>2. Len(mem) <= left => Least(Len(mem), left) = Len(mem)
      BY <1>2, <1>3, <2>1, LeastIs
    <3>3. SubSeq(mem, 1, Len(mem)) = mem
      BY <1>3, SubSeqFull
    <3>4. /\ SubSeq(mem, 1, Least(Len(mem), left)) \in Seq(Byte)
          /\ Len(SubSeq(mem, 1, Least(Len(mem), left))) = Least(Len(mem), left)
      BY <1>3, <3>1, Split
    <3> QED
      BY <2>1, <3>2, <3>3, <3>4
  <2>2. CASE t \notin Sized
    BY <1>3, <2>2
  <2> QED
    BY <2>1, <2>2
<1> HIDE DEF data
<1>6. whole \in Seq(Byte) /\ Len(whole) = Len(got[t]) + Len(data) /\ Len(data) \in Nat
  BY <1>2, <1>5, Join, EmptyIs
<1> HIDE DEF whole
<1>7. /\ new \in Seq(Byte) /\ Len(new) = Least(Len(whole), GotMax)
      /\ Len(whole) <= GotMax => new = whole
  <2>1. Len(whole) \in Nat /\ Least(Len(whole), GotMax) \in 0 .. Len(whole)
        /\ (Len(whole) <= GotMax => Least(Len(whole), GotMax) = Len(whole))
    BY <1>2, <1>6 DEF Least
  <2>2. SubSeq(whole, 1, Len(whole)) = whole
    BY <1>6, SubSeqFull
  <2> QED
    BY <1>6, <2>1, <2>2, Split
<1> HIDE DEF new
<1>8. /\ got' \in [Transfer -> Seq(Byte)] /\ got'[t] = new
      /\ \A u \in Transfer \ {t} : got'[u] = got[u]
  BY <1>1, <1>4, <1>7 DEF Typed
<1>9. t \in Sized => Len(new) = Least(Len(got[t]) + Len(mem), Body[t])
  <2> SUFFICES ASSUME t \in Sized
               PROVE  Len(new) = Least(Len(got[t]) + Len(mem), Body[t])
    OBVIOUS
  <2>1. left = Body[t] - Len(got[t]) /\ Len(data) = Least(Len(mem), left)
    BY <1>5 DEF left
  <2>2. Len(whole) = Least(Len(got[t]) + Len(mem), Body[t])
    BY <1>2, <1>3, <1>6, <2>1 DEF Least
  <2>3. Len(whole) <= GotMax /\ Len(whole) \in Nat
    BY <1>2, <1>3, <2>2 DEF Least
  <2> QED
    BY <1>2, <1>7, <2>2, <2>3 DEF Least
<1>10. t \notin Sized => Len(new) = Least(Len(got[t]) + Len(mem), GotMax)
  BY <1>2, <1>3, <1>5, <1>6, <1>7 DEF Least
<1>11. (IF t \in Sized THEN Len(got[t]) + Len(mem) <= Body[t] ELSE Len(got[t]) + Len(mem) <= GotMax)
         => new = got[t] \o mem
  <2> SUFFICES ASSUME IF t \in Sized THEN Len(got[t]) + Len(mem) <= Body[t]
                                     ELSE Len(got[t]) + Len(mem) <= GotMax
               PROVE  new = got[t] \o mem
    OBVIOUS
  <2>1. t \in Sized => Len(mem) <= left
    BY <1>2, <1>3 DEF left
  <2>2. data = mem
    BY <1>5, <2>1
  <2>3. Len(whole) <= GotMax
    BY <1>2, <1>3, <1>6, <2>2
  <2> QED
    BY <1>7, <2>2, <2>3 DEF whole
<1>12. Len(got[t]) + Len(mem) \in Nat
  BY <1>2, <1>3
<1> QED
  BY <1>8, <1>9, <1>10, <1>11, <1>12 DEF mem

\* The transfer whose data a read returned.
LEMMA ReaderKeeps ==
  ASSUME DownloadInv, NEW t \in Transfer, NEW pause \in BOOLEAN, ReadData(t, pause),
         http'[t] \in Struct, http'[t].mem = <<>>, http'[t].len = Wanted(t),
         http'[t].unacked_window = 0, http'[t].closed = Filled(t)[t].closed,
         \/ http'[t].overflow = Filled(t)[t].overflow /\ outcome'[t] = outcome[t]
         \/ /\ t \notin keepRecv' /\ http'[t].overflow = <<>>
            /\ outcome'[t] = IF t \in Sized /\ Len(got'[t]) # Body[t] THEN "partial" ELSE "ok"
  PROVE  Holds(t)'
<1> DEFINE f == Filled(t)[t]
           h == http[t]
           all == Len(got[t]) + Len(f.mem)
<1>1. /\ Typed /\ Holds(t) /\ t \in keepRecv /\ outcome[t] = "running"
  BY IteratesReads DEF ReadData, DownloadInv
<1>2. /\ sent[t] \in Nat /\ received[t] \in Nat /\ returned[t] \in Nat /\ received[t] <= sent[t]
      /\ sent[t] <= Body[t] /\ Body[t] \in Nat /\ GotMax \in Nat /\ Body[t] < GotMax
      /\ got[t] \in Seq(Byte) /\ Len(got[t]) \in Nat /\ BufferSize \in Nat
      /\ h \in Struct
  BY <1>1, Numbers DEF Holds, Arrivals
<1>3. /\ f \in Struct /\ Len(f.mem) \in Nat
      /\ f.unacked_window = h.unacked_window + (sent[t] - received[t])
      /\ f.closed = (t \in fin)
      /\ Bytes(f.mem) \cup Bytes(f.overflow) =
           Bytes(h.mem) \cup Bytes(h.overflow) \cup received[t] .. sent[t] - 1
      /\ h.overflow = <<>> /\ f.overflow = <<>> => f.mem = h.mem \o Waiting(t)
  <2>1. f.mem \in Seq(Byte) => Len(f.mem) \in Nat
    BY EmptyIs
  <2> QED
    BY <1>1, <2>1, FilledKeeps DEF Struct
<1>4. /\ got'[t] \in Seq(Byte) /\ all \in Nat
      /\ t \in Sized => Len(got'[t]) = Least(all, Body[t])
      /\ t \notin Sized => Len(got'[t]) = Least(all, GotMax)
      /\ (IF t \in Sized THEN all <= Body[t] ELSE all <= GotMax) => got'[t] = got[t] \o f.mem
  BY GotIs
<1>5. /\ sent' = sent /\ fin' = fin /\ received'[t] = sent[t]
      /\ returned'[t] = returned[t] + f.unacked_window
      /\ t \in keepRecv' <=> ~(t \in Sized /\ all >= Body[t])
      /\ t \notin spilled' => t \notin spilled /\ f.overflow = <<>>
  BY <1>1 DEF ReadData, server, Typed
<1> HIDE DEF f, h, all
<1>6. Arrivals(t)'
  <2>1. returned[t] + f.unacked_window = sent[t]
    <3>1. h.unacked_window \in Nat /\ returned[t] + h.unacked_window = received[t]
      BY <1>1, <1>2 DEF Holds, Arrivals, h, Struct
    <3> QED
      BY <1>2, <1>3, <3>1
  <2>2. http'[t].closed => t \in fin'
    <3>1. f.closed => t \in fin
      BY <1>3, Zenon
    <3> QED
      BY <1>5, <3>1 DEF f
  <2>3. returned'[t] + http'[t].unacked_window = received'[t]
    BY <1>2, <1>5, <2>1
  <2>4. sent'[t] <= Body[t] /\ received'[t] = sent'[t] /\ received'[t] <= sent'[t]
        /\ (t \in fin' => sent'[t] = Body[t])
    BY <1>1, <1>2, <1>5 DEF Holds, Arrivals
  <2> QED
    BY <2>2, <2>3, <2>4 DEF Arrivals
<1>7. Room(t)'
  <2>1. Wanted(t) \in Nat /\ Wanted(t) <= BufferSize /\ Len(<<>>) = 0
    BY <1>1, WantedIs, EmptySeq DEF Holds
  <2>2. t \in Sized => Len(got'[t]) <= Body[t] /\ (t \in keepRecv' => Len(got'[t]) < Body[t])
    BY <1>2, <1>4, <1>5 DEF Least
  <2> QED
    BY <1>2, <2>1, <2>2 DEF Room
<1>8. Pending(t)'
  BY DEF Pending
\* In order, and within the body.
<1>9. t \notin spilled' => /\ f.overflow = <<>> /\ got[t] \o f.mem = First(sent[t])
                          /\ all = sent[t] /\ got'[t] = First(sent[t])
  <2> SUFFICES ASSUME t \notin spilled'
               PROVE  /\ f.overflow = <<>> /\ got[t] \o f.mem = First(sent[t])
                      /\ all = sent[t] /\ got'[t] = First(sent[t])
    OBVIOUS
  <2>1. f.overflow = <<>> /\ h.overflow = <<>> /\ got[t] \o h.mem = First(received[t])
    BY <1>1, <1>5 DEF Holds, InOrder, h
  <2>2. /\ Waiting(t) \in Seq(Byte) /\ First(received[t]) \o Waiting(t) = First(sent[t])
        /\ Len(First(sent[t])) = sent[t]
    BY <1>1, WaitingIs DEF Holds
  <2>3. got[t] \o (h.mem \o Waiting(t)) = (got[t] \o h.mem) \o Waiting(t)
    <3> DEFINE a == got[t]
               b == h.mem
               w == Waiting(t)
    <3>1. a \in Seq(Byte) /\ b \in Seq(Byte) /\ w \in Seq(Byte)
      BY <1>2, <2>2 DEF Struct
    <3> HIDE DEF a, b, w
    <3>2. (a \o b) \o w = a \o (b \o w)
      BY <3>1, ConcatAssociative
    <3> QED
      BY <3>2 DEF a, b, w
  <2>4. got[t] \o f.mem = First(sent[t])
    BY <1>3, <2>1, <2>2, <2>3
  <2>5. all = sent[t]
    <3>1. f.mem \in Seq(Byte)
      BY <1>3 DEF Struct
    <3>2. Len(got[t] \o f.mem) = Len(got[t]) + Len(f.mem)
      BY <1>2, <3>1, Join
    <3> QED
      BY <2>2, <2>4, <3>2 DEF all
  <2>6. IF t \in Sized THEN all <= Body[t] ELSE all <= GotMax
    BY <1>2, <2>5
  <2> QED
    BY <1>4, <2>1, <2>4, <2>5, <2>6
<1>10. InOrder(t)'
  <2> SUFFICES ASSUME t \notin spilled'
               PROVE  http'[t].overflow = <<>> /\ got'[t] \o http'[t].mem = First(received'[t])
    BY DEF InOrder, First
  <2>1. got'[t] \o <<>> = got'[t]
    BY <1>4, ConcatEmptySeq
  <2> QED
    BY <1>5, <1>9, <2>1 DEF f
<1>11. Kept(t)'
  <2> SUFFICES ASSUME t \in keepRecv', Len(got'[t]) < GotMax
               PROVE  Bytes(got'[t]) \cup Bytes(<<>>) \cup Bytes(f.overflow) = 0 .. sent[t] - 1
    BY <1>5 DEF Kept, Bytes, f
  <2>1. IF t \in Sized THEN all <= Body[t] ELSE all <= GotMax
    BY <1>2, <1>4, <1>5 DEF Least
  <2>2. got'[t] = got[t] \o f.mem
    BY <1>4, <2>1
  <2>3. f.mem \in Seq(Byte)
    BY <1>3 DEF Struct
  <2>4. /\ Bytes(got'[t]) = Bytes(got[t]) \cup Bytes(f.mem)
        /\ Len(got'[t]) = Len(got[t]) + Len(f.mem)
    BY <1>2, <2>2, <2>3, Join
  <2>5. Bytes(got[t]) \cup Bytes(h.mem) \cup Bytes(h.overflow) = 0 .. received[t] - 1
    <3>1. Len(got[t]) < GotMax
      <4> DEFINE n == Len(got[t])
                 m == Len(f.mem)
      <4>1. n + m < GotMax /\ n \in Nat /\ m \in Nat /\ GotMax \in Nat
        BY <1>2, <1>3, <2>4
      <4> HIDE DEF n, m
      <4>2. n < GotMax
        BY <4>1
      <4> QED
        BY <4>2 DEF n
    <3> QED
      BY <1>1, <3>1 DEF Holds, Kept, h
  <2>6. (0 .. received[t] - 1) \cup (received[t] .. sent[t] - 1) = 0 .. sent[t] - 1
    BY <1>2
  <2>7. Bytes(<<>>) = {}
    BY DEF Bytes
  <2> QED
    BY <1>3, <2>4, <2>5, <2>6, <2>7
<1>12. Stopped(t)'
  <2>1. t \notin keepRecv' => t \in Sized /\ Len(got'[t]) = Body[t]
    BY <1>2, <1>4, <1>5 DEF Least
  <2>2. t \notin keepRecv' /\ t \notin spilled' => got'[t] = First(Body[t])
    <3> SUFFICES ASSUME t \notin keepRecv', t \notin spilled'
                 PROVE  got'[t] = First(Body[t])
      OBVIOUS
    <3>1. all >= Body[t] /\ all = sent[t]
      BY <1>5, <1>9
    <3>2. sent[t] = Body[t]
      BY <1>2, <3>1
    <3> QED
      BY <1>9, <3>2
  <2>3. outcome'[t] = "running" \/ (t \notin keepRecv' /\ outcome'[t] = "ok")
    BY <1>1, <2>1
  <2> QED
    BY <2>1, <2>2, <2>3 DEF Stopped, First
<1> QED
  BY <1>6, <1>7, <1>8, <1>10, <1>11, <1>12 DEF Holds

\* A read that returns data.
LEMMA ReadDataInv ==
  ASSUME DownloadInv, NEW t \in Transfer, NEW pause \in BOOLEAN, ReadData(t, pause)
  PROVE  DownloadInv'
<1> DEFINE hs == Filled(t)
           taken == Taken(hs[t], Wanted(t))
           rest == [hs EXCEPT ![t] = taken]
           pending == rest[t].overflow # <<>>
           left == IF pending /\ ~(t \in paused') THEN Left(t) - 1 ELSE Left(t)
           goesOn == pending /\ t \notin paused' /\ t \in keepRecv' /\ Left(t) > 0
           c == left <= 0
<1>1. /\ Typed /\ t \in keepRecv /\ outcome[t] = "running" /\ hs \in [Transfer -> Struct]
      /\ Holds(t) /\ Wanted(t) \in Nat
  BY IteratesReads, FilledType, WantedIs DEF ReadData, DownloadInv, Holds
<1>2. /\ received' = sent
      /\ returned' = [returned EXCEPT ![t] = returned[t] + hs[t].unacked_window]
      /\ keepRecv' = (IF t \in Sized /\ Len(got[t]) + Len(hs[t].mem) >= Body[t]
                      THEN keepRecv \ {t} ELSE keepRecv)
      /\ paused' = (IF pause THEN paused \cup {t} ELSE paused)
      /\ spilled' = spilled \cup {u \in Transfer : hs[u].overflow # <<>>}
      /\ UNCHANGED <<server, broken>>
  BY <1>1 DEF ReadData, Typed
<1>3. /\ IF goesOn THEN /\ turn' = {t} /\ maxloops' = left /\ force' = FALSE
                        /\ http' = rest /\ UNCHANGED outcome
                   ELSE Over(t, rest, c)
      /\ c \in BOOLEAN
  <2>1. IF goesOn THEN /\ turn' = {t} /\ maxloops' = left /\ force' = FALSE
                       /\ http' = rest /\ UNCHANGED outcome
                  ELSE Over(t, rest, c)
    BY Zenon DEF ReadData
  <2>2. c \in BOOLEAN
    OBVIOUS
  <2> QED
    BY <2>1, <2>2, Zenon
<1>4. /\ taken \in Struct /\ taken.mem = <<>> /\ taken.len = Wanted(t)
      /\ taken.unacked_window = 0 /\ taken.closed = hs[t].closed
      /\ taken.overflow = hs[t].overflow
  <2> DEFINE e == hs[t]
             n == Wanted(t)
  <2>1. e \in Struct /\ n \in Nat /\ taken = [e EXCEPT !.mem = <<>>, !.len = n, !.unacked_window = 0]
    BY <1>1 DEF Taken
  <2>2. <<>> \in Seq(Byte)
    BY EmptySeq
  <2> HIDE DEF e, n, taken, hs
  <2>3. /\ taken \in Struct /\ taken.mem = <<>> /\ taken.len = n
        /\ taken.unacked_window = 0 /\ taken.closed = e.closed
        /\ taken.overflow = e.overflow
    BY <2>1, <2>2 DEF Struct
  <2> QED
    BY <2>3 DEF e, n
<1>5. /\ rest \in [Transfer -> Struct] /\ rest[t] = taken
      /\ \A u \in Transfer \ {t} : rest[u] = hs[u]
  <2> HIDE DEF hs, taken
  <2> QED
    BY <1>1, <1>4
<1> HIDE DEF hs, taken, rest
<1>6. /\ http' \in [Transfer -> Struct] /\ outcome' \in [Transfer -> Outcome]
      /\ \A u \in Transfer \ {t} : http'[u] = hs[u] /\ outcome'[u] = outcome[u]
      /\ http'[t].mem = <<>> /\ http'[t].len = Wanted(t)
      /\ http'[t].unacked_window = 0 /\ http'[t].closed = hs[t].closed
      /\ \/ http'[t].overflow = hs[t].overflow /\ outcome'[t] = outcome[t]
         \/ /\ t \notin keepRecv' /\ http'[t].overflow = <<>>
            /\ outcome'[t] = IF t \in Sized /\ Len(got'[t]) # Body[t] THEN "partial" ELSE "ok"
      /\ turn' \subseteq keepRecv' /\ turn' \subseteq Transfer
      /\ maxloops' \in -1 .. MaxLoops /\ force' \in BOOLEAN
  <2>1. outcome \in [Transfer -> Outcome]
    BY <1>1 DEF Typed, Outcome
  <2>2. CASE goesOn
    <3>1. Left(t) \in -1 .. MaxLoops /\ Left(t) > 0 /\ MaxLoops \in Nat
      BY <1>1, <2>2, H3DownloadAssumption DEF Left, Typed
    <3>2. left \in -1 .. MaxLoops
      BY <2>2, <3>1
    <3> QED
      BY <1>3, <1>4, <1>5, <2>1, <2>2, <3>2
  <2>3. CASE ~goesOn
    <3>1. Over(t, rest, c) /\ c \in BOOLEAN
      BY <1>3, <2>3
    <3> HIDE DEF c
    <3>2. /\ turn' = {} /\ maxloops' = 0 /\ force' = c
          /\ http' \in [Transfer -> Struct] /\ outcome' \in [Transfer -> Outcome]
          /\ \A u \in Transfer \ {t} : http'[u] = rest[u] /\ outcome'[u] = outcome[u]
          /\ http'[t].mem = rest[t].mem /\ http'[t].len = rest[t].len
          /\ http'[t].unacked_window = rest[t].unacked_window /\ http'[t].closed = rest[t].closed
          /\ \/ http'[t] = rest[t] /\ outcome'[t] = outcome[t]
             \/ /\ t \notin keepRecv' \cup paused' /\ http'[t].overflow = <<>>
                /\ outcome'[t] = IF t \in Sized /\ Len(got'[t]) # Body[t] THEN "partial" ELSE "ok"
      BY <1>5, <2>1, <3>1, OverIs, Zenon
    <3>3. 0 \in -1 .. MaxLoops
      BY H3DownloadAssumption
    <3> QED
      BY <1>4, <1>5, <3>1, <3>2, <3>3
  <2> QED
    BY <2>2, <2>3
<1>7. Holds(t)'
  <2>1. http'[t] \in Struct
    BY <1>6
  <2> QED
    BY <1>6, <2>1, ReaderKeeps DEF hs
<1>8. ASSUME NEW u \in Transfer \ {t}
      PROVE  Holds(u)'
  <2>1. /\ http'[u] = Filled(t)[u] /\ outcome'[u] = outcome[u] /\ returned'[u] = returned[u]
        /\ u \in keepRecv' <=> u \in keepRecv
        /\ got'[u] = got[u]
    BY <1>1, <1>2, <1>6, GotIs DEF hs, Typed
  <2> QED
    BY <1>1, <1>2, <2>1, OtherKeeps DEF hs
<1>9. Typed'
  <2>1. returned'[t] \in Size
    <3>1. hs[t].unacked_window = http[t].unacked_window + (sent[t] - received[t])
      BY <1>1, FilledKeeps DEF hs
    <3>2. returned[t] + http[t].unacked_window = received[t] /\ http[t].unacked_window \in Nat
      BY <1>1, Numbers DEF Holds, Arrivals, Struct
    <3>3. returned[t] + hs[t].unacked_window = sent[t]
      BY <1>1, <3>1, <3>2, Numbers
    <3> QED
      BY <1>1, <1>2, <3>3 DEF Typed
  <2>2. returned' \in [Transfer -> Size]
    BY <1>1, <1>2, <2>1 DEF Typed
  <2>3. got' \in [Transfer -> Seq(Byte)]
    BY GotIs
  <2>4. sent' = sent /\ fin' = fin /\ keepRecv' \subseteq Transfer /\ paused' \subseteq Transfer
        /\ spilled' \subseteq Transfer
    BY <1>1, <1>2 DEF server, Typed
  <2> QED
    BY <1>1, <1>2, <1>6, <2>2, <2>3, <2>4 DEF Typed, Outcome
<1> QED
  BY <1>6, <1>7, <1>8, <1>9 DEF DownloadInv

\* A transfer that has read all is over, or found paused.
LEMMA RunDoneInv ==
  ASSUME DownloadInv, NEW t \in Transfer, RunDone(t)
  PROVE  DownloadInv'
<1>1. /\ Typed /\ t \notin keepRecv /\ outcome[t] = "running" /\ turn = {}
      /\ UNCHANGED <<server, received, returned, keepRecv, paused, got, broken, spilled>>
      /\ Over(t, http, FALSE) /\ http \in [Transfer -> Struct] /\ outcome \in [Transfer -> Outcome]
  BY DEF RunDone, DownloadInv, Typed, Outcome
<1>2. /\ turn' = {} /\ maxloops' = 0 /\ force' = FALSE
      /\ http' \in [Transfer -> Struct] /\ outcome' \in [Transfer -> Outcome]
      /\ \A u \in Transfer \ {t} : http'[u] = http[u] /\ outcome'[u] = outcome[u]
      /\ http'[t].mem = http[t].mem /\ http'[t].len = http[t].len
      /\ http'[t].unacked_window = http[t].unacked_window /\ http'[t].closed = http[t].closed
      /\ \/ http'[t] = http[t] /\ outcome'[t] = outcome[t]
         \/ /\ t \notin keepRecv' \cup paused' /\ http'[t].overflow = <<>>
            /\ outcome'[t] = IF t \in Sized /\ Len(got'[t]) # Body[t] THEN "partial" ELSE "ok"
  BY <1>1, OverIs, Zenon
<1>3. Typed' /\ turn' \subseteq keepRecv'
  <2>1. 0 \in -1 .. MaxLoops
    BY H3DownloadAssumption
  <2> QED
    BY <1>1, <1>2, <2>1 DEF Typed, server, Outcome
<1>4. ASSUME NEW u \in Transfer \ {t}
      PROVE  Holds(u)'
  <2>1. /\ http'[u] = http[u] /\ outcome'[u] = outcome[u] /\ sent' = sent /\ fin' = fin
        /\ received' = received /\ returned' = returned /\ keepRecv' = keepRecv /\ got' = got
        /\ spilled' = spilled /\ Holds(u)
    BY <1>1, <1>2 DEF server, DownloadInv
  <2> QED
    BY <2>1 DEF Holds, Arrivals, Room, Pending, InOrder, Kept, Stopped, First, Bytes
<1>5. Holds(t)'
  <2>1. /\ sent' = sent /\ fin' = fin /\ received' = received /\ returned' = returned
        /\ keepRecv' = keepRecv /\ got' = got /\ spilled' = spilled /\ Holds(t)
    BY <1>1 DEF server, DownloadInv
  <2>2. Arrivals(t)' /\ Room(t)' /\ Pending(t)' /\ Kept(t)'
    BY <1>1, <1>2, <2>1 DEF Holds, Arrivals, Room, Pending, Kept
  <2>3. InOrder(t)'
    BY <1>2, <2>1 DEF Holds, InOrder, First
  <2>4. Stopped(t)'
    <3>1. (t \in Sized => Len(got[t]) = Body[t]) /\ (t \notin spilled => got[t] = First(Body[t]))
      BY <1>1, <2>1 DEF Holds, Stopped
    <3>2. outcome'[t] \in {"running", "ok"}
      BY <1>1, <1>2, <2>1, <3>1
    <3> QED
      BY <1>1, <2>1, <3>1, <3>2 DEF Stopped, First
  <2> QED
    BY <2>2, <2>3, <2>4 DEF Holds
<1> QED
  BY <1>3, <1>4, <1>5 DEF DownloadInv

\* A callback fails: the buffers stay as they were.
LEMMA ReadFailsInv ==
  ASSUME DownloadInv, NEW t \in Transfer, ReadFails(t)
  PROVE  DownloadInv'
<1>1. /\ outcome' = [outcome EXCEPT ![t] = "error"] /\ turn' = {} /\ force' = FALSE /\ broken' = TRUE
      /\ sent' = sent /\ fin' = fin
      /\ UNCHANGED <<received, http, returned, keepRecv, paused, maxloops, got, spilled>>
      /\ outcome \in [Transfer -> Outcome]
  BY DEF ReadFails, server, DownloadInv, Typed, Outcome
<1>2. outcome' \in [Transfer -> Outcome]
  BY <1>1 DEF Outcome
<1>3. Typed'
  BY <1>1, <1>2 DEF DownloadInv, Typed, Outcome
<1>4. ASSUME NEW u \in Transfer
      PROVE  Holds(u)'
  <2>1. Holds(u) /\ (outcome'[u] = outcome[u] \/ outcome'[u] = "error")
    BY <1>1 DEF DownloadInv
  <2>2. Arrivals(u)' /\ Room(u)' /\ Pending(u)' /\ InOrder(u)'
    BY <1>1, <2>1 DEF Holds, Arrivals, Room, Pending, InOrder, First
  <2>3. Kept(u)' /\ Stopped(u)'
    BY <1>1, <2>1 DEF Holds, Kept, Stopped, First, Bytes
  <2> QED
    BY <2>2, <2>3 DEF Holds
<1> QED
  BY <1>1, <1>3, <1>4 DEF DownloadInv

\* Resuming a transfer, and what the server does.
LEMMA OutsideInv ==
  ASSUME DownloadInv, NEW t \in Transfer, Unpause(t) \/ Send(t) \/ Finish(t)
  PROVE  DownloadInv'
<1>1. /\ UNCHANGED <<received, http, returned, keepRecv, turn, maxloops, got, outcome, broken,
                     spilled>>
      /\ Typed /\ turn \subseteq keepRecv
  BY DEF Unpause, Send, Finish, DownloadInv
<1>2. /\ sent' \in [Transfer -> Size] /\ fin' \subseteq Transfer
      /\ paused' \subseteq Transfer /\ force' \in BOOLEAN
      /\ \A u \in Transfer : /\ received[u] <= sent'[u] /\ sent'[u] <= Body[u]
                             /\ u \in fin' => sent'[u] = Body[u]
                             /\ u \in fin => u \in fin' /\ sent'[u] = sent[u]
  <2>1. \A u \in Transfer : /\ sent[u] <= Body[u] /\ received[u] <= sent[u]
                            /\ u \in fin => sent[u] = Body[u]
                            /\ sent[u] \in Nat /\ received[u] \in Nat /\ Body[u] \in Nat
    BY Numbers DEF DownloadInv, Holds, Arrivals
  <2>2. CASE Unpause(t)
    BY <1>1, <2>1, <2>2 DEF Unpause, server, Typed
  <2>3. CASE Send(t)
    <3>1. /\ sent' = [sent EXCEPT ![t] = sent[t] + 1] /\ sent[t] < Body[t]
          /\ fin' = fin /\ paused' = paused /\ force' = force
      BY <2>3 DEF Send
    <3>2. sent[t] + 1 \in 0 .. Body[t] /\ sent[t] + 1 \in Size /\ t \notin fin
          /\ received[t] <= sent[t] + 1 /\ sent[t] + 1 <= Body[t]
      <4>1. sent[t] + 1 \in 0 .. Body[t] /\ t \notin fin /\ received[t] <= sent[t] + 1
        BY <2>1, <3>1
      <4>2. sent[t] + 1 \in Size
        BY <1>1, <4>1, Numbers
      <4> QED
        BY <2>1, <3>1, <4>1, <4>2
    <3> QED
      BY <1>1, <2>1, <3>1, <3>2 DEF Typed
  <2>4. CASE Finish(t)
    BY <1>1, <2>1, <2>4 DEF Finish, Typed
  <2> QED
    BY <2>2, <2>3, <2>4
<1>3. Typed'
  BY <1>1, <1>2 DEF Typed
<1>4. ASSUME NEW u \in Transfer
      PROVE  Holds(u)'
  <2>1. Holds(u)
    BY DEF DownloadInv
  <2>2. Arrivals(u)'
    BY <1>1, <1>2, <2>1 DEF Holds, Arrivals
  <2>3. Room(u)' /\ Pending(u)' /\ InOrder(u)' /\ Kept(u)' /\ Stopped(u)'
    BY <1>1, <2>1 DEF Holds, Room, Pending, InOrder, Kept, Stopped, First, Bytes
  <2> QED
    BY <2>2, <2>3 DEF Holds
<1> QED
  BY <1>1, <1>3, <1>4 DEF DownloadInv

\* Initially nothing came.
LEMMA InitDownloadInv == Init => DownloadInv
<1> SUFFICES ASSUME Init
             PROVE  DownloadInv
  OBVIOUS
<1> DEFINE empty == [mem |-> <<>>, len |-> 0, overflow |-> <<>>, unacked_window |-> 0, closed |-> FALSE]
<1>1. <<>> \in Seq(Byte) /\ empty \in Struct
  BY EmptySeq DEF Struct
<1>2. ASSUME NEW t \in Transfer
      PROVE  0 \in Size
  <2>1. Body[t] \in Nat
    BY H3DownloadAssumption
  <2>2. 0 \in 0 .. Body[t]
    BY <2>1
  <2> QED
    BY <2>2 DEF Size
<1>3. Typed /\ turn \subseteq keepRecv
  <2>1. 0 \in -1 .. MaxLoops
    BY H3DownloadAssumption
  <2> QED
    BY <1>1, <1>2, <2>1 DEF Init, Typed
<1>4. ASSUME NEW t \in Transfer
      PROVE  Holds(t)
  <2>1. /\ sent[t] = 0 /\ received[t] = 0 /\ returned[t] = 0 /\ http[t] = empty
        /\ t \in keepRecv /\ got[t] = <<>> /\ outcome[t] = "running" /\ fin = {}
        /\ Body[t] \in Nat \ {0} /\ BufferSize \in Nat \ {0} /\ Len(<<>>) = 0
    BY <1>1, H3DownloadAssumption, EmptySeq DEF Init
  <2>2. <<>> \o <<>> = <<>> /\ First(0) = <<>> /\ Bytes(<<>>) = {}
    <3>1. <<>> \o <<>> = <<>>
      BY <1>1, ConcatEmptySeq
    <3>2. First(0) = <<>>
      BY DEF First
    <3>3. Bytes(<<>>) = {}
      BY DEF Bytes
    <3> QED
      BY <3>1, <3>2, <3>3
  <2>3. Arrivals(t) /\ Room(t) /\ Pending(t) /\ InOrder(t) /\ Kept(t) /\ Stopped(t)
    BY <2>1, <2>2 DEF Arrivals, Room, Pending, InOrder, Kept, Stopped
  <2> QED
    BY <2>3 DEF Holds
<1> QED
  BY <1>3, <1>4 DEF DownloadInv

\* The invariant survives a step that changes nothing.
LEMMA StutterDownloadInv ==
  ASSUME DownloadInv, UNCHANGED vars
  PROVE  DownloadInv'
<1>1. /\ sent' = sent /\ fin' = fin /\ received' = received /\ http' = http
      /\ returned' = returned /\ keepRecv' = keepRecv /\ paused' = paused /\ force' = force
      /\ turn' = turn /\ maxloops' = maxloops /\ got' = got /\ outcome' = outcome
      /\ broken' = broken /\ spilled' = spilled
  BY DEF vars, server
<1>2. Typed' /\ turn' \subseteq keepRecv'
  BY <1>1 DEF DownloadInv, Typed
<1>3. ASSUME NEW u \in Transfer
      PROVE  Holds(u)'
  <2>1. Holds(u)
    BY DEF DownloadInv
  <2> QED
    BY <1>1, <2>1 DEF Holds, Arrivals, Room, Pending, InOrder, Kept, Stopped, First, Bytes
<1> QED
  BY <1>2, <1>3 DEF DownloadInv

\* The invariant holds in every behaviour.
LEMMA SpecDownloadInv == Spec => []DownloadInv
<1>1. DownloadInv /\ [Next]_vars => DownloadInv'
  <2> SUFFICES ASSUME DownloadInv, Next
               PROVE  DownloadInv'
    BY StutterDownloadInv
  <2>1. PICK t \in Transfer : Run(t) \/ Unpause(t) \/ Send(t) \/ Finish(t)
    BY DEF Next
  <2>2. CASE \E pause \in {FALSE, (t \in Pausing)} : ReadData(t, pause)
    <3> DEFINE may == t \in Pausing
    <3>1. PICK pause \in {FALSE, may} : ReadData(t, pause)
      BY <2>2
    <3>2. may \in BOOLEAN
      OBVIOUS
    <3> HIDE DEF may
    <3>3. pause \in BOOLEAN
      BY <3>1, <3>2
    <3> QED
      BY <3>1, <3>3, ReadDataInv
  <2>3. CASE ReadNothing(t)
    BY <2>3, ReadNothingInv
  <2>4. CASE ReadFails(t)
    BY <2>4, ReadFailsInv
  <2>5. CASE RunDone(t)
    BY <2>5, RunDoneInv
  <2>6. CASE Unpause(t) \/ Send(t) \/ Finish(t)
    BY <2>6, OutsideInv
  <2> QED
    BY <2>1, <2>2, <2>3, <2>4, <2>5, <2>6 DEF Run
<1> QED
  BY InitDownloadInv, <1>1, PTL DEF Spec

-----------------------------------------------------------------------------
\* No callback writes past the receive buffer of any transfer, whichever
\* transfer's read it runs in and however old the length it goes by.
THEOREM NothingOverruns == Spec => []TypeOK
<1>1. DownloadInv => TypeOK
  <2> SUFFICES ASSUME DownloadInv, NEW t \in Transfer
               PROVE  Len(http[t].mem) + http[t].len <= BufferSize /\ Len(Filled(t)[t].mem) <= BufferSize
    BY DEF DownloadInv, TypeOK
  <2>1. Len(http[t].mem) + http[t].len <= BufferSize
    BY DEF DownloadInv, Holds, Room
  <2> DEFINE f == Filled(t)[t]
  <2>2. f \in Struct /\ Len(f.mem) + f.len <= BufferSize
    BY FilledKeeps
  <2> HIDE DEF f
  <2>3. Len(f.mem) \in Nat /\ f.len \in Nat /\ BufferSize \in Nat
    BY <2>2, EmptyIs, H3DownloadAssumption DEF Struct
  <2>4. Len(f.mem) <= BufferSize
    BY <2>2, <2>3
  <2> QED
    BY <2>1, <2>4 DEF f
<1> QED
  BY SpecDownloadInv, <1>1, PTL

\* Without the overflow buffer a client is passed its body in order, once.
THEOREM InOrderWithoutOverflow == Spec => []OnlyOverflowDisorders
<1>1. DownloadInv => OnlyOverflowDisorders
  BY DEF DownloadInv, Holds, InOrder, OnlyOverflowDisorders
<1> QED
  BY SpecDownloadInv, <1>1, PTL

\* No byte that arrived for a reading transfer is lost.
THEOREM EveryByteIsKept == Spec => []NothingLost
<1>1. DownloadInv => NothingLost
  BY DEF DownloadInv, Holds, Kept, NothingLost, Typed
<1> QED
  BY SpecDownloadInv, <1>1, PTL

\* Credit that was not returned yet comes back with the next read.
THEOREM CreditIsReturned == Spec => []CreditComesBack
<1>1. DownloadInv => CreditComesBack
  BY DEF DownloadInv, Holds, Arrivals, Pending, CreditComesBack
<1> QED
  BY SpecDownloadInv, <1>1, PTL

\* No whole body is taken for a partial file, and none is cut short.
THEOREM NoneCutShort == Spec => []EndsComplete
<1>1. DownloadInv => EndsComplete
  BY DEF DownloadInv, Holds, Stopped, EndsComplete
<1> QED
  BY SpecDownloadInv, <1>1, PTL
=============================================================================
