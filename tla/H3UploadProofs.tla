--------------------------- MODULE H3UploadProofs ---------------------------
(***************************************************************************)
(* Proofs about the upload: for every body, ring, buffer and credit, the   *)
(* ring keeps what nghttp3 still refers to, its count of held bytes is     *)
(* exact, nghttp3's queue agrees with the QUIC stream, and nothing follows *)
(* FIN.  What the operations on the stream do is proved in module          *)
(* H3StreamProofs; here they meet the ring and the application's buffer.   *)
(***************************************************************************)
EXTENDS H3Upload, H3StreamProofs

\* Everything handed to nghttp3 is either reported acknowledged or in outq.
HandedExact == handed = delivered + Data(strm) - strm.ack_done

\* What is left of the body is still with the application, in ulbuf on offer, or
\* in ulbuf and taken by ngh3_stream_send; and that part is inside ulbuf.
Supply ==
  /\ upload_mem + upload_len <= UlBufSize + 1
  /\ pc = "idle" => ~sending
  /\ IF known
       THEN upload_left = size - taken + upload_len + (IF sending THEN 0 ELSE upload_present)
       ELSE upload_left = -1

\* A chunk that is not handed over is the last.
DroppedLast == dropped > 0 => ~strm.frq

\* The cell that is d cells before w in the ring.
Back(w, d) == IF d <= w THEN w - d ELSE w - d + SendSize

\* Byte j of buffer i of stream s is e cells before the place w where the ring b
\* is filled next.
LaidAt(s, b, w, i, j, e) ==
  /\ s.outq[i].at + j - 1 = Back(w, e)
  /\ b[Back(w, e)] = s.outq[i].bytes[j]

\* How far back it is, when d bytes at the end of the ring are not in outq.
Distance(s, d, i, j) == d + Data(s) - DataUpto(s.outq, i - 1) - (j - 1)

\* The bytes that are not acknowledged lie in the ring in the order of outq, one
\* after the other, and the last u cells hold them.
Laid(s, b, w, u, d) ==
  \A i \in 1 .. Len(s.outq) : IsAlien(s.outq[i]) =>
    \A j \in (IF i = 1 THEN s.ack_done ELSE 0) + 1 .. s.outq[i].len :
      /\ Distance(s, d, i, j) \in 1 .. u
      /\ LaidAt(s, b, w, i, j, Distance(s, d, i, j))

\* The inductive invariant: the stream and the ring, and the rest.
StreamInv ==
  /\ StreamOK(strm)
  /\ OutqMatchesWire /\ UsedExact /\ HandedExact /\ FinLast /\ DroppedLast
  /\ Laid(strm, buf, windex, used, dropped)

UploadInv == TypeOK /\ Supply /\ StreamInv

-----------------------------------------------------------------------------
\* The n cells from w on are there, and none of them is one of the u cells before w.
Free(w, u, n) ==
  w \in Cell /\ u \in Nat /\ n \in Nat /\ u + n <= SendSize /\ w + n <= SendSize

\* A copy of n bytes to free cells from w on does not touch the u cells before w,
\* which are then n cells further back.
LEMMA CopyOld ==
  ASSUME NEW w, NEW u, NEW n, Free(w, u, n), NEW e \in 1 .. u
  PROVE  /\ Back(w, e) \in Cell /\ Back(w, e) \notin w .. w + n - 1
         /\ Back(Advance(w, n), e + n) = Back(w, e)
<1>1. /\ SendSize \in Nat \ {0} /\ w \in Nat /\ w < SendSize
      /\ u \in Nat /\ n \in Nat /\ u + n <= SendSize /\ w + n <= SendSize
  BY UploadAssumption DEF Cell, Free
<1>2. Advance(w, n) = IF w + n = SendSize THEN 0 ELSE w + n
  BY DEF Advance
<1>3. Back(w, e) \in Cell /\ Back(w, e) \notin w .. w + n - 1
  BY <1>1 DEF Back, Cell
<1>4. Back(Advance(w, n), e + n) = Back(w, e)
  BY <1>1, <1>2 DEF Back
<1> QED
  BY <1>3, <1>4

\* What was copied is what the last n cells hold.
LEMMA CopyNew ==
  ASSUME NEW w \in Cell, NEW n \in Nat, w + n <= SendSize
  PROVE  /\ Advance(w, n) \in Cell
         /\ \A j \in 1 .. n : Back(Advance(w, n), n - j + 1) = w + j - 1
<1>1. SendSize \in Nat \ {0} /\ w \in Nat /\ w < SendSize
  BY UploadAssumption DEF Cell
<1>2. Advance(w, n) = IF w + n = SendSize THEN 0 ELSE w + n
  BY DEF Advance
<1>3. Advance(w, n) \in Cell
  BY <1>1, <1>2 DEF Cell
<1>4. ASSUME NEW j \in 1 .. n
      PROVE  Back(Advance(w, n), n - j + 1) = w + j - 1
  BY <1>1, <1>2 DEF Back
<1> QED
  BY <1>3, <1>4

\* The state of the ring after n bytes were copied.
Copied(b, c, w, n) ==
  \A x \in Cell : x \notin w .. w + n - 1 => c[x] = b[x]

\* The chunk is not handed over.
LEMMA LaidDropped ==
  ASSUME NEW s, NEW t, StreamOK(s), StreamOK(t), t.ack_done = s.ack_done, Data(t) = Data(s),
         \A i \in 1 .. Len(t.outq) : IsAlien(t.outq[i]) =>
           /\ i \in 1 .. Len(s.outq) /\ t.outq[i] = s.outq[i]
           /\ DataUpto(t.outq, i - 1) = DataUpto(s.outq, i - 1),
         NEW w \in Cell, NEW u \in Nat, NEW n \in Nat, u + n <= SendSize, w + n <= SendSize,
         NEW b, NEW c, Copied(b, c, w, n), NEW d \in Nat, Laid(s, b, w, u, d)
  PROVE  Laid(t, c, Advance(w, n), u + n, d + n)
<1> SUFFICES ASSUME NEW i \in 1 .. Len(t.outq), IsAlien(t.outq[i]),
                    NEW j \in (IF i = 1 THEN t.ack_done ELSE 0) + 1 .. t.outq[i].len
             PROVE  LET e == Distance(t, d + n, i, j)
                    IN e \in 1 .. u + n /\ LaidAt(t, c, Advance(w, n), i, j, e)
  BY DEF Laid
<1> DEFINE e == Distance(s, d, i, j)
<1>1. /\ i \in 1 .. Len(s.outq) /\ t.outq[i] = s.outq[i]
      /\ DataUpto(t.outq, i - 1) = DataUpto(s.outq, i - 1)
  OBVIOUS
<1>2. e \in 1 .. u /\ LaidAt(s, b, w, i, j, e)
  BY <1>1 DEF Laid
<1>3. Distance(t, d + n, i, j) = e + n
  <2>1. Data(s) \in Nat
    BY PositionsIs
  <2>2. Len(s.outq) \in Nat /\ s.outq[i].len \in Nat /\ s.ack_done \in Nat
    BY <1>1, Fields DEF StreamOK
  <2>3. i - 1 \in 0 .. Len(s.outq)
    BY <1>1, <2>2
  <2>4. DataUpto(s.outq, i - 1) \in Nat
    BY <2>3, PositionsIs
  <2>5. j \in Int
    BY <1>1, <2>2
  <2> QED
    BY <1>1, <2>1, <2>4, <2>5 DEF Distance
<1> HIDE DEF e
<1>4. /\ Back(w, e) \in Cell /\ Back(w, e) \notin w .. w + n - 1
      /\ Back(Advance(w, n), e + n) = Back(w, e)
  <2>1. e \in 1 .. u
    BY <1>2
  <2>2. Free(w, u, n)
    BY DEF Free
  <2> QED
    BY <2>1, <2>2, CopyOld
<1>5. c[Back(w, e)] = b[Back(w, e)]
  BY <1>4 DEF Copied
<1>6. LaidAt(t, c, Advance(w, n), i, j, e + n)
  BY <1>1, <1>2, <1>4, <1>5 DEF LaidAt
<1>7. e + n \in 1 .. u + n
  BY <1>2
<1> QED
  BY <1>3, <1>6, <1>7

\* The chunk is the last buffer of outq.
LEMMA LaidHanded ==
  ASSUME NEW s, NEW t, StreamOK(s), StreamOK(t), NEW k \in BufferType, IsAlien(k),
         Added(s, t, k, 1),
         NEW w \in Cell, NEW u \in Nat, u + k.len <= SendSize, w + k.len <= SendSize,
         NEW b, NEW c, Copied(b, c, w, k.len), k.at = w,
         \A j \in 1 .. k.len : c[w + j - 1] = k.bytes[j],
         Laid(s, b, w, u, 0)
  PROVE  Laid(t, c, Advance(w, k.len), u + k.len, 0)
<1> DEFINE n == k.len
           v == Advance(w, n)
<1> SUFFICES ASSUME NEW i \in 1 .. Len(t.outq), IsAlien(t.outq[i]),
                    NEW j \in (IF i = 1 THEN t.ack_done ELSE 0) + 1 .. t.outq[i].len
             PROVE  LET e == Distance(t, 0, i, j)
                    IN e \in 1 .. u + n /\ LaidAt(t, c, v, i, j, e)
  BY DEF Laid
<1>1. /\ Data(t) = Data(s) + n /\ n \in Nat /\ t.ack_done = s.ack_done
      /\ Data(s) \in Nat /\ Data(t) \in Nat /\ s.ack_done \in Nat
      /\ \/ /\ i \in 1 .. Len(s.outq) /\ t.outq[i] = s.outq[i]
            /\ DataUpto(t.outq, i - 1) = DataUpto(s.outq, i - 1)
         \/ t.outq[i] = k /\ DataUpto(t.outq, i - 1) = Data(s)
  <2>1. DataLen(k) = n /\ n \in Nat
    BY DEF DataLen, BufferType
  <2>2. Data(s) \in Nat /\ Data(t) \in Nat
    BY PositionsIs
  <2>3. s.ack_done \in Nat
    BY Fields DEF StreamOK
  <2> QED
    BY <2>1, <2>2, <2>3 DEF Added
<1>a. /\ i \in Nat /\ t.outq[i].len \in Nat
  <2>1. Len(t.outq) \in Nat /\ t.outq[i].len \in Nat
    BY Fields DEF StreamOK
  <2> QED
    BY <2>1
<1>b. /\ j \in Nat \ {0} /\ j <= t.outq[i].len
      /\ j \in (IF i = 1 THEN s.ack_done ELSE 0) + 1 .. t.outq[i].len
  BY <1>1, <1>a
<1> HIDE DEF n, v
<1>2. CASE /\ i \in 1 .. Len(s.outq) /\ t.outq[i] = s.outq[i]
           /\ DataUpto(t.outq, i - 1) = DataUpto(s.outq, i - 1)
  <2> DEFINE e == Distance(s, 0, i, j)
  <2>1. e \in 1 .. u /\ LaidAt(s, b, w, i, j, e)
    BY <1>2, <1>b DEF Laid
  <2>2. Distance(t, 0, i, j) = e + n
    <3>1. Len(s.outq) \in Nat
      BY Fields DEF StreamOK
    <3>2. i - 1 \in 0 .. Len(s.outq)
      BY <1>2, <3>1
    <3>3. DataUpto(s.outq, i - 1) \in Nat
      BY <3>2, PositionsIs
    <3> QED
      BY <1>1, <1>2, <1>b, <3>3 DEF Distance
  <2> HIDE DEF e
  <2>3. /\ Back(w, e) \in Cell /\ Back(w, e) \notin w .. w + n - 1
        /\ Back(v, e + n) = Back(w, e)
    <3>1. e \in 1 .. u /\ n \in Nat /\ u + n <= SendSize /\ w + n <= SendSize
      BY <1>1, <2>1 DEF n
    <3>2. Free(w, u, n)
      BY <3>1 DEF Free
    <3> QED
      BY <3>1, <3>2, CopyOld DEF v
  <2>4. c[Back(w, e)] = b[Back(w, e)]
    BY <2>3 DEF Copied, n
  <2>5. LaidAt(t, c, v, i, j, e + n)
    BY <1>2, <2>1, <2>3, <2>4 DEF LaidAt
  <2>6. e + n \in 1 .. u + n
    <3>1. e \in 1 .. u /\ n \in Nat
      BY <1>1, <2>1
    <3> QED
      BY <3>1
  <2> QED
    BY <2>2, <2>5, <2>6
<1>3. CASE t.outq[i] = k /\ DataUpto(t.outq, i - 1) = Data(s)
  <2>1. j \in 1 .. n
    BY <1>1, <1>3, <1>b DEF n
  <2>2. Distance(t, 0, i, j) = n - j + 1
    BY <1>1, <1>3, <1>b DEF Distance
  <2>3. n - j + 1 \in 1 .. u + n
    <3>1. n \in Nat
      BY <1>1
    <3> QED
      BY <2>1, <3>1
  <2>4. Back(v, n - j + 1) = w + j - 1
    <3>1. n \in Nat /\ w + n <= SendSize
      BY <1>1 DEF n
    <3> QED
      BY <2>1, <3>1, CopyNew, Zenon DEF v
  <2>5. LaidAt(t, c, v, i, j, n - j + 1)
    BY <1>3, <2>1, <2>4 DEF LaidAt, n
  <2> QED
    BY <2>2, <2>3, <2>5
<1> QED
  BY <1>1, <1>2, <1>3

\* Bytes are acknowledged.
LEMMA LaidAcked ==
  ASSUME NEW s, StreamOK(s), NEW n \in Nat, n <= InFlight(s),
         NEW b, NEW w, NEW u \in Nat, NEW d \in Nat, u = d - s.ack_done + Data(s),
         Laid(s, b, w, u, d)
  PROVE  LET t == AddAckOffset(s, n)
         IN Laid(t, b, w, u - AckedData(s, n), d)
<1> DEFINE t == AddAckOffset(s, n)
           a == AckedData(s, n)
<1>1. /\ StreamOK(t) /\ a \in Nat
      /\ Data(t) - t.ack_done = Data(s) - s.ack_done - a
      /\ \A i \in 1 .. Len(t.outq) : \E k \in 1 .. Len(s.outq) :
           /\ t.outq[i] = s.outq[k]
           /\ Data(t) - DataUpto(t.outq, i - 1) = Data(s) - DataUpto(s.outq, k - 1)
           /\ k = 1 => i = 1 /\ s.ack_done <= t.ack_done
  BY AddAckOffsetIs
<1> HIDE DEF t, a
<1>10. u - a = d - t.ack_done + Data(t)
  <2>1. s.ack_done \in Nat /\ t.ack_done \in Nat
    BY <1>1, Fields DEF StreamOK
  <2>2. Data(s) \in Nat /\ Data(t) \in Nat
    BY <1>1, PositionsIs
  <2>3. u - d = Data(s) - s.ack_done
    BY <2>1, <2>2
  <2>4. u - d - a = Data(t) - t.ack_done
    BY <1>1, <2>3
  <2>5. a \in Int /\ u - a = u - d - a + d
    BY <1>1
  <2> QED
    BY <2>1, <2>2, <2>4, <2>5
<1> SUFFICES ASSUME NEW i \in 1 .. Len(t.outq), IsAlien(t.outq[i]),
                    NEW j \in (IF i = 1 THEN t.ack_done ELSE 0) + 1 .. t.outq[i].len
             PROVE  LET e == Distance(t, d, i, j)
                    IN e \in 1 .. u - a /\ LaidAt(t, b, w, i, j, e)
  BY DEF Laid, t, a
<1>2. PICK k \in 1 .. Len(s.outq) :
        /\ t.outq[i] = s.outq[k]
        /\ Data(t) - DataUpto(t.outq, i - 1) = Data(s) - DataUpto(s.outq, k - 1)
        /\ k = 1 => i = 1 /\ s.ack_done <= t.ack_done
  BY <1>1
<1>3. /\ Len(t.outq) \in Nat /\ Len(s.outq) \in Nat
      /\ t.outq[i] \in BufferType /\ t.outq[i].len \in Nat
      /\ t.ack_done \in Nat /\ s.ack_done \in Nat
      /\ t.outq \in Seq(BufferType)
  BY <1>1, Fields DEF StreamOK
<1>4. /\ i \in 1 .. Len(t.outq) /\ i - 1 \in 0 .. Len(t.outq) /\ k - 1 \in 0 .. Len(s.outq)
      /\ i - 1 \in Nat /\ Len(t.outq) \in 0 .. Len(t.outq)
  <2>1. Len(t.outq) \in Nat /\ Len(s.outq) \in Nat
    BY <1>3
  <2> QED
    BY <2>1
<1>5. /\ DataUpto(t.outq, i - 1) \in Nat /\ DataUpto(s.outq, k - 1) \in Nat
      /\ Data(t) \in Nat /\ Data(s) \in Nat
  BY <1>1, <1>4, PositionsIs
<1>6. j \in Nat \ {0} /\ j <= t.outq[i].len /\ (i = 1 => t.ack_done < j)
  BY <1>3
<1>7. j \in (IF k = 1 THEN s.ack_done ELSE 0) + 1 .. s.outq[k].len
  BY <1>2, <1>3, <1>6
<1> DEFINE e == Distance(s, d, k, j)
<1>8. e \in 1 .. u /\ LaidAt(s, b, w, k, j, e)
  BY <1>2, <1>7 DEF Laid
<1>9. Distance(t, d, i, j) = e
  BY <1>2, <1>5, <1>6 DEF Distance
<1> HIDE DEF e
\* The byte is not further back than the first that is not acknowledged.
<1>11. t.ack_done <= DataUpto(t.outq, i - 1) + (j - 1)
  <2>1. CASE i = 1
    BY <1>3, <1>5, <1>6, <2>1
  <2>2. CASE i # 1
    <3>1. 1 \in 0 .. Len(t.outq) /\ t.outq # <<>> /\ 1 <= i - 1
      BY <1>3, <1>4, <2>2, EmptySeq
    <3>2. t.ack_done <= DataUpto(t.outq, 1)
      BY <1>1, <3>1, ReportedIs
    <3>3. DataUpto(t.outq, 1) <= DataUpto(t.outq, i - 1) /\ DataUpto(t.outq, 1) \in Nat
      BY <1>3, <1>4, <3>1, DataUptoIs
    <3>4. /\ t.ack_done \in Nat /\ DataUpto(t.outq, i - 1) \in Nat
          /\ j - 1 \in Nat
      BY <1>3, <1>5, <1>6
    <3> QED
      BY <3>2, <3>3, <3>4
  <2> QED
    BY <2>1, <2>2
<1>12. e <= u - a
  <2>1. e = d + (Data(t) - DataUpto(t.outq, i - 1)) - (j - 1)
    BY <1>5, <1>6, <1>9 DEF Distance
  <2>2. t.ack_done \in Nat /\ j - 1 \in Nat
    BY <1>3, <1>6
  <2> DEFINE x == DataUpto(t.outq, i - 1)
             y == j - 1
  <2>3. x \in Nat /\ y \in Nat /\ Data(t) \in Nat
    BY <1>5, <2>2
  <2>4. e = d + (Data(t) - x) - y
    BY <2>1
  <2>5. t.ack_done <= x + y
    BY <1>11
  <2> HIDE DEF x, y
  <2>6. e <= d + Data(t) - t.ack_done
    BY <2>2, <2>3, <2>4, <2>5
  <2>7. u - a = d + Data(t) - t.ack_done
    BY <1>10, <2>2, <2>3
  <2> QED
    BY <2>6, <2>7
<1>13. e \in 1 .. u - a
  BY <1>1, <1>8, <1>12
<1>14. LaidAt(t, b, w, i, j, e)
  BY <1>2, <1>8 DEF LaidAt
<1> QED
  BY <1>9, <1>13, <1>14

-----------------------------------------------------------------------------
\* The invariants in the words of module H3StreamProofs.
LEMMA InWords ==
  /\ OutqMatchesWire <=> inflight = InFlight(strm)
  /\ UsedExact <=> used = dropped - strm.ack_done + Data(strm)
  BY DEF OutqMatchesWire, InFlight, UsedExact, Data

\* The same of the next state.
LEMMA InWordsNext ==
  /\ OutqMatchesWire' <=> inflight' = InFlight(strm')
  /\ UsedExact' <=> used' = dropped' - strm'.ack_done + Data(strm')
  /\ HandedExact' <=> handed' = delivered' + Data(strm') - strm'.ack_done
  /\ FinLast' <=> (fin_written' => ~strm'.frq /\ Unsent(strm') = 0)
  /\ DroppedLast' <=> (dropped' > 0 => ~strm'.frq)
  /\ StreamInv' <=> /\ StreamOK(strm')
                    /\ OutqMatchesWire' /\ UsedExact' /\ HandedExact' /\ FinLast' /\ DroppedLast'
                    /\ Laid(strm', buf', windex', used', dropped')
  BY DEF OutqMatchesWire, InFlight, UsedExact, Data, HandedExact, FinLast, DroppedLast, StreamInv

LEMMA SameLaid ==
  ASSUME NEW s, NEW t, SameQueue(s, t), NEW b, NEW w, NEW u, NEW d, Laid(s, b, w, u, d)
  PROVE  Laid(t, b, w, u, d)
  BY DEF SameQueue, Laid, LaidAt, Distance, Data

\* What only turns flags of the stream.
LEMMA FlagsKeep ==
  ASSUME StreamInv, SameQueue(strm, strm'),
         UNCHANGED <<ring, inflight, fin_written, handed, delivered, dropped>>
  PROVE  StreamInv'
<1>1. /\ StreamOK(strm') /\ InFlight(strm') = InFlight(strm)
      /\ Unsent(strm') = Unsent(strm) /\ Data(strm') = Data(strm)
  BY SameQueueKeeps DEF StreamInv
<1>2. strm'.ack_done = strm.ack_done /\ strm'.frq = strm.frq
  BY DEF SameQueue
<1>3. Laid(strm', buf, windex, used, dropped)
  BY SameLaid DEF StreamInv
<1>4. OutqMatchesWire' /\ UsedExact' /\ HandedExact'
  BY <1>1, <1>2, InWords, InWordsNext DEF StreamInv, HandedExact, ring
<1>5. FinLast' /\ DroppedLast'
  BY <1>1, <1>2, InWordsNext DEF StreamInv, FinLast, DroppedLast
<1> QED
  BY <1>1, <1>3, <1>4, <1>5, InWordsNext DEF ring

LEMMA SameQueueTrans ==
  ASSUME NEW s, NEW t, NEW u, SameQueue(s, t), SameQueue(t, u)
  PROVE  SameQueue(s, u)
  BY DEF SameQueue

\* What InFlight and Unsent and the rest are.
LEMMA StreamNumbers ==
  ASSUME StreamInv
  PROVE  /\ strm \in StreamType /\ InFlight(strm) \in Int /\ Unsent(strm) \in Nat
         /\ Data(strm) \in Nat /\ strm.ack_done \in Nat /\ strm.frq \in BOOLEAN
         /\ strm.ack_done <= Data(strm)
<1>1. StreamOK(strm)
  BY DEF StreamInv
<1>2. strm \in StreamType
  BY <1>1 DEF StreamOK
<1> QED
  BY <1>1, <1>2, PositionsIs, ReportedIs, Fields

-----------------------------------------------------------------------------
\* The steps that change the stream's queue or the ring, one by one.
LEMMA WriteKeeps ==
  ASSUME StreamInv, TypeOK, NEW n \in Lengths, Write(n)
  PROVE  StreamInv'
<1>1. /\ n \in Nat /\ n > 0 /\ n <= Unsent(strm) /\ strm' = AddWriteOffset(strm, n)
      /\ inflight' = inflight + n /\ fin_written' = (fin_written \/ FinWith(n))
      /\ UNCHANGED <<buf, windex, used, handed, delivered, dropped>>
  BY UploadAssumption DEF Write, Lengths, ring, history
<1>2. StreamOK(strm)
  BY DEF StreamInv
<1>3. /\ StreamOK(strm') /\ strm'.outq = strm.outq /\ strm'.ack_done = strm.ack_done
      /\ strm'.frq = strm.frq
      /\ InFlight(strm') = InFlight(strm) + n /\ Unsent(strm') = Unsent(strm) - n
  BY <1>1, <1>2, AddWriteOffsetIs
<1>4. Data(strm') = Data(strm)
  BY <1>3 DEF Data
<1>5. OutqMatchesWire' /\ UsedExact' /\ HandedExact' /\ DroppedLast'
  BY <1>1, <1>3, <1>4, InWords, InWordsNext DEF StreamInv, HandedExact, DroppedLast
<1>6. FinLast'
  <2>1. CASE fin_written
    BY <1>1, <2>1, StreamNumbers DEF StreamInv, FinLast
  <2>2. CASE ~fin_written /\ FinWith(n)
    <3>1. ~strm.frq /\ n = Unsent(strm)
      BY <2>2 DEF FinWith, Fin
    <3> QED
      BY <1>3, <3>1, StreamNumbers, InWordsNext
  <2>3. CASE ~fin_written /\ ~FinWith(n)
    BY <1>1, <2>3, InWordsNext
  <2> QED
    BY <2>1, <2>2, <2>3
<1>7. Laid(strm', buf, windex, used, dropped)
  BY <1>3, <1>4 DEF StreamInv, Laid, LaidAt, Distance
<1> QED
  BY <1>1, <1>3, <1>5, <1>6, <1>7, InWordsNext

LEMMA AckKeeps ==
  ASSUME StreamInv, TypeOK, NEW n \in Lengths, Ack(n)
  PROVE  StreamInv' /\ used' \in 0 .. used /\ delivered' \in Nat
<1> DEFINE a == AckedData(strm, n)
<1>1. /\ n \in Nat /\ n <= inflight /\ strm' = AddAckOffset(strm, n)
      /\ inflight' = inflight - n /\ used' = used - a /\ delivered' = delivered + a
      /\ UNCHANGED <<buf, windex, fin_written, handed, dropped>>
  BY UploadAssumption DEF Ack, Lengths
<1>2. StreamOK(strm) /\ inflight = InFlight(strm)
  BY InWords DEF StreamInv
<1>3. /\ StreamOK(strm') /\ strm'.frq = strm.frq
      /\ InFlight(strm') = InFlight(strm) - n /\ Unsent(strm') = Unsent(strm)
      /\ a \in Nat
      /\ Data(strm') - strm'.ack_done = Data(strm) - strm.ack_done - a
  BY <1>1, <1>2, AddAckOffsetIs
<1>4. /\ used \in Nat /\ dropped \in Nat /\ handed \in Nat /\ delivered \in Nat
      /\ Data(strm) \in Nat /\ strm.ack_done \in Nat
  BY StreamNumbers DEF TypeOK
<1>5. /\ used = dropped - strm.ack_done + Data(strm)
      /\ handed = delivered + Data(strm) - strm.ack_done
  BY InWords DEF StreamInv, HandedExact
<1>6. Laid(strm', buf, windex, used', dropped)
  BY <1>1, <1>2, <1>4, <1>5, LaidAcked DEF StreamInv
<1> HIDE DEF a
<1>7. strm'.ack_done \in Nat /\ Data(strm') \in Nat /\ strm'.ack_done <= Data(strm')
  BY <1>3, Fields, PositionsIs, ReportedIs DEF StreamOK
<1>8. /\ used' = dropped - strm'.ack_done + Data(strm')
      /\ handed = delivered' + Data(strm') - strm'.ack_done
  <2> DEFINE D == Data(strm')
             k == strm'.ack_done
  <2>1. k \in Nat /\ D \in Nat /\ D - k = Data(strm) - strm.ack_done - a /\ a \in Nat
    BY <1>3, <1>7
  <2>2. used' = used - a /\ delivered' = delivered + a
    BY <1>1
  <2> HIDE DEF D, k
  <2>3. used' = dropped - k + D /\ handed = delivered' + D - k
    BY <1>4, <1>5, <2>1, <2>2
  <2> QED
    BY <2>3 DEF D, k
<1>9. OutqMatchesWire' /\ UsedExact' /\ HandedExact'
  BY <1>1, <1>2, <1>3, <1>8, InWordsNext
<1>10. FinLast' /\ DroppedLast'
  BY <1>1, <1>3, InWordsNext DEF StreamInv, FinLast, DroppedLast
<1>11. used' \in 0 .. used /\ delivered' \in Nat
  <2>1. used' \in Int /\ used' >= 0
    BY <1>4, <1>7, <1>8
  <2> QED
    BY <1>1, <1>3, <1>4, <2>1
<1> QED
  BY <1>1, <1>3, <1>6, <1>9, <1>10, <1>11, InWordsNext

\* The chunk fits what is offered, what is free of the ring, and what is left of it
\* up to its end.
LEMMA ChunkIs ==
  ASSUME TypeOK, Supply
  PROVE  LET n == ChunkLen
         IN /\ n \in Nat /\ n <= upload_len /\ used + n <= SendSize /\ windex + n <= SendSize
            /\ Chunk(n) \in [1 .. n -> Body \cup {0}]
            /\ ChunkBuffer(n) \in BufferType /\ IsAlien(ChunkBuffer(n))
            /\ ChunkBuffer(n).len = n /\ ChunkBuffer(n).at = windex
            /\ ChunkBuffer(n).bytes = Chunk(n)
            /\ DataLen(ChunkBuffer(n)) = n
<1> DEFINE n == ChunkLen
<1>1. /\ upload_len \in Nat /\ used \in Nat /\ used <= SendSize /\ windex \in Nat
      /\ windex < SendSize /\ SendSize \in Nat /\ UlBufSize \in Nat
      /\ upload_mem \in Nat \ {0} /\ upload_mem + upload_len <= UlBufSize + 1
      /\ ulbuf \in [1 .. UlBufSize -> Body \cup {0}] /\ size \in Nat
  BY UploadAssumption DEF TypeOK, Cell, Supply
<1>2. n \in Nat /\ n <= upload_len /\ used + n <= SendSize /\ windex + n <= SendSize
  BY <1>1 DEF ChunkLen, Min2
<1> HIDE DEF n
<1>3. Chunk(n) \in [1 .. n -> Body \cup {0}]
  <2>1. \A i \in 1 .. n : upload_mem + i - 1 \in 1 .. UlBufSize
    BY <1>1, <1>2
  <2>2. \A i \in 1 .. n : ulbuf[upload_mem + i - 1] \in Body \cup {0}
    BY <1>1, <2>1
  <2> QED
    BY <2>2 DEF Chunk
<1>4. Chunk(n) \in Seq(Nat)
  <2>1. Body \cup {0} \subseteq Nat
    BY <1>1 DEF Body
  <2>2. Chunk(n) \in [1 .. n -> Nat]
    BY <1>3, <2>1
  <2> QED
    BY <1>2, <2>2
<1>5. /\ ChunkBuffer(n) \in BufferType /\ IsAlien(ChunkBuffer(n))
      /\ ChunkBuffer(n).len = n /\ ChunkBuffer(n).at = windex
      /\ ChunkBuffer(n).bytes = Chunk(n)
      /\ DataLen(ChunkBuffer(n)) = n
  <2>1. windex + n \in Nat
    BY <1>1, <1>2
  <2> QED
    BY <1>1, <1>2, <1>4, <2>1 DEF ChunkBuffer, BufferType, Kind, IsAlien, DataLen
<1> QED
  BY <1>2, <1>3, <1>5 DEF n

\* What memcpy does to the ring.
LEMMA MemcpyIs ==
  ASSUME TypeOK, Supply, NEW n, n = ChunkLen,
         buf' = [c \in Cell |-> IF c \in windex .. windex + n - 1 THEN Chunk(n)[c - windex + 1]
                                ELSE buf[c]]
  PROVE  /\ buf' \in [Cell -> Body \cup {0}]
         /\ Copied(buf, buf', windex, n)
         /\ \A j \in 1 .. n : buf'[windex + j - 1] = Chunk(n)[j]
<1>1. /\ n \in Nat /\ windex + n <= SendSize /\ windex \in Nat /\ SendSize \in Nat
      /\ Chunk(n) \in [1 .. n -> Body \cup {0}] /\ buf \in [Cell -> Body \cup {0}]
  <2>1. /\ n \in Nat /\ windex + n <= SendSize
        /\ Chunk(n) \in [1 .. n -> Body \cup {0}]
    BY ChunkIs
  <2>2. windex \in Cell /\ buf \in [Cell -> Body \cup {0}]
    BY DEF TypeOK
  <2> QED
    BY <2>1, <2>2, UploadAssumption DEF Cell
<1>2. \A c \in Cell : c \in windex .. windex + n - 1 => c - windex + 1 \in 1 .. n
  BY <1>1 DEF Cell
<1>3. buf' \in [Cell -> Body \cup {0}]
  BY <1>1, <1>2
<1>4. Copied(buf, buf', windex, n)
  BY <1>1 DEF Copied
<1>5. ASSUME NEW j \in 1 .. n
      PROVE  buf'[windex + j - 1] = Chunk(n)[j]
  <2> DEFINE c == windex + j - 1
  <2>1. c \in Cell /\ c \in windex .. windex + n - 1 /\ c - windex + 1 = j
    BY <1>1 DEF Cell
  <2> HIDE DEF c
  <2>2. buf'[c] = Chunk(n)[j]
    BY <2>1
  <2> QED
    BY <2>2 DEF c
<1> QED
  BY <1>3, <1>4, <1>5

\* WriteNoData after n bytes were put into the ring for nothing.
LEMMA EofKeeps ==
  ASSUME StreamInv, TypeOK, strm.frq, strm' = WriteNoData(strm), NEW n \in Nat,
         used + n <= SendSize, windex + n <= SendSize, Copied(buf, buf', windex, n),
         windex' = Advance(windex, n), used' = used + n, dropped' = dropped + n,
         UNCHANGED <<inflight, fin_written, handed, delivered>>
  PROVE  StreamInv'
<1>1. StreamOK(strm)
  BY DEF StreamInv
<1>2. /\ StreamOK(strm') /\ ~strm'.frq /\ strm'.ack_done = strm.ack_done
      /\ InFlight(strm') = InFlight(strm) /\ Unsent(strm') = Unsent(strm)
      /\ Data(strm') = Data(strm)
      /\ \A i \in 1 .. Len(strm'.outq) : IsAlien(strm'.outq[i]) =>
           /\ i \in 1 .. Len(strm.outq) /\ strm'.outq[i] = strm.outq[i]
           /\ DataUpto(strm'.outq, i - 1) = DataUpto(strm.outq, i - 1)
  BY <1>1, WriteNoDataIs
<1>3. /\ used \in Nat /\ dropped \in Nat /\ windex \in Cell
      /\ Data(strm) \in Nat /\ strm.ack_done \in Nat
  BY StreamNumbers DEF TypeOK
<1>4. Laid(strm', buf', windex', used', dropped')
  BY <1>1, <1>2, <1>3, LaidDropped DEF StreamInv
<1>5. UsedExact'
  <2>1. used = dropped - strm.ack_done + Data(strm)
    BY InWords DEF StreamInv
  <2>2. used' = dropped' - strm.ack_done + Data(strm)
    BY <1>3, <2>1
  <2> QED
    BY <1>2, <2>2, InWordsNext
<1>6. OutqMatchesWire' /\ HandedExact' /\ FinLast' /\ DroppedLast'
  BY <1>2, InWords, InWordsNext DEF StreamInv, HandedExact, FinLast
<1> QED
  BY <1>2, <1>4, <1>5, <1>6, InWordsNext

\* WriteData after the chunk was put into the ring.
LEMMA ChunkKeeps ==
  ASSUME StreamInv, TypeOK, strm.frq, NEW k \in BufferType, IsAlien(k), k.len > 0,
         NEW eof \in BOOLEAN, strm' = WriteData(strm, k, eof),
         used + k.len <= SendSize, windex + k.len <= SendSize,
         Copied(buf, buf', windex, k.len), k.at = windex,
         \A j \in 1 .. k.len : buf'[windex + j - 1] = k.bytes[j],
         windex' = Advance(windex, k.len), used' = used + k.len, handed' = handed + k.len,
         UNCHANGED <<inflight, fin_written, delivered, dropped>>
  PROVE  StreamInv'
<1>1. StreamOK(strm)
  BY DEF StreamInv
<1>2. StreamOK(strm') /\ Added(strm, strm', k, 1)
  BY <1>1, WriteDataIs
<1>3. /\ used \in Nat /\ dropped \in Nat /\ windex \in Cell /\ handed \in Nat /\ delivered \in Nat
      /\ Data(strm) \in Nat /\ strm.ack_done \in Nat /\ k.len \in Nat
  BY StreamNumbers DEF TypeOK, BufferType
<1>4. dropped = 0 /\ ~fin_written
  BY <1>3 DEF StreamInv, DroppedLast, FinLast
<1>5. /\ InFlight(strm') = InFlight(strm) /\ strm'.ack_done = strm.ack_done
      /\ Data(strm') = Data(strm) + k.len
  BY <1>2 DEF Added, DataLen
<1>6. Laid(strm', buf', windex', used', dropped')
  BY <1>1, <1>2, <1>3, <1>4, LaidHanded DEF StreamInv
<1>7. UsedExact' /\ HandedExact'
  BY <1>3, <1>5, InWords, InWordsNext DEF StreamInv, HandedExact
<1>8. OutqMatchesWire' /\ FinLast' /\ DroppedLast'
  BY <1>3, <1>4, <1>5, InWords, InWordsNext DEF StreamInv
<1> QED
  BY <1>2, <1>6, <1>7, <1>8, InWordsNext

\* What TypeOK says of the stream.
LEMMA StreamNext ==
  ASSUME StreamInv'
  PROVE  /\ strm'.outq_idx \in 0 .. Len(strm'.outq) /\ strm'.outq_offset \in Nat
         /\ strm'.ack_offset \in Nat /\ strm'.ack_done \in Nat
<1>1. StreamOK(strm')
  BY DEF StreamInv
<1>2. strm' \in StreamType /\ Len(strm'.outq) \in Nat /\ strm'.outq_idx <= Len(strm'.outq)
  BY <1>1, Fields DEF StreamOK, Positions
<1> QED
  BY <1>2, Fields

\* What FillChunk does, in all its cases.
LEMMA FillChunkKeeps ==
  ASSUME UploadInv, FillChunk
  PROVE  UploadInv'
<1> DEFINE n == ChunkLen
           k == ChunkBuffer(n)
           left == IF known THEN upload_left - n ELSE upload_left
<1>1. TypeOK /\ Supply /\ StreamInv
  BY DEF UploadInv
<1>2. /\ n \in Nat /\ n > 0 /\ n <= upload_len /\ used + n <= SendSize /\ windex + n <= SendSize
      /\ Chunk(n) \in [1 .. n -> Body \cup {0}]
      /\ k \in BufferType /\ IsAlien(k) /\ k.len = n /\ k.at = windex /\ k.bytes = Chunk(n)
  BY <1>1, ChunkIs DEF FillChunk
<1>3. /\ strm.frq /\ pc = "fill" /\ pc' = "write"
      /\ buf' = [c \in Cell |-> IF c \in windex .. windex + n - 1 THEN Chunk(n)[c - windex + 1]
                                ELSE buf[c]]
      /\ windex' = Advance(windex, n) /\ used' = used + n
      /\ upload_mem' = upload_mem + n /\ upload_len' = upload_len - n /\ upload_left' = left
      /\ UNCHANGED <<size, known, taken, ulbuf, upload_present, keep_send, credit, inflight,
                     fin_written, sending, upload_done, delivered>>
  BY DEF FillChunk, Filling, MayRead, EndFill, source, transfer, quic
<1>4. \/ /\ strm' = WriteNoData(strm) /\ dropped' = dropped + n
         /\ UNCHANGED <<handed, inOrder>>
      \/ /\ strm' = WriteData(strm, k, known /\ left = 0) /\ handed' = handed + n
         /\ inOrder' = (inOrder /\ \A i \in 1 .. n : Chunk(n)[i] = handed + i)
         /\ UNCHANGED dropped
  BY DEF FillChunk
<1>5. /\ buf' \in [Cell -> Body \cup {0}]
      /\ Copied(buf, buf', windex, n)
      /\ \A j \in 1 .. n : buf'[windex + j - 1] = Chunk(n)[j]
  BY <1>1, <1>3, MemcpyIs
<1> HIDE DEF n, k
<1>6. Supply' /\ upload_mem' \in 1 .. UlBufSize + 1 /\ upload_len' \in 0 .. UlBufSize
      /\ upload_left' \in -1 .. size
  <2>1. /\ upload_len \in 0 .. UlBufSize /\ upload_mem \in 1 .. UlBufSize + 1 /\ UlBufSize \in Nat
        /\ size \in Nat /\ taken \in 0 .. size /\ upload_present \in 0 .. UlBufSize
        /\ known \in BOOLEAN /\ sending \in BOOLEAN /\ upload_left \in -1 .. size
    BY <1>1, UploadAssumption DEF TypeOK
  <2>2. /\ upload_mem + upload_len <= UlBufSize + 1
        /\ IF known
             THEN upload_left = size - taken + upload_len + (IF sending THEN 0 ELSE upload_present)
             ELSE upload_left = -1
    BY <1>1 DEF Supply
  <2>3. upload_mem' + upload_len' <= UlBufSize + 1
    BY <1>2, <1>3, <2>1, <2>2
  <2>4. upload_mem' \in 1 .. UlBufSize + 1 /\ upload_len' \in 0 .. UlBufSize
    BY <1>2, <1>3, <2>1, <2>2
  <2>5. CASE known
    <3>1. upload_left' = upload_left - n
      BY <1>3, <2>5
    <3>2. upload_left = size - taken + upload_len + (IF sending THEN 0 ELSE upload_present)
      BY <2>2, <2>5
    <3>3. (IF sending THEN 0 ELSE upload_present) \in Nat /\ size - taken \in Nat
      BY <2>1
    <3>4. upload_left' = size - taken + upload_len' + (IF sending THEN 0 ELSE upload_present)
      BY <1>2, <1>3, <2>1, <3>1, <3>2, <3>3
    <3>5. upload_left' \in -1 .. size
      BY <1>2, <2>1, <3>1, <3>2, <3>3
    <3> QED
      BY <1>3, <2>3, <2>4, <2>5, <3>4, <3>5 DEF Supply
  <2>6. CASE ~known
    <3>1. upload_left' = -1
      BY <1>3, <2>2, <2>6
    <3> QED
      BY <1>3, <2>1, <2>3, <2>4, <2>6, <3>1 DEF Supply
  <2> QED
    BY <2>5, <2>6
<1>7. windex' \in Cell /\ used' \in 0 .. SendSize /\ windex \in Cell /\ used \in Nat
  <2>1. windex \in Cell /\ used \in Nat
    BY <1>1 DEF TypeOK
  <2>2. windex' \in Cell
    BY <1>2, <1>3, <2>1, CopyNew
  <2> QED
    BY <1>2, <1>3, <2>1, <2>2
<1>8. StreamInv' /\ dropped' \in Nat /\ handed' \in Nat /\ inOrder' \in BOOLEAN
  <2>1. dropped \in Nat /\ handed \in Nat /\ inOrder \in BOOLEAN
    BY <1>1 DEF TypeOK
  <2>2. CASE /\ strm' = WriteNoData(strm) /\ dropped' = dropped + n
             /\ UNCHANGED <<handed, inOrder>>
    <3>1. StreamInv'
      BY <1>1, <1>2, <1>3, <1>5, <2>2, EofKeeps
    <3> QED
      BY <1>2, <2>1, <2>2, <3>1
  <2>3. CASE /\ strm' = WriteData(strm, k, known /\ left = 0) /\ handed' = handed + n
             /\ inOrder' = (inOrder /\ \A i \in 1 .. n : Chunk(n)[i] = handed + i)
             /\ UNCHANGED dropped
    <3>1. (known /\ left = 0) \in BOOLEAN
      OBVIOUS
    <3>a. /\ k.len = n /\ strm' = WriteData(strm, k, known /\ left = 0)
          /\ used + k.len <= SendSize /\ windex + k.len <= SendSize /\ k.len > 0
          /\ Copied(buf, buf', windex, k.len) /\ k.at = windex
          /\ \A j \in 1 .. k.len : buf'[windex + j - 1] = k.bytes[j]
          /\ windex' = Advance(windex, k.len) /\ used' = used + k.len
          /\ handed' = handed + k.len
      BY <1>2, <1>3, <1>5, <2>3
    <3> HIDE DEF left
    <3>2. StreamInv'
      BY <1>1, <1>2, <1>3, <2>3, <3>1, <3>a, ChunkKeeps
    <3>3. handed' \in Nat
      BY <1>2, <2>1, <2>3
    <3>4. inOrder' \in BOOLEAN
      BY <2>1, <2>3
    <3> QED
      BY <2>1, <2>3, <3>2, <3>3, <3>4
  <2> QED
    BY <1>4, <2>2, <2>3
<1>9. /\ strm'.outq_idx \in 0 .. Len(strm'.outq) /\ strm'.outq_offset \in Nat
      /\ strm'.ack_offset \in Nat /\ strm'.ack_done \in Nat
  BY <1>8, StreamNext DEF StreamInv
<1>10. TypeOK'
  BY <1>1, <1>3, <1>5, <1>6, <1>7, <1>8, <1>9 DEF TypeOK, Body
<1> QED
  BY <1>6, <1>8, <1>10 DEF UploadInv

LEMMA FillNothingKeeps ==
  ASSUME UploadInv, FillNothing
  PROVE  UploadInv'
<1>1. TypeOK /\ Supply /\ StreamInv /\ StreamOK(strm)
  BY DEF UploadInv, StreamInv
<1>2. /\ strm.frq /\ pc' = "write"
      /\ UNCHANGED <<size, known, taken, ulbuf, upload_present, keep_send, credit, inflight,
                     fin_written, sending, upload_done, delivered, upload_mem, upload_len,
                     upload_left, buf, windex, used, handed, dropped, inOrder>>
  BY DEF FillNothing, Filling, MayRead, EndFill, source, transfer, quic, ring
<1>3. strm' = WriteNoData(strm) \/ strm' = WriteDataBlocked(strm)
  BY DEF FillNothing
<1>4. CASE strm' = WriteNoData(strm)
  <2>1. /\ windex \in Nat /\ windex < SendSize /\ SendSize \in Nat /\ used \in Nat
        /\ used <= SendSize /\ dropped \in Nat
    BY <1>1, UploadAssumption DEF TypeOK, Cell
  <2>2. /\ used + 0 <= SendSize /\ windex + 0 <= SendSize
        /\ windex' = Advance(windex, 0) /\ used' = used + 0 /\ dropped' = dropped + 0
    BY <1>2, <2>1 DEF Advance
  <2>3. Copied(buf, buf', windex, 0)
    BY <1>2 DEF Copied
  <2>4. 0 \in Nat
    OBVIOUS
  <2>5. StreamInv'
    BY <1>1, <1>2, <1>4, <2>2, <2>3, <2>4, EofKeeps
  <2> QED
    BY <1>1, <1>2, <2>5, StreamNext DEF TypeOK, Body, Supply, UploadInv
<1>5. CASE strm' = WriteDataBlocked(strm)
  <2>1. SameQueue(strm, strm')
    BY <1>1, <1>5, FlagsOnly DEF StreamOK
  <2>2. StreamInv'
    BY <1>1, <1>2, <2>1, FlagsKeep DEF ring
  <2> QED
    BY <1>1, <1>2, <2>2, StreamNext DEF TypeOK, Body, Supply, UploadInv
<1> QED
  BY <1>3, <1>4, <1>5

\* ngh3_stream_send, as readwrite_upload calls it: with what it has just read, or again.
LEMMA OfferKeeps ==
  ASSUME UploadInv, NEW n \in 1 .. UlBufSize, pc = "idle", Offer(n),
         taken' \in 0 .. size, taken' = taken - upload_present + n,
         ulbuf' \in [1 .. UlBufSize -> Body \cup {0}],
         UNCHANGED <<source, keep_send, upload_left, upload_done, ring, quic, history>>
  PROVE  UploadInv'
<1>1. TypeOK /\ Supply /\ StreamInv
  BY DEF UploadInv
<1>2. /\ UlBufSize \in Nat /\ n \in Nat /\ n > 0 /\ n <= UlBufSize
      /\ taken \in Nat /\ taken' \in Nat /\ size \in Nat
      /\ upload_present \in Nat /\ upload_len \in Nat
  BY <1>1, UploadAssumption DEF TypeOK
<1>3. /\ upload_mem + upload_len <= UlBufSize + 1 /\ ~sending
      /\ IF known THEN upload_left = size - taken + upload_len + upload_present
         ELSE upload_left = -1
  BY <1>1 DEF Supply
<1>4. /\ upload_present' = n
      /\ UNCHANGED <<size, known, keep_send, upload_left, upload_done, buf, windex, used, credit,
                     inflight, fin_written, handed, delivered, dropped, inOrder>>
  BY DEF Offer, source, ring, quic, history
<1>a. size - taken' + n = size - taken + upload_present
  BY <1>2
<1>b. known => upload_left' = upload_len + (size' - taken' + n)
  <2>1. known => upload_left = size - taken + upload_len + upload_present
    BY <1>3
  <2>2. known => upload_left = upload_len + (size - taken + upload_present)
    BY <1>2, <2>1
  <2> QED
    BY <1>4, <1>a, <2>2
<1>5. CASE upload_len = 0
  <2>1. /\ upload_mem' = 1 /\ upload_len' = n /\ strm' = ResumeStream(strm)
        /\ pc' = "fill" /\ sending' = TRUE
    BY <1>5 DEF Offer
  <2>2. SameQueue(strm, strm')
    BY <1>1, <2>1, StreamNumbers, FlagsOnly
  <2>3. StreamInv'
    BY <1>1, <1>4, <2>2, FlagsKeep DEF ring
  <2>4. known => upload_left' = size' - taken' + upload_len' + 0
    BY <1>2, <1>4, <1>5, <1>b, <2>1
  <2>5. Supply'
    BY <1>2, <1>3, <1>4, <2>1, <2>4 DEF Supply
  <2>6. TypeOK'
    BY <1>1, <1>2, <1>4, <2>1, <2>3, StreamNext DEF TypeOK, Body
  <2> QED
    BY <2>3, <2>5, <2>6 DEF UploadInv
<1>6. CASE upload_len # 0
  <2>1. UNCHANGED <<upload_mem, upload_len, strm, pc, sending>>
    BY <1>6 DEF Offer
  <2>2. SameQueue(strm, strm')
    BY <1>1, <2>1, StreamNumbers, FlagsOnly
  <2>3. StreamInv'
    BY <1>1, <1>4, <2>2, FlagsKeep DEF ring
  <2>4. known => upload_left' = size' - taken' + upload_len' + upload_present'
    BY <1>2, <1>4, <1>b, <2>1
  <2>5. Supply'
    BY <1>3, <1>4, <2>1, <2>4 DEF Supply
  <2>6. TypeOK'
    BY <1>1, <1>2, <1>4, <2>1, <2>3, StreamNext DEF TypeOK, Body
  <2> QED
    BY <2>3, <2>5, <2>6 DEF UploadInv
<1> QED
  BY <1>5, <1>6

LEMMA ReadBodyKeeps ==
  ASSUME UploadInv, NEW n \in 1 .. UlBufSize, ReadBody(n)
  PROVE  UploadInv'
<1>1. /\ n \in Nat /\ n > 0 /\ taken \in 0 .. size /\ size \in Nat /\ upload_present = 0
      /\ n <= size - taken /\ taken' = taken + n /\ pc = "idle" /\ Offer(n)
      /\ ulbuf' = [i \in 1 .. UlBufSize |-> IF i <= n THEN taken + i ELSE ulbuf[i]]
      /\ ulbuf \in [1 .. UlBufSize -> Body \cup {0}]
      /\ UNCHANGED <<source, keep_send, upload_left, upload_done, ring, quic, history>>
  BY UploadAssumption DEF UploadInv, TypeOK, ReadBody
<1>2. taken' \in 0 .. size /\ taken' = taken - upload_present + n
  BY <1>1
<1>3. \A i \in 1 .. UlBufSize : i <= n => taken + i \in Body
  BY <1>1, UploadAssumption DEF Body
<1>4. ulbuf' \in [1 .. UlBufSize -> Body \cup {0}]
  BY <1>1, <1>3
<1> QED
  BY <1>1, <1>2, <1>4, OfferKeeps

LEMMA OfferAgainKeeps ==
  ASSUME UploadInv, OfferAgain
  PROVE  UploadInv'
<1>1. /\ upload_present \in 1 .. UlBufSize /\ taken \in 0 .. size /\ size \in Nat
      /\ taken' = taken /\ ulbuf' = ulbuf /\ ulbuf \in [1 .. UlBufSize -> Body \cup {0}]
      /\ pc = "idle" /\ Offer(upload_present)
      /\ UNCHANGED <<source, keep_send, upload_left, upload_done, ring, quic, history>>
  BY UploadAssumption DEF UploadInv, TypeOK, OfferAgain
<1> QED
  BY <1>1, OfferKeeps

\* The steps that leave the ring alone and only turn flags of the stream.
LEMMA QuietKeeps ==
  ASSUME UploadInv, SameQueue(strm, strm'),
         pc' \in {"idle", "fill", "write"}, sending' \in BOOLEAN, keep_send' \in BOOLEAN,
         upload_done' \in BOOLEAN, credit' \in 0 .. CreditMax,
         pc' = "idle" => ~sending', sending' => sending,
         upload_present' = IF sending /\ ~sending' THEN 0 ELSE upload_present,
         UNCHANGED <<source, taken, ulbuf, upload_mem, upload_len, upload_left, ring, inflight,
                     fin_written, history>>
  PROVE  UploadInv'
<1>1. TypeOK /\ Supply /\ StreamInv
  BY DEF UploadInv
<1>2. UNCHANGED <<size, known, taken, ulbuf, upload_mem, upload_len, upload_left, buf, windex,
                  used, inflight, fin_written, handed, delivered, dropped, inOrder>>
  BY DEF source, ring, history
<1>3. StreamInv'
  BY <1>1, <1>2, FlagsKeep DEF ring
<1>4. /\ sending \in BOOLEAN /\ UlBufSize \in Nat /\ upload_present \in 0 .. UlBufSize
  BY <1>1, UploadAssumption DEF TypeOK
<1>5. /\ upload_present' \in 0 .. UlBufSize
      /\ (IF sending' THEN 0 ELSE upload_present') = (IF sending THEN 0 ELSE upload_present)
  BY <1>4
<1>6. Supply'
  BY <1>1, <1>2, <1>5 DEF Supply
<1>7. TypeOK'
  BY <1>1, <1>2, <1>3, <1>5, StreamNext DEF TypeOK, Body
<1> QED
  BY <1>3, <1>6, <1>7 DEF UploadInv

LEMMA QuietActions ==
  ASSUME UploadInv,
         BodyEof \/ FillSkipped \/ WriteBlocked \/ EndFlush \/ StartFlush \/ ExtendMaxStreamData
         \/ UNCHANGED vars
  PROVE  UploadInv'
<1>1. /\ TypeOK /\ Supply /\ StreamInv /\ strm \in StreamType
      /\ pc \in {"idle", "fill", "write"} /\ sending \in BOOLEAN /\ keep_send \in BOOLEAN
      /\ upload_done \in BOOLEAN /\ credit \in 0 .. CreditMax /\ CreditMax \in 0 .. CreditMax
      /\ (pc = "idle" => ~sending)
  BY StreamNumbers, UploadAssumption DEF UploadInv, TypeOK, Supply
<1>2. SameQueue(strm, strm)
  BY <1>1, FlagsOnly
<1>3. CASE BodyEof
  <2>1. SameQueue(strm, strm')
    BY <1>1, <1>3, FlagsOnly DEF BodyEof, DoneSending
  <2>2. /\ pc' = pc /\ sending' = sending /\ keep_send' = FALSE /\ upload_done' = TRUE
        /\ credit' = credit /\ upload_present' = upload_present
        /\ UNCHANGED <<source, taken, ulbuf, upload_mem, upload_len, upload_left, ring, inflight,
                       fin_written, history>>
    BY <1>3 DEF BodyEof, DoneSending, quic
  <2> QED
    BY <1>1, <2>1, <2>2, QuietKeeps
<1>4. CASE FillSkipped
  <2>1. /\ pc' = "write" /\ sending' = sending /\ keep_send' = keep_send
        /\ upload_done' = upload_done /\ credit' = credit /\ upload_present' = upload_present
        /\ strm' = strm
        /\ UNCHANGED <<source, taken, ulbuf, upload_mem, upload_len, upload_left, ring, inflight,
                       fin_written, history>>
    BY <1>4 DEF FillSkipped, EndFill, transfer, quic, history
  <2> QED
    BY <1>1, <1>2, <2>1, QuietKeeps
<1>5. CASE WriteBlocked
  <2>1. SameQueue(strm, strm')
    BY <1>1, <1>5, FlagsOnly DEF WriteBlocked
  <2>2. /\ pc' = "fill" /\ sending' = sending /\ keep_send' = keep_send
        /\ upload_done' = upload_done /\ credit' = credit /\ upload_present' = upload_present
        /\ UNCHANGED <<source, taken, ulbuf, upload_mem, upload_len, upload_left, ring, inflight,
                       fin_written, history>>
    BY <1>5 DEF WriteBlocked, transfer, http, quic
  <2> QED
    BY <1>1, <2>1, <2>2, QuietKeeps
<1>6. CASE EndFlush
  <2> DEFINE s == IF pc = "write" THEN UnscheduleIfIdle(strm) ELSE strm
  <2>1. SameQueue(strm, s)
    BY <1>1, <1>2, FlagsOnly
  <2>2. strm' = s \/ strm' = ResumeStream(s)
    BY <1>6 DEF EndFlush, DoneSending
  <2>3. s \in StreamType
    BY <2>1 DEF SameQueue
  <2>4. /\ pc' = "idle" /\ sending' = FALSE /\ keep_send' \in BOOLEAN
        /\ upload_done' \in BOOLEAN /\ credit' = credit
        /\ upload_present' = IF sending THEN 0 ELSE upload_present
        /\ UNCHANGED <<source, taken, ulbuf, upload_mem, upload_len, upload_left, ring, inflight,
                       fin_written, history>>
    BY <1>1, <1>6 DEF EndFlush, DoneSending, quic
  <2> HIDE DEF s
  <2>5. SameQueue(strm, strm')
    <3>1. SameQueue(s, ResumeStream(s))
      BY <2>3, FlagsOnly
    <3> QED
      BY <2>1, <2>2, <3>1, SameQueueTrans
  <2> QED
    BY <1>1, <2>4, <2>5, QuietKeeps
<1>7. CASE StartFlush
  <2>1. /\ pc' = "fill" /\ sending' = FALSE /\ keep_send' = keep_send
        /\ upload_done' = upload_done /\ credit' = credit /\ upload_present' = upload_present
        /\ strm' = strm /\ pc = "idle"
        /\ UNCHANGED <<source, taken, ulbuf, upload_mem, upload_len, upload_left, ring, inflight,
                       fin_written, history>>
    BY <1>7 DEF StartFlush, transfer, http, quic
  <2> QED
    BY <1>1, <1>2, <2>1, QuietKeeps
<1>8. CASE ExtendMaxStreamData
  <2>1. SameQueue(strm, strm')
    BY <1>1, <1>8, FlagsOnly DEF ExtendMaxStreamData
  <2>2. /\ pc' = pc /\ sending' = sending /\ keep_send' = keep_send
        /\ upload_done' = upload_done /\ credit' = CreditMax /\ upload_present' = upload_present
        /\ UNCHANGED <<source, taken, ulbuf, upload_mem, upload_len, upload_left, ring, inflight,
                       fin_written, history>>
    BY <1>8 DEF ExtendMaxStreamData, transfer, http
  <2> QED
    BY <1>1, <2>1, <2>2, QuietKeeps
<1>9. CASE UNCHANGED vars
  <2>1. /\ pc' = pc /\ sending' = sending /\ keep_send' = keep_send
        /\ upload_done' = upload_done /\ credit' = credit /\ upload_present' = upload_present
        /\ strm' = strm
        /\ UNCHANGED <<source, taken, ulbuf, upload_mem, upload_len, upload_left, ring, inflight,
                       fin_written, history>>
    BY <1>9 DEF vars, transfer, http, quic
  <2> QED
    BY <1>1, <1>2, <2>1, QuietKeeps
<1> QED
  BY <1>3, <1>4, <1>5, <1>6, <1>7, <1>8, <1>9

\* Write and Ack, the rest of the invariant.
LEMMA WireActions ==
  ASSUME UploadInv, NEW n \in Lengths, Write(n) \/ Ack(n)
  PROVE  UploadInv'
<1>1. /\ TypeOK /\ Supply /\ StreamInv /\ n \in Nat /\ CreditMax \in Nat
      /\ credit \in 0 .. CreditMax /\ inflight \in Nat /\ fin_written \in BOOLEAN
      /\ used \in 0 .. SendSize /\ SendSize \in Nat
  BY UploadAssumption DEF UploadInv, TypeOK, Lengths
<1>2. CASE Write(n)
  <2>1. /\ n <= credit /\ credit' = credit - n /\ inflight' = inflight + n
        /\ fin_written' = (fin_written \/ FinWith(n)) /\ pc' = "fill"
        /\ UNCHANGED <<size, known, taken, ulbuf, upload_present, keep_send, upload_mem, upload_len,
                       upload_left, upload_done, buf, windex, used, sending, handed, delivered,
                       dropped, inOrder>>
    BY <1>2 DEF Write, source, transfer, http, ring, history
  <2>2. credit' \in 0 .. CreditMax /\ inflight' \in Nat /\ fin_written' \in BOOLEAN
    BY <1>1, <2>1
  <2>3. StreamInv'
    BY <1>1, <1>2, WriteKeeps
  <2>4. TypeOK'
    BY <1>1, <2>1, <2>2, <2>3, StreamNext DEF TypeOK, Body
  <2> QED
    BY <1>1, <2>1, <2>3, <2>4 DEF Supply, UploadInv
<1>3. CASE Ack(n)
  <2>1. /\ n <= inflight /\ inflight' = inflight - n
        /\ UNCHANGED <<size, known, taken, ulbuf, upload_present, keep_send, upload_mem, upload_len,
                       upload_left, upload_done, buf, windex, credit, fin_written, pc, sending,
                       handed, dropped, inOrder>>
    BY <1>3 DEF Ack, source, transfer, http
  <2>2. StreamInv' /\ used' \in 0 .. used /\ delivered' \in Nat
    BY <1>1, <1>3, AckKeeps
  <2>3. inflight' \in Nat /\ used' \in 0 .. SendSize
    BY <1>1, <2>1, <2>2
  <2>4. TypeOK'
    BY <1>1, <2>1, <2>2, <2>3, StreamNext DEF TypeOK, Body
  <2> QED
    BY <1>1, <2>1, <2>2, <2>4 DEF Supply, UploadInv
<1> QED
  BY <1>2, <1>3

-----------------------------------------------------------------------------
LEMMA InitInv == Init => UploadInv
<1> SUFFICES ASSUME Init
             PROVE  UploadInv
  OBVIOUS
<1>1. PICK kind \in {"shared", "private"} : strm = SubmittedRequest(Buffer(kind, 1))
  BY DEF Init
<1> DEFINE b == Buffer(kind, 1)
<1>2. b \in BufferType /\ b.len = 1 /\ ~IsAlien(b) /\ DataLen(b) = 0
  BY EmptySeq DEF Buffer, BufferType, Kind, IsAlien, DataLen
<1>3. /\ strm.outq = <<b>> /\ strm.outq_idx = 0 /\ strm.outq_offset = 0 /\ strm.ack_offset = 0
      /\ strm.ack_done = 0 /\ strm.frq
  BY <1>1 DEF SubmittedRequest
<1> HIDE DEF b
<1>4. /\ strm.outq \in Seq(BufferType) /\ Len(strm.outq) = 1 /\ strm.outq[1] = b
      /\ strm.outq # <<>>
  BY <1>2, <1>3
<1>5. strm \in StreamType
  BY <1>1, <1>4, <1>3 DEF SubmittedRequest, StreamType
<1>6. StreamOK(strm)
  BY <1>2, <1>3, <1>4, <1>5 DEF StreamOK, BuffersFull, Positions, Reported
<1>7. InFlight(strm) = 0 /\ Data(strm) = 0
  <2>1. Upto(strm.outq, 0) = 0
    BY <1>4, UptoIs
  <2>2. 0 \in 0 .. Len(strm.outq) - 1 /\ 0 + 1 = 1
    BY <1>4
  <2>3. DataUpto(strm.outq, 0 + 1) = DataUpto(strm.outq, 0) + DataLen(strm.outq[0 + 1])
    BY <1>4, <2>2, NextIs
  <2>4. DataUpto(strm.outq, 1) = 0
    BY <1>2, <1>4, <2>3, DataUptoIs
  <2> QED
    BY <1>3, <1>4, <2>1, <2>4 DEF InFlight, Data
<1>8. /\ size \in Nat /\ known \in BOOLEAN /\ taken = 0 /\ upload_present = 0
      /\ ulbuf = [i \in 1 .. UlBufSize |-> 0] /\ keep_send = (known => size > 0)
      /\ upload_mem = 1 /\ upload_len = 0 /\ upload_done = FALSE
      /\ upload_left = (IF known THEN size ELSE -1)
      /\ buf = [c \in Cell |-> 0] /\ windex = 0 /\ used = 0
      /\ credit = CreditMax /\ inflight = 0 /\ fin_written = FALSE
      /\ pc = "fill" /\ sending = FALSE
      /\ handed = 0 /\ delivered = 0 /\ dropped = 0 /\ inOrder = TRUE
      /\ SendSize \in Nat \ {0} /\ UlBufSize \in Nat \ {0} /\ CreditMax \in Nat
  BY UploadAssumption DEF Init
<1>9. TypeOK
  <2>1. /\ taken \in 0 .. size /\ keep_send \in BOOLEAN /\ upload_left \in -1 .. size
        /\ upload_mem \in 1 .. UlBufSize + 1 /\ upload_len \in 0 .. UlBufSize
        /\ upload_present \in 0 .. UlBufSize /\ used \in 0 .. SendSize
        /\ credit \in 0 .. CreditMax
    BY <1>8
  <2>2. windex \in Cell
    BY <1>8 DEF Cell
  <2>3. buf \in [Cell -> Body \cup {0}] /\ ulbuf \in [1 .. UlBufSize -> Body \cup {0}]
    BY <1>8
  <2>4. strm.outq_idx \in 0 .. Len(strm.outq)
    BY <1>3, <1>4
  <2>5. /\ size \in Nat /\ known \in BOOLEAN /\ upload_done \in BOOLEAN /\ inflight \in Nat
        /\ fin_written \in BOOLEAN /\ pc \in {"idle", "fill", "write"} /\ sending \in BOOLEAN
        /\ handed \in Nat /\ delivered \in Nat /\ dropped \in Nat /\ inOrder \in BOOLEAN
    BY <1>8
  <2>6. strm.outq_offset \in Nat /\ strm.ack_offset \in Nat /\ strm.ack_done \in Nat
    BY <1>3
  <2> QED
    BY <2>1, <2>2, <2>3, <2>4, <2>5, <2>6, Zenon DEF TypeOK
<1>10. Supply
  <2>1. upload_mem + upload_len <= UlBufSize + 1
    BY <1>8
  <2>2. known => upload_left = size - taken + upload_len + 0
    BY <1>8
  <2> QED
    BY <1>8, <2>1, <2>2 DEF Supply
<1>11. OutqMatchesWire /\ UsedExact /\ HandedExact /\ FinLast /\ DroppedLast
  BY <1>3, <1>7, <1>8, InWords DEF HandedExact, FinLast, DroppedLast
<1>12. Laid(strm, buf, windex, used, dropped)
  BY <1>2, <1>4 DEF Laid
<1> QED
  BY <1>6, <1>9, <1>10, <1>11, <1>12 DEF UploadInv, StreamInv

LEMMA NextInv == UploadInv /\ [Next]_vars => UploadInv'
<1> SUFFICES ASSUME UploadInv, [Next]_vars
             PROVE  UploadInv'
  OBVIOUS
<1>1. CASE \E n \in 1 .. UlBufSize : ReadBody(n)
  BY <1>1, ReadBodyKeeps
<1>2. CASE OfferAgain
  BY <1>2, OfferAgainKeeps
<1>3. CASE FillChunk
  BY <1>3, FillChunkKeeps
<1>4. CASE FillNothing
  BY <1>4, FillNothingKeeps
<1>5. CASE \E n \in Lengths : Write(n)
  BY <1>5, WireActions
<1>6. CASE \E n \in Lengths : Ack(n)
  BY <1>6, WireActions
<1>7. CASE BodyEof \/ FillSkipped \/ WriteBlocked \/ EndFlush \/ StartFlush \/ ExtendMaxStreamData
           \/ UNCHANGED vars
  BY <1>7, QuietActions
<1> QED
  BY <1>1, <1>2, <1>3, <1>4, <1>5, <1>6, <1>7, Zenon DEF Next

\* The invariant says what the properties say.
LEMMA LaidIntact == UploadInv => RingIntact
<1> SUFFICES ASSUME UploadInv, NEW i \in DataBuffers, NEW j \in Unacked(i)
             PROVE  buf[strm.outq[i].at + j - 1] = strm.outq[i].bytes[j]
  BY DEF RingIntact
<1>1. strm \in StreamType /\ Laid(strm, buf, windex, used, dropped)
  BY DEF UploadInv, StreamInv, StreamOK
<1>2. strm.outq \in Seq(BufferType)
  BY <1>1, Fields
<1>3. i \in 1 .. Len(strm.outq) /\ IsAlien(strm.outq[i])
  BY <1>2 DEF DataBuffers
<1>4. j \in (IF i = 1 THEN strm.ack_done ELSE 0) + 1 .. strm.outq[i].len
  BY DEF Unacked
<1> QED
  BY <1>1, <1>3, <1>4 DEF Laid, LaidAt

\* The inductive invariant is one.
THEOREM UploadIsSafe == Spec => []UploadInv
  BY InitInv, NextInv, PTL DEF Spec

\* Every variable stays in its range: in particular the count of held bytes does
\* not exceed the ring and the part of the body left to send is never negative.
THEOREM TypeCorrect == Spec => []TypeOK
<1>1. UploadInv => TypeOK
  BY DEF UploadInv
<1> QED
  BY <1>1, UploadIsSafe, PTL

\* cb_h3_readfunction never overwrites a byte that nghttp3 may still read.
THEOREM RingStaysIntact == Spec => []RingIntact
  BY LaidIntact, UploadIsSafe, PTL

\* h3out->used is the number of bytes nghttp3 holds, and of those copied for nothing.
THEOREM UsedStaysExact == Spec => []UsedExact
<1>1. UploadInv => UsedExact
  BY DEF UploadInv, StreamInv
<1> QED
  BY <1>1, UploadIsSafe, PTL

\* nghttp3 and ngtcp2 agree on the number of bytes in flight.
THEOREM OutqStaysOnWire == Spec => []OutqMatchesWire
<1>1. UploadInv => OutqMatchesWire
  BY DEF UploadInv, StreamInv
<1> QED
  BY <1>1, UploadIsSafe, PTL

\* Nothing is left to write after FIN, and nothing can be added.
THEOREM FinStaysLast == Spec => []FinLast
<1>1. UploadInv => FinLast
  BY DEF UploadInv, StreamInv
<1> QED
  BY <1>1, UploadIsSafe, PTL

\* Every byte handed to nghttp3 is reported acknowledged once or is in outq, and
\* the ring holds what is not reported: no byte is released early, none twice.
THEOREM HandedAccounted ==
  Spec => [](/\ HandedExact /\ delivered <= handed
             /\ used = handed - delivered + dropped)
<1>1. UploadInv => /\ HandedExact /\ delivered <= handed
                   /\ used = handed - delivered + dropped
  <2> SUFFICES ASSUME UploadInv
               PROVE  /\ HandedExact /\ delivered <= handed
                      /\ used = handed - delivered + dropped
    OBVIOUS
  <2>1. /\ Data(strm) \in Nat /\ strm.ack_done \in Nat /\ strm.ack_done <= Data(strm)
        /\ delivered \in Nat /\ handed \in Nat /\ dropped \in Nat /\ used \in Nat
    BY StreamNumbers DEF UploadInv, TypeOK
  <2>2. HandedExact /\ used = dropped - strm.ack_done + Data(strm)
    BY InWords DEF UploadInv, StreamInv
  <2>3. handed = delivered + Data(strm) - strm.ack_done
    BY <2>2 DEF HandedExact
  <2>4. delivered <= handed
    BY <2>1, <2>3
  <2>5. used = handed - delivered + dropped
    BY <2>1, <2>2, <2>3
  <2> QED
    BY <2>2, <2>4, <2>5
<1> QED
  BY <1>1, UploadIsSafe, PTL
=============================================================================
