---------------------------- MODULE RxFlowProofs -----------------------------
(***************************************************************************)
(* Proofs about RxFlow for every set of streams, length, window and chunk  *)
(* size.                                                                   *)
(***************************************************************************)
EXTENDS RxFlow, FiniteSetTheorems, WellFoundedInduction, TLAPS

\* A nonempty set of naturals has a least member.
LEMMA LeastMember ==
  ASSUME NEW S, S \subseteq Nat, S # {}
  PROVE  \E m \in S : \A p \in S : m <= p
<1>1. PICK m \in S : \A e \in S : ~(<<e, m>> \in OpToRel(<, Nat))
  BY NatLessThanWellFounded, WFMin, Zenon
<1>2. \A e \in S : ~(e < m)
  <2> TAKE e \in S
  <2>1. e \in Nat /\ m \in Nat
    OBVIOUS
  <2>2. ~(<<e, m>> \in OpToRel(<, Nat))
    BY <1>1, Zenon
  <2> QED
    BY <2>1, <2>2, Zenon DEF OpToRel
<1> QED
  BY <1>2

\* The first gap of a set of bytes exists, and everything below it is there.
LEMMA FirstGapIs ==
  ASSUME NEW g \in SUBSET Byte
  PROVE  /\ FirstGap(g) \in Offset
         /\ FirstGap(g) \notin g
         /\ \A k \in Nat : k < FirstGap(g) => k \in g
<1> USE RxFlowAssumption DEF Offset, Byte
<1> DEFINE missing == Offset \ g
<1>1. MaxOff \in missing
  OBVIOUS
<1>2. PICK m \in missing : \A p \in missing : m <= p
  <2>1. missing \subseteq Nat /\ missing # {}
    BY <1>1
  <2> HIDE DEF missing
  <2> QED
    BY <2>1, LeastMember, Zenon
<1>3. m \in Offset /\ m \notin g /\ 0 .. m - 1 \subseteq g
  BY <1>2
<1>4. FirstGap(g) \in Offset /\ FirstGap(g) \notin g /\ 0 .. FirstGap(g) - 1 \subseteq g
  BY <1>3 DEF FirstGap
<1> QED
  BY <1>4

\* The first gap is beyond whatever is wholly there, and below whatever bounds
\* the bytes.
LEMMA FirstGapBounds ==
  ASSUME NEW g \in SUBSET Byte, NEW n \in Offset
  PROVE  /\ (\A k \in Byte : k < n => k \in g) => n <= FirstGap(g)
         /\ (\A k \in g : k < n) => FirstGap(g) <= n
<1> USE RxFlowAssumption DEF Offset, Byte
<1>1. FirstGap(g) \in Offset /\ FirstGap(g) \notin g
  BY FirstGapIs
<1>2. \A k \in Nat : k < FirstGap(g) => k \in g
  BY FirstGapIs
<1> QED
  BY <1>1, <1>2

\* A run of bytes of a stream has as many members as its ends say.
LEMMA BytesCount ==
  ASSUME NEW s \in Stream, NEW a \in Nat, NEW b \in Nat, a <= b
  PROVE  IsFiniteSet(Bytes(s, a, b)) /\ Cardinality(Bytes(s, a, b)) = b - a
<1> DEFINE I == a .. b - 1
<1>1. IsFiniteSet(I) /\ Cardinality(I) = b - a
  <2>1. a \in Int /\ b - 1 \in Int
    OBVIOUS
  <2>2. IsFiniteSet(I) /\ Cardinality(I) = IF a > b - 1 THEN 0 ELSE (b - 1) - a + 1
    BY <2>1, FS_Interval, Zenon
  <2> QED
    BY <2>2
<1>2. IsFiniteSet({s}) /\ Cardinality({s}) = 1
  BY FS_Singleton
<1> HIDE DEF I
<1>3. IsFiniteSet({s} \X I) /\ Cardinality({s} \X I) = 1 * (b - a)
  <2>1. IsFiniteSet({s} \X I) /\ Cardinality({s} \X I) = Cardinality({s}) * Cardinality(I)
    BY <1>1, <1>2, FS_Product, Zenon
  <2> QED
    BY <1>1, <1>2, <2>1, Zenon
<1>4. Cardinality({s} \X I) = b - a
  BY <1>3
<1> QED
  BY <1>3, <1>4, Zenon DEF Bytes, I

\* Bytes added for the first time are counted.
LEMMA AddBytes ==
  ASSUME NEW C, IsFiniteSet(C), NEW s \in Stream, NEW a \in Nat, NEW b \in Nat, a <= b,
         C \cap Bytes(s, a, b) = {}
  PROVE  /\ IsFiniteSet(C \cup Bytes(s, a, b))
         /\ Cardinality(C \cup Bytes(s, a, b)) = Cardinality(C) + (b - a)
<1>1. IsFiniteSet(Bytes(s, a, b)) /\ Cardinality(Bytes(s, a, b)) = b - a
  BY BytesCount
<1>2. Cardinality(C \cap Bytes(s, a, b)) = 0
  BY FS_EmptySet
<1>3. Cardinality(C) \in Nat
  BY FS_CardinalityType
<1> DEFINE B == Bytes(s, a, b)
<1>4. /\ IsFiniteSet(C \cup B)
      /\ Cardinality(C \cup B) = Cardinality(C) + Cardinality(B) - Cardinality(C \cap B)
  <2> HIDE DEF B
  <2> QED
    BY <1>1, FS_Union DEF B
<1> QED
  BY <1>1, <1>2, <1>3, <1>4

\* The bytes of the connection are finitely many.
LEMMA BytesFinite == IsFiniteSet(Stream \X Byte)
<1>1. IsFiniteSet(Byte)
  BY FS_Interval, RxFlowAssumption DEF Byte
<1>2. IsFiniteSet(Stream)
  BY RxFlowAssumption DEF Stream
<1> QED
  BY <1>1, <1>2, FS_Product

\* A chunk holds the byte it is named for.
LEMMA ChunkHolds ==
  ASSUME NEW k \in Nat
  PROVE  ChunkOf(k) \in Nat /\ ChunkOf(k) <= k /\ k < ChunkOf(k) + Chunk
<1>1. k % Chunk \in 0 .. Chunk - 1
  BY RxFlowAssumption
<1>2. k % Chunk <= k
  BY RxFlowAssumption
<1> QED
  BY <1>1, <1>2, RxFlowAssumption DEF ChunkOf

-----------------------------------------------------------------------------
\* What the handlers keep between the offsets of a stream, and the state of one
\* that was never opened.
Shape ==
  \A s \in Stream :
    /\ \A k \in got[s] : k < last[s]
    /\ consumed[s] <= passed[s] /\ passed[s] <= Rx(s)
    /\ s \notin open \cup closed =>
         /\ last[s] = 0 /\ chunks[s] = {} /\ s \notin shutRd \cup stopped \cup squeezed
         /\ smax[s] = StreamWindow

\* What the counters of the connection say of the bytes.
Counts ==
  /\ CreditComplete /\ CreditedOnce /\ OffsetExact
  /\ connOffset <= connMax

\* What the limits of a stream are, unless an announcement did not fit.
Limits ==
  /\ \A s \in Stream \ closed : last[s] <= smax[s]
  /\ \A s \in Stream \ (closed \cup squeezed) :
       told[s] = smax[s] /\ sunsent[s] = swindow[s] + consumed[s]
  /\ \A s \in open \ (shutRd \cup stopped \cup squeezed) : ShouldSend(s) => s \in queued
  /\ \A s \in Stream \ (open \cup closed) : ~ShouldSend(s)
  /\ \A f \in leftover : f[1] \in squeezed

Closing == ClosesWhenDone /\ open \cap Remote \subseteq wrShut

RxInv ==
  /\ TypeOK /\ Shape /\ Counts /\ Limits /\ Closing /\ RobHoldsData
  /\ FalselyAccusedOnlyBy

-----------------------------------------------------------------------------
\* conn_close_stream_if_shut_rdwr moves at most its own stream.
LEMMA CloseIfShutMoves ==
  ASSUME TypeOK, NEW s \in Stream, s \notin closed, CloseIfShut(s)
  PROVE  /\ open' \subseteq Stream /\ closed' \subseteq Stream /\ open' \cap closed' = {}
         /\ open' \cup closed' = open \cup closed \cup {s}
         /\ open' \subseteq open \cup {s} /\ closed \subseteq closed'
         /\ queued' = queued \ (closed' \ closed) /\ queued' \subseteq open'
         /\ s \in open' => ~(s \in shutRd' \cap wrShut' /\ ReadDone(s))
<1> DEFINE shut == s \in shutRd' \cap wrShut' /\ ReadDone(s)
<1>1. /\ open' = (IF shut THEN open \ {s} ELSE open \cup {s})
      /\ closed' = (IF shut THEN closed \cup {s} ELSE closed)
      /\ queued' = (IF shut THEN queued \ {s} ELSE queued)
  BY Zenon DEF CloseIfShut
<1>2. /\ open \subseteq Stream /\ closed \subseteq Stream /\ open \cap closed = {}
      /\ queued \subseteq open
  BY DEF TypeOK
<1>3. CASE shut
  BY <1>1, <1>2, <1>3
<1>4. CASE ~shut
  BY <1>1, <1>2, <1>4
<1> QED
  BY <1>3, <1>4

\* What an accepted STREAM frame leaves in the variables all frames change.
LEMMA AcceptTypes ==
  ASSUME TypeOK, NEW s \in Stream, NEW off \in Offset, NEW end \in Offset,
         NEW fin \in BOOLEAN, Accept(s, off, end, fin)
  PROVE  /\ s \notin closed
         /\ Fresh(s, end) \in Nat /\ last'[s] = last[s] + Fresh(s, end)
         /\ last' \in [Stream -> Offset] /\ \A r \in Stream \ {s} : last'[r] = last[r]
         /\ end <= last'[s] /\ last[s] <= last'[s]
         /\ shutRd' \subseteq Stream /\ rst' \subseteq shutRd' /\ wrShut' \subseteq Stream
         /\ connOffset' \in Nat
BY RxFlowAssumption DEF TypeOK, Accept, Known, Fresh, Offset

\* The offsets that end a callback lie in the data that is contiguous.
LEMMA CallbackEndsAre ==
  ASSUME NEW s \in Stream, NEW end \in Offset, NEW b \in CallbackEnds(s, end),
         got'[s] \in SUBSET Byte, \A k \in Byte : k < end => k \in got'[s]
  PROVE  b \in Offset /\ end <= b /\ b <= FirstGap(got'[s])
<1> DEFINE rx == FirstGap(got'[s])
<1>1. rx \in Offset /\ end <= rx
  BY FirstGapIs, FirstGapBounds
<1>2. b = end \/ (b \in end + 1 .. rx)
  BY DEF CallbackEnds
<1> HIDE DEF rx
<1>3. b \in Offset /\ end <= b /\ b <= rx
  BY <1>1, <1>2, RxFlowAssumption DEF Offset
<1> QED
  BY <1>3 DEF rx

\* Credit returned for a run of bytes of a stream keeps its type.
LEMMA CreditTypes ==
  ASSUME TypeOK, NEW s \in Stream, NEW a \in Nat, NEW b \in Offset, NEW n \in Nat,
         Credit(n, Bytes(s, a, b))
  PROVE  connUnsent' \in Nat /\ credited' \subseteq Stream \X Byte
<1>1. Bytes(s, a, b) \subseteq Stream \X Byte
  BY RxFlowAssumption DEF Bytes, Byte, Offset
<1> QED
  BY <1>1 DEF Credit, TypeOK

\* Type correctness of a STREAM frame that is accepted.
LEMMA StreamTypes ==
  ASSUME TypeOK, Shape, NEW s \in Stream, NEW off \in Offset, NEW end \in Offset,
         NEW fin \in BOOLEAN, NEW stop \in BOOLEAN, NEW b \in Offset,
         \/ DropStream(s, off, end, fin)
         \/ BufferStream(s, off, end, fin)
         \/ DeliverStream(s, off, end, fin, stop, b)
  PROVE  TypeOK'
<1> USE RxFlowAssumption DEF Offset, Byte
<1>1. Accept(s, off, end, fin)
  BY Zenon DEF DropStream, BufferStream, DeliverStream
<1>2. /\ s \notin closed /\ Fresh(s, end) \in Nat /\ last'[s] = last[s] + Fresh(s, end)
      /\ last' \in [Stream -> Offset] /\ last[s] <= last'[s] /\ end <= last'[s]
      /\ shutRd' \subseteq Stream /\ rst' \subseteq shutRd' /\ wrShut' \subseteq Stream
      /\ connOffset' \in Nat
  BY <1>1, AcceptTypes
<1>3. /\ consumed' \in [Stream -> Offset] /\ smax' \in [Stream -> Nat]
      /\ sunsent' \in [Stream -> Nat] /\ swindow' \in [Stream -> Nat]
      /\ told' \in [Stream -> Nat] /\ squeezed' \subseteq Stream /\ accused' \subseteq Stream
      /\ leftover' \subseteq Stream \X Nat /\ connMax' \in Nat /\ connWindow' \in Nat
  BY <1>1 DEF Accept, TypeOK, limits
<1>4. got[s] \in SUBSET Byte /\ last[s] \in Nat /\ last'[s] \in Nat
  BY <1>2 DEF TypeOK
<1>5. /\ open' \subseteq Stream /\ closed' \subseteq Stream /\ open' \cap closed' = {}
      /\ queued' \subseteq open'
  <2>1. CASE CloseIfShut(s)
    BY <2>1, <1>2, CloseIfShutMoves
  <2>2. CASE open' = open \cup {s} /\ UNCHANGED <<closed, queued>>
    BY <2>2, <1>2 DEF TypeOK
  <2> QED
    BY <2>1, <2>2, Zenon DEF DropStream, BufferStream, DeliverStream
<1>6. got' \in [Stream -> SUBSET Byte] /\ stopped' \subseteq Stream /\ passed' \in [Stream -> Offset]
  BY DEF TypeOK, DropStream, BufferStream, DeliverStream
<1>7. chunks' \in [Stream -> SUBSET Byte]
  <2>1. BufferChunks(s, off, end) \subseteq Byte
    BY ChunkHolds DEF BufferChunks
  <2> QED
    BY <2>1 DEF TypeOK, DropStream, BufferStream, DeliverStream
<1>8. connUnsent' \in Nat /\ credited' \subseteq Stream \X Byte
  <2>1. CASE NoCredit
    BY <2>1 DEF NoCredit, TypeOK
  <2>2. CASE Credit(Fresh(s, end), Bytes(s, last[s], last'[s]))
    BY <2>2, <1>2, <1>4, CreditTypes DEF TypeOK
  <2>3. CASE DeliverStream(s, off, end, fin, stop, b) /\ stop
    <3>1. \A k \in got'[s] : k < last'[s]
      <4>1. got'[s] = got[s] \cup off .. end - 1
        BY <2>3 DEF DeliverStream, TypeOK
      <4>2. \A k \in got[s] : k < last[s]
        BY DEF Shape
      <4> QED
        BY <4>1, <4>2, <1>2, <1>4
    <3>2. FirstGap(got'[s]) \in Nat /\ FirstGap(got'[s]) <= last'[s]
      BY <3>1, <1>2, <1>6, FirstGapIs, FirstGapBounds
    <3>3. Credit(last'[s] - FirstGap(got'[s]), Bytes(s, FirstGap(got'[s]), last'[s]))
      BY <2>3 DEF DeliverStream, StopInside
    <3> HIDE DEF Offset, Byte
    <3>4. last'[s] - FirstGap(got'[s]) \in Nat /\ last'[s] \in Offset
      BY <3>2, <1>2, <1>4
    <3> QED
      BY <3>2, <3>3, <3>4, CreditTypes
  <2> QED
    BY <2>1, <2>2, <2>3, Zenon DEF DropStream, BufferStream, DeliverStream
<1> QED
  BY <1>2, <1>3, <1>5, <1>6, <1>7, <1>8 DEF TypeOK

\* Type correctness of a RESET_STREAM frame that is accepted.
LEMMA ResetTypes ==
  ASSUME TypeOK, Shape, NEW s \in Stream, NEW final \in Offset, NEW stop \in BOOLEAN,
         RecvResetUnopened(s, final) \/ RecvReset(s, final, stop)
  PROVE  TypeOK'
<1> USE RxFlowAssumption DEF Offset, Byte
<1>1. last[s] <= final /\ last[s] \in Nat /\ Rx(s) \in Nat /\ Rx(s) <= last[s]
  <2>1. last[s] <= final
    BY DEF RecvResetUnopened, RecvReset, HonestReset, TypeOK
  <2>2. got[s] \in SUBSET Byte /\ last[s] \in Offset
    BY DEF TypeOK
  <2>3. Rx(s) \in Offset /\ Rx(s) <= last[s]
    BY <2>2, FirstGapIs, FirstGapBounds DEF Rx, Shape
  <2> QED
    BY <2>1, <2>2, <2>3
<1>2. CASE RecvResetUnopened(s, final)
  <2>1. connUnsent' \in Nat /\ credited' \subseteq Stream \X Byte
    BY <1>2, CreditTypes DEF RecvResetUnopened
  <2> QED
    BY <1>2, <2>1 DEF TypeOK, RecvResetUnopened, limits
<1>3. CASE RecvReset(s, final, stop)
  <2>1. connUnsent' \in Nat /\ credited' \subseteq Stream \X Byte
    <3> DEFINE n == ResetCredit(s) + (final - last[s])
               a == IF s \in rst \cup stopped THEN last[s] ELSE Rx(s)
    <3>1. Credit(n, Bytes(s, a, final))
      BY <1>3, Zenon DEF RecvReset
    <3>2. n \in Nat /\ a \in Nat
      BY <1>1 DEF ResetCredit
    <3> HIDE DEF n, a, Offset, Byte
    <3> QED
      BY <3>1, <3>2, CreditTypes
  <2>2. s \notin closed
    BY <1>3 DEF RecvReset, TypeOK
  <2>3. /\ open' \subseteq Stream /\ closed' \subseteq Stream /\ open' \cap closed' = {}
        /\ queued' \subseteq open'
    BY <1>3, <2>2, CloseIfShutMoves DEF RecvReset
  <2>4. connOffset' \in Nat
    BY <1>3, <1>1 DEF RecvReset, TypeOK
  <2>5. last' \in [Stream -> Offset] /\ shutRd' \subseteq Stream /\ rst' \subseteq shutRd'
    BY <1>3 DEF RecvReset, TypeOK
  <2> QED
    BY <1>3, <2>1, <2>3, <2>4, <2>5 DEF TypeOK, RecvReset, limits
<1> QED
  BY <1>2, <1>3

\* Type correctness of what the application does.
LEMMA AppTypes ==
  ASSUME TypeOK, Shape, NEW s \in Stream, App(s)
  PROVE  TypeOK'
<1> USE RxFlowAssumption DEF Offset, Byte
<1>1. CASE OpenStream(s)
  BY <1>1 DEF OpenStream, TypeOK, flags, data, limits, conn, Stream
<1>2. CASE FinishWrite(s)
  <2>1. s \notin closed
    BY <1>2 DEF FinishWrite, TypeOK
  <2>2. /\ open' \subseteq Stream /\ closed' \subseteq Stream /\ open' \cap closed' = {}
        /\ queued' \subseteq open'
    BY <1>2, <2>1, CloseIfShutMoves DEF FinishWrite
  <2> QED
    BY <1>2, <2>2 DEF FinishWrite, TypeOK, data, limits, conn
<1>3. CASE StopStream(s)
  <2>1. connUnsent' \in Nat /\ credited' \subseteq Stream \X Byte
    <3>1. got[s] \in SUBSET Byte /\ last[s] \in Offset
      BY DEF TypeOK
    <3>2. Rx(s) \in Nat /\ Rx(s) <= last[s]
      BY <3>1, FirstGapIs, FirstGapBounds DEF Rx, Shape
    <3>3. CASE NoCredit
      BY <3>3 DEF NoCredit, TypeOK
    <3>4. CASE Credit(last[s] - Rx(s), Bytes(s, Rx(s), last[s]))
      <4>1. last[s] - Rx(s) \in Nat
        BY <3>1, <3>2
      <4> HIDE DEF Offset, Byte
      <4> QED
        BY <3>1, <3>2, <3>4, <4>1, CreditTypes
    <3> QED
      BY <1>3, <3>3, <3>4, Zenon DEF StopStream
  <2> QED
    BY <1>3, <2>1 DEF StopStream, TypeOK, data, limits
<1>4. CASE \E n \in 1 .. MaxOff : Consume(s, n)
  <2>1. PICK n \in 1 .. MaxOff : Consume(s, n)
    BY <1>4
  <2>2. consumed[s] \in Nat /\ consumed[s] + n \in Offset
    BY <2>1 DEF Consume, TypeOK
  <2>3. connUnsent' \in Nat /\ credited' \subseteq Stream \X Byte
    <3> HIDE DEF Offset, Byte
    <3>1. n \in Nat
      OBVIOUS
    <3> QED
      BY <2>1, <2>2, <3>1, CreditTypes DEF Consume
  <2>4. sunsent' \in [Stream -> Nat] /\ queued' \subseteq open'
    BY <2>1 DEF Consume, TypeOK
  <2> QED
    BY <2>1, <2>2, <2>3, <2>4 DEF Consume, TypeOK, flags, data
<1> QED
  BY <1>1, <1>2, <1>3, <1>4 DEF App

\* What auto-tuning makes of a window.
LEMMA GrownIs ==
  ASSUME NEW w \in Nat, NEW top \in Nat, MayGrow(w, top)
  PROVE  Grown(w, top) \in Nat /\ w <= Grown(w, top)
BY DEF Grown, MayGrow

\* Type correctness of what conn_write_pkt does.
LEMMA WriteTypes ==
  ASSUME TypeOK,
         \/ \E s \in Stream : WriteStreamLimit(s)
         \/ \E grow \in BOOLEAN : WriteMaxData(grow)
  PROVE  TypeOK'
<1> USE RxFlowAssumption
<1>1. ASSUME NEW s \in Stream, NEW grow \in BOOLEAN, NEW fits \in BOOLEAN,
             WriteMaxStreamData(s, grow, fits)
      PROVE  TypeOK'
  <2> DEFINE w == IF grow THEN Grown(swindow[s], MaxStreamWindow) ELSE swindow[s]
  <2>1. w \in Nat /\ sunsent[s] + (w - swindow[s]) \in Nat
    <3>1. swindow[s] \in Nat /\ sunsent[s] \in Nat
      BY DEF TypeOK
    <3>2. CASE grow
      <4>1. Grown(swindow[s], MaxStreamWindow) \in Nat
            /\ swindow[s] <= Grown(swindow[s], MaxStreamWindow)
        BY <1>1, <3>1, <3>2, GrownIs DEF WriteMaxStreamData
      <4> QED
        BY <3>1, <3>2, <4>1
    <3> QED
      BY <3>1, <3>2
  <2>2. swindow' = [swindow EXCEPT ![s] = w] /\ swindow' \in [Stream -> Nat]
    BY <1>1, <2>1 DEF WriteMaxStreamData, TypeOK
  <2>3. /\ smax' \in [Stream -> Nat] /\ sunsent' \in [Stream -> Nat]
        /\ told' \in [Stream -> Nat] /\ queued' \subseteq open'
        /\ squeezed' \subseteq Stream /\ leftover' \subseteq Stream \X Nat
    <3> HIDE DEF w
    <3>1. CASE fits
      BY <1>1, <2>1, <3>1 DEF WriteMaxStreamData, TypeOK, w
    <3>2. CASE ~fits
      BY <1>1, <2>1, <3>2 DEF WriteMaxStreamData, TypeOK, w
    <3> QED
      BY <3>1, <3>2
  <2> QED
    BY <1>1, <2>2, <2>3 DEF WriteMaxStreamData, TypeOK, flags, data, conn
<1>2. ASSUME NEW s \in Stream, SkipMaxStreamData(s)
      PROVE  TypeOK'
  BY <1>2 DEF SkipMaxStreamData, TypeOK, flags, data, limits, conn
<1>3. ASSUME NEW s \in Stream, NEW f \in leftover, f[1] = s, WriteLeftover(s, f[2])
      PROVE  TypeOK'
  BY <1>3 DEF WriteLeftover, TypeOK, flags, data, conn
<1>4. ASSUME NEW grow \in BOOLEAN, WriteMaxData(grow)
      PROVE  TypeOK'
  <2>1. connWindow' \in Nat /\ connWindow <= connWindow'
    <3>1. connWindow \in Nat
      BY DEF TypeOK
    <3>2. CASE grow
      BY <1>4, <3>1, <3>2, GrownIs DEF WriteMaxData
    <3> QED
      BY <1>4, <3>1, <3>2 DEF WriteMaxData
  <2>2. connMax' \in Nat /\ connUnsent' \in Nat
    BY <1>4, <2>1 DEF WriteMaxData, Delta, TypeOK
  <2> QED
    BY <1>4, <2>1, <2>2 DEF WriteMaxData, TypeOK, flags, data, limits
<1> QED
  BY <1>1, <1>2, <1>3, <1>4 DEF WriteStreamLimit

-----------------------------------------------------------------------------
\* The offsets of a stream before a frame comes.
LEMMA RxIs ==
  ASSUME TypeOK, Shape, NEW s \in Stream
  PROVE  /\ got[s] \in SUBSET Byte /\ last[s] \in Offset
         /\ Rx(s) \in Offset /\ Rx(s) <= last[s]
         /\ Rx(s) \notin got[s] /\ \A k \in Nat : k < Rx(s) => k \in got[s]
<1>1. got[s] \in SUBSET Byte /\ last[s] \in Offset
  BY DEF TypeOK
<1>2. \A k \in got[s] : k < last[s]
  BY DEF Shape
<1> QED
  BY <1>1, <1>2, FirstGapIs, FirstGapBounds DEF Rx

\* The offsets after data was put into the reorder buffer or passed on.
LEMMA GotIs ==
  ASSUME TypeOK, Shape, NEW s \in Stream, NEW off \in Offset, NEW end \in Offset,
         NEW fin \in BOOLEAN, Accept(s, off, end, fin), ~Dropped(s, end, fin),
         got'[s] = got[s] \cup off .. end - 1
  PROVE  /\ got'[s] \in SUBSET Byte
         /\ \A k \in got'[s] : k < last'[s]
         /\ FirstGap(got'[s]) \in Offset /\ Rx(s) <= FirstGap(got'[s])
         /\ FirstGap(got'[s]) <= last'[s]
         /\ Rx(s) <= end /\ end <= last'[s] /\ last'[s] \in Offset
<1>1. /\ got[s] \in SUBSET Byte /\ last[s] \in Offset
      /\ Rx(s) \in Offset /\ Rx(s) <= last[s]
      /\ \A k \in Nat : k < Rx(s) => k \in got[s]
  BY RxIs
<1>2. last'[s] \in Offset /\ last[s] <= last'[s] /\ end <= last'[s]
  BY AcceptTypes
<1>3. got'[s] = got[s] \cup off .. end - 1
  OBVIOUS
<1>4. got'[s] \in SUBSET Byte
  BY <1>1, <1>3, RxFlowAssumption DEF Byte, Offset
<1>5. \A k \in got'[s] : k < last'[s]
  <2>1. \A k \in got[s] : k < last[s]
    BY DEF Shape
  <2> QED
    BY <1>1, <1>2, <1>3, <2>1, RxFlowAssumption DEF Byte, Offset
<1>6. FirstGap(got'[s]) \in Offset /\ FirstGap(got'[s]) <= last'[s]
  BY <1>2, <1>4, <1>5, FirstGapIs, FirstGapBounds
<1>7. Rx(s) <= FirstGap(got'[s])
  <2>1. \A k \in Byte : k < Rx(s) => k \in got'[s]
    BY <1>1, <1>3 DEF Byte
  <2> QED
    BY <1>1, <1>4, <2>1, FirstGapBounds
<1>8. Rx(s) <= end
  <2>1. CASE fin /\ s \notin shutRd
    <3>1. ~(last[s] > end)
      BY <2>1 DEF Accept, Offends
    <3> QED
      BY <1>1, <3>1, RxFlowAssumption DEF Offset
  <2>2. CASE ~(end <= Rx(s))
    BY <1>1, <2>2, RxFlowAssumption DEF Offset
  <2> QED
    BY <2>1, <2>2 DEF Dropped
<1> QED
  BY <1>2, <1>3, <1>4, <1>5, <1>6, <1>7, <1>8

\* What is passed on reaches from the frame to at most the first gap.
LEMMA DeliverIs ==
  ASSUME TypeOK, Shape, NEW s \in Stream, NEW off \in Offset, NEW end \in Offset,
         NEW fin \in BOOLEAN, NEW stop \in BOOLEAN, NEW b \in Offset,
         DeliverStream(s, off, end, fin, stop, b)
  PROVE  /\ end <= b /\ b <= FirstGap(got'[s])
         /\ passed'[s] = b /\ passed[s] <= b
<1>1. /\ got'[s] = got[s] \cup off .. end - 1 /\ got'[s] \in SUBSET Byte
      /\ Rx(s) <= end
  <2>1. /\ Accept(s, off, end, fin) /\ ~Dropped(s, end, fin)
        /\ got'[s] = got[s] \cup off .. end - 1
    BY DEF DeliverStream, TypeOK
  <2> QED
    BY <2>1, GotIs
<1>2. Rx(s) \in Offset /\ \A k \in Nat : k < Rx(s) => k \in got[s]
  BY RxIs
<1>3. \A k \in Byte : k < end => k \in got'[s]
  BY <1>1, <1>2, RxFlowAssumption DEF DeliverStream, Byte, Offset
<1>4. end <= b /\ b <= FirstGap(got'[s])
  <2>1. CASE stop
    <3>1. b \in CallbackEnds(s, end)
      BY <2>1 DEF DeliverStream
    <3> QED
      BY <1>1, <1>3, <3>1, CallbackEndsAre
  <2>2. CASE ~stop
    <3>1. b = FirstGap(got'[s])
      BY <2>2 DEF DeliverStream
    <3>2. end <= FirstGap(got'[s])
      BY <1>1, <1>3, FirstGapBounds
    <3> QED
      BY <3>1, <3>2, RxFlowAssumption DEF Offset
  <2> QED
    BY <2>1, <2>2
<1>5. passed'[s] = b
  BY DEF DeliverStream, TypeOK
<1>6. passed[s] <= Rx(s) /\ passed[s] \in Offset
  BY DEF Shape, TypeOK
<1> QED
  BY <1>1, <1>2, <1>4, <1>5, <1>6, RxFlowAssumption DEF Offset

\* One stream of Shape.
StreamShape(s) ==
  /\ \A k \in got[s] : k < last[s]
  /\ consumed[s] <= passed[s] /\ passed[s] <= Rx(s)
  /\ s \notin open \cup closed =>
       /\ last[s] = 0 /\ chunks[s] = {} /\ s \notin shutRd \cup stopped \cup squeezed
       /\ smax[s] = StreamWindow

\* A stream whose variables stay keeps its shape.
LEMMA OtherShape ==
  ASSUME Shape, NEW r \in Stream,
         got'[r] = got[r], last'[r] = last[r], consumed'[r] = consumed[r],
         passed'[r] = passed[r], chunks'[r] = chunks[r], smax'[r] = smax[r],
         open \cup closed \subseteq open' \cup closed',
         r \notin open' \cup closed' => r \notin (shutRd' \cup stopped' \cup squeezed') \/
                                       r \in shutRd \cup stopped \cup squeezed
  PROVE  StreamShape(r)'
<1>1. StreamShape(r)
  BY DEF Shape, StreamShape
<1> QED
  BY <1>1 DEF StreamShape, Rx

\* A STREAM frame that is accepted keeps the shape of its stream and of the
\* others.
LEMMA StreamKeepsShape ==
  ASSUME TypeOK, Shape, NEW s \in Stream, NEW off \in Offset, NEW end \in Offset,
         NEW fin \in BOOLEAN, NEW stop \in BOOLEAN, NEW b \in Offset,
         \/ DropStream(s, off, end, fin)
         \/ BufferStream(s, off, end, fin)
         \/ DeliverStream(s, off, end, fin, stop, b)
  PROVE  Shape'
<1>1. Accept(s, off, end, fin)
  BY Zenon DEF DropStream, BufferStream, DeliverStream
<1>2. /\ s \notin closed /\ last'[s] \in Offset /\ last[s] <= last'[s]
      /\ \A r \in Stream \ {s} : last'[r] = last[r]
  BY <1>1, AcceptTypes
<1>3. open' \cup closed' = open \cup closed \cup {s}
  <2>1. CASE CloseIfShut(s)
    BY <2>1, <1>2, CloseIfShutMoves
  <2>2. CASE open' = open \cup {s} /\ UNCHANGED <<closed, queued>>
    BY <2>2
  <2> QED
    BY <2>1, <2>2, Zenon DEF DropStream, BufferStream, DeliverStream
<1>4. ASSUME NEW r \in Stream, r # s
      PROVE  StreamShape(r)'
  <2>1. /\ consumed'[r] = consumed[r] /\ smax'[r] = smax[r] /\ squeezed' = squeezed
        /\ r \in shutRd' => r \in shutRd
    BY <1>1, <1>4 DEF Accept, limits
  <2>2. /\ got'[r] = got[r] /\ passed'[r] = passed[r] /\ chunks'[r] = chunks[r]
        /\ r \in stopped' => r \in stopped
    BY <1>4 DEF DropStream, BufferStream, DeliverStream, TypeOK
  <2> QED
    BY <1>2, <1>3, <1>4, <2>1, <2>2, OtherShape
<1>5. StreamShape(s)'
  <2>1. s \in open' \cup closed' /\ consumed'[s] = consumed[s]
    BY <1>1, <1>3 DEF Accept
  <2>2. /\ got[s] \in SUBSET Byte /\ last[s] \in Offset /\ Rx(s) \in Offset
        /\ consumed[s] <= passed[s] /\ passed[s] <= Rx(s)
        /\ consumed[s] \in Offset /\ passed[s] \in Offset /\ \A k \in got[s] : k < last[s]
    BY RxIs DEF TypeOK, Shape
  <2>3. CASE DropStream(s, off, end, fin)
    <3>1. got'[s] = got[s] /\ passed'[s] = passed[s]
      BY <2>3 DEF DropStream
    <3>2. \A k \in got[s] : k < last'[s]
      BY <1>2, <2>2, RxFlowAssumption DEF Offset, Byte
    <3> QED
      BY <2>1, <2>2, <3>1, <3>2 DEF StreamShape, Rx
  <2>4. CASE BufferStream(s, off, end, fin)
    <3>1. /\ \A k \in got'[s] : k < last'[s]
          /\ FirstGap(got'[s]) \in Offset /\ Rx(s) <= FirstGap(got'[s])
      <4>1. /\ ~Dropped(s, end, fin)
            /\ got'[s] = got[s] \cup off .. end - 1
        BY <2>4 DEF BufferStream, TypeOK
      <4> QED
        BY <1>1, <4>1, GotIs
    <3>2. passed'[s] = passed[s]
      BY <2>4 DEF BufferStream
    <3>3. passed'[s] <= FirstGap(got'[s])
      BY <2>2, <3>1, <3>2, RxFlowAssumption DEF Offset
    <3> QED
      BY <2>1, <2>2, <3>1, <3>2, <3>3 DEF StreamShape, Rx
  <2>5. CASE DeliverStream(s, off, end, fin, stop, b)
    <3>1. \A k \in got'[s] : k < last'[s]
      <4>1. /\ ~Dropped(s, end, fin)
            /\ got'[s] = got[s] \cup off .. end - 1
        BY <2>5 DEF DeliverStream, TypeOK
      <4> QED
        BY <1>1, <4>1, GotIs
    <3>2. b <= FirstGap(got'[s]) /\ passed'[s] = b /\ passed[s] <= b
      BY <2>5, DeliverIs
    <3>3. consumed[s] <= b
      BY <2>2, <3>2, RxFlowAssumption DEF Offset
    <3> QED
      BY <2>1, <3>1, <3>2, <3>3 DEF StreamShape, Rx
  <2> QED
    BY <2>3, <2>4, <2>5
<1>6. \A r \in Stream : StreamShape(r)'
  BY <1>4, <1>5
<1> QED
  BY <1>6 DEF Shape, StreamShape

\* Shape survives every other step.
LEMMA OthersKeepShape ==
  ASSUME TypeOK, Shape,
         \/ \E s \in Stream, final \in Offset :
              \/ RecvResetUnopened(s, final)
              \/ \E stop \in BOOLEAN : RecvReset(s, final, stop)
         \/ \E s \in Stream : App(s) \/ WriteStreamLimit(s)
         \/ \E grow \in BOOLEAN : WriteMaxData(grow)
  PROVE  Shape'
<1> SUFFICES ASSUME NEW r \in Stream
             PROVE  StreamShape(r)'
  BY DEF Shape, StreamShape
<1>1. ASSUME NEW s \in Stream, NEW final \in Offset, RecvResetUnopened(s, final)
      PROVE  StreamShape(r)'
  <2>1. /\ UNCHANGED <<open, stopped, got, chunks, passed, consumed, smax, squeezed>>
        /\ closed' = closed \cup {s} /\ shutRd' = shutRd \cup {s}
        /\ last' = [last EXCEPT ![s] = final]
    BY <1>1 DEF RecvResetUnopened, limits
  <2>2. CASE r = s
    <3>1. last[s] = 0 /\ got[s] = {}
      BY <1>1, RxFlowAssumption DEF RecvResetUnopened, Shape, TypeOK, Byte
    <3>2. last'[s] = final /\ s \in closed'
      BY <2>1 DEF TypeOK
    <3> QED
      BY <2>1, <2>2, <3>1, <3>2 DEF Shape, StreamShape, Rx
  <2>3. CASE r # s
    <3>1. last'[r] = last[r]
      BY <2>1, <2>3 DEF TypeOK
    <3> QED
      BY <2>1, <2>3, <3>1, OtherShape
  <2> QED
    BY <2>2, <2>3
<1>2. ASSUME NEW s \in Stream, NEW final \in Offset, NEW stop \in BOOLEAN,
             RecvReset(s, final, stop)
      PROVE  StreamShape(r)'
  <2>1. /\ UNCHANGED <<got, chunks, passed, consumed, smax, squeezed>>
        /\ shutRd' = shutRd \cup {s} /\ stopped' \subseteq stopped \cup {s}
        /\ last' = [last EXCEPT ![s] = final] /\ last[s] <= final
    BY <1>2 DEF RecvReset, limits, HonestReset, TypeOK, Offset
  <2>2. open' \cup closed' = open \cup closed \cup {s}
    BY <1>2, CloseIfShutMoves DEF RecvReset, TypeOK
  <2>3. CASE r = s
    <3>1. last'[s] = final /\ \A k \in got[s] : k < final
      BY <2>1, RxIs, RxFlowAssumption DEF TypeOK, Shape, Offset, Byte
    <3> QED
      BY <2>1, <2>2, <2>3, <3>1 DEF Shape, StreamShape, Rx
  <2>4. CASE r # s
    <3>1. last'[r] = last[r]
      BY <2>1, <2>4 DEF TypeOK
    <3> QED
      BY <2>1, <2>2, <2>4, <3>1, OtherShape
  <2> QED
    BY <2>3, <2>4
<1>3. ASSUME NEW s \in Stream, OpenStream(s)
      PROVE  StreamShape(r)'
  BY <1>3, OtherShape DEF OpenStream, flags, data, limits
<1>4. ASSUME NEW s \in Stream, FinishWrite(s)
      PROVE  StreamShape(r)'
  <2>1. open' \cup closed' = open \cup closed \cup {s}
    BY <1>4, CloseIfShutMoves DEF FinishWrite, TypeOK
  <2> QED
    BY <1>4, <2>1, OtherShape DEF FinishWrite, data, limits
<1>5. ASSUME NEW s \in Stream, StopStream(s)
      PROVE  StreamShape(r)'
  <2>1. s \in open
    BY <1>5 DEF StopStream, MayStop
  <2> QED
    BY <1>5, <2>1, OtherShape DEF StopStream, data, limits
<1>6. ASSUME NEW s \in Stream, NEW n \in 1 .. MaxOff, Consume(s, n)
      PROVE  StreamShape(r)'
  <2>1. /\ UNCHANGED <<open, closed, shutRd, stopped, last, got, chunks, passed, smax, squeezed>>
        /\ consumed' = [consumed EXCEPT ![s] = @ + n] /\ consumed[s] + n <= passed[s]
    BY <1>6 DEF Consume, flags, data
  <2>2. CASE r = s
    <3>1. consumed'[s] = consumed[s] + n
      BY <2>1 DEF TypeOK
    <3> QED
      BY <2>1, <2>2, <3>1 DEF Shape, StreamShape, Rx
  <2>3. CASE r # s
    <3>1. consumed'[r] = consumed[r]
      BY <2>1, <2>3 DEF TypeOK
    <3> QED
      BY <2>1, <2>3, <3>1, OtherShape
  <2> QED
    BY <2>2, <2>3
<1>7. ASSUME NEW s \in Stream, NEW grow \in BOOLEAN, NEW fits \in BOOLEAN,
             WriteMaxStreamData(s, grow, fits)
      PROVE  StreamShape(r)'
  <2>1. /\ UNCHANGED <<open, closed, shutRd, stopped, last, got, chunks, passed, consumed>>
        /\ s \in open /\ squeezed' \subseteq squeezed \cup {s}
        /\ \A q \in Stream \ {s} : smax'[q] = smax[q]
    BY <1>7 DEF WriteMaxStreamData, flags, data, TypeOK
  <2>2. CASE r = s
    BY <2>1, <2>2 DEF Shape, StreamShape, Rx
  <2>3. CASE r # s
    BY <2>1, <2>3, OtherShape
  <2> QED
    BY <2>2, <2>3
<1>8. ASSUME NEW s \in Stream, SkipMaxStreamData(s)
      PROVE  StreamShape(r)'
  BY <1>8, OtherShape DEF SkipMaxStreamData, flags, data, limits
<1>9. ASSUME NEW s \in Stream, NEW f \in leftover, WriteLeftover(s, f[2])
      PROVE  StreamShape(r)'
  BY <1>9, OtherShape DEF WriteLeftover, flags, data
<1>10. ASSUME NEW grow \in BOOLEAN, WriteMaxData(grow)
       PROVE  StreamShape(r)'
  BY <1>10, OtherShape DEF WriteMaxData, flags, data, limits
<1> QED
  BY <1>1, <1>2, <1>3, <1>4, <1>5, <1>6, <1>7, <1>8, <1>9, <1>10 DEF App, WriteStreamLimit

-----------------------------------------------------------------------------
\* CreditComplete for one stream.
CreditOf(r) ==
  \A k \in Byte :
    <<r, k>> \in credited <=>
      k < last[r] /\ (k < consumed[r] \/ (r \in stopped \cup rst /\ k >= Rx(r)))

\* The set of credited bytes, read one stream and one byte at a time.
LEMMA CreditByStream ==
  ASSUME TypeOK, CreditComplete
  PROVE  \A r \in Stream : CreditOf(r)
BY DEF CreditComplete, CreditOf, Revealed

\* The same, read backwards for the next state.
LEMMA CreditIsComplete ==
  ASSUME TypeOK', \A r \in Stream : CreditOf(r)'
  PROVE  CreditComplete'
<1> DEFINE Due(b) == /\ b[2] < last'[b[1]]
                     /\ b[2] < consumed'[b[1]] \/
                          (b[1] \in stopped' \cup rst' /\ b[2] >= Rx(b[1])')
<1>1. credited' \subseteq Stream \X Byte
  BY DEF TypeOK
<1>2. \A r \in Stream : \A k \in Byte : <<r, k>> \in credited' <=> Due(<<r, k>>)
  BY DEF CreditOf
<1>3. credited' = {b \in Stream \X Byte : Due(b)}
  <2> HIDE DEF Due
  <2> QED
    BY <1>1, <1>2
<1> QED
  BY <1>3 DEF CreditComplete, Revealed

\* A stream none of whose offsets changes keeps its credit.
LEMMA OtherCredit ==
  ASSUME NEW r \in Stream, CreditOf(r),
         \A k \in Byte : <<r, k>> \in credited' <=> <<r, k>> \in credited,
         last'[r] = last[r], consumed'[r] = consumed[r],
         r \in stopped' \cup rst' <=> r \in stopped \cup rst,
         r \in stopped \cup rst => got'[r] = got[r]
  PROVE  CreditOf(r)'
BY DEF CreditOf, Rx

\* Bytes of s that had no credit get it: the connection's counters follow.
LEMMA CountersFollow ==
  ASSUME TypeOK, Counts, NEW s \in Stream, NEW a \in Nat, NEW b \in Offset, a <= b,
         last' \in [Stream -> Offset], last[s] <= last'[s],
         \A r \in Stream \ {s} : last'[r] = last[r],
         connOffset' = connOffset + (last'[s] - last[s]), connOffset' <= connMax',
         connWindow' = connWindow, connUnsent' = connUnsent + (b - a),
         credited' = credited \cup Bytes(s, a, b),
         \A k \in a .. b - 1 : <<s, k>> \notin credited
  PROVE  CreditedOnce' /\ OffsetExact' /\ (connOffset <= connMax)'
<1>1. last[s] \in Nat /\ last'[s] \in Nat /\ b \in Nat
  BY RxFlowAssumption DEF TypeOK, Offset
<1>2. CreditedOnce'
  <2>1. IsFiniteSet(credited)
    BY BytesFinite, FS_Subset DEF TypeOK
  <2>2. credited \cap Bytes(s, a, b) = {}
    BY DEF Bytes
  <2>3. Cardinality(credited') = Cardinality(credited) + (b - a)
    BY <1>1, <2>1, <2>2, AddBytes
  <2>4. Cardinality(credited) \in Nat
    BY <2>1, FS_CardinalityType
  <2> QED
    BY <1>1, <2>3, <2>4 DEF Counts, CreditedOnce, TypeOK
<1>3. OffsetExact'
  <2>1. Revealed \subseteq Stream \X Byte
    BY DEF Revealed
  <2>2. IsFiniteSet(Revealed)
    BY <2>1, BytesFinite, FS_Subset
  <2>3. Revealed \cap Bytes(s, last[s], last'[s]) = {}
    BY <1>1 DEF Bytes, Revealed
  <2>4. Revealed' = Revealed \cup Bytes(s, last[s], last'[s])
    <3>1. ASSUME NEW r \in Stream, NEW k \in Byte
          PROVE  k < last'[r] <=> k < last[r] \/ (r = s /\ k \in last[s] .. last'[s] - 1)
      BY <1>1 DEF Byte, TypeOK
    <3>2. Bytes(s, last[s], last'[s]) \subseteq Stream \X Byte
      BY <1>1, RxFlowAssumption DEF Bytes, Byte, Offset
    <3> QED
      BY <3>1, <3>2 DEF Revealed, Bytes
  <2>5. Cardinality(Revealed') = Cardinality(Revealed) + (last'[s] - last[s])
    <3>1. Cardinality(Revealed \cup Bytes(s, last[s], last'[s]))
            = Cardinality(Revealed) + (last'[s] - last[s])
      BY <1>1, <2>2, <2>3, AddBytes, Zenon
    <3> QED
      BY <2>4, <3>1, Zenon
  <2>6. connOffset = Cardinality(Revealed)
    BY DEF Counts, OffsetExact
  <2>7. connOffset' = Cardinality(Revealed')
    BY <2>5, <2>6
  <2> QED
    BY <2>7 DEF OffsetExact
<1> QED
  BY <1>2, <1>3

\* A step that returns the credit of a run of bytes of s, if only of none, and
\* leaves s with the credit it should have.
LEMMA RunCounts ==
  ASSUME TypeOK, Counts, TypeOK', NEW s \in Stream, NEW a \in Nat, NEW b \in Offset, a <= b,
         last[s] <= last'[s], connOffset' = connOffset + (last'[s] - last[s]),
         connOffset' <= connMax', connWindow' = connWindow, Credit(b - a, Bytes(s, a, b)),
         \A k \in a .. b - 1 : <<s, k>> \notin credited,
         \A r \in Stream \ {s} :
           /\ last'[r] = last[r] /\ consumed'[r] = consumed[r] /\ got'[r] = got[r]
           /\ r \in stopped' \cup rst' <=> r \in stopped \cup rst,
         CreditOf(s)'
  PROVE  Counts'
<1>1. credited' = credited \cup Bytes(s, a, b) /\ connUnsent' = connUnsent + (b - a)
  BY DEF Credit
<1>2. CreditedOnce' /\ OffsetExact' /\ (connOffset <= connMax)'
  <2>1. last' \in [Stream -> Offset]
    BY DEF TypeOK
  <2> QED
    BY <1>1, <2>1, CountersFollow
<1>3. \A r \in Stream : CreditOf(r)
  BY CreditByStream DEF Counts
<1>4. ASSUME NEW r \in Stream, r # s
      PROVE  CreditOf(r)'
  <2>1. \A k \in Byte : <<r, k>> \in credited' <=> <<r, k>> \in credited
    BY <1>1, <1>4 DEF Bytes
  <2> QED
    BY <1>3, <1>4, <2>1, OtherCredit
<1>5. \A r \in Stream : CreditOf(r)'
  BY <1>4
<1> QED
  BY <1>2, <1>5, CreditIsComplete DEF Counts

\* The same for a step that returns no credit.
LEMMA NoRunCounts ==
  ASSUME TypeOK, Counts, TypeOK', NEW s \in Stream,
         last[s] <= last'[s], connOffset' = connOffset + (last'[s] - last[s]),
         connOffset' <= connMax', connWindow' = connWindow, NoCredit,
         \A r \in Stream \ {s} :
           /\ last'[r] = last[r] /\ consumed'[r] = consumed[r] /\ got'[r] = got[r]
           /\ r \in stopped' \cup rst' <=> r \in stopped \cup rst,
         CreditOf(s)'
  PROVE  Counts'
<1>1. last[s] \in Nat /\ last[s] \in Offset /\ connUnsent \in Nat
  BY RxFlowAssumption DEF TypeOK, Offset
<1>2. Credit(last[s] - last[s], Bytes(s, last[s], last[s]))
  BY <1>1 DEF NoCredit, Credit, Bytes
<1>3. \A k \in last[s] .. last[s] - 1 : <<s, k>> \notin credited
  BY <1>1
<1> QED
  BY <1>1, <1>2, <1>3, RunCounts

\* A STREAM frame returns the credit of what is dropped, or of what the
\* application will never see, once.
LEMMA StreamCounts ==
  ASSUME TypeOK, Shape, Counts, NEW s \in Stream, NEW off \in Offset, NEW end \in Offset,
         NEW fin \in BOOLEAN, NEW stop \in BOOLEAN, NEW b \in Offset, TypeOK',
         \/ DropStream(s, off, end, fin)
         \/ BufferStream(s, off, end, fin)
         \/ DeliverStream(s, off, end, fin, stop, b)
  PROVE  Counts'
<1>1. Accept(s, off, end, fin)
  BY Zenon DEF DropStream, BufferStream, DeliverStream
<1>2. /\ Fresh(s, end) \in Nat /\ last'[s] = last[s] + Fresh(s, end)
      /\ last[s] <= last'[s] /\ \A r \in Stream \ {s} : last'[r] = last[r]
  BY <1>1, AcceptTypes
<1>3. /\ connOffset' = connOffset + Fresh(s, end) /\ ~(connMax - connOffset < Fresh(s, end))
      /\ connMax' = connMax /\ connWindow' = connWindow
      /\ rst' = rst /\ consumed' = consumed
  BY <1>1, Zenon DEF Accept, Offends
<1>4. /\ got[s] \in SUBSET Byte /\ last[s] \in Nat /\ Rx(s) \in Nat /\ Rx(s) <= last[s]
      /\ consumed[s] \in Nat /\ passed[s] \in Nat
      /\ consumed[s] <= passed[s] /\ passed[s] <= Rx(s) /\ last'[s] \in Nat
  BY <1>2, RxIs, RxFlowAssumption DEF TypeOK, Shape, Offset
<1>5. connOffset' = connOffset + (last'[s] - last[s]) /\ connOffset' <= connMax'
  BY <1>2, <1>3, <1>4 DEF TypeOK
<1>6. CreditOf(s)
  BY CreditByStream DEF Counts
<1>7. \A r \in Stream \ {s} :
        /\ last'[r] = last[r] /\ consumed'[r] = consumed[r] /\ got'[r] = got[r]
        /\ r \in stopped' \cup rst' <=> r \in stopped \cup rst
  BY <1>2, <1>3 DEF DropStream, BufferStream, DeliverStream, TypeOK
<1>8. CASE NoCredit /\ s \notin stopped'
  <2>1. credited' = credited
    BY <1>8 DEF NoCredit
  <2>2. s \notin stopped
    BY <1>8 DEF DropStream, BufferStream, DeliverStream
  <2>3. CreditOf(s)'
    <3>1. CASE s \in rst
      <4>1. DropStream(s, off, end, fin)
        BY <3>1 DEF BufferStream, DeliverStream, Dropped
      <4>2. last'[s] = last[s] /\ got'[s] = got[s]
        BY <1>1, <3>1, <4>1 DEF TypeOK, Accept, Offends, DropStream, Fresh
      <4> QED
        BY <1>3, <1>6, <1>8, <2>1, <2>2, <4>2, OtherCredit
    <3>2. CASE s \notin rst
      BY <1>2, <1>3, <1>4, <1>6, <1>8, <2>1, <2>2, <3>2 DEF CreditOf, Byte
    <3> QED
      BY <3>1, <3>2
  <2> QED
    BY <1>2, <1>3, <1>5, <1>7, <1>8, <2>3, NoRunCounts
<1>9. CASE DropStream(s, off, end, fin) /\ s \in stopped
  <2>1. /\ Credit(Fresh(s, end), Bytes(s, last[s], last'[s])) /\ got' = got /\ stopped' = stopped
        /\ last'[s] \in Offset
    BY <1>9 DEF DropStream, TypeOK
  <2>2. Fresh(s, end) = last'[s] - last[s]
    BY <1>2, <1>4
  <2>3. \A k \in last[s] .. last'[s] - 1 : <<s, k>> \notin credited
    BY <1>4, <1>6, <2>1, RxFlowAssumption DEF CreditOf, Byte, Offset
  <2>4. CreditOf(s)'
    <3>1. credited' = credited \cup Bytes(s, last[s], last'[s])
      BY <2>1 DEF Credit
    <3>2. \A k \in Byte : <<s, k>> \in credited' <=>
                            <<s, k>> \in credited \/ (last[s] <= k /\ k < last'[s])
      BY <1>4, <3>1 DEF Bytes, Byte
    <3> QED
      BY <1>2, <1>3, <1>4, <1>6, <1>9, <2>1, <3>2 DEF CreditOf, Byte, Rx
  <2> QED
    BY <1>2, <1>3, <1>4, <1>5, <1>7, <2>1, <2>2, <2>3, <2>4, RunCounts
<1>10. CASE DeliverStream(s, off, end, fin, stop, b) /\ stop
  <2> DEFINE x == FirstGap(got'[s])
  <2>1. /\ ~Dropped(s, end, fin) /\ stopped' = stopped \cup {s}
        /\ Credit(last'[s] - x, Bytes(s, x, last'[s])) /\ last'[s] \in Offset
    BY <1>10 DEF DeliverStream, TypeOK, StopInside
  <2>2. s \notin stopped \cup rst
    BY <2>1 DEF Dropped
  <2>3. x \in Nat /\ Rx(s) <= x /\ x <= last'[s]
    <3>1. got'[s] = got[s] \cup off .. end - 1
      BY <1>10 DEF DeliverStream, TypeOK
    <3>2. FirstGap(got'[s]) \in Offset /\ Rx(s) <= FirstGap(got'[s]) /\ FirstGap(got'[s]) <= last'[s]
      BY <1>1, <2>1, <3>1, GotIs
    <3> QED
      BY <3>2, RxFlowAssumption DEF Offset
  <2>4. \A k \in x .. last'[s] - 1 : <<s, k>> \notin credited
    <3> HIDE DEF x
    <3> QED
      BY <1>4, <1>6, <2>1, <2>2, <2>3, RxFlowAssumption DEF CreditOf, Byte, Offset
  <2>5. CreditOf(s)'
    <3>1. credited' = credited \cup Bytes(s, x, last'[s])
      BY <2>1 DEF Credit
    <3>2. \A k \in Byte : <<s, k>> \in credited' <=>
                            <<s, k>> \in credited \/ (x <= k /\ k < last'[s])
      <4> HIDE DEF x
      <4> QED
        BY <1>4, <2>3, <3>1 DEF Bytes, Byte
    <3>3. \A k \in Byte : <<s, k>> \in credited' <=> k < last'[s] /\ (k < consumed[s] \/ k >= x)
      <4> HIDE DEF x
      <4> QED
        BY <1>2, <1>4, <1>6, <2>2, <2>3, <3>2 DEF CreditOf, Byte
    <3> QED
      BY <1>3, <2>1, <3>3 DEF CreditOf, Rx
  <2> HIDE DEF x
  <2> QED
    BY <1>2, <1>3, <1>4, <1>5, <1>7, <2>1, <2>3, <2>4, <2>5, RunCounts
<1>11. CASE DropStream(s, off, end, fin) /\ s \notin stopped
  BY <1>8, <1>11 DEF DropStream
<1>12. CASE BufferStream(s, off, end, fin)
  <2>1. NoCredit /\ s \notin stopped'
    BY <1>12 DEF BufferStream, Dropped
  <2> QED
    BY <1>8, <2>1
<1>13. CASE DeliverStream(s, off, end, fin, stop, b) /\ ~stop
  <2>1. NoCredit /\ s \notin stopped'
    BY <1>13 DEF DeliverStream, Dropped
  <2> QED
    BY <1>8, <2>1
<1> QED
  BY <1>9, <1>10, <1>11, <1>12, <1>13

\* A step that leaves the bytes and the connection alone.
LEMMA SameCounts ==
  ASSUME Counts, UNCHANGED <<conn, last, consumed, got, stopped, rst>>
  PROVE  Counts'
<1>1. /\ connOffset' = connOffset /\ connMax' = connMax /\ connUnsent' = connUnsent
      /\ connWindow' = connWindow /\ credited' = credited /\ last' = last
      /\ consumed' = consumed /\ got' = got /\ stopped' = stopped /\ rst' = rst
  BY DEF conn
<1>2. Revealed' = Revealed
  BY <1>1 DEF Revealed
<1> QED
  BY <1>1, <1>2 DEF Counts, CreditComplete, CreditedOnce, OffsetExact, Rx

\* A RESET_STREAM frame returns what is left of its stream.
LEMMA ResetCounts ==
  ASSUME TypeOK, Shape, Counts, TypeOK', NEW s \in Stream, NEW final \in Offset,
         NEW stop \in BOOLEAN,
         RecvResetUnopened(s, final) \/ RecvReset(s, final, stop)
  PROVE  Counts'
<1>1. /\ got[s] \in SUBSET Byte /\ last[s] \in Nat /\ Rx(s) \in Nat /\ Rx(s) <= last[s]
      /\ consumed[s] \in Nat /\ consumed[s] <= Rx(s) /\ final \in Nat
  BY RxIs, RxFlowAssumption DEF TypeOK, Shape, Offset
<1>2. CreditOf(s)
  BY CreditByStream DEF Counts
<1>3. CASE RecvResetUnopened(s, final)
  <2>1. /\ last[s] = 0 /\ got' = got /\ consumed' = consumed /\ stopped' = stopped
        /\ rst' = rst \cup {s} /\ last'[s] = final /\ connWindow' = connWindow
        /\ connOffset' = connOffset + final /\ connMax' = connMax /\ connMax - connOffset >= final
        /\ \A q \in Stream \ {s} : last'[q] = last[q]
    BY <1>3 DEF RecvResetUnopened, Shape, TypeOK
  <2>2. connOffset' = connOffset + (last'[s] - last[s]) /\ connOffset' <= connMax'
    BY <1>1, <2>1 DEF TypeOK
  <2>3. Credit(final - 0, Bytes(s, 0, final))
    BY <1>1, <1>3 DEF RecvResetUnopened
  <2>4. \A k \in 0 .. final - 1 : <<s, k>> \notin credited
    BY <1>1, <1>2, <2>1, RxFlowAssumption DEF CreditOf, Byte, Offset
  <2>5. CreditOf(s)'
    <3>1. \A k \in Byte : <<s, k>> \in credited' <=> <<s, k>> \in credited \/ k < final
      BY <1>1, <2>3 DEF Credit, Bytes, Byte
    <3> QED
      BY <1>1, <1>2, <2>1, <3>1 DEF CreditOf, Byte, Rx
  <2>6. \A q \in Stream \ {s} :
          /\ last'[q] = last[q] /\ consumed'[q] = consumed[q] /\ got'[q] = got[q]
          /\ q \in stopped' \cup rst' <=> q \in stopped \cup rst
    BY <2>1
  <2> QED
    BY <1>1, <2>1, <2>2, <2>3, <2>4, <2>5, <2>6, RunCounts
<1>4. CASE RecvReset(s, final, stop)
  <2> DEFINE a == IF s \in rst \cup stopped THEN last[s] ELSE Rx(s)
  <2>1. /\ got' = got /\ consumed' = consumed /\ stopped' \subseteq stopped \cup {s}
        /\ stopped \subseteq stopped'
        /\ rst' = rst \cup {s} /\ last'[s] = final /\ connWindow' = connWindow
        /\ connOffset' = connOffset + (final - last[s]) /\ connMax' = connMax
        /\ connMax - connOffset >= final - last[s] /\ final >= last[s]
        /\ \A q \in Stream \ {s} : last'[q] = last[q]
    BY <1>4 DEF RecvReset, TypeOK, HonestReset
  <2>2. connOffset' = connOffset + (last'[s] - last[s]) /\ connOffset' <= connMax'
    BY <1>1, <2>1 DEF TypeOK
  <2>3. Credit(ResetCredit(s) + (final - last[s]), Bytes(s, a, final))
    BY <1>4, Zenon DEF RecvReset
  <2>4. a \in Nat /\ a <= final /\ ResetCredit(s) + (final - last[s]) = final - a
    BY <1>1, <2>1 DEF ResetCredit
  <2>5. \A k \in a .. final - 1 : <<s, k>> \notin credited
    <3>1. CASE s \in rst \cup stopped
      BY <1>1, <1>2, <2>1, <3>1, RxFlowAssumption DEF CreditOf, Byte, Offset
    <3>2. CASE s \notin rst \cup stopped
      BY <1>1, <1>2, <2>1, <3>2, RxFlowAssumption DEF CreditOf, Byte, Offset
    <3> QED
      BY <3>1, <3>2
  <2>6. CreditOf(s)'
    <3>1. \A k \in Byte : <<s, k>> \in credited' <=>
                            <<s, k>> \in credited \/ (a <= k /\ k < final)
      <4>1. credited' = credited \cup Bytes(s, a, final)
        BY <2>3 DEF Credit
      <4> HIDE DEF a
      <4> QED
        BY <1>1, <2>4, <4>1 DEF Bytes, Byte
    <3>2. CASE s \in rst \cup stopped
      BY <1>1, <1>2, <2>1, <3>1, <3>2 DEF CreditOf, Byte, Rx
    <3>3. CASE s \notin rst \cup stopped
      BY <1>1, <1>2, <2>1, <3>1, <3>3 DEF CreditOf, Byte, Rx
    <3> QED
      BY <3>2, <3>3
  <2>7. \A q \in Stream \ {s} :
          /\ last'[q] = last[q] /\ consumed'[q] = consumed[q] /\ got'[q] = got[q]
          /\ q \in stopped' \cup rst' <=> q \in stopped \cup rst
    BY <2>1
  <2>8. Credit(final - a, Bytes(s, a, final)) /\ last[s] <= last'[s]
    BY <2>1, <2>3, <2>4, <1>1
  <2> HIDE DEF a
  <2> QED
    BY <2>1, <2>2, <2>4, <2>5, <2>6, <2>7, <2>8, RunCounts
<1> QED
  BY <1>3, <1>4

\* What the application gives back, by reading or by stopping a stream.
LEMMA AppCounts ==
  ASSUME TypeOK, Shape, Counts, TypeOK', NEW s \in Stream, App(s)
  PROVE  Counts'
<1>1. /\ got[s] \in SUBSET Byte /\ last[s] \in Nat /\ Rx(s) \in Nat /\ Rx(s) <= last[s]
      /\ consumed[s] \in Nat /\ passed[s] \in Nat /\ connOffset \in Nat /\ connMax \in Nat
      /\ consumed[s] <= passed[s] /\ passed[s] <= Rx(s) /\ last[s] \in Offset
  BY RxIs, RxFlowAssumption DEF TypeOK, Shape, Offset
<1>2. CreditOf(s)
  BY CreditByStream DEF Counts
<1>3. CASE OpenStream(s)
  BY <1>3, SameCounts DEF OpenStream, flags, data
<1>4. CASE FinishWrite(s)
  BY <1>4, SameCounts DEF FinishWrite, data
<1>5. CASE StopStream(s)
  <2>1. /\ got' = got /\ consumed' = consumed /\ stopped' = stopped \cup {s} /\ rst' = rst
        /\ last' = last /\ connWindow' = connWindow /\ connOffset' = connOffset
        /\ connMax' = connMax /\ s \notin stopped
    BY <1>5 DEF StopStream, MayStop, data
  <2>2. /\ connOffset' = connOffset + (last'[s] - last[s]) /\ connOffset' <= connMax'
        /\ last[s] <= last'[s]
    BY <1>1, <2>1 DEF Counts
  <2>3. \A q \in Stream \ {s} :
          /\ last'[q] = last[q] /\ consumed'[q] = consumed[q] /\ got'[q] = got[q]
          /\ q \in stopped' \cup rst' <=> q \in stopped \cup rst
    BY <2>1
  <2>4. CASE s \in rst
    <3>1. NoCredit
      BY <1>5, <2>4 DEF StopStream
    <3>2. CreditOf(s)'
      BY <1>2, <2>1, <2>4, <3>1 DEF CreditOf, Rx, NoCredit
    <3> QED
      BY <2>1, <2>2, <2>3, <3>1, <3>2, NoRunCounts
  <2>5. CASE s \notin rst
    <3>1. Credit(last[s] - Rx(s), Bytes(s, Rx(s), last[s]))
      BY <1>5, <2>5 DEF StopStream
    <3>2. \A k \in Rx(s) .. last[s] - 1 : <<s, k>> \notin credited
      BY <1>1, <1>2, <2>1, <2>5, RxFlowAssumption DEF CreditOf, Byte, Offset
    <3>3. CreditOf(s)'
      <4>1. \A k \in Byte : <<s, k>> \in credited' <=>
                              <<s, k>> \in credited \/ (Rx(s) <= k /\ k < last[s])
        BY <1>1, <3>1 DEF Credit, Bytes, Byte
      <4>2. Rx(s)' = Rx(s)
        BY <2>1 DEF Rx
      <4> QED
        BY <1>1, <1>2, <2>1, <2>5, <4>1, <4>2 DEF CreditOf, Byte
    <3> QED
      BY <1>1, <2>1, <2>2, <2>3, <3>1, <3>2, <3>3, RunCounts
  <2> QED
    BY <2>4, <2>5
<1>6. CASE \E n \in 1 .. MaxOff : Consume(s, n)
  <2>1. PICK n \in 1 .. MaxOff : Consume(s, n)
    BY <1>6
  <2> DEFINE c == consumed[s] + n
  <2>2. /\ got' = got /\ consumed'[s] = c /\ stopped' = stopped /\ rst' = rst
        /\ last' = last /\ connWindow' = connWindow /\ connOffset' = connOffset
        /\ connMax' = connMax /\ c <= passed[s] /\ Credit(n, Bytes(s, consumed[s], c))
        /\ \A q \in Stream \ {s} : consumed'[q] = consumed[q]
    BY <2>1 DEF Consume, TypeOK, data, flags
  <2>3. c \in Offset /\ c \in Nat /\ n = c - consumed[s] /\ consumed[s] <= c /\ c <= Rx(s)
    BY <1>1, <2>2, RxFlowAssumption DEF Offset
  <2>4. /\ connOffset' = connOffset + (last'[s] - last[s]) /\ connOffset' <= connMax'
        /\ last[s] <= last'[s]
    BY <1>1, <2>2 DEF Counts
  <2> HIDE DEF c
  <2>5. \A k \in consumed[s] .. c - 1 : <<s, k>> \notin credited
    BY <1>1, <1>2, <2>3, RxFlowAssumption DEF CreditOf, Byte, Offset
  <2>6. CreditOf(s)'
    <3>1. \A k \in Byte : <<s, k>> \in credited' <=>
                            <<s, k>> \in credited \/ (consumed[s] <= k /\ k < c)
      BY <1>1, <2>2, <2>3 DEF Credit, Bytes, Byte
    <3>2. Rx(s)' = Rx(s)
      BY <2>2 DEF Rx
    <3> QED
      BY <1>1, <1>2, <2>2, <2>3, <3>1, <3>2 DEF CreditOf, Byte
  <2>7. \A q \in Stream \ {s} :
          /\ last'[q] = last[q] /\ consumed'[q] = consumed[q] /\ got'[q] = got[q]
          /\ q \in stopped' \cup rst' <=> q \in stopped \cup rst
    BY <2>2
  <2>8. Credit(c - consumed[s], Bytes(s, consumed[s], c))
    BY <2>2, <2>3
  <2> QED
    BY <1>1, <2>2, <2>3, <2>4, <2>5, <2>6, <2>7, <2>8, RunCounts
<1> QED
  BY <1>3, <1>4, <1>5, <1>6 DEF App

\* A new limit of the connection is the old one and what was given back, plus
\* what its window grows by.
LEMMA WriteCounts ==
  ASSUME TypeOK, Counts,
         \/ \E s \in Stream : WriteStreamLimit(s)
         \/ \E grow \in BOOLEAN : WriteMaxData(grow)
  PROVE  Counts'
<1>1. ASSUME NEW s \in Stream, WriteStreamLimit(s)
      PROVE  Counts'
  <2>1. UNCHANGED <<conn, last, consumed, got, stopped, rst>>
    BY <1>1 DEF WriteStreamLimit, WriteMaxStreamData, SkipMaxStreamData, WriteLeftover, data, flags
  <2> QED
    BY <2>1, SameCounts
<1>2. ASSUME NEW grow \in BOOLEAN, WriteMaxData(grow)
      PROVE  Counts'
  <2>1. /\ connWindow < 2 * (connUnsent - connMax)
        /\ connUnsent' = connMax' /\ connMax' = connUnsent + (connWindow' - connWindow)
        /\ connOffset' = connOffset /\ credited' = credited /\ last' = last
        /\ consumed' = consumed /\ got' = got /\ stopped' = stopped /\ rst' = rst
    BY <1>2 DEF WriteMaxData, Delta, data, flags
  <2>2. connWindow' \in Nat /\ connWindow <= connWindow'
    BY <1>2, GrownIs, RxFlowAssumption DEF WriteMaxData, TypeOK
  <2>3. Revealed' = Revealed
    BY <2>1 DEF Revealed
  <2>4. CreditComplete' /\ OffsetExact'
    BY <2>1, <2>3 DEF Counts, CreditComplete, OffsetExact, Rx
  <2>5. Cardinality(credited) \in Nat
    BY BytesFinite, FS_Subset, FS_CardinalityType DEF TypeOK
  <2>6. CreditedOnce' /\ (connOffset <= connMax)'
    BY <2>1, <2>2, <2>5 DEF Counts, CreditedOnce, TypeOK
  <2> QED
    BY <2>4, <2>6 DEF Counts
<1> QED
  BY <1>1, <1>2

-----------------------------------------------------------------------------
\* The limits of one stream.
LimitsOf(s) ==
  /\ s \notin closed => last[s] <= smax[s]
  /\ s \notin closed \cup squeezed =>
       told[s] = smax[s] /\ sunsent[s] = swindow[s] + consumed[s]
  /\ s \in open \ (shutRd \cup stopped \cup squeezed) => (ShouldSend(s) => s \in queued)
  /\ s \notin open \cup closed => ~ShouldSend(s)

\* The limits, read one stream at a time.
LEMMA LimitsAre ==
  ASSUME TypeOK', \A s \in Stream : LimitsOf(s)', \A f \in leftover' : f[1] \in squeezed'
  PROVE  Limits'
BY DEF Limits, LimitsOf, TypeOK

\* A stream whose limits stay, and whose bytes keep to them.
LEMMA OtherLimits ==
  ASSUME Limits, NEW r \in Stream,
         r \notin closed => (last'[r] = last[r] \/ last'[r] <= smax[r]),
         consumed'[r] = consumed[r], smax'[r] = smax[r], sunsent'[r] = sunsent[r],
         swindow'[r] = swindow[r], told'[r] = told[r],
         r \in squeezed => r \in squeezed', r \in closed => r \in closed',
         r \in shutRd => r \in shutRd', r \in stopped => r \in stopped',
         r \in open \cup closed => r \in open' \cup closed',
         r \in open' => r \notin closed,
         r \in open' /\ r \in queued => r \in queued'
  PROVE  LimitsOf(r)'
BY DEF Limits, LimitsOf, ShouldSend

\* A frame that is accepted keeps to the limits.
LEMMA StreamKeepsLimits ==
  ASSUME TypeOK, Limits, TypeOK', NEW s \in Stream, NEW off \in Offset, NEW end \in Offset,
         NEW fin \in BOOLEAN, NEW stop \in BOOLEAN, NEW b \in Offset,
         \/ DropStream(s, off, end, fin)
         \/ BufferStream(s, off, end, fin)
         \/ DeliverStream(s, off, end, fin, stop, b)
  PROVE  Limits'
<1>1. Accept(s, off, end, fin)
  BY Zenon DEF DropStream, BufferStream, DeliverStream
<1>2. /\ s \notin closed /\ last' \in [Stream -> Offset]
      /\ \A r \in Stream \ {s} : last'[r] = last[r]
  BY <1>1, AcceptTypes
<1>3. /\ open' \cup closed' = open \cup closed \cup {s} /\ open' \cap closed' = {}
      /\ closed \subseteq closed' /\ queued' = queued \ (closed' \ closed)
  <2>1. CASE CloseIfShut(s)
    BY <2>1, <1>2, CloseIfShutMoves
  <2>2. CASE open' = open \cup {s} /\ UNCHANGED <<closed, queued>>
    BY <2>2, <1>2 DEF TypeOK
  <2> QED
    BY <2>1, <2>2, Zenon DEF DropStream, BufferStream, DeliverStream
<1>4. /\ consumed' = consumed /\ smax' = smax /\ sunsent' = sunsent /\ swindow' = swindow
      /\ told' = told /\ squeezed' = squeezed /\ leftover' = leftover
      /\ shutRd \subseteq shutRd' /\ stopped \subseteq stopped'
  <2>1. stopped \subseteq stopped'
    BY DEF DropStream, BufferStream, DeliverStream
  <2> QED
    BY <1>1, <2>1 DEF Accept, limits
<1>5. last'[s] = last[s] \/ last'[s] <= smax[s]
  <2>1. last'[s] = IF last[s] < end THEN end ELSE last[s]
    BY <1>1 DEF Accept, TypeOK
  <2>2. ~(smax[s] < end) /\ smax[s] \in Nat /\ end \in Nat
    BY <1>1, RxFlowAssumption DEF Accept, Offends, TypeOK, Offset
  <2> QED
    BY <2>1, <2>2
<1>6. ASSUME NEW r \in Stream
      PROVE  LimitsOf(r)'
  BY <1>2, <1>3, <1>4, <1>5, OtherLimits
<1> QED
  BY <1>4, <1>6, LimitsAre DEF Limits

\* So does every other step, and one that announces a limit takes it from what
\* the application gave back.
LEMMA OthersKeepLimits ==
  ASSUME TypeOK, Shape, Limits, TypeOK',
         \/ \E s \in Stream, final \in Offset :
              \/ RecvResetUnopened(s, final)
              \/ \E stop \in BOOLEAN : RecvReset(s, final, stop)
         \/ \E s \in Stream : App(s) \/ WriteStreamLimit(s)
         \/ \E grow \in BOOLEAN : WriteMaxData(grow)
  PROVE  Limits'
<1> SUFFICES /\ \A r \in Stream : LimitsOf(r)'
             /\ \A f \in leftover' : f[1] \in squeezed'
  BY LimitsAre
<1> USE DEF TypeOK
<1>1. ASSUME NEW s \in Stream, NEW final \in Offset, RecvResetUnopened(s, final)
      PROVE  /\ \A r \in Stream : LimitsOf(r)'
             /\ \A f \in leftover' : f[1] \in squeezed'
  <2>1. /\ closed' = closed \cup {s} /\ shutRd' = shutRd \cup {s} /\ open' = open /\ s \notin open
        /\ UNCHANGED <<stopped, queued, consumed, limits>>
        /\ \A r \in Stream \ {s} : last'[r] = last[r]
    BY <1>1 DEF RecvResetUnopened
  <2>2. ASSUME NEW r \in Stream
        PROVE  LimitsOf(r)'
    <3>1. CASE r = s
      BY <2>1, <3>1 DEF LimitsOf
    <3>2. CASE r # s
      BY <2>1, <3>2, OtherLimits DEF limits
    <3> QED
      BY <3>1, <3>2
  <2> QED
    BY <2>1, <2>2 DEF Limits, limits
<1>2. ASSUME NEW s \in Stream, NEW final \in Offset, NEW stop \in BOOLEAN,
             RecvReset(s, final, stop)
      PROVE  /\ \A r \in Stream : LimitsOf(r)'
             /\ \A f \in leftover' : f[1] \in squeezed'
  <2>1. /\ open' \cup closed' = open \cup closed \cup {s} /\ open' \cap closed' = {}
        /\ closed \subseteq closed' /\ queued' = queued \ (closed' \ closed)
    BY <1>2, CloseIfShutMoves DEF RecvReset
  <2>2. /\ UNCHANGED <<consumed, limits>> /\ shutRd \subseteq shutRd' /\ stopped \subseteq stopped'
        /\ last' = [last EXCEPT ![s] = final] /\ smax[s] >= final
    BY <1>2 DEF RecvReset
  <2>3. last'[s] <= smax[s] /\ \A r \in Stream \ {s} : last'[r] = last[r]
    BY <2>2, RxFlowAssumption DEF Offset
  <2>4. ASSUME NEW r \in Stream
        PROVE  LimitsOf(r)'
    BY <2>1, <2>2, <2>3, OtherLimits DEF limits
  <2> QED
    BY <2>2, <2>4 DEF Limits, limits
<1>3. ASSUME NEW s \in Stream, OpenStream(s)
      PROVE  /\ \A r \in Stream : LimitsOf(r)'
             /\ \A f \in leftover' : f[1] \in squeezed'
  BY <1>3, OtherLimits DEF OpenStream, flags, data, limits, Limits
<1>4. ASSUME NEW s \in Stream, FinishWrite(s)
      PROVE  /\ \A r \in Stream : LimitsOf(r)'
             /\ \A f \in leftover' : f[1] \in squeezed'
  <2>1. /\ open' \cup closed' = open \cup closed \cup {s} /\ open' \cap closed' = {}
        /\ closed \subseteq closed' /\ queued' = queued \ (closed' \ closed)
    BY <1>4, CloseIfShutMoves DEF FinishWrite
  <2> QED
    BY <1>4, <2>1, OtherLimits DEF FinishWrite, data, limits, Limits
<1>5. ASSUME NEW s \in Stream, StopStream(s)
      PROVE  /\ \A r \in Stream : LimitsOf(r)'
             /\ \A f \in leftover' : f[1] \in squeezed'
  BY <1>5, OtherLimits DEF StopStream, data, limits, Limits
<1>6. ASSUME NEW s \in Stream, NEW n \in 1 .. MaxOff, Consume(s, n)
      PROVE  /\ \A r \in Stream : LimitsOf(r)'
             /\ \A f \in leftover' : f[1] \in squeezed'
  <2>1. /\ UNCHANGED <<open, closed, shutRd, stopped, last, smax, swindow, told, squeezed, leftover>>
        /\ \A r \in Stream \ {s} : consumed'[r] = consumed[r]
        /\ consumed'[s] = consumed[s] + n /\ consumed[s] + n <= passed[s]
    BY <1>6 DEF Consume, flags, data
  <2>2. queued \subseteq queued' /\ \A r \in Stream \ {s} : sunsent'[r] = sunsent[r]
    BY <1>6 DEF Consume
  <2>3. ASSUME NEW r \in Stream, r # s
        PROVE  LimitsOf(r)'
    BY <2>1, <2>2, <2>3, OtherLimits
  <2>4. s \in open \cup closed
    <3>1. Rx(s) \in Offset /\ Rx(s) <= last[s] /\ passed[s] <= Rx(s) /\ consumed[s] \in Nat
          /\ passed[s] \in Nat /\ last[s] \in Nat
      BY RxIs, RxFlowAssumption DEF Shape, Offset
    <3> QED
      BY <2>1, <3>1, RxFlowAssumption DEF Shape, Offset
  <2>5. LimitsOf(s)'
    <3>1. CASE s \in open
      <4>1. sunsent'[s] = sunsent[s] + n /\ (ExtendPushes(s, n) => s \in queued')
        BY <1>6, <3>1 DEF Consume
      <4>2. /\ last[s] <= smax[s]
            /\ s \notin squeezed => told[s] = smax[s] /\ sunsent[s] = swindow[s] + consumed[s]
            /\ swindow[s] \in Nat /\ consumed[s] \in Nat /\ sunsent[s] \in Nat
        BY <3>1, RxFlowAssumption DEF Limits, Offset
      <4>3. s \notin shutRd \cup stopped => (ShouldSend(s)' => s \in queued')
        BY <2>1, <4>1 DEF ShouldSend, ExtendPushes
      <4> QED
        BY <2>1, <3>1, <4>1, <4>2, <4>3 DEF LimitsOf
    <3>2. CASE s \in closed
      BY <2>1, <3>2 DEF LimitsOf
    <3> QED
      BY <2>4, <3>1, <3>2
  <2> QED
    BY <2>1, <2>3, <2>5 DEF Limits
<1>7. ASSUME NEW s \in Stream, NEW grow \in BOOLEAN, NEW fits \in BOOLEAN,
             WriteMaxStreamData(s, grow, fits)
      PROVE  /\ \A r \in Stream : LimitsOf(r)'
             /\ \A f \in leftover' : f[1] \in squeezed'
  <2>1. /\ UNCHANGED <<open, closed, shutRd, stopped, last, consumed>>
        /\ squeezed \subseteq squeezed' /\ \A q \in queued : q \in queued' \/ q = s
        /\ \A r \in Stream \ {s} : /\ smax'[r] = smax[r] /\ sunsent'[r] = sunsent[r]
                                   /\ told'[r] = told[r] /\ swindow'[r] = swindow[r]
        /\ s \in open /\ s \in queued /\ ShouldSend(s)
    BY <1>7 DEF WriteMaxStreamData, flags, data
  <2>2. ASSUME NEW r \in Stream, r # s
        PROVE  LimitsOf(r)'
    BY <2>1, <2>2, OtherLimits
  <2>3. CASE fits
    <3> DEFINE w == IF grow THEN Grown(swindow[s], MaxStreamWindow) ELSE swindow[s]
               limit == sunsent[s] + (w - swindow[s])
    <3>1. w \in Nat /\ swindow[s] <= w
      <4>1. swindow[s] \in Nat /\ MaxStreamWindow \in Nat
        BY RxFlowAssumption
      <4>2. CASE grow
        BY <1>7, <4>1, <4>2, GrownIs DEF WriteMaxStreamData
      <4> QED
        BY <4>1, <4>2
    <3>2. /\ swindow'[s] = w /\ smax'[s] = limit /\ sunsent'[s] = limit
          /\ told'[s] = (IF told[s] < limit THEN limit ELSE told[s])
          /\ leftover' = leftover /\ squeezed' = squeezed
      BY <1>7, <2>3 DEF WriteMaxStreamData
    <3> HIDE DEF w
    <3>3. smax[s] <= limit /\ limit \in Nat
      BY <2>1, <3>1 DEF ShouldSend
    <3>4. LimitsOf(s)'
      <4>1. /\ last[s] <= smax[s] /\ last[s] \in Nat /\ smax[s] \in Nat /\ consumed[s] \in Nat
            /\ sunsent[s] \in Nat /\ swindow[s] \in Nat
            /\ s \notin squeezed => told[s] = smax[s] /\ sunsent[s] = swindow[s] + consumed[s]
        BY <2>1, RxFlowAssumption DEF Limits, Offset
      <4>2. ~ShouldSend(s)'
        BY <3>1, <3>2, <3>3 DEF ShouldSend
      <4>3. s \notin squeezed => told'[s] = limit /\ limit = w + consumed[s]
        BY <3>1, <3>2, <3>3, <4>1
      <4>4. last[s] <= limit
        BY <3>3, <4>1
      <4> HIDE DEF limit
      <4> QED
        BY <2>1, <3>2, <4>2, <4>3, <4>4 DEF LimitsOf
    <3> QED
      BY <2>2, <3>2, <3>4 DEF Limits
  <2>4. CASE ~fits
    <3>1. /\ smax' = smax /\ sunsent' = sunsent /\ told' = told /\ s \in squeezed'
          /\ \A f \in leftover' : f[1] = s
      BY <1>7, <2>4 DEF WriteMaxStreamData
    <3>2. LimitsOf(s)'
      BY <2>1, <3>1 DEF LimitsOf, Limits
    <3> QED
      BY <2>2, <3>1, <3>2
  <2> QED
    BY <2>3, <2>4
<1>8. ASSUME NEW s \in Stream, SkipMaxStreamData(s)
      PROVE  /\ \A r \in Stream : LimitsOf(r)'
             /\ \A f \in leftover' : f[1] \in squeezed'
  <2>1. /\ UNCHANGED <<open, closed, flags, data, consumed, limits>> /\ queued' = queued \ {s}
        /\ s \in shutRd \/ ~ShouldSend(s)
    BY <1>8 DEF SkipMaxStreamData
  <2>2. ASSUME NEW r \in Stream
        PROVE  LimitsOf(r)'
    <3>1. LimitsOf(r)
      BY DEF LimitsOf, Limits
    <3> QED
      BY <2>1, <3>1 DEF LimitsOf, ShouldSend, flags, data, limits
  <2> QED
    BY <2>1, <2>2 DEF Limits, limits
<1>9. ASSUME NEW s \in Stream, NEW f \in leftover, f[1] = s, WriteLeftover(s, f[2])
      PROVE  /\ \A r \in Stream : LimitsOf(r)'
             /\ \A g \in leftover' : g[1] \in squeezed'
  <2>1. /\ UNCHANGED <<open, closed, flags, data, consumed, smax, sunsent, swindow, squeezed, queued>>
        /\ leftover' \subseteq leftover /\ \A r \in Stream \ {s} : told'[r] = told[r]
    BY <1>9 DEF WriteLeftover
  <2>2. s \in squeezed
    BY <1>9 DEF Limits
  <2>3. ASSUME NEW r \in Stream
        PROVE  LimitsOf(r)'
    <3>1. LimitsOf(r)
      BY DEF LimitsOf, Limits
    <3> QED
      BY <2>1, <2>2, <3>1 DEF LimitsOf, ShouldSend, flags, data
  <2> QED
    BY <2>1, <2>3 DEF Limits
<1>10. ASSUME NEW grow \in BOOLEAN, WriteMaxData(grow)
       PROVE  /\ \A r \in Stream : LimitsOf(r)'
              /\ \A f \in leftover' : f[1] \in squeezed'
  BY <1>10, OtherLimits DEF WriteMaxData, flags, data, limits, Limits
<1> QED
  BY <1>1, <1>2, <1>3, <1>4, <1>5, <1>6, <1>7, <1>8, <1>9, <1>10 DEF App, WriteStreamLimit

-----------------------------------------------------------------------------
\* Closing for one stream.
ClosingOf(s) ==
  s \in open =>
    /\ s \in shutRd \cap wrShut => s \notin rst /\ Rx(s) < last[s]
    /\ s \in Remote => s \in wrShut

\* A stream whose flags and bytes stay does not become one that should be closed.
LEMMA OtherClosing ==
  ASSUME Closing, NEW r \in Stream, last'[r] = last[r], got'[r] = got[r],
         r \in open' => r \in open,
         r \in shutRd' <=> r \in shutRd, r \in rst' <=> r \in rst,
         r \in wrShut' <=> r \in wrShut
  PROVE  ClosingOf(r)'
BY DEF Closing, ClosesWhenDone, ClosingOf, Rx

\* The closing rule, read one stream at a time.
LEMMA ClosingIs ==
  ASSUME TypeOK', \A s \in Stream : ClosingOf(s)'
  PROVE  Closing'
BY DEF Closing, ClosesWhenDone, ClosingOf, TypeOK

\* conn_close_stream_if_shut_rdwr leaves only streams open that wait for bytes.
LEMMA ClosedIfShut ==
  ASSUME TypeOK, TypeOK', Shape', NEW s \in Stream, s \notin closed, CloseIfShut(s),
         s \in Remote => s \in wrShut'
  PROVE  ClosingOf(s)'
<1>1. s \in open' => ~(s \in shutRd' \cap wrShut' /\ ReadDone(s))
  BY CloseIfShutMoves
<1>2. FirstGap(got'[s]) <= last'[s] /\ FirstGap(got'[s]) \in Nat /\ last'[s] \in Nat
  <2>1. got'[s] \in SUBSET Byte /\ last'[s] \in Offset /\ \A k \in got'[s] : k < last'[s]
    BY DEF TypeOK, Shape
  <2> QED
    BY <2>1, FirstGapIs, FirstGapBounds, RxFlowAssumption DEF Offset
<1> QED
  BY <1>1, <1>2 DEF ClosingOf, ReadDone, Rx

\* A STREAM frame that completes a stream whose write side is shut closes it.
LEMMA StreamCloses ==
  ASSUME TypeOK, Shape, Closing, TypeOK', Shape', NEW s \in Stream,
         NEW off \in Offset, NEW end \in Offset,
         NEW fin \in BOOLEAN, NEW stop \in BOOLEAN, NEW b \in Offset,
         \/ DropStream(s, off, end, fin)
         \/ BufferStream(s, off, end, fin)
         \/ DeliverStream(s, off, end, fin, stop, b)
  PROVE  Closing'
<1>1. Accept(s, off, end, fin)
  BY Zenon DEF DropStream, BufferStream, DeliverStream
<1>2. /\ s \notin closed /\ \A r \in Stream \ {s} : last'[r] = last[r]
  BY <1>1, AcceptTypes
<1>3. /\ rst' = rst /\ shutRd' = (IF fin THEN shutRd \cup {s} ELSE shutRd)
      /\ wrShut' = wrShut \cup ({s} \cap Remote)
  BY <1>1 DEF Accept
<1>4. open' \subseteq open \cup {s}
  <2>1. CASE CloseIfShut(s)
    BY <2>1, <1>2, CloseIfShutMoves
  <2>2. CASE open' = open \cup {s} /\ UNCHANGED <<closed, queued>>
    BY <2>2
  <2> QED
    BY <2>1, <2>2, Zenon DEF DropStream, BufferStream, DeliverStream
<1>5. ASSUME NEW r \in Stream, r # s
      PROVE  ClosingOf(r)'
  <2>1. got'[r] = got[r]
    BY <1>5 DEF DropStream, BufferStream, DeliverStream, TypeOK
  <2> QED
    BY <1>2, <1>3, <1>4, <1>5, <2>1, OtherClosing
<1>6. CASE CloseIfShut(s)
  <2>1. ClosingOf(s)'
    BY <1>2, <1>3, <1>6, ClosedIfShut
  <2> QED
    BY <1>5, <2>1, ClosingIs
<1>7. CASE DropStream(s, off, end, fin) /\ ~(s \in stopped /\ fin /\ s \notin shutRd)
  <2>1. got' = got /\ Dropped(s, end, fin) /\ rst \subseteq shutRd
    BY <1>7 DEF DropStream, TypeOK
  <2>2. fin => s \in shutRd
    BY <1>7, <2>1 DEF Dropped
  <2>3. CASE s \in shutRd
    <3>1. s \in open
      BY <1>1, <1>2, <2>3 DEF Shape
    <3>2. last'[s] = last[s]
      BY <1>1, <2>3 DEF Accept, Offends, TypeOK
    <3>3. s \in wrShut' <=> s \in wrShut
      BY <1>3, <3>1 DEF Closing
    <3>4. ClosingOf(s)'
      BY <1>3, <2>1, <2>3, <3>1, <3>2, <3>3, OtherClosing
    <3> QED
      BY <1>5, <3>4, ClosingIs
  <2>4. CASE s \notin shutRd
    <3>1. s \notin shutRd'
      BY <1>3, <2>2, <2>4
    <3>2. ClosingOf(s)'
      BY <1>3, <3>1 DEF ClosingOf
    <3> QED
      BY <1>5, <3>2, ClosingIs
  <2> QED
    BY <2>3, <2>4
<1> QED
  BY <1>6, <1>7, Zenon DEF DropStream, BufferStream, DeliverStream

\* So does every other step that shuts a side.
LEMMA OthersClose ==
  ASSUME TypeOK, Shape, Closing, TypeOK', Shape',
         \/ \E s \in Stream, final \in Offset :
              \/ RecvResetUnopened(s, final)
              \/ \E stop \in BOOLEAN : RecvReset(s, final, stop)
         \/ \E s \in Stream : App(s) \/ WriteStreamLimit(s)
         \/ \E grow \in BOOLEAN : WriteMaxData(grow)
  PROVE  Closing'
<1> SUFFICES ASSUME NEW r \in Stream
             PROVE  ClosingOf(r)'
  BY ClosingIs
<1>1. ASSUME NEW s \in Stream, NEW final \in Offset, RecvResetUnopened(s, final)
      PROVE  ClosingOf(r)'
  <2>1. /\ s \notin open /\ open' = open /\ wrShut' = wrShut /\ got' = got
        /\ last' = [last EXCEPT ![s] = final] /\ shutRd' = shutRd \cup {s} /\ rst' = rst \cup {s}
    BY <1>1 DEF RecvResetUnopened
  <2>2. CASE r = s
    BY <2>1, <2>2 DEF ClosingOf
  <2>3. CASE r # s
    <3>1. last'[r] = last[r]
      BY <2>1, <2>3 DEF TypeOK
    <3> QED
      BY <2>1, <2>3, <3>1, OtherClosing
  <2> QED
    BY <2>2, <2>3
<1>2. ASSUME NEW s \in Stream, NEW final \in Offset, NEW stop \in BOOLEAN,
             RecvReset(s, final, stop)
      PROVE  ClosingOf(r)'
  <2>1. /\ s \in open /\ s \notin closed /\ wrShut' = wrShut /\ got' = got
        /\ last' = [last EXCEPT ![s] = final] /\ shutRd' = shutRd \cup {s}
        /\ rst' = rst \cup {s} /\ CloseIfShut(s)
    BY <1>2 DEF RecvReset, TypeOK
  <2>2. CASE r = s
    <3>1. s \in Remote => s \in wrShut'
      BY <2>1 DEF Closing
    <3> QED
      BY <2>1, <2>2, <3>1, ClosedIfShut
  <2>3. CASE r # s
    <3>1. last'[r] = last[r] /\ open' \subseteq open \cup {s}
      BY <2>1, <2>3, CloseIfShutMoves DEF TypeOK
    <3> QED
      BY <2>1, <2>3, <3>1, OtherClosing
  <2> QED
    BY <2>2, <2>3
<1>3. ASSUME NEW s \in Stream, OpenStream(s)
      PROVE  ClosingOf(r)'
  <2>1. s \in Local /\ s \notin Remote /\ open' = open \cup {s} /\ UNCHANGED <<flags, data>>
        /\ s \notin shutRd
    BY <1>3, RxFlowAssumption DEF OpenStream, Shape
  <2> QED
    BY <2>1, OtherClosing DEF flags, data, ClosingOf
<1>4. ASSUME NEW s \in Stream, FinishWrite(s)
      PROVE  ClosingOf(r)'
  <2>1. /\ s \notin closed /\ wrShut' = wrShut \cup {s} /\ CloseIfShut(s)
        /\ UNCHANGED <<shutRd, rst, data>>
    BY <1>4 DEF FinishWrite, TypeOK
  <2>2. open' \subseteq open \cup {s}
    BY <2>1, CloseIfShutMoves
  <2>3. CASE r = s
    BY <2>1, <2>3, ClosedIfShut
  <2>4. CASE r # s
    BY <2>1, <2>2, <2>4, OtherClosing DEF data
  <2> QED
    BY <2>3, <2>4
<1>5. ASSUME NEW s \in Stream, StopStream(s)
      PROVE  ClosingOf(r)'
  BY <1>5, OtherClosing DEF StopStream, data
<1>6. ASSUME NEW s \in Stream, NEW n \in 1 .. MaxOff, Consume(s, n)
      PROVE  ClosingOf(r)'
  BY <1>6, OtherClosing DEF Consume, data, flags
<1>7. ASSUME NEW s \in Stream, WriteStreamLimit(s)
      PROVE  ClosingOf(r)'
  <2>1. UNCHANGED <<open, flags, data>>
    BY <1>7 DEF WriteStreamLimit, WriteMaxStreamData, SkipMaxStreamData, WriteLeftover
  <2> QED
    BY <2>1, OtherClosing DEF data, flags
<1>8. ASSUME NEW grow \in BOOLEAN, WriteMaxData(grow)
      PROVE  ClosingOf(r)'
  BY <1>8, OtherClosing DEF WriteMaxData, data, flags
<1> QED
  BY <1>1, <1>2, <1>3, <1>4, <1>5, <1>6, <1>7, <1>8 DEF App

-----------------------------------------------------------------------------
\* The reorder buffer of one stream.
RobOf(s) ==
  s \in open \ (stopped \cup rst) =>
    /\ \A c \in chunks[s] : c + Chunk > Rx(s)
    /\ \A k \in got[s] : k > Rx(s) => ChunkOf(k) \in chunks[s]

\* A stream whose buffer stays keeps it in order, and a new one has none.
LEMMA OtherRob ==
  ASSUME TypeOK, Shape, RobHoldsData, NEW r \in Stream,
         got'[r] = got[r], chunks'[r] = chunks[r],
         r \in open' => r \notin closed,
         r \in stopped => r \in stopped', r \in rst => r \in rst'
  PROVE  RobOf(r)'
<1>1. CASE r \in open
  BY <1>1 DEF RobHoldsData, RobOf, Rx
<1>2. CASE r \notin open \cup closed
  <2>1. last[r] = 0 /\ chunks[r] = {} /\ got[r] \in SUBSET Byte /\ \A k \in got[r] : k < 0
    BY <1>2 DEF Shape, TypeOK
  <2>2. got[r] = {}
    BY <2>1, RxFlowAssumption DEF Byte
  <2> QED
    BY <2>1, <2>2 DEF RobOf
<1>3. CASE r \in closed
  BY <1>3 DEF RobOf
<1> QED
  BY <1>1, <1>2, <1>3

\* A STREAM frame leaves the chunks that its stream needs.
LEMMA StreamKeepsRob ==
  ASSUME TypeOK, Shape, RobHoldsData, TypeOK', NEW s \in Stream,
         NEW off \in Offset, NEW end \in Offset,
         NEW fin \in BOOLEAN, NEW stop \in BOOLEAN, NEW b \in Offset,
         \/ DropStream(s, off, end, fin)
         \/ BufferStream(s, off, end, fin)
         \/ DeliverStream(s, off, end, fin, stop, b)
  PROVE  RobHoldsData'
<1>1. Accept(s, off, end, fin)
  BY Zenon DEF DropStream, BufferStream, DeliverStream
<1>2. s \notin closed /\ rst' = rst /\ stopped \subseteq stopped'
  <2>1. s \notin closed
    BY <1>1, AcceptTypes
  <2>2. rst' = rst
    BY <1>1 DEF Accept
  <2> QED
    BY <2>1, <2>2 DEF DropStream, BufferStream, DeliverStream
<1>3. open' \subseteq open \cup {s}
  <2>1. CASE CloseIfShut(s)
    BY <2>1, <1>2, CloseIfShutMoves
  <2>2. CASE open' = open \cup {s} /\ UNCHANGED <<closed, queued>>
    BY <2>2
  <2> QED
    BY <2>1, <2>2, Zenon DEF DropStream, BufferStream, DeliverStream
<1>4. open \cap closed = {}
  BY DEF TypeOK
<1>5. ASSUME NEW r \in Stream, r # s
      PROVE  RobOf(r)'
  <2>1. got'[r] = got[r] /\ chunks'[r] = chunks[r]
    BY <1>5 DEF DropStream, BufferStream, DeliverStream, TypeOK
  <2> QED
    BY <1>2, <1>3, <1>4, <1>5, <2>1, OtherRob
<1>6. /\ got[s] \in SUBSET Byte /\ Rx(s) \in Nat /\ Rx(s) \notin got[s]
      /\ \A k \in Nat : k < Rx(s) => k \in got[s]
      /\ off \in Nat /\ end \in Nat /\ Byte \subseteq Nat /\ Chunk \in Nat
  BY RxIs, RxFlowAssumption DEF Offset, Byte
<1>7. s \in open \ (stopped \cup rst) =>
        /\ \A c \in chunks[s] : c + Chunk > Rx(s)
        /\ \A k \in got[s] : k > Rx(s) => ChunkOf(k) \in chunks[s]
  BY DEF RobHoldsData
<1>8. s \notin open => got[s] = {} /\ chunks[s] = {}
  <2>1. s \notin open => last[s] = 0 /\ chunks[s] = {} /\ \A k \in got[s] : k < 0
    BY <1>2 DEF Shape
  <2> QED
    BY <2>1, <1>6, RxFlowAssumption DEF Byte
<1>9. RobOf(s)'
  <2>1. CASE DropStream(s, off, end, fin)
    BY <1>2, <1>3, <1>4, <2>1, OtherRob DEF DropStream
  <2>2. CASE BufferStream(s, off, end, fin)
    <3>1. /\ got'[s] = got[s] \cup off .. end - 1 /\ got'[s] \in SUBSET Byte
          /\ chunks'[s] = chunks[s] \cup BufferChunks(s, off, end)
          /\ off > Rx(s) /\ ~Dropped(s, end, fin)
      BY <2>2 DEF BufferStream, TypeOK
    <3>2. FirstGap(got'[s]) = Rx(s)
      <4>1. Rx(s) \notin got'[s] /\ \A k \in Nat : k < Rx(s) => k \in got'[s]
        BY <1>6, <3>1
      <4>2. FirstGap(got'[s]) \in Nat /\ FirstGap(got'[s]) \notin got'[s]
            /\ \A k \in Nat : k < FirstGap(got'[s]) => k \in got'[s]
        BY <3>1, FirstGapIs, RxFlowAssumption DEF Offset
      <4> QED
        BY <1>6, <4>1, <4>2
    <3>3. \A c \in BufferChunks(s, off, end) : c + Chunk > Rx(s)
      <4>1. ASSUME NEW k \in (off .. end - 1) \ got[s]
            PROVE  ChunkOf(k) + Chunk > Rx(s)
        <5>1. k \in Nat /\ k > Rx(s)
          BY <1>6, <3>1
        <5> QED
          BY <1>6, <5>1, ChunkHolds
      <4> QED
        BY <4>1 DEF BufferChunks
    <3>4. \A c \in chunks[s] : c + Chunk > Rx(s)
      BY <1>2, <1>7, <1>8, <3>1 DEF Dropped
    <3>5. ASSUME NEW k \in got'[s], k > Rx(s)
          PROVE  ChunkOf(k) \in chunks'[s]
      <4>1. CASE k \in got[s]
        BY <1>7, <1>8, <3>1, <3>5, <4>1 DEF Dropped
      <4>2. CASE k \notin got[s]
        BY <3>1, <4>2 DEF BufferChunks
      <4> QED
        BY <4>1, <4>2
    <3> QED
      BY <3>1, <3>2, <3>3, <3>4, <3>5 DEF RobOf, Rx
  <2>3. CASE DeliverStream(s, off, end, fin, stop, b) /\ stop
    <3>1. s \in stopped'
      BY <2>3 DEF DeliverStream
    <3> QED
      BY <3>1 DEF RobOf
  <2>4. CASE DeliverStream(s, off, end, fin, stop, b) /\ ~stop
    <3>1. /\ got'[s] = got[s] \cup off .. end - 1 /\ b = FirstGap(got'[s])
          /\ chunks'[s] = {c \in chunks[s] : b < c + Chunk} /\ ~Dropped(s, end, fin)
      BY <2>4 DEF DeliverStream, TypeOK
    <3>2. b \in Nat /\ end <= b /\ Rx(s) <= b
      <4>1. Rx(s) <= FirstGap(got'[s])
        BY <1>1, <3>1, GotIs
      <4> QED
        BY <2>4, <3>1, <4>1, DeliverIs, RxFlowAssumption DEF Offset
    <3>3. ASSUME NEW k \in got'[s], k > b
          PROVE  ChunkOf(k) \in chunks'[s]
      <4> k \in Byte
        BY <3>3 DEF TypeOK
      <4>1. k \in got[s] /\ k \in Nat /\ k > Rx(s)
        <5>1. k \in Nat
          BY <1>6
        <5> QED
          BY <1>6, <3>1, <3>2, <3>3, <5>1
      <4>2. ChunkOf(k) \in chunks[s]
        BY <1>7, <1>8, <3>1, <4>1 DEF Dropped
      <4>3. ChunkOf(k) + Chunk > b
        BY <1>6, <3>2, <3>3, <4>1, ChunkHolds
      <4> QED
        BY <1>6, <3>1, <3>2, <4>1, <4>2, <4>3, ChunkHolds
    <3>4. \A c \in chunks'[s] : c + Chunk > b
      BY <1>6, <3>1, <3>2 DEF TypeOK
    <3> QED
      BY <3>1, <3>3, <3>4 DEF RobOf, Rx
  <2> QED
    BY <2>1, <2>2, <2>3, <2>4
<1> QED
  BY <1>5, <1>9 DEF RobHoldsData, RobOf, TypeOK

\* Every other step leaves chunks and bytes of an open stream alone, or ends
\* it.
LEMMA OthersKeepRob ==
  ASSUME TypeOK, Shape, RobHoldsData, TypeOK',
         \/ \E s \in Stream, final \in Offset :
              \/ RecvResetUnopened(s, final)
              \/ \E stop \in BOOLEAN : RecvReset(s, final, stop)
         \/ \E s \in Stream : App(s) \/ WriteStreamLimit(s)
         \/ \E grow \in BOOLEAN : WriteMaxData(grow)
  PROVE  RobHoldsData'
<1>1. /\ got' = got /\ chunks' = chunks /\ stopped \subseteq stopped' /\ rst \subseteq rst'
  <2>1. ASSUME NEW s \in Stream, NEW final \in Offset, NEW stop \in BOOLEAN,
               RecvResetUnopened(s, final) \/ RecvReset(s, final, stop)
        PROVE  /\ got' = got /\ chunks' = chunks
               /\ stopped \subseteq stopped' /\ rst \subseteq rst'
    BY <2>1 DEF RecvResetUnopened, RecvReset
  <2>2. ASSUME NEW s \in Stream, App(s)
        PROVE  /\ got' = got /\ chunks' = chunks
               /\ stopped \subseteq stopped' /\ rst \subseteq rst'
    BY <2>2 DEF App, OpenStream, FinishWrite, StopStream, Consume, data, flags
  <2>3. ASSUME NEW s \in Stream, WriteStreamLimit(s)
        PROVE  /\ got' = got /\ chunks' = chunks
               /\ stopped \subseteq stopped' /\ rst \subseteq rst'
    BY <2>3 DEF WriteStreamLimit, WriteMaxStreamData, SkipMaxStreamData, WriteLeftover,
                data, flags
  <2>4. ASSUME NEW grow \in BOOLEAN, WriteMaxData(grow)
        PROVE  /\ got' = got /\ chunks' = chunks
               /\ stopped \subseteq stopped' /\ rst \subseteq rst'
    BY <2>4 DEF WriteMaxData, data, flags
  <2> QED
    BY <2>1, <2>2, <2>3, <2>4
<1>2. ASSUME NEW s \in Stream, s \notin closed, CloseIfShut(s)
      PROVE  open' \cap closed = {}
  BY <1>2, CloseIfShutMoves DEF TypeOK
<1>3. open' \cap closed = {}
  <2>1. ASSUME NEW s \in Stream, NEW final \in Offset, NEW stop \in BOOLEAN,
               RecvReset(s, final, stop)
        PROVE  open' \cap closed = {}
    BY <1>2, <2>1 DEF RecvReset, TypeOK
  <2>2. ASSUME NEW s \in Stream, FinishWrite(s)
        PROVE  open' \cap closed = {}
    BY <1>2, <2>2 DEF FinishWrite, TypeOK
  <2>3. CASE open' = open
    BY <2>3 DEF TypeOK
  <2>4. ASSUME NEW s \in Stream, OpenStream(s)
        PROVE  open' \cap closed = {}
    BY <2>4 DEF OpenStream, TypeOK
  <2>5. ASSUME NEW s \in Stream, NEW final \in Offset, RecvResetUnopened(s, final)
        PROVE  open' = open
    BY <2>5 DEF RecvResetUnopened
  <2>6. ASSUME NEW s \in Stream, App(s)
        PROVE  open' \cap closed = {}
    <3>1. StopStream(s) \/ (\E n \in 1 .. MaxOff : Consume(s, n)) => open' = open
      BY DEF StopStream, Consume
    <3> QED
      BY <2>2, <2>3, <2>4, <2>6, <3>1, Zenon DEF App
  <2>7. ASSUME NEW s \in Stream, WriteStreamLimit(s)
        PROVE  open' = open
    BY <2>7 DEF WriteStreamLimit, WriteMaxStreamData, SkipMaxStreamData, WriteLeftover
  <2>8. ASSUME NEW grow \in BOOLEAN, WriteMaxData(grow)
        PROVE  open' = open
    BY <2>8 DEF WriteMaxData
  <2> QED
    BY <2>1, <2>3, <2>5, <2>6, <2>7, <2>8, Zenon
<1>4. \A r \in Stream : RobOf(r)'
  BY <1>1, <1>3, OtherRob
<1> QED
  BY <1>4 DEF RobHoldsData, RobOf, TypeOK

-----------------------------------------------------------------------------
\* Who is accused changes only by an accusation.
LEMMA AccusedStays ==
  ASSUME FalselyAccusedOnlyBy, accused' = accused, closed \subseteq closed',
         squeezed \subseteq squeezed'
  PROVE  FalselyAccusedOnlyBy'
BY DEF FalselyAccusedOnlyBy

\* An honest STREAM frame is refused only when an announcement was lost from
\* sight.
LEMMA RefusedStream ==
  ASSUME TypeOK, Shape, Counts, Limits, NEW s \in Stream, NEW off \in Offset,
         NEW end \in Offset, NEW fin \in BOOLEAN, RefuseStream(s, off, end, fin)
  PROVE  s \in squeezed
<1> SUFFICES ASSUME s \notin squeezed
             PROVE  FALSE
  OBVIOUS
<1>1. Known(s) /\ HonestStream(s, off, end, fin) /\ Offends(s, end, fin)
  BY DEF RefuseStream
<1>2. /\ told[s] = smax[s] /\ last[s] <= smax[s] /\ s \notin closed
  BY <1>1 DEF Limits, Known
<1>3. /\ last[s] \in Nat /\ end \in Nat /\ smax[s] \in Nat /\ connOffset \in Nat /\ connMax \in Nat
      /\ connOffset = Cardinality(Revealed) /\ connOffset <= connMax
  BY RxFlowAssumption DEF TypeOK, Offset, Counts, OffsetExact
<1>4. ~(smax[s] < end) /\ ~(connMax - connOffset < Fresh(s, end))
  BY <1>1, <1>2, <1>3 DEF HonestStream, InLimits, Fresh
<1>5. ~(s \in shutRd /\ (last[s] < end \/ (fin /\ last[s] # end))) /\ ~(fin /\ last[s] > end)
  BY <1>1, <1>3 DEF HonestStream
<1> QED
  BY <1>1, <1>4, <1>5 DEF Offends

\* An honest RESET_STREAM frame is refused only then, or when its stream was
\* closed.
LEMMA RefusedReset ==
  ASSUME TypeOK, Shape, Counts, Limits, NEW s \in Stream, NEW final \in Offset,
         RefuseReset(s, final)
  PROVE  s \in closed \cup squeezed
<1> SUFFICES ASSUME s \notin closed \cup squeezed
             PROVE  FALSE
  OBVIOUS
<1>1. HonestReset(s, final) /\ InLimits(s, final) /\ final >= last[s]
  BY DEF RefuseReset, HonestReset
<1>2. told[s] = smax[s] /\ last[s] <= smax[s]
  BY DEF Limits
<1>3. /\ last[s] \in Nat /\ final \in Nat /\ smax[s] \in Nat /\ connOffset \in Nat /\ connMax \in Nat
      /\ connOffset = Cardinality(Revealed) /\ connOffset <= connMax
  BY RxFlowAssumption DEF TypeOK, Offset, Counts, OffsetExact
<1>4. ~(smax[s] < final) /\ ~(connMax - connOffset < final - last[s])
  BY <1>1, <1>2, <1>3 DEF InLimits
<1>5. CASE s \in open
  BY <1>1, <1>3, <1>4, <1>5 DEF RefuseReset, HonestReset
<1>6. CASE s \notin open
  <2>1. last[s] = 0 /\ smax[s] = StreamWindow
    BY <1>6 DEF Shape
  <2> QED
    BY <1>3, <1>4, <1>6, <2>1 DEF RefuseReset
<1> QED
  BY <1>5, <1>6

-----------------------------------------------------------------------------
\* The invariant holds initially.
LEMMA InitInv == Init => RxInv
<1> SUFFICES ASSUME Init
             PROVE  RxInv
  OBVIOUS
<1> USE RxFlowAssumption
<1>1. 0 \in Offset /\ StreamWindow \in Nat /\ ConnWindow \in Nat
  BY DEF Offset
<1>2. TypeOK
  BY <1>1 DEF Init, TypeOK
<1>3. \A s \in Stream : Rx(s) \in Offset /\ Rx(s) <= 0
  <2> TAKE s \in Stream
  <2>1. got[s] = {}
    BY DEF Init
  <2>2. {} \in SUBSET Byte /\ \A k \in {} : k < 0
    OBVIOUS
  <2>3. FirstGap({}) \in Offset /\ FirstGap({}) <= 0
    BY <1>1, <2>2, FirstGapIs, FirstGapBounds
  <2> QED
    BY <2>1, <2>3 DEF Rx
<1>4. Shape
  BY <1>3 DEF Init, Shape, Offset
<1>5. Revealed = {} /\ Cardinality({}) = 0
  BY FS_EmptySet DEF Init, Revealed, Byte
<1>6. Counts
  <2>1. CreditComplete
    BY <1>5 DEF Init, CreditComplete
  <2> QED
    BY <1>1, <1>5, <2>1 DEF Init, Counts, CreditedOnce, OffsetExact
<1>7. Limits
  BY <1>1 DEF Init, Limits, ShouldSend
<1>8. Closing /\ RobHoldsData /\ FalselyAccusedOnlyBy
  BY DEF Init, Closing, ClosesWhenDone, RobHoldsData, FalselyAccusedOnlyBy
<1> QED
  BY <1>2, <1>4, <1>6, <1>7, <1>8 DEF RxInv

\* It survives a step that changes nothing.
LEMMA StutterInv == RxInv /\ UNCHANGED vars => RxInv'
BY DEF RxInv, vars, flags, data, limits, conn, TypeOK, Shape, Counts, Limits, Closing,
       CreditComplete, CreditedOnce, OffsetExact, Revealed, ShouldSend, ClosesWhenDone,
       RobHoldsData, FalselyAccusedOnlyBy, Rx

\* It survives a frame that is refused: only an accusation is added, for a
\* reason.
LEMMA RefuseInv ==
  ASSUME RxInv, NEW s \in Stream, NEW accuse, accuse = s,
         accused' = {accuse}, s \in closed \cup squeezed,
         UNCHANGED <<open, closed, flags, data, consumed, limits, queued, conn>>
  PROVE  RxInv'
BY DEF RxInv, flags, data, limits, conn, TypeOK, Shape, Counts, Limits, Closing,
       CreditComplete, CreditedOnce, OffsetExact, Revealed, ShouldSend, ClosesWhenDone,
       RobHoldsData, FalselyAccusedOnlyBy, Rx

\* Every step keeps the invariant.
LEMMA StepInv == RxInv /\ [Next]_vars => RxInv'
<1> SUFFICES ASSUME RxInv, [Next]_vars
             PROVE  RxInv'
  OBVIOUS
<1> USE DEF RxInv
<1>1. ASSUME NEW s \in Stream, NEW off \in Offset, NEW end \in Offset, NEW fin \in BOOLEAN,
             RefuseStream(s, off, end, fin)
      PROVE  RxInv'
  BY <1>1, RefusedStream, RefuseInv DEF RefuseStream
<1>2. ASSUME NEW s \in Stream, NEW final \in Offset, RefuseReset(s, final)
      PROVE  RxInv'
  BY <1>2, RefusedReset, RefuseInv DEF RefuseReset
<1>3. ASSUME NEW s \in Stream, NEW off \in Offset, NEW end \in Offset, NEW fin \in BOOLEAN,
             NEW stop \in BOOLEAN, NEW b \in Offset,
             \/ DropStream(s, off, end, fin)
             \/ BufferStream(s, off, end, fin)
             \/ DeliverStream(s, off, end, fin, stop, b)
      PROVE  RxInv'
  <2>1. TypeOK'
    BY <1>3, StreamTypes
  <2>2. Shape'
    BY <1>3, StreamKeepsShape
  <2>3. Counts'
    BY <1>3, <2>1, StreamCounts
  <2>4. Limits'
    BY <1>3, <2>1, StreamKeepsLimits
  <2>5. Closing'
    BY <1>3, <2>1, <2>2, StreamCloses
  <2>6. RobHoldsData'
    BY <1>3, <2>1, StreamKeepsRob
  <2>7. FalselyAccusedOnlyBy'
    <3>1. Accept(s, off, end, fin)
      BY <1>3, Zenon DEF DropStream, BufferStream, DeliverStream
    <3>2. accused' = accused /\ squeezed' = squeezed
      BY <3>1 DEF Accept, limits
    <3>3. closed \subseteq closed'
      BY <1>3 DEF DropStream, BufferStream, DeliverStream, CloseIfShut
    <3> QED
      BY <3>2, <3>3, AccusedStays
  <2> QED
    BY <2>1, <2>2, <2>3, <2>4, <2>5, <2>6, <2>7
<1>4. CASE \/ \E s \in Stream, final \in Offset :
                \/ RecvResetUnopened(s, final)
                \/ \E stop \in BOOLEAN : RecvReset(s, final, stop)
           \/ \E s \in Stream : App(s) \/ WriteStreamLimit(s)
           \/ \E grow \in BOOLEAN : WriteMaxData(grow)
  <2>1. TypeOK'
    BY <1>4, ResetTypes, AppTypes, WriteTypes
  <2>2. Shape'
    BY <1>4, OthersKeepShape
  <2>3. Counts'
    <3>1. ASSUME NEW s \in Stream, NEW final \in Offset, NEW stop \in BOOLEAN,
                 RecvResetUnopened(s, final) \/ RecvReset(s, final, stop)
          PROVE  Counts'
      BY <2>1, <3>1, ResetCounts
    <3>2. ASSUME NEW s \in Stream, App(s)
          PROVE  Counts'
      BY <2>1, <3>2, AppCounts
    <3> QED
      BY <1>4, <3>1, <3>2, WriteCounts
  <2>4. Limits'
    BY <1>4, <2>1, OthersKeepLimits
  <2>5. Closing'
    BY <1>4, <2>1, <2>2, OthersClose
  <2>6. RobHoldsData'
    BY <1>4, <2>1, OthersKeepRob
  <2>7. FalselyAccusedOnlyBy'
    <3>1. accused' = accused
      <4>1. \A s \in Stream, final \in Offset : RecvResetUnopened(s, final) => accused' = accused
        BY DEF RecvResetUnopened
      <4>2. \A s \in Stream, final \in Offset, stop \in BOOLEAN :
              RecvReset(s, final, stop) => accused' = accused
        BY DEF RecvReset
      <4>3. \A s \in Stream : App(s) => accused' = accused
        BY DEF App, OpenStream, FinishWrite, StopStream, Consume
      <4>4. ASSUME NEW s \in Stream, WriteStreamLimit(s)
            PROVE  accused' = accused
        <5>1. \A grow \in BOOLEAN, fits \in BOOLEAN :
                WriteMaxStreamData(s, grow, fits) => accused' = accused
          BY DEF WriteMaxStreamData
        <5>2. SkipMaxStreamData(s) => accused' = accused
          BY DEF SkipMaxStreamData
        <5>3. \A limit : WriteLeftover(s, limit) => accused' = accused
          BY DEF WriteLeftover
        <5> QED
          BY <4>4, <5>1, <5>2, <5>3, Zenon DEF WriteStreamLimit
      <4>5. \A grow \in BOOLEAN : WriteMaxData(grow) => accused' = accused
        BY DEF WriteMaxData
      <4> QED
        BY <1>4, <4>1, <4>2, <4>3, <4>4, <4>5, Zenon
    <3>2. squeezed \subseteq squeezed' /\ closed \subseteq closed'
      <4>1. ASSUME NEW s \in Stream, NEW final \in Offset, RecvResetUnopened(s, final)
            PROVE  squeezed \subseteq squeezed' /\ closed \subseteq closed'
        BY <4>1 DEF RecvResetUnopened, limits
      <4>2. ASSUME NEW s \in Stream, CloseIfShut(s)
            PROVE  closed \subseteq closed'
        BY <4>2 DEF CloseIfShut
      <4>3. ASSUME NEW s \in Stream, NEW final \in Offset, NEW stop \in BOOLEAN,
                   RecvReset(s, final, stop)
            PROVE  squeezed \subseteq squeezed' /\ closed \subseteq closed'
        <5>1. squeezed' = squeezed /\ CloseIfShut(s)
          BY <4>3 DEF RecvReset, limits
        <5> QED
          BY <4>2, <5>1
      <4>4. ASSUME NEW s \in Stream, App(s)
            PROVE  squeezed \subseteq squeezed' /\ closed \subseteq closed'
        <5>1. FinishWrite(s) => squeezed' = squeezed /\ CloseIfShut(s)
          BY DEF FinishWrite, limits
        <5>2. OpenStream(s) \/ StopStream(s) \/ (\E n \in 1 .. MaxOff : Consume(s, n))
                => squeezed' = squeezed /\ closed' = closed
          BY DEF OpenStream, StopStream, Consume, limits
        <5> QED
          BY <4>2, <4>4, <5>1, <5>2, Zenon DEF App
      <4>5. ASSUME NEW s \in Stream, WriteStreamLimit(s)
            PROVE  squeezed \subseteq squeezed' /\ closed \subseteq closed'
        <5>1. ASSUME NEW grow \in BOOLEAN, NEW fits \in BOOLEAN,
                     WriteMaxStreamData(s, grow, fits)
              PROVE  squeezed \subseteq squeezed' /\ closed' = closed
          BY <5>1 DEF WriteMaxStreamData
        <5>2. SkipMaxStreamData(s) \/ (\E f \in leftover : WriteLeftover(s, f[2]))
                => squeezed' = squeezed /\ closed' = closed
          BY DEF SkipMaxStreamData, WriteLeftover, limits
        <5> QED
          BY <4>5, <5>1, <5>2, Zenon DEF WriteStreamLimit
      <4>6. ASSUME NEW grow \in BOOLEAN, WriteMaxData(grow)
            PROVE  squeezed \subseteq squeezed' /\ closed \subseteq closed'
        BY <4>6 DEF WriteMaxData, limits
      <4> QED
        BY <1>4, <4>1, <4>3, <4>4, <4>5, <4>6, Zenon
    <3> QED
      BY <3>1, <3>2, AccusedStays
  <2> QED
    BY <2>1, <2>2, <2>3, <2>4, <2>5, <2>6, <2>7
<1>5. CASE UNCHANGED vars
  BY <1>5, StutterInv
<1> QED
  BY <1>1, <1>2, <1>3, <1>4, <1>5 DEF Next, RecvStream, RecvResetStream

\* The strengthening that all the theorems below use holds in every state.
LEMMA SpecInv == Spec => []RxInv
BY InitInv, StepInv, PTL DEF Spec

\* The streams, offsets and windows of an endpoint keep their types: no
\* counter of conn->rx or of a strm ever falls below zero.
THEOREM TypesHold == Spec => []TypeOK
<1>1. RxInv => TypeOK
  BY DEF RxInv
<1> QED
  BY <1>1, SpecInv, PTL

\* No byte gives its connection credit back twice, whether it is read, stopped,
\* reset, or dropped, with every interleaving of lost and repeated frames.
THEOREM CreditOnce == Spec => []CreditedOnce
<1>1. RxInv => CreditedOnce
  BY DEF RxInv, Counts
<1> QED
  BY <1>1, SpecInv, PTL

\* The credit that is back is that of the bytes read and of those a stopped or
\* reset stream will never deliver, and no other.
THEOREM CreditIsBack == Spec => []CreditComplete
<1>1. RxInv => CreditComplete
  BY DEF RxInv, Counts
<1> QED
  BY <1>1, SpecInv, PTL

\* conn->rx.offset is the number of bytes the peer used.
THEOREM OffsetIsExact == Spec => []OffsetExact
<1>1. RxInv => OffsetExact
  BY DEF RxInv, Counts
<1> QED
  BY <1>1, SpecInv, PTL

\* An honest peer loses its connection to a flow control error only for a late
\* RESET_STREAM or after a MAX_STREAM_DATA frame that did not fit.
THEOREM HonestPeerIsAccusedOnlyBy == Spec => []FalselyAccusedOnlyBy
<1>1. RxInv => FalselyAccusedOnlyBy
  BY DEF RxInv
<1> QED
  BY <1>1, SpecInv, PTL

\* A stream whose peer used up its limit waits only for the application or for
\* the next packet: a new limit is queued when more than half of the window was
\* read.
THEOREM LimitIsQueued == Spec => []StreamNotStuck
<1>1. RxInv => StreamNotStuck
  <2> SUFFICES ASSUME RxInv, NEW s \in open \ (shutRd \cup stopped \cup squeezed),
                      last[s] = smax[s], 2 * (last[s] - consumed[s]) < swindow[s]
               PROVE  s \in queued
    BY DEF StreamNotStuck
  <2>1. s \in Stream /\ s \notin closed
    BY DEF RxInv, TypeOK
  <2>2. /\ sunsent[s] = swindow[s] + consumed[s] /\ (ShouldSend(s) => s \in queued)
    BY <2>1 DEF RxInv, Limits
  <2>3. swindow[s] \in Nat /\ consumed[s] \in Nat /\ smax[s] \in Nat
    BY <2>1, RxFlowAssumption DEF RxInv, TypeOK, Offset
  <2>4. ShouldSend(s)
    BY <2>2, <2>3 DEF ShouldSend
  <2> QED
    BY <2>2, <2>4
<1> QED
  BY <1>1, SpecInv, PTL

\* A stream that both sides finished is closed, unless it waits for bytes.
THEOREM FinishedIsClosed == Spec => []ClosesWhenDone
<1>1. RxInv => ClosesWhenDone
  BY DEF RxInv, Closing
<1> QED
  BY <1>1, SpecInv, PTL

\* The assertions of ngtcp2_rob_data_at never fail.
THEOREM BufferHoldsData == Spec => []RobHoldsData
<1>1. RxInv => RobHoldsData
  BY DEF RxInv
<1> QED
  BY <1>1, SpecInv, PTL

-----------------------------------------------------------------------------
\* What was given back was used before.
Returned ==
  /\ IsFiniteSet(credited) /\ Cardinality(credited) \in Nat
  /\ Cardinality(credited) <= connOffset

\* Credit given back is for bytes that the peer used.
LEMMA ReturnedWasReceived == RxInv => Returned
<1> SUFFICES ASSUME RxInv
             PROVE  Returned
  OBVIOUS
<1>1. credited \subseteq Revealed
  BY DEF RxInv, Counts, CreditComplete
<1>2. IsFiniteSet(Revealed)
  BY BytesFinite, FS_Subset DEF Revealed
<1>3. /\ IsFiniteSet(credited) /\ Cardinality(credited) <= Cardinality(Revealed)
  BY <1>1, <1>2, FS_Subset
<1>4. Cardinality(credited) \in Nat
  BY <1>3, FS_CardinalityType
<1> QED
  BY <1>3, <1>4 DEF RxInv, Counts, OffsetExact, Returned

\* The counters only grow, and only conn_write_pkt moves the limit.
LEMMA CountersGrow ==
  ASSUME RxInv, Next
  PROVE  \/ /\ connOffset <= connOffset' /\ credited \subseteq credited'
            /\ connMax' = connMax /\ connWindow' = connWindow
         \/ \E grow \in BOOLEAN : WriteMaxData(grow)
<1> USE DEF RxInv
<1>1. ASSUME NEW s \in Stream, NEW off \in Offset, NEW end \in Offset, NEW fin \in BOOLEAN,
             NEW stop \in BOOLEAN, NEW b \in Offset,
             \/ DropStream(s, off, end, fin)
             \/ BufferStream(s, off, end, fin)
             \/ DeliverStream(s, off, end, fin, stop, b)
      PROVE  /\ connOffset <= connOffset' /\ credited \subseteq credited'
             /\ connMax' = connMax /\ connWindow' = connWindow
  <2>1. Accept(s, off, end, fin)
    BY <1>1, Zenon DEF DropStream, BufferStream, DeliverStream
  <2>2. Fresh(s, end) \in Nat
    BY <2>1, AcceptTypes
  <2>3. connOffset <= connOffset' /\ connMax' = connMax /\ connWindow' = connWindow
    BY <2>1, <2>2 DEF Accept, TypeOK
  <2>4. credited \subseteq credited'
    BY <1>1 DEF DropStream, BufferStream, DeliverStream, Credit, NoCredit
  <2> QED
    BY <2>3, <2>4
<1>2. ASSUME NEW s \in Stream, NEW final \in Offset, NEW stop \in BOOLEAN,
             RecvResetUnopened(s, final) \/ RecvReset(s, final, stop)
      PROVE  /\ connOffset <= connOffset' /\ credited \subseteq credited'
             /\ connMax' = connMax /\ connWindow' = connWindow
  <2>1. final \in Nat /\ last[s] \in Nat /\ final >= last[s] /\ connOffset \in Nat
    BY <1>2, RxFlowAssumption DEF RecvResetUnopened, RecvReset, HonestReset, TypeOK, Offset
  <2> QED
    BY <1>2, <2>1 DEF RecvResetUnopened, RecvReset, Credit
<1>3. ASSUME NEW s \in Stream, App(s) \/ WriteStreamLimit(s)
      PROVE  /\ connOffset <= connOffset' /\ credited \subseteq credited'
             /\ connMax' = connMax /\ connWindow' = connWindow
  <2>1. connOffset' = connOffset /\ connMax' = connMax /\ connWindow' = connWindow
        /\ credited \subseteq credited'
    BY <1>3 DEF App, OpenStream, FinishWrite, StopStream, Consume, WriteStreamLimit,
                WriteMaxStreamData, SkipMaxStreamData, WriteLeftover, conn, Credit, NoCredit
  <2> QED
    BY <2>1 DEF TypeOK
<1>4. ASSUME NEW s \in Stream, NEW off \in Offset, NEW end \in Offset, NEW fin \in BOOLEAN,
             RefuseStream(s, off, end, fin) \/ RefuseReset(s, end)
      PROVE  /\ connOffset <= connOffset' /\ credited \subseteq credited'
             /\ connMax' = connMax /\ connWindow' = connWindow
  BY <1>4 DEF RefuseStream, RefuseReset, conn, TypeOK
<1> HIDE DEF RxInv
<1> DEFINE Kept == /\ connOffset <= connOffset' /\ credited \subseteq credited'
                   /\ connMax' = connMax /\ connWindow' = connWindow
<1>5. ASSUME NEW s \in Stream, RecvStream(s)
      PROVE  Kept
  <2>1. PICK off \in Offset, end \in Offset, fin \in BOOLEAN :
          \/ RefuseStream(s, off, end, fin)
          \/ DropStream(s, off, end, fin)
          \/ BufferStream(s, off, end, fin)
          \/ \E stop \in BOOLEAN, b \in Offset : DeliverStream(s, off, end, fin, stop, b)
    BY <1>5, Zenon DEF RecvStream
  <2>2. CASE RefuseStream(s, off, end, fin)
    BY <1>4, <2>2
  <2>3. CASE DropStream(s, off, end, fin) \/ BufferStream(s, off, end, fin)
    BY <1>1, <2>3
  <2>4. CASE \E stop \in BOOLEAN, b \in Offset : DeliverStream(s, off, end, fin, stop, b)
    BY <1>1, <2>4
  <2> QED
    BY <2>1, <2>2, <2>3, <2>4
<1>6. ASSUME NEW s \in Stream, RecvResetStream(s)
      PROVE  Kept
  <2>1. PICK final \in Offset :
          \/ RefuseReset(s, final)
          \/ RecvResetUnopened(s, final)
          \/ \E stop \in BOOLEAN : RecvReset(s, final, stop)
    BY <1>6, Zenon DEF RecvResetStream
  <2>2. CASE RefuseReset(s, final)
    BY <1>4, <2>2
  <2>3. CASE RecvResetUnopened(s, final)
    BY <1>2, <2>3
  <2>4. CASE \E stop \in BOOLEAN : RecvReset(s, final, stop)
    BY <1>2, <2>4
  <2> QED
    BY <2>1, <2>2, <2>3, <2>4
<1>7. ASSUME NEW s \in Stream, App(s) \/ WriteStreamLimit(s)
      PROVE  Kept
  BY <1>3, <1>7, Zenon
<1> HIDE DEF Kept
<1>8. Kept \/ \E grow \in BOOLEAN : WriteMaxData(grow)
  BY <1>5, <1>6, <1>7, Zenon DEF Next
<1> QED
  BY <1>8 DEF Kept

\* A step is one of FlowWindow.
LEMMA StepKeepsWindow ==
  ASSUME RxInv, RxInv', Returned, Returned', [Next]_vars
  PROVE  [Promise!Next]_(Promise!vars)
<1>1. /\ IsFiniteSet(credited') /\ Cardinality(credited) \in Nat /\ Cardinality(credited') \in Nat
      /\ Cardinality(credited) <= connOffset /\ Cardinality(credited') <= connOffset'
  BY DEF Returned
<1>2. /\ connOffset \in Nat /\ connOffset' \in Nat /\ connMax \in Nat /\ connMax' \in Nat
      /\ connWindow \in Nat /\ connWindow' \in Nat /\ connUnsent \in Nat
      /\ connOffset' <= connMax' /\ connUnsent = connWindow + Cardinality(credited)
  BY DEF RxInv, TypeOK, Counts, CreditedOnce
<1>3. CASE /\ connOffset <= connOffset' /\ credited \subseteq credited'
           /\ connMax' = connMax /\ connWindow' = connWindow
  <2>1. Cardinality(credited) <= Cardinality(credited')
    BY <1>1, <1>3, FS_Subset
  <2>2. connOffset' \in connOffset .. connMax
    BY <1>2, <1>3
  <2>3. Cardinality(credited') \in Cardinality(credited) .. connOffset'
    BY <1>1, <1>2, <2>1
  <2> QED
    BY <1>3, <2>2, <2>3 DEF Promise!Next, Promise!Use
<1>4. ASSUME NEW grow \in BOOLEAN, WriteMaxData(grow)
      PROVE  Promise!Next
  <2>1. connWindow <= connWindow'
    BY <1>2, <1>4, GrownIs, RxFlowAssumption DEF WriteMaxData
  <2>2. /\ connMax' = connUnsent + (connWindow' - connWindow)
        /\ connOffset' = connOffset /\ credited' = credited
    BY <1>4 DEF WriteMaxData, Delta
  <2>3. connMax' = Cardinality(credited) + connWindow'
    BY <1>1, <1>2, <2>2
  <2> QED
    BY <1>2, <2>1, <2>2, <2>3 DEF Promise!Next, Promise!Announce
<1>5. CASE UNCHANGED vars
  BY <1>5 DEF vars, conn, Promise!vars
<1>6. CASE Next
  BY <1>3, <1>4, <1>6, CountersGrow
<1> QED
  BY <1>5, <1>6

\* Flow control of the connection implements its promise: the peer stays below
\* the limit it was told, credit never exceeds what was used, and every new
\* limit is one window beyond what was given back.
THEOREM RxFlowKeepsWindow == Spec => KeepsWindow
<1>1. Init => Promise!Init
  BY FS_EmptySet DEF Init, Promise!Init
<1>2. RxInv /\ RxInv' /\ Returned /\ Returned' /\ [Next]_vars => [Promise!Next]_(Promise!vars)
  BY StepKeepsWindow
<1> QED
  BY <1>1, <1>2, SpecInv, ReturnedWasReceived, PTL DEF Spec, KeepsWindow, Promise!Spec
=============================================================================
