------------------------------ MODULE AckRanges ------------------------------
(***************************************************************************)
(* The algorithms on ranges behind AckTracker: acktr->ents as the list of  *)
(* maximal ranges in decreasing order that ngtcp2_acktr.c keeps, the ring  *)
(* acktr->acks as the list of records it searches, and an ACK frame as the *)
(* blocks of gaps and lengths that conn_create_ack_frame writes.  Each is  *)
(* compared with the sets AckTracker works on, in every state it reaches.  *)
(***************************************************************************)
EXTENDS AckTracker, Sequences, SequencesExt

\* An ngtcp2_acktr_entry: pkt_num is the last number of the range.
Entry(last, n) == [pkt_num |-> last, len |-> n]
First(r) == r.pkt_num - (r.len - 1)
Cover(s) == UNION {First(s[i]) .. s[i].pkt_num : i \in DOMAIN s}

\* The members of a finite set of numbers, the largest first: member i has i - 1
\* others above it.
Decreasing(T) ==
  [i \in 1 .. Cardinality(T) |-> CHOOSE t \in T : Cardinality({u \in T : u >= t}) = i]

\* The ranges of a set of packet numbers, in decreasing order.
RangesOf(S) ==
  LET FirstOf(t) == CHOOSE f \in S : f .. t \subseteq S /\ f - 1 \notin S /\ f <= t
      tops == Decreasing(Tops(S))
  IN [i \in DOMAIN tops |-> Entry(tops[i], tops[i] - FirstOf(tops[i]) + 1)]

\* ngtcp2_ksl_lower_bound with the comparison greater: the first range whose
\* last number is not greater than pn, or one past the end.
LowerBound(s, pn) ==
  CHOOSE i \in 1 .. Len(s) + 1 :
    /\ i <= Len(s) => s[i].pkt_num <= pn
    /\ \A k \in 1 .. i - 1 : s[k].pkt_num > pn

\* Mutant: a number between two ranges joins only the one above.
ExtendWithoutJoin(s, pn) ==
  LET i == LowerBound(s, pn)
      above == i > 1 /\ s[i - 1].pkt_num = pn + s[i - 1].len
      below == i <= Len(s) /\ s[i].pkt_num + 1 = pn
  IN CASE above           -> [s EXCEPT ![i - 1].len = @ + 1]
       [] ~above /\ below -> [s EXCEPT ![i] = Entry(pn, @.len + 1)]
       [] OTHER           -> InsertAt(s, i, Entry(pn, 1))

\* ngtcp2_acktr_add before its limit: pn extends the range below it, the range
\* above it, joins both, or becomes a range of its own.
Extend(s, pn) ==
  LET i == LowerBound(s, pn)
      above == i > 1 /\ s[i - 1].pkt_num = pn + s[i - 1].len
      below == i <= Len(s) /\ s[i].pkt_num + 1 = pn
  IN CASE above /\ below  -> RemoveAt([s EXCEPT ![i - 1].len = @ + s[i].len + 1], i)
       [] above /\ ~below -> [s EXCEPT ![i - 1].len = @ + 1]
       [] ~above /\ below -> [s EXCEPT ![i] = Entry(pn, @.len + 1)]
       [] OTHER           -> InsertAt(s, i, Entry(pn, 1))

\* ngtcp2_acktr_add: the oldest range goes when there are too many.
RangeAdd(s, pn) == LET r == Extend(s, pn) IN IF Len(r) > MaxEnt THEN Front(r) ELSE r

\* The assertions of ngtcp2_acktr_add: pn is in no range.
RangeAddAsserts(s, pn) ==
  LET i == LowerBound(s, pn)
  IN /\ i <= Len(s) => s[i].pkt_num # pn
     /\ i > 1 => s[i - 1].pkt_num >= pn + s[i - 1].len

\* Mutant: the range that straddles largest_ack is kept whole.
RangeOnAckKeeps(s, largest_ack) == SubSeq(s, 1, LowerBound(s, largest_ack) - 1)

\* acktr_on_ack on the ranges: drop those that end at or below largest_ack and
\* cut the one that straddles it.
RangeOnAck(s, largest_ack) ==
  LET kept == SubSeq(s, 1, LowerBound(s, largest_ack) - 1)
      n == Len(kept)
  IN IF n > 0 /\ largest_ack >= First(kept[n])
     THEN [kept EXCEPT ![n].len = kept[n].pkt_num - largest_ack]
     ELSE kept

-----------------------------------------------------------------------------
\* The ACK frame of conn_create_ack_frame.
MakeFrame(s) ==
  LET whole == s # <<>> /\ s[1].pkt_num = max_pkt_num
      rest == IF whole THEN Tail(s) ELSE s
      n == IF Len(rest) < MaxAckBlks THEN Len(rest) ELSE MaxAckBlks
      last(i) == IF i > 1 THEN First(rest[i - 1])
                 ELSE IF whole THEN First(s[1]) ELSE max_pkt_num
  IN [largest_ack |-> max_pkt_num,
      first_ack_blklen |-> IF whole THEN s[1].len - 1 ELSE 0,
      blks |-> [i \in 1 .. n |-> [gap |-> (last(i) - rest[i].pkt_num - 2) % Word,
                                  blklen |-> rest[i].len - 1]]]

\* Mutant: a reader that takes the gap for the number of missing packets.
FrameRangesOffByOne(fr) ==
  LET walk[i \in 0 .. Len(fr.blks)] ==
        IF i = 0 THEN [max |-> fr.largest_ack, min |-> fr.largest_ack - fr.first_ack_blklen]
        ELSE LET top == walk[i - 1].min - fr.blks[i].gap - 1
             IN [max |-> top, min |-> top - fr.blks[i].blklen]
  IN [i \in 1 .. Len(fr.blks) + 1 |-> walk[i - 1]]

\* The ranges [min, max] of a frame, as ngtcp2_acktr_recv_ack and
\* ngtcp2_rtb_recv_ack walk them: each from the end of the one before.
FrameRanges(fr) ==
  LET walk[i \in 0 .. Len(fr.blks)] ==
        IF i = 0 THEN [max |-> fr.largest_ack, min |-> fr.largest_ack - fr.first_ack_blklen]
        ELSE LET top == walk[i - 1].min - fr.blks[i].gap - 2
             IN [max |-> top, min |-> top - fr.blks[i].blklen]
  IN [i \in 1 .. Len(fr.blks) + 1 |-> walk[i - 1]]

\* ngtcp2_pkt_validate_ack: no block reaches below zero.
ValidateAck(fr) == \A i \in DOMAIN FrameRanges(fr) : FrameRanges(fr)[i].min >= 0

FrameCover(fr) ==
  UNION {r.min .. r.max : r \in {FrameRanges(fr)[i] : i \in DOMAIN FrameRanges(fr)}}

\* A frame the peer may send for the set A of our packets.
FrameFor(A) ==
  LET s == RangesOf(A)
  IN [largest_ack |-> s[1].pkt_num, first_ack_blklen |-> s[1].len - 1,
      blks |-> [i \in 1 .. Len(s) - 1 |-> [gap |-> First(s[i]) - s[i + 1].pkt_num - 2,
                                           blklen |-> s[i + 1].len - 1]]]

\* acktr->acks, newest record first.
AckLog ==
  LET pns == Decreasing({a.pkt_num : a \in acks})
  IN [i \in DOMAIN pns |-> CHOOSE a \in acks : a.pkt_num = pns[i]]

\* The search of ngtcp2_acktr_recv_ack: index j over the records and k over the
\* ranges only move forward; 0 if no record was acknowledged.
RecvAckSearch(log, fr) ==
  LET rs == FrameRanges(fr)
      step[at \in (1 .. Len(log) + 1) \X (1 .. Len(rs) + 1)] ==
        LET j == at[1]
            k == at[2]
        IN IF j > Len(log) \/ k > Len(rs) THEN 0
           ELSE IF log[j].pkt_num > rs[k].max THEN step[<<j + 1, k>>]
           ELSE IF log[j].pkt_num < rs[k].min THEN step[<<j, k + 1>>]
           ELSE j
  IN step[<<1, 1>>]

-----------------------------------------------------------------------------
Maximal(s) == \A i \in 1 .. Len(s) - 1 : First(s[i]) > s[i + 1].pkt_num + 1

\* ngtcp2_acktr_add keeps the ranges maximal, in order and without overlap, and
\* adds exactly one number wherever it falls, minus the oldest range at the limit; its
\* assertions hold for every packet that passes the duplicate check.
RangeAddAgrees ==
  \A pn \in RxPkt \ seen :
    LET s == RangesOf(ents)
    IN /\ RangeAddAsserts(s, pn)
       /\ Cover(RangeAdd(s, pn)) = AcktrAdd(ents, pn)
       /\ Maximal(RangeAdd(s, pn))

\* The two-index search of ngtcp2_acktr_recv_ack finds the newest record whose
\* packet the frame acknowledges, whatever gaps the frame has, and acktr_on_ack
\* then forgets exactly the numbers up to its largest_ack.
RecvAckAgrees ==
  \A A \in (SUBSET (0 .. last_pkt_num)) \ {{}} :
    LET j == RecvAckSearch(AckLog, FrameFor(A))
    IN /\ FrameCover(FrameFor(A)) = A
       /\ AckedEntry(A) = {AckLog[i] : i \in {j} \ {0}}
       /\ j # 0 => Cover(RangeOnAck(RangesOf(ents), AckLog[j].largest_ack)) = EntsAfterAck(A)

\* Whenever its gaps are encodable, the frame conn_create_ack_frame builds is
\* one its receiver accepts, and it reads back as the reported ranges and the
\* largest number received.
FrameAgrees ==
  AckDue /\ GapsEncodable =>
    LET fr == MakeFrame(RangesOf(ents))
    IN ValidateAck(fr) /\ FrameCover(fr) = Reported \cup {max_pkt_num}
=============================================================================
