-------------------------- MODULE AckTrackerProofs --------------------------
(***************************************************************************)
(* Proofs about AckTracker for every value of its constants.  IInv is the  *)
(* inductive invariant: it ties the tracker (ents), the largest number     *)
(* (max_pkt_num), the duplicate filter (seen), the log of ACK frames       *)
(* (acks) and what was really received together, because each of them      *)
(* forgets on its own schedule.                                            *)
(***************************************************************************)
EXTENDS AckTracker, FiniteSetTheorems, WellFoundedInduction, TLAPS

\* What the tracker and the duplicate filter know is what was received.
KnownWasReceived ==
  /\ ents \subseteq received
  /\ received \subseteq seen
  /\ max_pkt_num \in received \cup {-1}
  /\ \A p \in received : p <= max_pkt_num

\* Every logged record stands for a frame that reported its largest_ack.
LogHasFrames ==
  \A a \in acks : \E f \in frames : f.pkt_num = a.pkt_num /\ a.largest_ack \in f.acked

\* A frame reported every number up to its largest, unless it came later or
\* had left the tracker for one of the reasons ForgottenWasConfirmed allows.
FramesComplete ==
  \A f \in frames : \A q \in f.acked : \A p \in received :
    p <= q => p \in f.acked \cup confirmed \cup evicted \cup late

IInv ==
  /\ TypeOK
  /\ KnownWasReceived
  /\ NoFalseAck
  /\ LogHasFrames
  /\ FramesComplete
  /\ AcksOrdered
  /\ ForgottenWasConfirmed
  /\ PendingAckHasRanges

-----------------------------------------------------------------------------
\* A nonempty set of naturals up to N has a largest member.
LEMMA LargestMember ==
  ASSUME NEW N \in Nat, NEW S, S \subseteq 0 .. N, S # {}
  PROVE  \E m \in S : \A p \in S : p <= m
<1> DEFINE T == {N - p : p \in S}
<1>1. T \subseteq Nat /\ T # {}
  <2>1. \A p \in S : N - p \in Nat
    OBVIOUS
  <2> QED
    BY <2>1
<1>2. PICK d \in T : \A e \in T : ~(<<e, d>> \in OpToRel(<, Nat))
  BY <1>1, NatLessThanWellFounded, WFMin, Zenon
<1>3. \A e \in T : ~(e < d)
  <2> TAKE e \in T
  <2>1. e \in Nat /\ d \in Nat
    BY <1>1
  <2>2. ~(<<e, d>> \in OpToRel(<, Nat))
    BY <1>2, Zenon
  <2> QED
    BY <2>1, <2>2, Zenon DEF OpToRel
<1>4. PICK m \in S : d = N - m
  OBVIOUS
<1>5. \A p \in S : p <= m
  <2> TAKE p \in S
  <2>1. ~(N - p < d)
    BY <1>3
  <2> QED
    BY <2>1, <1>4
<1> QED
  BY <1>5

\* Dropping the oldest ranges adds nothing, and leaves the newest.
LEMMA NewestRangesSubset ==
  ASSUME NEW S, NEW n
  PROVE  NewestRanges(S, n) \subseteq S
BY DEF NewestRanges

\* The newest ranges are among the ranges, and there are some if there is one.
LEMMA NewestRangesNonempty ==
  ASSUME NEW S, S \subseteq RxPkt, S # {}, NEW n \in Nat \ {0}
  PROVE  NewestRanges(S, n) # {}
<1>1. PICK m \in S : \A p \in S : p <= m
  BY LargestMember, BoundsAssumption DEF RxPkt
<1>2. m \in Nat
  BY BoundsAssumption DEF RxPkt
<1>3. {t \in Tops(S) : t >= m} = {m}
  <2>1. m + 1 \notin S
    BY <1>1, <1>2
  <2>2. \A t \in S : t >= m => t = m
    BY <1>1, <1>2, BoundsAssumption DEF RxPkt
  <2>3. m \in Tops(S) /\ m >= m
    BY <2>1, <1>2 DEF Tops
  <2>4. Tops(S) \subseteq S
    BY DEF Tops
  <2> QED
    BY <2>2, <2>3, <2>4
<1>4. Cardinality({t \in Tops(S) : t >= m}) = 1
  BY <1>3, FS_Singleton
<1>5. m \in NewestRanges(S, n)
  BY <1>4 DEF NewestRanges
<1> QED
  BY <1>5

\* The duplicate filter only grows, within the numbers there are.
LEMMA PngapPushGrows ==
  ASSUME NEW S, S \subseteq RxPkt, NEW pn \in RxPkt
  PROVE  /\ S \cup {pn} \subseteq PngapPush(S, pn)
         /\ PngapPush(S, pn) \subseteq RxPkt
BY DEF PngapPush, FirstGap

-----------------------------------------------------------------------------
\* Nothing has arrived initially.
LEMMA InitIInv == Init => IInv
BY BoundsAssumption
   DEF Init, IInv, TypeOK, KnownWasReceived, NoFalseAck, LogHasFrames, FramesComplete,
       AcksOrdered, ForgottenWasConfirmed, PendingAckHasRanges, RxPkt, TxPkt

\* conn_recv_pkt keeps every part of the invariant.
LEMMA RecvPktIInv ==
  ASSUME IInv, NEW pn \in RxPkt, NEW e \in BOOLEAN, NEW A \in SUBSET TxPkt,
         RecvPkt(pn, e, A)
  PROVE  IInv'
<1> DEFINE kept == EntsAfterAck(A)
<1> USE DEF IInv
<1>1. kept \subseteq ents /\ AcksAfterAck(A) \subseteq acks
  BY DEF EntsAfterAck, AcksAfterAck
<1>2. ents' \subseteq kept \cup {pn} /\ ents' # {}
  <2>1. kept \cup {pn} \subseteq RxPkt /\ kept \cup {pn} # {}
    BY <1>1 DEF TypeOK
  <2>2. ents' = NewestRanges(kept \cup {pn}, MaxEnt)
    BY DEF RecvPkt, LargestReceived, AcktrAdd
  <2> QED
    BY <2>1, <2>2, NewestRangesSubset, NewestRangesNonempty, BoundsAssumption
<1>3. pn \notin received
  BY DEF RecvPkt, LargestReceived, KnownWasReceived
<1>4. pn \in Int /\ max_pkt_num \in Int
  BY BoundsAssumption DEF TypeOK, RxPkt
<1>5. TypeOK'
  <2>1. seen' \subseteq RxPkt
    BY PngapPushGrows DEF RecvPkt, LargestReceived, TypeOK
  <2>2. confirmed' \subseteq RxPkt
    BY DEF RecvPkt, LargestReceived, TypeOK
  <2>3. ents' \subseteq RxPkt /\ acks' \subseteq acks /\ evicted' \subseteq RxPkt
    BY <1>1, <1>2 DEF RecvPkt, LargestReceived, TypeOK
  <2> QED
    BY <2>1, <2>2, <2>3 DEF RecvPkt, LargestReceived, TypeOK
<1>6. KnownWasReceived'
  <2>1. received' \subseteq seen'
    BY PngapPushGrows DEF RecvPkt, LargestReceived, KnownWasReceived, TypeOK
  <2>2. ents' \subseteq received'
    BY <1>1, <1>2 DEF RecvPkt, LargestReceived, KnownWasReceived
  <2>3. max_pkt_num' \in received' \cup {-1} /\ \A p \in received' : p <= max_pkt_num'
    <3>1. \A p \in received : p \in Int
      BY BoundsAssumption DEF TypeOK, RxPkt
    <3> QED
      BY <1>4, <3>1 DEF RecvPkt, LargestReceived, KnownWasReceived
  <2> QED
    BY <2>1, <2>2, <2>3 DEF KnownWasReceived
<1>7. NoFalseAck'
  BY DEF RecvPkt, LargestReceived, NoFalseAck
<1>8. LogHasFrames'
  BY <1>1 DEF RecvPkt, LargestReceived, LogHasFrames
<1>9. FramesComplete'
  <2> SUFFICES ASSUME NEW f \in frames, NEW q \in f.acked, NEW p \in received', p <= q
               PROVE  p \in f.acked \cup confirmed' \cup evicted' \cup late'
    BY DEF RecvPkt, LargestReceived, FramesComplete
  <2>1. CASE p \in received
    BY <2>1 DEF RecvPkt, LargestReceived, FramesComplete
  <2>2. CASE p = pn
    <3>1. q \in received
      BY DEF NoFalseAck
    <3>2. q \in Int /\ p # q
      BY <3>1, <2>2, <1>3, BoundsAssumption DEF TypeOK, RxPkt
    <3>3. p < q
      BY <3>2, <2>2, <1>4
    <3> QED
      BY <3>3, <2>2 DEF RecvPkt, LargestReceived
  <2> QED
    BY <2>1, <2>2 DEF RecvPkt, LargestReceived
<1>10. AcksOrdered'
  <2>1. acks' \subseteq acks /\ last_pkt_num' = last_pkt_num
    BY <1>1 DEF RecvPkt, LargestReceived
  <2>2. max_pkt_num <= max_pkt_num' /\ max_pkt_num' \in Int
    BY <1>4 DEF RecvPkt, LargestReceived
  <2>3. \A a \in acks : a.largest_ack \in Int
    BY BoundsAssumption DEF TypeOK, RxPkt
  <2>4. \A a \in acks' : a.pkt_num <= last_pkt_num' /\ a.largest_ack <= max_pkt_num'
    BY <2>1, <2>2, <2>3, <1>4 DEF AcksOrdered
  <2> QED
    BY <2>1, <2>4 DEF AcksOrdered
<1>11. ForgottenWasConfirmed'
  <2> SUFFICES ASSUME NEW p \in received', p \notin ents'
               PROVE  p \in confirmed' \cup evicted' \cup late'
    BY DEF ForgottenWasConfirmed
  <2>1. CASE p \in kept \cup {pn}
    BY <2>1 DEF RecvPkt, LargestReceived
  <2>2. CASE p \in received \ ents
    BY <2>2 DEF RecvPkt, LargestReceived, ForgottenWasConfirmed
  <2>3. CASE p \in ents \ kept
    <3>1. PICK a \in AckedEntry(A) : ~(p > a.largest_ack)
      BY <2>3 DEF EntsAfterAck
    <3>2. a \in acks /\ a.pkt_num \in A
      BY <3>1 DEF AckedEntry
    <3>3. PICK f \in frames : f.pkt_num = a.pkt_num /\ a.largest_ack \in f.acked
      BY <3>2 DEF LogHasFrames
    <3>4. p \in received /\ p <= a.largest_ack
      <4>1. p \in Int /\ a.largest_ack \in Int
        BY <2>3, <3>2, BoundsAssumption DEF TypeOK, RxPkt
      <4> QED
        BY <4>1, <2>3, <3>1 DEF KnownWasReceived
    <3>5. p \in f.acked \cup confirmed \cup evicted \cup late
      BY <3>3, <3>4 DEF FramesComplete
    <3>6. f.acked \subseteq confirmed'
      BY <3>2, <3>3 DEF RecvPkt, LargestReceived
    <3> QED
      BY <3>5, <3>6 DEF RecvPkt, LargestReceived
  <2> QED
    BY <2>1, <2>2, <2>3 DEF RecvPkt, LargestReceived
<1>12. PendingAckHasRanges'
  BY <1>2 DEF PendingAckHasRanges
<1> QED
  BY <1>5, <1>6, <1>7, <1>8, <1>9, <1>10, <1>11, <1>12

\* Forgetting the ranges beyond MaxAckBlks: common to both outcomes of building
\* an ACK frame.
LEMMA ReportedRanges ==
  ASSUME IInv, AckDue
  PROVE  Reported \subseteq ents /\ Reported # {}
<1>1. ents \subseteq RxPkt /\ ents # {}
  BY DEF IInv, TypeOK, AckDue
<1>2. MaxAckBlks \in Nat \ {0} /\ MaxAckBlks + 1 \in Nat \ {0}
  BY BoundsAssumption
<1> QED
  BY <1>1, <1>2, NewestRangesSubset, NewestRangesNonempty DEF Reported

\* Writing a packet with an ACK frame keeps every part of the invariant.
LEMMA SendAckIInv ==
  ASSUME IInv, SendAck
  PROVE  IInv'
<1> DEFINE pn == last_pkt_num + 1
           new == [pkt_num |-> pn, largest_ack |-> max_pkt_num]
           frame == [pkt_num |-> pn, acked |-> Reported \cup {max_pkt_num}]
<1> USE DEF IInv
<1>1. Reported \subseteq ents /\ Reported # {} /\ ents' = Reported
  BY ReportedRanges DEF SendAck
<1>2. max_pkt_num \in received /\ max_pkt_num \in RxPkt /\ max_pkt_num \in Int
  <2>1. PICK p \in received : p \in RxPkt
    BY <1>1 DEF KnownWasReceived, TypeOK
  <2>2. p \in Nat /\ p <= max_pkt_num
    BY <2>1, BoundsAssumption DEF KnownWasReceived, RxPkt
  <2> QED
    BY <2>2, BoundsAssumption DEF KnownWasReceived, TypeOK, RxPkt
<1>3. pn \in TxPkt /\ last_pkt_num \in Int
  BY BoundsAssumption DEF SendAck, TypeOK, TxPkt
<1>4. acks' \subseteq acks \cup {new} /\ frames' = frames \cup {frame} /\ last_pkt_num' = pn
  BY DEF SendAck
<1>5. UNCHANGED <<max_pkt_num, seen, received, late, confirmed>> /\ evicted' = evicted \cup (ents \ Reported)
  BY DEF SendAck, recvVars
<1>6. TypeOK'
  <2>1. new \in [pkt_num : TxPkt, largest_ack : RxPkt]
    BY <1>2, <1>3
  <2>2. Reported \cup {max_pkt_num} \in SUBSET RxPkt
    BY <1>1, <1>2 DEF TypeOK
  <2>3. frame \in [pkt_num : TxPkt, acked : SUBSET RxPkt]
    BY <1>3, <2>2
  <2>4. acks' \subseteq [pkt_num : TxPkt, largest_ack : RxPkt]
    BY <2>1, <1>4 DEF TypeOK
  <2>5. frames' \subseteq [pkt_num : TxPkt, acked : SUBSET RxPkt]
    BY <2>3, <1>4 DEF TypeOK
  <2> QED
    BY <2>4, <2>5, <1>1, <1>3, <1>4, <1>5 DEF SendAck, TypeOK
<1>7. KnownWasReceived'
  BY <1>1, <1>5 DEF KnownWasReceived
<1>8. NoFalseAck'
  <2>1. frame.acked \subseteq received
    BY <1>1, <1>2 DEF KnownWasReceived
  <2> QED
    BY <2>1, <1>4, <1>5 DEF NoFalseAck
<1>9. LogHasFrames'
  <2> SUFFICES ASSUME NEW a \in acks'
               PROVE  \E f \in frames' : f.pkt_num = a.pkt_num /\ a.largest_ack \in f.acked
    BY DEF LogHasFrames
  <2>1. CASE a \in acks
    BY <2>1, <1>4 DEF LogHasFrames
  <2>2. CASE a = new
    <3>1. frame \in frames' /\ frame.pkt_num = a.pkt_num /\ a.largest_ack \in frame.acked
      BY <2>2, <1>4
    <3> QED
      BY <3>1
  <2> QED
    BY <2>1, <2>2, <1>4
<1>10. FramesComplete'
  <2> SUFFICES ASSUME NEW f \in frames', NEW q \in f.acked, NEW p \in received, p <= q
               PROVE  p \in f.acked \cup confirmed \cup evicted' \cup late
    BY <1>5 DEF FramesComplete
  <2>1. CASE f \in frames
    BY <2>1, <1>5 DEF FramesComplete
  <2>2. CASE f = frame
    <3>1. p \in ents => p \in f.acked \cup evicted'
      BY <2>2, <1>5
    <3>2. p \notin ents => p \in confirmed \cup evicted \cup late
      BY DEF ForgottenWasConfirmed
    <3> QED
      BY <3>1, <3>2, <1>5
  <2> QED
    BY <2>1, <2>2, <1>4
<1>11. AcksOrdered'
  <2>1. \A a \in acks : /\ a.pkt_num \in Int /\ a.largest_ack \in Int
                        /\ a.pkt_num < pn /\ a.largest_ack <= max_pkt_num
    BY <1>3, BoundsAssumption DEF AcksOrdered, TypeOK, RxPkt, TxPkt
  <2>2. \A a \in acks' : a \in acks \/ a = new
    BY <1>4
  <2>3. \A a \in acks' : a.pkt_num <= pn /\ a.largest_ack <= max_pkt_num
    BY <2>1, <2>2, <1>2, <1>3
  <2>4. \A a, b \in acks' : a.pkt_num < b.pkt_num => a.largest_ack <= b.largest_ack
    <3> TAKE a, b \in acks'
    <3>1. CASE a \in acks /\ b \in acks
      BY <3>1 DEF AcksOrdered
    <3>2. CASE b = new
      BY <3>2, <2>3
    <3>3. CASE a = new
      BY <3>3, <2>1, <2>2, <1>3
    <3> QED
      BY <3>1, <3>2, <3>3, <2>2
  <2>5. \A a, b \in acks' : a.pkt_num = b.pkt_num => a = b
    BY <2>1, <2>2, <1>3 DEF AcksOrdered
  <2> QED
    BY <2>3, <2>4, <2>5, <1>4, <1>5 DEF AcksOrdered
<1>12. ForgottenWasConfirmed'
  BY <1>1, <1>5 DEF ForgottenWasConfirmed
<1>13. PendingAckHasRanges'
  BY <1>1 DEF PendingAckHasRanges
<1> QED
  BY <1>6, <1>7, <1>8, <1>9, <1>10, <1>11, <1>12, <1>13

\* So does building one that does not fit.
LEMMA SendAckNoBufIInv ==
  ASSUME IInv, SendAckNoBuf
  PROVE  IInv'
<1> USE DEF IInv
<1>1. Reported \subseteq ents /\ Reported # {} /\ ents' = Reported
  BY ReportedRanges DEF SendAckNoBuf
<1>2. /\ UNCHANGED <<max_pkt_num, seen, received, late, acks, frames, confirmed, last_pkt_num>>
      /\ evicted' = evicted \cup (ents \ Reported)
  BY DEF SendAckNoBuf, recvVars
<1>3. TypeOK'
  BY <1>1, <1>2 DEF SendAckNoBuf, TypeOK
<1>4. KnownWasReceived' /\ NoFalseAck' /\ LogHasFrames' /\ AcksOrdered'
  BY <1>1, <1>2 DEF KnownWasReceived, NoFalseAck, LogHasFrames, AcksOrdered
<1>5. FramesComplete'
  BY <1>2 DEF FramesComplete
<1>6. ForgottenWasConfirmed'
  BY <1>1, <1>2 DEF ForgottenWasConfirmed
<1>7. PendingAckHasRanges'
  BY <1>1 DEF PendingAckHasRanges
<1> QED
  BY <1>3, <1>4, <1>5, <1>6, <1>7

\* A packet, with or without an ACK frame, keeps the invariant.
LEMMA SendPktIInv ==
  ASSUME IInv, SendPkt
  PROVE  IInv'
<1> USE DEF IInv, SendPkt, recvVars
<1>1. last_pkt_num' \in TxPkt /\ last_pkt_num < last_pkt_num'
  BY BoundsAssumption DEF TypeOK, TxPkt
<1>2. TypeOK'
  BY <1>1 DEF TypeOK
<1>3. AcksOrdered'
  <2>1. \A a \in acks : a.pkt_num \in Int /\ last_pkt_num \in Int /\ last_pkt_num' \in Int
    BY BoundsAssumption, <1>1 DEF TypeOK, TxPkt
  <2> QED
    BY <2>1, <1>1 DEF AcksOrdered
<1> QED
  BY <1>2, <1>3 DEF KnownWasReceived, NoFalseAck, LogHasFrames, FramesComplete,
                    ForgottenWasConfirmed, PendingAckHasRanges

\* Every action keeps the invariant.
LEMMA NextIInv == IInv /\ [Next]_vars => IInv'
<1> SUFFICES ASSUME IInv, [Next]_vars
             PROVE  IInv'
  OBVIOUS
<1>1. ASSUME NEW pn \in RxPkt, NEW e \in BOOLEAN, NEW A \in SUBSET TxPkt, RecvPkt(pn, e, A)
      PROVE  IInv'
  BY <1>1, RecvPktIInv
<1>2. CASE SendAck
  BY <1>2, SendAckIInv
<1>3. CASE SendAckNoBuf
  BY <1>3, SendAckNoBufIInv
<1>4. CASE AbortOnGap
  BY <1>4 DEF AbortOnGap, recvVars, IInv, TypeOK, KnownWasReceived, NoFalseAck, LogHasFrames,
              FramesComplete, AcksOrdered, ForgottenWasConfirmed, PendingAckHasRanges
<1>5. CASE SendPkt
  BY <1>5, SendPktIInv
<1>6. CASE UNCHANGED vars
  BY <1>6 DEF vars, IInv, TypeOK, KnownWasReceived, NoFalseAck, LogHasFrames,
              FramesComplete, AcksOrdered, ForgottenWasConfirmed, PendingAckHasRanges
<1> QED
  BY <1>1, <1>2, <1>3, <1>4, <1>5, <1>6 DEF Next

\* The invariant holds in every reachable state.
LEMMA Invariance == Spec => []IInv
BY InitIInv, NextIInv, PTL DEF Spec

-----------------------------------------------------------------------------
\* The tracker's variables always have their types.
THEOREM TypeCorrect == Spec => []TypeOK
<1>1. IInv => TypeOK
  BY DEF IInv
<1> QED
  BY <1>1, Invariance, PTL

\* No ACK frame conn_create_ack_frame builds acknowledges a packet that was
\* never received, whatever is received, acknowledged and forgotten before.
THEOREM AcksAreTrue == Spec => []NoFalseAck
<1>1. IInv => NoFalseAck
  BY DEF IInv
<1> QED
  BY <1>1, Invariance, PTL

\* acktr_on_ack, which removes by number alone, forgets only what the peer
\* knows was received, what a limit drops, and what came out of order.
THEOREM NothingForgottenEarly == Spec => []ForgottenWasConfirmed
<1>1. IInv => ForgottenWasConfirmed
  BY DEF IInv
<1> QED
  BY <1>1, Invariance, PTL

\* The log of sent ACK frames is sorted both by packet and by largest_ack, as
\* the search of ngtcp2_acktr_recv_ack assumes.
THEOREM LogSorted == Spec => []AcksOrdered
<1>1. IInv => AcksOrdered
  BY DEF IInv
<1> QED
  BY <1>1, Invariance, PTL

\* A pending ACK always has a range to report.
THEOREM AckNeverEmpty == Spec => []PendingAckHasRanges
<1>1. IInv => PendingAckHasRanges
  BY DEF IInv
<1> QED
  BY <1>1, Invariance, PTL

\* A packet number enters the tracker at most once, so the assertions of
\* ngtcp2_acktr_add on overlap cannot fail.
THEOREM AdmittedOnce == Spec => NoReadmission
<1>1. IInv /\ [Next]_vars => [(ents' \ ents) \cap received = {}]_vars
  <2> SUFFICES ASSUME IInv, [Next]_vars
               PROVE  (ents' \ ents) \cap received = {}
    OBVIOUS
  <2>1. ASSUME NEW pn \in RxPkt, NEW e \in BOOLEAN, NEW A \in SUBSET TxPkt, RecvPkt(pn, e, A)
        PROVE  (ents' \ ents) \cap received = {}
    <3>1. ents' \subseteq ents \cup {pn}
      BY <2>1, NewestRangesSubset DEF RecvPkt, LargestReceived, AcktrAdd, EntsAfterAck
    <3>2. pn \notin received
      BY <2>1 DEF RecvPkt, LargestReceived, IInv, KnownWasReceived
    <3> QED
      BY <3>1, <3>2
  <2>2. CASE SendAck \/ SendAckNoBuf
    BY <2>2, NewestRangesSubset DEF SendAck, SendAckNoBuf, Reported
  <2>3. CASE AbortOnGap \/ SendPkt \/ UNCHANGED vars
    BY <2>3 DEF AbortOnGap, SendPkt, vars
  <2> QED
    BY <2>1, <2>2, <2>3 DEF Next
<1> QED
  BY <1>1, Invariance, PTL DEF Spec, NoReadmission
=============================================================================
