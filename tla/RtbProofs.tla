------------------------------ MODULE RtbProofs ------------------------------
(***************************************************************************)
(* Proofs about Rtb for every value of its constants: the safety           *)
(* properties of the sending half, and that it implements Delivery.        *)
(* RtbInv is the inductive invariant.  The properties need each other: an  *)
(* item is not lost because the loss scan reaches every entry it should    *)
(* (LostAreOldest), entries are dropped by number only when they are lost  *)
(* (CountersExact), and the timer is armed by a counter that is exact.     *)
(***************************************************************************)
EXTENDS Rtb, FiniteSetTheorems, TLAPS

\* Only what was submitted is queued, carried, acknowledged, superseded or reset.
Known ==
  /\ cc_pkt_num <= last_pkt_num + 1
  /\ queue \cup acked \cup moot \cup Reset \subseteq submitted
  /\ \A p \in Pkt : frc[p] \subseteq submitted

\* The timer runs while something is to be retransmitted, but for a reset.
TimerArmed == num_retransmittable > 0 => timer \/ pathReset

RtbInv ==
  /\ TypeOK /\ Known
  /\ LostAreOldest /\ CountersExact
  /\ NoItemLost /\ UniqueOwner
  /\ TimerArmed

-----------------------------------------------------------------------------
\* Sets of entries are finite.
LEMMA EntsFinite ==
  ASSUME TypeOK, NEW S, S \subseteq ents
  PROVE  IsFiniteSet(S) /\ Cardinality(S) \in Nat
<1>1. last_pkt_num \in Int
  BY RtbAssumption DEF TypeOK, Pkt
<1>2. IsFiniteSet(0 .. last_pkt_num)
  BY <1>1, FS_Interval
<1>3. S \subseteq 0 .. last_pkt_num
  BY DEF TypeOK
<1> QED
  BY <1>2, <1>3, FS_Subset, FS_CardinalityType

\* Entries taken from a set are taken from its count.
LEMMA CountLess ==
  ASSUME NEW S, NEW T, T \subseteq S, IsFiniteSet(S)
  PROVE  /\ Cardinality(S \ T) = Cardinality(S) - Cardinality(T)
         /\ Cardinality(S \ T) \in Nat /\ Cardinality(T) <= Cardinality(S)
<1>1. IsFiniteSet(T) /\ IsFiniteSet(S \ T)
  BY FS_Subset, FS_Difference
<1>2. Cardinality(S \ T) = Cardinality(S) - Cardinality(S \cap T)
  BY FS_Difference
<1>3. S \cap T = T
  OBVIOUS
<1> QED
  BY <1>1, <1>2, <1>3, FS_CardinalityType, FS_Subset

\* One more entry is one more in its count.
LEMMA CountMore ==
  ASSUME NEW S, NEW x, x \notin S, IsFiniteSet(S)
  PROVE  Cardinality(S \cup {x}) = Cardinality(S) + 1 /\ Cardinality(S \cup {x}) \in Nat
<1>1. /\ Cardinality(S \cup {x}) = (IF x \in S THEN Cardinality(S) ELSE Cardinality(S) + 1)
      /\ IsFiniteSet(S \cup {x})
  BY FS_AddElement
<1>2. Cardinality(S \cup {x}) \in Nat
  BY <1>1, FS_CardinalityType
<1> QED
  BY <1>1, <1>2

\* The loss detection timer as it is set.
LEMMA TimerIsSet ==
  ASSUME NEW n \in Int, SetLossDetectionTimer(n)
  PROVE  timer' \in BOOLEAN /\ pathReset' \in BOOLEAN /\ (n > 0 => timer')
<1>1. timer' = (n > 0) /\ pathReset' = FALSE
  BY DEF SetLossDetectionTimer
<1>2. CASE n > 0
  <2>1. (n > 0) = TRUE
    BY <1>2
  <2> QED
    BY <1>1, <2>1, Zenon
<1>3. CASE ~(n > 0)
  <2>1. (n > 0) = FALSE
    BY <1>3
  <2> QED
    BY <1>1, <1>3, <2>1, Zenon
<1> QED
  BY <1>2, <1>3

\* A step that resets no stream settles only what it acknowledges or supersedes.
LEMMA SettledKeeps ==
  ASSUME resets' = resets
  PROVE  /\ Reset' = Reset
         /\ Gone' = Gone => Settled' = Settled
         /\ Gone \subseteq Gone' => Settled \subseteq Settled'
         /\ Settled' = Gone' \cup Reset
BY DEF Reset, Settled

\* The entries counted are entries, and entries are packet numbers in use.
LEMMA CountedAreEnts ==
  ASSUME TypeOK
  PROVE  Counted \subseteq ents /\ ents \subseteq Pkt
<1>1. Counted \subseteq ents
  BY DEF Counted, Retransmittable
<1>2. ents \subseteq Pkt
  BY RtbAssumption DEF TypeOK, Pkt
<1> QED
  BY <1>1, <1>2

-----------------------------------------------------------------------------
\* What conn_on_pkt_sent and ngtcp2_rtb_add do to entries and counters.
LEMMA TrackPktAdds ==
  ASSUME RtbInv, NEW S, S \subseteq Item, NEW eliciting \in BOOLEAN, NextPkt,
         TrackPkt(S, eliciting), lost' = lost, cc_pkt_num' = cc_pkt_num,
         reclaimed \subseteq reclaimed', reclaimed' \subseteq ents
  PROVE  /\ last_pkt_num' \in Pkt /\ last_pkt_num' \notin ents
         /\ ents' \subseteq 0 .. last_pkt_num' /\ ents' = ents \cup {last_pkt_num'}
         /\ elicits' \subseteq ents'
         /\ frc' \in [Pkt -> SUBSET Item] /\ frc'[last_pkt_num'] = S
         /\ \A p \in Pkt \ {last_pkt_num'} : frc'[p] = frc[p]
         /\ Counted' = (Counted \ reclaimed') \cup (IF S = {} THEN {} ELSE {last_pkt_num'})
         /\ LostAreOldest'
         /\ num_ack_eliciting' \in Nat /\ num_ack_eliciting' = Cardinality(elicits' \ lost')
         /\ bytes_in_flight' \in Nat
         /\ bytes_in_flight' = Cardinality({p \in ents' \ lost' : p >= cc_pkt_num'})
         /\ cc_pkt_num' <= last_pkt_num' + 1
<1> DEFINE pn == last_pkt_num + 1
           flight == {p \in ents \ lost : p >= cc_pkt_num}
<1>1. /\ last_pkt_num' = pn /\ pn \in Pkt /\ ents \subseteq 0 .. last_pkt_num /\ pn \in Nat
      /\ last_pkt_num \in Int /\ ents \subseteq Pkt
  BY RtbAssumption DEF RtbInv, TypeOK, NextPkt, Pkt
<1>2. /\ ents' = ents \cup {pn} /\ frc' = [frc EXCEPT ![pn] = S]
      /\ elicits' = (IF eliciting THEN elicits \cup {pn} ELSE elicits)
      /\ bytes_in_flight' = bytes_in_flight + 1
      /\ num_ack_eliciting' = (IF eliciting THEN num_ack_eliciting + 1 ELSE num_ack_eliciting)
  BY DEF TrackPkt
<1>3. /\ elicits \subseteq ents /\ lost \subseteq ents /\ reclaimed \subseteq ents
      /\ frc \in [Pkt -> SUBSET Item] /\ cc_pkt_num \in Nat /\ cc_pkt_num <= pn
  BY RtbAssumption DEF RtbInv, TypeOK, Known
<1>4. pn \notin ents /\ \A p \in ents : p < pn
  BY <1>1
<1>5. frc' \in [Pkt -> SUBSET Item] /\ frc'[pn] = S /\ \A p \in Pkt \ {pn} : frc'[p] = frc[p]
  BY <1>1, <1>2, <1>3
<1>6. Counted' = (Counted \ reclaimed') \cup (IF S = {} THEN {} ELSE {pn})
  BY <1>1, <1>2, <1>3, <1>4, <1>5 DEF Counted, Retransmittable
<1>7. LostAreOldest'
  BY <1>2, <1>3, <1>4 DEF LostAreOldest, RtbInv
<1>8. num_ack_eliciting' \in Nat /\ num_ack_eliciting' = Cardinality(elicits' \ lost')
  <2>1. IsFiniteSet(elicits \ lost) /\ num_ack_eliciting = Cardinality(elicits \ lost)
        /\ num_ack_eliciting \in Nat
    BY <1>3, EntsFinite DEF RtbInv, CountersExact, TypeOK
  <2>2. elicits' \ lost' = (IF eliciting THEN (elicits \ lost) \cup {pn} ELSE elicits \ lost)
    BY <1>2, <1>3, <1>4
  <2>3. pn \notin elicits \ lost
    BY <1>3, <1>4
  <2> HIDE DEF pn
  <2>4. /\ Cardinality((elicits \ lost) \cup {pn}) = num_ack_eliciting + 1
        /\ num_ack_eliciting + 1 \in Nat
    BY <2>1, <2>3, CountMore
  <2>5. CASE eliciting
    BY <1>2, <2>2, <2>4, <2>5
  <2>6. CASE ~eliciting
    BY <1>2, <2>1, <2>2, <2>6
  <2> QED
    BY <2>5, <2>6
<1>9. bytes_in_flight' \in Nat
      /\ bytes_in_flight' = Cardinality({p \in ents' \ lost' : p >= cc_pkt_num'})
  <2>1. IsFiniteSet(flight) /\ bytes_in_flight = Cardinality(flight) /\ bytes_in_flight \in Nat
    BY EntsFinite DEF RtbInv, CountersExact, TypeOK
  <2>2. {p \in ents' \ lost' : p >= cc_pkt_num'} = flight \cup {pn}
    BY <1>1, <1>2, <1>3, <1>4
  <2>3. pn \notin flight
    BY <1>4
  <2> HIDE DEF flight, pn
  <2>4. Cardinality(flight \cup {pn}) = bytes_in_flight + 1 /\ bytes_in_flight + 1 \in Nat
    BY <2>1, <2>3, CountMore
  <2> QED
    BY <1>2, <2>2, <2>4
<1>10. ents' \subseteq 0 .. pn /\ elicits' \subseteq ents' /\ cc_pkt_num' <= pn + 1
  BY <1>1, <1>2, <1>3
<1> HIDE DEF pn
<1> QED
  BY <1>1, <1>2, <1>4, <1>5, <1>6, <1>7, <1>8, <1>9, <1>10

\* conn_write_pkt with items that were queued, or are new.
LEMMA SendInv ==
  ASSUME RtbInv, NEW R \in SUBSET queue, NEW N \in SUBSET (Data \ submitted), Send(R, N)
  PROVE  RtbInv'
<1> DEFINE pn == last_pkt_num'
<1>1. R \cup N \subseteq Item /\ queue \subseteq Item /\ Data \subseteq Item
  BY DEF RtbInv, TypeOK, Item
<1>2. /\ pn \in Pkt /\ pn \notin ents /\ ents' \subseteq 0 .. pn /\ ents' = ents \cup {pn}
      /\ elicits' \subseteq ents' /\ frc' \in [Pkt -> SUBSET Item] /\ frc'[pn] = R \cup N
      /\ \A p \in Pkt \ {pn} : frc'[p] = frc[p]
      /\ Counted' = Counted \cup {pn}
      /\ LostAreOldest'
      /\ num_ack_eliciting' \in Nat /\ num_ack_eliciting' = Cardinality(elicits' \ lost')
      /\ bytes_in_flight' \in Nat
      /\ bytes_in_flight' = Cardinality({p \in ents' \ lost' : p >= cc_pkt_num'})
      /\ cc_pkt_num' <= pn + 1
  <2>1. NextPkt /\ TrackPkt(R \cup N, TRUE) /\ UNCHANGED <<lost, reclaimed, cc_pkt_num>>
        /\ R \cup N # {}
    BY DEF Send
  <2>2. reclaimed \subseteq ents
    BY DEF RtbInv, TypeOK
  <2>3. Counted \ reclaimed' = Counted
    BY <2>1 DEF Counted
  <2> QED
    BY <1>1, <2>1, <2>2, <2>3, TrackPktAdds
<1>3. /\ R \cap Gone = {} /\ queue' = queue \ (R \cup Gone) /\ submitted' = submitted \cup N
      /\ lost' = lost /\ reclaimed' = reclaimed /\ num_lost_pkts' = num_lost_pkts
      /\ largest_acked' = largest_acked /\ cc_pkt_num' = cc_pkt_num /\ loss_time' = loss_time
      /\ acked' = acked /\ moot' = moot /\ aborted' = aborted /\ resets' = resets
      /\ num_retransmittable' = num_retransmittable + 1
      /\ timer' \in BOOLEAN /\ pathReset' \in BOOLEAN
      /\ num_retransmittable' > 0 => timer'
      /\ probe_pkt_left' = (IF probe_pkt_left > 0 THEN probe_pkt_left - 1 ELSE 0)
      /\ Gone' = Gone /\ Reset' = Reset /\ Settled' = Settled
  BY TimerIsSet, SettledKeeps DEF Send, UseProbe, Gone
<1>4. Counted \subseteq ents /\ ents \subseteq Pkt /\ pn \notin Counted /\ Counted \subseteq Pkt
  BY <1>2, CountedAreEnts DEF RtbInv
<1>5. num_retransmittable' = Cardinality(Counted') /\ num_retransmittable' \in Nat
  <2>1. IsFiniteSet(Counted) /\ num_retransmittable = Cardinality(Counted)
    BY <1>4, EntsFinite DEF RtbInv, CountersExact
  <2> QED
    BY <1>2, <1>3, <1>4, <2>1, CountMore
<1>6. TypeOK'
  <2>1. /\ queue' \subseteq Item /\ submitted' \subseteq Item /\ probe_pkt_left' \in 0 .. 2
        /\ lost' \subseteq ents' /\ reclaimed' \subseteq ents'
    BY <1>1, <1>2, <1>3 DEF RtbInv, TypeOK
  <2> QED
    BY <1>2, <1>3, <1>5, <2>1 DEF RtbInv, TypeOK
<1>7. Known'
  <2>1. /\ queue \cup acked \cup moot \cup Reset \subseteq submitted
        /\ \A p \in Pkt : frc[p] \subseteq submitted
    BY DEF RtbInv, Known
  <2>2. \A p \in Pkt : frc'[p] \subseteq submitted'
    BY <1>2, <1>3, <2>1
  <2> QED
    BY <1>2, <1>3, <2>1, <2>2 DEF Known
<1>8. CountersExact'
  BY <1>2, <1>3, <1>5 DEF RtbInv, CountersExact
<1>9. NoItemLost'
  <2> SUFFICES ASSUME NEW i \in submitted' \ Settled'
               PROVE  i \in queue' \/ \E p \in Counted' : i \in frc'[p]
    BY DEF NoItemLost
  <2>1. i \in R \cup N \/ i \in queue' \/ \E p \in Counted : i \in frc[p]
    BY <1>3 DEF RtbInv, NoItemLost, Settled
  <2> QED
    BY <1>2, <1>4, <2>1
<1>10. UniqueOwner'
  <2>1. \A p \in Counted : /\ frc'[p] = frc[p] /\ frc[p] \cap queue \subseteq Gone
                           /\ frc[p] \subseteq submitted
    BY <1>2, <1>4 DEF RtbInv, UniqueOwner, Known
  <2>2. queue \subseteq submitted
    BY DEF RtbInv, Known
  <2>3. \A p \in Counted : frc'[p] \cap frc'[pn] \subseteq Gone'
    BY <1>2, <1>3, <2>1
  <2>4. \A p \in Counted' : frc'[p] \cap queue' \subseteq Gone'
    BY <1>2, <1>3, <2>1, <2>2
  <2>5. \A p, q \in Counted : p # q => frc'[p] \cap frc'[q] \subseteq Gone'
    BY <1>3, <2>1 DEF RtbInv, UniqueOwner
  <2> QED
    BY <1>2, <2>3, <2>4, <2>5 DEF UniqueOwner
<1>11. TimerArmed'
  BY <1>3 DEF TimerArmed
<1> QED
  BY <1>2, <1>6, <1>7, <1>8, <1>9, <1>10, <1>11 DEF RtbInv

\* What reclaim_frame takes, item by item.
LEMMA ItemsAre ==
  ASSUME NEW P
  PROVE  \A i : i \in ItemsOf(P) <=> i \notin acked /\ \E p \in P : i \in frc[p]
<1>1. ASSUME NEW i \in ItemsOf(P)
      PROVE  i \notin acked /\ \E p \in P : i \in frc[p]
  BY <1>1 DEF ItemsOf
<1>2. ASSUME NEW p \in P, NEW i \in frc[p], i \notin acked
      PROVE  i \in ItemsOf(P)
  BY <1>2 DEF ItemsOf
<1> QED
  BY <1>1, <1>2

\* A packet that carries items taken back from older ones.
LEMMA SendProbeInv ==
  ASSUME RtbInv, NEW R \in SUBSET Item, SendProbe(R)
  PROVE  RtbInv'
<1> DEFINE pn == last_pkt_num'
<1>1. PICK m \in Rounds :
        /\ R \subseteq ItemsOf(ReclaimedIn(m)) \ moot
        /\ reclaimed' = reclaimed \cup ReclaimedIn(m)
        /\ queue' = ItemsOf(ReclaimedIn(m)) \ (R \cup moot)
        /\ num_retransmittable' = num_retransmittable - Cardinality(ReclaimedIn(m)) + 1
        /\ SetLossDetectionTimer(num_retransmittable - Cardinality(ReclaimedIn(m)) + 1)
  BY DEF SendProbe
<1> DEFINE took == ReclaimedIn(m)
<1>2. /\ took \subseteq Counted /\ Counted \subseteq ents /\ ents \subseteq Pkt
      /\ IsFiniteSet(Counted) /\ num_retransmittable = Cardinality(Counted)
  BY CountedAreEnts, EntsFinite DEF ReclaimedIn, OldestProductive, RtbInv, CountersExact
<1> HIDE DEF took
<1>3. \A i : i \in ItemsOf(took) <=> i \notin acked /\ \E p \in took : i \in frc[p]
  BY ItemsAre
<1>4. /\ Probing /\ R # {} /\ NextPkt /\ TrackPkt(R, TRUE) /\ queue \subseteq Gone
      /\ R \subseteq ItemsOf(took) \ moot
      /\ reclaimed' = reclaimed \cup took /\ queue' = ItemsOf(took) \ (R \cup moot)
      /\ lost' = lost /\ num_lost_pkts' = num_lost_pkts /\ largest_acked' = largest_acked
      /\ cc_pkt_num' = cc_pkt_num /\ loss_time' = loss_time /\ aborted' = aborted
      /\ submitted' = submitted /\ acked' = acked /\ moot' = moot /\ Gone' = Gone
      /\ resets' = resets /\ Reset' = Reset /\ Settled' = Settled
      /\ probe_pkt_left' = (IF probe_pkt_left > 0 THEN probe_pkt_left - 1 ELSE 0)
  BY <1>1, SettledKeeps DEF SendProbe, Probing, itemVars, UseProbe, Gone, took
<1>5. /\ pn \in Pkt /\ pn \notin ents /\ ents' \subseteq 0 .. pn /\ ents' = ents \cup {pn}
      /\ elicits' \subseteq ents' /\ frc' \in [Pkt -> SUBSET Item] /\ frc'[pn] = R
      /\ \A p \in Pkt \ {pn} : frc'[p] = frc[p]
      /\ Counted' = (Counted \ took) \cup {pn}
      /\ LostAreOldest'
      /\ num_ack_eliciting' \in Nat /\ num_ack_eliciting' = Cardinality(elicits' \ lost')
      /\ bytes_in_flight' \in Nat
      /\ bytes_in_flight' = Cardinality({p \in ents' \ lost' : p >= cc_pkt_num'})
      /\ cc_pkt_num' <= pn + 1
  <2>1. reclaimed' \subseteq ents
    BY <1>2, <1>4 DEF RtbInv, TypeOK
  <2>2. Counted \ reclaimed' = Counted \ took
    BY <1>4 DEF Counted
  <2> QED
    BY <1>4, <2>1, <2>2, TrackPktAdds
<1>6. /\ num_retransmittable' = Cardinality(Counted') /\ num_retransmittable' \in Nat
      /\ num_retransmittable' > 0 => timer' /\ timer' \in BOOLEAN
      /\ timer' \in BOOLEAN /\ pathReset' \in BOOLEAN
  <2>1. /\ Cardinality(Counted \ took) = num_retransmittable - Cardinality(took)
        /\ IsFiniteSet(Counted \ took)
    BY <1>2, CountLess, FS_Difference
  <2>2. pn \notin Counted \ took
    BY <1>2, <1>5
  <2>3. /\ num_retransmittable - Cardinality(took) + 1 = Cardinality(Counted')
        /\ Cardinality(Counted') \in Nat
    BY <1>5, <2>1, <2>2, CountMore
  <2> QED
    BY <1>1, <2>3, TimerIsSet DEF took
<1>7. /\ \A p \in Counted : frc[p] \subseteq submitted /\ frc[p] \subseteq Item
      /\ \A p \in Counted : frc'[p] = frc[p]
      /\ R \subseteq submitted /\ queue' \subseteq submitted /\ queue' \subseteq Item
  BY <1>2, <1>3, <1>4, <1>5 DEF RtbInv, TypeOK, Known
<1>8. TypeOK'
  <2>1. /\ probe_pkt_left' \in 0 .. 2 /\ lost' \subseteq ents' /\ reclaimed' \subseteq ents'
    BY <1>2, <1>4, <1>5 DEF RtbInv, TypeOK
  <2> QED
    BY <1>4, <1>5, <1>6, <1>7, <2>1 DEF RtbInv, TypeOK
<1>9. Known'
  BY <1>4, <1>5, <1>7 DEF RtbInv, Known
<1>10. CountersExact'
  BY <1>4, <1>5, <1>6 DEF RtbInv, CountersExact
<1>11. NoItemLost'
  <2> SUFFICES ASSUME NEW i \in submitted' \ Settled'
               PROVE  i \in queue' \/ \E p \in Counted' : i \in frc'[p]
    BY DEF NoItemLost
  <2>1. PICK p \in Counted : i \in frc[p]
    BY <1>4 DEF RtbInv, NoItemLost, Settled
  <2>2. i \notin acked /\ i \notin moot
    BY <1>4 DEF Gone, Settled
  <2> QED
    BY <1>3, <1>4, <1>5, <1>7, <2>1, <2>2
<1>12. UniqueOwner'
  <2>1. \A p, q \in Counted : p # q => frc[p] \cap frc[q] \subseteq Gone
    BY DEF RtbInv, UniqueOwner
  <2>2. \A p \in Counted \ took : frc'[p] \cap ItemsOf(took) \subseteq Gone'
    BY <1>2, <1>3, <1>4, <1>7, <2>1
  <2>3. \A p \in Counted' : frc'[p] \cap queue' \subseteq Gone'
    BY <1>4, <1>5, <2>2
  <2>4. \A p \in Counted \ took : frc'[p] \cap frc'[pn] \subseteq Gone'
    BY <1>4, <1>5, <2>2
  <2>5. \A p, q \in Counted \ took : p # q => frc'[p] \cap frc'[q] \subseteq Gone'
    BY <1>4, <1>7, <2>1
  <2> QED
    BY <1>5, <2>3, <2>4, <2>5 DEF UniqueOwner
<1> QED
  BY <1>5, <1>6, <1>8, <1>9, <1>10, <1>11, <1>12 DEF RtbInv, TimerArmed

\* A packet without items, or none, leaves what is counted and carried alone.
LEMMA WriteEmptyKeeps ==
  ASSUME RtbInv, NEW kind \in EmptyKind, WriteEmpty(kind), lost' = lost,
         cc_pkt_num' = cc_pkt_num, reclaimed \subseteq reclaimed', reclaimed' \subseteq ents
  PROVE  /\ last_pkt_num' \in Pkt \cup {-1} /\ ents' \subseteq 0 .. last_pkt_num'
         /\ ents \subseteq ents' /\ elicits' \subseteq ents' /\ frc' \in [Pkt -> SUBSET Item]
         /\ \A p \in Pkt : frc'[p] \subseteq frc[p]
         /\ \A p \in ents : frc'[p] = frc[p]
         /\ Counted' = Counted \ reclaimed'
         /\ LostAreOldest'
         /\ num_ack_eliciting' \in Nat /\ num_ack_eliciting' = Cardinality(elicits' \ lost')
         /\ bytes_in_flight' \in Nat
         /\ bytes_in_flight' = Cardinality({p \in ents' \ lost' : p >= cc_pkt_num'})
         /\ cc_pkt_num' <= last_pkt_num' + 1
<1>1. CASE kind \in Tracked
  <2>1. NextPkt /\ TrackPkt({}, kind = "ping")
    BY <1>1 DEF WriteEmpty, Tracked
  <2>2. (kind = "ping") \in BOOLEAN
    OBVIOUS
  <2>3. /\ last_pkt_num' \in Pkt /\ last_pkt_num' \notin ents
        /\ ents' \subseteq 0 .. last_pkt_num' /\ ents' = ents \cup {last_pkt_num'}
        /\ elicits' \subseteq ents'
        /\ frc' \in [Pkt -> SUBSET Item] /\ frc'[last_pkt_num'] = {}
        /\ \A p \in Pkt \ {last_pkt_num'} : frc'[p] = frc[p]
        /\ Counted' = Counted \ reclaimed'
        /\ LostAreOldest'
        /\ num_ack_eliciting' \in Nat /\ num_ack_eliciting' = Cardinality(elicits' \ lost')
        /\ bytes_in_flight' \in Nat
        /\ bytes_in_flight' = Cardinality({p \in ents' \ lost' : p >= cc_pkt_num'})
        /\ cc_pkt_num' <= last_pkt_num' + 1
    BY <2>1, <2>2, TrackPktAdds
  <2>4. ents \subseteq Pkt
    BY CountedAreEnts DEF RtbInv
  <2> QED
    BY <2>3, <2>4
<1>2. CASE kind \notin Tracked
  <2>1. /\ UNCHANGED <<ents, frc, elicits, bytes_in_flight, num_ack_eliciting>>
        /\ last_pkt_num' = last_pkt_num \/ NextPkt
    BY <1>2 DEF WriteEmpty
  <2>2. /\ last_pkt_num' \in Pkt \cup {-1} /\ ents' \subseteq 0 .. last_pkt_num'
        /\ cc_pkt_num' <= last_pkt_num' + 1
    BY <2>1, RtbAssumption DEF RtbInv, TypeOK, Known, NextPkt, Pkt
  <2>3. Counted' = Counted \ reclaimed'
    BY <2>1 DEF Counted, Retransmittable
  <2>4. /\ elicits' \subseteq ents' /\ frc' \in [Pkt -> SUBSET Item]
        /\ num_ack_eliciting' \in Nat /\ bytes_in_flight' \in Nat
    BY <2>1 DEF RtbInv, TypeOK
  <2>5. LostAreOldest' /\ num_ack_eliciting' = Cardinality(elicits' \ lost')
        /\ bytes_in_flight' = Cardinality({p \in ents' \ lost' : p >= cc_pkt_num'})
    BY <2>1 DEF RtbInv, LostAreOldest, CountersExact
  <2> QED
    BY <2>1, <2>2, <2>3, <2>4, <2>5
<1> QED
  BY <1>1, <1>2

\* A packet without items, when nothing is worth sending.
LEMMA SendEmptyInv ==
  ASSUME RtbInv, NEW kind \in EmptyKind, SendEmpty(kind)
  PROVE  RtbInv'
<1>1. /\ WriteEmpty(kind) /\ UNCHANGED <<lost, reclaimed, num_retransmittable, num_lost_pkts,
             largest_acked, cc_pkt_num, loss_time, submitted, acked, moot, resets, aborted>>
      /\ Gone' = Gone /\ Reset' = Reset /\ Settled' = Settled
      /\ queue' \subseteq queue /\ queue \subseteq queue' \cup Gone
  BY SettledKeeps DEF SendEmpty, itemVars, Gone
<1>2. /\ last_pkt_num' \in Pkt \cup {-1} /\ ents' \subseteq 0 .. last_pkt_num'
      /\ ents \subseteq ents' /\ elicits' \subseteq ents' /\ frc' \in [Pkt -> SUBSET Item]
      /\ \A p \in Pkt : frc'[p] \subseteq frc[p]
      /\ \A p \in ents : frc'[p] = frc[p]
      /\ Counted' = Counted
      /\ LostAreOldest'
      /\ num_ack_eliciting' \in Nat /\ num_ack_eliciting' = Cardinality(elicits' \ lost')
      /\ bytes_in_flight' \in Nat
      /\ bytes_in_flight' = Cardinality({p \in ents' \ lost' : p >= cc_pkt_num'})
      /\ cc_pkt_num' <= last_pkt_num' + 1
  <2>1. Counted \ reclaimed = Counted
    BY DEF Counted
  <2> QED
    BY <1>1, <2>1, WriteEmptyKeeps DEF RtbInv, TypeOK
<1>3. Counted \subseteq ents /\ \A p \in Counted : frc'[p] = frc[p]
  BY <1>2, CountedAreEnts DEF RtbInv
<1>4. /\ timer' \in BOOLEAN /\ pathReset' \in BOOLEAN /\ TimerArmed'
  <2>1. CASE kind \in Tracked
    <3>1. SetLossDetectionTimer(num_retransmittable) /\ num_retransmittable \in Int
      BY <2>1 DEF SendEmpty, RtbInv, TypeOK
    <3> QED
      BY <1>1, <3>1, TimerIsSet DEF TimerArmed
  <2>2. CASE kind \notin Tracked
    BY <1>1, <2>2 DEF SendEmpty, TimerArmed, RtbInv, TypeOK
  <2> QED
    BY <2>1, <2>2
<1>5. probe_pkt_left' \in 0 .. 2
  BY DEF SendEmpty, UseProbe, RtbInv, TypeOK
<1>6. TypeOK'
  BY <1>1, <1>2, <1>4, <1>5 DEF RtbInv, TypeOK
<1>7. Known'
  BY <1>1, <1>2 DEF RtbInv, Known
<1>8. CountersExact'
  BY <1>1, <1>2 DEF RtbInv, CountersExact
<1>9. NoItemLost' /\ UniqueOwner'
  BY <1>1, <1>2, <1>3 DEF RtbInv, NoItemLost, UniqueOwner, Settled
<1> QED
  BY <1>2, <1>4, <1>6, <1>7, <1>8, <1>9 DEF RtbInv

\* A probe that finds only what is no longer worth sending.
LEMMA ProbeMootInv ==
  ASSUME RtbInv, NEW kind \in EmptyKind, ProbeMoot(kind)
  PROVE  RtbInv'
<1>1. /\ WriteEmpty(kind) /\ UNCHANGED <<lost, num_lost_pkts, largest_acked, cc_pkt_num,
             loss_time, submitted, acked, moot, resets, aborted>>
      /\ Gone' = Gone /\ Reset' = Reset /\ Settled' = Settled /\ queue' = {} /\ reclaimed' = reclaimed \cup Counted
      /\ num_retransmittable' = num_retransmittable - Cardinality(Counted)
      /\ queue \subseteq Gone /\ ItemsOf(Counted) \subseteq moot
  BY SettledKeeps DEF ProbeMoot, Probing, itemVars, Gone
<1>2. /\ last_pkt_num' \in Pkt \cup {-1} /\ ents' \subseteq 0 .. last_pkt_num'
      /\ ents \subseteq ents' /\ elicits' \subseteq ents' /\ frc' \in [Pkt -> SUBSET Item]
      /\ \A p \in Pkt : frc'[p] \subseteq frc[p]
      /\ Counted' = {} /\ reclaimed' \subseteq ents
      /\ LostAreOldest'
      /\ num_ack_eliciting' \in Nat /\ num_ack_eliciting' = Cardinality(elicits' \ lost')
      /\ bytes_in_flight' \in Nat
      /\ bytes_in_flight' = Cardinality({p \in ents' \ lost' : p >= cc_pkt_num'})
      /\ cc_pkt_num' <= last_pkt_num' + 1
  <2>1. Counted \ reclaimed' = {} /\ reclaimed' \subseteq ents
    BY <1>1, CountedAreEnts DEF RtbInv, TypeOK
  <2> QED
    BY <1>1, <2>1, WriteEmptyKeeps
<1>3. num_retransmittable' = 0 /\ num_retransmittable' = Cardinality(Counted')
  <2>1. num_retransmittable = Cardinality(Counted) /\ num_retransmittable \in Nat
    BY DEF RtbInv, CountersExact, TypeOK
  <2> QED
    BY <1>1, <1>2, <2>1, FS_EmptySet
<1>4. timer' \in BOOLEAN /\ pathReset' \in BOOLEAN
  <2>1. CASE CalledOff \/ kind \in Tracked
    <3>1. SetLossDetectionTimer(num_retransmittable')
      BY <2>1, Zenon DEF ProbeMoot
    <3> QED
      BY <1>3, <3>1, TimerIsSet
  <2>2. CASE ~(CalledOff \/ kind \in Tracked)
    <3>1. UNCHANGED <<timer, pathReset>>
      BY <2>2, Zenon DEF ProbeMoot
    <3> QED
      BY <3>1 DEF RtbInv, TypeOK
  <2> QED
    BY <2>1, <2>2
<1>5. probe_pkt_left' \in 0 .. 2
  <2>1. probe_pkt_left > 0 /\ probe_pkt_left \in 0 .. 2
    BY DEF ProbeMoot, Probing, RtbInv, TypeOK
  <2>2. probe_pkt_left' \in {0, probe_pkt_left - 1, probe_pkt_left}
    BY DEF ProbeMoot
  <2> QED
    BY <2>1, <2>2
<1>6. TypeOK'
  <2>1. lost' \subseteq ents' /\ reclaimed' \subseteq ents'
    <3>1. lost \subseteq ents
      BY DEF RtbInv, TypeOK
    <3> QED
      BY <1>1, <1>2, <3>1
  <2>2. num_retransmittable' \in Nat
    BY <1>3
  <2> QED
    BY <1>1, <1>2, <1>4, <1>5, <2>1, <2>2 DEF RtbInv, TypeOK
<1>7. Known'
  BY <1>1, <1>2 DEF RtbInv, Known
<1>8. CountersExact'
  BY <1>1, <1>2, <1>3 DEF RtbInv, CountersExact
<1>9. NoItemLost' /\ UniqueOwner'
  <2>1. \A i \in submitted \ Settled : \E p \in Counted : i \in frc[p]
    BY <1>1 DEF RtbInv, NoItemLost, Settled
  <2>2. submitted \ Settled = {}
    <3>1. \A i : i \in ItemsOf(Counted) <=> i \notin acked /\ \E p \in Counted : i \in frc[p]
      BY ItemsAre
    <3> QED
      BY <1>1, <2>1, <3>1 DEF Gone, Settled
  <2> QED
    BY <1>1, <1>2, <2>2 DEF NoItemLost, UniqueOwner
<1> QED
  BY <1>2, <1>3, <1>6, <1>7, <1>8, <1>9 DEF RtbInv, TimerArmed

-----------------------------------------------------------------------------
\* The loss scan judges the oldest of the entries that are left and not lost,
\* because those already lost, where it stops, are older than all others.
LEMMA JudgedAreOldest ==
  ASSUME RtbInv, NEW D \in SUBSET ents, NEW largest \in Int,
         NEW judged \in LossOutcomes(D, largest)
  PROVE  /\ judged \subseteq ents \ (D \cup lost)
         /\ \A p \in judged, q \in ents \ (D \cup lost \cup judged) : p < q
<1> DEFINE examined == Examined(D, largest)
<1>1. \A p, q \in ents : p \in Int /\ q \in Int
  BY CountedAreEnts, RtbAssumption DEF RtbInv, Pkt
<1>2. /\ examined \subseteq ents \ (D \cup lost)
      /\ \A q \in ents \ (D \cup lost) : q \in examined \/ ~(q <= largest)
      /\ \A p \in examined : p <= largest
  BY DEF Examined, RtbInv, LostAreOldest
<1>3. PICK cut : judged = JudgedLost(D, largest, cut)
  BY DEF LossOutcomes
<1>4. PICK late \in SUBSET examined : judged = {p \in examined : \E q \in late : p <= q}
  <2>1. judged = {p \in examined : \E q \in {r \in examined : r <= cut \/ largest >= r + PktThres(D)} :
                                     p <= q}
    BY <1>3 DEF JudgedLost
  <2> HIDE DEF examined
  <2>2. {r \in examined : r <= cut \/ largest >= r + PktThres(D)} \in SUBSET examined
    OBVIOUS
  <2> QED
    BY <2>1, <2>2
<1> HIDE DEF examined
<1>5. \A p \in judged, q \in ents \ (D \cup lost \cup judged) : p < q
  <2> TAKE p \in judged, q \in ents \ (D \cup lost \cup judged)
  <2>1. PICK r \in late : p <= r
    BY <1>4
  <2>2. /\ p \in examined /\ r \in examined /\ r \in Int /\ p \in Int /\ q \in Int
        /\ p <= largest
    BY <1>1, <1>2, <1>4
  <2>3. CASE q \in examined
    BY <1>4, <2>1, <2>2, <2>3
  <2>4. CASE ~(q <= largest)
    BY <2>2, <2>4
  <2> QED
    BY <1>2, <2>3, <2>4
<1> QED
  BY <1>2, <1>4, <1>5

\* The number of lost entries that may be kept is positive.
LEMMA ThresIs ==
  ASSUME RtbInv, NEW D \in SUBSET ents
  PROVE  PktThres(D) \in Nat \ {0}
<1>1. {p \in D \ lost : p >= cc_pkt_num} \subseteq ents
  OBVIOUS
<1>2. BytesOf(D) \in Nat
  BY <1>1, EntsFinite DEF BytesOf, RtbInv
<1>3. (bytes_in_flight - BytesOf(D)) \div 2 \in Int
  BY <1>2 DEF RtbInv, TypeOK
<1> QED
  BY <1>3, RtbAssumption DEF PktThres

\* What is queued again, item by item.
LEMMA RequeuedAre ==
  ASSUME NEW J, NEW done
  PROVE  \A i : i \in Requeued(J, done) <=> i \notin done /\ \E p \in J \ reclaimed : i \in frc[p]
<1>1. ASSUME NEW i \in Requeued(J, done)
      PROVE  i \notin done /\ \E p \in J \ reclaimed : i \in frc[p]
  BY <1>1 DEF Requeued
<1>2. ASSUME NEW p \in J \ reclaimed, NEW i \in frc[p], i \notin done
      PROVE  i \in Requeued(J, done)
  BY <1>2 DEF Requeued
<1> QED
  BY <1>1, <1>2

\* The entries an ACK frame or the loss timer leaves: those declared lost are
\* the oldest, so what is dropped by number is lost, and all the rest stays.
LEMMA DetectLostEnts ==
  ASSUME RtbInv, NEW D \in SUBSET ents, NEW largest \in Int,
         NEW judged \in LossOutcomes(D, largest), NEW done,
         RemoveAndDetectLost(D, largest, judged, done)
  PROVE  /\ ents' \subseteq ents /\ lost' \subseteq ents' /\ reclaimed' = reclaimed \cap ents'
         /\ elicits' = elicits \cap ents'
         /\ frc' = [p \in Pkt |-> IF p \in ents' THEN frc[p] ELSE {}]
         /\ ents' \ lost' = (ents \ lost) \ (D \cup judged)
         /\ LostAreOldest'
         /\ num_lost_pkts' = Cardinality(lost') /\ num_lost_pkts' \in Nat
<1> DEFINE kept == {p \in judged : p \in reclaimed \/ frc[p] \ done # {}}
           before == (lost \ D) \cup kept
           rest == ents \ (D \cup (judged \ kept))
           numLost == num_lost_pkts - Cardinality(D \cap lost) + Cardinality(kept)
           room == numLost - PktThres(D)
           excess == IF room > 0 THEN {p \in rest : Cardinality({q \in rest : q <= p}) <= room}
                     ELSE {}
           left == rest \ excess
<1>1. /\ ents' = left /\ frc' = [p \in Pkt |-> IF p \in left THEN frc[p] ELSE {}]
      /\ elicits' = elicits \cap left /\ reclaimed' = reclaimed \cap left
      /\ lost' = (lost \cup kept) \cap left /\ num_lost_pkts' = numLost - Cardinality(excess)
  BY DEF RemoveAndDetectLost
<1>2. /\ lost \subseteq ents /\ num_lost_pkts = Cardinality(lost)
      /\ \A p \in lost, q \in ents \ lost : p < q
      /\ ents \subseteq Int
  BY CountedAreEnts, RtbAssumption DEF RtbInv, TypeOK, LostAreOldest, CountersExact, Pkt
<1>3. /\ judged \subseteq ents \ (D \cup lost)
      /\ \A p \in judged, q \in ents \ (D \cup lost \cup judged) : p < q
  BY JudgedAreOldest
<1>4. kept \subseteq judged
  OBVIOUS
<1> HIDE DEF kept
<1>5. numLost = Cardinality(before) /\ IsFiniteSet(before)
  <2>1. /\ IsFiniteSet(lost) /\ IsFiniteSet(lost \ D) /\ IsFiniteSet(kept)
        /\ Cardinality(kept) \in Nat /\ Cardinality(lost) \in Nat
        /\ Cardinality(lost \ D) \in Nat
    BY <1>2, <1>3, <1>4, EntsFinite DEF RtbInv
  <2>2. Cardinality(lost \ D) = Cardinality(lost) - Cardinality(D \cap lost)
    <3>1. lost \ D = lost \ (D \cap lost) /\ D \cap lost \subseteq lost
      OBVIOUS
    <3> QED
      BY <2>1, <3>1, CountLess
  <2>3. (lost \ D) \cap kept = {}
    BY <1>3, <1>4
  <2>4. IsFiniteSet((lost \ D) \cup kept)
        /\ Cardinality((lost \ D) \cup kept) = Cardinality(lost \ D) + Cardinality(kept)
    <3>1. /\ IsFiniteSet((lost \ D) \cup kept)
          /\ Cardinality((lost \ D) \cup kept) = Cardinality(lost \ D) + Cardinality(kept)
                                                   - Cardinality((lost \ D) \cap kept)
      BY <2>1, FS_Union
    <3>2. Cardinality((lost \ D) \cap kept) = 0
      BY <2>3, FS_EmptySet
    <3> QED
      BY <2>1, <3>1, <3>2
  <2>5. Cardinality(D \cap lost) \in Nat
    BY EntsFinite DEF RtbInv
  <2> QED
    BY <1>2, <2>1, <2>2, <2>4, <2>5
<1>6. /\ before \subseteq rest /\ rest \subseteq ents
      /\ \A p \in before, q \in rest \ before : p < q
  BY <1>2, <1>3, <1>4
<1>7. excess \subseteq before
  <2> SUFFICES ASSUME NEW p \in excess, p \notin before
               PROVE  FALSE
    OBVIOUS
  <2>1. /\ p \in rest /\ Cardinality({q \in rest : q <= p}) <= room
    OBVIOUS
  <2> HIDE DEF excess, rest, before, numLost
  <2>2. before \subseteq {q \in rest : q <= p}
    BY <1>2, <1>6, <2>1
  <2>3. IsFiniteSet({q \in rest : q <= p}) /\ Cardinality({q \in rest : q <= p}) \in Nat
    <3>1. {q \in rest : q <= p} \subseteq ents
      BY <1>6
    <3> QED
      BY <3>1, EntsFinite DEF RtbInv
  <2>4. Cardinality(before) <= Cardinality({q \in rest : q <= p}) /\ Cardinality(before) \in Nat
    BY <1>5, <2>2, <2>3, FS_Subset, FS_CardinalityType
  <2>5. PktThres(D) \in Nat \ {0}
    BY ThresIs
  <2> QED
    BY <1>5, <2>1, <2>3, <2>4, <2>5
<1> HIDE DEF excess, numLost
<1>8. lost' = before \ excess
  BY <1>1, <1>6
<1>9. num_lost_pkts' = Cardinality(lost') /\ num_lost_pkts' \in Nat
  BY <1>1, <1>5, <1>7, <1>8, CountLess
<1>10. ents' \ lost' = (ents \ lost) \ (D \cup judged)
  <2>1. ents' \ lost' = rest \ before
    BY <1>1, <1>7, <1>8
  <2> QED
    BY <2>1, <1>3, <1>4
<1>11. LostAreOldest'
  <2>1. lost' \subseteq before /\ ents' \ lost' \subseteq rest \ before
    BY <1>1, <1>7, <1>8
  <2> QED
    BY <1>6, <2>1 DEF LostAreOldest
<1> QED
  BY <1>1, <1>6, <1>8, <1>9, <1>10, <1>11

\* An ACK frame or the loss timer keeps the invariant, whatever it acknowledges
\* and whatever the time threshold is.
LEMMA DetectLostInv ==
  ASSUME RtbInv, NEW D \in SUBSET ents, NEW largest \in Int,
         NEW judged \in LossOutcomes(D, largest), NEW done \in SUBSET submitted,
         RemoveAndDetectLost(D, largest, judged, done),
         acked \subseteq done, \A p \in D : frc[p] \subseteq done,
         acked' = done, moot' = moot, submitted' = submitted, resets' = resets,
         cc_pkt_num' = cc_pkt_num, last_pkt_num' = last_pkt_num
  PROVE  /\ ents' \subseteq 0 .. last_pkt_num' /\ lost' \subseteq ents' /\ reclaimed' \subseteq ents'
         /\ elicits' \subseteq ents' /\ frc' \in [Pkt -> SUBSET Item]
         /\ queue' \subseteq Item /\ acked' \subseteq Item /\ loss_time' \in BOOLEAN
         /\ num_ack_eliciting' \in Nat /\ num_retransmittable' \in Nat
         /\ num_lost_pkts' \in Nat /\ bytes_in_flight' \in Nat
         /\ Known' /\ LostAreOldest' /\ CountersExact' /\ NoItemLost' /\ UniqueOwner'
         /\ Counted' = Counted \ (D \cup judged)
         /\ \A p \in Counted' : frc'[p] = frc[p]
<1> DEFINE gone == D \cup judged
<1>1. /\ ents' \subseteq ents /\ lost' \subseteq ents' /\ reclaimed' = reclaimed \cap ents'
      /\ elicits' = elicits \cap ents'
      /\ frc' = [p \in Pkt |-> IF p \in ents' THEN frc[p] ELSE {}]
      /\ ents' \ lost' = (ents \ lost) \ gone
      /\ LostAreOldest'
      /\ num_lost_pkts' = Cardinality(lost') /\ num_lost_pkts' \in Nat
  BY DetectLostEnts
<1>2. /\ num_ack_eliciting' = num_ack_eliciting - Cardinality((gone \cap elicits) \ lost)
      /\ num_retransmittable' = num_retransmittable - Cardinality(gone \cap Counted)
      /\ bytes_in_flight' = bytes_in_flight - BytesOf(gone)
      /\ queue' = queue \cup Requeued(judged, done)
  BY DEF RemoveAndDetectLost
<1>3. loss_time' \in BOOLEAN
  <2>1. loss_time' = (Examined(D, largest) # judged)
    BY DEF RemoveAndDetectLost
  <2> QED
    BY <2>1, Zenon
<1>4. /\ ents \subseteq 0 .. last_pkt_num /\ elicits \subseteq ents /\ lost \subseteq ents
      /\ frc \in [Pkt -> SUBSET Item] /\ queue \subseteq Item /\ submitted \subseteq Item
      /\ ents \subseteq Pkt /\ Counted \subseteq ents
      /\ queue \cup acked \cup moot \cup Reset \subseteq submitted
      /\ \A p \in Pkt : frc[p] \subseteq submitted
  BY CountedAreEnts DEF RtbInv, TypeOK, Known
<1>5. /\ judged \subseteq ents \ (D \cup lost) /\ gone \subseteq ents
  BY JudgedAreOldest
<1> HIDE DEF gone
<1>6. /\ frc' \in [Pkt -> SUBSET Item]
      /\ \A p \in Pkt : frc'[p] \subseteq frc[p]
      /\ \A p \in ents' : frc'[p] = frc[p]
  BY <1>1, <1>4
<1>7. Counted' = Counted \ gone
  <2>1. \A p : p \in Counted <=> p \in ents \ lost /\ frc[p] # {} /\ p \notin reclaimed
    BY DEF Counted, Retransmittable
  <2>2. \A p : p \in Counted' <=> p \in ents' \ lost' /\ frc'[p] # {} /\ p \notin reclaimed'
    BY DEF Counted, Retransmittable
  <2>3. \A p \in ents' \ lost' : frc'[p] = frc[p] /\ (p \in reclaimed' <=> p \in reclaimed)
    BY <1>1, <1>6
  <2>4. ents' \ lost' = (ents \ lost) \ gone
    BY <1>1
  <2>5. \A p : p \in Counted' <=> p \in Counted /\ p \notin gone
    BY <2>1, <2>2, <2>3, <2>4
  <2> QED
    BY <2>5
<1>8. \A p \in Counted' : p \in ents' /\ frc'[p] = frc[p]
  <2>1. Counted' \subseteq ents'
    BY DEF Counted, Retransmittable
  <2> QED
    BY <1>6, <2>1
<1>9. /\ num_retransmittable' = Cardinality(Counted') /\ num_retransmittable' \in Nat
  <2>1. IsFiniteSet(Counted) /\ num_retransmittable = Cardinality(Counted)
    BY <1>4, EntsFinite DEF RtbInv, CountersExact
  <2>2. Counted \ gone = Counted \ (gone \cap Counted) /\ gone \cap Counted \subseteq Counted
    OBVIOUS
  <2> QED
    BY <1>2, <1>7, <2>1, <2>2, CountLess
<1>10. /\ num_ack_eliciting' = Cardinality(elicits' \ lost') /\ num_ack_eliciting' \in Nat
  <2>1. IsFiniteSet(elicits \ lost) /\ num_ack_eliciting = Cardinality(elicits \ lost)
    BY <1>4, EntsFinite DEF RtbInv, CountersExact
  <2>2. /\ elicits' \ lost' = (elicits \ lost) \ ((gone \cap elicits) \ lost)
        /\ (gone \cap elicits) \ lost \subseteq elicits \ lost
    BY <1>1, <1>4
  <2> QED
    BY <1>2, <2>1, <2>2, CountLess
<1>11. /\ bytes_in_flight' = Cardinality({p \in ents' \ lost' : p >= cc_pkt_num'})
       /\ bytes_in_flight' \in Nat
  <2> DEFINE flight == {p \in ents \ lost : p >= cc_pkt_num}
             less == {p \in gone \ lost : p >= cc_pkt_num}
  <2>1. IsFiniteSet(flight) /\ bytes_in_flight = Cardinality(flight)
    BY EntsFinite DEF RtbInv, CountersExact
  <2>2. /\ {p \in ents' \ lost' : p >= cc_pkt_num'} = flight \ less
        /\ less \subseteq flight
    BY <1>1, <1>5
  <2>3. bytes_in_flight' = bytes_in_flight - Cardinality(less)
    BY <1>2 DEF BytesOf
  <2> HIDE DEF flight, less
  <2> QED
    BY <2>1, <2>2, <2>3, CountLess
<1>12. \A i : i \in queue' <=> i \in queue \/ (i \notin done /\ \E p \in judged \ reclaimed : i \in frc[p])
  BY <1>2, RequeuedAre
<1>13. \A i, p : p \in judged \ reclaimed /\ i \in frc[p] => p \in Counted
  BY <1>5 DEF Counted, Retransmittable
<1>14. queue' \subseteq Item /\ queue' \subseteq submitted
  <2>1. \A p \in judged : frc[p] \subseteq submitted
    BY <1>4, <1>5
  <2> QED
    BY <1>4, <1>12, <2>1
<1>15. Known'
  BY <1>4, <1>6, <1>14, SettledKeeps DEF Known, RtbInv
<1>16. /\ Gone' = done \cup moot /\ Gone \subseteq Gone'
       /\ Settled \subseteq Settled' /\ Gone' \subseteq Settled'
  BY SettledKeeps DEF Gone, Settled
<1>17. NoItemLost'
  <2> SUFFICES ASSUME NEW i \in submitted' \ Settled'
               PROVE  i \in queue' \/ \E p \in Counted' : i \in frc'[p]
    BY DEF NoItemLost
  <2>1. i \in queue \/ \E p \in Counted : i \in frc[p]
    BY <1>16 DEF RtbInv, NoItemLost
  <2>2. ASSUME NEW p \in Counted, i \in frc[p]
        PROVE  i \in queue' \/ p \in Counted'
    <3>1. p \notin D
      BY <1>16, <2>2
    <3>2. p \notin reclaimed
      BY DEF Counted
    <3> QED
      BY <1>7, <1>12, <1>16, <2>2, <3>1, <3>2 DEF gone
  <2> QED
    BY <1>8, <1>12, <2>1, <2>2
<1>18. UniqueOwner'
  <2>1. /\ \A p \in Counted : frc[p] \cap queue \subseteq Gone
        /\ \A p, q \in Counted : p # q => frc[p] \cap frc[q] \subseteq Gone
    BY DEF RtbInv, UniqueOwner
  <2>2. \A p \in Counted' : p \in Counted /\ p \notin judged
    BY <1>7 DEF gone
  <2>3. ASSUME NEW p \in Counted', NEW i \in frc'[p], i \in queue'
        PROVE  i \in Gone'
    <3>1. p \in Counted /\ p \notin judged /\ i \in frc[p]
      BY <1>8, <2>2, <2>3
    <3>2. CASE i \in queue
      BY <1>16, <2>1, <3>1, <3>2
    <3>3. CASE \E q \in judged \ reclaimed : i \in frc[q]
      BY <1>13, <1>16, <2>1, <3>1, <3>3
    <3> QED
      BY <1>12, <2>3, <3>2, <3>3
  <2>4. \A p, q \in Counted' : p # q => frc'[p] \cap frc'[q] \subseteq Gone'
    BY <1>8, <1>16, <2>1, <2>2
  <2> QED
    BY <2>3, <2>4 DEF UniqueOwner
<1>19. CountersExact'
  BY <1>1, <1>9, <1>10, <1>11 DEF CountersExact
<1>20. /\ ents' \subseteq 0 .. last_pkt_num' /\ reclaimed' \subseteq ents' /\ elicits' \subseteq ents'
       /\ acked' \subseteq Item
  BY <1>1, <1>4
<1> QED
  BY <1>1, <1>3, <1>6, <1>7, <1>8, <1>9, <1>10, <1>11, <1>14, <1>15, <1>17, <1>18, <1>19, <1>20
     DEF gone

\* A stream that may close was reset, and its data submitted.
LEMMA ClosableAreReset ==
  ASSUME RtbInv, NEW A, NEW d \in Closable(A), A \subseteq Item
  PROVE  d \in Reset /\ d \in submitted
<1>1. PICK b \in A : <<d, b>> \in resets
  BY DEF Closable
<1>2. d \in Data /\ b \in Ctrl
  BY <1>1 DEF RtbInv, TypeOK
<1> QED
  BY <1>1, <1>2 DEF Reset, RtbInv, Known

\* The streams an acknowledgement closes are among what was submitted.
LEMMA ClosableAreSubmitted ==
  ASSUME RtbInv, NEW D \in SUBSET ents
  PROVE  Closable(Acknowledged(D)) \subseteq submitted
<1>1. Acknowledged(D) \subseteq Item
  <2>1. (\A p \in D : frc[p] \subseteq Item) /\ acked \subseteq Item
    BY CountedAreEnts DEF RtbInv, TypeOK
  <2> QED
    BY <2>1 DEF Acknowledged
<1> QED
  BY <1>1, ClosableAreReset

\* An ACK frame: conn_recv_ack.
LEMMA RecvAckInv ==
  ASSUME RtbInv, NEW D \in SUBSET ents, NEW top \in 0 .. last_pkt_num,
         NEW C \in SUBSET Closable(Acknowledged(D)), RecvAck(D, top, C)
  PROVE  RtbInv'
<1> DEFINE largest == IF largest_acked < top THEN top ELSE largest_acked
           done == Acknowledged(D) \cup C
<1>1. /\ UNCHANGED <<last_pkt_num, cc_pkt_num, submitted, moot, resets, aborted>>
      /\ largest_acked' = largest
  BY DEF RecvAck
<1>2. largest \in Int /\ largest \in Pkt \cup {-1}
  BY RtbAssumption DEF RtbInv, TypeOK, Pkt
<1>3. CASE D = {}
  <2>1. UNCHANGED <<entVars, probe_pkt_left, loss_time, timer, queue, acked, pathReset>>
    BY <1>3 DEF RecvAck
  <2>2. TypeOK'
    BY <1>1, <1>2, <2>1 DEF RtbInv, TypeOK, entVars, counters
  <2>3. Known' /\ LostAreOldest' /\ CountersExact' /\ NoItemLost' /\ UniqueOwner' /\ TimerArmed'
    BY <1>1, <2>1
       DEF RtbInv, Known, LostAreOldest, CountersExact, NoItemLost, UniqueOwner, TimerArmed,
           Counted, Retransmittable, Gone, Reset, Settled, entVars, counters
  <2> QED
    BY <2>2, <2>3 DEF RtbInv
<1>4. CASE D # {}
  <2>1. PICK judged \in LossOutcomes(D, largest) : RemoveAndDetectLost(D, largest, judged, done)
    BY <1>4 DEF RecvAck
  <2>2. /\ acked' = done /\ probe_pkt_left' = 0 /\ SetLossDetectionTimer(num_retransmittable')
    BY <1>4 DEF RecvAck
  <2>3. /\ acked \subseteq done /\ done \subseteq submitted
        /\ \A p \in D : frc[p] \subseteq done
    <3>1. \A p \in D : frc[p] \subseteq submitted
      BY CountedAreEnts DEF RtbInv, Known
    <3>2. acked \subseteq submitted /\ C \subseteq submitted
      BY ClosableAreSubmitted DEF RtbInv, Known
    <3> QED
      BY <3>1, <3>2 DEF Acknowledged
  <2> HIDE DEF largest, done
  <2>4. /\ ents' \subseteq 0 .. last_pkt_num' /\ lost' \subseteq ents' /\ reclaimed' \subseteq ents'
        /\ elicits' \subseteq ents' /\ frc' \in [Pkt -> SUBSET Item]
        /\ queue' \subseteq Item /\ acked' \subseteq Item /\ loss_time' \in BOOLEAN
        /\ num_ack_eliciting' \in Nat /\ num_retransmittable' \in Nat
        /\ num_lost_pkts' \in Nat /\ bytes_in_flight' \in Nat
        /\ Known' /\ LostAreOldest' /\ CountersExact' /\ NoItemLost' /\ UniqueOwner'
    <3>1. /\ moot' = moot /\ submitted' = submitted /\ cc_pkt_num' = cc_pkt_num
          /\ resets' = resets /\ last_pkt_num' = last_pkt_num /\ done \in SUBSET submitted
      BY <1>1, <2>3
    <3> QED
      BY <1>2, <2>1, <2>2, <2>3, <3>1, DetectLostInv, Zenon
  <2>5. timer' \in BOOLEAN /\ pathReset' \in BOOLEAN /\ TimerArmed'
    BY <2>2, <2>4, TimerIsSet DEF TimerArmed
  <2>6. TypeOK'
    BY <1>1, <1>2, <2>2, <2>4, <2>5 DEF RtbInv, TypeOK
  <2> QED
    BY <2>4, <2>5, <2>6 DEF RtbInv
<1> QED
  BY <1>3, <1>4

\* The loss detection timer with a loss time set.
LEMMA OnLossTimeInv ==
  ASSUME RtbInv, OnLossTime
  PROVE  RtbInv'
<1>1. /\ UNCHANGED <<last_pkt_num, largest_acked, cc_pkt_num, probe_pkt_left, submitted, acked,
                     moot, resets, aborted>>
      /\ SetLossDetectionTimer(num_retransmittable')
  BY DEF OnLossTime, itemVars
<1>2. PICK judged \in LossOutcomes({}, largest_acked) :
        RemoveAndDetectLost({}, largest_acked, judged, acked)
  BY DEF OnLossTime
<1>3. acked \subseteq submitted /\ largest_acked \in Int
  BY RtbAssumption DEF RtbInv, Known, TypeOK, Pkt
<1>4. /\ ents' \subseteq 0 .. last_pkt_num' /\ lost' \subseteq ents' /\ reclaimed' \subseteq ents'
      /\ elicits' \subseteq ents' /\ frc' \in [Pkt -> SUBSET Item]
      /\ queue' \subseteq Item /\ acked' \subseteq Item /\ loss_time' \in BOOLEAN
      /\ num_ack_eliciting' \in Nat /\ num_retransmittable' \in Nat
      /\ num_lost_pkts' \in Nat /\ bytes_in_flight' \in Nat
      /\ Known' /\ LostAreOldest' /\ CountersExact' /\ NoItemLost' /\ UniqueOwner'
  <2>1. /\ moot' = moot /\ submitted' = submitted /\ cc_pkt_num' = cc_pkt_num
        /\ last_pkt_num' = last_pkt_num /\ acked' = acked /\ resets' = resets
        /\ {} \in SUBSET ents /\ acked \in SUBSET submitted /\ acked \subseteq acked
        /\ \A p \in {} : frc[p] \subseteq acked
    BY <1>1, <1>3
  <2> QED
    BY <1>2, <1>3, <2>1, DetectLostInv, Zenon
<1>5. timer' \in BOOLEAN /\ pathReset' \in BOOLEAN /\ TimerArmed'
  BY <1>1, <1>4, TimerIsSet DEF TimerArmed
<1>6. TypeOK'
  BY <1>1, <1>4, <1>5 DEF RtbInv, TypeOK
<1> QED
  BY <1>4, <1>5, <1>6 DEF RtbInv

-----------------------------------------------------------------------------
\* A control frame is asked for, or superseded.
LEMMA CtrlInv ==
  ASSUME RtbInv, NEW c \in Ctrl, QueueCtrl(c) \/ MakeMoot(c)
  PROVE  RtbInv'
<1>1. /\ UNCHANGED <<last_pkt_num, ents, frc, elicits, lost, reclaimed, num_ack_eliciting,
                     num_retransmittable, num_lost_pkts, bytes_in_flight, largest_acked,
                     cc_pkt_num, probe_pkt_left, loss_time, timer, acked, resets, aborted,
                     pathReset>>
      /\ Counted' = Counted /\ Reset' = Reset
  BY DEF QueueCtrl, MakeMoot, entVars, counters, Counted, Retransmittable, Reset
<1>2. /\ queue \cup acked \cup moot \cup Reset \subseteq submitted
      /\ \A p \in Counted : frc[p] \subseteq submitted
  BY CountedAreEnts DEF RtbInv, Known
<1>3. TypeOK'
  <2>1. queue' \subseteq Item /\ submitted' \subseteq Item /\ moot' \subseteq Ctrl
    BY DEF QueueCtrl, MakeMoot, RtbInv, TypeOK, Item
  <2> QED
    BY <1>1, <2>1 DEF RtbInv, TypeOK
<1>4. Known' /\ LostAreOldest' /\ CountersExact' /\ TimerArmed'
  <2>1. /\ submitted \subseteq submitted'
        /\ queue' \cup acked' \cup moot' \cup Reset' \subseteq submitted'
    BY <1>1, <1>2 DEF QueueCtrl, MakeMoot
  <2> QED
    BY <1>1, <2>1 DEF RtbInv, Known, LostAreOldest, CountersExact, TimerArmed
<1>5. CASE QueueCtrl(c)
  <2>1. c \notin submitted /\ submitted' = submitted \cup {c} /\ queue' = queue \cup {c}
        /\ Gone' = Gone /\ Settled' = Settled
    BY <1>5, SettledKeeps DEF QueueCtrl, Gone
  <2>2. NoItemLost'
    BY <1>1, <2>1 DEF RtbInv, NoItemLost
  <2>3. UniqueOwner'
    BY <1>1, <1>2, <2>1 DEF RtbInv, UniqueOwner
  <2> QED
    BY <1>3, <1>4, <2>2, <2>3 DEF RtbInv
<1>6. CASE MakeMoot(c)
  <2>1. /\ submitted' = submitted /\ queue' = queue /\ Gone \subseteq Gone'
        /\ Settled \subseteq Settled'
    BY <1>6, SettledKeeps DEF MakeMoot, Gone
  <2> QED
    BY <1>1, <1>3, <1>4, <2>1 DEF RtbInv, NoItemLost, UniqueOwner
<1> QED
  BY <1>5, <1>6

\* A stream is reset: its data is owed to the peer no longer.
LEMMA ResetStreamInv ==
  ASSUME RtbInv, NEW c \in Ctrl, NEW d \in Data, ResetStream(d, c)
  PROVE  /\ RtbInv' /\ Counted' = Counted /\ frc' = frc
         /\ Gone' = Gone /\ Settled' = Settled \cup {d} /\ queue' = (queue \ {d}) \cup {c}
<1>1. /\ UNCHANGED <<last_pkt_num, ents, frc, elicits, lost, reclaimed, num_ack_eliciting,
                     num_retransmittable, num_lost_pkts, bytes_in_flight, largest_acked,
                     cc_pkt_num, probe_pkt_left, loss_time, timer, acked, moot, aborted,
                     pathReset>>
      /\ Counted' = Counted /\ Gone' = Gone
      /\ submitted' = submitted \cup {c} /\ queue' = (queue \ {d}) \cup {c}
      /\ resets' = resets \cup {<<d, c>>} /\ d \in submitted /\ c \notin submitted
  BY DEF ResetStream, entVars, counters, Counted, Retransmittable, Gone
<1>2. Reset' = Reset \cup {d} /\ Settled' = Settled \cup {d}
  <2>1. \A e \in Data : (\E b \in Ctrl : <<e, b>> \in resets')
                         <=> e = d \/ \E b \in Ctrl : <<e, b>> \in resets
    BY <1>1
  <2>2. Reset' = Reset \cup {d}
    BY <2>1 DEF Reset
  <2> QED
    BY <1>1, <2>2 DEF Settled
<1>3. /\ queue \cup acked \cup moot \cup Reset \subseteq submitted
      /\ \A p \in Counted : frc[p] \subseteq submitted
  BY CountedAreEnts DEF RtbInv, Known
<1>4. TypeOK'
  <2>1. queue' \subseteq Item /\ submitted' \subseteq Item /\ resets' \subseteq Data \X Ctrl
    BY <1>1 DEF RtbInv, TypeOK, Item
  <2> QED
    BY <1>1, <2>1 DEF RtbInv, TypeOK
<1>5. Known' /\ LostAreOldest' /\ CountersExact' /\ TimerArmed'
  BY <1>1, <1>2, <1>3 DEF RtbInv, Known, LostAreOldest, CountersExact, TimerArmed
<1>6. NoItemLost'
  BY <1>1, <1>2 DEF RtbInv, NoItemLost
<1>7. UniqueOwner'
  BY <1>1, <1>3 DEF RtbInv, UniqueOwner
<1> QED
  BY <1>1, <1>2, <1>4, <1>5, <1>6, <1>7 DEF RtbInv

\* A stream that was reset closes: its data is where it was, but finished.
LEMMA CloseStreamInv ==
  ASSUME RtbInv, NEW d \in Data, CloseStream(d)
  PROVE  /\ RtbInv' /\ Counted' = Counted /\ frc' = frc
         /\ d \in Settled /\ Settled' = Settled /\ queue' = queue \ {d}
<1>1. /\ UNCHANGED <<last_pkt_num, ents, frc, elicits, lost, reclaimed, num_ack_eliciting,
                     num_retransmittable, num_lost_pkts, bytes_in_flight, largest_acked,
                     cc_pkt_num, probe_pkt_left, loss_time, timer, submitted, moot, resets,
                     aborted, pathReset>>
      /\ Counted' = Counted /\ acked' = acked \cup {d} /\ queue' = queue \ {d}
      /\ d \in Closable(acked)
  BY DEF CloseStream, entVars, counters, Counted, Retransmittable
<1>2. d \in Reset /\ d \in submitted
  BY <1>1, ClosableAreReset DEF RtbInv, TypeOK
<1>3. /\ Reset' = Reset /\ Gone' = Gone \cup {d} /\ Settled' = Settled /\ d \in Settled
  BY <1>1, <1>2, SettledKeeps DEF Gone, Settled
<1>4. TypeOK'
  BY <1>1 DEF RtbInv, TypeOK, Item
<1>5. Known' /\ LostAreOldest' /\ CountersExact' /\ TimerArmed'
  BY <1>1, <1>2, <1>3 DEF RtbInv, Known, LostAreOldest, CountersExact, TimerArmed
<1>6. NoItemLost'
  BY <1>1, <1>3 DEF RtbInv, NoItemLost
<1>7. UniqueOwner'
  BY <1>1, <1>3 DEF RtbInv, UniqueOwner
<1> QED
  BY <1>1, <1>3, <1>4, <1>5, <1>6, <1>7 DEF RtbInv

\* Lost entries that are a PTO old are dropped from the end of the buffer.
LEMMA RemoveExpiredInv ==
  ASSUME RtbInv, NEW p \in lost, RemoveExpiredLostPkt(p)
  PROVE  /\ RtbInv'
         /\ Counted' = Counted /\ \A q \in Counted : frc'[q] = frc[q]
<1> DEFINE old == {q \in ents : q <= p}
<1>1. /\ old \subseteq lost /\ ents' = ents \ old /\ lost' = lost \ old
      /\ elicits' = elicits \ old /\ reclaimed' = reclaimed \ old
      /\ frc' = [q \in Pkt |-> IF q \in old THEN {} ELSE frc[q]]
      /\ num_lost_pkts' = num_lost_pkts - Cardinality(old)
      /\ UNCHANGED <<last_pkt_num, num_ack_eliciting, num_retransmittable, bytes_in_flight,
                     largest_acked, cc_pkt_num, probe_pkt_left, loss_time, timer, queue,
                     submitted, acked, moot, resets, aborted, pathReset>>
      /\ Gone' = Gone /\ Reset' = Reset /\ Settled' = Settled
  BY SettledKeeps DEF RemoveExpiredLostPkt, itemVars, Gone
<1> HIDE DEF old
<1>2. /\ lost \subseteq ents /\ elicits \subseteq ents /\ reclaimed \subseteq ents
      /\ frc \in [Pkt -> SUBSET Item] /\ ents \subseteq Pkt
  BY CountedAreEnts DEF RtbInv, TypeOK
<1>3. /\ frc' \in [Pkt -> SUBSET Item]
      /\ \A q \in Pkt : frc'[q] \subseteq frc[q]
      /\ \A q \in ents' : frc'[q] = frc[q]
  BY <1>1, <1>2
<1>4. /\ ents' \ lost' = ents \ lost /\ elicits' \ lost' = elicits \ lost
      /\ lost' \subseteq lost
  BY <1>1, <1>2
<1>5. Counted' = Counted /\ \A q \in Counted : frc'[q] = frc[q]
  <2>1. \A q : q \in Counted <=> q \in ents \ lost /\ frc[q] # {} /\ q \notin reclaimed
    BY DEF Counted, Retransmittable
  <2>2. \A q : q \in Counted' <=> q \in ents' \ lost' /\ frc'[q] # {} /\ q \notin reclaimed'
    BY DEF Counted, Retransmittable
  <2>3. \A q \in ents' \ lost' : frc'[q] = frc[q] /\ (q \in reclaimed' <=> q \in reclaimed)
    BY <1>1, <1>3
  <2>4. \A q : q \in Counted' <=> q \in Counted
    BY <1>4, <2>1, <2>2, <2>3
  <2>5. \A q \in Counted : frc'[q] = frc[q]
    BY <1>4, <2>1, <2>3
  <2> QED
    BY <2>4, <2>5
<1>6. num_lost_pkts' = Cardinality(lost') /\ num_lost_pkts' \in Nat
  <2>1. IsFiniteSet(lost) /\ num_lost_pkts = Cardinality(lost)
    BY <1>2, EntsFinite DEF RtbInv, CountersExact
  <2> QED
    BY <1>1, <2>1, CountLess
<1>7. TypeOK'
  <2>1. /\ ents' \subseteq 0 .. last_pkt_num' /\ lost' \subseteq ents' /\ elicits' \subseteq ents'
        /\ reclaimed' \subseteq ents'
    BY <1>1, <1>2 DEF RtbInv, TypeOK
  <2> QED
    BY <1>1, <1>3, <1>6, <2>1 DEF RtbInv, TypeOK
<1>8. Known' /\ LostAreOldest' /\ TimerArmed'
  BY <1>1, <1>3, <1>4 DEF RtbInv, Known, LostAreOldest, TimerArmed
<1>9. CountersExact'
  BY <1>1, <1>4, <1>5, <1>6 DEF RtbInv, CountersExact
<1>10. NoItemLost'
  <2> SUFFICES ASSUME NEW i \in submitted' \ Settled'
               PROVE  i \in queue' \/ \E q \in Counted' : i \in frc'[q]
    BY DEF NoItemLost
  <2>1. i \in queue \/ \E q \in Counted : i \in frc[q]
    BY <1>1 DEF RtbInv, NoItemLost
  <2> QED
    BY <1>1, <1>5, <2>1
<1>11. UniqueOwner'
  BY <1>1, <1>5 DEF RtbInv, UniqueOwner
<1> QED
  BY <1>5, <1>7, <1>8, <1>9, <1>10, <1>11 DEF RtbInv

\* A probe timeout, expiry of lost entries and a new path leave the items alone.
LEMMA TimersInv ==
  ASSUME RtbInv,
         \/ OnPto
         \/ \E p \in lost : RemoveExpiredLostPkt(p)
         \/ ResetCongestionState
  PROVE  RtbInv'
<1>1. CASE OnPto
  <2>1. /\ UNCHANGED <<last_pkt_num, ents, frc, elicits, lost, reclaimed, num_ack_eliciting,
                       num_retransmittable, num_lost_pkts, bytes_in_flight, largest_acked,
                       cc_pkt_num, loss_time, queue, submitted, acked, moot, resets>>
        /\ Counted' = Counted /\ Gone' = Gone /\ Reset' = Reset /\ Settled' = Settled
    BY <1>1, SettledKeeps DEF OnPto, entVars, counters, itemVars, Counted, Retransmittable, Gone
  <2>2. /\ probe_pkt_left' \in 0 .. 2 /\ aborted' \in BOOLEAN /\ timer' \in BOOLEAN
        /\ pathReset' \in BOOLEAN /\ TimerArmed'
    <3>1. CASE num_retransmittable > 0
      <4>1. /\ probe_pkt_left' = 2 /\ aborted' = aborted
            /\ SetLossDetectionTimer(num_retransmittable) /\ num_retransmittable \in Int
        BY <1>1, <3>1 DEF OnPto, RtbInv, TypeOK
      <4> QED
        BY <2>1, <4>1, TimerIsSet DEF RtbInv, TypeOK, TimerArmed
    <3>2. CASE ~(num_retransmittable > 0)
      BY <1>1, <2>1, <3>2 DEF OnPto, RtbInv, TypeOK, TimerArmed
    <3> QED
      BY <3>1, <3>2
  <2>3. TypeOK'
    BY <2>1, <2>2 DEF RtbInv, TypeOK
  <2> QED
    BY <2>1, <2>2, <2>3 DEF RtbInv, Known, LostAreOldest, CountersExact, NoItemLost, UniqueOwner
<1>2. ASSUME NEW p \in lost, RemoveExpiredLostPkt(p)
      PROVE  RtbInv'
  BY <1>2, RemoveExpiredInv
<1>3. CASE ResetCongestionState
  <2>1. /\ UNCHANGED <<last_pkt_num, ents, frc, elicits, lost, reclaimed, num_ack_eliciting,
                       num_retransmittable, num_lost_pkts, largest_acked, probe_pkt_left,
                       loss_time, queue, submitted, acked, moot, resets, aborted>>
        /\ Counted' = Counted /\ Gone' = Gone /\ Reset' = Reset /\ Settled' = Settled
        /\ bytes_in_flight' = 0 /\ cc_pkt_num' = last_pkt_num + 1
        /\ timer' = FALSE /\ pathReset' = TRUE
    BY <1>3, SettledKeeps DEF ResetCongestionState, itemVars, Counted, Retransmittable, Gone
  <2>2. last_pkt_num + 1 \in 0 .. MaxPkt + 1 /\ last_pkt_num \in Int
    BY RtbAssumption DEF RtbInv, TypeOK, Pkt
  <2>3. TypeOK'
    BY <2>1, <2>2 DEF RtbInv, TypeOK
  <2>4. bytes_in_flight' = Cardinality({p \in ents' \ lost' : p >= cc_pkt_num'})
    <3>1. \A p \in ents : ~(p >= last_pkt_num + 1)
      BY <2>2 DEF RtbInv, TypeOK
    <3>2. {p \in ents' \ lost' : p >= cc_pkt_num'} = {}
      BY <2>1, <3>1
    <3> QED
      BY <2>1, <3>2, FS_EmptySet
  <2> QED
    BY <2>1, <2>2, <2>3, <2>4
       DEF RtbInv, Known, LostAreOldest, CountersExact, NoItemLost, UniqueOwner, TimerArmed
<1> QED
  BY <1>1, <1>2, <1>3

\* Nothing is outstanding initially.
LEMMA InitRtbInv == Init => RtbInv
<1> SUFFICES ASSUME Init
             PROVE  RtbInv
  OBVIOUS
<1>1. TypeOK
  <2>1. cc_pkt_num \in 0 .. MaxPkt + 1 /\ probe_pkt_left \in 0 .. 2
    BY RtbAssumption DEF Init
  <2>2. frc \in [Pkt -> SUBSET Item]
    BY DEF Init
  <2> QED
    BY <2>1, <2>2 DEF Init, TypeOK
<1>2. Counted = {} /\ elicits \ lost = {} /\ {p \in ents \ lost : p >= cc_pkt_num} = {}
  BY DEF Init, Counted, Retransmittable
<1>3. CountersExact
  BY <1>2, FS_EmptySet DEF Init, CountersExact
<1> QED
  BY <1>1, <1>2, <1>3
     DEF Init, RtbInv, Known, LostAreOldest, NoItemLost, UniqueOwner, TimerArmed, Reset

\* The invariant survives a step that changes nothing.
LEMMA StutterRtbInv ==
  ASSUME RtbInv, UNCHANGED vars
  PROVE  RtbInv'
<1> USE DEF vars, entVars, counters, itemVars
<1>1. TypeOK'
  BY DEF RtbInv, TypeOK
<1>2. Counted' = Counted /\ Gone' = Gone /\ Reset' = Reset /\ Settled' = Settled
  BY DEF Counted, Retransmittable, Gone, Reset, Settled
<1>3. Known' /\ LostAreOldest' /\ CountersExact' /\ TimerArmed'
  BY <1>2 DEF RtbInv, Known, LostAreOldest, CountersExact, TimerArmed
<1>4. NoItemLost' /\ UniqueOwner'
  BY <1>2 DEF RtbInv, NoItemLost, UniqueOwner
<1> QED
  BY <1>1, <1>3, <1>4 DEF RtbInv

\* Every action keeps the invariant.
LEMMA NextRtbInv ==
  ASSUME RtbInv, Next
  PROVE  RtbInv'
<1>1. ASSUME NEW c \in Ctrl, QueueCtrl(c) \/ MakeMoot(c)
      PROVE  RtbInv'
  BY <1>1, CtrlInv
<1>8. ASSUME NEW c \in Ctrl, NEW d \in Data, ResetStream(d, c)
      PROVE  RtbInv'
  BY <1>8, ResetStreamInv
<1>9. ASSUME NEW d \in Data, CloseStream(d)
      PROVE  RtbInv'
  BY <1>9, CloseStreamInv
<1>2. ASSUME NEW R \in SUBSET queue, NEW N \in SUBSET (Data \ submitted), Send(R, N)
      PROVE  RtbInv'
  BY <1>2, SendInv
<1>3. ASSUME NEW R \in SUBSET Item, SendProbe(R)
      PROVE  RtbInv'
  BY <1>3, SendProbeInv
<1>4. ASSUME NEW kind \in EmptyKind, SendEmpty(kind) \/ ProbeMoot(kind)
      PROVE  RtbInv'
  BY <1>4, SendEmptyInv, ProbeMootInv
<1>5. ASSUME NEW D \in SUBSET ents, NEW top \in 0 .. last_pkt_num,
             NEW C \in SUBSET Closable(Acknowledged(D)), RecvAck(D, top, C)
      PROVE  RtbInv'
  BY <1>5, RecvAckInv
<1>6. CASE OnLossTime
  BY <1>6, OnLossTimeInv
<1>7. CASE OnPto \/ (\E p \in lost : RemoveExpiredLostPkt(p)) \/ ResetCongestionState
  BY <1>7, TimersInv
<1> QED
  BY <1>1, <1>2, <1>3, <1>4, <1>5, <1>6, <1>7, <1>8, <1>9 DEF Next

\* The inductive invariant holds in every behaviour.
LEMMA SpecRtbInv == Spec => []RtbInv
<1>1. RtbInv /\ [Next]_vars => RtbInv'
  BY NextRtbInv, StutterRtbInv
<1> QED
  BY InitRtbInv, <1>1, PTL DEF Spec

-----------------------------------------------------------------------------
\* Type correctness of the sending half.
THEOREM TypesHold == Spec => []TypeOK
<1>1. RtbInv => TypeOK
  BY DEF RtbInv
<1> QED
  BY SpecRtbInv, <1>1, PTL

\* No loss, late acknowledgement, probe or drop makes an item vanish.
THEOREM ItemsAreKept == Spec => []NoItemLost
<1>1. RtbInv => NoItemLost
  BY DEF RtbInv
<1> QED
  BY SpecRtbInv, <1>1, PTL

\* No item waits in two places, whatever was reclaimed and judged lost since.
THEOREM ItemsHaveOneOwner == Spec => []UniqueOwner
<1>1. RtbInv => UniqueOwner
  BY DEF RtbInv
<1> QED
  BY SpecRtbInv, <1>1, PTL

\* Entries declared lost stay at the old end of the buffer.
THEOREM LostStayOldest == Spec => []LostAreOldest
<1>1. RtbInv => LostAreOldest
  BY DEF RtbInv
<1> QED
  BY SpecRtbInv, <1>1, PTL

\* The counters never drift from the buffer, so no decrement underflows.
THEOREM CountersStayExact == Spec => []CountersExact
<1>1. RtbInv => CountersExact
  BY DEF RtbInv
<1> QED
  BY SpecRtbInv, <1>1, PTL

\* What waits for an acknowledgement has a timer or a place in a queue.
THEOREM NothingStalls == Spec => []NoStall
<1>1. RtbInv => NoStall
  <2> SUFFICES ASSUME RtbInv, submitted \ Settled # {}, ~(queue \ Settled # {})
               PROVE  timer \/ pathReset
    BY DEF NoStall
  <2>1. Counted # {}
    BY DEF RtbInv, NoItemLost
  <2>2. num_retransmittable = Cardinality(Counted) /\ IsFiniteSet(Counted)
        /\ num_retransmittable \in Nat
    BY EntsFinite, CountedAreEnts DEF RtbInv, CountersExact, TypeOK
  <2>3. num_retransmittable > 0
    BY <2>1, <2>2, FS_EmptySet
  <2> QED
    BY <2>3 DEF RtbInv, TimerArmed
<1> QED
  BY SpecRtbInv, <1>1, PTL

-----------------------------------------------------------------------------
\* The items in flight, as Delivery sees them.
Flight == (UNION {frc[p] : p \in Counted}) \ Settled

\* Flight member by member.
LEMMA FlightIs ==
  \A i : i \in Flight <=> i \notin Settled /\ \E p \in Counted : i \in frc[p]
<1>1. ASSUME NEW i \in Flight
      PROVE  i \notin Settled /\ \E p \in Counted : i \in frc[p]
  BY <1>1 DEF Flight
<1>2. ASSUME NEW p \in Counted, NEW i \in frc[p], i \notin Settled
      PROVE  i \in Flight
  BY <1>2 DEF Flight
<1> QED
  BY <1>1, <1>2

\* The same after a step.
LEMMA FlightIsNext ==
  \A i : i \in Flight' <=> i \notin Settled' /\ \E p \in Counted' : i \in frc'[p]
<1>1. ASSUME NEW i \in Flight'
      PROVE  i \notin Settled' /\ \E p \in Counted' : i \in frc'[p]
  BY <1>1 DEF Flight
<1>2. ASSUME NEW p \in Counted', NEW i \in frc'[p], i \notin Settled'
      PROVE  i \in Flight'
  BY <1>2 DEF Flight
<1> QED
  BY <1>1, <1>2

\* The three kinds of steps of Delivery, and the stutter, in terms of Rtb.
LEMMA SubmitStep ==
  ASSUME NEW c \in Item, c \notin queue \cup Settled \cup Flight,
         NEW S \in SUBSET ((queue \ Settled) \cup Flight),
         Settled' = Settled \cup S, queue' \ Settled' = ((queue \ Settled) \ S) \cup {c},
         Flight' = Flight \ S
  PROVE  Promise!Next
<1>1. c \in Promise!Unseen
  BY DEF Promise!Unseen, Flight
<1>2. Promise!Submit(c, S)
  BY <1>1 DEF Promise!Submit, Flight
<1> QED
  BY <1>1, <1>2 DEF Promise!Next, Flight

\* A packet takes out items that waited and items that are new.
LEMMA TransmitStep ==
  ASSUME NEW W \in SUBSET (queue \ Settled), NEW N \in SUBSET Item,
         N \cap (queue \cup Settled \cup Flight) = {},
         queue' \ Settled' = (queue \ Settled) \ W, Flight' = Flight \cup W \cup N, Settled' = Settled
  PROVE  Promise!Next
<1>1. N \in SUBSET Promise!Unseen
  BY DEF Promise!Unseen, Flight
<1>2. Promise!Transmit(W, N)
  BY <1>1 DEF Promise!Transmit, Flight
<1> QED
  BY <1>1, <1>2 DEF Promise!Next

\* Items settle or return to the queues: a step of Settle.
LEMMA SettleStep ==
  ASSUME NEW S \in SUBSET ((queue \ Settled) \cup Flight), NEW L \in SUBSET (Flight \ S),
         Settled' = Settled \cup S, queue' \ Settled' = ((queue \ Settled) \ S) \cup L,
         Flight' = Flight \ (S \cup L)
  PROVE  Promise!Next
<1>1. Promise!Settle(S, L)
  BY DEF Promise!Settle, Flight
<1>2. S \in SUBSET ((queue \ Settled) \cup Flight) /\ L \in SUBSET Flight
  OBVIOUS
<1> QED
  BY <1>1, <1>2 DEF Promise!Next, Flight

\* A step that moves no item is a stutter of Delivery.
LEMMA SameStep ==
  ASSUME queue' \ Settled' = queue \ Settled, Flight' = Flight, Settled' = Settled
  PROVE  UNCHANGED Promise!vars
BY DEF Promise!vars, Flight

\* An item asked for has to wait; one superseded is settled, if it was not.
LEMMA CtrlDelivers ==
  ASSUME RtbInv, NEW c \in Ctrl, QueueCtrl(c) \/ MakeMoot(c)
  PROVE  [Promise!Next]_(Promise!vars)
<1>1. Counted' = Counted /\ frc' = frc /\ acked' = acked /\ resets' = resets
  BY DEF QueueCtrl, MakeMoot, entVars, counters, Counted, Retransmittable
<1>2. /\ queue \cup Settled \subseteq submitted /\ c \in Item /\ c \notin Reset
      /\ \A p \in Counted : frc[p] \subseteq submitted
  BY RtbAssumption, CountedAreEnts DEF RtbInv, Known, Item, Settled, Gone, Reset
<1>3. CASE QueueCtrl(c)
  <2>1. c \notin submitted /\ queue' = queue \cup {c} /\ Settled' = Settled
    BY <1>1, <1>3, SettledKeeps DEF QueueCtrl, Gone
  <2>2. Flight' = Flight
    BY <1>1, <2>1, FlightIs, FlightIsNext
  <2>3. c \notin queue \cup Settled \cup Flight
    BY <1>2, <2>1, FlightIs
  <2>4. /\ {} \in SUBSET ((queue \ Settled) \cup Flight) /\ Settled' = Settled \cup {}
        /\ queue' \ Settled' = ((queue \ Settled) \ {}) \cup {c} /\ Flight' = Flight \ {}
    BY <2>1, <2>2, <2>3
  <2> QED
    BY <1>2, <2>3, <2>4, SubmitStep
<1>4. CASE MakeMoot(c) /\ c \in acked
  <2>1. queue' = queue /\ Settled' = Settled
    BY <1>1, <1>4, SettledKeeps DEF MakeMoot, Gone
  <2>2. Flight' = Flight
    BY <1>1, <2>1, FlightIs, FlightIsNext
  <2> QED
    BY <2>1, <2>2, SameStep
<1>5. CASE MakeMoot(c) /\ c \notin acked
  <2>1. queue' = queue /\ Settled' = Settled \cup {c} /\ c \in submitted \ Settled
    BY <1>1, <1>2, <1>5, SettledKeeps DEF MakeMoot, Gone, Settled
  <2>2. c \in (queue \ Settled) \cup Flight
    BY <2>1, FlightIs DEF RtbInv, NoItemLost
  <2>3. Flight' = Flight \ {c}
    BY <1>1, <2>1, FlightIs, FlightIsNext
  <2>4. /\ {c} \in SUBSET ((queue \ Settled) \cup Flight) /\ {} \in SUBSET (Flight \ {c})
        /\ queue' \ Settled' = ((queue \ Settled) \ {c}) \cup {}
        /\ Flight' = Flight \ ({c} \cup {})
    BY <2>1, <2>2, <2>3
  <2> QED
    BY <2>1, <2>4, SettleStep
<1> QED
  BY <1>3, <1>4, <1>5

\* A RESET_STREAM frame has to wait, in place of the data of its stream.
LEMMA ResetDelivers ==
  ASSUME RtbInv, NEW c \in Ctrl, NEW d \in Data, ResetStream(d, c)
  PROVE  Promise!Next
<1> DEFINE S == {d} \cap ((queue \ Settled) \cup Flight)
<1>1. /\ Counted' = Counted /\ frc' = frc /\ Settled' = Settled \cup {d}
      /\ queue' = (queue \ {d}) \cup {c}
  BY ResetStreamInv
<1>2. c \notin submitted /\ d \in submitted /\ c # d /\ c \in Item
  BY RtbAssumption DEF ResetStream, Item
<1>3. /\ queue \cup Settled \subseteq submitted /\ \A p \in Counted : frc[p] \subseteq submitted
  BY CountedAreEnts DEF RtbInv, Known, Settled, Gone
<1>4. c \notin queue \cup Settled \cup Flight
  BY <1>2, <1>3, FlightIs
<1>5. d \in Settled \/ d \in S
  BY <1>2, FlightIs DEF RtbInv, NoItemLost
<1>6. d \in Settled => S = {}
  BY FlightIs
<1>7. Flight' = Flight \ S
  <2>1. \A i : i \in Flight' <=> i \in Flight /\ i # d
    BY <1>1, FlightIs, FlightIsNext
  <2> QED
    BY <1>5, <1>6, <2>1
<1>8. Settled' = Settled \cup S /\ queue' \ Settled' = ((queue \ Settled) \ S) \cup {c}
  BY <1>1, <1>2, <1>4, <1>5, <1>6
<1>9. S \in SUBSET ((queue \ Settled) \cup Flight)
  OBVIOUS
<1> HIDE DEF S
<1> QED
  BY <1>2, <1>4, <1>7, <1>8, <1>9, SubmitStep

\* What waited goes out, with what is new.
LEMMA SendDelivers ==
  ASSUME RtbInv, NEW R \in SUBSET queue, NEW N \in SUBSET (Data \ submitted), Send(R, N)
  PROVE  Promise!Next
<1> DEFINE pn == last_pkt_num'
<1>1. /\ NextPkt /\ TrackPkt(R \cup N, TRUE) /\ UNCHANGED <<lost, reclaimed, cc_pkt_num>>
      /\ R \cup N # {} /\ R \cap Gone = {} /\ queue' = queue \ (R \cup Gone)
      /\ Gone' = Gone /\ Settled' = Settled
  BY SettledKeeps DEF Send, Gone
<1> DEFINE W == R \ Settled
<1>2. /\ reclaimed \subseteq ents /\ R \cup N \subseteq Item /\ N \subseteq Item
  BY DEF RtbInv, TypeOK, Item
<1>3. /\ pn \notin ents /\ frc'[pn] = R \cup N
      /\ \A p \in Pkt \ {pn} : frc'[p] = frc[p]
      /\ Counted' = Counted \cup {pn}
  <2>1. Counted \ reclaimed' = Counted
    BY <1>1 DEF Counted
  <2> QED
    BY <1>1, <1>2, <2>1, TrackPktAdds
<1>4. /\ \A p \in Counted : frc'[p] = frc[p] /\ frc[p] \subseteq submitted
      /\ queue \cup Settled \subseteq submitted
  BY <1>3, CountedAreEnts DEF RtbInv, Known, Settled, Gone
<1>5. N \cap (queue \cup Settled \cup Flight) = {}
  BY <1>4, FlightIs
<1>6. Flight' = Flight \cup W \cup N
  <2>1. \A i : i \in Flight' <=> i \in Flight \/ i \in W \cup N
    BY <1>1, <1>3, <1>4, <1>5, FlightIs, FlightIsNext
  <2> QED
    BY <2>1
<1>7. W \in SUBSET (queue \ Settled) /\ queue' \ Settled' = (queue \ Settled) \ W
  BY <1>1 DEF Settled
<1> HIDE DEF W
<1> QED
  BY <1>1, <1>2, <1>5, <1>6, <1>7, TransmitStep

\* A probe takes items out of flight, and sends some of them.
LEMMA SendProbeDelivers ==
  ASSUME RtbInv, NEW R \in SUBSET Item, SendProbe(R)
  PROVE  Promise!Next
<1> DEFINE pn == last_pkt_num'
<1>1. PICK m \in Rounds :
        /\ R \subseteq ItemsOf(ReclaimedIn(m)) \ moot
        /\ reclaimed' = reclaimed \cup ReclaimedIn(m)
        /\ queue' = ItemsOf(ReclaimedIn(m)) \ (R \cup moot)
  BY DEF SendProbe
<1> DEFINE took == ReclaimedIn(m)
<1>2. took \subseteq Counted /\ Counted \subseteq ents /\ ents \subseteq Pkt
  BY CountedAreEnts DEF ReclaimedIn, OldestProductive, RtbInv
<1> HIDE DEF took
<1>3. \A i : i \in ItemsOf(took) <=> i \notin acked /\ \E p \in took : i \in frc[p]
  BY ItemsAre
<1>4. /\ R # {} /\ NextPkt /\ TrackPkt(R, TRUE) /\ queue \subseteq Gone
      /\ R \subseteq ItemsOf(took) \ moot
      /\ reclaimed' = reclaimed \cup took /\ queue' = ItemsOf(took) \ (R \cup moot)
      /\ lost' = lost /\ cc_pkt_num' = cc_pkt_num /\ Settled' = Settled
      /\ acked \cup moot \subseteq Settled /\ queue \subseteq Settled
  BY <1>1, SettledKeeps DEF SendProbe, Probing, itemVars, Gone, took, Settled
<1>5. /\ pn \notin ents /\ frc'[pn] = R
      /\ \A p \in Pkt \ {pn} : frc'[p] = frc[p]
      /\ Counted' = (Counted \ took) \cup {pn}
  <2>1. reclaimed' \subseteq ents
    BY <1>2, <1>4 DEF RtbInv, TypeOK
  <2>2. Counted \ reclaimed' = Counted \ took
    BY <1>4 DEF Counted
  <2> QED
    BY <1>4, <2>1, <2>2, TrackPktAdds
<1>6. \A p \in Counted : frc'[p] = frc[p]
  BY <1>2, <1>5
<1> DEFINE L == ItemsOf(took) \ (R \cup Settled)
<1>7. L \in SUBSET (Flight \ {})
  BY <1>2, <1>3, FlightIs
<1>8. \A p \in Counted \ took, q \in took : frc[p] \cap frc[q] \subseteq Settled
  BY <1>2 DEF RtbInv, UniqueOwner, Settled
<1>9. Flight' = Flight \ ({} \cup L)
  <2>1. \A i : i \in Flight' <=> i \in Flight /\ i \notin L
    <3>1. ASSUME NEW i \in Flight'
          PROVE  i \in Flight /\ i \notin L
      <4>1. i \notin Settled /\ \E p \in Counted' : i \in frc'[p]
        BY <1>4, <3>1, FlightIsNext
      <4>2. CASE i \in R
        BY <1>2, <1>3, <1>4, <4>1, <4>2, FlightIs
      <4>3. CASE \E p \in Counted \ took : i \in frc[p]
        BY <1>3, <1>8, <4>1, <4>3, FlightIs
      <4> QED
        BY <1>5, <1>6, <4>1, <4>2, <4>3
    <3>2. ASSUME NEW i \in Flight, i \notin L
          PROVE  i \in Flight'
      <4>1. i \notin Settled /\ i \notin acked /\ \E p \in Counted : i \in frc[p]
        BY <1>4, FlightIs
      <4>2. i \in R \/ \E p \in Counted \ took : i \in frc[p]
        BY <1>3, <3>2, <4>1
      <4>3. \E p \in Counted' : i \in frc'[p]
        BY <1>5, <1>6, <4>2
      <4> QED
        BY <1>4, <4>1, <4>3, FlightIsNext
    <3> QED
      BY <3>1, <3>2
  <2> QED
    BY <2>1
<1>10. /\ Settled' = Settled \cup {} /\ queue' \ Settled' = ((queue \ Settled) \ {}) \cup L
       /\ {} \in SUBSET ((queue \ Settled) \cup Flight)
  BY <1>3, <1>4
<1> HIDE DEF L
<1> QED
  BY <1>7, <1>9, <1>10, SettleStep

\* A packet without items changes no item's place: what it drops is settled.
LEMMA EmptyDelivers ==
  ASSUME RtbInv, NEW kind \in EmptyKind, SendEmpty(kind) \/ ProbeMoot(kind)
  PROVE  UNCHANGED Promise!vars
<1>1. CASE SendEmpty(kind)
  <2>1. /\ WriteEmpty(kind) /\ UNCHANGED <<lost, reclaimed, cc_pkt_num>> /\ Settled' = Settled
        /\ queue' \subseteq queue /\ queue \subseteq queue' \cup Settled
    BY <1>1, SettledKeeps DEF SendEmpty, itemVars, Gone, Settled
  <2>2. Counted' = Counted /\ \A p \in Counted : frc'[p] = frc[p]
    <3>1. Counted \ reclaimed = Counted /\ Counted \subseteq ents /\ reclaimed \subseteq ents
      BY CountedAreEnts DEF Counted, RtbInv, TypeOK
    <3>2. Counted' = Counted \ reclaimed' /\ \A p \in ents : frc'[p] = frc[p]
      BY <2>1, <3>1, WriteEmptyKeeps
    <3> QED
      BY <2>1, <3>1, <3>2
  <2>3. Flight' = Flight
    BY <2>1, <2>2, FlightIs, FlightIsNext
  <2> QED
    BY <2>1, <2>3, SameStep
<1>2. CASE ProbeMoot(kind)
  <2>1. /\ WriteEmpty(kind) /\ UNCHANGED <<lost, cc_pkt_num>> /\ Settled' = Settled
        /\ queue' = {} /\ queue \subseteq Settled /\ reclaimed' = reclaimed \cup Counted
        /\ ItemsOf(Counted) \subseteq moot
    BY <1>2, SettledKeeps DEF ProbeMoot, Probing, itemVars, Gone, Settled
  <2>2. Counted' = {}
    <3>1. Counted \ reclaimed' = {} /\ reclaimed' \subseteq ents
      BY <2>1, CountedAreEnts DEF RtbInv, TypeOK
    <3> QED
      BY <2>1, <3>1, WriteEmptyKeeps
  <2>3. Flight = {}
    <3>1. \A i : i \in ItemsOf(Counted) <=> i \notin acked /\ \E p \in Counted : i \in frc[p]
      BY ItemsAre
    <3> QED
      BY <2>1, <3>1, FlightIs DEF Gone, Settled
  <2>4. Flight' = {}
    BY <2>2, FlightIsNext
  <2> QED
    BY <2>1, <2>3, <2>4, SameStep
<1> QED
  BY <1>1, <1>2

\* What an ACK frame acknowledges is settled, and what is lost with it waits.
LEMMA DetectLostDelivers ==
  ASSUME RtbInv, NEW D \in SUBSET ents, NEW largest \in Int,
         NEW judged \in LossOutcomes(D, largest), NEW done \in SUBSET submitted,
         RemoveAndDetectLost(D, largest, judged, done),
         acked \subseteq done, \A p \in D : frc[p] \subseteq done,
         acked' = done, moot' = moot, submitted' = submitted, resets' = resets,
         cc_pkt_num' = cc_pkt_num, last_pkt_num' = last_pkt_num
  PROVE  Promise!Next
<1> DEFINE S == done \ Settled
           L == {i \in Flight \ S : \E p \in judged \ reclaimed : i \in frc[p]}
<1>1. /\ Counted' = Counted \ (D \cup judged)
      /\ \A p \in Counted' : frc'[p] = frc[p]
  BY DetectLostInv, Zenon
<1>2. queue' = queue \cup Requeued(judged, done)
  BY DEF RemoveAndDetectLost
<1>3. \A i : i \in queue' <=> i \in queue \/ (i \notin done /\ \E p \in judged \ reclaimed : i \in frc[p])
  BY <1>2, RequeuedAre
<1>4. judged \subseteq ents \ (D \cup lost)
  BY JudgedAreOldest
<1>5. \A i, p : p \in judged \ reclaimed /\ i \in frc[p] => p \in Counted
  BY <1>4 DEF Counted, Retransmittable
<1>6. Settled' = Settled \cup S
  BY SettledKeeps DEF Gone, Settled
<1>7. S \in SUBSET ((queue \ Settled) \cup Flight)
  <2>1. \A i \in S : i \in submitted \ Settled
    OBVIOUS
  <2> QED
    BY <2>1, FlightIs DEF RtbInv, NoItemLost
<1>8. L \in SUBSET (Flight \ S)
  OBVIOUS
<1>9. queue' \ Settled' = ((queue \ Settled) \ S) \cup L
  <2>1. \A i : i \in queue' \ Settled' <=> i \in ((queue \ Settled) \ S) \/ i \in L
    <3>1. \A i : i \in Settled' <=> i \in Settled \/ i \in done
      BY <1>6
    <3>2. \A i : (i \notin Settled' /\ \E p \in judged \ reclaimed : i \in frc[p]) <=> i \in L
      BY <1>5, <3>1, FlightIs
    <3> HIDE DEF L
    <3> QED
      BY <1>3, <3>1, <3>2
  <2> QED
    BY <2>1
<1>10. Flight' = Flight \ (S \cup L)
  <2>1. \A i : i \in Flight' <=> i \in Flight /\ i \notin S /\ i \notin L
    <3>1. ASSUME NEW i \in Flight'
          PROVE  i \in Flight /\ i \notin S /\ i \notin L
      <4>1. i \notin Settled' /\ i \notin Settled
        BY <1>6, <3>1, FlightIsNext
      <4>2. PICK p \in Counted \ (D \cup judged) : i \in frc[p]
        BY <1>1, <3>1, FlightIsNext
      <4>3. i \in Flight /\ i \notin S
        BY <1>6, <4>1, <4>2, FlightIs
      <4>4. \A q \in judged \ reclaimed : i \notin frc[q]
        BY <1>5, <4>1, <4>2 DEF RtbInv, UniqueOwner, Settled
      <4> QED
        BY <4>3, <4>4
    <3>2. ASSUME NEW i \in Flight, i \notin S, i \notin L
          PROVE  i \in Flight'
      <4>1. i \notin Settled' /\ i \notin done
        BY <1>6, <3>2, FlightIs
      <4>2. PICK p \in Counted : i \in frc[p]
        BY FlightIs
      <4>3. p \notin D /\ p \notin judged
        BY <3>2, <4>1, <4>2 DEF Counted
      <4>4. p \in Counted' /\ i \in frc'[p]
        BY <1>1, <4>2, <4>3
      <4> QED
        BY <4>1, <4>4, FlightIsNext
    <3> QED
      BY <3>1, <3>2
  <2> QED
    BY <2>1
<1> HIDE DEF S, L
<1> QED
  BY <1>6, <1>7, <1>8, <1>9, <1>10, SettleStep

\* Every step is one of Delivery.
LEMMA NextDelivers ==
  ASSUME RtbInv, Next
  PROVE  [Promise!Next]_(Promise!vars)
<1>1. ASSUME NEW c \in Ctrl, QueueCtrl(c) \/ MakeMoot(c)
      PROVE  [Promise!Next]_(Promise!vars)
  BY <1>1, CtrlDelivers
<1>9. ASSUME NEW c \in Ctrl, NEW d \in Data, ResetStream(d, c)
      PROVE  Promise!Next
  BY <1>9, ResetDelivers
<1>10. ASSUME NEW d \in Data, CloseStream(d)
       PROVE  UNCHANGED Promise!vars
  <2>1. queue' \ Settled' = queue \ Settled /\ Settled' = Settled /\ Counted' = Counted /\ frc' = frc
    BY <1>10, CloseStreamInv
  <2>2. Flight' = Flight
    BY <2>1, FlightIs, FlightIsNext
  <2> QED
    BY <2>1, <2>2, SameStep
<1>2. ASSUME NEW R \in SUBSET queue, NEW N \in SUBSET (Data \ submitted), Send(R, N)
      PROVE  Promise!Next
  BY <1>2, SendDelivers
<1>3. ASSUME NEW R \in SUBSET Item, SendProbe(R)
      PROVE  Promise!Next
  BY <1>3, SendProbeDelivers
<1>4. ASSUME NEW kind \in EmptyKind, SendEmpty(kind) \/ ProbeMoot(kind)
      PROVE  UNCHANGED Promise!vars
  BY <1>4, EmptyDelivers
<1>5. ASSUME NEW D \in SUBSET ents, NEW top \in 0 .. last_pkt_num,
             NEW C \in SUBSET Closable(Acknowledged(D)), RecvAck(D, top, C)
      PROVE  [Promise!Next]_(Promise!vars)
  <2>1. CASE D = {}
    <3>1. queue' = queue /\ Settled' = Settled /\ Counted' = Counted /\ frc' = frc
      BY <1>5, <2>1, SettledKeeps DEF RecvAck, entVars, Gone, Counted, Retransmittable
    <3>2. Flight' = Flight
      BY <3>1, FlightIs, FlightIsNext
    <3> QED
      BY <3>1, <3>2, SameStep
  <2>2. CASE D # {}
    <3> DEFINE largest == IF largest_acked < top THEN top ELSE largest_acked
               done == Acknowledged(D) \cup C
    <3>1. PICK judged \in LossOutcomes(D, largest) : RemoveAndDetectLost(D, largest, judged, done)
      BY <1>5, <2>2 DEF RecvAck
    <3>2. /\ resets' = resets /\ acked' = done /\ moot' = moot /\ submitted' = submitted
          /\ cc_pkt_num' = cc_pkt_num /\ last_pkt_num' = last_pkt_num
      BY <1>5, <2>2 DEF RecvAck
    <3>3. largest \in Int
      BY RtbAssumption DEF RtbInv, TypeOK, Pkt
    <3>4. done \in SUBSET submitted
      <4>1. (\A p \in D : frc[p] \subseteq submitted) /\ acked \subseteq submitted
        BY CountedAreEnts DEF RtbInv, Known
      <4>2. C \subseteq submitted
        BY <1>5, ClosableAreSubmitted
      <4> QED
        BY <4>1, <4>2 DEF Acknowledged
    <3>5. acked \subseteq done /\ \A p \in D : frc[p] \subseteq done
      BY DEF Acknowledged
    <3> HIDE DEF largest, done
    <3> QED
      BY <3>1, <3>2, <3>3, <3>4, <3>5, DetectLostDelivers, Zenon
  <2> QED
    BY <2>1, <2>2
<1>6. CASE OnLossTime
  <2>1. PICK judged \in LossOutcomes({}, largest_acked) :
          RemoveAndDetectLost({}, largest_acked, judged, acked)
    BY <1>6 DEF OnLossTime
  <2>2. /\ acked' = acked /\ moot' = moot /\ submitted' = submitted /\ resets' = resets
        /\ cc_pkt_num' = cc_pkt_num /\ last_pkt_num' = last_pkt_num
    BY <1>6 DEF OnLossTime, itemVars
  <2>3. largest_acked \in Int /\ acked \in SUBSET submitted /\ {} \in SUBSET ents
    BY RtbAssumption DEF RtbInv, TypeOK, Pkt, Known
  <2>4. acked \subseteq acked /\ \A p \in {} : frc[p] \subseteq acked
    OBVIOUS
  <2> QED
    BY <2>1, <2>2, <2>3, <2>4, DetectLostDelivers, Zenon
<1>7. CASE OnPto \/ ResetCongestionState
  <2>1. queue' = queue /\ Settled' = Settled /\ Counted' = Counted /\ frc' = frc
    BY <1>7, SettledKeeps DEF OnPto, ResetCongestionState, entVars, itemVars, Gone, Counted, Retransmittable
  <2>2. Flight' = Flight
    BY <2>1, FlightIs, FlightIsNext
  <2> QED
    BY <2>1, <2>2, SameStep
<1>8. ASSUME NEW p \in lost, RemoveExpiredLostPkt(p)
      PROVE  UNCHANGED Promise!vars
  <2>1. /\ queue' = queue /\ Settled' = Settled
    BY <1>8, SettledKeeps DEF RemoveExpiredLostPkt, itemVars, Gone
  <2>2. Counted' = Counted /\ \A q \in Counted : frc'[q] = frc[q]
    BY <1>8, RemoveExpiredInv
  <2>3. Flight' = Flight
    BY <2>1, <2>2, FlightIs, FlightIsNext
  <2> QED
    BY <2>1, <2>3, SameStep
<1> QED
  BY <1>1, <1>2, <1>3, <1>4, <1>5, <1>6, <1>7, <1>8, <1>9, <1>10 DEF Next

\* The sending half keeps the promise of Delivery: an item is in one place at a
\* time, leaves flight only to wait again or when settled, and stays settled.
THEOREM RtbDelivers == Spec => Delivers
<1>1. Init => Promise!Init
  BY DEF Init, Promise!Init, Gone, Reset, Settled, Counted, Retransmittable
<1>2. RtbInv /\ [Next]_vars => [Promise!Next]_(Promise!vars)
  <2>1. ASSUME UNCHANGED vars
        PROVE  UNCHANGED Promise!vars
    BY <2>1 DEF vars, entVars, itemVars, counters, Promise!vars, Gone, Reset, Settled,
              Counted, Retransmittable
  <2> QED
    BY <2>1, NextDelivers
<1> QED
  BY <1>1, <1>2, SpecRtbInv, PTL DEF Spec, Delivers, Promise!Spec
=============================================================================
