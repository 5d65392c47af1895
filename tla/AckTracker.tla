----------------------------- MODULE AckTracker -----------------------------
(***************************************************************************)
(* The receiving half of one packet number space of ngtcp2: the ACK        *)
(* tracker (ngtcp2_acktr.c), duplicate suppression (pktns->rx.pngap), the  *)
(* construction of ACK frames (conn_create_ack_frame) and what happens     *)
(* when the peer acknowledges a packet that carried one of them.           *)
(*                                                                         *)
(* acktr->ents is a skip list of maximal ranges of packet numbers.  Here   *)
(* it is the set of numbers the ranges cover; module AckRanges has the     *)
(* range algorithm and its agreement with this set.  Whether an ACK is due *)
(* (a delay or a threshold) is nondeterministic here.                      *)
(***************************************************************************)
EXTENDS Integers, FiniteSets

CONSTANTS
  MaxRxPkt,    \* packet numbers the peer uses are 0 .. MaxRxPkt
  MaxTxPkt,    \* packet numbers this endpoint uses are 0 .. MaxTxPkt
  MaxEnt,      \* NGTCP2_ACKTR_MAX_ENT: ranges the tracker holds
  MaxAckBlks,  \* NGTCP2_MAX_ACK_BLKS: blocks of an ACK frame after the first
  MaxAcks,     \* capacity of the ring acktr->acks
  MaxGaps,     \* gaps pktns->rx.pngap holds
  Word,        \* 2^64, the modulus of uint64_t
  VarintEnd    \* 2^62, the first value ngtcp2_put_varint cannot encode

ASSUME BoundsAssumption ==
  /\ MaxRxPkt \in Nat /\ MaxTxPkt \in Nat
  /\ MaxEnt \in Nat \ {0} /\ MaxAckBlks \in Nat \ {0}
  /\ MaxAcks \in Nat \ {0} /\ MaxGaps \in Nat \ {0}
  /\ Word \in Nat /\ VarintEnd \in Nat /\ MaxRxPkt < VarintEnd /\ VarintEnd < Word

RxPkt == 0 .. MaxRxPkt
TxPkt == 0 .. MaxTxPkt

VARIABLES
  ents,        \* acktr->ents, as the set of packet numbers it covers
  acks,        \* acktr->acks: which of our packets carried which largest_ack
  unacked,     \* acktr->first_unacked_ts # UINT64_MAX
  max_pkt_num, \* pktns->rx.max_pkt_num
  seen,        \* pktns->rx.pngap, as the set of pushed numbers
  last_pkt_num,\* pktns->tx.last_pkt_num
  aborted,     \* the assertion of ngtcp2_put_varint_len has failed
  received,    \* history: numbers of the packets accepted
  late,        \* history: those that arrived below a largest_ack already sent
  evicted,     \* history: those dropped because a limit was reached
  frames,      \* history: the ACK frames sent, by the packet that carried them
  confirmed    \* history: numbers covered by an ACK frame the peer acknowledged

recvVars == <<max_pkt_num, seen, received, late>>
vars == <<ents, acks, unacked, max_pkt_num, seen, last_pkt_num, aborted,
          received, late, evicted, frames, confirmed>>

TypeOK ==
  /\ ents \subseteq RxPkt
  /\ acks \subseteq [pkt_num : TxPkt, largest_ack : RxPkt]
  /\ unacked \in BOOLEAN
  /\ max_pkt_num \in RxPkt \cup {-1}
  /\ seen \subseteq RxPkt
  /\ last_pkt_num \in TxPkt \cup {-1}
  /\ aborted \in BOOLEAN
  /\ received \subseteq RxPkt
  /\ late \subseteq RxPkt
  /\ evicted \subseteq RxPkt
  /\ frames \subseteq [pkt_num : TxPkt, acked : SUBSET RxPkt]
  /\ confirmed \subseteq RxPkt

Init ==
  /\ ents = {} /\ acks = {} /\ unacked = FALSE
  /\ max_pkt_num = -1 /\ seen = {} /\ last_pkt_num = -1 /\ aborted = FALSE
  /\ received = {} /\ late = {} /\ evicted = {} /\ frames = {} /\ confirmed = {}

-----------------------------------------------------------------------------
\* The last number of each maximal range of S.
Tops(S) == {p \in S : p + 1 \notin S}

\* What the n ranges of S with the largest numbers cover.
NewestRanges(S, n) == {p \in S : Cardinality({t \in Tops(S) : t >= p}) <= n}

\* Mutant: a new range is made one longer than the packet it stands for.
AcktrAddTooLong(S, pn) == NewestRanges(S \cup {pn, pn + 1}, MaxEnt)

\* ngtcp2_acktr_add: a number joins the ranges; the oldest range makes room.
AcktrAdd(S, pn) == NewestRanges(S \cup {pn}, MaxEnt)

\* The gap below the first pushed numbers, closed by drop_first_gap.
FirstGap(S) ==
  {q \in RxPkt \ S : \A r \in RxPkt \ S : r < q => \A m \in r .. q : m \notin S}

\* Mutant: pngap drops its oldest range instead of closing its oldest gap.
PngapPushForgets(S, pn) == NewestRanges(S \cup {pn}, MaxGaps - 1)

\* gaptr_push, then drop_first_gap if the tracker holds too many gaps.
\* A gap starts at 0 or after each range; the last one never ends.
PngapPush(S, pn) ==
  LET pushed == S \cup {pn}
      gaps == Cardinality(Tops(pushed \cup {-1}))
  IN IF gaps > MaxGaps THEN pushed \cup FirstGap(pushed) ELSE pushed

\* The newest record of an ACK frame sent in one of the packets A: what the
\* search of ngtcp2_acktr_recv_ack finds, as a set of at most one element.
AckedEntry(A) ==
  {a \in acks : a.pkt_num \in A /\ \A b \in acks : b.pkt_num \in A => b.pkt_num <= a.pkt_num}

\* pktns_commit_recv_pkt_num: rx.max_pkt_num.  Mutant: the latest, not the largest.
LatestReceived(pn) == pn
LargestReceived(pn) == IF max_pkt_num < pn THEN pn ELSE max_pkt_num

\* Mutant: an acknowledged ACK forgets up to the largest number received by now.
EntsAfterAckForgetsAll(A) == {p \in ents : AckedEntry(A) # {} => p > max_pkt_num}

\* acktr_on_ack: forget every number up to largest_ack, and that record and
\* the older ones.
EntsAfterAck(A) == {p \in ents : \A a \in AckedEntry(A) : p > a.largest_ack}
AcksAfterAck(A) == {b \in acks : \A a \in AckedEntry(A) : b.pkt_num > a.pkt_num}

(***************************************************************************)
(* conn_recv_pkt accepts packet pn, which is not a duplicate.  A is the    *)
(* set of our packets that its ACK frame acknowledges, {} if it has none;  *)
(* ackEliciting tells whether it has a frame that must be acknowledged.    *)
(***************************************************************************)
RecvPkt(pn, ackEliciting, A) ==
  /\ ~aborted
  /\ pn \notin seen
  /\ A \subseteq 0 .. last_pkt_num
  /\ ents' = AcktrAdd(EntsAfterAck(A), pn)
  /\ evicted' = evicted \cup ((EntsAfterAck(A) \cup {pn}) \ ents')
  /\ acks' = AcksAfterAck(A)
  /\ confirmed' = confirmed \cup UNION {f.acked : f \in {g \in frames : g.pkt_num \in A}}
  /\ unacked' = (unacked \/ ackEliciting)
  /\ max_pkt_num' = LargestReceived(pn)
  /\ seen' = PngapPush(seen, pn)
  /\ received' = received \cup {pn}
  /\ late' = late \cup {p \in {pn} : \E f \in frames : \E q \in f.acked : p < q}
  /\ UNCHANGED <<last_pkt_num, aborted, frames>>

-----------------------------------------------------------------------------
\* Mutant: the limit on blocks is off by one.
ReportedOffByOne ==
  NewestRanges(ents, IF max_pkt_num \in ents THEN MaxAckBlks ELSE MaxAckBlks - 1)

\* The ranges an ACK frame reports: one more than MaxAckBlks when the newest
\* range is the one of max_pkt_num and becomes the first block.
Reported ==
  NewestRanges(ents, IF max_pkt_num \in ents THEN MaxAckBlks + 1 ELSE MaxAckBlks)

\* blk->gap of the first block after a first block for max_pkt_num alone, when
\* the tracker has already forgotten max_pkt_num: unsigned subtraction.
FirstGapField(top) == (max_pkt_num - top - 2) % Word

\* Every gap of the frame fits a variable-length integer.  Gaps between two
\* maximal ranges always do; the first may not.
GapsEncodable ==
  max_pkt_num \in ents
    \/ \A t \in ents : (\A p \in ents : p <= t) => FirstGapField(t) < VarintEnd

\* An ACK is due and conn_create_ack_frame finds ranges to report.
AckDue == ~aborted /\ unacked /\ ents # {}

\* conn_write_pkt writes a packet with an ACK frame; ngtcp2_acktr_commit_ack
\* and ngtcp2_acktr_add_ack record it.
SendAck ==
  /\ AckDue
  /\ GapsEncodable
  /\ last_pkt_num < MaxTxPkt
  /\ LET pn == last_pkt_num + 1
         added == acks \cup {[pkt_num |-> pn, largest_ack |-> max_pkt_num]}
     IN /\ last_pkt_num' = pn
        /\ acks' = {a \in added : Cardinality({b \in added : b.pkt_num >= a.pkt_num}) <= MaxAcks}
        /\ frames' = frames \cup {[pkt_num |-> pn, acked |-> Reported \cup {max_pkt_num}]}
  /\ ents' = Reported
  /\ evicted' = evicted \cup (ents \ Reported)
  /\ unacked' = FALSE
  /\ UNCHANGED <<recvVars, aborted, confirmed>>

\* The frame was built, the ranges beyond MaxAckBlks are forgotten, and the
\* frame did not fit the packet (NGTCP2_ERR_NOBUF): nothing is committed.
SendAckNoBuf ==
  /\ AckDue
  /\ GapsEncodable
  /\ ents' = Reported
  /\ evicted' = evicted \cup (ents \ Reported)
  /\ UNCHANGED <<recvVars, acks, unacked, last_pkt_num, aborted, frames, confirmed>>

\* ngtcp2_put_varint_len is given the wrapped gap and its assertion fails.
AbortOnGap ==
  /\ AckDue
  /\ ~GapsEncodable
  /\ aborted' = TRUE
  /\ UNCHANGED <<recvVars, ents, acks, unacked, last_pkt_num, evicted, frames, confirmed>>

\* conn_write_pkt writes a packet without an ACK frame.
SendPkt ==
  /\ ~aborted
  /\ last_pkt_num < MaxTxPkt
  /\ last_pkt_num' = last_pkt_num + 1
  /\ UNCHANGED <<recvVars, ents, acks, unacked, aborted, evicted, frames, confirmed>>

Next ==
  \/ \E pn \in RxPkt, e \in BOOLEAN, A \in SUBSET TxPkt : RecvPkt(pn, e, A)
  \/ SendAck
  \/ SendAckNoBuf
  \/ AbortOnGap
  \/ SendPkt

Spec == Init /\ [][Next]_vars

-----------------------------------------------------------------------------
\* An ACK frame never acknowledges a packet that was not received: the largest
\* number comes from rx.max_pkt_num, the blocks from acktr->ents, and both
\* outlive what the other forgets (conn_create_ack_frame).
NoFalseAck == \A f \in frames : f.acked \subseteq received

\* A packet that arrived in order leaves the tracker only when the peer has
\* acknowledged an ACK frame that reported it, or when a limit is reached:
\* acktr_on_ack removes by largest_ack alone, so this rests on every such
\* number having been in the tracker when that frame was built.
ForgottenWasConfirmed == received \ ents \subseteq confirmed \cup evicted \cup late

\* Among the recorded ACK frames a later packet has no smaller largest_ack and
\* no record is ahead of the endpoint: ngtcp2_acktr_recv_ack stops its search at
\* the newest record and acktr_on_ack drops every older one on that ground.
AcksOrdered ==
  /\ \A a \in acks : a.pkt_num <= last_pkt_num /\ a.largest_ack <= max_pkt_num
  /\ \A a, b \in acks : a.pkt_num < b.pkt_num => a.largest_ack <= b.largest_ack
  /\ \A a, b \in acks : a.pkt_num = b.pkt_num => a = b

\* When an ACK is pending there is something to report, so the branch of
\* conn_create_ack_frame that commits an empty ACK is never taken: the packet
\* that set first_unacked_ts may itself be forgotten, but never without another.
PendingAckHasRanges == unacked => ents # {}

\* No ACK frame has a gap that wraps: what the assertion in
\* ngtcp2_put_varint_len (ngtcp2_conv.c:199) demands of every value encoded.
NoWrappedGap == ~aborted

\* A number the tracker has forgotten never enters it again: duplicates are
\* stopped by rx.pngap even after it closed its oldest gap, or the assertions of
\* ngtcp2_acktr_add on overlapping ranges would fail.
NoReadmission == [][(ents' \ ents) \cap received = {}]_vars

=============================================================================
