-------------------------------- MODULE Rtb ---------------------------------
(***************************************************************************)
(* The sending half of the application packet number space of ngtcp2 after *)
(* the handshake is confirmed: the retransmission buffer (ngtcp2_rtb.c),   *)
(* the choice of what the next packet carries (conn_write_pkt), ACK        *)
(* processing and loss detection (conn_recv_ack, detect_lost_pkt), probe   *)
(* timeouts (on_loss_detection_timer, reclaim_on_pto) and the congestion   *)
(* state reset of a path migration.                                        *)
(*                                                                         *)
(* An Item is what must reach the peer: a control frame, or a unit of      *)
(* stream or CRYPTO data (the last unit of a stream carries FIN); a unit   *)
(* whose stream is reset stands for all the stream has outstanding.  Every *)
(* packet counts one unit of bytes_in_flight.  Time is abstract: a packet  *)
(* is older than another if its number is smaller, and the time threshold  *)
(* of loss detection is the number `cut' of the newest packet beyond it.   *)
(***************************************************************************)
EXTENDS Integers, FiniteSets

CONSTANTS
  Ctrl,         \* control frames
  Data,         \* units of stream or CRYPTO data
  MaxPkt,       \* this endpoint uses packet numbers 0 .. MaxPkt
  PktThreshold, \* NGTCP2_PKT_THRESHOLD
  PktCap,       \* items that fit a packet
  Cwnd          \* cstat->cwnd, in packets

ASSUME RtbAssumption ==
  /\ Ctrl \cap Data = {}
  /\ MaxPkt \in Nat /\ PktThreshold \in Nat \ {0} /\ PktCap \in Nat \ {0} /\ Cwnd \in Nat \ {0}

Item == Ctrl \cup Data
Pkt == 0 .. MaxPkt

VARIABLES
  last_pkt_num,       \* pktns->tx.last_pkt_num
  ents,               \* rtb->ents, as the set of packet numbers
  frc,                \* ent->frc: the items each entry carries
  elicits,            \* entries with NGTCP2_RTB_FLAG_ACK_ELICITING
  lost,               \* entries with NGTCP2_RTB_FLAG_LOST_RETRANSMITTED
  reclaimed,          \* entries with NGTCP2_RTB_FLAG_PTO_RECLAIMED
  largest_acked,      \* rtb->largest_acked_tx_pkt_num
  num_ack_eliciting, num_retransmittable, num_lost_pkts, \* of rtb
  cc_pkt_num,         \* rtb->cc_pkt_num
  bytes_in_flight,    \* rtb->cc_bytes_in_flight and cstat->bytes_in_flight
  probe_pkt_left,     \* rtb->probe_pkt_left
  loss_time,          \* cstat->loss_time # UINT64_MAX
  timer,              \* cstat->loss_detection_timer # UINT64_MAX
  queue,              \* tx.frq, crypto.tx.frq and the streams' streamfrq
  acked,              \* items marked acknowledged (binder, acked offsets), and
                      \* the data of streams that were reset and closed
  submitted,          \* items handed to the connection so far
  moot,               \* control frames no longer worth sending
  resets,             \* the streams, as data, with NGTCP2_STRM_FLAG_SENT_RST,
                      \* and the RESET_STREAM frames queued for them
  aborted,            \* an assertion failed
  pathReset           \* history: congestion state was reset, timer not set since

counters == <<num_ack_eliciting, num_retransmittable, num_lost_pkts, bytes_in_flight>>
entVars == <<ents, frc, elicits, lost, reclaimed, counters>>
itemVars == <<submitted, acked, moot, resets>>
vars == <<last_pkt_num, entVars, largest_acked, cc_pkt_num, probe_pkt_left, loss_time, timer,
          queue, itemVars, aborted, pathReset>>

TypeOK ==
  /\ last_pkt_num \in Pkt \cup {-1} /\ largest_acked \in Pkt \cup {-1}
  /\ ents \subseteq 0 .. last_pkt_num
  /\ elicits \subseteq ents /\ lost \subseteq ents /\ reclaimed \subseteq ents
  /\ frc \in [Pkt -> SUBSET Item]
  /\ num_ack_eliciting \in Nat /\ num_retransmittable \in Nat
  /\ num_lost_pkts \in Nat /\ bytes_in_flight \in Nat
  /\ cc_pkt_num \in 0 .. MaxPkt + 1
  /\ probe_pkt_left \in 0 .. 2
  /\ loss_time \in BOOLEAN /\ timer \in BOOLEAN /\ aborted \in BOOLEAN /\ pathReset \in BOOLEAN
  /\ queue \subseteq Item /\ acked \subseteq Item /\ submitted \subseteq Item
  /\ moot \subseteq Ctrl /\ resets \subseteq Data \X Ctrl

Init ==
  /\ last_pkt_num = -1 /\ ents = {} /\ frc = [p \in Pkt |-> {}]
  /\ elicits = {} /\ lost = {} /\ reclaimed = {} /\ largest_acked = -1
  /\ num_ack_eliciting = 0 /\ num_retransmittable = 0 /\ num_lost_pkts = 0
  /\ cc_pkt_num = 0 /\ bytes_in_flight = 0 /\ probe_pkt_left = 0
  /\ loss_time = FALSE /\ timer = FALSE
  /\ queue = {} /\ submitted = {} /\ acked = {} /\ moot = {}
  /\ resets = {}
  /\ aborted = FALSE /\ pathReset = FALSE

-----------------------------------------------------------------------------
\* Items not sent when their turn comes: acknowledged meanwhile, or superseded.
Gone == acked \cup moot

\* Data whose stream was reset: no longer owed to the peer, though the entries
\* that carry it are treated like any other.
Reset == {d \in Data : \E c \in Ctrl : <<d, c>> \in resets}
Settled == Gone \cup Reset

\* Entries with NGTCP2_RTB_FLAG_RETRANSMITTABLE, which is set exactly when a
\* packet carries items; those still counted in num_retransmittable.
Retransmittable == {p \in ents : frc[p] # {}}
Counted == Retransmittable \ (lost \cup reclaimed)

\* Mutant: one packet left is not worth a timer.
SetTimerForTwo(n) == timer' = (n > 1) /\ pathReset' = FALSE

\* ngtcp2_conn_set_loss_detection_timer: with nothing to retransmit neither a
\* loss time nor a PTO arms it.  n is num_retransmittable.
SetLossDetectionTimer(n) == timer' = (n > 0) /\ pathReset' = FALSE

\* Mutant: rtb_on_add counts only the bytes of ack-eliciting packets.
TrackElicitingBytes(S, eliciting) ==
  LET pn == last_pkt_num + 1
  IN /\ ents' = ents \cup {pn}
     /\ frc' = [frc EXCEPT ![pn] = S]
     /\ elicits' = IF eliciting THEN elicits \cup {pn} ELSE elicits
     /\ bytes_in_flight' = IF eliciting THEN bytes_in_flight + 1 ELSE bytes_in_flight
     /\ num_ack_eliciting' = IF eliciting THEN num_ack_eliciting + 1 ELSE num_ack_eliciting

\* conn_on_pkt_sent and ngtcp2_rtb_add for a packet with items S.
TrackPkt(S, eliciting) ==
  LET pn == last_pkt_num + 1
  IN /\ ents' = ents \cup {pn}
     /\ frc' = [frc EXCEPT ![pn] = S]
     /\ elicits' = IF eliciting THEN elicits \cup {pn} ELSE elicits
     /\ bytes_in_flight' = bytes_in_flight + 1
     /\ num_ack_eliciting' = IF eliciting THEN num_ack_eliciting + 1 ELSE num_ack_eliciting

\* Congestion control or a probe lets conn_write_pkt write a packet.
MayWrite == ~aborted /\ (bytes_in_flight < Cwnd \/ probe_pkt_left > 0)

NextPkt == last_pkt_num < MaxPkt /\ last_pkt_num' = last_pkt_num + 1

\* Mutant: the count of probes is not tested before it is decremented.
UseProbeUnchecked == probe_pkt_left' = probe_pkt_left - 1

\* An ack-eliciting packet uses up a probe.
UseProbe == probe_pkt_left' = IF probe_pkt_left > 0 THEN probe_pkt_left - 1 ELSE 0

\* The application or the connection asks for a control frame.
QueueCtrl(c) ==
  /\ ~aborted
  /\ c \notin submitted
  /\ submitted' = submitted \cup {c}
  /\ queue' = queue \cup {c}
  /\ UNCHANGED <<last_pkt_num, entVars, largest_acked, cc_pkt_num, probe_pkt_left, loss_time,
                 timer, acked, moot, resets, aborted, pathReset>>

\* A control frame is superseded: a larger limit was announced, or its stream
\* no longer receives.  The write loop of conn_write_pkt will drop it.
MakeMoot(c) ==
  /\ ~aborted
  /\ c \in submitted \ moot /\ \A d \in Data : <<d, c>> \notin resets
  /\ moot' = moot \cup {c}
  /\ UNCHANGED <<last_pkt_num, entVars, largest_acked, cc_pkt_num, probe_pkt_left, loss_time,
                 timer, queue, submitted, acked, resets, aborted, pathReset>>

\* conn_shutdown_stream_write and conn_recv_stop_sending: RESET_STREAM is queued
\* and streamfrq cleared.  A second STOP_SENDING does it again.
ResetStream(d, c) ==
  /\ ~aborted
  /\ d \in submitted \ acked /\ c \notin submitted
  /\ resets' = resets \cup {<<d, c>>}
  /\ submitted' = submitted \cup {c}
  /\ queue' = (queue \ {d}) \cup {c}
  /\ UNCHANGED <<last_pkt_num, entVars, largest_acked, cc_pkt_num, probe_pkt_left, loss_time,
                 timer, acked, moot, aborted, pathReset>>

\* Streams that close when their receiving side is done as well, once A is
\* acknowledged.
Closable(A) == {d \in Data : \E c \in A : <<d, c>> \in resets}

\* ngtcp2_conn_close_stream_if_shut_rdwr of a frame that ends the receiving side.
CloseStream(d) ==
  /\ ~aborted
  /\ d \in Closable(acked) \ acked
  /\ acked' = acked \cup {d} /\ queue' = queue \ {d}
  /\ UNCHANGED <<last_pkt_num, entVars, largest_acked, cc_pkt_num, probe_pkt_left, loss_time,
                 timer, submitted, moot, resets, aborted, pathReset>>

\* conn_write_pkt writes the queued items R and the new stream data N.  New
\* data joins only when no control frame is left in the queue.
Send(R, N) ==
  /\ MayWrite
  /\ R \subseteq queue \ Gone /\ N \subseteq Data \ submitted
  /\ R \cup N # {} /\ Cardinality(R \cup N) <= PktCap
  /\ N # {} => (queue \cap Ctrl) \ Gone \subseteq R
  /\ NextPkt
  /\ TrackPkt(R \cup N, TRUE)
  /\ num_retransmittable' = num_retransmittable + 1
  /\ SetLossDetectionTimer(num_retransmittable + 1)
  /\ UseProbe
  /\ queue' = queue \ (R \cup Gone)
  /\ submitted' = submitted \cup N
  /\ UNCHANGED <<lost, reclaimed, num_lost_pkts, largest_acked, cc_pkt_num, loss_time,
                 acked, moot, resets, aborted>>

\* Mutant: only data is reclaimed, control frames are taken for sent.
DataOf(P) == (UNION {frc[p] : p \in P}) \ (acked \cup Ctrl)

\* ngtcp2_rtb_reclaim_on_pto: the oldest entries up to the n-th that still has
\* something unacknowledged, and what reclaim_frame takes from them.
Productive(p) == frc[p] \ acked # {}
OldestProductive(n) ==
  LET productive == {q \in Counted : Productive(q)}
  IN {p \in Counted : Cardinality({q \in productive : q < p}) < n}
ItemsOf(P) == (UNION {frc[p] : p \in P}) \ acked

\* conn_write_pkt has nothing to write while a probe is due, and reclaims
\* probe_pkt_left + 1 entries at a time until it has (the jump to build_pkt).
Probing == probe_pkt_left > 0 /\ num_retransmittable > 0 /\ queue \subseteq Gone
ReclaimedIn(rounds) == OldestProductive(rounds * (probe_pkt_left + 1))
RoundSuffices(rounds) == ItemsOf(ReclaimedIn(rounds)) \ moot # {}
Rounds == 1 .. Cardinality(Counted) + 1

\* A probe carries some of what was reclaimed; the rest stays queued.
SendProbe(R) ==
  /\ ~aborted /\ Probing
  /\ R # {} /\ Cardinality(R) <= PktCap
  /\ \E m \in Rounds :
       LET took == ReclaimedIn(m)
       IN /\ RoundSuffices(m) /\ \A k \in Rounds : RoundSuffices(k) => m <= k
          /\ R \subseteq ItemsOf(took) \ moot
          /\ reclaimed' = reclaimed \cup took
          /\ queue' = ItemsOf(took) \ (R \cup moot)
          /\ num_retransmittable' = num_retransmittable - Cardinality(took) + 1
          /\ SetLossDetectionTimer(num_retransmittable - Cardinality(took) + 1)
  /\ NextPkt
  /\ TrackPkt(R, TRUE)
  /\ UseProbe
  /\ UNCHANGED <<lost, num_lost_pkts, largest_acked, cc_pkt_num, loss_time,
                 itemVars, aborted>>

\* What conn_write_pkt can write without items: nothing, an ACK alone, a packet
\* that had to be padded, one with a PING.  The last two are tracked.
EmptyKind == {"nothing", "ack", "padded", "ping"}
Tracked == {"padded", "ping"}
WriteEmpty(kind) ==
  /\ IF kind = "nothing" THEN UNCHANGED last_pkt_num ELSE NextPkt
  /\ IF kind \in Tracked THEN TrackPkt({}, kind = "ping")
     ELSE UNCHANGED <<ents, frc, elicits, bytes_in_flight, num_ack_eliciting>>

\* No probe is due: an ACK is (alone also when congestion control blocks the
\* rest), or a probe is and nothing is outstanding.  PATH_CHALLENGE and
\* PATH_RESPONSE, never retransmitted, are a "ping".
SendEmpty(kind) ==
  /\ ~aborted /\ kind # "nothing"
  /\ \/ MayWrite /\ queue \subseteq Gone /\ (Probing => kind = "ping")
     \/ ~MayWrite /\ kind = "ack"
  /\ WriteEmpty(kind)
  /\ IF kind \in Tracked THEN SetLossDetectionTimer(num_retransmittable)
     ELSE UNCHANGED <<timer, pathReset>>
  /\ IF kind = "ping" THEN UseProbe ELSE UNCHANGED probe_pkt_left
  /\ queue' = IF MayWrite THEN {} ELSE queue
  /\ UNCHANGED <<lost, reclaimed, num_retransmittable, num_lost_pkts, largest_acked, cc_pkt_num,
                 loss_time, itemVars, aborted>>

\* A probe is due but all that could be reclaimed is moot or acknowledged.  When
\* the last pass over the entries reclaims no frame at all, the probe is called
\* off and the timer set; otherwise the write ends with an empty packet.
CalledOff ==
  \E m \in Rounds \cup {0} :
    LET rest == IF m = 0 THEN Counted ELSE Counted \ ReclaimedIn(m)
    IN rest # {} /\ \A p \in rest : ~Productive(p)

ProbeMoot(kind) ==
  /\ ~aborted /\ Probing
  /\ ItemsOf(Counted) \subseteq moot
  /\ kind = "nothing" => CalledOff
  /\ WriteEmpty(kind)
  /\ reclaimed' = reclaimed \cup Counted
  /\ num_retransmittable' = num_retransmittable - Cardinality(Counted)
  /\ queue' = {}
  /\ IF CalledOff \/ kind \in Tracked THEN SetLossDetectionTimer(num_retransmittable')
     ELSE UNCHANGED <<timer, pathReset>>
  /\ probe_pkt_left' = IF CalledOff THEN 0
                       ELSE IF kind = "ping" THEN probe_pkt_left - 1 ELSE probe_pkt_left
  /\ UNCHANGED <<lost, num_lost_pkts, largest_acked, cc_pkt_num, loss_time, itemVars, aborted>>

-----------------------------------------------------------------------------
\* rtb->ents without the entries D that an ACK frame acknowledges, and the
\* packet threshold ngtcp2_rtb_detect_lost_pkt derives from what is in flight.
BytesOf(P) == Cardinality({p \in P \ lost : p >= cc_pkt_num})
PktThres(D) ==
  LET half == (bytes_in_flight - BytesOf(D)) \div 2
  IN IF half > PktThreshold THEN half ELSE PktThreshold

\* The scan from `largest' downwards ends at the first entry already lost.
Examined(D, largest) ==
  {p \in ents \ (D \cup lost) : p <= largest /\ \A q \in lost \ D : q <= largest => q < p}

\* Mutant: the scan stops after the first lost entry.
JudgedLostFirst(D, largest, cut) ==
  LET late == {q \in Examined(D, largest) : q <= cut \/ largest >= q + PktThres(D)}
  IN {p \in late : \A q \in late : q <= p}

\* What the scan may judge lost: its first entry beyond the time or the packet
\* threshold and all examined below it (rtb_pkt_lost).
JudgedLost(D, largest, cut) ==
  LET examined == Examined(D, largest)
      thres == PktThres(D)
      late == {q \in examined : q <= cut \/ largest >= q + thres}
  IN {p \in examined : \E q \in late : p <= q}
LossOutcomes(D, largest) ==
  {JudgedLost(D, largest, cut) : cut \in Examined(D, largest) \cup {-1}}

\* Mutant: what a PTO took back is queued a second time.
RequeuedAgain(judged, done) == UNION {frc[p] \ done : p \in judged}

\* rtb_on_pkt_lost: what the judged entries still hold, unless a PTO has already
\* taken it back.
Requeued(judged, done) == UNION {frc[p] \ done : p \in judged \ reclaimed}

(***************************************************************************)
(* ngtcp2_rtb_recv_ack removes the entries D, acknowledging the items      *)
(* `done' so far; then ngtcp2_rtb_detect_lost_pkt removes or keeps the     *)
(* entries judged lost (rtb_on_remove, rtb_on_pkt_lost), queues their      *)
(* items, and ngtcp2_rtb_remove_excessive_lost_pkt drops the oldest lost.  *)
(***************************************************************************)
RemoveAndDetectLost(D, largest, judged, done) ==
  LET kept == {p \in judged : p \in reclaimed \/ frc[p] \ done # {}}
      gone == D \cup judged
      rest == ents \ (D \cup (judged \ kept))
      numLost == num_lost_pkts - Cardinality(D \cap lost) + Cardinality(kept)
      room == numLost - PktThres(D)
      excess == IF room > 0 THEN {p \in rest : Cardinality({q \in rest : q <= p}) <= room} ELSE {}
      left == rest \ excess
  IN /\ ents' = left
     /\ frc' = [p \in Pkt |-> IF p \in left THEN frc[p] ELSE {}]
     /\ elicits' = elicits \cap left
     /\ reclaimed' = reclaimed \cap left
     /\ lost' = (lost \cup kept) \cap left
     /\ num_lost_pkts' = numLost - Cardinality(excess)
     /\ num_ack_eliciting' = num_ack_eliciting - Cardinality((gone \cap elicits) \ lost)
     /\ num_retransmittable' = num_retransmittable - Cardinality(gone \cap Counted)
     /\ bytes_in_flight' = bytes_in_flight - BytesOf(gone)
     /\ queue' = queue \cup Requeued(judged, done)
     /\ loss_time' = (Examined(D, largest) # judged)

\* Mutant: what the frames acknowledge replaces what was known to be.
AcknowledgedOnly(D) == UNION {frc[p] : p \in D}

\* What is acknowledged once process_acked_pkt has seen the frames of entries D.
Acknowledged(D) == acked \cup UNION {frc[p] : p \in D}

\* ngtcp2_rtb_recv_ack walks the ranges of an ACK frame with the largest number
\* top; they may acknowledge any entries D that include top itself.
Acknowledges(D, top) == (\A p \in D : p <= top) /\ (top \in ents => top \in D)

\* conn_recv_ack.  Nothing is detected when the frame acknowledges no entry.  The
\* streams C close as their RESET_STREAM is acknowledged.
RecvAck(D, top, C) ==
  LET largest == IF largest_acked < top THEN top ELSE largest_acked
      done == Acknowledged(D) \cup C
  IN /\ ~aborted
     /\ Acknowledges(D, top) /\ C \subseteq Closable(Acknowledged(D))
     /\ largest_acked' = largest
     /\ IF D = {}
          THEN UNCHANGED <<entVars, probe_pkt_left, loss_time, timer, queue, acked, pathReset>>
          ELSE /\ \E judged \in LossOutcomes(D, largest) :
                    RemoveAndDetectLost(D, largest, judged, done)
               /\ acked' = done
               /\ probe_pkt_left' = 0
               /\ SetLossDetectionTimer(num_retransmittable')
     /\ UNCHANGED <<last_pkt_num, cc_pkt_num, submitted, moot, resets, aborted>>

\* ngtcp2_conn_on_loss_detection_timer with a loss time set.
OnLossTime ==
  /\ ~aborted /\ timer
  /\ loss_time /\ num_retransmittable > 0
  /\ \E judged \in LossOutcomes({}, largest_acked) :
       RemoveAndDetectLost({}, largest_acked, judged, acked)
  /\ SetLossDetectionTimer(num_retransmittable')
  /\ UNCHANGED <<last_pkt_num, largest_acked, cc_pkt_num, probe_pkt_left, itemVars, aborted>>

\* ... and without one: two probes, unless the timer runs with nothing to
\* retransmit and assert(earliest_pktns) fails.
OnPto ==
  /\ ~aborted /\ timer
  /\ ~(loss_time /\ num_retransmittable > 0)
  /\ IF num_retransmittable > 0
       THEN /\ probe_pkt_left' = 2 /\ UNCHANGED aborted
            /\ SetLossDetectionTimer(num_retransmittable)
       ELSE aborted' = TRUE /\ UNCHANGED <<probe_pkt_left, timer, pathReset>>
  /\ UNCHANGED <<last_pkt_num, entVars, largest_acked, cc_pkt_num, loss_time, queue, itemVars>>

\* ngtcp2_rtb_remove_expired_lost_pkt: the lost entries up to p are a PTO old.
RemoveExpiredLostPkt(p) ==
  LET old == {q \in ents : q <= p}
  IN /\ ~aborted
     /\ old # {} /\ old \subseteq lost
     /\ ents' = ents \ old /\ lost' = lost \ old
     /\ elicits' = elicits \ old /\ reclaimed' = reclaimed \ old
     /\ frc' = [q \in Pkt |-> IF q \in old THEN {} ELSE frc[q]]
     /\ num_lost_pkts' = num_lost_pkts - Cardinality(old)
     /\ UNCHANGED <<last_pkt_num, num_ack_eliciting, num_retransmittable, bytes_in_flight,
                    largest_acked, cc_pkt_num, probe_pkt_left, loss_time, timer, queue,
                    itemVars, aborted, pathReset>>

\* conn_reset_congestion_state on a new path: the loss detection timer goes too.
ResetCongestionState ==
  /\ ~aborted
  /\ cc_pkt_num # last_pkt_num + 1
  /\ bytes_in_flight' = 0
  /\ cc_pkt_num' = last_pkt_num + 1
  /\ timer' = FALSE
  /\ pathReset' = TRUE
  /\ UNCHANGED <<last_pkt_num, ents, frc, elicits, lost, reclaimed, num_ack_eliciting,
                 num_retransmittable, num_lost_pkts, largest_acked, probe_pkt_left, loss_time,
                 queue, itemVars, aborted>>

Next ==
  \/ \E c \in Ctrl : QueueCtrl(c) \/ MakeMoot(c) \/ \E d \in Data : ResetStream(d, c)
  \/ \E d \in Data : CloseStream(d)
  \/ \E R \in SUBSET queue, N \in SUBSET (Data \ submitted) : Send(R, N)
  \/ \E R \in SUBSET Item : SendProbe(R)
  \/ \E kind \in EmptyKind : SendEmpty(kind) \/ ProbeMoot(kind)
  \/ \E D \in SUBSET ents, top \in 0 .. last_pkt_num :
       \E C \in SUBSET Closable(Acknowledged(D)) : RecvAck(D, top, C)
  \/ OnLossTime
  \/ OnPto
  \/ \E p \in lost : RemoveExpiredLostPkt(p)
  \/ ResetCongestionState

Spec == Init /\ [][Next]_vars

-----------------------------------------------------------------------------
\* Nothing handed to the connection is lost track of: an item neither
\* acknowledged nor moot, nor of a stream that was reset, is queued or in an
\* entry that loss detection or a PTO will still turn to.  Entries already
\* declared lost or reclaimed do not count.
NoItemLost ==
  submitted \ Settled \subseteq queue \cup UNION {frc[p] : p \in Counted}

\* An item has one place to be retransmitted from: a second copy in a stream's
\* queue would have the key of the first, and ngtcp2_ksl_insert would fail.
UniqueOwner ==
  /\ \A p \in Counted : frc[p] \cap queue \subseteq Gone
  /\ \A p, q \in Counted : p # q => frc[p] \cap frc[q] \subseteq Gone

\* The sending half keeps the promise of module Delivery: through every loss,
\* probe and late acknowledgement an item is in one of three places, leaves
\* flight only to wait or when settled, and what is settled stays so.
Promise ==
  INSTANCE Delivery WITH
    waiting <- queue \ Settled,
    inFlight <- (UNION {frc[p] : p \in Counted}) \ Settled,
    settled <- Settled
Delivers == Promise!Spec

\* Lost entries are the oldest: remove_excessive and remove_expired take from
\* the end on that ground (an assertion), and the loss scan stops at the first.
LostAreOldest == \A p \in lost, q \in ents \ lost : p < q

\* The counters the timer, the probe logic and congestion control trust equal
\* what is in the buffer, so none of the assertions before a decrement fails.
CountersExact ==
  /\ num_ack_eliciting = Cardinality(elicits \ lost)
  /\ num_retransmittable = Cardinality(Counted)
  /\ num_lost_pkts = Cardinality(lost)
  /\ bytes_in_flight = Cardinality({p \in ents \ lost : p >= cc_pkt_num})

\* While an item waits for an acknowledgement there is always a next step: it is
\* queued, or the loss detection timer runs, except after a path migration
\* until the timer is next set.
NoStall ==
  submitted \ Settled # {} => aborted \/ queue \ Settled # {} \/ timer \/ pathReset

\* As the comment on NGTCP2_RTB_FLAG_RETRANSMITTABLE (ngtcp2_rtb.h:179) has it:
\* such an entry must be retransmitted until acknowledged and triggers PTO.
RetransmittableTriggersPto == num_retransmittable > 0 => timer

\* The assertion of ngtcp2_conn_on_loss_detection_timer (ngtcp2_conn.c:10260):
\* when a PTO fires there is a packet number space with something to retransmit.
PtoHasPktns == ~aborted
=============================================================================
