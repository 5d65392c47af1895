# Verification of the HTTP/3 client: curl, nghttp3 and ngtcp2

The repository is an Android demonstration of HTTP/3 with curl.  Its own code is
a build plugin and a stub; what does the work is the C code it vendors and
builds: curl with its HTTP/3 glue `lib/vquic/ngtcp2.c`, nghttp3 (HTTP/3, draft
32) and ngtcp2 (QUIC transport, draft 32).  This project models the parts of
that stack in which order, loss, retransmission and bounded buffers make
correctness hard to test.

Paths below are relative to `src/`; `conn.c`, `rtb.c`, `acktr.c` are
`ngtcp2-draft-32/lib/ngtcp2_*.c`, `ngtcp2.c` is
`curl-master/lib/vquic/ngtcp2.c`.

## 1. Inventory

All of it runs in one thread.  What interleaves is the order of received
packets, timers, application calls and the callbacks these cause; packets are
lost, duplicated, reordered and delayed.

| Component | State | Operations | Talks to | What is hard | What makes it correct |
|---|---|---|---|---|---|
| ACK tracker, `acktr.c`, `gaptr.c` | ranges of received packets, ring of ACKs sent, pngap, ack timer | packet received, ACK built, ACK acknowledged | conn.c | limits, lost and late ACKs, wrap of unsigned gaps | ACKs are true; nothing is forgotten unconfirmed; no packet accepted twice |
| Retransmission buffer, `rtb.c` | entries, counters, lost list | add, recv_ack, detect_lost, reclaim on PTO, expiry | conn.c, streams, congestion control | late ACKs, spurious loss, two owners of a frame, migration | every frame is acknowledged or will be sent again; counters exact; timer armed |
| Connection, writing and reading packets, `conn.c` | queues of frames, timers, packet numbers | write_pkt, recv_pkt, on_loss_detection_timer | all of ngtcp2 | order of drops, NOBUF, probes | no stall, no failed assertion |
| Streams and flow control, `conn.c`, `strm.c`, `rob.c` | offsets, reassembly, windows, shutdown flags | STREAM, RESET_STREAM, STOP_SENDING, MAX_DATA, close | application through callbacks | reordered FIN and reset, credit given back twice or never | bytes in order once; credit equals consumption |
| Handshake, key update, close, `conn.c`, `crypto/` | conn_state, keys, confirmation | handshake, rekey, draining | TLS library | 0-RTT rejection, retry, reordered keys | states reached in order; key update only after confirmation |
| Connection ids and paths, `conn.c`, `pv.c` | pools, sequence numbers, path validation | NEW/RETIRE_CONNECTION_ID, PATH_*, migration | peer | duplicate frames, retirement limit | ids retired once; a path in use is validated |
| Congestion control, `cc.c` | cwnd, ssthresh | on ack, on loss, on persistent congestion | rtb | arithmetic | window never below minimum |
| nghttp3 stream, `nghttp3_stream.c` | frame queue, outq, offsets, flags | fill, write, acknowledge | conn, application callbacks | merging and popping buffers at both ends | offsets match the wire; no premature FIN |
| nghttp3 connection, `nghttp3_conn.c` | streams, schedule, GOAWAY, push | submit, writev, block, unblock, resume | QPACK, application | blocked and rescheduled streams | a stream with data is scheduled |
| QPACK, `nghttp3_qpack.c` | dynamic tables, blocked streams | encode, decode, acknowledgements | streams | eviction of referenced entries | encoder and decoder tables agree |
| curl upload, `ngtcp2.c`, `transfer.c` | ulbuf, ring h3out, upload_len/left/done, KEEP_SEND | fill, send, read callback, acked callback, done_sending | nghttp3, ngtcp2, application | ring against retransmission, end of upload, blocked stream never resumed | body sent whole, in order, once, and finished |
| curl download, `ngtcp2.c`, `transfer.c` | mem/len/memlen, overflow, unacked_window, closed | recv, recv_data callback, drain, extend window | nghttp3, ngtcp2, several transfers | overflow, several transfers on one connection, abandoned transfers | body delivered once, in order; credit returned |
| curl core, other protocols; quiche backend; Android stub; Gradle plugin | - | - | - | - | not part of the HTTP/3 core |

`PROJECT.json` lists every component with its status and every hazard with its
line.

## 2. Plan

Modules in order of importance; those marked * exist.

1. `AckTracker`*, `AckRanges`*, `AckTrackerProofs`*, `AckRangesProofs`*: receiving half of a packet
   number space.  Abstraction to sets, and the range algorithm that implements it.
2. `Rtb`*, `RtbProofs`*: sending half.  The component whose failure loses data.
3. `Delivery`*: the abstract promise of the sending half, refined by `Rtb`.
4. `H3Stream`*, `H3Upload`*, `H3StreamProofs`*, `H3UploadProofs`*: an upload from the application to the QUIC stream;
   `H3Upload` composes curl with nghttp3 and reduces QUIC to credit and
   acknowledgement, which is what `Rtb` promises.
5. `RxFlow`*, `RobRanges`*, `RxFlowProofs`*, `RobRangesProofs`*: streams, reassembly, reset and stop,
   credit of stream and connection; `RobRanges` is the range algorithm of the
   reorder buffer beside the sets of `RxFlow`.
6. `FlowWindow`*: the abstract window protocol, refined by `RxFlow`.
7. `H3Download`*, `H3DownloadProofs`*: the receive path of curl with several
   transfers on a connection, over the promise of `RxFlow`: bytes in order, each
   returning its credit once.
8. `AckDelay`: the ACK delay timer and its cancellation, with discrete time.
9. `ConnIds`, `KeyUpdate`: sequence numbers and retirement; key phases.

Theorems: the invariants of `AckTracker`*; of `Rtb`* and that it implements
`Delivery`*; of `RxFlow`* and that it implements `FlowWindow`*; of
`H3Download`*; of `H3Upload`*; what the operators of `H3Stream`*, `AckRanges`*
and `RobRanges`* compute on lists of any length, and that it is what the sets
say.  With these every safety property of a passing run is a theorem.  Left are
the theorems of the modules under 8 and 9.

## 3. What is modelled

### AckTracker and AckRanges

One packet number space, from the receipt of packets to the acknowledgement of
our ACKs.  `ents` is the set of packet numbers the ranges of the skip list
cover, `acks` the ring of `(pkt_num, largest_ack)`, `seen` the numbers pushed
into pngap.  `RecvPkt` is the tail of `conn_recv_pkt` (duplicate check,
`conn_recv_ack` as far as the tracker is concerned, `ngtcp2_acktr_add`);
`SendAck`, `SendAckNoBuf`, `AbortOnGap` are the outcomes of
`conn_create_ack_frame` and of writing its packet.  The peer acknowledges any
set of packets at any time, which covers loss, duplication and reordering in
both directions.  Whether an ACK is due by time or threshold is left to chance:
`first_unacked_ts` is the flag `unacked`.

`AckRanges` translates the three algorithms on ranges (insertion with extension
and join, the removal by `acktr_on_ack`, the search of `ngtcp2_acktr_recv_ack`
against the blocks of a frame) and the frame itself block by block, and states
that in every reachable state they compute what the sets say.  The order of a skip
list is the rank of its members (`Decreasing`); the search, which moves one of two
indices each time, is a function on pairs of indices, and the blocks of a frame
and the walk along the gaps are functions on indices too.

### Rtb

The application packet number space after the handshake is confirmed.  An *item*
stands for what must reach the peer: a control frame, or a unit of stream or
crypto data.  The queues (`tx.frq`, `crypto.tx.frq`, `streamfrq`) are one set
`queue`; an entry's frames are `frc[p]`, its flags the sets `elicits`, `lost`,
`reclaimed`.  Counters are variables of their own, as in the code, so that they
can be wrong.  `QueueCtrl`, `MakeMoot`, `ResetStream` and `CloseStream` are what
the application and the peer do to items: a reset clears `streamfrq` and queues a
RESET_STREAM frame, but leaves the entries that carry the stream's data alone,
so that their loss pushes that data into `streamfrq` again; once the frame is
acknowledged the stream may close, at that moment or later, and from then on
`rtb_reclaim_frame` finds no stream for it.  A unit that is never reset may be
CRYPTO data; the model does not distinguish the two further.  `Send`, `SendProbe`, `SendEmpty`, `ProbeMoot` are the ways
`conn_write_pkt` can end; `RecvAck` is the whole of `conn_recv_ack` with
`ngtcp2_rtb_recv_ack`, loss detection, removal of excess lost entries and the
timer; `OnLossTime`, `OnPto` are `ngtcp2_conn_on_loss_detection_timer`;
`RemoveExpiredLostPkt` and `ResetCongestionState` the rest.

Time is abstract.  The time threshold of loss detection is any cut in the order
of sending, which is sound as packets sent later have later time stamps.  A
packet counts one unit of bytes.  A packet that `send()` refuses (ngtcp2.c:1868)
is one the peer never acknowledges.  0-RTT, other packet number spaces and key
discard are not modelled; nor is persistent congestion, which only changes the
window.

### Delivery

What the sending half promises: an item is waiting to be sent, in flight, or
settled (acknowledged, no longer worth sending, or of a stream that was reset),
never two of these and never none; settled is final.  An item submitted may stand
in for others, as RESET_STREAM does for the data of its stream.  `Rtb` implements
it with `waiting`, `inFlight` and `settled` computed from its state.

### RxFlow, RobRanges and FlowWindow

The receiving half of the streams of a connection.  Streams of two kinds, opened
here (`Local`, bidirectional) or by the peer (`Remote`, unidirectional), receive
STREAM and RESET_STREAM frames.  The peer is honest and the network is not: any
frame that agrees with what the peer said so far and with the limits it was told
may arrive at any time, again, late, or after the stream was closed.

| Code | Actions |
|---|---|
| `conn_recv_stream` | `RefuseStream`, `DropStream`, `BufferStream`, `DeliverStream` |
| `conn_recv_reset_stream` | `RefuseReset`, `RecvResetUnopened`, `RecvReset` |
| `conn_emit_pending_stream_data` and the callback in it, which may stop the stream | `DeliverStream`, `StopInside` |
| `conn_shutdown_stream_read` | `StopStream` |
| `ngtcp2_conn_extend_max_stream_offset`, `ngtcp2_conn_extend_max_offset` | `Consume` |
| MAX_DATA and MAX_STREAM_DATA of `conn_write_pkt`, auto-tuning, NOBUF | `WriteMaxData`, `WriteMaxStreamData`, `SkipMaxStreamData`, `WriteLeftover` |
| `ngtcp2_conn_close_stream_if_shut_rdwr` | `CloseIfShut`, part of every action that can end a side |

The sending side of a stream is one flag, `wrShut`, set by `FinishWrite` once its
data or its reset is acknowledged.  The limit of a stream counts as told when it
is written: what the code may refuse is judged by what the peer could have been
told.  Reorder buffers are the sets `got` and `chunks`; `RobRanges` has their two
skip lists, `ngtcp2_rob_push` with its cuts and splits, `ngtcp2_rob_remove_prefix`,
`ngtcp2_rob_data_at`, `ngtcp2_rob_pop` and the loop that emits, and states that in
every reachable state and for every frame they compute what the sets say.  Lists
are ordered by rank (`Increasing`); the loop that emits is a function on the
offset reached and the chunks left.

`FlowWindow` is what flow control promises: usage below the announced limit,
credit given back at most once per byte, and a new limit exactly one window above
what was given back.

Consequences of the code that the properties spell out:

* `CreditComplete`: bytes that are contiguous when the application stops the
  stream *inside* the callback are not delivered and never credited
  (conn.c:9909 takes the offset behind them).
* `FalselyAccusedOnlyBy`: an honest peer is refused in two cases, and in no
  other.  A RESET_STREAM for a stream already closed is checked against the
  initial window and counted against the connection limit again before
  `ngtcp2_idtr_open` tells it is old (conn.c:6081); and a MAX_STREAM_DATA frame
  that did not fit its packet (conn.c:3155) has been built, is sent later from
  `tx.frq`, but its limit is never recorded.
* `ClosesWhenDone` excludes a stream that was stopped and then finished with
  bytes missing: `rx_offset < last_offset` keeps it open for good.

### H3Download

Several downloads over one connection and one socket.  A transfer's `struct HTTP`
is the record `http[t]`: `mem` (with `len`, the room left), `overflow`,
`unacked_window`, `closed`.  One iteration of the loop of `readwrite_data` is one
action: `ReadData`, `ReadNothing` or `ReadFails`, by what `ngh3_stream_recv`
returns.  It drains the overflow buffer, reads *all* datagrams of the socket,
which runs the callbacks of all streams (`Ingress`, `WriteData`), and hands over
the receive buffer.  Between two iterations of a call, which `turn` and
`maxloops` describe, only the server acts; `RunDone` is a call of `Curl_readwrite`
that reads nothing, and `Unpause` `curl_easy_pause`.  `MayRead` is the reason
libcurl calls the transfer: a readable socket, `data->state.drain`, or
`conn->cselect_bits`, which belongs to the connection and is consumed by
whichever transfer runs first.

The server (`Send`, `Finish`) keeps to the window of each stream and sends every
body whole.  Header data, transfers that are abandoned, and what follows a failed
`ngtcp2_conn_read_pkt` are left out; `broken` ends the behaviour.

What the properties say, and had to leave room for: a body is passed on in order
and once as long as its overflow buffer was never used (`OnlyOverflowDisorders`).
With it, bytes are repeated (finding 7) or overtaken, because newer bytes go to
`mem` while older ones wait in `overflow`; data that arrives before a transfer's
first read also goes there, as its `len` is 0.  Even so none is lost
(`NothingLost`).  `ClosedEnds`: a transfer whose last datagram was read by another
ends all the same, but only because `cb_h3_stream_close` sets
`data->state.drain`, which nothing resets; an unsized body that used the overflow
buffer never ends.

### H3Stream and H3Upload

`H3Stream` has pure operators on a stream record for the sending side of
nghttp3: `OutqAdd` merges consecutive frame headers, `AddWriteOffset` and
`AddAckOffset` are the two cursors, `AckedData` what the callbacks report,
`BlockStream`, `UnblockStream`, `ResumeStream` and the schedule flag.

`H3Upload` adds curl.  `ReadBody`, `OfferAgain`, `BodyEof` are
`readwrite_upload`; a flush (`ng_flush_egress`) is the sequence of `Fill...` and
`Write...` steps that ends with `EndFlush`, which also does what
`readwrite_upload` does after its own flush.  Between flushes packets arrive:
`Ack`, `ExtendMaxStreamData`.  `FillChunk` is `cb_h3_readfunction` with a copy,
including where it hands over a wrong pointer.

Abstractions: a DATA frame header is one byte, the HEADERS frame one buffer of
either kind; the vector of 16 never fills; connection credit, congestion and a
full socket are a nondeterministic `EndFlush`; an acknowledgement of FIN alone
changes nothing and is left out; the application supplies its body honestly
(end of file exactly at the size it announced).  `Expect: 100-continue` does not
arise as `httpversion` is below 20 when it is decided.  POST fields in one
buffer, responses that stop an upload, pausing, CRLF conversion and resets by
the server are left out.

## 4. Runs

| Run | Configuration | Shows |
|---|---|---|
| `ack_tracker` | 6 packets received, 3 sent, 2 ranges, 1 block after the first, ring of 2, 3 gaps | `TypeOK`, `NoFalseAck`, `ForgottenWasConfirmed`, `AcksOrdered`, `PendingAckHasRanges`, the agreements of `AckRanges`, `NoReadmission` |
| `ack_gap` | 4 packets | an assertion fails, finding 1 |
| `rtb` | 4 packets, 1 control frame, 2 units of data, threshold 2, 2 items a packet, window 3 (497 thousand states) | `TypeOK`, `NoItemLost`, `UniqueOwner`, `LostAreOldest`, `CountersExact`, `NoStall`, refinement of `Delivery` |
| `rtb_pto_assert`, `rtb_path_reset` | same | findings 2, 3 |
| `h3_upload` | bodies of 0 and 4 bytes of known size, 3 of unknown, ring of 3, upload buffer of 2, credit 3 | `TypeOK`, `RingIntact`, `UsedExact`, `OutqMatchesWire`, `FinLast`, `HandedIsDelivered` |
| `upload_base`, `upload_fin`, `upload_stall` | bodies of 2 or 3 bytes, ring of 2 | findings 4 to 6 |
| `rx_flow` | one local and one remote stream of up to 3 bytes, windows 2 growing to 3, chunks of 2, packets without room for a frame (306 thousand states) | `TypeOK`, `CreditedOnce`, `CreditComplete`, `OffsetExact`, `FalselyAccusedOnlyBy`, `StreamNotStuck`, `ClosesWhenDone`, `RobHoldsData`, `RobAgrees`, `EmitAgrees`, refinement of `FlowWindow` |
| `h3_download` | two transfers, one of 2 bytes with a content-length and a client that pauses, one of 3 without; receive buffer of 1, overflow of 2, window 2, one extra loop (24 thousand states) | `TypeOK`, `OnlyOverflowDisorders`, `NothingLost`, `CreditComesBack`, `EndsComplete`, `ClosedEnds` |
| `download_twice` | same | finding 7 |

**Bounds.**  In `ack_tracker` every limit is below the number of packets, so
ranges are evicted, the ring overwrites and pngap closes a gap; six packets make
three ranges, one more than the tracker holds.  `Word` and `VarintEnd` are small
stand-ins for 2^64 and 2^62 in the same order relation to the packet numbers.  In
`rtb` four packets suffice for a lost entry, a spurious one acknowledged late, a
reclaimed one and a probe at once; with threshold 2 a packet can be lost by the
time or by the packet threshold, or be left for the loss timer, and three lost
entries are one too many.  `Ctrl` and `Data` are symmetric sets.  In
`h3_upload` the body is larger than the ring and the ring larger than the upload
buffer, so that the ring wraps and fills and buffers are acknowledged in parts.
In `rx_flow` a stream is longer than its window and longer than a chunk, so that
a frame can leave a gap, span chunks, and meet a limit that was raised; the
connection window is smaller than what the two streams use together.  With one
control frame a stream in `rtb` is reset once, and with two units of data another
stream goes on meanwhile; that several frames may reset one stream is in the
model and in the proofs.  In `h3_download` the receive buffer is smaller than the
window, so that the overflow buffer is used and can overflow; `GotMax` is one
more than the longest body and cuts off what a client is passed without end.

**Deadlock** is checked for `h3_upload`.  The packet numbers of `AckTracker` and
`Rtb` end, streams of `RxFlow` are read to their end, downloads complete, and a
connection that is closed with an error does nothing more: all of these may stop.

**Fairness** is used for `HandedIsDelivered`, `UploadFinishes` and `ClosedEnds`
only.  In an upload, flushes
end and start again (weak: curl is called by its timers and by the socket).  The
steps inside a flush and the events from outside are strong: congestion control,
connection credit and the socket may end a flush at any step, but not every
flush, and the peer acknowledges and grants credit in the end, because QUIC
retransmits both.  The application always supplies when asked.  In a download a
transfer that can run again and again does run, and a paused one is resumed
(strong fairness of `Run` and `Unpause`): `curl_multi_perform` calls every
handle, `cb_h3_stream_close`, `curl_easy_pause` and the comeback of
`readwrite_data` call `Curl_expire`, and a client that paused resumes what it
wants to have.  Strong, as another transfer may take the flag or the datagram
meant for this one.  Nothing is assumed of the server.

**Mutants.**  Each property of a passing run has one mutated definition in its
module (their comments begin with "Mutant") that breaks it in that run.

## 5. Proofs

`AckTrackerProofs` proves, for all values of the constants allowed by
`BoundsAssumption`, that `AckTracker` keeps `TypeOK`, `NoFalseAck`,
`ForgottenWasConfirmed`, `AcksOrdered`, `PendingAckHasRanges` and
`NoReadmission`.

None of these is inductive alone.  `IInv` adds: what the tracker and pngap know
was received, and pngap has seen every received number (`KnownWasReceived`);
each recorded ACK has its frame (`LogHasFrames`), because forgetting by
`largest_ack` is justified by what the frame reported; and every number received
in order, below a frame's largest, was reported by it unless it was confirmed or
evicted before (`FramesComplete`).  The proof has one lemma per action and in it one
step per conjunct.  The only lemmas about data are that a nonempty set of
numbers up to N has a largest member, and what `NewestRanges` and `PngapPush`
keep.

`RtbProofs` proves for `Rtb`, under `RtbAssumption` and for any numbers of
packets, items, threshold, capacity and window, `TypeOK`, `NoItemLost`,
`UniqueOwner`, `LostAreOldest`, `CountersExact`, `NoStall` and `Spec => Delivers`,
the refinement of `Delivery`.  The invariant `RtbInv` adds `Known` (only what was
submitted is queued, carried, acknowledged, superseded or reset) and `TimerArmed`
(something to retransmit means a timer, but for a path reset).  The parts need
each other: an item is not lost because the loss scan, which stops at the first
entry already lost, skips only older ones (`LostAreOldest`); entries are dropped
by number only when they are lost because `num_lost_pkts` is exact
(`CountersExact`); the timer runs because `num_retransmittable` is.  For the
refinement each action is brought to one of three forms, `SubmitStep`,
`TransmitStep`, `SettleStep`, or to a stutter; `UniqueOwner` is what keeps an item
from being in flight and waiting at once.

`RxFlowProofs` proves for `RxFlow`, under `RxFlowAssumption` and for any streams,
lengths, windows and chunks, `TypeOK`, `CreditedOnce`, `CreditComplete`,
`OffsetExact`, `FalselyAccusedOnlyBy`, `StreamNotStuck`, `ClosesWhenDone`,
`RobHoldsData` and that it implements `FlowWindow`.  `RxInv` is their conjunction
with `Shape` (bytes lie below the last offset, consumed below passed below
contiguous; what was never opened is untouched), `Limits` (what was announced is
what is recorded, unless a frame did not fit) and `Closing`.  The counters are
handled as cardinalities of sets of bytes: each action adds a set disjoint from
what was there, which is the point at which a double credit would show.

`H3DownloadProofs` proves for `H3Download`, under `H3DownloadAssumption` and for
any number of transfers, bodies and buffer sizes, `TypeOK`,
`OnlyOverflowDisorders`, `NothingLost`, `CreditComesBack` and `EndsComplete`.
`DownloadInv` says per transfer where the bytes are (`Arrivals`, `InOrder`,
`Kept`), that the room left is what the buffer has (`Room`), that data is held for
credit not returned (`Pending`) and how a transfer ended (`Stopped`).  That a body
with a content-length is whole when its count is reached, although bytes may
repeat, rests on a pigeonhole argument (`PlacesFor`): as many places as distinct
bytes.

`H3StreamProofs` has what the operators of `H3Stream` do to any stream record that
is `StreamOK` (buffers hold something, the two positions lie inside outq, and what
was reported of the first buffer is what was acknowledged of it, if it is the
application's).  `WriteDataIs`, `WriteNoDataIs`: new data goes behind outq, merged
or not, and changes no position.  `AddWriteOffsetIs`, `AddAckOffsetIs`: writing
or acknowledging n bytes moves its position by n bytes of the wire whatever
buffers it crosses, an acknowledgement pops whole buffers only, and what it
reports are the bytes of the application among the n.  Positions are sums of
lengths, `Upto` and `DataUpto`, written as recursive functions on an index.  Of
these, and of all recursive functions below, the proofs use the recursion
equation and induct through the least counterexample, a nonempty set of numbers
having a least member (`LeastMember`): an induction theorem that takes the
property as an operator cannot be used here.

`H3UploadProofs` proves for `H3Upload`, under `UploadAssumption` and
for any bodies, ring and buffer sizes, `TypeOK`, `RingIntact`, `UsedExact`,
`OutqMatchesWire` and `FinLast`.  `UploadInv` adds `Supply` (what is left of the
body is with the application or in `ulbuf`), `StreamOK`, `HandedExact` (what was
handed over is reported once or in outq), `DroppedLast` (a chunk that is not
handed over is the last, so that its bytes stay at the end of the ring) and `Laid`, the strengthening that makes `RingIntact` inductive: the bytes
that are not acknowledged lie in the ring in the order of outq and without a hole
between them, each at the distance from `windex` that the bytes behind it make,
and the last `used` cells hold them.  A copy goes to cells outside of these, and
an acknowledgement takes them from the far end; that the bytes of a popped buffer
are the ones `used` loses is the sum in `AddAckOffsetIs`.

`AckRangesProofs` proves that the algorithms of `acktr.c` on ranges compute what
`AckTracker` says, for lists of any length.  `ListOf(s, S)` is what the skip list
keeps: `s` is in decreasing order, between two ranges a number is missing, and it
covers `S`.  `RangeAddIs` takes apart where a new number falls (before, behind,
between or joining ranges) and splices the list there; `RangesAreFew` is why at
most one range is over the limit then.  `RangeOnAckIs`: the ranges before the
lower bound stay, the last of them cut.  `FrameReadsBack`: any frame that
`Writes` such a list passes `ngtcp2_pkt_validate_ack` and parses back into it;
`FrameIsRight` applies this where no gap wraps, which `GapsEncodable` says and
finding 1 shows not to hold always, including the frame whose first range is
`max_pkt_num` alone after the tracker has forgotten it.  `SearchIs`: as records
and ranges are both in decreasing order, leaving a record or a range behind loses
no hit, so the search finds the first record in any range.  `RangeAddIsRight`,
`FrameIsRight` and `RecvAckIsRight` are the three agreements in every reachable
state, from the invariant of `AckTrackerProofs`.

`RobRangesProofs` does the same for `rob.c`.  `IsGaps(s, M)` says that `s` is in
increasing order, that between two gaps there is a byte, and that it covers `M`; a
set has one such list (`OneList`), so that to know the bytes of a result is to
know the list.  `RobPushIs` and `RobRemovePrefixIs` go down from the end of the
list: each round leaves the list of what is missing behind it, and puts the pieces
of its own gap before it (`ConcatIs`).  `RobIsRight` is `RobAgrees` in every
reachable state.  `EmitIs` needs that the chunks are sorted and `Fed`: they hold
every byte up to the first gap, and none ends before the offset reached; each
round keeps this.  `RxInv` gives it (`RobHoldsData`) except that chunks begin at
multiples of the chunk size, an invariant of its own, `ChunksAreAligned`.
`EmitIsRight` is `EmitAgrees` in every reachable state.

A recursive function is a CHOOSE in TLA+.  Where the library has no theorem that
it exists, the proofs give the function: with the result the theorem claims as its
value, it satisfies the recursion, and what satisfies it is unique.  For the loop
that emits, whose value is not known beforehand, solutions on shorter lists are
extended.

Only model-checked: the liveness properties `HandedIsDelivered`, `ClosedEnds` and
`UploadFinishes`, as the provers do not handle fairness.

## 6. Findings

Runs that show a disagreement between the code and what it says of itself:

1. `ack_gap`: the gap of the first ACK block wraps (conn.c:1289) and the
   assertion at conv.c:199 fails.
2. `rtb_pto_assert`: `assert(earliest_pktns)` (conn.c:10260) can fail.
3. `rtb_path_reset`: after a path change outstanding packets have no timer
   (conn.c:555).
4. `upload_base`: nghttp3 is given the address after the chunk (ngtcp2.c:1354).
5. `upload_fin`: the last chunk of an upload can be dropped (ngtcp2.c:1371).
6. `upload_stall`: a full ring stops the upload for good (ngtcp2.c:1376).
7. `download_twice`: an overflow buffer that fits the receive buffer is copied
   and not emptied (ngtcp2.c:1231); its bytes are passed to the client again.

Read in the code and not (yet) shown by a run:

* `acktr_cancel_expired_ack_delay_timer` (conn.c:9039) tests
  `first_unacked_ts <= ts` without the delay.
* Persistent congestion is never declared (rtb.c:941): the scan compares the
  first lost packet with itself.
* `num_retire_queued` (conn.c:2988) is raised by every attempt to write a frame
  and lowered once for each acknowledged copy.
* After a stream was reset its lost STREAM frames are queued and sent again:
  neither `rtb_reclaim_frame` nor `rtb_on_pkt_lost` looks at `SENT_RST`, although
  `conn_shutdown_stream_write` clears `streamfrq` and sets the flag "so that we
  don't accidentally send DATA to this stream".  A second STOP_SENDING queues a
  second RESET_STREAM, as `conn_recv_stop_sending` has no such test either.
* `ngtcp2_conn_close_stream` (conn.c:9822) replaces the error code when the stream
  has *none* of its own; the test is inverted.
* An ACK frame that acknowledges no entry skips loss detection; ranges are
  forgotten although the ACK did not fit (conn.c:1297).
* A FIN without data is never written by curl: `nghttp3_stream_writev` leaves the
  empty buffer out, `ng_flush_egress` requires `veccnt > 0`; and
  `nghttp3_stream_add_ack_offset` pops that buffer.  A PUT of size 0 never ends.
* `DEBUGASSERT(used < H3_SEND_SIZE)` (ngtcp2.c:1314) fails when an
  acknowledgement of 0 bytes finds the ring full.
* `http_request` returns `CURLE_OK` after "goto fail" with fewer than two
  header lines.

## 7. Not modelled

* Handshake, key update, 0-RTT, closing and draining; connection ids, paths and
  path validation: planned (section 2).  Two hazards of `PROJECT.json` wait for
  them, `num_retire_queued` and the ACK delay timer.
* Limits on the number of streams, crypto streams, packet number spaces other
  than the application's, and key discard.
* Congestion control: arithmetic on windows, in part in floating point.  Its gate
  on sending is a choice in `Rtb`.  The test for persistent congestion
  (rtb.c:941), which never succeeds, is part of it.
* Codecs of QUIC packets and frames, but for the ACK frame; the containers of
  ngtcp2, of which the models use the sets and sequences they represent.
* QPACK, HTTP header semantics, the receiving side of nghttp3's frame parser,
  GOAWAY, push and priorities.
* A transfer of curl that is abandoned and whose handle is used again
  (ngtcp2.c:1006); the set-up of the connection; POST fields.
* TLS glue, the quiche backend (not built), other protocols of curl, the Android
  stub and the Gradle plugin: input and output, or code this project does not run.
