------------------------------- MODULE RxFlow --------------------------------
(***************************************************************************)
(* The receiving half of the streams of an ngtcp2 connection: STREAM and   *)
(* RESET_STREAM frames (conn_recv_stream, conn_recv_reset_stream), the     *)
(* reorder buffer behind them, an application that reads, stops reading    *)
(* (also from inside a callback) and gives credit back, and the MAX_DATA   *)
(* and MAX_STREAM_DATA frames conn_write_pkt makes of that credit.         *)
(*                                                                         *)
(* The peer is honest.  Packets are lost, duplicated and reordered, so any *)
(* frame that agrees with what the peer said so far, and with the limits   *)
(* it was told, may arrive at any time.  A limit counts as told when it is *)
(* written.                                                                *)
(***************************************************************************)
EXTENDS Integers, FiniteSets

CONSTANTS
  Local,           \* bidirectional streams this endpoint opens
  Remote,          \* unidirectional streams of the peer
  MaxOff,          \* no stream is longer
  StreamWindow,    \* initial_max_stream_data_*
  ConnWindow,      \* initial_max_data
  MaxStreamWindow, \* settings.max_stream_window, 0 for no auto-tuning
  MaxConnWindow,   \* settings.max_window, 0 for no auto-tuning
  Chunk,           \* size of the chunks of a reorder buffer
  TightPackets     \* may a packet have no room for a MAX_STREAM_DATA frame?

ASSUME RxFlowAssumption ==
  /\ Local \cap Remote = {} /\ IsFiniteSet(Local \cup Remote)
  /\ MaxOff \in Nat /\ Chunk \in Nat \ {0}
  /\ StreamWindow \in Nat \ {0} /\ ConnWindow \in Nat \ {0}
  /\ MaxStreamWindow \in Nat /\ MaxConnWindow \in Nat
  /\ TightPackets \in BOOLEAN

Stream == Local \cup Remote
Offset == 0 .. MaxOff
Byte == 0 .. MaxOff - 1

VARIABLES
  open, closed,       \* conn->strms, and the streams removed from it
  shutRd, rst,        \* NGTCP2_STRM_FLAG_SHUT_RD, _RECV_RST
  stopped,            \* NGTCP2_STRM_FLAG_STOP_SENDING
  wrShut,             \* SHUT_WR, and everything sent (or the reset) acknowledged
  last,               \* strm->rx.last_offset
  got,                \* the bytes not in a gap of strm->rx.rob
  chunks,             \* first bytes of the chunks in rob->dataksl
  passed,             \* bytes handed to recv_stream_data
  consumed,           \* bytes the application gave back
  smax, sunsent, swindow,  \* strm->rx.max_offset, unsent_max_offset, window
  queued,             \* streams in tx.strmq for the sake of MAX_STREAM_DATA
  leftover,           \* MAX_STREAM_DATA frames that stayed in tx.frq
  connOffset, connMax, connUnsent, connWindow, \* conn->rx.*
  told,               \* history: the largest limit written for a stream
  credited,           \* history: the bytes that returned connection credit
  squeezed,           \* history: streams whose MAX_STREAM_DATA did not fit
  accused             \* the stream for which the connection was closed with an error

flags == <<shutRd, rst, stopped, wrShut>>
data == <<last, got, chunks, passed>>
limits == <<smax, sunsent, swindow, leftover, told, squeezed>>
conn == <<connOffset, connMax, connUnsent, connWindow, credited>>
vars == <<open, closed, flags, data, consumed, limits, queued, conn, accused>>

TypeOK ==
  /\ open \subseteq Stream /\ closed \subseteq Stream /\ open \cap closed = {}
  /\ shutRd \subseteq Stream /\ rst \subseteq shutRd
  /\ stopped \subseteq Stream /\ wrShut \subseteq Stream
  /\ last \in [Stream -> Offset] /\ passed \in [Stream -> Offset]
  /\ consumed \in [Stream -> Offset]
  /\ got \in [Stream -> SUBSET Byte] /\ chunks \in [Stream -> SUBSET Byte]
  /\ smax \in [Stream -> Nat] /\ sunsent \in [Stream -> Nat]
  /\ swindow \in [Stream -> Nat] /\ told \in [Stream -> Nat]
  /\ queued \subseteq open /\ squeezed \subseteq Stream /\ accused \subseteq Stream
  /\ leftover \subseteq Stream \X Nat
  /\ connOffset \in Nat /\ connMax \in Nat /\ connUnsent \in Nat /\ connWindow \in Nat
  /\ credited \subseteq Stream \X Byte

Init ==
  /\ open = {} /\ closed = {} /\ shutRd = {} /\ rst = {} /\ stopped = {} /\ wrShut = {}
  /\ last = [s \in Stream |-> 0] /\ got = [s \in Stream |-> {}]
  /\ chunks = [s \in Stream |-> {}] /\ passed = [s \in Stream |-> 0]
  /\ consumed = [s \in Stream |-> 0]
  /\ smax = [s \in Stream |-> StreamWindow] /\ sunsent = smax /\ swindow = smax /\ told = smax
  /\ queued = {} /\ leftover = {} /\ squeezed = {} /\ accused = {}
  /\ connOffset = 0 /\ credited = {}
  /\ connMax = ConnWindow /\ connUnsent = ConnWindow /\ connWindow = ConnWindow

-----------------------------------------------------------------------------
\* The first byte missing from g: ngtcp2_strm_rx_offset.
FirstGap(g) == CHOOSE k \in Offset : k \notin g /\ 0 .. k - 1 \subseteq g
Rx(s) == FirstGap(got[s])

Bytes(s, a, b) == {s} \X (a .. b - 1)
Revealed == {b \in Stream \X Byte : b[2] < last[b[1]]}

ChunkOf(k) == k - (k % Chunk)

\* ngtcp2_conn_extend_max_offset(conn, n), for the bytes B.
Credit(n, B) == connUnsent' = connUnsent + n /\ credited' = credited \cup B
NoCredit == UNCHANGED <<connUnsent, credited>>

\* Mutant: a reset stream waits for its missing bytes.
ReadDoneIfWhole(s) == FirstGap(got'[s]) = last'[s]

\* Nothing more is to be read from s.
ReadDone(s) == s \in rst' \/ FirstGap(got'[s]) = last'[s]

\* Mutant: ngtcp2_conn_close_stream leaves the stream in tx.strmq.
CloseIfShutQueued(s) ==
  LET shut == s \in shutRd' \cap wrShut' /\ ReadDone(s)
  IN /\ open' = (IF shut THEN open \ {s} ELSE open \cup {s})
     /\ closed' = (IF shut THEN closed \cup {s} ELSE closed)
     /\ UNCHANGED queued

\* ngtcp2_conn_close_stream_if_shut_rdwr, with the state the handler leaves.
CloseIfShut(s) ==
  LET shut == s \in shutRd' \cap wrShut' /\ ReadDone(s)
  IN /\ open' = (IF shut THEN open \ {s} ELSE open \cup {s})
     /\ closed' = (IF shut THEN closed \cup {s} ELSE closed)
     /\ queued' = (IF shut THEN queued \ {s} ELSE queued)

\* A frame that reveals the bytes below end keeps to the limits of the peer.
InLimits(s, end) ==
  end > last[s] => /\ end <= told[s]
                   /\ Cardinality(Revealed) + (end - last[s]) <= connMax

HonestStream(s, off, end, fin) ==
  /\ off < end \/ (off = end /\ fin)
  /\ InLimits(s, end)
  /\ s \in shutRd => end <= last[s] /\ (fin => end = last[s])
  /\ s \notin shutRd => (fin => end >= last[s])

HonestReset(s, final) ==
  /\ InLimits(s, final)
  /\ final >= last[s]
  /\ s \in shutRd => final = last[s]

\* Mutant: what is buffered beyond a gap counts again.
FreshFromGap(s, end) == IF Rx(s) < end THEN end - Rx(s) ELSE 0

\* What a frame that ends at end adds to conn->rx.offset.
Fresh(s, end) == IF last[s] < end THEN end - last[s] ELSE 0

\* The stream of a STREAM frame is found, or created for a new remote stream.
Known(s) == accused = {} /\ s \notin closed /\ s \in open \cup Remote

\* Mutant: a frame that uses up the limit offends.
OffendsAtLimit(s, end, fin) ==
  \/ smax[s] <= end \/ connMax - connOffset < Fresh(s, end)
  \/ s \in shutRd /\ (last[s] < end \/ (fin /\ last[s] # end))
  \/ fin /\ last[s] > end

\* conn_recv_stream returns NGTCP2_ERR_FLOW_CONTROL or NGTCP2_ERR_FINAL_SIZE.
Offends(s, end, fin) ==
  \/ smax[s] < end \/ connMax - connOffset < Fresh(s, end)
  \/ s \in shutRd /\ (last[s] < end \/ (fin /\ last[s] # end))
  \/ fin /\ last[s] > end

RefuseStream(s, off, end, fin) ==
  /\ Known(s) /\ HonestStream(s, off, end, fin) /\ Offends(s, end, fin)
  /\ accused' = {s}
  /\ UNCHANGED <<open, closed, flags, data, consumed, limits, queued, conn>>

\* What conn_recv_stream does with every frame it accepts.  A peer's
\* unidirectional stream is created with its write side shut.
Accept(s, off, end, fin) ==
  /\ Known(s) /\ HonestStream(s, off, end, fin) /\ ~Offends(s, end, fin)
  /\ connOffset' = connOffset + Fresh(s, end)
  /\ last' = [last EXCEPT ![s] = IF @ < end THEN end ELSE @]
  /\ shutRd' = (IF fin THEN shutRd \cup {s} ELSE shutRd)
  /\ wrShut' = wrShut \cup ({s} \cap Remote)
  /\ UNCHANGED <<rst, consumed, limits, connMax, connWindow, accused>>

\* A reset or stopped stream drops its data, and one that delivered it all
\* ignores a copy.
Dropped(s, end, fin) ==
  s \in stopped \cup rst \/ (end <= Rx(s) /\ ~(fin /\ s \notin shutRd))

\* A stopped stream returns the credit of what arrives, and may be complete.
DropStream(s, off, end, fin) ==
  /\ Accept(s, off, end, fin) /\ Dropped(s, end, fin)
  /\ IF s \in stopped THEN Credit(Fresh(s, end), Bytes(s, last[s], last'[s])) ELSE NoCredit
  /\ UNCHANGED <<stopped, got, chunks, passed>>
  /\ IF s \in stopped /\ fin /\ s \notin shutRd
     THEN CloseIfShut(s) ELSE open' = open \cup {s} /\ UNCHANGED <<closed, queued>>

\* Mutant: the chunk of the first byte is missing.
BufferChunksTail(s, off, end) == {ChunkOf(k) : k \in (off + 1 .. end - 1) \ got[s]}

\* The chunks rob_write_data needs.
BufferChunks(s, off, end) == {ChunkOf(k) : k \in (off .. end - 1) \ got[s]}

\* Data beyond a gap goes to the reorder buffer.
BufferStream(s, off, end, fin) ==
  /\ Accept(s, off, end, fin) /\ ~Dropped(s, end, fin) /\ off > Rx(s)
  /\ got' = [got EXCEPT ![s] = @ \cup off .. end - 1]
  /\ chunks' = [chunks EXCEPT ![s] = @ \cup BufferChunks(s, off, end)]
  /\ UNCHANGED <<stopped, passed>> /\ NoCredit
  /\ CloseIfShut(s)

\* The offsets at which a recv_stream_data callback ends: after the frame, and
\* after each piece of a chunk that data_at returns.
CallbackEnds(s, end) ==
  LET rx == FirstGap(got'[s])
  IN {end} \cup {k \in end + 1 .. rx : k = rx \/ k % Chunk = 0}

\* Mutant: stopping a stream returns the credit of what was contiguous as well.
StopInsideFrom(s, b) == b

\* The first byte whose credit a stop inside the callback that ends at b
\* returns: the reorder buffer already counts as delivered.
StopInside(s, b) == FirstGap(got'[s])

\* Data at the front is passed on, and then the contiguous data behind it.  The
\* application may stop the stream inside the callback that ends at b, unless
\* the stream is complete.
DeliverStream(s, off, end, fin, stop, b) ==
  /\ Accept(s, off, end, fin) /\ ~Dropped(s, end, fin) /\ off <= Rx(s)
  /\ got' = [got EXCEPT ![s] = @ \cup off .. end - 1]
  /\ IF stop
     THEN /\ b \in CallbackEnds(s, end)
          /\ ~(s \in shutRd' /\ FirstGap(got'[s]) = last'[s])
          /\ stopped' = stopped \cup {s}
          /\ LET from == StopInside(s, b)
             IN Credit(last'[s] - from, Bytes(s, from, last'[s]))
     ELSE b = FirstGap(got'[s]) /\ UNCHANGED stopped /\ NoCredit
  /\ passed' = [passed EXCEPT ![s] = b]
  /\ chunks' = [chunks EXCEPT ![s] = {c \in @ : b < c + Chunk}]
  /\ CloseIfShut(s)

-----------------------------------------------------------------------------
\* RESET_STREAM of a stream there is no ngtcp2_strm for: its limits are checked
\* before it is known whether the stream was closed or never opened.
RefuseReset(s, final) ==
  /\ accused = {} /\ HonestReset(s, final)
  /\ IF s \in open
     THEN \/ smax[s] < final \/ connMax - connOffset < final - last[s]
          \/ last[s] > final \/ (s \in shutRd /\ last[s] # final)
     ELSE s \in Remote /\ (StreamWindow < final \/ connMax - connOffset < final)
  /\ accused' = {s}
  /\ UNCHANGED <<open, closed, flags, data, consumed, limits, queued, conn>>

RecvResetUnopened(s, final) ==
  /\ accused = {} /\ s \in Remote \ (open \cup closed) /\ HonestReset(s, final)
  /\ StreamWindow >= final /\ connMax - connOffset >= final
  /\ connOffset' = connOffset + final
  /\ Credit(final, Bytes(s, 0, final))
  /\ last' = [last EXCEPT ![s] = final]
  /\ shutRd' = shutRd \cup {s} /\ rst' = rst \cup {s} /\ closed' = closed \cup {s}
  /\ UNCHANGED <<open, stopped, wrShut, got, chunks, passed, consumed, limits, queued,
                 connMax, connWindow, accused>>

\* Mutant: the bytes not passed to the application are counted for every reset.
ResetCreditAgain(s) == last[s] - Rx(s)

\* Credit of the bytes received and not passed on: returned once.
ResetCredit(s) == IF s \in rst \cup stopped THEN 0 ELSE last[s] - Rx(s)

\* RESET_STREAM of an open stream; the application may stop it inside the
\* stream_reset callback, which then returns that credit.
RecvReset(s, final, stop) ==
  /\ accused = {} /\ s \in open /\ HonestReset(s, final)
  /\ smax[s] >= final /\ connMax - connOffset >= final - last[s]
  /\ stop => s \notin rst \cup stopped /\ ~(s \in shutRd /\ Rx(s) = last[s])
  /\ stopped' = (IF stop THEN stopped \cup {s} ELSE stopped)
  /\ Credit(ResetCredit(s) + (final - last[s]),
            Bytes(s, IF s \in rst \cup stopped THEN last[s] ELSE Rx(s), final))
  /\ connOffset' = connOffset + (final - last[s])
  /\ last' = [last EXCEPT ![s] = final]
  /\ shutRd' = shutRd \cup {s} /\ rst' = rst \cup {s}
  /\ UNCHANGED <<wrShut, got, chunks, passed, consumed, limits, connMax, connWindow, accused>>
  /\ CloseIfShut(s)

-----------------------------------------------------------------------------
\* ngtcp2_conn_open_bidi_stream.
OpenStream(s) ==
  /\ accused = {} /\ s \in Local \ (open \cup closed)
  /\ open' = open \cup {s}
  /\ UNCHANGED <<closed, flags, data, consumed, limits, queued, conn, accused>>

\* The write side is finished: the last byte and FIN, or the reset, are
\* acknowledged.
FinishWrite(s) ==
  /\ accused = {} /\ s \in open \ wrShut
  /\ wrShut' = wrShut \cup {s}
  /\ UNCHANGED <<shutRd, rst, stopped, data, consumed, limits, conn, accused>>
  /\ CloseIfShut(s)

\* conn_shutdown_stream_read goes on.
MayStop(s) == s \in open \ stopped /\ ~(s \in shutRd /\ Rx(s) = last[s])

\* conn_shutdown_stream_read, outside any callback.
StopStream(s) ==
  /\ accused = {} /\ MayStop(s)
  /\ IF s \in rst THEN NoCredit ELSE Credit(last[s] - Rx(s), Bytes(s, Rx(s), last[s]))
  /\ stopped' = stopped \cup {s}
  /\ UNCHANGED <<open, closed, shutRd, rst, wrShut, data, consumed, limits, queued,
                 connOffset, connMax, connWindow, accused>>

\* conn_should_send_max_stream_data.
ShouldSend(s) == swindow[s] < 2 * (sunsent[s] - smax[s])

\* Mutant: a limit is announced only when all of the window was read.
ExtendPushesEarly(s, n) ==
  s \notin shutRd \cup stopped /\ swindow[s] < sunsent[s] + n - smax[s]

\* conn_extend_max_stream_offset pushes the stream on tx.strmq.
ExtendPushes(s, n) ==
  s \notin shutRd \cup stopped /\ swindow[s] < 2 * (sunsent[s] + n - smax[s])

\* The application gives n bytes back, ngtcp2_conn_extend_max_stream_offset and
\* ngtcp2_conn_extend_max_offset; the stream may be closed by then.
Consume(s, n) ==
  /\ accused = {} /\ consumed[s] + n <= passed[s]
  /\ consumed' = [consumed EXCEPT ![s] = @ + n]
  /\ Credit(n, Bytes(s, consumed[s], consumed[s] + n))
  /\ IF s \in open
     THEN /\ sunsent' = [sunsent EXCEPT ![s] = @ + n]
          /\ queued' = (IF ExtendPushes(s, n) THEN queued \cup {s} ELSE queued)
     ELSE UNCHANGED <<sunsent, queued>>
  /\ UNCHANGED <<open, closed, flags, data, smax, swindow, leftover, told, squeezed,
                 connOffset, connMax, connWindow, accused>>

-----------------------------------------------------------------------------
\* Auto-tuning doubles window w up to top, when the previous frame is recent.
Grown(w, top) == IF 2 * w > top THEN top ELSE 2 * w
MayGrow(w, top) == top # 0 /\ top > w

\* Mutant: the window grows and the announced limit does not.
GrowSilently(w) == 0

\* What the announced limit gains when the window grows from connWindow to w.
Delta(w) == w - connWindow

\* conn_write_pkt makes a MAX_DATA frame.  The frame stays in tx.frq until it
\* is written, so its limit may be announced late, never lost.
WriteMaxData(grow) ==
  /\ accused = {}
  /\ connWindow < 2 * (connUnsent - connMax)
  /\ grow => MayGrow(connWindow, MaxConnWindow) /\ connMax # ConnWindow
  /\ connWindow' = (IF grow THEN Grown(connWindow, MaxConnWindow) ELSE connWindow)
  /\ connMax' = connUnsent + Delta(connWindow')
  /\ connUnsent' = connMax'
  /\ UNCHANGED <<open, closed, flags, data, consumed, limits, queued, connOffset, credited,
                 accused>>

\* conn_write_pkt takes stream s from tx.strmq and makes its MAX_STREAM_DATA.
\* A frame that does not fit stays in tx.frq, and the stream in tx.strmq; its
\* window has grown, its limits have not.  tx.frq is written before tx.strmq.
WriteMaxStreamData(s, grow, fits) ==
  LET w == IF grow THEN Grown(swindow[s], MaxStreamWindow) ELSE swindow[s]
      limit == sunsent[s] + (w - swindow[s])
  IN /\ accused = {} /\ s \in queued \ shutRd /\ ShouldSend(s) /\ leftover = {}
     /\ fits \/ TightPackets
     /\ grow => /\ MayGrow(swindow[s], MaxStreamWindow)
                /\ s \in squeezed \/ smax[s] # StreamWindow
     /\ swindow' = [swindow EXCEPT ![s] = w]
     /\ IF fits
        THEN /\ smax' = [smax EXCEPT ![s] = limit]
             /\ sunsent' = [sunsent EXCEPT ![s] = limit]
             /\ told' = [told EXCEPT ![s] = IF @ < limit THEN limit ELSE @]
             /\ queued' = queued \ {s}
             /\ UNCHANGED <<leftover, squeezed>>
        ELSE /\ leftover' = {<<s, limit>>}
             /\ squeezed' = squeezed \cup {s}
             /\ UNCHANGED <<smax, sunsent, told, queued>>
     /\ UNCHANGED <<open, closed, flags, data, consumed, conn, accused>>

\* The stream no longer receives, or its frame is not worth sending.
SkipMaxStreamData(s) ==
  /\ accused = {} /\ s \in queued /\ leftover = {}
  /\ s \in shutRd \/ ~ShouldSend(s)
  /\ queued' = queued \ {s}
  /\ UNCHANGED <<open, closed, flags, data, consumed, limits, conn, accused>>

\* The next packet starts with the frame that did not fit, unless the stream is
\* gone or has announced more since.
WriteLeftover(s, limit) ==
  /\ accused = {} /\ <<s, limit>> \in leftover
  /\ leftover' = leftover \ {<<s, limit>>}
  /\ told' = (IF s \in open \ shutRd /\ limit >= smax[s] /\ told[s] < limit
              THEN [told EXCEPT ![s] = limit] ELSE told)
  /\ UNCHANGED <<open, closed, flags, data, consumed, smax, sunsent, swindow, squeezed,
                 queued, conn, accused>>

-----------------------------------------------------------------------------
\* conn_recv_stream of a frame that an honest peer may have sent.
RecvStream(s) ==
  \E off, end \in Offset, fin \in BOOLEAN :
    /\ Known(s) /\ HonestStream(s, off, end, fin)
    /\ \/ RefuseStream(s, off, end, fin)
       \/ DropStream(s, off, end, fin)
       \/ BufferStream(s, off, end, fin)
       \/ \E stop \in BOOLEAN, b \in Offset : DeliverStream(s, off, end, fin, stop, b)

RecvResetStream(s) ==
  \E final \in Offset :
    \/ RefuseReset(s, final)
    \/ RecvResetUnopened(s, final)
    \/ \E stop \in BOOLEAN : RecvReset(s, final, stop)

App(s) ==
  \/ OpenStream(s) \/ FinishWrite(s) \/ StopStream(s)
  \/ \E n \in 1 .. MaxOff : Consume(s, n)

WriteStreamLimit(s) ==
  \/ \E grow, fits \in BOOLEAN : WriteMaxStreamData(s, grow, fits)
  \/ SkipMaxStreamData(s)
  \/ \E f \in leftover : f[1] = s /\ WriteLeftover(s, f[2])

Next ==
  \/ \E s \in Stream : RecvStream(s) \/ RecvResetStream(s) \/ App(s) \/ WriteStreamLimit(s)
  \/ \E grow \in BOOLEAN : WriteMaxData(grow)

Spec == Init /\ [][Next]_vars

-----------------------------------------------------------------------------
\* The credit of a byte goes back to the connection at most once, whichever of
\* reading, stopping, resetting and dropping it happens to: what may be announced
\* is always the window plus the number of bytes given back.
CreditedOnce == connUnsent = connWindow + Cardinality(credited)

\* Credit comes back for exactly the bytes the application read and gave back
\* and, on a stream that was stopped or reset, for everything that is not in the
\* contiguous data at the front of the reorder buffer.
CreditComplete ==
  credited = {b \in Revealed :
                \/ b[2] < consumed[b[1]]
                \/ b[1] \in stopped \cup rst /\ b[2] >= Rx(b[1])}

\* The connection counts every byte the peer used once, though frames overlap,
\* come twice, come after a reset, and streams come and go.
OffsetExact == connOffset = Cardinality(Revealed)

\* A peer that keeps to its limits is accused of breaking them only for a
\* RESET_STREAM that arrives after its stream was closed, whose size
\* conn_recv_reset_stream counts again, and for a limit announced by a frame
\* that had not fitted its packet.
FalselyAccusedOnlyBy == \A s \in accused : s \in closed \/ s \in squeezed

\* An open stream whose peer has used up its limit, and whose application has
\* read more than half of the window, is about to announce a new one.
StreamNotStuck ==
  \A s \in open \ (shutRd \cup stopped \cup squeezed) :
    last[s] = smax[s] /\ 2 * (last[s] - consumed[s]) < swindow[s] => s \in queued

\* A stream that is shut both ways stays open only for missing bytes.
ClosesWhenDone == \A s \in open \cap shutRd \cap wrShut : s \notin rst /\ Rx(s) < last[s]

\* The assertions of ngtcp2_rob_data_at: the first chunk holds the first byte
\* not delivered, and every buffered byte has its chunk.
RobHoldsData ==
  \A s \in open \ (stopped \cup rst) :
    /\ \A c \in chunks[s] : c + Chunk > Rx(s)
    /\ \A k \in got[s] : k > Rx(s) => ChunkOf(k) \in chunks[s]

\* The window never promises a peer more than was given back: the receiver is
\* never left with more than connWindow bytes of the connection.
Promise ==
  INSTANCE FlowWindow WITH InitialWindow <- ConnWindow, received <- connOffset,
    returned <- Cardinality(credited), limit <- connMax, window <- connWindow
KeepsWindow == Promise!Spec
=============================================================================
