------------------------------ MODULE H3Upload ------------------------------
(***************************************************************************)
(* The upload of a request body over HTTP/3 in curl with ngtcp2 and        *)
(* nghttp3: readwrite_upload (transfer.c) fills data->state.ulbuf from the *)
(* application and offers it to ngh3_stream_send; the read callback        *)
(* cb_h3_readfunction copies it piece by piece into the ring stream->h3out *)
(* and hands the pieces to nghttp3; ng_flush_egress moves them from        *)
(* nghttp3 to the QUIC stream; acknowledgements free the ring              *)
(* (all in vquic/ngtcp2.c).                                                *)
(*                                                                         *)
(* One thread runs all this.  A flush is a sequence of steps during which  *)
(* no packet is received; everything else is one step.  Body bytes are the *)
(* numbers 1, 2, ...  The QUIC stream is reduced to the flow control       *)
(* credit, the bytes in flight, and whether FIN was written.               *)
(***************************************************************************)
EXTENDS H3Stream

CONSTANTS
  KnownSizes,   \* body sizes of uploads whose size is known (infilesize # -1)
  UnknownSizes, \* and of those whose size is not
  SendSize,     \* H3_SEND_SIZE
  UlBufSize,    \* data->set.upload_buffer_size
  CreditMax     \* flow control credit the peer keeps on the stream

ASSUME UploadAssumption ==
  /\ KnownSizes \subseteq Nat /\ UnknownSizes \subseteq Nat
  /\ SendSize \in Nat \ {0} /\ UlBufSize \in Nat \ {0}
  /\ CreditMax \in Nat \ {0} /\ MinUnsent \in Nat \ {0}

VARIABLES
  size, known,      \* the body the application will supply
  taken,            \* bytes read from the application so far
  ulbuf,            \* data->state.ulbuf
  upload_present,   \* k->upload_present
  keep_send,        \* KEEP_SEND in k->keepon
  upload_mem, upload_len, upload_left, upload_done, \* of struct HTTP
  buf, windex, used,\* stream->h3out
  strm,             \* the nghttp3 stream
  credit,           \* bytes the QUIC stream may still write
  inflight,         \* bytes written to it and not acknowledged
  fin_written,      \* FIN was written to it
  pc,               \* in a flush: about to fill outq, or to write from it
  sending,          \* the flush was called by ngh3_stream_send
  handed,           \* history: body bytes handed to nghttp3
  delivered,        \* history: body bytes reported acknowledged
  dropped,          \* history: bytes copied to the ring and not handed over
  inOrder           \* history: the bytes handed over are the body so far

source == <<size, known>>
transfer == <<taken, ulbuf, upload_present, keep_send>>
http == <<upload_mem, upload_len, upload_left, upload_done>>
ring == <<buf, windex, used>>
quic == <<credit, inflight, fin_written>>
history == <<handed, delivered, dropped, inOrder>>
vars == <<source, transfer, http, ring, strm, quic, pc, sending, history>>

Min2(a, b) == IF a < b THEN a ELSE b
Body == 1 .. size
Cell == 0 .. SendSize - 1

TypeOK ==
  /\ size \in Nat /\ known \in BOOLEAN
  /\ taken \in 0 .. size /\ ulbuf \in [1 .. UlBufSize -> Body \cup {0}]
  /\ upload_present \in 0 .. UlBufSize /\ keep_send \in BOOLEAN
  /\ upload_mem \in 1 .. UlBufSize + 1 /\ upload_len \in 0 .. UlBufSize
  /\ upload_left \in -1 .. size /\ upload_done \in BOOLEAN
  /\ buf \in [Cell -> Body \cup {0}] /\ windex \in Cell /\ used \in 0 .. SendSize
  /\ strm.outq_idx \in 0 .. Len(strm.outq) /\ strm.outq_offset \in Nat
  /\ strm.ack_offset \in Nat /\ strm.ack_done \in Nat
  /\ credit \in 0 .. CreditMax /\ inflight \in Nat /\ fin_written \in BOOLEAN
  /\ pc \in {"idle", "fill", "write"} /\ sending \in BOOLEAN
  /\ handed \in Nat /\ delivered \in Nat /\ dropped \in Nat /\ inOrder \in BOOLEAN

\* http_request has submitted the request; ngh3_stream_send flushes.  Without a
\* body to send the transfer has no write socket.
Init ==
  /\ \/ known = TRUE /\ size \in KnownSizes
     \/ known = FALSE /\ size \in UnknownSizes
  /\ taken = 0 /\ ulbuf = [i \in 1 .. UlBufSize |-> 0] /\ upload_present = 0
  /\ keep_send = (known => size > 0)
  /\ upload_mem = 1 /\ upload_len = 0 /\ upload_done = FALSE
  /\ upload_left = IF known THEN size ELSE -1
  /\ buf = [c \in Cell |-> 0] /\ windex = 0 /\ used = 0
  /\ \E kind \in {"shared", "private"} : strm = SubmittedRequest(Buffer(kind, 1))
  /\ credit = CreditMax /\ inflight = 0 /\ fin_written = FALSE
  /\ pc = "fill" /\ sending = FALSE
  /\ handed = 0 /\ delivered = 0 /\ dropped = 0 /\ inOrder = TRUE

-----------------------------------------------------------------------------
\* ngh3_stream_send is offered the present bytes of ulbuf.  It takes them when
\* it has none left from before, and flushes; otherwise CURLE_AGAIN.
Offer(present) ==
  /\ upload_present' = present
  /\ IF upload_len = 0
       THEN /\ upload_mem' = 1 /\ upload_len' = present
            /\ strm' = ResumeStream(strm)
            /\ pc' = "fill" /\ sending' = TRUE
       ELSE UNCHANGED <<upload_mem, upload_len, strm, pc, sending>>

\* readwrite_upload: nothing is present, the application supplies n bytes.
ReadBody(n) ==
  /\ pc = "idle" /\ keep_send /\ upload_present = 0
  /\ n <= size - taken
  /\ taken' = taken + n
  /\ ulbuf' = [i \in 1 .. UlBufSize |-> IF i <= n THEN taken + i ELSE ulbuf[i]]
  /\ Offer(n)
  /\ UNCHANGED <<source, keep_send, upload_left, upload_done, ring, quic, history>>

\* readwrite_upload: what ngh3_stream_send did not take is offered again.
OfferAgain ==
  /\ pc = "idle" /\ keep_send /\ upload_present > 0
  /\ Offer(upload_present)
  /\ UNCHANGED <<source, taken, ulbuf, keep_send, upload_left, upload_done, ring, quic, history>>

\* Curl_done_sending and Curl_quic_done_sending.
DoneSending(s) == keep_send' = FALSE /\ upload_done' = TRUE /\ strm' = ResumeStream(s)

\* readwrite_upload: the application has no more.
BodyEof ==
  /\ pc = "idle" /\ keep_send /\ upload_present = 0 /\ taken = size
  /\ DoneSending(strm)
  /\ UNCHANGED <<source, taken, ulbuf, upload_present, upload_mem, upload_len, upload_left, ring,
                 quic, pc, sending, history>>

-----------------------------------------------------------------------------
\* Mutant: the ring's free space is not looked at.
ChunkLenUnbounded == Min2(upload_len, SendSize - windex)

\* nread of cb_h3_readfunction: consecutive free cells.
ChunkLen ==
  LET nread == Min2(upload_len, SendSize - used)
  IN IF nread + windex > SendSize THEN SendSize - windex ELSE nread

\* The end of the ring is the beginning.  Mutant: without the wrap.
AdvanceNoWrap(i, n) == i + n
Advance(i, n) == IF i + n = SendSize THEN 0 ELSE i + n

\* The bytes memcpy takes from upload_mem, and the buffer handed to nghttp3: its
\* base is where windex points after the copy.
Chunk(n) == [i \in 1 .. n |-> ulbuf[upload_mem + i - 1]]
ChunkBuffer(n) ==
  [kind |-> "alien", len |-> n, base |-> windex + n, at |-> windex, bytes |-> Chunk(n)]

\* "upload_done && !upload_len && upload_left <= 0" after n bytes were copied.
SaysEof(n, left) == upload_done /\ upload_len = n /\ left <= 0

Filling == pc = "fill" /\ strm.scheduled
EndFill == pc' = "write" /\ UNCHANGED <<source, transfer, quic, sending, upload_done, delivered>>

\* cb_h3_readfunction copies a chunk into the ring and returns it, or, if that
\* was the last of an upload already done, returns the end of file alone.
FillChunk ==
  LET n == ChunkLen
      left == IF known THEN upload_left - n ELSE upload_left
  IN /\ Filling /\ MayRead(strm) /\ n > 0
     /\ buf' = [c \in Cell |-> IF c \in windex .. windex + n - 1 THEN Chunk(n)[c - windex + 1]
                               ELSE buf[c]]
     /\ windex' = Advance(windex, n) /\ used' = used + n
     /\ upload_mem' = upload_mem + n /\ upload_len' = upload_len - n
     /\ upload_left' = left
     /\ IF SaysEof(n, left)
          THEN /\ strm' = WriteNoData(strm)
               /\ dropped' = dropped + n /\ UNCHANGED <<handed, inOrder>>
          ELSE /\ strm' = WriteData(strm, ChunkBuffer(n), known /\ left = 0)
               /\ handed' = handed + n
               /\ inOrder' = (inOrder /\ \A i \in 1 .. n : Chunk(n)[i] = handed + i)
               /\ UNCHANGED dropped
     /\ EndFill

\* cb_h3_readfunction has nothing to copy or nowhere to copy it to.
FillNothing ==
  /\ Filling /\ MayRead(strm) /\ ChunkLen = 0
  /\ strm' = IF SaysEof(0, upload_left) THEN WriteNoData(strm) ELSE WriteDataBlocked(strm)
  /\ EndFill
  /\ UNCHANGED <<upload_mem, upload_len, upload_left, ring, handed, dropped, inOrder>>

\* conn_writev_stream does not call the read callback.
FillSkipped ==
  /\ Filling /\ ~MayRead(strm)
  /\ EndFill
  /\ UNCHANGED <<upload_mem, upload_len, upload_left, ring, strm, handed, dropped, inOrder>>

\* Mutant: FIN goes with the last buffer, even if only part of it is written.
FinWithNoMore(n) == Fin(strm)

\* ngtcp2 sets FIN when it takes all that it is offered with it.
FinWith(n) == Fin(strm) /\ n = Unsent(strm)

\* ngtcp2_conn_writev_stream takes n bytes (NGTCP2_ERR_WRITE_MORE).
Write(n) ==
  /\ pc = "write" /\ n <= Unsent(strm) /\ n <= credit
  /\ strm' = AddWriteOffset(strm, n)
  /\ credit' = credit - n /\ inflight' = inflight + n
  /\ fin_written' = (fin_written \/ FinWith(n))
  /\ pc' = "fill"
  /\ UNCHANGED <<source, transfer, http, ring, sending, history>>

\* NGTCP2_ERR_STREAM_DATA_BLOCKED
WriteBlocked ==
  /\ pc = "write" /\ Unsent(strm) > 0 /\ credit = 0
  /\ strm' = BlockStream(strm)
  /\ pc' = "fill"
  /\ UNCHANGED <<source, transfer, http, ring, quic, sending, history>>

\* The flush ends: no stream has anything to write (veccnt = 0, also when only
\* FIN is left), the connection's credit or its congestion window is used up, or
\* the socket takes no more.  readwrite_upload goes on after its own flush.
EndFlush ==
  LET s == IF pc = "write" THEN UnscheduleIfIdle(strm) ELSE strm
  IN /\ pc # "idle"
     /\ pc' = "idle" /\ sending' = FALSE
     /\ upload_present' = IF sending THEN 0 ELSE upload_present
     /\ IF sending /\ known /\ taken = size
          THEN DoneSending(s)
          ELSE strm' = s /\ UNCHANGED <<keep_send, upload_done>>
     /\ UNCHANGED <<source, taken, ulbuf, upload_mem, upload_len, upload_left, ring, quic, history>>

-----------------------------------------------------------------------------
\* ngh3_stream_recv and the timer call ng_flush_egress.
StartFlush ==
  /\ pc = "idle"
  /\ pc' = "fill" /\ sending' = FALSE
  /\ UNCHANGED <<source, transfer, http, ring, strm, quic, history>>

\* cb_acked_stream_data_offset and cb_h3_acked_stream_data.
Ack(n) ==
  /\ pc = "idle" /\ n <= inflight
  /\ inflight' = inflight - n
  /\ strm' = AddAckOffset(strm, n)
  /\ used' = used - AckedData(strm, n)
  /\ delivered' = delivered + AckedData(strm, n)
  /\ UNCHANGED <<source, transfer, http, buf, windex, credit, fin_written, pc, sending,
                 handed, dropped, inOrder>>

\* MAX_STREAM_DATA arrives: cb_extend_max_stream_data.
ExtendMaxStreamData ==
  /\ pc = "idle" /\ credit < CreditMax
  /\ credit' = CreditMax
  /\ strm' = UnblockStream(strm)
  /\ UNCHANGED <<source, transfer, http, ring, inflight, fin_written, pc, sending, history>>

\* Bounds of the parameters of the actions below.
Lengths == 1 .. 2 * SendSize + 1

Next ==
  \/ \E n \in 1 .. UlBufSize : ReadBody(n)
  \/ OfferAgain \/ BodyEof
  \/ FillChunk \/ FillNothing \/ FillSkipped
  \/ \E n \in Lengths : Write(n)
  \/ WriteBlocked \/ EndFlush \/ StartFlush
  \/ \E n \in Lengths : Ack(n)
  \/ ExtendMaxStreamData

\* The event loop calls curl again while a timer runs or the socket is ready, and
\* packets in flight see to both.  Congestion control, the connection's credit
\* and the socket may stop a flush, but not every one from some time on; the
\* peer keeps acknowledging and granting credit; the application supplies.
Fairness ==
  /\ WF_vars(StartFlush) /\ WF_vars(EndFlush)
  /\ SF_vars(FillChunk \/ FillNothing \/ FillSkipped)
  /\ SF_vars(WriteBlocked \/ \E n \in Lengths : Write(n))
  /\ SF_vars(\E n \in Lengths : Ack(n)) /\ SF_vars(ExtendMaxStreamData)
  /\ SF_vars(OfferAgain \/ BodyEof \/ \E n \in 1 .. UlBufSize : ReadBody(n))

Spec == Init /\ [][Next]_vars
FairSpec == Spec /\ Fairness
-----------------------------------------------------------------------------
\* The part of buffer i of outq that is not acknowledged yet, as offsets.
Unacked(i) == (IF i = 1 THEN strm.ack_done ELSE 0) + 1 .. strm.outq[i].len
DataBuffers == {i \in DOMAIN strm.outq : IsAlien(strm.outq[i])}

\* The ring never overwrites a byte it still holds for nghttp3, whatever part of
\* a chunk is acknowledged and however the ring wraps (cb_h3_readfunction trusts
\* `used' for that, cb_h3_acked_stream_data counts it down).
RingIntact ==
  \A i \in DataBuffers : \A j \in Unacked(i) :
    buf[strm.outq[i].at + j - 1] = strm.outq[i].bytes[j]

\* The application's count of bytes held equals nghttp3's queue of unacknowledged
\* data, plus what was copied and never handed over.
UsedExact ==
  used = dropped - strm.ack_done + DataUpto(strm.outq, Len(strm.outq))

\* nghttp3's write and ack positions in outq are as far apart as the bytes in
\* flight on the QUIC stream, although buffers merge, grow and are popped.
OutqMatchesWire ==
  inflight = Upto(strm.outq, strm.outq_idx) + strm.outq_offset - strm.ack_offset

\* After FIN nothing is left to write and the body can not be added to.
FinLast == fin_written => ~strm.frq /\ Unsent(strm) = 0

\* Every body byte handed to nghttp3 is eventually acknowledged, through credit
\* running out, congestion and partial acknowledgements.
HandedIsDelivered == []<>(delivered = handed)

\* What nghttp3 and ngtcp2 read, now and in a retransmission, is the chunk just
\* copied: "that's the chunk we return to nghttp3" (ngtcp2.c:1353).
ChunkHoldsBody ==
  \A i \in DataBuffers : \A j \in Unacked(i) :
    LET c == strm.outq[i].base + j - 1
    IN c \in Cell /\ buf[c] = strm.outq[i].bytes[j]

\* FIN says the body is complete: "If this is the last data to send (or there is
\* no data to send because all data have been sent already), set
\* NGHTTP3_DATA_FLAG_EOF" (nghttp3.h).
FinEndsWholeBody == fin_written => handed = size /\ inOrder

\* Every upload is eventually finished: "copy the amount that fits and the next
\* part comes in next invoke" (ngtcp2.c:1342).
UploadFinishes == <>fin_written
=============================================================================
