------------------------------ MODULE H3Stream ------------------------------
(***************************************************************************)
(* The sending side of one nghttp3 request stream (nghttp3_stream.c,       *)
(* nghttp3_conn.c): the queue outq of buffers that are written and then    *)
(* acknowledged, the frames still to be put into it, and whether the       *)
(* connection will turn to the stream.  A stream is a record; an operation *)
(* is an operator from the stream before to the stream after.              *)
(*                                                                         *)
(* A buffer of outq is "shared" (frame headers in a chunk of the stream),  *)
(* "private" (owned by the queue) or "alien" (data that belongs to the     *)
(* application).  The fields base, at and bytes of an alien buffer are the *)
(* application's business: see module H3Upload.                            *)
(***************************************************************************)
EXTENDS Integers, Sequences

CONSTANT MinUnsent \* NGHTTP3_MIN_UNSENT_BYTES

\* The one fact about buffers that are not alien: how long they are.
Buffer(kind, len) == [kind |-> kind, len |-> len, base |-> 0, at |-> 0, bytes |-> <<>>]

\* A stream on which a request with a body was submitted, its HEADERS frame in
\* outq as the given buffer, its DATA frame in frq.
SubmittedRequest(headers) ==
  [outq |-> <<headers>>, outq_idx |-> 0, outq_offset |-> 0, ack_offset |-> 0, ack_done |-> 0,
   frq |-> TRUE,                \* the DATA frame entry is still in stream->frq
   read_data_blocked |-> FALSE, fc_blocked |-> FALSE, write_end_stream |-> FALSE,
   scheduled |-> TRUE]

IsAlien(b) == b.kind = "alien"

\* Sums(w)[i] is the sum of the first i members of w.  (A function, not a fold:
\* module H3StreamProofs reasons about it.)
Sums(w) == LET f[i \in 0 .. Len(w)] == IF i = 0 THEN 0 ELSE f[i - 1] + w[i] IN f

\* The bytes, and the bytes of the application, in the first i buffers of q.
Upto(q, i) == Sums([k \in DOMAIN q |-> q[k].len])[i]
DataUpto(q, i) == Sums([k \in DOMAIN q |-> IF IsAlien(q[k]) THEN q[k].len ELSE 0])[i]

\* stream->unsent_bytes
Unsent(s) == Upto(s.outq, Len(s.outq)) - Upto(s.outq, s.outq_idx) - s.outq_offset
OutqWriteDone(s) == s.outq_idx >= Len(s.outq)
RequireSchedule(s) ==
  \/ ~OutqWriteDone(s) /\ ~s.fc_blocked
  \/ s.frq /\ ~s.read_data_blocked

-----------------------------------------------------------------------------
\* Mutant: a written buffer that grows is not made eligible again.
OutqAddForgetful(s, b) ==
  LET n == Len(s.outq)
  IN IF n > 0 /\ s.outq[n].kind = "shared" /\ b.kind = "shared"
     THEN [s EXCEPT !.outq[n].len = @ + b.len]
     ELSE [s EXCEPT !.outq = Append(@, b)]

\* nghttp3_stream_outq_add: consecutive frame headers become one buffer.
OutqAdd(s, b) ==
  LET n == Len(s.outq)
      written == n = s.outq_idx
  IN IF n > 0 /\ s.outq[n].kind = "shared" /\ b.kind = "shared"
     THEN [s EXCEPT !.outq[n].len = @ + b.len,
                    !.outq_idx = IF written THEN n - 1 ELSE @,
                    !.outq_offset = IF written THEN s.outq[n].len ELSE @]
     ELSE [s EXCEPT !.outq = Append(@, b)]

\* nghttp3_stream_write_data after the read callback returned the data buffer b
\* (with eof or not), nothing but an end of file, or NGHTTP3_ERR_WOULDBLOCK;
\* the frame entry leaves frq with the end of file.
WriteDataEof(s) == [s EXCEPT !.write_end_stream = TRUE, !.frq = FALSE]
WriteData(s, b, eof) ==
  LET t == IF eof THEN WriteDataEof(s) ELSE s
  IN OutqAdd(OutqAdd(t, Buffer("shared", 1)), b)
WriteNoData(s) ==
  LET t == WriteDataEof(s)
  IN IF OutqWriteDone(t) THEN OutqAdd(t, Buffer("private", 0)) ELSE t
WriteDataBlocked(s) == [s EXCEPT !.read_data_blocked = TRUE]

\* conn_writev_stream and nghttp3_stream_fill_outq call the read callback.
MayRead(s) == s.frq /\ ~s.read_data_blocked /\ Unsent(s) < MinUnsent

\* *pfin of nghttp3_stream_writev, when outq fits the vector.
Fin(s) == ~s.frq /\ s.write_end_stream

-----------------------------------------------------------------------------
Unschedule(s) == [s EXCEPT !.scheduled = FALSE]
UnscheduleIfIdle(s) == IF RequireSchedule(s) THEN s ELSE Unschedule(s)
EnsureScheduled(s) == [s EXCEPT !.scheduled = @ \/ RequireSchedule(s)]

\* nghttp3_conn_add_write_offset and nghttp3_stream_add_outq_offset.
AddWriteOffset(s, n) ==
  LET offset == s.outq_offset + n
      Before(i) == Upto(s.outq, i) - Upto(s.outq, s.outq_idx)
      Passed(i) == offset - Before(i - 1) >= s.outq[i].len
      idx == CHOOSE i \in s.outq_idx .. Len(s.outq) :
               /\ \A k \in s.outq_idx + 1 .. i : Passed(k)
               /\ i < Len(s.outq) => ~Passed(i + 1)
  IN UnscheduleIfIdle([s EXCEPT !.outq_idx = idx, !.outq_offset = offset - Before(idx)])

\* nghttp3_stream_add_ack_offset: the number of buffers popped when n more
\* bytes are acknowledged; the loop goes no further than the one being written.
Popped(s, n) ==
  CHOOSE p \in 0 .. Len(s.outq) :
    /\ p <= s.outq_idx + 1 /\ Upto(s.outq, p) <= s.ack_offset + n
    /\ p < Len(s.outq) /\ p <= s.outq_idx => Upto(s.outq, p + 1) > s.ack_offset + n

\* What is acknowledged of the buffer that becomes the first.
AckLeft(s, n) == s.ack_offset + n - Upto(s.outq, Popped(s, n))
AckReaches(s, n) ==
  LET p == Popped(s, n)
  IN p < Len(s.outq) /\ p <= s.outq_idx /\ IsAlien(s.outq[p + 1])

AddAckOffset(s, n) ==
  LET p == Popped(s, n)
  IN [s EXCEPT !.outq = SubSeq(@, p + 1, Len(@)),
               !.outq_idx = IF p <= @ THEN @ - p ELSE 0,
               !.outq_offset = IF p = s.outq_idx + 1 THEN 0 ELSE @,
               !.ack_offset = AckLeft(s, n),
               !.ack_done = IF AckReaches(s, n) THEN AckLeft(s, n) ELSE IF p > 0 THEN 0 ELSE @]

\* Mutant: bytes of a buffer acknowledged in parts are reported again.
AckedDataAgain(s, n) ==
  DataUpto(s.outq, Popped(s, n)) + (IF AckReaches(s, n) THEN AckLeft(s, n) ELSE 0)

\* The sum of the amounts the acked_data callbacks report meanwhile.
AckedData(s, n) ==
  DataUpto(s.outq, Popped(s, n)) + (IF AckReaches(s, n) THEN AckLeft(s, n) ELSE 0) - s.ack_done

\* nghttp3_conn_block_stream, _unblock_stream and _resume_stream.
BlockStream(s) == Unschedule([s EXCEPT !.fc_blocked = TRUE])
\* Mutant: the flag is cleared and the stream left out of the schedule.
UnblockNoSchedule(s) == [s EXCEPT !.fc_blocked = FALSE]
UnblockStream(s) == EnsureScheduled([s EXCEPT !.fc_blocked = FALSE])
ResumeStream(s) == EnsureScheduled([s EXCEPT !.read_data_blocked = FALSE])
=============================================================================
