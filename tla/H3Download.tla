----------------------------- MODULE H3Download ------------------------------
(***************************************************************************)
(* HTTP/3 downloads of curl on one connection: the loop of readwrite_data  *)
(* over ngh3_stream_recv, the receive and overflow buffers that nghttp3's  *)
(* callbacks fill, the credit that is returned for them, and what makes    *)
(* libcurl call a transfer at all.                                         *)
(*                                                                         *)
(* Whichever transfer reads takes every datagram of the connection's       *)
(* socket, and so fills the buffers of the others.  The server keeps to    *)
(* the window of each stream and sends every body whole.  libcurl is       *)
(* single threaded: only the server acts between two iterations.  What     *)
(* happens after a failed ngtcp2_conn_read_pkt is not modelled.            *)
(***************************************************************************)
EXTENDS Integers, Sequences

CONSTANTS
  Transfer,     \* the easy handles of the connection
  Sized,        \* those whose response has a content-length
  Body,         \* the bytes of each response body
  BufferSize,   \* data->set.buffer_size
  OverflowMax,  \* CURL_MAX_READ_SIZE, the limit of stream->overflow
  Window,       \* initial_max_stream_data_bidi_local
  MaxLoops,     \* the 100 of readwrite_data
  Pausing,      \* transfers whose client pauses
  GotMax        \* bound: no more of what a client was passed is remembered

ASSUME H3DownloadAssumption ==
  /\ Sized \subseteq Transfer /\ Pausing \subseteq Transfer
  /\ Body \in [Transfer -> Nat \ {0}] /\ BufferSize \in Nat \ {0} /\ Window \in Nat \ {0}
  /\ OverflowMax \in Nat /\ MaxLoops \in Nat \ {0}
  /\ GotMax \in Nat /\ \A t \in Transfer : GotMax > Body[t]

VARIABLES
  sent,      \* bytes of a body the server sent
  fin,       \* streams the server finished
  received,  \* bytes of a body that nghttp3 passed on
  http,      \* struct HTTP of a transfer
  returned,  \* credit that extend_stream_window returned
  keepRecv,  \* transfers with KEEP_RECV
  paused,    \* transfers with KEEP_RECV_PAUSE
  force,     \* CURL_CSELECT_IN in conn->cselect_bits
  turn,      \* the transfer inside readwrite_data, if any
  maxloops,  \* its local variable
  got,       \* history: the bytes the client was passed
  outcome,   \* "running", "ok", "partial" (CURLE_PARTIAL_FILE) or "error"
  broken,    \* ngtcp2_conn_read_pkt failed
  spilled    \* history: transfers whose overflow buffer was used

server == <<sent, fin>>
vars == <<server, received, http, returned, keepRecv, paused, force, turn, maxloops, got,
          outcome, broken, spilled>>

Size == UNION {0 .. Body[t] : t \in Transfer}
Byte == {n \in Size : n + 1 \in Size}

Struct == [mem : Seq(Byte), len : Nat, overflow : Seq(Byte), unacked_window : Nat,
           closed : BOOLEAN]

Typed ==
  /\ sent \in [Transfer -> Size] /\ fin \subseteq Transfer
  /\ received \in [Transfer -> Size] /\ returned \in [Transfer -> Size]
  /\ http \in [Transfer -> Struct]
  /\ keepRecv \subseteq Transfer /\ paused \subseteq Transfer /\ spilled \subseteq Transfer
  /\ force \in BOOLEAN /\ broken \in BOOLEAN
  /\ turn \subseteq Transfer /\ maxloops \in -1 .. MaxLoops
  /\ got \in [Transfer -> Seq(Byte)]
  /\ outcome \in [Transfer -> {"running", "ok", "partial", "error"}]

\* Curl_http has sent the requests: no recv was called yet, so mem is NULL.
Init ==
  /\ sent = [t \in Transfer |-> 0] /\ received = sent /\ returned = sent /\ fin = {}
  /\ http = [t \in Transfer |-> [mem |-> <<>>, len |-> 0, overflow |-> <<>>,
                                 unacked_window |-> 0, closed |-> FALSE]]
  /\ keepRecv = Transfer /\ paused = {} /\ force = FALSE /\ turn = {} /\ maxloops = 0
  /\ got = [t \in Transfer |-> <<>>] /\ outcome = [t \in Transfer |-> "running"]
  /\ broken = FALSE /\ spilled = {}

Least(a, b) == IF a < b THEN a ELSE b
From(s, n) == SubSeq(s, n + 1, Len(s))

-----------------------------------------------------------------------------
\* Mutant: the buffer is taken for an empty one.
RememberAlways(h, n) == [h EXCEPT !.len = n]

\* Where ngh3_stream_recv stores what comes, unless data is there already.
Remember(h, n) == IF h.mem = <<>> THEN [h EXCEPT !.len = n] ELSE h

\* Mutant: the buffer is reset after a drain that did not take all of it.
DrainAndReset(h) ==
  LET n == Least(Len(h.overflow), h.len)
  IN [h EXCEPT !.mem = @ \o SubSeq(h.overflow, 1, n), !.len = @ - n,
               !.overflow = IF n = 0 THEN @ ELSE <<>>]

\* drain_overflow_buffer: the tail stays, and so does a buffer that fits whole.
DrainOverflow(h) ==
  LET n == Least(Len(h.overflow), h.len)
  IN [h EXCEPT !.mem = @ \o SubSeq(h.overflow, 1, n), !.len = @ - n,
               !.overflow = IF n = Len(@) THEN @ ELSE From(@, n)]

\* cb_h3_recv_data: the receive buffer first, then the overflow buffer.
WriteData(h, new) ==
  LET n == Least(Len(new), h.len)
  IN [h EXCEPT !.mem = @ \o SubSeq(new, 1, n), !.len = @ - n,
               !.overflow = @ \o From(new, n), !.unacked_window = @ + Len(new)]

\* The bytes of t that wait in the socket, and whether any datagram does.
Waiting(t) == [i \in 1 .. sent[t] - received[t] |-> received[t] + i - 1]
Readable == \E t \in Transfer : sent[t] > received[t] \/ (t \in fin /\ ~http[t].closed)

\* ng_process_ingress: all that waits, for every stream; cb_h3_stream_close.
Ingress(hs) ==
  [t \in Transfer |-> [WriteData(hs[t], Waiting(t)) EXCEPT !.closed = t \in fin]]

\* Mutant: cb_h3_stream_close does not have the transfer drained.
DrainNever(t) == FALSE

\* The data->state.drain that cb_h3_stream_close sets; nothing resets it.
Drain(t) == http[t].closed

\* bytestoread of readwrite_data.
Wanted(t) == IF t \in Sized THEN Least(BufferSize, Body[t] - Len(got[t])) ELSE BufferSize

\* The buffers after ngh3_stream_recv has drained and received, as t reads.
Filled(t) ==
  LET h == DrainOverflow(Remember(http[t], Wanted(t)))
  IN Ingress([http EXCEPT ![t] = h])

\* The types, and no callback writes past the receive buffer of a transfer,
\* also while it is being filled.
TypeOK ==
  /\ Typed
  /\ \A t \in Transfer :
       Len(http[t].mem) + http[t].len <= BufferSize /\ Len(Filled(t)[t].mem) <= BufferSize

\* cb_h3_recv_data fails when Curl_dyn_addn does.
Fails(hs) == \E t \in Transfer : Len(hs[t].overflow) > OverflowMax

-----------------------------------------------------------------------------
\* Curl_readwrite goes on to readwrite_data.  A paused transfer does not ask
\* for its socket, but is read when it is drained or forced.
MayRead(t) ==
  /\ t \in keepRecv
  /\ force \/ Drain(t) \/ (t \notin paused /\ Readable)

\* An iteration of the loop: the first of a call, or the next.
Iterates(t) ==
  /\ ~broken /\ outcome[t] = "running"
  /\ \/ turn = {} /\ MayRead(t)
     \/ turn = {t}

\* maxloops in the iteration.
Left(t) == IF turn = {t} THEN maxloops ELSE MaxLoops

\* The end of Curl_readwrite for t, and of its transfer when nothing keeps it
\* on: multi_done and Curl_quic_done free the overflow buffer.
Over(t, hs, comeback) ==
  /\ turn' = {} /\ maxloops' = 0 /\ force' = comeback
  /\ IF t \in keepRecv' \cup paused'
     THEN http' = hs /\ UNCHANGED outcome
     ELSE /\ http' = [hs EXCEPT ![t].overflow = <<>>]
          /\ outcome' = [outcome EXCEPT ![t] =
               IF t \in Sized /\ Len(got'[t]) # Body[t] THEN "partial" ELSE "ok"]

\* Mutant: a closed stream ends before its last bytes are returned.
ArrivedUnlessClosed(t) == Filled(t)[t].mem # <<>> /\ ~Filled(t)[t].closed

\* ngh3_stream_recv returns data.
Arrived(t) == Filled(t)[t].mem # <<>>

\* Mutant: memlen is not reset.
TakenKept(h, n) == [h EXCEPT !.len = n, !.unacked_window = 0]

\* Mutant: the window that was not acknowledged is forgotten with the data.
TakenUncredited(h, n) == [h EXCEPT !.mem = <<>>, !.len = n]

\* What ngh3_stream_recv leaves of the buffer, with extend_stream_window.
Taken(h, n) == [h EXCEPT !.mem = <<>>, !.len = n, !.unacked_window = 0]

\* The client is passed what was read, up to the content-length.  Its callback
\* may pause the transfer, whose data libcurl then keeps for it.
ReadData(t, pause) ==
  LET hs == Filled(t)
      data == IF t \in Sized THEN SubSeq(hs[t].mem, 1, Least(Len(hs[t].mem), Body[t] - Len(got[t])))
                             ELSE hs[t].mem
      rest == [hs EXCEPT ![t] = Taken(hs[t], Wanted(t))]
      pending == rest[t].overflow # <<>>
      left == IF pending /\ ~(t \in paused') THEN Left(t) - 1 ELSE Left(t)
  IN /\ Iterates(t) /\ ~Fails(hs) /\ Arrived(t)
     /\ received' = sent
     /\ returned' = [returned EXCEPT ![t] = @ + hs[t].unacked_window]
     /\ got' = [got EXCEPT ![t] = SubSeq(@ \o data, 1, Least(Len(@ \o data), GotMax))]
     /\ keepRecv' = (IF t \in Sized /\ Len(got[t]) + Len(hs[t].mem) >= Body[t]
                     THEN keepRecv \ {t} ELSE keepRecv)
     /\ paused' = (IF pause THEN paused \cup {t} ELSE paused)
     /\ spilled' = spilled \cup {u \in Transfer : hs[u].overflow # <<>>}
     /\ IF pending /\ t \notin paused' /\ t \in keepRecv' /\ Left(t) > 0
        THEN /\ turn' = {t} /\ maxloops' = left /\ force' = FALSE
             /\ http' = rest /\ UNCHANGED outcome
        ELSE Over(t, rest, left <= 0)
     /\ UNCHANGED <<server, broken>>

\* Nothing arrived: the stream is at its end, or the read would block.
ReadNothing(t) ==
  LET hs == Filled(t)
  IN /\ Iterates(t) /\ ~Fails(hs) /\ ~Arrived(t)
     /\ received' = sent
     /\ keepRecv' = (IF hs[t].closed THEN keepRecv \ {t} ELSE keepRecv)
     /\ spilled' = spilled \cup {u \in Transfer : hs[u].overflow # <<>>}
     /\ UNCHANGED <<server, returned, paused, got, broken>>
     /\ Over(t, hs, Left(t) <= 0)

\* A callback fails for want of memory, and the transfer that reads with it.
ReadFails(t) ==
  /\ Iterates(t) /\ Fails(Filled(t))
  /\ broken' = TRUE /\ outcome' = [outcome EXCEPT ![t] = "error"] /\ turn' = {}
  /\ force' = FALSE
  /\ UNCHANGED <<server, received, http, returned, keepRecv, paused, maxloops, got, spilled>>

\* Curl_readwrite of a transfer that has read all: it is over, unless the
\* client paused it.  It takes the force that was meant for another.
RunDone(t) ==
  /\ ~broken /\ outcome[t] = "running" /\ turn = {} /\ t \notin keepRecv
  /\ t \in paused => force
  /\ UNCHANGED <<server, received, returned, keepRecv, paused, got, broken, spilled>>
  /\ Over(t, http, FALSE)

\* curl_easy_pause: all the data kept for the client is passed on.  Pausing again
\* inside that changes nothing.
Unpause(t) ==
  /\ ~broken /\ outcome[t] = "running" /\ turn = {} /\ t \in paused
  /\ paused' = paused \ {t} /\ force' = TRUE
  /\ UNCHANGED <<server, received, http, returned, keepRecv, turn, maxloops, got, outcome,
                 broken, spilled>>

\* The server sends a byte the window allows, or the end of the stream.
Send(t) ==
  /\ ~broken /\ sent[t] < Body[t] /\ sent[t] < Window + returned[t]
  /\ sent' = [sent EXCEPT ![t] = @ + 1]
  /\ UNCHANGED <<fin, received, http, returned, keepRecv, paused, force, turn, maxloops, got,
                 outcome, broken, spilled>>

Finish(t) ==
  /\ ~broken /\ sent[t] = Body[t] /\ t \notin fin
  /\ fin' = fin \cup {t}
  /\ UNCHANGED <<sent, received, http, returned, keepRecv, paused, force, turn, maxloops, got,
                 outcome, broken, spilled>>

-----------------------------------------------------------------------------
Run(t) ==
  \/ \E pause \in {FALSE, (t \in Pausing)} : ReadData(t, pause)
  \/ ReadNothing(t) \/ ReadFails(t) \/ RunDone(t)

Next == \E t \in Transfer : Run(t) \/ Unpause(t) \/ Send(t) \/ Finish(t)

\* Curl_expire of cb_h3_stream_close, curl_easy_pause and a comeback has the
\* multi handle call each of these transfers; a client resumes what it paused.
Fairness ==
  /\ \A t \in Transfer : SF_vars(Run(t))
  /\ \A t \in Pausing : SF_vars(Unpause(t))

Spec == Init /\ [][Next]_vars /\ Fairness

-----------------------------------------------------------------------------
Bytes(s) == {s[i] : i \in DOMAIN s}
First(n) == [i \in 1 .. n |-> i - 1]

\* A client is passed the body in order, each byte once, however the reads of
\* the transfers interleave, as long as no data of the transfer had to be put
\* into the overflow buffer.
OnlyOverflowDisorders ==
  \A t \in Transfer \ spilled :
    outcome[t] # "error" => got[t] \o http[t].mem = First(received[t])

\* With it, bytes come twice or out of order, but none is lost while the
\* transfer reads.
NothingLost ==
  \A t \in keepRecv : outcome[t] = "running" /\ Len(got[t]) < GotMax =>
    Bytes(got[t]) \cup Bytes(http[t].mem) \cup Bytes(http[t].overflow) = 0 .. received[t] - 1

\* No credit is lost: what was not given back yet comes back with the next
\* read, because data is held for it.
CreditComesBack ==
  \A t \in Transfer :
    /\ returned[t] + http[t].unacked_window = received[t]
    /\ t \in keepRecv /\ http[t].unacked_window > 0 =>
         http[t].mem # <<>> \/ http[t].overflow # <<>>

\* A transfer whose body arrived is never taken for a partial file, and one
\* that did without the overflow buffer passed on the whole body.
EndsComplete ==
  \A t \in Transfer :
    /\ outcome[t] # "partial"
    /\ outcome[t] = "ok" /\ t \notin spilled => got[t] = First(Body[t])

\* A transfer whose stream was closed ends, though no datagram comes any more
\* and another transfer may have read its last one; without a content-length
\* only if its overflow buffer, which is never emptied, was not used.
ClosedEnds ==
  \A t \in Transfer :
    http[t].closed /\ (t \in Sized \/ t \notin spilled) ~> outcome[t] # "running" \/ broken

\* drain_overflow_buffer keeps only the tail (ngtcp2.c:1232): no byte is
\* passed to the client twice.
PassedOnce ==
  \A t \in Transfer : \A i, j \in DOMAIN got[t] : got[t][i] = got[t][j] => i = j
=============================================================================
