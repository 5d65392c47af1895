----------------------------- MODULE RobRanges -------------------------------
(***************************************************************************)
(* The reorder buffer of a stream as ngtcp2_rob.c keeps it: the sorted     *)
(* list gapksl of the ranges still missing, the last of them without end,  *)
(* and the sorted list dataksl of chunks.  RxFlow works on sets of bytes;  *)
(* each operation is compared with them in every state RxFlow reaches.     *)
(***************************************************************************)
EXTENDS RxFlow, Sequences

Endless == MaxOff + 1  \* stands for UINT64_MAX

Gap(begin, end) == [begin |-> begin, end |-> end]
NonEmpty(r) == r.begin < r.end
Meet(r, q) == Gap(IF r.begin < q.begin THEN q.begin ELSE r.begin,
                    IF r.end < q.end THEN r.end ELSE q.end)

\* The members of T in increasing order, as a skip list keeps them: each where
\* its rank puts it.
Increasing(T) ==
  [i \in 1 .. Cardinality(T) |-> CHOOSE t \in T : Cardinality({u \in T : u <= t}) = i]

\* The gaps that a set of bytes leaves.
GapsOf(g) ==
  LET missing == (0 .. Endless - 1) \ g
      firsts == Increasing({k \in missing : k - 1 \notin missing})
      EndOf(k) == CHOOSE e \in k + 1 .. Endless : k .. e - 1 \subseteq missing /\ e \notin missing
  IN [i \in DOMAIN firsts |-> Gap(firsts[i], EndOf(firsts[i]))]

\* ngtcp2_ksl_lower_bound_compar with ngtcp2_ksl_range_exclusive_compar: the
\* first gap that is not wholly before q.
LowerBound(gaps, q) ==
  CHOOSE i \in 1 .. Len(gaps) + 1 :
    /\ i <= Len(gaps) => gaps[i].begin >= q.begin \/ NonEmpty(Meet(gaps[i], q))
    /\ \A k \in 1 .. i - 1 : gaps[k].begin < q.begin /\ ~NonEmpty(Meet(gaps[k], q))

\* The range from begin to end, where there is one.
Piece(begin, end) == IF begin < end THEN <<Gap(begin, end)>> ELSE <<>>

\* Mutant: a gap that q splits loses its right part.
CutLeft(g, m) == Piece(g.begin, m.begin)

\* ngtcp2_range_cut: what is left of gap g without its part m.
Cut(g, m) == Piece(g.begin, m.begin) \o Piece(m.end, g.end)

\* ngtcp2_rob_push of the bytes q on the gaps.
RobPush(gaps, q) ==
  LET walk[i \in 1 .. Len(gaps) + 1] ==
        IF i > Len(gaps) THEN <<>>
        ELSE IF ~NonEmpty(Meet(gaps[i], q)) THEN SubSeq(gaps, i, Len(gaps))
        ELSE Cut(gaps[i], Meet(gaps[i], q)) \o walk[i + 1]
      lb == LowerBound(gaps, q)
  IN SubSeq(gaps, 1, lb - 1) \o walk[lb]

\* ngtcp2_rob_remove_prefix on the gaps.
RobRemovePrefix(gaps, offset) ==
  LET walk[i \in 1 .. Len(gaps) + 1] ==
        IF i > Len(gaps) THEN <<>>
        ELSE IF offset <= gaps[i].begin THEN SubSeq(gaps, i, Len(gaps))
        ELSE IF offset < gaps[i].end
             THEN <<Gap(offset, gaps[i].end)>> \o SubSeq(gaps, i + 1, Len(gaps))
        ELSE walk[i + 1]
  IN walk[1]

\* ngtcp2_rob_first_gap_offset.
FirstGapOffset(gaps) == gaps[1].begin

\* ngtcp2_rob_data_at: how many bytes can be delivered from offset, with the
\* first chunk of dataksl.  Its assertions are DataAtAsserts.
DataAtAsserts(dataksl, offset) ==
  dataksl # <<>> /\ dataksl[1] <= offset /\ offset < dataksl[1] + Chunk

DataAt(gaps, dataksl, offset) ==
  LET first == gaps[1].begin
      chunkEnd == dataksl[1] + Chunk
  IN IF first <= offset THEN 0
     ELSE (IF first < chunkEnd THEN first ELSE chunkEnd) - offset

\* Mutant: a chunk stays when its last byte was delivered.
RobPopLate(dataksl, end) == IF end <= dataksl[1] + Chunk THEN dataksl ELSE Tail(dataksl)

\* ngtcp2_rob_pop of the bytes before end.
RobPop(dataksl, end) == IF end < dataksl[1] + Chunk THEN dataksl ELSE Tail(dataksl)

\* conn_emit_pending_stream_data from offset on: where its callbacks end, and
\* whether the assertions of data_at hold all the way.
Emit(gaps, dataksl, offset) ==
  LET suffixes == {SubSeq(dataksl, i, Len(dataksl)) : i \in 1 .. Len(dataksl) + 1}
      emit[at \in Offset \X suffixes] ==
        LET o == at[1]
            d == at[2]
        IN IF gaps[1].begin <= o THEN [ends |-> {}, ok |-> o = FirstGapOffset(gaps), left |-> d]
           ELSE IF ~DataAtAsserts(d, o) THEN [ends |-> {}, ok |-> FALSE, left |-> d]
           ELSE LET end == o + DataAt(gaps, d, o)
                    rest == emit[<<end, RobPop(d, end)>>]
                IN [rest EXCEPT !.ends = @ \cup {end}]
  IN emit[<<offset, dataksl>>]

-----------------------------------------------------------------------------
Frames == {q \in [begin : Offset, end : Offset] : NonEmpty(q)}

\* Whatever was received, pushing any frame leaves exactly the gaps of the bytes
\* received then, in order; removing a prefix does too, for every prefix the
\* stream delivers; and the first gap is the offset the stream works with.
RobAgrees ==
  \A s \in open :
    LET gaps == GapsOf(got[s])
    IN /\ FirstGapOffset(gaps) = Rx(s)
       /\ \A q \in Frames :
            /\ RobPush(gaps, q) = GapsOf(got[s] \cup q.begin .. q.end - 1)
            /\ q.begin <= Rx(s) =>
                 RobRemovePrefix(gaps, q.end) = GapsOf(got[s] \cup 0 .. q.end - 1)

\* The loop that passes on what a frame at the front made contiguous asserts
\* nothing false, ends its callbacks where RxFlow says and leaves the chunks
\* RxFlow leaves.
EmitAgrees ==
  \A s \in open \ (stopped \cup rst), q \in Frames :
    q.begin <= Rx(s) /\ Rx(s) < q.end =>
      LET g == got[s] \cup 0 .. q.end - 1
          rest == {c \in chunks[s] : q.end < c + Chunk}
          e == Emit(GapsOf(g), Increasing(rest), q.end)
      IN /\ e.ok
         /\ e.ends = {k \in q.end + 1 .. FirstGap(g) : k = FirstGap(g) \/ k % Chunk = 0}
         /\ {e.left[i] : i \in DOMAIN e.left} = {c \in rest : FirstGap(g) < c + Chunk}
=============================================================================
