---------------------------- MODULE MCAckTracker ----------------------------
(* The ACK tracker with small bounds: the configurations give the numbers. *)
EXTENDS AckRanges
=============================================================================
