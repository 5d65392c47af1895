-------------------------------- MODULE MCRtb --------------------------------
(* The retransmission buffer with a few packets and items. *)
EXTENDS Rtb, TLC

\* Items of a kind are interchangeable.
Symmetry == Permutations(Ctrl) \cup Permutations(Data)
=============================================================================
