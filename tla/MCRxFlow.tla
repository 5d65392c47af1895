------------------------------ MODULE MCRxFlow -------------------------------
(* The receive side, and the ranges of its reorder buffers, with a local and a
   remote stream of a few bytes. *)
EXTENDS RobRanges, TLC
=============================================================================
