---------------------------- MODULE MCH3Download -----------------------------
(* H3Download for TLC: two downloads on one connection, with a body for each. *)
EXTENDS H3Download, TLC

CONSTANTS a, b

BodyOfBoth == a :> 2 @@ b :> 3
=============================================================================
