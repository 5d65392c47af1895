----------------------------- MODULE MCH3Upload -----------------------------
(* Uploads with small buffers and bodies: the configurations give the sizes. *)
EXTENDS H3Upload
=============================================================================
