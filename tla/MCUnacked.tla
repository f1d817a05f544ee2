----------------------------- MODULE MCUnacked -----------------------------
(* Unacked with the bounds of MCUnacked.cfg. *)
EXTENDS Unacked
=============================================================================
