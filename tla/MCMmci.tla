------------------------------- MODULE MCMmci -------------------------------
(* Instances of Mmci for TLC. *)
EXTENDS Mmci
=============================================================================
