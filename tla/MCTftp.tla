------------------------------- MODULE MCTftp -------------------------------
(* Instances of Tftp for TLC. *)
EXTENDS Tftp
=============================================================================
