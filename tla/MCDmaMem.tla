------------------------------ MODULE MCDmaMem ------------------------------
(* Instances of DmaMem for TLC. *)
EXTENDS DmaMem
=============================================================================
