---------------------------- MODULE MCSdInstall ----------------------------
(* Instances of SdInstall for TLC. *)
EXTENDS SdInstall
=============================================================================
