------------------------------ MODULE MCStmEth ------------------------------
(* Instances of StmEth for TLC; the sizes are given in the .cfg files.      *)
EXTENDS StmEth
=============================================================================
