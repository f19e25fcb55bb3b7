------------------------------ MODULE MCEthSram ------------------------------
(* EthSram with the numbers of the STM32F7 Discovery board. *)
EXTENDS EthSram
=============================================================================
