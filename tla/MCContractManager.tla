------------------------- MODULE MCContractManager -------------------------
(***************************************************************************)
(* Small instances of ContractManager for TLC; the constants are given in  *)
(* the configuration files.                                                *)
(***************************************************************************)
EXTENDS ContractManager
=============================================================================
