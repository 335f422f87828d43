---------------------------- MODULE MCReprocess ----------------------------
(***************************************************************************)
(* Small instances of Reprocess for TLC; the constants are given in the    *)
(* configuration files.                                                    *)
(***************************************************************************)
EXTENDS Reprocess
=============================================================================
