---------------------------- MODULE MCEventQueue ----------------------------
(***************************************************************************)
(* Small instances of EventQueue, and of the pool it runs on, for TLC.     *)
(***************************************************************************)
EXTENDS EventQueue
=============================================================================
