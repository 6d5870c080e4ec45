------------------------------ MODULE MCShutdown ------------------------------
(***************************************************************************)
(* Small instances of Shutdown.                                            *)
(***************************************************************************)
EXTENDS Shutdown
=============================================================================
