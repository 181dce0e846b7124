----------------------------- MODULE MCRecovery -----------------------------
(* A small instance of Recovery for TLC.                                   *)
EXTENDS Recovery
=============================================================================
