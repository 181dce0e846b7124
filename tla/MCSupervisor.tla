---------------------------- MODULE MCSupervisor ----------------------------
(* Small instances of Supervisor for TLC: one HTTP restart that may race   *)
(* the watchdog and one recovery goroutine.                                *)
EXTENDS Supervisor, TLC

CONSTANTS q1, v1
=============================================================================
