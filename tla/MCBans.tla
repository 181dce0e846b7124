------------------------------- MODULE MCBans -------------------------------
(* Small instances of Bans for TLC.                                        *)
EXTENDS Bans

CONSTANTS a1, c1
=============================================================================
