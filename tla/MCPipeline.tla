----------------------------- MODULE MCPipeline -----------------------------
(* Small instances of Pipeline for TLC.  h1 and h3 differ only in what the *)
(* edge reads.                                                             *)
EXTENDS Pipeline, TLC

CONSTANTS t1, t2, h1, h2, h3, plain, broken

EdgeOnlyRow(h) == IF h = h3 THEN h1 ELSE h
=============================================================================
