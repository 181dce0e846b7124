--------------------------- MODULE MCCertificates ---------------------------
(* A small instance of Certificates for TLC: two instances with a renewal  *)
(* loop each, and API calls on the first.                                  *)
EXTENDS Certificates

CONSTANTS c1, i1, i2, l1, l2, a1

MCOn == [p \in Workers |-> IF p = l2 THEN i2 ELSE i1]
=============================================================================
