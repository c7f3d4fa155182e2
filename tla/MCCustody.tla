----------------------------- MODULE MCCustody -----------------------------
(* Instances of Custody for TLC.                                           *)
EXTENDS Custody

CONSTANTS u1, u2, o1, o2, p1
=============================================================================
