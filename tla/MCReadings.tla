----------------------------- MODULE MCReadings -----------------------------
(* Instances of Readings for TLC.                                          *)
EXTENDS Readings

CONSTANTS main, dev, c1, c2, h1, h2, a1, a2
=============================================================================
