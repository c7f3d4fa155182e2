---------------------------- MODULE MCReporting ----------------------------
(* Instances of Reporting for TLC.                                         *)
EXTENDS Reporting

CONSTANTS h1, h2, a1, a2
=============================================================================
