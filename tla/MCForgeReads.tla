---------------------------- MODULE MCForgeReads ----------------------------
(* An instance of ForgeReads for TLC: a repository that is renamed once    *)
(* and two installations.                                                  *)
EXTENDS ForgeReads, TLC

CONSTANTS a, b, i1, i2, none

MCFirst == [r \in Repository |-> a]
=============================================================================
