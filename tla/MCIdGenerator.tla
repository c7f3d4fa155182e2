---------------------------- MODULE MCIdGenerator ----------------------------
(* Two threads, sequences of two, so that a millisecond is soon used up.   *)
EXTENDS IdGenerator
=============================================================================
