------------------------------ MODULE MCSignIn ------------------------------
(* Instances of SignIn for TLC.                                            *)
EXTENDS SignIn, TLC

CONSTANTS ada, ben, b1, b2, ci, never

(* No person and no browser is told from another by name.                  *)
Alike == Permutations(Person) \cup Permutations(Browser)
=============================================================================
