--------------------------- MODULE MCRegistryAudit ---------------------------
(* Instances of RegistryAudit for TLC: versions c1 and c2, snapshots that  *)
(* name one or both, and two workers.                                      *)
EXTENDS RegistryAudit, TLC

CONSTANTS c1, c2, s1, s2, p1, p2, w1, w2

OneSnapshot == s1 :> {c1, c2}
OneProject == [s \in Snapshot |-> p1]
Symmetry == Permutations({w1, w2}) \cup Permutations({c1, c2})

(* Nothing reads what an audit found, and nothing is claimed of a state in *)
(* which a request has been lost.                                          *)
Unread(t) == IF t.pc = "recording" THEN [t EXCEPT !.run = [@ EXCEPT !.seen = {}]] ELSE t
Seen ==
  IF slipped THEN <<>>
  ELSE <<facts, {[r EXCEPT !.seen = {}] : r \in runs}, scan, queued, waits, left,
         [w \in Worker |-> Unread(task[w])], claims>>
=============================================================================
