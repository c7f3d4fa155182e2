----------------------------- MODULE MCJobQueue -----------------------------
(* Instances of JobQueue for TLC: a project, a version read from npm, and  *)
(* two workers.  One of the workers can be at a run it lost.               *)
EXTENDS JobQueue, TLC

CONSTANTS p1, c1, w1, w2

MCEcosystem == c1 :> "Npm"
MCRoom == [key \in GlobalKey |-> 1]
Symmetry == Permutations({w1, w2})

(* Nothing reads the attempts and the priority of a job that ended: states *)
(* that differ only there behave alike.                                    *)
Unread(row) ==
  IF row.state \in Live THEN row ELSE [row EXCEPT !.attempts = 0, !.priority = 0]
Seen == <<projects, [id \in DOMAIN jobs |-> Unread(jobs[id])], jobResources,
          blocks, nextId, worker>>
=============================================================================
