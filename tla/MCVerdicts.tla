----------------------------- MODULE MCVerdicts -----------------------------
(* Instances of Verdicts for TLC: a change and a branch, two commits, one  *)
(* analyzer and the audit, each with a grave finding.                      *)
EXTENDS Verdicts, TLC

CONSTANTS change, branch, h1, h2, secret, ci, audit, key, advisory

MCAnalyzers == <<secret>>
MCAnalyzer(f) == IF f = advisory THEN audit ELSE secret
MCSeverity(f) == "high"

(* As many readings and runs together.  Readers and checks look at the     *)
(* same tables and not at each other: while somebody reads, no check is    *)
(* written.  A listing that has ended is what the properties look at.      *)
MaxRows == 5
FewRows == Len(snapshots) + Len(runs) <= MaxRows
ReadOrTold ==
  reader # NoReader =>
    /\ reader.at # "end" /\ \A h \in CommitSha : check[h] = NoCheck
    /\ telling.at # "send" /\ (telling.at = "load" => telling.step = "analysed")

Alike == Permutations({change, branch}) \cup Permutations({h1, h2})
=============================================================================
