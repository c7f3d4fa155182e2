------------------------------ MODULE Verdicts ------------------------------
(***************************************************************************)
(* The verdicts on a forge beside the analyses they are of: what the check *)
(* of a commit says (src/src/forge/report.rs), when a pass tells the forge *)
(* (src/src/worker/discovery.rs), and what the registry's audit records    *)
(* after that.                                                             *)
(*                                                                         *)
(* Module Analyses has the tables and who writes them; whoever holds the   *)
(* project's lock also waits for the forge.  What a check says is read in  *)
(* one step and arrives in another, and meanwhile audits, which hold no    *)
(* lock, are recorded.  Module Reporting has what becomes of the rows that *)
(* remember a check when writes are lost or overtake each other.           *)
(***************************************************************************)
EXTENDS Analyses

CONSTANT Severity(_)  \* "high" from High up, "medium", or "low"

VARIABLES
  check,   \* what each commit's check says: "none" where there is no completed one
  telling  \* what the holder of the project's lock is telling the forge
verdictVars == <<vars, check, telling>>

(* Verdict::for_snapshot and tone: nobody triages issues, and every        *)
(* finding is introduced.                                                  *)
Verdict(i) ==
  LET counted == RunsOf(ShownWith(i))
      severities == {Severity(f) : f \in UNION {FindingsOf(r) : r \in counted}}
  IN IF "high" \in severities THEN "fail"
     ELSE IF severities = {} /\ \A r \in counted : runs[r].status # "failed" THEN "pass"
     ELSE "attention"

(* A verdict is of an analysis, and of its runs up to one: both are        *)
(* ghosts, 0 where the analysis did not end.                               *)
NoCheck == [of |-> 0, says |-> "none", upto |-> 0]
UnfinishedCheck == [of |-> 0, says |-> "unfinished", upto |-> 0]
ScannedCheck(i) == [of |-> ShownWith(i), says |-> Verdict(i), upto |-> Len(runs)]

Silent == [at |-> "nothing"]

VerdictsInit ==
  /\ Init
  /\ check = [h \in CommitSha |-> NoCheck]
  /\ telling = Silent

-----------------------------------------------------------------------------
(* Analyses, audits and readers go on as they do; the lock's holder waits  *)
(* for the forge before it comes to another commit.                        *)
Write ==
  /\ \/ telling = Silent /\ \E s \in Subject, h \in CommitSha : Observe(s, h) \/ Analyse(s, h)
     \/ Link \/ Evaluate \/ Stop
     \/ \E i \in Ids : RecordAudit(i)
     \/ Read
  /\ UNCHANGED <<check, telling>>

(* Step::Analysed, of an analysis that ended.                              *)
Analysed ==
  /\ MarkAnalysed
  /\ telling' = [at |-> "load", step |-> "analysed",
                 head |-> snapshots[work.snapshot].head, snapshot |-> work.snapshot]
  /\ UNCHANGED check

(* Step::Settled, of a commit that was analysed before.                    *)
Settled(h) ==
  /\ work = Rest /\ telling = Silent /\ index[h] # 0
  /\ telling' = [at |-> "load", step |-> "settled", head |-> h, snapshot |-> index[h]]
  /\ UNCHANGED <<vars, check>>

(* Step::Unfinished: an analysis that fails before it records its reading, *)
(* between its runs, or after the mark, when its packages are queued.      *)
Unfinished(h) ==
  /\ \/ work = Rest /\ telling = Silent
     \/ work.at = "runs" /\ snapshots[work.snapshot].head = h
     \/ telling.at = "load" /\ telling.step = "analysed" /\ telling.head = h
  /\ work' = Rest
  /\ telling' = [at |-> "send", head |-> h, check |-> UnfinishedCheck]
  /\ UNCHANGED <<tables, reader, told, check>>

(* Reporting::write, as far as the tables: a settled commit with a         *)
(* completed check is left with what that says.                            *)
LoadVerdict ==
  /\ telling.at = "load"
  /\ telling' = IF telling.step = "settled" /\ check[telling.head] # NoCheck THEN Silent
                ELSE [at |-> "send", head |-> telling.head, check |-> ScannedCheck(telling.snapshot)]
  /\ UNCHANGED <<vars, check>>

(* The forge takes it, in place of what it had.                            *)
Send ==
  /\ telling.at = "send"
  /\ check' = [check EXCEPT ![telling.head] = telling.check]
  /\ telling' = Silent
  /\ UNCHANGED vars

(* The project does not report, the forge refuses, or the process stops.   *)
Drop ==
  /\ telling # Silent
  /\ telling' = Silent
  /\ UNCHANGED <<vars, check>>

(* Step::Started opens a new check, and Reporting::forget, at a webhook,   *)
(* drops the one there is.                                                 *)
Reopen(h) ==
  /\ check[h] # NoCheck
  /\ check' = [check EXCEPT ![h] = NoCheck]
  /\ UNCHANGED <<vars, telling>>

VerdictsNext ==
  \/ Write \/ Analysed \/ LoadVerdict \/ Send \/ Drop
  \/ \E h \in CommitSha : Settled(h) \/ Unfinished(h) \/ Reopen(h)

VerdictsSpec == VerdictsInit /\ [][VerdictsNext]_verdictVars

-----------------------------------------------------------------------------
(* analysis_status: one word for a whole analysis, read at once.           *)
AnalysisStatus(i) ==
  LET severities == {Severity(f) : f \in UNION {FindingsOf(r) : r \in RunsOf(i)}} IN
  IF RunsOf(i) = {} THEN "unscanned"
  ELSE IF (\E r \in RunsOf(i) : runs[r].status = "failed") \/ "high" \in severities THEN "alarming"
  ELSE IF "medium" \in severities THEN "attention" ELSE "clear"

High(rs) == \E r \in rs : \E f \in FindingsOf(r) : Severity(f) = "high"

(* A verdict is stale only by what an audit found after it: it is of an    *)
(* analysis of its own commit to which every analyzer had contributed,     *)
(* whatever was analysed again, stopped or asked for meanwhile; and the    *)
(* API, which ranks severity the same way (http/api/analysis.rs,           *)
(* AnalysisStatus), says of that analysis what the check says, but for     *)
(* what audits have added.                                                 *)
OutrunOnlyByAudits ==
  \A h \in {g \in CommitSha : check[g].of # 0} :
    LET counted == {r \in RunsOf(check[h].of) : r <= check[h].upto}
        later == RunsOf(check[h].of) \ counted
        status == AnalysisStatus(check[h].of)
    IN /\ snapshots[check[h].of].head = h
       /\ \A a \in ToSet(Analyzers) : \E r \in counted : runs[r].analyzer = a
       /\ \A r \in later : runs[r].analyzer = PACKAGE_AUDIT
       /\ check[h].says = "fail" => status = "alarming"
       /\ check[h].says = "pass" /\ (\A r \in later : FindingsOf(r) = {}) => status \in {"clear", "unscanned"}
       /\ check[h].says # "fail" /\ status = "alarming" =>
            High(later) \/ \E r \in counted : runs[r].status = "failed"

=============================================================================
