------------------------------ MODULE Analyses ------------------------------
(***************************************************************************)
(* What the analyses of a project leave behind and how it is read: runs    *)
(* with their findings, the issues behind findings, the baseline of a run  *)
(* (src/src/analysis/mod.rs, src/src/analysis/runner.rs), the listing page *)
(* by page and the reading of one snapshot (src/src/http/api/analysis.rs,  *)
(* src/src/http/mcp.rs).                                                   *)
(*                                                                         *)
(* Module Readings has the order in which a pass comes to its heads; here  *)
(* whoever holds the project's lock observes or analyses any head, and may *)
(* stop.  A listing is several requests, and a request several statements: *)
(* the tables change in between.                                           *)
(*                                                                         *)
(* Ids are positions, a later row has the larger one, and 0 stands for     *)
(* NULL.  A finding is its fingerprint: what that is computed of is the    *)
(* instance's to say.                                                      *)
(***************************************************************************)
EXTENDS Integers, Sequences, SequencesExt

CONSTANTS
  Subject, CommitSha,
  Analyzers,     \* those the project uses, in their order
  CI_CHECKS,     \* the analyzer that cannot be used without a forge
  PACKAGE_AUDIT, \* the analyzer of the registry's audit
  Fingerprint,   \* hashes of a fixed width
  Analyzer(_),
  Pages,         \* how many snapshots a request lists at most: the code's one size, or several
  MaxSnapshots, MaxRuns, MaxListings   \* bounds

ASSUME AnalysesAssumption ==
  /\ Pages \subseteq Nat \ {0}
  /\ MaxSnapshots \in Nat /\ MaxRuns \in Nat /\ MaxListings \in Nat
  /\ Analyzers \in Seq(ToSet(Analyzers)) /\ IsFiniteSet(Fingerprint)

VARIABLES
  snapshots,  \* table snapshots
  index,      \* table commit_analyses
  runs,       \* table runs; found is a ghost: what the analyzer found
  findings,   \* table findings: the run and the issue of each
  issues,     \* table issues
  work,       \* what the holder of the project's lock is doing
  reader,     \* a listing under way
  told        \* what it has been told so far

tables == <<snapshots, index, runs, findings, issues>>
vars == <<tables, work, reader, told>>

-----------------------------------------------------------------------------
Ids == 1 .. Len(snapshots)
Runs == 1 .. Len(runs)

Snapshot == [subject : Subject, head : CommitSha, analysis : 0 .. MaxSnapshots]
Status == {"succeeded", "failed", "skipped"}
Run == [snapshot : 1 .. MaxSnapshots, analyzer : ToSet(Analyzers) \cup {PACKAGE_AUDIT},
        status : Status, against : 0 .. MaxSnapshots, found : SUBSET Fingerprint]
Finding == [run : 1 .. MaxRuns, issue : Nat]
Issue == [fingerprint : Fingerprint, first : 1 .. MaxSnapshots, last : 1 .. MaxSnapshots]

Rest == [at |-> "rest", snapshot |-> 0, indexed |-> 0, left |-> <<>>]
NoReader == [at |-> "idle", latest |-> FALSE, only |-> Subject, since |-> 0, size |-> 1,
             before |-> 0, next |-> 0, page |-> <<>>, joined |-> {}, count |-> 0]

Init ==
  /\ snapshots = <<>> /\ runs = <<>> /\ issues = <<>> /\ findings = {}
  /\ index = [h \in CommitSha |-> 0]
  /\ work = Rest /\ reader = NoReader /\ told = <<>>

-----------------------------------------------------------------------------
(* What the tables say.                                                    *)

Of(s, h) == {i \in Ids : snapshots[i].subject = s /\ snapshots[i].head = h}
RunsOf(i) == {r \in Runs : runs[r].snapshot = i}
Bare(i) == snapshots[i].analysis = 0 /\ RunsOf(i) = {}

(* COALESCE(analysis_snapshot_id, id).                                     *)
ShownWith(i) == IF snapshots[i].analysis = 0 THEN i ELSE snapshots[i].analysis

(* Finding::for_run, with the fingerprints of their issues.                *)
FindingsOf(r) == {issues[f.issue].fingerprint : f \in {g \in findings : g.run = r}}

(* Run::last_successful: the reading of the newest successful run.         *)
LastSuccessful(s, analyzer, before) ==
  LET candidates == {i \in Ids : i < before /\ snapshots[i].subject = s /\
        \E r \in RunsOf(ShownWith(i)) :
          runs[r].analyzer = analyzer /\ runs[r].status = "succeeded"}
  IN IF candidates = {} THEN 0 ELSE ShownWith(Max(candidates))

-----------------------------------------------------------------------------
(* Writing.                                                                *)

(* resolve_issue, for every finding of a run in turn.                      *)
(* Faulty variant: an issue found again is left as it was.                 *)
UntouchedIssues(at, found) ==
  LET known == {issues[k].fingerprint : k \in DOMAIN issues}
      new == SetToSeq(found \ known)
  IN issues \o [k \in DOMAIN new |-> [fingerprint |-> new[k], first |-> at, last |-> at]]
ResolvedIssues(at, found) ==
  LET known == {issues[k].fingerprint : k \in DOMAIN issues}
      new == SetToSeq(found \ known)
  IN [k \in DOMAIN issues |->
        IF issues[k].fingerprint \in found THEN [issues[k] EXCEPT !.last = at] ELSE issues[k]]
     \o [k \in DOMAIN new |-> [fingerprint |-> new[k], first |-> at, last |-> at]]

(* Run::record: the run, its issues and its findings in one transaction.   *)
(* Faulty variant: findings are written after the run is committed.        *)
RecordAndStop(at, analyzer, status, against, found) ==
  /\ runs' = Append(runs, [snapshot |-> at, analyzer |-> analyzer, status |-> status,
                           against |-> against, found |-> found])
  /\ UNCHANGED <<issues, findings>>
Record(at, analyzer, status, against, found) ==
  /\ runs' = Append(runs, [snapshot |-> at, analyzer |-> analyzer, status |-> status,
                           against |-> against, found |-> found])
  /\ issues' = ResolvedIssues(at, found)
  /\ findings' = findings \cup
       {[run |-> Len(runs) + 1, issue |-> k] :
          k \in {j \in DOMAIN issues' : issues'[j].fingerprint \in found}}

(* Snapshot::record: a bare reading of the head is taken over.             *)
Recorded(s, h) ==
  LET bare == {i \in Of(s, h) : Bare(i)} IN IF bare = {} THEN Len(snapshots) + 1 ELSE Min(bare)
RecordReading(s, h) ==
  /\ Recorded(s, h) <= MaxSnapshots
  /\ snapshots' = IF Recorded(s, h) \in Ids THEN snapshots
                  ELSE Append(snapshots, [subject |-> s, head |-> h, analysis |-> 0])

(* Snapshot::observe: the newest reading of the head points at its         *)
(* analysis from now on, or the first one is recorded and linked after.    *)
Observe(s, h) ==
  /\ work = Rest
  /\ IF Of(s, h) = {}
     THEN /\ RecordReading(s, h)
          /\ work' = IF index[h] = 0 THEN Rest
                     ELSE [Rest EXCEPT !.at = "link", !.snapshot = Recorded(s, h),
                                       !.indexed = index[h]]
     ELSE LET i == Max(Of(s, h)) IN
          /\ snapshots' = [snapshots EXCEPT ![i].analysis = IF index[h] = i THEN 0 ELSE index[h]]
          /\ UNCHANGED work
  /\ UNCHANGED <<index, runs, findings, issues, reader, told>>

Link ==
  /\ work.at = "link"
  /\ snapshots' = [snapshots EXCEPT ![work.snapshot].analysis = work.indexed]
  /\ work' = Rest
  /\ UNCHANGED <<index, runs, findings, issues, reader, told>>

(* run_target_in_mirror: the reading, a run of each analyzer, the mark.    *)
Analyse(s, h) ==
  /\ work = Rest
  /\ RecordReading(s, h)
  /\ work' = [Rest EXCEPT !.at = "runs", !.snapshot = Recorded(s, h), !.left = Analyzers]
  /\ UNCHANGED <<index, runs, findings, issues, reader, told>>

(* evaluate: an analyzer fails, or finds what it finds; the one of the     *)
(* forge's checks may be skipped.                                          *)
Evaluation(analyzer) ==
  {[status |-> s, found |-> {}] :
     s \in IF analyzer = CI_CHECKS THEN {"failed", "skipped"} ELSE {"failed"}} \cup
  {[status |-> "succeeded", found |-> fs] :
     fs \in SUBSET {f \in Fingerprint : Analyzer(f) = analyzer}}

Evaluate ==
  /\ work.at = "runs" /\ work.left # <<>> /\ Len(runs) < MaxRuns
  /\ LET analyzer == work.left[1]
         s == snapshots[work.snapshot].subject
     IN \E e \in Evaluation(analyzer) :
          Record(work.snapshot, analyzer, e.status,
                 LastSuccessful(s, analyzer, work.snapshot), e.found)
  /\ work' = [work EXCEPT !.left = Tail(@)]
  /\ UNCHANGED <<snapshots, index, reader, told>>

(* Snapshot::mark_analysed, unless the reading points at another's.        *)
(* Faulty variant: it does not wait for the analyzers.                     *)
MarkEarly ==
  /\ work.at = "runs"
  /\ index' = IF snapshots[work.snapshot].analysis = 0
              THEN [index EXCEPT ![snapshots[work.snapshot].head] = work.snapshot] ELSE index
  /\ work' = Rest
  /\ UNCHANGED <<snapshots, runs, findings, issues, reader, told>>
MarkAnalysed ==
  /\ work.at = "runs" /\ work.left = <<>>
  /\ index' = IF snapshots[work.snapshot].analysis = 0
              THEN [index EXCEPT ![snapshots[work.snapshot].head] = work.snapshot] ELSE index
  /\ work' = Rest
  /\ UNCHANGED <<snapshots, runs, findings, issues, reader, told>>

Stop ==
  /\ work # Rest
  /\ work' = Rest
  /\ UNCHANGED <<tables, reader, told>>

(* record_audit: outside the lock, on a reading the audit has not seen.    *)
RecordAudit(i) ==
  /\ RunsOf(i) # {} /\ \A r \in RunsOf(i) : runs[r].analyzer # PACKAGE_AUDIT
  /\ Len(runs) < MaxRuns
  /\ \E fs \in SUBSET {f \in Fingerprint : Analyzer(f) = PACKAGE_AUDIT} :
       Record(i, PACKAGE_AUDIT, "succeeded", 0, fs)
  /\ UNCHANGED <<snapshots, index, work, reader, told>>

-----------------------------------------------------------------------------
(* Reading.  AnalysisApi::analyses asks for the newest readings of all or  *)
(* of one subject, and goes on from the last id it was told.               *)

Begin(latest, only, size) ==
  /\ reader.at \in {"idle", "end"} /\ reader.count < MaxListings
  /\ reader' = [NoReader EXCEPT !.at = "rows", !.latest = latest, !.only = only,
                !.since = Len(snapshots), !.size = size, !.count = reader.count + 1]
  /\ told' = <<>>
  /\ UNCHANGED <<tables, work>>

Selected ==
  {i \in Ids :
     /\ snapshots[i].subject \in reader.only
     /\ reader.before # 0 => i < reader.before
     /\ reader.latest => \A j \in Ids : snapshots[j].subject = snapshots[i].subject => j <= i}

(* ORDER BY n.id DESC.                                                     *)
Descending(ids) ==
  {rows \in [1 .. Cardinality(ids) -> ids] : \A j, k \in DOMAIN rows : j < k => rows[k] < rows[j]}

(* SnapshotAnalysis::page: one row more than a page tells whether there    *)
(* are others, and the last row of the page is where they begin.           *)
(* Faulty variant: the row beyond the page is where they begin.            *)
NextBeyond(rows) == IF Len(rows) > reader.size THEN rows[reader.size + 1] ELSE 0
NextBefore(rows) == IF Len(rows) > reader.size THEN rows[reader.size] ELSE 0
ReadRows ==
  /\ reader.at = "rows"
  /\ \E rows \in Descending(Selected) :
     reader' = [reader EXCEPT !.at = "runs", !.next = NextBefore(rows),
                              !.page = SubSeq(rows, 1, Min({reader.size, Len(rows)}))]
  /\ UNCHANGED <<tables, work, told>>

(* SnapshotAnalysis::for_snapshot: the one row asked for.                  *)
ReadRow(i) ==
  /\ reader.at \in {"idle", "end"} /\ reader.count < MaxListings
  /\ reader' = [NoReader EXCEPT !.at = "runs", !.page = <<i>>, !.only = {},
                !.count = reader.count + 1]
  /\ told' = <<>>
  /\ UNCHANGED <<tables, work>>

(* The runs each row is shown with.                                        *)
ReadRuns ==
  /\ reader.at = "runs"
  /\ reader' = [reader EXCEPT !.at = "findings",
       !.joined = {p \in ToSet(reader.page) \X Runs : runs[p[2]].snapshot = ShownWith(p[1])}]
  /\ UNCHANGED <<tables, work, told>>

(* load_page keeps one place for every run, and the last row joined with   *)
(* it, the one of the largest id, has it.                                  *)
Place(r) == Max({p[1] : p \in {q \in reader.joined : q[2] = r}})
Shown(i) ==
  [id |-> i,
   runs |-> {[run |-> p[2], placed |-> Place(p[2]) = i,
              found |-> IF Place(p[2]) = i THEN FindingsOf(p[2]) ELSE {}]
             : p \in {q \in reader.joined : q[1] = i}}]

ReadFindings ==
  /\ reader.at = "findings"
  /\ told' = told \o [k \in DOMAIN reader.page |-> Shown(reader.page[k])]
  /\ reader' = [reader EXCEPT !.at = IF reader.next = 0 THEN "end" ELSE "rows",
                              !.before = reader.next, !.joined = {}, !.page = <<>>]
  /\ UNCHANGED <<tables, work>>

Read ==
  \/ \E latest \in BOOLEAN, only \in {Subject} \cup {{s} : s \in Subject}, size \in Pages :
       Begin(latest, only, size)
  \/ \E i \in Ids : ReadRow(i)
  \/ ReadRows \/ ReadRuns \/ ReadFindings

-----------------------------------------------------------------------------
Next ==
  \/ \E s \in Subject, h \in CommitSha : Observe(s, h) \/ Analyse(s, h)
  \/ Link \/ Evaluate \/ MarkAnalysed \/ Stop
  \/ \E i \in Ids : RecordAudit(i)
  \/ Read

Spec == Init /\ [][Next]_vars

-----------------------------------------------------------------------------
(* The tables' rows are what their columns allow.                          *)
TypeOK ==
  /\ snapshots \in Seq(Snapshot) /\ Len(snapshots) <= MaxSnapshots
  /\ index \in [CommitSha -> 0 .. Len(snapshots)]
  /\ runs \in Seq(Run) /\ Len(runs) <= MaxRuns
  /\ issues \in Seq(Issue) /\ findings \subseteq Finding
  /\ work.at \in {"rest", "link", "runs"} /\ work.snapshot \in 0 .. Len(snapshots)
  /\ reader.at \in {"idle", "rows", "runs", "findings", "end"}
  /\ ToSet(reader.page) \subseteq Ids

(* "`before` uses the last snapshot ID returned by `next_before` to read   *)
(* older entries" (docs/architecture.md:92): whoever pages to the end is   *)
(* told of every reading there was at the start, and of none twice, though *)
(* readings are added between the pages; of the newest ones alone, of      *)
(* every subject that was not read again meanwhile.                        *)
PagingSkipsNothing ==
  /\ \A k \in 2 .. Len(told) : told[k].id < told[k - 1].id
  /\ reader.at = "end" =>
       \A i \in 1 .. reader.since :
         /\ snapshots[i].subject \in reader.only
         /\ reader.latest => \A j \in Ids : snapshots[j].subject = snapshots[i].subject => j <= i
         => \E k \in DOMAIN told : told[k].id = i

(* "Findings, signals and the run's own status commit together, so a       *)
(* crashed worker leaves no half-recorded run" (analysis/mod.rs:56): a run *)
(* that is read, while others are written and whatever stops, is read with *)
(* all its analyzer found, save where a page has it at another row.        *)
RunsShownWhole ==
  \A k \in DOMAIN told : \A r \in told[k].runs : r.placed => r.found = runs[r.run].found

(* "The persistent identity behind many findings" (finding/issue.rs:6), in *)
(* whichever order analyses, re-scans and audits find it: one issue for a  *)
(* fingerprint, first and last seen where it was; and a run is compared    *)
(* only with a run of its analyzer that succeeded before                   *)
(* (docs/data-model.md:86).                                                *)
IssuesFollowFindings ==
  /\ TypeOK
  /\ \A j, k \in DOMAIN issues : issues[j].fingerprint = issues[k].fingerprint => j = k
  /\ \A k \in DOMAIN issues :
       LET seen == {f.run : f \in {g \in findings : g.issue = k}} IN
       /\ seen # {}
       /\ issues[k].first = runs[Min(seen)].snapshot /\ issues[k].last = runs[Max(seen)].snapshot
  /\ \A r \in Runs : runs[r].against # 0 =>
       \E q \in 1 .. r - 1 : /\ runs[q].snapshot = runs[r].against
                             /\ runs[q].analyzer = runs[r].analyzer
                             /\ runs[q].status = "succeeded"
=============================================================================
