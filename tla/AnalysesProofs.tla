---------------------------- MODULE AnalysesProofs ----------------------------
(***************************************************************************)
(* Proofs that the invariants of Analyses, and that of the verdicts beside *)
(* them (Verdicts), hold for any number of subjects, commits, analyzers,   *)
(* fingerprints, readings, runs and pages; and, at the end, that the ids   *)
(* by which pages list readings keep within their fields and always        *)
(* increase, for every number of callers, nodes and sequences              *)
(* (IdGenerator).                                                          *)
(***************************************************************************)
EXTENDS Verdicts, IdGenerator, FiniteSetTheorems, WellFoundedInduction, SequenceTheorems, TLAPS

-----------------------------------------------------------------------------
(* The invariant.                                                          *)

(* What the project's lock's holder has in hand.                           *)
Work == [at : {"rest", "link", "runs"}, snapshot : Nat, indexed : Nat, left : Seq(ToSet(Analyzers))]
WorkTyped ==
  /\ work \in Work
  /\ work.at # "rest" => work.snapshot \in Ids
  /\ work.indexed \in 0 .. Len(snapshots)

(* What a reader holds, and has been told.                                 *)
Reader ==
  [at : {"idle", "rows", "runs", "findings", "end"}, latest : BOOLEAN, only : SUBSET Subject,
   since : Nat, size : Nat \ {0}, before : Nat, next : Nat, page : Seq(1 .. MaxSnapshots),
   joined : SUBSET (Nat \X Nat), count : Nat]
Told ==
  [id : 1 .. MaxSnapshots, runs : SUBSET [run : Nat, placed : BOOLEAN, found : SUBSET Fingerprint]]
ReaderTyped ==
  /\ reader \in Reader /\ told \in Seq(Told)
  /\ reader.since <= Len(snapshots)
  /\ reader.joined \subseteq Ids \X Runs
  /\ \A k \in DOMAIN told : \A r \in told[k].runs : r.run \in Runs

(* Findings are of runs and issues there are, and all a run found.         *)
FindingsPlaced == \A f \in findings : f.run \in Runs /\ f.issue \in DOMAIN issues
FindingsComplete == \A r \in Runs : FindingsOf(r) = runs[r].found

(* Issues and baselines, as IssuesFollowFindings has them.                 *)
IssuesApart ==
  \A j, k \in DOMAIN issues : issues[j].fingerprint = issues[k].fingerprint => j = k
Seen(k) == {f.run : f \in {g \in findings : g.issue = k}}
IssuesSeen ==
  \A k \in DOMAIN issues :
    /\ Seen(k) # {}
    /\ issues[k].first = runs[Min(Seen(k))].snapshot /\ issues[k].last = runs[Max(Seen(k))].snapshot
Before(r, against, analyzer) ==
  \E q \in 1 .. r - 1 : /\ runs[q].snapshot = against
                        /\ runs[q].analyzer = analyzer
                        /\ runs[q].status = "succeeded"
BaselinesBefore ==
  \A r \in Runs : runs[r].against # 0 => Before(r, runs[r].against, runs[r].analyzer)
RunsStored ==
  /\ FindingsPlaced /\ FindingsComplete
  /\ IssuesApart /\ IssuesSeen /\ BaselinesBefore

(* A listing: everything asked for was told, is on the page, or is still   *)
(* ahead, and nothing is in two of these places.                           *)
Asked(i) ==
  /\ snapshots[i].subject \in reader.only
  /\ reader.latest => \A j \in Ids : snapshots[j].subject = snapshots[i].subject => j <= i
Tells(i) == \E k \in DOMAIN told : told[k].id = i
Ahead(i) ==
  \/ reader.at = "rows" /\ (reader.before # 0 => i < reader.before)
  \/ reader.at \in {"runs", "findings"} /\ reader.next # 0 /\ i < reader.next
Descends ==
  /\ \A j, k \in DOMAIN told : j < k => told[k].id < told[j].id
  /\ \A j, k \in DOMAIN reader.page : j < k => reader.page[k] < reader.page[j]
  /\ \A j \in DOMAIN told, k \in DOMAIN reader.page : reader.page[k] < told[j].id
  /\ \A j \in DOMAIN told, i \in 1 .. MaxSnapshots : Ahead(i) => i < told[j].id
  /\ \A j \in DOMAIN reader.page, i \in 1 .. MaxSnapshots : Ahead(i) => i < reader.page[j]
Covers ==
  \A i \in 1 .. reader.since :
    Asked(i) => Tells(i) \/ i \in ToSet(reader.page) \/ Ahead(i)
Listing ==
  /\ Descends /\ Covers
  /\ reader.at \notin {"runs", "findings"} => reader.page = <<>>
  /\ reader.at = "idle" => reader.since = 0

IInv ==
  /\ TypeOK /\ WorkTyped /\ ReaderTyped
  /\ RunsStored /\ RunsShownWhole /\ Listing

-----------------------------------------------------------------------------
(* Least and greatest ids.                                                 *)

(* Some number is the least of those there are.                            *)
LEMMA SmallestOf ==
  ASSUME NEW S \in SUBSET Nat, S # {}
  PROVE  \E x \in S : \A y \in S : x <= y
  <1>1. PICK x \in S : \A y \in S : <<y, x>> \notin OpToRel(<, Nat)
    BY NatLessThanWellFounded, WFMin
  <1>2. \A y \in S : ~ (y < x)
    BY <1>1 DEF OpToRel
  <1> QED  BY <1>2

(* Among ids, which are bounded, one is the largest.                       *)
LEMMA LargestOf ==
  ASSUME NEW n \in Nat, NEW S \in SUBSET (1 .. n), S # {}
  PROVE  \E x \in S : \A y \in S : y <= x
  <1> DEFINE Mirrored == {d \in Nat : n - d \in S}
  <1>1. PICK s \in S : TRUE
    OBVIOUS
  <1>2. n - s \in Mirrored
    OBVIOUS
  <1>3. PICK d \in Mirrored : \A e \in Mirrored : d <= e
    <2>1. Mirrored \in SUBSET Nat /\ Mirrored # {}
      BY <1>2
    <2> HIDE DEF Mirrored
    <2> QED  BY <2>1, SmallestOf
  <1>4. n - d \in S /\ d \in Nat
    BY <1>3
  <1>5. ASSUME NEW y \in S  PROVE y <= n - d
    <2>1. n - y \in Mirrored /\ y \in 1 .. n
      OBVIOUS
    <2>2. d <= n - y
      BY <1>3, <2>1
    <2> QED  BY <1>4, <2>1, <2>2
  <1> QED  BY <1>4, <1>5

(* Min finds the least.                                                    *)
LEMMA MinOf ==
  ASSUME NEW S \in SUBSET Nat, S # {}
  PROVE  Min(S) \in S /\ \A y \in S : Min(S) <= y
  BY SmallestOf, Zenon DEF Min

(* Max finds the largest.                                                  *)
LEMMA MaxOf ==
  ASSUME NEW n \in Nat, NEW S \in SUBSET (1 .. n), S # {}
  PROVE  Max(S) \in S /\ \A y \in S : y <= Max(S)
  <1>1. \E x \in S : \A y \in S : x >= y
    <2>1. PICK x \in S : \A y \in S : y <= x
      BY LargestOf
    <2> QED  BY <2>1
  <1>2. Max(S) \in S /\ \A y \in S : Max(S) >= y
    BY <1>1, Zenon DEF Max
  <1> QED  BY <1>2

(* A larger one takes its place, and leaves the least as it was.           *)
LEMMA ExtremesOfMore ==
  ASSUME NEW n \in Nat, NEW S \in SUBSET (1 .. n)
  PROVE  /\ Max(S \cup {n + 1}) = n + 1
         /\ S # {} => Min(S \cup {n + 1}) = Min(S)
         /\ S = {} => Min(S \cup {n + 1}) = n + 1
  <1> DEFINE T == S \cup {n + 1}
  <1>1. T \in SUBSET (1 .. n + 1) /\ T # {} /\ T \in SUBSET Nat /\ n + 1 \in Nat /\ n + 1 \in T
    OBVIOUS
  <1>2. Max(T) \in T /\ \A y \in T : y <= Max(T)
    <2> HIDE DEF T
    <2> QED  BY <1>1, MaxOf
  <1>3. Min(T) \in T /\ \A y \in T : Min(T) <= y
    <2> HIDE DEF T
    <2> QED  BY <1>1, MinOf
  <1>4. S # {} => Min(S) \in S /\ \A y \in S : Min(S) <= y
    <2>1. S \in SUBSET Nat
      OBVIOUS
    <2> QED  BY <2>1, MinOf
  <1>5. PICK greatest, least, other :
          greatest = Max(T) /\ least = Min(T) /\ other = Min(S)
    OBVIOUS
  <1>6. greatest = n + 1
    <2>1. greatest \in T /\ n + 1 <= greatest
      BY <1>1, <1>2, <1>5
    <2> QED  BY <2>1
  <1>7. S # {} => least = other
    <2> SUFFICES ASSUME S # {}  PROVE least = other
      OBVIOUS
    <2>1. least \in T /\ other \in S /\ (\A y \in T : least <= y) /\ \A y \in S : other <= y
      BY <1>3, <1>4, <1>5
    <2>2. least <= other /\ other <= n
      BY <2>1
    <2>3. least \in S
      BY <2>1, <2>2
    <2> QED  BY <2>1, <2>2, <2>3
  <1>8. S = {} => least = n + 1
    BY <1>3, <1>5
  <1> QED  BY <1>5, <1>6, <1>7, <1>8

-----------------------------------------------------------------------------
(* The issues of a run.                                                    *)

(* SetToSeq lists a finite set, every element once.                        *)
LEMMA AnyOrder ==
  ASSUME NEW S, IsFiniteSet(S)
  PROVE  /\ SetToSeq(S) \in Seq(S)
         /\ \A j, k \in DOMAIN SetToSeq(S) : SetToSeq(S)[j] = SetToSeq(S)[k] => j = k
         /\ \A x \in S : \E k \in DOMAIN SetToSeq(S) : SetToSeq(S)[k] = x
  <1>1. PICK n : n = Cardinality(S)
    OBVIOUS
  <1>2. n \in Nat /\ ExistsBijection(1 .. n, S)
    BY <1>1, FS_CardinalityType
  <1>3. PICK f : f \in Bijection(1 .. n, S)
    BY <1>2 DEF ExistsBijection
  <1>4. f \in [1 .. n -> S] /\ IsInjective(f)
    BY <1>3 DEF Bijection, Injection
  <1>5. PICK q : q = SetToSeq(S)
    OBVIOUS
  <1>6. q \in [1 .. n -> S] /\ IsInjective(q)
    BY <1>1, <1>4, <1>5, Zenon DEF SetToSeq
  <1>7. q \in Injection(1 .. n, S)
    BY <1>6 DEF Injection
  <1>8. Cardinality(1 .. n) = n
    BY <1>2, FS_Interval
  <1>9. q \in Surjection(1 .. n, S)
    BY <1>1, <1>7, <1>8, FS_Injection
  <1>10. q \in Seq(S) /\ DOMAIN q = 1 .. n
    BY <1>2, <1>6
  <1> QED  BY <1>5, <1>6, <1>9, <1>10 DEF Surjection, IsInjective

(* There is an issue for a fingerprint.                                    *)
Knows(is, f) == \E k \in DOMAIN is : is[k].fingerprint = f

(* What is found is found again or made an issue, and issues stay apart.   *)
LEMMA Resolution ==
  ASSUME issues \in Seq(Issue), NEW at \in 1 .. MaxSnapshots, NEW found \in SUBSET Fingerprint,
         NEW is, is = ResolvedIssues(at, found)
  PROVE  /\ is \in Seq(Issue) /\ Len(issues) <= Len(is)
         /\ \A k \in DOMAIN issues :
              /\ is[k].fingerprint = issues[k].fingerprint /\ is[k].first = issues[k].first
              /\ is[k].last = IF issues[k].fingerprint \in found THEN at ELSE issues[k].last
         /\ \A k \in DOMAIN is \ DOMAIN issues :
              is[k].fingerprint \in found /\ is[k].first = at /\ is[k].last = at
         /\ \A f \in found : Knows(is, f)
         /\ IssuesApart => \A j, k \in DOMAIN is : is[j].fingerprint = is[k].fingerprint => j = k
  <1>1. PICK known : known = {issues[k].fingerprint : k \in DOMAIN issues}
    OBVIOUS
  <1>2. PICK new : new = SetToSeq(found \ known)
    OBVIOUS
  <1>3. /\ new \in Seq(found \ known)
        /\ \A j, k \in DOMAIN new : new[j] = new[k] => j = k
        /\ \A x \in found \ known : \E k \in DOMAIN new : new[k] = x
    <2>1. IsFiniteSet(found \ known)
      BY AnalysesAssumption, FS_Subset
    <2> QED  BY <1>2, <2>1, AnyOrder
  <1>4. PICK old : old = [k \in DOMAIN issues |->
          IF issues[k].fingerprint \in found THEN [issues[k] EXCEPT !.last = at] ELSE issues[k]]
    OBVIOUS
  <1>5. PICK added :
          added = [k \in DOMAIN new |-> [fingerprint |-> new[k], first |-> at, last |-> at]]
    OBVIOUS
  <1>6. is = old \o added
    BY <1>1, <1>2, <1>4, <1>5 DEF ResolvedIssues
  <1>7. DOMAIN issues = 1 .. Len(issues) /\ Len(issues) \in Nat
    OBVIOUS
  <1>8. \A k \in DOMAIN issues :
          /\ old[k] \in Issue
          /\ old[k].fingerprint = issues[k].fingerprint /\ old[k].first = issues[k].first
          /\ old[k].last = IF issues[k].fingerprint \in found THEN at ELSE issues[k].last
    <2> SUFFICES ASSUME NEW k \in DOMAIN issues
                 PROVE  /\ old[k] \in Issue
                        /\ old[k].fingerprint = issues[k].fingerprint
                        /\ old[k].first = issues[k].first
                        /\ old[k].last =
                             IF issues[k].fingerprint \in found THEN at ELSE issues[k].last
      OBVIOUS
    <2>1. issues[k] \in Issue
      BY <1>7
    <2>2. old[k] = IF issues[k].fingerprint \in found THEN [issues[k] EXCEPT !.last = at]
                   ELSE issues[k]
      BY <1>4
    <2>3. PICK x : x = issues[k]
      OBVIOUS
    <2>4. PICK y : y = [x EXCEPT !.last = at]
      OBVIOUS
    <2>5. y \in Issue /\ y.fingerprint = x.fingerprint /\ y.first = x.first /\ y.last = at
      BY <2>1, <2>3, <2>4 DEF Issue
    <2> QED  BY <2>1, <2>2, <2>3, <2>4, <2>5
  <1>9. old \in Seq(Issue) /\ Len(old) = Len(issues) /\ DOMAIN old = DOMAIN issues
    <2>1. DOMAIN old = 1 .. Len(issues)
      BY <1>4, <1>7
    <2>2. old \in [1 .. Len(issues) -> Issue]
      BY <1>4, <1>7, <1>8
    <2> QED  BY <1>7, <2>1, <2>2
  <1>10. DOMAIN new = 1 .. Len(new) /\ Len(new) \in Nat
    BY <1>3
  <1>11. \A k \in DOMAIN new :
           /\ added[k] \in Issue /\ new[k] \in found \ known
           /\ added[k].fingerprint = new[k] /\ added[k].first = at /\ added[k].last = at
    BY <1>3, <1>5, <1>10 DEF Issue
  <1>12. added \in Seq(Issue) /\ Len(added) = Len(new) /\ DOMAIN added = DOMAIN new
    <2>1. DOMAIN added = 1 .. Len(new)
      BY <1>5, <1>10
    <2>2. added \in [1 .. Len(new) -> Issue]
      BY <1>5, <1>10, <1>11
    <2> QED  BY <1>10, <2>1, <2>2
  <1>13. /\ is \in Seq(Issue) /\ Len(is) = Len(issues) + Len(new)
         /\ \A k \in 1 .. Len(is) :
              is[k] = IF k <= Len(issues) THEN old[k] ELSE added[k - Len(issues)]
    <2>1. PICK o, m : o = Len(issues) /\ m = Len(new)
      OBVIOUS
    <2>2. old \in Seq(Issue) /\ added \in Seq(Issue) /\ Len(old) = o /\ Len(added) = m
      BY <1>9, <1>12, <2>1
    <2>3. /\ is \in Seq(Issue) /\ Len(is) = Len(old) + Len(added)
          /\ \A k \in 1 .. Len(old) + Len(added) :
               is[k] = IF k <= Len(old) THEN old[k] ELSE added[k - Len(old)]
      <3> HIDE <1>4, <1>5
      <3> QED  BY <1>6, <2>2, ConcatProperties, ZenonT(40)
    <2> QED  BY <2>1, <2>2, <2>3, Zenon
  <1> HIDE <1>4, <1>5, <1>6
  <1>14. DOMAIN is = 1 .. Len(is)
    BY <1>13
  <1>15. \A k \in DOMAIN issues : k \in DOMAIN is /\ is[k] = old[k]
    BY <1>7, <1>10, <1>13, <1>14
  <1>16. \A k \in DOMAIN new : Len(issues) + k \in DOMAIN is /\ is[Len(issues) + k] = added[k]
    BY <1>7, <1>10, <1>13, <1>14
  <1>17. ASSUME NEW k \in DOMAIN is, k \notin DOMAIN issues
         PROVE  /\ k - Len(issues) \in DOMAIN new /\ is[k] = added[k - Len(issues)]
    BY <1>7, <1>10, <1>13, <1>14, <1>17
  <1>18. \A f \in found : Knows(is, f)
    <2> SUFFICES ASSUME NEW f \in found  PROVE Knows(is, f)
      OBVIOUS
    <2>1. CASE f \in known
      <3>1. PICK k \in DOMAIN issues : issues[k].fingerprint = f
        BY <1>1, <2>1
      <3> QED  BY <1>8, <1>15, <3>1 DEF Knows
    <2>2. CASE f \notin known
      <3>1. PICK k \in DOMAIN new : new[k] = f
        BY <1>3, <2>2
      <3> QED  BY <1>11, <1>16, <3>1 DEF Knows
    <2> QED  BY <2>1, <2>2
  <1>19. ASSUME IssuesApart, NEW j \in DOMAIN is, NEW k \in DOMAIN is,
                is[j].fingerprint = is[k].fingerprint
         PROVE  j = k
    <2>1. CASE j \in DOMAIN issues /\ k \in DOMAIN issues
      BY <1>8, <1>15, <1>19, <2>1 DEF IssuesApart
    <2>2. ASSUME NEW x \in DOMAIN issues, NEW y \in DOMAIN is \ DOMAIN issues
          PROVE  is[x].fingerprint # is[y].fingerprint
      <3>1. is[x].fingerprint \in known
        BY <1>1, <1>8, <1>15
      <3>2. is[y].fingerprint \notin known
        BY <1>11, <1>17
      <3> QED  BY <3>1, <3>2
    <2>3. CASE j \notin DOMAIN issues /\ k \notin DOMAIN issues
      <3>1. /\ j - Len(issues) \in DOMAIN new /\ k - Len(issues) \in DOMAIN new
            /\ new[j - Len(issues)] = new[k - Len(issues)]
        BY <1>11, <1>17, <1>19, <2>3
      <3>2. j - Len(issues) = k - Len(issues)
        BY <1>3, <3>1
      <3> QED  BY <1>7, <1>13, <1>14, <3>2
    <2> QED  BY <1>19, <2>1, <2>2, <2>3
  <1>20. \A k \in DOMAIN is \ DOMAIN issues :
           is[k].fingerprint \in found /\ is[k].first = at /\ is[k].last = at
    BY <1>11, <1>17
  <1>21. Len(issues) <= Len(is)
    BY <1>7, <1>10, <1>13
  <1> QED  BY <1>8, <1>13, <1>15, <1>18, <1>19, <1>20, <1>21

-----------------------------------------------------------------------------
(* A run is recorded.                                                      *)

(* What it adds: itself, its issues and its findings.                      *)
NewRun(R) == R = Len(runs) + 1 /\ Len(runs') = R /\ \A r \in Runs : runs'[r] = runs[r]
NewIssues(at, found) ==
  /\ \A k \in DOMAIN issues :
       /\ issues'[k].fingerprint = issues[k].fingerprint /\ issues'[k].first = issues[k].first
       /\ issues'[k].last = IF issues[k].fingerprint \in found THEN at ELSE issues[k].last
  /\ \A k \in DOMAIN issues' \ DOMAIN issues :
       issues'[k].fingerprint \in found /\ issues'[k].first = at /\ issues'[k].last = at
  /\ \A f \in found : Knows(issues', f)
NewFindings(R, found) ==
  /\ \A g \in findings : g \in findings' /\ g.run # R
  /\ \A g \in findings' \ findings :
       g.run = R /\ g.issue \in DOMAIN issues' /\ issues'[g.issue].fingerprint \in found
  /\ \A k \in DOMAIN issues' : issues'[k].fingerprint \in found =>
       \E g \in findings' : g.run = R /\ g.issue = k

(* The run comes after those there are.                                    *)
LEMMA RunRecorded ==
  ASSUME runs \in Seq(Run), Len(runs) < MaxRuns,
         NEW at \in 1 .. MaxSnapshots, NEW analyzer \in ToSet(Analyzers) \cup {PACKAGE_AUDIT},
         NEW status \in Status, NEW against \in 0 .. MaxSnapshots, NEW found \in SUBSET Fingerprint,
         Record(at, analyzer, status, against, found)
  PROVE  /\ runs' \in Seq(Run) /\ Len(runs') = Len(runs) + 1 /\ Len(runs') <= MaxRuns
         /\ \A r \in Runs : runs'[r] = runs[r]
         /\ runs'[Len(runs) + 1].snapshot = at /\ runs'[Len(runs) + 1].analyzer = analyzer
         /\ runs'[Len(runs) + 1].status = status /\ runs'[Len(runs) + 1].against = against
         /\ runs'[Len(runs) + 1].found = found
  <1>1. PICK run : run = [snapshot |-> at, analyzer |-> analyzer, status |-> status,
                          against |-> against, found |-> found]
    OBVIOUS
  <1>2. /\ run \in Run /\ run.snapshot = at /\ run.analyzer = analyzer
        /\ run.status = status /\ run.against = against /\ run.found = found
    BY <1>1 DEF Run
  <1>3. runs' = Append(runs, run)
    BY <1>1 DEF Record
  <1> HIDE <1>1
  <1>4. Len(runs) \in Nat
    OBVIOUS
  <1>5. /\ runs' \in Seq(Run) /\ Len(runs') = Len(runs) + 1
        /\ \A r \in 1 .. Len(runs) : runs'[r] = runs[r]
        /\ runs'[Len(runs) + 1] = run
    BY <1>2, <1>3, AppendProperties
  <1> QED  BY <1>2, <1>4, <1>5, AnalysesAssumption DEF Runs

(* Its findings are added to those of other runs.                          *)
LEMMA FindingsAdded ==
  ASSUME TypeOK, FindingsPlaced, Len(runs) < MaxRuns, NEW R, R = Len(runs) + 1,
         NEW at, NEW analyzer, NEW status, NEW against, NEW found,
         Record(at, analyzer, status, against, found),
         issues' \in Seq(Issue), Len(issues) <= Len(issues'), Len(runs') = R
  PROVE  findings' \subseteq Finding /\ FindingsPlaced' /\ NewFindings(R, found)
  <1>1. /\ Len(runs) \in Nat /\ R \in 1 .. MaxRuns /\ Runs = 1 .. Len(runs)
        /\ DOMAIN issues = 1 .. Len(issues) /\ DOMAIN issues' = 1 .. Len(issues')
        /\ Len(issues) \in Nat /\ Len(issues') \in Nat
    BY AnalysesAssumption DEF TypeOK, Runs
  <1>2. PICK at_issue : at_issue = {j \in DOMAIN issues' : issues'[j].fingerprint \in found}
    OBVIOUS
  <1>3. findings' = findings \cup {[run |-> R, issue |-> k] : k \in at_issue}
    BY <1>2 DEF Record
  <1>4. \A k \in at_issue : [run |-> R, issue |-> k] \in findings'
    BY <1>3
  <1>5. ASSUME NEW g \in findings', g \notin findings
        PROVE  g \in Finding /\ g.run = R /\ g.issue \in at_issue
    <2>1. PICK k \in at_issue : g = [run |-> R, issue |-> k]
      BY <1>3, <1>5
    <2>2. k \in Nat
      BY <1>1, <1>2
    <2> QED  BY <1>1, <2>1, <2>2 DEF Finding
  <1>6. findings' \subseteq Finding
    BY <1>5 DEF TypeOK
  <1>7. ASSUME NEW g \in findings
        PROVE  g \in findings' /\ g.run # R /\ g.run \in Runs /\ g.issue \in DOMAIN issues
    <2>1. g.run \in Runs /\ g.issue \in DOMAIN issues
      BY DEF FindingsPlaced
    <2> QED  BY <1>1, <1>3, <2>1
  <1>8. FindingsPlaced'
    <2> SUFFICES ASSUME NEW g \in findings'  PROVE g.run \in Runs' /\ g.issue \in DOMAIN issues'
      BY DEF FindingsPlaced
    <2>1. Runs' = 1 .. R
      BY DEF Runs
    <2> QED  BY <1>1, <1>2, <1>5, <1>7, <2>1
  <1>9. ASSUME NEW k \in DOMAIN issues', issues'[k].fingerprint \in found
        PROVE  \E g \in findings' : g.run = R /\ g.issue = k
    <2>1. PICK g : g = [run |-> R, issue |-> k]
      OBVIOUS
    <2> QED  BY <1>2, <1>4, <1>9, <2>1
  <1> QED  BY <1>2, <1>5, <1>6, <1>7, <1>8, <1>9 DEF NewFindings

(* A run is stored with all it found, and what was stored stays.           *)
LEMMA RunComplete ==
  ASSUME Len(runs) \in Nat, FindingsPlaced, FindingsComplete, NEW R, NEW at, NEW found,
         NewRun(R), NewIssues(at, found), NewFindings(R, found), runs'[R].found = found
  PROVE  FindingsComplete'
  <1>1. Runs' = Runs \cup {R}
    BY DEF NewRun, Runs
  <1>2. ASSUME NEW r \in Runs
        PROVE  FindingsOf(r)' = runs'[r].found
    <2>1. r # R /\ runs'[r] = runs[r]
      BY DEF NewRun, Runs
    <2>2. {g \in findings' : g.run = r} = {g \in findings : g.run = r}
      BY <2>1 DEF NewFindings
    <2>3. \A g \in {g \in findings : g.run = r} :
            issues'[g.issue].fingerprint = issues[g.issue].fingerprint
      BY DEF FindingsPlaced, NewIssues
    <2>4. FindingsOf(r)' = FindingsOf(r)
      BY <2>2, <2>3 DEF FindingsOf
    <2> QED  BY <2>1, <2>4 DEF FindingsComplete
  <1>3. FindingsOf(R)' = found
    <2>1. ASSUME NEW f \in found  PROVE f \in FindingsOf(R)'
      <3>1. PICK k \in DOMAIN issues' : issues'[k].fingerprint = f
        BY DEF NewIssues, Knows
      <3>2. PICK g \in findings' : g.run = R /\ g.issue = k
        BY <3>1 DEF NewFindings
      <3> QED  BY <3>1, <3>2 DEF FindingsOf
    <2>2. ASSUME NEW f \in FindingsOf(R)'  PROVE f \in found
      <3>1. PICK g \in findings' : g.run = R /\ f = issues'[g.issue].fingerprint
        BY <2>2 DEF FindingsOf
      <3> QED  BY <3>1 DEF NewFindings, FindingsPlaced, NewIssues
    <2> QED  BY <2>1, <2>2
  <1> QED  BY <1>1, <1>2, <1>3 DEF FindingsComplete

(* An issue is first and last seen where its first and last run is.        *)
LEMMA RunSeen ==
  ASSUME TypeOK, FindingsPlaced, IssuesSeen, NEW R, NEW at, NEW found,
         NewRun(R), NewIssues(at, found), NewFindings(R, found), runs'[R].snapshot = at
  PROVE  IssuesSeen'
  <1> SUFFICES ASSUME NEW k \in DOMAIN issues'
               PROVE  /\ Seen(k)' # {}
                      /\ issues'[k].first = runs'[Min(Seen(k)')].snapshot
                      /\ issues'[k].last = runs'[Max(Seen(k)')].snapshot
    BY DEF IssuesSeen
  <1>1. PICK S, T : S = Seen(k) /\ T = Seen(k)'
    OBVIOUS
  <1>2. Len(runs) \in Nat /\ Runs = 1 .. Len(runs)
    BY DEF TypeOK, Runs
  <1>3. S \in SUBSET Runs
    BY <1>1 DEF Seen, FindingsPlaced
  <1>4. k \notin DOMAIN issues => S = {}
    BY <1>1 DEF Seen, FindingsPlaced
  <1>5. T = IF issues'[k].fingerprint \in found THEN S \cup {R} ELSE S
    <2>1. ASSUME NEW x \in S  PROVE x \in T
      <3>1. PICK g \in findings : g.run = x /\ g.issue = k
        BY <1>1, <2>1 DEF Seen
      <3> QED  BY <1>1, <3>1 DEF Seen, NewFindings
    <2>2. ASSUME NEW x \in T, x \notin S  PROVE x = R /\ issues'[k].fingerprint \in found
      <3>1. PICK g \in findings' : g.run = x /\ g.issue = k
        BY <1>1, <2>2 DEF Seen
      <3>2. g \notin findings
        BY <1>1, <2>2, <3>1 DEF Seen
      <3> QED  BY <3>1, <3>2 DEF NewFindings
    <2>3. issues'[k].fingerprint \in found => R \in T
      BY <1>1 DEF Seen, NewFindings
    <2>4. issues'[k].fingerprint \in found => T = S \cup {R}
      BY <2>1, <2>2, <2>3
    <2>5. issues'[k].fingerprint \notin found => T = S
      BY <2>1, <2>2
    <2> QED  BY <2>4, <2>5
  <1>6. /\ Max(S \cup {R}) = R
        /\ S # {} => Min(S \cup {R}) = Min(S)
        /\ S = {} => Min(S \cup {R}) = R
    <2>1. PICK n \in Nat : n = Len(runs)
      BY <1>2
    <2>2. R = n + 1 /\ S \in SUBSET (1 .. n)
      BY <1>2, <1>3, <2>1 DEF NewRun
    <2>3. /\ Max(S \cup {n + 1}) = n + 1
          /\ S # {} => Min(S \cup {n + 1}) = Min(S)
          /\ S = {} => Min(S \cup {n + 1}) = n + 1
      BY <2>2, ExtremesOfMore
    <2> QED  BY <2>2, <2>3, Zenon
  <1>7. S # {} => Min(S) \in Runs /\ Max(S) \in Runs
    <2>1. S \in SUBSET Nat
      BY <1>2, <1>3
    <2> QED  BY <1>2, <1>3, <2>1, MinOf, MaxOf
  <1>8. CASE k \in DOMAIN issues
    <2>1. S # {} /\ issues[k].first = runs[Min(S)].snapshot /\ issues[k].last = runs[Max(S)].snapshot
      BY <1>1, <1>8 DEF IssuesSeen
    <2>2. issues[k].first = runs'[Min(S)].snapshot /\ issues[k].last = runs'[Max(S)].snapshot
      BY <1>7, <2>1 DEF NewRun
    <2>3. CASE issues'[k].fingerprint \in found
      <3>1. T = S \cup {R}
        BY <1>5, <2>3
      <3> QED  BY <1>1, <1>6, <1>8, <2>1, <2>2, <2>3, <3>1 DEF NewRun, NewIssues
    <2>4. CASE issues'[k].fingerprint \notin found
      <3>1. T = S
        BY <1>5, <2>4
      <3> QED  BY <1>1, <1>8, <2>1, <2>2, <2>4, <3>1 DEF NewRun, NewIssues
    <2> QED  BY <2>3, <2>4
  <1>9. CASE k \notin DOMAIN issues
    <2>1. S = {} /\ T = S \cup {R}
      BY <1>4, <1>5, <1>9 DEF NewIssues
    <2> QED  BY <1>1, <1>6, <1>9, <2>1 DEF NewRun, NewIssues
  <1> QED  BY <1>8, <1>9

(* What a run is compared with was there before it.                        *)
LEMMA RunCompared ==
  ASSUME TypeOK, BaselinesBefore, NEW R, NewRun(R),
         runs'[R].against # 0 =>
           \E q \in Runs : /\ runs[q].snapshot = runs'[R].against
                           /\ runs[q].analyzer = runs'[R].analyzer
                           /\ runs[q].status = "succeeded"
  PROVE  BaselinesBefore'
  <1>1. /\ Len(runs) \in Nat /\ Runs = 1 .. Len(runs) /\ Runs' = 1 .. R
        /\ R - 1 = Len(runs)
    BY DEF TypeOK, Runs, NewRun
  <1> SUFFICES ASSUME NEW r \in 1 .. R, runs'[r].against # 0
               PROVE  \E q \in 1 .. r - 1 : /\ runs'[q].snapshot = runs'[r].against
                                            /\ runs'[q].analyzer = runs'[r].analyzer
                                            /\ runs'[q].status = "succeeded"
    BY <1>1 DEF BaselinesBefore, Before
  <1>2. CASE r = R
    <2>1. PICK q \in Runs : /\ runs[q].snapshot = runs'[R].against
                            /\ runs[q].analyzer = runs'[R].analyzer
                            /\ runs[q].status = "succeeded"
      BY <1>2
    <2>2. q \in 1 .. r - 1 /\ runs'[q] = runs[q]
      BY <1>1, <1>2 DEF NewRun
    <2> QED  BY <1>2, <2>1, <2>2
  <1>3. CASE r # R
    <2>1. r \in Runs /\ runs'[r] = runs[r]
      BY <1>1, <1>3 DEF NewRun
    <2>2. PICK q \in 1 .. r - 1 : /\ runs[q].snapshot = runs[r].against
                                  /\ runs[q].analyzer = runs[r].analyzer
                                  /\ runs[q].status = "succeeded"
      BY <2>1 DEF BaselinesBefore, Before
    <2>3. q \in Runs
      BY <1>1, <2>1
    <2> QED  BY <2>1, <2>2, <2>3 DEF NewRun
  <1> QED  BY <1>2, <1>3

(* Told of a run, a reader was told what still is so of it.                *)
LEMMA ToldStays ==
  ASSUME ReaderTyped, RunsShownWhole, UNCHANGED told, \A r \in Runs : runs'[r] = runs[r]
  PROVE  RunsShownWhole'
  BY DEF ReaderTyped, RunsShownWhole

(* A run's baseline is a reading with an earlier success of its analyzer.  *)
LEMMA BaselineFound ==
  ASSUME TypeOK, NEW s, NEW analyzer, NEW before, NEW against,
         against = LastSuccessful(s, analyzer, before)
  PROVE  /\ against \in 0 .. MaxSnapshots
         /\ against # 0 => \E q \in Runs : /\ runs[q].snapshot = against
                                           /\ runs[q].analyzer = analyzer
                                           /\ runs[q].status = "succeeded"
  <1>1. PICK candidates :
          candidates = {i \in Ids : i < before /\ snapshots[i].subject = s /\
                          \E r \in RunsOf(ShownWith(i)) :
                            runs[r].analyzer = analyzer /\ runs[r].status = "succeeded"}
    OBVIOUS
  <1>2. against = IF candidates = {} THEN 0 ELSE ShownWith(Max(candidates))
    BY <1>1 DEF LastSuccessful
  <1>3. CASE candidates = {}
    BY <1>2, <1>3, AnalysesAssumption
  <1>4. CASE candidates # {}
    <2>1. PICK i : i = Max(candidates)
      OBVIOUS
    <2>2. Len(snapshots) \in Nat /\ candidates \in SUBSET (1 .. Len(snapshots))
      BY <1>1 DEF TypeOK, Ids
    <2>3. i \in candidates
      BY <1>4, <2>1, <2>2, MaxOf
    <2>4. i \in Ids
      BY <1>1, <2>3
    <2>5. PICK r \in RunsOf(ShownWith(i)) :
            runs[r].analyzer = analyzer /\ runs[r].status = "succeeded"
      BY <1>1, <2>3
    <2>6. against = ShownWith(i)
      BY <1>2, <1>4, <2>1
    <2>7. snapshots[i] \in Snapshot /\ i \in 1 .. MaxSnapshots
      BY <2>4, AnalysesAssumption DEF TypeOK, Ids
    <2>8. snapshots[i].analysis \in 0 .. MaxSnapshots
      BY <2>7 DEF Snapshot
    <2>9. ShownWith(i) \in 0 .. MaxSnapshots
      BY <2>7, <2>8 DEF ShownWith
    <2> QED  BY <2>5, <2>6, <2>9 DEF RunsOf
  <1> QED  BY <1>3, <1>4

(* Recording a run keeps what is stored of runs.                           *)
LEMMA RecordKeeps ==
  ASSUME TypeOK, RunsStored, Len(runs) < MaxRuns,
         NEW at \in Ids, NEW analyzer \in ToSet(Analyzers) \cup {PACKAGE_AUDIT},
         NEW status \in Status, NEW against \in 0 .. MaxSnapshots, NEW found \in SUBSET Fingerprint,
         Record(at, analyzer, status, against, found),
         against # 0 => \E q \in Runs : /\ runs[q].snapshot = against
                                        /\ runs[q].analyzer = analyzer
                                        /\ runs[q].status = "succeeded"
  PROVE  /\ RunsStored'
         /\ runs' \in Seq(Run) /\ Len(runs') <= MaxRuns
         /\ issues' \in Seq(Issue) /\ findings' \subseteq Finding
         /\ \A r \in Runs : r \in Runs' /\ runs'[r] = runs[r]
  <1>1. PICK R : R = Len(runs) + 1
    OBVIOUS
  <1>2. Len(runs) \in Nat /\ Runs = 1 .. Len(runs) /\ runs \in Seq(Run)
    BY DEF TypeOK, Runs
  <1>3. at \in 1 .. MaxSnapshots
    BY AnalysesAssumption DEF TypeOK, Ids
  <1>4. /\ runs' \in Seq(Run) /\ Len(runs') = R /\ Len(runs') <= MaxRuns
        /\ \A r \in Runs : runs'[r] = runs[r]
        /\ runs'[R].snapshot = at /\ runs'[R].analyzer = analyzer
        /\ runs'[R].against = against /\ runs'[R].found = found
    BY <1>1, <1>2, <1>3, RunRecorded
  <1>5. issues' = ResolvedIssues(at, found) /\ issues \in Seq(Issue)
    BY DEF Record, TypeOK
  <1>6. /\ issues' \in Seq(Issue) /\ Len(issues) <= Len(issues')
        /\ NewIssues(at, found) /\ IssuesApart'
    <2>1. PICK is : is = issues'
      OBVIOUS
    <2>2. IssuesApart
      BY DEF RunsStored
    <2>3. /\ is \in Seq(Issue) /\ Len(issues) <= Len(is)
          /\ \A k \in DOMAIN issues :
               /\ is[k].fingerprint = issues[k].fingerprint /\ is[k].first = issues[k].first
               /\ is[k].last = IF issues[k].fingerprint \in found THEN at ELSE issues[k].last
          /\ \A k \in DOMAIN is \ DOMAIN issues :
               is[k].fingerprint \in found /\ is[k].first = at /\ is[k].last = at
          /\ \A f \in found : Knows(is, f)
          /\ \A j, k \in DOMAIN is : is[j].fingerprint = is[k].fingerprint => j = k
      BY <1>3, <1>5, <2>1, <2>2, Resolution
    <2> QED  BY <2>1, <2>3 DEF IssuesApart, NewIssues
  <1>7. findings' \subseteq Finding /\ FindingsPlaced' /\ NewFindings(R, found)
    BY <1>1, <1>4, <1>6, FindingsAdded DEF RunsStored
  <1>8. NewRun(R)
    BY <1>1, <1>4 DEF NewRun
  <1>9. FindingsComplete' /\ IssuesSeen' /\ BaselinesBefore'
    BY <1>2, <1>4, <1>6, <1>7, <1>8, RunComplete, RunSeen, RunCompared DEF RunsStored
  <1>10. \A r \in Runs : r \in Runs'
    BY <1>1, <1>2, <1>4 DEF Runs
  <1> QED  BY <1>4, <1>6, <1>7, <1>9, <1>10 DEF RunsStored

-----------------------------------------------------------------------------
(* A page.                                                                 *)

(* The rows are all that was selected, the newest first.                   *)
LEMMA RowsListed ==
  ASSUME NEW n \in Nat, NEW ids \in SUBSET (1 .. n), NEW rows \in Descending(ids)
  PROVE  /\ rows \in Seq(ids)
         /\ \A j, k \in 1 .. Len(rows) : j < k => rows[k] < rows[j]
         /\ \A i \in ids : \E k \in 1 .. Len(rows) : rows[k] = i
  <1>1. PICK c : c = Cardinality(ids)
    OBVIOUS
  <1>2. IsFiniteSet(ids) /\ c \in Nat
    <2>1. IsFiniteSet(1 .. n)
      BY FS_Interval
    <2>2. IsFiniteSet(ids)
      BY <2>1, FS_Subset
    <2> QED  BY <1>1, <2>2, FS_CardinalityType
  <1>3. rows \in [1 .. c -> ids] /\ \A j, k \in 1 .. c : j < k => rows[k] < rows[j]
    BY <1>1 DEF Descending
  <1>4. rows \in Seq(ids) /\ Len(rows) = c
    BY <1>2, <1>3
  <1>5. rows \in Injection(1 .. c, ids)
    <2>1. ASSUME NEW j \in 1 .. c, NEW k \in 1 .. c, rows[j] = rows[k]
          PROVE  j = k
      <3>1. rows[j] \in 1 .. n /\ rows[k] \in 1 .. n
        BY <1>3
      <3> QED  BY <1>2, <1>3, <2>1, <3>1
    <2> QED  BY <1>3, <2>1 DEF Injection, IsInjective
  <1>6. Cardinality(1 .. c) = c
    BY <1>2, FS_Interval
  <1>7. rows \in Surjection(1 .. c, ids)
    BY <1>1, <1>2, <1>5, <1>6, FS_Injection
  <1> QED  BY <1>3, <1>4, <1>7 DEF Surjection

(* A page is the first rows, and leaves what is below its last one.        *)
PageRead(ids, rows, size, next, page) ==
  /\ page = SubSeq(rows, 1, Min({size, Len(rows)}))
  /\ next = IF Len(rows) > size THEN rows[size] ELSE 0
  /\ page \in Seq(ids) /\ next \in Nat
  /\ next # 0 => \E k \in DOMAIN page : next = page[k]
  /\ \A j, k \in DOMAIN page : j < k => page[k] < page[j]
  /\ \A j \in DOMAIN page, i \in Nat : next # 0 /\ i < next => i < page[j]
  /\ \A i \in ids : i \notin ToSet(page) => next # 0 /\ i < next

(* Some page is read, of whatever rows were selected.                      *)
LEMMA PageTaken ==
  ASSUME NEW n \in Nat, NEW ids \in SUBSET (1 .. n), NEW rows \in Descending(ids),
         NEW size \in Nat \ {0}
  PROVE  \E next, page : PageRead(ids, rows, size, next, page)
  <1>1. PICK l : l = Len(rows)
    OBVIOUS
  <1>2. /\ rows \in Seq(ids) /\ l \in Nat
        /\ \A j, k \in 1 .. l : j < k => rows[k] < rows[j]
        /\ \A i \in ids : \E k \in 1 .. l : rows[k] = i
    <2>1. /\ rows \in Seq(ids)
          /\ \A j, k \in 1 .. Len(rows) : j < k => rows[k] < rows[j]
          /\ \A i \in ids : \E k \in 1 .. Len(rows) : rows[k] = i
      BY RowsListed, ZenonT(40)
    <2>2. Len(rows) \in Nat
      BY <2>1
    <2>3. \A j, k \in 1 .. l : j < k => rows[k] < rows[j]
      BY <1>1, <2>1, Zenon
    <2>4. \A i \in ids : \E k \in 1 .. l : rows[k] = i
      BY <1>1, <2>1, Zenon
    <2> HIDE <1>1
    <2>5. l \in Nat
      BY <1>1, <2>2
    <2> QED  BY <2>1, <2>3, <2>4, <2>5
  <1>3. \A k \in 1 .. l : rows[k] \in ids /\ rows[k] \in 1 .. n
    <2>1. \A k \in 1 .. l : rows[k] \in ids
      BY <1>1, <1>2, ElementOfSeq
    <2> QED  BY <2>1, Zenon
  <1>4. PICK m : m = Min({size, l})
    OBVIOUS
  <1>5. m = (IF l > size THEN size ELSE l) /\ m \in Nat /\ m <= l
    <2>1. {size, l} \in SUBSET Nat /\ {size, l} # {}
      BY <1>2
    <2>2. m \in {size, l} /\ \A y \in {size, l} : m <= y
      BY <1>4, <2>1, MinOf
    <2> QED  BY <1>2, <2>2
  <1>6. PICK page : page = SubSeq(rows, 1, m)
    OBVIOUS
  <1>7. page \in Seq(ids) /\ DOMAIN page = 1 .. m /\ \A k \in 1 .. m : page[k] = rows[k]
    <2>1. /\ SubSeq(rows, 1, m) \in Seq(ids)
          /\ Len(SubSeq(rows, 1, m)) = IF 1 <= m THEN m - 1 + 1 ELSE 0
          /\ \A k \in 1 .. m - 1 + 1 : SubSeq(rows, 1, m)[k] = rows[1 + k - 1]
      <3>1. 1 \in Int /\ m \in Int /\ \A k \in 1 .. m : rows[k] \in ids
        <4>1. ASSUME NEW k \in 1 .. m  PROVE rows[k] \in ids
          <5>1. k \in 1 .. l
            BY <1>2, <1>5
          <5> QED  BY <1>3, <5>1
        <4> QED  BY <1>5, <4>1
      <3> HIDE <1>1, <1>4, <1>6
      <3> QED  BY <3>1, SubSeqProperties
    <2>2. /\ page \in Seq(ids)
          /\ Len(page) = IF 1 <= m THEN m - 1 + 1 ELSE 0
          /\ \A k \in 1 .. m - 1 + 1 : page[k] = rows[1 + k - 1]
      BY <1>6, <2>1, Zenon
    <2>3. m - 1 + 1 = m /\ \A k \in 1 .. m : 1 + k - 1 = k
      BY <1>5
    <2>4. Len(page) = m /\ \A k \in 1 .. m : page[k] = rows[k]
      BY <1>5, <2>2, <2>3
    <2> HIDE <1>6
    <2> QED  BY <2>2, <2>4
  <1>8. PICK next : next = IF l > size THEN rows[size] ELSE 0
    OBVIOUS
  <1>9. next # 0 => l > size /\ next = rows[size] /\ m = size /\ size \in 1 .. l
    BY <1>2, <1>5, <1>8
  <1> HIDE <1>1, <1>4, <1>6
  <1>10. next \in Nat
    BY <1>3, <1>8, <1>9
  <1>11. next # 0 => \E k \in DOMAIN page : next = page[k]
    BY <1>7, <1>9
  <1>12. \A j, k \in DOMAIN page : j < k => page[k] < page[j]
    BY <1>2, <1>5, <1>7
  <1>13. ASSUME NEW j \in DOMAIN page, NEW i \in Nat, next # 0, i < next
         PROVE  i < page[j]
    <2>1. j \in 1 .. l /\ page[j] = rows[j] /\ j <= size /\ j \in Nat
      BY <1>2, <1>5, <1>7, <1>9, <1>13
    <2>2. rows[size] \in 1 .. n /\ rows[j] \in 1 .. n /\ size \in 1 .. l
      BY <1>3, <1>9, <1>13, <2>1
    <2>3. rows[size] <= rows[j]
      BY <1>2, <2>1, <2>2
    <2> QED  BY <1>9, <1>13, <2>1, <2>2, <2>3
  <1>14. ASSUME NEW i \in ids, i \notin ToSet(page)
         PROVE  next # 0 /\ i < next
    <2>1. PICK k \in 1 .. l : rows[k] = i
      BY <1>2
    <2>2. k \notin 1 .. m
      <3> SUFFICES ASSUME k \in 1 .. m  PROVE FALSE
        OBVIOUS
      <3>1. page[k] = i /\ k \in DOMAIN page
        BY <1>7, <2>1
      <3> QED  BY <1>14, <3>1 DEF ToSet
    <2>3. l > size /\ size < k /\ next = rows[size] /\ size \in 1 .. l
      BY <1>2, <1>5, <1>8, <2>2
    <2>4. rows[k] < rows[size] /\ rows[size] \in 1 .. n
      BY <1>2, <1>3, <2>3
    <2> QED  BY <2>1, <2>3, <2>4
  <1>15. page = SubSeq(rows, 1, Min({size, Len(rows)}))
    BY <1>1, <1>4, <1>6
  <1>16. next = IF Len(rows) > size THEN rows[size] ELSE 0
    BY <1>1, <1>8
  <1>17. page \in Seq(ids)
    BY <1>7
  <1> QED
    BY <1>10, <1>11, <1>12, <1>13, <1>14, <1>15, <1>16, <1>17, Zenon DEF PageRead

-----------------------------------------------------------------------------
(* Reading.                                                                *)

(* A read of the tables leaves them, and the work at them, as they are.    *)
LEMMA TablesStay ==
  ASSUME TypeOK, WorkTyped, RunsStored, UNCHANGED <<tables, work>>,
         reader' \in Reader, ToSet(reader'.page) \subseteq Ids
  PROVE  TypeOK' /\ WorkTyped' /\ RunsStored'
  <1>1. Ids' = Ids /\ Runs' = Runs
    BY DEF tables, Ids, Runs
  <1>2. TypeOK'
    BY <1>1 DEF TypeOK, tables, Reader
  <1>3. WorkTyped'
    BY <1>1 DEF WorkTyped, tables
  <1>4. FindingsPlaced' /\ FindingsComplete'
    BY <1>1 DEF RunsStored, FindingsPlaced, FindingsComplete, FindingsOf, tables
  <1>5. IssuesApart' /\ IssuesSeen'
    BY <1>1 DEF RunsStored, IssuesApart, IssuesSeen, Seen, tables
  <1>6. BaselinesBefore'
    BY <1>1 DEF RunsStored, BaselinesBefore, Before, tables
  <1> QED  BY <1>2, <1>3, <1>4, <1>5, <1>6 DEF RunsStored

(* Readings have ids within the bound.                                     *)
LEMMA IdsBounded ==
  ASSUME TypeOK
  PROVE  /\ Len(snapshots) \in Nat /\ Ids = 1 .. Len(snapshots) /\ Ids \subseteq 1 .. MaxSnapshots
         /\ Len(runs) \in Nat /\ Runs = 1 .. Len(runs)
  BY AnalysesAssumption DEF TypeOK, Ids, Runs

(* A listing begins with nothing told and everything ahead.                *)
LEMMA BeginKeeps ==
  ASSUME IInv, NEW latest \in BOOLEAN, NEW only \in SUBSET Subject, NEW size \in Pages,
         Begin(latest, only, size)
  PROVE  IInv'
  <1>1. PICK n : n = reader.count + 1
    OBVIOUS
  <1>2. n \in Nat /\ Len(snapshots) \in Nat /\ size \in Nat \ {0}
    BY <1>1, AnalysesAssumption DEF IInv, ReaderTyped, Reader, TypeOK
  <1>3. reader' = [at |-> "rows", latest |-> latest, only |-> only, since |-> Len(snapshots),
                   size |-> size, before |-> 0, next |-> 0, page |-> <<>>, joined |-> {},
                   count |-> n]
    BY <1>1 DEF Begin, NoReader
  <1>4. UNCHANGED <<tables, work>> /\ told' = <<>>
    BY DEF Begin
  <1>5. reader' \in Reader
    BY <1>2, <1>3 DEF Reader
  <1>6. /\ reader'.at = "rows" /\ reader'.since = Len(snapshots) /\ reader'.before = 0
        /\ reader'.page = <<>> /\ reader'.joined = {}
    BY <1>3
  <1> HIDE <1>3
  <1>7. ToSet(reader'.page) \subseteq Ids
    BY <1>6 DEF ToSet
  <1>8. ReaderTyped'
    BY <1>4, <1>5, <1>6 DEF ReaderTyped, tables
  <1>9. Listing'
    BY <1>4, <1>6 DEF Listing, Descends, Covers, Ahead
  <1>10. RunsShownWhole'
    BY <1>4 DEF RunsShownWhole
  <1> QED  BY <1>4, <1>5, <1>7, <1>8, <1>9, <1>10, TablesStay DEF IInv

(* One row is asked for.                                                   *)
LEMMA ReadRowKeeps ==
  ASSUME IInv, NEW i \in Ids, ReadRow(i)
  PROVE  IInv'
  <1>1. PICK n : n = reader.count + 1
    OBVIOUS
  <1>2. n \in Nat /\ i \in 1 .. MaxSnapshots
    BY <1>1, IdsBounded DEF IInv, ReaderTyped, Reader
  <1>3. reader' = [at |-> "runs", latest |-> FALSE, only |-> {}, since |-> 0, size |-> 1,
                   before |-> 0, next |-> 0, page |-> <<i>>, joined |-> {}, count |-> n]
    BY <1>1 DEF ReadRow, NoReader
  <1>4. UNCHANGED <<tables, work>> /\ told' = <<>>
    BY DEF ReadRow
  <1>5. reader' \in Reader
    BY <1>2, <1>3 DEF Reader
  <1>6. /\ reader'.at = "runs" /\ reader'.since = 0 /\ reader'.before = 0 /\ reader'.next = 0
        /\ reader'.page = <<i>> /\ reader'.joined = {}
    BY <1>3
  <1> HIDE <1>3
  <1>7. ToSet(reader'.page) \subseteq Ids
    BY <1>6 DEF ToSet
  <1>8. ReaderTyped'
    BY <1>4, <1>5, <1>6, IdsBounded DEF IInv, ReaderTyped, tables
  <1>9. Listing'
    BY <1>4, <1>6 DEF Listing, Descends, Covers, Ahead
  <1>10. RunsShownWhole'
    BY <1>4 DEF RunsShownWhole
  <1> QED  BY <1>4, <1>5, <1>7, <1>8, <1>9, <1>10, TablesStay DEF IInv

(* A page takes over what was ahead.                                       *)
LEMMA ReadRowsKeeps ==
  ASSUME IInv, ReadRows
  PROVE  IInv'
  <1>1. PICK rows :
          /\ rows \in Descending(Selected)
          /\ reader' = [reader EXCEPT !.at = "runs", !.next = NextBefore(rows),
                                      !.page = SubSeq(rows, 1, Min({reader.size, Len(rows)}))]
    BY DEF ReadRows
  <1>2. /\ UNCHANGED <<tables, work, told>> /\ reader.at = "rows" /\ reader \in Reader
        /\ reader.size \in Nat \ {0} /\ reader.page = <<>>
    BY DEF ReadRows, IInv, ReaderTyped, Reader, Listing
  <1>3. PICK ids : ids = Selected
    OBVIOUS
  <1>4. /\ Len(snapshots) \in Nat /\ ids \in SUBSET (1 .. Len(snapshots)) /\ Ids = 1 .. Len(snapshots)
        /\ ids \subseteq Ids /\ ids \subseteq 1 .. MaxSnapshots
    BY <1>3, IdsBounded DEF IInv, Selected
  <1>5. PICK next, page : PageRead(ids, rows, reader.size, next, page)
    BY <1>1, <1>2, <1>3, <1>4, PageTaken
  <1>6. reader' = [reader EXCEPT !.at = "runs", !.next = next, !.page = page]
    BY <1>1, <1>5 DEF PageRead, NextBefore
  <1>7. /\ page \in Seq(ids) /\ next \in Nat
        /\ next # 0 => \E k \in DOMAIN page : next = page[k]
        /\ \A j, k \in DOMAIN page : j < k => page[k] < page[j]
        /\ \A j \in DOMAIN page, i \in Nat : next # 0 /\ i < next => i < page[j]
        /\ \A i \in ids : i \notin ToSet(page) => next # 0 /\ i < next
    BY <1>5 DEF PageRead
  <1> HIDE <1>1
  <1>8. \A k \in DOMAIN page : page[k] \in ids
    BY <1>7
  <1>9. page \in Seq(1 .. MaxSnapshots)
    BY <1>4, <1>7, SeqMonotonic
  <1>10. /\ reader' \in Reader /\ reader'.at = "runs" /\ reader'.next = next /\ reader'.page = page
         /\ reader'.since = reader.since /\ reader'.only = reader.only
         /\ reader'.latest = reader.latest /\ reader'.joined = reader.joined
    BY <1>6, <1>2, <1>7, <1>9 DEF Reader
  <1> HIDE <1>6
  <1>11. ToSet(reader'.page) \subseteq Ids
    BY <1>4, <1>8, <1>10 DEF ToSet
  <1>12. ReaderTyped'
    BY <1>2, <1>10 DEF IInv, ReaderTyped, tables, Ids, Runs
  <1>13. \A i \in ids : Ahead(i)
    BY <1>2, <1>3 DEF Ahead, Selected
  <1>14. Descends'
    <2>1. \A j, k \in DOMAIN told : j < k => told[k].id < told[j].id
      BY DEF IInv, Listing, Descends
    <2>2. \A j \in DOMAIN told, k \in DOMAIN page : page[k] < told[j].id
      BY <1>4, <1>8, <1>13 DEF IInv, Listing, Descends
    <2>3. \A i \in 1 .. MaxSnapshots : Ahead(i)' => next # 0 /\ i < next
      BY <1>10 DEF Ahead
    <2>4. \A j \in DOMAIN page, i \in 1 .. MaxSnapshots : Ahead(i)' => i < page[j]
      BY <1>7, <2>3
    <2>5. \A j \in DOMAIN told, i \in 1 .. MaxSnapshots : Ahead(i)' => i < told[j].id
      <3> SUFFICES ASSUME NEW j \in DOMAIN told, NEW i \in 1 .. MaxSnapshots, Ahead(i)'
                   PROVE  i < told[j].id
        OBVIOUS
      <3>1. next # 0 /\ i < next
        BY <2>3
      <3>2. PICK k \in DOMAIN page : next = page[k]
        BY <1>7, <3>1
      <3>3. i < page[k] /\ page[k] < told[j].id
        BY <1>7, <2>2, <3>1
      <3>4. page[k] \in 1 .. MaxSnapshots /\ told[j].id \in 1 .. MaxSnapshots
        <4>1. told \in Seq(Told)
          BY DEF IInv, ReaderTyped
        <4>2. told[j] \in Told
          BY <4>1
        <4> QED  BY <1>4, <1>8, <4>2 DEF Told
      <3> QED  BY <3>3, <3>4
    <2> QED  BY <1>2, <1>7, <1>10, <2>1, <2>2, <2>4, <2>5 DEF Descends
  <1>15. Covers'
    <2> SUFFICES ASSUME NEW i \in 1 .. reader.since, Asked(i)', ~ Tells(i)'
                 PROVE  i \in ToSet(page) \/ Ahead(i)'
      BY <1>10 DEF Covers
    <2>1. Asked(i) /\ ~ Tells(i)
      BY <1>2, <1>10 DEF Asked, Tells, tables, Ids
    <2>2. i \notin ToSet(reader.page)
      BY <1>2 DEF ToSet
    <2>3. Ahead(i)
      BY <2>1, <2>2 DEF IInv, Listing, Covers
    <2>4. i \in Ids
      BY <1>4 DEF IInv, ReaderTyped, Reader
    <2>5. i \in ids
      BY <1>2, <1>3, <2>1, <2>3, <2>4 DEF Selected, Asked, Ahead
    <2> QED  BY <1>7, <1>10, <2>5 DEF Ahead
  <1>16. Listing'
    BY <1>10, <1>14, <1>15 DEF Listing
  <1>17. RunsShownWhole'
    BY <1>2 DEF IInv, RunsShownWhole, tables
  <1> QED  BY <1>2, <1>10, <1>11, <1>12, <1>16, <1>17, TablesStay DEF IInv

(* The runs of the page's rows are looked up, and the listing is where it was. *)
LEMMA ReadRunsKeeps ==
  ASSUME IInv, ReadRuns
  PROVE  IInv'
  <1>1. PICK joined :
          joined = {p \in ToSet(reader.page) \X Runs : runs[p[2]].snapshot = ShownWith(p[1])}
    OBVIOUS
  <1>2. /\ UNCHANGED <<tables, work, told>> /\ reader.at = "runs" /\ reader \in Reader
        /\ reader' = [reader EXCEPT !.at = "findings", !.joined = joined]
    BY <1>1 DEF ReadRuns, IInv, ReaderTyped
  <1>3. joined \subseteq Ids \X Runs /\ joined \subseteq Nat \X Nat
    <2>1. ToSet(reader.page) \subseteq Ids
      BY DEF IInv, TypeOK
    <2>2. joined \subseteq Ids \X Runs
      BY <1>1, <2>1
    <2> QED  BY <2>2 DEF Ids, Runs
  <1> HIDE <1>1
  <1>4. /\ reader' \in Reader /\ reader'.at = "findings" /\ reader'.next = reader.next
        /\ reader'.page = reader.page /\ reader'.since = reader.since
        /\ reader'.only = reader.only /\ reader'.latest = reader.latest
        /\ reader'.joined = joined
    BY <1>2, <1>3 DEF Reader
  <1>5. /\ ToSet(reader'.page) \subseteq Ids /\ UNCHANGED <<tables, work, told>>
        /\ reader.at = "runs"
    BY <1>2, <1>4 DEF IInv, TypeOK
  <1> HIDE <1>2
  <1>6. ReaderTyped'
    BY <1>3, <1>4, <1>5 DEF IInv, ReaderTyped, tables, Ids, Runs
  <1>7. \A i \in 1 .. MaxSnapshots : Ahead(i)' <=> Ahead(i)
    BY <1>4, <1>5 DEF Ahead
  <1>8. Descends'
    BY <1>4, <1>5, <1>7 DEF IInv, Listing, Descends
  <1>9. Covers'
    <2> SUFFICES ASSUME NEW i \in 1 .. reader.since, Asked(i)'
                 PROVE  Tells(i)' \/ i \in ToSet(reader.page) \/ Ahead(i)'
      BY <1>4 DEF Covers
    <2>1. Asked(i)
      BY <1>4, <1>5 DEF Asked, tables, Ids
    <2>2. Tells(i) \/ i \in ToSet(reader.page) \/ Ahead(i)
      BY <2>1 DEF IInv, Listing, Covers
    <2> QED  BY <1>4, <1>5, <2>2 DEF Tells, Ahead
  <1>10. Listing'
    BY <1>4, <1>8, <1>9 DEF Listing
  <1>11. RunsShownWhole'
    BY <1>5 DEF IInv, RunsShownWhole, tables
  <1> QED  BY <1>4, <1>5, <1>6, <1>10, <1>11, TablesStay DEF IInv

(* A row is told with runs there are, each placed one with all it found.   *)
LEMMA ShownWhole ==
  ASSUME TypeOK, ReaderTyped, FindingsComplete, NEW i \in Ids
  PROVE  /\ Shown(i) \in Told /\ Shown(i).id = i
         /\ \A r \in Shown(i).runs :
              r.run \in Runs /\ (r.placed => r.found = runs[r.run].found)
  <1> DEFINE Line(r) == [run |-> r, placed |-> Place(r) = i,
                         found |-> IF Place(r) = i THEN FindingsOf(r) ELSE {}]
  <1>1. PICK lines : lines = {Line(p[2]) : p \in {q \in reader.joined : q[1] = i}}
    OBVIOUS
  <1>2. Shown(i) = [id |-> i, runs |-> lines]
    BY <1>1 DEF Shown
  <1>3. ASSUME NEW r \in lines
        PROVE  /\ r.run \in Runs /\ (r.placed => r.found = runs[r.run].found)
               /\ r \in [run : Nat, placed : BOOLEAN, found : SUBSET Fingerprint]
    <2>1. PICK p \in reader.joined : r = Line(p[2])
      BY <1>1
    <2>2. PICK n : n = p[2]
      OBVIOUS
    <2>3. n \in Runs /\ n \in Nat
      BY <2>2 DEF ReaderTyped, Runs
    <2>4. FindingsOf(n) = runs[n].found
      BY <2>3 DEF FindingsComplete
    <2>5. runs[n] \in Run
      BY <2>3 DEF TypeOK, Runs
    <2>6. runs[n].found \in SUBSET Fingerprint
      BY <2>5 DEF Run
    <2>7. PICK placed \in BOOLEAN : placed <=> (Place(n) = i)
      OBVIOUS
    <2>8. PICK found : found = IF Place(n) = i THEN FindingsOf(n) ELSE {}
      OBVIOUS
    <2>9. r.run = n /\ (r.placed <=> placed) /\ r.found = found
      BY <2>1, <2>2, <2>7, <2>8
    <2>10. r = [run |-> n, placed |-> Place(n) = i, found |-> found]
      BY <2>1, <2>2, <2>8
    <2>11. (Place(n) = i) \in BOOLEAN
      OBVIOUS
    <2>12. found \in SUBSET Fingerprint /\ (placed => found = runs[n].found)
      BY <2>4, <2>6, <2>7, <2>8
    <2> QED  BY <2>3, <2>9, <2>10, <2>11, <2>12
  <1> HIDE DEF Line
  <1>4. i \in 1 .. MaxSnapshots
    BY IdsBounded
  <1> QED  BY <1>2, <1>3, <1>4 DEF Told

(* More is told: what was told, and then the page.                         *)
ToldMore(next, page) ==
  /\ next \in Seq(Told)
  /\ \A j \in DOMAIN told : j \in DOMAIN next /\ next[j] = told[j]
  /\ \A k \in DOMAIN page : \E j \in DOMAIN next : next[j] = Shown(page[k])
  /\ \A j \in DOMAIN next \ DOMAIN told :
       \E k \in DOMAIN page : next[j] = Shown(page[k]) /\ j = Len(told) + k

(* The page is told after what was.                                        *)
LEMMA PageTold ==
  ASSUME IInv, NEW page, page = reader.page
  PROVE  \E next : /\ next = told \o [k \in DOMAIN page |-> Shown(page[k])]
                   /\ ToldMore(next, page)
  <1>1. PICK more : more = [k \in DOMAIN page |-> Shown(page[k])]
    OBVIOUS
  <1>2. PICK next : next = told \o more
    OBVIOUS
  <1>3. page \in Seq(1 .. MaxSnapshots) /\ told \in Seq(Told) /\ ToSet(page) \subseteq Ids
    BY DEF IInv, ReaderTyped, Reader, TypeOK
  <1>4. PICK m, n : m = Len(told) /\ n = Len(page)
    OBVIOUS
  <1>5. DOMAIN page = 1 .. n /\ DOMAIN told = 1 .. m /\ m \in Nat /\ n \in Nat
    BY <1>3, <1>4
  <1>6. \A k \in 1 .. n : more[k] = Shown(page[k]) /\ more[k] \in Told
    <2> SUFFICES ASSUME NEW k \in 1 .. n  PROVE more[k] = Shown(page[k]) /\ more[k] \in Told
      OBVIOUS
    <2>1. page[k] \in Ids
      BY <1>3, <1>5 DEF ToSet
    <2>2. Shown(page[k]) \in Told
      BY <2>1, ShownWhole DEF IInv, RunsStored
    <2> QED  BY <1>1, <1>5, <2>2
  <1>7. more \in Seq(Told) /\ Len(more) = n
    <2>1. more \in [1 .. n -> Told]
      BY <1>1, <1>5, <1>6
    <2> HIDE <1>1
    <2> QED  BY <1>5, <2>1
  <1> HIDE <1>1
  <1>8. /\ next \in Seq(Told) /\ Len(next) = m + n
        /\ \A j \in 1 .. m + n : next[j] = IF j <= m THEN told[j] ELSE more[j - m]
    <2>1. /\ next \in Seq(Told) /\ Len(next) = Len(told) + Len(more)
          /\ \A j \in 1 .. Len(told) + Len(more) :
               next[j] = IF j <= Len(told) THEN told[j] ELSE more[j - Len(told)]
      BY <1>2, <1>3, <1>7, ConcatProperties, Zenon
    <2> QED  BY <1>4, <1>7, <2>1, Zenon
  <1>9. DOMAIN next = 1 .. m + n
    BY <1>5, <1>8
  <1>10. \A j \in DOMAIN told : j \in DOMAIN next /\ next[j] = told[j]
    BY <1>5, <1>8, <1>9
  <1>11. ASSUME NEW k \in DOMAIN page
         PROVE  \E j \in DOMAIN next : next[j] = Shown(page[k])
    <2>1. PICK j : j = m + k
      OBVIOUS
    <2>2. j \in 1 .. m + n /\ ~ (j <= m) /\ j - m = k
      BY <1>5, <2>1
    <2>3. next[j] = more[k]
      BY <1>8, <2>2
    <2> QED  BY <1>5, <1>6, <1>9, <2>2, <2>3
  <1>12. ASSUME NEW j \in DOMAIN next \ DOMAIN told
         PROVE  \E k \in DOMAIN page : next[j] = Shown(page[k]) /\ j = m + k
    <2>1. j - m \in 1 .. n /\ next[j] = more[j - m] /\ j = m + (j - m)
      BY <1>5, <1>8, <1>9
    <2> QED  BY <1>5, <1>6, <2>1
  <1>13. ToldMore(next, page)
    BY <1>4, <1>8, <1>10, <1>11, <1>12 DEF ToldMore
  <1> QED  BY <1>1, <1>2, <1>13

(* The page is told, and what was ahead of it still is.                    *)
LEMMA ReadFindingsKeeps ==
  ASSUME IInv, ReadFindings
  PROVE  IInv'
  <1>1. PICK page, next, place :
          /\ page = reader.page /\ next = reader.next
          /\ place = IF reader.next = 0 THEN "end" ELSE "rows"
    OBVIOUS
  <1>2. /\ UNCHANGED <<tables, work>> /\ reader.at = "findings" /\ reader \in Reader
        /\ reader' = [reader EXCEPT !.at = place, !.before = next, !.joined = {}, !.page = <<>>]
        /\ next \in Nat /\ page \in Seq(1 .. MaxSnapshots)
        /\ place = IF next = 0 THEN "end" ELSE "rows"
    BY <1>1 DEF ReadFindings, IInv, ReaderTyped, Reader
  <1>3. ToldMore(told', page)
    <2>1. told' = told \o [k \in DOMAIN page |-> Shown(page[k])]
      BY <1>1 DEF ReadFindings
    <2> QED  BY <1>1, <2>1, PageTold
  <1>4. \A k \in DOMAIN page : page[k] \in Ids
    BY <1>1 DEF IInv, TypeOK, ToSet
  <1>5. /\ reader' \in Reader /\ reader'.at = place /\ reader'.before = next
        /\ reader'.next = next /\ reader'.joined = {} /\ reader'.page = <<>>
        /\ reader'.since = reader.since /\ reader'.only = reader.only
        /\ reader'.latest = reader.latest
    <2>1. PICK x : x = [reader EXCEPT !.at = place, !.before = next, !.joined = {}, !.page = <<>>]
      OBVIOUS
    <2>2. /\ place \in {"end", "rows"} /\ {} \in SUBSET (Nat \X Nat)
          /\ <<>> \in Seq(1 .. MaxSnapshots) /\ reader \in Reader /\ next \in Nat
      BY <1>2
    <2>3. PICK nothing, none : nothing = <<>> /\ none = {}
      OBVIOUS
    <2>4. x = [reader EXCEPT !.at = place, !.before = next, !.joined = none, !.page = nothing]
      BY <2>1, <2>3
    <2> HIDE <2>1
    <2>5. /\ x.at = place /\ x.before = next /\ x.next = reader.next
          /\ x.joined = none /\ x.page = nothing /\ x.since = reader.since
          /\ x.only = reader.only /\ x.latest = reader.latest
      <3> HIDE <2>3
      <3> QED  BY <2>2, <2>4 DEF Reader
    <2>6. x \in Reader
      <3>1. /\ nothing \in Seq(1 .. MaxSnapshots) /\ none \in SUBSET (Nat \X Nat)
            /\ place \in {"idle", "rows", "runs", "findings", "end"}
        BY <2>2, <2>3
      <3> HIDE <2>3
      <3> QED  BY <2>2, <2>4, <3>1 DEF Reader
    <2> QED  BY <1>1, <1>2, <2>1, <2>3, <2>5, <2>6, Zenon
  <1>6. /\ UNCHANGED <<tables, work>> /\ reader.at = "findings" /\ next = reader.next
        /\ place = (IF next = 0 THEN "end" ELSE "rows")
    BY <1>1, <1>2
  <1> HIDE <1>2
  <1>7. ToSet(reader'.page) \subseteq Ids
    BY <1>5 DEF ToSet
  <1>8. ASSUME NEW j \in DOMAIN told'
        PROVE  /\ told'[j].id \in 1 .. MaxSnapshots
               /\ \A r \in told'[j].runs :
                    r.run \in Runs /\ (r.placed => r.found = runs[r.run].found)
    <2>1. told'[j] \in Told
      BY <1>3 DEF ToldMore
    <2>2. CASE j \in DOMAIN told
      <3>1. told'[j] = told[j]
        BY <1>3, <2>2 DEF ToldMore
      <3> QED  BY <2>1, <2>2, <3>1 DEF Told, IInv, ReaderTyped, RunsShownWhole
    <2>3. CASE j \notin DOMAIN told
      <3>1. PICK k \in DOMAIN page : told'[j] = Shown(page[k])
        BY <1>3, <2>3 DEF ToldMore
      <3>2. /\ \A r \in Shown(page[k]).runs :
                 r.run \in Runs /\ (r.placed => r.found = runs[r.run].found)
        BY <1>4, ShownWhole DEF IInv, RunsStored
      <3> QED  BY <2>1, <3>1, <3>2 DEF Told
    <2> QED  BY <2>2, <2>3
  <1>9. ReaderTyped'
    BY <1>3, <1>5, <1>6, <1>8 DEF IInv, ReaderTyped, ToldMore, tables, Ids, Runs
  <1>10. RunsShownWhole'
    BY <1>6, <1>8 DEF RunsShownWhole, tables
  <1>11. \A i \in 1 .. MaxSnapshots : Ahead(i)' <=> Ahead(i)
    BY <1>5, <1>6 DEF Ahead
  <1>12. \A k \in DOMAIN page : Shown(page[k]).id = page[k]
    BY DEF Shown
  <1>13. ASSUME NEW j \in DOMAIN told' \ DOMAIN told
         PROVE  \E k \in DOMAIN page : told'[j].id = page[k] /\ j = Len(told) + k
    BY <1>3, <1>12 DEF ToldMore
  <1>14. Descends'
    <2>1. ASSUME NEW j \in DOMAIN told', NEW k \in DOMAIN told', j < k
          PROVE  told'[k].id < told'[j].id
      <3>1. /\ told \in Seq(Told) /\ told' \in Seq(Told) /\ page \in Seq(1 .. MaxSnapshots)
        BY <1>1, <1>3 DEF IInv, ReaderTyped, Reader, ToldMore
      <3>2. /\ DOMAIN told = 1 .. Len(told) /\ Len(told) \in Nat
            /\ j \in Nat /\ k \in Nat /\ DOMAIN page = 1 .. Len(page)
        BY <3>1
      <3>3. CASE k \in DOMAIN told
        <4>1. j \in DOMAIN told
          BY <2>1, <3>2, <3>3
        <4>2. told'[j] = told[j] /\ told'[k] = told[k]
          BY <1>3, <3>3, <4>1 DEF ToldMore
        <4> QED  BY <2>1, <3>3, <4>1, <4>2 DEF IInv, Listing, Descends
      <3>4. CASE k \notin DOMAIN told /\ j \in DOMAIN told
        <4>1. PICK l \in DOMAIN page : told'[k].id = page[l]
          BY <1>13, <3>4
        <4>2. told'[j] = told[j]
          BY <1>3, <3>4 DEF ToldMore
        <4> QED  BY <1>1, <3>4, <4>1, <4>2 DEF IInv, Listing, Descends
      <3>5. CASE k \notin DOMAIN told /\ j \notin DOMAIN told
        <4>1. PICK l \in DOMAIN page : told'[k].id = page[l] /\ k = Len(told) + l
          BY <1>13, <3>5
        <4>2. PICK i \in DOMAIN page : told'[j].id = page[i] /\ j = Len(told) + i
          BY <1>13, <3>5
        <4>3. i < l
          BY <2>1, <3>2, <4>1, <4>2
        <4> QED  BY <1>1, <4>1, <4>2, <4>3 DEF IInv, Listing, Descends
      <3> QED  BY <3>3, <3>4, <3>5
    <2>2. ASSUME NEW j \in DOMAIN told', NEW i \in 1 .. MaxSnapshots, Ahead(i)'
          PROVE  i < told'[j].id
      <3>1. Ahead(i)
        BY <1>11, <2>2
      <3>2. CASE j \in DOMAIN told
        <4>1. told'[j] = told[j]
          BY <1>3, <3>2 DEF ToldMore
        <4> QED  BY <3>1, <3>2, <4>1 DEF IInv, Listing, Descends
      <3>3. CASE j \notin DOMAIN told
        <4>1. PICK k \in DOMAIN page : told'[j].id = page[k]
          BY <1>13, <3>3
        <4> QED  BY <1>1, <3>1, <4>1 DEF IInv, Listing, Descends
      <3> QED  BY <3>2, <3>3
    <2> QED  BY <1>5, <2>1, <2>2 DEF Descends
  <1>15. Covers'
    <2> SUFFICES ASSUME NEW i \in 1 .. reader.since, Asked(i)'
                 PROVE  Tells(i)' \/ Ahead(i)'
      BY <1>5 DEF Covers
    <2>1. Asked(i)
      BY <1>5, <1>6 DEF Asked, tables, Ids
    <2>2. CASE Tells(i)
      BY <1>3, <2>2 DEF Tells, ToldMore
    <2>3. CASE i \in ToSet(page)
      <3>1. PICK k \in DOMAIN page : page[k] = i
        BY <2>3 DEF ToSet
      <3>2. PICK j \in DOMAIN told' : told'[j] = Shown(page[k])
        BY <1>3 DEF ToldMore
      <3> QED  BY <1>12, <3>1, <3>2 DEF Tells
    <2>4. CASE Ahead(i)
      BY <1>5, <1>6, <2>4 DEF Ahead
    <2> QED  BY <1>1, <2>1, <2>2, <2>3, <2>4 DEF IInv, Listing, Covers
  <1>16. reader'.at # "idle"
    BY <1>5, <1>6
  <1>17. Listing'
    BY <1>5, <1>14, <1>15, <1>16 DEF Listing
  <1> QED  BY <1>5, <1>6, <1>7, <1>9, <1>10, <1>17, TablesStay DEF IInv

-----------------------------------------------------------------------------
(* Writing readings.                                                       *)

(* Readings are added or point elsewhere, and keep their subject.          *)
ReadingsKept ==
  /\ snapshots' \in Seq(Snapshot)
  /\ Len(snapshots) <= Len(snapshots') /\ Len(snapshots') <= MaxSnapshots
  /\ \A i \in Ids : snapshots'[i].subject = snapshots[i].subject

(* What is stored of runs, and the listing, bear it.                       *)
LEMMA ReadingsMayGrow ==
  ASSUME IInv, ReadingsKept, WorkTyped', work'.snapshot \in 0 .. Len(snapshots'),
         UNCHANGED <<index, runs, findings, issues, reader, told>>
  PROVE  IInv'
  <1>1. /\ Len(snapshots) \in Nat /\ Len(snapshots') \in Nat
        /\ Ids \subseteq Ids' /\ Runs' = Runs /\ Len(snapshots) <= Len(snapshots')
    BY DEF ReadingsKept, IInv, TypeOK, Ids, Runs
  <1>2. TypeOK'
    <2>1. index' \in [CommitSha -> 0 .. Len(snapshots')]
      <3>1. 0 .. Len(snapshots) \subseteq 0 .. Len(snapshots')
        BY <1>1
      <3> QED  BY <3>1 DEF IInv, TypeOK
    <2>2. ToSet(reader'.page) \subseteq Ids'
      BY <1>1 DEF IInv, TypeOK
    <2>3. work'.at \in {"rest", "link", "runs"}
      BY DEF WorkTyped, Work
    <2> QED  BY <2>1, <2>2, <2>3 DEF ReadingsKept, IInv, TypeOK
  <1>3. ReaderTyped'
    <2>1. reader'.joined \subseteq Ids' \X Runs'
      BY <1>1 DEF IInv, ReaderTyped
    <2>2. reader'.since <= Len(snapshots')
      BY <1>1 DEF IInv, ReaderTyped, Reader
    <2> QED  BY <1>1, <2>1, <2>2 DEF IInv, ReaderTyped
  <1>4. RunsStored'
    <2>1. FindingsPlaced' /\ FindingsComplete'
      BY <1>1 DEF IInv, RunsStored, FindingsPlaced, FindingsComplete, FindingsOf
    <2>2. IssuesApart' /\ IssuesSeen'
      BY DEF IInv, RunsStored, IssuesApart, IssuesSeen, Seen
    <2>3. BaselinesBefore'
      BY <1>1 DEF IInv, RunsStored, BaselinesBefore, Before
    <2> QED  BY <2>1, <2>2, <2>3 DEF RunsStored
  <1>5. RunsShownWhole'
    BY DEF IInv, RunsShownWhole
  <1>6. Descends'
    BY DEF IInv, Listing, Descends, Ahead
  <1>7. Covers'
    <2> SUFFICES ASSUME NEW i \in 1 .. reader.since, Asked(i)'
                 PROVE  Tells(i)' \/ i \in ToSet(reader.page) \/ Ahead(i)'
      BY DEF Covers
    <2>1. i \in Ids
      BY <1>1 DEF IInv, ReaderTyped, Reader, Ids
    <2>2. snapshots'[i].subject = snapshots[i].subject
      BY <2>1 DEF ReadingsKept
    <2>3. \A j \in Ids : snapshots'[j].subject = snapshots[j].subject /\ j \in Ids'
      BY <1>1 DEF ReadingsKept
    <2>4. Asked(i)
      BY <2>2, <2>3 DEF Asked
    <2>5. Tells(i) \/ i \in ToSet(reader.page) \/ Ahead(i)
      BY <2>4 DEF IInv, Listing, Covers
    <2> QED  BY <2>5 DEF Tells, Ahead
  <1>8. Listing'
    BY <1>6, <1>7 DEF IInv, Listing
  <1> QED  BY <1>2, <1>3, <1>4, <1>5, <1>8 DEF IInv

(* A reading is recorded as a new one, or the bare one there is.           *)
LEMMA ReadingRecorded ==
  ASSUME IInv, NEW s \in Subject, NEW h \in CommitSha, RecordReading(s, h)
  PROVE  ReadingsKept /\ Recorded(s, h) \in Ids'
  <1>1. PICK i : i = Recorded(s, h)
    OBVIOUS
  <1>2. i \in Ids \/ i = Len(snapshots) + 1
    <2>1. PICK bare : bare = {j \in Of(s, h) : Bare(j)}
      OBVIOUS
    <2>2. i = IF bare = {} THEN Len(snapshots) + 1 ELSE Min(bare)
      BY <1>1, <2>1 DEF Recorded
    <2>3. bare \in SUBSET Ids /\ bare \in SUBSET Nat
      BY <2>1 DEF Of, Ids
    <2>4. bare # {} => Min(bare) \in bare
      BY <2>3, MinOf
    <2> QED  BY <2>2, <2>3, <2>4
  <1>3. /\ snapshots \in Seq(Snapshot) /\ Len(snapshots) \in Nat /\ Len(snapshots) <= MaxSnapshots
        /\ i <= MaxSnapshots
    BY <1>1 DEF IInv, TypeOK, RecordReading
  <1>4. CASE i \in Ids
    <2>1. snapshots' = snapshots
      BY <1>1, <1>4 DEF RecordReading
    <2> QED  BY <1>1, <1>3, <1>4, <2>1 DEF ReadingsKept, Ids
  <1>5. CASE i \notin Ids
    <2>1. PICK reading : reading = [subject |-> s, head |-> h, analysis |-> 0]
      OBVIOUS
    <2>2. reading \in Snapshot
      BY <2>1, AnalysesAssumption DEF Snapshot
    <2>3. snapshots' = Append(snapshots, reading)
      BY <1>1, <1>5, <2>1 DEF RecordReading
    <2> HIDE <2>1
    <2>4. /\ snapshots' \in Seq(Snapshot) /\ Len(snapshots') = Len(snapshots) + 1
          /\ \A j \in 1 .. Len(snapshots) : snapshots'[j] = snapshots[j]
      BY <1>3, <2>2, <2>3, AppendProperties
    <2>5. ReadingsKept
      BY <1>2, <1>3, <1>5, <2>4 DEF ReadingsKept, Ids
    <2>6. i \in Ids'
      BY <1>2, <1>3, <1>5, <2>4 DEF Ids
    <2> QED  BY <1>1, <2>5, <2>6
  <1> QED  BY <1>4, <1>5

(* A reading points at another.                                            *)
LEMMA ReadingPoints ==
  ASSUME IInv, NEW i \in Ids, NEW a \in 0 .. Len(snapshots),
         snapshots' = [snapshots EXCEPT ![i].analysis = a]
  PROVE  ReadingsKept /\ Ids' = Ids
  <1>1. /\ snapshots \in Seq(Snapshot) /\ Len(snapshots) \in Nat /\ Len(snapshots) <= MaxSnapshots
        /\ MaxSnapshots \in Nat
    BY AnalysesAssumption DEF IInv, TypeOK
  <1>2. DOMAIN snapshots = 1 .. Len(snapshots) /\ i \in DOMAIN snapshots
    BY <1>1 DEF Ids
  <1>3. PICK reading : reading = [snapshots[i] EXCEPT !.analysis = a]
    OBVIOUS
  <1>4. reading \in Snapshot /\ reading.subject = snapshots[i].subject
    <2>1. PICK old : old = snapshots[i]
      OBVIOUS
    <2>2. old \in Snapshot /\ a \in 0 .. MaxSnapshots
      BY <1>1, <1>2, <2>1
    <2>3. reading = [old EXCEPT !.analysis = a]
      BY <1>3, <2>1
    <2> QED  BY <2>1, <2>2, <2>3 DEF Snapshot
  <1>5. snapshots' = [snapshots EXCEPT ![i] = reading]
    BY <1>3
  <1> HIDE <1>3
  <1>6. snapshots' \in Seq(Snapshot) /\ Len(snapshots') = Len(snapshots)
    BY <1>1, <1>2, <1>4, <1>5, ExceptSeq
  <1>7. \A j \in Ids : snapshots'[j].subject = snapshots[j].subject
    BY <1>2, <1>4, <1>5 DEF Ids
  <1> QED  BY <1>1, <1>6, <1>7 DEF ReadingsKept, Ids

(* A head is observed.                                                     *)
LEMMA ObserveKeeps ==
  ASSUME IInv, NEW s \in Subject, NEW h \in CommitSha, Observe(s, h)
  PROVE  IInv'
  <1>1. work = Rest /\ UNCHANGED <<index, runs, findings, issues, reader, told>>
    BY DEF Observe
  <1>2. Len(snapshots) \in Nat /\ index[h] \in 0 .. Len(snapshots)
    BY DEF IInv, TypeOK
  <1>3. CASE Of(s, h) = {}
    <2>1. RecordReading(s, h)
      BY <1>3 DEF Observe
    <2>2. ReadingsKept /\ Recorded(s, h) \in Ids'
      BY <2>1, ReadingRecorded
    <2>3. Len(snapshots') \in Nat /\ Len(snapshots) <= Len(snapshots') /\ Ids' = 1 .. Len(snapshots')
      BY <2>2 DEF ReadingsKept, Ids
    <2>4. CASE index[h] = 0
      <3>1. work' = [at |-> "rest", snapshot |-> 0, indexed |-> 0, left |-> <<>>]
        BY <1>3, <2>4 DEF Observe, Rest
      <3>2. WorkTyped' /\ work'.snapshot \in 0 .. Len(snapshots')
        BY <2>3, <3>1 DEF WorkTyped, Work
      <3> QED  BY <1>1, <2>2, <3>2, ReadingsMayGrow
    <2>5. CASE index[h] # 0
      <3>1. PICK i, x : i = Recorded(s, h) /\ x = index[h]
        OBVIOUS
      <3>2. work' = [at |-> "link", snapshot |-> i, indexed |-> x, left |-> <<>>]
        BY <1>3, <2>5, <3>1 DEF Observe, Rest
      <3>3. i \in Ids' /\ i \in 0 .. Len(snapshots') /\ x \in 0 .. Len(snapshots')
        BY <1>2, <2>2, <2>3, <3>1
      <3> HIDE <3>1
      <3>4. WorkTyped' /\ work'.snapshot \in 0 .. Len(snapshots')
        BY <2>3, <3>2, <3>3 DEF WorkTyped, Work
      <3> QED  BY <1>1, <2>2, <3>4, ReadingsMayGrow
    <2> QED  BY <2>4, <2>5
  <1>4. CASE Of(s, h) # {}
    <2>1. PICK i : i = Max(Of(s, h))
      OBVIOUS
    <2>2. PICK a : a = IF index[h] = i THEN 0 ELSE index[h]
      OBVIOUS
    <2>3. snapshots' = [snapshots EXCEPT ![i].analysis = a] /\ work' = work
      BY <1>4, <2>1, <2>2 DEF Observe
    <2>4. Of(s, h) \in SUBSET (1 .. Len(snapshots)) /\ Ids = 1 .. Len(snapshots)
      BY DEF Of, Ids
    <2>5. i \in Ids
      BY <1>2, <1>4, <2>1, <2>4, MaxOf
    <2>6. a \in 0 .. Len(snapshots)
      BY <1>2, <2>2
    <2>7. ReadingsKept /\ Ids' = Ids
      BY <2>3, <2>5, <2>6, ReadingPoints
    <2>8. Len(snapshots') \in Nat /\ Len(snapshots) <= Len(snapshots')
      BY <2>7 DEF ReadingsKept
    <2>9. WorkTyped' /\ work'.snapshot \in 0 .. Len(snapshots')
      <3>1. work.snapshot \in 0 .. Len(snapshots') /\ work.indexed \in 0 .. Len(snapshots')
        BY <1>2, <2>8 DEF IInv, TypeOK, WorkTyped
      <3>2. work' = work
        BY <2>3
      <3> QED  BY <2>7, <3>1, <3>2 DEF IInv, WorkTyped
    <2> QED  BY <1>1, <2>7, <2>9, ReadingsMayGrow
  <1> QED  BY <1>3, <1>4

(* The first reading of a head is linked to its analysis.                  *)
LEMMA LinkKeeps ==
  ASSUME IInv, Link
  PROVE  IInv'
  <1>1. PICK i, a : i = work.snapshot /\ a = work.indexed
    OBVIOUS
  <1>2. /\ UNCHANGED <<index, runs, findings, issues, reader, told>> /\ work.at = "link"
        /\ snapshots' = [snapshots EXCEPT ![i].analysis = a]
        /\ work' = [at |-> "rest", snapshot |-> 0, indexed |-> 0, left |-> <<>>]
    BY <1>1 DEF Link, Rest
  <1>3. i \in Ids /\ a \in 0 .. Len(snapshots)
    BY <1>1, <1>2 DEF IInv, WorkTyped
  <1>4. ReadingsKept
    BY <1>2, <1>3, ReadingPoints
  <1>5. Len(snapshots') \in Nat
    BY <1>4 DEF ReadingsKept
  <1>6. WorkTyped' /\ work'.snapshot \in 0 .. Len(snapshots')
    <2>1. work' = [at |-> "rest", snapshot |-> 0, indexed |-> 0, left |-> <<>>]
      BY <1>2
    <2> HIDE <1>2
    <2> QED  BY <1>5, <2>1 DEF WorkTyped, Work
  <1> QED  BY <1>2, <1>4, <1>6, ReadingsMayGrow

(* A reading is recorded and its analyzers come next.                      *)
LEMMA AnalyseKeeps ==
  ASSUME IInv, NEW s \in Subject, NEW h \in CommitSha, Analyse(s, h)
  PROVE  IInv'
  <1>1. RecordReading(s, h) /\ UNCHANGED <<index, runs, findings, issues, reader, told>>
    BY DEF Analyse
  <1>2. PICK i : i = Recorded(s, h)
    OBVIOUS
  <1>3. ReadingsKept /\ i \in Ids'
    BY <1>1, <1>2, ReadingRecorded
  <1>4. work' = [at |-> "runs", snapshot |-> i, indexed |-> 0, left |-> Analyzers]
    BY <1>2 DEF Analyse, Rest
  <1>5. Len(snapshots') \in Nat /\ Ids' = 1 .. Len(snapshots')
    BY <1>3 DEF ReadingsKept, Ids
  <1> HIDE <1>2
  <1>6. WorkTyped' /\ work'.snapshot \in 0 .. Len(snapshots')
    BY <1>3, <1>4, <1>5, AnalysesAssumption DEF WorkTyped, Work
  <1> QED  BY <1>1, <1>3, <1>6, ReadingsMayGrow

(* The holder of the lock stops, wherever it was.                          *)
LEMMA StopKeeps ==
  ASSUME IInv, Stop
  PROVE  IInv'
  <1>1. /\ UNCHANGED <<index, runs, findings, issues, reader, told>> /\ snapshots' = snapshots
        /\ work' = [at |-> "rest", snapshot |-> 0, indexed |-> 0, left |-> <<>>]
    BY DEF Stop, Rest, tables
  <1>2. ReadingsKept /\ Len(snapshots') \in Nat
    BY <1>1 DEF ReadingsKept, IInv, TypeOK
  <1>3. WorkTyped' /\ work'.snapshot \in 0 .. Len(snapshots')
    BY <1>1, <1>2 DEF WorkTyped, Work
  <1> QED  BY <1>1, <1>2, <1>3, ReadingsMayGrow

(* A head's analysis is marked complete.                                   *)
LEMMA MarkAnalysedKeeps ==
  ASSUME IInv, MarkAnalysed
  PROVE  IInv'
  <1>1. /\ UNCHANGED <<snapshots, runs, findings, issues, reader, told>> /\ work.at = "runs"
        /\ work' = [at |-> "rest", snapshot |-> 0, indexed |-> 0, left |-> <<>>]
    BY DEF MarkAnalysed, Rest
  <1>2. index' \in [CommitSha -> 0 .. Len(snapshots)]
    <2>1. work.snapshot \in 0 .. Len(snapshots) /\ index \in [CommitSha -> 0 .. Len(snapshots)]
      BY DEF IInv, TypeOK
    <2> QED  BY <2>1 DEF MarkAnalysed
  <1>3. Len(snapshots) \in Nat /\ Ids' = Ids /\ Runs' = Runs
    BY <1>1 DEF IInv, TypeOK, Ids, Runs
  <1>4. WorkTyped'
    BY <1>1, <1>3 DEF WorkTyped, Work
  <1>5. TypeOK'
    BY <1>1, <1>2, <1>3 DEF IInv, TypeOK
  <1>6. ReaderTyped'
    BY <1>1, <1>3 DEF IInv, ReaderTyped
  <1>7. FindingsPlaced' /\ FindingsComplete'
    BY <1>1, <1>3 DEF IInv, RunsStored, FindingsPlaced, FindingsComplete, FindingsOf
  <1>8. IssuesApart' /\ IssuesSeen' /\ BaselinesBefore'
    BY <1>1, <1>3 DEF IInv, RunsStored, IssuesApart, IssuesSeen, Seen, BaselinesBefore, Before
  <1>9. RunsShownWhole'
    BY <1>1 DEF IInv, RunsShownWhole
  <1>10. Descends'
    BY <1>1 DEF IInv, Listing, Descends, Ahead
  <1>11. Covers'
    BY <1>1, <1>3 DEF IInv, Listing, Covers, Asked, Tells, Ahead
  <1>12. Listing'
    BY <1>1, <1>10, <1>11 DEF IInv, Listing
  <1> QED  BY <1>4, <1>5, <1>6, <1>7, <1>8, <1>9, <1>12 DEF IInv, RunsStored

(* A run more, and the readings and the listing are where they were.       *)
LEMMA RunsMayGrow ==
  ASSUME IInv, RunsStored', WorkTyped', work'.snapshot = work.snapshot,
         UNCHANGED <<snapshots, index, reader, told>>,
         runs' \in Seq(Run), Len(runs') <= MaxRuns,
         issues' \in Seq(Issue), findings' \subseteq Finding,
         \A r \in Runs : r \in Runs' /\ runs'[r] = runs[r]
  PROVE  IInv'
  <1>1. Ids' = Ids
    BY DEF Ids
  <1>2. TypeOK'
    <2>1. work'.at \in {"rest", "link", "runs"}
      BY DEF WorkTyped, Work
    <2>2. work'.snapshot \in 0 .. Len(snapshots')
      BY DEF IInv, TypeOK
    <2> QED  BY <1>1, <2>1, <2>2 DEF IInv, TypeOK
  <1>3. ReaderTyped'
    <2>1. reader'.joined \subseteq Ids' \X Runs'
      BY <1>1 DEF IInv, ReaderTyped
    <2> QED  BY <2>1 DEF IInv, ReaderTyped
  <1>4. RunsShownWhole'
    BY ToldStays DEF IInv
  <1>5. Descends'
    BY DEF IInv, Listing, Descends, Ahead
  <1>6. Covers'
    BY <1>1 DEF IInv, Listing, Covers, Asked, Tells, Ahead
  <1>7. Listing'
    BY <1>5, <1>6 DEF IInv, Listing
  <1> QED  BY <1>2, <1>3, <1>4, <1>7 DEF IInv

(* A reading is audited.                                                   *)
LEMMA RecordAuditKeeps ==
  ASSUME IInv, NEW i \in Ids, RecordAudit(i)
  PROVE  IInv'
  <1>1. PICK fs \in SUBSET Fingerprint : Record(i, PACKAGE_AUDIT, "succeeded", 0, fs)
    BY DEF RecordAudit
  <1>2. /\ Len(runs) < MaxRuns /\ PACKAGE_AUDIT \in ToSet(Analyzers) \cup {PACKAGE_AUDIT}
        /\ "succeeded" \in Status /\ 0 \in 0 .. MaxSnapshots
    BY AnalysesAssumption DEF RecordAudit, Status
  <1>3. /\ RunsStored' /\ runs' \in Seq(Run) /\ Len(runs') <= MaxRuns
        /\ issues' \in Seq(Issue) /\ findings' \subseteq Finding
        /\ \A r \in Runs : r \in Runs' /\ runs'[r] = runs[r]
    BY <1>1, <1>2, RecordKeeps DEF IInv
  <1>4. UNCHANGED <<snapshots, index, work, reader, told>>
    BY DEF RecordAudit
  <1>5. WorkTyped'
    BY <1>4 DEF IInv, WorkTyped, Ids
  <1> QED  BY <1>3, <1>4, <1>5, RunsMayGrow

(* An analyzer evaluates.                                                  *)
LEMMA EvaluateKeeps ==
  ASSUME IInv, Evaluate
  PROVE  IInv'
  <1>1. PICK analyzer, i, s, against :
          /\ analyzer = work.left[1] /\ i = work.snapshot /\ s = snapshots[i].subject
          /\ against = LastSuccessful(s, analyzer, i)
    OBVIOUS
  <1>2. PICK e \in Evaluation(analyzer) : Record(i, analyzer, e.status, against, e.found)
    BY <1>1 DEF Evaluate
  <1>3. e.status \in Status /\ e.found \in SUBSET Fingerprint
    BY <1>2 DEF Evaluation, Status
  <1>4. /\ work.at = "runs" /\ work.left # <<>> /\ Len(runs) < MaxRuns
        /\ work \in Work /\ UNCHANGED <<snapshots, index, reader, told>>
    BY DEF Evaluate, IInv, WorkTyped
  <1>5. work.left \in Seq(ToSet(Analyzers)) /\ i \in Ids
    BY <1>1, <1>4 DEF Work, IInv, WorkTyped
  <1>6. /\ analyzer \in ToSet(Analyzers) \cup {PACKAGE_AUDIT}
        /\ Tail(work.left) \in Seq(ToSet(Analyzers))
    BY <1>1, <1>4, <1>5
  <1>7. /\ against \in 0 .. MaxSnapshots
        /\ against # 0 => \E q \in Runs : /\ runs[q].snapshot = against
                                          /\ runs[q].analyzer = analyzer
                                          /\ runs[q].status = "succeeded"
    BY <1>1, BaselineFound DEF IInv
  <1>8. PICK status, found : status = e.status /\ found = e.found
    OBVIOUS
  <1>9. /\ status \in Status /\ found \in SUBSET Fingerprint
        /\ Record(i, analyzer, status, against, found)
    BY <1>2, <1>3, <1>8
  <1> HIDE <1>1, <1>8
  <1>10. /\ RunsStored' /\ runs' \in Seq(Run) /\ Len(runs') <= MaxRuns
         /\ issues' \in Seq(Issue) /\ findings' \subseteq Finding
         /\ \A r \in Runs : r \in Runs' /\ runs'[r] = runs[r]
    BY <1>4, <1>5, <1>6, <1>7, <1>9, RecordKeeps DEF IInv
  <1>11. WorkTyped' /\ work'.snapshot = work.snapshot
    <2>1. PICK left : left = Tail(work.left)
      OBVIOUS
    <2>2. work' = [work EXCEPT !.left = left] /\ left \in Seq(ToSet(Analyzers))
      BY <1>6, <2>1 DEF Evaluate
    <2> HIDE <2>1
    <2>3. /\ work' \in Work /\ work'.at = work.at /\ work'.snapshot = work.snapshot
          /\ work'.indexed = work.indexed
      BY <1>4, <2>2 DEF Work
    <2> QED  BY <1>4, <2>3 DEF IInv, WorkTyped, Ids
  <1> QED  BY <1>4, <1>10, <1>11, RunsMayGrow

-----------------------------------------------------------------------------
(* The invariant is inductive.                                             *)

(* Empty tables and a reader that has not begun satisfy it.                *)
LEMMA InitHolds == Init => IInv
  <1> SUFFICES ASSUME Init  PROVE IInv
    OBVIOUS
  <1>1. /\ snapshots = <<>> /\ runs = <<>> /\ issues = <<>> /\ findings = {} /\ told = <<>>
        /\ Len(snapshots) = 0 /\ Len(runs) = 0 /\ Ids = {} /\ Runs = {}
        /\ 0 <= MaxSnapshots /\ 0 <= MaxRuns
    BY AnalysesAssumption DEF Init, Ids, Runs
  <1>2. work = [at |-> "rest", snapshot |-> 0, indexed |-> 0, left |-> <<>>]
    BY DEF Init, Rest
  <1>3. reader = [at |-> "idle", latest |-> FALSE, only |-> Subject, since |-> 0, size |-> 1,
                  before |-> 0, next |-> 0, page |-> <<>>, joined |-> {}, count |-> 0]
    BY DEF Init, NoReader
  <1>4. TypeOK
    <2>1. ToSet(reader.page) \subseteq Ids
      BY <1>3 DEF ToSet
    <2>2. index \in [CommitSha -> 0 .. Len(snapshots)]
      BY <1>1 DEF Init
    <2>3. work.at = "rest" /\ work.snapshot = 0 /\ reader.at = "idle"
      BY <1>2, <1>3
    <2> QED  BY <1>1, <2>1, <2>2, <2>3 DEF TypeOK
  <1>5. WorkTyped
    BY <1>1, <1>2 DEF WorkTyped, Work
  <1>6. ReaderTyped
    <2>1. reader \in Reader
      BY <1>3 DEF Reader
    <2>2. reader.since = 0 /\ reader.joined = {}
      BY <1>3
    <2> QED  BY <1>1, <2>1, <2>2 DEF ReaderTyped
  <1>7. RunsStored
    BY <1>1 DEF RunsStored, FindingsPlaced, FindingsComplete, IssuesApart, IssuesSeen, BaselinesBefore
  <1>8. RunsShownWhole
    BY <1>1 DEF RunsShownWhole
  <1>9. Listing
    BY <1>1, <1>3 DEF Listing, Descends, Covers
  <1> QED  BY <1>4, <1>5, <1>6, <1>7, <1>8, <1>9 DEF IInv

(* Every action keeps it, the lemma of which is above.                     *)
LEMMA StepKeepsInvariant == IInv /\ [Next]_vars => IInv'
  <1> SUFFICES ASSUME IInv, [Next]_vars  PROVE IInv'
    OBVIOUS
  <1>1. ASSUME NEW s \in Subject, NEW h \in CommitSha, Observe(s, h) \/ Analyse(s, h)
        PROVE  IInv'
    BY <1>1, ObserveKeeps, AnalyseKeeps
  <1>2. CASE Link
    BY <1>2, LinkKeeps
  <1>3. CASE Evaluate
    BY <1>3, EvaluateKeeps
  <1>4. CASE MarkAnalysed
    BY <1>4, MarkAnalysedKeeps
  <1>5. CASE Stop
    BY <1>5, StopKeeps
  <1>6. ASSUME NEW i \in Ids, RecordAudit(i) \/ ReadRow(i)  PROVE IInv'
    BY <1>6, RecordAuditKeeps, ReadRowKeeps
  <1>7. ASSUME NEW latest \in BOOLEAN, NEW only \in {Subject} \cup {{s} : s \in Subject},
               NEW size \in Pages, Begin(latest, only, size)
        PROVE  IInv'
    <2>1. only \in SUBSET Subject
      OBVIOUS
    <2> QED  BY <1>7, <2>1, BeginKeeps
  <1>8. CASE ReadRows
    BY <1>8, ReadRowsKeeps
  <1>9. CASE ReadRuns
    BY <1>9, ReadRunsKeeps
  <1>10. CASE ReadFindings
    BY <1>10, ReadFindingsKeeps
  <1>11. CASE UNCHANGED vars
    <2>1. UNCHANGED <<index, runs, findings, issues, reader, told>> /\ work' = work
          /\ snapshots' = snapshots
      BY <1>11 DEF vars, tables
    <2>2. ReadingsKept /\ Ids' = Ids
      BY <2>1 DEF ReadingsKept, IInv, TypeOK, Ids
    <2>3. WorkTyped' /\ work'.snapshot \in 0 .. Len(snapshots')
      BY <2>1, <2>2 DEF IInv, WorkTyped, TypeOK
    <2> QED  BY <2>1, <2>2, <2>3, ReadingsMayGrow
  <1> QED
    BY <1>1, <1>2, <1>3, <1>4, <1>5, <1>6, <1>7, <1>8, <1>9, <1>10, <1>11 DEF Next, Read

(* Every behaviour of the analyses' module keeps the invariant.            *)
THEOREM InvariantHolds == Spec => []IInv
  <1>1. Init => IInv
    BY InitHolds
  <1>2. IInv /\ [Next]_vars => IInv'
    BY StepKeepsInvariant
  <1> QED  BY <1>1, <1>2, PTL DEF Spec

-----------------------------------------------------------------------------
(* The properties.                                                         *)

(* Whoever pages a project's analyses to the end (AnalysisApi::analyses,   *)
(* SnapshotAnalysis::page) is told of every reading there was when it      *)
(* began, and of none twice, whatever is recorded between its requests.    *)
THEOREM PagingAlwaysSkipsNothing == Spec => []PagingSkipsNothing
  <1>1. IInv => PagingSkipsNothing
    <2> SUFFICES ASSUME IInv  PROVE PagingSkipsNothing
      OBVIOUS
    <2>1. ASSUME NEW k \in 2 .. Len(told)
          PROVE  told[k].id < told[k - 1].id
      <3>1. told \in Seq(Told)
        BY DEF IInv, ReaderTyped
      <3>2. k \in DOMAIN told /\ k - 1 \in DOMAIN told /\ k - 1 < k
        BY <3>1
      <3> QED  BY <3>2 DEF IInv, Listing, Descends
    <2>2. ASSUME reader.at = "end", NEW i \in 1 .. reader.since, Asked(i)
          PROVE  \E k \in DOMAIN told : told[k].id = i
      <3>1. reader.page = <<>>
        BY <2>2 DEF IInv, Listing
      <3>2. i \notin ToSet(reader.page) /\ ~ Ahead(i)
        BY <2>2, <3>1 DEF ToSet, Ahead
      <3> QED  BY <2>2, <3>2 DEF IInv, Listing, Covers, Tells
    <2> QED  BY <2>1, <2>2 DEF PagingSkipsNothing, Asked
  <1> QED  BY <1>1, InvariantHolds, PTL

(* A run that is read is read with all its analyzer found, save where a    *)
(* page has it at another row: it was recorded in one transaction          *)
(* (Run::record), and nothing takes away what it wrote.                    *)
THEOREM RunsAlwaysShownWhole == Spec => []RunsShownWhole
  <1>1. IInv => RunsShownWhole
    BY DEF IInv
  <1> QED  BY <1>1, InvariantHolds, PTL

(* One issue stands behind the findings of a fingerprint, first and last   *)
(* seen where these were (resolve_issue), and a run's baseline is an       *)
(* earlier run of its analyzer that succeeded (Run::last_successful).      *)
THEOREM IssuesAlwaysFollowFindings == Spec => []IssuesFollowFindings
  <1>1. IInv => IssuesFollowFindings
    BY DEF IInv, RunsStored, IssuesApart, IssuesSeen, Seen, BaselinesBefore, Before,
           IssuesFollowFindings
  <1> QED  BY <1>1, InvariantHolds, PTL

-----------------------------------------------------------------------------
(* The verdicts (Verdicts): the invariant.                                 *)

(* A reading of a commit with a run of every analyzer.                     *)
Whole(i, h) ==
  /\ i \in Ids /\ snapshots[i].head = h
  /\ \A a \in ToSet(Analyzers) : \E r \in RunsOf(i) : runs[r].analyzer = a

(* What runs come to, by what they found.                                  *)
Severities(rs) == {Severity(f) : f \in UNION {runs[r].found : r \in rs}}
Judged(rs) ==
  IF "high" \in Severities(rs) THEN "fail"
  ELSE IF Severities(rs) = {} /\ \A r \in rs : runs[r].status # "failed" THEN "pass"
  ELSE "attention"

(* A verdict counts a run of every analyzer, and all there are but audits. *)
Audited(r) == runs[r].analyzer = PACKAGE_AUDIT /\ runs[r].status = "succeeded"
Counted(c) == {r \in RunsOf(c.of) : r <= c.upto}
Fits(c, h) ==
  /\ c.of \in Ids /\ snapshots[c.of].head = h /\ c.upto \in 0 .. Len(runs)
  /\ \A a \in ToSet(Analyzers) : \E r \in Counted(c) : runs[r].analyzer = a
  /\ \A r \in RunsOf(c.of) : r <= c.upto \/ Audited(r)
  /\ c.says = Judged(Counted(c))
Sound(c, h) == c.of # 0 => Fits(c, h)

(* What is indexed, pointed at, linked or under way, and what the forge    *)
(* has been told or is being told.                                         *)
IndexWhole == \A h \in CommitSha : index[h] # 0 => Whole(index[h], h)
PointersWhole ==
  \A i \in Ids : snapshots[i].analysis # 0 => Whole(snapshots[i].analysis, snapshots[i].head)
Underway ==
  /\ work.at = "link" => Whole(work.indexed, snapshots[work.snapshot].head)
  /\ work.at = "runs" =>
       \A a \in ToSet(Analyzers) :
         a \in ToSet(work.left) \/ \E r \in RunsOf(work.snapshot) : runs[r].analyzer = a
  /\ work.at = "runs" /\ work.left # <<>> => \A h \in CommitSha : check[h].of # work.snapshot
Telling ==
  /\ work.at # "rest" => telling = Silent
  /\ telling = Silent \/ telling.at \in {"load", "send"}
  /\ telling.at = "load" => telling.head \in CommitSha /\ Whole(ShownWith(telling.snapshot), telling.head)
  /\ telling.at = "send" => telling.head \in CommitSha /\ Sound(telling.check, telling.head)
ChecksSound == DOMAIN check = CommitSha /\ \A h \in CommitSha : Sound(check[h], h)

VerdictsIInv == IInv /\ IndexWhole /\ PointersWhole /\ Underway /\ Telling /\ ChecksSound

-----------------------------------------------------------------------------
(* Tables that grow leave a whole reading whole and a verdict fitting.     *)
Grown ==
  /\ Len(runs) \in Nat /\ Len(runs') \in Nat /\ Len(runs) <= Len(runs')
  /\ \A r \in Runs : runs'[r] = runs[r]
  /\ \A i \in Ids : i \in Ids' /\ snapshots'[i].head = snapshots[i].head

(* A whole reading stays whole.                                            *)
LEMMA WholeStays ==
  ASSUME Grown, NEW i, NEW h, Whole(i, h)
  PROVE  Whole(i, h)'
  <1>1. Runs \subseteq Runs'
    BY DEF Grown, Runs
  <1> QED  BY <1>1 DEF Grown, Whole, RunsOf

(* A verdict stays fitting, when its analysis gets nothing but audits.     *)
LEMMA SoundStays ==
  ASSUME Grown, NEW c, NEW h, Sound(c, h),
         \A r \in Runs' : r \in Runs \/ runs'[r].snapshot # c.of \/ Audited(r)'
  PROVE  Sound(c, h)'
  <1> SUFFICES ASSUME c.of # 0  PROVE Fits(c, h)'
    BY DEF Sound
  <1>1. Fits(c, h)
    BY DEF Sound
  <1>2. Runs = 1 .. Len(runs) /\ Runs' = 1 .. Len(runs') /\ Runs \subseteq Runs'
    BY DEF Grown, Runs
  <1>3. c.upto \in 0 .. Len(runs)
    BY <1>1 DEF Fits
  <1>4. PICK C : C = Counted(c)
    OBVIOUS
  <1>5. C \subseteq Runs /\ \A r \in C : runs'[r] = runs[r]
    BY <1>4 DEF Counted, RunsOf, Grown
  <1>6. Counted(c)' = C
    <2>1. ASSUME NEW r \in Runs', r <= c.upto  PROVE r \in Runs
      BY <1>2, <1>3, <2>1 DEF Grown
    <2> QED  BY <1>2, <1>4, <2>1 DEF Counted, RunsOf, Grown
  <1>7. Judged(C)' = Judged(C)
    <2>1. Severities(C)' = Severities(C)
      BY <1>5 DEF Severities
    <2> QED  BY <1>5, <2>1 DEF Judged
  <1>8. \A r \in RunsOf(c.of)' : r <= c.upto \/ Audited(r)'
    <2>1. ASSUME NEW r \in RunsOf(c.of)'
          PROVE  r <= c.upto \/ Audited(r)'
      <3>1. r \in Runs' /\ runs'[r].snapshot = c.of
        BY DEF RunsOf
      <3>2. CASE r \in Runs
        <4>1. r \in RunsOf(c.of) /\ runs'[r] = runs[r]
          BY <3>1, <3>2 DEF Grown, RunsOf
        <4> QED  BY <1>1, <4>1 DEF Fits, Audited
      <3> QED  BY <3>1, <3>2
    <2> QED  BY <2>1
  <1>9. c.of \in Ids' /\ snapshots'[c.of].head = h
    BY <1>1 DEF Fits, Grown
  <1>10. c.upto \in 0 .. Len(runs')
    BY <1>3 DEF Grown
  <1>11. \A a \in ToSet(Analyzers) : \E r \in C : runs'[r].analyzer = a
    BY <1>1, <1>4, <1>5 DEF Fits
  <1>12. c.says = Judged(C)'
    BY <1>1, <1>4, <1>7 DEF Fits
  <1> QED  BY <1>6, <1>8, <1>9, <1>10, <1>11, <1>12 DEF Fits

(* What is so of all the tables hold of the index and the pointers, when   *)
(* neither changes.                                                        *)
LEMMA IndexStays ==
  ASSUME Grown, IndexWhole, UNCHANGED index
  PROVE  IndexWhole'
  <1> SUFFICES ASSUME NEW h \in CommitSha, index'[h] # 0  PROVE Whole(index[h], h)'
    BY DEF IndexWhole
  <1>1. PICK i : i = index[h]
    OBVIOUS
  <1>2. Whole(i, h)
    BY <1>1 DEF IndexWhole
  <1>3. Whole(i, h)'
    BY <1>2, WholeStays
  <1> QED  BY <1>1, <1>3 DEF Whole

(* A reading either points where it did, or at one that is whole.          *)
LEMMA PointersStay ==
  ASSUME Grown, PointersWhole,
         \A i \in Ids' : \/ snapshots'[i].analysis = 0
                         \/ Whole(snapshots'[i].analysis, snapshots'[i].head)
                         \/ i \in Ids /\ snapshots'[i].analysis = snapshots[i].analysis
  PROVE  PointersWhole'
  <1> SUFFICES ASSUME NEW i \in Ids', snapshots'[i].analysis # 0
               PROVE  Whole(snapshots[i].analysis, snapshots[i].head)'
    BY DEF PointersWhole
  <1>1. PICK a, h : a = snapshots'[i].analysis /\ h = snapshots'[i].head
    OBVIOUS
  <1>2. Whole(a, h)
    <2>1. CASE i \in Ids /\ snapshots'[i].analysis = snapshots[i].analysis
      <3>1. snapshots'[i].head = snapshots[i].head
        BY <2>1 DEF Grown
      <3>2. Whole(snapshots[i].analysis, snapshots[i].head)
        BY <2>1 DEF PointersWhole
      <3> QED  BY <1>1, <2>1, <3>1, <3>2
    <2> QED  BY <1>1, <2>1
  <1>3. Whole(a, h)'
    BY <1>2, WholeStays
  <1> QED  BY <1>1, <1>3 DEF Whole

(* The checks, when they do not change.                                    *)
LEMMA ChecksStay ==
  ASSUME Grown, ChecksSound, UNCHANGED check,
         \A h \in CommitSha : \A r \in Runs' :
           r \in Runs \/ runs'[r].snapshot # check[h].of \/ Audited(r)'
  PROVE  ChecksSound'
  <1>1. ASSUME NEW h \in CommitSha  PROVE Sound(check[h], h)'
    <2>1. PICK c : c = check[h]
      OBVIOUS
    <2>2. Sound(c, h)'
      BY <2>1, SoundStays DEF ChecksSound
    <2> QED  BY <2>1, <2>2 DEF Sound, Fits, Counted
  <1> QED  BY <1>1 DEF ChecksSound

(* What is under way, when readings, work and checks are as they were.     *)
LEMMA UnderwayStays ==
  ASSUME Grown, Underway, UNCHANGED <<snapshots, work, check>>
  PROVE  Underway'
  <1>1. ASSUME work.at = "link"  PROVE Whole(work.indexed, snapshots[work.snapshot].head)'
    <2>1. PICK i, h : i = work.indexed /\ h = snapshots[work.snapshot].head
      OBVIOUS
    <2>2. Whole(i, h)'
      BY <1>1, <2>1, WholeStays DEF Underway
    <2> QED  BY <2>1, <2>2 DEF Whole
  <1>2. ASSUME work.at = "runs", NEW a \in ToSet(Analyzers)
        PROVE  a \in ToSet(work.left) \/ \E r \in RunsOf(work.snapshot)' : runs'[r].analyzer = a
    <2>1. ASSUME NEW r \in RunsOf(work.snapshot), runs[r].analyzer = a
          PROVE  r \in RunsOf(work.snapshot)' /\ runs'[r].analyzer = a
      <3>1. r \in Runs' /\ runs'[r] = runs[r]
        BY DEF RunsOf, Grown, Runs
      <3> QED  BY <2>1, <3>1 DEF RunsOf
    <2> QED  BY <1>2, <2>1 DEF Underway
  <1> QED  BY <1>1, <1>2 DEF Underway

(* What is being told, when the readings are as they were.                 *)
LEMMA TellingStays ==
  ASSUME Grown, Telling, UNCHANGED <<snapshots, telling>>, work'.at # "rest" => work.at # "rest",
         \A r \in Runs' : r \in Runs \/ Audited(r)'
  PROVE  Telling'
  <1>1. ASSUME telling.at = "load"  PROVE Whole(ShownWith(telling.snapshot), telling.head)'
    <2>1. PICK i, h : i = ShownWith(telling.snapshot) /\ h = telling.head
      OBVIOUS
    <2>2. Whole(i, h)'
      BY <1>1, <2>1, WholeStays DEF Telling
    <2>3. i = ShownWith(telling.snapshot)'
      BY <2>1 DEF ShownWith
    <2> QED  BY <2>1, <2>2, <2>3 DEF Whole
  <1>2. ASSUME telling.at = "send"  PROVE Sound(telling.check, telling.head)'
    <2>1. PICK c, h : c = telling.check /\ h = telling.head
      OBVIOUS
    <2>2. Sound(c, h)'
      BY <1>2, <2>1, SoundStays DEF Telling
    <2> QED  BY <2>1, <2>2 DEF Sound, Fits, Counted
  <1> QED  BY <1>1, <1>2 DEF Telling

-----------------------------------------------------------------------------
(* The steps.                                                              *)

(* Tables that are as they were.                                           *)
LEMMA TablesSame ==
  ASSUME IInv, UNCHANGED <<snapshots, runs>>
  PROVE  Grown /\ Runs' = Runs /\ Ids' = Ids
  BY DEF IInv, TypeOK, Grown, Runs, Ids

(* A reading is recorded: a new one, or one that has no runs.              *)
LEMMA ReadingAdded ==
  ASSUME IInv, NEW s \in Subject, NEW h \in CommitSha, RecordReading(s, h), UNCHANGED runs
  PROVE  /\ Grown
         /\ snapshots'[Recorded(s, h)].head = h
         /\ Recorded(s, h) \in Ids => RunsOf(Recorded(s, h)) = {}
         /\ \A j \in Ids' : snapshots'[j].analysis = 0 \/ (j \in Ids /\ snapshots'[j] = snapshots[j])
  <1>1. PICK i : i = Recorded(s, h)
    OBVIOUS
  <1>2. snapshots \in Seq(Snapshot) /\ Len(snapshots) \in Nat /\ Len(runs) \in Nat
    BY DEF IInv, TypeOK
  <1>3. PICK bare : bare = {j \in Of(s, h) : Bare(j)}
    OBVIOUS
  <1>4. i = IF bare = {} THEN Len(snapshots) + 1 ELSE Min(bare)
    BY <1>1, <1>3 DEF Recorded
  <1>5. i \in bare \/ i = Len(snapshots) + 1
    <2>1. bare \in SUBSET Nat
      BY <1>3 DEF Of, Ids
    <2>2. bare # {} => Min(bare) \in bare
      BY <2>1, MinOf
    <2> QED  BY <1>4, <2>2
  <1>6. CASE i \in Ids
    <2>1. snapshots' = snapshots
      BY <1>1, <1>6 DEF RecordReading
    <2>2. i \in bare
      BY <1>2, <1>5, <1>6 DEF Ids
    <2>3. snapshots[i].head = h /\ RunsOf(i) = {}
      BY <1>3, <2>2 DEF Of, Bare
    <2> QED  BY <1>1, <1>2, <2>1, <2>3 DEF Grown, Ids
  <1>7. CASE i \notin Ids
    <2>1. i = Len(snapshots) + 1
      BY <1>3, <1>5, <1>7 DEF Of
    <2>2. PICK reading : reading = [subject |-> s, head |-> h, analysis |-> 0]
      OBVIOUS
    <2>3. reading \in Snapshot /\ reading.head = h /\ reading.analysis = 0
      BY <2>2, AnalysesAssumption DEF Snapshot
    <2>4. snapshots' = Append(snapshots, reading)
      BY <1>1, <1>7, <2>2 DEF RecordReading
    <2> HIDE <2>2
    <2>5. /\ Len(snapshots') = Len(snapshots) + 1 /\ snapshots'[i] = reading
          /\ \A j \in 1 .. Len(snapshots) : snapshots'[j] = snapshots[j]
      BY <1>2, <2>1, <2>3, <2>4, AppendProperties
    <2>6. Ids' = Ids \cup {i}
      BY <1>2, <2>1, <2>5 DEF Ids
    <2>7. Grown
      BY <1>2, <2>5, <2>6 DEF Grown, Ids
    <2>8. \A j \in Ids' : snapshots'[j].analysis = 0 \/ (j \in Ids /\ snapshots'[j] = snapshots[j])
      <3>1. \A j \in Ids : snapshots'[j] = snapshots[j]
        BY <2>5 DEF Ids
      <3>2. snapshots'[i].analysis = 0
        BY <2>3, <2>5
      <3>3. ASSUME NEW j \in Ids'
            PROVE  snapshots'[j].analysis = 0 \/ (j \in Ids /\ snapshots'[j] = snapshots[j])
        <4>1. j \in Ids \/ j = i
          BY <2>6
        <4> QED  BY <3>1, <3>2, <4>1
      <3> QED  BY <3>3
    <2> QED  BY <1>1, <1>7, <2>3, <2>5, <2>7, <2>8
  <1> QED  BY <1>6, <1>7

(* A reading points at another.                                            *)
LEMMA PointerSet ==
  ASSUME IInv, NEW i \in Ids, NEW a, snapshots' = [snapshots EXCEPT ![i].analysis = a], UNCHANGED runs
  PROVE  /\ Grown /\ Ids' = Ids
         /\ snapshots'[i].analysis = a
         /\ \A j \in Ids : j = i \/ snapshots'[j].analysis = snapshots[j].analysis
  <1>1. snapshots \in Seq(Snapshot) /\ Len(snapshots) \in Nat /\ Len(runs) \in Nat
    BY DEF IInv, TypeOK
  <1>2. DOMAIN snapshots = 1 .. Len(snapshots) /\ Ids = 1 .. Len(snapshots)
    BY <1>1 DEF Ids
  <1>3. DOMAIN snapshots' = DOMAIN snapshots /\ Len(snapshots') = Len(snapshots)
    BY <1>1, <1>2
  <1>4. PICK old : old = snapshots[i]
    OBVIOUS
  <1>5. old \in Snapshot
    BY <1>1, <1>2, <1>4
  <1>6. PICK reading : reading = [old EXCEPT !.analysis = a]
    OBVIOUS
  <1>7. reading.analysis = a /\ reading.head = old.head
    BY <1>5, <1>6 DEF Snapshot
  <1>8. snapshots' = [snapshots EXCEPT ![i] = reading]
    BY <1>4, <1>6
  <1> HIDE <1>6
  <1>9. /\ snapshots'[i] = reading
        /\ \A j \in Ids : j = i \/ snapshots'[j] = snapshots[j]
    BY <1>2, <1>8
  <1> QED  BY <1>1, <1>2, <1>3, <1>4, <1>7, <1>9 DEF Grown, Ids

(* A commit is observed, by whoever waits for no forge.                    *)
LEMMA ObserveTells ==
  ASSUME VerdictsIInv, IInv', NEW s \in Subject, NEW h \in CommitSha,
         telling = Silent, Observe(s, h), UNCHANGED <<check, telling>>
  PROVE  VerdictsIInv'
  <1>1. /\ IInv /\ IndexWhole /\ PointersWhole /\ ChecksSound
        /\ work = Rest /\ UNCHANGED <<index, runs>>
    BY DEF VerdictsIInv, Observe
  <1>2. Runs' = Runs
    BY <1>1 DEF Runs
  <1>3. Grown /\ PointersWhole' /\ Underway'
    <2>1. CASE Of(s, h) = {}
      <3>1. RecordReading(s, h)
        BY <2>1 DEF Observe
      <3>2. /\ Grown /\ snapshots'[Recorded(s, h)].head = h
            /\ \A j \in Ids' : snapshots'[j].analysis = 0 \/ (j \in Ids /\ snapshots'[j] = snapshots[j])
        BY <1>1, <3>1, ReadingAdded
      <3>3. PointersWhole'
        BY <1>1, <3>2, PointersStay
      <3>4. CASE index[h] = 0
        <4>1. work'.at = "rest"
          BY <2>1, <3>4 DEF Observe, Rest
        <4> QED  BY <3>2, <3>3, <4>1 DEF Underway
      <3>5. CASE index[h] # 0
        <4>1. PICK i, x : i = Recorded(s, h) /\ x = index[h]
          OBVIOUS
        <4>2. work' = [at |-> "link", snapshot |-> i, indexed |-> x, left |-> <<>>]
          BY <2>1, <3>5, <4>1 DEF Observe, Rest
        <4>3. Whole(x, h)'
          <5>1. Whole(x, h)
            BY <1>1, <3>5, <4>1 DEF IndexWhole
          <5> QED  BY <3>2, <5>1, WholeStays
        <4>4. work'.at = "link" /\ work'.indexed = x /\ snapshots'[work'.snapshot].head = h
          BY <3>2, <4>1, <4>2
        <4>5. Whole(work.indexed, snapshots[work.snapshot].head)'
          BY <4>3, <4>4 DEF Whole
        <4> QED  BY <3>2, <3>3, <4>4, <4>5 DEF Underway
      <3> QED  BY <3>4, <3>5
    <2>2. CASE Of(s, h) # {}
      <3>1. PICK i : i = Max(Of(s, h))
        OBVIOUS
      <3>2. PICK a : a = IF index[h] = i THEN 0 ELSE index[h]
        OBVIOUS
      <3>3. snapshots' = [snapshots EXCEPT ![i].analysis = a] /\ work' = work
        BY <2>2, <3>1, <3>2 DEF Observe
      <3>4. i \in Of(s, h)
        <4>1. Of(s, h) \in SUBSET (1 .. Len(snapshots)) /\ Len(snapshots) \in Nat
          BY <1>1 DEF Of, Ids, IInv, TypeOK
        <4> QED  BY <2>2, <3>1, <4>1, MaxOf
      <3>5. i \in Ids /\ snapshots[i].head = h
        BY <3>4 DEF Of
      <3>6. /\ Grown /\ Ids' = Ids /\ snapshots'[i].analysis = a
            /\ \A j \in Ids : j = i \/ snapshots'[j].analysis = snapshots[j].analysis
        BY <1>1, <3>3, <3>5, PointerSet
      <3>7. a = 0 \/ Whole(a, snapshots'[i].head)
        BY <1>1, <3>2, <3>5, <3>6 DEF IndexWhole, Grown
      <3>8. PointersWhole'
        <4>1. ASSUME NEW j \in Ids'
              PROVE  \/ snapshots'[j].analysis = 0
                     \/ Whole(snapshots'[j].analysis, snapshots'[j].head)
                     \/ j \in Ids /\ snapshots'[j].analysis = snapshots[j].analysis
          BY <3>6, <3>7
        <4> QED  BY <1>1, <3>6, <4>1, PointersStay
      <3>9. work'.at = "rest"
        BY <1>1, <3>3 DEF Rest
      <3> QED  BY <3>6, <3>8, <3>9 DEF Underway
    <2> QED  BY <2>1, <2>2
  <1>4. IndexWhole'
    BY <1>1, <1>3, IndexStays
  <1>5. ChecksSound'
    BY <1>1, <1>2, <1>3, ChecksStay
  <1>6. Telling'
    BY DEF Telling, Silent
  <1> QED  BY <1>3, <1>4, <1>5, <1>6 DEF VerdictsIInv

(* An analysis begins, of a reading no verdict is of.                      *)
LEMMA AnalyseTells ==
  ASSUME VerdictsIInv, IInv', NEW s \in Subject, NEW h \in CommitSha,
         telling = Silent, Analyse(s, h), UNCHANGED <<check, telling>>
  PROVE  VerdictsIInv'
  <1>1. /\ IInv /\ IndexWhole /\ PointersWhole /\ ChecksSound
        /\ RecordReading(s, h) /\ UNCHANGED <<index, runs>>
    BY DEF VerdictsIInv, Analyse
  <1>2. Runs' = Runs
    BY <1>1 DEF Runs
  <1>3. PICK i : i = Recorded(s, h)
    OBVIOUS
  <1>4. /\ Grown
        /\ i \in Ids => RunsOf(i) = {}
        /\ \A j \in Ids' : snapshots'[j].analysis = 0 \/ (j \in Ids /\ snapshots'[j] = snapshots[j])
    BY <1>1, <1>3, ReadingAdded
  <1>5. work' = [at |-> "runs", snapshot |-> i, indexed |-> 0, left |-> Analyzers]
    BY <1>3 DEF Analyse, Rest
  <1>6. Underway'
    <2>1. ASSUME Analyzers # <<>>, NEW g \in CommitSha  PROVE check[g].of # i
      <3>1. SUFFICES ASSUME check[g].of = i  PROVE FALSE
        OBVIOUS
      <3>2. i # 0
        <4>1. i \in Ids'
          BY <1>1, <1>3, ReadingRecorded
        <4> QED  BY <4>1 DEF Ids
      <3>3. Fits(check[g], g)
        BY <1>1, <3>1, <3>2 DEF ChecksSound, Sound
      <3>4. PICK a : a \in ToSet(Analyzers)
        <4>1. Analyzers \in Seq(ToSet(Analyzers))
          BY AnalysesAssumption
        <4> QED  BY <2>1, <4>1, EmptySeq
      <3>5. PICK r \in Counted(check[g]) : TRUE
        BY <3>3, <3>4 DEF Fits
      <3>6. r \in RunsOf(i) /\ i \in Ids
        BY <3>1, <3>3, <3>5 DEF Counted, Fits
      <3> QED  BY <1>4, <3>6
    <2>2. work'.at = "runs" /\ work'.left = Analyzers /\ work'.snapshot = i
      BY <1>5
    <2> QED  BY <2>1, <2>2 DEF Underway
  <1>7. PointersWhole'
    BY <1>1, <1>4, PointersStay
  <1>8. IndexWhole'
    BY <1>1, <1>4, IndexStays
  <1>9. ChecksSound'
    BY <1>1, <1>2, <1>4, ChecksStay
  <1>10. Telling'
    BY DEF Telling, Silent
  <1> QED  BY <1>6, <1>7, <1>8, <1>9, <1>10 DEF VerdictsIInv

(* A first reading is linked to the analysis of its commit.                *)
LEMMA LinkTells ==
  ASSUME VerdictsIInv, IInv', Link, UNCHANGED <<check, telling>>
  PROVE  VerdictsIInv'
  <1>1. /\ IInv /\ IndexWhole /\ PointersWhole /\ ChecksSound
        /\ UNCHANGED <<index, runs>> /\ work.at = "link"
    BY DEF VerdictsIInv, Link
  <1>2. Runs' = Runs
    BY <1>1 DEF Runs
  <1>3. PICK i, a : i = work.snapshot /\ a = work.indexed
    OBVIOUS
  <1>4. i \in Ids
    BY <1>1, <1>3 DEF IInv, WorkTyped
  <1>5. snapshots' = [snapshots EXCEPT ![i].analysis = a] /\ work'.at = "rest"
    BY <1>3 DEF Link, Rest
  <1>6. /\ Grown /\ Ids' = Ids /\ snapshots'[i].analysis = a
        /\ \A j \in Ids : j = i \/ snapshots'[j].analysis = snapshots[j].analysis
    BY <1>1, <1>4, <1>5, PointerSet
  <1>7. Whole(a, snapshots'[i].head)
    BY <1>1, <1>3, <1>4, <1>6 DEF VerdictsIInv, Underway, Grown
  <1>8. PointersWhole'
    <2>1. ASSUME NEW j \in Ids'
          PROVE  \/ snapshots'[j].analysis = 0
                 \/ Whole(snapshots'[j].analysis, snapshots'[j].head)
                 \/ j \in Ids /\ snapshots'[j].analysis = snapshots[j].analysis
      BY <1>6, <1>7
    <2> QED  BY <1>1, <1>6, <2>1, PointersStay
  <1>9. IndexWhole'
    BY <1>1, <1>6, IndexStays
  <1>10. ChecksSound'
    BY <1>1, <1>2, <1>6, ChecksStay
  <1>11. Telling'
    <2>1. telling = Silent
      BY <1>1 DEF VerdictsIInv, Telling
    <2> QED  BY <2>1 DEF Telling, Silent
  <1>12. Underway'
    BY <1>5 DEF Underway
  <1> QED  BY <1>8, <1>9, <1>10, <1>11, <1>12 DEF VerdictsIInv

(* What every run that is recorded leaves as it was.                       *)
LEMMA RunGrows ==
  ASSUME IInv, NEW at \in Ids, NEW analyzer \in ToSet(Analyzers) \cup {PACKAGE_AUDIT},
         NEW status \in Status, NEW against \in 0 .. MaxSnapshots, NEW found \in SUBSET Fingerprint,
         Record(at, analyzer, status, against, found), Len(runs) < MaxRuns, UNCHANGED snapshots
  PROVE  /\ Grown /\ Ids' = Ids
         /\ Runs' = Runs \cup {Len(runs) + 1}
         /\ runs'[Len(runs) + 1].snapshot = at /\ runs'[Len(runs) + 1].analyzer = analyzer
         /\ runs'[Len(runs) + 1].status = status
  <1>1. at \in 1 .. MaxSnapshots /\ runs \in Seq(Run) /\ Len(runs) \in Nat
    BY AnalysesAssumption DEF IInv, TypeOK, Ids
  <1>2. /\ Len(runs') = Len(runs) + 1 /\ \A r \in Runs : runs'[r] = runs[r]
        /\ runs'[Len(runs) + 1].snapshot = at /\ runs'[Len(runs) + 1].analyzer = analyzer
        /\ runs'[Len(runs) + 1].status = status
    BY <1>1, RunRecorded
  <1>3. Runs' = Runs \cup {Len(runs) + 1}
    BY <1>1, <1>2 DEF Runs
  <1> QED  BY <1>1, <1>2, <1>3 DEF Grown, Ids

(* Where neither the readings nor their index change, nor the checks.      *)
LEMMA RunTells ==
  ASSUME VerdictsIInv, Grown, UNCHANGED <<snapshots, index, check>>,
         \A h \in CommitSha : \A r \in Runs' :
           r \in Runs \/ runs'[r].snapshot # check[h].of \/ Audited(r)'
  PROVE  IndexWhole' /\ PointersWhole' /\ ChecksSound'
  <1>1. IndexWhole'
    BY IndexStays DEF VerdictsIInv
  <1>2. Ids' = Ids
    BY DEF Ids
  <1>3. PointersWhole'
    BY <1>2, PointersStay DEF VerdictsIInv
  <1>4. ChecksSound'
    BY ChecksStay DEF VerdictsIInv
  <1> QED  BY <1>1, <1>3, <1>4

(* An analyzer contributes to an analysis no verdict is of.                *)
LEMMA EvaluateTells ==
  ASSUME VerdictsIInv, IInv', Evaluate, UNCHANGED <<check, telling>>
  PROVE  VerdictsIInv'
  <1>1. /\ IInv /\ work.at = "runs" /\ work.left # <<>> /\ Len(runs) < MaxRuns
        /\ work \in Work /\ UNCHANGED <<snapshots, index>>
    BY DEF VerdictsIInv, Evaluate, IInv, WorkTyped
  <1>2. PICK analyzer, i, s, against :
          /\ analyzer = work.left[1] /\ i = work.snapshot /\ s = snapshots[i].subject
          /\ against = LastSuccessful(s, analyzer, i)
    OBVIOUS
  <1>3. PICK e \in Evaluation(analyzer) : Record(i, analyzer, e.status, against, e.found)
    BY <1>2 DEF Evaluate
  <1>4. e.status \in Status /\ e.found \in SUBSET Fingerprint
    BY <1>3 DEF Evaluation, Status
  <1>5. work.left \in Seq(ToSet(Analyzers)) /\ i \in Ids
    BY <1>1, <1>2 DEF Work, IInv, WorkTyped
  <1>6. analyzer \in ToSet(Analyzers) \cup {PACKAGE_AUDIT} /\ against \in 0 .. MaxSnapshots
    BY <1>1, <1>2, <1>5, BaselineFound DEF IInv
  <1>7. PICK R : R = Len(runs) + 1
    OBVIOUS
  <1>8. /\ Grown /\ Runs' = Runs \cup {R}
        /\ runs'[R].snapshot = i /\ runs'[R].analyzer = analyzer
    BY <1>1, <1>3, <1>4, <1>5, <1>6, <1>7, RunGrows
  <1>9. PICK left : left = work.left
    OBVIOUS
  <1>10. /\ left \in Seq(ToSet(Analyzers)) /\ left # <<>> /\ analyzer = left[1]
         /\ \A a \in ToSet(left) : a = left[1] \/ a \in ToSet(Tail(left))
    <2>1. left \in Seq(ToSet(Analyzers)) /\ left # <<>> /\ analyzer = left[1]
      BY <1>1, <1>2, <1>5, <1>9
    <2>2. ASSUME NEW a \in ToSet(left)  PROVE a = left[1] \/ a \in ToSet(Tail(left))
      <3>1. PICK k \in 1 .. Len(left) : a = left[k]
        BY <2>1 DEF ToSet
      <3>2. CASE k # 1
        <4>1. Len(left) \in Nat /\ k \in Nat
          BY <2>1
        <4>2. Len(Tail(left)) = Len(left) - 1 /\ k - 1 \in 1 .. Len(left) - 1
          BY <2>1, <3>1, <3>2, <4>1
        <4>3. Tail(left)[k - 1] = left[k] /\ k - 1 \in DOMAIN Tail(left)
          BY <2>1, <4>1, <4>2
        <4> QED  BY <3>1, <4>3 DEF ToSet
      <3> QED  BY <3>1, <3>2
    <2> QED  BY <2>1, <2>2
  <1>11. work'.at = "runs" /\ work'.snapshot = i /\ work'.left = Tail(left)
    BY <1>1, <1>2, <1>9 DEF Evaluate, Work
  <1>12. \A h \in CommitSha : check[h].of # i
    BY <1>1, <1>2 DEF VerdictsIInv, Underway
  <1>13. Underway'
    <2>1. ASSUME NEW a \in ToSet(Analyzers)
          PROVE  a \in ToSet(Tail(left)) \/ \E r \in RunsOf(i)' : runs'[r].analyzer = a
      <3>1. a \in ToSet(left) \/ \E r \in RunsOf(i) : runs[r].analyzer = a
        BY <1>1, <1>2, <1>9 DEF VerdictsIInv, Underway
      <3>2. CASE a = analyzer
        <4>1. R \in RunsOf(i)' /\ runs'[R].analyzer = a
          BY <1>8, <3>2 DEF RunsOf
        <4> QED  BY <4>1
      <3>3. ASSUME NEW r \in RunsOf(i), runs[r].analyzer = a
            PROVE  r \in RunsOf(i)' /\ runs'[r].analyzer = a
        BY <1>8, <3>3 DEF RunsOf, Grown
      <3> QED  BY <1>10, <3>1, <3>2, <3>3
    <2>2. \A h \in CommitSha : check'[h].of # work'.snapshot
      BY <1>11, <1>12
    <2>3. \A a \in ToSet(Analyzers) :
            a \in ToSet(work'.left) \/ \E r \in RunsOf(work.snapshot)' : runs'[r].analyzer = a
      BY <1>11, <2>1 DEF RunsOf
    <2> QED  BY <1>11, <2>2, <2>3 DEF Underway
  <1>14. \A h \in CommitSha : \A r \in Runs' :
           r \in Runs \/ runs'[r].snapshot # check[h].of \/ Audited(r)'
    BY <1>8, <1>12
  <1>15. IndexWhole' /\ PointersWhole' /\ ChecksSound'
    BY <1>1, <1>8, <1>14, RunTells
  <1>16. Telling'
    <2>1. telling = Silent
      BY <1>1 DEF VerdictsIInv, Telling
    <2> QED  BY <2>1 DEF Telling, Silent
  <1> QED  BY <1>13, <1>15, <1>16 DEF VerdictsIInv

(* An audit is recorded, whoever tells whom of what.                       *)
LEMMA AuditTells ==
  ASSUME VerdictsIInv, IInv', NEW i \in Ids, RecordAudit(i), UNCHANGED <<check, telling>>
  PROVE  VerdictsIInv'
  <1>1. IInv /\ UNCHANGED <<snapshots, index, work>>
    BY DEF VerdictsIInv, RecordAudit
  <1>2. PICK fs \in SUBSET Fingerprint : Record(i, PACKAGE_AUDIT, "succeeded", 0, fs)
    BY DEF RecordAudit
  <1>3. /\ Len(runs) < MaxRuns /\ PACKAGE_AUDIT \in ToSet(Analyzers) \cup {PACKAGE_AUDIT}
        /\ "succeeded" \in Status /\ 0 \in 0 .. MaxSnapshots
    BY AnalysesAssumption DEF RecordAudit, Status
  <1>4. PICK R : R = Len(runs) + 1
    OBVIOUS
  <1>5. Grown /\ Runs' = Runs \cup {R} /\ Audited(R)'
    BY <1>1, <1>2, <1>3, <1>4, RunGrows DEF Audited
  <1>6. \A r \in Runs' : r \in Runs \/ Audited(r)'
    BY <1>5
  <1>7. IndexWhole' /\ PointersWhole' /\ ChecksSound'
    BY <1>1, <1>5, <1>6, RunTells
  <1>8. Telling'
    BY <1>1, <1>5, <1>6, TellingStays DEF VerdictsIInv
  <1>9. Underway'
    BY <1>1, <1>5, UnderwayStays DEF VerdictsIInv
  <1> QED  BY <1>7, <1>8, <1>9 DEF VerdictsIInv

(* Whoever holds the lock stops, or an analysis fails.                     *)
LEMMA StopTells ==
  ASSUME VerdictsIInv, IInv', Stop, UNCHANGED <<check, telling>>
  PROVE  VerdictsIInv'
  <1>1. IInv /\ UNCHANGED <<snapshots, runs, index>> /\ work'.at = "rest"
    BY DEF VerdictsIInv, Stop, tables, Rest
  <1>2. Grown /\ Runs' = Runs
    BY <1>1, TablesSame
  <1>3. IndexWhole' /\ PointersWhole' /\ ChecksSound'
    BY <1>1, <1>2, RunTells
  <1>4. Telling'
    BY <1>1, <1>2, TellingStays DEF VerdictsIInv
  <1>5. Underway'
    BY <1>1 DEF Underway
  <1> QED  BY <1>3, <1>4, <1>5 DEF VerdictsIInv

(* What is shown with a reading that is whole, or points at one, is whole. *)
LEMMA ShownIsWhole ==
  ASSUME PointersWhole, NEW i \in Ids,
         snapshots[i].analysis = 0 => Whole(i, snapshots[i].head)
  PROVE  Whole(ShownWith(i), snapshots[i].head)
  BY DEF PointersWhole, ShownWith

(* An analysis is marked when every analyzer has contributed.              *)
LEMMA AnalysedTells ==
  ASSUME VerdictsIInv, IInv', Analysed
  PROVE  VerdictsIInv'
  <1>1. /\ IInv /\ IndexWhole /\ PointersWhole /\ Underway /\ work \in Work
        /\ UNCHANGED <<snapshots, runs, check>>
        /\ work.at = "runs" /\ work.left = <<>> /\ work'.at = "rest" /\ work' = Rest
    BY DEF VerdictsIInv, Analysed, MarkAnalysed, Rest, IInv, WorkTyped
  <1>2. Grown /\ Runs' = Runs /\ Ids' = Ids
    BY <1>1, TablesSame
  <1>3. PICK i, h : i = work.snapshot /\ h = snapshots[i].head
    OBVIOUS
  <1>4. i \in Ids
    BY <1>1, <1>3 DEF IInv, WorkTyped
  <1>5. h \in CommitSha
    <2>1. snapshots \in Seq(Snapshot) /\ i \in 1 .. Len(snapshots)
      BY <1>1, <1>4 DEF IInv, TypeOK, Ids
    <2>2. snapshots[i] \in Snapshot
      BY <2>1
    <2> QED  BY <1>3, <2>2 DEF Snapshot
  <1>6. Whole(i, h)
    <2>1. ToSet(work.left) = {}
      BY <1>1 DEF ToSet
    <2>2. \A a \in ToSet(Analyzers) : \E r \in RunsOf(i) : runs[r].analyzer = a
      BY <1>1, <1>3, <2>1 DEF Underway
    <2> QED  BY <1>3, <1>4, <2>2 DEF Whole
  <1>7. IndexWhole'
    <2>1. index \in [CommitSha -> 0 .. Len(snapshots)]
      BY <1>1 DEF IInv, TypeOK
    <2>2. ASSUME NEW g \in CommitSha, index'[g] # 0  PROVE Whole(index[g], g)'
      <3>1. PICK x : x = index'[g]
        OBVIOUS
      <3>2. index'[g] = index[g] \/ (g = h /\ index'[g] = i)
        BY <1>3, <2>1 DEF Analysed, MarkAnalysed
      <3>3. Whole(x, g)
        BY <1>1, <1>6, <2>2, <3>1, <3>2 DEF IndexWhole
      <3>4. Whole(x, g)'
        BY <1>2, <3>3, WholeStays
      <3> QED  BY <3>1, <3>4 DEF Whole
    <2> QED  BY <2>2 DEF IndexWhole
  <1>8. PointersWhole'
    <2>1. ASSUME NEW j \in Ids'  PROVE j \in Ids /\ snapshots'[j].analysis = snapshots[j].analysis
      BY <1>1, <1>2
    <2> QED  BY <1>1, <1>2, <2>1, PointersStay
  <1>9. ChecksSound'
    BY <1>1, <1>2, ChecksStay DEF VerdictsIInv
  <1>10. Telling'
    <2>1. PICK j : j = ShownWith(i)
      OBVIOUS
    <2>2. Whole(j, h)
      BY <1>1, <1>3, <1>4, <1>6, <2>1, ShownIsWhole
    <2>3. Whole(j, h)'
      BY <1>2, <2>2, WholeStays
    <2>4. telling'.at = "load" /\ telling'.head = h /\ telling'.snapshot = i
      BY <1>3 DEF Analysed
    <2>5. ShownWith(telling.snapshot)' = j
      BY <1>1, <2>1, <2>4 DEF ShownWith
    <2>6. Whole(ShownWith(telling.snapshot), telling.head)'
      BY <2>3, <2>4, <2>5 DEF Whole
    <2> QED  BY <1>1, <1>5, <2>4, <2>6 DEF Telling
  <1>11. Underway'
    BY <1>1 DEF Underway
  <1> QED  BY <1>7, <1>8, <1>9, <1>10, <1>11 DEF VerdictsIInv

(* Where the tables stay, and who works on them goes on or rests: what is  *)
(* told and what a check says is all there is to look at.                  *)
LEMMA OthersStay ==
  ASSUME VerdictsIInv, IInv', UNCHANGED <<snapshots, index, runs>>,
         work' = work \/ work'.at = "rest", \A h \in CommitSha : check'[h].of \in {0, check[h].of},
         Telling', ChecksSound'
  PROVE  VerdictsIInv'
  <1>1. IInv /\ IndexWhole /\ PointersWhole /\ Underway
    BY DEF VerdictsIInv
  <1>2. Grown /\ Runs' = Runs /\ Ids' = Ids
    BY <1>1, TablesSame
  <1>3. IndexWhole'
    BY <1>1, <1>2, IndexStays
  <1>4. PointersWhole'
    <2>1. ASSUME NEW j \in Ids'  PROVE j \in Ids /\ snapshots'[j].analysis = snapshots[j].analysis
      BY <1>2
    <2> QED  BY <1>1, <1>2, <2>1, PointersStay
  <1>5. Underway'
    <2>1. CASE work'.at = "rest"
      BY <2>1 DEF Underway
    <2>2. CASE work' = work
      <3>1. work.at = "link" => Whole(work.indexed, snapshots[work.snapshot].head)'
        BY <1>1, <1>2, <2>2 DEF Underway, Whole, RunsOf
      <3>2. ASSUME work.at = "runs", NEW a \in ToSet(Analyzers)
            PROVE  a \in ToSet(work.left) \/ \E r \in RunsOf(work.snapshot)' : runs'[r].analyzer = a
        BY <1>1, <1>2, <2>2, <3>2 DEF Underway, RunsOf
      <3>3. ASSUME work.at = "runs", work.left # <<>>, NEW h \in CommitSha
            PROVE  check'[h].of # work.snapshot
        <4>1. check[h].of # work.snapshot
          BY <1>1, <3>3 DEF Underway
        <4>2. work.snapshot # 0
          BY <1>1, <3>3 DEF IInv, WorkTyped, Ids
        <4> QED  BY <4>1, <4>2
      <3> QED  BY <2>2, <3>1, <3>2, <3>3 DEF Underway
    <2> QED  BY <2>1, <2>2
  <1> QED  BY <1>3, <1>4, <1>5 DEF VerdictsIInv

(* A check says what it said, and its tables are as they were.             *)
LEMMA SoundSame ==
  ASSUME UNCHANGED <<snapshots, runs>>, NEW c, NEW h, Sound(c, h)
  PROVE  Sound(c, h)'
  <1>1. Runs' = Runs /\ Ids' = Ids /\ Counted(c)' = Counted(c)
    BY DEF Runs, Ids, Counted, RunsOf
  <1>2. Judged(Counted(c))' = Judged(Counted(c))
    BY <1>1 DEF Judged, Severities
  <1>3. RunsOf(c.of)' = RunsOf(c.of) /\ \A r \in Runs : Audited(r)' <=> Audited(r)
    BY <1>1 DEF RunsOf, Audited
  <1> QED  BY <1>1, <1>2, <1>3 DEF Sound, Fits, RunsOf

(* A step that leaves the tables and the checks.                           *)
LEMMA ChecksSame ==
  ASSUME ChecksSound, UNCHANGED <<snapshots, runs, check>>
  PROVE  ChecksSound'
  <1>1. ASSUME NEW h \in CommitSha  PROVE Sound(check[h], h)'
    <2>1. PICK c : c = check[h]
      OBVIOUS
    <2>2. Sound(c, h)'
      BY <2>1, SoundSame DEF ChecksSound
    <2> QED  BY <2>1, <2>2 DEF Sound, Fits, Counted
  <1> QED  BY <1>1 DEF ChecksSound

(* A pass comes to a commit that was analysed before.                      *)
LEMMA SettledTells ==
  ASSUME VerdictsIInv, IInv', NEW h \in CommitSha, Settled(h)
  PROVE  VerdictsIInv'
  <1>1. /\ IInv /\ IndexWhole /\ PointersWhole /\ ChecksSound /\ work.at = "rest" /\ index[h] # 0
        /\ UNCHANGED <<snapshots, index, runs, work, check>>
    BY DEF VerdictsIInv, Settled, vars, tables, Rest
  <1>2. PICK i : i = index[h]
    OBVIOUS
  <1>3. Whole(i, h)
    BY <1>1, <1>2 DEF IndexWhole
  <1>4. i \in Ids /\ snapshots[i].head = h
    BY <1>3 DEF Whole
  <1>5. Whole(ShownWith(i), h)
    BY <1>1, <1>3, <1>4, ShownIsWhole
  <1>6. telling'.at = "load" /\ telling'.head = h /\ telling'.snapshot = i
    BY <1>2 DEF Settled
  <1>7. Whole(ShownWith(telling.snapshot), telling.head)'
    BY <1>1, <1>5, <1>6 DEF Whole, ShownWith, Ids, RunsOf, Runs
  <1>8. Telling'
    BY <1>1, <1>6, <1>7 DEF Telling
  <1> QED  BY <1>1, <1>8, ChecksSame, OthersStay

(* An analysis that does not end is told of as such.                       *)
LEMMA UnfinishedTells ==
  ASSUME VerdictsIInv, IInv', NEW h \in CommitSha, Unfinished(h)
  PROVE  VerdictsIInv'
  <1>1. /\ ChecksSound /\ UNCHANGED <<snapshots, index, runs, check>> /\ work'.at = "rest"
        /\ telling'.at = "send" /\ telling'.head = h /\ telling'.check.of = 0
    BY DEF VerdictsIInv, Unfinished, tables, Rest, UnfinishedCheck
  <1>2. Telling'
    BY <1>1 DEF Telling, Sound
  <1> QED  BY <1>1, <1>2, ChecksSame, OthersStay

(* What a check is made of fits the tables it was read from.               *)
LEMMA ScannedFits ==
  ASSUME IInv, NEW i, NEW h, Whole(ShownWith(i), h)
  PROVE  Sound(ScannedCheck(i), h)
  <1>1. PICK c : c = ScannedCheck(i)
    OBVIOUS
  <1>2. PICK j : j = ShownWith(i)
    OBVIOUS
  <1>3. c.of = j /\ c.upto = Len(runs) /\ c.says = Verdict(i)
    BY <1>1, <1>2 DEF ScannedCheck
  <1>4. Len(runs) \in Nat /\ Runs = 1 .. Len(runs)
    BY DEF IInv, TypeOK, Runs
  <1>5. Counted(c) = RunsOf(j)
    BY <1>3, <1>4 DEF Counted, RunsOf
  <1>6. {Severity(f) : f \in UNION {FindingsOf(r) : r \in RunsOf(j)}} = Severities(RunsOf(j))
    <2>1. \A r \in RunsOf(j) : FindingsOf(r) = runs[r].found
      BY DEF IInv, RunsStored, FindingsComplete, RunsOf
    <2>2. {FindingsOf(r) : r \in RunsOf(j)} = {runs[r].found : r \in RunsOf(j)}
      BY <2>1
    <2> QED  BY <2>2 DEF Severities
  <1>7. Verdict(i) = Judged(RunsOf(j))
    BY <1>2, <1>6 DEF Verdict, Judged
  <1>8. \A r \in RunsOf(j) : r <= c.upto
    BY <1>3, <1>4 DEF RunsOf
  <1>9. j \in Ids /\ snapshots[j].head = h
        /\ \A a \in ToSet(Analyzers) : \E r \in RunsOf(j) : runs[r].analyzer = a
    BY <1>2 DEF Whole
  <1>10. Fits(c, h)
    BY <1>3, <1>4, <1>5, <1>7, <1>8, <1>9 DEF Fits
  <1> QED  BY <1>1, <1>10 DEF Sound

(* A verdict is read.                                                      *)
LEMMA LoadTells ==
  ASSUME VerdictsIInv, IInv', LoadVerdict
  PROVE  VerdictsIInv'
  <1>1. /\ IInv /\ Telling /\ ChecksSound /\ telling.at = "load"
        /\ UNCHANGED <<snapshots, index, runs, work, check>>
    BY DEF VerdictsIInv, LoadVerdict, vars, tables
  <1>2. telling # Silent
    BY <1>1 DEF Silent
  <1>3. work.at = "rest" /\ telling.head \in CommitSha
    BY <1>1, <1>2 DEF Telling
  <1>4. CASE telling' = Silent
    <2>1. Telling'
      BY <1>4 DEF Telling, Silent
    <2> QED  BY <1>1, <2>1, ChecksSame, OthersStay
  <1>5. CASE telling' # Silent
    <2>1. PICK c, h : c = ScannedCheck(telling.snapshot) /\ h = telling.head
      OBVIOUS
    <2>2. telling'.at = "send" /\ telling'.head = h /\ telling'.check = c
      BY <1>5, <2>1 DEF LoadVerdict
    <2>3. Sound(c, h)
      BY <1>1, <2>1, ScannedFits DEF Telling
    <2>4. Sound(c, h)'
      BY <1>1, <2>3, SoundSame
    <2>5. Sound(telling.check, telling.head)'
      BY <2>2, <2>4 DEF Sound, Fits, Counted
    <2>6. Telling'
      BY <1>1, <1>3, <2>1, <2>2, <2>5 DEF Telling
    <2> QED  BY <1>1, <2>6, ChecksSame, OthersStay
  <1> QED  BY <1>4, <1>5

(* A forge takes a verdict: no analysis is under way.                      *)
LEMMA SendTells ==
  ASSUME VerdictsIInv, IInv', Send
  PROVE  VerdictsIInv'
  <1>1. /\ IInv /\ IndexWhole /\ PointersWhole /\ Telling /\ ChecksSound /\ telling.at = "send"
        /\ UNCHANGED <<snapshots, index, runs, work>> /\ telling' = Silent
    BY DEF VerdictsIInv, Send, vars, tables
  <1>2. work'.at = "rest"
    BY <1>1 DEF Telling, Silent
  <1>3. PICK c, h : c = telling.check /\ h = telling.head
    OBVIOUS
  <1>4. h \in CommitSha /\ Sound(c, h) /\ check' = [check EXCEPT ![h] = c]
    BY <1>1, <1>3 DEF Telling, Send
  <1>5. ChecksSound'
    <2>1. DOMAIN check = CommitSha
      BY <1>1 DEF ChecksSound
    <2>2. ASSUME NEW g \in CommitSha  PROVE Sound(check[g], g)'
      <3>1. PICK d : d = check'[g]
        OBVIOUS
      <3>2. Sound(d, g)
        BY <1>1, <1>4, <2>1, <3>1 DEF ChecksSound
      <3>3. Sound(d, g)'
        BY <1>1, <3>2, SoundSame
      <3> QED  BY <3>1, <3>3 DEF Sound, Fits, Counted
    <2> QED  BY <1>4, <2>1, <2>2 DEF ChecksSound
  <1>6. Telling'
    BY <1>1 DEF Telling, Silent
  <1>7. Grown /\ Ids' = Ids
    BY <1>1, TablesSame
  <1>8. IndexWhole'
    BY <1>1, <1>7, IndexStays
  <1>9. PointersWhole'
    <2>1. ASSUME NEW j \in Ids'  PROVE j \in Ids /\ snapshots'[j].analysis = snapshots[j].analysis
      BY <1>1, <1>7
    <2> QED  BY <1>1, <1>7, <2>1, PointersStay
  <1>10. Underway'
    BY <1>2 DEF Underway
  <1> QED  BY <1>5, <1>6, <1>8, <1>9, <1>10 DEF VerdictsIInv

(* A write is given up, or its process stops.                              *)
LEMMA DropTells ==
  ASSUME VerdictsIInv, IInv', Drop
  PROVE  VerdictsIInv'
  <1>1. ChecksSound /\ UNCHANGED <<snapshots, index, runs, work, check>> /\ telling' = Silent
    BY DEF VerdictsIInv, Drop, vars, tables
  <1>2. Telling'
    BY <1>1 DEF Telling, Silent
  <1> QED  BY <1>1, <1>2, ChecksSame, OthersStay

(* A check is opened again, or forgotten.                                  *)
LEMMA ReopenTells ==
  ASSUME VerdictsIInv, IInv', NEW h \in CommitSha, Reopen(h)
  PROVE  VerdictsIInv'
  <1>1. /\ IInv /\ Telling /\ ChecksSound
        /\ UNCHANGED <<snapshots, index, runs, work, telling>>
        /\ check' = [check EXCEPT ![h] = NoCheck]
    BY DEF VerdictsIInv, Reopen, vars, tables
  <1>2. DOMAIN check = CommitSha /\ NoCheck.of = 0
    BY <1>1 DEF ChecksSound, NoCheck
  <1>3. \A g \in CommitSha : check'[g] = check[g] \/ (g = h /\ check'[g].of = 0)
    BY <1>1, <1>2
  <1>4. ChecksSound'
    <2>1. ASSUME NEW g \in CommitSha  PROVE Sound(check[g], g)'
      <3>1. PICK d : d = check'[g]
        OBVIOUS
      <3>2. Sound(d, g)
        BY <1>1, <1>3, <3>1 DEF ChecksSound, Sound
      <3>3. Sound(d, g)'
        BY <1>1, <3>2, SoundSame
      <3> QED  BY <3>1, <3>3 DEF Sound, Fits, Counted
    <2> QED  BY <1>1, <1>2, <2>1 DEF ChecksSound
  <1>5. Telling'
    <2>1. Grown /\ Runs' = Runs
      BY <1>1, TablesSame
    <2> QED  BY <1>1, <2>1, TellingStays
  <1> QED  BY <1>1, <1>3, <1>4, <1>5, OthersStay

(* Somebody reads.                                                         *)
LEMMA ReadLeaves ==
  ASSUME Read
  PROVE  UNCHANGED <<tables, work>>
  BY DEF Read, Begin, ReadRow, ReadRows, ReadRuns, ReadFindings

(* Nothing happens, or only somebody reads.                                *)
LEMMA NothingTells ==
  ASSUME VerdictsIInv, IInv', UNCHANGED <<tables, work, check, telling>>
  PROVE  VerdictsIInv'
  <1>1. /\ IInv /\ Telling /\ ChecksSound
        /\ UNCHANGED <<snapshots, index, runs, work, check, telling>>
    BY DEF VerdictsIInv, tables
  <1>2. Grown /\ Runs' = Runs
    BY <1>1, TablesSame
  <1>3. Telling'
    BY <1>1, <1>2, TellingStays
  <1> QED  BY <1>1, <1>3, ChecksSame, OthersStay

-----------------------------------------------------------------------------
(* The invariant holds.                                                    *)

(* In the beginning nothing was told.                                      *)
LEMMA VerdictsInitHolds == VerdictsInit => VerdictsIInv
  <1> SUFFICES ASSUME VerdictsInit  PROVE VerdictsIInv
    OBVIOUS
  <1>1. IInv
    BY InitHolds DEF VerdictsInit
  <1>2. /\ snapshots = <<>> /\ index = [h \in CommitSha |-> 0] /\ work.at = "rest"
        /\ check = [h \in CommitSha |-> NoCheck] /\ telling = Silent
    BY DEF VerdictsInit, Init, Rest
  <1>3. IndexWhole /\ PointersWhole /\ Underway
    BY <1>2 DEF IndexWhole, PointersWhole, Underway, Ids
  <1>4. Telling
    BY <1>2 DEF Telling, Silent
  <1>5. ChecksSound
    BY <1>2 DEF ChecksSound, Sound, NoCheck
  <1> QED  BY <1>1, <1>3, <1>4, <1>5 DEF VerdictsIInv

(* The steps of this module are steps of Analyses, or leave its tables.    *)
LEMMA VerdictsStepsAnalyse ==
  ASSUME IInv, [VerdictsNext]_verdictVars
  PROVE  [Next]_vars
  <1>1. CASE Write
    BY <1>1 DEF Write, Next
  <1>2. CASE Analysed
    BY <1>2 DEF Analysed, Next
  <1>3. ASSUME NEW h \in CommitSha, Unfinished(h)  PROVE [Next]_vars
    <2>1. work' = Rest /\ UNCHANGED <<tables, reader, told>>
      BY <1>3 DEF Unfinished
    <2>2. CASE work = Rest
      BY <2>1, <2>2 DEF vars
    <2>3. CASE work # Rest
      BY <2>1, <2>3 DEF Stop, Next
    <2> QED  BY <2>2, <2>3
  <1>4. CASE LoadVerdict \/ Send \/ Drop \/ UNCHANGED verdictVars
    BY <1>4 DEF LoadVerdict, Send, Drop, verdictVars
  <1>5. ASSUME NEW h \in CommitSha, Settled(h) \/ Reopen(h)  PROVE [Next]_vars
    BY <1>5 DEF Settled, Reopen
  <1> QED  BY <1>1, <1>2, <1>3, <1>4, <1>5 DEF VerdictsNext

(* Every step keeps it.                                                    *)
LEMMA VerdictsStepKeeps == VerdictsIInv /\ [VerdictsNext]_verdictVars => VerdictsIInv'
  <1> SUFFICES ASSUME VerdictsIInv, [VerdictsNext]_verdictVars  PROVE VerdictsIInv'
    OBVIOUS
  <1>1. IInv'
    <2>1. IInv
      BY DEF VerdictsIInv
    <2> QED  BY <2>1, VerdictsStepsAnalyse, StepKeepsInvariant
  <1>2. ASSUME Write  PROVE VerdictsIInv'
    <2>1. UNCHANGED <<check, telling>>
      BY <1>2 DEF Write
    <2>2. ASSUME NEW s \in Subject, NEW h \in CommitSha, telling = Silent,
                 Observe(s, h) \/ Analyse(s, h)
          PROVE  VerdictsIInv'
      BY <1>1, <2>1, <2>2, ObserveTells, AnalyseTells
    <2>3. CASE Link
      BY <1>1, <2>1, <2>3, LinkTells
    <2>4. CASE Evaluate
      BY <1>1, <2>1, <2>4, EvaluateTells
    <2>5. CASE Stop
      BY <1>1, <2>1, <2>5, StopTells
    <2>6. ASSUME NEW i \in Ids, RecordAudit(i)  PROVE VerdictsIInv'
      BY <1>1, <2>1, <2>6, AuditTells
    <2>7. CASE Read
      BY <1>1, <2>1, <2>7, ReadLeaves, NothingTells
    <2> QED  BY <1>2, <2>2, <2>3, <2>4, <2>5, <2>6, <2>7 DEF Write
  <1>3. ASSUME NEW h \in CommitSha, Settled(h) \/ Unfinished(h) \/ Reopen(h)  PROVE VerdictsIInv'
    BY <1>1, <1>3, SettledTells, UnfinishedTells, ReopenTells
  <1>4. CASE Analysed \/ LoadVerdict \/ Send \/ Drop
    BY <1>1, <1>4, AnalysedTells, LoadTells, SendTells, DropTells
  <1>5. CASE UNCHANGED verdictVars
    <2>1. UNCHANGED <<tables, work, check, telling>>
      BY <1>5 DEF verdictVars, vars
    <2> QED  BY <1>1, <2>1, NothingTells
  <1> QED  BY <1>2, <1>3, <1>4, <1>5 DEF VerdictsNext

(* What checks say is what they counted, of a whole analysis.              *)
LEMMA VerdictsFit == VerdictsIInv => OutrunOnlyByAudits
  <1> SUFFICES ASSUME VerdictsIInv, NEW h \in CommitSha, check[h].of # 0
               PROVE  LET counted == {r \in RunsOf(check[h].of) : r <= check[h].upto}
                          later == RunsOf(check[h].of) \ counted
                          status == AnalysisStatus(check[h].of)
                      IN /\ snapshots[check[h].of].head = h
                         /\ \A a \in ToSet(Analyzers) : \E r \in counted : runs[r].analyzer = a
                         /\ \A r \in later : runs[r].analyzer = PACKAGE_AUDIT
                         /\ check[h].says = "fail" => status = "alarming"
                         /\ check[h].says = "pass" /\ (\A r \in later : FindingsOf(r) = {}) =>
                              status \in {"clear", "unscanned"}
                         /\ check[h].says # "fail" /\ status = "alarming" =>
                              High(later) \/ \E r \in counted : runs[r].status = "failed"
    BY DEF OutrunOnlyByAudits
  <1>1. PICK c : c = check[h]
    OBVIOUS
  <1>2. Fits(c, h)
    BY <1>1 DEF VerdictsIInv, ChecksSound, Sound
  <1>3. PICK all, counted, later :
          all = RunsOf(c.of) /\ counted = {r \in all : r <= c.upto} /\ later = all \ counted
    OBVIOUS
  <1>4. PICK status : status = AnalysisStatus(c.of)
    OBVIOUS
  <1>5. PICK found : found = UNION {FindingsOf(r) : r \in all}
    OBVIOUS
  <1>6. \A r \in all : FindingsOf(r) = runs[r].found
    BY <1>3 DEF VerdictsIInv, IInv, RunsStored, FindingsComplete, RunsOf
  <1>7. Counted(c) = counted /\ c.says = Judged(counted)
    BY <1>2, <1>3 DEF Fits, Counted
  <1>8. \A r \in later : Audited(r)
    BY <1>2, <1>3 DEF Fits
  <1>9. Severities(counted) = {Severity(f) : f \in UNION {FindingsOf(r) : r \in counted}}
    <2>1. {runs[r].found : r \in counted} = {FindingsOf(r) : r \in counted}
      BY <1>3, <1>6
    <2> QED  BY <2>1 DEF Severities
  <1>10. status = IF all = {} THEN "unscanned"
                  ELSE IF (\E r \in all : runs[r].status = "failed") \/ \E f \in found : Severity(f) = "high"
                       THEN "alarming"
                  ELSE IF \E f \in found : Severity(f) = "medium" THEN "attention" ELSE "clear"
    BY <1>3, <1>4, <1>5 DEF AnalysisStatus
  <1>11. "high" \in Severities(counted) => \E f \in found : Severity(f) = "high"
    BY <1>3, <1>5, <1>9
  <1>12. c.says = "fail" => status = "alarming"
    <2>1. c.says = "fail" => "high" \in Severities(counted)
      BY <1>7 DEF Judged
    <2>2. ASSUME NEW f \in found  PROVE all # {}
      BY <1>5
    <2> QED  BY <1>10, <1>11, <2>1, <2>2
  <1>13. ASSUME c.says = "pass", \A r \in later : FindingsOf(r) = {}
         PROVE  status \in {"clear", "unscanned"}
    <2>1. Severities(counted) = {} /\ \A r \in counted : runs[r].status # "failed"
      BY <1>7, <1>13 DEF Judged
    <2>2. found = {}
      <3>1. ASSUME NEW r \in all  PROVE FindingsOf(r) = {}
        <4>1. CASE r \in counted
          BY <1>9, <2>1, <4>1
        <4> QED  BY <1>3, <1>13, <4>1
      <3> QED  BY <1>5, <3>1
    <2>3. \A r \in all : runs[r].status # "failed"
      BY <1>3, <1>8, <2>1 DEF Audited
    <2> QED  BY <1>10, <2>2, <2>3
  <1>14. ASSUME c.says # "fail", status = "alarming"
         PROVE  High(later) \/ \E r \in counted : runs[r].status = "failed"
    <2>1. "high" \notin Severities(counted)
      BY <1>7, <1>14 DEF Judged
    <2>2. (\E r \in all : runs[r].status = "failed") \/ \E f \in found : Severity(f) = "high"
      BY <1>10, <1>14
    <2>3. ASSUME NEW r \in all, runs[r].status = "failed"
          PROVE  r \in counted
      BY <1>3, <1>8, <2>3 DEF Audited
    <2>4. ASSUME NEW f \in found, Severity(f) = "high"
          PROVE  High(later)
      <3>1. PICK r \in all : f \in FindingsOf(r)
        BY <1>5
      <3>2. r \notin counted
        BY <1>9, <2>1, <2>4, <3>1
      <3> QED  BY <1>3, <2>4, <3>1, <3>2 DEF High
    <2> QED  BY <2>2, <2>3, <2>4
  <1>15. \A a \in ToSet(Analyzers) : \E r \in counted : runs[r].analyzer = a
    BY <1>2, <1>7 DEF Fits
  <1>16. snapshots[c.of].head = h /\ \A r \in later : runs[r].analyzer = PACKAGE_AUDIT
    BY <1>2, <1>8 DEF Fits, Audited
  <1> QED  BY <1>1, <1>3, <1>4, <1>12, <1>13, <1>14, <1>15, <1>16

(* A verdict on a forge is of a whole analysis of its commit, and of all   *)
(* its runs but audits that came later: analyses wait for the lock, and    *)
(* whoever holds it waits for the forge (Reporting::write).  So the API    *)
(* contradicts a check only by what an audit found.                        *)
THEOREM AlwaysOutrunOnlyByAudits == VerdictsSpec => []OutrunOnlyByAudits
  <1>1. VerdictsInit => VerdictsIInv
    BY VerdictsInitHolds
  <1>2. VerdictsIInv /\ [VerdictsNext]_verdictVars => VerdictsIInv'
    BY VerdictsStepKeeps
  <1>3. VerdictsIInv => OutrunOnlyByAudits
    BY VerdictsFit
  <1> QED  BY <1>1, <1>2, <1>3, PTL DEF VerdictsSpec

-----------------------------------------------------------------------------
(* The ids (IdGenerator): what their fields order.                         *)

(* The node is a number of its field (new).                                *)
LEMMA NodeInField == Node % NODES \in Nat
  BY IdAssumption

(* An id of a word is a number (next).                                     *)
LEMMA IdIsNat ==
  ASSUME NEW w \in Word
  PROVE  Id(w) \in Nat
  <1>1. w.milliseconds \in Nat /\ w.sequence \in Nat /\ NODES \in Nat /\ SEQUENCES \in Nat
    BY IdAssumption DEF Word, Time
  <1>2. w.milliseconds * NODES + (Node % NODES) \in Nat
    BY <1>1, NodeInField
  <1> QED  BY <1>1, <1>2 DEF Id

(* The millisecond decides between two ids, whatever their sequences.      *)
LEMMA LaterIdIsLarger ==
  ASSUME NEW v \in Word, NEW w \in Word, v.milliseconds < w.milliseconds
  PROVE  Id(v) < Id(w)
  <1> DEFINE a == v.milliseconds * NODES + (Node % NODES)
             b == w.milliseconds * NODES + (Node % NODES)
  <1>1. /\ v.milliseconds \in Nat /\ w.milliseconds \in Nat
        /\ NODES \in Nat \ {0} /\ SEQUENCES \in Nat \ {0}
        /\ v.sequence \in 0 .. SEQUENCES - 1 /\ w.sequence \in 0 .. SEQUENCES - 1
    BY IdAssumption DEF Word, Time
  <1>2. a \in Nat /\ b \in Nat /\ a + 1 <= b
    <2>1. v.milliseconds * NODES \in Nat /\ w.milliseconds * NODES \in Nat
      BY <1>1
    <2>2. v.milliseconds * NODES + NODES <= w.milliseconds * NODES
      <3>1. \A m, n, k \in Nat : m < n => m * k + k <= n * k
        OBVIOUS
      <3> QED  BY <1>1, <3>1
    <2> QED  BY <1>1, <2>1, <2>2, NodeInField
  <1>3. a * SEQUENCES + SEQUENCES <= b * SEQUENCES
    <2>1. \A m, n, k \in Nat : m + 1 <= n => m * k + k <= n * k
      OBVIOUS
    <2> HIDE DEF a, b
    <2> QED  BY <1>1, <1>2, <2>1
  <1>4. Id(v) = a * SEQUENCES + v.sequence /\ Id(w) = b * SEQUENCES + w.sequence
    BY DEF Id
  <1>5. a * SEQUENCES \in Nat /\ b * SEQUENCES \in Nat
    <2> HIDE DEF a, b
    <2> QED  BY <1>1, <1>2
  <1> HIDE DEF a, b
  <1> QED  BY <1>1, <1>3, <1>4, <1>5

(* Within a millisecond the sequence decides.                              *)
LEMMA SequenceOrders ==
  ASSUME NEW v \in Word, NEW w \in Word,
         v.milliseconds = w.milliseconds, v.sequence < w.sequence
  PROVE  Id(v) < Id(w)
  <1> DEFINE a == (v.milliseconds * NODES + (Node % NODES)) * SEQUENCES
  <1>1. v.milliseconds * NODES + (Node % NODES) \in Nat
    BY IdAssumption, NodeInField DEF Word, Time
  <1>2. a \in Nat /\ v.sequence \in Nat /\ w.sequence \in Nat
    BY <1>1, IdAssumption DEF Word
  <1>3. Id(v) = a + v.sequence /\ Id(w) = a + w.sequence
    BY DEF Id
  <1> HIDE DEF a
  <1> QED  BY <1>2, <1>3

(* A word that may be stored is one its fields hold, and its id is larger  *)
(* than the id of the word it succeeds (next).                             *)
LEMMA SuccessorIsLarger ==
  ASSUME NEW now \in Time, NEW w \in Word, Successor(now, w).sequence < SEQUENCES
  PROVE  /\ Successor(now, w) \in Word
         /\ Id(w) < Id(Successor(now, w))
         /\ Successor(now, w) # Fresh
  <1>1. now \in Nat /\ w.milliseconds \in Nat /\ w.sequence \in Nat /\ SEQUENCES \in Nat \ {0}
    BY IdAssumption DEF Time, Word
  <1>2. CASE now > w.milliseconds
    <2>1. Successor(now, w) = [milliseconds |-> now, sequence |-> 0]
      BY <1>2 DEF Successor
    <2>2. Successor(now, w) \in Word
      BY <1>1, <2>1 DEF Word
    <2>3. w.milliseconds < Successor(now, w).milliseconds
      BY <1>1, <1>2, <2>1
    <2>4. Successor(now, w) # Fresh
      BY <1>1, <1>2, <2>1 DEF Fresh
    <2> QED  BY <2>2, <2>3, <2>4, LaterIdIsLarger
  <1>3. CASE ~(now > w.milliseconds)
    <2>1. Successor(now, w) = [w EXCEPT !.sequence = @ + 1]
      BY <1>3 DEF Successor
    <2>2. /\ Successor(now, w).milliseconds = w.milliseconds
          /\ Successor(now, w).sequence = w.sequence + 1
      BY <2>1 DEF Word
    <2>3. Successor(now, w) \in Word
      BY <1>1, <2>1, <2>2 DEF Word
    <2>4. Successor(now, w) # Fresh
      BY <1>1, <2>2 DEF Fresh
    <2> QED  BY <1>1, <2>2, <2>3, <2>4, SequenceOrders
  <1> QED  BY <1>2, <1>3

-----------------------------------------------------------------------------
(* The invariant: while a process has minted, its word is the largest id   *)
(* there is; before it mints, every time it may use is one that no process *)
(* before it used.                                                         *)

Mints(c) == call[c].pc # "outside"

(* The last word of the processes before this one.                         *)
LastWord == [milliseconds |-> floor, sequence |-> SEQUENCES - 1]

WordIsLargest ==
  /\ state # Fresh => \A i \in 1 .. Len(minted) : minted[i] <= Id(state)
  /\ state = Fresh /\ floor >= 0 => \A i \in 1 .. Len(minted) : minted[i] <= Id(LastWord)
  /\ state = Fresh /\ floor = -1 => minted = <<>>

FreshTimesAreNew ==
  state = Fresh => clock > floor /\ \A c \in Caller : Mints(c) => call[c].now > floor

IdIInv == IdTypeOK /\ WordIsLargest /\ FreshTimesAreNew /\ Increasing

(* What a caller has read and loaded.                                      *)
LEMMA Calls ==
  ASSUME IdTypeOK, NEW c \in Caller
  PROVE  /\ Mints(c) => call[c].now \in Time
         /\ call[c].pc = "timed" => call[c] \in Timed
         /\ call[c].pc = "loaded" => call[c] \in Loaded
  BY DEF IdTypeOK, Call, Outside, Timed, Loaded, Mints

(* A first process has minted nothing.                                     *)
LEMMA IdInitially == IdInit => IdIInv
  <1> SUFFICES ASSUME IdInit PROVE IdIInv
    OBVIOUS
  <1>1. IdTypeOK
    BY IdAssumption DEF IdInit, IdTypeOK, Fresh, Word, Time, Call
  <1>2. WordIsLargest /\ Increasing
    BY DEF IdInit, WordIsLargest, Increasing
  <1>3. FreshTimesAreNew
    BY IdAssumption DEF IdInit, FreshTimesAreNew, Mints, Outside, Time
  <1> QED  BY <1>1, <1>2, <1>3 DEF IdIInv

(* A step of one caller that mints nothing.                                *)
LEMMA CallStep ==
  ASSUME IdIInv, NEW c \in Caller, NEW next \in Call,
         call' = [call EXCEPT ![c] = next],
         next # Outside /\ state = Fresh => next.now > floor,
         UNCHANGED <<clock, state, minted, floor>>
  PROVE  IdIInv'
  <1>1. IdTypeOK'
    BY DEF IdIInv, IdTypeOK
  <1>2. (WordIsLargest /\ Increasing)'
    BY DEF IdIInv, WordIsLargest, Increasing, LastWord, Id
  <1>3. FreshTimesAreNew'
    BY DEF IdIInv, IdTypeOK, FreshTimesAreNew, Mints, Outside
  <1> QED  BY <1>1, <1>2, <1>3 DEF IdIInv

(* An exchange appends an id above the word, and the word above all.       *)
LEMMA ExchangeStep ==
  ASSUME IdIInv, NEW c \in Caller, Exchange(c)
  PROVE  IdIInv'
  <1> DEFINE w == NextWord(c)
  <1>1. call[c] \in Loaded /\ call[c].now \in Time /\ call[c].previous = state
    BY Calls DEF IdIInv, Exchange, Exchangeable, Mints
  <1>2. state \in Word /\ w = Successor(call[c].now, state) /\ w.sequence < SEQUENCES
    BY <1>1 DEF IdIInv, IdTypeOK, Exchange, Exchangeable, NextWord
  <1>3. w \in Word /\ Id(state) < Id(w) /\ w # Fresh
    BY <1>1, <1>2, SuccessorIsLarger
  <1>4. Id(w) \in Nat /\ Id(state) \in Nat
    BY <1>2, <1>3, IdIsNat
  <1>5. /\ state' = w /\ minted' = Append(minted, Id(w))
        /\ call' = [call EXCEPT ![c] = Outside] /\ UNCHANGED <<clock, floor>>
    BY DEF Exchange
  <1> HIDE DEF w
  <1>6. minted \in Seq(Nat) /\ \A i \in 1 .. Len(minted) : minted[i] \in Nat /\ minted[i] < Id(w)
    <2>1. minted \in Seq(Nat) /\ \A i \in 1 .. Len(minted) : minted[i] \in Nat
      BY DEF IdIInv, IdTypeOK
    <2>2. CASE state # Fresh
      BY <1>3, <1>4, <2>1, <2>2 DEF IdIInv, WordIsLargest
    <2>3. CASE state = Fresh /\ floor = -1
      BY <2>1, <2>3 DEF IdIInv, WordIsLargest
    <2>4. CASE state = Fresh /\ floor >= 0
      <3>1. floor \in Time /\ LastWord \in Word
        BY <2>4, IdAssumption DEF IdIInv, IdTypeOK, LastWord, Word, Time
      <3>2. call[c].now > floor
        BY <1>1, <2>4 DEF IdIInv, FreshTimesAreNew, Mints, Loaded
      <3>3. LastWord.milliseconds < w.milliseconds
        BY <1>1, <1>2, <2>4, <3>1, <3>2 DEF LastWord, Successor, Fresh, Time
      <3>4. Id(LastWord) < Id(w) /\ Id(LastWord) \in Nat
        BY <1>3, <3>1, <3>3, LaterIdIsLarger, IdIsNat
      <3>5. \A i \in 1 .. Len(minted) : minted[i] <= Id(LastWord)
        BY <2>4 DEF IdIInv, WordIsLargest
      <3> QED  BY <1>4, <2>1, <3>4, <3>5
    <2>5. floor = -1 \/ floor >= 0
      BY DEF IdIInv, IdTypeOK, Time
    <2> QED  BY <2>1, <2>2, <2>3, <2>4, <2>5
  <1>7. /\ minted' \in Seq(Nat) /\ Len(minted') = Len(minted) + 1
        /\ minted'[Len(minted) + 1] = Id(w)
        /\ \A i \in 1 .. Len(minted) : minted'[i] = minted[i]
    BY <1>4, <1>5, <1>6
  <1>8. IdTypeOK'
    BY <1>3, <1>5, <1>7 DEF IdIInv, IdTypeOK, Call
  <1>9. \A i \in 1 .. Len(minted') : minted'[i] <= Id(w)
    <2>1. ASSUME NEW i \in 1 .. Len(minted')  PROVE minted'[i] <= Id(w)
      <3>1. i \in 1 .. Len(minted) \/ i = Len(minted) + 1
        BY <1>6, <1>7
      <3>2. CASE i \in 1 .. Len(minted)
        BY <1>4, <1>6, <1>7, <3>2
      <3>3. CASE i = Len(minted) + 1
        BY <1>4, <1>7, <3>3
      <3> QED  BY <3>1, <3>2, <3>3
    <2> QED  BY <2>1
  <1>10. WordIsLargest'
    <2>1. Id(state)' = Id(w)
      BY <1>5 DEF Id
    <2> QED  BY <1>3, <1>5, <1>9, <2>1 DEF WordIsLargest
  <1>11. FreshTimesAreNew'
    BY <1>3, <1>5 DEF FreshTimesAreNew
  <1>12. Increasing'
    <2> SUFFICES ASSUME NEW i \in 1 .. Len(minted'), NEW j \in 1 .. Len(minted'), i < j
                 PROVE  minted'[i] < minted'[j]
      BY DEF Increasing
    <2>1. Len(minted) \in Nat /\ i \in 1 .. Len(minted)
      BY <1>6, <1>7
    <2>2. CASE j \in 1 .. Len(minted)
      BY <1>7, <2>1, <2>2 DEF IdIInv, Increasing
    <2>3. CASE j = Len(minted) + 1
      BY <1>6, <1>7, <2>1, <2>3
    <2> QED  BY <1>7, <2>1, <2>2, <2>3
  <1> QED  BY <1>8, <1>10, <1>11, <1>12 DEF IdIInv

(* A new process knows no word, but no time it can read was used.          *)
LEMMA RestartStep ==
  ASSUME IdIInv, Restart
  PROVE  IdIInv'
  <1>1. /\ state \in Word /\ state # Fresh /\ clock > state.milliseconds /\ clock \in Time
        /\ state' = Fresh /\ floor' = state.milliseconds
        /\ call' = [c \in Caller |-> Outside] /\ UNCHANGED <<clock, minted>>
    BY DEF IdIInv, IdTypeOK, Restart
  <1>2. Fresh \in Word /\ floor' \in Time /\ floor' >= 0
    BY <1>1, IdAssumption DEF Fresh, Word, Time
  <1>3. IdTypeOK'
    BY <1>1, <1>2 DEF IdIInv, IdTypeOK, Call
  <1>4. Id(state) <= Id(LastWord)'
    <2> DEFINE last == [milliseconds |-> state.milliseconds, sequence |-> SEQUENCES - 1]
    <2>1. last \in Word /\ state.sequence <= last.sequence
      BY <1>1, IdAssumption DEF Word
    <2>2. Id(last) = Id(LastWord)'
      BY <1>1 DEF LastWord, Id
    <2>3. state.sequence \in Int /\ last.sequence \in Int
      BY <1>1, <2>1 DEF Word
    <2>4. CASE state.sequence < last.sequence
      BY <1>1, <2>1, <2>2, <2>4, SequenceOrders, IdIsNat
    <2>5. CASE state.sequence = last.sequence
      BY <1>1, <2>1, <2>2, <2>5, IdIsNat DEF Id
    <2> QED  BY <2>1, <2>3, <2>4, <2>5
  <1>5. WordIsLargest'
    <2>1. Id(LastWord)' \in Nat /\ Id(state) \in Nat
      <3>1. LastWord' \in Word
        BY <1>1, <1>2, IdAssumption DEF LastWord, Word
      <3>2. Id(LastWord)' = Id(LastWord')
        BY DEF Id
      <3> QED  BY <1>1, <3>1, <3>2, IdIsNat
    <2>2. \A i \in 1 .. Len(minted) : minted[i] \in Nat /\ minted[i] <= Id(state)
      BY <1>1 DEF IdIInv, IdTypeOK, WordIsLargest
    <2> QED  BY <1>1, <1>2, <1>4, <2>1, <2>2 DEF WordIsLargest
  <1>6. FreshTimesAreNew'
    BY <1>1, <1>2 DEF FreshTimesAreNew, Mints, Outside
  <1>7. Increasing'
    BY <1>1 DEF IdIInv, Increasing
  <1> QED  BY <1>3, <1>5, <1>6, <1>7 DEF IdIInv

(* Every step keeps the invariant.                                         *)
LEMMA IdInductive == IdIInv /\ [Step]_idVars => IdIInv'
  <1> SUFFICES ASSUME IdIInv, [Step]_idVars PROVE IdIInv'
    OBVIOUS
  <1> USE DEF IdIInv
  <1>1. ASSUME NEW c \in Caller, ReadClock(c) PROVE IdIInv'
    <2>1. [pc |-> "timed", now |-> clock] \in Call
      BY DEF IdTypeOK, Call, Timed
    <2> QED  BY <1>1, <2>1, CallStep DEF ReadClock, FreshTimesAreNew
  <1>2. ASSUME NEW c \in Caller, Load(c) PROVE IdIInv'
    <2>1. call[c] \in Timed
      BY <1>2, Calls DEF Load
    <2>2. [pc |-> "loaded", now |-> call[c].now, previous |-> state] \in Call
      BY <2>1 DEF IdTypeOK, Call, Timed, Loaded
    <2> QED  BY <1>2, <2>1, <2>2, CallStep DEF Load, FreshTimesAreNew, Mints, Timed
  <1>3. ASSUME NEW c \in Caller, Retry(c) PROVE IdIInv'
    <2>1. [pc |-> "timed", now |-> clock] \in Call
      BY DEF IdTypeOK, Call, Timed
    <2> QED  BY <1>3, <2>1, CallStep DEF Retry, FreshTimesAreNew
  <1>4. ASSUME NEW c \in Caller, Exchange(c) PROVE IdIInv'
    BY <1>4, ExchangeStep
  <1>5. ASSUME NEW t \in Time, SetClock(t) PROVE IdIInv'
    <2>1. IdTypeOK'
      BY <1>5 DEF SetClock, IdTypeOK
    <2>2. (WordIsLargest /\ Increasing)'
      BY <1>5 DEF SetClock, WordIsLargest, Increasing, LastWord, Id
    <2>3. FreshTimesAreNew'
      BY <1>5 DEF SetClock, FreshTimesAreNew, Mints
    <2> QED  BY <2>1, <2>2, <2>3
  <1>6. ASSUME Restart PROVE IdIInv'
    BY <1>6, RestartStep
  <1>7. ASSUME UNCHANGED idVars PROVE IdIInv'
    BY <1>7 DEF idVars, IdTypeOK, WordIsLargest, FreshTimesAreNew, Increasing, LastWord, Id, Mints
  <1> QED  BY <1>1, <1>2, <1>3, <1>4, <1>5, <1>6, <1>7 DEF Step

(* The word and the calls keep within their fields (next).                 *)
THEOREM FieldsHold == IdSpec => []IdTypeOK
  <1>1. IdIInv => IdTypeOK
    BY DEF IdIInv
  <1> QED  BY IdInitially, IdInductive, <1>1, PTL DEF IdSpec

(* Ids increase in the order they are minted: two threads never mint the   *)
(* same one, whatever the clock does, and a new process never mints one    *)
(* below those of the processes before it (next, new).                     *)
THEOREM AlwaysIncreasing == IdSpec => []Increasing
  <1>1. IdIInv => Increasing
    BY DEF IdIInv
  <1> QED  BY IdInitially, IdInductive, <1>1, PTL DEF IdSpec

-----------------------------------------------------------------------------
(* The time an id carries.                                                 *)

(* The quotient of a number written with a remainder below the divisor.    *)
LEMMA Quotient ==
  ASSUME NEW q \in Nat, NEW b \in Nat \ {0}, NEW r \in 0 .. b - 1
  PROVE  (q * b + r) \div b = q
  OBVIOUS

(* Reading the milliseconds of an id gives back those of its word.         *)
LEMMA MillisecondsRead ==
  ASSUME NEW w \in Word
  PROVE  Milliseconds(Id(w)) = w.milliseconds
  <1> DEFINE m == w.milliseconds
             s == w.sequence
             n == Node % NODES
             b == NODES * SEQUENCES
             r == n * SEQUENCES + s
  <1>1. /\ m \in Nat /\ s \in 0 .. SEQUENCES - 1
        /\ NODES \in Nat \ {0} /\ SEQUENCES \in Nat \ {0}
    BY IdAssumption DEF Word, Time
  <1>2. n \in 0 .. NODES - 1
    BY IdAssumption
  <1> HIDE DEF m, s, n
  <1>3. b \in Nat \ {0}
    BY <1>1
  <1>4. r \in 0 .. b - 1
    <2>1. \A i, j, k \in Nat : i + 1 <= j => i * k + k <= j * k
      OBVIOUS
    <2>2. n * SEQUENCES + SEQUENCES <= NODES * SEQUENCES
      BY <1>1, <1>2, <2>1
    <2>3. n * SEQUENCES \in Nat
      BY <1>1, <1>2
    <2> QED  BY <1>1, <1>3, <2>2, <2>3
  <1>5. Id(w) = m * b + r
    <2>1. Id(w) = (m * NODES + n) * SEQUENCES + s
      BY DEF Id, m, n, s
    <2>2. \A i, j, k, l \in Nat : (i * j + k) * l = i * (j * l) + k * l
      OBVIOUS
    <2>3. (m * NODES + n) * SEQUENCES = m * (NODES * SEQUENCES) + n * SEQUENCES
      BY <1>1, <1>2, <2>2
    <2>4. m * (NODES * SEQUENCES) \in Nat /\ n * SEQUENCES \in Nat
      BY <1>1, <1>2, <1>3
    <2> QED  BY <1>1, <2>1, <2>3, <2>4
  <1> HIDE DEF b, r
  <1>6. (m * b + r) \div b = m
    BY <1>1, <1>3, <1>4, Quotient
  <1> QED  BY <1>5, <1>6 DEF Milliseconds, b, m

(* What Timely says of one step.                                           *)
InTime ==
  \A c \in Caller :
    Len(minted') > Len(minted) /\ call[c] # call'[c] =>
      LET id == minted'[Len(minted')]
      IN /\ Milliseconds(id) >= call[c].now
         /\ Milliseconds(id) = call[c].now \/ Milliseconds(id) = state.milliseconds

(* An exchange mints the time its call read, or the later one of the word  *)
(* it found; no other step mints.                                          *)
LEMMA StepInTime ==
  ASSUME IdTypeOK, [Step]_idVars
  PROVE  InTime
  <1>1. ASSUME NEW c \in Caller, Exchange(c)
        PROVE  InTime
    <2> DEFINE w == NextWord(c)
               now == call[c].now
    <2>1. call[c] \in Loaded /\ now \in Time /\ call[c].previous = state
      BY <1>1, Calls DEF Exchange, Exchangeable, Mints
    <2>2. state \in Word /\ w = Successor(now, state) /\ w.sequence < SEQUENCES
      BY <1>1, <2>1 DEF IdTypeOK, Exchange, Exchangeable, NextWord
    <2>3. w \in Word
      BY <2>1, <2>2, SuccessorIsLarger
    <2>4. /\ w.milliseconds >= now
          /\ w.milliseconds = now \/ w.milliseconds = state.milliseconds
      <3>1. CASE now > state.milliseconds
        <4>1. w.milliseconds = now
          BY <2>2, <3>1 DEF Successor
        <4> QED  BY <2>1, <4>1 DEF Time
      <3>2. CASE ~(now > state.milliseconds)
        <4>1. w.milliseconds = state.milliseconds
          BY <2>2, <3>2 DEF Successor, Word
        <4> QED  BY <2>1, <2>2, <3>2, <4>1 DEF Time, Word
      <3> QED  BY <3>1, <3>2
    <2>5. Milliseconds(Id(w)) = w.milliseconds
      BY <2>3, MillisecondsRead
    <2>6. minted' = Append(minted, Id(w)) /\ call' = [call EXCEPT ![c] = Outside]
      BY <1>1 DEF Exchange
    <2>7. minted'[Len(minted')] = Id(w)
      <3>1. minted \in Seq(Nat) /\ Id(w) \in Nat
        BY <2>3, IdIsNat DEF IdTypeOK
      <3> HIDE DEF w
      <3> QED  BY <2>6, <3>1
    <2>8. \A other \in Caller : other # c => call'[other] = call[other]
      BY <2>6 DEF IdTypeOK
    <2> QED  BY <2>4, <2>5, <2>7, <2>8 DEF InTime
  <1>2. CASE minted' = minted
    BY <1>2 DEF InTime, IdTypeOK
  <1> QED  BY <1>1, <1>2 DEF Step, ReadClock, Load, Retry, SetClock, Restart, idVars

(* No id is behind the clock its call read, nor ahead of every clock: its  *)
(* time is the one read or the one of the id before it (next).             *)
THEOREM AlwaysTimely == IdSpec => Timely
  <1>1. IdTypeOK /\ [Step]_idVars => [InTime]_idVars
    BY StepInTime
  <1> QED  BY <1>1, FieldsHold, PTL DEF IdSpec, Timely, InTime
=============================================================================
