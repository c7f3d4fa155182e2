------------------------------ MODULE Analyzers ------------------------------
(* An analysis of one commit range: which files each analyzer reads at the *)
(* two ends of the range, what it makes of them, and what becomes of it    *)
(* when one cannot be read (src/src/analysis/runner.rs).  The ends are     *)
(* trees, functions from paths to files; the remote pushes files to the    *)
(* head, merges what is there, and says of the head's checks what it will. *)
EXTENDS LockfileDelta, FileDeltas, CheckRuns

CONSTANTS
  Path,                  \* [dir, name]
  Contents(_),           \* the files a path may hold, besides none
  Told,                  \* the answers a forge gives: [is, forge, checks]
  App,                   \* the server's own GitHub app
  MAX_BLOB_BYTES,        \* no file over it is read
  MAX_SECRET_SCAN_BYTES, \* nor more than this by one scan for secrets
  LARGE_FILE_BYTES,
  MaxSteps               \* bound: pushes, merges and answers in a behaviour

ASSUME AnalyzersAssumption ==
  /\ IsFiniteSet(Path) /\ PAGE_SIZE \in Nat /\ GITEA_PAGE \in Nat
  /\ \A p \in Path : \A f \in Contents(p) :
       /\ f.is \in {"text", "binary", "garbled", "other"} /\ f.lines \in Seq(LinesOf(f.lines))
       /\ \A l \in LinesOf(f.lines) :
            /\ l.urls \in Seq(LinesOf(l.urls))
            /\ l.states.is = "locks" => l.states.version \in Version
  /\ \A t \in Told :
       /\ t.is \in {"ready", "not_configured", "failed", "limited"}
       /\ t.is = "ready" => t.forge \in DOMAIN Words /\ \A i \in DOMAIN t.checks : Says(t.forge, t.checks[i])

Analyzer ==
  {"lockfile-delta", "manifest-delta", "secret-scan", "link-inventory", "workflow-security",
   "repository-controls", "ci-check-runs", "repository-hygiene"}

VARIABLES
  base, head,  \* the trees at the two ends
  told,        \* what the forge answers about the head's checks
  runs,        \* what the analyzers recorded of the range, none before
  steps
vars == <<base, head, told, runs, steps>>

Absent == [is |-> "absent", size |-> 0, lines |-> <<>>]

-----------------------------------------------------------------------------
(* Reading a tree.  What is no blob - a symbolic link, a submodule, a      *)
(* directory - is "other", and read as nothing at all.                     *)
FileAt(tree, p) ==
  IF tree[p].is \in {"absent", "other"} THEN "none"
  ELSE IF tree[p].size > MAX_BLOB_BYTES THEN "too-large"
  ELSE IF tree[p].is = "binary" THEN "not-text"
  ELSE "text"
LinesAt(tree, p) == IF FileAt(tree, p) = "text" THEN tree[p].lines ELSE <<>>
TextAt(tree, p) == IF FileAt(tree, p) = "none" THEN Absent ELSE tree[p]
Refused(tree, p) == FileAt(tree, p) \in {"too-large", "not-text"}

\* A rename is a deletion and an addition, and a file in whose place something
\* else comes is modified.  The caps on how many files change, and on a whole
\* tree, fail those who read past them as MAX_BLOB_BYTES does.
ChangedFiles == {p \in Path : base[p] # head[p]}
Deleted(p) == head[p].is = "absent"

\* Faulty variant of Garbled: what does not parse holds no packages.
NothingIn(tree, p) == FALSE

\* A text that is no TOML, JSON or YAML, or lacks what its format must have, is
\* refused; one without its table of packages is read as having none.
Garbled(tree, p) == tree[p].is = "garbled"

ParsedAt(tree, p) == ~Refused(tree, p) /\ ~Garbled(tree, p)

States(lines, what) ==
  [i \in {j \in DOMAIN lines : lines[j].states.is = what} |-> lines[i].states]
LockedAt(tree, p) == Packages(KindOf(p), States(LinesAt(tree, p), "locks"))
DeclaredAt(tree, p) == LinesOf(States(LinesAt(tree, p), "declares"))

-----------------------------------------------------------------------------
(* The analyzers.  One that cannot read what it must fails, with no        *)
(* findings.                                                               *)
Succeeded(findings, signal) == [status |-> "succeeded", findings |-> findings, signal |-> signal]
Failed == [status |-> "failed", findings |-> {}, signal |-> 0]
Skipped == [status |-> "skipped", findings |-> {}, signal |-> 0]

\* A lockfile that is no file any more is read at the base, and passed over.
LockfilePaths == {p \in ChangedFiles : IsLockfile(p) /\ ~Deleted(p)}
ComparedLockfiles == {p \in LockfilePaths : FileAt(head, p) # "none"}
LockfileRun ==
  IF /\ \A p \in LockfilePaths : ~Refused(base, p)
     /\ \A p \in ComparedLockfiles : ParsedAt(base, p) /\ ParsedAt(head, p)
  THEN Succeeded(UNION {Findings(p, KindOf(p), LockedAt(base, p), LockedAt(head, p)) : p \in ComparedLockfiles}, 0)
  ELSE Failed

ManifestPaths == {p \in ChangedFiles : IsManifest(p)}
ManifestRun ==
  IF \A p \in ManifestPaths : ParsedAt(base, p) /\ ParsedAt(head, p)
  THEN Succeeded(UNION {ManifestDelta(p, DeclaredAt(base, p), DeclaredAt(head, p)) : p \in ManifestPaths}, 0)
  ELSE Failed

\* The scan for secrets passes over what is not text, but not over its size.
SecretPaths == {p \in ChangedFiles : FileAt(head, p) # "none"}
SecretRun ==
  IF /\ MapThenSumSet(LAMBDA p : head[p].size, SecretPaths) <= MAX_SECRET_SCAN_BYTES
     /\ \A p \in SecretPaths : /\ FileAt(head, p) # "too-large"
                               /\ FileAt(head, p) = "text" => FileAt(base, p) # "too-large"
  THEN Succeeded(UNION {AddedSecrets(p, LinesAt(base, p), LinesAt(head, p)) : p \in SecretPaths}, 0)
  ELSE Failed

\* Links are taken from every file of both trees, changed or not.
LinksRun ==
  IF \A p \in Path : FileAt(base, p) # "too-large" /\ FileAt(head, p) # "too-large"
  THEN Succeeded(UNION {LinkFindings(p, LinesAt(base, p), LinesAt(head, p)) : p \in Path},
                 Cardinality(UNION {LinksGained(p, LinesAt(base, p), LinesAt(head, p)) : p \in Path}))
  ELSE Failed

\* The base of a workflow is read only where there is one at the head.
WorkflowPaths == {p \in ChangedFiles : IsWorkflow(p) /\ FileAt(head, p) # "none"}
WorkflowRun ==
  IF \A p \in WorkflowPaths : ~Refused(base, p) /\ ~Refused(head, p)
  THEN Succeeded(UNION {WorkflowDelta(p, LinesAt(base, p), LinesAt(head, p)) : p \in WorkflowPaths}, 0)
  ELSE Failed

ControlPaths == {p \in ChangedFiles : ControlKind(p) # "none"}
ControlsRun ==
  IF \A p \in ControlPaths : ~Refused(base, p) /\ ~Refused(head, p)
  THEN Succeeded(UNION {ControlReport(p, TextAt(base, p) = TextAt(head, p)) : p \in ControlPaths}, 0)
  ELSE Failed

\* Only what the forge answers is CI; a forge that is not known has none.
CheckRunsRun ==
  CASE told.is = "ready" -> Succeeded({}, Classify(ReadChecks(told.forge, told.checks, App)))
    [] told.is = "not_configured" -> Skipped
    [] told.is = "failed" -> Failed

GeneratedDirectories == {"node_modules", "dist", "out", "target"}
HygieneRun ==
  Succeeded({}, Cardinality({p \in ChangedFiles : ~Deleted(p) /\ p.dir \in GeneratedDirectories})
                + Cardinality({p \in ChangedFiles : FileAt(head, p) # "none" /\ head[p].size > LARGE_FILE_BYTES}))

Evaluate(analyzer) ==
  CASE analyzer = "lockfile-delta" -> LockfileRun
    [] analyzer = "manifest-delta" -> ManifestRun
    [] analyzer = "secret-scan" -> SecretRun
    [] analyzer = "link-inventory" -> LinksRun
    [] analyzer = "workflow-security" -> WorkflowRun
    [] analyzer = "repository-controls" -> ControlsRun
    [] analyzer = "ci-check-runs" -> CheckRunsRun
    [] analyzer = "repository-hygiene" -> HygieneRun

-----------------------------------------------------------------------------
NoRuns == [a \in {} |-> Failed]

Init ==
  /\ base = [p \in Path |-> Absent] /\ head = base
  /\ told = [is |-> "not_configured"]
  /\ runs = NoRuns /\ steps = 0

\* A new head, and so a new reading that nothing is known of.
Push(p, file) ==
  /\ steps < MaxSteps /\ file # head[p]
  /\ head' = [head EXCEPT ![p] = file]
  /\ runs' = NoRuns /\ steps' = steps + 1
  /\ UNCHANGED <<base, told>>

\* What is at the head becomes what the next change is compared with.
Merge ==
  /\ base # head
  /\ base' = head /\ runs' = NoRuns
  /\ UNCHANGED <<head, told, steps>>

\* The forge's answer about the head's checks becomes another.
Answer(answer) ==
  /\ steps < MaxSteps /\ answer # told
  /\ told' = answer /\ runs' = NoRuns /\ steps' = steps + 1
  /\ UNCHANGED <<base, head>>

\* Every analyzer in turn, each with a run of its own.  With a forge that is
\* out of budget the analysis is put off, and records nothing.
Analyse ==
  /\ base # head \/ told.is # "not_configured"
  /\ runs = NoRuns /\ told.is # "limited"
  /\ runs' = [a \in Analyzer |-> Evaluate(a)]
  /\ UNCHANGED <<base, head, told, steps>>

Next ==
  \/ \E p \in Path : \E file \in Contents(p) \cup {Absent} : Push(p, file)
  \/ Merge
  \/ \E answer \in Told : Answer(answer)
  \/ Analyse

Spec == Init /\ [][Next]_vars

-----------------------------------------------------------------------------
(* The trees hold files their paths may hold, and an analysis has one run  *)
(* of every analyzer.                                                      *)
TypeOK ==
  /\ \A p \in Path : {base[p], head[p]} \subseteq Contents(p) \cup {Absent}
  /\ told = [is |-> "not_configured"] \/ told \in Told
  /\ runs # NoRuns =>
       \A a \in Analyzer : runs[a].status \in {"succeeded", "failed", "skipped"}

Done(a) == runs # NoRuns /\ runs[a].status = "succeeded"

\* Npm's bundled copies and cargo's sources can lock a name and version twice.
NamedOnce(packages) == \A i, j \in DOMAIN packages : Key(packages[i]) = Key(packages[j]) => i = j
NamedOnceAt(p) == NamedOnce(LockedAt(base, p)) /\ NamedOnce(LockedAt(head, p))

\* The reports a lockfile's run made of one package, or of one name.
ReportsAt(p) == {f.report : f \in {g \in runs["lockfile-delta"].findings : g.path = p}}
OnePackage(packages, name) == Cardinality({i \in DOMAIN packages : packages[i].name = name}) = 1

(* Of a lockfile that changed and is still a file, every package that      *)
(* came, went or changed is told of exactly once, and no other: what came  *)
(* or changed by itself, what went by itself or in the one report of what  *)
(* its name moved to; and a name that moved up one way moved down the      *)
(* other (delta and compare_versions, lockfile/mod.rs).                    *)
EveryPackageAccountedFor ==
  Done("lockfile-delta") =>
    \A p \in {q \in ComparedLockfiles : NamedOnceAt(q)} :
      LET before == LinesOf(LockedAt(base, p))
          after == LinesOf(LockedAt(head, p))
          keys == Keys(LockedAt(head, p))
          Tells(package) == {r \in ReportsAt(p) : r.package = package}
          MovedTo(name) ==
            {r \in ReportsAt(p) : /\ r.package.name = name
                                  /\ r.movement \in {"Upgraded", "Downgraded", "Changed"}}
      IN /\ \A package \in after : Cardinality(Tells(package)) = IF package \in before THEN 0 ELSE 1
         /\ \A package \in {b \in before : Key(b) \notin keys} :
              (\E r \in Tells(package) : r.movement = "Removed") # (MovedTo(package.name) # {})
         /\ \A r \in ReportsAt(p) : r.package \in before \cup after
         /\ \A r \in ReportsAt(p) :
              r.movement \in {"Upgraded", "Downgraded"}
                /\ OnePackage(LockedAt(base, p), r.package.name)
                /\ OnePackage(LockedAt(head, p), r.package.name)
                /\ (\A b \in before : b.name = r.package.name => Ordinary(KindOf(p), b.origin))
              => \E back \in Delta(KindOf(p), LockedAt(head, p), LockedAt(base, p)) :
                   /\ back.package.name = r.package.name
                   /\ {back.movement, r.movement} = {"Upgraded", "Downgraded"}

(* No two findings of one run are one issue, so that who settles the one   *)
(* has not settled the other unseen (fingerprint.rs, occurrence).  Two     *)
(* analyzers count no occurrences and are left out: the scan for secrets,  *)
(* and the inventory of links, where two that differ in whitespace alone   *)
(* do share an issue (CollapseWhitespace).                                 *)
NoSharedIssue ==
  \A a \in Analyzer \ {"secret-scan", "link-inventory"} :
    runs # NoRuns =>
      \A f, g \in runs[a].findings : f.fingerprint = g.fingerprint => f = g

FailureWords == [github |-> {"failure"}, gitlab |-> {"failed"}, gitea |-> {"failure", "error"}]
\* A check of somebody else's that its forge calls failed.
FailedCheck(forge, check) ==
  /\ (IF forge = "github" THEN check.conclusion ELSE check.status) \in FailureWords[forge]
  /\ forge = "github" /\ App # 0 => check.app # App

(* A run that succeeded and says nothing has looked at what it is about,   *)
(* and found nothing there; no failed run reads as one that found nothing  *)
(* (docs/vocabulary.md:27-28).  What it is about leaves out three things,  *)
(* and is silent of them: a path where there is no file at the head, what  *)
(* a parser passes over (Locks), and the checks on a later page of the     *)
(* forge's answer.                                                         *)
SilenceMeansNothing ==
  /\ TypeOK
  /\ Done("lockfile-delta") /\ runs["lockfile-delta"].findings = {} =>
       \A p \in Path : IsLockfile(p) /\ FileAt(head, p) # "none" /\ NamedOnceAt(p) /\ base[p] # head[p] =>
         /\ head[p].is = "text" /\ base[p].is \notin {"garbled", "binary"}
         /\ LinesOf(LockedAt(base, p)) = LinesOf(LockedAt(head, p))
  /\ Done("manifest-delta") /\ runs["manifest-delta"].findings = {} =>
       \A p \in Path : IsManifest(p) /\ base[p] # head[p] =>
         /\ head[p].is # "garbled"
         /\ Declared(ManifestEcosystem(p), DeclaredAt(base, p)) = Declared(ManifestEcosystem(p), DeclaredAt(head, p))
  /\ Done("secret-scan") /\ runs["secret-scan"].findings = {} =>
       \A p \in Path : head[p].is = "text" =>
         \A l \in LinesOf(head[p].lines) : SecretRule(l) # "none" => l \in LinesOf(base[p].lines)
  /\ Done("link-inventory") /\ runs["link-inventory"].signal = 0 =>
       \A p \in Path, t \in UNION {TextsOf(q, LinesAt(head, q)) : q \in Path} :
         CountOf(p, LinesAt(head, p), t) <= CountOf(p, LinesAt(base, p), t)
  /\ Done("ci-check-runs") =>
       runs["ci-check-runs"].signal =
         Cardinality({i \in FirstPage(told.forge, told.checks) : FailedCheck(told.forge, told.checks[i])})
=============================================================================
