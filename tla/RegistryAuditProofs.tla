------------------------- MODULE RegistryAuditProofs -------------------------
(***************************************************************************)
(* Proofs that the properties of RegistryAudit hold for any number of      *)
(* versions, snapshots, projects and workers.                              *)
(***************************************************************************)
EXTENDS RegistryAudit, TLAPS

-----------------------------------------------------------------------------
(* Types.                                                                  *)

(* What a worker is at tells which kind of task it has.                    *)
LEMMA TaskKinds ==
  ASSUME TypeOK, NEW w \in Worker
  PROVE  /\ task[w].pc \in {"checking", "reading", "answered", "failed"} => task[w] \in Fetching
         /\ task[w].pc = "asked" => task[w] \in Asking
         /\ task[w].pc = "queueing" => task[w] \in Queueing
         /\ task[w].pc \in {"listing", "looking"} => task[w] \in Auditing
         /\ task[w].pc = "recording" => task[w] \in Recording
  BY DEF TypeOK, Task, Idle, Fetching, Asking, Queueing, Auditing, Recording

(* The job of a claim, and of a run that may fail, is some work.           *)
LEMMA JobsAreWork ==
  ASSUME TypeOK, NEW w \in Worker, task[w].pc \in Interruptible \cup {"answered", "failed"}
  PROVE  task[w].work \in Work
  BY TaskKinds DEF Interruptible, Fetching, Auditing, Recording, Work

(* A fetch is of a version, and its job is to get that version's facts.    *)
LEMMA VersionOfFetch ==
  ASSUME NEW w \in Worker, task[w] \in Fetching \cup Asking \cup Queueing
  PROVE  /\ Version(w) \in Coordinate
         /\ task[w].work \in Fetches
         /\ task[w].work = PackageFacts(Version(w))
  BY DEF Fetching, Asking, Queueing, Fetches, Version, PackageFacts

(* The two kinds of work are told apart by their kind.                     *)
LEMMA KindsDiffer ==
  /\ \A x \in Fetches : \A p : x # PackageAudit(p)
  /\ \A x \in Audits : \A c : x # PackageFacts(c)
  BY DEF Fetches, Audits, PackageAudit, PackageFacts

(* What is asked for is work the queue knows.                              *)
LEMMA RequestsAreWork ==
  /\ \A c \in Coordinate : PackageFacts(c) \in Fetches
  /\ \A p \in Project : PackageAudit(p) \in Audits
  BY DEF PackageFacts, PackageAudit, Fetches, Audits

(* Leaving a run keeps the types of tasks and claims.                      *)
LEMMA LeavingTyped ==
  ASSUME TypeOK, NEW w \in Worker, Leaves(w)
  PROVE  /\ task' \in [Worker -> Task]
         /\ claims' \subseteq Worker
         /\ \A v \in claims' : task'[v].pc \in Interruptible \cup {"answered", "failed"}
  BY DEF TypeOK, Leaves, Task

(* A task with the same claims is replaced by one that may have a claim.   *)
LEMMA ReplacingTyped ==
  ASSUME TypeOK, NEW w \in Worker, NEW t \in Fetching \cup Auditing \cup Recording,
         task' = [task EXCEPT ![w] = t], claims' = claims
  PROVE  /\ task' \in [Worker -> Task]
         /\ claims' \subseteq Worker
         /\ \A v \in claims' : task'[v].pc \in Interruptible \cup {"answered", "failed"}
  BY DEF TypeOK, Task, Fetching, Auditing, Recording, Interruptible

(* Empty tables and idle workers have their types.                         *)
LEMMA TypedInitially == Init => TypeOK
  <1> SUFFICES ASSUME Init  PROVE TypeOK  OBVIOUS
  <1>1. [status |-> "none", fresh |-> FALSE] \in Facts
    BY DEF Facts
  <1>2. [stage |-> "none", stale |-> {}] \in Scan
    BY DEF Scan, Stage
  <1>3. Idle \in Task
    BY DEF Task
  <1>4. facts \in [Coordinate -> Facts] /\ scan \in [Snapshot -> Scan] /\ task \in [Worker -> Task]
    BY <1>1, <1>2, <1>3 DEF Init
  <1> QED  BY <1>4 DEF Init, TypeOK

(* Fetches keep the types.                                                 *)
LEMMA FetchStepsTyped ==
  ASSUME TypeOK, NEW w \in Worker,
         \/ CheckCache(w) \/ StoreAnswer(w) \/ StoreFailure(w) \/ RetryLater(w)
         \/ FailForGood(w) \/ Finish(w) \/ FindUnaudited(w) \/ QueueAudits(w)
  PROVE  TypeOK'
  <1> USE DEF At
  <1>0. \A pc \in {"answered", "reading", "failed"} :
          task[w] \in Fetching => [task[w] EXCEPT !.pc = pc] \in Fetching
    BY DEF Fetching
  <1>1. CASE CheckCache(w)
    <2>1. task[w] \in Fetching
      BY <1>1, TaskKinds DEF CheckCache
    <2>2. \E pc \in {"answered", "reading"} :
            task' = [task EXCEPT ![w] = [task[w] EXCEPT !.pc = pc]] /\ claims' = claims
      BY <1>1 DEF CheckCache, Goes
    <2>3. /\ task' \in [Worker -> Task]
          /\ claims' \subseteq Worker
          /\ \A v \in claims' : task'[v].pc \in Interruptible \cup {"answered", "failed"}
      BY <1>0, <2>1, <2>2, ReplacingTyped
    <2> QED  BY <1>1, <2>3 DEF CheckCache, TypeOK
  <1>2. CASE StoreAnswer(w)
    <2>1. task[w] \in Fetching /\ Version(w) \in Coordinate
      BY <1>2, TaskKinds, VersionOfFetch DEF StoreAnswer
    <2>2. /\ task' \in [Worker -> Task]
          /\ claims' \subseteq Worker
          /\ \A v \in claims' : task'[v].pc \in Interruptible \cup {"answered", "failed"}
      BY <1>0, <1>2, <2>1, ReplacingTyped DEF StoreAnswer, Goes
    <2>3. facts' \in [Coordinate -> Facts] /\ slipped' \in BOOLEAN
      BY <1>2 DEF StoreAnswer, TypeOK, Facts
    <2> QED  BY <1>2, <2>2, <2>3 DEF StoreAnswer, TypeOK
  <1>3. CASE StoreFailure(w)
    <2>1. task[w] \in Fetching /\ Version(w) \in Coordinate
      BY <1>3, TaskKinds, VersionOfFetch DEF StoreFailure
    <2>2. /\ task' \in [Worker -> Task]
          /\ claims' \subseteq Worker
          /\ \A v \in claims' : task'[v].pc \in Interruptible \cup {"answered", "failed"}
      BY <1>0, <1>3, <2>1, ReplacingTyped DEF StoreFailure, Goes
    <2>3. facts' \in [Coordinate -> Facts]
      BY <1>3 DEF StoreFailure, TypeOK, Facts
    <2> QED  BY <1>3, <2>2, <2>3 DEF StoreFailure, TypeOK
  <1>4. CASE RetryLater(w)
    <2>1. Version(w) \in Coordinate /\ task[w].work \in Work
      BY <1>4, TaskKinds, VersionOfFetch DEF RetryLater, Work
    <2>2. /\ task' \in [Worker -> Task]
          /\ claims' \subseteq Worker
          /\ \A v \in claims' : task'[v].pc \in Interruptible \cup {"answered", "failed"}
      BY <1>4, LeavingTyped DEF RetryLater
    <2> QED  BY <1>4, <2>1, <2>2 DEF RetryLater, Requeue, TypeOK
  <1>5. CASE FailForGood(w)
    BY <1>5, LeavingTyped DEF FailForGood, TypeOK
  <1>6. CASE Finish(w)
    <2>1. task[w].work \in Fetches
      BY <1>6, TaskKinds, VersionOfFetch DEF Finish
    <2>2. task' \in [Worker -> Task]
      BY <1>6, <2>1 DEF Finish, TypeOK, Task, Asking
    <2> QED  BY <1>6, <2>2 DEF Finish, TypeOK
  <1>7. CASE FindUnaudited(w)
    <2>1. task[w].work \in Fetches /\ UnauditedProjects(Version(w)) \subseteq Project
      BY <1>7, TaskKinds, VersionOfFetch, RegistryAssumption DEF FindUnaudited, UnauditedProjects
    <2>2. task' \in [Worker -> Task]
      BY <1>7, <2>1 DEF FindUnaudited, TypeOK, Task, Queueing
    <2>3. w \notin claims
      BY <1>7 DEF FindUnaudited, TypeOK, Interruptible
    <2> QED  BY <1>7, <2>2, <2>3 DEF FindUnaudited, TypeOK
  <1>8. CASE QueueAudits(w)
    <2>1. task[w].found \subseteq Project
      BY <1>8, TaskKinds DEF QueueAudits, Queueing
    <2>2. queued' \subseteq Work
      BY <1>8, <2>1, RequestsAreWork DEF QueueAudits, Enqueue, TypeOK, Work
    <2> QED  BY <1>8, <2>2, LeavingTyped DEF QueueAudits, TypeOK
  <1> QED  BY <1>1, <1>2, <1>3, <1>4, <1>5, <1>6, <1>7, <1>8

(* Audits keep the types.                                                  *)
LEMMA AuditStepsTyped ==
  ASSUME TypeOK, NEW w \in Worker,
         \/ ListAwaiting(w) \/ Look(w) \/ RecordAudit(w) \/ ToArrivals(w) \/ FinishAudit(w)
  PROVE  TypeOK'
  <1> USE DEF At
  <1>0. ASSUME NEW x \in Audits, NEW a \in Audit, NEW pc \in {"listing", "looking"},
               NEW todo \in SUBSET Snapshot
        PROVE  [pc |-> pc, work |-> x, audit |-> a, todo |-> todo] \in Auditing
    BY DEF Auditing
  <1>1. task[w].pc \in {"listing", "looking", "recording"} =>
          /\ task[w].work \in Audits /\ task[w].audit \in Audit
          /\ task[w].todo \subseteq Snapshot
    BY TaskKinds DEF Auditing, Recording
  <1>2. CASE ListAwaiting(w)
    <2>1. Awaiting(task[w].work.project, task[w].audit) \subseteq Snapshot
      BY DEF Awaiting
    <2>2. [pc |-> "looking", work |-> task[w].work, audit |-> task[w].audit,
           todo |-> Awaiting(task[w].work.project, task[w].audit)] \in Auditing
      BY <1>0, <1>1, <1>2, <2>1 DEF ListAwaiting
    <2>3. /\ task' \in [Worker -> Task]
          /\ claims' \subseteq Worker
          /\ \A v \in claims' : task'[v].pc \in Interruptible \cup {"answered", "failed"}
      BY <1>2, <2>2, ReplacingTyped DEF ListAwaiting, AuditGoes
    <2> QED  BY <1>2, <2>3 DEF ListAwaiting, TypeOK
  <1>3. CASE Look(w)
    <2>1. PICK s \in task[w].todo :
            task' = [task EXCEPT ![w] =
              [pc |-> "recording", work |-> task[w].work, audit |-> task[w].audit,
               todo |-> task[w].todo,
               run |-> [audit |-> task[w].audit, snapshot |-> s,
                        seen |-> {c \in Names[s] : Answered(c)}]]]
      BY <1>3 DEF Look
    <2> DEFINE run == [audit |-> task[w].audit, snapshot |-> s,
                       seen |-> {c \in Names[s] : Answered(c)}]
               t == [pc |-> "recording", work |-> task[w].work, audit |-> task[w].audit,
                     todo |-> task[w].todo, run |-> run]
    <2>2. s \in Snapshot /\ task[w].audit \in Audit
      BY <1>1, <1>3 DEF Look
    <2>3. {c \in Names[s] : Answered(c)} \subseteq Coordinate
      BY <2>2, RegistryAssumption
    <2>4. run \in Run
      BY <2>2, <2>3 DEF Run
    <2> HIDE DEF run
    <2>5. t \in Recording
      BY <1>1, <1>3, <2>4 DEF Look, Recording
    <2>6. task' = [task EXCEPT ![w] = t]
      BY <2>1 DEF run
    <2> HIDE DEF t
    <2>7. /\ task' \in [Worker -> Task]
          /\ claims' \subseteq Worker
          /\ \A v \in claims' : task'[v].pc \in Interruptible \cup {"answered", "failed"}
      BY <1>3, <2>5, <2>6, ReplacingTyped DEF Look
    <2> QED  BY <1>3, <2>7 DEF Look, TypeOK
  <1>4. CASE RecordAudit(w)
    <2>1. task[w].run \in Run
      BY <1>4, TaskKinds DEF RecordAudit, Recording
    <2>2. [pc |-> "looking", work |-> task[w].work, audit |-> task[w].audit,
           todo |-> task[w].todo \ {task[w].run.snapshot}] \in Auditing
      BY <1>0, <1>1, <1>4 DEF RecordAudit
    <2>3. /\ task' \in [Worker -> Task]
          /\ claims' \subseteq Worker
          /\ \A v \in claims' : task'[v].pc \in Interruptible \cup {"answered", "failed"}
      BY <1>4, <2>2, ReplacingTyped DEF RecordAudit, AuditGoes
    <2> QED  BY <1>4, <2>1, <2>3 DEF RecordAudit, TypeOK
  <1>5. CASE ToArrivals(w)
    <2>1. [pc |-> "listing", work |-> task[w].work, audit |-> "package-audit",
           todo |-> {}] \in Auditing
      BY <1>0, <1>1, <1>5 DEF ToArrivals, Audit
    <2>2. /\ task' \in [Worker -> Task]
          /\ claims' \subseteq Worker
          /\ \A v \in claims' : task'[v].pc \in Interruptible \cup {"answered", "failed"}
      BY <1>5, <2>1, ReplacingTyped DEF ToArrivals, AuditGoes
    <2> QED  BY <1>5, <2>2 DEF ToArrivals, TypeOK
  <1>6. CASE FinishAudit(w)
    BY <1>6, LeavingTyped DEF FinishAudit, TypeOK
  <1> QED  BY <1>2, <1>3, <1>4, <1>5, <1>6

(* A started run has a task.                                               *)
LEMMA StartedTyped ==
  ASSUME NEW x \in Work
  PROVE  /\ x \in Fetches => Started(x) = [pc |-> "checking", work |-> x]
         /\ x \notin Fetches => Started(x) = [pc |-> "listing", work |-> x,
                                             audit |-> "checksum-audit", todo |-> {}]
         /\ Started(x) \in Fetching \cup Auditing
         /\ Started(x).pc \in Interruptible
         /\ Started(x).work = x
  <1>1. CASE x \in Fetches
    BY <1>1 DEF Started, Fetching, Interruptible
  <1>2. CASE x \notin Fetches
    BY <1>2 DEF Started, Auditing, Interruptible, Work, Audit
  <1> QED  BY <1>1, <1>2

(* Claims, lost leases and what goes wrong keep the types.                 *)
LEMMA QueueStepsTyped ==
  ASSUME TypeOK, NEW w \in Worker,
         \/ \E x \in Work : Claim(w, x)
         \/ LoseLease(w) \/ Retry(w) \/ GiveUp(w) \/ AbandonRun(w) \/ DropAudits(w)
  PROVE  TypeOK'
  <1>1. ASSUME NEW x \in Work, Claim(w, x)
        PROVE  TypeOK'
    <2>1. Started(x) \in Task /\ Started(x).pc \in Interruptible
      BY StartedTyped DEF Task
    <2> QED  BY <1>1, <2>1 DEF Claim, TypeOK
  <1>2. CASE LoseLease(w)
    <2>1. task[w].work \in Work
      BY <1>2, JobsAreWork DEF LoseLease, TypeOK
    <2> QED  BY <1>2, <2>1 DEF LoseLease, TypeOK
  <1>3. CASE Retry(w)
    <2>1. task[w].work \in Work
      BY <1>3, JobsAreWork DEF Retry
    <2>2. queued' \subseteq Work
      BY <1>3, <2>1 DEF Retry, Requeue, TypeOK
    <2> QED  BY <1>3, <2>2, LeavingTyped DEF Retry, TypeOK
  <1>4. CASE GiveUp(w)
    BY <1>4, LeavingTyped DEF GiveUp, TypeOK
  <1>5. CASE AbandonRun(w)
    <2>1. task[w].work \in Work
      BY <1>5, JobsAreWork DEF AbandonRun
    <2>2. left' \subseteq Work
      BY <1>5, <2>1 DEF AbandonRun, TypeOK
    <2> QED  BY <1>5, <2>2, LeavingTyped DEF AbandonRun, TypeOK
  <1>6. CASE DropAudits(w)
    BY <1>6, LeavingTyped DEF DropAudits, TypeOK
  <1> QED  BY <1>1, <1>2, <1>3, <1>4, <1>5, <1>6

(* Scans, the sweep and the clock keep the types.                          *)
LEMMA ScanStepsTyped ==
  ASSUME TypeOK,
         \/ \E s \in Snapshot : ScanStep(s) \/ StopScan(s)
         \/ \E c \in Coordinate : Expire(c)
         \/ Reclaim \/ Sweep
  PROVE  TypeOK'
  <1>0. ASSUME NEW s \in Snapshot, NEW stage \in Stage, NEW stale \in SUBSET Coordinate,
               Advance(s, stage, stale)
        PROVE  scan' \in [Snapshot -> Scan]
    <2>1. [stage |-> stage, stale |-> stale] \in Scan
      BY DEF Scan
    <2> QED  BY <1>0, <2>1 DEF Advance, TypeOK
  <1>1. ASSUME NEW s \in Snapshot, RecordNames(s) \/ MarkAnalysed(s)
        PROVE  TypeOK'
    <2>1. scan' \in [Snapshot -> Scan]
      BY <1>0, <1>1 DEF RecordNames, MarkAnalysed, Stage
    <2> QED  BY <1>1, <2>1 DEF RecordNames, MarkAnalysed, TypeOK
  <1>2. ASSUME NEW s \in Snapshot, ListStale(s)
        PROVE  TypeOK'
    <2>1. {c \in Names[s] : ~facts[c].fresh} \subseteq Coordinate
      BY RegistryAssumption
    <2>2. scan' \in [Snapshot -> Scan]
      BY <1>0, <1>2, <2>1 DEF ListStale, Stage
    <2> QED  BY <1>2, <2>2 DEF ListStale, TypeOK
  <1>3. ASSUME NEW s \in Snapshot, QueueForSnapshot(s)
        PROVE  TypeOK'
    <2>1. scan[s].stale \subseteq Coordinate /\ ProjectOf[s] \in Project
      BY RegistryAssumption DEF TypeOK, Scan
    <2>2. queued' \subseteq Work
      BY <1>3, <2>1, RequestsAreWork DEF QueueForSnapshot, Enqueue, TypeOK, Work
    <2>3. scan' \in [Snapshot -> Scan]
      BY <1>0, <1>3 DEF QueueForSnapshot, Stage
    <2> QED  BY <1>3, <2>2, <2>3 DEF QueueForSnapshot, TypeOK
  <1>4. ASSUME NEW s \in Snapshot, StopScan(s)
        PROVE  TypeOK'
    <2>1. scan' \in [Snapshot -> Scan]
      BY <1>0, <1>4 DEF StopScan, Stage
    <2> QED  BY <1>4, <2>1 DEF StopScan, TypeOK
  <1>5. ASSUME NEW c \in Coordinate, Expire(c)
        PROVE  TypeOK'
    <2>1. [facts[c] EXCEPT !.fresh = FALSE] \in Facts
      BY Zenon DEF TypeOK, Facts
    <2>2. facts' \in [Coordinate -> Facts]
      BY <1>5, <2>1 DEF Expire, TypeOK
    <2> QED  BY <1>5, <2>2 DEF Expire, TypeOK
  <1>6. CASE Reclaim
    BY <1>6 DEF Reclaim, TypeOK
  <1>7. CASE Sweep
    <2>1. Named \subseteq Coordinate
      BY RegistryAssumption DEF Named
    <2>2. PICK meanwhile \in SUBSET {c \in Named : Answered(c)} :
            Enqueue({PackageFacts(c) : c \in Unanswered \cup meanwhile})
      BY <1>7 DEF Sweep
    <2>3. Unanswered \cup meanwhile \subseteq Coordinate
      BY <2>1 DEF Unanswered
    <2>4. queued' \subseteq Work
      BY <2>2, <2>3, RequestsAreWork DEF Enqueue, TypeOK, Work
    <2> QED  BY <1>7, <2>4 DEF Sweep, TypeOK
  <1> QED  BY <1>1, <1>2, <1>3, <1>4, <1>5, <1>6, <1>7 DEF ScanStep

(* Every step keeps the types.                                             *)
LEMMA StepsTyped ==
  ASSUME TypeOK, [Next]_vars
  PROVE  TypeOK'
  <1>1. CASE UNCHANGED vars
    BY <1>1 DEF vars, TypeOK
  <1>2. CASE Next
    BY <1>2, FetchStepsTyped, AuditStepsTyped, QueueStepsTyped, ScanStepsTyped
       DEF Next, Progress, Trouble
  <1> QED  BY <1>1, <1>2

(* Every table and task of the registry code holds what it can hold.       *)
THEOREM TypesHold == Spec => []TypeOK
  <1> QED  BY TypedInitially, StepsTyped, PTL DEF Spec

-----------------------------------------------------------------------------
(* No audit is forgotten.  The invariant is inductive once it is known     *)
(* that a run records the audit it lists for.  A step takes at most one    *)
(* worker's reason away, so every step shows only what that worker's       *)
(* reason becomes.                                                         *)

RecordsItsAudit ==
  \A w \in Worker : At(w, "recording") => task[w].run.audit = task[w].audit

NoneForgotten == TypeOK /\ RecordsItsAudit /\ AuditNeverForgotten

(* The reasons a single worker gives for an audit that is still to come.   *)
RunsAudit(w, s) ==
  /\ w \in claims
  /\ task[w].work = PackageAudit(ProjectOf[s])
  /\ \A a \in Audit : Audited(s, a) \/ Ahead(task[w], a, s)
RunsFetch(w, s) ==
  w \in claims /\ \E c \in Names[s] : task[w].work = PackageFacts(c)
Asks(w, s) ==
  \/ task[w].pc = "asked" /\ task[w].work.coordinate \in Names[s]
  \/ task[w].pc = "queueing" /\ ProjectOf[s] \in task[w].found

(* Only the step of one worker w takes something away, and only of w.      *)
OnlyTakesFrom(w, s) ==
  /\ ScanAsks(s) => ScanAsks(s)'
  /\ runs \subseteq runs'
  /\ queued \cup left \subseteq queued' \cup left'
  /\ \A v \in Worker \ {w} : task'[v] = task[v] /\ (v \in claims => v \in claims')

(* What one worker does leaves the others' reasons as they are.            *)
LEMMA OthersKeepTheirReasons ==
  ASSUME TypeOK, NEW w \in Worker, NEW s \in Snapshot,
         OnlyTakesFrom(w, s), AuditComes(s)
  PROVE  AuditComes(s)' \/ RunsAudit(w, s) \/ RunsFetch(w, s) \/ Asks(w, s)
  <1> USE DEF OnlyTakesFrom
  <1>1. CASE ScanAsks(s)
    BY <1>1 DEF AuditComes
  <1>2. CASE AuditWaits(s)
    <2>1. AuditWaits(s)'
      BY <1>2 DEF AuditWaits
    <2> QED  BY <2>1 DEF AuditComes
  <1>3. CASE AuditRuns(s)
    <2>1. PICK v \in claims :
            /\ task[v].work = PackageAudit(ProjectOf[s])
            /\ \A a \in Audit : Audited(s, a) \/ Ahead(task[v], a, s)
      BY <1>3 DEF AuditRuns
    <2>2. CASE v = w
      BY <2>1, <2>2 DEF RunsAudit
    <2>3. CASE v # w
      <3>1. v \in claims' /\ task'[v] = task[v]
        BY <2>3 DEF TypeOK
      <3>2. \A a \in Audit : Audited(s, a) => Audited(s, a)'
        BY DEF Audited
      <3>3. \A a \in Audit : Audited(s, a)' \/ Ahead(task[v], a, s)'
        BY <2>1, <3>1, <3>2 DEF Ahead
      <3>4. AuditRuns(s)'
        BY <2>1, <3>1, <3>3 DEF AuditRuns
      <3> QED  BY <3>4 DEF AuditComes
    <2> QED  BY <2>2, <2>3
  <1>4. CASE FetchLive(s)
    <2>1. PICK c \in Names[s] : PackageFacts(c) \in queued \cup Held
      BY <1>4 DEF FetchLive
    <2>2. CASE PackageFacts(c) \in queued \cup left
      <3>1. FetchLive(s)'
        BY <2>1, <2>2 DEF FetchLive, Held
      <3> QED  BY <3>1 DEF AuditComes
    <2>3. CASE PackageFacts(c) \notin queued \cup left
      <3>1. PICK v \in claims : PackageFacts(c) = task[v].work
        BY <2>1, <2>3 DEF Held
      <3>2. CASE v = w
        BY <2>1, <3>1, <3>2 DEF RunsFetch
      <3>3. CASE v # w
        <4>1. v \in claims' /\ task'[v] = task[v]
          BY <3>3 DEF TypeOK
        <4>2. FetchLive(s)'
          BY <2>1, <3>1, <4>1 DEF FetchLive, Held
        <4> QED  BY <4>2 DEF AuditComes
      <3> QED  BY <3>2, <3>3
    <2> QED  BY <2>2, <2>3
  <1>5. CASE FetchAsks(s)
    <2>1. PICK v \in Worker : Asks(v, s)
      BY <1>5 DEF FetchAsks, Asks
    <2>2. CASE v = w
      BY <2>1, <2>2
    <2>3. CASE v # w
      <3>1. FetchAsks(s)'
        BY <2>1, <2>3 DEF FetchAsks, Asks
      <3> QED  BY <3>1 DEF AuditComes
    <2> QED  BY <2>2, <2>3
  <1> QED  BY <1>1, <1>2, <1>3, <1>4, <1>5 DEF AuditComes

(* A worker that keeps its claim and work keeps its reason as a fetch.     *)
LEMMA FetchGoesOn ==
  ASSUME NEW w \in Worker, NEW s \in Snapshot, RunsFetch(w, s),
         \/ w \in claims' /\ task'[w].work = task[w].work
         \/ task[w].work \in queued' \cup left'
  PROVE  AuditComes(s)'
  <1>1. FetchLive(s)'
    BY DEF RunsFetch, FetchLive, Held
  <1> QED  BY <1>1 DEF AuditComes

(* An audit that goes back to the queue waits.                             *)
LEMMA AuditGoesBack ==
  ASSUME NEW w \in Worker, NEW s \in Snapshot, RunsAudit(w, s),
         task[w].work \in queued' \cup left'
  PROVE  AuditComes(s)'
  <1>1. AuditWaits(s)'
    BY DEF RunsAudit, AuditWaits
  <1> QED  BY <1>1 DEF AuditComes

(* An audit that goes on still has every audit it had not recorded ahead.  *)
LEMMA AuditGoesOn ==
  ASSUME NEW w \in Worker, NEW s \in Snapshot, RunsAudit(w, s),
         w \in claims', task'[w].work = task[w].work,
         \A a \in Audit : Audited(s, a)' \/ Ahead(task[w], a, s)'
  PROVE  AuditComes(s)'
  <1>1. AuditRuns(s)'
    BY DEF RunsAudit, AuditRuns
  <1> QED  BY <1>1 DEF AuditComes

(* A snapshot lacks an audit after a step because it lacked one before.    *)
LEMMA LackedBefore ==
  ASSUME NEW s \in Snapshot, Unaudited(s)', Marked(s)' => Marked(s), runs \subseteq runs',
         \A c \in Names[s] : Answered(c)' => Answered(c)
  PROVE  Unaudited(s)
  BY DEF Unaudited, Ready, Audited

(* What a worker is at decides which reason it can give.                   *)
LEMMA ReasonsByKind ==
  ASSUME TypeOK, NEW w \in Worker, NEW s \in Snapshot
  PROVE  /\ task[w] \in Fetching => ~RunsAudit(w, s) /\ ~Asks(w, s)
         /\ task[w] \in Auditing \cup Recording => ~RunsFetch(w, s) /\ ~Asks(w, s)
         /\ Asks(w, s) => w \notin claims
         /\ w \notin claims => ~RunsAudit(w, s) /\ ~RunsFetch(w, s)
  <1>1. task[w] \in Fetching => ~RunsAudit(w, s) /\ ~Asks(w, s)
    BY VersionOfFetch, KindsDiffer DEF RunsAudit, Asks, Fetching
  <1>2. task[w] \in Auditing \cup Recording => ~RunsFetch(w, s) /\ ~Asks(w, s)
    BY KindsDiffer DEF RunsFetch, Asks, Auditing, Recording
  <1>3. Asks(w, s) => w \notin claims
    BY DEF TypeOK, Interruptible, Asks
  <1> QED  BY <1>1, <1>2, <1>3 DEF RunsAudit, RunsFetch

(* In a step that takes only from w, w's reason is all there is to settle. *)
LEMMA StillComesUnless ==
  ASSUME NoneForgotten, ~slipped, NEW w \in Worker, NEW s \in Snapshot,
         OnlyTakesFrom(w, s), Unaudited(s)
  PROVE  AuditComes(s)' \/ RunsAudit(w, s) \/ RunsFetch(w, s) \/ Asks(w, s)
  BY OthersKeepTheirReasons DEF NoneForgotten, AuditNeverForgotten

(* The steps of a fetch: its reason is handed on until the audits it may   *)
(* have made ready are queued.                                             *)
LEMMA FetchForgetsNone ==
  ASSUME NoneForgotten, NEW w \in Worker,
         \/ CheckCache(w) \/ StoreFailure(w) \/ RetryLater(w) \/ FailForGood(w)
         \/ Finish(w) \/ FindUnaudited(w) \/ QueueAudits(w),
         ~slipped', NEW s \in Snapshot, Unaudited(s)'
  PROVE  AuditComes(s)'
  <1> USE DEF At
  <1>0. TypeOK  BY DEF NoneForgotten
  <1>1. CASE CheckCache(w)
    <2>1. Unaudited(s)
      BY <1>1, LackedBefore DEF CheckCache, Marked, Answered
    <2>2. task[w] \in Fetching
      BY <1>0, <1>1, TaskKinds DEF CheckCache
    <2>3. task'[w].work = task[w].work
      BY <1>0, <1>1, <2>2 DEF CheckCache, Goes, Fetching, TypeOK
    <2>4. OnlyTakesFrom(w, s)
      BY <1>0, <1>1 DEF CheckCache, Goes, OnlyTakesFrom, ScanAsks, TypeOK
    <2>5. AuditComes(s)' \/ RunsFetch(w, s)
      BY <1>0, <1>1, <2>1, <2>2, <2>4, StillComesUnless, ReasonsByKind DEF CheckCache
    <2>6. RunsFetch(w, s) => w \in claims'
      BY <1>1 DEF CheckCache, RunsFetch
    <2> QED  BY <2>3, <2>5, <2>6, FetchGoesOn
  <1>2. CASE StoreFailure(w)
    <2>1. task[w] \in Fetching /\ Version(w) \in Coordinate
      BY <1>0, <1>2, TaskKinds, VersionOfFetch DEF StoreFailure
    <2>2. \A c \in Names[s] : Answered(c)' => Answered(c)
      BY <1>0, <1>2, <2>1, RegistryAssumption DEF StoreFailure, Answered, TypeOK
    <2>3. Unaudited(s)
      BY <1>2, <2>2, LackedBefore DEF StoreFailure, Marked
    <2>4. task'[w].work = task[w].work
      BY <1>0, <1>2, <2>1 DEF StoreFailure, Goes, Fetching, TypeOK
    <2>5. OnlyTakesFrom(w, s)
      BY <1>0, <1>2 DEF StoreFailure, Goes, OnlyTakesFrom, ScanAsks, TypeOK
    <2>6. AuditComes(s)' \/ RunsFetch(w, s)
      BY <1>0, <1>2, <2>1, <2>3, <2>5, StillComesUnless, ReasonsByKind DEF StoreFailure
    <2>7. RunsFetch(w, s) => w \in claims'
      BY <1>2 DEF StoreFailure, RunsFetch
    <2> QED  BY <2>4, <2>6, <2>7, FetchGoesOn
  <1>3. CASE RetryLater(w)
    <2>1. Unaudited(s)
      BY <1>3, LackedBefore DEF RetryLater, Marked, Answered
    <2>2. task[w] \in Fetching
      BY <1>0, <1>3, TaskKinds DEF RetryLater
    <2>3. OnlyTakesFrom(w, s)
      BY <1>0, <1>3 DEF RetryLater, Requeue, Leaves, OnlyTakesFrom, ScanAsks, TypeOK
    <2>4. AuditComes(s)' \/ RunsFetch(w, s)
      BY <1>0, <1>3, <2>1, <2>2, <2>3, StillComesUnless, ReasonsByKind DEF RetryLater
    <2>5. RunsFetch(w, s) => task[w].work \in queued'
      BY <1>3 DEF RetryLater, Requeue, RunsFetch
    <2> QED  BY <2>4, <2>5, FetchGoesOn
  <1>4. CASE FailForGood(w)
    <2>1. Unaudited(s) /\ Ready(s)
      BY <1>4, LackedBefore DEF FailForGood, Marked, Answered, Unaudited
    <2>2. task[w] \in Fetching
      BY <1>0, <1>4, TaskKinds DEF FailForGood
    <2>3. OnlyTakesFrom(w, s)
      BY <1>0, <1>4 DEF FailForGood, Leaves, OnlyTakesFrom, ScanAsks, TypeOK
    <2>4. AuditComes(s)' \/ RunsFetch(w, s)
      BY <1>0, <1>4, <2>1, <2>2, <2>3, StillComesUnless, ReasonsByKind DEF FailForGood
    <2>5. ASSUME RunsFetch(w, s)  PROVE FALSE
      <3>1. w \in claims /\ Version(w) \in Names[s]
        BY <2>5 DEF RunsFetch, Version, PackageFacts
      <3>2. Answered(Version(w))
        BY <2>1, <3>1 DEF Ready
      <3> QED  BY <1>4, <3>1, <3>2 DEF FailForGood
    <2> QED  BY <2>4, <2>5
  <1>5. CASE Finish(w)
    <2>1. Unaudited(s)
      BY <1>5, LackedBefore DEF Finish, Marked, Answered
    <2>2. task[w] \in Fetching
      BY <1>0, <1>5, TaskKinds DEF Finish
    <2>3. OnlyTakesFrom(w, s)
      BY <1>0, <1>5 DEF Finish, OnlyTakesFrom, ScanAsks, TypeOK
    <2>4. AuditComes(s)' \/ RunsFetch(w, s)
      BY <1>0, <1>5, <2>1, <2>2, <2>3, StillComesUnless, ReasonsByKind DEF Finish
    <2>5. CASE RunsFetch(w, s)
      <3>1. task'[w] = [pc |-> "asked", work |-> task[w].work]
        BY <1>0, <1>5, <2>5 DEF Finish, RunsFetch, TypeOK
      <3>2. task[w].work.coordinate \in Names[s]
        BY <2>5 DEF RunsFetch, PackageFacts
      <3>3. FetchAsks(s)'
        BY <3>1, <3>2 DEF FetchAsks
      <3> QED  BY <3>3 DEF AuditComes
    <2> QED  BY <2>4, <2>5
  <1>6. CASE FindUnaudited(w)
    <2>1. Unaudited(s)
      BY <1>6, LackedBefore DEF FindUnaudited, Marked, Answered
    <2>2. w \notin claims
      BY <1>0, <1>6 DEF FindUnaudited, TypeOK, Interruptible
    <2>3. OnlyTakesFrom(w, s)
      BY <1>0, <1>6 DEF FindUnaudited, OnlyTakesFrom, ScanAsks, TypeOK
    <2>4. AuditComes(s)' \/ Asks(w, s)
      BY <1>6, <2>1, <2>2, <2>3, StillComesUnless DEF FindUnaudited, RunsAudit, RunsFetch
    <2>5. CASE Asks(w, s)
      <3>1. Version(w) \in Names[s]
        BY <1>6, <2>5 DEF FindUnaudited, Asks, Version
      <3>2. ProjectOf[s] \in UnauditedProjects(Version(w))
        BY <2>1, <3>1 DEF UnauditedProjects, Unaudited, Marked, Recorded
      <3>3. task'[w].pc = "queueing" /\ ProjectOf[s] \in task'[w].found
        BY <1>0, <1>6, <3>2 DEF FindUnaudited, TypeOK
      <3>4. FetchAsks(s)'
        BY <3>3 DEF FetchAsks
      <3> QED  BY <3>4 DEF AuditComes
    <2> QED  BY <2>4, <2>5
  <1>7. CASE QueueAudits(w)
    <2>1. Unaudited(s)
      BY <1>7, LackedBefore DEF QueueAudits, Marked, Answered
    <2>2. w \notin claims
      BY <1>0, <1>7 DEF QueueAudits, TypeOK, Interruptible
    <2>3. OnlyTakesFrom(w, s)
      BY <1>0, <1>7 DEF QueueAudits, Enqueue, Leaves, OnlyTakesFrom, ScanAsks, TypeOK
    <2>4. AuditComes(s)' \/ Asks(w, s)
      BY <1>7, <2>1, <2>2, <2>3, StillComesUnless DEF QueueAudits, RunsAudit, RunsFetch
    <2>5. CASE Asks(w, s)
      <3>1. ProjectOf[s] \in task[w].found
        BY <1>7, <2>5 DEF QueueAudits, Asks
      <3>2. ~CoveredWhileRunning(PackageAudit(ProjectOf[s]))
        BY DEF CoveredWhileRunning, PackageAudit
      <3>3. AuditWaits(s)'
        BY <1>7, <3>1, <3>2 DEF QueueAudits, Enqueue, AuditWaits
      <3> QED  BY <3>3 DEF AuditComes
    <2> QED  BY <2>4, <2>5
  <1> QED  BY <1>1, <1>2, <1>3, <1>4, <1>5, <1>6, <1>7

(* An answer may make any snapshot ready that names the version; the job   *)
(* of the run that stored it is live, and so asks once it has ended.       *)
LEMMA AnswerForgetsNone ==
  ASSUME NoneForgotten, NEW w \in Worker, StoreAnswer(w),
         ~slipped', NEW s \in Snapshot, Unaudited(s)'
  PROVE  AuditComes(s)'
  <1> USE DEF At
  <1>0. TypeOK  BY DEF NoneForgotten
  <1>1. task[w] \in Fetching
    BY <1>0, TaskKinds DEF StoreAnswer
  <1>2. /\ Version(w) \in Coordinate
        /\ task[w].work = PackageFacts(Version(w))
    BY <1>1, VersionOfFetch
  <1>3. ~slipped /\ task[w].work \in Held \cup queued
    BY DEF StoreAnswer
  <1>4. \A v \in Worker : task'[v].work = task[v].work
    BY <1>0, <1>1 DEF StoreAnswer, Goes, Fetching, TypeOK
  <1>5. CASE Version(w) \in Names[s]
    <2>1. task[w].work \in Held' \cup queued'
      BY <1>0, <1>3, <1>4 DEF Held, StoreAnswer, TypeOK
    <2>2. FetchLive(s)'
      BY <1>2, <1>5, <2>1 DEF FetchLive
    <2> QED  BY <2>2 DEF AuditComes
  <1>6. CASE Version(w) \notin Names[s]
    <2>1. \A c \in Names[s] : c \in Coordinate /\ facts'[c] = facts[c]
      BY <1>0, <1>6, RegistryAssumption DEF StoreAnswer, TypeOK
    <2>2. Unaudited(s)
      BY <2>1, LackedBefore DEF StoreAnswer, Marked, Answered
    <2>3. OnlyTakesFrom(w, s)
      BY <1>0 DEF StoreAnswer, Goes, OnlyTakesFrom, ScanAsks, TypeOK
    <2>4. AuditComes(s)' \/ RunsFetch(w, s)
      BY <1>0, <1>1, <1>3, <2>2, <2>3, StillComesUnless, ReasonsByKind
    <2>5. RunsFetch(w, s) => w \in claims'
      BY DEF StoreAnswer, RunsFetch
    <2> QED  BY <1>4, <2>4, <2>5, FetchGoesOn
  <1> QED  BY <1>5, <1>6

(* The steps of an audit: what it lists, and then records, is all that was *)
(* missing of the snapshots that are ready.                                *)
LEMMA AuditForgetsNone ==
  ASSUME NoneForgotten, NEW w \in Worker,
         \/ ListAwaiting(w) \/ Look(w) \/ RecordAudit(w) \/ ToArrivals(w) \/ FinishAudit(w),
         ~slipped', NEW s \in Snapshot, Unaudited(s)'
  PROVE  AuditComes(s)'
  <1> USE DEF At
  <1>0. TypeOK  BY DEF NoneForgotten
  <1>1. task[w] \in Auditing \cup Recording
    BY <1>0, TaskKinds DEF ListAwaiting, Look, RecordAudit, ToArrivals, FinishAudit
  <1>2. Unaudited(s) /\ ~slipped
    BY LackedBefore DEF ListAwaiting, Look, RecordAudit, ToArrivals, FinishAudit, Marked, Answered
  <1>3. OnlyTakesFrom(w, s)
    BY <1>0 DEF ListAwaiting, Look, RecordAudit, ToArrivals, FinishAudit, AuditGoes, Leaves,
                OnlyTakesFrom, ScanAsks, TypeOK
  <1>4. AuditComes(s)' \/ RunsAudit(w, s)
    BY <1>0, <1>1, <1>2, <1>3, StillComesUnless, ReasonsByKind
  <1> SUFFICES ASSUME RunsAudit(w, s)  PROVE AuditComes(s)'
    BY <1>4
  <1>5. CASE ListAwaiting(w)
    <2>1. /\ w \in claims'
          /\ task'[w] = [pc |-> "looking", work |-> task[w].work, audit |-> task[w].audit,
                         todo |-> Awaiting(task[w].work.project, task[w].audit)]
      BY <1>0, <1>5 DEF ListAwaiting, AuditGoes, RunsAudit, TypeOK
    <2>2. task[w].work.project = ProjectOf[s]
      BY DEF RunsAudit, PackageAudit
    <2>3. \A a \in Audit : Audited(s, a) => Audited(s, a)'
      BY <1>5 DEF ListAwaiting, Audited
    <2>4. ~Audited(s, task[w].audit) => s \in Awaiting(task[w].work.project, task[w].audit)
      BY <1>2, <2>2 DEF Awaiting, Unaudited, Marked, Recorded
    <2>5. ASSUME NEW a \in Audit  PROVE Audited(s, a)' \/ Ahead(task[w], a, s)'
      BY <1>5, <2>1, <2>3, <2>4 DEF ListAwaiting, RunsAudit, Ahead
    <2> QED  BY <2>1, <2>5, AuditGoesOn
  <1>6. CASE Look(w)
    <2>1. /\ w \in claims' /\ task'[w].work = task[w].work
          /\ task'[w].audit = task[w].audit /\ task'[w].todo = task[w].todo
      BY <1>0, <1>6 DEF Look, RunsAudit, TypeOK
    <2>2. ASSUME NEW a \in Audit  PROVE Audited(s, a)' \/ Ahead(task[w], a, s)'
      BY <1>6, <2>1 DEF Look, RunsAudit, Ahead, Audited
    <2> QED  BY <2>1, <2>2, AuditGoesOn
  <1>7. CASE RecordAudit(w)
    <2>1. /\ w \in claims' /\ task'[w].work = task[w].work
          /\ task'[w].audit = task[w].audit
          /\ task'[w].todo = task[w].todo \ {task[w].run.snapshot}
      BY <1>0, <1>7 DEF RecordAudit, AuditGoes, RunsAudit, TypeOK
    <2>2. task[w].run \in runs' /\ runs \subseteq runs'
      BY <1>7 DEF RecordAudit
    <2>3. task[w].run.audit = task[w].audit
      BY <1>7 DEF RecordAudit, NoneForgotten, RecordsItsAudit
    <2>4. \A a \in Audit : Audited(s, a) => Audited(s, a)'
      BY <2>2 DEF Audited
    <2>5. s = task[w].run.snapshot => Audited(s, task[w].audit)'
      BY <2>1, <2>2, <2>3 DEF Audited
    <2>6. ASSUME NEW a \in Audit  PROVE Audited(s, a)' \/ Ahead(task[w], a, s)'
      BY <1>7, <2>1, <2>4, <2>5 DEF RecordAudit, RunsAudit, Ahead
    <2> QED  BY <2>1, <2>6, AuditGoesOn
  <1>8. CASE ToArrivals(w)
    <2>1. /\ w \in claims'
          /\ task'[w] = [pc |-> "listing", work |-> task[w].work,
                         audit |-> "package-audit", todo |-> {}]
      BY <1>0, <1>8 DEF ToArrivals, AuditGoes, RunsAudit, TypeOK
    <2>2. ASSUME NEW a \in Audit  PROVE Audited(s, a)' \/ Ahead(task[w], a, s)'
      BY <1>8, <2>1 DEF ToArrivals, RunsAudit, Ahead, Audit, Audited
    <2> QED  BY <2>1, <2>2, AuditGoesOn
  <1>9. CASE FinishAudit(w)
    <2>1. \A a \in Audit : ~Ahead(task[w], a, s)
      BY <1>9 DEF FinishAudit, Ahead
    <2> QED  BY <1>2, <2>1 DEF RunsAudit, Unaudited
  <1> QED  BY <1>5, <1>6, <1>7, <1>8, <1>9

(* A job that is claimed, loses its lease, is retried or is left behind is *)
(* still somewhere; one that ends for good without a request is a slip.    *)
LEMMA QueueForgetsNone ==
  ASSUME NoneForgotten, NEW w \in Worker,
         \/ \E x \in Work : Claim(w, x)
         \/ LoseLease(w) \/ Retry(w) \/ GiveUp(w) \/ AbandonRun(w) \/ DropAudits(w),
         ~slipped', NEW s \in Snapshot, Unaudited(s)'
  PROVE  AuditComes(s)'
  <1>0. TypeOK  BY DEF NoneForgotten
  <1>1. Unaudited(s) /\ ~slipped
    <2>1. facts' = facts /\ runs' = runs /\ scan' = scan
      BY DEF Claim, LoseLease, Retry, GiveUp, AbandonRun, DropAudits
    <2>2. Unaudited(s)
      BY <2>1, LackedBefore DEF Marked, Answered
    <2>3. ~slipped
      BY <1>0 DEF Claim, LoseLease, Retry, GiveUp, AbandonRun, DropAudits, TypeOK
    <2> QED  BY <2>2, <2>3
  <1>2. ASSUME NEW x \in Work, Claim(w, x)
        PROVE  AuditComes(s)'
    <2>1. /\ task'[w].work = x /\ task'[w] = Started(x) /\ w \in claims'
      BY <1>0, <1>2, StartedTyped DEF Claim, TypeOK
    <2>2. CASE x = PackageAudit(ProjectOf[s])
      <3>1. task'[w] = [pc |-> "listing", work |-> x, audit |-> "checksum-audit", todo |-> {}]
        BY <2>1, <2>2, StartedTyped, KindsDiffer
      <3>2. AuditRuns(s)'
        BY <2>1, <2>2, <3>1 DEF AuditRuns, Ahead, Audit
      <3> QED  BY <3>2 DEF AuditComes
    <2>3. CASE \E c \in Names[s] : x = PackageFacts(c)
      <3>1. FetchLive(s)'
        BY <2>1, <2>3 DEF FetchLive, Held
      <3> QED  BY <3>1 DEF AuditComes
    <2>4. CASE x # PackageAudit(ProjectOf[s]) /\ ~\E c \in Names[s] : x = PackageFacts(c)
      <3>1. AuditComes(s)
        BY <1>1 DEF NoneForgotten, AuditNeverForgotten
      <3>2. w \notin claims
        BY <1>0, <1>2 DEF Claim, Idle, TypeOK, Interruptible
      <3>3. \A v \in claims : task'[v] = task[v] /\ v \in claims'
        BY <1>0, <1>2, <3>2 DEF Claim, TypeOK
      <3>4. /\ scan' = scan /\ runs' = runs /\ left' = left /\ queued' = queued \ {x}
            /\ \A v \in Worker : v # w => task'[v] = task[v]
        BY <1>0, <1>2 DEF Claim, TypeOK
      <3>5. CASE ScanAsks(s)
        BY <3>4, <3>5 DEF AuditComes, ScanAsks
      <3>6. CASE AuditWaits(s)
        BY <2>4, <3>4, <3>6 DEF AuditComes, AuditWaits
      <3>7. CASE AuditRuns(s)
        <4>1. AuditRuns(s)'
          BY <3>3, <3>4, <3>7 DEF AuditRuns, Ahead, Audited
        <4> QED  BY <4>1 DEF AuditComes
      <3>8. CASE FetchLive(s)
        <4>1. FetchLive(s)'
          BY <2>4, <3>3, <3>4, <3>8 DEF FetchLive, Held
        <4> QED  BY <4>1 DEF AuditComes
      <3>9. CASE FetchAsks(s)
        <4>1. PICK v \in Worker : Asks(v, s)
          BY <3>9 DEF FetchAsks, Asks
        <4>2. v # w
          BY <1>2, <4>1 DEF Claim, Idle, Asks
        <4>3. FetchAsks(s)'
          BY <3>4, <4>1, <4>2 DEF FetchAsks, Asks
        <4> QED  BY <4>3 DEF AuditComes
      <3> QED  BY <3>1, <3>5, <3>6, <3>7, <3>8, <3>9 DEF AuditComes
    <2> QED  BY <2>2, <2>3, <2>4
  <1>3. ASSUME LoseLease(w) \/ Retry(w) \/ AbandonRun(w)
        PROVE  AuditComes(s)'
    <2>1. OnlyTakesFrom(w, s)
      BY <1>0, <1>3 DEF LoseLease, Retry, AbandonRun, Requeue, Leaves,
                        OnlyTakesFrom, ScanAsks, TypeOK
    <2>2. w \in claims => task[w].work \in queued' \cup left'
      BY <1>3 DEF LoseLease, Retry, AbandonRun, Requeue
    <2>3. ~Asks(w, s)
      BY <1>0, <1>3, ReasonsByKind DEF LoseLease, Retry, AbandonRun, Interruptible, Asks
    <2>4. AuditComes(s)' \/ RunsAudit(w, s) \/ RunsFetch(w, s)
      BY <1>1, <2>1, <2>3, StillComesUnless
    <2> QED  BY <2>2, <2>4, FetchGoesOn, AuditGoesBack DEF RunsAudit, RunsFetch
  <1>4. CASE GiveUp(w)
    <2>1. w \notin claims
      BY <1>4 DEF GiveUp
    <2>2. OnlyTakesFrom(w, s)
      BY <1>0, <1>4 DEF GiveUp, Leaves, OnlyTakesFrom, ScanAsks, TypeOK
    <2>3. ~Asks(w, s)
      BY <1>4 DEF GiveUp, Interruptible, Asks
    <2> QED  BY <1>1, <2>1, <2>2, <2>3, StillComesUnless DEF RunsAudit, RunsFetch
  <1>5. CASE DropAudits(w)
    BY <1>5 DEF DropAudits
  <1> QED  BY <1>2, <1>3, <1>4, <1>5

(* Only a scan makes a snapshot one to audit, and then asks; a scan that   *)
(* stops before it asked is a slip.                                        *)
LEMMA ScanForgetsNone ==
  ASSUME NoneForgotten,
         \/ \E s \in Snapshot : ScanStep(s) \/ StopScan(s)
         \/ \E c \in Coordinate : Expire(c)
         \/ Reclaim \/ Sweep,
         ~slipped', NEW s \in Snapshot, Unaudited(s)'
  PROVE  AuditComes(s)'
  <1>0. TypeOK  BY DEF NoneForgotten
  <1>1. /\ runs' = runs /\ task' = task /\ claims' = claims
        /\ queued \cup left \subseteq queued' \cup left'
    BY DEF ScanStep, RecordNames, MarkAnalysed, ListStale, QueueForSnapshot, Advance, Enqueue,
           StopScan, Expire, Reclaim, Sweep
  <1>2. \A c \in Names[s] : Answered(c)' => Answered(c)
    <2>1. CASE facts' = facts
      BY <2>1 DEF Answered
    <2>2. ASSUME NEW d \in Coordinate, Expire(d)  PROVE \A c \in Names[s] : Answered(c)' => Answered(c)
      <3>1. [facts[d] EXCEPT !.fresh = FALSE].status = facts[d].status
        BY <1>0 DEF TypeOK, Facts
      <3> QED  BY <1>0, <2>2, <3>1, RegistryAssumption DEF Expire, Answered, TypeOK
    <2> QED  BY <2>1, <2>2 DEF ScanStep, RecordNames, MarkAnalysed, ListStale, QueueForSnapshot,
                               StopScan, Reclaim, Sweep
  <1>3. ASSUME ~slipped, Marked(s)' => Marked(s), ScanAsks(s) => ScanAsks(s)'
        PROVE  AuditComes(s)'
    <2>1. AuditComes(s)
      BY <1>1, <1>2, <1>3, LackedBefore DEF NoneForgotten, AuditNeverForgotten
    <2>2. CASE ScanAsks(s)
      BY <1>3, <2>2 DEF AuditComes
    <2>3. CASE AuditWaits(s)
      BY <1>1, <2>3 DEF AuditComes, AuditWaits
    <2>4. CASE AuditRuns(s)
      <3>1. AuditRuns(s)'
        BY <1>1, <2>4 DEF AuditRuns, Ahead, Audited
      <3> QED  BY <3>1 DEF AuditComes
    <2>5. CASE FetchLive(s)
      <3>1. FetchLive(s)'
        BY <1>1, <2>5 DEF FetchLive, Held
      <3> QED  BY <3>1 DEF AuditComes
    <2>6. CASE FetchAsks(s)
      <3>1. FetchAsks(s)'
        BY <1>1, <2>6 DEF FetchAsks
      <3> QED  BY <3>1 DEF AuditComes
    <2> QED  BY <2>1, <2>2, <2>3, <2>4, <2>5, <2>6 DEF AuditComes
  <1>4. CASE scan' = scan
    <2>1. ~slipped
      BY DEF ScanStep, RecordNames, MarkAnalysed, ListStale, QueueForSnapshot,
             StopScan, Expire, Reclaim, Sweep
    <2> QED  BY <1>3, <1>4, <2>1 DEF Marked, ScanAsks
  <1>5. ASSUME NEW r \in Snapshot, RecordNames(r) \/ ListStale(r)
        PROVE  AuditComes(s)'
    BY <1>0, <1>3, <1>5 DEF RecordNames, ListStale, Advance, Marked, ScanAsks, TypeOK
  <1>6. ASSUME NEW r \in Snapshot, MarkAnalysed(r)
        PROVE  AuditComes(s)'
    <2>1. CASE r = s
      <3>1. ScanAsks(s)'
        BY <1>0, <1>6, <2>1 DEF MarkAnalysed, Advance, ScanAsks, TypeOK
      <3> QED  BY <3>1 DEF AuditComes
    <2>2. CASE r # s
      BY <1>0, <1>3, <1>6, <2>2 DEF MarkAnalysed, Advance, Marked, ScanAsks, TypeOK
    <2> QED  BY <2>1, <2>2
  <1>7. ASSUME NEW r \in Snapshot, QueueForSnapshot(r)
        PROVE  AuditComes(s)'
    <2>1. CASE r = s
      <3>1. ~CoveredWhileRunning(PackageAudit(ProjectOf[s]))
        BY DEF CoveredWhileRunning, PackageAudit
      <3>2. AuditWaits(s)'
        BY <1>7, <2>1, <3>1 DEF QueueForSnapshot, Enqueue, AuditWaits
      <3> QED  BY <3>2 DEF AuditComes
    <2>2. CASE r # s
      BY <1>0, <1>3, <1>7, <2>2 DEF QueueForSnapshot, Advance, Marked, ScanAsks, TypeOK
    <2> QED  BY <2>1, <2>2
  <1>8. ASSUME NEW r \in Snapshot, StopScan(r)
        PROVE  AuditComes(s)'
    <2>1. scan[r].stage = "recorded" /\ ~slipped
      BY <1>8 DEF StopScan
    <2>2. scan'[s].stage = IF r = s THEN "abandoned" ELSE scan[s].stage
      BY <1>0, <1>8, <2>1 DEF StopScan, Advance, TypeOK
    <2> QED  BY <1>3, <2>1, <2>2 DEF Marked, ScanAsks
  <1> QED  BY <1>4, <1>5, <1>6, <1>7, <1>8 DEF ScanStep, Expire, Reclaim, Sweep

(* Nothing is analysed at first, so nothing is forgotten.                  *)
LEMMA NoneForgottenInitially == Init => NoneForgotten
  <1> SUFFICES ASSUME Init  PROVE NoneForgotten  OBVIOUS
  <1>1. RecordsItsAudit
    BY DEF Init, RecordsItsAudit, At, Idle
  <1>2. AuditNeverForgotten
    BY DEF Init, AuditNeverForgotten, Unaudited, Marked
  <1> QED  BY <1>1, <1>2, TypedInitially DEF NoneForgotten

(* A worker begins to record when it has looked.                           *)
LEMMA StepsRecordTheirAudit ==
  ASSUME TypeOK, RecordsItsAudit, Next
  PROVE  RecordsItsAudit'
  <1> USE DEF At
  <1> SUFFICES ASSUME NEW v \in Worker, task'[v].pc = "recording"
               PROVE  task'[v].run.audit = task'[v].audit
    BY DEF RecordsItsAudit
  <1>1. CASE task'[v] = task[v]
    BY <1>1 DEF RecordsItsAudit
  <1>2. ASSUME NEW w \in Worker,
               \/ StoreFailure(w) \/ CheckCache(w) \/ StoreAnswer(w)
        PROVE  task'[v] = task[v]
    <2>1. task[w] \in Fetching
      BY <1>2, TaskKinds DEF StoreFailure, CheckCache, StoreAnswer
    <2>2. \A pc \in {"answered", "failed", "reading"} : [task[w] EXCEPT !.pc = pc].pc # "recording"
      BY <2>1 DEF Fetching
    <2> QED  BY <1>2, <2>2 DEF StoreFailure, CheckCache, StoreAnswer, Goes, TypeOK
  <1>3. ASSUME NEW w \in Worker, Look(w)
        PROVE  task'[v].run.audit = task'[v].audit
    BY <1>1, <1>3 DEF Look, TypeOK
  <1>4. ASSUME NEW w \in Worker, NEW x \in Work, Claim(w, x)
        PROVE  task'[v] = task[v]
    <2>1. Started(x).pc # "recording"
      BY DEF Started
    <2> QED  BY <1>4, <2>1 DEF Claim, TypeOK
  <1>5. ASSUME NEW w \in Worker,
               \/ RetryLater(w) \/ Finish(w) \/ FindUnaudited(w) \/ QueueAudits(w)
               \/ ListAwaiting(w) \/ RecordAudit(w) \/ ToArrivals(w) \/ FinishAudit(w)
               \/ LoseLease(w) \/ FailForGood(w) \/ Retry(w) \/ GiveUp(w)
               \/ AbandonRun(w) \/ DropAudits(w)
        PROVE  task'[v] = task[v]
    BY <1>5 DEF RetryLater, Finish, FindUnaudited, QueueAudits, ListAwaiting, RecordAudit,
                ToArrivals, FinishAudit, LoseLease, FailForGood, Retry, GiveUp, AbandonRun,
                DropAudits, AuditGoes, Leaves, Idle, TypeOK
  <1>6. CASE \/ \E s \in Snapshot : ScanStep(s) \/ StopScan(s)
             \/ \E c \in Coordinate : Expire(c)
             \/ Reclaim \/ Sweep
    BY <1>1, <1>6 DEF ScanStep, RecordNames, MarkAnalysed, ListStale, QueueForSnapshot,
                      StopScan, Expire, Reclaim, Sweep
  <1> QED  BY <1>1, <1>2, <1>3, <1>4, <1>5, <1>6 DEF Next, Progress, Trouble

(* Every step keeps the invariant.                                         *)
LEMMA StepsForgetNone ==
  ASSUME NoneForgotten, [Next]_vars
  PROVE  NoneForgotten'
  <1>1. CASE UNCHANGED vars
    <2>1. RecordsItsAudit'
      BY <1>1 DEF NoneForgotten, RecordsItsAudit, At, vars
    <2>2. AuditNeverForgotten'
      BY <1>1 DEF NoneForgotten, AuditNeverForgotten, Unaudited, Marked, Ready, Answered, Audited,
                  AuditComes, ScanAsks, AuditWaits, AuditRuns, Ahead, FetchLive, Held, FetchAsks, vars
    <2>3. TypeOK'
      BY StepsTyped DEF NoneForgotten
    <2> QED  BY <2>1, <2>2, <2>3 DEF NoneForgotten
  <1>2. CASE Next
    <2>1. TypeOK' /\ RecordsItsAudit'
      BY <1>2, StepsTyped, StepsRecordTheirAudit DEF NoneForgotten
    <2>2. AuditNeverForgotten'
      BY <1>2, FetchForgetsNone, AnswerForgetsNone, AuditForgetsNone, QueueForgetsNone,
         ScanForgetsNone DEF AuditNeverForgotten, Next, Progress, Trouble
    <2> QED  BY <2>1, <2>2 DEF NoneForgotten
  <1> QED  BY <1>1, <1>2

(* No order of fetches, audits, scans, lost leases, retries and sweeps     *)
(* forgets an audit, for any number of versions, snapshots and workers:    *)
(* a ready snapshot that lacks one always has one coming (registry         *)
(* queue_audits, queue_for_snapshot, covered_while_running).               *)
THEOREM AuditsNeverForgotten == Spec => []AuditNeverForgotten
  <1>1. NoneForgotten => AuditNeverForgotten
    BY DEF NoneForgotten
  <1> QED  BY <1>1, NoneForgottenInitially, StepsForgetNone, PTL DEF Spec

-----------------------------------------------------------------------------
(* The queue these components use is a WorkList.  What it needs beyond the *)
(* types: a fetch that waits has no run, and no fetch has two.             *)

FetchedOnce ==
  /\ \A x \in Fetches : x \in queued => x \notin Held
  /\ \A v, w \in claims : task[v].work = task[w].work /\ task[v].work \in Fetches => v = w
  /\ \A w \in claims : task[w].work \in Fetches => task[w].work \notin left

ListWaiting == [x \in Work |-> IF x \in queued THEN 0 ELSE -2]

ListStep == [Queue!Next]_<<ListWaiting, Held>>

(* The runs of the other workers go on.                                    *)
OthersGoOn(w) == \A v \in claims : v # w => v \in claims' /\ task'[v].work = task[v].work

(* Work is fetches and audits, and nothing is both.                        *)
LEMMA WorkIsTwofold == Work = Fetches \cup Audits /\ Fetches \cap Audits = {}
  BY DEF Work, Fetches, Audits

(* A step that leaves the queue, the claims and their jobs alone.          *)
LEMMA QueueUntouched ==
  ASSUME FetchedOnce,
         UNCHANGED <<queued, claims, left>>,
         \A v \in claims : task'[v].work = task[v].work
  PROVE  FetchedOnce' /\ ListStep
  <1>1. Held' = Held
    BY DEF Held
  <1>2. ListWaiting' = ListWaiting
    BY DEF ListWaiting
  <1> QED  BY <1>1, <1>2 DEF FetchedOnce, ListStep

(* What is asked for waits, unless it is a fetch that has a run.           *)
LEMMA QueueAsked ==
  ASSUME TypeOK, FetchedOnce, NEW xs \in SUBSET Work, Enqueue(xs),
         UNCHANGED <<claims, left>>,
         \A v \in claims : task'[v].work = task[v].work
  PROVE  FetchedOnce' /\ ListStep
  <1>1. Held' = Held
    BY DEF Held
  <1>2. \A x \in Work : CoveredWhileRunning(x) <=> x \in Fetches
    BY DEF CoveredWhileRunning, Work, Fetches, Audits
  <1>3. FetchedOnce'
    BY <1>1, <1>2, WorkIsTwofold DEF FetchedOnce, Enqueue
  <1>4. \A x \in Work : ListWaiting'[x] =
          IF x \in xs /\ ~Queue!Answered(x) /\ ListWaiting[x] < 0 THEN 0 ELSE ListWaiting[x]
    BY <1>2, WorkIsTwofold DEF ListWaiting, Enqueue, Queue!Answered
  <1>5. ListWaiting' = [x \in Work |->
          IF x \in xs /\ ~Queue!Answered(x) /\ ListWaiting[x] < 0 THEN 0 ELSE ListWaiting[x]]
    BY <1>4 DEF ListWaiting
  <1>6. Queue!Request(xs, 0)
    BY <1>1, <1>5 DEF Queue!Request, ListWaiting
  <1> QED  BY <1>3, <1>6 DEF ListStep, Queue!Next, Queue!Priority

(* A claim starts what waited.                                             *)
LEMMA QueueStarts ==
  ASSUME TypeOK, FetchedOnce, NEW w \in Worker, NEW x \in Work, Claim(w, x)
  PROVE  FetchedOnce' /\ ListStep
  <1>1. w \notin claims /\ x \in queued
    BY DEF Claim, TypeOK, Idle, Interruptible
  <1>2. /\ queued' = queued \ {x} /\ claims' = claims \cup {w} /\ left' = left
        /\ task' = [task EXCEPT ![w] = Started(x)]
    BY DEF Claim
  <1>3. Started(x).work = x
    BY DEF Started
  <1>4. task'[w].work = x /\ \A v \in claims : task'[v].work = task[v].work
    BY <1>1, <1>2, <1>3 DEF TypeOK
  <1>5. Held' = Held \cup {x}
    BY <1>2, <1>4 DEF Held
  <1>6. x \in Held => x \in Audits
    BY <1>1, WorkIsTwofold DEF FetchedOnce
  <1>7. FetchedOnce'
    <2>1. \A y \in Fetches : y \in queued' => y \notin Held'
      BY <1>2, <1>5 DEF FetchedOnce
    <2>2. x \in Fetches => x \notin left /\ \A v \in claims : task[v].work # x
      BY <1>6, WorkIsTwofold DEF Held
    <2> QED  BY <1>2, <1>4, <2>1, <2>2 DEF FetchedOnce
  <1>8. ListWaiting' = [ListWaiting EXCEPT ![x] = -2]
    BY <1>2 DEF ListWaiting
  <1>9. ListWaiting[x] # -2
    BY <1>1 DEF ListWaiting
  <1>10. Queue!Start(x)
    BY <1>5, <1>6, <1>8, <1>9 DEF Queue!Start, Queue!Nothing, Queue!Priority, ListWaiting
  <1> QED  BY <1>7, <1>10 DEF ListStep, Queue!Next

(* A run is over.                                                          *)
LEMMA QueueEnds ==
  ASSUME TypeOK, FetchedOnce, NEW w \in claims,
         claims' = claims \ {w}, UNCHANGED <<queued, left>>, OthersGoOn(w)
  PROVE  FetchedOnce' /\ ListStep
  <1> DEFINE x == task[w].work
  <1>1. x \in Work /\ x \in Held
    BY JobsAreWork DEF TypeOK, Held
  <1>2. Held \ {x} \subseteq Held' /\ Held' \subseteq Held
    BY DEF Held, OthersGoOn
  <1>3. x \in Fetches => x \notin Held'
    BY DEF Held, OthersGoOn, FetchedOnce
  <1>4. FetchedOnce'
    BY <1>2 DEF FetchedOnce, OthersGoOn
  <1>5. ListWaiting' = ListWaiting
    BY DEF ListWaiting
  <1> HIDE DEF x
  <1>6. Queue!End(x)
    BY <1>1, <1>2, <1>3, <1>5, WorkIsTwofold DEF Queue!End, ListWaiting
  <1> QED  BY <1>1, <1>4, <1>6 DEF ListStep, Queue!Next

(* A run's job goes back to the queue.                                     *)
LEMMA QueueReturns ==
  ASSUME TypeOK, FetchedOnce, NEW w \in claims,
         claims' = claims \ {w}, queued' = queued \cup {task[w].work}, left' = left,
         OthersGoOn(w)
  PROVE  FetchedOnce' /\ ListStep
  <1> DEFINE x == task[w].work
  <1>1. x \in Work /\ x \in Held
    BY JobsAreWork DEF TypeOK, Held
  <1>2. Held \ {x} \subseteq Held' /\ Held' \subseteq Held
    BY DEF Held, OthersGoOn
  <1>3. x \in Fetches => x \notin Held'
    BY DEF Held, OthersGoOn, FetchedOnce
  <1>4. FetchedOnce'
    BY <1>2, <1>3 DEF FetchedOnce, OthersGoOn
  <1> HIDE DEF x
  <1>5. \A y \in Work : ListWaiting'[y] = IF y = x THEN 0 ELSE ListWaiting[y]
    BY DEF ListWaiting, x
  <1>6. ListWaiting' \in [Work -> {-1, 0} \cup {-2}]
    BY DEF ListWaiting
  <1>7. \A y \in Work : ListWaiting'[y] >= ListWaiting[y]
    BY <1>5 DEF ListWaiting
  <1>8. PICK ws \in SUBSET Work : ws = {x}
    BY <1>1
  <1>9. Queue!Return(ws)
    <2>1. ws \subseteq Held /\ Held \ ws \subseteq Held' /\ Held' \subseteq Held
      BY <1>1, <1>2, <1>8
    <2>2. \A y \in ws : y \notin Audits => y \notin Held'
      BY <1>1, <1>3, <1>8, WorkIsTwofold
    <2>3. /\ \A y \in ws : ListWaiting'[y] # -2
          /\ \A y \in Work \ ws : ListWaiting'[y] = ListWaiting[y]
      BY <1>1, <1>5, <1>8
    <2> QED  BY <1>6, <1>7, <2>1, <2>2, <2>3
             DEF Queue!Return, Queue!Nothing, Queue!Priority, ListWaiting
  <1> QED  BY <1>4, <1>9 DEF ListStep, Queue!Next

(* So do those whose worker was gone.                                      *)
LEMMA QueueReclaims ==
  ASSUME TypeOK, FetchedOnce, Reclaim
  PROVE  FetchedOnce' /\ ListStep
  <1>1. queued' = queued \cup left /\ left' = {} /\ UNCHANGED <<claims, task>>
    BY DEF Reclaim
  <1>2. left \in SUBSET Work /\ left \subseteq Held
    BY DEF TypeOK, Held
  <1>3. Held \ left \subseteq Held' /\ Held' \subseteq Held
    BY <1>1 DEF Held
  <1>4. \A x \in left : x \in Fetches => x \notin Held'
    BY <1>1 DEF Held, FetchedOnce
  <1>5. FetchedOnce'
    BY <1>1, <1>3, <1>4 DEF FetchedOnce
  <1>6. \A y \in Work : ListWaiting'[y] = IF y \in left THEN 0 ELSE ListWaiting[y]
    BY <1>1 DEF ListWaiting
  <1>7. ListWaiting' \in [Work -> {-1, 0} \cup {-2}]
    BY DEF ListWaiting
  <1>8. \A y \in Work : ListWaiting'[y] >= ListWaiting[y]
    BY <1>6 DEF ListWaiting
  <1>9. PICK ws \in SUBSET Work : ws = left
    BY <1>2
  <1>10. Queue!Return(ws)
    <2>1. ws \subseteq Held /\ Held \ ws \subseteq Held' /\ Held' \subseteq Held
      BY <1>2, <1>3, <1>9
    <2>2. \A y \in ws : y \notin Audits => y \notin Held'
      BY <1>2, <1>4, <1>9, WorkIsTwofold
    <2>3. /\ \A y \in ws : ListWaiting'[y] # -2
          /\ \A y \in Work \ ws : ListWaiting'[y] = ListWaiting[y]
      BY <1>2, <1>6, <1>9
    <2> QED  BY <1>7, <1>8, <2>1, <2>2, <2>3
             DEF Queue!Return, Queue!Nothing, Queue!Priority, ListWaiting
  <1> QED  BY <1>5, <1>10 DEF ListStep, Queue!Next

(* A run nobody is at keeps its job until its lease is taken back.         *)
LEMMA QueueAbandoned ==
  ASSUME TypeOK, FetchedOnce, NEW w \in claims,
         claims' = claims \ {w}, left' = left \cup {task[w].work}, queued' = queued,
         OthersGoOn(w)
  PROVE  FetchedOnce' /\ ListStep
  <1>1. Held' = Held
    BY DEF Held, OthersGoOn
  <1>2. FetchedOnce'
    BY <1>1 DEF FetchedOnce, OthersGoOn
  <1>3. ListWaiting' = ListWaiting
    BY DEF ListWaiting
  <1> QED  BY <1>1, <1>2, <1>3 DEF ListStep

(* A worker that leaves its run leaves the others at theirs.               *)
LEMMA LeavingRun ==
  ASSUME TypeOK, NEW w \in Worker, Leaves(w)
  PROVE  /\ claims' = claims \ {w} /\ OthersGoOn(w)
         /\ w \notin claims =>
              claims' = claims /\ \A v \in claims : task'[v].work = task[v].work
  BY DEF Leaves, OthersGoOn, TypeOK

(* What a run does to its own task is still for the same work.             *)
LEMMA SameJob ==
  ASSUME TypeOK, NEW w \in Worker,
         \/ CheckCache(w) \/ StoreAnswer(w) \/ StoreFailure(w) \/ FindUnaudited(w)
         \/ ListAwaiting(w) \/ Look(w) \/ RecordAudit(w) \/ ToArrivals(w)
  PROVE  UNCHANGED <<queued, claims, left>> /\ \A v \in claims : task'[v].work = task[v].work
  <1> USE DEF At
  <1>1. CASE CheckCache(w) \/ StoreAnswer(w) \/ StoreFailure(w)
    <2>1. task[w] \in Fetching
      BY <1>1, TaskKinds DEF CheckCache, StoreAnswer, StoreFailure
    <2>2. PICK pc : task' = [task EXCEPT ![w] = [task[w] EXCEPT !.pc = pc]]
      BY <1>1 DEF CheckCache, StoreAnswer, StoreFailure, Goes
    <2>3. [task[w] EXCEPT !.pc = pc].work = task[w].work
      BY <2>1 DEF Fetching
    <2>4. \A v \in claims : task'[v].work = task[v].work
      BY <2>2, <2>3 DEF TypeOK
    <2> QED  BY <1>1, <2>4 DEF CheckCache, StoreAnswer, StoreFailure
  <1>2. CASE FindUnaudited(w)
    BY <1>2 DEF FindUnaudited, TypeOK
  <1>3. CASE ListAwaiting(w) \/ RecordAudit(w) \/ ToArrivals(w)
    BY <1>3 DEF ListAwaiting, RecordAudit, ToArrivals, AuditGoes, TypeOK
  <1>4. CASE Look(w)
    BY <1>4 DEF Look, TypeOK
  <1> QED  BY <1>1, <1>2, <1>3, <1>4

(* What every step is to the queue.                                        *)
LEMMA StepQueued ==
  ASSUME TypeOK, FetchedOnce, [Next]_vars
  PROVE  FetchedOnce' /\ ListStep
  <1>1. ASSUME NEW w \in Worker,
               \/ CheckCache(w) \/ StoreAnswer(w) \/ StoreFailure(w) \/ FindUnaudited(w)
               \/ ListAwaiting(w) \/ Look(w) \/ RecordAudit(w) \/ ToArrivals(w)
        PROVE  FetchedOnce' /\ ListStep
    BY <1>1, SameJob, QueueUntouched
  <1>2. ASSUME NEW w \in Worker, RetryLater(w) \/ Retry(w)
        PROVE  FetchedOnce' /\ ListStep
    <2>1. Leaves(w) /\ Requeue(w) /\ left' = left
      BY <1>2 DEF RetryLater, Retry
    <2>2. CASE w \in claims
      BY <2>1, <2>2, LeavingRun, QueueReturns DEF Requeue
    <2>3. CASE w \notin claims
      BY <2>1, <2>3, LeavingRun, QueueUntouched DEF Requeue
    <2> QED  BY <2>2, <2>3
  <1>3. ASSUME NEW w \in Worker, FailForGood(w) \/ GiveUp(w) \/ FinishAudit(w)
        PROVE  FetchedOnce' /\ ListStep
    <2>1. Leaves(w) /\ queued' = queued /\ left' = left
      BY <1>3 DEF FailForGood, GiveUp, FinishAudit
    <2>2. CASE w \in claims
      BY <2>1, <2>2, LeavingRun, QueueEnds
    <2>3. CASE w \notin claims
      BY <2>1, <2>3, LeavingRun, QueueUntouched
    <2> QED  BY <2>2, <2>3
  <1>4. ASSUME NEW w \in Worker, Finish(w)
        PROVE  FetchedOnce' /\ ListStep
    <2>1. claims' = claims \ {w} /\ OthersGoOn(w) /\ queued' = queued /\ left' = left
      BY <1>4 DEF Finish, OthersGoOn, TypeOK
    <2>2. CASE w \in claims
      BY <2>1, <2>2, QueueEnds
    <2>3. CASE w \notin claims
      BY <2>1, <2>3, QueueUntouched DEF OthersGoOn
    <2> QED  BY <2>2, <2>3
  <1>5. ASSUME NEW w \in Worker, QueueAudits(w)
        PROVE  FetchedOnce' /\ ListStep
    <2>1. w \notin claims
      BY <1>5 DEF QueueAudits, At, TypeOK, Interruptible
    <2>2. PICK xs : xs = {PackageAudit(p) : p \in task[w].found}
      OBVIOUS
    <2>3. xs \in SUBSET Work
      <3>1. task[w].found \subseteq Project
        BY <1>5, TaskKinds DEF QueueAudits, At, Queueing
      <3> QED  BY <2>2, <3>1, RequestsAreWork DEF Work
    <2>4. Enqueue(xs) /\ Leaves(w) /\ left' = left
      BY <1>5, <2>2 DEF QueueAudits, Enqueue
    <2> QED  BY <2>1, <2>3, <2>4, LeavingRun, QueueAsked
  <1>6. ASSUME NEW w \in Worker, NEW x \in Work, Claim(w, x)
        PROVE  FetchedOnce' /\ ListStep
    BY <1>6, QueueStarts
  <1>7. ASSUME NEW w \in Worker, LoseLease(w)
        PROVE  FetchedOnce' /\ ListStep
    <2>1. /\ w \in claims /\ claims' = claims \ {w} /\ left' = left
          /\ queued' = queued \cup {task[w].work} /\ OthersGoOn(w)
      BY <1>7 DEF LoseLease, OthersGoOn
    <2> QED  BY <2>1, QueueReturns
  <1>8. ASSUME NEW w \in Worker, AbandonRun(w)
        PROVE  FetchedOnce' /\ ListStep
    <2>1. /\ Leaves(w) /\ queued' = queued
          /\ left' = IF w \in claims THEN left \cup {task[w].work} ELSE left
      BY <1>8 DEF AbandonRun
    <2>2. CASE w \in claims
      BY <2>1, <2>2, LeavingRun, QueueAbandoned
    <2>3. CASE w \notin claims
      BY <2>1, <2>3, LeavingRun, QueueUntouched
    <2> QED  BY <2>2, <2>3
  <1>9. ASSUME NEW w \in Worker, DropAudits(w)
        PROVE  FetchedOnce' /\ ListStep
    <2>1. w \notin claims
      BY <1>9 DEF DropAudits, TypeOK, Interruptible
    <2> QED  BY <1>9, <2>1, LeavingRun, QueueUntouched DEF DropAudits
  <1>10. ASSUME NEW s \in Snapshot, QueueForSnapshot(s)
         PROVE  FetchedOnce' /\ ListStep
    <2>1. PICK xs : xs = {PackageFacts(c) : c \in scan[s].stale} \cup {PackageAudit(ProjectOf[s])}
      OBVIOUS
    <2>2. xs \in SUBSET Work
      <3>1. scan[s].stale \subseteq Coordinate /\ ProjectOf[s] \in Project
        BY RegistryAssumption DEF TypeOK, Scan
      <3> QED  BY <2>1, <3>1, RequestsAreWork DEF Work
    <2>3. Enqueue(xs) /\ UNCHANGED <<claims, left, task>>
      BY <1>10, <2>1 DEF QueueForSnapshot, Enqueue
    <2> QED  BY <2>2, <2>3, QueueAsked
  <1>11. CASE Sweep
    <2>1. PICK meanwhile \in SUBSET {c \in Named : Answered(c)} :
            Enqueue({PackageFacts(c) : c \in Unanswered \cup meanwhile})
      BY <1>11 DEF Sweep
    <2>2. PICK xs : xs = {PackageFacts(c) : c \in Unanswered \cup meanwhile}
      OBVIOUS
    <2>3. xs \in SUBSET Work
      <3>1. Named \subseteq Coordinate
        BY RegistryAssumption DEF Named
      <3>2. Unanswered \cup meanwhile \subseteq Coordinate
        BY <3>1 DEF Unanswered
      <3> QED  BY <2>2, <3>2, RequestsAreWork DEF Work
    <2>4. Enqueue(xs) /\ UNCHANGED <<claims, left, task>>
      BY <1>11, <2>1, <2>2 DEF Sweep, Enqueue
    <2> QED  BY <2>3, <2>4, QueueAsked
  <1>12. CASE Reclaim
    BY <1>12, QueueReclaims
  <1>13. CASE \/ \E s \in Snapshot : RecordNames(s) \/ MarkAnalysed(s) \/ ListStale(s) \/ StopScan(s)
              \/ \E c \in Coordinate : Expire(c)
              \/ UNCHANGED vars
    <2>1. UNCHANGED <<queued, claims, left, task>>
      BY <1>13 DEF RecordNames, MarkAnalysed, ListStale, StopScan, Expire, vars
    <2> QED  BY <2>1, QueueUntouched
  <1> QED  BY <1>1, <1>2, <1>3, <1>4, <1>5, <1>6, <1>7, <1>8, <1>9, <1>10, <1>11, <1>12, <1>13
           DEF Next, Progress, Trouble, ScanStep

(* The queue between fetches, audits, scans and the sweep is a WorkList,   *)
(* the one that JobQueue implements: a fetch never has two runs, nothing   *)
(* that waits is dropped, and what is lost comes back (insert, claim,      *)
(* reclaim_expired_leases as the registry uses them).                      *)
THEOREM AlwaysUsesWorkList == Spec => UsesWorkList
  <1>1. Init => Queue!Init /\ FetchedOnce
    <2> SUFFICES ASSUME Init  PROVE Queue!Init /\ FetchedOnce
      OBVIOUS
    <2>1. Held = {} /\ queued = {} /\ claims = {}
      BY DEF Init, Held
    <2> QED  BY <2>1 DEF Queue!Init, Queue!Nothing, FetchedOnce
  <1>2. TypeOK /\ FetchedOnce /\ [Next]_vars => FetchedOnce' /\ [Queue!Next]_(Queue!vars)
    BY StepQueued DEF ListStep, ListWaiting, Queue!vars
  <1> QED  BY <1>1, <1>2, TypesHold, PTL DEF Spec, UsesWorkList, Queue!Spec
=============================================================================
