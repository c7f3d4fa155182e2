---------------------------- MODULE RegistryAudit ----------------------------
(***************************************************************************)
(* Registry facts and the audits that read them (src/src/registry/mod.rs,  *)
(* the workers of src/src/worker/queue.rs that run them, the end of an     *)
(* analysis in src/src/analysis/runner.rs).                                *)
(*                                                                         *)
(* An analysis records which package versions a snapshot names, and asks   *)
(* for their facts and for an audit.  A fetch stores what a registry       *)
(* answered, ends its job, and then asks for the audits that may be ready. *)
(* An audit runs on the snapshots that are ready and have none yet; its    *)
(* run on a snapshot is the only mark that it happened.                    *)
(*                                                                         *)
(* Every action is one statement or transaction on the database, or one    *)
(* answer of a registry.  The queue is the one WorkList describes and      *)
(* JobQueue implements: what waits is a set, leases and attempts are a     *)
(* choice.  Known and absent answers are one, "answered".                  *)
(***************************************************************************)
EXTENDS Integers

CONSTANTS
  Snapshot,    \* snapshots there may ever be
  Coordinate,  \* package versions of public registries
  Project,
  Worker,
  Names,       \* [Snapshot -> the coordinates its lockfile findings name]
  ProjectOf    \* [Snapshot -> Project]

ASSUME RegistryAssumption ==
  /\ Names \in [Snapshot -> (SUBSET Coordinate) \ {{}}]
  /\ ProjectOf \in [Snapshot -> Project]

VARIABLES
  facts,    \* table package_facts: what is stored, and whether expires_at is ahead
  runs,     \* the audits' rows of table runs, each with the answers it found
  scan,     \* how far the analysis of each snapshot is
  queued,   \* waiting jobs
  waits,    \* versions whose job waits until their failure has expired
  left,     \* running jobs nobody is at, until their lease is taken back
  task,     \* what each worker is doing
  claims,   \* workers whose job still is theirs
  slipped   \* whether a request for an audit has been lost (see Slips)

vars == <<facts, runs, scan, queued, waits, left, task, claims, slipped>>

-----------------------------------------------------------------------------
PackageFacts(c) == [kind |-> "package-facts", coordinate |-> c]
PackageAudit(p) == [kind |-> "package-audit", project |-> p]
Fetches == [kind : {"package-facts"}, coordinate : Coordinate]
Audits == [kind : {"package-audit"}, project : Project]
Work == Fetches \cup Audits

Facts == [status : {"none", "answered", "failed"}, fresh : BOOLEAN]
Audit == {"checksum-audit", "package-audit"}
Run == [audit : Audit, snapshot : Snapshot, seen : SUBSET Coordinate]

Stage == {"none", "recorded", "abandoned", "analysed", "listed", "done"}
Scan == [stage : Stage, stale : SUBSET Coordinate]

(* A fetch asks the cache, then the registry; after its job has ended it   *)
(* looks which projects are ready and queues their audits.                 *)
Idle == [pc |-> "idle"]
Fetching == [pc : {"checking", "reading", "answered", "failed"}, work : Fetches]
Asking == [pc : {"asked"}, work : Fetches]
Queueing == [pc : {"queueing"}, work : Fetches, found : SUBSET Project]
Auditing == [pc : {"listing", "looking"}, work : Audits, audit : Audit,
             todo : SUBSET Snapshot]
Recording == [pc : {"recording"}, work : Audits, audit : Audit,
              todo : SUBSET Snapshot, run : Run]
Task == {Idle} \cup Fetching \cup Asking \cup Queueing \cup Auditing \cup Recording

Init ==
  /\ facts = [c \in Coordinate |-> [status |-> "none", fresh |-> FALSE]]
  /\ runs = {}
  /\ scan = [s \in Snapshot |-> [stage |-> "none", stale |-> {}]]
  /\ queued = {} /\ waits = {} /\ left = {}
  /\ task = [w \in Worker |-> Idle]
  /\ claims = {}
  /\ slipped = FALSE

-----------------------------------------------------------------------------
(* What the tables say.                                                    *)

Answered(c) == facts[c].status = "answered"

(* The lockfile analyzer records all it found in one run.                  *)
Recorded(s) == scan[s].stage # "none"

(* Every version the snapshot names has a known or absent answer.          *)
Ready(s) == \A c \in Names[s] : Answered(c)

Audited(s, a) == \E r \in runs : r.snapshot = s /\ r.audit = a

(* Snapshot::awaiting_audit.                                               *)
Awaiting(p, a) ==
  {s \in Snapshot : ProjectOf[s] = p /\ Recorded(s) /\ Ready(s) /\ ~Audited(s, a)}

(* PackageFacts::unaudited_projects.                                       *)
UnauditedProjects(c) ==
  {ProjectOf[s] : s \in {s \in Snapshot :
     /\ Recorded(s) /\ c \in Names[s] /\ Ready(s)
     /\ \E a \in Audit : ~Audited(s, a)}}

Named == UNION {Names[s] : s \in {s \in Snapshot : Recorded(s)}}

(* Faulty variant: only versions never fetched are swept up.               *)
NeverFetched == {c \in Named : facts[c].status = "none"}
(* PackageFacts::unanswered.                                               *)
Unanswered ==
  {c \in Named : \/ facts[c].status = "none"
                 \/ facts[c].status = "failed" /\ ~facts[c].fresh}

-----------------------------------------------------------------------------
(* The queue.                                                              *)

Held == {task[w].work : w \in claims} \cup left

(* Faulty variants: an audit already running answers a request for one; no *)
(* running job does.                                                       *)
EveryRunCovers(x) == TRUE
NoRunCovers(x) == FALSE
CoveredWhileRunning(x) == x.kind # "package-audit"

(* Job::enqueue_all: work already waiting, or covered by its run, is not   *)
(* queued again.                                                           *)
Enqueue(xs) ==
  queued' = queued \cup {x \in xs : CoveredWhileRunning(x) => x \notin Held}

Started(x) ==
  IF x \in Fetches THEN [pc |-> "checking", work |-> x]
  ELSE [pc |-> "listing", work |-> x, audit |-> "checksum-audit", todo |-> {}]

(* The capacity of the audits' resource is one.                            *)
Claimable(x) ==
  IF x \in Fetches THEN x.coordinate \notin waits ELSE Held \cap Audits = {}

Claim(w, x) ==
  /\ task[w] = Idle
  /\ x \in queued /\ Claimable(x)
  /\ queued' = queued \ {x}
  /\ task' = [task EXCEPT ![w] = Started(x)]
  /\ claims' = claims \cup {w}
  /\ UNCHANGED <<facts, runs, scan, waits, left, slipped>>

(* The worker's run is over.                                               *)
Leaves(w) == /\ task' = [task EXCEPT ![w] = Idle]
             /\ claims' = claims \ {w}

(* The job goes back to the queue, if it still is the worker's.            *)
Requeue(w) == queued' = IF w \in claims THEN queued \cup {task[w].work} ELSE queued

(* A run goes on although its lease ran out and its job is queued again.   *)
LoseLease(w) ==
  /\ w \in claims
  /\ queued' = queued \cup {task[w].work}
  /\ claims' = claims \ {w}
  /\ UNCHANGED <<facts, runs, scan, waits, left, task, slipped>>

Reclaim ==
  /\ left # {}
  /\ queued' = queued \cup left
  /\ left' = {}
  /\ UNCHANGED <<facts, runs, scan, waits, task, claims, slipped>>

-----------------------------------------------------------------------------
(* Fetches.                                                                *)

At(w, pc) == task[w].pc = pc
Version(w) == task[w].work.coordinate
Goes(w, pc) == task' = [task EXCEPT ![w] = [@ EXCEPT !.pc = pc]]

(* PackageFacts::is_fresh asks when a row expires, not what it says.       *)
CheckCache(w) ==
  /\ At(w, "checking")
  /\ Goes(w, IF facts[Version(w)].fresh THEN "answered" ELSE "reading")
  /\ UNCHANGED <<facts, runs, scan, queued, waits, left, claims, slipped>>

(* PackageFacts::upsert, whoever holds the job by now.  Nobody is left to  *)
(* ask for the audits if the answer comes when no job for it is live.      *)
StoreAnswer(w) ==
  /\ At(w, "reading")
  /\ facts' = [facts EXCEPT ![Version(w)] = [status |-> "answered", fresh |-> TRUE]]
  /\ waits' = waits \ {Version(w)}
  /\ Goes(w, "answered")
  /\ slipped' = (slipped \/ task[w].work \notin Held \cup queued)
  /\ UNCHANGED <<runs, scan, queued, left, claims>>

(* A failed read replaces whatever was stored.                             *)
StoreFailure(w) ==
  /\ At(w, "reading")
  /\ facts' = [facts EXCEPT ![Version(w)] = [status |-> "failed", fresh |-> TRUE]]
  /\ waits' = waits \ {Version(w)}
  /\ Goes(w, "failed")
  /\ UNCHANGED <<runs, scan, queued, left, claims, slipped>>

(* Fetch::Failed: try again when the failure has expired ...               *)
RetryLater(w) ==
  /\ At(w, "failed")
  /\ Requeue(w)
  /\ waits' = IF w \in claims /\ facts[Version(w)].fresh
              THEN waits \cup {Version(w)} ELSE waits
  /\ Leaves(w)
  /\ UNCHANGED <<facts, runs, scan, left, slipped>>

(* ... or, out of attempts, not at all.                                    *)
FailForGood(w) ==
  /\ At(w, "failed")
  /\ Leaves(w)
  /\ slipped' = (slipped \/ (w \in claims /\ Answered(Version(w))))
  /\ UNCHANGED <<facts, runs, scan, queued, waits, left>>

(* Fetch::Answered: only the run that ended the job goes on to the audits. *)
Finish(w) ==
  /\ At(w, "answered")
  /\ IF w \in claims
     THEN task' = [task EXCEPT ![w] = [pc |-> "asked", work |-> task[w].work]]
     ELSE task' = [task EXCEPT ![w] = Idle]
  /\ claims' = claims \ {w}
  /\ UNCHANGED <<facts, runs, scan, queued, waits, left, slipped>>

FindUnaudited(w) ==
  /\ At(w, "asked")
  /\ task' = [task EXCEPT ![w] =
       [pc |-> "queueing", work |-> task[w].work, found |-> UnauditedProjects(Version(w))]]
  /\ UNCHANGED <<facts, runs, scan, queued, waits, left, claims, slipped>>

QueueAudits(w) ==
  /\ At(w, "queueing")
  /\ Enqueue({PackageAudit(p) : p \in task[w].found})
  /\ Leaves(w)
  /\ UNCHANGED <<facts, runs, scan, waits, left, slipped>>

-----------------------------------------------------------------------------
(* Audits: first the checksums of every ready snapshot, then the arrivals. *)

AuditGoes(w, pc, audit, todo) ==
  task' = [task EXCEPT ![w] =
    [pc |-> pc, work |-> task[w].work, audit |-> audit, todo |-> todo]]

ListAwaiting(w) ==
  /\ At(w, "listing")
  /\ AuditGoes(w, "looking", task[w].audit, Awaiting(task[w].work.project, task[w].audit))
  /\ UNCHANGED <<facts, runs, scan, queued, waits, left, claims, slipped>>

(* checksum_mismatches and arrivals find what is answered by now.          *)
Look(w) ==
  /\ At(w, "looking")
  /\ \E s \in task[w].todo :
       task' = [task EXCEPT ![w] =
         [pc |-> "recording", work |-> @.work, audit |-> @.audit, todo |-> @.todo,
          run |-> [audit |-> @.audit, snapshot |-> s,
                   seen |-> {c \in Names[s] : Answered(c)}]]]
  /\ UNCHANGED <<facts, runs, scan, queued, waits, left, claims, slipped>>

RecordAudit(w) ==
  /\ At(w, "recording")
  /\ runs' = runs \cup {task[w].run}
  /\ AuditGoes(w, "looking", task[w].audit, task[w].todo \ {task[w].run.snapshot})
  /\ UNCHANGED <<facts, scan, queued, waits, left, claims, slipped>>

ToArrivals(w) ==
  /\ At(w, "looking") /\ task[w].todo = {} /\ task[w].audit = "checksum-audit"
  /\ AuditGoes(w, "listing", "package-audit", {})
  /\ UNCHANGED <<facts, runs, scan, queued, waits, left, claims, slipped>>

FinishAudit(w) ==
  /\ At(w, "looking") /\ task[w].todo = {} /\ task[w].audit = "package-audit"
  /\ Leaves(w)
  /\ UNCHANGED <<facts, runs, scan, queued, waits, left, slipped>>

-----------------------------------------------------------------------------
(* What goes wrong.  A process that stops is AbandonRun, DropAudits and    *)
(* StopScan of all there is, one after another.                            *)

Interruptible == {"checking", "reading", "listing", "looking", "recording"}

(* A registry asks to wait, or the database fails: the run is repeated ... *)
Retry(w) ==
  /\ task[w].pc \in Interruptible
  /\ Requeue(w) /\ Leaves(w)
  /\ UNCHANGED <<facts, runs, scan, waits, left, slipped>>

(* ... unless the failure was the last of its attempts.                    *)
GiveUp(w) ==
  /\ task[w].pc \in Interruptible
  /\ Leaves(w)
  /\ slipped' = (slipped \/ w \in claims)
  /\ UNCHANGED <<facts, runs, scan, queued, waits, left>>

(* Nothing records how the run ended.                                      *)
AbandonRun(w) ==
  /\ task[w].pc \in Interruptible \cup {"answered", "failed"}
  /\ left' = IF w \in claims THEN left \cup {task[w].work} ELSE left
  /\ Leaves(w)
  /\ UNCHANGED <<facts, runs, scan, queued, waits, slipped>>

DropAudits(w) ==
  /\ task[w].pc \in {"asked", "queueing"}
  /\ Leaves(w)
  /\ slipped' = TRUE
  /\ UNCHANGED <<facts, runs, scan, queued, waits, left>>

(* An answer, once stored, is asked for again when it has expired.         *)
Expire(c) ==
  /\ facts[c].fresh
  /\ facts' = [facts EXCEPT ![c] = [@ EXCEPT !.fresh = FALSE]]
  /\ waits' = waits \ {c}
  /\ UNCHANGED <<runs, scan, queued, left, task, claims, slipped>>

-----------------------------------------------------------------------------
(* The end of an analysis (run_target_in_mirror), and the sweep.           *)

Advance(s, stage, stale) ==
  scan' = [scan EXCEPT ![s] = [stage |-> stage, stale |-> stale]]

(* The lockfile analyzer's run is recorded, ...                            *)
RecordNames(s) ==
  /\ scan[s].stage = "none"
  /\ Advance(s, "recorded", {})
  /\ UNCHANGED <<facts, runs, queued, waits, left, task, claims, slipped>>

(* ... the head marked as analysed, and never analysed again, ...          *)
MarkAnalysed(s) ==
  /\ scan[s].stage = "recorded"
  /\ Advance(s, "analysed", {})
  /\ UNCHANGED <<facts, runs, queued, waits, left, task, claims, slipped>>

(* ... the versions without a fresh answer listed (stale_in_snapshot), ... *)
ListStale(s) ==
  /\ scan[s].stage = "analysed"
  /\ Advance(s, "listed", {c \in Names[s] : ~facts[c].fresh})
  /\ UNCHANGED <<facts, runs, queued, waits, left, task, claims, slipped>>

(* ... and queued together with the audit (queue_for_snapshot).            *)
QueueForSnapshot(s) ==
  /\ scan[s].stage = "listed"
  /\ Enqueue({PackageFacts(c) : c \in scan[s].stale} \cup {PackageAudit(ProjectOf[s])})
  /\ Advance(s, "done", {})
  /\ UNCHANGED <<facts, runs, waits, left, task, claims, slipped>>

(* A discovery that stops before its head is marked begins again with      *)
(* another snapshot; after that, nothing comes back to this one.           *)
StopScan(s) ==
  /\ scan[s].stage \in {"recorded", "analysed", "listed"}
  /\ Advance(s, IF scan[s].stage = "recorded" THEN "abandoned" ELSE "done", {})
  /\ slipped' = (slipped \/ scan[s].stage # "recorded")
  /\ UNCHANGED <<facts, runs, queued, waits, left, task, claims>>

(* registry::sweep reads what is unanswered, and queues it; a version that  *)
(* was answered meanwhile is queued all the same.                          *)
Sweep ==
  /\ Unanswered # {}
  /\ \E meanwhile \in SUBSET {c \in Named : Answered(c)} :
       Enqueue({PackageFacts(c) : c \in Unanswered \cup meanwhile})
  /\ UNCHANGED <<facts, runs, scan, waits, left, task, claims, slipped>>

-----------------------------------------------------------------------------
(* What a run does by itself.                                              *)
Progress(w) ==
  \/ CheckCache(w) \/ StoreAnswer(w) \/ RetryLater(w)
  \/ Finish(w) \/ FindUnaudited(w) \/ QueueAudits(w)
  \/ ListAwaiting(w) \/ Look(w) \/ RecordAudit(w) \/ ToArrivals(w) \/ FinishAudit(w)

(* What a run, a scan and the sweep may meet.                              *)
Trouble ==
  \/ \E w \in Worker :
       \/ LoseLease(w) \/ StoreFailure(w) \/ FailForGood(w) \/ Retry(w)
       \/ GiveUp(w) \/ AbandonRun(w) \/ DropAudits(w)
  \/ \E s \in Snapshot : StopScan(s)

ScanStep(s) == RecordNames(s) \/ MarkAnalysed(s) \/ ListStale(s) \/ QueueForSnapshot(s)

Next ==
  \/ \E w \in Worker : Progress(w) \/ \E x \in Work : Claim(w, x)
  \/ \E s \in Snapshot : ScanStep(s)
  \/ \E c \in Coordinate : Expire(c)
  \/ Reclaim \/ Sweep
  \/ Trouble

Spec == Init /\ [][Next]_vars

(* The oldest job is claimed first, so none is passed over for ever; a     *)
(* fetch's requests have a timeout, the rest of a run or scan only reads   *)
(* and writes tables; the schedule's tickers fire, every answer expires.   *)
Fairness ==
  /\ \A x \in Work : SF_vars(\E w \in Worker : Claim(w, x))
  /\ \A w \in Worker : WF_vars(Progress(w))
  /\ \A s \in Snapshot : WF_vars(ListStale(s) \/ QueueForSnapshot(s))
  /\ \A c \in Coordinate : WF_vars(Expire(c))
  /\ WF_vars(Reclaim) /\ WF_vars(Sweep)

FairSpec == Spec /\ Fairness

-----------------------------------------------------------------------------
(* What is promised.                                                       *)

(* Every table and task holds what it can hold; a claim is a run's.        *)
TypeOK ==
  /\ facts \in [Coordinate -> Facts]
  /\ runs \subseteq Run
  /\ scan \in [Snapshot -> Scan]
  /\ queued \subseteq Work /\ left \subseteq Work
  /\ waits \subseteq Coordinate
  /\ task \in [Worker -> Task]
  /\ claims \subseteq Worker
  /\ \A w \in claims : task[w].pc \in Interruptible \cup {"answered", "failed"}
  /\ slipped \in BOOLEAN

(* An analysed snapshot whose answers are all in and that lacks an audit.  *)
Marked(s) == scan[s].stage \in {"analysed", "listed", "done"}
Unaudited(s) == Marked(s) /\ Ready(s) /\ \E a \in Audit : ~Audited(s, a)

(* The ways an audit of the snapshot may still be coming: its scan has not *)
(* asked yet, ...                                                          *)
ScanAsks(s) == scan[s].stage \in {"analysed", "listed"}

(* ... a job for it waits, ...                                             *)
AuditWaits(s) == PackageAudit(ProjectOf[s]) \in queued \cup left

(* ... a run has every audit it lacks still before it, ...                 *)
Ahead(t, a, s) ==
  \/ a = "package-audit" /\ t.audit = "checksum-audit"
  \/ a = t.audit /\ (t.pc = "listing" \/ s \in t.todo)
AuditRuns(s) ==
  \E w \in claims :
    /\ task[w].work = PackageAudit(ProjectOf[s])
    /\ \A a \in Audit : Audited(s, a) \/ Ahead(task[w], a, s)

(* ... a fetch of a version it names is to end yet, ...                    *)
FetchLive(s) == \E c \in Names[s] : PackageFacts(c) \in queued \cup Held

(* ... or one that ended is about to ask.                                  *)
FetchAsks(s) ==
  \E w \in Worker :
    \/ task[w].pc = "asked" /\ task[w].work.coordinate \in Names[s]
    \/ task[w].pc = "queueing" /\ ProjectOf[s] \in task[w].found

AuditComes(s) ==
  ScanAsks(s) \/ AuditWaits(s) \/ AuditRuns(s) \/ FetchLive(s) \/ FetchAsks(s)

(* No order of fetches, audits, scans, lost leases and sweeps forgets an   *)
(* audit: a ready snapshot without one always has one coming (queue.rs     *)
(* covered_while_running, registry queue_audits, queue_for_snapshot).      *)
(* Slips: only a step the code does not come back from loses one - a stop  *)
(* between the end of a fetch and its request, or between marking a head   *)
(* and queueing for it; a run out of attempts; an answer stored by a run   *)
(* whose job somebody else already ended.                                  *)
AuditNeverForgotten ==
  ~slipped => \A s \in Snapshot : Unaudited(s) => AuditComes(s)

(* Once registries answer, leases last and nothing stops any more, every   *)
(* analysed snapshot gets both audits, whatever went wrong before - if no  *)
(* request slipped (sweep, reclaim_expired_leases, queue_audits).          *)
EverySnapshotAudited ==
  (<>[][~Trouble]_vars /\ []~slipped) =>
    \A s \in Snapshot : Marked(s) ~> \A a \in Audit : Audited(s, a)

Queue == INSTANCE WorkList WITH
  Repeatable <- Audits,
  waiting <- [x \in Work |-> IF x \in queued THEN 0 ELSE -2],
  running <- Held

(* The queue these components use is the one JobQueue implements.          *)
UsesWorkList == Queue!Spec
=============================================================================
