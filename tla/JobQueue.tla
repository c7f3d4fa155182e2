------------------------------ MODULE JobQueue ------------------------------
(***************************************************************************)
(* The job queue of src/src/worker/queue.rs and the scheduler that its     *)
(* claim is (src/src/worker/resource.rs): the tables `jobs`,               *)
(* `job_resources` and `resource_blocks`, the pool of workers, the         *)
(* schedule, and the passing of time.                                      *)
(*                                                                         *)
(* Every action is one transaction or one statement on the database, which *)
(* is what the code's writers interleave by.  What a worker keeps in       *)
(* memory between two of them (the copy of the job it claimed, a rate      *)
(* limit it still has to record) is in `worker`, and a crash forgets it.   *)
(*                                                                         *)
(* A stored time is the number of ticks until it is reached: a row's       *)
(* `timer` counts to its available_at while it is queued, to its           *)
(* lease_expires_at while it runs and to the end of its history once it    *)
(* ended.  "available_at <= now" is timer <= 0, "lease_expires_at > now"   *)
(* is timer > 0, "lease_expires_at < now" is timer < 0.                    *)
(***************************************************************************)
EXTENDS Integers, FiniteSets, Functions

CONSTANTS
  Project,      \* projects there are when the model starts
  Coordinate,   \* package versions
  Ecosystem,    \* [Coordinate -> {"Cargo", "Npm", "Nix"}]
  Worker,       \* slots of the pool
  NoWorker,     \* the NULL of claimed_by
  Room,         \* capacity of each global resource, by its key
  LEASE,        \* ticks a claim lasts
  MAX_ATTEMPTS, \* attempts before a failure is final
  Backoff,      \* ticks of RETRY_BACKOFF_SECONDS
  FailedTtl,    \* ticks a failed registry read stays cached
  MaxPause,     \* bound: the longest wait a registry or a forge asks for
  History,      \* ticks of JOB_HISTORY
  MaxJobs,      \* bound: rows ever inserted
  AttemptsCap   \* bound: the attempts counter stops counting here

GlobalKey == {"discovery", "npm", "crates.io", "osv", "audit"}

ASSUME ConstantsAssumption ==
  /\ Ecosystem \in [Coordinate -> {"Cargo", "Npm", "Nix"}]
  /\ NoWorker \notin Worker
  /\ Room \in [GlobalKey -> Nat \ {0}]
  /\ LEASE \in Nat \ {0} /\ MAX_ATTEMPTS \in Nat \ {0}
  /\ Backoff \in Nat \ {0} /\ FailedTtl \in Nat \ {0}
  /\ MaxPause \in Nat \ {0} /\ History \in Nat
  /\ MaxJobs \in Nat \ {0}
  /\ AttemptsCap \in Nat /\ AttemptsCap >= MAX_ATTEMPTS

VARIABLES
  projects,      \* the projects that exist
  jobs,          \* table jobs: a function on the ids in it
  jobResources,  \* table job_resources: <<job id, resource>>
  blocks,        \* table resource_blocks: ticks left; 0 is an expired or absent row
  nextId,        \* the next id the generator hands out
  worker         \* what each worker of the pool is doing

vars == <<projects, jobs, jobResources, blocks, nextId, worker>>

-----------------------------------------------------------------------------
(* Work, resources and rows.                                               *)

Discover(p) == [kind |-> "discover", project |-> p]
PackageAudit(p) == [kind |-> "package-audit", project |-> p]
PackageFacts(c) == [kind |-> "package-facts", coordinate |-> c]

Work == [kind : {"discover", "package-audit"}, project : Project]
          \cup [kind : {"package-facts"}, coordinate : Coordinate]

Global(key) == [key |-> key]
Mirror(p) == [key |-> "mirror", project |-> p]
Resource == [key : GlobalKey] \cup [key : {"mirror"}, project : Project]

Capacity(r) == IF r.key = "mirror" THEN 1 ELSE Room[r.key]

Uses(w) ==
  CASE w.kind = "discover" -> {Mirror(w.project), Global("discovery")}
    [] w.kind = "package-audit" -> {Global("audit")}
    [] w.kind = "package-facts" ->
         CASE Ecosystem[w.coordinate] = "Cargo" -> {Global("crates.io"), Global("osv")}
           [] Ecosystem[w.coordinate] = "Npm" -> {Global("npm")}
           [] Ecosystem[w.coordinate] = "Nix" -> {}

(* Faulty variants: an audit already running is taken to answer a new      *)
(* request, or no running job is.                                          *)
EveryRunCovers(w) == TRUE
NoRunCovers(w) == FALSE
CoveredWhileRunning(w) == w.kind # "package-audit"

ASSUME WorkAssumption == IsFiniteSet(Work)

JobId == 1 .. MaxJobs
Live == {"queued", "running"}

Timer == Nat \cup {-1}

(* Only a running row has a claim, a lease and at least one attempt.       *)
FreeRow ==
  [work : Work, priority : {-1, 0}, state : {"queued", "done", "failed"},
   claimed_by : {NoWorker}, attempts : 0 .. AttemptsCap, timer : Timer]
ClaimedRow ==
  [work : Work, priority : {-1, 0}, state : {"running"},
   claimed_by : Worker, attempts : 1 .. AttemptsCap, timer : -1 .. LEASE]
Row == FreeRow \cup ClaimedRow

Idle == [pc |-> "idle"]
Assignment ==
  [pc : {"running", "deferring", "auditing"}, id : JobId, work : Work,
   attempts : 1 .. AttemptsCap, limit : SUBSET Resource, until : 0 .. MaxPause]
Task == {Idle} \cup Assignment

Ids(state) == {id \in DOMAIN jobs : jobs[id].state = state}

(* Running jobs that hold r: the claim's "held JOIN holder".  Faulty       *)
(* variant: the state of the holder is not looked at.                      *)
WaitingOrHolding(r) == {id \in DOMAIN jobs : <<id, r>> \in jobResources}
Holders(r) == {id \in Ids("running") : <<id, r>> \in jobResources}

Larger(m, n) == IF m > n THEN m ELSE n

-----------------------------------------------------------------------------
Init ==
  /\ projects = Project
  /\ jobs = [id \in {} |-> {}]
  /\ jobResources = {}
  /\ blocks = [r \in Resource |-> 0]
  /\ nextId = 1
  /\ worker = [w \in Worker |-> Idle]

-----------------------------------------------------------------------------
(* Queueing work.                                                          *)

Covering(w) == IF CoveredWhileRunning(w) THEN Live ELSE {"queued"}

Insertable(w) ==
  ~ \E id \in DOMAIN jobs : jobs[id].work = w /\ jobs[id].state \in Covering(w)

NewRow(w, priority) ==
  [work |-> w, priority |-> priority, state |-> "queued", claimed_by |-> NoWorker,
   attempts |-> 0, timer |-> 0]

(* Faulty variant: a request lowers what it finds waiting to its own.      *)
Overwritten(row, priority) == [row EXCEPT !.priority = priority]

(* Work already waiting takes the higher of the two priorities.            *)
Raised(row, priority) == [row EXCEPT !.priority = Larger(@, priority)]

(* Job::enqueue_all, one transaction: the ids follow the order of the      *)
(* slice, which the callers do not promise.                                *)
EnqueueAll(ws, priority) ==
  LET fresh == {w \in ws : Insertable(w)}
      ids == nextId .. nextId + Cardinality(fresh) - 1
  IN /\ ids \subseteq JobId
     /\ \E order \in Bijection(ids, fresh) :
          /\ jobs' = [id \in DOMAIN jobs \cup ids |->
                        IF id \in ids THEN NewRow(order[id], priority)
                        ELSE IF jobs[id].state = "queued" /\ jobs[id].work \in ws
                        THEN Raised(jobs[id], priority)
                        ELSE jobs[id]]
          /\ jobResources' = jobResources \cup
               {h \in ids \X Resource : h[2] \in Uses(order[h[1]])}
     /\ nextId' = nextId + Cardinality(fresh)

(* A tick that finds the project due, a webhook, a rerun.                  *)
RequestDiscovery(p) ==
  /\ p \in projects
  /\ EnqueueAll({Discover(p)}, 0)
  /\ UNCHANGED <<projects, blocks, worker>>

(* queue_for_snapshot: an analysis asks for the versions it named and for  *)
(* an audit of its project, in one transaction.                            *)
RequestForSnapshot(p, cs) ==
  /\ p \in projects
  /\ EnqueueAll({PackageFacts(c) : c \in cs} \cup {PackageAudit(p)}, 0)
  /\ UNCHANGED <<projects, blocks, worker>>

(* registry::sweep: versions nothing else queued, behind everything else.  *)
Sweep(cs) ==
  /\ EnqueueAll({PackageFacts(c) : c \in cs}, -1)
  /\ UNCHANGED <<projects, blocks, worker>>

-----------------------------------------------------------------------------
(* Claiming.                                                               *)

(* Faulty variant: a full resource admits one more job.                    *)
BusyWhenOver(r) == Cardinality(Holders(r)) > Capacity(r)
Busy(r) == Cardinality(Holders(r)) >= Capacity(r)

Blocked(r) == blocks[r] > 0

Ready(id) ==
  /\ jobs[id].state = "queued" /\ jobs[id].timer <= 0
  /\ \A r \in Resource : <<id, r>> \in jobResources => ~Busy(r) /\ ~Blocked(r)

(* ORDER BY priority DESC, id.                                             *)
Before(i, j) ==
  \/ jobs[i].priority > jobs[j].priority
  \/ jobs[i].priority = jobs[j].priority /\ i <= j

CountedAttempt(n) == IF n < AttemptsCap THEN n + 1 ELSE n

(* Job::claim and the worker's copy of what it returns.  claimed_by is the *)
(* slot and a random suffix; a slot holds one job at a time, so the slot   *)
(* stands for both.                                                        *)
Claim(w) ==
  /\ worker[w].pc = "idle"
  /\ \E id \in DOMAIN jobs :
       /\ Ready(id)
       /\ \A other \in DOMAIN jobs : Ready(other) => Before(id, other)
       /\ LET row == jobs[id]
              count == CountedAttempt(row.attempts)
          IN /\ jobs' = [jobs EXCEPT ![id] =
                  [row EXCEPT !.state = "running", !.claimed_by = w,
                              !.attempts = count, !.timer = LEASE]]
             /\ worker' = [worker EXCEPT ![w] =
                  [pc |-> "running", id |-> id, work |-> row.work,
                   attempts |-> count, limit |-> {}, until |-> 0]]
  /\ UNCHANGED <<projects, jobResources, blocks, nextId>>

-----------------------------------------------------------------------------
(* Outcomes.  Each is fenced: it changes the row only while the row still  *)
(* is the claim this worker made, and the worker goes on either way.       *)

(* Faulty variant: an outcome lands on any running row of its id.          *)
AnyRunOwned(w) ==
  LET t == worker[w] IN t.id \in Ids("running") /\ jobs[t.id].timer > 0

Owns(w) ==
  LET t == worker[w] IN
  /\ t.id \in Ids("running")
  /\ jobs[t.id].claimed_by = w
  /\ jobs[t.id].attempts = t.attempts
  /\ jobs[t.id].timer > 0

Running(w, kinds) == worker[w].pc = "running" /\ worker[w].work.kind \in kinds

(* The trigger job_resources_release.  Faulty variant: it is missing.      *)
NotReleased(id) == jobResources
Released(id) == {h \in jobResources : h[1] # id}

Ended(row, state) ==
  [row EXCEPT !.state = state, !.claimed_by = NoWorker, !.timer = History]

Requeued(row, wait) ==
  [row EXCEPT !.state = "queued", !.claimed_by = NoWorker, !.timer = wait]

(* Waiting for a budget is not an attempt.                                 *)
Deferred(row, wait) ==
  [Requeued(row, wait) EXCEPT !.attempts = Larger(@ - 1, 0)]

(* What the row of w's job becomes, if it still is w's to change.          *)
Record(w, row) ==
  jobs' = IF Owns(w) THEN [jobs EXCEPT ![worker[w].id] = row] ELSE jobs

Release(w) ==
  jobResources' = IF Owns(w) THEN Released(worker[w].id) ELSE jobResources

GoesIdle(w) == worker' = [worker EXCEPT ![w] = Idle]

MyRow(w) == jobs[worker[w].id]

(* Discovery renews while it works; a lost lease drops the discovery.      *)
Renew(w) ==
  /\ Running(w, {"discover"})
  /\ Record(w, [MyRow(w) EXCEPT !.timer = LEASE])
  /\ IF Owns(w) THEN UNCHANGED worker ELSE GoesIdle(w)
  /\ UNCHANGED <<projects, jobResources, blocks, nextId>>

(* The work succeeded.  A fetch that finished still has to queue audits.   *)
Finish(w) ==
  /\ worker[w].pc = "running"
  /\ Record(w, Ended(MyRow(w), "done"))
  /\ Release(w)
  /\ IF Owns(w) /\ worker[w].work.kind = "package-facts"
     THEN worker' = [worker EXCEPT ![w] = [@ EXCEPT !.pc = "auditing"]]
     ELSE GoesIdle(w)
  /\ UNCHANGED <<projects, blocks, nextId>>

(* registry::queue_audits, for the projects that name the version.         *)
QueueAudits(w, ps) ==
  /\ worker[w].pc = "auditing"
  /\ EnqueueAll({PackageAudit(p) : p \in ps}, 0)
  /\ GoesIdle(w)
  /\ UNCHANGED <<projects, blocks>>

RetryWaits(w) ==
  {Backoff * worker[w].attempts}
    \cup (IF worker[w].work.kind = "package-facts" THEN {FailedTtl} ELSE {})

(* retry_or_fail, and Fetch::Failed: try again later while attempts are    *)
(* left, and fail for good after that.                                     *)
Retry(w) ==
  /\ worker[w].pc = "running"
  /\ worker[w].attempts < MAX_ATTEMPTS
  /\ \E wait \in RetryWaits(w) : Record(w, Requeued(MyRow(w), wait))
  /\ GoesIdle(w)
  /\ UNCHANGED <<projects, jobResources, blocks, nextId>>

Fail(w) ==
  /\ worker[w].pc = "running"
  /\ worker[w].attempts >= MAX_ATTEMPTS
  /\ Record(w, Ended(MyRow(w), "failed"))
  /\ Release(w)
  /\ GoesIdle(w)
  /\ UNCHANGED <<projects, blocks, nextId>>

(* Faulty variant: the later answer replaces the block.                    *)
Replaced(left, until) == until
Extended(left, until) == Larger(left, until)

(* A registry said "not now": the block is written first, ...              *)
Block(w) ==
  /\ Running(w, {"package-facts"})
  /\ \E r \in Uses(worker[w].work), until \in 0 .. MaxPause :
       /\ blocks' = [blocks EXCEPT ![r] = Extended(blocks[r], until)]
       /\ worker' = [worker EXCEPT ![w] =
            [@ EXCEPT !.pc = "deferring", !.limit = {r}, !.until = until]]
  /\ UNCHANGED <<projects, jobs, jobResources, nextId>>

(* ... and the job put back after it.                                      *)
Defer(w) ==
  /\ worker[w].pc = "deferring"
  /\ Record(w, Deferred(MyRow(w), worker[w].until))
  /\ GoesIdle(w)
  /\ UNCHANGED <<projects, jobResources, blocks, nextId>>

(* A forge's budget belongs to a credential: discovery waits alone.        *)
DeferDiscovery(w) ==
  /\ Running(w, {"discover"})
  /\ \E until \in 0 .. MaxPause : Record(w, Deferred(MyRow(w), until))
  /\ GoesIdle(w)
  /\ UNCHANGED <<projects, jobResources, blocks, nextId>>

(* The database refused what the worker wanted to record: the error is     *)
(* logged, the worker goes on, and the row is left as it is.               *)
Abandon(w) ==
  /\ worker[w].pc # "idle"
  /\ GoesIdle(w)
  /\ UNCHANGED <<projects, jobs, jobResources, blocks, nextId>>

-----------------------------------------------------------------------------
(* The schedule, deletion, crashes and time.                               *)
Expired(id) == jobs[id].state = "running" /\ jobs[id].timer < 0

(* Job::reclaim_expired_leases: one statement for every such row.          *)
Reclaim ==
  /\ \E id \in DOMAIN jobs : Expired(id)
  /\ jobs' = [id \in DOMAIN jobs |->
                IF Expired(id) THEN Requeued(jobs[id], 0) ELSE jobs[id]]
  /\ UNCHANGED <<projects, jobResources, blocks, nextId, worker>>

(* The rows left after a DELETE; job_resources cascades.                   *)
Keep(ids) ==
  /\ jobs' = [id \in ids |-> jobs[id]]
  /\ jobResources' = {h \in jobResources : h[1] \in ids}

OutOfHistory(id) == jobs[id].state \in {"done", "failed"} /\ jobs[id].timer < 0

(* Job::prune and clear_expired_blocks; an expired block is already 0.     *)
CleanUp ==
  /\ \E id \in DOMAIN jobs : OutOfHistory(id)
  /\ Keep({id \in DOMAIN jobs : ~OutOfHistory(id)})
  /\ UNCHANGED <<projects, blocks, nextId, worker>>

BelongsTo(w, p) == w.kind # "package-facts" /\ w.project = p

(* Project::delete, as far as the queue is concerned.                      *)
DeleteProject(p) ==
  /\ p \in projects
  /\ projects' = projects \ {p}
  /\ Keep({id \in DOMAIN jobs : ~BelongsTo(jobs[id].work, p)})
  /\ UNCHANGED <<blocks, nextId, worker>>

(* The process stops and starts again: the database stays.                 *)
Crash ==
  /\ \E w \in Worker : worker[w] # Idle
  /\ worker' = [w \in Worker |-> Idle]
  /\ UNCHANGED <<projects, jobs, jobResources, blocks, nextId>>

Elapsed(n, least) == IF n > least THEN n - 1 ELSE n

(* A tick of the clock.  A queued row only asks whether its time has come, *)
(* a lease or a history also whether it is past.                           *)
Tick ==
  /\ jobs' = [id \in DOMAIN jobs |->
       [jobs[id] EXCEPT !.timer =
          Elapsed(@, IF jobs[id].state = "queued" THEN 0 ELSE -1)]]
  /\ blocks' = [r \in Resource |-> Elapsed(blocks[r], 0)]
  /\ worker' = [w \in Worker |->
       IF worker[w].pc = "deferring"
       THEN [worker[w] EXCEPT !.until = Elapsed(@, 0)] ELSE worker[w]]
  /\ UNCHANGED <<projects, jobResources, nextId>>

WorkerStep(w) ==
  \/ Claim(w) \/ Renew(w) \/ Finish(w) \/ Retry(w) \/ Fail(w)
  \/ Block(w) \/ Defer(w) \/ DeferDiscovery(w) \/ Abandon(w)
  \/ \E ps \in SUBSET projects : QueueAudits(w, ps)

Requests ==
  \/ \E p \in Project : RequestDiscovery(p)
  \/ \E p \in Project, cs \in SUBSET Coordinate : RequestForSnapshot(p, cs)
  \/ \E cs \in SUBSET Coordinate : Sweep(cs)

Next ==
  \/ Requests
  \/ \E w \in Worker : WorkerStep(w)
  \/ Reclaim
  \/ CleanUp
  \/ \E p \in Project : DeleteProject(p)
  \/ Crash
  \/ Tick

Spec == Init /\ [][Next]_vars

(* What ends the run a worker is at, or takes it a step further.           *)
Outcome(w) ==
  \/ Finish(w) \/ Retry(w) \/ Fail(w) \/ Block(w) \/ Defer(w)
  \/ DeferDiscovery(w) \/ Abandon(w)
  \/ \E ps \in SUBSET projects : QueueAudits(w, ps)

(* Time passes and the schedule's ticker fires whatever the workers do; an *)
(* idle worker looks at the queue at least every TICK; and every piece of  *)
(* work ends: requests and fetched packs are bounded in time, and of the   *)
(* listing of a remote's refs it is assumed.  Nothing asks for work,       *)
(* renews, deletes or crashes because it has to.                           *)
Fairness ==
  /\ WF_vars(Tick) /\ WF_vars(Reclaim)
  /\ \A w \in Worker : WF_vars(Claim(w)) /\ WF_vars(Outcome(w))

FairSpec == Spec /\ Fairness

-----------------------------------------------------------------------------
(* What the queue promises.                                                *)

(* Every variable holds what its table or its task can hold.               *)
TypeOK ==
  /\ projects \subseteq Project
  /\ nextId \in 1 .. MaxJobs + 1
  /\ DOMAIN jobs \subseteq 1 .. nextId - 1
  /\ \A id \in DOMAIN jobs : jobs[id] \in Row
  /\ jobResources \subseteq JobId \X Resource
  /\ blocks \in [Resource -> 0 .. MaxPause]
  /\ worker \in [Worker -> Task]

(* job_resources holds exactly what live jobs use: no crash, retry or      *)
(* deletion leaves an ended job occupying a slot, or a live one unlisted   *)
(* (the trigger of migration 0025 and the cascade).                        *)
ResourcesMatch ==
  \A id \in JobId, r \in Resource :
    <<id, r>> \in jobResources <=>
      id \in DOMAIN jobs /\ jobs[id].state \in Live /\ r \in Uses(jobs[id].work)

(* No resource is ever held by more running jobs than its capacity, however*)
(* claims, expired leases, retries and deletions interleave (claim).       *)
CapacityRespected ==
  \A r \in Resource : Cardinality(Holders(r)) <= Capacity(r)

LiveJobs(w) == {id \in DOMAIN jobs : jobs[id].work = w /\ jobs[id].state \in Live}

(* Work that a run covers is one job for as long as it waits or runs, also *)
(* when its claim is lost and it returns to the queue.  An audit may wait  *)
(* beside the runs it must follow, so it has at most one job more than may *)
(* run at once (insert, reclaim_expired_leases).                           *)
OneJobPerWork ==
  \A w \in Work :
    Cardinality(LiveJobs(w)) <=
      IF w.kind = "package-audit" THEN Room["audit"] + 1 ELSE 1

(* A worker is at the run of job id that its row names.                    *)
AtRun(w, id) ==
  /\ worker[w].pc # "idle" /\ worker[w].id = id
  /\ jobs[id].claimed_by = w /\ jobs[id].attempts = worker[w].attempts

(* Its lease lasts, and it is ended, put back or prolonged.                *)
Disturbed(id) ==
  /\ jobs[id].state = "running" /\ jobs[id].timer > 0
  /\ \/ jobs'[id].state # "running"
     \/ jobs'[id].claimed_by # jobs[id].claimed_by
     \/ jobs'[id].timer > jobs[id].timer

(* The worker moves on, or is at a discovery, which goes on as it renews.  *)
Acts(w) == worker'[w] # worker[w] \/ worker[w].work.kind = "discover"

(* While its lease lasts, a running job is ended, put back or prolonged by *)
(* the worker at that very run and by nobody else: not by a worker whose   *)
(* claim was taken over, nor by the schedule.  Only deleting its project   *)
(* removes it (renew, finish, fail, defer, reclaim_expired_leases).        *)
LeaseHonoured ==
  [][\A id \in DOMAIN jobs \cap DOMAIN jobs' :
       Disturbed(id) => \E w \in Worker : AtRun(w, id) /\ Acts(w)]_vars

Starts(id) ==
  /\ id \in DOMAIN jobs /\ id \in DOMAIN jobs'
  /\ jobs[id].state = "queued" /\ jobs'[id].state = "running"

(* From the moment a worker recorded that a resource asked to be left      *)
(* alone, no job that needs it starts before that time, whatever another   *)
(* worker was told meanwhile (Resource::block, claim).                     *)
LimitsRespected ==
  [][\A id \in JobId, w \in Worker :
       /\ Starts(id)
       /\ worker[w].pc = "deferring" /\ worker[w].until > 0
       => Uses(jobs[id].work) \cap worker[w].limit = {}]_vars

-----------------------------------------------------------------------------
(* The queue implements WorkList: a work waits with the highest priority   *)
(* among its queued rows, and runs while one of its rows does.             *)

QueuedAt(w, priority) ==
  \E id \in Ids("queued") : jobs[id].work = w /\ jobs[id].priority = priority

Waiting == [w \in Work |->
  IF QueuedAt(w, 0) THEN 0 ELSE IF QueuedAt(w, -1) THEN -1 ELSE -2]

RunningWork == {jobs[id].work : id \in Ids("running")}

List == INSTANCE WorkList WITH
  Repeatable <- {w \in Work : w.kind = "package-audit"},
  waiting <- Waiting, running <- RunningWork

(* What waits is neither dropped nor put behind what it was ahead of until *)
(* a run starts for it, and covered work never has two runs at once        *)
(* (enqueue, claim, the outcomes, reclaim_expired_leases).                 *)
ImplementsWorkList == List!Spec

-----------------------------------------------------------------------------
(* What happens in the end.                                                *)

Trouble ==
  \/ Crash \/ Reclaim
  \/ \E w \in Worker : Block(w) \/ DeferDiscovery(w) \/ Abandon(w)

(* Once nothing crashes, outlives its lease or is told to wait any more,   *)
(* every job there is ends or goes with its project: whatever the trouble  *)
(* left behind, no lease, block, backoff or held resource keeps it waiting *)
(* - "the lease is what makes that recoverable without a human"            *)
(* (reclaim_expired_leases).                                               *)
EveryJobEnds ==
  <>[][~Trouble]_vars =>
    \A id \in JobId :
      (id \in DOMAIN jobs /\ jobs[id].state \in Live)
        ~> ~(id \in DOMAIN jobs /\ jobs[id].state \in Live)

=============================================================================
