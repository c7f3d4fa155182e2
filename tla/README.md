# error.menu in TLA+

error.menu watches repositories: it discovers what the forge says of a project, analyses the heads
it finds, looks the packages they lock up in public registries, and shows people (and the forge)
what it found. It is one Rust process: an HTTP API, a pool of eight workers, a schedule, and one
SQLite database that holds everything that must survive, the job queue included.

This directory models the parts of it whose correctness depends on order: what several workers,
requests and the schedule do to shared tables, and what is left when one of them stops. It holds
the models, TLC's configurations for small instances of them, and theorems that TLAPS proves for
every value of the constants. `PROJECT.json` lists, for every definition, the lines it translates
(`src/` is the root of the repository, so the crate is `src/src/`).

To check a run: `tlc -workers 2 -config Readings.cfg MCReadings.tla`; to check the proofs: `tlapm JobQueueProofs.tla`.

1. [The system](#the-system)
2. [How it is modelled](#how-it-is-modelled)
3. [Modules](#modules)
4. [Runs](#runs)
5. [Fairness](#fairness)
6. [Proofs](#proofs)
7. [Where documentation and code disagree](#where-documentation-and-code-disagree)
8. [What is not modelled](#what-is-not-modelled)
9. [Plan](#plan)

## The system

| Component | State | Operations | Correct when | Modelled |
|---|---|---|---|---|
| Job queue, `worker/queue.rs`, `worker/resource.rs` | tables `jobs`, `job_resources`, `resource_blocks`; each worker's copy of its job | enqueue, claim, renew, finish, fail, defer, block a resource, reclaim leases, prune | a resource is used by no more jobs than it admits; one work is one job; an outcome lands only on the run it is of; nothing waits for ever | `JobQueue`, `WorkList` |
| Wake chain of the workers, `worker/queue.rs` | tokio's `Notify` | wait, claim and wake one more, wake all | no ready job waits while a worker sleeps longer than a tick | no |
| Mirrors, `vcs/` | directories on disk | open, fetch, read | what a tree says of a path is the file, its absence, or a refusal | the answers, in `Analyzers` |
| Discovery, `worker/discovery.rs`, `analysis/runner.rs` | the project's lock, what a pass has read | a pass, a scan of a change, a scan of a commit | every watched head is analysed, once; a wait is not an answer | `Readings`, `Reporting`, `ForgeReads` |
| Snapshots and subjects, `project/snapshot.rs`, `project/subject.rs` | `snapshots`, `subjects`, `commit_analyses` | record, observe, mark analysed, newest reading, pages | what a reading is shown with is a whole analysis of its head; paging skips none | `Readings`, `Analyses`, `RegistryAudit` |
| Runs, findings and issues, `analysis/` | `runs`, `findings`, `issues`, `signals` | record a run with its findings, resolve issues, find the last success, list, show | an issue is one over all its sightings; a run is read whole | `Analyses`, `Readings` |
| Analyzers, `analysis/*.rs`, `analysis/lockfile/` | none | two trees to findings | each change is accounted for; what could not be read is not passed over in silence | `LockfileDelta`, `FileDeltas`, `CheckRuns`, `Analyzers` |
| Registry facts and audits, `registry/` | `package_facts`, audit rows of `runs` | fetch, store, expire, queue audits, audit, sweep | an audit that may happen comes | `RegistryAudit` |
| Forge reporting, `forge/report.rs`, `http/webhook.rs` | `forge_checks`, checks on the forge | create, move on, complete, forget | a head has one open check; the row is never ahead of the forge; in the end the check is completed; what it says is what the runs say | `Reporting`; what it says in `Verdicts` |
| Forge readers, app and installations, `forge/`, `http/webhook.rs` | the token cache, `installations`, `installation_repositories` | token, read, cover, uncover, rename | a request bears a token that lasts and covers its repository | `ForgeReads`; check words in `CheckRuns` |
| Organizations, members, projects, transfers | `organizations`, `organization_members`, `projects`, `project_members`, `project_transfers` | create, grant, take away, move, delete, list | somebody may always grant; a project is in an organization; the history is the history | `Custody` |
| Users, sessions, tokens, `user/`, `http/oauth/`, `http/auth/` | `users`, `auth_attempts`, `sessions`, `api_tokens`, cookies | begin, callback, register, change a role, mint, use, revoke, expire | an attempt is used once; a browser is signed in by its own sign-in; an administrator stays | `SignIn` |
| Activity, `project/activity.rs` | heads and times in memory | load, observe | a restart changes nothing | no |
| Identifiers, `id.rs` | one atomic word | next | ids only increase | `IdGenerator` |
| Database and times, `database/` | the pool | `BEGIN IMMEDIATE` transactions; times as text | text order is time order | atomicity everywhere; the text order not |
| HTTP API | none | check the caller, decode, call the above | what is checked still holds when it is written | handlers in `Custody`, `SignIn`, `Analyses`, `Verdicts`, `Reporting` |
| MCP endpoint, web front end, outbound HTTP, pictures | none | read, render | | no |

How they meet. The schedule and the webhooks queue discovery of a project. Discovery takes the
project's lock, reads the remote's refs and the forge's changes, and analyses each head nobody has
analysed: for each analyzer it reads the files of two trees and records a run with its findings. The
end of an analysis marks the head and queues one fetch per package version it names and an audit of
the project. A fetch stores an answer and, after its job ended, queues audits for the projects the
answer may have completed. An audit writes its own runs on the snapshots that are ready. The API asks
for scans outside the queue, under the same lock. Passes, scans and webhooks tell the forge where a
scan has got to, under a lock of their own. Webhooks also say which installation covers which
repository, and every read of the forge asks for a token in that installation's name. People sign in,
hold roles on organizations and projects, move and delete them, and page through the readings.
Every table is written by several of these.

What is hard about it:

* Work is handed from one job to the next in separate statements, and the process may stop, or the
  database refuse, between any two of them. What brings the work back is different each time: a
  lease, the sweep, the next poll, or nothing.
* A lease may run out under a worker that goes on. Its outcomes are fenced by the claim; what it
  stores on its way is not.
* "Already waiting" and "already running" answer a request differently for each kind of work.
* Requests, blocks, backoffs and leases are moments in time that pass in any order.
* One head is seen on a branch, on several changes and as a commit, open or closed, before and after
  it is analysed.
* What the forge shows and what the server has on record of it are written one after the other, and
  people change the former on their own.
* A handler checks the caller in one statement and writes in another; grants, roles and whole
  organizations change in between.
* A verdict is read in one moment and reaches the forge in another, and what it was read from is
  added to afterwards.
* A page of readings is read in several statements, and a reader reads several pages, while passes
  and audits write the tables.
* Deliveries about installations and renames come late, twice, out of order or not at all, and tokens
  are used some time after they were looked up.
* A file may not be there, be no file, not be text, be too large, or not parse, at one end of a range and not at
  the other; a forge may refuse, wait or have nothing.
* The clock may stand still or go back, and the generator of ids is shared without a lock.

## How it is modelled

An action is one transaction or statement, one answer of a remote service, or one read whose result
is used later. The database has one writer at a time (`Database::write` is `BEGIN IMMEDIATE`), so a
transaction is atomic; what a task has read and carries on with is in its own record (`worker`,
`task`, `call`), which a stop forgets. Data that no property tells apart is gone: a finding is
nothing but the versions it names or its fingerprint, an answer is known-or-absent or failed, a
reading is its subject, head, link and runs, a file is the few lines its analyzer looks for.

Time is counted down in `JobQueue`: a stored time is the number of ticks until it is reached, so the
model has no unbounded clock, and `<=`, `<` and `>` of the code's statements are kept apart. Other
modules have time only where it decides something (`fresh` of an answer, the clock of the ids, what a
token has left, whether a session has expired).

The operations of the HTTP API are in the module of the tables they write. A handler whose check and
write are apart is two actions, with the request between them in the state; one whose transaction
checks again says so in its guard.

Ghost variables and fields (`slipped`, `crossed`, `walked`, `loose`, `found`, `kept`, `begun`, `since`)
record what the tables forget. No action goes by what they hold, only properties do (of `begun` an
action uses the length, as the number of the next sign-in). `slipped`,
`crossed` and `walked` name precisely the steps after which a promise is no longer kept by the code,
so that the property says of all other behaviours that it is.

A module's type invariant is the first conjunct of one of the invariants of its run, except in
`JobQueue`, `RegistryAudit` and `IdGenerator`, where it is a theorem.

Names are the code's where TLA+ allows it. Definitions marked *Faulty variant* are not used by any
specification: each is a plausible mistake in the definition below it, and putting it in that
definition's place makes TLC find a property violated. They show that each property depends on the
code it is about.

## Modules

**`JobQueue`** is `worker/queue.rs` and `worker/resource.rs` with what else touches their tables:
the outcomes of the workers, the deletion of a project, a crash, the passing of time. `Claim` picks
the first ready row by `priority DESC, id`, where ready means its time has come and none of its
resources is blocked or full by *running* holders. `EnqueueAll` is one transaction over several
works; whether a running row answers the request depends on `CoveredWhileRunning`. Outcomes go
through `Owns`, the fence of the code's `WHERE id = ? AND claimed_by = ? AND attempts = ? AND
lease_expires_at > now`; `Retry`, `Fail` and `Defer` go on whether or not they changed the row, as
the code does. `Block` and `Defer` are two actions because the code has two statements.
`job_resources` follows the trigger of migration 0025 and the cascade.

**`WorkList`** is what the queue promises to the rest of the program: what waits goes on waiting,
with the highest priority it was asked with, until a run starts for it; covered work never runs
twice at once. `JobQueue` implements it (`ImplementsWorkList`, with the waiting and the running rows
as the mapping), and `RegistryAudit` uses it (`UsesWorkList`), so that the larger system is checked
against the promise rather than against rows, leases and retries.

**`IdGenerator`** is the compare-and-swap loop of `id.rs`: `ReadClock`, `Load`, `Exchange`/`Retry`
are its separate steps, of any number of threads, under a clock that may be set to anything.

**`RegistryAudit`** composes the end of an analysis, the fetches, the audits, the sweep and the
expiry of answers over `WorkList`'s queue. A worker's task is a record of where it is in `fetch`,
`queue_audits` or `audit`, with the lists it has read. `claims` says whose job still is theirs:
`LoseLease` takes it away and lets the run go on, as a real worker does. `slipped` is a history
variable: it becomes TRUE in exactly those steps after which the code has no way of its own back
(see `AuditNeverForgotten`); nothing reads it but properties.

**`Readings`** is discovery's pass, `scan_change`, `runner::run` and the tables they write. The forge
is three variables that move at any time; a pass reads the default branch once and the list of
changes once, and works on what it read. A reading's link (`analysis`) and the index (`index`) are
the two ways an analysis is found again. Statements that read what only the lock's holder writes
are joined with the write that follows.

**`Reporting`** is `forge/report.rs` with who calls it: the pass and `scan_change` through `analyse`,
the webhooks through `moved` and `rerun`. A write is three steps: `Load` (the row and the verdict,
under `WRITER`), `Send` (what the forge does) and `Save`; `Refuse` and `LoseAnswer` are its failures.
`checks` is the forge's own list, numbered as it creates them, and a head shows the newest. A
verdict is the number of the analysis it is of. `loose` is a history variable: the checks the row
cannot be answerable for, since their answer or row was lost, they were forgotten or reset by
somebody; nothing reads it but properties.

**`Analyses`** is the same tables as `Readings` from the reader's side, in full: `snapshots` with
their links, `runs` with baseline and status, `findings`, `issues`, and the index. `Readings` keeps
the order of a pass and counts runs; here whoever holds the lock observes or analyses any head
(`Observe`, `Analyse`, `Link`, `Evaluate`, `MarkAnalysed`), an audit comes whenever it may
(`RecordAudit`), and a `Stop` forgets the work. A reader lists all readings or the newest of each
subject, page by page (`Begin`), or shows one (`ReadRow`); both go on with `ReadRuns` and
`ReadFindings`, as the code's statements do. `told` is what the reader was told.

**`Verdicts`** puts the forge's checks beside `Analyses`' tables: whoever holds the project's lock comes to
a commit (`Settled`), analyses it (`Analysed` is the mark and the step after it) or fails to
(`Unfinished`), and tells the forge in two steps, `LoadVerdict`, which reads the runs there are
(`Verdict`, `forge/report.rs`), and `Send`, or does not (`Drop`). A check is opened again or forgotten at any
time (`Reopen`). Audits are recorded meanwhile, as they take no lock. `check` has, beside what a check
says, two ghosts: the analysis it is of and the runs there were. `AnalysisStatus`
(`http/api/analysis.rs`) is what the API says of an analysis at the same time. Rows, lost
answers and overtaking writes are in `Reporting`, which has analyses as numbers: the two modules
meet in the order of `Load`, `Send` and the lock. The two statements of a verdict are one step here, since what
may come between them, an audit's run, has findings but never the status the second one asks for.

**`LockfileDelta`**, **`FileDeltas`** and **`CheckRuns`** are operators: what each analyzer makes of what
it reads. `LockfileDelta` is the entries of a lockfile by name and version, how arrivals and departures
are paired, and the rules on what is left; `FileDeltas` is manifests, links, secrets, workflows, the
repository's controls and its hygiene; `CheckRuns` is three forges' words for checks, which of
them is the server's own, and the one page that is read of them. A lockfile's entry that its parser passes
over is left out of `Packages` (`Locks`), and a link's fingerprint keeps its text without what Unicode
takes for whitespace (`CollapseWhitespace`). **`Analyzers`** composes them: a range is two trees, the remote pushes to the head and
merges it (`Push`, `Merge`), the forge answers (`Answer`), and `Analyse` runs all eight. Which files an
analyzer looks at, what it does with one it cannot read or with a path where there is no file (`FileAt`: a
symbolic link or a submodule is read as nothing, and is no deletion), and the fingerprints of its findings are
there. Lexing is abstracted: a line has on it the links, candidates for secrets, or the statement that
the code's scanner would find.

**`ForgeReads`** is one project's reads of GitHub. GitHub itself is the environment: repositories are
renamed, installed on, taken away (`github`), and each change sends deliveries, which `Handle` takes in
any order, once or again, and `Lose` never. A read (`pass`) is `Begin`, `Lookup` of the installation and the cached
token, `Grant` or `RefuseToken`, and `Answered` or `Unanswered`; time passes between them. Tokens have
some life left; the margin and the longest request are as the code's constants relate. `kept`
is why what is missing from a stored analysis is missing.

**`Custody`** is organizations, members, projects and transfers with the handlers in front of them.
A request let through waits in `pending` until its write, and carries what its handler read: `ChangeMember`
and `ChangeGrant` count the owners in their own transaction, `CreateProject` and `Transfer` do not look
at the organization again.
`ListedProjects` and `ListedRole` are the SQL of the listings; `project_access` and `ProjectRole` the
Rust of the access check. `slipped`: projects written into an organization that was deleted after the
check; `crossed`: projects whose moves overlapped; `walked`: projects taken along by somebody who did
not own the organization when let through.

**`SignIn`** is the OAuth callback stage by stage (consume the attempt, exchange, register, open a
session, answer), the cookies of each browser, roles that administrators change on the strength of a
role read before, tokens, the check of a credential, and housekeeping, which reads the clock and
deletes in three statements. Each failure is one the code has an answer for: storage refuses, GitHub
refuses, the answer never reaches the browser.

**`JobQueueProofs`**, **`RegistryAuditProofs`**, **`ReadingsProofs`**, **`ReportingProofs`**,
**`CustodyProofs`**, **`SignInProofs`**, **`AnalysesProofs`** and **`AnalyzersProofs`** hold the theorems,
each on the module it is named for. The last sections of two of them are on other modules, too:
`ReportingProofs` on `ForgeReads`, the other half of what passes between the server and a forge, and
`AnalysesProofs` on `Verdicts`, which extends `Analyses`, and on `IdGenerator`, whose ids are what pages go by.
The theorems on `Analyses` are of its own `Spec`; every step of `Verdicts` is
one of its steps or leaves its variables alone (`VerdictsStepsAnalyse`), so they hold of the run's
`VerdictsSpec`, too. `ForgeReads`, `Verdicts` and `IdGenerator` name their specifications `ReadsSpec`, `VerdictsSpec` and `IdSpec`,
and their invariants and actions likewise, for that reason.

## Runs

| Run | Module, configuration | Shows |
|---|---|---|
| `queue` | `MCJobQueue`, `JobQueue.cfg` | capacities, holders, one job per work, the lease's fence and rate limits under every interleaving of two workers, requests, lost leases, crashes, deletion and time; the queue implements `WorkList`; once trouble ends, every job ends |
| `ids` | `MCIdGenerator`, `IdGenerator.cfg` | ids increase across threads, clock jumps and restarts, and are neither behind the clock nor ahead of it |
| `audits` | `MCRegistryAudit`, `RegistryAudit.cfg` | a ready snapshot without an audit always has one coming |
| `audits_liveness` | `MCRegistryAudit`, `RegistryAuditLiveness.cfg` | every analysed snapshot gets both audits in the end, and the model's queue is `WorkList` |
| `readings` | `MCReadings`, `Readings.cfg` | only whole analyses are shown, no reading mixes two, one waiting reading per head, no head analysed twice by passes, every watched head shown in the end |
| `reporting` | `MCReporting`, `Reporting.cfg` | one open check per head, a row never ahead of the forge, no verdict set back, and every watched head comes to have a completed check on record |
| `analyses` | `MCVerdicts`, `Analyses.cfg` | paging tells of every reading once, a run is read whole, issues follow their sightings and a run's baseline is an earlier success; a verdict on the forge is of a whole analysis of its own commit, and only later audits make the API say anything else |
| `late_audit` | `MCVerdicts`, `LateAudit.cfg` | violation: what an audit finds after a check was completed is never told to the forge |
| `analyzers` | `MCAnalyzers`, `Analyzers.cfg` | every package is accounted for, two findings of a run do not share an issue unless they are one (but for two analyzers that count no occurrences), and silence means that what there is to read was read and nothing was wrong, with the exceptions the property names |
| `forge_reads` | `MCForgeReads`, `ForgeReads.cfg` | tokens last and reach their repository, a wait is never stored as an answer, and the installation is found again whatever deliveries were lost |
| `custody` | `MCCustody`, `Custody.cfg` | organizations and projects keep an owner, deletions leave no project behind, the history tells the way, nobody walks off with a project, listings and access checks agree |
| `sign_in` | `MCSignIn`, `SignIn.cfg` | one session per sign-in, in the browser that began it; an administrator stays; housekeeping changes nobody's answer |

Bounds, and why they are enough:

* `queue`: one project, one npm version, two workers, two rows, all waits and leases one tick, two
  attempts, every capacity one. Two rows are a job and the one behind it, or two that want one
  resource; two workers are one that lost its lease and one that took over; one tick distinguishes
  "not yet", "now" and "past"; capacity one is the boundary of "full". `AttemptsCap` equals
  `MAX_ATTEMPTS`: the code only asks whether a count has reached it. No view and no symmetry, which
  liveness does not allow here. What the instance leaves open for the safety properties - a third row
  of one work, other capacities - the theorems settle.
* `ids`: two threads, two sequence numbers per millisecond, two nodes, four milliseconds, four ids:
  enough to use a millisecond up, go back, restart and meet again.
* `audits`: one snapshot that names two versions and two workers; two versions are "the last answer"
  and one before it, two workers are two fetches, a fetch and an audit, or a run and its successor.
  The view `Seen` leaves out what an audit found, which nothing reads, and takes all states in which
  a request has slipped as one: `slipped` never becomes FALSE again and the invariant claims nothing
  of such states. Workers and versions are symmetric. Deadlock is not checked: without expiry and
  requests left, the system may rest.
* `audits_liveness`: one worker, so that the two-version instance stays small enough for liveness
  without view and symmetry.
* `readings`: one branch, one change, two heads, two actors, two analyzers, one stop or asked-for scan
  (`MaxTrouble`). A head is shared by branch, change and commit; an analysis has a middle; two actors
  are what the lock keeps apart. The forge moves without bound.
* `reporting`: one head, two actors, three of `MaxTrouble` (refusals, lost answers, failed analyses,
  stops, re-runs asked for, lost deliveries, scans asked for). Rows, checks and verdicts are by head
  and nothing in a write reads another head's; two actors are the holder of the project's lock and a
  webhook. Three troubles are a failed write, a failed repair of it, and a re-run. The forge's heads,
  the switch and late webhooks are without bound.
* `analyses`: a change and a branch, two heads, one analyzer and the audit with a grave finding each
  (no `ci-check-runs`, which may be skipped), pages of two, one listing, and at most three readings, three
  runs and five of both together (`MaxRows`). Three readings are two pages and one added between them, or
  one analysis, one reading that points at it, and one of the other head. Three runs are an analysis, its
  audit and a second analysis, of the same commit or the other one, between the reading of a verdict and its
  arrival. `ReadOrTold` keeps readers and checks apart: while somebody reads no check is written, and a listing
  goes no further once it is at its end. Readers and checks have no variable in common and neither goes by what the
  other has; what both go by, the tables, is written in every way beside either. Subjects and heads are
  symmetric.
* `late_audit`: two readings, two runs, no listing, and nothing symmetric.
* `analyzers`: ten files, one of each kind an analyzer looks for and a
  lockfile in a second directory, with contents that tell its rules apart, the garbled, binary and
  oversized, symbolic links and a lockfile of unreadable entries among them; six answers of a forge, of
  which the larger are longer than the page of two that is read; two pushes, merges or
  answers before an analysis. Two are enough to change a file at both ends or two files at one. The
  caps on changed files and on a whole tree's bytes act as the limit of one file does and have no
  constant of their own.
* `forge_reads`: one repository, two names, two installations, a token of three steps with a margin of
  one and requests of one, three changes on GitHub, two losses or refusals. Three changes are a
  rename, an uninstallation and an installation by somebody else.
* `custody`: a member and an administrator, two organizations, one project, two requests at once
  between check and write, two moves, the roles Operator and Owner handed out. Viewer grants reads
  alone; two requests are any race of two, and a third adds no new pair.
* `sign_in`: two people, two browsers, two sign-ins, two changes of a role let through, one token name, attempts that live one step and
  sessions that live two, a clock to two, one failure of storage. People and browsers are symmetric.
  What expires at this very moment, before and after it, is told apart.

Deadlock is not checked in the modules whose bounds (requests, ids of moves, snapshots, steps) let the
instance come to rest.

## Fairness

Liveness is claimed only under what the code's scheduling gives.

* `JobQueue`: time passes; the reclaim ticker fires; an idle worker looks at the queue at least every
  tick (weak fairness of `Claim`); a run ends (weak fairness of `Outcome`): HTTP requests are bounded
  by `outbound.rs`, fetched packs by a deadline in `vcs/mirror.rs`. One wait has no bound in this
  repository, the listing of a remote's refs (`default_branch`), and a discovery renews its lease as
  long as it lasts; that such a connection ends is an assumption. No request, renewal, deletion or
  crash is fair. `EveryJobEnds` needs the trouble (crashes, lost leases, waits asked for, refused
  writes) to end: a job that outlives its lease every time is run for ever, since reclaiming looks at
  no attempt count. That is a property of the code, not of the model.
* `RegistryAudit`: claims are strongly fair for each work, since the oldest waiting job is claimed
  first and a fetch may be unclaimable now and then; runs, the second half of a scan, expiry, the
  reclaim and the sweep are weakly fair. The scan's first half is not: a snapshot need not be
  analysed.
* `Readings`: passes begin again and again (schedule and queue) and whoever is at the project goes
  on. Stops and asked-for scans are bounded by `MaxTrouble`, so the lock is not theirs for ever.
* `Reporting`: passes come to a head that stays watched again and again (strong fairness of `Visit`,
  since the project's lock is often somebody else's; both locks are tokio's, which are granted in
  turn: hence also for `Load` and `RerunScan`), requests to the forge end (`outbound.rs` bounds them),
  and a delivery that arrives is acted on. One step of this is an assumption on the project: a pass
  stops at the first head whose analysis fails, so that a head that fails each time - a default
  branch whose head is a root commit, say (`discovery.rs:111`) - keeps the pass from all heads behind it.
* `ForgeReads`: repositories go on being pushed to and each push is told (the deliveries about pushes
  are how a lost rename is caught up with); a delivery that is not lost is handled; passes begin again
  and again; token requests and reads end (`outbound.rs`); the clock ticks. Changes on GitHub and
  losses are bounded by `MaxChanges` and `MaxMishaps`: `CoverCatchesUp` is about what comes after them.

`Custody`, `SignIn`, `Analyses`, `Verdicts` and `Analyzers` claim no liveness: nothing there is waited for.

## Proofs

43 theorems, for every value of the constants that satisfies the named assumptions
(`ConstantsAssumption`, `WorkAssumption`, `IdAssumption`, `RegistryAssumption`, `ReadingsAssumption`,
`ReportingAssumption`, `CustodyAssumption`, `SignInAssumption`, `AnalysesAssumption`,
`ForgeReadsAssumption`, `AnalyzersAssumption`; each is what the
code's constants and types guarantee, and TLC evaluates them in the passing runs). What they say of names is only what
keeps the models' markers apart from real things: no actor is called "nobody", no organization
"gone", no branch is a commit.

| Theorem | Says | Along |
|---|---|---|
| `JobQueueProofs!TypeCorrect` | `[]TypeOK` | `NextStep` |
| `ResourcesAlwaysMatch` | `[]ResourcesMatch` | `NextStep`, with `TypeOK` |
| `CapacityAlwaysRespected` | `[]CapacityRespected` | from the two above |
| `AlwaysOneJobPerWork` | `[]OneJobPerWork` | from all three |
| `LeaseAlwaysHonoured` | `LeaseHonoured`, an action property | `StepHonoured`, with `TypeOK` |
| `LimitsAlwaysRespected` | `LimitsRespected`, an action property | `BlocksOutlast`, with the above |
| `QueueImplementsWorkList` | `ImplementsWorkList`, a refinement | `StepListed`, with `OneJobPerWork` |
| `RegistryAuditProofs!TypesHold`, `AuditsNeverForgotten` | `[]TypeOK`, `[]AuditNeverForgotten` | `NoneForgotten` |
| `AlwaysUsesWorkList` | `UsesWorkList`, a refinement | `StepQueued`, with `FetchedOnce` |
| `ReadingsProofs!InvariantHolds` | `[]IInv` | the lock's holder knows |
| `AnalysesAlwaysWhole`, `AlwaysOneBareReading`, `NeverAnalysedTwice` | `[]AnalysesWhole`, `[]OneBareReading`, `[]NeverAnalysedAgain` | `IInv` |
| `ReportingProofs!InvariantHolds` | `[]IInv` | the one writer knows |
| `AlwaysOneOpenCheck`, `RowAlwaysBehindForge` | `[]OneOpenCheck`, `[]RowBehindForge` | `IInv` |
| `VerdictAlwaysStays` | `VerdictStays`, an action property | `IInv` |
| `CustodyProofs!InvariantHolds` | `[]IInv` | requests hold |
| `ProjectAlwaysKeepsOwner`, `ProjectNeverLeftBehind`, `NobodyEverWalksOff`, `HistoryAlwaysTellsTheWay`, `ListingsAlwaysAgree` | the invariant of the same name | `IInv`; the last from the types alone |
| `OrganizationAlwaysKeepsOwner` | `OrganizationKeepsOwner`, an action property | `TypeOK` |
| `SignInProofs!InvariantHolds` | `[]IInv` | states are handed out once |
| `AlwaysOneCallbackPerState`, `AlwaysSignedInByItsOwn`, `AdministratorAlwaysStays` | the invariant of the same name | `IInv` |
| `HousekeepingNeverChangesAnAnswer` | `HousekeepingChangesNoAnswer`, an action property | `SweepBehind` |
| `AnalysesProofs!InvariantHolds` | `[]IInv` | stored runs are whole; a listing is told, on the page or ahead |
| `PagingAlwaysSkipsNothing`, `RunsAlwaysShownWhole`, `IssuesAlwaysFollowFindings` | the invariant of the same name | `IInv` |
| `AnalysesProofs!AlwaysOutrunOnlyByAudits` (of `Verdicts`) | `[]OutrunOnlyByAudits` | `VerdictsIInv`: `IInv`, `Underway`, `Telling`, `ChecksSound` |
| `AnalysesProofs!FieldsHold`, `AlwaysIncreasing` (of `IdGenerator`) | `[]IdTypeOK`, `[]Increasing` | `IdIInv` |
| `AlwaysTimely` | `Timely`, an action property | `StepInTime`, with `IdIInv` |
| `ReportingProofs!TokensAlwaysReachTheirRepository` (of `ForgeReads`) | `[]TokensReachTheirRepository` | `ReadsIInv`: `NamesInv`, `TokensInv` |
| `WaitsAreNeverAnswers` | `[]WaitsAreNotAnswers` | `ReadsIInv`: `AnswersInv` |
| `AnalyzersProofs!EveryPackageAlwaysAccountedFor` | `[]EveryPackageAccountedFor` | `DeltaAccounts`, with `AnalyzersIInv` |
| `NoIssueEverShared` | `[]NoSharedIssue` | `RunsDistinct`, with `AnalyzersIInv` |
| `SilenceAlwaysMeansNothing` | `[]SilenceMeansNothing` | one lemma per analyzer, with `AnalyzersIInv` |

*The queue.* `NextStep` sorts every step into three kinds. A step that *settles* only narrows the
table: no row appears or starts, none changes its work, and `job_resources` follows. A step that
*starts* runs one ready row. A step that *grows* the table adds rows for work nothing covered. Then
capacities follow by counting: only a start adds a holder, and it asked that the resource was not
full - which counts the right rows only because `job_resources` matches the live ones. That is why
`CapacityRespected` is not inductive alone. `OneJobPerWork` needs the capacities in turn: an audit's
row may wait beside running ones, and their number is bounded by the capacity of `audit`, also after
a lost lease returns one of them. The action properties need an invariant of their own only for rate
limits: `BlocksOutlast` says that the block a worker wrote lasts at least as long as what the worker
still waits to record, which the later, shorter answer of another worker would break if a block were
replaced rather than extended.

*The ids.* `Increasing` is not inductive: nothing in it speaks of the word. `WordIsLargest` adds that
the word of a process that has minted is the largest id there is, and `FreshTimesAreNew` that before
it mints, every time it may use is later than all times of the processes before it. The exchange
then appends the successor of the largest. The order of two ids is the order of their words by
linear arithmetic on the packed fields (`LaterIdIsLarger`, `SequenceOrders`). Assumed of the
environment: a restarted process does not see a time before it first mints that its predecessors
used. Otherwise ids may repeat - nothing is persisted.

*The audits.* `AuditNeverForgotten` is a disjunction of reasons why an audit still comes, and the
proof is that each step hands a reason on: a fetch's job to its end, the end to the list of projects,
the list to a queued audit, a queued audit to a run with everything still ahead of it, and that to
the rows of `runs`. `OthersKeepTheirReasons` is the lemma that makes this short: a step takes at most
one worker's reason away, so only that worker's has to be replaced. The strengthening is
`RecordsItsAudit`: a run records the audit it listed for.

*The readings.* The three invariants are of tables that several statements write, so none of them
holds by itself: a mark is right because the reading it marks has as many runs as its writer has done,
and a link because the index still is what its writer read. `IInv` says so: `OneAtATime`, the project's
lock has one holder, and `Known`, what the holder was told at each point is still so, since nobody else
writes. `LinksIndexed`, a head whose reading points elsewhere is indexed, keeps a bare reading from being
taken over while another is linked. `NeverAnalysedAgain` is what `Known` says of a pass.

*The checks.* Rows and checks are written one after the other, and webhooks do not take the project's lock.
`Writes` says what the one who holds `WRITER` has read and done: before the request, that the head has no
open check or that the row is its check's and behind what will be sent; after it, that the check is as
sent. `OpenOnRecord` says that an open check is on record or about to be saved by the writer, so the next
writer cannot create a second one. Checks in `loose` are excepted wherever an answer or a row was lost.
Only the holder of `WRITER` sends or saves: this is the last conjunct of `TypeOK`, and needs that `"nobody"`
is no actor.

*Custody.* A handler's check and its write are apart, and `RequestsHold` says what of the check is still
true of a request that waits, in the middle of everybody else's: for a move, that the project still is
where it was checked, unless it was overtaken (`crossed`), and that the records it was not overtaken by
are older. `WaysTold` says that the records of a project whose moves never overlapped form one way that
ends where the project is; a transfer adds the last step because its id was minted after all others'.
`NoneUnborn` and `RecordsStand` keep the ids of projects and records within those handed out.
`ListingsAgree` needs no invariant: the SQL's maximum over direct and inherited rows and the Rust's are
one function of the tables.

*Sign-in.* States are handed out once (`StatesHanded`), and each is an open attempt, a callback under way
or a session: an attempt that led to a session is gone (`AttemptsOpen`). A browser holds and comes back
with states that were handed to it (`StateOfItsOwn`), which makes the cookie's comparison decide.
Housekeeping goes by a time already past (`SweepBehind`), so what it deletes was refused before.

*The analyses.* What is stored and what a reader has of it are two halves of `IInv`. `RunsStored` has what
one transaction writes together: findings are of runs and issues there are (`FindingsPlaced`), and a run's
are all it found (`FindingsComplete`); a later run touches neither. `IssuesSeen` follows because a new run
has the largest id of all, so that it becomes an issue's last sighting, and its first only if it has none. Of a reader
`Listing` says that every reading it asked for was told, is on its page, or is ahead of where it goes on
(`Covers`), and that these three follow each other downwards (`Descends`): readings are only added, above
all that was there, and keep their subject, so nothing moves across the line. That a page ends where the
next begins is `PageTaken`, for any rows and any size of page. `ResolvedIssues` and the page are built of an
enumeration of a set and of a descending one: `AnyOrder` and `RowsListed` prove that each names
every element once, which takes that fingerprints are of a fixed width, hence finitely many.

*The verdicts.* `OutrunOnlyByAudits` is of checks alone, and what a check says was read earlier, of a reading
somebody else may have pointed at. `ChecksSound` says of a check what it counted: a run of every
analyzer, of one analysis of the commit, and all runs of it there are but audits that succeeded. For a later step to
leave that so, no analyzer may contribute to an analysis a verdict is of: `Underway` says that the one under way
has none, because it is a new reading or one without runs (`ReadingAdded`), and that the runs it lacks are
those still ahead of it; so that the mark comes to a whole one. `Telling` is why: whoever
analyses is not telling the forge, and what is being told is as sound as what has been.
`IndexWhole` and `PointersWhole` carry this to the readings that point elsewhere. That what is counted
then decides what both say needs `FindingsComplete`, hence all of `IInv`.

*The reads.* Whether a token reaches the repository it was asked for is a fact of GitHub, and GitHub
changes between the request for the token and the read. `NamesInv` says what it keeps: a name is of one
repository at a time, a name given up redirects to who had it, and the project's remote is a name of the
one kind or the other. So a token's name leads home for as long as the token is there (`LeadsHome`).
`TokensInv` adds what a request bears: a token for the name it reads and with `left + waited > TIMEOUT`,
which is what the margin buys when a token was taken from the cache and what a new token's life buys
otherwise; a request is given up before the sum is used up. Of answers, `AnswersInv` needs the pass
under way beside what is stored: nothing an exhausted budget withheld is missing from either. That an
exhausted budget is a wait whichever way it is put - 403 with nothing left, 429 with a time - is
`ExhaustedIsWait`.

*The analyzers.* The properties are of what is stored after an analysis, so the invariant has to tie it to
what was analysed: `RunsInv`, the runs are those the analyzers make of the trees and the answer there are
now, because every push, merge and answer forgets them. The rest is about functions, for contents of any length.

* A lockfile's reports are made in three passes. `ReportsByPlace` gives each report a place, the pass and
  the index it was made at, with at most one report to a place (`OneReportPerPlace`). Then a package that
  came has its one place in the first pass (`ArrivalsToldOnce`), and one that went has a place in exactly
  one of the other two or moved (`DeparturesToldOnce`). The change back tells a move the other way round
  because the order of versions turns with its arguments (`VersionsTurn`), numbers, identifiers and
  lengths alike (`MovesBack`).
* Findings alike in rule and content are told apart by counting those before them. The count of the later
  is larger because the places below it include all of those below the earlier and the earlier itself
  (`OccurrenceTellsApart` for lockfiles, `LaterPrecededByMore` for workflows), and because there are
  finitely many. Nothing is claimed here of `secret-scan`, which counts no occurrences, nor of
  `link-inventory`, whose fingerprints keep less of a link than what tells its findings apart.
* A silent analysis: a lockfile with no report locks what it locked (`SilentDelta`), since a package
  that came would have a place; a link that is more often there would be counted, which takes that
  the gains of all files together are finite (`FiniteUnion`); of the checks on the page that is read,
  three forges' words for failure map to one conclusion and no other word does (`FailureSaid`). The property
  leaves out by name what the code does not look at: a path with no file at the head, what a
  parser passes over, and the checks of later pages.

Assumed there: a tree has finitely many paths, and the forges say words of their own (`Says`).

*The refinements.* `StepListed` maps every action of the queue to a step of `WorkList` or to a stutter.
What a list needs of rows is `OneJobPerWork`: a work that waits is the priority of its one waiting row,
and a run that ends or returns is the only one. A claim takes the waiting row and starts the run; a
lost lease, a retry and a deferral put it back; deletion forgets. `EnqueueAll` raises the priorities of what
already waits and inserts the rest in an order it chooses, so that the proof has to show that everything
asked for is in the list afterwards, once. In `RegistryAudit` the waiting and running works are sets, and
`FetchedOnce` - a fetch that waits has no run, and none has two - is what makes the sets a list.

Only model-checked is what is claimed under fairness (`EveryJobEnds`, `EverySnapshotAudited`,
`EveryHeadShown`, `EveryHeadAnswered`, `CoverCatchesUp`): it needs the proof system to reason about when an
action is enabled, which the installed version does not do. Every other property of the passing runs is a
theorem.

## Where documentation and code disagree

One run ends in a violation, `late_audit`. "It is red for an introduced, untriaged High or Critical finding
from any analyzer" (`docs/architecture.md:195-197`). A check is completed from the runs there are when the
analysis ends; the audit's run, whose findings may be Critical (`registry/mod.rs:356`, `428`), is recorded by
a job of its own afterwards. A pass that comes to the commit again leaves a completed check as it is
(`forge/report.rs:226`). The check stays green, and the API calls the same analysis alarming.

Noticed on the way, and not the subject of a run:

The queue and the audits.

* `docs/architecture.md:45-47` says results and the end of the job are one transaction. They are not
  (each run is one, the mark another, the job's end another); `Readings` and `RegistryAudit` model what
  is there.
* `docs/architecture.md:58` gives discovery the resource `mirror:<project>` "so one mirror is never
  fetched twice at once". A mirror's directory is the hash of its remote (`vcs/mirror.rs:118-124`), and
  two projects may watch one remote. The project's lock is by project, too.
* `docs/analyzers.md:82`, a fetch that completes the last answer queues the audit. The job is ended
  first; a stop or a refused write between the two leaves a fresh answer and no job, and the sweep
  looks only for what is unanswered. `registry/mod.rs:240-241` promises the same of a scan, which
  marks its head first. These are the steps that `AuditNeverForgotten` names as slips; the audit comes
  when another fetch or scan of the project asks for one.
* `docs/analyzers.md:93-95`, "audited only when every public-registry package it names has a known
  or absent answer, because the run marks the snapshot as done". An audit lists the ready
  snapshots, then reads and records; an expired answer may be fetched again meanwhile, and a failure
  replaces it.
* `worker/queue.rs:142-143`, "a backlog of old versions never delays the answer to a scan that just
  finished": a scan that asks for a version while the sweep's job for it runs raises no priority,
  because the update is on queued rows (435-441); when that job is put back it waits behind the sweep.
* `PackageFacts::is_fresh` (`registry/mod.rs:509`) is true of a failure that has not expired, and
  `fetch` then answers as if it were known or absent (`registry/mod.rs:187`).
* A claim counts an attempt, and a lost lease gives none back nor is it limited by them.

Readings and what is shown of them.

* `docs/architecture.md:79-81` says of a head seen again that "the sighting is recorded, its snapshot points
  at the analysed one through `analysis_snapshot_id`, and the reader sees the stored runs".
  `SnapshotAnalysis::load_page` keeps where it put a run by the run's id alone (`analysis/mod.rs:385`). When one
  page lists two readings of one analysis, the place of its runs is overwritten (`Place`): one of the readings gets
  all findings and signals, and the other is listed with the same runs and none, hence as clear. So a
  page of two contradicts the check as well. `RunsShownWhole` leaves out by name the reading that lost its
  place (`placed`), and `AnalysisStatus` is of an analysis read by itself.
* `docs/architecture.md:84`, one reading per commit: an analysis that stopped half way leaves a
  reading with some runs, which the next pass neither takes over nor removes. Nothing shows it as the
  head's analysis (`AnalysesWhole`), but a re-scan nobody asked for stands beside it. While it is under
  way, and for good when it has stopped, the API calls it clear if its runs so far are, though
  `AnalysisStatus` is documented as of runs that all finished.
* `project/snapshot.rs:292-294`, the newest head of a branch is the one a project's mark should
  follow. Readings are ordered by id, and a head seen before keeps its reading: when the default
  branch goes back to it, the mark follows the head it left. The same order decides which head a
  re-scan of a change analyses and which reading a dashboard shows.
* An issue's `last_seen` may go back to an older snapshot, when that one is analysed last.
* The analyses compare the tip of the base branch with the head, not their merge base
  (`runner.rs:173-174`): what only the base branch changed is reported as introduced by the change.
* `compare::compare` and triage have no caller and no writer outside tests.

The forge's checks.

* `forge/report.rs:194-196`, a re-run "drops the check kept on `head`, so the next pass writes a new
  one" (`docs/architecture.md:200` likewise). The row is deleted without the writer's lock, so a write
  that has completed the check and not yet saved the row saves it after; the row then says
  "completed" of a check the forge has reset, and `Settled` has nothing to write. The check is among
  those `RowBehindForge` excepts by name (`loose`).
* A re-run whose delivery is lost, or whose scan stops before its first write, leaves the reset check
  queued, too. `http/webhook.rs:2-3` has a lost delivery cost latency only.
* A scan asked for again that fails, or one that fails after its mark, completes the check as "could
  not finish" although an analysis is stored, and later passes leave it so. `Step::Unfinished` is
  documented as a scan that "will be tried again" (`report.rs:57`).
* An analysis that fails after its mark, when its packages are queued, is the same: the commit is indexed, its check
  says "could not finish", and `Settled` leaves that. A commit scanned through the API is analysed again without a
  word to the forge, so the check may be of the analysis before.
* A check queued by a webhook for a head that moved on before a pass read it stays queued.

The forge's readers.

* A secondary limit - 403 with `retry-after` but budget left, or 429 without headers - is taken for a
  refusal, not a wait.
* A cached token that GitHub no longer accepts is refused until it comes near its expiry, though
  `reader.rs` says that such a repository reads as it did before it was installed.
* When the delivery of an uninstallation was lost and the name is used again, the lookup by name may
  pick the old installation's row. A repository that does not change after a rename is not repointed.
* A conclusion GitHub has no word for here decodes to none.

The analyzers.

* "One finding per link and file. The occurrence is always zero because the group is the identity"
  (`analysis/links.rs:291-292`). The group is the exact text, and a url ends only at ASCII whitespace; the
  fingerprint collapses all whitespace of the title that holds it (`finding/fingerprint.rs:30`, `61-63`).
  `https://x` and `https://x` with a no-break space after it are two findings and one issue
  (`CollapseWhitespace`). `NoSharedIssue` leaves `link-inventory` out.
* "A gate that cannot read a file must say so, not report that it found nothing"
  (`analysis/lockfile/npm.rs:13-14`). The parser of pnpm's lockfile passes over an entry whose key is no text or
  no name and version (`pnpm.rs:22-23`), and reads a text without a document or without `packages` as one that
  locks nothing (`pnpm.rs:11-17`).
* A lockfile that has one name and version twice is compared by its last entry only, and a manifest
  that declares a name in several tables by the last table's, so a change to the other is not reported.
* `secret-scan` always counts an occurrence as the first (`fingerprint.rs` tells occurrences apart, and
  a test says so), so two secrets of one rule in one file are one issue. Where occurrences are counted,
  fixing an earlier one renumbers the later.
* A symbolic link or a submodule in the place of a lockfile, a manifest or a workflow is a change that is not a deletion
  (`vcs/mirror.rs:850-854`), and is read as no file (`mirror.rs:683-685`): lockfiles are passed over without a word
  (`lockfile/mod.rs:142-144`), and so are secrets and workflows (`runner.rs:395-405`, `452-454`); a
  manifest's declarations count as removed. The manifests' parser takes tables it does not know the shape
  of for none. What `SilenceMeansNothing` calls silence leaves these out by name.
* Checks are read one page at a time and the next page is never asked for (`forge/github/mod.rs:99-106`, and
  likewise in the other two forges): a failed check on it counts as none.
* One file over the limit anywhere in either tree fails `link-inventory` for every change.
* What changed in submodules is computed and dropped by the runner.

Organizations, projects and people.

* `docs/data-model.md:26`, an organization keeps an owner: the default organization of a fresh database
  has none until somebody gives it one.
* A project created in, or moved to, an organization that is deleted in between is in no organization;
  moves of one project that overlap are made after a check of where it was and recorded out of order.
  `Custody` names both (`slipped`, `crossed`).
* `http/api/project.rs:252`, `discovery.rs:164` and `repository.rs:242` write back a description or icon
  read earlier, over what was written meanwhile.
* `project/mod.rs:380-386` says SQLite enforces no foreign keys because the pool sets no pragma; sqlx
  turns them on by default. `Project::delete` (`project/mod.rs:388-418`) deletes snapshots before the
  issues that refer to them (`0001_init.sql:53-54`); with foreign keys on, the deletion of a project
  with an issue is refused and rolled back. The test deletes a project without issues.
* An expired token keeps its name taken until housekeeping. A callback that does not match takes the
  state's cookie with it, so that the browser's other sign-in fails, too. A logout whose deletion fails
  clears the cookie and leaves the session.

## What is not modelled

* The wake chain: it decides how soon a ready job is claimed, the tick bounds that, and `JobQueue` lets
  a worker claim at any time. Activity: what it keeps decides nothing else. The text order of stored
  times: `JobQueue` compares times as times. Times at a whole second are written without a fraction,
  so two times of one second may compare wrongly by up to a second.
* Lexing of lockfiles, manifests, Markdown and workflows, and decoding of registries' and forges'
  answers, signatures, people, icons, rendering: functions of their input, with unit tests and samples
  in the repository.
* git and the file system below `vcs/`, HTTP, the web front end, the MCP endpoint (reads only, over the
  queries of the API), start-up.
* In `JobQueue`: which projects are due (requests come at any time), the reads of the API, more than
  one process on one database (the deployment has one).
* In `RegistryAudit`: the sweep's `LIMIT`, deletion of projects, the wording of findings. Nix versions
  are left out because no registry is asked for them.
* In `Readings`: the remote that moved, changes the forge no longer lists, check runs, baselines
  (`Analyses` has them). One project, since lock, index and subjects are by project.
* In `Reporting`: the counts, colour and wording of a verdict, and triage; the token and which
  repositories an installation covers (`ForgeReads` has them; `on` is that and the switch, which is read at
  each head here and once in a pass by the code, `discovery.rs:71`); a head that is
  recorded between a re-run's look for it and the deletion of its row. A scan of a project that does
  not report is one step.
* In `Analyses` and `Verdicts`: signals, which are read as findings are, and the wording of both; findings that
  were there before and triage, which nothing in the program writes. In `Verdicts`: the rows of checks and the
  ways in which a write is lost, which `Reporting` has.
* In `Analyzers`: more than one file of a kind at a time, and the order of findings; file modes; trees
  that a diff reports beside the files in them, which only add to what hygiene counts.
* In `ForgeReads`: the other two forges, which have no installations; the app's own signed token.
* In `Custody`: names, descriptions and settings, which no access depends on. In `SignIn`: GitHub's side
  and the profile it sends.

## Plan

The models are complete but for what the section above leaves out, and every safety and action property
that a run checks is proved for all values of the constants. What could be added, in this order:

1. Two projects that watch one remote: `Readings` over a directory that both fetch into, once the code
   says who may (the resource and the lock are by project).
2. An audit that reads facts while a failing fetch replaces one: `RegistryAudit` has the
   steps, and keeps of an audit that it ran, not which answers it read.
3. A re-run's deletion of a row beside a write that has sent and not saved: `Reporting` has both, and
   excepts the check by name; a property awaits a fix in the code.
4. Liveness proofs, if a later TLAPS reasons about enabledness.
