--------------------------- MODULE JobQueueProofs ---------------------------
(***************************************************************************)
(* Proofs that the properties of JobQueue hold for every pool, capacity,   *)
(* lease and number of jobs.                                               *)
(***************************************************************************)
EXTENDS JobQueue, FiniteSetTheorems, TLAPS

-----------------------------------------------------------------------------
(* Rows.                                                                   *)

(* The state of a row tells which of its columns are set.                  *)
LEMMA RowStates ==
  ASSUME NEW row \in Row
  PROVE  /\ row.state = "running" => row \in ClaimedRow
         /\ row.state # "running" => row \in FreeRow
         /\ row.work \in Work
  BY DEF Row, FreeRow, ClaimedRow

(* A running row loses its claim whenever it leaves that state.            *)
LEMMA Unclaimed ==
  ASSUME NEW row \in ClaimedRow, NEW state \in {"queued", "done", "failed"},
         NEW wait \in Timer
  PROVE  [row EXCEPT !.state = state, !.claimed_by = NoWorker, !.timer = wait] \in FreeRow
  <1>1. [row EXCEPT !.state = state, !.claimed_by = NoWorker, !.timer = wait]
          \in [work : Work, priority : {-1, 0}, state : {"queued", "done", "failed"},
              claimed_by : {NoWorker}, attempts : 1 .. AttemptsCap, timer : Timer]
    BY Zenon DEF ClaimedRow
  <1> QED  BY <1>1, ConstantsAssumption DEF FreeRow

(* A row that ends, goes back to the queue, is put off or is renewed is    *)
(* still a row of the table (finish, fail, defer, renew).                  *)
LEMMA OutcomeRows ==
  ASSUME NEW row \in ClaimedRow, NEW wait \in Timer
  PROVE  /\ Ended(row, "done") \in FreeRow /\ Ended(row, "failed") \in FreeRow
         /\ Requeued(row, wait) \in FreeRow
         /\ Deferred(row, wait) \in FreeRow
         /\ [row EXCEPT !.timer = LEASE] \in ClaimedRow
  <1>1. Ended(row, "done") \in FreeRow /\ Ended(row, "failed") \in FreeRow
    BY Unclaimed, ConstantsAssumption DEF Ended, Timer
  <1>2. Requeued(row, wait) \in FreeRow
    BY Unclaimed DEF Requeued
  <1>3. Deferred(row, wait) \in FreeRow
    <2>1. Requeued(row, wait).attempts \in 1 .. AttemptsCap
      BY DEF ClaimedRow, Requeued
    <2>2. Larger(Requeued(row, wait).attempts - 1, 0) \in 0 .. AttemptsCap
      BY <2>1, ConstantsAssumption DEF Larger
    <2> QED  BY <1>2, <2>2 DEF FreeRow, Deferred
  <1>4. [row EXCEPT !.timer = LEASE] \in ClaimedRow
    BY ConstantsAssumption DEF ClaimedRow
  <1> QED  BY <1>1, <1>2, <1>3, <1>4

(* The work of a row never changes, whatever becomes of it.                *)
LEMMA OutcomeWork ==
  ASSUME NEW row \in ClaimedRow, NEW state, NEW wait \in Timer
  PROVE  /\ Ended(row, state).work = row.work /\ Ended(row, state).state = state
         /\ Requeued(row, wait).work = row.work /\ Requeued(row, wait).state = "queued"
         /\ Deferred(row, wait).work = row.work /\ Deferred(row, wait).state = "queued"
  <1>1. Ended(row, state).work = row.work /\ Ended(row, state).state = state
    BY Zenon DEF ClaimedRow, Ended
  <1>2. Requeued(row, wait).work = row.work /\ Requeued(row, wait).state = "queued"
    BY Zenon DEF ClaimedRow, Requeued
  <1>3. Deferred(row, wait).work = row.work /\ Deferred(row, wait).state = "queued"
    <2>1. Requeued(row, wait) \in FreeRow
      BY OutcomeRows
    <2> QED  BY <1>2, <2>1 DEF FreeRow, Deferred
  <1> QED  BY <1>1, <1>2, <1>3

(* A new row, and a waiting row whose priority a request raises.           *)
LEMMA NewRows ==
  ASSUME NEW w \in Work, NEW priority \in {-1, 0}
  PROVE  NewRow(w, priority) \in Row
  BY ConstantsAssumption DEF Row, FreeRow, NewRow, Timer

(* A waiting row whose priority is raised is otherwise what it was.        *)
LEMMA RaisedRows ==
  ASSUME NEW row \in Row, row.state = "queued", NEW priority \in {-1, 0}
  PROVE  /\ Raised(row, priority) \in Row
         /\ Raised(row, priority).state = "queued"
         /\ Raised(row, priority).work = row.work
  <1>1. row \in FreeRow
    BY RowStates
  <1>2. Larger(row.priority, priority) \in {-1, 0}
    BY <1>1 DEF FreeRow, Larger
  <1>3. Raised(row, priority) \in FreeRow
    BY <1>1, <1>2 DEF FreeRow, Raised
  <1>4. /\ Raised(row, priority).state = "queued"
        /\ Raised(row, priority).work = row.work
    BY <1>1 DEF FreeRow, Raised
  <1> QED  BY <1>3, <1>4 DEF Row

(* A claim starts a run.                                                   *)
LEMMA ClaimedRows ==
  ASSUME NEW row \in FreeRow, NEW w \in Worker
  PROVE  /\ CountedAttempt(row.attempts) \in 1 .. AttemptsCap
         /\ [row EXCEPT !.state = "running", !.claimed_by = w,
                        !.attempts = CountedAttempt(row.attempts), !.timer = LEASE]
              \in ClaimedRow
  <1>1. CountedAttempt(row.attempts) \in 1 .. AttemptsCap
    BY ConstantsAssumption DEF FreeRow, CountedAttempt
  <1>2. LEASE \in -1 .. LEASE
    BY ConstantsAssumption
  <1> QED  BY <1>1, <1>2, Zenon DEF FreeRow, ClaimedRow

(* The clock only moves a timer towards its end.                           *)
LEMMA ElapsedRows ==
  ASSUME NEW row \in Row, NEW least \in {-1, 0}
  PROVE  /\ [row EXCEPT !.timer = Elapsed(@, least)] \in Row
         /\ Elapsed(row.timer, least) <= row.timer
  <1>1. CASE row \in FreeRow
    <2>1. /\ Elapsed(row.timer, least) \in Timer
          /\ Elapsed(row.timer, least) <= row.timer
      BY <1>1 DEF FreeRow, Timer, Elapsed
    <2> QED  BY <1>1, <2>1 DEF Row, FreeRow
  <1>2. CASE row \in ClaimedRow
    <2>1. /\ Elapsed(row.timer, least) \in -1 .. LEASE
          /\ Elapsed(row.timer, least) <= row.timer
      BY <1>2, ConstantsAssumption DEF ClaimedRow, Elapsed
    <2> QED  BY <1>2, <2>1 DEF Row, ClaimedRow
  <1> QED  BY <1>1, <1>2 DEF Row

-----------------------------------------------------------------------------
(* What a worker is at.                                                    *)

(* All that work needs is a resource.                                      *)
LEMMA UsesResources ==
  ASSUME NEW w \in Work
  PROVE  Uses(w) \subseteq Resource
  <1>1. /\ Global("discovery") \in Resource /\ Global("audit") \in Resource
        /\ Global("npm") \in Resource /\ Global("crates.io") \in Resource
        /\ Global("osv") \in Resource
    BY DEF Global, Resource, GlobalKey
  <1>2. CASE w.kind = "discover"
    <2>1. w.project \in Project
      BY <1>2 DEF Work
    <2>2. Mirror(w.project) \in Resource
      BY <2>1 DEF Mirror, Resource
    <2> QED  BY <1>1, <1>2, <2>2 DEF Uses
  <1>3. CASE w.kind = "package-audit"
    BY <1>1, <1>3 DEF Uses
  <1>4. CASE w.kind = "package-facts"
    <2>1. w.coordinate \in Coordinate
      BY <1>4 DEF Work
    <2>2. Ecosystem[w.coordinate] \in {"Cargo", "Npm", "Nix"}
      BY <2>1, ConstantsAssumption
    <2> QED  BY <1>1, <1>4, <2>2 DEF Uses
  <1> QED  BY <1>2, <1>3, <1>4 DEF Work

(* An assignment keeps its type as its worker goes through it.             *)
LEMMA Assignments ==
  ASSUME NEW a \in Assignment
  PROVE  /\ a \in Task /\ Idle \in Task
         /\ [a EXCEPT !.pc = "auditing"] \in Task
         /\ \A r \in Resource, until \in 0 .. MaxPause :
              [a EXCEPT !.pc = "deferring", !.limit = {r}, !.until = until] \in Task
         /\ [a EXCEPT !.until = Elapsed(@, 0)] \in Task
  <1>1. [a EXCEPT !.pc = "auditing"] \in Assignment
    BY DEF Assignment
  <1>2. ASSUME NEW r \in Resource, NEW until \in 0 .. MaxPause
        PROVE  [a EXCEPT !.pc = "deferring", !.limit = {r}, !.until = until] \in Assignment
    <2>1. {r} \in SUBSET Resource
      OBVIOUS
    <2> QED  BY <2>1, Zenon DEF Assignment
  <1>3. [a EXCEPT !.until = Elapsed(@, 0)] \in Assignment
    <2>1. Elapsed(a.until, 0) \in 0 .. MaxPause
      BY ConstantsAssumption DEF Assignment, Elapsed
    <2> QED  BY <2>1 DEF Assignment
  <1> QED  BY <1>1, <1>2, <1>3 DEF Task

(* A worker that is not idle has a job.                                    *)
LEMMA WorkerAssignments ==
  ASSUME TypeOK, NEW w \in Worker, worker[w].pc # "idle"
  PROVE  worker[w] \in Assignment
  BY DEF TypeOK, Task, Idle

-----------------------------------------------------------------------------
(* Steps.  Most of them only narrow the table: no job appears or starts,   *)
(* none changes its work or comes back from the dead.                      *)

RowsTyped ==
  /\ DOMAIN jobs \subseteq 1 .. nextId - 1
  /\ \A id \in DOMAIN jobs : jobs[id] \in Row

Narrowed ==
  /\ DOMAIN jobs' \subseteq DOMAIN jobs
  /\ \A id \in DOMAIN jobs' :
       /\ jobs'[id].work = jobs[id].work
       /\ jobs'[id].state = "running" => jobs[id].state = "running"
       /\ jobs'[id].state \in Live => jobs[id].state \in Live
  /\ jobResources' \subseteq jobResources

(* The job a worker owns is running, and is the one it was given.          *)
LEMMA OwnedRow ==
  ASSUME TypeOK, NEW w \in Worker, worker[w].pc # "idle", Owns(w)
  PROVE  /\ worker[w].id \in DOMAIN jobs
         /\ MyRow(w) \in ClaimedRow
         /\ MyRow(w).state = "running"
  BY RowStates DEF TypeOK, Owns, Ids, MyRow

(* An outcome touches the row its worker owns, and no other.               *)
LEMMA RecordRows ==
  ASSUME TypeOK, NEW w \in Worker, worker[w].pc # "idle",
         NEW row, Record(w, row),
         Owns(w) => row \in Row /\ row.work = MyRow(w).work
  PROVE  /\ DOMAIN jobs' = DOMAIN jobs
         /\ \A id \in DOMAIN jobs' :
              /\ jobs'[id] \in Row
              /\ jobs'[id].work = jobs[id].work
              /\ jobs'[id] # jobs[id] =>
                   Owns(w) /\ id = worker[w].id /\ jobs'[id] = row
  <1>1. CASE Owns(w)
    <2>1. worker[w].id \in DOMAIN jobs
      BY OwnedRow, <1>1
    <2>2. jobs' = [jobs EXCEPT ![worker[w].id] = row]
      BY <1>1 DEF Record
    <2> QED  BY <1>1, <2>1, <2>2 DEF MyRow, TypeOK
  <1>2. CASE ~Owns(w)
    BY <1>2 DEF Record, TypeOK
  <1> QED  BY <1>1, <1>2

(* The row an outcome writes is one the table may hold.                    *)
LEMMA OwnedOutcomes ==
  ASSUME TypeOK, NEW w \in Worker, worker[w].pc # "idle", Owns(w), NEW wait \in Timer
  PROVE  /\ \A state \in {"done", "failed"} :
              /\ Ended(MyRow(w), state) \in Row
              /\ Ended(MyRow(w), state).work = MyRow(w).work
              /\ Ended(MyRow(w), state).state = state
         /\ /\ Requeued(MyRow(w), wait) \in Row
            /\ Requeued(MyRow(w), wait).work = MyRow(w).work
            /\ Requeued(MyRow(w), wait).state = "queued"
         /\ /\ Deferred(MyRow(w), wait) \in Row
            /\ Deferred(MyRow(w), wait).work = MyRow(w).work
            /\ Deferred(MyRow(w), wait).state = "queued"
         /\ /\ [MyRow(w) EXCEPT !.timer = LEASE] \in Row
            /\ [MyRow(w) EXCEPT !.timer = LEASE].work = MyRow(w).work
            /\ [MyRow(w) EXCEPT !.timer = LEASE].state = "running"
  <1>1. MyRow(w) \in ClaimedRow
    BY OwnedRow
  <1>2. /\ Ended(MyRow(w), "done") \in FreeRow /\ Ended(MyRow(w), "failed") \in FreeRow
        /\ Requeued(MyRow(w), wait) \in FreeRow /\ Deferred(MyRow(w), wait) \in FreeRow
        /\ [MyRow(w) EXCEPT !.timer = LEASE] \in ClaimedRow
    BY <1>1, OutcomeRows
  <1>3. \A state \in {"done", "failed"} :
          Ended(MyRow(w), state).work = MyRow(w).work /\ Ended(MyRow(w), state).state = state
    BY <1>1, OutcomeWork
  <1>4. /\ Requeued(MyRow(w), wait).work = MyRow(w).work
        /\ Requeued(MyRow(w), wait).state = "queued"
    BY <1>1, OutcomeWork
  <1>5. /\ Deferred(MyRow(w), wait).work = MyRow(w).work
        /\ Deferred(MyRow(w), wait).state = "queued"
    BY <1>1, OutcomeWork
  <1>6. /\ [MyRow(w) EXCEPT !.timer = LEASE].work = MyRow(w).work
        /\ [MyRow(w) EXCEPT !.timer = LEASE].state = "running"
    BY <1>1 DEF ClaimedRow
  <1> QED  BY <1>2, <1>3, <1>4, <1>5, <1>6 DEF Row

(* An outcome that leaves the job alive: renew, defer, fail with attempts. *)
LEMMA LiveOutcome ==
  ASSUME TypeOK, NEW w \in Worker, worker[w].pc # "idle",
         NEW row, Record(w, row), UNCHANGED <<jobResources, nextId>>,
         Owns(w) => row \in Row /\ row.work = MyRow(w).work /\ row.state \in Live
  PROVE  RowsTyped' /\ Narrowed /\ (ResourcesMatch => ResourcesMatch')
  <1>1. /\ DOMAIN jobs' = DOMAIN jobs
        /\ \A id \in DOMAIN jobs' :
             /\ jobs'[id] \in Row
             /\ jobs'[id].work = jobs[id].work
             /\ jobs'[id] # jobs[id] =>
                  Owns(w) /\ id = worker[w].id /\ jobs'[id] = row
    BY RecordRows
  <1>2. Owns(w) => jobs[worker[w].id].state = "running"
    BY OwnedRow DEF MyRow
  <1>3. \A id \in DOMAIN jobs' : jobs'[id].state \in Live <=> jobs[id].state \in Live
    BY <1>1, <1>2 DEF Live
  <1>4. \A id \in DOMAIN jobs' : jobs'[id].state = "running" => jobs[id].state = "running"
    BY <1>1, <1>2
  <1>5. RowsTyped'
    BY <1>1 DEF RowsTyped, TypeOK
  <1>6. Narrowed
    BY <1>1, <1>3, <1>4 DEF Narrowed
  <1>7. ResourcesMatch => ResourcesMatch'
    BY <1>1, <1>3 DEF ResourcesMatch
  <1> QED  BY <1>5, <1>6, <1>7

(* An outcome that ends the job frees what it held: finish and fail.       *)
LEMMA FinalOutcome ==
  ASSUME TypeOK, NEW w \in Worker, worker[w].pc # "idle",
         NEW row, Record(w, row), Release(w), UNCHANGED nextId,
         Owns(w) => row \in Row /\ row.work = MyRow(w).work /\ row.state \in {"done", "failed"}
  PROVE  RowsTyped' /\ Narrowed /\ (ResourcesMatch => ResourcesMatch')
  <1>1. /\ DOMAIN jobs' = DOMAIN jobs
        /\ \A id \in DOMAIN jobs' :
             /\ jobs'[id] \in Row
             /\ jobs'[id].work = jobs[id].work
             /\ jobs'[id] # jobs[id] =>
                  Owns(w) /\ id = worker[w].id /\ jobs'[id] = row
    BY RecordRows
  <1>2. RowsTyped'
    BY <1>1 DEF RowsTyped, TypeOK
  <1>3. jobResources' \subseteq jobResources
    BY DEF Release, Released
  <1>4. Narrowed
    BY <1>1, <1>3 DEF Narrowed, Live
  <1>5. ASSUME ResourcesMatch  PROVE ResourcesMatch'
    <2>1. CASE Owns(w)
      <3>1. worker[w].id \in DOMAIN jobs /\ jobs'[worker[w].id].state \notin Live
        <4>1. worker[w].id \in DOMAIN jobs
          BY <2>1, OwnedRow
        <4>2. jobs' = [jobs EXCEPT ![worker[w].id] = row]
          BY <2>1 DEF Record
        <4> QED  BY <2>1, <4>1, <4>2 DEF Live
      <3>2. \A id \in DOMAIN jobs' : id # worker[w].id => jobs'[id] = jobs[id]
        BY <1>1
      <3>3. jobResources' = {h \in jobResources : h[1] # worker[w].id}
        BY <2>1 DEF Release, Released
      <3>4. ASSUME NEW id \in JobId, NEW r \in Resource
            PROVE  <<id, r>> \in jobResources' <=>
                     <<id, r>> \in jobResources /\ id # worker[w].id
        BY <3>3
      <3> QED  BY <1>1, <1>5, <3>1, <3>2, <3>4 DEF ResourcesMatch
    <2>2. CASE ~Owns(w)
      BY <1>5, <2>2 DEF Record, Release, ResourcesMatch
    <2> QED  BY <2>1, <2>2
  <1> QED  BY <1>2, <1>4, <1>5

-----------------------------------------------------------------------------
(* Requests.                                                               *)

(* What a request does to the table: every row keeps its work and state, a *)
(* row that does not wait keeps all it has, and what is new waits for work *)
(* that was asked for and nothing covered, one row each.                   *)
Grown(ws) ==
  /\ DOMAIN jobs \subseteq DOMAIN jobs'
  /\ \A id \in DOMAIN jobs :
       /\ jobs'[id].work = jobs[id].work /\ jobs'[id].state = jobs[id].state
       /\ jobs[id].state # "queued" => jobs'[id] = jobs[id]
  /\ \A id \in DOMAIN jobs' \ DOMAIN jobs :
       /\ jobs'[id].state = "queued"
       /\ jobs'[id].work \in ws /\ Insertable(jobs'[id].work)
  /\ \A i, j \in DOMAIN jobs' \ DOMAIN jobs : jobs'[i].work = jobs'[j].work => i = j

(* New ids are above all there are and within the bound.                   *)
LEMMA NewIds ==
  ASSUME TypeOK, NEW c \in Nat, nextId .. nextId + c - 1 \subseteq JobId
  PROVE  /\ nextId + c \in 1 .. MaxJobs + 1
         /\ DOMAIN jobs \cup (nextId .. nextId + c - 1) \subseteq 1 .. nextId + c - 1
         /\ DOMAIN jobs \cap (nextId .. nextId + c - 1) = {}
  <1>1. nextId \in 1 .. MaxJobs + 1 /\ MaxJobs \in Nat \ {0}
    BY ConstantsAssumption DEF TypeOK
  <1>2. nextId + c \in 1 .. MaxJobs + 1
    <2>1. CASE c = 0
      BY <1>1, <2>1
    <2>2. CASE c # 0
      <3>1. nextId + c - 1 \in nextId .. nextId + c - 1
        BY <1>1, <2>2
      <3>2. nextId + c - 1 \in JobId
        BY <3>1
      <3> QED  BY <1>1, <3>2 DEF JobId
    <2> QED  BY <2>1, <2>2
  <1>3. DOMAIN jobs \subseteq 1 .. nextId - 1
    BY DEF TypeOK
  <1> QED  BY <1>1, <1>2, <1>3

(* A request keeps the types, grows the table, and lists what is held.     *)
LEMMA EnqueueStep ==
  ASSUME TypeOK, NEW ws \in SUBSET Work, NEW priority \in {-1, 0},
         EnqueueAll(ws, priority)
  PROVE  /\ RowsTyped' /\ nextId' \in 1 .. MaxJobs + 1
         /\ jobResources' \subseteq JobId \X Resource
         /\ Grown(ws)
         /\ ResourcesMatch => ResourcesMatch'
  <1> DEFINE fresh == {w \in ws : Insertable(w)}
             c == Cardinality(fresh)
             ids == nextId .. nextId + c - 1
  <1>1. c \in Nat
    <2>1. IsFiniteSet(fresh)
      BY WorkAssumption, FS_Subset
    <2> QED  BY <2>1, FS_CardinalityType
  <1>2. ids \subseteq JobId
    BY DEF EnqueueAll
  <1>3. PICK order \in Bijection(ids, fresh) :
          /\ jobs' = [id \in DOMAIN jobs \cup ids |->
                        IF id \in ids THEN NewRow(order[id], priority)
                        ELSE IF jobs[id].state = "queued" /\ jobs[id].work \in ws
                        THEN Raised(jobs[id], priority)
                        ELSE jobs[id]]
          /\ jobResources' = jobResources \cup
               {h \in ids \X Resource : h[2] \in Uses(order[h[1]])}
    BY DEF EnqueueAll
  <1>4. nextId' = nextId + c
    BY DEF EnqueueAll
  <1>5. /\ order \in [ids -> fresh]
        /\ \A i, j \in ids : order[i] = order[j] => i = j
    BY DEF Bijection, Injection, IsInjective
  <1> HIDE DEF ids, c
  <1>6. /\ nextId' \in 1 .. MaxJobs + 1
        /\ DOMAIN jobs' \subseteq 1 .. nextId' - 1
        /\ DOMAIN jobs \cap ids = {}
    <2>1. /\ nextId + c \in 1 .. MaxJobs + 1
          /\ DOMAIN jobs \cup (nextId .. nextId + c - 1) \subseteq 1 .. nextId + c - 1
          /\ DOMAIN jobs \cap (nextId .. nextId + c - 1) = {}
      BY <1>1, <1>2, NewIds DEF ids
    <2>2. DOMAIN jobs' = DOMAIN jobs \cup ids
      BY <1>3
    <2>3. nextId' \in 1 .. MaxJobs + 1
      BY <1>4, <2>1
    <2>4. DOMAIN jobs \cap ids = {}
      BY <2>1 DEF ids
    <2>5. DOMAIN jobs' \subseteq 1 .. nextId' - 1
      <3>1. nextId \in Nat
        BY ConstantsAssumption DEF TypeOK
      <3>2. nextId' - 1 = nextId + c - 1
        BY <1>1, <1>4, <3>1
      <3> QED  BY <2>1, <2>2, <3>2 DEF ids
    <2> QED  BY <2>3, <2>4, <2>5
  <1>7. \A id \in ids :
          /\ jobs'[id] = NewRow(order[id], priority)
          /\ jobs'[id] \in Row
          /\ jobs'[id].work = order[id] /\ jobs'[id].state = "queued"
          /\ order[id] \in ws /\ Insertable(order[id])
    <2> TAKE id \in ids
    <2>1. order[id] \in fresh
      BY <1>5
    <2>2. jobs'[id] = NewRow(order[id], priority)
      BY <1>3
    <2>3. NewRow(order[id], priority) \in Row
      BY <2>1, NewRows
    <2> QED  BY <2>1, <2>2, <2>3 DEF NewRow
  <1>8. \A id \in DOMAIN jobs :
          /\ jobs'[id] \in Row
          /\ jobs'[id].work = jobs[id].work /\ jobs'[id].state = jobs[id].state
          /\ jobs[id].state # "queued" => jobs'[id] = jobs[id]
    <2> TAKE id \in DOMAIN jobs
    <2>1. jobs[id] \in Row
      BY DEF TypeOK
    <2>2. jobs'[id] = IF jobs[id].state = "queued" /\ jobs[id].work \in ws
                      THEN Raised(jobs[id], priority) ELSE jobs[id]
      BY <1>3, <1>6
    <2> QED  BY <2>1, <2>2, RaisedRows
  <1>9. DOMAIN jobs' = DOMAIN jobs \cup ids
    BY <1>3
  <1>10. RowsTyped'
    BY <1>6, <1>7, <1>8, <1>9 DEF RowsTyped
  <1>11. jobResources' \subseteq JobId \X Resource
    <2>1. {h \in ids \X Resource : h[2] \in Uses(order[h[1]])} \subseteq JobId \X Resource
      BY <1>2
    <2> QED  BY <1>3, <2>1 DEF TypeOK
  <1>12. Grown(ws)
    BY <1>5, <1>7, <1>8, <1>9 DEF Grown
  <1>13. ASSUME ResourcesMatch  PROVE ResourcesMatch'
    <2> SUFFICES ASSUME NEW id \in JobId, NEW r \in Resource
                 PROVE  <<id, r>> \in jobResources' <=>
                          /\ id \in DOMAIN jobs' /\ jobs'[id].state \in Live
                          /\ r \in Uses(jobs'[id].work)
      BY DEF ResourcesMatch
    <2>1. CASE id \in ids
      <3>1. <<id, r>> \notin jobResources
        BY <1>6, <1>13, <2>1 DEF ResourcesMatch
      <3>2. <<id, r>> \in jobResources' <=> r \in Uses(order[id])
        BY <1>3, <2>1, <3>1
      <3> QED  BY <1>7, <1>9, <2>1, <3>2 DEF Live
    <2>2. CASE id \notin ids
      <3>1. <<id, r>> \in jobResources' <=> <<id, r>> \in jobResources
        BY <1>3, <2>2
      <3> QED  BY <1>8, <1>9, <1>13, <2>2, <3>1 DEF ResourcesMatch
    <2> QED  BY <2>1, <2>2
  <1> QED  BY <1>6, <1>10, <1>11, <1>12, <1>13

-----------------------------------------------------------------------------
(* One lemma per action that asks for no work and starts none: the types   *)
(* stay, the table narrows, and job_resources follows it.                  *)

Settles == TypeOK' /\ Narrowed /\ (ResourcesMatch => ResourcesMatch')

(* A worker's task is replaced by another.                                 *)
LEMMA WorkerTyped ==
  ASSUME TypeOK, NEW w \in Worker, NEW task \in Task,
         worker' = [worker EXCEPT ![w] = task]
  PROVE  worker' \in [Worker -> Task]
  BY DEF TypeOK

(* A worker becomes idle.                                                  *)
LEMMA GoesIdleTyped ==
  ASSUME TypeOK, NEW w \in Worker, GoesIdle(w)
  PROVE  worker' \in [Worker -> Task]
  BY WorkerTyped DEF GoesIdle, Task

(* Discovery prolongs its lease, or is dropped with it.                    *)
LEMMA RenewStep ==
  ASSUME TypeOK, NEW w \in Worker, Renew(w)
  PROVE  Settles
  <1>1. worker[w].pc # "idle"
    BY DEF Renew, Running
  <1>2. 0 \in Timer
    BY DEF Timer
  <1>3. RowsTyped' /\ Narrowed /\ (ResourcesMatch => ResourcesMatch')
    BY <1>1, <1>2, LiveOutcome, OwnedOutcomes DEF Renew, Live
  <1>4. worker' \in [Worker -> Task]
    BY GoesIdleTyped DEF Renew, TypeOK
  <1> QED  BY <1>3, <1>4 DEF Settles, TypeOK, RowsTyped, Renew

(* The work succeeded.                                                     *)
LEMMA FinishStep ==
  ASSUME TypeOK, NEW w \in Worker, Finish(w)
  PROVE  Settles
  <1>1. worker[w].pc # "idle"
    BY DEF Finish
  <1>2. 0 \in Timer
    BY DEF Timer
  <1>3. RowsTyped' /\ Narrowed /\ (ResourcesMatch => ResourcesMatch')
    BY <1>1, <1>2, FinalOutcome, OwnedOutcomes DEF Finish
  <1>4. worker' \in [Worker -> Task]
    <2>1. CASE worker' = [worker EXCEPT ![w] = [@ EXCEPT !.pc = "auditing"]]
      <3>1. [worker[w] EXCEPT !.pc = "auditing"] \in Task
        BY <1>1, WorkerAssignments, Assignments
      <3> QED  BY <2>1, <3>1 DEF TypeOK
    <2> QED  BY <2>1, GoesIdleTyped DEF Finish
  <1>5. jobResources' \subseteq jobResources
    BY <1>3 DEF Narrowed
  <1> QED  BY <1>3, <1>4, <1>5 DEF Settles, TypeOK, RowsTyped, Finish

(* The work failed and has attempts left.                                  *)
LEMMA RetryStep ==
  ASSUME TypeOK, NEW w \in Worker, Retry(w)
  PROVE  Settles
  <1>1. worker[w].pc # "idle"
    BY DEF Retry
  <1>2. PICK wait \in RetryWaits(w) : Record(w, Requeued(MyRow(w), wait))
    BY DEF Retry
  <1>3. wait \in Timer
    <2>1. worker[w].attempts \in Nat
      BY <1>1, WorkerAssignments DEF Assignment
    <2>2. Backoff * worker[w].attempts \in Nat /\ FailedTtl \in Nat
      BY <2>1, ConstantsAssumption
    <2> QED  BY <2>2 DEF RetryWaits, Timer
  <1>4. RowsTyped' /\ Narrowed /\ (ResourcesMatch => ResourcesMatch')
    BY <1>1, <1>2, <1>3, LiveOutcome, OwnedOutcomes DEF Retry, Live
  <1>5. worker' \in [Worker -> Task]
    BY GoesIdleTyped DEF Retry
  <1> QED  BY <1>4, <1>5 DEF Settles, TypeOK, RowsTyped, Retry

(* The work failed for good.                                               *)
LEMMA FailStep ==
  ASSUME TypeOK, NEW w \in Worker, Fail(w)
  PROVE  Settles
  <1>1. worker[w].pc # "idle"
    BY DEF Fail
  <1>2. 0 \in Timer
    BY DEF Timer
  <1>3. RowsTyped' /\ Narrowed /\ (ResourcesMatch => ResourcesMatch')
    BY <1>1, <1>2, FinalOutcome, OwnedOutcomes DEF Fail
  <1>4. worker' \in [Worker -> Task]
    BY GoesIdleTyped DEF Fail
  <1>5. jobResources' \subseteq jobResources
    BY <1>3 DEF Narrowed
  <1> QED  BY <1>3, <1>4, <1>5 DEF Settles, TypeOK, RowsTyped, Fail

(* What leaves the table alone.                                            *)
LEMMA SameTable ==
  ASSUME TypeOK, UNCHANGED <<jobs, jobResources, nextId>>
  PROVE  RowsTyped' /\ Narrowed /\ (ResourcesMatch => ResourcesMatch')
  BY DEF TypeOK, RowsTyped, Narrowed, ResourcesMatch

(* A registry asked to wait.                                               *)
LEMMA BlockStep ==
  ASSUME TypeOK, NEW w \in Worker, Block(w)
  PROVE  Settles
  <1>1. worker[w] \in Assignment
    BY WorkerAssignments DEF Block, Running
  <1>2. PICK r \in Uses(worker[w].work), until \in 0 .. MaxPause :
          /\ blocks' = [blocks EXCEPT ![r] = Extended(blocks[r], until)]
          /\ worker' = [worker EXCEPT ![w] =
               [@ EXCEPT !.pc = "deferring", !.limit = {r}, !.until = until]]
    BY DEF Block
  <1>3. r \in Resource
    BY <1>1, UsesResources DEF Assignment
  <1>4. blocks' \in [Resource -> 0 .. MaxPause]
    <2>1. blocks[r] \in 0 .. MaxPause
      BY <1>3 DEF TypeOK
    <2>2. Extended(blocks[r], until) \in 0 .. MaxPause
      BY <2>1 DEF Extended, Larger
    <2> QED  BY <1>2, <2>2 DEF TypeOK
  <1>5. worker' \in [Worker -> Task]
    <2>1. [worker[w] EXCEPT !.pc = "deferring", !.limit = {r}, !.until = until] \in Task
      BY <1>1, <1>3, Assignments
    <2> QED  BY <1>2, <2>1, WorkerTyped
  <1>6. RowsTyped' /\ Narrowed /\ (ResourcesMatch => ResourcesMatch')
    BY SameTable DEF Block
  <1> QED  BY <1>4, <1>5, <1>6 DEF Settles, TypeOK, RowsTyped, Block

(* The job is put back until the wait is over.                             *)
LEMMA DeferStep ==
  ASSUME TypeOK, NEW w \in Worker, Defer(w) \/ DeferDiscovery(w)
  PROVE  Settles
  <1>1. worker[w].pc # "idle"
    BY DEF Defer, DeferDiscovery, Running
  <1>2. PICK wait \in 0 .. MaxPause : Record(w, Deferred(MyRow(w), wait))
    <2>1. CASE Defer(w)
      <3>1. worker[w].until \in 0 .. MaxPause
        BY <1>1, WorkerAssignments DEF Assignment
      <3> QED  BY <2>1, <3>1 DEF Defer
    <2>2. CASE DeferDiscovery(w)
      BY <2>2 DEF DeferDiscovery
    <2> QED  BY <2>1, <2>2
  <1>3. wait \in Timer
    BY ConstantsAssumption DEF Timer
  <1>4. RowsTyped' /\ Narrowed /\ (ResourcesMatch => ResourcesMatch')
    BY <1>1, <1>2, <1>3, LiveOutcome, OwnedOutcomes DEF Defer, DeferDiscovery, Live
  <1>5. worker' \in [Worker -> Task]
    BY GoesIdleTyped DEF Defer, DeferDiscovery
  <1> QED  BY <1>4, <1>5 DEF Settles, TypeOK, RowsTyped, Defer, DeferDiscovery

(* The database refused an outcome.                                        *)
LEMMA AbandonStep ==
  ASSUME TypeOK, NEW w \in Worker, Abandon(w)
  PROVE  Settles
  <1>1. RowsTyped' /\ Narrowed /\ (ResourcesMatch => ResourcesMatch')
    BY SameTable DEF Abandon
  <1>2. worker' \in [Worker -> Task]
    BY GoesIdleTyped DEF Abandon
  <1> QED  BY <1>1, <1>2 DEF Settles, TypeOK, RowsTyped, Abandon

(* The schedule takes every expired claim back in one statement.           *)
LEMMA ReclaimStep ==
  ASSUME TypeOK, Reclaim
  PROVE  Settles
  <1>1. \A id \in DOMAIN jobs' :
          /\ jobs'[id] \in Row /\ jobs'[id].work = jobs[id].work
          /\ jobs'[id] # jobs[id] => jobs[id].state = "running" /\ jobs'[id].state = "queued"
    <2> TAKE id \in DOMAIN jobs'
    <2>1. id \in DOMAIN jobs
      BY DEF Reclaim
    <2>2. CASE Expired(id)
      <3>1. jobs[id] \in ClaimedRow /\ 0 \in Timer
        BY <2>1, <2>2, RowStates DEF Expired, TypeOK, Timer
      <3>2. jobs'[id] = Requeued(jobs[id], 0)
        BY <2>1, <2>2 DEF Reclaim
      <3>3. jobs'[id] \in Row /\ jobs'[id].work = jobs[id].work /\ jobs'[id].state = "queued"
        <4>1. Requeued(jobs[id], 0) \in FreeRow
          BY <3>1, OutcomeRows
        <4>2. /\ Requeued(jobs[id], 0).work = jobs[id].work
              /\ Requeued(jobs[id], 0).state = "queued"
          BY <3>1, OutcomeWork
        <4> QED  BY <3>2, <4>1, <4>2 DEF Row
      <3> QED  BY <2>2, <3>3 DEF Expired
    <2>3. CASE ~Expired(id)
      BY <2>1, <2>3 DEF Reclaim, TypeOK
    <2> QED  BY <2>2, <2>3
  <1>2. DOMAIN jobs' = DOMAIN jobs
    BY DEF Reclaim
  <1>3. RowsTyped'
    BY <1>1, <1>2 DEF RowsTyped, Reclaim, TypeOK
  <1>4. Narrowed
    BY <1>1, <1>2 DEF Narrowed, Reclaim, Live
  <1>5. \A id \in DOMAIN jobs' : jobs'[id].state \in Live <=> jobs[id].state \in Live
    BY <1>1 DEF Live
  <1>6. ResourcesMatch => ResourcesMatch'
    BY <1>1, <1>2, <1>5 DEF ResourcesMatch, Reclaim
  <1> QED  BY <1>3, <1>4, <1>6 DEF Settles, TypeOK, RowsTyped, Reclaim

(* Rows that leave the table leave job_resources with them.                *)
LEMMA KeepRows ==
  ASSUME TypeOK, NEW ids \in SUBSET DOMAIN jobs, Keep(ids), UNCHANGED nextId
  PROVE  RowsTyped' /\ Narrowed /\ (ResourcesMatch => ResourcesMatch')
  <1>1. DOMAIN jobs' = ids /\ \A id \in ids : jobs'[id] = jobs[id]
    BY DEF Keep
  <1>2. RowsTyped'
    BY <1>1 DEF RowsTyped, TypeOK
  <1>3. jobResources' \subseteq jobResources
    BY DEF Keep
  <1>4. Narrowed
    BY <1>1, <1>3 DEF Narrowed
  <1>5. ASSUME ResourcesMatch, NEW id \in JobId, NEW r \in Resource
        PROVE  <<id, r>> \in jobResources' <=> <<id, r>> \in jobResources /\ id \in ids
    BY DEF Keep
  <1>6. ResourcesMatch => ResourcesMatch'
    BY <1>1, <1>5 DEF ResourcesMatch
  <1> QED  BY <1>2, <1>4, <1>6

(* Old rows are pruned.                                                    *)
LEMMA CleanUpStep ==
  ASSUME TypeOK, CleanUp
  PROVE  Settles
  <1>1. RowsTyped' /\ Narrowed /\ (ResourcesMatch => ResourcesMatch')
    BY KeepRows DEF CleanUp
  <1>2. jobResources' \subseteq jobResources
    BY <1>1 DEF Narrowed
  <1> QED  BY <1>1, <1>2 DEF Settles, TypeOK, RowsTyped, CleanUp

(* A project goes with its jobs.                                           *)
LEMMA DeleteProjectStep ==
  ASSUME TypeOK, NEW p \in Project, DeleteProject(p)
  PROVE  Settles
  <1>1. RowsTyped' /\ Narrowed /\ (ResourcesMatch => ResourcesMatch')
    BY KeepRows DEF DeleteProject
  <1>2. jobResources' \subseteq jobResources
    BY <1>1 DEF Narrowed
  <1> QED  BY <1>1, <1>2 DEF Settles, TypeOK, RowsTyped, DeleteProject

(* The process stops: workers forget, the tables stay.                     *)
LEMMA CrashStep ==
  ASSUME TypeOK, Crash
  PROVE  Settles
  <1>1. RowsTyped' /\ Narrowed /\ (ResourcesMatch => ResourcesMatch')
    BY SameTable DEF Crash
  <1>2. worker' \in [Worker -> Task]
    BY DEF Crash, Task
  <1> QED  BY <1>1, <1>2 DEF Settles, TypeOK, RowsTyped, Crash

(* Time passes.                                                            *)
LEMMA TickStep ==
  ASSUME TypeOK, Tick
  PROVE  Settles
  <1>1. DOMAIN jobs' = DOMAIN jobs
    BY DEF Tick
  <1>2. \A id \in DOMAIN jobs' :
          /\ jobs'[id] \in Row
          /\ jobs'[id].work = jobs[id].work /\ jobs'[id].state = jobs[id].state
    <2> TAKE id \in DOMAIN jobs'
    <2> DEFINE least == IF jobs[id].state = "queued" THEN 0 ELSE -1
    <2>1. jobs'[id] = [jobs[id] EXCEPT !.timer = Elapsed(@, least)]
      BY <1>1 DEF Tick
    <2>2. jobs[id] \in Row /\ least \in {-1, 0}
      BY <1>1 DEF TypeOK
    <2> HIDE DEF least
    <2>3. jobs'[id] \in Row
      BY <2>1, <2>2, ElapsedRows
    <2>4. jobs'[id].work = jobs[id].work /\ jobs'[id].state = jobs[id].state
      BY <2>1, <2>2 DEF Row, FreeRow, ClaimedRow
    <2> QED  BY <2>3, <2>4
  <1>3. RowsTyped'
    BY <1>1, <1>2 DEF RowsTyped, Tick, TypeOK
  <1>4. Narrowed
    BY <1>1, <1>2 DEF Narrowed, Tick
  <1>5. ResourcesMatch => ResourcesMatch'
    BY <1>1, <1>2 DEF ResourcesMatch, Tick
  <1>6. blocks' \in [Resource -> 0 .. MaxPause]
    <2>1. \A n \in 0 .. MaxPause : Elapsed(n, 0) \in 0 .. MaxPause
      BY ConstantsAssumption DEF Elapsed
    <2> QED  BY <2>1 DEF Tick, TypeOK
  <1>7. worker' \in [Worker -> Task]
    <2>1. \A w \in Worker : worker'[w] \in Task
      <3> TAKE w \in Worker
      <3>1. CASE worker[w].pc = "deferring"
        <4>1. worker[w] \in Assignment
          BY <3>1, WorkerAssignments
        <4> QED  BY <3>1, <4>1, Assignments DEF Tick
      <3>2. CASE worker[w].pc # "deferring"
        BY <3>2 DEF Tick, TypeOK
      <3> QED  BY <3>1, <3>2
    <2> QED  BY <2>1 DEF Tick
  <1> QED  BY <1>3, <1>4, <1>5, <1>6, <1>7 DEF Settles, TypeOK, RowsTyped, Tick

-----------------------------------------------------------------------------
(* A claim: one job starts, and nothing it needs was full.                 *)

Started(w, id) ==
  /\ Ready(id)
  /\ DOMAIN jobs' = DOMAIN jobs
  /\ jobs'[id] \in ClaimedRow /\ jobs'[id].work = jobs[id].work
  /\ jobs'[id].claimed_by = w
  /\ \A other \in DOMAIN jobs : other # id => jobs'[other] = jobs[other]
  /\ UNCHANGED jobResources

(* A claim keeps the types and starts one ready job.                       *)
LEMMA ClaimStep ==
  ASSUME TypeOK, NEW w \in Worker, Claim(w)
  PROVE  /\ TypeOK'
         /\ ResourcesMatch => ResourcesMatch'
         /\ \E id \in DOMAIN jobs : Started(w, id)
  <1> DEFINE row(id) == jobs[id]
             count(id) == CountedAttempt(jobs[id].attempts)
             claimed(id) ==
               [jobs[id] EXCEPT !.state = "running", !.claimed_by = w,
                                !.attempts = count(id), !.timer = LEASE]
  <1>1. PICK id \in DOMAIN jobs :
          /\ Ready(id)
          /\ jobs' = [jobs EXCEPT ![id] = claimed(id)]
          /\ worker' = [worker EXCEPT ![w] =
               [pc |-> "running", id |-> id, work |-> jobs[id].work,
                attempts |-> count(id), limit |-> {}, until |-> 0]]
    BY DEF Claim
  <1>2. jobs[id] \in FreeRow
    BY <1>1, RowStates DEF Ready, TypeOK
  <1>3. count(id) \in 1 .. AttemptsCap /\ claimed(id) \in ClaimedRow
    BY <1>2, ClaimedRows
  <1>4. claimed(id).work = jobs[id].work /\ claimed(id).claimed_by = w
    BY <1>2, Zenon DEF FreeRow
  <1> HIDE DEF claimed, count
  <1>5. Started(w, id)
    BY <1>1, <1>3, <1>4 DEF Started, Claim
  <1>6. RowsTyped'
    BY <1>3, <1>5 DEF RowsTyped, TypeOK, Started, Claim, Row
  <1>7. worker' \in [Worker -> Task]
    <2>1. id \in JobId /\ jobs[id].work \in Work
      BY <1>1, <1>2, ConstantsAssumption DEF TypeOK, JobId, FreeRow
    <2>2. [pc |-> "running", id |-> id, work |-> jobs[id].work,
           attempts |-> count(id), limit |-> {}, until |-> 0] \in Task
      BY <1>3, <2>1, ConstantsAssumption DEF Task, Assignment
    <2> QED  BY <1>1, <2>2, WorkerTyped
  <1>8. TypeOK'
    BY <1>6, <1>7 DEF TypeOK, RowsTyped, Claim
  <1>9. jobs[id].state \in Live /\ jobs'[id].state \in Live
    BY <1>1, <1>5 DEF Started, Ready, ClaimedRow, Live
  <1>10. ResourcesMatch => ResourcesMatch'
    BY <1>1, <1>5, <1>9 DEF ResourcesMatch, Started
  <1> QED  BY <1>5, <1>8, <1>10

-----------------------------------------------------------------------------
(* Every step settles, starts one job, or grows the table.                 *)

Starting == \E w \in Worker, id \in DOMAIN jobs : Started(w, id)
Growing == \E ws \in SUBSET Work : Grown(ws)

(* What the callers ask for is work.                                       *)
LEMMA RequestedWork ==
  /\ \A p \in Project : Discover(p) \in Work /\ PackageAudit(p) \in Work
  /\ \A c \in Coordinate : PackageFacts(c) \in Work
  BY DEF Discover, PackageAudit, PackageFacts, Work

(* A request that leaves projects and blocks alone keeps every type.       *)
LEMMA EnqueueTyped ==
  ASSUME TypeOK, NEW ws \in SUBSET Work, NEW priority \in {-1, 0},
         EnqueueAll(ws, priority), UNCHANGED <<projects, blocks>>,
         worker' \in [Worker -> Task]
  PROVE  TypeOK' /\ Growing /\ (ResourcesMatch => ResourcesMatch')
  BY EnqueueStep DEF TypeOK, RowsTyped, Growing

(* Discoveries, snapshots and the sweep ask for work.                      *)
LEMMA RequestStep ==
  ASSUME TypeOK, Requests
  PROVE  TypeOK' /\ Growing /\ (ResourcesMatch => ResourcesMatch')
  <1>1. ASSUME NEW p \in Project, RequestDiscovery(p)
        PROVE  TypeOK' /\ Growing /\ (ResourcesMatch => ResourcesMatch')
    <2>1. {Discover(p)} \in SUBSET Work
      BY RequestedWork
    <2> QED  BY <1>1, <2>1, EnqueueTyped DEF RequestDiscovery, TypeOK
  <1>2. ASSUME NEW p \in Project, NEW cs \in SUBSET Coordinate, RequestForSnapshot(p, cs)
        PROVE  TypeOK' /\ Growing /\ (ResourcesMatch => ResourcesMatch')
    <2>1. {PackageFacts(c) : c \in cs} \cup {PackageAudit(p)} \in SUBSET Work
      BY RequestedWork
    <2> QED  BY <1>2, <2>1, EnqueueTyped DEF RequestForSnapshot, TypeOK
  <1>3. ASSUME NEW cs \in SUBSET Coordinate, Sweep(cs)
        PROVE  TypeOK' /\ Growing /\ (ResourcesMatch => ResourcesMatch')
    <2>1. {PackageFacts(c) : c \in cs} \in SUBSET Work
      BY RequestedWork
    <2> QED  BY <1>3, <2>1, EnqueueTyped DEF Sweep, TypeOK
  <1> QED  BY <1>1, <1>2, <1>3 DEF Requests

(* A fetch that ended asks for audits.                                     *)
LEMMA QueueAuditsStep ==
  ASSUME TypeOK, NEW w \in Worker, NEW ps \in SUBSET projects, QueueAudits(w, ps)
  PROVE  TypeOK' /\ Growing /\ (ResourcesMatch => ResourcesMatch')
  <1>1. {PackageAudit(p) : p \in ps} \in SUBSET Work
    BY RequestedWork DEF TypeOK
  <1>2. worker' \in [Worker -> Task]
    BY GoesIdleTyped DEF QueueAudits
  <1> QED  BY <1>1, <1>2, EnqueueTyped DEF QueueAudits

(* Every step narrows the table, starts a job or grows the table.          *)
LEMMA NextStep ==
  ASSUME TypeOK, [Next]_vars
  PROVE  /\ TypeOK' /\ (ResourcesMatch => ResourcesMatch')
         /\ Narrowed \/ Starting \/ Growing
  <1>1. CASE Requests
    BY <1>1, RequestStep
  <1>2. ASSUME NEW w \in Worker, WorkerStep(w)
        PROVE  Settles \/ /\ TypeOK' /\ (ResourcesMatch => ResourcesMatch')
                          /\ Starting \/ Growing
    BY <1>2, ClaimStep, RenewStep, FinishStep, RetryStep, FailStep, BlockStep, DeferStep,
       AbandonStep, QueueAuditsStep DEF WorkerStep, Starting
  <1>3. CASE Reclaim
    BY <1>3, ReclaimStep DEF Settles
  <1>4. CASE CleanUp
    BY <1>4, CleanUpStep DEF Settles
  <1>5. ASSUME NEW p \in Project, DeleteProject(p)
        PROVE  Settles
    BY <1>5, DeleteProjectStep
  <1>6. CASE Crash
    BY <1>6, CrashStep DEF Settles
  <1>7. CASE Tick
    BY <1>7, TickStep DEF Settles
  <1>8. CASE UNCHANGED vars
    <2>1. RowsTyped' /\ Narrowed /\ (ResourcesMatch => ResourcesMatch')
      BY <1>8, SameTable DEF vars
    <2> QED  BY <1>8, <2>1 DEF TypeOK, vars
  <1> QED  BY <1>1, <1>2, <1>3, <1>4, <1>5, <1>6, <1>7, <1>8 DEF Next, Settles

-----------------------------------------------------------------------------
(* What holds in every reachable state.                                    *)

(* Every variable keeps its type, through every handler of the queue.      *)
THEOREM TypeCorrect == Spec => []TypeOK
  <1>1. Init => TypeOK
    BY ConstantsAssumption DEF Init, TypeOK, Task
  <1>2. TypeOK /\ [Next]_vars => TypeOK'
    BY NextStep
  <1> QED  BY <1>1, <1>2, PTL DEF Spec

(* job_resources is always what the jobs that wait or run use.             *)
THEOREM ResourcesAlwaysMatch == Spec => []ResourcesMatch
  <1>1. Init => ResourcesMatch
    BY DEF Init, ResourcesMatch
  <1>2. TypeOK /\ ResourcesMatch /\ [Next]_vars => ResourcesMatch'
    BY NextStep
  <1> QED  BY <1>1, <1>2, TypeCorrect, PTL DEF Spec

-----------------------------------------------------------------------------
(* Capacities.                                                             *)

(* The table is finite.                                                    *)
LEMMA FiniteJobs ==
  ASSUME TypeOK, NEW S \in SUBSET DOMAIN jobs
  PROVE  IsFiniteSet(S) /\ Cardinality(S) \in Nat
  <1>1. nextId - 1 \in Int
    BY ConstantsAssumption DEF TypeOK
  <1>2. IsFiniteSet(1 .. nextId - 1)
    BY <1>1, FS_Interval
  <1>3. S \in SUBSET (1 .. nextId - 1)
    BY DEF TypeOK
  <1>4. IsFiniteSet(S)
    BY <1>2, <1>3, FS_Subset
  <1> QED  BY <1>4, FS_CardinalityType

(* A part of a set of jobs has no more of them.                            *)
LEMMA FewerJobs ==
  ASSUME TypeOK, NEW S \in SUBSET DOMAIN jobs, NEW T \in SUBSET S
  PROVE  Cardinality(T) <= Cardinality(S)
  BY FiniteJobs, FS_Subset

(* One job more is one more at most.                                       *)
LEMMA OneMoreJob ==
  ASSUME TypeOK, NEW S \in SUBSET DOMAIN jobs, NEW id, NEW T \in SUBSET (S \cup {id})
  PROVE  Cardinality(T) \in Nat /\ Cardinality(T) <= Cardinality(S) + 1
  <1>1. IsFiniteSet(S) /\ Cardinality(S) \in Nat
    BY FiniteJobs
  <1>2. /\ IsFiniteSet(S \cup {id})
        /\ Cardinality(S \cup {id}) \in Nat /\ Cardinality(S \cup {id}) <= Cardinality(S) + 1
    <2> DEFINE m == Cardinality(S)
               n == Cardinality(S \cup {id})
    <2>1. IsFiniteSet(S \cup {id}) /\ n = IF id \in S THEN m ELSE m + 1
      BY <1>1, FS_AddElement
    <2>2. m \in Nat
      BY <1>1
    <2> HIDE DEF m, n
    <2>3. n \in Nat /\ n <= m + 1
      BY <2>1, <2>2
    <2> QED  BY <2>1, <2>3 DEF m, n
  <1>3. IsFiniteSet(T) /\ Cardinality(T) <= Cardinality(S \cup {id})
    BY <1>2, FS_Subset
  <1>4. Cardinality(T) \in Nat
    BY <1>3, FS_CardinalityType
  <1> QED  BY <1>1, <1>2, <1>3, <1>4

(* Every resource admits somebody.                                         *)
LEMMA Capacities ==
  ASSUME NEW r \in Resource
  PROVE  Capacity(r) \in Nat \ {0}
  <1>1. CASE r.key = "mirror"
    BY <1>1 DEF Capacity
  <1>2. CASE r.key # "mirror"
    <2>1. r.key \in GlobalKey
      BY <1>2 DEF Resource
    <2> QED  BY <1>2, <2>1, ConstantsAssumption DEF Capacity
  <1> QED  BY <1>1, <1>2

(* What holds a resource, said by the rows alone.                          *)
LEMMA HoldersAreUsers ==
  ASSUME TypeOK, ResourcesMatch, NEW r \in Resource
  PROVE  Holders(r) = {id \in DOMAIN jobs :
                         jobs[id].state = "running" /\ r \in Uses(jobs[id].work)}
  <1>1. DOMAIN jobs \subseteq JobId
    BY ConstantsAssumption DEF TypeOK, JobId
  <1> QED  BY <1>1 DEF Holders, Ids, ResourcesMatch, Live

(* However claims, lost leases, retries and deletions interleave, the      *)
(* running jobs that use a resource are never more than it admits (claim). *)
THEOREM CapacityAlwaysRespected == Spec => []CapacityRespected
  <1>1. Init => CapacityRespected
    <2> SUFFICES ASSUME Init, NEW r \in Resource
                 PROVE  Cardinality(Holders(r)) <= Capacity(r)
      BY DEF CapacityRespected
    <2>1. Holders(r) = {}
      BY DEF Init, Holders, Ids
    <2> QED  BY <2>1, FS_EmptySet, Capacities
  <1>2. TypeOK /\ ResourcesMatch /\ CapacityRespected /\ [Next]_vars => CapacityRespected'
    <2> SUFFICES ASSUME TypeOK, ResourcesMatch, CapacityRespected, [Next]_vars,
                        NEW r \in Resource
                 PROVE  Cardinality(Holders(r)') <= Capacity(r)
      BY DEF CapacityRespected
    <2>1. TypeOK' /\ ResourcesMatch'
      BY NextStep
    <2>2. Holders(r) \in SUBSET DOMAIN jobs
      BY DEF Holders, Ids
    <2>3. Cardinality(Holders(r)) \in Nat /\ Capacity(r) \in Nat
      BY <2>2, FiniteJobs, Capacities
    <2>4. Cardinality(Holders(r)) <= Capacity(r)
      BY DEF CapacityRespected
    <2>5. Holders(r) = {id \in DOMAIN jobs :
                          jobs[id].state = "running" /\ r \in Uses(jobs[id].work)}
      BY HoldersAreUsers
    <2>6. Holders(r)' = {id \in DOMAIN jobs' :
                           jobs'[id].state = "running" /\ r \in Uses(jobs'[id].work)}
      <3>1. DOMAIN jobs' \subseteq JobId
        BY <2>1, ConstantsAssumption DEF TypeOK, JobId
      <3> QED  BY <2>1, <3>1 DEF Holders, Ids, ResourcesMatch, Live
    <2>7. CASE Holders(r)' \subseteq Holders(r)
      <3>1. Cardinality(Holders(r)') <= Cardinality(Holders(r)) /\ Cardinality(Holders(r)') \in Nat
        BY <2>2, <2>7, FewerJobs, FiniteJobs
      <3> QED  BY <2>3, <2>4, <3>1
    <2>8. CASE Narrowed
      BY <2>5, <2>6, <2>7, <2>8 DEF Narrowed
    <2>9. CASE Growing
      BY <2>5, <2>6, <2>7, <2>9 DEF Growing, Grown
    <2>10. ASSUME NEW w \in Worker, NEW id \in DOMAIN jobs, Started(w, id)
           PROVE  Cardinality(Holders(r)') <= Capacity(r)
      <3>1. CASE r \in Uses(jobs[id].work)
        <4>1. id \in JobId /\ jobs[id].state \in Live
          BY <2>10, ConstantsAssumption DEF Started, Ready, TypeOK, JobId, Live
        <4>2. ~Busy(r)
          BY <2>10, <3>1, <4>1 DEF Started, Ready, ResourcesMatch
        <4>3. Cardinality(Holders(r)) + 1 <= Capacity(r)
          BY <2>3, <4>2 DEF Busy
        <4>4. Holders(r)' \subseteq Holders(r) \cup {id}
          BY <2>5, <2>6, <2>10 DEF Started
        <4>5. Cardinality(Holders(r)') \in Nat /\ Cardinality(Holders(r)') <= Cardinality(Holders(r)) + 1
          BY <2>2, <4>4, OneMoreJob
        <4> QED  BY <2>3, <4>3, <4>5
      <3>2. CASE r \notin Uses(jobs[id].work)
        BY <2>5, <2>6, <2>7, <2>10, <3>2 DEF Started
      <3> QED  BY <3>1, <3>2
    <2> QED  BY <2>8, <2>9, <2>10, NextStep DEF Starting
  <1> QED  BY <1>1, <1>2, TypeCorrect, ResourcesAlwaysMatch, PTL DEF Spec

(* A request never gives covered work a second job, and an audit waits at  *)
(* most once beside its runs, also after lost claims came back (insert).   *)
THEOREM AlwaysOneJobPerWork == Spec => []OneJobPerWork
  <1>1. Init => OneJobPerWork
    <2> SUFFICES ASSUME Init, NEW w \in Work
                 PROVE  Cardinality(LiveJobs(w)) <=
                          IF w.kind = "package-audit" THEN Room["audit"] + 1 ELSE 1
      BY DEF OneJobPerWork
    <2>1. LiveJobs(w) = {}
      BY DEF Init, LiveJobs
    <2>2. Room["audit"] \in Nat
      BY ConstantsAssumption DEF GlobalKey
    <2> QED  BY <2>1, <2>2, FS_EmptySet
  <1>2. /\ TypeOK /\ ResourcesMatch /\ CapacityRespected /\ OneJobPerWork
        /\ [Next]_vars
        => OneJobPerWork'
    <2> SUFFICES ASSUME TypeOK, ResourcesMatch, CapacityRespected, OneJobPerWork,
                        [Next]_vars, NEW w \in Work
                 PROVE  Cardinality(LiveJobs(w)') <=
                          IF w.kind = "package-audit" THEN Room["audit"] + 1 ELSE 1
      BY DEF OneJobPerWork
    <2> DEFINE most == IF w.kind = "package-audit" THEN Room["audit"] + 1 ELSE 1
    <2>1. Room["audit"] \in Nat /\ most \in Nat
      BY ConstantsAssumption DEF GlobalKey
    <2>2. LiveJobs(w) \in SUBSET DOMAIN jobs /\ Cardinality(LiveJobs(w)) <= most
      BY DEF LiveJobs, OneJobPerWork
    <2>3. CASE LiveJobs(w)' \subseteq LiveJobs(w)
      <3>1. /\ Cardinality(LiveJobs(w)') <= Cardinality(LiveJobs(w))
            /\ Cardinality(LiveJobs(w)') \in Nat /\ Cardinality(LiveJobs(w)) \in Nat
        BY <2>2, <2>3, FewerJobs, FiniteJobs
      <3> QED  BY <2>1, <2>2, <3>1
    <2>4. CASE Narrowed
      BY <2>3, <2>4 DEF Narrowed, LiveJobs
    <2>5. CASE Starting
      <3>1. PICK v \in Worker, id \in DOMAIN jobs : Started(v, id)
        BY <2>5 DEF Starting
      <3>2. jobs[id].state \in Live
        BY <3>1 DEF Started, Ready, Live
      <3>3. LiveJobs(w)' \subseteq LiveJobs(w)
        BY <3>1, <3>2 DEF Started, LiveJobs
      <3> QED  BY <2>3, <3>3
    <2>6. ASSUME NEW ws \in SUBSET Work, Grown(ws)
          PROVE  Cardinality(LiveJobs(w)') <= most
      <3> DEFINE new == {id \in DOMAIN jobs' \ DOMAIN jobs : jobs'[id].work = w}
      <3>1. LiveJobs(w)' \subseteq LiveJobs(w) \cup new
        BY <2>6 DEF Grown, LiveJobs
      <3>2. CASE new = {}
        BY <2>3, <3>1, <3>2
      <3>3. ASSUME NEW id \in new  PROVE Cardinality(LiveJobs(w)') <= most
        <4>1. LiveJobs(w)' \subseteq LiveJobs(w) \cup {id}
          BY <2>6, <3>1 DEF Grown
        <4>2. Insertable(w)
          BY <2>6 DEF Grown
        <4>3. /\ Cardinality(LiveJobs(w)') \in Nat /\ Cardinality(LiveJobs(w)) \in Nat
              /\ Cardinality(LiveJobs(w)') <= Cardinality(LiveJobs(w)) + 1
          BY <2>2, <4>1, OneMoreJob, FiniteJobs
        <4>4. CASE w.kind # "package-audit"
          <5>1. LiveJobs(w) = {}
            BY <4>2, <4>4 DEF Insertable, Covering, CoveredWhileRunning, LiveJobs
          <5> QED  BY <4>3, <4>4, <5>1, FS_EmptySet
        <4>5. CASE w.kind = "package-audit"
          <5>1. Global("audit") \in Resource /\ Global("audit") \in Uses(w)
            BY <4>5 DEF Global, Resource, GlobalKey, Uses
          <5>2. LiveJobs(w) \subseteq Holders(Global("audit"))
            BY <4>2, <4>5, <5>1, HoldersAreUsers
               DEF Insertable, Covering, CoveredWhileRunning, LiveJobs, Live
          <5>3. Holders(Global("audit")) \in SUBSET DOMAIN jobs
            BY DEF Holders, Ids
          <5>4. Cardinality(LiveJobs(w)) <= Cardinality(Holders(Global("audit")))
            BY <5>2, <5>3, FewerJobs
          <5>5. Cardinality(Holders(Global("audit"))) <= Room["audit"]
            BY <5>1 DEF CapacityRespected, Capacity, Global
          <5>6. Cardinality(Holders(Global("audit"))) \in Nat
            BY <5>3, FiniteJobs
          <5> QED  BY <2>1, <4>3, <4>5, <5>4, <5>5, <5>6
        <4> QED  BY <4>4, <4>5
      <3> QED  BY <3>2, <3>3
    <2> QED  BY <2>4, <2>5, <2>6, NextStep DEF Growing
  <1> QED  BY <1>1, <1>2, TypeCorrect, ResourcesAlwaysMatch, CapacityAlwaysRespected, PTL DEF Spec

-----------------------------------------------------------------------------
(* Leases.                                                                 *)

Honoured ==
  \A id \in DOMAIN jobs \cap DOMAIN jobs' :
    Disturbed(id) => \E w \in Worker : AtRun(w, id) /\ Acts(w)

(* Rows that stay as they are disturb no lease.                            *)
LEMMA SameRowsHonoured ==
  ASSUME TypeOK,
         \A id \in DOMAIN jobs \cap DOMAIN jobs' :
           jobs[id].state = "running" => jobs'[id] = jobs[id]
  PROVE  Honoured
  <1> SUFFICES ASSUME NEW id \in DOMAIN jobs \cap DOMAIN jobs', jobs[id].state = "running"
               PROVE  ~Disturbed(id)
    BY DEF Honoured, Disturbed
  <1>1. jobs[id] \in ClaimedRow
    BY RowStates DEF TypeOK
  <1>2. jobs[id].timer \in Int
    BY <1>1, ConstantsAssumption DEF ClaimedRow
  <1> QED  BY <1>2 DEF Disturbed

(* A worker that records an outcome of its own run and moves on.           *)
LEMMA RecordHonoured ==
  ASSUME TypeOK, NEW w \in Worker, worker[w].pc # "idle",
         NEW row, Record(w, row), Acts(w)
  PROVE  Honoured
  <1>1. CASE Owns(w)
    <2>1. jobs' = [jobs EXCEPT ![worker[w].id] = row]
      BY <1>1 DEF Record
    <2>2. AtRun(w, worker[w].id)
      BY <1>1 DEF Owns, AtRun
    <2>3. ASSUME NEW id \in DOMAIN jobs, id # worker[w].id
          PROVE  ~Disturbed(id)
      <3>1. jobs'[id] = jobs[id]
        BY <2>1, <2>3
      <3>2. jobs[id].state = "running" => jobs[id] \in ClaimedRow
        BY RowStates DEF TypeOK
      <3>3. jobs[id].state = "running" => jobs[id].timer \in Int
        BY <3>2, ConstantsAssumption DEF ClaimedRow
      <3> QED  BY <3>1, <3>3 DEF Disturbed
    <2> QED  BY <2>2, <2>3 DEF Honoured
  <1>2. CASE ~Owns(w)
    <2>1. jobs' = jobs
      BY <1>2 DEF Record
    <2> QED  BY <2>1, SameRowsHonoured
  <1> QED  BY <1>1, <1>2

(* A worker that leaves its run has moved on.                              *)
LEMMA GoesIdleActs ==
  ASSUME TypeOK, NEW w \in Worker, worker[w].pc # "idle", GoesIdle(w)
  PROVE  Acts(w)
  <1>1. worker'[w] = Idle
    BY DEF GoesIdle, TypeOK
  <1>2. worker[w] # Idle
    BY DEF Idle
  <1> QED  BY <1>1, <1>2 DEF Acts

(* A worker disturbs no run but its own.                                   *)
LEMMA WorkerStepHonoured ==
  ASSUME TypeOK, NEW w \in Worker, WorkerStep(w)
  PROVE  Honoured
  <1>1. CASE Claim(w)
    <2>1. PICK id \in DOMAIN jobs : Started(w, id)
      BY <1>1, ClaimStep
    <2>2. jobs[id].state # "running"
      BY <2>1 DEF Started, Ready
    <2> QED  BY <2>1, <2>2, SameRowsHonoured DEF Started
  <1>2. CASE Renew(w)
    BY <1>2, RecordHonoured DEF Renew, Running, Acts
  <1>3. CASE Finish(w)
    <2>1. CASE worker' = [worker EXCEPT ![w] = [@ EXCEPT !.pc = "auditing"]]
      <3>1. worker[w] \in Assignment
        BY <1>3, WorkerAssignments DEF Finish
      <3>2. worker'[w].pc = "auditing"
        BY <2>1, <3>1 DEF TypeOK, Assignment
      <3>3. Acts(w)
        BY <1>3, <3>2 DEF Finish, Acts
      <3> QED  BY <1>3, <3>3, RecordHonoured DEF Finish
    <2>2. CASE GoesIdle(w)
      BY <1>3, <2>2, GoesIdleActs, RecordHonoured DEF Finish
    <2> QED  BY <1>3, <2>1, <2>2 DEF Finish
  <1>4. CASE Retry(w)
    BY <1>4, GoesIdleActs, RecordHonoured DEF Retry
  <1>5. CASE Fail(w)
    BY <1>5, GoesIdleActs, RecordHonoured DEF Fail
  <1>6. CASE Block(w) \/ Abandon(w)
    BY <1>6, SameRowsHonoured DEF Block, Abandon
  <1>7. CASE Defer(w)
    BY <1>7, GoesIdleActs, RecordHonoured DEF Defer
  <1>8. CASE DeferDiscovery(w)
    BY <1>8, GoesIdleActs, RecordHonoured DEF DeferDiscovery, Running
  <1>9. ASSUME NEW ps \in SUBSET projects, QueueAudits(w, ps)
        PROVE  Honoured
    BY <1>9, QueueAuditsStep, SameRowsHonoured DEF Growing, Grown
  <1> QED  BY <1>1, <1>2, <1>3, <1>4, <1>5, <1>6, <1>7, <1>8, <1>9 DEF WorkerStep

(* No step disturbs a run whose lease lasts but its worker's.              *)
LEMMA StepHonoured ==
  ASSUME TypeOK, [Next]_vars
  PROVE  Honoured
  <1>1. CASE Requests
    BY <1>1, RequestStep, SameRowsHonoured DEF Growing, Grown
  <1>2. ASSUME NEW w \in Worker, WorkerStep(w)  PROVE Honoured
    BY <1>2, WorkerStepHonoured
  <1>3. CASE Reclaim
    <2> SUFFICES ASSUME NEW id \in DOMAIN jobs \cap DOMAIN jobs'
                 PROVE  ~Disturbed(id)
      BY DEF Honoured
    <2>1. CASE Expired(id)
      <3>1. jobs[id] \in ClaimedRow
        BY <2>1, RowStates DEF Expired, TypeOK
      <3>2. jobs[id].timer \in Int
        BY <3>1, ConstantsAssumption DEF ClaimedRow
      <3> QED  BY <2>1, <3>2 DEF Expired, Disturbed
    <2>2. CASE ~Expired(id)
      <3>1. jobs'[id] = jobs[id]
        BY <1>3, <2>2 DEF Reclaim
      <3>2. jobs[id].state = "running" => jobs[id] \in ClaimedRow
        BY RowStates DEF TypeOK
      <3>3. jobs[id].state = "running" => jobs[id].timer \in Int
        BY <3>2, ConstantsAssumption DEF ClaimedRow
      <3> QED  BY <3>1, <3>3 DEF Disturbed
    <2> QED  BY <2>1, <2>2
  <1>4. ASSUME NEW ids, Keep(ids)  PROVE Honoured
    BY <1>4, SameRowsHonoured DEF Keep
  <1>5. CASE CleanUp \/ \E p \in Project : DeleteProject(p)
    BY <1>4, <1>5 DEF CleanUp, DeleteProject
  <1>6. CASE Crash \/ UNCHANGED vars
    BY <1>6, SameRowsHonoured DEF Crash, vars
  <1>7. CASE Tick
    <2> SUFFICES ASSUME NEW id \in DOMAIN jobs, jobs[id].state = "running"
                 PROVE  ~Disturbed(id)
      BY DEF Honoured, Disturbed
    <2>1. jobs[id] \in ClaimedRow /\ jobs[id] \in Row
      BY RowStates DEF TypeOK
    <2>2. jobs[id].timer \in Int
      BY <2>1, ConstantsAssumption DEF ClaimedRow
    <2>3. jobs'[id] = [jobs[id] EXCEPT !.timer = Elapsed(@, -1)]
      BY <1>7 DEF Tick
    <2>4. /\ jobs'[id].state = jobs[id].state /\ jobs'[id].claimed_by = jobs[id].claimed_by
          /\ jobs'[id].timer = Elapsed(jobs[id].timer, -1)
      BY <2>1, <2>3 DEF ClaimedRow
    <2>5. Elapsed(jobs[id].timer, -1) <= jobs[id].timer /\ Elapsed(jobs[id].timer, -1) \in Int
      BY <2>2 DEF Elapsed
    <2> QED  BY <2>2, <2>4, <2>5 DEF Disturbed
  <1> QED  BY <1>1, <1>2, <1>3, <1>5, <1>6, <1>7 DEF Next

(* While a lease lasts, only the worker at that very run ends, puts back   *)
(* or prolongs it (renew, finish, fail, defer, reclaim_expired_leases).    *)
THEOREM LeaseAlwaysHonoured == Spec => LeaseHonoured
  <1>1. TypeOK /\ [Next]_vars => [Honoured]_vars
    BY StepHonoured
  <1> QED  BY <1>1, TypeCorrect, PTL DEF Spec, LeaseHonoured, Honoured

-----------------------------------------------------------------------------
(* Rate limits.  The block a worker wrote outlasts what it waits for.      *)

BlocksOutlast ==
  \A w \in Worker :
    worker[w].pc = "deferring" => \A r \in worker[w].limit : blocks[r] >= worker[w].until

(* A step that blocks no less and puts no other worker to waiting.         *)
LEMMA OutlastKept ==
  ASSUME TypeOK, BlocksOutlast, UNCHANGED blocks,
         NEW w \in Worker, NEW task, task.pc # "deferring",
         worker' = [worker EXCEPT ![w] = task]
  PROVE  BlocksOutlast'
  <1>1. \A v \in Worker : worker'[v] = IF v = w THEN task ELSE worker[v]
    BY DEF TypeOK
  <1> QED  BY <1>1 DEF BlocksOutlast

(* A worker that goes idle waits for nothing.                              *)
LEMMA IdleOutlast ==
  ASSUME TypeOK, BlocksOutlast, UNCHANGED blocks, NEW w \in Worker, GoesIdle(w)
  PROVE  BlocksOutlast'
  BY OutlastKept DEF GoesIdle, Idle

(* A block is extended to what its recorder was told.                      *)
LEMMA BlockOutlast ==
  ASSUME TypeOK, BlocksOutlast, NEW w \in Worker, Block(w)
  PROVE  BlocksOutlast'
  <1>1. worker[w] \in Assignment
    BY WorkerAssignments DEF Block, Running
  <1>2. PICK r \in Uses(worker[w].work), until \in 0 .. MaxPause :
          /\ blocks' = [blocks EXCEPT ![r] = Extended(blocks[r], until)]
          /\ worker' = [worker EXCEPT ![w] =
               [@ EXCEPT !.pc = "deferring", !.limit = {r}, !.until = until]]
    BY DEF Block
  <1>3. r \in Resource
    BY <1>1, UsesResources DEF Assignment
  <1>4. \A q \in Resource : blocks[q] \in Int
    BY ConstantsAssumption DEF TypeOK
  <1>5. blocks'[r] >= until /\ \A q \in Resource : blocks'[q] >= blocks[q]
    BY <1>2, <1>3, <1>4, ConstantsAssumption DEF TypeOK, Extended, Larger
  <1>6. worker'[w].limit = {r} /\ worker'[w].until = until
    <2>1. worker'[w] = [worker[w] EXCEPT !.pc = "deferring", !.limit = {r}, !.until = until]
      BY <1>2 DEF TypeOK
    <2> QED  BY <1>1, <2>1, Zenon DEF Assignment
  <1>7. ASSUME NEW v \in Worker, worker'[v].pc = "deferring", NEW q \in worker'[v].limit
        PROVE  blocks'[q] >= worker'[v].until
    <2>1. CASE v = w
      BY <1>5, <1>6, <1>7, <2>1
    <2>2. CASE v # w
      <3>1. worker'[v] = worker[v]
        BY <1>2, <2>2 DEF TypeOK
      <3>2. worker[v] \in Assignment
        BY <1>7, <3>1, WorkerAssignments
      <3>3. q \in Resource /\ worker[v].until \in Int
        BY <1>7, <3>1, <3>2, ConstantsAssumption DEF Assignment
      <3>4. blocks[q] >= worker[v].until
        BY <1>7, <3>1 DEF BlocksOutlast
      <3>5. blocks'[q] \in Int
        BY BlockStep, <3>3, ConstantsAssumption DEF Settles, TypeOK
      <3> QED  BY <1>4, <1>5, <3>1, <3>3, <3>4, <3>5
    <2> QED  BY <2>1, <2>2
  <1> QED  BY <1>7 DEF BlocksOutlast

(* Time passes for a block and for the wait alike.                         *)
LEMMA TickOutlast ==
  ASSUME TypeOK, BlocksOutlast, Tick
  PROVE  BlocksOutlast'
  <1> SUFFICES ASSUME NEW w \in Worker, worker'[w].pc = "deferring", NEW r \in worker'[w].limit
               PROVE  blocks'[r] >= worker'[w].until
    BY DEF BlocksOutlast
  <1>1. worker[w].pc = "deferring"
    BY DEF Tick
  <1>2. worker[w] \in Assignment
    BY <1>1, WorkerAssignments
  <1>3. worker'[w] = [worker[w] EXCEPT !.until = Elapsed(@, 0)]
    BY <1>1 DEF Tick
  <1>4. worker'[w].limit = worker[w].limit /\ worker'[w].until = Elapsed(worker[w].until, 0)
    BY <1>2, <1>3 DEF Assignment
  <1>5. r \in Resource /\ worker[w].until \in Nat
    BY <1>2, <1>4, ConstantsAssumption DEF Assignment
  <1>6. blocks[r] \in Nat /\ blocks[r] >= worker[w].until
    BY <1>1, <1>4, <1>5, ConstantsAssumption DEF BlocksOutlast, TypeOK
  <1>7. blocks'[r] = Elapsed(blocks[r], 0)
    BY <1>5 DEF Tick
  <1> QED  BY <1>4, <1>5, <1>6, <1>7 DEF Elapsed

(* A block always outlasts the waits recorded with it.                     *)
LEMMA StepOutlast ==
  ASSUME TypeOK, BlocksOutlast, [Next]_vars
  PROVE  BlocksOutlast'
  <1>1. CASE UNCHANGED <<blocks, worker>>
    BY <1>1 DEF BlocksOutlast
  <1>2. CASE Requests
    BY <1>1, <1>2 DEF Requests, RequestDiscovery, RequestForSnapshot, Sweep
  <1>3. ASSUME NEW w \in Worker, WorkerStep(w)  PROVE BlocksOutlast'
    <2>1. CASE Claim(w)
      <3>1. PICK id \in DOMAIN jobs :
              worker' = [worker EXCEPT ![w] =
                [pc |-> "running", id |-> id, work |-> jobs[id].work,
                 attempts |-> CountedAttempt(jobs[id].attempts), limit |-> {}, until |-> 0]]
        BY <2>1 DEF Claim
      <3> QED  BY <2>1, <3>1, OutlastKept DEF Claim
    <2>2. CASE Finish(w)
      <3>1. CASE worker' = [worker EXCEPT ![w] = [@ EXCEPT !.pc = "auditing"]]
        <4>1. worker[w] \in Assignment
          BY <2>2, WorkerAssignments DEF Finish
        <4>2. [worker[w] EXCEPT !.pc = "auditing"].pc = "auditing"
          BY <4>1 DEF Assignment
        <4> QED  BY <2>2, <3>1, <4>2, OutlastKept DEF Finish
      <3> QED  BY <2>2, <3>1, IdleOutlast DEF Finish
    <2>3. CASE Block(w)
      BY <2>3, BlockOutlast
    <2>4. CASE Renew(w)
      BY <2>4, <1>1, IdleOutlast DEF Renew
    <2>5. CASE GoesIdle(w) /\ UNCHANGED blocks
      BY <2>5, IdleOutlast
    <2> QED  BY <1>3, <2>1, <2>2, <2>3, <2>4, <2>5
             DEF WorkerStep, Retry, Fail, Defer, DeferDiscovery, Abandon, QueueAudits
  <1>4. CASE Reclaim \/ CleanUp \/ \E p \in Project : DeleteProject(p)
    BY <1>1, <1>4 DEF Reclaim, CleanUp, DeleteProject
  <1>5. CASE Crash
    BY <1>5 DEF Crash, BlocksOutlast, Idle
  <1>6. CASE Tick
    BY <1>6, TickOutlast
  <1>7. CASE UNCHANGED vars
    BY <1>1, <1>7 DEF vars
  <1> QED  BY <1>2, <1>3, <1>4, <1>5, <1>6, <1>7 DEF Next

Waits ==
  \A id \in JobId, w \in Worker :
    /\ Starts(id)
    /\ worker[w].pc = "deferring" /\ worker[w].until > 0
    => Uses(jobs[id].work) \cap worker[w].limit = {}

(* No step starts a job that needs what somebody waits for.                *)
LEMMA StepWaits ==
  ASSUME TypeOK, ResourcesMatch, BlocksOutlast, [Next]_vars
  PROVE  Waits
  <1> SUFFICES ASSUME NEW id \in JobId, NEW w \in Worker, Starts(id),
                      worker[w].pc = "deferring", worker[w].until > 0,
                      NEW r \in Uses(jobs[id].work) \cap worker[w].limit
               PROVE  FALSE
    BY DEF Waits
  <1>1. worker[w] \in Assignment
    BY WorkerAssignments
  <1>2. r \in Resource /\ worker[w].until \in Nat
    BY <1>1, ConstantsAssumption DEF Assignment
  <1>3. blocks[r] \in Nat /\ blocks[r] >= worker[w].until
    BY <1>2, ConstantsAssumption DEF BlocksOutlast, TypeOK
  <1>4. Blocked(r)
    BY <1>2, <1>3 DEF Blocked
  <1>5. <<id, r>> \in jobResources
    BY <1>2 DEF Starts, ResourcesMatch, Live
  <1>6. ~Ready(id)
    BY <1>2, <1>4, <1>5 DEF Ready
  <1>7. CASE Narrowed
    BY <1>7 DEF Narrowed, Starts
  <1>8. CASE Growing
    BY <1>8 DEF Growing, Grown, Starts
  <1>9. CASE Starting
    <2>1. PICK v \in Worker, other \in DOMAIN jobs : Started(v, other)
      BY <1>9 DEF Starting
    <2>2. other # id
      BY <1>6, <2>1 DEF Started
    <2> QED  BY <2>1, <2>2 DEF Started, Starts
  <1> QED  BY <1>7, <1>8, <1>9, NextStep

(* Once a rate limit is recorded, no job that needs the resource starts    *)
(* before it ends, however many workers hear of it (Resource::block).      *)
THEOREM LimitsAlwaysRespected == Spec => LimitsRespected
  <1>1. Init => BlocksOutlast
    BY DEF Init, BlocksOutlast, Idle
  <1>2. TypeOK /\ BlocksOutlast /\ [Next]_vars => BlocksOutlast'
    BY StepOutlast
  <1>3. TypeOK /\ ResourcesMatch /\ BlocksOutlast /\ [Next]_vars => [Waits]_vars
    BY StepWaits
  <1> QED  BY <1>1, <1>2, <1>3, TypeCorrect, ResourcesAlwaysMatch, PTL
           DEF Spec, LimitsRespected, Waits

-----------------------------------------------------------------------------
(* The queue implements WorkList.  First, what waits and what runs, said   *)
(* by the rows.                                                            *)

Covered(w) == w.kind # "package-audit"

(* Covered work has one live row at most.                                  *)
OneLiveRow ==
  \A i, j \in DOMAIN jobs :
    /\ jobs[i].state \in Live /\ jobs[j].state \in Live
    /\ jobs[i].work = jobs[j].work /\ Covered(jobs[i].work)
    => i = j

(* One job at most for covered work is one live row.                       *)
LEMMA CoveredOnce ==
  ASSUME TypeOK, OneJobPerWork
  PROVE  OneLiveRow
  <1> SUFFICES ASSUME NEW i \in DOMAIN jobs, NEW j \in DOMAIN jobs,
                      jobs[i].state \in Live, jobs[j].state \in Live,
                      jobs[i].work = jobs[j].work, Covered(jobs[i].work), i # j
               PROVE  FALSE
    BY DEF OneLiveRow
  <1> DEFINE w == jobs[i].work
  <1>1. w \in Work
    BY RowStates DEF TypeOK
  <1>2. LiveJobs(w) \in SUBSET DOMAIN jobs /\ {i, j} \in SUBSET LiveJobs(w)
    BY DEF LiveJobs
  <1>3. Cardinality(LiveJobs(w)) <= 1
    BY <1>1 DEF OneJobPerWork, Covered
  <1>4. Cardinality({i, j}) <= Cardinality(LiveJobs(w))
    BY <1>2, FewerJobs
  <1>5. Cardinality({i, j}) = 2
    <2>1. IsFiniteSet({i}) /\ Cardinality({i}) = 1
      BY FS_Singleton
    <2>2. {i, j} = {i} \cup {j} /\ j \notin {i}
      OBVIOUS
    <2> QED  BY <2>1, <2>2, FS_AddElement
  <1>6. Cardinality(LiveJobs(w)) \in Nat
    BY <1>2, FiniteJobs
  <1> QED  BY <1>3, <1>4, <1>5, <1>6

(* The priority a work waits with, in this state and in the next.          *)
LEMMA WaitingIs ==
  ASSUME NEW w \in Work
  PROVE  /\ Waiting[w] = IF QueuedAt(w, 0) THEN 0 ELSE IF QueuedAt(w, -1) THEN -1 ELSE -2
         /\ Waiting'[w] = IF QueuedAt(w, 0)' THEN 0 ELSE IF QueuedAt(w, -1)' THEN -1 ELSE -2
  BY DEF Waiting

(* What waits has a priority, what does not has none.                      *)
LEMMA WaitingTable ==
  /\ Waiting \in [Work -> {-2, -1, 0}]
  /\ Waiting' \in [Work -> {-2, -1, 0}]
  BY DEF Waiting

(* A queued row keeps its work waiting; nothing else does.                 *)
LEMMA WaitsQueued ==
  ASSUME \A id \in DOMAIN jobs : jobs[id] \in Row, NEW w \in Work
  PROVE  Waiting[w] # -2 <=> \E id \in DOMAIN jobs : jobs[id].state = "queued" /\ jobs[id].work = w
  <1>1. \A id \in DOMAIN jobs : jobs[id].priority \in {-1, 0}
    BY DEF Row, FreeRow, ClaimedRow
  <1> QED  BY <1>1, WaitingIs DEF QueuedAt, Ids

(* The same of the next state.                                             *)
LEMMA WaitsQueuedNext ==
  ASSUME \A id \in DOMAIN jobs' : jobs'[id] \in Row, NEW w \in Work
  PROVE  Waiting'[w] # -2 <=> \E id \in DOMAIN jobs' : jobs'[id].state = "queued" /\ jobs'[id].work = w
  <1>1. \A id \in DOMAIN jobs' : jobs'[id].priority \in {-1, 0}
    BY DEF Row, FreeRow, ClaimedRow
  <1> QED  BY <1>1, WaitingIs DEF QueuedAt, Ids

(* Two tables with the same queued rows have the same work waiting.        *)
LEMMA SameWaiting ==
  ASSUME \A w \in Work, n \in {-1, 0} : QueuedAt(w, n)' <=> QueuedAt(w, n)
  PROVE  Waiting' = Waiting
  BY DEF Waiting

(* A step that changes neither the live rows nor their order is none of    *)
(* the list's.                                                             *)
LEMMA SameList ==
  ASSUME DOMAIN jobs' \subseteq DOMAIN jobs,
         \A id \in DOMAIN jobs' :
           /\ jobs'[id].work = jobs[id].work
           /\ jobs'[id].priority = jobs[id].priority
           /\ jobs'[id].state = jobs[id].state,
         \A id \in DOMAIN jobs \ DOMAIN jobs' : jobs[id].state \notin Live
  PROVE  UNCHANGED <<Waiting, RunningWork>>
  <1>1. Waiting' = Waiting
    BY SameWaiting DEF QueuedAt, Ids, Live
  <1>2. RunningWork' = RunningWork
    BY DEF RunningWork, Ids, Live
  <1> QED  BY <1>1, <1>2

(* A run that is over is over on the list, and no other run was at work    *)
(* that runs cover.                                                        *)
LEMMA RunEnds ==
  ASSUME \A i \in DOMAIN jobs : jobs[i].work \in Work, OneLiveRow,
         NEW id \in DOMAIN jobs, jobs[id].state = "running",
         DOMAIN jobs' = DOMAIN jobs,
         jobs'[id].state \in {"done", "failed"},
         \A other \in DOMAIN jobs : other # id => jobs'[other] = jobs[other]
  PROVE  jobs[id].work \in Work /\ List!End(jobs[id].work)
  <1> DEFINE w == jobs[id].work
  <1>1. w \in Work /\ w \in RunningWork
    BY DEF RunningWork, Ids
  <1>2. Waiting' = Waiting
    BY SameWaiting DEF QueuedAt, Ids
  <1>3. RunningWork \ {w} \subseteq RunningWork' /\ RunningWork' \subseteq RunningWork
    BY DEF RunningWork, Ids
  <1>4. Covered(w) => w \notin RunningWork'
    BY DEF RunningWork, Ids, OneLiveRow, Live
  <1> QED  BY <1>1, <1>2, <1>3, <1>4 DEF List!End, Covered

(* What a row keeps when its run comes back or is over.                    *)
LEMMA OutcomePriority ==
  ASSUME NEW row \in ClaimedRow, NEW wait \in Timer
  PROVE  /\ Requeued(row, wait).priority = row.priority
         /\ Deferred(row, wait).priority = row.priority
         /\ [row EXCEPT !.timer = LEASE].priority = row.priority
  <1>1. /\ Requeued(row, wait).priority = row.priority
        /\ [row EXCEPT !.timer = LEASE].priority = row.priority
    BY Zenon DEF ClaimedRow, Requeued
  <1>2. Deferred(row, wait).priority = row.priority
    <2>1. Requeued(row, wait) \in FreeRow
      BY OutcomeRows
    <2> QED  BY <1>1, <2>1 DEF FreeRow, Deferred
  <1> QED  BY <1>1, <1>2

(* Runs that failed or lost their lease wait again, beside whatever waited *)
(* for the same work meanwhile.                                            *)
LEMMA RunsReturn ==
  ASSUME \A i \in DOMAIN jobs : jobs[i] \in Row, \A i \in DOMAIN jobs' : jobs'[i] \in Row,
         OneLiveRow,
         NEW S \in SUBSET Ids("running"),
         DOMAIN jobs' = DOMAIN jobs,
         \A id \in DOMAIN jobs :
           /\ id \notin S => jobs'[id] = jobs[id]
           /\ id \in S => /\ jobs'[id].state = "queued"
                          /\ jobs'[id].work = jobs[id].work
                          /\ jobs'[id].priority = jobs[id].priority
  PROVE  \E ws \in SUBSET Work : List!Return(ws)
  <1> DEFINE ws == {jobs[id].work : id \in S}
  <1>1. S \subseteq DOMAIN jobs /\ \A id \in S : jobs[id].state = "running"
    BY DEF Ids
  <1>2. \A id \in DOMAIN jobs : jobs[id].work \in Work
    BY RowStates
  <1>3. ws \in SUBSET Work /\ ws \subseteq RunningWork
    BY <1>1, <1>2 DEF RunningWork
  <1>4. RunningWork \ ws \subseteq RunningWork' /\ RunningWork' \subseteq RunningWork
    BY <1>1 DEF RunningWork, Ids
  <1>5. \A w \in ws : Covered(w) => w \notin RunningWork'
    <2> SUFFICES ASSUME NEW id \in S, Covered(jobs[id].work),
                        NEW other \in DOMAIN jobs', jobs'[other].state = "running",
                        jobs'[other].work = jobs[id].work
                 PROVE  FALSE
      BY DEF RunningWork, Ids
    <2>1. other \notin S /\ jobs'[other] = jobs[other]
      OBVIOUS
    <2> QED  BY <1>1, <2>1 DEF OneLiveRow, Live
  <1>6. Waiting' \in [Work -> {-1, 0} \cup {-2}]
    BY WaitingTable
  <1>7. \A w \in Work, n \in {-1, 0} : QueuedAt(w, n) => QueuedAt(w, n)'
    BY <1>1 DEF QueuedAt, Ids
  <1>8. \A w \in Work : Waiting'[w] >= Waiting[w]
    BY <1>7, WaitingIs
  <1>9. \A w \in ws : Waiting'[w] # -2
    BY <1>1, <1>3, WaitsQueuedNext
  <1>10. \A w \in Work \ ws : Waiting'[w] = Waiting[w]
    <2>1. \A w \in Work \ ws, n \in {-1, 0} : QueuedAt(w, n)' <=> QueuedAt(w, n)
      BY <1>1 DEF QueuedAt, Ids
    <2> QED  BY <2>1, WaitingIs
  <1> HIDE DEF ws
  <1>11. List!Return(ws)
    BY <1>3, <1>4, <1>5, <1>6, <1>8, <1>9, <1>10
       DEF List!Return, List!Priority, List!Nothing, Covered
  <1> QED  BY <1>3, <1>11

(* A claim is a start of work that waited and, if runs cover it, has no    *)
(* other run.                                                              *)
LEMMA RunStarts ==
  ASSUME \A i \in DOMAIN jobs : jobs[i] \in Row, \A i \in DOMAIN jobs' : jobs'[i] \in Row,
         OneLiveRow, NEW w \in Worker, NEW id \in DOMAIN jobs, Started(w, id)
  PROVE  jobs[id].work \in Work /\ List!Start(jobs[id].work)
  <1> DEFINE v == jobs[id].work
  <1>1. v \in Work
    BY RowStates
  <1>2. jobs[id].state = "queued" /\ jobs'[id].state = "running"
    BY DEF Started, Ready, ClaimedRow
  <1>3. /\ DOMAIN jobs' = DOMAIN jobs /\ jobs'[id].work = v
        /\ \A other \in DOMAIN jobs : other # id => jobs'[other] = jobs[other]
    BY DEF Started
  <1>4. Waiting[v] # -2
    BY <1>1, <1>2, WaitsQueued
  <1>5. v \in RunningWork => ~Covered(v)
    BY <1>2 DEF RunningWork, Ids, OneLiveRow, Live
  <1>6. RunningWork' = RunningWork \cup {v}
    BY <1>2, <1>3 DEF RunningWork, Ids
  <1>7. Waiting'[v] \in {-1, 0} \cup {-2}
    BY <1>1, WaitingTable
  <1>8. Covered(v) => Waiting'[v] = -2
    <2> SUFFICES ASSUME Covered(v), NEW other \in DOMAIN jobs',
                        jobs'[other].state = "queued", jobs'[other].work = v
                 PROVE  FALSE
      BY <1>1, WaitsQueuedNext
    <2>1. other # id /\ jobs'[other] = jobs[other]
      BY <1>2, <1>3
    <2> QED  BY <1>2, <1>3, <2>1 DEF OneLiveRow, Live
  <1>9. \A u \in Work : u # v => Waiting'[u] = Waiting[u]
    <2>1. \A u \in Work, n \in {-1, 0} : u # v => (QueuedAt(u, n)' <=> QueuedAt(u, n))
      BY <1>2, <1>3 DEF QueuedAt, Ids
    <2> QED  BY <2>1, WaitingIs
  <1> HIDE DEF v
  <1>10. Waiting' = [Waiting EXCEPT ![v] = Waiting'[v]]
    BY <1>1, <1>9, WaitingTable
  <1>11. List!Start(v)
    BY <1>4, <1>5, <1>6, <1>7, <1>8, <1>10, <1>1
       DEF List!Start, List!Priority, List!Nothing, Covered
  <1> QED  BY <1>1, <1>11 DEF v

(* Deleting a project forgets its work and no other.                       *)
LEMMA WorkForgotten ==
  ASSUME \A i \in DOMAIN jobs : jobs[i].work \in Work,
         NEW ws \in SUBSET Work,
         DOMAIN jobs' = {id \in DOMAIN jobs : jobs[id].work \notin ws},
         \A id \in DOMAIN jobs' : jobs'[id] = jobs[id]
  PROVE  List!Forget(ws)
  <1>1. RunningWork' = RunningWork \ ws
    BY DEF RunningWork, Ids
  <1>2. \A w \in Work, n \in {-1, 0} : QueuedAt(w, n)' <=> QueuedAt(w, n) /\ w \notin ws
    BY DEF QueuedAt, Ids
  <1>3. \A w \in Work : Waiting'[w] = IF w \in ws THEN -2 ELSE Waiting[w]
    BY <1>2, WaitingIs
  <1>4. Waiting' = [w \in Work |-> IF w \in ws THEN -2 ELSE Waiting[w]]
    BY <1>3, WaitingTable
  <1> QED  BY <1>1, <1>4 DEF List!Forget, List!Nothing

-----------------------------------------------------------------------------
(* Requests, on the list.                                                  *)

(* A raised row has the higher of the two priorities.                      *)
LEMMA RaisedPriority ==
  ASSUME NEW row \in Row, row.state = "queued", NEW priority \in {-1, 0}
  PROVE  Raised(row, priority).priority = Larger(row.priority, priority)
  <1>1. row \in FreeRow
    BY RowStates
  <1> QED  BY <1>1 DEF FreeRow, Raised

(* What a request leaves behind: waiting rows it asked for have the higher *)
(* priority, and what it could insert it has inserted with its own.        *)
Prioritised(ws, priority) ==
  /\ \A id \in DOMAIN jobs : jobs[id].state = "queued" =>
       jobs'[id].priority =
         IF jobs[id].work \in ws THEN Larger(jobs[id].priority, priority)
         ELSE jobs[id].priority
  /\ \A id \in DOMAIN jobs' \ DOMAIN jobs : jobs'[id].priority = priority
  /\ \A w \in ws : Insertable(w) =>
       \E id \in DOMAIN jobs' \ DOMAIN jobs : jobs'[id].work = w

(* A request raises what waits, and inserts what nothing covers.           *)
LEMMA EnqueuePriorities ==
  ASSUME TypeOK, NEW ws \in SUBSET Work, NEW priority \in {-1, 0},
         EnqueueAll(ws, priority)
  PROVE  Prioritised(ws, priority)
  <1> DEFINE fresh == {w \in ws : Insertable(w)}
             c == Cardinality(fresh)
             ids == nextId .. nextId + c - 1
  <1>1. c \in Nat
    <2>1. IsFiniteSet(fresh)
      BY WorkAssumption, FS_Subset
    <2> QED  BY <2>1, FS_CardinalityType
  <1>2. PICK order \in Bijection(ids, fresh) :
          jobs' = [id \in DOMAIN jobs \cup ids |->
                     IF id \in ids THEN NewRow(order[id], priority)
                     ELSE IF jobs[id].state = "queued" /\ jobs[id].work \in ws
                     THEN Raised(jobs[id], priority)
                     ELSE jobs[id]]
    BY DEF EnqueueAll
  <1>3. ids \subseteq JobId
    BY DEF EnqueueAll
  <1>4. DOMAIN jobs \cap ids = {}
    BY <1>1, <1>3, NewIds
  <1>5. \A w \in fresh : \E id \in ids : order[id] = w
    BY DEF Bijection, Surjection
  <1> HIDE DEF ids, c
  <1>6. DOMAIN jobs' = DOMAIN jobs \cup ids
    BY <1>2
  <1>7. \A id \in ids : jobs'[id] = NewRow(order[id], priority)
    BY <1>2
  <1>8. \A id \in ids : jobs'[id].work = order[id] /\ jobs'[id].priority = priority
    <2> TAKE id \in ids
    <2>1. jobs'[id] = NewRow(order[id], priority)
      BY <1>7
    <2> QED  BY <2>1 DEF NewRow
  <1>9. ASSUME NEW id \in DOMAIN jobs, jobs[id].state = "queued"
        PROVE  jobs'[id].priority =
                 IF jobs[id].work \in ws THEN Larger(jobs[id].priority, priority)
                 ELSE jobs[id].priority
    <2>1. jobs'[id] = IF jobs[id].work \in ws THEN Raised(jobs[id], priority) ELSE jobs[id]
      BY <1>2, <1>4, <1>9
    <2> QED  BY <1>9, <2>1, RaisedPriority DEF TypeOK
  <1>10. \A w \in ws : Insertable(w) => \E id \in DOMAIN jobs' \ DOMAIN jobs : jobs'[id].work = w
    BY <1>4, <1>5, <1>6, <1>8
  <1> QED  BY <1>6, <1>8, <1>9, <1>10 DEF Prioritised

(* A request is one of the list, unless a run already answers it.          *)
LEMMA RequestListed ==
  ASSUME \A i \in DOMAIN jobs : jobs[i] \in Row, OneLiveRow,
         NEW ws \in SUBSET Work, NEW priority \in {-1, 0},
         Grown(ws), Prioritised(ws, priority)
  PROVE  List!Request(ws, priority)
  <1>1. \A id \in DOMAIN jobs :
          /\ id \in DOMAIN jobs'
          /\ jobs'[id].work = jobs[id].work /\ jobs'[id].state = jobs[id].state
    BY DEF Grown
  <1>2. \A id \in DOMAIN jobs' \ DOMAIN jobs :
          /\ jobs'[id].state = "queued" /\ jobs'[id].priority = priority
          /\ jobs'[id].work \in ws /\ Insertable(jobs'[id].work)
    BY DEF Grown, Prioritised
  <1>3. RunningWork' = RunningWork
    BY <1>1, <1>2 DEF RunningWork, Ids
  <1>4. ASSUME NEW w \in Work
        PROVE  Waiting'[w] = IF w \in ws /\ ~List!Answered(w) /\ Waiting[w] < priority
                             THEN priority ELSE Waiting[w]
    <2>1. CASE w \notin ws
      <3>1. \A n \in {-1, 0} : QueuedAt(w, n)' <=> QueuedAt(w, n)
        BY <1>1, <1>2, <2>1 DEF QueuedAt, Ids, Prioritised
      <3> QED  BY <2>1, <3>1, WaitingIs
    <2>2. CASE w \in ws /\ List!Answered(w)
      <3>1. w \in RunningWork /\ Covered(w)
        BY <2>2 DEF List!Answered, Covered
      <3>2. ~Insertable(w)
        BY <3>1 DEF RunningWork, Ids, Insertable, Covering, CoveredWhileRunning, Covered, Live
      <3>3. \A id \in DOMAIN jobs : ~(jobs[id].state = "queued" /\ jobs[id].work = w)
        BY <3>1 DEF RunningWork, Ids, OneLiveRow, Live
      <3>4. \A n \in {-1, 0} : ~QueuedAt(w, n)' /\ ~QueuedAt(w, n)
        BY <1>1, <1>2, <3>2, <3>3 DEF QueuedAt, Ids
      <3> QED  BY <2>2, <3>4, WaitingIs
    <2>3. CASE w \in ws /\ ~List!Answered(w) /\ QueuedAt(w, 0)
      <3>1. PICK id \in DOMAIN jobs : /\ jobs[id].state = "queued" /\ jobs[id].work = w
                                      /\ jobs[id].priority = 0
        BY <2>3 DEF QueuedAt, Ids
      <3>2. jobs'[id].priority = 0
        BY <2>3, <3>1 DEF Prioritised, Larger
      <3>3. QueuedAt(w, 0)'
        BY <1>1, <3>1, <3>2 DEF QueuedAt, Ids
      <3> QED  BY <2>3, <3>3, WaitingIs
    <2>4. CASE w \in ws /\ ~List!Answered(w) /\ ~QueuedAt(w, 0) /\ QueuedAt(w, -1)
      <3>1. PICK id \in DOMAIN jobs : /\ jobs[id].state = "queued" /\ jobs[id].work = w
                                      /\ jobs[id].priority = -1
        BY <2>4 DEF QueuedAt, Ids
      <3>2. ~Insertable(w)
        BY <3>1 DEF Insertable, Covering, Live
      <3>3. jobs'[id].priority = priority
        BY <2>4, <3>1 DEF Prioritised, Larger
      <3>4. QueuedAt(w, priority)'
        BY <1>1, <3>1, <3>3 DEF QueuedAt, Ids
      <3>5. \A other \in DOMAIN jobs : jobs[other].state = "queued" /\ jobs[other].work = w
              => jobs'[other].priority = priority
        <4>1. \A other \in DOMAIN jobs : jobs[other].state = "queued" /\ jobs[other].work = w
                => jobs[other].priority = -1
          BY <2>4 DEF QueuedAt, Ids, Row, FreeRow, ClaimedRow
        <4> QED  BY <2>4, <4>1 DEF Prioritised, Larger
      <3>6. \A n \in {-1, 0} : QueuedAt(w, n)' => n = priority
        BY <1>1, <1>2, <3>2, <3>5 DEF QueuedAt, Ids
      <3> QED  BY <2>4, <3>4, <3>6, WaitingIs
    <2>5. CASE w \in ws /\ ~List!Answered(w) /\ ~QueuedAt(w, 0) /\ ~QueuedAt(w, -1)
      <3>1. \A id \in DOMAIN jobs : ~(jobs[id].state = "queued" /\ jobs[id].work = w)
        BY <2>5 DEF QueuedAt, Ids, Row, FreeRow, ClaimedRow
      <3>2. Covered(w) => w \notin RunningWork
        BY <2>5 DEF List!Answered, Covered
      <3>3. Insertable(w)
        BY <3>1, <3>2 DEF Insertable, Covering, CoveredWhileRunning, Covered, RunningWork, Ids, Live
      <3>4. QueuedAt(w, priority)'
        BY <1>2, <2>5, <3>3 DEF Prioritised, QueuedAt, Ids
      <3>5. \A n \in {-1, 0} : QueuedAt(w, n)' => n = priority
        BY <1>1, <1>2, <3>1 DEF QueuedAt, Ids
      <3> QED  BY <2>5, <3>4, <3>5, WaitingIs
    <2> QED  BY <2>1, <2>2, <2>3, <2>4, <2>5
  <1>5. Waiting' = [w \in Work |->
                      IF w \in ws /\ ~List!Answered(w) /\ Waiting[w] < priority
                      THEN priority ELSE Waiting[w]]
    BY <1>4, WaitingTable
  <1> QED  BY <1>3, <1>5 DEF List!Request

-----------------------------------------------------------------------------
(* Every step of the queue is one of the list's, or none.                  *)

ListStep == [List!Next]_<<Waiting, RunningWork>>

(* What the proofs below know of the table before and after a step.        *)
Tables ==
  /\ TypeOK /\ OneLiveRow
  /\ \A i \in DOMAIN jobs' : jobs'[i] \in Row

(* Finish and fail: a run ends, or its worker had lost it.                 *)
LEMMA FinalListed ==
  ASSUME Tables, NEW w \in Worker, worker[w].pc # "idle",
         NEW state \in {"done", "failed"}, Record(w, Ended(MyRow(w), state))
  PROVE  ListStep
  <1>1. CASE Owns(w)
    <2> DEFINE id == worker[w].id
    <2>1. id \in DOMAIN jobs /\ jobs[id].state = "running"
      BY <1>1, OwnedRow DEF Tables, MyRow
    <2>2. Ended(MyRow(w), state).state = state
      <3>1. 0 \in Timer
        BY DEF Timer
      <3> QED  BY <1>1, <3>1, OwnedOutcomes DEF Tables
    <2>3. jobs' = [jobs EXCEPT ![id] = Ended(MyRow(w), state)]
      BY <1>1 DEF Record
    <2>4. DOMAIN jobs' = DOMAIN jobs /\ jobs'[id].state = state
      BY <2>1, <2>2, <2>3
    <2>5. \A other \in DOMAIN jobs : other # id => jobs'[other] = jobs[other]
      BY <2>3
    <2>6. \A i \in DOMAIN jobs : jobs[i].work \in Work
      BY RowStates DEF Tables, TypeOK
    <2> HIDE DEF id
    <2>7. jobs[id].work \in Work /\ List!End(jobs[id].work)
      BY <2>1, <2>4, <2>5, <2>6, RunEnds DEF Tables
    <2> QED  BY <2>7 DEF ListStep, List!Next
  <1>2. CASE ~Owns(w)
    <2>1. jobs' = jobs
      BY <1>2 DEF Record
    <2> QED  BY <2>1, SameList DEF ListStep
  <1> QED  BY <1>1, <1>2

(* Retry and defer: the run comes back, or its worker had lost it.         *)
LEMMA ReturnListed ==
  ASSUME Tables, NEW w \in Worker, worker[w].pc # "idle", NEW wait \in Timer,
         NEW row \in {Requeued(MyRow(w), wait), Deferred(MyRow(w), wait)}, Record(w, row)
  PROVE  ListStep
  <1>1. CASE Owns(w)
    <2> DEFINE id == worker[w].id
    <2>1. id \in Ids("running") /\ jobs[id] \in ClaimedRow
      BY <1>1, OwnedRow DEF Tables, MyRow, Ids
    <2>2. row.state = "queued" /\ row.work = jobs[id].work
      BY <1>1, OwnedOutcomes DEF Tables, MyRow
    <2>3. row.priority = jobs[id].priority
      BY <2>1, OutcomePriority DEF MyRow
    <2>4. jobs' = [jobs EXCEPT ![id] = row]
      BY <1>1 DEF Record
    <2>5. \A i \in DOMAIN jobs : jobs[i] \in Row
      BY DEF Tables, TypeOK
    <2>6. id \in DOMAIN jobs
      BY <2>1 DEF Ids
    <2> HIDE DEF id
    <2>7. \A i \in DOMAIN jobs :
            /\ i \notin {id} => jobs'[i] = jobs[i]
            /\ i \in {id} => /\ jobs'[i].state = "queued"
                             /\ jobs'[i].work = jobs[i].work
                             /\ jobs'[i].priority = jobs[i].priority
      BY <2>2, <2>3, <2>4, <2>6
    <2>8. {id} \in SUBSET Ids("running") /\ DOMAIN jobs' = DOMAIN jobs
      BY <2>1, <2>4
    <2>9. \E ws \in SUBSET Work : List!Return(ws)
      BY <2>5, <2>7, <2>8, RunsReturn DEF Tables
    <2> QED  BY <2>9 DEF ListStep, List!Next
  <1>2. CASE ~Owns(w)
    <2>1. jobs' = jobs
      BY <1>2 DEF Record
    <2> QED  BY <2>1, SameList DEF ListStep
  <1> QED  BY <1>1, <1>2

(* A lease that is prolonged is nothing to the list.                       *)
LEMMA RenewListed ==
  ASSUME Tables, NEW w \in Worker, Renew(w)
  PROVE  ListStep
  <1>1. CASE Owns(w)
    <2> DEFINE id == worker[w].id
    <2>1. worker[w].pc # "idle"
      BY DEF Renew, Running
    <2>2. id \in DOMAIN jobs /\ jobs[id] \in ClaimedRow
      BY <1>1, <2>1, OwnedRow DEF Tables, MyRow
    <2>3. jobs' = [jobs EXCEPT ![id] = [jobs[id] EXCEPT !.timer = LEASE]]
      BY <1>1 DEF Renew, Record, MyRow
    <2>4. DOMAIN jobs' = DOMAIN jobs /\ jobs'[id] = [jobs[id] EXCEPT !.timer = LEASE]
      BY <2>2, <2>3
    <2>5. \A other \in DOMAIN jobs : other # id => jobs'[other] = jobs[other]
      BY <2>3
    <2> HIDE DEF id
    <2>6. /\ jobs'[id].work = jobs[id].work /\ jobs'[id].priority = jobs[id].priority
          /\ jobs'[id].state = jobs[id].state
      BY <2>2, <2>4, Zenon DEF ClaimedRow
    <2> QED  BY <2>4, <2>5, <2>6, SameList DEF ListStep
  <1>2. CASE ~Owns(w)
    <2>1. jobs' = jobs
      BY <1>2 DEF Renew, Record
    <2> QED  BY <2>1, SameList DEF ListStep
  <1> QED  BY <1>1, <1>2

(* A request is one of the list's, whoever makes it.                       *)
LEMMA EnqueueListed ==
  ASSUME Tables, NEW ws \in SUBSET Work, NEW priority \in {-1, 0},
         EnqueueAll(ws, priority)
  PROVE  ListStep
  <1>1. Grown(ws) /\ Prioritised(ws, priority)
    BY EnqueueStep, EnqueuePriorities DEF Tables
  <1>2. List!Request(ws, priority)
    BY <1>1, RequestListed DEF Tables, TypeOK
  <1> QED  BY <1>2 DEF ListStep, List!Next, List!Priority

(* Discoveries, snapshots and the sweep.                                   *)
LEMMA RequestsListed ==
  ASSUME Tables, Requests
  PROVE  ListStep
  <1>1. ASSUME NEW p \in Project, RequestDiscovery(p)
        PROVE  ListStep
    <2>1. {Discover(p)} \in SUBSET Work
      BY RequestedWork
    <2> QED  BY <1>1, <2>1, EnqueueListed DEF RequestDiscovery
  <1>2. ASSUME NEW p \in Project, NEW cs \in SUBSET Coordinate, RequestForSnapshot(p, cs)
        PROVE  ListStep
    <2>1. {PackageFacts(c) : c \in cs} \cup {PackageAudit(p)} \in SUBSET Work
      BY RequestedWork
    <2> QED  BY <1>2, <2>1, EnqueueListed DEF RequestForSnapshot
  <1>3. ASSUME NEW cs \in SUBSET Coordinate, Sweep(cs)
        PROVE  ListStep
    <2>1. {PackageFacts(c) : c \in cs} \in SUBSET Work
      BY RequestedWork
    <2> QED  BY <1>3, <2>1, EnqueueListed DEF Sweep
  <1> QED  BY <1>1, <1>2, <1>3 DEF Requests

(* Every action of a worker.                                               *)
LEMMA WorkerListed ==
  ASSUME Tables, NEW w \in Worker, WorkerStep(w)
  PROVE  ListStep
  <1> USE DEF Tables
  <1>1. CASE Claim(w)
    <2>1. PICK id \in DOMAIN jobs : Started(w, id)
      BY <1>1, ClaimStep
    <2>2. jobs[id].work \in Work /\ List!Start(jobs[id].work)
      BY <2>1, RunStarts DEF TypeOK
    <2> QED  BY <2>2 DEF ListStep, List!Next
  <1>2. CASE Renew(w)
    BY <1>2, RenewListed
  <1>3. CASE Finish(w)
    <2>1. worker[w].pc # "idle" /\ Record(w, Ended(MyRow(w), "done"))
      BY <1>3 DEF Finish
    <2> QED  BY <2>1, FinalListed
  <1>4. CASE Retry(w)
    <2>1. worker[w].pc # "idle"
      BY <1>4 DEF Retry
    <2>2. PICK wait \in RetryWaits(w) : Record(w, Requeued(MyRow(w), wait))
      BY <1>4 DEF Retry
    <2>3. wait \in Timer
      <3>1. worker[w].attempts \in Nat
        BY <2>1, WorkerAssignments DEF Assignment
      <3>2. Backoff * worker[w].attempts \in Nat /\ FailedTtl \in Nat
        BY <3>1, ConstantsAssumption
      <3> QED  BY <3>2 DEF RetryWaits, Timer
    <2> QED  BY <2>1, <2>2, <2>3, ReturnListed
  <1>5. CASE Fail(w)
    <2>1. worker[w].pc # "idle" /\ Record(w, Ended(MyRow(w), "failed"))
      BY <1>5 DEF Fail
    <2> QED  BY <2>1, FinalListed
  <1>6. CASE Block(w) \/ Abandon(w)
    <2>1. jobs' = jobs
      BY <1>6 DEF Block, Abandon
    <2> QED  BY <2>1, SameList DEF ListStep
  <1>7. CASE Defer(w) \/ DeferDiscovery(w)
    <2>1. worker[w].pc # "idle"
      BY <1>7 DEF Defer, DeferDiscovery, Running
    <2>2. PICK wait \in 0 .. MaxPause : Record(w, Deferred(MyRow(w), wait))
      <3>1. worker[w].until \in 0 .. MaxPause
        BY <2>1, WorkerAssignments DEF Assignment
      <3> QED  BY <1>7, <3>1 DEF Defer, DeferDiscovery
    <2>3. wait \in Timer
      BY ConstantsAssumption DEF Timer
    <2> QED  BY <2>1, <2>2, <2>3, ReturnListed
  <1>8. ASSUME NEW ps \in SUBSET projects, QueueAudits(w, ps)
        PROVE  ListStep
    <2>1. {PackageAudit(p) : p \in ps} \in SUBSET Work
      BY RequestedWork DEF TypeOK
    <2> QED  BY <1>8, <2>1, EnqueueListed DEF QueueAudits
  <1> QED  BY <1>1, <1>2, <1>3, <1>4, <1>5, <1>6, <1>7, <1>8 DEF WorkerStep

(* The schedule, deletion, crashes and the clock.                          *)
LEMMA ReclaimListed ==
  ASSUME Tables, Reclaim
  PROVE  ListStep
  <1> DEFINE S == {id \in DOMAIN jobs : Expired(id)}
  <1>1. S \in SUBSET Ids("running")
    BY DEF Ids, Expired
  <1>2. DOMAIN jobs' = DOMAIN jobs
    BY DEF Reclaim
  <1>3. ASSUME NEW id \in DOMAIN jobs
        PROVE  /\ id \notin S => jobs'[id] = jobs[id]
               /\ id \in S => /\ jobs'[id].state = "queued"
                              /\ jobs'[id].work = jobs[id].work
                              /\ jobs'[id].priority = jobs[id].priority
    <2>1. CASE id \in S
      <3>1. jobs[id] \in ClaimedRow /\ 0 \in Timer
        BY <2>1, RowStates DEF Expired, Tables, TypeOK, Timer
      <3>2. jobs'[id] = Requeued(jobs[id], 0)
        BY <2>1 DEF Reclaim
      <3> QED  BY <2>1, <3>1, <3>2, OutcomeWork, OutcomePriority
    <2>2. CASE id \notin S
      BY <2>2 DEF Reclaim
    <2> QED  BY <2>1, <2>2
  <1>4. \A i \in DOMAIN jobs : jobs[i] \in Row
    BY DEF Tables, TypeOK
  <1> HIDE DEF S
  <1>5. \E ws \in SUBSET Work : List!Return(ws)
    BY <1>1, <1>2, <1>3, <1>4, RunsReturn DEF Tables
  <1> QED  BY <1>5 DEF ListStep, List!Next

(* A project's work is forgotten.                                          *)
LEMMA DeleteListed ==
  ASSUME Tables, NEW p \in Project, DeleteProject(p)
  PROVE  ListStep
  <1> DEFINE ws == {w \in Work : BelongsTo(w, p)}
  <1>1. \A i \in DOMAIN jobs : jobs[i].work \in Work
    BY RowStates DEF Tables, TypeOK
  <1>2. /\ DOMAIN jobs' = {id \in DOMAIN jobs : jobs[id].work \notin ws}
        /\ \A id \in DOMAIN jobs' : jobs'[id] = jobs[id]
    BY <1>1 DEF DeleteProject, Keep
  <1>3. ws \in SUBSET Work
    OBVIOUS
  <1> HIDE DEF ws
  <1>4. List!Forget(ws)
    BY <1>1, <1>2, <1>3, WorkForgotten
  <1> QED  BY <1>3, <1>4 DEF ListStep, List!Next

(* The clock is nothing to the list.                                       *)
LEMMA TickListed ==
  ASSUME Tables, Tick
  PROVE  ListStep
  <1>1. DOMAIN jobs' = DOMAIN jobs
    BY DEF Tick
  <1>2. ASSUME NEW id \in DOMAIN jobs'
        PROVE  /\ jobs'[id].work = jobs[id].work
               /\ jobs'[id].priority = jobs[id].priority
               /\ jobs'[id].state = jobs[id].state
    <2>1. PICK n : jobs'[id] = [jobs[id] EXCEPT !.timer = n]
      BY <1>1 DEF Tick
    <2>2. jobs[id] \in Row
      BY <1>1 DEF Tables, TypeOK
    <2> QED  BY <2>1, <2>2 DEF Row, FreeRow, ClaimedRow
  <1> QED  BY <1>1, <1>2, SameList DEF ListStep

(* All of them.                                                            *)
LEMMA StepListed ==
  ASSUME TypeOK, TypeOK', OneJobPerWork, [Next]_vars
  PROVE  ListStep
  <1>1. Tables
    BY CoveredOnce DEF Tables, TypeOK
  <1>2. CASE Requests
    BY <1>1, <1>2, RequestsListed
  <1>3. ASSUME NEW w \in Worker, WorkerStep(w)  PROVE ListStep
    BY <1>1, <1>3, WorkerListed
  <1>4. CASE Reclaim
    BY <1>1, <1>4, ReclaimListed
  <1>5. CASE CleanUp
    <2>1. /\ DOMAIN jobs' = {id \in DOMAIN jobs : ~OutOfHistory(id)}
          /\ \A id \in DOMAIN jobs' : jobs'[id] = jobs[id]
      BY <1>5 DEF CleanUp, Keep
    <2>2. \A id \in DOMAIN jobs \ DOMAIN jobs' : jobs[id].state \notin Live
      BY <2>1 DEF OutOfHistory, Live
    <2> QED  BY <2>1, <2>2, SameList DEF ListStep
  <1>6. ASSUME NEW p \in Project, DeleteProject(p)  PROVE ListStep
    BY <1>1, <1>6, DeleteListed
  <1>7. CASE Crash \/ UNCHANGED vars
    <2>1. jobs' = jobs
      BY <1>7 DEF Crash, vars
    <2> QED  BY <2>1, SameList DEF ListStep
  <1>8. CASE Tick
    BY <1>1, <1>8, TickListed
  <1> QED  BY <1>2, <1>3, <1>4, <1>5, <1>6, <1>7, <1>8 DEF Next

(* The queue implements WorkList: through claims, lost leases, retries,    *)
(* deletions and crashes, what waits stays waiting at no lower a priority  *)
(* until a run starts for it, and covered work has one run at a time       *)
(* (enqueue, claim, the outcomes, reclaim_expired_leases).                 *)
THEOREM QueueImplementsWorkList == Spec => ImplementsWorkList
  <1>1. Init => List!Init
    <2> SUFFICES ASSUME Init  PROVE List!Init
      OBVIOUS
    <2>1. DOMAIN jobs = {}
      BY DEF Init
    <2>2. RunningWork = {}
      BY <2>1 DEF RunningWork, Ids
    <2>3. Waiting = [w \in Work |-> -2]
      BY <2>1 DEF Waiting, QueuedAt, Ids
    <2> QED  BY <2>2, <2>3 DEF List!Init, List!Nothing
  <1>2. TypeOK /\ TypeOK' /\ OneJobPerWork /\ [Next]_vars => [List!Next]_(List!vars)
    BY StepListed DEF ListStep, List!vars
  <1> QED  BY <1>1, <1>2, TypeCorrect, AlwaysOneJobPerWork, PTL
           DEF Spec, ImplementsWorkList, List!Spec

=============================================================================
