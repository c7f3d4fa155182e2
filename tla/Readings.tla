------------------------------ MODULE Readings ------------------------------
(***************************************************************************)
(* The readings of one project: discovery's pass over its default branch   *)
(* and its changes (src/src/worker/discovery.rs), the analysis of one head *)
(* (src/src/analysis/runner.rs) and the table of snapshots they write      *)
(* (src/src/project/snapshot.rs).                                          *)
(*                                                                         *)
(* A pass reads each head the forge names.  A head nobody has analysed is  *)
(* recorded and analysed, if its change is open; any other is observed,    *)
(* and its reading points at the analysis the index of analysed commits    *)
(* holds for that head.  People may also ask for a scan of a change or of  *)
(* one commit.  The forge moves all the while, and whoever is at it may    *)
(* stop between any two statements: the process dies, a read fails, a      *)
(* request is dropped.                                                     *)
(*                                                                         *)
(* Ids are positions: a later reading has the larger one.  A bare 0 stands *)
(* for NULL.  The subject of a commit is the commit.  What a reading says  *)
(* besides its head, its link and how many runs it has is left out, and so *)
(* is what the pass tells the forge and the registries.                    *)
(***************************************************************************)
EXTENDS Integers, Sequences, FiniteSetsExt

CONSTANTS
  Branch,      \* branches that may be the default one
  Change,      \* pull requests
  CommitSha,   \* commits
  Actor,       \* workers and requests
  ANALYZERS,   \* how many analyzers the project uses
  MaxTrouble   \* bound on stops and on scans people ask for

ASSUME ReadingsAssumption ==
  /\ ANALYZERS \in Nat /\ MaxTrouble \in Nat
  /\ Branch \cap Change = {} /\ Branch \cap CommitSha = {} /\ Change \cap CommitSha = {}

VARIABLES
  default,     \* the forge: the default branch and its head,
  tip,         \*   the head of each change,
  open,        \*   and whether a change is open
  readings,    \* table snapshots, by id
  index,       \* table commit_analyses: the analysed reading of each head
  task,        \* what each actor is doing
  trouble      \* stops and requests so far

vars == <<default, tip, open, readings, index, task, trouble>>
forge == <<default, tip, open>>

-----------------------------------------------------------------------------
Subject == Branch \cup Change \cup CommitSha
Ids == 1 .. Len(readings)

Snapshot == [subject : Subject, head : CommitSha, analysis : Nat, runs : Nat]
Listed == [subject : Change, head : CommitSha, open : BOOLEAN]

(* A task is at one subject: of a pass, first the default branch and then  *)
(* the changes in todo, or of a request.                                   *)
Idle == [pc |-> "idle"]
Task ==
  {Idle} \cup
  [pc : {"index", "observe", "link", "record", "analyse", "list", "turn"},
   by : {"branch", "change", "scan", "commit"},
   subject : Subject, head : CommitSha, open : BOOLEAN, todo : SUBSET Listed,
   indexed : Nat, snapshot : Nat, done : 0 .. ANALYZERS]

At(pc, by, subject, head, isOpen, todo) ==
  [pc |-> pc, by |-> by, subject |-> subject, head |-> head, open |-> isOpen,
   todo |-> todo, indexed |-> 0, snapshot |-> 0, done |-> 0]

Init ==
  /\ default \in [name : Branch, head : CommitSha]
  /\ tip \in [Change -> CommitSha]
  /\ open \in [Change -> BOOLEAN]
  /\ readings = <<>>
  /\ index = [h \in CommitSha |-> 0]
  /\ task = [a \in Actor |-> Idle]
  /\ trouble = 0

-----------------------------------------------------------------------------
(* What the tables say.                                                    *)

Of(subject, head) ==
  {i \in Ids : readings[i].subject = subject /\ readings[i].head = head}

Whole(i) == readings[i].runs = ANALYZERS

(* No analysis is behind the reading.                                      *)
Bare(i) == readings[i].analysis = 0 /\ readings[i].runs = 0

(* latest_for_change and default_branch_head: the largest id.              *)
Newest(subjects) == Max({i \in Ids : readings[i].subject \in subjects})

(* Analysis::for_snapshot: the reading whose runs i is shown with.         *)
ShownWith(i) == IF readings[i].analysis = 0 THEN i ELSE readings[i].analysis

(* Faulty variant: requests do not wait for the pass.                      *)
NoLock == TRUE
(* project_lock: nobody else is at the project.                            *)
Unlocked == \A a \in Actor : task[a] = Idle

(* Where a task goes after its subject.                                    *)
Done(t) ==
  CASE t.by = "branch" -> [t EXCEPT !.pc = "list"]
    [] t.by = "change" -> [t EXCEPT !.pc = "turn"]
    [] OTHER -> Idle

-----------------------------------------------------------------------------
(* The forge.                                                              *)

(* A push to the default branch, or another branch becomes the default.    *)
MoveDefault(b, h) ==
  /\ default' = [name |-> b, head |-> h]
  /\ UNCHANGED <<tip, open, readings, index, task, trouble>>

Push(c, h) ==
  /\ open[c]
  /\ tip' = [tip EXCEPT ![c] = h]
  /\ UNCHANGED <<default, open, readings, index, task, trouble>>

OpenOrClose(c) ==
  /\ open' = [open EXCEPT ![c] = ~@]
  /\ UNCHANGED <<default, tip, readings, index, task, trouble>>

-----------------------------------------------------------------------------
(* Who takes the project's lock, and what for.                             *)

(* discovery::run, up to the ref advertisement.                            *)
BeginPass(a) ==
  /\ task[a] = Idle /\ Unlocked
  /\ task' = [task EXCEPT ![a] = At("index", "branch", default.name, default.head, TRUE, {})]
  /\ UNCHANGED <<forge, readings, index, trouble>>

(* discovery::scan_change scans the change's newest reading again.         *)
BeginScan(a, c) ==
  /\ task[a] = Idle /\ Unlocked
  /\ trouble < MaxTrouble
  /\ \E i \in Ids : readings[i].subject = c
  /\ task' = [task EXCEPT ![a] =
       At("record", "scan", c, readings[Newest({c})].head, TRUE, {})]
  /\ trouble' = trouble + 1
  /\ UNCHANGED <<forge, readings, index>>

(* runner::run, of one commit.                                             *)
BeginCommit(a, h) ==
  /\ task[a] = Idle /\ Unlocked
  /\ trouble < MaxTrouble
  /\ task' = [task EXCEPT ![a] = At("record", "commit", h, h, TRUE, {})]
  /\ trouble' = trouble + 1
  /\ UNCHANGED <<forge, readings, index>>

-----------------------------------------------------------------------------
(* A pass at one subject.                                                  *)

(* Snapshot::indexed, and what the pass makes of it.                       *)
Index(a) ==
  /\ task[a].pc = "index"
  /\ LET found == index[task[a].head] IN
     task' = [task EXCEPT ![a].indexed = found,
                          ![a].pc = IF task[a].open /\ found = 0 THEN "record" ELSE "observe"]
  /\ UNCHANGED <<forge, readings, index, trouble>>

Reading(t) == [subject |-> t.subject, head |-> t.head, analysis |-> 0, runs |-> 0]

(* Snapshot::observe, the first sighting of a head on its subject: the     *)
(* link is a statement of its own.                                         *)
ObserveNew(a) ==
  LET t == task[a] IN
  /\ t.pc = "observe" /\ Of(t.subject, t.head) = {}
  /\ readings' = Append(readings, Reading(t))
  /\ task' = [task EXCEPT ![a] =
       IF t.indexed = 0 THEN Done(t)
       ELSE [t EXCEPT !.pc = "link", !.snapshot = Len(readings) + 1]]
  /\ UNCHANGED <<forge, index, trouble>>

Link(a) ==
  LET t == task[a] IN
  /\ t.pc = "link"
  /\ readings' = [readings EXCEPT ![t.snapshot].analysis = t.indexed]
  /\ task' = [task EXCEPT ![a] = Done(t)]
  /\ UNCHANGED <<forge, index, trouble>>

(* Faulty variant: a head seen before keeps the link it has.               *)
KeepAnalysis(i, indexed) == readings[i].analysis
(* A reading does not point at itself.                                     *)
NewAnalysis(i, indexed) == IF indexed = i THEN 0 ELSE indexed
(* Snapshot::observe, a head seen before on its subject.                   *)
ObserveAgain(a) ==
  LET t == task[a]
      previous == Max(Of(t.subject, t.head)) IN
  /\ t.pc = "observe" /\ Of(t.subject, t.head) # {}
  /\ readings' = [readings EXCEPT ![previous].analysis = NewAnalysis(previous, t.indexed)]
  /\ task' = [task EXCEPT ![a] = Done(t)]
  /\ UNCHANGED <<forge, index, trouble>>

-----------------------------------------------------------------------------
(* runner::run_target_in_mirror.                                           *)

(* Faulty variant: always a new row.                                       *)
RecordAnother(a) ==
  LET t == task[a] IN
  /\ t.pc = "record"
  /\ readings' = Append(readings, Reading(t))
  /\ task' = [task EXCEPT ![a].pc = "analyse", ![a].snapshot = Len(readings) + 1]
  /\ UNCHANGED <<forge, index, trouble>>
(* Snapshot::record takes over the first reading of the head with no       *)
(* analysis behind it.                                                     *)
Record(a) ==
  LET t == task[a]
      unscanned == {i \in Of(t.subject, t.head) : Bare(i)} IN
  /\ t.pc = "record"
  /\ readings' = IF unscanned = {} THEN Append(readings, Reading(t)) ELSE readings
  /\ task' = [task EXCEPT ![a].pc = "analyse",
       ![a].snapshot = IF unscanned = {} THEN Len(readings) + 1 ELSE Min(unscanned)]
  /\ UNCHANGED <<forge, index, trouble>>

(* One analyzer's run, whatever it found or failed of.                     *)
RecordRun(a) ==
  LET t == task[a] IN
  /\ t.pc = "analyse" /\ t.done < ANALYZERS
  /\ readings' = [readings EXCEPT ![t.snapshot].runs = @ + 1]
  /\ task' = [task EXCEPT ![a].done = @ + 1]
  /\ UNCHANGED <<forge, index, trouble>>

(* Faulty variant: the head counts as analysed from its first run on.      *)
MarkEarly(a) ==
  LET t == task[a] IN
  /\ t.pc = "analyse" /\ t.done > 0
  /\ index' = [index EXCEPT ![t.head] = t.snapshot]
  /\ task' = IF t.done = ANALYZERS THEN [task EXCEPT ![a] = Done(t)] ELSE task
  /\ UNCHANGED <<forge, readings, trouble>>
(* Snapshot::mark_analysed.                                                *)
MarkAnalysed(a) ==
  LET t == task[a] IN
  /\ t.pc = "analyse" /\ t.done = ANALYZERS
  /\ index' = IF readings[t.snapshot].analysis = 0
              THEN [index EXCEPT ![t.head] = t.snapshot] ELSE index
  /\ task' = [task EXCEPT ![a] = Done(t)]
  /\ UNCHANGED <<forge, readings, trouble>>

-----------------------------------------------------------------------------
(* The rest of a pass.                                                     *)

(* The forge lists its changes as they are now.                            *)
ListChanges(a) ==
  /\ task[a].pc = "list"
  /\ task' = [task EXCEPT ![a].pc = "turn", ![a].by = "change",
       ![a].todo = {[subject |-> c, head |-> tip[c], open |-> open[c]] : c \in Change}]
  /\ UNCHANGED <<forge, readings, index, trouble>>

ReadChange(a) ==
  /\ task[a].pc = "turn"
  /\ \E c \in task[a].todo :
       task' = [task EXCEPT ![a] =
         At("index", "change", c.subject, c.head, c.open, task[a].todo \ {c})]
  /\ UNCHANGED <<forge, readings, index, trouble>>

EndPass(a) ==
  /\ task[a].pc = "turn" /\ task[a].todo = {}
  /\ task' = [task EXCEPT ![a] = Idle]
  /\ UNCHANGED <<forge, readings, index, trouble>>

Stop(a) ==
  /\ task[a] # Idle
  /\ trouble < MaxTrouble
  /\ task' = [task EXCEPT ![a] = Idle]
  /\ trouble' = trouble + 1
  /\ UNCHANGED <<forge, readings, index>>

-----------------------------------------------------------------------------
Progress(a) ==
  \/ Index(a) \/ ObserveNew(a) \/ Link(a) \/ ObserveAgain(a)
  \/ Record(a) \/ RecordRun(a) \/ MarkAnalysed(a)
  \/ ListChanges(a) \/ ReadChange(a) \/ EndPass(a)

Next ==
  \/ \E b \in Branch, h \in CommitSha : MoveDefault(b, h)
  \/ \E c \in Change, h \in CommitSha : Push(c, h)
  \/ \E c \in Change : OpenOrClose(c)
  \/ \E a \in Actor :
       \/ BeginPass(a) \/ Progress(a) \/ Stop(a)
       \/ \E c \in Change : BeginScan(a, c)
       \/ \E h \in CommitSha : BeginCommit(a, h)

Spec == Init /\ [][Next]_vars

(* The schedule asks for the project again and again and some worker takes *)
(* the job (see JobQueue); whoever is at it goes on unless it stops.       *)
Fairness ==
  /\ WF_vars(\E a \in Actor : BeginPass(a))
  /\ \A a \in Actor : WF_vars(Progress(a))

FairSpec == Spec /\ Fairness

-----------------------------------------------------------------------------
(* Every id a task or a row holds is a reading's.                          *)
TypeOK ==
  /\ default \in [name : Branch, head : CommitSha]
  /\ tip \in [Change -> CommitSha]
  /\ open \in [Change -> BOOLEAN]
  /\ readings \in Seq(Snapshot)
  /\ index \in [CommitSha -> Ids \cup {0}]
  /\ task \in [Actor -> Task]
  /\ trouble \in 0 .. MaxTrouble
  /\ \A i \in Ids : readings[i].analysis \in Ids \cup {0}
  /\ \A a \in Actor : task[a] # Idle =>
       /\ task[a].indexed \in Ids \cup {0}
       /\ task[a].snapshot \in Ids \cup {0}
       /\ task[a].pc \in {"link", "analyse"} => task[a].snapshot # 0
       /\ task[a].pc = "link" => task[a].indexed # 0

(* What is looked up for a head was analysed as that head, to the end, and *)
(* is shown with its own runs: an analysis that stopped half way is never  *)
(* what another reading of the head is shown with.  And a reading's runs   *)
(* are those of one analysis: neither a scan asked for again nor one that  *)
(* had to start over adds to an earlier one's.                             *)
AnalysesWhole ==
  /\ TypeOK
  /\ \A i \in Ids : readings[i].runs <= ANALYZERS
  /\ \A h \in CommitSha : index[h] # 0 =>
       /\ readings[index[h]].head = h
       /\ readings[index[h]].analysis = 0
       /\ Whole(index[h])
  /\ \A i \in Ids : readings[i].analysis # 0 =>
       /\ readings[ShownWith(i)].head = readings[i].head
       /\ Whole(ShownWith(i))

(* A head that waits for its analysis has one reading on its subject, not  *)
(* one for every poll that saw it (docs/architecture.md:84-88).            *)
OneBareReading ==
  \A i, j \in Ids :
    /\ Bare(i) /\ Bare(j)
    /\ readings[i].subject = readings[j].subject
    /\ readings[i].head = readings[j].head
    => i = j

(* No pass analyses a head that has been analysed, whoever analysed it,    *)
(* and on whichever subject (docs/architecture.md:78-79).                  *)
NeverAnalysedAgain ==
  \A a \in Actor :
    task[a] # Idle /\ task[a].by \in {"branch", "change"}
      /\ task[a].pc \in {"record", "analyse"}
    => index[task[a].head] = 0

(* The head of the default branch and of every open change comes to be     *)
(* shown with a whole analysis, unless it moves on, whatever stopped or    *)
(* was asked for in between.                                               *)
Watched(s, h) ==
  \/ default = [name |-> s, head |-> h]
  \/ s \in Change /\ open[s] /\ tip[s] = h
Analysed(s, h) ==
  Of(s, h) # {} /\ Whole(ShownWith(Max(Of(s, h))))
EveryHeadShown ==
  \A s \in Branch \cup Change, h \in CommitSha :
    Watched(s, h) ~> Analysed(s, h) \/ ~Watched(s, h)
=============================================================================
