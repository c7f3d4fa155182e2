--------------------------- MODULE ReportingProofs ---------------------------
(***************************************************************************)
(* Proofs about what passes between the server and a forge: that the       *)
(* properties of Reporting hold for any number of commits, actors and      *)
(* mishaps, and those of ForgeReads for any number of repositories, names  *)
(* and installations.                                                      *)
(***************************************************************************)
EXTENDS Reporting, ForgeReads, WellFoundedInduction, SequenceTheorems, TLAPS

-----------------------------------------------------------------------------
(* The newest check of a head.                                                *)

(* Of some numbers there is a least one.                                   *)
LEMMA LeastNat ==
  ASSUME NEW S \in SUBSET Nat, S # {}
  PROVE  \E x \in S : \A y \in S : x <= y
  <1>1. PICK x \in S : \A y \in S : ~ (<<y, x>> \in OpToRel(<, Nat))
    BY NatLessThanWellFounded, WFMin
  <1>2. \A y \in S : ~ (y < x)
    BY <1>1 DEF OpToRel
  <1> QED  BY <1>2

(* The greatest is the least of the bounds.                                *)
LEMMA GreatestId ==
  ASSUME NEW n \in Nat, NEW S \in SUBSET (1 .. n), S # {}
  PROVE  Max(S) \in S
  <1> DEFINE Above == {u \in Nat : \A x \in S : x <= u}
  <1>1. n \in Above
    OBVIOUS
  <1>2. PICK u \in Above : \A v \in Above : u <= v
    <2>1. Above \in SUBSET Nat /\ Above # {}
      BY <1>1
    <2> HIDE DEF Above
    <2> QED  BY <2>1, LeastNat
  <1>3. u \in S
    <2> SUFFICES ASSUME u \notin S  PROVE FALSE
      OBVIOUS
    <2>1. \A x \in S : x <= u /\ x # u /\ x \in Int /\ x >= 1
      BY <1>2
    <2>2. u - 1 \in Nat /\ u \in Nat /\ \A x \in S : x <= u - 1
      <3>1. u \in Nat
        BY <1>2
      <3>2. PICK x \in S : TRUE
        OBVIOUS
      <3>3. \A y \in S : y <= u - 1
        BY <2>1, <3>1
      <3> QED  BY <2>1, <3>1, <3>2, <3>3
    <2>3. u <= u - 1
      BY <1>2, <2>2
    <2> QED  BY <2>2, <2>3
  <1>4. \A y \in S : u >= y
    BY <1>2
  <1> QED  BY <1>3, <1>4, Zenon DEF Max

-----------------------------------------------------------------------------
(* The invariant.                                                          *)

(* What the one who writes holds of the check of its head.                 *)
Sends(t) ==
  /\ t.check = 0 => ~ Open(t.head)
  /\ t.check # 0 =>
       /\ t.check \in DOMAIN checks /\ checks[t.check].head = t.head
       /\ row[t.head].check \in {0, t.check}
       /\ t.check \notin loose =>
            /\ row[t.head].check = t.check /\ row[t.head].state # "completed"
            /\ Rank(row[t.head].state) <= Rank(State(t.step))
Saves(t) ==
  /\ t.check \in DOMAIN checks /\ checks[t.check].head = t.head
  /\ t.check \notin loose => checks[t.check].state = State(t.step)
  /\ row[t.head].check = t.check \/ ~ Open(t.head)
Writes ==
  \A a \in Actor : /\ task[a].pc = "send" => Sends(task[a])
                   /\ task[a].pc = "save" => Saves(task[a])

(* An open check of a head is on record, or about to be.                   *)
OpenOnRecord ==
  \A h \in CommitSha : \A c \in Checks(h) \ loose :
    checks[c].state # "completed" =>
      \/ c = row[h].check
      \/ \E a \in Actor : task[a].pc = "save" /\ task[a].head = h /\ task[a].check = c

IInv == TypeOK /\ RowBehindForge /\ Writes /\ OpenOnRecord

-----------------------------------------------------------------------------
(* Types.                                                                  *)

ForgeCheck == [head : CommitSha, state : CheckState, verdict : Nat]
Row == [check : {0} \cup DOMAIN checks, state : CheckState]
Work ==
  [pc : {"write", "send", "save", "analyse"}, step : Step, head : CommitSha,
   change : BOOLEAN, check : Nat, verdict : Nat]
WriterKnown == \A a \in Actor : (task[a].pc \in {"send", "save"}) <=> (writer = a)

(* Whoever is not idle is at work.                                         *)
LEMMA WorkOrIdle ==
  /\ \A t \in Task : t = Idle \/ t \in Work
  /\ Work \subseteq Task /\ Idle \in Task
  /\ \A t \in Work : t # Idle /\ t.pc # "idle"
  /\ Idle.pc = "idle"
  BY DEF Task, Work, Idle

(* Whoever has something to tell starts with no check in hand.             *)
LEMMA AtTyped ==
  ASSUME NEW step \in Step, NEW h \in CommitSha, NEW change \in BOOLEAN
  PROVE  At(step, h, change) \in Task /\ At(step, h, change).pc = "write"
  <1>1. At(step, h, change) \in Work /\ At(step, h, change).pc = "write"
    BY DEF At, Work
  <1> QED  BY <1>1, WorkOrIdle

(* A task is about a commit.                                               *)
LEMMA WorkHead ==
  ASSUME TypeOK, NEW a \in Actor, task[a].pc # "idle"
  PROVE  task[a] \in Work /\ task[a].head \in CommitSha
  <1>1. task[a] \in Work
    BY WorkOrIdle DEF TypeOK
  <1> QED  BY <1>1 DEF Work

(* A write goes through its stages with the head and the step it is of.    *)
LEMMA SentTyped ==
  ASSUME NEW t \in Work, NEW n \in Nat
  PROVE  /\ [t EXCEPT !.pc = "save", !.check = n] \in Work
         /\ [t EXCEPT !.pc = "save", !.check = n].pc = "save"
         /\ [t EXCEPT !.pc = "save", !.check = n].step = t.step
         /\ [t EXCEPT !.pc = "save", !.check = n].head = t.head
         /\ [t EXCEPT !.pc = "save", !.check = n].check = n
  BY Zenon DEF Work

(* A scan that told of its start goes on to the analysis.                  *)
LEMMA ToAnalysis ==
  ASSUME NEW t \in Work
  PROVE  [t EXCEPT !.pc = "analyse"] \in Work /\ [t EXCEPT !.pc = "analyse"].pc = "analyse"
  BY Zenon DEF Work

(* Whoever leaves a write goes on to the analysis or is done.              *)
LEMMA Leaves ==
  ASSUME TypeOK, NEW a \in Actor, task[a].pc # "idle", Leave(a)
  PROVE  /\ task' \in [Actor -> Task] /\ recorded' \subseteq CommitSha
         /\ \A b \in Actor \ {a} : task'[b] = task[b]
         /\ task'[a].pc \in {"idle", "analyse"}
  <1>1. task[a] \in Work
    BY WorkOrIdle DEF TypeOK
  <1>2. task[a].head \in CommitSha
    BY <1>1 DEF Work
  <1>3. PICK t : t = IF task[a].step = "started" THEN [task[a] EXCEPT !.pc = "analyse"] ELSE Idle
    OBVIOUS
  <1>4. task' = [task EXCEPT ![a] = t]
    BY <1>3, Zenon DEF Leave
  <1>5. t \in Task /\ t.pc \in {"idle", "analyse"}
    <2>1. CASE task[a].step = "started"
      BY <1>1, <1>3, <2>1, ToAnalysis, WorkOrIdle
    <2>2. CASE task[a].step # "started"
      BY <1>3, <2>2, WorkOrIdle
    <2> QED  BY <2>1, <2>2
  <1>6. recorded' \subseteq CommitSha
    BY <1>2 DEF Leave, TypeOK
  <1> QED  BY <1>4, <1>5, <1>6 DEF TypeOK

-----------------------------------------------------------------------------
(* Steps that touch neither the forge's checks nor the record of them.     *)

(* What is told and written is as it was, so all that was said of it holds. *)
LEMMA QuietSteps ==
  ASSUME IInv, TypeOK', UNCHANGED <<checks, row, loose>>,
         \A a \in Actor : task[a].pc = "save" => task'[a] = task[a],
         \A a \in Actor : task'[a].pc \in {"send", "save"} =>
           task'[a] = task[a] \/ (task'[a].pc = "send" /\ Sends(task'[a]))
  PROVE  IInv'
  <1> USE DEF Open, Known, Checks
  <1>1. RowBehindForge'
    BY DEF IInv, RowBehindForge, Rank
  <1>2. \A a \in Actor : task'[a].pc = "send" => Sends(task'[a])
    BY DEF IInv, Writes
  <1>3. \A a \in Actor : task'[a].pc = "save" => Saves(task'[a])
    BY DEF IInv, Writes
  <1>4. Writes'
    BY <1>2, <1>3 DEF Writes, Sends, Saves, Rank, State
  <1>5. OpenOnRecord'
    BY DEF IInv, OpenOnRecord
  <1> QED  BY <1>1, <1>4, <1>5 DEF IInv

(* What an actor begins to tell it has not begun to write.                 *)
LEMMA Begins ==
  ASSUME IInv, NEW a \in Actor, task[a].pc \notin {"send", "save"},
         NEW t \in Task, t.pc \notin {"send", "save"}, task' = [task EXCEPT ![a] = t],
         UNCHANGED <<watched, on, checks, row, writer, loose>>, asked' \subseteq asked,
         analysis' \in [CommitSha -> Nat], recorded' \subseteq CommitSha,
         trouble' \in 0 .. MaxTrouble
  PROVE  IInv'
  <1>1. TypeOK
    BY DEF IInv
  <1>2. \A b \in Actor : task'[b] = IF b = a THEN t ELSE task[b]
    BY <1>1 DEF TypeOK
  <1>3. task' \in [Actor -> Task]
    BY <1>1 DEF TypeOK
  <1>4. \A b \in Actor : task'[b].pc \in {"send", "save"} <=> writer' = b
    BY <1>1, <1>2 DEF TypeOK
  <1>5. TypeOK'
    BY <1>1, <1>3, <1>4 DEF TypeOK, Known
  <1> QED  BY <1>2, <1>5, QuietSteps

(* So do those that scan, whether or not they have someone to tell.        *)
LEMMA Scans ==
  ASSUME IInv, NEW a \in Actor, task[a] = Idle, NEW h \in CommitSha, NEW change \in BOOLEAN,
         Scan(a, h, change), UNCHANGED <<watched, on, checks, row, writer, loose>>,
         asked' \subseteq asked, trouble' \in 0 .. MaxTrouble
  PROVE  IInv'
  <1>1. TypeOK /\ task[a].pc = "idle"
    BY WorkOrIdle DEF IInv
  <1>2. CASE on
    <2>1. PICK t : t = At("started", h, change)
      OBVIOUS
    <2>2. t \in Task /\ t.pc = "write"
      BY <2>1, AtTyped DEF Step
    <2> QED  BY <1>1, <1>2, <2>1, <2>2, Begins DEF Scan, TypeOK
  <1>3. CASE ~ on
    <2>1. analysis' \in [CommitSha -> Nat] /\ recorded' \subseteq CommitSha /\ task' = task
      <3>1. analysis[h] + 1 \in Nat
        BY <1>1 DEF TypeOK
      <3> QED  BY <1>1, <1>3, <3>1 DEF Scan, TypeOK
    <2>2. TypeOK'
      BY <1>1, <2>1 DEF TypeOK, Known
    <2> QED  BY <2>1, <2>2, QuietSteps
  <1> QED  BY <1>2, <1>3

(* What happens before an actor writes, or between its two writes.         *)
LEMMA BeginSteps ==
  ASSUME IInv, NEW a \in Actor, NEW h \in CommitSha,
         \/ Moved(a, h) \/ AskScan(a, h)
         \/ \E change \in BOOLEAN : Visit(a, h, change)
         \/ \E g \in CommitSha : RerunScan(a, h, g)
  PROVE  IInv'
  <1>0. TypeOK /\ task[a] = Idle /\ task[a].pc = "idle" /\ MaxTrouble \in Nat
    BY WorkOrIdle, ReportingAssumption DEF IInv, Moved, AskScan, Visit, RerunScan
  <1>1. CASE Moved(a, h)
    <2>1. PICK t : t = At("queued", h, FALSE)
      OBVIOUS
    <2>2. t \in Task /\ t.pc = "write"
      BY <2>1, AtTyped DEF Step
    <2> QED  BY <1>0, <1>1, <2>1, <2>2, Begins DEF Moved, world, TypeOK
  <1>2. CASE AskScan(a, h)
    <2>1. trouble' \in 0 .. MaxTrouble
      BY <1>0, <1>2 DEF AskScan, TypeOK
    <2> QED  BY <1>0, <1>2, <2>1, Scans DEF AskScan
  <1>3. ASSUME NEW change \in BOOLEAN, Visit(a, h, change)
        PROVE  IInv'
    <2>1. /\ UNCHANGED <<watched, on, checks, asked, row, writer, loose>>
          /\ trouble' \in 0 .. MaxTrouble
      BY <1>0, <1>3 DEF Visit, TypeOK
    <2>2. CASE analysis[h] = 0
      BY <1>0, <1>3, <2>1, <2>2, Scans DEF Visit
    <2>3. CASE analysis[h] # 0 /\ on
      <3>1. PICK t : t = At("settled", h, change)
        OBVIOUS
      <3>2. t \in Task /\ t.pc = "write"
        BY <3>1, AtTyped DEF Step
      <3>3. task' = [task EXCEPT ![a] = t] /\ UNCHANGED <<analysis, recorded>>
        BY <1>3, <2>3, <3>1 DEF Visit
      <3> QED  BY <1>0, <2>1, <3>2, <3>3, Begins DEF TypeOK
    <2>4. CASE analysis[h] # 0 /\ ~ on
      <3>1. UNCHANGED <<analysis, task>> /\ recorded' \subseteq CommitSha
        BY <1>0, <1>3, <2>4 DEF Visit, TypeOK
      <3>2. TypeOK'
        BY <1>0, <2>1, <3>1 DEF TypeOK, Known
      <3> QED  BY <2>1, <3>1, <3>2, QuietSteps
    <2> QED  BY <2>2, <2>3, <2>4
  <1>4. ASSUME NEW g \in CommitSha, RerunScan(a, h, g)
        PROVE  IInv'
    BY <1>0, <1>4, Scans DEF RerunScan, TypeOK
  <1> QED  BY <1>1, <1>2, <1>3, <1>4

(* The analysis between the two writes of a scan.                          *)
LEMMA AnalysisSteps ==
  ASSUME IInv, NEW a \in Actor,
         Record(a) \/ Analyse(a) \/ FailAnalysis(a) \/ WaitForBudget(a)
  PROVE  IInv'
  <1>0. /\ TypeOK /\ task[a].pc = "analyse" /\ MaxTrouble \in Nat
        /\ task[a] \in Work /\ task[a].head \in CommitSha /\ task[a].change \in BOOLEAN
    <2>1. TypeOK /\ task[a].pc = "analyse"
      BY DEF IInv, Record, Analyse, FailAnalysis, WaitForBudget
    <2>2. task[a] \in Work
      BY <2>1, WorkOrIdle DEF TypeOK
    <2> QED  BY <2>1, <2>2, ReportingAssumption DEF Work
  <1>1. Stored(task[a]) => analysis' \in [CommitSha -> Nat] /\ recorded' \subseteq CommitSha
    <2>1. analysis[task[a].head] + 1 \in Nat
      BY <1>0 DEF TypeOK
    <2> QED  BY <1>0, <2>1 DEF Stored, TypeOK
  <1>2. CASE Record(a)
    <2>1. recorded' \subseteq CommitSha /\ UNCHANGED <<watched, on, analysis, checks, asked, row,
                                                      writer, task, loose, trouble>>
      BY <1>0, <1>2 DEF Record, TypeOK
    <2>2. TypeOK'
      BY <1>0, <2>1 DEF TypeOK, Known
    <2> QED  BY <2>1, <2>2, QuietSteps
  <1>3. CASE Analyse(a)
    <2>1. PICK t : t = At("analysed", task[a].head, task[a].change)
      OBVIOUS
    <2>2. t \in Task /\ t.pc = "write"
      BY <1>0, <2>1, AtTyped DEF Step
    <2> QED  BY <1>0, <1>1, <1>3, <2>1, <2>2, Begins DEF Analyse, TypeOK
  <1>4. CASE FailAnalysis(a)
    <2>1. PICK t : t = At("unfinished", task[a].head, task[a].change)
      OBVIOUS
    <2>2. t \in Task /\ t.pc = "write"
      BY <1>0, <2>1, AtTyped DEF Step
    <2>3. analysis' \in [CommitSha -> Nat] /\ recorded' \subseteq CommitSha
      BY <1>0, <1>1, <1>4 DEF FailAnalysis, TypeOK
    <2>4. trouble' \in 0 .. MaxTrouble
      BY <1>0, <1>4 DEF FailAnalysis, TypeOK
    <2> QED  BY <1>0, <1>4, <2>1, <2>2, <2>3, <2>4, Begins DEF FailAnalysis
  <1>5. CASE WaitForBudget(a)
    <2>1. trouble' \in 0 .. MaxTrouble
      BY <1>0, <1>5 DEF WaitForBudget, TypeOK
    <2> QED  BY <1>0, <1>5, <2>1, Begins, WorkOrIdle DEF WaitForBudget, world, TypeOK
  <1> QED  BY <1>2, <1>3, <1>4, <1>5

(* What the forge and the project's owner do that no check is touched by.  *)
LEMMA WorldSteps ==
  ASSUME IInv,
         \/ Switch
         \/ \E h \in CommitSha : Watch(h) \/ DropRequest(h) \/ ScanCommit(h)
         \/ UNCHANGED vars
  PROVE  IInv'
  <1>0. TypeOK /\ MaxTrouble \in Nat
    BY ReportingAssumption DEF IInv
  <1>1. UNCHANGED <<recorded, checks, row, writer, task, loose>>
    BY DEF Switch, Watch, DropRequest, ScanCommit, vars
  <1>2. /\ watched' \subseteq CommitSha /\ asked' \subseteq CommitSha /\ on' \in BOOLEAN
        /\ analysis' \in [CommitSha -> Nat] /\ trouble' \in 0 .. MaxTrouble
    <2>1. CASE Switch
      BY <1>0, <2>1 DEF Switch, TypeOK
    <2>2. ASSUME NEW h \in CommitSha, Watch(h) \/ DropRequest(h)
          PROVE  /\ watched' \subseteq CommitSha /\ asked' \subseteq CommitSha
                 /\ UNCHANGED <<on, analysis>> /\ trouble' \in 0 .. MaxTrouble
      BY <1>0, <2>2 DEF Watch, DropRequest, TypeOK
    <2>3. ASSUME NEW h \in CommitSha, ScanCommit(h)
          PROVE  /\ UNCHANGED <<watched, asked, on>>
                 /\ analysis' \in [CommitSha -> Nat] /\ trouble' \in 0 .. MaxTrouble
      <3>1. analysis[h] + 1 \in Nat
        BY <1>0 DEF TypeOK
      <3> QED  BY <1>0, <2>3, <3>1 DEF ScanCommit, TypeOK
    <2>4. CASE UNCHANGED vars
      BY <1>0, <2>4 DEF vars, TypeOK
    <2> QED  BY <1>0, <2>1, <2>2, <2>3, <2>4 DEF TypeOK
  <1>3. TypeOK'
    BY <1>0, <1>1, <1>2 DEF TypeOK, Known
  <1> QED  BY <1>1, <1>3, QuietSteps

-----------------------------------------------------------------------------
(* Reporting::write.                                                       *)

(* Whoever sends or saves holds WRITER, and nobody else does either.       *)
LEMMA OneWriter ==
  ASSUME TypeOK, NEW a \in Actor, task[a].pc \in {"send", "save"} \/ writer = Nobody
  PROVE  \A b \in Actor \ {a} : task[b].pc \notin {"send", "save"}
  BY ReportingAssumption DEF TypeOK, Nobody

(* The row tells which check to send to.                                   *)
LEMMA LoadStep ==
  ASSUME IInv, NEW a \in Actor, Load(a)
  PROVE  IInv'
  <1>0. /\ TypeOK /\ task[a].pc = "write" /\ writer = Nobody /\ Nobody \notin Actor
        /\ UNCHANGED <<watched, on, analysis, checks, asked, row, loose, trouble>>
    BY ReportingAssumption DEF IInv, Load, Free, Nobody
  <1>1. task[a] \in Work
    BY <1>0, WorkOrIdle DEF TypeOK
  <1>2. \A b \in Actor : task[b].pc \notin {"send", "save"}
    BY <1>0, OneWriter
  <1>3. CASE Covered(task[a])
    <2>1. Leave(a) /\ writer' = writer
      BY <1>3 DEF Load
    <2>2. /\ task' \in [Actor -> Task] /\ recorded' \subseteq CommitSha
          /\ \A b \in Actor \ {a} : task'[b] = task[b]
          /\ task'[a].pc \in {"idle", "analyse"}
      BY <1>0, <2>1, Leaves
    <2>3. TypeOK'
      BY <1>0, <1>2, <2>1, <2>2 DEF TypeOK, Known
    <2> QED  BY <1>0, <1>2, <2>2, <2>3, QuietSteps
  <1>4. CASE ~ Covered(task[a])
    <2>1. PICK n, v, t :
            /\ n = (IF Open(task[a].head) THEN row[task[a].head].check ELSE 0)
            /\ v = Verdict(task[a])
            /\ t = [task[a] EXCEPT !.pc = "send", !.verdict = v, !.check = n]
      OBVIOUS
    <2>2. task' = [task EXCEPT ![a] = t] /\ writer' = a /\ recorded' = recorded
      BY <1>4, <2>1, Zenon DEF Load
    <2>3. /\ task[a].head \in CommitSha /\ task[a].step \in Step
          /\ row[task[a].head].check \in {0} \cup DOMAIN checks
          /\ row[task[a].head].state \in CheckState
          /\ analysis[task[a].head] \in Nat
      <3>1. task[a].head \in CommitSha /\ task[a].step \in Step
        BY <1>1 DEF Work
      <3>2. row[task[a].head] \in [check : {0} \cup DOMAIN checks, state : CheckState]
        BY <1>0, <3>1 DEF TypeOK
      <3> QED  BY <1>0, <3>1, <3>2 DEF TypeOK
    <2>4. n \in Nat /\ v \in Nat
      <3>1. DOMAIN checks \subseteq Nat
        BY <1>0 DEF TypeOK
      <3> QED  BY <2>1, <2>3, <3>1 DEF Verdict
    <2>5. /\ t \in Work /\ t.pc = "send" /\ t.step = task[a].step /\ t.head = task[a].head
          /\ t.check = n
      <3>1. t = [task[a] EXCEPT !.pc = "send", !.verdict = v, !.check = n]
        BY <2>1
      <3>2. PICK w : w = task[a]
        OBVIOUS
      <3>3. w \in Work /\ n \in Nat /\ v \in Nat
            /\ t = [w EXCEPT !.pc = "send", !.verdict = v, !.check = n]
        BY <1>1, <2>4, <3>1, <3>2
      <3>4. t \in Work /\ t.pc = "send" /\ t.step = w.step /\ t.head = w.head /\ t.check = n
        BY <3>3, Zenon DEF Work
      <3> QED  BY <3>2, <3>4
    <2>6. Sends(t)
      <3>1. CASE ~ Open(task[a].head)
        BY <2>1, <2>5, <3>1 DEF Sends
      <3>2. CASE Open(task[a].head)
        <4>1. /\ n = row[task[a].head].check /\ n # 0 /\ n \in DOMAIN checks
              /\ row[task[a].head].state \in {"queued", "in_progress"}
          BY <2>1, <2>3, <3>2 DEF Open, Known, CheckState
        <4>2. checks[n].head = task[a].head
          BY <1>0, <2>3, <4>1 DEF TypeOK, Known
        <4>3. Rank(row[task[a].head].state) <= Rank(State(task[a].step))
          <5>1. CASE task[a].step = "queued"
            BY <1>4, <3>2, <5>1 DEF Covered, Open
          <5>2. CASE task[a].step = "started"
            BY <1>4, <3>2, <4>1, <5>2 DEF Covered, Rank, State
          <5>3. CASE task[a].step \notin {"queued", "started"}
            BY <4>1, <5>3 DEF Rank, State
          <5> QED  BY <5>1, <5>2, <5>3
        <4> QED  BY <2>5, <4>1, <4>2, <4>3 DEF Sends
      <3> QED  BY <3>1, <3>2
    <2>7. /\ task' \in [Actor -> Task]
          /\ \A b \in Actor : task'[b] = IF b = a THEN t ELSE task[b]
      BY <1>0, <2>2, <2>5, WorkOrIdle DEF TypeOK
    <2>8. TypeOK'
      BY <1>0, <1>2, <2>2, <2>5, <2>7 DEF TypeOK, Known
    <2> QED  BY <1>0, <1>2, <2>5, <2>6, <2>7, <2>8, QuietSteps
  <1> QED  BY <1>3, <1>4

(* What the forge refuses is given up.                                     *)
LEMMA RefuseStep ==
  ASSUME IInv, NEW a \in Actor, Refuse(a)
  PROVE  IInv'
  <1>0. /\ TypeOK /\ task[a].pc = "send" /\ Nobody \notin Actor /\ MaxTrouble \in Nat
        /\ UNCHANGED <<watched, on, analysis, checks, asked, row, loose>>
        /\ Leave(a) /\ writer' = Nobody
    BY ReportingAssumption DEF IInv, Refuse, Nobody
  <1>1. \A b \in Actor \ {a} : task[b].pc \notin {"send", "save"}
    BY <1>0, OneWriter
  <1>2. /\ task' \in [Actor -> Task] /\ recorded' \subseteq CommitSha
        /\ \A b \in Actor \ {a} : task'[b] = task[b]
        /\ task'[a].pc \in {"idle", "analyse"}
    BY <1>0, Leaves
  <1>3. trouble' \in 0 .. MaxTrouble
    BY <1>0 DEF Refuse, TypeOK
  <1>4. TypeOK'
    BY <1>0, <1>1, <1>2, <1>3 DEF TypeOK, Known
  <1> QED  BY <1>0, <1>1, <1>2, <1>4, QuietSteps

-----------------------------------------------------------------------------
(* The forge's checks.                                                     *)

ChecksTyped == checks \in Seq([head : CommitSha, state : CheckState, verdict : Nat])

(* The forge appends a check or replaces what one says.                    *)
LEMMA CheckCreated ==
  ASSUME ChecksTyped, NEW new \in ForgeCheck, checks' = Append(checks, new)
  PROVE  /\ ChecksTyped' /\ DOMAIN checks' = DOMAIN checks \cup {Len(checks) + 1}
         /\ Len(checks) + 1 \in Nat \ ({0} \cup DOMAIN checks)
         /\ checks'[Len(checks) + 1] = new
         /\ \A c \in DOMAIN checks : checks'[c] = checks[c]
  BY DEF ChecksTyped, ForgeCheck

(* An update leaves every other check as it is.                            *)
LEMMA CheckReplaced ==
  ASSUME ChecksTyped, NEW i \in DOMAIN checks, NEW new \in ForgeCheck,
         checks' = [checks EXCEPT ![i] = new]
  PROVE  /\ ChecksTyped' /\ DOMAIN checks' = DOMAIN checks /\ i \in Nat \ {0}
         /\ \A c \in DOMAIN checks : checks'[c] = IF c = i THEN new ELSE checks[c]
  BY ExceptSeq DEF ChecksTyped, ForgeCheck

(* A check that is set back stays with its head.                           *)
LEMMA ResetTyped ==
  ASSUME NEW c \in ForgeCheck
  PROVE  /\ [c EXCEPT !.state = "queued", !.verdict = 0] \in ForgeCheck
         /\ [c EXCEPT !.state = "queued", !.verdict = 0].head = c.head
  BY DEF ForgeCheck, CheckState

(* A check of the forge is a record of its head and state.                 *)
LEMMA CheckTyped ==
  ASSUME TypeOK, NEW c \in DOMAIN checks
  PROVE  checks[c].head \in CommitSha /\ checks[c].state \in CheckState
  <1>1. checks \in Seq(ForgeCheck)
    BY DEF TypeOK, ForgeCheck
  <1>2. checks[c] \in ForgeCheck
    BY <1>1
  <1> QED  BY <1>2 DEF ForgeCheck

(* What is on record is of its head.                                       *)
LEMMA RowTyped ==
  ASSUME TypeOK, NEW h \in CommitSha
  PROVE  /\ row[h].check \in {0} \cup DOMAIN checks /\ row[h].state \in CheckState
         /\ Known(h) => row[h].check \in DOMAIN checks /\ checks[row[h].check].head = h
         /\ ~ (0 \in DOMAIN checks)
  <1>1. row[h] \in [check : {0} \cup DOMAIN checks, state : CheckState]
    BY DEF TypeOK
  <1>2. DOMAIN checks = 1 .. Len(checks) /\ Len(checks) \in Nat
    BY DEF TypeOK
  <1> QED  BY <1>1, <1>2 DEF TypeOK, Known

(* A check is created where none is open, and an open one is taken on.     *)
LEMMA SendStep ==
  ASSUME IInv, NEW a \in Actor, Send(a)
  PROVE  IInv'
  <1>0. /\ TypeOK /\ task[a].pc = "send" /\ Sends(task[a])
        /\ UNCHANGED <<watched, on, analysis, recorded, asked, row, writer, loose, trouble>>
    BY DEF IInv, Writes, Send, world
  <1>1. /\ task[a] \in Work /\ task[a].head \in CommitSha /\ task[a].step \in Step
        /\ task[a].verdict \in Nat
    <2>1. task[a] \in Work
      BY <1>0, WorkOrIdle DEF TypeOK
    <2> QED  BY <2>1 DEF Work
  <1>2. PICK new, n, t :
          /\ new = [head |-> task[a].head, state |-> State(task[a].step),
                    verdict |-> task[a].verdict]
          /\ n = Sent(task[a])
          /\ t = [task[a] EXCEPT !.pc = "save", !.check = n]
    OBVIOUS
  <1>3. new \in ForgeCheck /\ new.head = task[a].head /\ new.state = State(task[a].step)
    BY <1>1, <1>2 DEF ForgeCheck, State, CheckState
  <1>4. /\ checks' = IF task[a].check = 0 THEN Append(checks, new)
                     ELSE [checks EXCEPT ![task[a].check] = new]
        /\ task' = [task EXCEPT ![a] = t]
    BY <1>2, Zenon DEF Send, Acts
  <1>5. /\ ChecksTyped' /\ DOMAIN checks' = DOMAIN checks \cup {n}
        /\ n \in Nat \ {0} /\ checks'[n] = new
        /\ \A c \in DOMAIN checks \ {n} : checks'[c] = checks[c]
        /\ task[a].check = 0 => n \notin DOMAIN checks
        /\ task[a].check # 0 => n = task[a].check
    <2>1. ChecksTyped
      BY <1>0 DEF TypeOK, ChecksTyped
    <2>2. CASE task[a].check = 0
      <3>1. n = Len(checks) + 1 /\ checks' = Append(checks, new)
        BY <1>2, <1>4, <2>2 DEF Sent
      <3> QED  BY <1>3, <2>1, <2>2, <3>1, CheckCreated
    <2>3. CASE task[a].check # 0
      <3>1. n = task[a].check /\ checks' = [checks EXCEPT ![n] = new] /\ n \in DOMAIN checks
        BY <1>0, <1>2, <1>4, <2>3 DEF Sent, Sends
      <3>2. /\ ChecksTyped' /\ DOMAIN checks' = DOMAIN checks /\ n \in Nat \ {0}
            /\ \A c \in DOMAIN checks : checks'[c] = IF c = n THEN new ELSE checks[c]
        BY <1>3, <2>1, <3>1, CheckReplaced
      <3>3. DOMAIN checks = DOMAIN checks \cup {n}
        BY <3>1
      <3> QED  BY <2>3, <3>1, <3>2, <3>3
    <2> QED  BY <2>2, <2>3
  <1>6. /\ t \in Work /\ t.pc = "save" /\ t.step = task[a].step /\ t.head = task[a].head
        /\ t.check = n
    <2>1. t = [task[a] EXCEPT !.pc = "save", !.check = n] /\ n \in Nat
      BY <1>2, <1>5
    <2> QED  BY <1>1, <2>1, SentTyped, Zenon
  <1>7. /\ task' \in [Actor -> Task]
        /\ \A b \in Actor : task'[b] = IF b = a THEN t ELSE task[b]
    BY <1>0, <1>4, <1>6, WorkOrIdle DEF TypeOK
  <1>8. n \in DOMAIN checks => checks[n].head = task[a].head
    BY <1>0, <1>5 DEF Sends
  <1>9. \A c \in DOMAIN checks : checks'[c].head = checks[c].head
    BY <1>3, <1>5, <1>8
  <1>10. TypeOK'
    <2>1. row' \in [CommitSha -> [check : {0} \cup DOMAIN checks', state : CheckState]]
      <3>1. \A h \in CommitSha : row[h] \in [check : {0} \cup DOMAIN checks', state : CheckState]
        <4>1. \A h \in CommitSha : row[h] \in [check : {0} \cup DOMAIN checks, state : CheckState]
          BY <1>0 DEF TypeOK
        <4> QED  BY <1>5, <4>1
      <3> QED  BY <1>0, <3>1 DEF TypeOK
    <2>2. \A h \in CommitSha : Known(h)' => checks'[row'[h].check].head = h
      BY <1>0, <1>9, RowTyped DEF Known
    <2>3. \A b \in Actor : task'[b].pc \in {"send", "save"} <=> writer' = b
      BY <1>0, <1>6, <1>7 DEF TypeOK
    <2>4. checks' \in Seq([head : CommitSha, state : CheckState, verdict : Nat])
          /\ loose' \subseteq DOMAIN checks'
      BY <1>0, <1>5 DEF ChecksTyped, TypeOK
    <2> QED  BY <1>0, <1>7, <2>1, <2>2, <2>3, <2>4 DEF TypeOK
  <1>11. RowBehindForge'
    <2> SUFFICES ASSUME NEW h \in CommitSha, Known(h), row[h].check \notin loose
                 PROVE  Rank(row[h].state) <= Rank(checks'[row[h].check].state)
      BY <1>0 DEF RowBehindForge, Known, Rank
    <2>1. row[h].check \in DOMAIN checks /\ checks[row[h].check].head = h
      BY <1>0, RowTyped
    <2>2. CASE row[h].check # n
      BY <1>5, <2>1, <2>2 DEF IInv, RowBehindForge
    <2>3. CASE row[h].check = n
      <3>1. h = task[a].head /\ task[a].check = n
        BY <1>5, <1>8, <2>1, <2>3
      <3>2. Rank(row[h].state) <= Rank(State(task[a].step))
        BY <1>0, <1>5, <2>3, <3>1 DEF Sends
      <3> QED  BY <1>3, <1>5, <2>3, <3>2
    <2> QED  BY <2>2, <2>3
  <1>12. Writes'
    <2>1. Saves(t)'
      <3>1. n \in DOMAIN checks' /\ checks'[n].head = t.head /\ checks'[n].state = State(t.step)
        BY <1>3, <1>5, <1>6
      <3>2. row[t.head].check = n \/ ~ Open(t.head)
        BY <1>0, <1>5, <1>6 DEF Sends, Open, Known
      <3> QED  BY <1>0, <1>6, <3>1, <3>2 DEF Saves, Open, Known
    <2>2. \A b \in Actor \ {a} : task'[b].pc \notin {"send", "save"}
      BY <1>0, <1>7, OneWriter
    <2>3. \A b \in Actor : task'[b].pc \in {"send", "save"} => b = a /\ task'[b] = t
      BY <1>7, <2>2
    <2> QED  BY <1>6, <2>1, <2>3 DEF Writes
  <1>13. OpenOnRecord'
    <2> SUFFICES ASSUME NEW h \in CommitSha, NEW c \in Checks(h)', c \notin loose,
                        checks'[c].state # "completed"
                 PROVE  \/ c = row[h].check
                        \/ \E b \in Actor : /\ task'[b].pc = "save" /\ task'[b].head = h
                                            /\ task'[b].check = c
      BY <1>0 DEF OpenOnRecord
    <2>1. CASE c = n
      <3>1. h = t.head
        BY <1>3, <1>5, <1>6, <2>1 DEF Checks
      <3> QED  BY <1>6, <1>7, <2>1, <3>1
    <2>2. CASE c # n
      <3>1. c \in Checks(h) /\ checks[c].state # "completed"
        BY <1>5, <2>2 DEF Checks
      <3>2. \A b \in Actor : task[b].pc # "save"
        BY <1>0, OneWriter
      <3> QED  BY <3>1, <3>2 DEF IInv, OpenOnRecord
    <2> QED  BY <2>1, <2>2
  <1> QED  BY <1>10, <1>11, <1>12, <1>13 DEF IInv

(* What a write that ends unsaved had in hand is on record, or loose.      *)
LEMMA GivenUp ==
  ASSUME IInv, TypeOK', UNCHANGED <<checks, row>>, loose \subseteq loose',
         \A a \in Actor : task'[a].pc \in {"send", "save"} => task'[a] = task[a],
         \A a \in Actor : task[a].pc = "save" /\ task'[a] # task[a] =>
           task[a].check \in loose' \cup {row[task[a].head].check}
  PROVE  IInv'
  <1> USE DEF Open, Known, Checks
  <1>1. RowBehindForge'
    BY DEF IInv, RowBehindForge, Rank
  <1>2. \A a \in Actor : task'[a].pc = "send" => Sends(task[a])'
    BY DEF IInv, Writes, Sends, Rank, State
  <1>3. \A a \in Actor : task'[a].pc = "save" => Saves(task[a])'
    BY DEF IInv, Writes, Saves, State
  <1>4. Writes'
    BY <1>2, <1>3 DEF Writes
  <1>5. OpenOnRecord'
    <2> SUFFICES ASSUME NEW h \in CommitSha, NEW c \in Checks(h), c \notin loose',
                        checks[c].state # "completed"
                 PROVE  \/ c = row[h].check
                        \/ \E a \in Actor : /\ task'[a].pc = "save" /\ task'[a].head = h
                                            /\ task'[a].check = c
      BY DEF OpenOnRecord
    <2>1. CASE c = row[h].check
      BY <2>1
    <2>2. CASE c # row[h].check
      <3>1. PICK a \in Actor : task[a].pc = "save" /\ task[a].head = h /\ task[a].check = c
        BY <2>2 DEF IInv, OpenOnRecord
      <3>2. task'[a] = task[a]
        BY <2>2, <3>1
      <3> QED  BY <3>1, <3>2
    <2> QED  BY <2>1, <2>2
  <1> QED  BY <1>1, <1>4, <1>5 DEF IInv

(* A write whose answer or row is lost ends like one that is refused.      *)
LEMMA LoseAnswerStep ==
  ASSUME IInv, NEW a \in Actor, LoseAnswer(a)
  PROVE  IInv'
  <1>0. /\ TypeOK /\ task[a].pc = "save" /\ Nobody \notin Actor /\ MaxTrouble \in Nat
        /\ UNCHANGED <<watched, on, analysis, checks, asked, row>>
        /\ Leave(a) /\ writer' = Nobody
        /\ loose' = loose \cup ({task[a].check} \ {row[task[a].head].check})
        /\ trouble' = trouble + 1 /\ trouble < MaxTrouble
    BY ReportingAssumption DEF IInv, LoseAnswer, Nobody
  <1>1. \A b \in Actor \ {a} : task[b].pc \notin {"send", "save"}
    BY <1>0, OneWriter
  <1>2. /\ task' \in [Actor -> Task] /\ recorded' \subseteq CommitSha
        /\ \A b \in Actor \ {a} : task'[b] = task[b]
        /\ task'[a].pc \in {"idle", "analyse"}
    BY <1>0, Leaves
  <1>3. task[a].check \in DOMAIN checks
    BY <1>0 DEF IInv, Writes, Saves
  <1>4. TypeOK'
    <2>1. trouble' \in 0 .. MaxTrouble
      BY <1>0 DEF TypeOK
    <2> QED  BY <1>0, <1>1, <1>2, <1>3, <2>1 DEF TypeOK, Known
  <1> QED  BY <1>0, <1>1, <1>2, <1>4, GivenUp

(* Discoveries that are dropped, or the process as a whole.                *)
LEMMA StopStep ==
  ASSUME IInv, NEW gone \in SUBSET Actor, Stop(gone)
  PROVE  IInv'
  <1>0. /\ TypeOK /\ Nobody \notin Actor /\ MaxTrouble \in Nat /\ Idle.pc = "idle"
        /\ UNCHANGED <<watched, on, analysis, recorded, checks, asked, row>>
        /\ trouble' = trouble + 1 /\ trouble < MaxTrouble
    BY ReportingAssumption, WorkOrIdle DEF IInv, Stop, world, Nobody
  <1>1. \A b \in Actor : task'[b] = IF b \in gone THEN Idle ELSE task[b]
    BY DEF Stop
  <1>2. loose' = loose \cup {c \in DOMAIN checks : \E a \in gone :
                               /\ task[a].pc = "save" /\ task[a].check = c
                               /\ row[task[a].head].check # c}
    BY DEF Stop
  <1>3. \A a \in Actor : task[a].pc = "save" => task[a].check \in DOMAIN checks
    BY DEF IInv, Writes, Saves
  <1>4. TypeOK'
    <2>1. trouble' \in 0 .. MaxTrouble
      BY <1>0 DEF TypeOK
    <2>2. task' \in [Actor -> Task]
      BY <1>0, WorkOrIdle DEF TypeOK, Stop
    <2>3. writer' \in Actor \cup {Nobody}
          /\ \A b \in Actor : task'[b].pc \in {"send", "save"} <=> writer' = b
      BY <1>0, <1>1 DEF TypeOK, Stop
    <2> QED  BY <1>0, <1>2, <2>1, <2>2, <2>3 DEF TypeOK, Known
  <1> QED  BY <1>0, <1>1, <1>2, <1>3, <1>4, GivenUp

(* ForgeCheck::save: the check written is the one on record.               *)
LEMMA SaveStep ==
  ASSUME IInv, NEW a \in Actor, Save(a)
  PROVE  IInv'
  <1>0. /\ TypeOK /\ task[a].pc = "save" /\ Nobody \notin Actor /\ Saves(task[a])
        /\ UNCHANGED <<watched, on, analysis, checks, asked, loose, trouble>>
        /\ Leave(a) /\ writer' = Nobody
        /\ row' = [row EXCEPT ![task[a].head] =
                     [check |-> task[a].check, state |-> State(task[a].step)]]
    BY ReportingAssumption DEF IInv, Writes, Save, Nobody
  <1>1. \A b \in Actor \ {a} : task[b].pc \notin {"send", "save"}
    BY <1>0, OneWriter
  <1>2. /\ task' \in [Actor -> Task] /\ recorded' \subseteq CommitSha
        /\ \A b \in Actor \ {a} : task'[b] = task[b]
        /\ task'[a].pc \in {"idle", "analyse"}
    BY <1>0, Leaves
  <1>3. task[a].head \in CommitSha
    <2>1. task[a] \in Work
      BY <1>0, WorkOrIdle DEF TypeOK
    <2> QED  BY <2>1 DEF Work
  <1>4. PICK h, n, s : h = task[a].head /\ n = task[a].check /\ s = State(task[a].step)
    OBVIOUS
  <1>5. /\ h \in CommitSha /\ n \in DOMAIN checks /\ checks[n].head = h /\ s \in CheckState
        /\ n \notin loose => checks[n].state = s
        /\ row[h].check = n \/ ~ Open(h)
    BY <1>0, <1>3, <1>4 DEF Saves, State, CheckState
  <1>6. /\ row'[h].check = n /\ row'[h].state = s
        /\ \A g \in CommitSha \ {h} : row'[g] = row[g]
        /\ row' \in [CommitSha -> [check : {0} \cup DOMAIN checks, state : CheckState]]
    <2>1. PICK r : r = [check |-> n, state |-> s]
      OBVIOUS
    <2>2. /\ r \in [check : {0} \cup DOMAIN checks, state : CheckState]
          /\ r.check = n /\ r.state = s
      BY <1>5, <2>1
    <2>3. row' = [row EXCEPT ![h] = r]
      BY <1>0, <1>4, <2>1
    <2>4. row \in [CommitSha -> [check : {0} \cup DOMAIN checks, state : CheckState]]
      BY <1>0 DEF TypeOK
    <2> HIDE <2>1
    <2>5. row'[h] = r /\ \A g \in CommitSha \ {h} : row'[g] = row[g]
      BY <1>5, <2>3, <2>4
    <2>6. row' \in [CommitSha -> [check : {0} \cup DOMAIN checks, state : CheckState]]
      BY <2>2, <2>3, <2>4
    <2> QED  BY <2>2, <2>5, <2>6, Zenon
  <1>7. TypeOK'
    <2>1. \A g \in CommitSha : Known(g)' => checks'[row'[g].check].head = g
      <3>1. ASSUME NEW g \in CommitSha, row'[g].check # 0  PROVE checks[row'[g].check].head = g
        <4>1. CASE g = h
          BY <1>5, <1>6, <4>1
        <4>2. CASE g # h
          BY <1>0, <1>6, <3>1, <4>2 DEF TypeOK, Known
        <4> QED  BY <4>1, <4>2
      <3> QED  BY <1>0, <3>1 DEF Known
    <2>2. \A b \in Actor : task'[b].pc \in {"send", "save"} <=> writer' = b
      BY <1>0, <1>1, <1>2
    <2> QED  BY <1>0, <1>2, <1>6, <2>1, <2>2 DEF TypeOK
  <1>8. RowBehindForge'
    <2> SUFFICES ASSUME NEW g \in CommitSha, Known(g)', row'[g].check \notin loose
                 PROVE  Rank(row'[g].state) <= Rank(checks[row'[g].check].state)
      BY <1>0 DEF RowBehindForge, Rank
    <2>1. CASE g = h
      <3>1. checks[n].state = s /\ row'[g].check = n /\ row'[g].state = s
        BY <1>5, <1>6, <2>1
      <3> QED  BY <1>5, <3>1 DEF Rank, CheckState
    <2>2. CASE g # h
      BY <1>6, <2>2 DEF IInv, RowBehindForge, Known
    <2> QED  BY <2>1, <2>2
  <1>9. Writes'
    BY <1>1, <1>2 DEF Writes
  <1>10. OpenOnRecord'
    <2> SUFFICES ASSUME NEW g \in CommitSha, NEW c \in Checks(g), c \notin loose,
                        checks[c].state # "completed"
                 PROVE  c = row'[g].check
      BY <1>0 DEF OpenOnRecord, Checks
    <2>1. c = row[g].check \/ (g = h /\ c = n)
      <3>1. \A b \in Actor : task[b].pc = "save" => b = a
        BY <1>1
      <3> QED  BY <1>4, <3>1 DEF IInv, OpenOnRecord
    <2>2. CASE g # h
      BY <1>6, <2>1, <2>2
    <2>3. CASE g = h /\ c = n
      BY <1>6, <2>3
    <2>4. CASE g = h /\ c # n
      <3>1. c = row[h].check /\ ~ Open(h) /\ c \in DOMAIN checks /\ 0 \notin DOMAIN checks
        BY <1>0, <1>5, <2>1, <2>4, RowTyped DEF Checks
      <3>2. Known(h) /\ row[h].state = "completed"
        BY <3>1 DEF Open, Known
      <3>3. Rank("completed") <= Rank(checks[c].state)
        BY <1>5, <3>1, <3>2 DEF IInv, RowBehindForge
      <3>4. checks[c].state \in {"queued", "in_progress"}
        <4>1. checks[c].state \in CheckState
          BY <1>0, <3>1, CheckTyped
        <4> QED  BY <4>1 DEF CheckState
      <3> QED  BY <3>3, <3>4 DEF Rank
    <2> QED  BY <2>2, <2>3, <2>4
  <1> QED  BY <1>7, <1>8, <1>9, <1>10 DEF IInv

-----------------------------------------------------------------------------
(* Re-runs asked for on the forge.                                         *)

(* The check shown is set back, and nobody answers for it from then on.    *)
LEMMA RerequestStep ==
  ASSUME IInv, NEW h \in CommitSha, Rerequest(h)
  PROVE  IInv'
  <1>0. /\ TypeOK /\ MaxTrouble \in Nat
        /\ UNCHANGED <<watched, on, analysis, recorded, row, writer, task>>
        /\ trouble' \in 0 .. MaxTrouble /\ asked' \subseteq CommitSha
    BY ReportingAssumption DEF IInv, Rerequest, TypeOK
  <1>1. PICK n, new :
          /\ n = Shown(h)
          /\ new = [checks[n] EXCEPT !.state = "queued", !.verdict = 0]
    OBVIOUS
  <1>2. n \in DOMAIN checks
    <2>1. Checks(h) \subseteq 1 .. Len(checks) /\ Len(checks) \in Nat /\ Checks(h) # {}
      BY <1>0 DEF Checks, TypeOK, Rerequest
    <2>2. n \in Checks(h)
      BY <1>1, <2>1, GreatestId DEF Shown
    <2> QED  BY <2>2 DEF Checks
  <1>3. new \in ForgeCheck /\ new.head = checks[n].head
    <2>1. checks \in Seq(ForgeCheck)
      BY <1>0 DEF TypeOK, ForgeCheck
    <2>2. PICK c : c = checks[n]
      OBVIOUS
    <2>3. c \in ForgeCheck
      BY <1>2, <2>1, <2>2
    <2> QED  BY <1>1, <2>2, <2>3, ResetTyped, Zenon
  <1>4. checks' = [checks EXCEPT ![n] = new] /\ loose' = loose \cup {n}
    BY <1>1, Zenon DEF Rerequest
  <1>5. /\ ChecksTyped' /\ DOMAIN checks' = DOMAIN checks
        /\ \A c \in DOMAIN checks : checks'[c] = IF c = n THEN new ELSE checks[c]
    <2>1. ChecksTyped
      BY <1>0 DEF TypeOK, ChecksTyped
    <2> QED  BY <1>2, <1>3, <1>4, <2>1, CheckReplaced
  <1>6. \A c \in DOMAIN checks : checks'[c].head = checks[c].head
    BY <1>3, <1>5
  <1>7. TypeOK'
    <2>1. \A g \in CommitSha : Known(g)' => checks'[row'[g].check].head = g
      BY <1>0, <1>6, RowTyped DEF Known
    <2>2. checks' \in Seq([head : CommitSha, state : CheckState, verdict : Nat])
          /\ loose' \subseteq DOMAIN checks'
      BY <1>0, <1>2, <1>4, <1>5 DEF ChecksTyped, TypeOK
    <2> QED  BY <1>0, <1>5, <2>1, <2>2 DEF TypeOK
  <1>8. RowBehindForge'
    <2> SUFFICES ASSUME NEW g \in CommitSha, Known(g), row[g].check \notin loose'
                 PROVE  Rank(row[g].state) <= Rank(checks'[row[g].check].state)
      BY <1>0 DEF RowBehindForge, Known, Rank
    <2>1. row[g].check \in DOMAIN checks /\ row[g].check # n /\ row[g].check \notin loose
      BY <1>0, <1>4, RowTyped
    <2>2. checks'[row[g].check] = checks[row[g].check]
      BY <1>5, <2>1
    <2> QED  BY <2>1, <2>2 DEF IInv, RowBehindForge
  <1>9. Writes'
    <2>1. ASSUME NEW a \in Actor, task[a].pc = "send"
          PROVE  Sends(task[a])'
      <3>1. Sends(task[a])
        BY <2>1 DEF IInv, Writes
      <3> QED  BY <1>0, <1>4, <1>5, <1>6, <3>1 DEF Sends, Open, Known, Rank, State
    <2>2. ASSUME NEW a \in Actor, task[a].pc = "save"
          PROVE  Saves(task[a])'
      <3>1. Saves(task[a])
        BY <2>2 DEF IInv, Writes
      <3> QED  BY <1>0, <1>4, <1>5, <1>6, <3>1 DEF Saves, Open, Known, State
    <2> QED  BY <1>0, <2>1, <2>2 DEF Writes
  <1>10. OpenOnRecord'
    <2> SUFFICES ASSUME NEW g \in CommitSha, NEW c \in Checks(g)', c \notin loose',
                        checks'[c].state # "completed"
                 PROVE  \/ c = row[g].check
                        \/ \E a \in Actor : /\ task[a].pc = "save" /\ task[a].head = g
                                            /\ task[a].check = c
      BY <1>0 DEF OpenOnRecord
    <2>1. c \in Checks(g) /\ c \notin loose /\ checks[c].state # "completed"
      BY <1>4, <1>5 DEF Checks
    <2> QED  BY <2>1 DEF IInv, OpenOnRecord
  <1> QED  BY <1>7, <1>8, <1>9, <1>10 DEF IInv

(* Reporting::forget: what was on record is answered for no more.          *)
LEMMA RerunForgetStep ==
  ASSUME IInv, NEW h \in CommitSha, RerunForget(h)
  PROVE  IInv'
  <1>0. /\ TypeOK /\ asked' \subseteq CommitSha
        /\ UNCHANGED <<watched, on, analysis, recorded, checks, writer, task, trouble>>
    BY DEF IInv, RerunForget, TypeOK
  <1>1. CASE ~ on
    <2>1. UNCHANGED <<row, loose>>
      BY <1>1 DEF RerunForget
    <2>2. TypeOK'
      BY <1>0, <2>1 DEF TypeOK, Known
    <2> QED  BY <1>0, <2>1, <2>2, QuietSteps
  <1>2. CASE on
    <2>1. /\ loose' = loose \cup ({row[h].check} \ {0})
          /\ row'[h].check = 0 /\ ~ Open(h)' /\ ~ Known(h)'
          /\ \A g \in CommitSha \ {h} : row'[g] = row[g]
          /\ row' \in [CommitSha -> [check : {0} \cup DOMAIN checks, state : CheckState]]
      <3>1. PICK r : r = NoRow
        OBVIOUS
      <3>2. row' = [row EXCEPT ![h] = r] /\ loose' = loose \cup ({row[h].check} \ {0})
        BY <1>2, <3>1 DEF RerunForget
      <3>3. r \in [check : {0} \cup DOMAIN checks, state : CheckState] /\ r.check = 0
        BY <3>1 DEF NoRow, CheckState
      <3>4. row \in [CommitSha -> [check : {0} \cup DOMAIN checks, state : CheckState]]
        BY <1>0 DEF TypeOK
      <3> HIDE <3>1
      <3> QED  BY <3>2, <3>3, <3>4 DEF Open, Known
    <2>2. row[h].check \in {0} \cup DOMAIN checks
      BY <1>0, RowTyped
    <2>3. TypeOK'
      <3>1. \A g \in CommitSha : Known(g)' => checks[row'[g].check].head = g
        BY <1>0, <2>1, RowTyped DEF Known
      <3>2. loose' \subseteq DOMAIN checks
        BY <1>0, <2>1, <2>2 DEF TypeOK
      <3> QED  BY <1>0, <2>1, <3>1, <3>2 DEF TypeOK
    <2>4. RowBehindForge'
      <3> SUFFICES ASSUME NEW g \in CommitSha, Known(g)', row'[g].check \notin loose'
                   PROVE  Rank(row'[g].state) <= Rank(checks[row'[g].check].state)
        BY <1>0 DEF RowBehindForge, Rank
      <3>1. g # h /\ row'[g] = row[g] /\ Known(g) /\ row[g].check \notin loose
        BY <2>1 DEF Known
      <3> QED  BY <3>1 DEF IInv, RowBehindForge
    <2>5. Writes'
      <3>1. ASSUME NEW a \in Actor, task[a].pc = "send"
            PROVE  Sends(task[a])'
        <4>1. Sends(task[a]) /\ task[a].head \in CommitSha
          BY <1>0, <3>1, WorkHead DEF IInv, Writes
        <4>2. PICK t : t = task[a]
          OBVIOUS
        <4>3. CASE t.head # h
          BY <1>0, <2>1, <4>1, <4>2, <4>3 DEF Sends, Open, Known, Rank, State
        <4>4. CASE t.head = h
          BY <1>0, <2>1, <4>1, <4>2, <4>4 DEF Sends
        <4> QED  BY <4>3, <4>4
      <3>2. ASSUME NEW a \in Actor, task[a].pc = "save"
            PROVE  Saves(task[a])'
        <4>1. Saves(task[a]) /\ task[a].head \in CommitSha
          BY <1>0, <3>2, WorkHead DEF IInv, Writes
        <4>2. CASE task[a].head # h
          BY <1>0, <2>1, <4>1, <4>2 DEF Saves, Open, Known, State
        <4>3. CASE task[a].head = h
          BY <1>0, <2>1, <4>1, <4>3 DEF Saves, State
        <4> QED  BY <4>2, <4>3
      <3> QED  BY <1>0, <3>1, <3>2 DEF Writes
    <2>6. OpenOnRecord'
      <3> SUFFICES ASSUME NEW g \in CommitSha, NEW c \in Checks(g), c \notin loose',
                          checks[c].state # "completed"
                   PROVE  \/ c = row'[g].check
                          \/ \E a \in Actor : /\ task[a].pc = "save" /\ task[a].head = g
                                              /\ task[a].check = c
        BY <1>0 DEF OpenOnRecord, Checks
      <3>1. c # 0
        BY <1>0, RowTyped DEF Checks
      <3> QED  BY <2>1, <3>1 DEF IInv, OpenOnRecord
    <2> QED  BY <2>3, <2>4, <2>5, <2>6 DEF IInv
  <1> QED  BY <1>1, <1>2

-----------------------------------------------------------------------------
(* The theorems.                                                           *)

(* Before the first write there is neither a check nor a row.              *)
LEMMA HoldsInitially == Init => IInv
  <1> SUFFICES ASSUME Init  PROVE IInv
    OBVIOUS
  <1>1. /\ checks = <<>> /\ row = [h \in CommitSha |-> NoRow] /\ loose = {}
        /\ DOMAIN checks = {} /\ Idle.pc = "idle" /\ Idle \in Task
        /\ \A a \in Actor : task[a] = Idle
    BY WorkOrIdle DEF Init
  <1>2. \A h \in CommitSha : row[h].check = 0
    BY <1>1 DEF NoRow
  <1>3. TypeOK
    <2>1. row \in [CommitSha -> [check : {0} \cup DOMAIN checks, state : CheckState]]
      BY <1>1 DEF NoRow, CheckState
    <2>2. checks \in Seq([head : CommitSha, state : CheckState, verdict : Nat])
      BY <1>1
    <2>3. writer = Nobody /\ Nobody \notin Actor
      BY ReportingAssumption DEF Init, Nobody
    <2>4. trouble \in 0 .. MaxTrouble
      BY ReportingAssumption DEF Init
    <2> QED  BY <1>1, <1>2, <2>1, <2>2, <2>3, <2>4 DEF Init, TypeOK, Known
  <1> QED  BY <1>1, <1>2, <1>3 DEF IInv, RowBehindForge, Known, Writes, OpenOnRecord, Checks

(* Every step of the forge, the owner and the actors keeps the invariant.  *)
LEMMA StepsKeepInvariant == IInv /\ [Next]_vars => IInv'
  <1> SUFFICES ASSUME IInv, [Next]_vars  PROVE IInv'
    OBVIOUS
  <1>1. CASE Switch \/ UNCHANGED vars
    BY <1>1, WorldSteps
  <1>2. ASSUME NEW h \in CommitSha, Watch(h) \/ DropRequest(h) \/ ScanCommit(h)
        PROVE  IInv'
    BY <1>2, WorldSteps
  <1>3. ASSUME NEW h \in CommitSha, Rerequest(h) \/ RerunForget(h)
        PROVE  IInv'
    BY <1>3, RerequestStep, RerunForgetStep
  <1>4. ASSUME NEW a \in Actor, Load(a) \/ Send(a) \/ Save(a) \/ Refuse(a) \/ LoseAnswer(a)
        PROVE  IInv'
    BY <1>4, LoadStep, SendStep, SaveStep, RefuseStep, LoseAnswerStep
  <1>5. ASSUME NEW a \in Actor, Analyse(a) \/ Record(a) \/ FailAnalysis(a) \/ WaitForBudget(a)
        PROVE  IInv'
    BY <1>5, AnalysisSteps
  <1>6. ASSUME NEW a \in Actor, NEW h \in CommitSha,
               \/ Moved(a, h) \/ AskScan(a, h)
               \/ \E change \in BOOLEAN : Visit(a, h, change)
               \/ \E g \in CommitSha : RerunScan(a, h, g)
        PROVE  IInv'
    BY <1>6, BeginSteps
  <1>7. ASSUME NEW gone \in SUBSET Actor, Stop(gone)
        PROVE  IInv'
    BY <1>7, StopStep
  <1> QED  BY <1>1, <1>2, <1>3, <1>4, <1>5, <1>6, <1>7 DEF Next, Progress

(* What is on record, what the writer holds and what the forge shows agree *)
(* in every state, whatever was lost, refused, stopped or asked again.     *)
THEOREM InvariantHolds == Spec => []IInv
  BY HoldsInitially, StepsKeepInvariant, PTL DEF Spec

(* However webhooks and scans of a head meet, the forge has one open check *)
(* of it that this server answers for.                                     *)
THEOREM AlwaysOneOpenCheck == Spec => []OneOpenCheck
  <1>1. IInv => OneOpenCheck
    <2> SUFFICES ASSUME IInv, NEW h \in CommitSha,
                        NEW c \in Checks(h) \ loose, NEW d \in Checks(h) \ loose,
                        checks[c].state # "completed", checks[d].state # "completed",
                        c # d, c = row[h].check \/ d # row[h].check
                 PROVE  FALSE
      BY DEF IInv, OneOpenCheck
    <2>1. TypeOK /\ c \in DOMAIN checks
      BY DEF IInv, Checks
    <2>2. PICK a \in Actor : task[a].pc = "save" /\ task[a].head = h /\ task[a].check = d
      BY DEF IInv, OpenOnRecord
    <2>3. CASE c = row[h].check
      <3>1. ~ Open(h) /\ c # 0
        BY <2>1, <2>2, <2>3, RowTyped DEF IInv, Writes, Saves
      <3>2. Known(h) /\ row[h].state = "completed"
        BY <2>3, <3>1 DEF Open, Known
      <3>3. Rank("completed") <= Rank(checks[c].state) /\ checks[c].state \in CheckState
        BY <2>1, <2>3, <3>2, CheckTyped DEF IInv, RowBehindForge
      <3> QED  BY <3>3 DEF Rank, CheckState
    <2>4. CASE c # row[h].check
      <3>1. PICK b \in Actor : task[b].pc = "save" /\ task[b].check = c
        BY <2>4 DEF IInv, OpenOnRecord
      <3> QED  BY <2>1, <2>2, <3>1, OneWriter
    <2> QED  BY <2>3, <2>4
  <1> QED  BY <1>1, InvariantHolds, PTL

(* The row of a head is never ahead of what the forge was told of it.      *)
THEOREM RowAlwaysBehindForge == Spec => []RowBehindForge
  <1>1. IInv => RowBehindForge
    BY DEF IInv
  <1> QED  BY <1>1, InvariantHolds, PTL

(* No late webhook and no scan's first write sets back a check whose       *)
(* verdict the row knows of.                                               *)
THEOREM VerdictAlwaysStays == Spec => VerdictStays
  <1>1. ASSUME IInv, [Next]_vars, NEW h \in CommitSha, Known(h),
               row[h].state = "completed", row[h].check \notin loose'
        PROVE  checks'[row[h].check] = checks[row[h].check]
    <2>1. TypeOK /\ row[h].check \in DOMAIN checks /\ checks[row[h].check].head = h
      BY <1>1, RowTyped DEF IInv
    <2>2. ASSUME NEW a \in Actor, Send(a)
          PROVE  checks'[row[h].check] = checks[row[h].check]
      <3>1. /\ task[a].pc = "send" /\ Sends(task[a]) /\ UNCHANGED loose
            /\ checks \in Seq(ForgeCheck)
        BY <1>1, <2>1, <2>2 DEF IInv, Writes, Send, TypeOK, ForgeCheck
      <3>2. PICK new : checks' = IF task[a].check = 0 THEN Append(checks, new)
                                 ELSE [checks EXCEPT ![task[a].check] = new]
        BY <2>2, Zenon DEF Send, Acts
      <3>3. CASE task[a].check = 0
        BY <2>1, <3>1, <3>2, <3>3
      <3>4. CASE task[a].check # 0
        <4>1. task[a].check # row[h].check
          BY <1>1, <2>1, <3>1, <3>4 DEF Sends
        <4> QED  BY <2>1, <3>2, <3>4, <4>1
      <3> QED  BY <3>3, <3>4
    <2>3. ASSUME NEW g \in CommitSha, Rerequest(g)
          PROVE  checks'[row[h].check] = checks[row[h].check]
      <3>1. PICK n, new : checks' = [checks EXCEPT ![n] = new] /\ loose' = loose \cup {n}
        BY <2>3, Zenon DEF Rerequest
      <3> QED  BY <1>1, <2>1, <3>1
    <2>4. CASE UNCHANGED checks
      BY <2>4
    <2>5. ASSUME NEW a \in Actor,
                 \/ Load(a) \/ Save(a) \/ Refuse(a) \/ LoseAnswer(a)
                 \/ Analyse(a) \/ Record(a) \/ FailAnalysis(a) \/ WaitForBudget(a)
          PROVE  UNCHANGED checks
      BY <2>5 DEF Load, Save, Refuse, LoseAnswer, Analyse, Record, FailAnalysis, WaitForBudget
    <2>6. ASSUME NEW a \in Actor, NEW g \in CommitSha,
                 \/ Moved(a, g) \/ AskScan(a, g)
                 \/ \E change \in BOOLEAN : Visit(a, g, change)
                 \/ \E k \in CommitSha : RerunScan(a, g, k)
          PROVE  UNCHANGED checks
      BY <2>6 DEF Moved, AskScan, Visit, RerunScan
    <2>7. ASSUME NEW g \in CommitSha,
                 Watch(g) \/ DropRequest(g) \/ RerunForget(g) \/ ScanCommit(g)
          PROVE  UNCHANGED checks
      BY <2>7 DEF Watch, DropRequest, RerunForget, ScanCommit
    <2>8. ASSUME Switch \/ UNCHANGED vars \/ \E gone \in SUBSET Actor : Stop(gone)
          PROVE  UNCHANGED checks
      BY <2>8 DEF Switch, vars, Stop
    <2> QED  BY <1>1, <2>2, <2>3, <2>4, <2>5, <2>6, <2>7, <2>8 DEF Next, Progress
  <1>2. IInv /\ [Next]_vars =>
          [\A h \in CommitSha :
             Known(h) /\ row[h].state = "completed" /\ row[h].check \notin loose' =>
               checks'[row[h].check] = checks[row[h].check]]_vars
    BY <1>1
  <1> QED  BY <1>2, InvariantHolds, PTL DEF Spec, VerdictStays

-----------------------------------------------------------------------------
(* The reads (ForgeReads).                                                 *)

(* The shapes of the tables, the tokens and the pass.                      *)
ReadsRow == [name : FullName, installation : Installation \cup {NoInstallation}]
CoveredRow == [name : FullName, installation : Installation] \cup {NoCover}
ReadsPass ==
  [at : {"rest", "lookup", "asked", "sent"}, read : Reads,
   installation : Installation \cup {NoInstallation}, token : Token \cup {NoToken},
   waited : 0 .. TIMEOUT, missing : SUBSET (Exhausted \cup Refused \cup Broken)]

ReadsTypes ==
  /\ github \in [Repository -> ReadsRow] /\ covered \in [Repository -> CoveredRow]
  /\ deliveries \subseteq Delivery
  /\ remote \in FullName /\ tokens \subseteq Token
  /\ pass \in ReadsPass

(* A name is one repository's at a time, and once given up redirects to    *)
(* the one that had it for good; the remote is such a name.                *)
NamesInv ==
  /\ \A q, r \in Repository : github[q].name = github[r].name => q = r
  /\ \A n \in DOMAIN renamed : renamed[n] \in Repository
  /\ \A n \in DOMAIN renamed : \A r \in Repository : github[r].name # n
  /\ remote \in DOMAIN renamed \/ \E r \in Repository : github[r].name = remote

(* The name a token was asked for under leads to its repository still.     *)
LeadsHome(t) ==
  \/ github[t.repository].name = t.name
  \/ t.name \in DOMAIN renamed /\ renamed[t.name] = t.repository

(* What a request bears, and what is left of it when the request is given  *)
(* up.                                                                     *)
Borne ==
  /\ LeadsHome(pass.token)
  /\ pass.token.name = remote /\ pass.token.installation = pass.installation
  /\ pass.token.left + pass.waited > TIMEOUT

TokensInv ==
  /\ \A t \in tokens : LeadsHome(t)
  /\ pass.at = "asked" => pass.token = NoToken /\ pass.installation # NoInstallation
  /\ pass.at = "sent" /\ pass.token # NoToken => Borne

(* Nothing a budget withheld is missing from what a pass has so far.       *)
AnswersInv ==
  /\ pass.missing \cap Exhausted = {}
  /\ kept \cap Exhausted = {}

-----------------------------------------------------------------------------
(* An exhausted budget is a wait whichever way the forge says it           *)
(* (refusal, Api::get, GithubApp::answer).                                 *)
LEMMA ExhaustedIsWait ==
  ASSUME NEW a \in Exhausted
  PROVE  Error(a) = "wait"
  <1>1. CASE a = [status |-> 403, remaining |-> 0, reset |-> TRUE]
    <2>1. a.status = 403 /\ a.remaining = 0 /\ a.reset
      BY <1>1
    <2> QED  BY <2>1 DEF Error, Refusal
  <1>2. CASE a = [status |-> 429, remaining |-> 1, reset |-> TRUE]
    <2>1. a.status = 429 /\ a.remaining = 1 /\ a.reset
      BY <1>2
    <2> QED  BY <2>1 DEF Error, Refusal
  <1> QED  BY <1>1, <1>2 DEF Exhausted

(* What a pass is at rest.                                                 *)
LEMMA RestFields ==
  /\ Rest.at = "rest" /\ Rest.read = "commit" /\ Rest.installation = NoInstallation
  /\ Rest.token = NoToken /\ Rest.waited = 0 /\ Rest.missing = {}
  BY DEF Rest

(* A pass at rest has the shape of one.                                    *)
LEMMA RestIsPass ==
  Rest \in ReadsPass
  <1>1. 0 \in 0 .. TIMEOUT /\ "commit" \in Reads
    BY ForgeReadsAssumption DEF Reads
  <1>2. PICK t : t = NoToken
    OBVIOUS
  <1>3. PICK m : m = {}
    OBVIOUS
  <1>4. Rest = [at |-> "rest", read |-> "commit", installation |-> NoInstallation,
                      token |-> t, waited |-> 0, missing |-> m]
    BY <1>2, <1>3 DEF Rest
  <1>5. /\ t \in Token \cup {NoToken}
        /\ m \in SUBSET (Exhausted \cup Refused \cup Broken)
    BY <1>2, <1>3
  <1> QED  BY <1>1, <1>4, <1>5 DEF ReadsPass

(* A row of the table names an installation, or none.                      *)
LEMMA CoveredFields ==
  ASSUME NEW row0 \in CoveredRow
  PROVE  row0.installation \in Installation \cup {NoInstallation}
  <1>1. CASE row0 \in [name : FullName, installation : Installation]
    BY <1>1
  <1>2. CASE row0 = NoCover
    BY <1>2 DEF NoCover
  <1> QED  BY <1>1, <1>2 DEF CoveredRow

(* The project's row is one of the table, and names an installation or     *)
(* none (GithubInstallation::for_project).                                 *)
LEMMA ForProjectType ==
  ASSUME ReadsTypes
  PROVE  ForProject \in Installation \cup {NoInstallation}
  <1> DEFINE rows == {r \in Repository : covered[r] # NoCover /\ covered[r].name = remote}
  <1>1. CASE rows = {}
    BY <1>1 DEF ForProject
  <1>2. CASE rows # {}
    <2>1. rows \in SUBSET Nat /\ rows \subseteq Repository
      BY ForgeReadsAssumption
    <2>2. \E x \in rows : \A y \in rows : x <= y
      <3> HIDE DEF rows
      <3> QED  BY <1>2, <2>1, LeastNat
    <2>3. Min(rows) \in Repository
      <3> HIDE DEF rows
      <3> QED  BY <2>1, <2>2, Zenon DEF Min
    <2>4. covered[Min(rows)].installation \in Installation \cup {NoInstallation}
      BY <2>3, CoveredFields DEF ReadsTypes
    <2> QED  BY <1>2, <2>4 DEF ForProject
  <1> QED  BY <1>1, <1>2

(* Whatever leads home under the remote's name is what the name reads.     *)
LEMMA NamedIsHome ==
  ASSUME NamesInv, NEW t, t.repository \in Repository, t.name = remote, LeadsHome(t)
  PROVE  github[t.repository].name # remote => Named(remote) = t.repository
  BY DEF LeadsHome, Named

(* The name of the remote is some repository's.                            *)
LEMMA NamedType ==
  ASSUME NamesInv
  PROVE  Named(remote) \in Repository
  BY DEF NamesInv, Named

-----------------------------------------------------------------------------
(* What each step makes of the pass.                                       *)

(* A pass begins with nothing (Begin).                                     *)
LEMMA BeginPass ==
  ASSUME NEW read \in Reads, Begin(read)
  PROVE  pass' \in ReadsPass /\ pass'.at = "lookup" /\ pass'.missing = {}
  <1>1. PICK rest : rest = Rest
    OBVIOUS
  <1>2. rest \in ReadsPass /\ rest.missing = {}
    BY <1>1, RestIsPass, RestFields
  <1>3. pass' = [rest EXCEPT !.at = "lookup", !.read = read]
    BY <1>1 DEF Begin
  <1>4. pass' \in ReadsPass
    BY <1>2, <1>3 DEF ReadsPass
  <1>5. pass'.at = "lookup" /\ pass'.missing = rest.missing
    BY <1>2, <1>3 DEF ReadsPass
  <1> QED  BY <1>2, <1>4, <1>5

(* A token is a record of four fields.                                     *)
LEMMA TokenFields ==
  ASSUME NEW t \in Token
  PROVE  /\ t.installation \in Installation /\ t.name \in FullName
         /\ t.repository \in Repository /\ t.left \in 0 .. TOKEN_LIFE
  BY DEF Token

(* A pass that looked up its project goes on as it is covered (Lookup).    *)
LEMMA LookupPass ==
  ASSUME ReadsTypes, Lookup
  PROVE  /\ pass' \in ReadsPass /\ pass'.missing = pass.missing /\ pass'.waited = 0
         /\ \/ pass'.at = "asked" /\ pass'.token = NoToken /\ pass'.installation # NoInstallation
            \/ pass'.at = "sent" /\ pass'.token = NoToken
            \/ /\ pass'.at = "sent" /\ pass'.token \in tokens
               /\ pass'.token.left > TOKEN_MARGIN
               /\ pass'.token.name = remote /\ pass'.token.installation = pass'.installation
  <1>1. PICK i : i = ForProject
    OBVIOUS
  <1>2. PICK t : t = NoToken
    OBVIOUS
  <1>3. PICK next : next = [pass EXCEPT !.installation = i, !.token = t, !.waited = 0]
    OBVIOUS
  <1>4. i \in Installation \cup {NoInstallation}
    BY <1>1, ForProjectType
  <1>5. pass \in ReadsPass
    BY DEF ReadsTypes
  <1>6. t \in Token \cup {NoToken} /\ 0 \in 0 .. TIMEOUT
    BY <1>2, ForgeReadsAssumption
  <1>7. next \in ReadsPass
    BY <1>3, <1>4, <1>5, <1>6 DEF ReadsPass
  <1>8. next.installation = i /\ next.token = t /\ next.waited = 0 /\ next.missing = pass.missing
    BY <1>3, <1>5 DEF ReadsPass
  <1>9. \/ i = NoInstallation /\ pass' = [next EXCEPT !.at = "sent"]
        \/ i # NoInstallation /\ pass' = [next EXCEPT !.at = "asked"]
        \/ \E k \in Kept(i) : pass' = [next EXCEPT !.at = "sent", !.token = k]
    BY <1>1, <1>2, <1>3, Zenon DEF Lookup
  <1>10. CASE i = NoInstallation /\ pass' = [next EXCEPT !.at = "sent"]
    <2>1. pass' \in ReadsPass
      BY <1>7, <1>10 DEF ReadsPass
    <2>2. /\ pass'.at = "sent" /\ pass'.token = next.token /\ pass'.waited = next.waited
          /\ pass'.missing = next.missing
      BY <1>7, <1>10 DEF ReadsPass
    <2> QED  BY <1>2, <1>8, <2>1, <2>2
  <1>11. CASE i # NoInstallation /\ pass' = [next EXCEPT !.at = "asked"]
    <2>1. pass' \in ReadsPass
      BY <1>7, <1>11 DEF ReadsPass
    <2>2. /\ pass'.at = "asked" /\ pass'.token = next.token /\ pass'.waited = next.waited
          /\ pass'.missing = next.missing /\ pass'.installation = next.installation
      BY <1>7, <1>11 DEF ReadsPass
    <2> QED  BY <1>2, <1>8, <1>11, <2>1, <2>2
  <1>12. CASE \E k \in Kept(i) : pass' = [next EXCEPT !.at = "sent", !.token = k]
    <2>1. PICK k \in Kept(i) : pass' = [next EXCEPT !.at = "sent", !.token = k]
      BY <1>12
    <2>2. k \in tokens /\ k.installation = i /\ k.name = remote /\ k.left > TOKEN_MARGIN
      BY DEF Kept
    <2>3. k \in Token \cup {NoToken}
      BY <2>2 DEF ReadsTypes
    <2>4. pass' \in ReadsPass
      BY <1>7, <2>1, <2>3 DEF ReadsPass
    <2>5. /\ pass'.at = "sent" /\ pass'.token = k /\ pass'.waited = next.waited
          /\ pass'.missing = next.missing /\ pass'.installation = next.installation
      BY <1>7, <2>1 DEF ReadsPass
    <2> QED  BY <1>8, <2>2, <2>4, <2>5
  <1> QED  BY <1>9, <1>10, <1>11, <1>12

(* A token GitHub grants is the project's repository's, and young (Grant). *)
LEMMA GrantedTokens ==
  ASSUME ReadsTypes, TokensInv, pass.at = "asked", NEW t \in Granted
  PROVE  /\ t \in Token /\ LeadsHome(t)
         /\ t.name = remote /\ t.installation = pass.installation
         /\ t.left > TIMEOUT
  <1>1. PICK r \in Repository :
          /\ github[r] = [name |-> remote, installation |-> pass.installation]
          /\ t = [installation |-> pass.installation, name |-> remote, repository |-> r,
                  left |-> TOKEN_LIFE - pass.waited]
    BY DEF Granted
  <1>2. github[r].name = remote /\ github[r].installation = pass.installation
    BY <1>1
  <1>3. pass.installation \in Installation
    <2>1. github[r] \in ReadsRow
      BY DEF ReadsTypes
    <2>2. github[r].installation \in Installation \cup {NoInstallation}
      BY <2>1 DEF ReadsRow
    <2> QED  BY <1>2, <2>2 DEF TokensInv
  <1>4. pass.waited \in 0 .. TIMEOUT /\ TIMEOUT \in Nat /\ TOKEN_MARGIN \in Nat /\ TOKEN_LIFE \in Nat
        /\ TIMEOUT <= TOKEN_MARGIN /\ TOKEN_MARGIN + TIMEOUT < TOKEN_LIFE
    BY ForgeReadsAssumption DEF ReadsTypes, ReadsPass
  <1>5. t.installation = pass.installation /\ t.name = remote /\ t.repository = r
        /\ t.left = TOKEN_LIFE - pass.waited
    BY <1>1
  <1>6. TOKEN_LIFE - pass.waited \in 0 .. TOKEN_LIFE /\ TOKEN_LIFE - pass.waited > TIMEOUT
    BY <1>4
  <1>7. t \in Token
    BY <1>1, <1>3, <1>6 DEF Token, ReadsTypes
  <1>8. LeadsHome(t)
    BY <1>2, <1>5 DEF LeadsHome
  <1> QED  BY <1>5, <1>6, <1>7, <1>8

(* A request is sent with the token given, its time counted from there     *)
(* (Grant).                                                                *)
LEMMA GrantPass ==
  ASSUME ReadsTypes, 0 \in 0 .. TIMEOUT, NEW t \in Token,
         pass' = [pass EXCEPT !.at = "sent", !.token = t, !.waited = 0]
  PROVE  /\ pass' \in ReadsPass /\ pass'.at = "sent" /\ pass'.token = t /\ pass'.waited = 0
         /\ pass'.installation = pass.installation /\ pass'.missing = pass.missing
  <1>1. pass \in ReadsPass
    BY DEF ReadsTypes
  <1>2. t \in Token \cup {NoToken}
    OBVIOUS
  <1>3. pass' \in ReadsPass
    BY <1>1, <1>2 DEF ReadsPass
  <1>4. /\ pass'.at = "sent" /\ pass'.token = t /\ pass'.waited = 0
        /\ pass'.installation = pass.installation /\ pass'.missing = pass.missing
    BY <1>1 DEF ReadsPass
  <1> QED  BY <1>3, <1>4

(* A request is sent without one (RefuseToken, Unanswered).                *)
LEMMA BarePass ==
  ASSUME ReadsTypes, 0 \in 0 .. TIMEOUT, pass' = [pass EXCEPT !.at = "sent", !.waited = 0]
  PROVE  /\ pass' \in ReadsPass /\ pass'.at = "sent" /\ pass'.token = pass.token
         /\ pass'.missing = pass.missing
  <1>1. pass \in ReadsPass
    BY DEF ReadsTypes
  <1>2. pass' \in ReadsPass
    BY <1>1 DEF ReadsPass
  <1>3. pass'.at = "sent" /\ pass'.token = pass.token /\ pass'.missing = pass.missing
    BY <1>1 DEF ReadsPass
  <1> QED  BY <1>2, <1>3

(* The next read starts with a lookup, and what is missing is carried to   *)
(* the end of the checks and no further (Advance).                         *)
LEMMA AdvancePass ==
  ASSUME ReadsTypes, pass.read # "changes",
         NEW m \in SUBSET (Exhausted \cup Refused \cup Broken), Advance(m)
  PROVE  /\ pass' \in ReadsPass /\ pass'.at = "lookup" /\ pass'.missing \subseteq m
         /\ kept' \subseteq kept \cup m /\ remote' = remote
  <1>1. pass \in ReadsPass
    BY DEF ReadsTypes
  <1>2. pass.read \in {"commit", "checks"} /\ {"checks", "changes"} \subseteq Reads
    BY <1>1 DEF ReadsPass, Reads
  <1>3. CASE pass.read = "commit"
    <2>1. /\ pass' = [pass EXCEPT !.at = "lookup", !.read = "checks", !.missing = m]
          /\ kept' = kept /\ remote' = remote
      BY <1>3 DEF Advance
    <2>2. pass' \in ReadsPass
      BY <1>1, <1>2, <2>1 DEF ReadsPass
    <2>3. pass'.at = "lookup" /\ pass'.missing = m
      BY <1>1, <2>1 DEF ReadsPass
    <2> QED  BY <2>1, <2>2, <2>3
  <1>4. CASE pass.read = "checks"
    <2>1. PICK none : none = {}
      OBVIOUS
    <2>2. /\ pass' = [pass EXCEPT !.at = "lookup", !.read = "changes", !.missing = none]
          /\ kept' = kept \cup m /\ remote' = remote
      BY <1>4, <2>1 DEF Advance
    <2>3. none \in SUBSET (Exhausted \cup Refused \cup Broken)
      BY <2>1
    <2>4. pass' \in ReadsPass
      BY <1>1, <1>2, <2>2, <2>3 DEF ReadsPass
    <2>5. pass'.at = "lookup" /\ pass'.missing = none
      BY <1>1, <2>2 DEF ReadsPass
    <2> QED  BY <2>1, <2>2, <2>4, <2>5
  <1> QED  BY <1>2, <1>3, <1>4

(* An answer ends a read: the next one is looked up, or the pass ends.     *)
LEMMA AnsweredPass ==
  ASSUME ReadsTypes, Answered
  PROVE  /\ pass' \in ReadsPass /\ pass'.at \in {"rest", "lookup"}
         /\ pass'.missing \subseteq pass.missing /\ kept' \subseteq kept \cup pass.missing
         /\ remote' \in {remote, github[Named(remote)].name}
  <1>1. CASE pass.read = "changes"
    <2>1. PICK rest : rest = Rest
      OBVIOUS
    <2>2. rest \in ReadsPass /\ rest.at = "rest" /\ rest.missing = {}
      BY <2>1, RestIsPass, RestFields
    <2>3. /\ pass' \in {rest, [rest EXCEPT !.at = "lookup"]} /\ kept' = kept
          /\ remote' = github[Named(remote)].name
      BY <1>1, <2>1, Zenon DEF Answered
    <2>4. pass' \in ReadsPass
      BY <2>2, <2>3 DEF ReadsPass
    <2>5. pass'.at \in {"rest", "lookup"} /\ pass'.missing = rest.missing
      BY <2>2, <2>3 DEF ReadsPass
    <2> QED  BY <2>2, <2>3, <2>4, <2>5
  <1>2. CASE pass.read # "changes"
    <2>1. Advance(pass.missing)
      BY <1>2 DEF Answered
    <2>2. pass.missing \in SUBSET (Exhausted \cup Refused \cup Broken)
      BY DEF ReadsTypes, ReadsPass
    <2> QED  BY <1>2, <2>1, <2>2, AdvancePass
  <1> QED  BY <1>1, <1>2

(* Without an answer the pass waits, goes on without a token, or takes the *)
(* refusal for one - never that of a budget (Unanswered).                  *)
LEMMA UnansweredPass ==
  ASSUME ReadsTypes,
         NEW a \in Exhausted \cup Refused \cup Broken, Unanswered(a)
  PROVE  /\ pass' \in ReadsPass /\ remote' = remote
         /\ \/ pass'.at \in {"rest", "lookup"}
            \/ pass.at = "asked" /\ pass'.at = "sent" /\ pass'.token = pass.token
         /\ pass'.missing \cap Exhausted \subseteq pass.missing
         /\ kept' \cap Exhausted \subseteq kept \cup pass.missing
  <1>1. pass.missing \cup {a} \in SUBSET (Exhausted \cup Refused \cup Broken)
    BY DEF ReadsTypes, ReadsPass
  <1>2. CASE pass.at = "asked" /\ Error(a) = "refused"
    <2>1. pass' = [pass EXCEPT !.at = "sent", !.waited = 0] /\ kept' = kept /\ remote' = remote
      BY <1>2 DEF Unanswered
    <2>2. 0 \in 0 .. TIMEOUT
      BY ForgeReadsAssumption
    <2>3. /\ pass' \in ReadsPass /\ pass'.at = "sent" /\ pass'.token = pass.token
          /\ pass'.missing = pass.missing
      BY <2>1, <2>2, BarePass
    <2> QED  BY <1>2, <2>1, <2>3
  <1>3. CASE /\ ~ (pass.at = "asked" /\ Error(a) = "refused")
             /\ pass.read = "changes" \/ Error(a) = "wait"
    <2>1. pass' = Rest /\ kept' = kept /\ remote' = remote
      BY <1>3 DEF Unanswered
    <2> QED  BY <2>1, RestIsPass, RestFields
  <1>4. CASE /\ ~ (pass.at = "asked" /\ Error(a) = "refused")
             /\ ~ (pass.read = "changes" \/ Error(a) = "wait")
    <2>1. Advance(pass.missing \cup {a}) /\ pass.read # "changes"
      BY <1>4 DEF Unanswered
    <2>2. a \notin Exhausted
      BY <1>4, ExhaustedIsWait
    <2>3. /\ pass' \in ReadsPass /\ pass'.at = "lookup" /\ pass'.missing \subseteq pass.missing \cup {a}
          /\ kept' \subseteq kept \cup (pass.missing \cup {a}) /\ remote' = remote
      BY <1>1, <2>1, AdvancePass
    <2> QED  BY <2>2, <2>3
  <1> QED  BY <1>2, <1>3, <1>4

(* A clock's step takes as much from the token as it adds to the wait      *)
(* (Tick).                                                                 *)
LEMMA TickPass ==
  ASSUME ReadsTypes, TokensInv, Tick
  PROVE  /\ pass' \in ReadsPass /\ pass'.at = pass.at /\ pass'.missing = pass.missing
         /\ pass'.installation = pass.installation
         /\ pass.token = NoToken => pass'.token = NoToken
         /\ pass.at = "sent" /\ pass.token # NoToken =>
              /\ pass'.token.name = pass.token.name /\ pass'.token.repository = pass.token.repository
              /\ pass'.token.installation = pass.token.installation
              /\ pass'.token.left + pass'.waited = pass.token.left + pass.waited
  <1>1. pass \in ReadsPass
    BY DEF ReadsTypes
  <1>2. CASE pass.at \notin {"sent", "asked"}
    <2>1. pass' = pass
      BY <1>2 DEF Tick
    <2> QED  BY <1>1, <1>2, <2>1
  <1>3. CASE pass.at \in {"sent", "asked"}
    <2>1. PICK t : t = Older(pass.token)
      OBVIOUS
    <2>2. PICK w : w = pass.waited + 1
      OBVIOUS
    <2>3. pass' = [pass EXCEPT !.waited = w, !.token = t]
      BY <1>3, <2>1, <2>2 DEF Tick
    <2>4. w \in 0 .. TIMEOUT
      <3>1. pass.waited < TIMEOUT
        BY <1>3 DEF Tick
      <3>2. pass.waited \in 0 .. TIMEOUT /\ TIMEOUT \in Nat
        BY <1>1, ForgeReadsAssumption DEF ReadsPass
      <3> QED  BY <2>2, <3>1, <3>2
    <2>5. /\ t \in Token \cup {NoToken}
          /\ pass.token # NoToken =>
               /\ t.name = pass.token.name /\ t.repository = pass.token.repository
               /\ t.installation = pass.token.installation /\ t.left = pass.token.left - 1
      <3>1. CASE pass.token = NoToken
        BY <2>1, <3>1 DEF Older
      <3>2. CASE pass.token # NoToken
        <4>1. t = [pass.token EXCEPT !.left = @ - 1]
          BY <2>1, <3>2 DEF Older
        <4>2. PICK k : k = pass.token
          OBVIOUS
        <4>3. k \in Token
          BY <1>1, <3>2, <4>2 DEF ReadsPass
        <4>4. k.left > 0
          <5>1. pass.at = "sent"
            BY <1>3, <3>2 DEF TokensInv
          <5>2. k.left + pass.waited > TIMEOUT
            BY <3>2, <4>2, <5>1 DEF TokensInv, Borne
          <5>3. pass.waited < TIMEOUT
            BY <1>3 DEF Tick
          <5>4. pass.waited \in 0 .. TIMEOUT /\ TIMEOUT \in Nat
            BY <1>1, ForgeReadsAssumption DEF ReadsPass
          <5>5. k.left \in 0 .. TOKEN_LIFE /\ TOKEN_LIFE \in Nat
            BY <4>3, TokenFields, ForgeReadsAssumption
          <5> QED  BY <5>2, <5>3, <5>4, <5>5
        <4>5. k.left - 1 \in 0 .. TOKEN_LIFE
          <5>1. k.left \in 0 .. TOKEN_LIFE /\ TOKEN_LIFE \in Nat
            BY <4>3, TokenFields, ForgeReadsAssumption
          <5> QED  BY <4>4, <5>1
        <4>6. t = [k EXCEPT !.left = k.left - 1]
          BY <4>1, <4>2, Zenon
        <4>7. t \in Token
          BY <4>3, <4>5, <4>6 DEF Token
        <4>8. /\ t.name = k.name /\ t.repository = k.repository
              /\ t.installation = k.installation /\ t.left = k.left - 1
          BY <4>3, <4>6 DEF Token
        <4> QED  BY <4>2, <4>7, <4>8, Zenon
      <3> QED  BY <3>1, <3>2
    <2>6. pass' \in ReadsPass
      BY <1>1, <2>3, <2>4, <2>5 DEF ReadsPass
    <2>7. /\ pass'.at = pass.at /\ pass'.missing = pass.missing /\ pass'.installation = pass.installation
          /\ pass'.token = t /\ pass'.waited = w
      BY <1>1, <2>3 DEF ReadsPass
    <2>8. ASSUME pass.at = "sent", pass.token # NoToken
          PROVE  pass'.token.left + pass'.waited = pass.token.left + pass.waited
      <3>1. pass.token \in Token
        BY <1>1, <2>8 DEF ReadsPass
      <3>2. pass.token.left \in Int /\ pass.waited \in Int
        BY <1>1, <3>1, TokenFields DEF ReadsPass
      <3>3. t.left = pass.token.left - 1
        BY <2>5, <2>8
      <3> QED  BY <2>2, <2>7, <3>2, <3>3
    <2>9. pass.token = NoToken => t = pass.token
      BY <2>1 DEF Older
    <2> QED  BY <2>5, <2>6, <2>7, <2>8, <2>9
  <1> QED  BY <1>2, <1>3

(* Tokens that last keep what they are for (Tick).                         *)
LEMMA TickTokens ==
  ASSUME ReadsTypes, Tick, NEW t \in tokens'
  PROVE  /\ t \in Token
         /\ \E u \in tokens : t.name = u.name /\ t.repository = u.repository
  <1>1. PICK u \in tokens : u.left > 1 /\ t = Older(u)
    BY DEF Tick
  <1>2. u \in Token
    BY DEF ReadsTypes
  <1>3. u.left - 1 \in 0 .. TOKEN_LIFE
    <2>1. u.left \in 0 .. TOKEN_LIFE /\ TOKEN_LIFE \in Nat
      BY <1>2, TokenFields, ForgeReadsAssumption
    <2> QED  BY <1>1, <2>1
  <1>4. t = [u EXCEPT !.left = u.left - 1]
    <2>1. u # NoToken
      BY <1>1 DEF NoToken
    <2> QED  BY <1>1, <2>1 DEF Older
  <1>5. t \in Token
    BY <1>2, <1>3, <1>4 DEF Token
  <1>6. t.name = u.name /\ t.repository = u.repository
    BY <1>2, <1>4 DEF Token
  <1> QED  BY <1>5, <1>6

-----------------------------------------------------------------------------
(* What happens on GitHub, one step at a time.                             *)

(* GitHub's steps leave the project's tables as they are.                  *)
LEMMA GithubKeeps ==
  ASSUME NEW r \in Repository, NEW i \in Installation, NEW n \in FullName,
         \/ Install(r, i) \/ Uninstall(r) \/ Suspend(i) \/ Rename(r, n)
  PROVE  UNCHANGED <<covered, remote, tokens, pass, kept>>
  BY DEF Install, Uninstall, Suspend, Rename

(* What is installed or taken away leaves every name as it was.            *)
LEMMA InstallKeepsNames ==
  ASSUME ReadsTypes, NEW r \in Repository, NEW i \in Installation,
         \/ Install(r, i) \/ Uninstall(r) \/ Suspend(i)
  PROVE  /\ github' \in [Repository -> ReadsRow] /\ renamed' = renamed
         /\ \A q \in Repository : github'[q].name = github[q].name
  <1>1. github \in [Repository -> ReadsRow]
    BY DEF ReadsTypes
  <1>2. ASSUME NEW q \in Repository, NEW j \in Installation \cup {NoInstallation}
        PROVE  /\ [github[q] EXCEPT !.installation = j] \in ReadsRow
               /\ [github[q] EXCEPT !.installation = j].name = github[q].name
    <2>1. PICK row0 \in ReadsRow : row0 = github[q]
      BY <1>1
    <2>2. [row0 EXCEPT !.installation = j] \in ReadsRow /\ [row0 EXCEPT !.installation = j].name = row0.name
      BY <2>1 DEF ReadsRow
    <2> QED  BY <2>1, <2>2
  <1>3. CASE Install(r, i)
    <2>1. PICK x : x = [github[r] EXCEPT !.installation = i]
      OBVIOUS
    <2>2. x \in ReadsRow /\ x.name = github[r].name
      BY <1>2, <2>1
    <2>3. github' = [github EXCEPT ![r] = x] /\ renamed' = renamed
      BY <1>3, <2>1 DEF Install
    <2> QED  BY <1>1, <2>2, <2>3
  <1>4. CASE Uninstall(r)
    <2>1. PICK x : x = [github[r] EXCEPT !.installation = NoInstallation]
      OBVIOUS
    <2>2. x \in ReadsRow /\ x.name = github[r].name
      BY <1>2, <2>1
    <2>3. github' = [github EXCEPT ![r] = x] /\ renamed' = renamed
      BY <1>4, <2>1 DEF Uninstall
    <2> QED  BY <1>1, <2>2, <2>3
  <1>5. CASE Suspend(i)
    <2>1. /\ github' = [q \in Repository |->
                IF github[q].installation = i THEN [github[q] EXCEPT !.installation = NoInstallation]
                ELSE github[q]]
          /\ renamed' = renamed
      BY <1>5 DEF Suspend
    <2>2. ASSUME NEW q \in Repository
          PROVE  github'[q] \in ReadsRow /\ github'[q].name = github[q].name
      <3>1. github[q] \in ReadsRow
        BY <1>1
      <3>2. PICK x : x = [github[q] EXCEPT !.installation = NoInstallation]
        OBVIOUS
      <3>3. x \in ReadsRow /\ x.name = github[q].name
        BY <1>2, <3>2
      <3>4. github'[q] = x \/ github'[q] = github[q]
        BY <2>1, <3>2
      <3> QED  BY <3>1, <3>3, <3>4
    <2>3. github' \in [Repository -> ReadsRow]
      BY <2>1, <2>2
    <2> QED  BY <2>1, <2>2, <2>3
  <1> QED  BY <1>3, <1>4, <1>5

(* A repository that is renamed takes a name nobody had, and leaves its    *)
(* own to lead to it (Rename).                                             *)
LEMMA RenameNames ==
  ASSUME ReadsTypes, NEW r \in Repository, NEW n \in FullName, Rename(r, n)
  PROVE  /\ github' \in [Repository -> ReadsRow]
         /\ github'[r].name = n
         /\ \A q \in Repository : q # r => github'[q].name = github[q].name
         /\ n \notin DOMAIN renamed /\ \A q \in Repository : github[q].name # n
         /\ DOMAIN renamed' = DOMAIN renamed \cup {github[r].name}
         /\ renamed'[github[r].name] = r
         /\ \A m \in DOMAIN renamed : m # github[r].name => renamed'[m] = renamed[m]
  <1>1. github \in [Repository -> ReadsRow] /\ github[r] \in ReadsRow
    BY DEF ReadsTypes
  <1>2. PICK x : x = [github[r] EXCEPT !.name = n]
    OBVIOUS
  <1>3. x \in ReadsRow /\ x.name = n
    BY <1>1, <1>2 DEF ReadsRow
  <1>4. github' = [github EXCEPT ![r] = x]
    BY <1>2 DEF Rename
  <1>5. /\ github' \in [Repository -> ReadsRow] /\ github'[r].name = n
        /\ \A q \in Repository : q # r => github'[q].name = github[q].name
    BY <1>1, <1>3, <1>4
  <1>6. n \notin DOMAIN renamed /\ \A q \in Repository : github[q].name # n
    BY DEF Rename
  <1>7. renamed' = [m \in DOMAIN renamed \cup {github[r].name} |-> IF m = github[r].name THEN r ELSE renamed[m]]
    BY DEF Rename
  <1>8. PICK own : own = github[r].name
    OBVIOUS
  <1>9. renamed' = [m \in DOMAIN renamed \cup {own} |-> IF m = own THEN r ELSE renamed[m]]
    BY <1>7, <1>8, Zenon
  <1>10. /\ DOMAIN renamed' = DOMAIN renamed \cup {own}
         /\ renamed'[own] = r
         /\ \A m \in DOMAIN renamed : m # own => renamed'[m] = renamed[m]
    BY <1>9
  <1> QED  BY <1>5, <1>6, <1>8, <1>10

(* GitHub is changed by nobody else.                                       *)
LEMMA GithubChanges ==
  ASSUME [ReadsNext]_readsVars
  PROVE  \/ UNCHANGED <<github, renamed>>
         \/ \E r \in Repository, i \in Installation : Install(r, i)
         \/ \E r \in Repository : Uninstall(r)
         \/ \E i \in Installation : Suspend(i)
         \/ \E r \in Repository, n \in FullName : Rename(r, n)
  <1>1. CASE UNCHANGED readsVars
    BY <1>1 DEF readsVars, forge
  <1>2. CASE \E r \in Repository : Push(r)
    BY <1>2 DEF Push, forge
  <1>3. CASE \E d \in deliveries : \/ Lose(d)
                                   \/ \E again \in BOOLEAN : Handle(d, again)
    BY <1>3 DEF Lose, Handle, forge
  <1>4. CASE \E read \in Reads : Begin(read)
    BY <1>4 DEF Begin, forge
  <1>5. CASE Lookup \/ Grant \/ RefuseToken \/ Answered
    BY <1>5 DEF Lookup, Grant, RefuseToken, Answered, forge
  <1>6. CASE \E a \in Exhausted \cup Refused \cup Broken : Unanswered(a)
    BY <1>6 DEF Unanswered, forge
  <1>7. CASE Tick \/ Restart
    BY <1>7 DEF Tick, Restart, forge
  <1> QED  BY <1>1, <1>2, <1>3, <1>4, <1>5, <1>6, <1>7, Zenon DEF ReadsNext

-----------------------------------------------------------------------------
(* The names, and the tokens asked for under them.                         *)

(* GitHub's steps keep the rules of names, whatever name the remote has.   *)
LEMMA NamesStay ==
  ASSUME ReadsTypes, NamesInv, [ReadsNext]_readsVars
  PROVE  /\ github' \in [Repository -> ReadsRow]
         /\ \A q, r \in Repository : github'[q].name = github'[r].name => q = r
         /\ \A n \in DOMAIN renamed' : renamed'[n] \in Repository
         /\ \A n \in DOMAIN renamed' : \A r \in Repository : github'[r].name # n
         /\ remote \in DOMAIN renamed' \/ \E r \in Repository : github'[r].name = remote
         /\ \A t : t.repository \in Repository /\ LeadsHome(t) =>
              \/ github'[t.repository].name = t.name
              \/ t.name \in DOMAIN renamed' /\ renamed'[t.name] = t.repository
  <1>1. CASE UNCHANGED <<github, renamed>>
    BY <1>1 DEF ReadsTypes, NamesInv, LeadsHome
  <1>2. CASE \/ \E r \in Repository, i \in Installation : Install(r, i)
             \/ \E r \in Repository : Uninstall(r)
             \/ \E i \in Installation : Suspend(i)
    <2>1. /\ github' \in [Repository -> ReadsRow] /\ renamed' = renamed
          /\ \A q \in Repository : github'[q].name = github[q].name
      <3>1. CASE \E r \in Repository, i \in Installation : Install(r, i)
        BY <3>1, InstallKeepsNames
      <3>2. CASE \E r \in Repository : Uninstall(r)
        <4>1. PICK r \in Repository : Uninstall(r)
          BY <3>2
        <4>2. github[r] \in ReadsRow /\ github[r].installation # NoInstallation
          BY <4>1 DEF ReadsTypes, Uninstall
        <4>3. PICK i \in Installation : TRUE
          BY <4>2 DEF ReadsRow
        <4> QED  BY <4>1, <4>3, InstallKeepsNames
      <3>3. CASE \E i \in Installation : Suspend(i)
        <4>1. PICK i \in Installation : Suspend(i)
          BY <3>3
        <4>2. PICK r \in Repository : TRUE
          BY <4>1 DEF Suspend
        <4> QED  BY <4>1, <4>2, InstallKeepsNames
      <3> QED  BY <1>2, <3>1, <3>2, <3>3
    <2> QED  BY <2>1 DEF NamesInv, LeadsHome
  <1>3. CASE \E r \in Repository, n \in FullName : Rename(r, n)
    <2>1. PICK r \in Repository, n \in FullName : Rename(r, n)
      BY <1>3
    <2>2. /\ github' \in [Repository -> ReadsRow]
          /\ github'[r].name = n
          /\ \A q \in Repository : q # r => github'[q].name = github[q].name
          /\ n \notin DOMAIN renamed /\ \A q \in Repository : github[q].name # n
          /\ DOMAIN renamed' = DOMAIN renamed \cup {github[r].name}
          /\ renamed'[github[r].name] = r
          /\ \A m \in DOMAIN renamed : m # github[r].name => renamed'[m] = renamed[m]
      BY <2>1, RenameNames
    <2>3. \A p, q \in Repository : github'[p].name = github'[q].name => p = q
      BY <2>2 DEF NamesInv
    <2>4. \A m \in DOMAIN renamed' : renamed'[m] \in Repository
      BY <2>2 DEF NamesInv
    <2>5. \A m \in DOMAIN renamed' : \A q \in Repository : github'[q].name # m
      BY <2>2 DEF NamesInv
    <2>6. remote \in DOMAIN renamed' \/ \E q \in Repository : github'[q].name = remote
      BY <2>2 DEF NamesInv
    <2>7. ASSUME NEW t, t.repository \in Repository, LeadsHome(t)
          PROVE  \/ github'[t.repository].name = t.name
                 \/ t.name \in DOMAIN renamed' /\ renamed'[t.name] = t.repository
      BY <2>2, <2>7 DEF NamesInv, LeadsHome
    <2> QED  BY <2>2, <2>3, <2>4, <2>5, <2>6, <2>7
  <1> QED  BY <1>1, <1>2, <1>3, GithubChanges

(* The remote changes to a name of the day, and only at the end of a read  *)
(* of changes (repoint).                                                   *)
LEMMA RemoteChanges ==
  ASSUME ReadsTypes, [ReadsNext]_readsVars
  PROVE  \/ remote' = remote
         \/ Answered /\ remote' = github[Named(remote)].name
  <1>1. CASE Answered
    BY <1>1, AnsweredPass
  <1>2. CASE UNCHANGED readsVars
    BY <1>2 DEF readsVars
  <1>3. CASE \/ \E r \in Repository, i \in Installation : Install(r, i)
             \/ \E r \in Repository : Uninstall(r) \/ Push(r)
             \/ \E i \in Installation : Suspend(i)
             \/ \E r \in Repository, n \in FullName : Rename(r, n)
    BY <1>3 DEF Install, Uninstall, Push, Suspend, Rename
  <1>4. CASE \E d \in deliveries : \/ Lose(d)
                                   \/ \E again \in BOOLEAN : Handle(d, again)
    BY <1>4 DEF Lose, Handle
  <1>5. CASE \E read \in Reads : Begin(read)
    BY <1>5 DEF Begin
  <1>6. CASE Lookup \/ Grant \/ RefuseToken \/ Tick \/ Restart
    BY <1>6 DEF Lookup, Grant, RefuseToken, Tick, Restart
  <1>7. CASE \E a \in Exhausted \cup Refused \cup Broken : Unanswered(a)
    BY <1>7, UnansweredPass
  <1> QED  BY <1>1, <1>2, <1>3, <1>4, <1>5, <1>6, <1>7, Zenon DEF ReadsNext

(* So the rules of names hold for good.                                    *)
LEMMA NamesStep ==
  ASSUME ReadsTypes, NamesInv, [ReadsNext]_readsVars
  PROVE  NamesInv'
  <1>1. /\ \A q, r \in Repository : github'[q].name = github'[r].name => q = r
        /\ \A n \in DOMAIN renamed' : renamed'[n] \in Repository
        /\ \A n \in DOMAIN renamed' : \A r \in Repository : github'[r].name # n
        /\ remote \in DOMAIN renamed' \/ \E r \in Repository : github'[r].name = remote
    BY NamesStay
  <1>2. remote' \in DOMAIN renamed' \/ \E r \in Repository : github'[r].name = remote'
    <2>1. CASE remote' = remote
      BY <1>1, <2>1
    <2>2. CASE Answered /\ remote' = github[Named(remote)].name
      <3>1. github' = github
        BY <2>2 DEF Answered, forge
      <3> QED  BY <2>2, <3>1, NamedType
    <2> QED  BY <2>1, <2>2, RemoteChanges
  <1> QED  BY <1>1, <1>2 DEF NamesInv

(* Whatever happens, a token leads where it was asked for: the next ones   *)
(* do if they are tokens of before or granted now.                         *)
LEMMA TokenStep ==
  ASSUME ReadsTypes, NamesInv, TokensInv, [ReadsNext]_readsVars,
         NEW t, t.repository \in Repository, LeadsHome(t)
  PROVE  LeadsHome(t)'
  BY NamesStay DEF LeadsHome

-----------------------------------------------------------------------------
(* The tables and the pass.                                                *)

(* A pass is moved by its own steps, by the clock and by a restart.        *)
LEMMA PassMoves ==
  ASSUME [ReadsNext]_readsVars
  PROVE  \/ UNCHANGED <<pass, tokens, remote, kept>>
         \/ \E read \in Reads : Begin(read)
         \/ Lookup \/ Grant \/ RefuseToken \/ Answered
         \/ \E a \in Exhausted \cup Refused \cup Broken : Unanswered(a)
         \/ Tick \/ Restart
  <1>1. CASE UNCHANGED readsVars
    BY <1>1 DEF readsVars
  <1>2. CASE \/ \E r \in Repository, i \in Installation : Install(r, i)
             \/ \E r \in Repository : Uninstall(r) \/ Push(r)
             \/ \E i \in Installation : Suspend(i)
             \/ \E r \in Repository, n \in FullName : Rename(r, n)
    BY <1>2 DEF Install, Uninstall, Push, Suspend, Rename
  <1>3. CASE \E d \in deliveries : \/ Lose(d)
                                   \/ \E again \in BOOLEAN : Handle(d, again)
    BY <1>3 DEF Lose, Handle
  <1> QED  BY <1>1, <1>2, <1>3, Zenon DEF ReadsNext

(* What is delivered is a delivery.                                        *)
LEMMA DeliveriesType ==
  ASSUME ReadsTypes, [ReadsNext]_readsVars
  PROVE  deliveries' \subseteq Delivery
  <1>1. ASSUME NEW what \in {"cover", "uncover"}, NEW r \in Repository, NEW i \in Installation,
               NEW n \in FullName
        PROVE  [what |-> what, repository |-> r, installation |-> i, name |-> n] \in Delivery
    BY DEF Delivery
  <1>2. ASSUME NEW r \in Repository
        PROVE  github[r].name \in FullName /\ github[r].installation \in Installation \cup {NoInstallation}
    <2>1. github[r] \in ReadsRow
      BY DEF ReadsTypes
    <2> QED  BY <2>1 DEF ReadsRow
  <1>3. CASE \E r \in Repository, i \in Installation : Install(r, i)
    <2>1. PICK r \in Repository, i \in Installation : Install(r, i)
      BY <1>3
    <2>2. deliveries' = deliveries \cup {[Covers("cover", r) EXCEPT !.installation = i]}
      BY <2>1 DEF Install
    <2>3. [Covers("cover", r) EXCEPT !.installation = i]
            = [what |-> "cover", repository |-> r, installation |-> i, name |-> github[r].name]
      BY DEF Covers
    <2>4. [what |-> "cover", repository |-> r, installation |-> i, name |-> github[r].name] \in Delivery
      BY <1>1, <1>2
    <2> QED  BY <2>2, <2>3, <2>4, Zenon DEF ReadsTypes
  <1>4. ASSUME NEW r \in Repository, NEW what \in {"cover", "uncover"},
               github[r].installation # NoInstallation,
               deliveries' = deliveries \cup {Covers(what, r)}
        PROVE  deliveries' \subseteq Delivery
    <2>1. Covers(what, r) \in Delivery
      BY <1>1, <1>2, <1>4 DEF Covers
    <2> QED  BY <1>4, <2>1, Zenon DEF ReadsTypes
  <1>5. CASE \E r \in Repository : Uninstall(r) \/ Push(r)
    BY <1>4, <1>5 DEF Uninstall, Push
  <1>6. CASE \E i \in Installation : Suspend(i)
    <2>1. PICK i \in Installation : Suspend(i)
      BY <1>6
    <2>2. deliveries' = deliveries \cup {[what |-> "remove", installation |-> i]}
      BY <2>1 DEF Suspend
    <2>3. [what |-> "remove", installation |-> i] \in Delivery
      BY DEF Delivery
    <2> QED  BY <2>2, <2>3 DEF ReadsTypes
  <1>7. CASE \E d \in deliveries : \/ Lose(d)
                                   \/ \E again \in BOOLEAN : Handle(d, again)
    BY <1>7 DEF Lose, Handle, ReadsTypes
  <1>8. CASE deliveries' = deliveries
    BY <1>8 DEF ReadsTypes
  <1>9. CASE \E r \in Repository, n \in FullName : Rename(r, n)
    BY <1>8, <1>9 DEF Rename
  <1>10. CASE UNCHANGED readsVars
    BY <1>8, <1>10 DEF readsVars
  <1>11. CASE \E read \in Reads : Begin(read)
    BY <1>8, <1>11 DEF Begin
  <1>12. CASE Lookup \/ Grant \/ RefuseToken \/ Answered
              \/ Tick \/ Restart
    BY <1>8, <1>12 DEF Lookup, Grant, RefuseToken, Answered, Tick,
       Restart
  <1>13. CASE \E a \in Exhausted \cup Refused \cup Broken : Unanswered(a)
    BY <1>8, <1>13 DEF Unanswered
  <1> QED  BY <1>3, <1>5, <1>6, <1>7, <1>9, <1>10, <1>11, <1>12, <1>13, Zenon DEF ReadsNext

(* The deliveries write rows of the table, or empty them (handle).         *)
LEMMA CoveredType ==
  ASSUME ReadsTypes, [ReadsNext]_readsVars
  PROVE  covered' \in [Repository -> CoveredRow]
  <1>1. covered \in [Repository -> CoveredRow]
    BY DEF ReadsTypes
  <1>2. PICK none \in CoveredRow : none = NoCover
    BY DEF CoveredRow
  <1>3. CASE \E d \in deliveries, again \in BOOLEAN : Handle(d, again)
    <2>1. PICK d \in deliveries, again \in BOOLEAN : Handle(d, again)
      BY <1>3
    <2>2. d \in Delivery
      BY DEF ReadsTypes
    <2>3. CASE d.what = "cover"
      <3>1. covered' = Cover(d)
        BY <2>1, <2>3 DEF Handle
      <3>2. d.installation \in Installation /\ d.name \in FullName
        BY <2>2, <2>3 DEF Delivery
      <3>3. PICK x : x = [installation |-> d.installation, name |-> d.name]
        OBVIOUS
      <3>4. x \in CoveredRow
        BY <3>2, <3>3 DEF CoveredRow
      <3>5. covered' = [covered EXCEPT ![d.repository] = x]
        BY <3>1, <3>3 DEF Cover
      <3> QED  BY <1>1, <3>4, <3>5
    <2>4. CASE d.what = "uncover"
      <3>1. covered' = Uncover(d)
        BY <2>1, <2>4 DEF Handle
      <3>2. \/ covered' = [covered EXCEPT ![d.repository] = none]
            \/ covered' = [covered EXCEPT ![d.repository] = covered[d.repository]]
        BY <1>2, <3>1 DEF Uncover
      <3>3. d.repository \in Repository
        BY <2>2, <2>4 DEF Delivery
      <3> QED  BY <1>1, <3>2, <3>3
    <2>5. CASE d.what = "remove"
      <3>1. covered' = Remove(d)
        BY <2>1, <2>5 DEF Handle
      <3>2. covered' = [r \in Repository |->
                IF covered[r].installation = d.installation THEN none ELSE covered[r]]
        BY <1>2, <3>1 DEF Remove
      <3> QED  BY <1>1, <3>2
    <2>6. d.what \in {"cover", "uncover", "remove"}
      BY <2>2 DEF Delivery
    <2> QED  BY <2>3, <2>4, <2>5, <2>6
  <1>4. CASE covered' = covered
    BY <1>1, <1>4
  <1>5. CASE \/ \E r \in Repository, i \in Installation : Install(r, i)
             \/ \E r \in Repository : Uninstall(r) \/ Push(r)
             \/ \E i \in Installation : Suspend(i)
             \/ \E r \in Repository, n \in FullName : Rename(r, n)
    BY <1>4, <1>5 DEF Install, Uninstall, Push, Suspend, Rename
  <1>6. CASE UNCHANGED readsVars
    BY <1>4, <1>6 DEF readsVars
  <1>7. CASE \E d \in deliveries : Lose(d)
    BY <1>4, <1>7 DEF Lose
  <1>8. CASE \E read \in Reads : Begin(read)
    BY <1>4, <1>8 DEF Begin
  <1>9. CASE Lookup \/ Grant \/ RefuseToken \/ Answered
              \/ Tick \/ Restart
    BY <1>4, <1>9 DEF Lookup, Grant, RefuseToken, Answered, Tick,
       Restart
  <1>10. CASE \E a \in Exhausted \cup Refused \cup Broken : Unanswered(a)
    BY <1>4, <1>10 DEF Unanswered
  <1> QED  BY <1>3, <1>5, <1>6, <1>7, <1>8, <1>9, <1>10, Zenon DEF ReadsNext

-----------------------------------------------------------------------------
(* The pass and its tokens, one step at a time.                            *)

(* The shapes stay what they are.                                          *)
LEMMA ReadsTypesStep ==
  ASSUME ReadsTypes, NamesInv, TokensInv, [ReadsNext]_readsVars
  PROVE  ReadsTypes'
  <1>1. github' \in [Repository -> ReadsRow]
    BY NamesStay
  <1>2. remote' \in FullName
    <2>1. CASE remote' = remote
      BY <2>1 DEF ReadsTypes
    <2>2. CASE Answered /\ remote' = github[Named(remote)].name
      <3>1. github[Named(remote)] \in ReadsRow
        BY NamedType DEF ReadsTypes
      <3> QED  BY <2>2, <3>1 DEF ReadsRow
    <2> QED  BY <2>1, <2>2, RemoteChanges
  <1>3. tokens' \subseteq Token /\ pass' \in ReadsPass
    <2>1. tokens \subseteq Token /\ pass \in ReadsPass /\ 0 \in 0 .. TIMEOUT
      BY ForgeReadsAssumption DEF ReadsTypes
    <2>2. CASE UNCHANGED <<pass, tokens, remote, kept>>
      BY <2>1, <2>2
    <2>3. CASE \E read \in Reads : Begin(read)
      BY <2>1, <2>3, BeginPass DEF Begin
    <2>4. CASE Lookup
      BY <2>1, <2>4, LookupPass DEF Lookup
    <2>5. CASE Grant
      <3>1. PICK t \in Granted :
              /\ tokens' = {u \in tokens : <<u.installation, u.name>> # <<t.installation, t.name>>} \cup {t}
              /\ pass' = [pass EXCEPT !.at = "sent", !.token = t, !.waited = 0]
        BY <2>5 DEF Grant
      <3>2. pass.at = "asked"
        BY <2>5 DEF Grant
      <3>3. t \in Token
        BY <3>2, GrantedTokens
      <3>4. pass' \in ReadsPass
        BY <2>1, <3>1, <3>3, GrantPass
      <3> QED  BY <2>1, <3>1, <3>3, <3>4
    <2>6. CASE RefuseToken
      BY <2>1, <2>6, BarePass DEF RefuseToken
    <2>7. CASE Answered
      BY <2>1, <2>7, AnsweredPass DEF Answered
    <2>8. CASE \E a \in Exhausted \cup Refused \cup Broken : Unanswered(a)
      <3>1. PICK a \in Exhausted \cup Refused \cup Broken : Unanswered(a)
        BY <2>8
      <3>2. tokens' = tokens
        BY <3>1 DEF Unanswered
      <3> QED  BY <2>1, <3>1, <3>2, UnansweredPass
    <2>9. CASE Tick
      <3>1. pass' \in ReadsPass
        BY <2>9, TickPass
      <3>2. \A t \in tokens' : t \in Token
        BY <2>9, TickTokens
      <3> QED  BY <3>1, <3>2
    <2>10. CASE Restart
      BY <2>10, RestIsPass DEF Restart
    <2> QED  BY <2>2, <2>3, <2>4, <2>5, <2>6, <2>7, <2>8, <2>9, <2>10, PassMoves
  <1>4. deliveries' \subseteq Delivery /\ covered' \in [Repository -> CoveredRow]
    BY DeliveriesType, CoveredType
  <1> QED  BY <1>1, <1>2, <1>3, <1>4 DEF ReadsTypes

(* Every token kept, and the one a request bears, leads where it was asked *)
(* for; and it lasts as long as the request may.                           *)
LEMMA TokensInvStep ==
  ASSUME ReadsTypes, NamesInv, TokensInv, [ReadsNext]_readsVars
  PROVE  TokensInv'
  <1>1. ASSUME NEW t, t.repository \in Repository, LeadsHome(t)  PROVE LeadsHome(t)'
    BY <1>1, TokenStep
  <1>2. ASSUME NEW t \in tokens  PROVE t.repository \in Repository /\ LeadsHome(t) /\ LeadsHome(t)'
    <2>1. t.repository \in Repository
      BY TokenFields DEF ReadsTypes
    <2>2. LeadsHome(t)
      BY DEF TokensInv
    <2> QED  BY <1>1, <2>1, <2>2
  <1>3. TIMEOUT \in Nat /\ TOKEN_MARGIN \in Nat /\ TIMEOUT <= TOKEN_MARGIN
    BY ForgeReadsAssumption
  <1>4. CASE UNCHANGED <<pass, tokens, remote, kept>>
    <2>1. \A t \in tokens' : LeadsHome(t)'
      BY <1>2, <1>4
    <2>2. pass'.at = "asked" => pass'.token = NoToken /\ pass'.installation # NoInstallation
      BY <1>4 DEF TokensInv
    <2>3. ASSUME pass'.at = "sent", pass'.token # NoToken  PROVE Borne'
      <3>1. pass' = pass /\ remote' = remote
        BY <1>4
      <3>2. Borne /\ pass.token \in Token
        BY <2>3, <3>1 DEF TokensInv, ReadsTypes, ReadsPass
      <3>3. PICK t : t = pass.token
        OBVIOUS
      <3>4. LeadsHome(t)'
        BY <1>1, <3>2, <3>3, TokenFields DEF Borne
      <3>5. LeadsHome(pass.token)'
        BY <3>1, <3>3, <3>4 DEF LeadsHome
      <3> QED  BY <3>1, <3>2, <3>5 DEF Borne
    <2> QED  BY <2>1, <2>2, <2>3 DEF TokensInv
  <1>5. ASSUME tokens' \subseteq tokens, pass'.at \in {"rest", "lookup"}
        PROVE  TokensInv'
    BY <1>2, <1>5 DEF TokensInv
  <1>6. ASSUME tokens' = tokens, pass'.at = "sent", pass'.token = NoToken
        PROVE  TokensInv'
    BY <1>2, <1>6 DEF TokensInv
  <1>7. CASE \E read \in Reads : Begin(read)
    BY <1>5, <1>7, BeginPass DEF Begin
  <1>8. CASE Lookup
    <2>1. tokens' = tokens /\ remote' = remote
      BY <1>8 DEF Lookup
    <2>2. CASE pass'.at = "asked" /\ pass'.token = NoToken /\ pass'.installation # NoInstallation
      BY <1>2, <2>1, <2>2 DEF TokensInv
    <2>3. CASE pass'.at = "sent" /\ pass'.token = NoToken
      BY <1>6, <2>1, <2>3
    <2>4. CASE /\ pass'.at = "sent" /\ pass'.token \in tokens
               /\ pass'.token.left > TOKEN_MARGIN
               /\ pass'.token.name = remote /\ pass'.token.installation = pass'.installation
      <3>1. PICK t \in tokens : t = pass'.token
        BY <2>4
      <3>2. LeadsHome(t)' /\ t.left \in Int
        BY <1>2, TokenFields DEF ReadsTypes
      <3>3. LeadsHome(pass.token)'
        BY <3>1, <3>2 DEF LeadsHome
      <3>4. pass'.token.left + pass'.waited > TIMEOUT
        BY <1>3, <1>8, <2>4, <3>1, <3>2, LookupPass
      <3>5. Borne'
        BY <2>1, <2>4, <3>3, <3>4 DEF Borne
      <3> QED  BY <1>2, <2>1, <2>4, <3>5 DEF TokensInv
    <2> QED  BY <1>8, <2>2, <2>3, <2>4, LookupPass
  <1>9. CASE Grant
    <2>1. PICK t \in Granted :
            /\ tokens' = {u \in tokens : <<u.installation, u.name>> # <<t.installation, t.name>>} \cup {t}
            /\ pass' = [pass EXCEPT !.at = "sent", !.token = t, !.waited = 0]
      BY <1>9 DEF Grant
    <2>2. pass.at = "asked" /\ remote' = remote
      BY <1>9 DEF Grant
    <2>3. /\ t \in Token /\ LeadsHome(t)
          /\ t.name = remote /\ t.installation = pass.installation /\ t.left > TIMEOUT
      BY <2>2, GrantedTokens
    <2>4. 0 \in 0 .. TIMEOUT
      BY <1>3
    <2>5. /\ pass'.at = "sent" /\ pass'.token = t /\ pass'.waited = 0
          /\ pass'.installation = pass.installation
      BY <2>1, <2>3, <2>4, GrantPass
    <2>6. LeadsHome(t)'
      BY <1>1, <2>3, TokenFields
    <2>7. \A u \in tokens' : LeadsHome(u)'
      BY <1>2, <2>1, <2>6
    <2>8. Borne'
      <3>1. LeadsHome(pass.token)'
        BY <2>5, <2>6 DEF LeadsHome
      <3>2. t.left \in Int
        BY <2>3, TokenFields
      <3> QED  BY <1>3, <2>2, <2>3, <2>5, <3>1, <3>2 DEF Borne
    <2> QED  BY <2>5, <2>7, <2>8 DEF TokensInv
  <1>10. CASE RefuseToken
    <2>1. pass' = [pass EXCEPT !.at = "sent", !.waited = 0] /\ tokens' = tokens /\ pass.at = "asked"
      BY <1>10 DEF RefuseToken
    <2>2. 0 \in 0 .. TIMEOUT
      BY <1>3
    <2>3. pass'.at = "sent" /\ pass'.token = NoToken
      BY <2>1, <2>2, BarePass DEF TokensInv
    <2> QED  BY <1>6, <2>1, <2>3
  <1>11. CASE Answered
    BY <1>5, <1>11, AnsweredPass DEF Answered
  <1>12. CASE \E a \in Exhausted \cup Refused \cup Broken : Unanswered(a)
    <2>1. PICK a \in Exhausted \cup Refused \cup Broken : Unanswered(a)
      BY <1>12
    <2>2. tokens' = tokens
      BY <2>1 DEF Unanswered
    <2>3. \/ pass'.at \in {"rest", "lookup"}
          \/ pass.at = "asked" /\ pass'.at = "sent" /\ pass'.token = pass.token
      BY <2>1, UnansweredPass
    <2>4. CASE pass'.at \in {"rest", "lookup"}
      BY <1>5, <2>2, <2>4
    <2>5. CASE pass.at = "asked" /\ pass'.at = "sent" /\ pass'.token = pass.token
      BY <1>6, <2>2, <2>5 DEF TokensInv
    <2> QED  BY <2>3, <2>4, <2>5
  <1>13. CASE Tick
    <2>1. remote' = remote
      BY <1>13 DEF Tick
    <2>2. ASSUME NEW t \in tokens'  PROVE LeadsHome(t)'
      <3>1. PICK u \in tokens : t.name = u.name /\ t.repository = u.repository
        BY <1>13, TickTokens
      <3>2. LeadsHome(u)'
        BY <1>2
      <3> QED  BY <3>1, <3>2 DEF LeadsHome
    <2>3. pass'.at = pass.at /\ pass'.installation = pass.installation
          /\ (pass.token = NoToken => pass'.token = NoToken)
      BY <1>13, TickPass
    <2>4. ASSUME pass'.at = "sent", pass'.token # NoToken  PROVE Borne'
      <3>1. pass.at = "sent" /\ pass.token # NoToken
        BY <2>3, <2>4
      <3>2. Borne /\ pass.token \in Token
        BY <3>1 DEF TokensInv, ReadsTypes, ReadsPass
      <3>3. /\ pass'.token.name = pass.token.name /\ pass'.token.repository = pass.token.repository
            /\ pass'.token.installation = pass.token.installation
            /\ pass'.token.left + pass'.waited = pass.token.left + pass.waited
        BY <1>13, <3>1, TickPass
      <3>4. PICK t : t = pass.token
        OBVIOUS
      <3>5. LeadsHome(t)'
        BY <1>1, <3>2, <3>4, TokenFields DEF Borne
      <3>6. LeadsHome(pass.token)'
        BY <3>3, <3>4, <3>5 DEF LeadsHome
      <3> QED  BY <2>1, <2>3, <3>2, <3>3, <3>6 DEF Borne
    <2>5. pass'.at = "asked" => pass'.token = NoToken /\ pass'.installation # NoInstallation
      BY <2>3 DEF TokensInv
    <2> QED  BY <2>2, <2>4, <2>5 DEF TokensInv
  <1>14. CASE Restart
    <2>1. tokens' = {} /\ pass' = Rest
      BY <1>14 DEF Restart
    <2> QED  BY <1>5, <2>1, RestFields
  <1> QED  BY <1>4, <1>7, <1>8, <1>9, <1>10, <1>11, <1>12, <1>13, <1>14, PassMoves

(* What a budget withheld is in no pass and in no analysis, whichever      *)
(* request ran into it.                                                    *)
LEMMA AnswersStep ==
  ASSUME ReadsTypes, TokensInv, AnswersInv, [ReadsNext]_readsVars
  PROVE  AnswersInv'
  <1>1. ASSUME pass'.missing \cap Exhausted \subseteq pass.missing,
               kept' \cap Exhausted \subseteq kept \cup pass.missing
        PROVE  AnswersInv'
    BY <1>1 DEF AnswersInv
  <1>2. CASE UNCHANGED <<pass, tokens, remote, kept>>
    BY <1>1, <1>2
  <1>3. CASE \E read \in Reads : Begin(read)
    BY <1>1, <1>3, BeginPass DEF Begin
  <1>4. CASE Lookup
    BY <1>1, <1>4, LookupPass DEF Lookup
  <1>5. CASE Grant
    <2>1. PICK t \in Granted : pass' = [pass EXCEPT !.at = "sent", !.token = t, !.waited = 0]
      BY <1>5 DEF Grant
    <2>2. pass.at = "asked" /\ kept' = kept /\ 0 \in 0 .. TIMEOUT
      BY <1>5, ForgeReadsAssumption DEF Grant
    <2>3. t \in Token
      BY <2>2, GrantedTokens
    <2>4. pass'.missing = pass.missing
      BY <2>1, <2>2, <2>3, GrantPass
    <2> QED  BY <1>1, <2>2, <2>4
  <1>6. CASE RefuseToken
    <2>1. /\ pass' = [pass EXCEPT !.at = "sent", !.waited = 0] /\ kept' = kept
          /\ 0 \in 0 .. TIMEOUT
      BY <1>6, ForgeReadsAssumption DEF RefuseToken
    <2> QED  BY <1>1, <2>1, BarePass
  <1>7. CASE Answered
    BY <1>1, <1>7, AnsweredPass
  <1>8. CASE \E a \in Exhausted \cup Refused \cup Broken : Unanswered(a)
    BY <1>1, <1>8, UnansweredPass
  <1>9. CASE Tick
    BY <1>1, <1>9, TickPass DEF Tick
  <1>10. CASE Restart
    BY <1>1, <1>10, RestFields DEF Restart
  <1> QED  BY <1>2, <1>3, <1>4, <1>5, <1>6, <1>7, <1>8, <1>9, <1>10, PassMoves

(* How the reads begin.                                                    *)
LEMMA ReadsBegin ==
  ASSUME ReadsInit
  PROVE  ReadsTypes /\ NamesInv /\ TokensInv /\ AnswersInv
  <1>1. \A r \in Repository : First[r] \in FullName
    BY ForgeReadsAssumption
  <1>2. \A q, r \in Repository : First[q] = First[r] => q = r
    BY ForgeReadsAssumption
  <1>3. github = [r \in Repository |-> [name |-> First[r], installation |-> NoInstallation]]
    BY DEF ReadsInit
  <1>4. \A r \in Repository : github[r] \in ReadsRow /\ github[r].name = First[r]
    BY <1>1, <1>3 DEF ReadsRow
  <1>5. github \in [Repository -> ReadsRow]
    BY <1>3, <1>4
  <1>6. remote \in {First[r] : r \in Repository}
    BY DEF ReadsInit
  <1>7. covered \in [Repository -> CoveredRow]
    <2>1. PICK none \in CoveredRow : none = NoCover
      BY DEF CoveredRow
    <2> QED  BY <2>1 DEF ReadsInit
  <1>8. deliveries = {} /\ tokens = {} /\ kept = {} /\ pass = Rest /\ DOMAIN renamed = {}
    BY DEF ReadsInit
  <1>9. ReadsTypes
    BY <1>1, <1>5, <1>6, <1>7, <1>8, RestIsPass DEF ReadsTypes
  <1>10. NamesInv
    <2>1. \A q, r \in Repository : github[q].name = github[r].name => q = r
      BY <1>2, <1>4
    <2>2. \E r \in Repository : github[r].name = remote
      BY <1>4, <1>6
    <2> QED  BY <1>8, <2>1, <2>2 DEF NamesInv
  <1>11. TokensInv /\ AnswersInv
    BY <1>8, RestFields DEF TokensInv, AnswersInv
  <1> QED  BY <1>9, <1>10, <1>11

(* All of it together, which every step preserves.                         *)
ReadsIInv == ReadsTypes /\ NamesInv /\ TokensInv /\ AnswersInv

(* Every state has it.                                                     *)
LEMMA ReadsInductive ==
  ReadsSpec => []ReadsIInv
  <1>1. ReadsInit => ReadsIInv
    BY ReadsBegin DEF ReadsIInv
  <1>2. ReadsIInv /\ [ReadsNext]_readsVars => ReadsIInv'
    <2> SUFFICES ASSUME ReadsIInv, [ReadsNext]_readsVars  PROVE ReadsIInv'
      OBVIOUS
    <2>1. ReadsTypes /\ NamesInv /\ TokensInv /\ AnswersInv
      BY DEF ReadsIInv
    <2> QED  BY <2>1, ReadsTypesStep, NamesStep, TokensInvStep, AnswersStep DEF ReadsIInv
  <1> QED  BY <1>1, <1>2, PTL DEF ReadsSpec

(* The tables, the tokens and the read under way are what they can be.     *)
LEMMA ReadsTypesOK ==
  ASSUME ReadsIInv
  PROVE  ReadsTypeOK
  <1>1. ReadsTypes
    BY DEF ReadsIInv
  <1>2. github \in [Repository -> [name : FullName, installation : Installation \cup {NoInstallation}]]
    BY <1>1 DEF ReadsTypes, ReadsRow
  <1>3. ASSUME NEW r \in Repository, covered[r] # NoCover
        PROVE  covered[r].installation \in Installation
    <2>1. covered[r] \in [name : FullName, installation : Installation]
      BY <1>1, <1>3 DEF ReadsTypes, CoveredRow
    <2> QED  BY <2>1
  <1>4. /\ pass.at \in {"rest", "lookup", "asked", "sent"} /\ pass.read \in Reads
        /\ pass.waited \in 0 .. TIMEOUT
    BY <1>1 DEF ReadsTypes, ReadsPass
  <1> QED  BY <1>1, <1>2, <1>3, <1>4 DEF ReadsTypes, ReadsTypeOK

(* For any number of repositories, installations and names, whatever is    *)
(* renamed, moved and read again: a request never arrives after its token  *)
(* expired, and bears one asked for under the name it reads, of the        *)
(* repository that name leads to.                                          *)
THEOREM TokensAlwaysReachTheirRepository ==
  ReadsSpec => []TokensReachTheirRepository
  <1>1. ReadsIInv => TokensReachTheirRepository
    <2> SUFFICES ASSUME ReadsIInv  PROVE TokensReachTheirRepository
      OBVIOUS
    <2>1. ReadsTypes /\ NamesInv /\ TokensInv
      BY DEF ReadsIInv
    <2>2. ASSUME pass.at = "sent", pass.token # NoToken
          PROVE  /\ pass.token.left > 0
                 /\ pass.token.name = remote /\ pass.token.installation = pass.installation
                 /\ github[pass.token.repository].name # remote =>
                      Named(remote) = pass.token.repository
      <3>1. Borne
        BY <2>1, <2>2 DEF TokensInv
      <3>2. pass \in ReadsPass
        BY <2>1 DEF ReadsTypes
      <3>3. pass.token \in Token
        BY <2>2, <3>2 DEF ReadsPass
      <3>4. pass.token.left \in 0 .. TOKEN_LIFE /\ pass.token.repository \in Repository
        BY <3>3, TokenFields
      <3>5. pass.token.left > 0
        <4>1. pass.waited \in 0 .. TIMEOUT /\ TIMEOUT \in Nat /\ TOKEN_LIFE \in Nat
          BY <3>2, ForgeReadsAssumption DEF ReadsPass
        <4>2. pass.token.left + pass.waited > TIMEOUT
          BY <3>1 DEF Borne
        <4> QED  BY <3>4, <4>1, <4>2
      <3>6. github[pass.token.repository].name # remote => Named(remote) = pass.token.repository
        BY <2>1, <3>1, <3>4, NamedIsHome DEF Borne
      <3> QED  BY <3>1, <3>5, <3>6 DEF Borne
    <2>3. ReadsTypeOK
      BY ReadsTypesOK
    <2> QED  BY <2>2, <2>3 DEF TokensReachTheirRepository
  <1> QED  BY <1>1, ReadsInductive, PTL

(* For any number of them: no stored analysis lacks what a budget withheld *)
(* from any of its requests.                                               *)
THEOREM WaitsAreNeverAnswers ==
  ReadsSpec => []WaitsAreNotAnswers
  <1>1. ReadsIInv => WaitsAreNotAnswers
    BY DEF ReadsIInv, AnswersInv, WaitsAreNotAnswers
  <1> QED  BY <1>1, ReadsInductive, PTL
=============================================================================
