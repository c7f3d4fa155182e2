----------------------------- MODULE Reporting -----------------------------
(***************************************************************************)
(* What one project tells its forge about the heads it watches: the check  *)
(* kept on each head (src/src/forge/report.rs), who writes it - the pass   *)
(* and the scans asked for (src/src/worker/discovery.rs), the webhooks     *)
(* (src/src/http/webhook.rs) - and the forge's own list of checks.         *)
(*                                                                         *)
(* A write reads the row of the head, asks the forge to create a check or  *)
(* to update the one that is open, and saves which check it is and what    *)
(* was asked.  Scans of a project exclude each other by its lock, writes   *)
(* by the writer's lock.  The forge may refuse, or act and its answer get  *)
(* lost; the save may fail; whoever is at it may stop; people ask for a    *)
(* check to be run again, on the forge, which resets it there.             *)
(*                                                                         *)
(* Checks are numbered as the forge creates them, and it shows the newest  *)
(* of a head.  Analyses of a head are counted: a verdict is the number of  *)
(* the analysis it was read from, and 0 says nothing of the head.          *)
(***************************************************************************)
EXTENDS Integers, Sequences, FiniteSetsExt

CONSTANTS
  CommitSha,   \* commits
  Actor,       \* workers and requests
  MaxTrouble   \* bound on what goes wrong and what people ask for

ASSUME ReportingAssumption == MaxTrouble \in Nat /\ "nobody" \notin Actor

VARIABLES
  watched,     \* heads of the default branch and of open changes
  on,          \* the project reports, and an installation covers it
  analysis,    \* how many analyses of each head are stored
  recorded,    \* heads with a reading on a change
  checks,      \* the forge: its checks, oldest first
  asked,       \*   and re-runs it was asked for and tells of
  row,         \* table forge_checks
  writer,      \* who holds WRITER
  task,        \* what each actor is doing
  loose,       \* history: checks the row is not answerable for
  trouble      \* what went wrong or was asked for so far

vars == <<watched, on, analysis, recorded, checks, asked, row, writer, task, loose, trouble>>
world == <<watched, on, analysis, recorded, asked>>

-----------------------------------------------------------------------------
Step == {"queued", "started", "analysed", "unfinished", "settled"}
CheckState == {"queued", "in_progress", "completed"}

(* A head the server knows no check of has check 0.                        *)
NoRow == [check |-> 0, state |-> "queued"]
Known(h) == row[h].check # 0
(* Faulty variant: a completed check is taken up again.                    *)
OpenForEver(h) == Known(h)
Open(h) == Known(h) /\ row[h].state # "completed"

Nobody == "nobody"
Idle == [pc |-> "idle"]
Task ==
  {Idle} \cup
  [pc : {"write", "send", "save", "analyse"}, step : Step, head : CommitSha,
   change : BOOLEAN, check : Nat, verdict : Nat]
At(step, h, change) ==
  [pc |-> "write", step |-> step, head |-> h, change |-> change, check |-> 0, verdict |-> 0]

Init ==
  /\ watched \in SUBSET CommitSha
  /\ on \in BOOLEAN
  /\ analysis = [h \in CommitSha |-> 0]
  /\ recorded = {}
  /\ checks = <<>> /\ asked = {}
  /\ row = [h \in CommitSha |-> NoRow]
  /\ writer = Nobody
  /\ task = [a \in Actor |-> Idle]
  /\ loose = {} /\ trouble = 0

-----------------------------------------------------------------------------
(* project_lock: a webhook tells of a head without it.                     *)
Unlocked == \A a \in Actor : task[a] # Idle => task[a].step = "queued"

Checks(h) == {c \in DOMAIN checks : checks[c].head = h}
Shown(h) == Max(Checks(h))

(* What a step asks of the forge.                                          *)
State(step) ==
  CASE step = "queued" -> "queued"
    [] step = "started" -> "in_progress"
    [] OTHER -> "completed"
Verdict(t) == IF t.step \in {"analysed", "settled"} THEN analysis[t.head] ELSE 0

(* Faulty variant: a check that is known needs nothing more.               *)
CoveredOnceKnown(t) ==
  \/ t.step \in {"queued", "settled"} /\ Known(t.head)
  \/ t.step = "started" /\ Open(t.head) /\ row[t.head].state = "in_progress"
(* Reporting::write has nothing to say.                                    *)
Covered(t) ==
  \/ t.step = "queued" /\ Known(t.head)
  \/ t.step = "settled" /\ Known(t.head) /\ ~Open(t.head)
  \/ t.step = "started" /\ Open(t.head) /\ row[t.head].state = "in_progress"

(* A write over, whatever came of it: it never fails its scan, and the     *)
(* reading of a head analysed before is recorded then.                     *)
Leave(a) ==
  LET t == task[a] IN
  /\ task' = [task EXCEPT ![a] = IF t.step = "started" THEN [t EXCEPT !.pc = "analyse"] ELSE Idle]
  /\ recorded' = IF t.step = "settled" /\ t.change THEN recorded \cup {t.head} ELSE recorded

-----------------------------------------------------------------------------
(* The forge and the project's owner.                                      *)

Watch(h) ==
  /\ watched' = IF h \in watched THEN watched \ {h} ELSE watched \cup {h}
  /\ UNCHANGED <<on, analysis, recorded, checks, asked, row, writer, task, loose, trouble>>

Switch ==
  /\ on' = ~on
  /\ UNCHANGED <<watched, analysis, recorded, checks, asked, row, writer, task, loose, trouble>>

(* Re-run is pressed on the check a head shows.                            *)
Rerequest(h) ==
  /\ trouble < MaxTrouble
  /\ Checks(h) # {} /\ checks[Shown(h)].state = "completed"
  /\ checks' = [checks EXCEPT ![Shown(h)] = [@ EXCEPT !.state = "queued", !.verdict = 0]]
  /\ asked' = asked \cup {h}
  /\ loose' = loose \cup {Shown(h)}
  /\ trouble' = trouble + 1
  /\ UNCHANGED <<watched, on, analysis, recorded, row, writer, task>>

(* The delivery is lost, or its scan stops before it tells the forge.      *)
DropRequest(h) ==
  /\ h \in asked /\ trouble < MaxTrouble
  /\ asked' = asked \ {h}
  /\ trouble' = trouble + 1
  /\ UNCHANGED <<watched, on, analysis, recorded, checks, row, writer, task, loose>>

-----------------------------------------------------------------------------
(* Who has something to tell.                                              *)

(* webhook::moved, of a head that may have moved on since.                 *)
Moved(a, h) ==
  /\ task[a] = Idle /\ on
  /\ task' = [task EXCEPT ![a] = At("queued", h, FALSE)]
  /\ UNCHANGED <<world, checks, row, writer, loose, trouble>>

(* Whether the project reports is asked anew for each scan.  One that does *)
(* not tell is over in one step here.                                      *)
Scan(a, h, change) ==
  IF on
  THEN /\ task' = [task EXCEPT ![a] = At("started", h, change)]
       /\ UNCHANGED <<analysis, recorded>>
  ELSE /\ analysis' = [analysis EXCEPT ![h] = @ + 1]
       /\ recorded' = IF change THEN recorded \cup {h} ELSE recorded
       /\ UNCHANGED task

(* The pass comes to a head, which was watched when it listed the heads:   *)
(* discovery::run, read_change.                                            *)
Visit(a, h, change) ==
  /\ task[a] = Idle /\ Unlocked
  /\ IF analysis[h] = 0 THEN Scan(a, h, change)
     ELSE IF on
     THEN /\ task' = [task EXCEPT ![a] = At("settled", h, change)]
          /\ UNCHANGED <<analysis, recorded>>
     ELSE /\ recorded' = IF change THEN recorded \cup {h} ELSE recorded
          /\ UNCHANGED <<analysis, task>>
  /\ UNCHANGED <<watched, on, checks, asked, row, writer, loose, trouble>>

(* discovery::scan_change, which someone asked error.menu for.             *)
AskScan(a, h) ==
  /\ task[a] = Idle /\ Unlocked
  /\ h \in recorded /\ trouble < MaxTrouble
  /\ Scan(a, h, TRUE)
  /\ trouble' = trouble + 1
  /\ UNCHANGED <<watched, on, checks, asked, row, writer, loose>>

(* runner::run of one commit, which tells the forge nothing.               *)
ScanCommit(h) ==
  /\ Unlocked /\ trouble < MaxTrouble
  /\ analysis' = [analysis EXCEPT ![h] = @ + 1]
  /\ trouble' = trouble + 1
  /\ UNCHANGED <<watched, on, recorded, checks, asked, row, writer, task, loose>>

(* webhook::rerun of a head with a reading on a change: what is scanned is *)
(* the change's newest reading, of whatever head that is.                  *)
RerunScan(a, h, g) ==
  /\ task[a] = Idle /\ Unlocked
  /\ h \in asked \cap recorded /\ g \in recorded
  /\ Scan(a, g, TRUE)
  /\ asked' = asked \ {h}
  /\ UNCHANGED <<watched, on, checks, row, writer, loose, trouble>>

(* webhook::rerun of any other head: Reporting::forget, without WRITER.    *)
RerunForget(h) ==
  /\ h \in asked \ recorded
  /\ asked' = asked \ {h}
  /\ IF on THEN /\ row' = [row EXCEPT ![h] = NoRow]
                /\ loose' = loose \cup ({row[h].check} \ {0})
     ELSE UNCHANGED <<row, loose>>
  /\ UNCHANGED <<watched, on, analysis, recorded, checks, writer, task, trouble>>

-----------------------------------------------------------------------------
(* Reporting::write.                                                       *)

(* Faulty variant: nobody waits for another's write.                       *)
NoWriterLock(a) == TRUE
(* WRITER can be taken.                                                    *)
Free(a) == writer = Nobody

(* The row is read, and the verdict, with WRITER held.                     *)
Load(a) ==
  LET t == task[a] IN
  /\ t.pc = "write" /\ Free(a)
  /\ IF Covered(t)
     THEN Leave(a) /\ UNCHANGED writer
     ELSE /\ task' = [task EXCEPT ![a] =
               [t EXCEPT !.pc = "send", !.verdict = Verdict(t),
                         !.check = IF Open(t.head) THEN row[t.head].check ELSE 0]]
          /\ writer' = a
          /\ UNCHANGED recorded
  /\ UNCHANGED <<watched, on, analysis, checks, asked, row, loose, trouble>>

(* check::create or check::update, as the forge does it.                   *)
Sent(t) == IF t.check = 0 THEN Len(checks) + 1 ELSE t.check
Acts(t) ==
  LET new == [head |-> t.head, state |-> State(t.step), verdict |-> t.verdict] IN
  checks' = IF t.check = 0 THEN Append(checks, new) ELSE [checks EXCEPT ![t.check] = new]

Send(a) ==
  LET t == task[a] IN
  /\ t.pc = "send"
  /\ Acts(t)
  /\ task' = [task EXCEPT ![a] = [t EXCEPT !.pc = "save", !.check = Sent(t)]]
  /\ UNCHANGED <<world, row, writer, loose, trouble>>

(* Faulty variant: what the forge refused is saved all the same.           *)
RefuseSaved(a) ==
  LET t == task[a] IN
  /\ t.pc = "send" /\ trouble < MaxTrouble
  /\ Leave(a) /\ writer' = Nobody
  /\ row' = IF t.check = 0 THEN row ELSE [row EXCEPT ![t.head].state = State(t.step)]
  /\ trouble' = trouble + 1
  /\ UNCHANGED <<watched, on, analysis, checks, asked, loose>>

(* The forge refuses the request, or the one for its token.                *)
Refuse(a) ==
  /\ task[a].pc = "send" /\ trouble < MaxTrouble
  /\ Leave(a) /\ writer' = Nobody
  /\ trouble' = trouble + 1
  /\ UNCHANGED <<watched, on, analysis, checks, asked, row, loose>>

(* ForgeCheck::save.                                                       *)
Save(a) ==
  LET t == task[a] IN
  /\ t.pc = "save"
  /\ row' = [row EXCEPT ![t.head] = [check |-> t.check, state |-> State(t.step)]]
  /\ Leave(a) /\ writer' = Nobody
  /\ UNCHANGED <<watched, on, analysis, checks, asked, loose, trouble>>

(* The answer does not come, or the row is not written.                    *)
LoseAnswer(a) ==
  LET t == task[a] IN
  /\ t.pc = "save" /\ trouble < MaxTrouble
  /\ Leave(a) /\ writer' = Nobody
  /\ loose' = loose \cup ({t.check} \ {row[t.head].check})
  /\ trouble' = trouble + 1
  /\ UNCHANGED <<watched, on, analysis, checks, asked, row>>

-----------------------------------------------------------------------------
(* discovery::analyse, between its two writes.                             *)

Stored(t) ==
  /\ analysis' = [analysis EXCEPT ![t.head] = @ + 1]
  /\ recorded' = IF t.change THEN recorded \cup {t.head} ELSE recorded

(* The reading is there from the first, Snapshot::record.                  *)
Record(a) ==
  /\ task[a].pc = "analyse" /\ task[a].change
  /\ recorded' = recorded \cup {task[a].head}
  /\ UNCHANGED <<watched, on, analysis, checks, asked, row, writer, task, loose, trouble>>

Analyse(a) ==
  LET t == task[a] IN
  /\ t.pc = "analyse"
  /\ Stored(t)
  /\ task' = [task EXCEPT ![a] = At("analysed", t.head, t.change)]
  /\ UNCHANGED <<watched, on, checks, asked, row, writer, loose, trouble>>

(* The analysis fails, perhaps after it was stored.                        *)
FailAnalysis(a) ==
  LET t == task[a] IN
  /\ t.pc = "analyse" /\ trouble < MaxTrouble
  /\ Stored(t) \/ UNCHANGED <<analysis, recorded>>
  /\ task' = [task EXCEPT ![a] = At("unfinished", t.head, t.change)]
  /\ trouble' = trouble + 1
  /\ UNCHANGED <<watched, on, checks, asked, row, writer, loose>>

(* The forge's budget is used up: the check is left in progress.           *)
WaitForBudget(a) ==
  /\ task[a].pc = "analyse" /\ trouble < MaxTrouble
  /\ task' = [task EXCEPT ![a] = Idle]
  /\ trouble' = trouble + 1
  /\ UNCHANGED <<world, checks, row, writer, loose>>

(* A discovery that lost its lease is dropped, or the process dies.        *)
Stop(gone) ==
  /\ trouble < MaxTrouble
  /\ \E a \in gone : task[a] # Idle
  /\ task' = [a \in Actor |-> IF a \in gone THEN Idle ELSE task[a]]
  /\ writer' = IF writer \in gone THEN Nobody ELSE writer
  /\ loose' = loose \cup {c \in DOMAIN checks : \E a \in gone :
       /\ task[a].pc = "save" /\ task[a].check = c
       /\ row[task[a].head].check # c}
  /\ trouble' = trouble + 1
  /\ UNCHANGED <<world, checks, row>>

-----------------------------------------------------------------------------
Progress(a) == Send(a) \/ Save(a) \/ Analyse(a)

Next ==
  \/ Switch
  \/ \E h \in CommitSha :
       \/ Watch(h) \/ Rerequest(h) \/ DropRequest(h) \/ RerunForget(h)
       \/ ScanCommit(h)
  \/ \E a \in Actor :
       \/ Load(a) \/ Progress(a) \/ Record(a) \/ Refuse(a) \/ LoseAnswer(a)
       \/ FailAnalysis(a) \/ WaitForBudget(a)
       \/ \E h \in CommitSha :
            \/ Moved(a, h) \/ AskScan(a, h)
            \/ \E change \in BOOLEAN : Visit(a, h, change)
            \/ \E g \in CommitSha : RerunScan(a, h, g)
  \/ \E gone \in SUBSET Actor : Stop(gone)

Spec == Init /\ [][Next]_vars

(* A pass comes to every head that stays watched, again and again; who     *)
(* waits for WRITER gets it in turn; requests to the forge have a timeout  *)
(* and the rest is the server's own work; a delivery that is not lost is   *)
(* acted on.                                                               *)
Fairness ==
  /\ \A h \in CommitSha :
       /\ SF_vars(h \in watched /\ \E a \in Actor, change \in BOOLEAN : Visit(a, h, change))
       /\ WF_vars(RerunForget(h))
       /\ SF_vars(\E a \in Actor, g \in CommitSha : RerunScan(a, h, g))
  /\ \A a \in Actor : SF_vars(Load(a)) /\ WF_vars(Progress(a))

FairSpec == Spec /\ Fairness

-----------------------------------------------------------------------------
(* A task holds a check of its head, and the writer is who is writing.     *)
TypeOK ==
  /\ watched \subseteq CommitSha /\ recorded \subseteq CommitSha /\ asked \subseteq CommitSha
  /\ on \in BOOLEAN
  /\ analysis \in [CommitSha -> Nat]
  /\ checks \in Seq([head : CommitSha, state : CheckState, verdict : Nat])
  /\ row \in [CommitSha -> [check : {0} \cup DOMAIN checks, state : CheckState]]
  /\ writer \in Actor \cup {Nobody}
  /\ task \in [Actor -> Task]
  /\ loose \subseteq DOMAIN checks
  /\ trouble \in 0 .. MaxTrouble
  /\ \A h \in CommitSha : Known(h) => checks[row[h].check].head = h
  /\ \A a \in Actor : (task[a].pc \in {"send", "save"}) <=> (writer = a)

(* A head has one open check on the forge, however its webhooks and scans  *)
(* meet: "both would find no check and each create one, and one of the two *)
(* would stay queued on the forge for ever" (report.rs:214-216).  Left out *)
(* are the checks whose answer or row was lost, that were forgotten or     *)
(* that were asked to run again.                                           *)
OneOpenCheck ==
  /\ TypeOK
  /\ \A h \in CommitSha : \A c, d \in Checks(h) \ loose :
       checks[c].state # "completed" /\ checks[d].state # "completed" => c = d

(* The row never says more than the forge was told: a check it calls       *)
(* completed, which no pass writes again, is completed there.              *)
Rank(state) == CASE state = "queued" -> 1 [] state = "in_progress" -> 2 [] OTHER -> 3
RowBehindForge ==
  \A h \in CommitSha :
    Known(h) /\ row[h].check \notin loose =>
      Rank(row[h].state) <= Rank(checks[row[h].check].state)

(* A verdict the row knows of stays on the forge: a scan's first write or  *)
(* a webhook that comes late never sets the check back.                    *)
VerdictStays ==
  [][\A h \in CommitSha :
       Known(h) /\ row[h].state = "completed" /\ row[h].check \notin loose' =>
         checks'[row[h].check] = checks[row[h].check]]_vars

(* Every watched head of a project that reports comes to have a completed  *)
(* check on record, whatever was lost, refused or left open on the way     *)
(* (report.rs:60-62).                                                      *)
EveryHeadAnswered ==
  \A h \in CommitSha :
    (h \in watched /\ on) ~> (Known(h) /\ ~Open(h)) \/ h \notin watched \/ ~on
=============================================================================
