---------------------------- MODULE ReadingsProofs ----------------------------
(***************************************************************************)
(* Proofs that the invariants of Readings hold for any number of branches, *)
(* changes, commits, actors and analyzers.                                 *)
(***************************************************************************)
EXTENDS Readings, WellFoundedInduction, SequenceTheorems, TLAPS

-----------------------------------------------------------------------------
(* Least and greatest ids.                                                 *)

(* Of some numbers there is a least one.                                   *)
LEMMA LeastNat ==
  ASSUME NEW S \in SUBSET Nat, S # {}
  PROVE  \E x \in S : \A y \in S : x <= y
  <1>1. PICK x \in S : \A y \in S : ~ (<<y, x>> \in OpToRel(<, Nat))
    BY NatLessThanWellFounded, WFMin
  <1>2. \A y \in S : ~ (y < x)
    BY <1>1 DEF OpToRel
  <1> QED  BY <1>2

(* Min finds it.                                                           *)
LEMMA LeastId ==
  ASSUME NEW S \in SUBSET Nat, S # {}
  PROVE  Min(S) \in S
  BY LeastNat, Zenon DEF Min

(* The greatest is the least of the bounds.                                *)
LEMMA GreatestId ==
  ASSUME NEW n \in Nat, NEW S \in SUBSET (1 .. n), S # {}
  PROVE  Max(S) \in S
  <1> DEFINE Above == {u \in Nat : \A x \in S : x <= u}
  <1>1. n \in Above
    OBVIOUS
  <1>2. PICK u \in Above : \A v \in Above : u <= v
    <2>1. Above \in SUBSET Nat /\ Above # {}
      BY <1>1
    <2> HIDE DEF Above
    <2> QED  BY <2>1, LeastNat
  <1>3. u \in S
    <2> SUFFICES ASSUME u \notin S  PROVE FALSE
      OBVIOUS
    <2>1. \A x \in S : x <= u /\ x # u /\ x \in Int /\ x >= 1
      BY <1>2
    <2>2. u - 1 \in Nat /\ u \in Nat /\ \A x \in S : x <= u - 1
      <3>1. u \in Nat
        BY <1>2
      <3>2. PICK x \in S : TRUE
        OBVIOUS
      <3>3. \A y \in S : y <= u - 1
        BY <2>1, <3>1
      <3> QED  BY <2>1, <3>1, <3>2, <3>3
    <2>3. u <= u - 1
      BY <1>2, <2>2
    <2> QED  BY <2>2, <2>3
  <1>4. \A y \in S : u >= y
    BY <1>2
  <1> QED  BY <1>3, <1>4, Zenon DEF Max

-----------------------------------------------------------------------------
(* The invariant.                                                          *)

(* One actor is at the project at a time (project_lock).                   *)
OneAtATime == \A a, b \in Actor : task[a] # Idle /\ task[b] # Idle => a = b

(* What an actor was told is still so: nobody else writes.                 *)
Knows(t) ==
  /\ t.pc \in {"index", "record"} => t.done = 0
  /\ t.pc \in {"observe", "link"} => t.indexed = index[t.head]
  /\ t.pc = "link" =>
       /\ t.indexed # t.snapshot
       /\ readings[t.snapshot].head = t.head
  /\ t.pc = "analyse" =>
       /\ readings[t.snapshot].head = t.head
       /\ readings[t.snapshot].analysis = 0
       /\ readings[t.snapshot].runs = t.done
  /\ t.pc \in {"record", "analyse"} /\ t.by \in {"branch", "change"} => index[t.head] = 0
Known == \A a \in Actor : task[a] # Idle => Knows(task[a])

(* A head with a reading that is shown with another's runs is indexed.     *)
LinksIndexed ==
  \A i \in Ids : readings[i].analysis # 0 => index[readings[i].head] # 0

IInv ==
  /\ AnalysesWhole /\ OneBareReading
  /\ OneAtATime /\ Known /\ LinksIndexed

(* Of these, what concerns the tables alone.                               *)
RowsTyped ==
  /\ readings \in Seq(Snapshot)
  /\ index \in [CommitSha -> Ids \cup {0}]
  /\ \A i \in Ids : readings[i].analysis \in Ids \cup {0}
RowsWhole ==
  /\ \A i \in Ids : readings[i].runs <= ANALYZERS
  /\ \A h \in CommitSha : index[h] # 0 =>
       /\ readings[index[h]].head = h
       /\ readings[index[h]].analysis = 0
       /\ Whole(index[h])
  /\ \A i \in Ids : readings[i].analysis # 0 =>
       /\ readings[ShownWith(i)].head = readings[i].head
       /\ Whole(ShownWith(i))
Rows == RowsTyped /\ RowsWhole /\ OneBareReading /\ LinksIndexed

(* A row is a reading's.                                                   *)
LEMMA RowTyped ==
  ASSUME Rows, NEW i \in Ids
  PROVE  /\ readings[i] \in Snapshot /\ readings[i].head \in CommitSha
         /\ readings[i].runs \in Nat /\ i # 0
  <1>1. readings[i] \in Snapshot /\ i # 0
    BY DEF Rows, RowsTyped, Ids
  <1> QED  BY <1>1 DEF Snapshot

(* The tables' part of the invariant is part of it.                        *)
LEMMA RowsOfInvariant == IInv => Rows
  BY DEF IInv, Rows, AnalysesWhole, TypeOK, RowsTyped, RowsWhole

-----------------------------------------------------------------------------
(* What each write does to the tables.                                     *)

(* A new reading takes the next id.                                        *)
LEMMA NextId ==
  ASSUME readings \in Seq(Snapshot), NEW r \in Snapshot, readings' = Append(readings, r)
  PROVE  /\ readings' \in Seq(Snapshot)
         /\ Ids' = Ids \cup {Len(readings) + 1} /\ Len(readings) + 1 \in Nat \ (Ids \cup {0})
         /\ readings'[Len(readings) + 1] = r
         /\ \A i \in Ids : readings'[i] = readings[i]
  BY DEF Ids

(* It has no analysis behind it, and must be the only such one of its head *)
(* and subject.                                                            *)
LEMMA RowAppended ==
  ASSUME Rows, NEW n \in Nat \ (Ids \cup {0}), readings' \in Seq(Snapshot), index' = index,
         Ids' = Ids \cup {n}, \A i \in Ids : readings'[i] = readings[i],
         readings'[n].analysis = 0, readings'[n].runs = 0,
         \A i \in Ids : readings[i].subject = readings'[n].subject
                          /\ readings[i].head = readings'[n].head => ~ Bare(i)
  PROVE  Rows'
  <1>0. ANALYZERS \in Nat
    BY ReadingsAssumption
  <1>1. RowsTyped'
    BY DEF Rows, RowsTyped
  <1>2. \A i \in Ids : /\ Whole(i)' = Whole(i) /\ ShownWith(i)' = ShownWith(i)
                       /\ Bare(i)' = Bare(i)
    BY DEF Whole, ShownWith, Bare
  <1>3. RowsWhole'
    <2>1. \A i \in Ids' : readings'[i].runs <= ANALYZERS
      BY <1>0 DEF Rows, RowsWhole
    <2>2. ASSUME NEW h \in CommitSha, index'[h] # 0
          PROVE  /\ readings'[index[h]].head = h
                 /\ readings'[index[h]].analysis = 0
                 /\ Whole(index[h])'
      <3>1. /\ index[h] \in Ids /\ readings[index[h]].head = h
            /\ readings[index[h]].analysis = 0 /\ Whole(index[h])
        BY <2>2 DEF Rows, RowsTyped, RowsWhole
      <3> QED  BY <3>1 DEF Whole
    <2>3. ASSUME NEW i \in Ids', readings'[i].analysis # 0
          PROVE  /\ readings'[ShownWith(i)'].head = readings'[i].head
                 /\ Whole(ShownWith(i))'
      <3>1. i \in Ids /\ readings[i].analysis # 0
        BY <2>3
      <3>2. /\ ShownWith(i) \in Ids /\ readings[ShownWith(i)].head = readings[i].head
            /\ Whole(ShownWith(i))
        BY <3>1 DEF Rows, RowsTyped, RowsWhole, ShownWith
      <3>3. ShownWith(i)' = ShownWith(i)
        BY <1>2, <3>1
      <3> QED  BY <3>1, <3>2, <3>3 DEF Whole
    <2> QED  BY <2>1, <2>2, <2>3 DEF RowsWhole
  <1>4. OneBareReading'
    BY <1>2 DEF Rows, OneBareReading
  <1>5. LinksIndexed'
    BY DEF Rows, LinksIndexed
  <1> QED  BY <1>1, <1>3, <1>4, <1>5 DEF Rows

(* A reading that changes stays of its head and subject.                   *)
LEMMA SnapshotFields ==
  ASSUME NEW s \in Snapshot, NEW v \in Nat
  PROVE  /\ [s EXCEPT !.analysis = v] \in Snapshot
         /\ [s EXCEPT !.analysis = v].subject = s.subject
         /\ [s EXCEPT !.analysis = v].head = s.head
         /\ [s EXCEPT !.analysis = v].analysis = v
         /\ [s EXCEPT !.analysis = v].runs = s.runs
         /\ [s EXCEPT !.runs = v] \in Snapshot
         /\ [s EXCEPT !.runs = v].subject = s.subject
         /\ [s EXCEPT !.runs = v].head = s.head
         /\ [s EXCEPT !.runs = v].analysis = s.analysis
         /\ [s EXCEPT !.runs = v].runs = v
  BY Zenon DEF Snapshot

(* A statement changes one row.                                            *)
LEMMA RowReplaced ==
  ASSUME readings \in Seq(Snapshot), NEW i \in Ids, NEW new \in Snapshot,
         readings' = [readings EXCEPT ![i] = new]
  PROVE  /\ readings' \in Seq(Snapshot) /\ Ids' = Ids
         /\ \A j \in Ids : readings'[j] = IF j = i THEN new ELSE readings[j]
  BY ExceptSeq DEF Ids

(* A reading of an indexed head is linked to the indexed one, or is it     *)
(* (Snapshot::observe).                                                    *)
LEMMA RowLinked ==
  ASSUME Rows, NEW i \in Ids, NEW x \in Ids \cup {0}, NEW v \in Ids \cup {0},
         x = index[readings[i].head], v = NewAnalysis(i, x),
         index' = index, readings' \in Seq(Snapshot), Ids' = Ids,
         \A j \in Ids \ {i} : readings'[j] = readings[j],
         readings'[i].subject = readings[i].subject, readings'[i].head = readings[i].head,
         readings'[i].analysis = v, readings'[i].runs = readings[i].runs
  PROVE  Rows'
  <1>1. v # i /\ (v # 0 => v = x) /\ (v = 0 => x = 0 \/ x = i)
    BY DEF NewAnalysis, Ids
  <1>2. readings[i].head \in CommitSha
    BY RowTyped
  <1>3. readings[i].analysis # 0 => x # 0
    BY DEF Rows, LinksIndexed
  <1>4. x # 0 => x \in Ids /\ readings[x].head = readings[i].head
                  /\ readings[x].analysis = 0 /\ Whole(x)
    BY <1>2 DEF Rows, RowsWhole
  <1>5. \A h \in CommitSha : index[h] = i => x = i /\ v = 0
    <2>1. \A h \in CommitSha : index[h] = i => h = readings[i].head
      BY DEF Rows, RowsWhole, Ids
    <2> QED  BY <1>1, <2>1 DEF Ids
  <1>6. v = 0 => readings[i].analysis = 0
    BY <1>1, <1>3, <1>4
  <1>7. RowsTyped'
    BY DEF Rows, RowsTyped
  <1>8. \A j \in Ids : Whole(j)' = Whole(j)
    BY DEF Whole
  <1>9. RowsWhole'
    <2>1. \A j \in Ids : readings'[j].runs <= ANALYZERS
      BY DEF Rows, RowsWhole
    <2>2. ASSUME NEW h \in CommitSha, index[h] # 0
          PROVE  /\ readings'[index[h]].head = h
                 /\ readings'[index[h]].analysis = 0
                 /\ Whole(index[h])'
      <3>1. /\ index[h] \in Ids /\ readings[index[h]].head = h
            /\ readings[index[h]].analysis = 0 /\ Whole(index[h])
        BY <2>2 DEF Rows, RowsTyped, RowsWhole
      <3>2. Whole(index[h])'
        BY <1>8, <3>1 DEF Whole
      <3> QED  BY <1>5, <3>1, <3>2
    <2>3. ASSUME NEW j \in Ids, readings'[j].analysis # 0
          PROVE  /\ readings'[ShownWith(j)'].head = readings'[j].head
                 /\ Whole(ShownWith(j))'
      <3>1. CASE j = i
        <4>1. x # 0 /\ ShownWith(j)' = x /\ x \in Ids
          BY <1>1, <2>3, <3>1 DEF ShownWith
        <4>2. readings'[x].head = readings'[i].head /\ Whole(x)'
          <5>1. readings'[x].head = readings[x].head /\ readings'[x].runs = readings[x].runs
            BY <4>1
          <5> QED  BY <1>4, <4>1, <5>1 DEF Whole
        <4> QED  BY <3>1, <4>1, <4>2 DEF Whole
      <3>2. CASE j # i
        <4>1. /\ ShownWith(j) = readings[j].analysis /\ readings[j].analysis # 0
              /\ ShownWith(j)' = ShownWith(j)
          BY <2>3, <3>2 DEF ShownWith
        <4>2. /\ ShownWith(j) \in Ids /\ readings[ShownWith(j)].head = readings[j].head
              /\ Whole(ShownWith(j))
          BY <4>1 DEF Rows, RowsTyped, RowsWhole
        <4> QED  BY <1>8, <3>2, <4>1, <4>2 DEF Whole
      <3> QED  BY <3>1, <3>2
    <2> QED  BY <2>1, <2>2, <2>3 DEF RowsWhole
  <1>10. OneBareReading'
    <2>1. \A j \in Ids : Bare(j)' => Bare(j)
      BY <1>6 DEF Bare
    <2> QED  BY <2>1 DEF Rows, OneBareReading
  <1>11. LinksIndexed'
    BY <1>1 DEF Rows, LinksIndexed
  <1> QED  BY <1>7, <1>9, <1>10, <1>11 DEF Rows

(* A run is of a reading that no other is shown with yet.                  *)
LEMMA RunCounted ==
  ASSUME Rows, NEW i \in Ids,
         readings[i].analysis = 0, readings[i].runs < ANALYZERS,
         index' = index, readings' \in Seq(Snapshot), Ids' = Ids,
         \A j \in Ids \ {i} : readings'[j] = readings[j],
         readings'[i].subject = readings[i].subject, readings'[i].head = readings[i].head,
         readings'[i].analysis = 0, readings'[i].runs = readings[i].runs + 1
  PROVE  Rows'
  <1>0. ANALYZERS \in Nat /\ readings[i].runs \in Nat
    BY ReadingsAssumption, RowTyped
  <1>1. \A j \in Ids : Whole(j) => j # i /\ Whole(j)'
    BY <1>0 DEF Whole
  <1>2. RowsTyped'
    BY DEF Rows, RowsTyped
  <1>3. RowsWhole'
    <2>1. \A j \in Ids : readings'[j].runs <= ANALYZERS
      BY <1>0 DEF Rows, RowsWhole
    <2>2. ASSUME NEW h \in CommitSha, index[h] # 0
          PROVE  /\ readings'[index[h]].head = h
                 /\ readings'[index[h]].analysis = 0
                 /\ Whole(index[h])'
      <3>1. /\ index[h] \in Ids /\ readings[index[h]].head = h
            /\ readings[index[h]].analysis = 0 /\ Whole(index[h])
        BY <2>2 DEF Rows, RowsTyped, RowsWhole
      <3> QED  BY <1>1, <3>1 DEF Whole
    <2>3. ASSUME NEW j \in Ids, readings'[j].analysis # 0
          PROVE  /\ readings'[ShownWith(j)'].head = readings'[j].head
                 /\ Whole(ShownWith(j))'
      <3>1. /\ j # i /\ ShownWith(j) = readings[j].analysis /\ readings[j].analysis # 0
            /\ ShownWith(j)' = ShownWith(j)
        BY <2>3 DEF ShownWith
      <3>2. /\ ShownWith(j) \in Ids /\ readings[ShownWith(j)].head = readings[j].head
            /\ Whole(ShownWith(j))
        BY <3>1 DEF Rows, RowsTyped, RowsWhole
      <3> QED  BY <1>1, <3>1, <3>2 DEF Whole
    <2> QED  BY <2>1, <2>2, <2>3 DEF RowsWhole
  <1>4. OneBareReading'
    <2>1. \A j \in Ids : Bare(j)' => Bare(j)
      BY <1>0 DEF Bare
    <2> QED  BY <2>1 DEF Rows, OneBareReading
  <1>5. LinksIndexed'
    BY DEF Rows, LinksIndexed
  <1> QED  BY <1>2, <1>3, <1>4, <1>5 DEF Rows

(* The head is indexed when its analysis is whole (Snapshot::mark_analysed). *)
LEMMA HeadIndexed ==
  ASSUME Rows, NEW i \in Ids, readings[i].analysis = 0, Whole(i),
         readings' = readings, index' = [index EXCEPT ![readings[i].head] = i]
  PROVE  Rows'
  <1>1. readings[i].head \in CommitSha /\ i # 0
    BY RowTyped
  <1>2. Ids' = Ids
    BY DEF Ids
  <1>3. \A h \in CommitSha : index'[h] = IF h = readings[i].head THEN i ELSE index[h]
    BY <1>1 DEF Rows, RowsTyped
  <1>4. RowsTyped'
    BY <1>1, <1>2 DEF Rows, RowsTyped
  <1>5. RowsWhole'
    BY <1>2, <1>3 DEF Rows, RowsWhole, Whole, ShownWith
  <1>6. OneBareReading'
    BY <1>2 DEF Rows, OneBareReading, Bare
  <1>7. LinksIndexed'
    <2>1. \A j \in Ids : readings[j].head \in CommitSha
      BY RowTyped
    <2> QED  BY <1>1, <1>2, <1>3, <2>1 DEF Rows, LinksIndexed
  <1> QED  BY <1>4, <1>5, <1>6, <1>7 DEF Rows

(* Where nothing is written, nothing changes.                              *)
LEMMA QuietRows ==
  ASSUME Rows, UNCHANGED <<readings, index>>
  PROVE  Rows' /\ Ids' = Ids
  BY DEF Rows, RowsTyped, RowsWhole, OneBareReading, LinksIndexed, Ids, Whole, ShownWith, Bare

-----------------------------------------------------------------------------
(* What actors are doing.                                                  *)

Work ==
  [pc : {"index", "observe", "link", "record", "analyse", "list", "turn"},
   by : {"branch", "change", "scan", "commit"},
   subject : Subject, head : CommitSha, open : BOOLEAN, todo : SUBSET Listed,
   indexed : Nat, snapshot : Nat, done : 0 .. ANALYZERS]
WorkTyped(t) ==
  /\ t.indexed \in Ids \cup {0}
  /\ t.snapshot \in Ids \cup {0}
  /\ t.pc \in {"link", "analyse"} => t.snapshot # 0
  /\ t.pc = "link" => t.indexed # 0

(* Whoever is not idle is at work.                                         *)
LEMMA WorkOrIdle ==
  /\ \A t \in Task : t = Idle \/ t \in Work
  /\ Work \subseteq Task /\ Idle \in Task
  /\ \A t \in Work : t # Idle /\ t.pc # "idle"
  /\ Idle.pc = "idle"
  BY DEF Task, Work, Idle

(* Whoever turns to a subject knows nothing of it yet.                     *)
LEMMA AtWork ==
  ASSUME NEW pc \in {"index", "record"}, NEW by \in {"branch", "change", "scan", "commit"},
         NEW s \in Subject, NEW h \in CommitSha, NEW o \in BOOLEAN, NEW todo \in SUBSET Listed
  PROVE  /\ At(pc, by, s, h, o, todo) \in Work
         /\ At(pc, by, s, h, o, todo).pc = pc
         /\ At(pc, by, s, h, o, todo).by = by
         /\ At(pc, by, s, h, o, todo).head = h
         /\ At(pc, by, s, h, o, todo).indexed = 0
         /\ At(pc, by, s, h, o, todo).snapshot = 0
         /\ At(pc, by, s, h, o, todo).done = 0
  BY ReadingsAssumption DEF At, Work

(* Going on to the next statement forgets nothing, ...                     *)
LEMMA PcMoved ==
  ASSUME NEW t \in Work, NEW pc \in {"link", "analyse", "list", "turn", "observe", "record"}
  PROVE  /\ [t EXCEPT !.pc = pc] \in Work
         /\ [t EXCEPT !.pc = pc].pc = pc
         /\ [t EXCEPT !.pc = pc].by = t.by
         /\ [t EXCEPT !.pc = pc].head = t.head
         /\ [t EXCEPT !.pc = pc].indexed = t.indexed
         /\ [t EXCEPT !.pc = pc].snapshot = t.snapshot
         /\ [t EXCEPT !.pc = pc].done = t.done
  BY Zenon DEF Work

(* ... nor does being told which reading it is, ...                        *)
LEMMA SnapshotTold ==
  ASSUME NEW t \in Work, NEW n \in Nat
  PROVE  /\ [t EXCEPT !.snapshot = n] \in Work
         /\ [t EXCEPT !.snapshot = n].pc = t.pc
         /\ [t EXCEPT !.snapshot = n].by = t.by
         /\ [t EXCEPT !.snapshot = n].head = t.head
         /\ [t EXCEPT !.snapshot = n].indexed = t.indexed
         /\ [t EXCEPT !.snapshot = n].snapshot = n
         /\ [t EXCEPT !.snapshot = n].done = t.done
  BY Zenon DEF Work

(* ... what the index says, ...                                            *)
LEMMA IndexTold ==
  ASSUME NEW t \in Work, NEW n \in Nat
  PROVE  /\ [t EXCEPT !.indexed = n] \in Work
         /\ [t EXCEPT !.indexed = n].pc = t.pc
         /\ [t EXCEPT !.indexed = n].by = t.by
         /\ [t EXCEPT !.indexed = n].head = t.head
         /\ [t EXCEPT !.indexed = n].indexed = n
         /\ [t EXCEPT !.indexed = n].snapshot = t.snapshot
         /\ [t EXCEPT !.indexed = n].done = t.done
  BY Zenon DEF Work

(* ... that one more analyzer has run ...                                  *)
LEMMA RunDone ==
  ASSUME NEW t \in Work, NEW n \in 0 .. ANALYZERS
  PROVE  /\ [t EXCEPT !.done = n] \in Work
         /\ [t EXCEPT !.done = n].pc = t.pc
         /\ [t EXCEPT !.done = n].by = t.by
         /\ [t EXCEPT !.done = n].head = t.head
         /\ [t EXCEPT !.done = n].indexed = t.indexed
         /\ [t EXCEPT !.done = n].snapshot = t.snapshot
         /\ [t EXCEPT !.done = n].done = n
  BY Zenon DEF Work

(* ... or which changes there are.                                         *)
LEMMA ChangesListed ==
  ASSUME NEW t \in Work, NEW todo \in SUBSET Listed
  PROVE  /\ [t EXCEPT !.pc = "turn", !.by = "change", !.todo = todo] \in Work
         /\ [t EXCEPT !.pc = "turn", !.by = "change", !.todo = todo].pc = "turn"
         /\ [t EXCEPT !.pc = "turn", !.by = "change", !.todo = todo].indexed = t.indexed
         /\ [t EXCEPT !.pc = "turn", !.by = "change", !.todo = todo].snapshot = t.snapshot
  BY Zenon DEF Work

(* Who is done with a subject goes on with the pass or is done altogether. *)
LEMMA DoneTask ==
  ASSUME NEW t \in Work
  PROVE  /\ Done(t) \in Task
         /\ Done(t) # Idle => /\ Done(t).pc \in {"list", "turn"}
                              /\ Done(t).indexed = t.indexed
                              /\ Done(t).snapshot = t.snapshot
  <1>1. CASE t.by = "branch"
    BY <1>1, PcMoved, WorkOrIdle DEF Done
  <1>2. CASE t.by = "change"
    BY <1>2, PcMoved, WorkOrIdle DEF Done
  <1>3. CASE t.by \notin {"branch", "change"}
    BY <1>3, WorkOrIdle DEF Done
  <1> QED  BY <1>1, <1>2, <1>3

(* Nobody else is at the project while someone is, or when nobody was.     *)
LEMMA Alone ==
  ASSUME IInv, NEW a \in Actor, task[a] # Idle \/ Unlocked
  PROVE  \A b \in Actor \ {a} : task[b] = Idle
  BY DEF IInv, OneAtATime, Unlocked

(* What is known of whoever is at the project.                             *)
LEMMA AtProject ==
  ASSUME IInv, NEW a \in Actor, task[a].pc # "idle"
  PROVE  /\ task[a] \in Work /\ task[a] # Idle /\ WorkTyped(task[a]) /\ Knows(task[a])
         /\ \A b \in Actor \ {a} : task[b] = Idle
  <1>1. TypeOK /\ Known
    BY DEF IInv, AnalysesWhole
  <1>2. task[a] \in Task
    BY <1>1 DEF TypeOK
  <1>3. task[a] \in Work /\ task[a] # Idle
    BY <1>2, WorkOrIdle
  <1> QED  BY <1>1, <1>3, Alone DEF TypeOK, WorkTyped, Known

(* A step of one actor keeps the invariant when it keeps the tables' part  *)
(* of it and the actor knows what it needs.                                *)
LEMMA ActorSteps ==
  ASSUME IInv, NEW a \in Actor, \A b \in Actor \ {a} : task[b] = Idle,
         NEW t \in Task, task' = [task EXCEPT ![a] = t],
         t # Idle => WorkTyped(t)' /\ Knows(t)',
         Rows', UNCHANGED forge, trouble' \in 0 .. MaxTrouble
  PROVE  IInv'
  <1>1. TypeOK
    BY DEF IInv, AnalysesWhole
  <1>2. task' \in [Actor -> Task]
    BY <1>1 DEF TypeOK
  <1>3. \A b \in Actor : task'[b] = IF b = a THEN t ELSE Idle
    BY <1>1 DEF TypeOK
  <1>4. TypeOK'
    <2>1. \A b \in Actor : task'[b] # Idle =>
            /\ task'[b].indexed \in Ids' \cup {0}
            /\ task'[b].snapshot \in Ids' \cup {0}
            /\ task'[b].pc \in {"link", "analyse"} => task'[b].snapshot # 0
            /\ task'[b].pc = "link" => task'[b].indexed # 0
      BY <1>3 DEF WorkTyped
    <2>2. /\ default' \in [name : Branch, head : CommitSha] /\ tip' \in [Change -> CommitSha]
          /\ open' \in [Change -> BOOLEAN]
      BY <1>1 DEF TypeOK, forge
    <2>3. RowsTyped'
      BY DEF Rows
    <2> QED  BY <1>2, <2>1, <2>2, <2>3 DEF TypeOK, RowsTyped
  <1>5. AnalysesWhole'
    BY <1>4 DEF Rows, RowsWhole, AnalysesWhole
  <1>6. OneAtATime' /\ Known'
    BY <1>3 DEF OneAtATime, Known
  <1> QED  BY <1>5, <1>6 DEF Rows, IInv

-----------------------------------------------------------------------------
(* Each handler's steps keep the invariant.                                *)

(* What an actor is told of the index it is told with no one else there.   *)
LEMMA IndexStep ==
  ASSUME IInv, NEW a \in Actor, Index(a)
  PROVE  IInv'
  <1>1. /\ task[a] \in Work /\ WorkTyped(task[a]) /\ Knows(task[a])
        /\ \A b \in Actor \ {a} : task[b] = Idle
    BY AtProject DEF Index
  <1>2. PICK found, pc, s, t :
          /\ found = index[task[a].head]
          /\ pc = (IF task[a].open /\ found = 0 THEN "record" ELSE "observe")
          /\ s = [task[a] EXCEPT !.indexed = found]
          /\ t = [s EXCEPT !.pc = pc]
    OBVIOUS
  <1>3. task' = [task EXCEPT ![a] = t] /\ UNCHANGED <<forge, readings, index, trouble>>
    BY <1>2, Zenon DEF Index
  <1>4. TypeOK /\ Rows
    BY RowsOfInvariant DEF IInv, AnalysesWhole
  <1>5. found \in Ids \cup {0} /\ found \in Nat
    <2>1. task[a].head \in CommitSha
      BY <1>1 DEF Work
    <2> QED  BY <1>2, <1>4, <2>1 DEF TypeOK, Ids
  <1>6. s \in Work /\ s.pc = "index" /\ s.by = task[a].by /\ s.head = task[a].head
        /\ s.indexed = found /\ s.snapshot = task[a].snapshot /\ s.done = task[a].done
    BY <1>1, <1>2, <1>5, IndexTold DEF Index
  <1>7. pc \in {"record", "observe"}
    BY <1>2
  <1>8. t \in Work /\ t.pc = pc /\ t.by = s.by /\ t.head = s.head
        /\ t.indexed = found /\ t.snapshot = s.snapshot /\ t.done = s.done
    <2>1. s \in Work /\ t = [s EXCEPT !.pc = pc]
      BY <1>2, <1>6
    <2>2. pc \in {"link", "analyse", "list", "turn", "observe", "record"}
      BY <1>7
    <2> QED  BY <1>6, <2>1, <2>2, PcMoved, ZenonT(40)
  <1>9. Rows' /\ Ids' = Ids /\ index' = index
    BY <1>3, <1>4, QuietRows
  <1>10. task[a].done = 0
    BY <1>1 DEF Knows, Index
  <1>11. WorkTyped(t)' /\ Knows(t)'
    BY <1>1, <1>2, <1>5, <1>6, <1>7, <1>8, <1>9, <1>10 DEF WorkTyped, Knows
  <1>12. trouble' \in 0 .. MaxTrouble /\ t \in Task
    BY <1>3, <1>4, <1>8, WorkOrIdle DEF TypeOK
  <1> QED  BY <1>1, <1>3, <1>9, <1>11, <1>12, ActorSteps

(* A step that writes nothing keeps the invariant if the actor knows what  *)
(* it needs already.                                                       *)
LEMMA QuietSteps ==
  ASSUME IInv, NEW a \in Actor, \A b \in Actor \ {a} : task[b] = Idle,
         NEW t \in Task, task' = [task EXCEPT ![a] = t],
         t # Idle => WorkTyped(t) /\ Knows(t),
         UNCHANGED <<forge, readings, index>>, trouble' \in 0 .. MaxTrouble
  PROVE  IInv'
  <1>1. Rows' /\ Ids' = Ids
    BY RowsOfInvariant, QuietRows
  <1>2. t # Idle => WorkTyped(t)' /\ Knows(t)'
    BY <1>1 DEF WorkTyped, Knows
  <1> QED  BY <1>1, <1>2, ActorSteps

(* Whoever takes the project's lock starts with nothing known.             *)
LEMMA BeginSteps ==
  ASSUME IInv, NEW a \in Actor,
         \/ BeginPass(a)
         \/ \E c \in Change : BeginScan(a, c)
         \/ \E h \in CommitSha : BeginCommit(a, h)
  PROVE  IInv'
  <1>0. TypeOK /\ Rows /\ MaxTrouble \in Nat
    BY RowsOfInvariant, ReadingsAssumption DEF IInv, AnalysesWhole
  <1>1. ASSUME NEW pc \in {"index", "record"}, NEW by \in {"branch", "scan", "commit"},
               pc = "record" => by \notin {"branch", "change"},
               NEW s \in Subject, NEW h \in CommitSha,
               task' = [task EXCEPT ![a] = At(pc, by, s, h, TRUE, {})], Unlocked,
               UNCHANGED <<forge, readings, index>>, trouble' \in {trouble, trouble + 1},
               trouble' = trouble \/ trouble < MaxTrouble
        PROVE  IInv'
    <2>1. PICK t : t = At(pc, by, s, h, TRUE, {})
      OBVIOUS
    <2>2. t \in Work /\ t.pc = pc /\ t.by = by /\ t.indexed = 0 /\ t.snapshot = 0 /\ t.done = 0
      <3>1. {} \in SUBSET Listed /\ TRUE \in BOOLEAN
            /\ by \in {"branch", "change", "scan", "commit"}
        OBVIOUS
      <3>2. \A o \in BOOLEAN, todo \in SUBSET Listed :
              LET w == At(pc, by, s, h, o, todo)
              IN  /\ w \in Work /\ w.pc = pc /\ w.by = by
                  /\ w.indexed = 0 /\ w.snapshot = 0 /\ w.done = 0
        BY <3>1, AtWork
      <3> QED  BY <2>1, <3>1, <3>2, Zenon
    <2>3. WorkTyped(t) /\ Knows(t)
      BY <1>1, <2>2 DEF WorkTyped, Knows
    <2>4. trouble' \in 0 .. MaxTrouble
      <3>1. trouble \in 0 .. MaxTrouble
        BY <1>0 DEF TypeOK
      <3> QED  BY <1>0, <1>1, <3>1
    <2>5. \A b \in Actor \ {a} : task[b] = Idle
      BY <1>1, Alone
    <2> QED  BY <1>1, <2>1, <2>2, <2>3, <2>4, <2>5, QuietSteps, WorkOrIdle
  <1>2. CASE BeginPass(a)
    <2>1. default.name \in Subject /\ default.head \in CommitSha
      BY <1>0 DEF TypeOK, Subject
    <2> QED  BY <1>1, <1>2, <2>1 DEF BeginPass
  <1>3. ASSUME NEW c \in Change, BeginScan(a, c)
        PROVE  IInv'
    <2>1. Newest({c}) \in Ids
      <3>1. Len(readings) \in Nat
        BY <1>0 DEF Rows, RowsTyped
      <3>2. {i \in Ids : readings[i].subject \in {c}} # {}
        BY <1>3 DEF BeginScan
      <3> QED  BY <3>1, <3>2, GreatestId DEF Newest, Ids
    <2>2. readings[Newest({c})].head \in CommitSha /\ c \in Subject
      BY <1>0, <2>1, RowTyped DEF Subject
    <2> QED  BY <1>1, <1>3, <2>2 DEF BeginScan
  <1>4. ASSUME NEW h \in CommitSha, BeginCommit(a, h)
        PROVE  IInv'
    <2>1. h \in Subject
      BY DEF Subject
    <2> QED  BY <1>1, <1>4, <2>1 DEF BeginCommit
  <1> QED  BY <1>2, <1>3, <1>4

(* Between two subjects a pass needs to know nothing.                      *)
LEMMA TurnSteps ==
  ASSUME IInv, NEW a \in Actor, ListChanges(a) \/ ReadChange(a) \/ EndPass(a)
  PROVE  IInv'
  <1>0. /\ TypeOK /\ task[a] \in Work /\ WorkTyped(task[a])
        /\ \A b \in Actor \ {a} : task[b] = Idle
        /\ UNCHANGED <<forge, readings, index>> /\ trouble' \in 0 .. MaxTrouble
    <2>1. TypeOK /\ task[a].pc # "idle"
      BY DEF IInv, AnalysesWhole, ListChanges, ReadChange, EndPass
    <2>2. UNCHANGED <<forge, readings, index>> /\ trouble' = trouble
      BY DEF ListChanges, ReadChange, EndPass
    <2> QED  BY <2>1, <2>2, AtProject DEF TypeOK
  <1>1. CASE ListChanges(a)
    <2>1. PICK todo, t :
            /\ todo = {[subject |-> c, head |-> tip[c], open |-> open[c]] : c \in Change}
            /\ t = [task[a] EXCEPT !.pc = "turn", !.by = "change", !.todo = todo]
      OBVIOUS
    <2>2. task' = [task EXCEPT ![a] = t]
      BY <1>1, <2>1, Zenon DEF ListChanges
    <2>3. todo \in SUBSET Listed
      BY <1>0, <2>1 DEF TypeOK, Listed
    <2>4. /\ t \in Work /\ t.pc = "turn" /\ t.indexed = task[a].indexed
          /\ t.snapshot = task[a].snapshot
      BY <1>0, <2>1, <2>3, ChangesListed, Zenon
    <2>5. WorkTyped(t) /\ Knows(t)
      BY <1>0, <2>4 DEF WorkTyped, Knows
    <2> QED  BY <1>0, <2>2, <2>4, <2>5, QuietSteps, WorkOrIdle
  <1>2. CASE ReadChange(a)
    <2>1. PICK c \in task[a].todo :
            task' = [task EXCEPT ![a] =
                      At("index", "change", c.subject, c.head, c.open, task[a].todo \ {c})]
      BY <1>2 DEF ReadChange
    <2>2. PICK t : t = At("index", "change", c.subject, c.head, c.open, task[a].todo \ {c})
      OBVIOUS
    <2>3. task[a].todo \in SUBSET Listed
      BY <1>0 DEF Work
    <2>4. c.subject \in Subject /\ c.head \in CommitSha /\ c.open \in BOOLEAN
          /\ task[a].todo \ {c} \in SUBSET Listed
      BY <2>3 DEF Listed, Subject
    <2>5. t \in Work /\ t.pc = "index" /\ t.indexed = 0 /\ t.snapshot = 0 /\ t.done = 0
      BY <2>2, <2>4, AtWork
    <2>6. WorkTyped(t) /\ Knows(t)
      BY <2>5 DEF WorkTyped, Knows
    <2> QED  BY <1>0, <2>1, <2>2, <2>5, <2>6, QuietSteps, WorkOrIdle
  <1>3. CASE EndPass(a)
    BY <1>0, <1>3, QuietSteps, WorkOrIdle DEF EndPass
  <1> QED  BY <1>1, <1>2, <1>3

(* Whoever stops leaves the tables as they are.                            *)
LEMMA StopStep ==
  ASSUME IInv, NEW a \in Actor, Stop(a)
  PROVE  IInv'
  <1>1. \A b \in Actor \ {a} : task[b] = Idle
    BY Alone DEF Stop
  <1>2. trouble' \in 0 .. MaxTrouble
    BY ReadingsAssumption DEF IInv, AnalysesWhole, TypeOK, Stop
  <1> QED  BY <1>1, <1>2, QuietSteps, WorkOrIdle DEF Stop

(* What happens on the forge touches nothing that is kept here.            *)
LEMMA ForgeSteps ==
  ASSUME IInv,
         \/ \E b \in Branch, h \in CommitSha : MoveDefault(b, h)
         \/ \E c \in Change, h \in CommitSha : Push(c, h)
         \/ \E c \in Change : OpenOrClose(c)
         \/ UNCHANGED vars
  PROVE  IInv'
  <1>0. TypeOK
    BY DEF IInv, AnalysesWhole
  <1>1. UNCHANGED <<readings, index, task, trouble>>
    BY DEF MoveDefault, Push, OpenOrClose, vars
  <1>2. /\ default' \in [name : Branch, head : CommitSha] /\ tip' \in [Change -> CommitSha]
        /\ open' \in [Change -> BOOLEAN]
    <2>1. /\ default \in [name : Branch, head : CommitSha] /\ tip \in [Change -> CommitSha]
          /\ open \in [Change -> BOOLEAN]
      BY <1>0 DEF TypeOK
    <2>2. ASSUME NEW b \in Branch, NEW h \in CommitSha, MoveDefault(b, h)
          PROVE  default' \in [name : Branch, head : CommitSha] /\ UNCHANGED <<tip, open>>
      BY <2>2 DEF MoveDefault
    <2>3. ASSUME NEW c \in Change, NEW h \in CommitSha, Push(c, h)
          PROVE  tip' \in [Change -> CommitSha] /\ UNCHANGED <<default, open>>
      BY <2>1, <2>3 DEF Push
    <2>4. ASSUME NEW c \in Change, OpenOrClose(c)
          PROVE  open' \in [Change -> BOOLEAN] /\ UNCHANGED <<default, tip>>
      BY <2>1, <2>4 DEF OpenOrClose
    <2>5. CASE UNCHANGED vars
      BY <2>1, <2>5 DEF vars
    <2> QED  BY <2>1, <2>2, <2>3, <2>4, <2>5
  <1>3. Rows' /\ Ids' = Ids
    BY <1>1, RowsOfInvariant, QuietRows
  <1>4. TypeOK'
    BY <1>0, <1>1, <1>2, <1>3 DEF TypeOK
  <1>5. OneAtATime' /\ Known'
    BY <1>1 DEF IInv, OneAtATime, Known, Knows
  <1> QED  BY <1>3, <1>4, <1>5 DEF IInv, Rows, RowsWhole, AnalysesWhole

(* Snapshot::observe: the first sighting of a head on its subject ...      *)
LEMMA ObserveNewStep ==
  ASSUME IInv, NEW a \in Actor, ObserveNew(a)
  PROVE  IInv'
  <1>1. /\ task[a] \in Work /\ WorkTyped(task[a]) /\ Knows(task[a]) /\ task[a].pc = "observe"
        /\ \A b \in Actor \ {a} : task[b] = Idle
    BY AtProject DEF ObserveNew
  <1>2. TypeOK /\ Rows
    BY RowsOfInvariant DEF IInv, AnalysesWhole
  <1>3. PICK r, n, s, t :
          /\ r = Reading(task[a]) /\ n = Len(readings) + 1
          /\ s = [task[a] EXCEPT !.pc = "link"]
          /\ t = (IF task[a].indexed = 0 THEN Done(task[a]) ELSE [s EXCEPT !.snapshot = n])
    OBVIOUS
  <1>4. /\ task' = [task EXCEPT ![a] = t] /\ readings' = Append(readings, r)
        /\ UNCHANGED <<forge, index, trouble>> /\ Of(task[a].subject, task[a].head) = {}
    BY <1>3, Zenon DEF ObserveNew
  <1>5. /\ r \in Snapshot /\ r.subject = task[a].subject /\ r.head = task[a].head
        /\ r.analysis = 0 /\ r.runs = 0
    BY <1>1, <1>3 DEF Reading, Snapshot, Work
  <1>6. /\ readings' \in Seq(Snapshot) /\ Ids' = Ids \cup {n} /\ n \in Nat \ (Ids \cup {0})
        /\ readings'[n] = r /\ \A i \in Ids : readings'[i] = readings[i]
    BY <1>2, <1>3, <1>4, <1>5, NextId DEF Rows, RowsTyped
  <1>7. Rows'
    <2>1. \A i \in Ids : ~ (readings[i].subject = r.subject /\ readings[i].head = r.head)
      BY <1>4, <1>5 DEF Of
    <2>2. index' = index
      BY <1>4
    <2> QED  BY <1>2, <1>5, <1>6, <2>1, <2>2, RowAppended
  <1>8. t \in Task /\ (t # Idle => WorkTyped(t)' /\ Knows(t)')
    <2>1. CASE task[a].indexed = 0
      <3>1. t = Done(task[a])
        BY <1>3, <2>1
      <3>2. t \in Task /\ (t # Idle => /\ t.pc \in {"list", "turn"}
                                       /\ t.indexed = task[a].indexed
                                       /\ t.snapshot = task[a].snapshot)
        BY <1>1, <3>1, DoneTask
      <3> QED  BY <1>1, <1>6, <3>2 DEF WorkTyped, Knows
    <2>2. CASE task[a].indexed # 0
      <3>1. t = [s EXCEPT !.snapshot = n]
        BY <1>3, <2>2
      <3>2. s \in Work /\ s.pc = "link" /\ s.indexed = task[a].indexed /\ s.head = task[a].head
            /\ s.done = task[a].done
        BY <1>1, <1>3, PcMoved
      <3>3. /\ t \in Work /\ t.pc = "link" /\ t.indexed = task[a].indexed
            /\ t.head = task[a].head /\ t.snapshot = n
        BY <1>6, <3>1, <3>2, SnapshotTold
      <3>4. task[a].indexed = index[task[a].head] /\ task[a].indexed \in Ids
        BY <1>1, <2>2 DEF Knows, WorkTyped
      <3>5. WorkTyped(t)'
        BY <1>6, <2>2, <3>3, <3>4 DEF WorkTyped
      <3>6. Knows(t)'
        <4>1. t.indexed = index'[t.head] /\ t.indexed # t.snapshot
          BY <1>4, <1>6, <3>3, <3>4
        <4>2. readings'[t.snapshot].head = t.head
          BY <1>5, <1>6, <3>3
        <4> QED  BY <3>3, <4>1, <4>2 DEF Knows
      <3> QED  BY <3>3, <3>5, <3>6, WorkOrIdle
    <2> QED  BY <2>1, <2>2
  <1>9. trouble' \in 0 .. MaxTrouble /\ UNCHANGED forge
    BY <1>2, <1>4 DEF TypeOK
  <1> QED  BY <1>1, <1>4, <1>7, <1>8, <1>9, ActorSteps

(* A reading linked to what the pass was told.                             *)
LEMMA Linked ==
  ASSUME Rows, NEW i \in Ids, NEW x, x = index[readings[i].head],
         readings' = [readings EXCEPT ![i].analysis = NewAnalysis(i, x)], index' = index
  PROVE  Rows' /\ Ids' = Ids
  <1>1. readings \in Seq(Snapshot) /\ readings[i] \in Snapshot /\ x \in Ids \cup {0}
    BY RowTyped DEF Rows, RowsTyped
  <1>2. PICK v, new : v = NewAnalysis(i, x) /\ new = [readings[i] EXCEPT !.analysis = v]
    OBVIOUS
  <1>3. v \in Ids \cup {0} /\ v \in Nat
    BY <1>1, <1>2 DEF NewAnalysis, Ids
  <1>4. /\ new \in Snapshot /\ new.subject = readings[i].subject /\ new.head = readings[i].head
        /\ new.analysis = v /\ new.runs = readings[i].runs
    <2>1. readings[i] \in Snapshot /\ v \in Nat /\ new = [readings[i] EXCEPT !.analysis = v]
      BY <1>1, <1>2, <1>3
    <2> QED  BY <2>1, SnapshotFields, Zenon
  <1>5. /\ readings' \in Seq(Snapshot) /\ Ids' = Ids
        /\ \A j \in Ids : readings'[j] = IF j = i THEN new ELSE readings[j]
    BY <1>1, <1>2, <1>4, RowReplaced
  <1>6. Rows'
    BY <1>1, <1>2, <1>3, <1>4, <1>5, RowLinked
  <1> QED  BY <1>5, <1>6

(* ... with its link ...                                                   *)
LEMMA LinkStep ==
  ASSUME IInv, NEW a \in Actor, Link(a)
  PROVE  IInv'
  <1>1. /\ task[a] \in Work /\ WorkTyped(task[a]) /\ Knows(task[a]) /\ task[a].pc = "link"
        /\ \A b \in Actor \ {a} : task[b] = Idle
    BY AtProject DEF Link
  <1>2. TypeOK /\ Rows
    BY RowsOfInvariant DEF IInv, AnalysesWhole
  <1>3. PICK i, x, t : i = task[a].snapshot /\ x = task[a].indexed /\ t = Done(task[a])
    OBVIOUS
  <1>4. /\ task' = [task EXCEPT ![a] = t] /\ readings' = [readings EXCEPT ![i].analysis = x]
        /\ UNCHANGED <<forge, index, trouble>>
    BY <1>3, Zenon DEF Link
  <1>5. i \in Ids /\ x \in Ids /\ x # i /\ x = index[readings[i].head]
    BY <1>1, <1>3 DEF WorkTyped, Knows
  <1>6. Rows' /\ Ids' = Ids
    <2>1. x = NewAnalysis(i, x)
      BY <1>5 DEF NewAnalysis
    <2> QED  BY <1>2, <1>4, <1>5, <2>1, Linked
  <1>7. t \in Task /\ (t # Idle => WorkTyped(t)' /\ Knows(t)')
    <2>1. t \in Task /\ (t # Idle => /\ t.pc \in {"list", "turn"}
                                     /\ t.indexed = task[a].indexed
                                     /\ t.snapshot = task[a].snapshot)
      BY <1>1, <1>3, DoneTask
    <2> QED  BY <1>1, <1>6, <2>1 DEF WorkTyped, Knows
  <1>8. trouble' \in 0 .. MaxTrouble /\ UNCHANGED forge
    BY <1>2, <1>4 DEF TypeOK
  <1> QED  BY <1>1, <1>4, <1>6, <1>7, <1>8, ActorSteps

(* ... and a later one.                                                    *)
LEMMA ObserveAgainStep ==
  ASSUME IInv, NEW a \in Actor, ObserveAgain(a)
  PROVE  IInv'
  <1>1. /\ task[a] \in Work /\ WorkTyped(task[a]) /\ Knows(task[a]) /\ task[a].pc = "observe"
        /\ \A b \in Actor \ {a} : task[b] = Idle
    BY AtProject DEF ObserveAgain
  <1>2. TypeOK /\ Rows
    BY RowsOfInvariant DEF IInv, AnalysesWhole
  <1>3. PICK i, x, t : /\ i = Max(Of(task[a].subject, task[a].head))
                       /\ x = task[a].indexed /\ t = Done(task[a])
    OBVIOUS
  <1>4. /\ task' = [task EXCEPT ![a] = t]
        /\ readings' = [readings EXCEPT ![i].analysis = NewAnalysis(i, x)]
        /\ UNCHANGED <<forge, index, trouble>> /\ Of(task[a].subject, task[a].head) # {}
    BY <1>3, Zenon DEF ObserveAgain
  <1>5. i \in Ids /\ x = index[readings[i].head]
    <2>1. Len(readings) \in Nat /\ Of(task[a].subject, task[a].head) \in SUBSET (1 .. Len(readings))
      BY <1>2 DEF Rows, RowsTyped, Of, Ids
    <2>2. i \in Of(task[a].subject, task[a].head)
      BY <1>3, <1>4, <2>1, GreatestId
    <2> QED  BY <1>1, <1>3, <2>2 DEF Of, Knows
  <1>6. Rows' /\ Ids' = Ids
    BY <1>2, <1>4, <1>5, Linked
  <1>7. t \in Task /\ (t # Idle => WorkTyped(t)' /\ Knows(t)')
    <2>1. t \in Task /\ (t # Idle => /\ t.pc \in {"list", "turn"}
                                     /\ t.indexed = task[a].indexed
                                     /\ t.snapshot = task[a].snapshot)
      BY <1>1, <1>3, DoneTask
    <2> QED  BY <1>1, <1>6, <2>1 DEF WorkTyped, Knows
  <1>8. trouble' \in 0 .. MaxTrouble /\ UNCHANGED forge
    BY <1>2, <1>4 DEF TypeOK
  <1> QED  BY <1>1, <1>4, <1>6, <1>7, <1>8, ActorSteps

(* Snapshot::record, of a new reading or of the one that waits.            *)
LEMMA RecordStep ==
  ASSUME IInv, NEW a \in Actor, Record(a)
  PROVE  IInv'
  <1>1. /\ task[a] \in Work /\ WorkTyped(task[a]) /\ Knows(task[a]) /\ task[a].pc = "record"
        /\ \A b \in Actor \ {a} : task[b] = Idle
    BY AtProject DEF Record
  <1>2. TypeOK /\ Rows
    BY RowsOfInvariant DEF IInv, AnalysesWhole
  <1>3. PICK waiting, r, n, s, t :
          /\ waiting = {i \in Of(task[a].subject, task[a].head) : Bare(i)}
          /\ r = Reading(task[a])
          /\ n = (IF waiting = {} THEN Len(readings) + 1 ELSE Min(waiting))
          /\ s = [task[a] EXCEPT !.pc = "analyse"]
          /\ t = [s EXCEPT !.snapshot = n]
    OBVIOUS
  <1>4. /\ task' = [task EXCEPT ![a] = t]
        /\ readings' = IF waiting = {} THEN Append(readings, r) ELSE readings
        /\ UNCHANGED <<forge, index, trouble>>
    BY <1>3, Zenon DEF Record
  <1>5. /\ r \in Snapshot /\ r.subject = task[a].subject /\ r.head = task[a].head
        /\ r.analysis = 0 /\ r.runs = 0
    BY <1>1, <1>3 DEF Reading, Snapshot, Work
  <1>6. /\ Rows' /\ n \in Ids' /\ n \in Nat /\ n # 0 /\ Ids \subseteq Ids'
        /\ readings'[n].head = task[a].head /\ readings'[n].analysis = 0 /\ readings'[n].runs = 0
    <2>1. CASE waiting = {}
      <3>1. n = Len(readings) + 1 /\ readings' = Append(readings, r)
        BY <1>3, <1>4, <2>1
      <3>2. /\ readings' \in Seq(Snapshot) /\ Ids' = Ids \cup {n} /\ n \in Nat \ (Ids \cup {0})
            /\ readings'[n] = r /\ \A i \in Ids : readings'[i] = readings[i]
        BY <1>2, <1>5, <3>1, NextId DEF Rows, RowsTyped
      <3>3. \A i \in Ids : readings[i].subject = r.subject /\ readings[i].head = r.head => ~ Bare(i)
        BY <1>3, <1>5, <2>1 DEF Of
      <3>4. index' = index
        BY <1>4
      <3>5. Rows'
        BY <1>2, <1>5, <3>2, <3>3, <3>4, RowAppended
      <3> QED  BY <1>5, <3>2, <3>5
    <2>2. CASE waiting # {}
      <3>1. n = Min(waiting) /\ readings' = readings /\ index' = index
        BY <1>3, <1>4, <2>2
      <3>2. waiting \in SUBSET Nat
        BY <1>3 DEF Of, Ids
      <3>3. n \in waiting
        BY <2>2, <3>1, <3>2, LeastId
      <3>4. n \in Ids /\ readings[n].head = task[a].head /\ Bare(n)
        BY <1>3, <3>3 DEF Of
      <3>5. n \in Nat /\ n # 0
        BY <3>4 DEF Ids
      <3> QED  BY <1>2, <3>1, <3>4, <3>5, QuietRows DEF Bare
    <2> QED  BY <2>1, <2>2
  <1>7. s \in Work /\ s.pc = "analyse" /\ s.indexed = task[a].indexed /\ s.head = task[a].head
        /\ s.done = task[a].done /\ s.by = task[a].by
    BY <1>1, <1>3, PcMoved
  <1>8. /\ t \in Work /\ t.pc = "analyse" /\ t.indexed = task[a].indexed
        /\ t.head = task[a].head /\ t.snapshot = n /\ t.done = task[a].done /\ t.by = task[a].by
    <2>1. t = [s EXCEPT !.snapshot = n]
      BY <1>3
    <2> QED  BY <1>6, <1>7, <2>1, SnapshotTold
  <1>9. WorkTyped(t)'
    BY <1>1, <1>6, <1>8 DEF WorkTyped
  <1>10. Knows(t)'
    <2>1. task[a].done = 0 /\ (task[a].by \in {"branch", "change"} => index[task[a].head] = 0)
      BY <1>1 DEF Knows
    <2> QED  BY <1>4, <1>6, <1>8, <2>1 DEF Knows
  <1>11. trouble' \in 0 .. MaxTrouble /\ UNCHANGED forge /\ t \in Task
    BY <1>2, <1>4, <1>8, WorkOrIdle DEF TypeOK
  <1> QED  BY <1>1, <1>4, <1>6, <1>8, <1>9, <1>10, <1>11, ActorSteps

(* One analyzer's run.                                                     *)
LEMMA RecordRunStep ==
  ASSUME IInv, NEW a \in Actor, RecordRun(a)
  PROVE  IInv'
  <1>1. /\ task[a] \in Work /\ WorkTyped(task[a]) /\ Knows(task[a]) /\ task[a].pc = "analyse"
        /\ \A b \in Actor \ {a} : task[b] = Idle
    BY AtProject DEF RecordRun
  <1>2. TypeOK /\ Rows
    BY RowsOfInvariant DEF IInv, AnalysesWhole
  <1>3. PICK i, done, new, t :
          /\ i = task[a].snapshot /\ done = task[a].done
          /\ new = [readings[i] EXCEPT !.runs = done + 1]
          /\ t = [task[a] EXCEPT !.done = done + 1]
    OBVIOUS
  <1>4. i \in Ids /\ readings[i].head = task[a].head /\ readings[i].analysis = 0
        /\ readings[i].runs = done
    BY <1>1, <1>3 DEF WorkTyped, Knows
  <1>5. /\ task' = [task EXCEPT ![a] = t] /\ readings' = [readings EXCEPT ![i] = new]
        /\ UNCHANGED <<forge, index, trouble>> /\ done < ANALYZERS
    BY <1>3, <1>4 DEF RecordRun
  <1>6. done \in 0 .. ANALYZERS /\ done + 1 \in 0 .. ANALYZERS /\ done + 1 \in Nat
    <2>1. done \in 0 .. ANALYZERS
      BY <1>1, <1>3 DEF Work
    <2> QED  BY <1>5, <2>1, ReadingsAssumption
  <1>7. readings[i] \in Snapshot
    BY <1>2, <1>4, RowTyped
  <1>8. /\ new \in Snapshot /\ new.subject = readings[i].subject /\ new.head = readings[i].head
        /\ new.analysis = 0 /\ new.runs = done + 1
    BY <1>3, <1>4, <1>6, <1>7, SnapshotFields, ZenonT(40)
  <1>9. /\ readings' \in Seq(Snapshot) /\ Ids' = Ids
        /\ \A j \in Ids : readings'[j] = IF j = i THEN new ELSE readings[j]
    BY <1>2, <1>4, <1>5, <1>8, RowReplaced DEF Rows, RowsTyped
  <1>10. Rows'
    BY <1>2, <1>4, <1>5, <1>8, <1>9, RunCounted
  <1>11. /\ t \in Work /\ t.pc = "analyse" /\ t.by = task[a].by /\ t.head = task[a].head
         /\ t.indexed = task[a].indexed /\ t.snapshot = i /\ t.done = done + 1
    BY <1>1, <1>3, <1>6, RunDone, Zenon
  <1>12. WorkTyped(t)'
    BY <1>1, <1>3, <1>9, <1>11 DEF WorkTyped
  <1>13. Knows(t)'
    BY <1>1, <1>4, <1>5, <1>8, <1>9, <1>11 DEF Knows
  <1>14. trouble' \in 0 .. MaxTrouble /\ UNCHANGED forge /\ t \in Task
    BY <1>2, <1>5, <1>11, WorkOrIdle DEF TypeOK
  <1> QED  BY <1>1, <1>5, <1>10, <1>11, <1>12, <1>13, <1>14, ActorSteps

(* Snapshot::mark_analysed, once every analyzer has run.                   *)
LEMMA MarkAnalysedStep ==
  ASSUME IInv, NEW a \in Actor, MarkAnalysed(a)
  PROVE  IInv'
  <1>1. /\ task[a] \in Work /\ WorkTyped(task[a]) /\ Knows(task[a]) /\ task[a].pc = "analyse"
        /\ \A b \in Actor \ {a} : task[b] = Idle
    BY AtProject DEF MarkAnalysed
  <1>2. TypeOK /\ Rows
    BY RowsOfInvariant DEF IInv, AnalysesWhole
  <1>3. PICK i, t : i = task[a].snapshot /\ t = Done(task[a])
    OBVIOUS
  <1>4. i \in Ids /\ readings[i].head = task[a].head /\ readings[i].analysis = 0 /\ Whole(i)
    BY <1>1, <1>3 DEF WorkTyped, Knows, MarkAnalysed, Whole
  <1>5. /\ task' = [task EXCEPT ![a] = t] /\ index' = [index EXCEPT ![readings[i].head] = i]
        /\ UNCHANGED <<forge, readings, trouble>>
    BY <1>3, <1>4 DEF MarkAnalysed
  <1>6. Rows' /\ Ids' = Ids
    BY <1>2, <1>4, <1>5, HeadIndexed DEF Ids
  <1>7. t \in Task /\ (t # Idle => WorkTyped(t)' /\ Knows(t)')
    <2>1. t \in Task /\ (t # Idle => /\ t.pc \in {"list", "turn"}
                                     /\ t.indexed = task[a].indexed
                                     /\ t.snapshot = task[a].snapshot)
      BY <1>1, <1>3, DoneTask
    <2> QED  BY <1>1, <1>6, <2>1 DEF WorkTyped, Knows
  <1>8. trouble' \in 0 .. MaxTrouble /\ UNCHANGED forge
    BY <1>2, <1>5 DEF TypeOK
  <1> QED  BY <1>1, <1>5, <1>6, <1>7, <1>8, ActorSteps

-----------------------------------------------------------------------------
(* The invariant holds.                                                    *)

(* No reading is there yet, and nobody is at the project.                  *)
LEMMA HoldsInitially == Init => IInv
  <1> SUFFICES ASSUME Init  PROVE IInv  OBVIOUS
  <1>1. Ids = {} /\ readings \in Seq(Snapshot)
    BY DEF Init, Ids
  <1>2. \A a \in Actor : task[a] = Idle
    BY DEF Init
  <1>3. TypeOK
    BY <1>1, <1>2, WorkOrIdle, ReadingsAssumption DEF Init, TypeOK
  <1> QED  BY <1>1, <1>2, <1>3
           DEF Init, IInv, AnalysesWhole, OneBareReading, OneAtATime, Known, LinksIndexed

(* Each step of Next, or none.                                             *)
LEMMA StepsKeepInvariant == IInv /\ [Next]_vars => IInv'
  BY BeginSteps, IndexStep, ObserveNewStep, LinkStep, ObserveAgainStep, RecordStep,
     RecordRunStep, MarkAnalysedStep, TurnSteps, StopStep, ForgeSteps
  DEF Next, Progress

(* Under the project's lock, what a pass or a request was told stays so    *)
(* until it is done, and the tables keep what they promise.                *)
THEOREM InvariantHolds == Spec => []IInv
  BY HoldsInitially, StepsKeepInvariant, PTL DEF Spec

(* Every id is a reading's, and whatever analysis a reading is shown with  *)
(* is of its head and whole, whoever stopped half way.                     *)
THEOREM AnalysesAlwaysWhole == Spec => []AnalysesWhole
  <1>1. IInv => AnalysesWhole
    BY DEF IInv
  <1> QED  BY <1>1, InvariantHolds, PTL

(* A head that waits for its analysis has one reading on its subject       *)
(* (docs/architecture.md:84-88).                                           *)
THEOREM AlwaysOneBareReading == Spec => []OneBareReading
  <1>1. IInv => OneBareReading
    BY DEF IInv
  <1> QED  BY <1>1, InvariantHolds, PTL

(* No pass analyses a head that has been analysed                          *)
(* (docs/architecture.md:78-79).                                           *)
THEOREM NeverAnalysedTwice == Spec => []NeverAnalysedAgain
  <1>1. IInv => NeverAnalysedAgain
    BY DEF IInv, Known, Knows, NeverAnalysedAgain
  <1> QED  BY <1>1, InvariantHolds, PTL
=============================================================================
