---------------------------- MODULE AnalyzersProofs ----------------------------
(***************************************************************************)
(* Proofs that the properties of Analyzers hold for any paths, whatever    *)
(* their files hold and the forges answer: what the differences of two     *)
(* lockfiles tell, that no two findings of a run are one issue, and what a *)
(* silent run has seen.                                                    *)
(***************************************************************************)
EXTENDS Analyzers, FiniteSetTheorems, SequenceTheorems, WellFoundedInduction, TLAPS

-----------------------------------------------------------------------------
(* Finite sets.                                                            *)

(* What a function makes of a finite set is finite.                        *)
LEMMA FiniteImage ==
  ASSUME NEW f, IsFiniteSet(DOMAIN f)
  PROVE  IsFiniteSet({f[x] : x \in DOMAIN f})
  <1> DEFINE T == {f[x] : x \in DOMAIN f}
             g == [x \in DOMAIN f |-> f[x]]
  <1>1. g \in [DOMAIN f -> T] /\ \A t \in T : \E x \in DOMAIN f : g[x] = t
    OBVIOUS
  <1>2. g \in Surjection(DOMAIN f, T)
    BY <1>1 DEF Surjection
  <1> HIDE DEF T, g
  <1>3. IsFiniteSet(T)
    BY <1>2, FS_Surjection
  <1> QED  BY <1>3 DEF T

(* A set that holds one thing more than another counts more.               *)
LEMMA CountsDiffer ==
  ASSUME NEW Q, IsFiniteSet(Q), NEW P \in SUBSET Q, NEW x \in Q, x \notin P
  PROVE  Cardinality(P) # Cardinality(Q)
  BY FS_Subset

(* Of some numbers there is a least one.                                   *)
LEMMA LeastOf ==
  ASSUME NEW S \in SUBSET Nat, S # {}
  PROVE  Min(S) \in S /\ \A y \in S : Min(S) <= y
  <1>1. PICK x \in S : \A y \in S : <<y, x>> \notin OpToRel(<, Nat)
    BY NatLessThanWellFounded, WFMin
  <1>2. \A y \in S : ~ (y < x)
    BY <1>1 DEF OpToRel
  <1>3. \E z \in S : \A y \in S : z <= y
    BY <1>2
  <1> QED  BY <1>3, Zenon DEF Min

(* The only one is the largest.                                            *)
LEMMA MaxOfOne ==
  ASSUME NEW j \in Nat
  PROVE  Max({j}) = j
  <1>1. \E x \in {j} : \A y \in {j} : x >= y
    OBVIOUS
  <1>2. Max({j}) \in {j}
    BY <1>1, Zenon DEF Max
  <1> QED  BY <1>2

-----------------------------------------------------------------------------
(* What two revisions of a lockfile lock.                                  *)

(* The packages of a lockfile, each made of an entry.                      *)
Shaped(kind, packages) ==
  /\ \E n \in Nat : DOMAIN packages \subseteq 1 .. n
  /\ \A i \in DOMAIN packages :
       \E e : packages[i] = LockedPackage(kind, e) /\ e.version \in Version

(* There are finitely many, at numbered places.                            *)
LEMMA ShapedFinite ==
  ASSUME NEW kind, NEW s, Shaped(kind, s)
  PROVE  DOMAIN s \subseteq Nat /\ IsFiniteSet(DOMAIN s)
  <1>1. PICK n \in Nat : DOMAIN s \subseteq 1 .. n
    BY DEF Shaped
  <1>2. IsFiniteSet(1 .. n)
    BY FS_Interval
  <1> QED  BY <1>1, <1>2, FS_Subset

(* Name, version, source and integrity say all of a package.               *)
LEMMA SamePackage ==
  ASSUME NEW kind, NEW s, NEW t, Shaped(kind, s), Shaped(kind, t),
         NEW i \in DOMAIN s, NEW j \in DOMAIN t,
         Key(s[i]) = Key(t[j]), s[i].source = t[j].source, s[i].integrity = t[j].integrity
  PROVE  s[i] = t[j]
  <1>1. PICK d : s[i] = LockedPackage(kind, d)
    BY DEF Shaped
  <1>2. PICK e : t[j] = LockedPackage(kind, e)
    BY DEF Shaped
  <1>3. d.name = e.name /\ d.version = e.version
    BY <1>1, <1>2 DEF Key, LockedPackage
  <1>4. d.from = e.from /\ d.integrity = e.integrity
    BY <1>1, <1>2 DEF LockedPackage
  <1> QED  BY <1>1, <1>2, <1>3, <1>4 DEF LockedPackage

(* The places of the three passes of delta.                                *)
ChangedPlaces(kind, b, h) == {j \in DOMAIN h : RuleFor(kind, b, h[j]) \notin {"same", "appeared"}}
RemovedPlaces(kind, b, h) ==
  {j \in Vanished(b, h) : \A k \in Appeared(kind, b, h) : h[k].name # b[j].name}
ChangedAt(kind, b, h, i) ==
  Report(RuleFor(kind, b, h[i]), h[i], IF Key(h[i]) \in Keys(b) THEN "none" ELSE "Added", <<1, i>>)
ArrivedAt(kind, b, h, i) ==
  Report(ArrivalRule(kind, b, Departures(b, h, h[i].name), h[i]), h[i],
         IF Departures(b, h, h[i].name) = {} THEN "Added"
         ELSE Movement(b, Departures(b, h, h[i].name), h[i]), <<2, i>>)
RemovedAt(b, i) == Report("package-removed", b[i], "Removed", <<3, i>>)

(* The reports, by their places.                                           *)
LEMMA ReportsByPlace ==
  ASSUME NEW kind, NEW b, NEW h
  PROVE  Delta(kind, b, h) =
           {ChangedAt(kind, b, h, i) : i \in ChangedPlaces(kind, b, h)}
             \cup {ArrivedAt(kind, b, h, i) : i \in Appeared(kind, b, h)}
             \cup {RemovedAt(b, i) : i \in RemovedPlaces(kind, b, h)}
  <1>1. ChangedPackages(kind, b, h) = {ChangedAt(kind, b, h, i) : i \in ChangedPlaces(kind, b, h)}
    BY DEF ChangedPackages, ChangedAt, ChangedPlaces
  <1>2. ArrivedPackages(kind, b, h) = {ArrivedAt(kind, b, h, i) : i \in Appeared(kind, b, h)}
    BY DEF ArrivedPackages, ArrivedAt
  <1>3. RemovedPackages(kind, b, h) = {RemovedAt(b, i) : i \in RemovedPlaces(kind, b, h)}
    BY DEF RemovedPackages, RemovedAt, RemovedPlaces
  <1> QED  BY <1>1, <1>2, <1>3 DEF Delta

(* A report is one of a place, in one of the three ways.                   *)
LEMMA ReportIs ==
  ASSUME NEW kind, NEW b, NEW h, NEW r \in Delta(kind, b, h)
  PROVE  \/ \E i \in ChangedPlaces(kind, b, h) : r = ChangedAt(kind, b, h, i)
         \/ \E i \in Appeared(kind, b, h) : r = ArrivedAt(kind, b, h, i)
         \/ \E i \in RemovedPlaces(kind, b, h) : r = RemovedAt(b, i)
  BY ReportsByPlace

(* What the fields of a report are.                                        *)
LEMMA ReportFields ==
  ASSUME NEW kind, NEW b, NEW h, NEW i
  PROVE  /\ ChangedAt(kind, b, h, i).at = <<1, i>> /\ ChangedAt(kind, b, h, i).package = h[i]
         /\ ChangedAt(kind, b, h, i).movement \in {"none", "Added"}
         /\ ArrivedAt(kind, b, h, i).at = <<2, i>> /\ ArrivedAt(kind, b, h, i).package = h[i]
         /\ RemovedAt(b, i).at = <<3, i>> /\ RemovedAt(b, i).package = b[i]
         /\ RemovedAt(b, i).movement = "Removed"
  <1>1. ASSUME NEW rule, NEW package, NEW movement, NEW at
        PROVE  /\ Report(rule, package, movement, at).package = package
               /\ Report(rule, package, movement, at).movement = movement
               /\ Report(rule, package, movement, at).at = at
    BY DEF Report
  <1>2. ChangedAt(kind, b, h, i).at = <<1, i>> /\ ChangedAt(kind, b, h, i).package = h[i]
        /\ ChangedAt(kind, b, h, i).movement \in {"none", "Added"}
    BY <1>1 DEF ChangedAt
  <1>3. ArrivedAt(kind, b, h, i).at = <<2, i>> /\ ArrivedAt(kind, b, h, i).package = h[i]
    <2>1. PICK rule : rule = ArrivalRule(kind, b, Departures(b, h, h[i].name), h[i])
      OBVIOUS
    <2>2. PICK movement : movement = IF Departures(b, h, h[i].name) = {} THEN "Added"
                                     ELSE Movement(b, Departures(b, h, h[i].name), h[i])
      OBVIOUS
    <2>3. ArrivedAt(kind, b, h, i) = Report(rule, h[i], movement, <<2, i>>)
      BY <2>1, <2>2, Zenon DEF ArrivedAt
    <2> QED  BY <1>1, <2>3
  <1>4. RemovedAt(b, i).at = <<3, i>> /\ RemovedAt(b, i).package = b[i]
        /\ RemovedAt(b, i).movement = "Removed"
    BY <1>1 DEF RemovedAt
  <1> QED  BY <1>2, <1>3, <1>4

(* Of the packages that appeared, each is at a place of the head.          *)
LEMMA PlacesAreIndices ==
  ASSUME NEW kind, NEW b, NEW h
  PROVE  /\ ChangedPlaces(kind, b, h) \subseteq DOMAIN h
         /\ Appeared(kind, b, h) \subseteq DOMAIN h
         /\ RemovedPlaces(kind, b, h) \subseteq DOMAIN b
  BY DEF ChangedPlaces, Appeared, RemovedPlaces, Vanished

(* There are finitely many reports.                                        *)
LEMMA ReportsFinite ==
  ASSUME NEW kind, NEW b, NEW h, Shaped(kind, b), Shaped(kind, h)
  PROVE  IsFiniteSet(Delta(kind, b, h))
  <1>1. IsFiniteSet(DOMAIN b) /\ IsFiniteSet(DOMAIN h)
    BY ShapedFinite
  <1>2. IsFiniteSet({ChangedAt(kind, b, h, i) : i \in ChangedPlaces(kind, b, h)})
    <2>1. PICK f : f = [i \in ChangedPlaces(kind, b, h) |-> ChangedAt(kind, b, h, i)]
      OBVIOUS
    <2>2. IsFiniteSet(DOMAIN f)
      BY <1>1, <2>1, PlacesAreIndices, FS_Subset
    <2>3. {ChangedAt(kind, b, h, i) : i \in ChangedPlaces(kind, b, h)} = {f[i] : i \in DOMAIN f}
      BY <2>1
    <2> QED  BY <2>2, <2>3, FiniteImage
  <1>3. IsFiniteSet({ArrivedAt(kind, b, h, i) : i \in Appeared(kind, b, h)})
    <2>1. PICK f : f = [i \in Appeared(kind, b, h) |-> ArrivedAt(kind, b, h, i)]
      OBVIOUS
    <2>2. IsFiniteSet(DOMAIN f)
      BY <1>1, <2>1, PlacesAreIndices, FS_Subset
    <2>3. {ArrivedAt(kind, b, h, i) : i \in Appeared(kind, b, h)} = {f[i] : i \in DOMAIN f}
      BY <2>1
    <2> QED  BY <2>2, <2>3, FiniteImage
  <1>4. IsFiniteSet({RemovedAt(b, i) : i \in RemovedPlaces(kind, b, h)})
    <2>1. PICK f : f = [i \in RemovedPlaces(kind, b, h) |-> RemovedAt(b, i)]
      OBVIOUS
    <2>2. IsFiniteSet(DOMAIN f)
      BY <1>1, <2>1, PlacesAreIndices, FS_Subset
    <2>3. {RemovedAt(b, i) : i \in RemovedPlaces(kind, b, h)} = {f[i] : i \in DOMAIN f}
      BY <2>1
    <2> QED  BY <2>2, <2>3, FiniteImage
  <1> QED  BY <1>2, <1>3, <1>4, ReportsByPlace, FS_Union

-----------------------------------------------------------------------------
(* Who comes before whom in a count.                                       *)

(* A report says at which place, and in which of the three ways, it is.    *)
IsAt(kind, b, h, r, m, i) ==
  /\ r.at = <<m, i>> /\ m \in {1, 2, 3}
  /\ m = 1 => i \in ChangedPlaces(kind, b, h) /\ r = ChangedAt(kind, b, h, i)
  /\ m = 2 => i \in Appeared(kind, b, h) /\ r = ArrivedAt(kind, b, h, i)
  /\ m = 3 => i \in RemovedPlaces(kind, b, h) /\ r = RemovedAt(b, i)

(* Every report has a place (delta).                                       *)
LEMMA ReportPlace ==
  ASSUME NEW kind, NEW b, NEW h, NEW r \in Delta(kind, b, h)
  PROVE  \E m, i : IsAt(kind, b, h, r, m, i)
  <1>1. CASE \E i \in ChangedPlaces(kind, b, h) : r = ChangedAt(kind, b, h, i)
    <2>1. PICK i \in ChangedPlaces(kind, b, h) : r = ChangedAt(kind, b, h, i)
      BY <1>1
    <2>2. ChangedAt(kind, b, h, i).at = <<1, i>>
      BY ReportFields
    <2>3. IsAt(kind, b, h, r, 1, i)
      BY <2>1, <2>2 DEF IsAt
    <2> QED  BY <2>3
  <1>2. CASE \E i \in Appeared(kind, b, h) : r = ArrivedAt(kind, b, h, i)
    <2>1. PICK i \in Appeared(kind, b, h) : r = ArrivedAt(kind, b, h, i)
      BY <1>2
    <2>2. ArrivedAt(kind, b, h, i).at = <<2, i>>
      BY ReportFields
    <2>3. IsAt(kind, b, h, r, 2, i)
      BY <2>1, <2>2 DEF IsAt
    <2> QED  BY <2>3
  <1>3. CASE \E i \in RemovedPlaces(kind, b, h) : r = RemovedAt(b, i)
    <2>1. PICK i \in RemovedPlaces(kind, b, h) : r = RemovedAt(b, i)
      BY <1>3
    <2>2. RemovedAt(b, i).at = <<3, i>>
      BY DEF RemovedAt, Report
    <2>3. IsAt(kind, b, h, r, 3, i)
      BY <2>1, <2>2 DEF IsAt
    <2> QED  BY <2>3
  <1> QED  BY <1>1, <1>2, <1>3, ReportIs

(* Places are pairs of numbers.                                            *)
LEMMA PlaceOf ==
  ASSUME NEW kind, NEW b, NEW h, Shaped(kind, b), Shaped(kind, h), NEW r \in Delta(kind, b, h)
  PROVE  \E m \in Nat, i \in Nat : r.at = <<m, i>>
  <1>1. DOMAIN b \subseteq Nat /\ DOMAIN h \subseteq Nat
    BY ShapedFinite
  <1>2. PICK m, i : IsAt(kind, b, h, r, m, i)
    BY ReportPlace
  <1>3. r.at = <<m, i>> /\ m \in Nat /\ (i \in DOMAIN h \/ i \in DOMAIN b)
    BY <1>2, PlacesAreIndices DEF IsAt
  <1> QED  BY <1>1, <1>3

(* Two reports of one place are one.                                       *)
LEMMA OneReportPerPlace ==
  ASSUME NEW kind, NEW b, NEW h, NEW r \in Delta(kind, b, h), NEW s \in Delta(kind, b, h),
         r.at = s.at
  PROVE  r = s
  <1>1. PICK m, i : IsAt(kind, b, h, r, m, i)
    BY ReportPlace
  <1>2. PICK n, j : IsAt(kind, b, h, s, n, j)
    BY ReportPlace
  <1>3. m = n /\ i = j
    <2>1. r.at = <<m, i>> /\ s.at = <<n, j>>
      BY <1>1, <1>2, Zenon DEF IsAt
    <2>2. <<m, i>> = <<n, j>>
      BY <2>1
    <2> QED  BY <2>2
  <1> QED  BY <1>1, <1>2, <1>3 DEF IsAt

(* Pairs of numbers are ordered one way or the other.                      *)
LEMMA BelowOrders ==
  ASSUME NEW k \in Nat, NEW l \in Nat, NEW m \in Nat, NEW n \in Nat
  PROVE  /\ <<k, l>> = <<m, n>> \/ Below(<<k, l>>, <<m, n>>) \/ Below(<<m, n>>, <<k, l>>)
         /\ ~ (Below(<<k, l>>, <<m, n>>) /\ Below(<<m, n>>, <<k, l>>))
         /\ ~ Below(<<k, l>>, <<k, l>>)
  BY DEF Below

(* And what is below the one that is below is below.                       *)
LEMMA BelowIsTransitive ==
  ASSUME NEW k \in Nat, NEW l \in Nat, NEW m \in Nat, NEW n \in Nat, NEW x \in Nat, NEW y \in Nat,
         Below(<<k, l>>, <<m, n>>), Below(<<m, n>>, <<x, y>>)
  PROVE  Below(<<k, l>>, <<x, y>>)
  BY DEF Below

(* The report at the lower place of two alike is counted fewer.            *)
LEMMA LowerCountsFewer ==
  ASSUME NEW kind, NEW b, NEW h, Shaped(kind, b), Shaped(kind, h),
         NEW r \in Delta(kind, b, h), NEW s \in Delta(kind, b, h),
         r.rule = s.rule, r.package.name = s.package.name, Below(r.at, s.at)
  PROVE  Occurrence(Delta(kind, b, h), r) # Occurrence(Delta(kind, b, h), s)
  <1>1. PICK D : D = Delta(kind, b, h)
    OBVIOUS
  <1> DEFINE Before(x) == {q \in D : /\ q.rule = x.rule
                                    /\ q.package.name = x.package.name
                                    /\ Below(q.at, x.at)}
  <1>2. IsFiniteSet(D)
    BY <1>1, ReportsFinite
  <1>3. ASSUME NEW q \in D, Below(q.at, r.at)  PROVE Below(q.at, s.at)
    <2>1. PICK k \in Nat, l \in Nat : q.at = <<k, l>>
      BY <1>1, PlaceOf
    <2>2. PICK m \in Nat, n \in Nat : r.at = <<m, n>>
      BY PlaceOf
    <2>3. PICK x \in Nat, y \in Nat : s.at = <<x, y>>
      BY PlaceOf
    <2> QED  BY <1>3, <2>1, <2>2, <2>3, BelowIsTransitive
  <1>4. Before(r) \subseteq Before(s)
    BY <1>3
  <1>5. ~ Below(r.at, r.at)
    BY PlaceOf, BelowOrders
  <1>6. r \in Before(s) /\ r \notin Before(r)
    BY <1>1, <1>5
  <1>7. IsFiniteSet(Before(s))
    BY <1>2, FS_Subset
  <1>8. Cardinality(Before(r)) # Cardinality(Before(s))
    <2> HIDE DEF Before
    <2> QED  BY <1>4, <1>6, <1>7, CountsDiffer
  <1> QED  BY <1>1, <1>8 DEF Occurrence

(* So the count tells reports apart that are alike in rule and name        *)
(* (finding, lockfile/mod.rs).                                             *)
LEMMA OccurrenceTellsApart ==
  ASSUME NEW kind, NEW b, NEW h, Shaped(kind, b), Shaped(kind, h),
         NEW r \in Delta(kind, b, h), NEW s \in Delta(kind, b, h),
         r.rule = s.rule, r.package.name = s.package.name,
         Occurrence(Delta(kind, b, h), r) = Occurrence(Delta(kind, b, h), s)
  PROVE  r = s
  <1>1. PICK k \in Nat, l \in Nat : r.at = <<k, l>>
    BY PlaceOf
  <1>2. PICK m \in Nat, n \in Nat : s.at = <<m, n>>
    BY PlaceOf
  <1>3. r.at = s.at \/ Below(r.at, s.at) \/ Below(s.at, r.at)
    BY <1>1, <1>2, BelowOrders
  <1> QED  BY <1>3, LowerCountsFewer, OneReportPerPlace

-----------------------------------------------------------------------------
(* What is told of every package.                                          *)

(* What a report at a place says.                                          *)
LEMMA ReportSays ==
  ASSUME NEW kind, NEW b, NEW h, NEW r, NEW m, NEW i, IsAt(kind, b, h, r, m, i)
  PROVE  /\ m = 1 => r.package = h[i] /\ r.movement \in {"none", "Added"}
         /\ m = 2 => /\ r.package = h[i]
                     /\ r.movement = IF Departures(b, h, h[i].name) = {} THEN "Added"
                                     ELSE Movement(b, Departures(b, h, h[i].name), h[i])
         /\ m = 3 => r.package = b[i] /\ r.movement = "Removed"
  <1>1. ASSUME m = 1  PROVE r.package = h[i] /\ r.movement \in {"none", "Added"}
    BY <1>1 DEF IsAt, ChangedAt, Report
  <1>2. ASSUME m = 2
        PROVE  /\ r.package = h[i]
               /\ r.movement = IF Departures(b, h, h[i].name) = {} THEN "Added"
                               ELSE Movement(b, Departures(b, h, h[i].name), h[i])
    <2>1. PICK rule : rule = ArrivalRule(kind, b, Departures(b, h, h[i].name), h[i])
      OBVIOUS
    <2>2. PICK movement : movement = IF Departures(b, h, h[i].name) = {} THEN "Added"
                                     ELSE Movement(b, Departures(b, h, h[i].name), h[i])
      OBVIOUS
    <2>3. r = Report(rule, h[i], movement, <<2, i>>)
      BY <1>2, <2>1, <2>2, Zenon DEF IsAt, ArrivedAt
    <2>4. r.package = h[i] /\ r.movement = movement
      BY <2>3 DEF Report
    <2> QED  BY <2>2, <2>4
  <1>3. ASSUME m = 3  PROVE r.package = b[i] /\ r.movement = "Removed"
    BY <1>3 DEF IsAt, RemovedAt, Report
  <1> QED  BY <1>1, <1>2, <1>3

(* A place where something is told has its report.                         *)
LEMMA ToldPlaces ==
  ASSUME NEW kind, NEW b, NEW h, NEW i
  PROVE  /\ i \in ChangedPlaces(kind, b, h) =>
              /\ ChangedAt(kind, b, h, i) \in Delta(kind, b, h)
              /\ IsAt(kind, b, h, ChangedAt(kind, b, h, i), 1, i)
         /\ i \in Appeared(kind, b, h) =>
              /\ ArrivedAt(kind, b, h, i) \in Delta(kind, b, h)
              /\ IsAt(kind, b, h, ArrivedAt(kind, b, h, i), 2, i)
         /\ i \in RemovedPlaces(kind, b, h) =>
              /\ RemovedAt(b, i) \in Delta(kind, b, h)
              /\ IsAt(kind, b, h, RemovedAt(b, i), 3, i)
  <1>1. ASSUME i \in ChangedPlaces(kind, b, h)
        PROVE  /\ ChangedAt(kind, b, h, i) \in Delta(kind, b, h)
               /\ IsAt(kind, b, h, ChangedAt(kind, b, h, i), 1, i)
    <2>1. ChangedAt(kind, b, h, i).at = <<1, i>>
      BY ReportFields
    <2> QED  BY <1>1, <2>1, ReportsByPlace DEF IsAt
  <1>2. ASSUME i \in Appeared(kind, b, h)
        PROVE  /\ ArrivedAt(kind, b, h, i) \in Delta(kind, b, h)
               /\ IsAt(kind, b, h, ArrivedAt(kind, b, h, i), 2, i)
    <2>1. ArrivedAt(kind, b, h, i).at = <<2, i>>
      BY ReportFields
    <2> QED  BY <1>2, <2>1, ReportsByPlace DEF IsAt
  <1>3. ASSUME i \in RemovedPlaces(kind, b, h)
        PROVE  /\ RemovedAt(b, i) \in Delta(kind, b, h)
               /\ IsAt(kind, b, h, RemovedAt(b, i), 3, i)
    <2>1. RemovedAt(b, i).at = <<3, i>>
      BY DEF RemovedAt, Report
    <2> QED  BY <1>3, <2>1, ReportsByPlace DEF IsAt
  <1> QED  BY <1>1, <1>2, <1>3

(* Of what is locked once, the one kept is the one there is.               *)
LEMMA KeptOnce ==
  ASSUME NEW b, DOMAIN b \subseteq Nat, NamedOnce(b), NEW i \in DOMAIN b
  PROVE  Kept(b, Key(b[i])) = b[i]
  <1>1. {j \in DOMAIN b : Key(b[j]) = Key(b[i])} = {i}
    BY DEF NamedOnce
  <1>2. Max({i}) = i
    BY MaxOfOne
  <1> QED  BY <1>1, <1>2, Zenon DEF Kept

(* What the first pass makes of a package (delta).                         *)
LEMMA RuleOf ==
  ASSUME NEW kind, NEW b, NEW h, Shaped(kind, b), Shaped(kind, h), NamedOnce(b), NEW i \in DOMAIN h
  PROVE  /\ h[i] \in LinesOf(b) => RuleFor(kind, b, h[i]) = "same"
         /\ h[i] \notin LinesOf(b) /\ Key(h[i]) \in Keys(b) =>
              RuleFor(kind, b, h[i]) \in {"source-changed", "integrity-changed"}
         /\ Key(h[i]) \notin Keys(b) =>
              RuleFor(kind, b, h[i]) = IF Ordinary(kind, h[i].origin) THEN "appeared"
                                       ELSE "unregistered-dependency-added"
  <1>1. DOMAIN b \subseteq Nat
    BY ShapedFinite
  <1>2. ASSUME NEW j \in DOMAIN b, Key(b[j]) = Key(h[i])
        PROVE  RuleFor(kind, b, h[i]) =
                 IF b[j].source # h[i].source THEN "source-changed"
                 ELSE IF b[j].integrity # h[i].integrity THEN "integrity-changed" ELSE "same"
    <2>1. Key(h[i]) \in Keys(b)
      BY <1>2 DEF Keys
    <2>2. Kept(b, Key(h[i])) = b[j]
      BY <1>1, <1>2, KeptOnce
    <2> QED  BY <2>1, <2>2 DEF RuleFor
  <1>3. ASSUME h[i] \in LinesOf(b)  PROVE RuleFor(kind, b, h[i]) = "same"
    <2>1. PICK j \in DOMAIN b : b[j] = h[i]
      BY <1>3 DEF LinesOf
    <2> QED  BY <1>2, <2>1
  <1>4. ASSUME h[i] \notin LinesOf(b), Key(h[i]) \in Keys(b)
        PROVE  RuleFor(kind, b, h[i]) \in {"source-changed", "integrity-changed"}
    <2>1. PICK j \in DOMAIN b : Key(b[j]) = Key(h[i])
      BY <1>4 DEF Keys
    <2>2. ~ (b[j].source = h[i].source /\ b[j].integrity = h[i].integrity)
      <3>1. b[j] # h[i]
        BY <1>4 DEF LinesOf
      <3> QED  BY <2>1, <3>1, SamePackage
    <2> QED  BY <1>2, <2>1, <2>2
  <1>5. ASSUME Key(h[i]) \notin Keys(b)
        PROVE  RuleFor(kind, b, h[i]) = IF Ordinary(kind, h[i].origin) THEN "appeared"
                                        ELSE "unregistered-dependency-added"
    BY <1>5 DEF RuleFor
  <1> QED  BY <1>3, <1>4, <1>5

(* A package at the head that was there is not told of, any other once.    *)
LEMMA ArrivalsToldOnce ==
  ASSUME NEW kind, NEW b, NEW h, Shaped(kind, b), Shaped(kind, h), NamedOnce(b), NamedOnce(h),
         NEW package \in LinesOf(h)
  PROVE  Cardinality({r \in Delta(kind, b, h) : r.package = package})
           = IF package \in LinesOf(b) THEN 0 ELSE 1
  <1>1. PICK i \in DOMAIN h : h[i] = package
    BY DEF LinesOf
  <1>2. ASSUME NEW r \in Delta(kind, b, h), r.package = package
        PROVE  \/ i \in ChangedPlaces(kind, b, h) /\ r = ChangedAt(kind, b, h, i)
               \/ i \in Appeared(kind, b, h) /\ r = ArrivedAt(kind, b, h, i)
    <2>1. PICK m, j : IsAt(kind, b, h, r, m, j)
      BY ReportPlace
    <2>2. CASE m = 1
      <3>1. j \in ChangedPlaces(kind, b, h) /\ r = ChangedAt(kind, b, h, j)
        BY <2>1, <2>2 DEF IsAt
      <3>2. r.package = h[j]
        BY <2>1, <2>2, ReportSays
      <3>3. j = i
        BY <1>1, <1>2, <3>1, <3>2, PlacesAreIndices DEF NamedOnce
      <3> QED  BY <3>1, <3>3
    <2>3. CASE m = 2
      <3>1. j \in Appeared(kind, b, h) /\ r = ArrivedAt(kind, b, h, j)
        BY <2>1, <2>3 DEF IsAt
      <3>2. r.package = h[j]
        BY <2>1, <2>3, ReportSays
      <3>3. j = i
        BY <1>1, <1>2, <3>1, <3>2, PlacesAreIndices DEF NamedOnce
      <3> QED  BY <3>1, <3>3
    <2>4. CASE m = 3
      <3>1. j \in RemovedPlaces(kind, b, h)
        BY <2>1, <2>4 DEF IsAt
      <3>2. r.package = b[j]
        BY <2>1, <2>4, ReportSays
      <3>3. b[j] = h[i]
        BY <1>1, <1>2, <3>2
      <3>4. Key(b[j]) \notin Keys(h)
        BY <3>1 DEF RemovedPlaces, Vanished
      <3> QED  BY <3>3, <3>4 DEF Keys
    <2> QED  BY <2>1, <2>2, <2>3, <2>4 DEF IsAt
  <1> DEFINE Tells == {r \in Delta(kind, b, h) : r.package = package}
  <1>3. CASE package \in LinesOf(b)
    <2>1. i \notin ChangedPlaces(kind, b, h) /\ i \notin Appeared(kind, b, h)
      BY <1>1, <1>3, RuleOf DEF ChangedPlaces, Appeared
    <2>2. Tells = {}
      BY <1>2, <2>1
    <2> QED  BY <1>3, <2>2, FS_EmptySet
  <1>4. CASE package \notin LinesOf(b)
    <2>1. PICK r \in Delta(kind, b, h) :
            /\ r.package = package
            /\ \/ r = ChangedAt(kind, b, h, i) /\ i \notin Appeared(kind, b, h)
               \/ r = ArrivedAt(kind, b, h, i) /\ i \notin ChangedPlaces(kind, b, h)
      <3>1. CASE RuleFor(kind, b, h[i]) = "appeared"
        <4>1. i \in Appeared(kind, b, h) /\ i \notin ChangedPlaces(kind, b, h)
          BY <3>1 DEF Appeared, ChangedPlaces
        <4>2. ArrivedAt(kind, b, h, i) \in Delta(kind, b, h)
              /\ IsAt(kind, b, h, ArrivedAt(kind, b, h, i), 2, i)
          BY <4>1, ToldPlaces
        <4>3. ArrivedAt(kind, b, h, i).package = package
          BY <1>1, <4>2, ReportSays
        <4> QED  BY <4>1, <4>2, <4>3
      <3>2. CASE RuleFor(kind, b, h[i]) # "appeared"
        <4>1. RuleFor(kind, b, h[i]) # "same"
          BY <1>1, <1>4, RuleOf
        <4>2. i \in ChangedPlaces(kind, b, h) /\ i \notin Appeared(kind, b, h)
          BY <3>2, <4>1 DEF Appeared, ChangedPlaces
        <4>3. ChangedAt(kind, b, h, i) \in Delta(kind, b, h)
              /\ IsAt(kind, b, h, ChangedAt(kind, b, h, i), 1, i)
          BY <4>2, ToldPlaces
        <4>4. ChangedAt(kind, b, h, i).package = package
          BY <1>1, <4>3, ReportSays
        <4> QED  BY <4>2, <4>3, <4>4
      <3> QED  BY <3>1, <3>2
    <2>2. Tells = {r}
      BY <1>2, <2>1
    <2> QED  BY <1>4, <2>2, FS_Singleton
  <1> QED  BY <1>3, <1>4

-----------------------------------------------------------------------------
(* What went, and which way a name moved.                                  *)

(* A movement is one of three.                                             *)
LEMMA MovementIs ==
  ASSUME NEW b, NEW D, NEW p
  PROVE  Movement(b, D, p) \in {"Changed", "Upgraded", "Downgraded"}
  <1>1. PICK order : order = CompareVersions(b[Max(D)].version, p.version)
    OBVIOUS
  <1>2. CASE Cardinality(D) # 1
    BY <1>2, Zenon DEF Movement
  <1>3. CASE Cardinality(D) = 1
    <2>1. Movement(b, D, p) = CASE order = "less" -> "Upgraded"
                                [] order = "greater" -> "Downgraded"
                                [] OTHER -> "Changed"
      BY <1>1, <1>3, Zenon DEF Movement
    <2> QED  BY <2>1
  <1> QED  BY <1>2, <1>3

(* Who moved came second, to a name that lost something.                   *)
LEMMA MovedCameSecond ==
  ASSUME NEW kind, NEW b, NEW h, NEW r \in Delta(kind, b, h),
         r.movement \in {"Changed", "Upgraded", "Downgraded"}
  PROVE  \E i \in Appeared(kind, b, h) :
           /\ r.package = h[i] /\ Departures(b, h, h[i].name) # {}
           /\ r.movement = Movement(b, Departures(b, h, h[i].name), h[i])
  <1>1. PICK m, i : IsAt(kind, b, h, r, m, i)
    BY ReportPlace
  <1>2. m # 1
    <2>1. SUFFICES ASSUME m = 1  PROVE FALSE
      OBVIOUS
    <2>2. r.movement \in {"none", "Added"}
      BY <1>1, <2>1, ReportSays
    <2> QED  BY <2>2
  <1>3. m # 3
    <2>1. SUFFICES ASSUME m = 3  PROVE FALSE
      OBVIOUS
    <2>2. r.movement = "Removed"
      BY <1>1, <2>1, ReportSays
    <2> QED  BY <2>2
  <1>4. m = 2 /\ i \in Appeared(kind, b, h)
    BY <1>1, <1>2, <1>3 DEF IsAt
  <1>5. r.package = h[i]
    BY <1>1, <1>4, ReportSays
  <1>6. r.movement = IF Departures(b, h, h[i].name) = {} THEN "Added"
                     ELSE Movement(b, Departures(b, h, h[i].name), h[i])
    BY <1>1, <1>4, ReportSays
  <1>7. Departures(b, h, h[i].name) # {}
    BY <1>6
  <1> QED  BY <1>4, <1>5, <1>6, <1>7

(* The reports say that the package went, or what its name moved to, never *)
(* both.                                                                   *)
WentOrMoved(R, package) ==
  (\E r \in {s \in R : s.package = package} : r.movement = "Removed")
    # ({r \in R : /\ r.package.name = package.name
                  /\ r.movement \in {"Upgraded", "Downgraded", "Changed"}} # {})

(* So they say of every package of the base whose key is gone (delta).     *)
LEMMA DeparturesToldOnce ==
  ASSUME NEW kind, NEW b, NEW h, NamedOnce(b), NEW package \in LinesOf(b), Key(package) \notin Keys(h)
  PROVE  WentOrMoved(Delta(kind, b, h), package)
  <1>1. PICK i \in DOMAIN b : b[i] = package
    BY DEF LinesOf
  <1>2. i \in Vanished(b, h)
    BY <1>1 DEF Vanished
  <1> DEFINE Gone == \E r \in Delta(kind, b, h) : r.package = package /\ r.movement = "Removed"
             Moved == \E r \in Delta(kind, b, h) :
                        /\ r.package.name = package.name
                        /\ r.movement \in {"Upgraded", "Downgraded", "Changed"}
  <1>3. CASE i \in RemovedPlaces(kind, b, h)
    <2>1. RemovedAt(b, i) \in Delta(kind, b, h) /\ IsAt(kind, b, h, RemovedAt(b, i), 3, i)
      BY <1>3, ToldPlaces
    <2>2. RemovedAt(b, i).package = b[i] /\ RemovedAt(b, i).movement = "Removed"
      BY DEF RemovedAt, Report
    <2>3. Gone
      BY <1>1, <2>1, <2>2
    <2>4. ~Moved
      <3>1. SUFFICES ASSUME NEW r \in Delta(kind, b, h), r.package.name = package.name,
                            r.movement \in {"Upgraded", "Downgraded", "Changed"}
                     PROVE  FALSE
        OBVIOUS
      <3>2. PICK j \in Appeared(kind, b, h) : r.package = h[j]
        BY <3>1, MovedCameSecond
      <3> QED  BY <1>1, <1>3, <3>1, <3>2 DEF RemovedPlaces
    <2> QED  BY <2>3, <2>4 DEF WentOrMoved
  <1>4. CASE i \notin RemovedPlaces(kind, b, h)
    <2>1. PICK k \in Appeared(kind, b, h) : h[k].name = b[i].name
      BY <1>2, <1>4 DEF RemovedPlaces
    <2>2. ArrivedAt(kind, b, h, k) \in Delta(kind, b, h) /\ IsAt(kind, b, h, ArrivedAt(kind, b, h, k), 2, k)
      BY ToldPlaces
    <2>3. PICK r : r = ArrivedAt(kind, b, h, k)
      OBVIOUS
    <2>4. PICK D : D = Departures(b, h, h[k].name)
      OBVIOUS
    <2>5. D # {}
      BY <1>2, <2>1, <2>4 DEF Departures
    <2>6. r.package = h[k]
      BY <2>2, <2>3, ReportSays
    <2>7. r.movement = Movement(b, D, h[k])
      <3>1. IsAt(kind, b, h, r, 2, k)
        BY <2>2, <2>3
      <3>2. r.movement = IF D = {} THEN "Added" ELSE Movement(b, D, h[k])
        BY <2>4, <3>1, ReportSays
      <3> QED  BY <2>5, <3>2
    <2>8. Moved
      <3>1. r.movement \in {"Upgraded", "Downgraded", "Changed"}
        BY <2>7, MovementIs
      <3>2. r.package.name = package.name
        BY <1>1, <2>1, <2>6
      <3> QED  BY <2>2, <2>3, <3>1, <3>2
    <2>9. ~Gone
      <3>1. SUFFICES ASSUME NEW s \in Delta(kind, b, h), s.package = package, s.movement = "Removed"
                     PROVE  FALSE
        OBVIOUS
      <3>2. PICK m, j : IsAt(kind, b, h, s, m, j)
        BY ReportPlace
      <3>3. CASE m = 1
        <4>1. s.movement \in {"none", "Added"}
          BY <3>2, <3>3, ReportSays
        <4> QED  BY <3>1, <4>1
      <3>4. CASE m = 2
        <4>1. s.movement = IF Departures(b, h, h[j].name) = {} THEN "Added"
                           ELSE Movement(b, Departures(b, h, h[j].name), h[j])
          BY <3>2, <3>4, ReportSays
        <4>2. s.movement \in {"Added", "Changed", "Upgraded", "Downgraded"}
          BY <4>1, MovementIs
        <4> QED  BY <3>1, <4>2
      <3>5. CASE m = 3
        <4>1. s.package = b[j]
          BY <3>2, <3>5, ReportSays
        <4>2. j \in RemovedPlaces(kind, b, h)
          BY <3>2, <3>5 DEF IsAt
        <4>3. j = i
          BY <1>1, <3>1, <4>1, <4>2, PlacesAreIndices DEF NamedOnce
        <4> QED  BY <1>4, <4>2, <4>3
      <3> QED  BY <3>2, <3>3, <3>4, <3>5 DEF IsAt
    <2> QED  BY <2>8, <2>9 DEF WentOrMoved
  <1> QED  BY <1>3, <1>4

(* What is told of is a package of the one revision or the other.          *)
LEMMA OnlyLockedTold ==
  ASSUME NEW kind, NEW b, NEW h, NEW r \in Delta(kind, b, h)
  PROVE  r.package \in LinesOf(b) \cup LinesOf(h)
  <1>1. PICK m, i : IsAt(kind, b, h, r, m, i)
    BY ReportPlace
  <1>2. CASE m = 1
    <2>1. r.package = h[i]
      BY <1>1, <1>2, ReportSays
    <2>2. i \in ChangedPlaces(kind, b, h)
      BY <1>1, <1>2 DEF IsAt
    <2> QED  BY <2>1, <2>2, PlacesAreIndices DEF LinesOf
  <1>3. CASE m = 2
    <2>1. r.package = h[i]
      BY <1>1, <1>3, ReportSays
    <2>2. i \in Appeared(kind, b, h)
      BY <1>1, <1>3 DEF IsAt
    <2> QED  BY <2>1, <2>2, PlacesAreIndices DEF LinesOf
  <1>4. CASE m = 3
    <2>1. r.package = b[i]
      BY <1>1, <1>4, ReportSays
    <2>2. i \in RemovedPlaces(kind, b, h)
      BY <1>1, <1>4 DEF IsAt
    <2> QED  BY <2>1, <2>2, PlacesAreIndices DEF LinesOf
  <1> QED  BY <1>1, <1>2, <1>3, <1>4 DEF IsAt

(* The order seen from the other side.                                     *)
Turned(order) == CASE order = "less" -> "greater" [] order = "greater" -> "less" [] OTHER -> order

Identifiers == Seq({0, 1} \X Nat)

(* Numbers and pairs of numbers are compared alike from either side.       *)
LEMMA OrderTurns ==
  ASSUME NEW l \in Nat, NEW r \in Nat
  PROVE  OrderOf(r, l) = Turned(OrderOf(l, r))
  BY DEF OrderOf, Turned

(* So are identifiers (compare_versions).                                  *)
LEMMA IdentifiersTurn ==
  ASSUME NEW l \in Identifiers, NEW r \in Identifiers
  PROVE  CompareIdentifiers(r, l) = Turned(CompareIdentifiers(l, r))
  <1>1. PICK both : both = 1 .. Min({Len(l), Len(r)})
    OBVIOUS
  <1>2. both = 1 .. Min({Len(r), Len(l)})
    <2>1. {Len(l), Len(r)} = {Len(r), Len(l)}
      OBVIOUS
    <2> QED  BY <1>1, <2>1
  <1>3. PICK D : D = {k \in both : l[k] # r[k]}
    OBVIOUS
  <1>4. D = {k \in both : r[k] # l[k]}
    BY <1>3
  <1>5. Len(l) \in Nat /\ Len(r) \in Nat
    BY DEF Identifiers
  <1>6. CompareIdentifiers(l, r) = IF D = {} THEN OrderOf(Len(l), Len(r))
                                   ELSE IF Below(l[Min(D)], r[Min(D)]) THEN "less" ELSE "greater"
    BY <1>1, <1>3, Zenon DEF CompareIdentifiers
  <1>7. CompareIdentifiers(r, l) = IF D = {} THEN OrderOf(Len(r), Len(l))
                                   ELSE IF Below(r[Min(D)], l[Min(D)]) THEN "less" ELSE "greater"
    BY <1>2, <1>4, Zenon DEF CompareIdentifiers
  <1>8. CASE D = {}
    BY <1>5, <1>6, <1>7, <1>8, OrderTurns
  <1>9. CASE D # {}
    <2>1. {Len(l), Len(r)} \in SUBSET Nat /\ {Len(l), Len(r)} # {}
      BY <1>5
    <2>2. PICK n \in Nat : n = Min({Len(l), Len(r)}) /\ n <= Len(l) /\ n <= Len(r)
      BY <2>1, LeastOf
    <2>3. D \in SUBSET Nat
      BY <1>1, <1>3, <2>2
    <2>4. PICK m \in D : m = Min(D)
      BY <1>9, <2>3, LeastOf
    <2>5. m \in 1 .. Len(l) /\ m \in 1 .. Len(r) /\ l[m] # r[m]
      BY <1>1, <1>3, <1>5, <2>2
    <2>6. l[m] \in {0, 1} \X Nat /\ r[m] \in {0, 1} \X Nat
      BY <2>5 DEF Identifiers
    <2>7. Below(r[m], l[m]) <=> ~Below(l[m], r[m])
      BY <2>5, <2>6 DEF Below
    <2> QED  BY <1>6, <1>7, <1>9, <2>4, <2>7 DEF Turned
  <1> QED  BY <1>8, <1>9

(* So are versions.                                                        *)
LEMMA VersionsTurn ==
  ASSUME NEW l \in Version, NEW r \in Version
  PROVE  CompareVersions(r, l) = Turned(CompareVersions(l, r))
  <1>1. /\ l.core \in Identifiers /\ r.core \in Identifiers
        /\ l.pre \in Identifiers /\ r.pre \in Identifiers
    BY DEF Version, Identifiers
  <1>2. CompareIdentifiers(r.core, l.core) = Turned(CompareIdentifiers(l.core, r.core))
    BY <1>1, IdentifiersTurn
  <1>3. CompareIdentifiers(r.pre, l.pre) = Turned(CompareIdentifiers(l.pre, r.pre))
    BY <1>1, IdentifiersTurn
  <1>4. ComparePreReleases(r.pre, l.pre) = Turned(ComparePreReleases(l.pre, r.pre))
    BY <1>3 DEF ComparePreReleases, Turned
  <1>5. CompareIdentifiers(r.core, l.core) = "equal" <=> CompareIdentifiers(l.core, r.core) = "equal"
    BY <1>2 DEF Turned
  <1>6. CASE l.core[1][1] = 1 \/ r.core[1][1] = 1
    BY <1>6 DEF CompareVersions, Turned
  <1>7. CASE ~ (l.core[1][1] = 1 \/ r.core[1][1] = 1)
    BY <1>2, <1>4, <1>5, <1>7 DEF CompareVersions
  <1> QED  BY <1>6, <1>7

(* Of one package of a name, and one that went, it is the one.             *)
LEMMA TheOneOfName ==
  ASSUME NEW b, NEW name, OnePackage(b, name), IsFiniteSet(DOMAIN b),
         NEW i \in DOMAIN b, b[i].name = name, NEW h, i \in Vanished(b, h)
  PROVE  Departures(b, h, name) = {i}
  <1>1. PICK S : S = {j \in DOMAIN b : b[j].name = name}
    OBVIOUS
  <1>2. IsFiniteSet(S) /\ Cardinality(S) = 1
    BY <1>1, FS_Subset DEF OnePackage
  <1>3. PICK x : S = {x}
    BY <1>2, FS_Singleton
  <1>4. S = {i}
    BY <1>1, <1>3
  <1>5. Departures(b, h, name) \subseteq S
    BY <1>1 DEF Departures, Vanished
  <1>6. i \in Departures(b, h, name)
    BY DEF Departures
  <1> QED  BY <1>4, <1>5, <1>6

(* What moved from one version to one is told the other way round by the   *)
(* change the other way.                                                   *)
LEMMA MovesBack ==
  ASSUME NEW kind, NEW b, NEW h, Shaped(kind, b), Shaped(kind, h),
         NEW r \in Delta(kind, b, h), r.movement \in {"Upgraded", "Downgraded"},
         OnePackage(b, r.package.name), OnePackage(h, r.package.name),
         \A x \in LinesOf(b) : x.name = r.package.name => Ordinary(kind, x.origin)
  PROVE  \E back \in Delta(kind, h, b) :
           /\ back.package.name = r.package.name
           /\ {back.movement, r.movement} = {"Upgraded", "Downgraded"}
  <1>1. PICK i \in Appeared(kind, b, h) :
          /\ r.package = h[i] /\ Departures(b, h, h[i].name) # {}
          /\ r.movement = Movement(b, Departures(b, h, h[i].name), h[i])
    BY MovedCameSecond
  <1>2. PICK n : n = r.package.name
    OBVIOUS
  <1>3. h[i].name = n /\ i \in DOMAIN h
    BY <1>1, <1>2 DEF Appeared
  <1>4. PICK j : j \in Departures(b, h, n)
    BY <1>1, <1>3
  <1>5. j \in Vanished(b, h) /\ j \in DOMAIN b /\ b[j].name = n /\ Key(b[j]) \notin Keys(h)
    BY <1>4 DEF Departures, Vanished
  <1>6. DOMAIN b \subseteq Nat /\ IsFiniteSet(DOMAIN b) /\ DOMAIN h \subseteq Nat /\ IsFiniteSet(DOMAIN h)
    BY ShapedFinite
  <1>7. Departures(b, h, n) = {j}
    BY <1>2, <1>5, <1>6, TheOneOfName
  <1>8. Key(h[i]) \notin Keys(b)
    <2>1. Appeared(kind, b, h) \subseteq DOMAIN h /\ RuleFor(kind, b, h[i]) = "appeared"
      BY DEF Appeared
    <2> QED  BY <2>1 DEF RuleFor
  <1>9. i \in Vanished(h, b)
    BY <1>3, <1>8 DEF Vanished
  <1>10. Departures(h, b, n) = {i}
    BY <1>2, <1>3, <1>6, <1>9, TheOneOfName
  <1>11. j \in Appeared(kind, h, b)
    <2>1. Ordinary(kind, b[j].origin)
      BY <1>2, <1>5 DEF LinesOf
    <2>2. RuleFor(kind, h, b[j]) = "appeared"
      BY <1>5, <2>1 DEF RuleFor
    <2> QED  BY <1>5, <2>2 DEF Appeared
  <1>12. PICK back \in Delta(kind, h, b) : IsAt(kind, h, b, back, 2, j)
    BY <1>11, ToldPlaces
  <1>13. back.package = b[j]
    BY <1>12, ReportSays
  <1>14. back.movement = Movement(h, {i}, b[j])
    <2>1. back.movement = IF Departures(h, b, b[j].name) = {} THEN "Added"
                          ELSE Movement(h, Departures(h, b, b[j].name), b[j])
      BY <1>12, ReportSays
    <2> QED  BY <1>5, <1>10, <2>1
  <1>15. r.movement = Movement(b, {j}, h[i])
    BY <1>1, <1>3, <1>7
  <1>16. PICK there : there = CompareVersions(b[j].version, h[i].version)
    OBVIOUS
  <1>17. PICK here : here = CompareVersions(h[i].version, b[j].version)
    OBVIOUS
  <1>18. r.movement = CASE there = "less" -> "Upgraded" [] there = "greater" -> "Downgraded" [] OTHER -> "Changed"
    <2>1. Max({j}) = j /\ Cardinality({j}) = 1
      BY <1>5, <1>6, MaxOfOne, FS_Singleton
    <2> QED  BY <1>15, <1>16, <2>1, Zenon DEF Movement
  <1>19. back.movement = CASE here = "less" -> "Upgraded" [] here = "greater" -> "Downgraded" [] OTHER -> "Changed"
    <2>1. Max({i}) = i /\ Cardinality({i}) = 1
      BY <1>3, <1>6, MaxOfOne, FS_Singleton
    <2> QED  BY <1>14, <1>17, <2>1, Zenon DEF Movement
  <1>20. here = Turned(there)
    <2>1. b[j].version \in Version
      <3>1. PICK e : b[j] = LockedPackage(kind, e) /\ e.version \in Version
        BY <1>5 DEF Shaped
      <3> QED  BY <3>1 DEF LockedPackage
    <2>2. h[i].version \in Version
      <3>1. PICK e : h[i] = LockedPackage(kind, e) /\ e.version \in Version
        BY <1>3 DEF Shaped
      <3> QED  BY <3>1 DEF LockedPackage
    <2> QED  BY <1>16, <1>17, <2>1, <2>2, VersionsTurn
  <1>21. {back.movement, r.movement} = {"Upgraded", "Downgraded"}
    BY <1>18, <1>19, <1>20 DEF Turned
  <1> QED  BY <1>2, <1>5, <1>12, <1>13, <1>21

(* What is accounted for, of two revisions and the reports about them.     *)
Accounts(kind, b, h, R) ==
  /\ \A package \in LinesOf(h) :
       Cardinality({r \in R : r.package = package}) = IF package \in LinesOf(b) THEN 0 ELSE 1
  /\ \A package \in {x \in LinesOf(b) : Key(x) \notin Keys(h)} :
       WentOrMoved(R, package)
  /\ \A r \in R : r.package \in LinesOf(b) \cup LinesOf(h)
  /\ \A r \in R :
       r.movement \in {"Upgraded", "Downgraded"}
         /\ OnePackage(b, r.package.name)
         /\ OnePackage(h, r.package.name)
         /\ (\A x \in LinesOf(b) : x.name = r.package.name => Ordinary(kind, x.origin))
       => \E back \in Delta(kind, h, b) :
            /\ back.package.name = r.package.name
            /\ {back.movement, r.movement} = {"Upgraded", "Downgraded"}

(* The delta accounts for every package (delta, compare_versions).         *)
LEMMA DeltaAccounts ==
  ASSUME NEW kind, NEW b, NEW h, Shaped(kind, b), Shaped(kind, h), NamedOnce(b), NamedOnce(h)
  PROVE  Accounts(kind, b, h, Delta(kind, b, h))
  <1>1. ASSUME NEW package \in LinesOf(h)
        PROVE  Cardinality({r \in Delta(kind, b, h) : r.package = package})
                 = IF package \in LinesOf(b) THEN 0 ELSE 1
    BY ArrivalsToldOnce
  <1>2. ASSUME NEW package \in LinesOf(b), Key(package) \notin Keys(h)
        PROVE  WentOrMoved(Delta(kind, b, h), package)
    BY <1>2, DeparturesToldOnce
  <1>3. ASSUME NEW r \in Delta(kind, b, h)  PROVE r.package \in LinesOf(b) \cup LinesOf(h)
    BY OnlyLockedTold
  <1>4. ASSUME NEW r \in Delta(kind, b, h), r.movement \in {"Upgraded", "Downgraded"},
               OnePackage(b, r.package.name), OnePackage(h, r.package.name),
               \A x \in LinesOf(b) : x.name = r.package.name => Ordinary(kind, x.origin)
        PROVE  \E back \in Delta(kind, h, b) :
                 /\ back.package.name = r.package.name
                 /\ {back.movement, r.movement} = {"Upgraded", "Downgraded"}
    BY <1>4, MovesBack
  <1> QED  BY <1>1, <1>2, <1>3, <1>4, Zenon DEF Accounts

-----------------------------------------------------------------------------
(* The inductive invariant.                                                *)

(* The trees hold what their paths may, the forge has answered what it     *)
(* may.                                                                    *)
TreesInv ==
  /\ DOMAIN base = Path /\ DOMAIN head = Path
  /\ \A p \in Path : base[p] \in Contents(p) \cup {Absent}
  /\ \A p \in Path : head[p] \in Contents(p) \cup {Absent}
ToldInv == told = [is |-> "not_configured"] \/ told \in Told

(* The runs there are, are of the trees and the answer there are: what     *)
(* changes one of these forgets them.                                      *)
RunsInv == runs = NoRuns \/ (told.is # "limited" /\ runs = [a \in Analyzer |-> Evaluate(a)])

AnalyzersIInv == TreesInv /\ ToldInv /\ RunsInv

(* Init establishes it and every step keeps it (runner.rs).                *)
LEMMA AnalyzersInductive == Spec => []AnalyzersIInv
  <1>1. Init => AnalyzersIInv
    <2>1. Init => TreesInv
      BY DEF Init, TreesInv
    <2>2. Init => ToldInv /\ RunsInv
      BY DEF Init, ToldInv, RunsInv
    <2> QED  BY <2>1, <2>2 DEF AnalyzersIInv
  <1>2. AnalyzersIInv /\ [Next]_vars => AnalyzersIInv'
    <2> SUFFICES ASSUME AnalyzersIInv, [Next]_vars  PROVE AnalyzersIInv'
      OBVIOUS
    <2> USE DEF AnalyzersIInv
    <2>1. ASSUME NEW p \in Path, NEW file \in Contents(p) \cup {Absent}, Push(p, file)
          PROVE  AnalyzersIInv'
      <3>1. TreesInv'
        BY <2>1 DEF Push, TreesInv
      <3>2. ToldInv'
        BY <2>1 DEF Push, ToldInv
      <3>3. RunsInv'
        BY <2>1 DEF Push, RunsInv, NoRuns, Failed
      <3> QED  BY <3>1, <3>2, <3>3
    <2>2. CASE Merge
      <3>1. TreesInv'
        BY <2>2 DEF Merge, TreesInv
      <3>2. ToldInv'
        BY <2>2 DEF Merge, ToldInv
      <3>3. RunsInv'
        BY <2>2 DEF Merge, RunsInv, NoRuns, Failed
      <3> QED  BY <3>1, <3>2, <3>3
    <2>3. ASSUME NEW answer \in Told, Answer(answer)  PROVE AnalyzersIInv'
      <3>1. TreesInv'
        BY <2>3 DEF Answer, TreesInv
      <3>2. ToldInv'
        BY <2>3 DEF Answer, ToldInv
      <3>3. RunsInv'
        BY <2>3 DEF Answer, RunsInv, NoRuns, Failed
      <3> QED  BY <3>1, <3>2, <3>3
    <2>4. ASSUME UNCHANGED <<base, head, told>>
          PROVE  \A a : Evaluate(a)' = Evaluate(a)
      BY <2>4 DEF Evaluate, LockfileRun, ManifestRun, SecretRun, LinksRun, WorkflowRun, ControlsRun,
           CheckRunsRun, HygieneRun, LockfilePaths, ComparedLockfiles, ManifestPaths, SecretPaths,
           WorkflowPaths, ControlPaths, ChangedFiles, Deleted
    <2>5. CASE Analyse
      <3>1. TreesInv'
        BY <2>5 DEF Analyse, TreesInv
      <3>2. ToldInv'
        BY <2>5 DEF Analyse, ToldInv
      <3>3. RunsInv'
        BY <2>4, <2>5 DEF Analyse, RunsInv
      <3> QED  BY <3>1, <3>2, <3>3
    <2>6. CASE UNCHANGED vars
      <3>1. TreesInv'
        BY <2>6 DEF vars, TreesInv
      <3>2. ToldInv'
        BY <2>6 DEF vars, ToldInv
      <3>3. RunsInv'
        BY <2>4, <2>6 DEF vars, RunsInv, NoRuns, Failed
      <3> QED  BY <3>1, <3>2, <3>3
    <2> QED  BY <2>1, <2>2, <2>3, <2>5, <2>6 DEF Next
  <1> QED  BY <1>1, <1>2, PTL DEF Spec

(* A path that was not there has nothing in it.                            *)
LEMMA AbsentIs == Absent.is = "absent" /\ Absent.lines = <<>>
  BY DEF Absent

(* The lines of a file are a sequence.                                     *)
LEMMA LinesAreSeq ==
  ASSUME NEW p \in Path, NEW tree, tree[p] \in Contents(p) \cup {Absent}
  PROVE  /\ \E n \in Nat : DOMAIN LinesAt(tree, p) = 1 .. n
         /\ \A i \in DOMAIN LinesAt(tree, p) :
              /\ LinesAt(tree, p)[i].urls \in Seq(LinesOf(LinesAt(tree, p)[i].urls))
              /\ LinesAt(tree, p)[i].states.is = "locks" => LinesAt(tree, p)[i].states.version \in Version
  <1>1. PICK ls : ls = LinesAt(tree, p)
    OBVIOUS
  <1>2. ls = <<>> \/ (ls = tree[p].lines /\ tree[p] \in Contents(p))
    BY <1>1, AbsentIs DEF LinesAt, FileAt
  <1>3. CASE ls = <<>>
    BY <1>1, <1>3
  <1>4. CASE ls = tree[p].lines /\ tree[p] \in Contents(p)
    <2>1. PICK f \in Contents(p) : f = tree[p]
      BY <1>4
    <2>2. ls \in Seq(LinesOf(ls))
      BY <1>4, <2>1, AnalyzersAssumption
    <2>3. Len(ls) \in Nat /\ DOMAIN ls = 1 .. Len(ls)
      BY <2>2
    <2>4. \A l \in LinesOf(ls) :
            /\ l.urls \in Seq(LinesOf(l.urls))
            /\ l.states.is = "locks" => l.states.version \in Version
      BY <1>4, <2>1, AnalyzersAssumption
    <2>5. \A i \in DOMAIN ls : ls[i] \in LinesOf(ls)
      BY DEF LinesOf
    <2> QED  BY <1>1, <2>3, <2>4, <2>5
  <1> QED  BY <1>2, <1>3, <1>4

(* What a lockfile's lines lock is shaped as delta takes it.               *)
LEMMA LockedIsShaped ==
  ASSUME NEW p \in Path, NEW tree, tree[p] \in Contents(p) \cup {Absent}
  PROVE  Shaped(KindOf(p), LockedAt(tree, p))
  <1>1. PICK ls : ls = LinesAt(tree, p)
    OBVIOUS
  <1>2. PICK kind : kind = KindOf(p)
    OBVIOUS
  <1>3. PICK n \in Nat : DOMAIN ls = 1 .. n
    BY <1>1, LinesAreSeq
  <1>4. \A i \in DOMAIN ls : ls[i].states.is = "locks" => ls[i].states.version \in Version
    BY <1>1, LinesAreSeq
  <1>5. PICK es : es = States(ls, "locks")
    OBVIOUS
  <1>6. DOMAIN es \subseteq DOMAIN ls /\ \A i \in DOMAIN es : es[i].version \in Version
    BY <1>4, <1>5 DEF States
  <1>7. PICK s : s = Packages(kind, es)
    OBVIOUS
  <1>8. DOMAIN s \subseteq DOMAIN es /\ \A i \in DOMAIN s : s[i] = LockedPackage(kind, es[i])
    BY <1>7 DEF Packages
  <1>9. DOMAIN s \subseteq 1 .. n
    BY <1>3, <1>6, <1>8
  <1>10. \A i \in DOMAIN s : \E e : s[i] = LockedPackage(kind, e) /\ e.version \in Version
    BY <1>6, <1>8
  <1>11. Shaped(kind, s)
    BY <1>9, <1>10 DEF Shaped
  <1> QED  BY <1>1, <1>2, <1>5, <1>7, <1>11 DEF LockedAt

(* Where there are runs, they are what the analyzers make of the range.    *)
LEMMA RunsAreEvaluated ==
  ASSUME AnalyzersIInv, runs # NoRuns
  PROVE  told.is # "limited" /\ \A a \in Analyzer : runs[a] = Evaluate(a)
  BY DEF AnalyzersIInv, RunsInv

(* What a run holds.                                                       *)
LEMMA RunFields ==
  /\ \A findings, signal : /\ Succeeded(findings, signal).status = "succeeded"
                           /\ Succeeded(findings, signal).findings = findings
                           /\ Succeeded(findings, signal).signal = signal
  /\ Failed.status = "failed" /\ Failed.findings = {}
  /\ Skipped.status = "skipped" /\ Skipped.findings = {}
  BY DEF Succeeded, Failed, Skipped

(* The run of the lockfiles.                                               *)
LEMMA LockfileRunIs ==
  ASSUME AnalyzersIInv, Done("lockfile-delta")
  PROVE  /\ runs["lockfile-delta"].findings =
              UNION {Findings(p, KindOf(p), LockedAt(base, p), LockedAt(head, p)) : p \in ComparedLockfiles}
         /\ \A p \in ComparedLockfiles : ParsedAt(base, p) /\ ParsedAt(head, p)
  <1>1. runs # NoRuns /\ "lockfile-delta" \in Analyzer
    BY DEF Done, Analyzer
  <1>2. runs["lockfile-delta"] = LockfileRun
    <2>1. runs["lockfile-delta"] = Evaluate("lockfile-delta")
      BY <1>1, RunsAreEvaluated
    <2> QED  BY <2>1 DEF Evaluate
  <1>3. LockfileRun.status = "succeeded"
    BY <1>2 DEF Done
  <1> QED  BY <1>2, <1>3, RunFields DEF LockfileRun

(* Its reports of one lockfile are the delta of that lockfile.             *)
LEMMA ReportsAreDelta ==
  ASSUME AnalyzersIInv, Done("lockfile-delta"), NEW p \in ComparedLockfiles
  PROVE  ReportsAt(p) = Delta(KindOf(p), LockedAt(base, p), LockedAt(head, p))
  <1> DEFINE Of(q) == Findings(q, KindOf(q), LockedAt(base, q), LockedAt(head, q))
             D == Delta(KindOf(p), LockedAt(base, p), LockedAt(head, p))
  <1>1. ASSUME NEW q, NEW g \in Of(q)  PROVE g.path = q
    BY DEF Findings
  <1>2. {g.report : g \in Of(p)} = D
    <2>1. ASSUME NEW kind, NEW b, NEW h
          PROVE  {g.report : g \in Findings(p, kind, b, h)} = Delta(kind, b, h)
      <3>1. ASSUME NEW g \in Findings(p, kind, b, h)  PROVE g.report \in Delta(kind, b, h)
        BY DEF Findings
      <3>2. ASSUME NEW r \in Delta(kind, b, h)  PROVE \E g \in Findings(p, kind, b, h) : g.report = r
        <4>1. PICK g : g = [fingerprint |-> <<r.rule, PackageLocation(p, kind, r.package), TitleOf(r),
                                              Occurrence(Delta(kind, b, h), r)>>,
                            path |-> p, report |-> r]
          OBVIOUS
        <4>2. g \in Findings(p, kind, b, h)
          BY <4>1, Zenon DEF Findings
        <4>3. g.report = r
          BY <4>1
        <4> QED  BY <4>2, <4>3
      <3> QED  BY <3>1, <3>2
    <2> QED  BY <2>1
  <1>3. runs["lockfile-delta"].findings = UNION {Of(q) : q \in ComparedLockfiles}
    BY LockfileRunIs
  <1> HIDE DEF Of, D
  <1>4. {g \in runs["lockfile-delta"].findings : g.path = p} = Of(p)
    BY <1>1, <1>3
  <1>5. ReportsAt(p) = {g.report : g \in Of(p)}
    BY <1>4, Zenon DEF ReportsAt
  <1> QED  BY <1>2, <1>5 DEF D

(* Every package that came, went or changed is told of exactly once, and   *)
(* no other, and what moved up one way moved down the other (delta and     *)
(* compare_versions, lockfile/mod.rs).                                     *)
THEOREM EveryPackageAlwaysAccountedFor == Spec => []EveryPackageAccountedFor
  <1>1. ASSUME AnalyzersIInv  PROVE EveryPackageAccountedFor
    <2>1. SUFFICES ASSUME Done("lockfile-delta"), NEW p \in {q \in ComparedLockfiles : NamedOnceAt(q)}
                   PROVE  Accounts(KindOf(p), LockedAt(base, p), LockedAt(head, p), ReportsAt(p))
      BY Zenon DEF EveryPackageAccountedFor, Accounts, WentOrMoved
    <2>2. p \in Path /\ base[p] \in Contents(p) \cup {Absent} /\ head[p] \in Contents(p) \cup {Absent}
      BY <1>1, <2>1 DEF AnalyzersIInv, TreesInv, ComparedLockfiles, LockfilePaths, ChangedFiles
    <2>3. Shaped(KindOf(p), LockedAt(base, p)) /\ Shaped(KindOf(p), LockedAt(head, p))
      BY <2>2, LockedIsShaped
    <2>4. NamedOnce(LockedAt(base, p)) /\ NamedOnce(LockedAt(head, p))
      BY <2>1 DEF NamedOnceAt
    <2>5. Accounts(KindOf(p), LockedAt(base, p), LockedAt(head, p),
                   Delta(KindOf(p), LockedAt(base, p), LockedAt(head, p)))
      BY <2>3, <2>4, DeltaAccounts
    <2> QED  BY <1>1, <2>1, <2>5, ReportsAreDelta
  <1> QED  BY <1>1, AnalyzersInductive, PTL

-----------------------------------------------------------------------------
(* No two findings are one issue.                                          *)

(* A fingerprint is of one finding of these.                               *)
Distinct(S) == \A f, g \in S : f.fingerprint = g.fingerprint => f = g

(* Findings say their path, in the fingerprint and beside it.              *)
Located(S, p) == \A f \in S : f.path = p /\ f.fingerprint[2].path = p

(* Where each file's findings are located and distinct, they all are.      *)
LEMMA DistinctByPath ==
  ASSUME NEW P, NEW of, \A p \in P : Located(of[p], p) /\ Distinct(of[p])
  PROVE  Distinct(UNION {of[p] : p \in P})
  <1> SUFFICES ASSUME NEW p \in P, NEW q \in P, NEW f \in of[p], NEW g \in of[q],
                      f.fingerprint = g.fingerprint
               PROVE  f = g
    BY DEF Distinct
  <1>1. p = q
    BY DEF Located
  <1> QED  BY <1>1 DEF Distinct

(* Of one lockfile (finding, lockfile/mod.rs).                             *)
LEMMA LockfileDistinct ==
  ASSUME NEW path, NEW kind, NEW b, NEW h, Shaped(kind, b), Shaped(kind, h)
  PROVE  Located(Findings(path, kind, b, h), path) /\ Distinct(Findings(path, kind, b, h))
  <1>1. PICK D : D = Delta(kind, b, h)
    OBVIOUS
  <1> DEFINE F(r) == [fingerprint |-> <<r.rule, PackageLocation(path, kind, r.package), TitleOf(r),
                                        Occurrence(D, r)>>,
                      path |-> path, report |-> r]
  <1>2. Findings(path, kind, b, h) = {F(r) : r \in D}
    BY <1>1 DEF Findings
  <1>3. ASSUME NEW r
        PROVE  /\ F(r).fingerprint[1] = r.rule
               /\ F(r).fingerprint[2].path = path /\ F(r).fingerprint[2].name = r.package.name
               /\ F(r).fingerprint[4] = Occurrence(D, r)
               /\ F(r).path = path
    BY DEF PackageLocation
  <1>4. ASSUME NEW r \in D, NEW s \in D, F(r).fingerprint = F(s).fingerprint  PROVE r = s
    <2>1. /\ r.rule = s.rule /\ r.package.name = s.package.name
          /\ Occurrence(D, r) = Occurrence(D, s)
      <3> HIDE DEF F
      <3> QED  BY <1>3, <1>4
    <2> QED  BY <1>1, <2>1, OccurrenceTellsApart
  <1> HIDE DEF F
  <1>5. ASSUME NEW f \in {F(r) : r \in D}, NEW g \in {F(r) : r \in D}, f.fingerprint = g.fingerprint
        PROVE  f = g
    BY <1>4, <1>5
  <1> QED  BY <1>2, <1>3, <1>5 DEF Located, Distinct

(* Of one manifest (manifest_delta.rs).                                    *)
LEMMA ManifestDistinct ==
  ASSUME NEW path, NEW b, NEW h
  PROVE  Located(ManifestDelta(path, b, h), path) /\ Distinct(ManifestDelta(path, b, h))
  <1>1. ASSUME NEW f \in ManifestDelta(path, b, h)
        PROVE  \E a, n : f = [fingerprint |-> <<a, [path |-> path, ecosystem |-> ManifestEcosystem(path),
                                                    name |-> n], <<n>>, 0>>, path |-> path]
    BY DEF ManifestDelta
  <1>2. ASSUME NEW f \in ManifestDelta(path, b, h)
        PROVE  /\ f.path = path /\ f.fingerprint[2].path = path
               /\ f = [fingerprint |-> f.fingerprint, path |-> path]
    BY <1>1
  <1> QED  BY <1>2 DEF Located, Distinct

(* Of one file that controls (repository_controls.rs).                     *)
LEMMA ControlsDistinct ==
  ASSUME NEW path, NEW same
  PROVE  Located(ControlReport(path, same), path) /\ Distinct(ControlReport(path, same))
  <1>1. ASSUME NEW f \in ControlReport(path, same)
        PROVE  f = [fingerprint |-> <<ControlKind(path), [path |-> path], <<>>, 0>>, path |-> path]
    BY DEF ControlReport
  <1>2. ASSUME NEW f \in ControlReport(path, same)
        PROVE  f.path = path /\ f.fingerprint[2].path = path
    BY <1>1
  <1> QED  BY <1>1, <1>2 DEF Located, Distinct

(* Where an observation is, among those of its rule.                       *)
Placed(o) ==
  \/ o.rule = "unsafe-untrusted-checkout" /\ \E i, t \in Nat : o.at = <<3, i, t>>
  \/ o.rule # "unsafe-untrusted-checkout" /\ \E c, i \in Nat : o.at = <<c, i>>

(* Every observation of a text is placed.                                  *)
LEMMA ObservationsPlaced ==
  ASSUME NEW ls, DOMAIN ls \subseteq Nat, NEW o \in Observations(ls)
  PROVE  Placed(o)
  <1>1. CASE o \in UnpinnedActions(ls)
    <2>1. PICK i \in DOMAIN ls :
            o = [rule |-> "unpinned-action", identity |-> <<ls[i].states.action, ls[i].states.revision>>,
                 at |-> <<1, i>>]
      BY <1>1 DEF UnpinnedActions, Indices
    <2>2. i \in Nat /\ o.rule = "unpinned-action" /\ o.at = <<1, i>>
      BY <2>1
    <2> QED  BY <2>2 DEF Placed
  <1>2. CASE o \in PermissionWidenings(ls)
    <2>1. PICK i \in DOMAIN ls :
            o = [rule |-> "permission-widening", identity |-> <<ls[i].states.scope, ls[i].states.value>>,
                 at |-> <<2, i>>]
      BY <1>2 DEF PermissionWidenings, Indices
    <2>2. i \in Nat /\ o.rule = "permission-widening" /\ o.at = <<2, i>>
      BY <2>1
    <2> QED  BY <2>2 DEF Placed
  <1>3. CASE o \in UnsafeUntrustedCheckouts(ls)
    <2>1. PICK i \in DOMAIN ls, t \in DOMAIN ls :
            o = [rule |-> "unsafe-untrusted-checkout",
                 identity |-> <<ls[t].states.event, ls[HeadRef(ls, i)].states.ref>>, at |-> <<3, i, t>>]
      BY <1>3 DEF UnsafeUntrustedCheckouts, Indices
    <2>2. i \in Nat /\ t \in Nat /\ o.rule = "unsafe-untrusted-checkout" /\ o.at = <<3, i, t>>
      BY <2>1
    <2> QED  BY <2>2 DEF Placed
  <1>4. CASE o \in ShellPipes(ls)
    <2>1. PICK i \in DOMAIN ls :
            o = [rule |-> "shell-pipe", identity |-> <<ls[i].states.command>>, at |-> <<4, i>>]
      BY <1>4 DEF ShellPipes, Indices
    <2>2. i \in Nat /\ o.rule = "shell-pipe" /\ o.at = <<4, i>>
      BY <2>1
    <2> QED  BY <2>2 DEF Placed
  <1> QED  BY <1>1, <1>2, <1>3, <1>4 DEF Observations

(* Earlier orders pairs and triples of numbers.                            *)
LEMMA EarlierPair ==
  ASSUME NEW a \in Nat, NEW b \in Nat, NEW c \in Nat, NEW d \in Nat
  PROVE  Earlier(<<a, b>>, <<c, d>>) <=> (a < c \/ (a = c /\ b < d))
  <1>1. DOMAIN <<a, b>> = {1, 2} /\ 1 .. 1 - 1 = {} /\ 1 .. 2 - 1 = {1}
    OBVIOUS
  <1>2. /\ <<a, b>>[1] = a /\ <<a, b>>[2] = b
        /\ <<c, d>>[1] = c /\ <<c, d>>[2] = d
    OBVIOUS
  <1> QED  BY <1>1, <1>2 DEF Earlier

(* Triples of one beginning.                                               *)
LEMMA EarlierTriple ==
  ASSUME NEW a \in Nat, NEW b \in Nat, NEW c \in Nat, NEW d \in Nat, NEW m \in Nat
  PROVE  Earlier(<<m, a, b>>, <<m, c, d>>) <=> (a < c \/ (a = c /\ b < d))
  <1>1. DOMAIN <<m, a, b>> = {1, 2, 3} /\ 1 .. 1 - 1 = {} /\ 1 .. 2 - 1 = {1} /\ 1 .. 3 - 1 = {1, 2}
    OBVIOUS
  <1>2. /\ <<m, a, b>>[1] = m /\ <<m, a, b>>[2] = a /\ <<m, a, b>>[3] = b
        /\ <<m, c, d>>[1] = m /\ <<m, c, d>>[2] = c /\ <<m, c, d>>[3] = d
    OBVIOUS
  <1> QED  BY <1>1, <1>2 DEF Earlier

(* Observations of one rule are at one place, or one of them is earlier    *)
(* and follows nothing the other does not.                                 *)
LEMMA PlacedOrders ==
  ASSUME NEW o, NEW p, NEW q, Placed(o), Placed(p), Placed(q), o.rule = p.rule, q.rule = o.rule
  PROVE  /\ o.at = p.at \/ Earlier(o.at, p.at) \/ Earlier(p.at, o.at)
         /\ ~ Earlier(o.at, o.at)
         /\ Earlier(q.at, o.at) /\ Earlier(o.at, p.at) => Earlier(q.at, p.at)
  <1>1. CASE o.rule = "unsafe-untrusted-checkout"
    <2>1. PICK i \in Nat, t \in Nat : o.at = <<3, i, t>>
      BY <1>1 DEF Placed
    <2>2. PICK j \in Nat, u \in Nat : p.at = <<3, j, u>>
      BY <1>1 DEF Placed
    <2>3. PICK k \in Nat, v \in Nat : q.at = <<3, k, v>>
      BY <1>1 DEF Placed
    <2>4. Earlier(o.at, p.at) <=> (i < j \/ (i = j /\ t < u))
      BY <2>1, <2>2, EarlierTriple
    <2>5. Earlier(p.at, o.at) <=> (j < i \/ (j = i /\ u < t))
      BY <2>1, <2>2, EarlierTriple
    <2>6. Earlier(q.at, o.at) <=> (k < i \/ (k = i /\ v < t))
      BY <2>1, <2>3, EarlierTriple
    <2>7. Earlier(q.at, p.at) <=> (k < j \/ (k = j /\ v < u))
      BY <2>2, <2>3, EarlierTriple
    <2>8. Earlier(o.at, o.at) <=> (i < i \/ (i = i /\ t < t))
      BY <2>1, EarlierTriple
    <2>9. i = j /\ t = u => o.at = p.at
      BY <2>1, <2>2
    <2> QED  BY <2>4, <2>5, <2>6, <2>7, <2>8, <2>9
  <1>2. CASE o.rule # "unsafe-untrusted-checkout"
    <2>1. PICK i \in Nat, t \in Nat : o.at = <<i, t>>
      BY <1>2 DEF Placed
    <2>2. PICK j \in Nat, u \in Nat : p.at = <<j, u>>
      BY <1>2 DEF Placed
    <2>3. PICK k \in Nat, v \in Nat : q.at = <<k, v>>
      BY <1>2 DEF Placed
    <2>4. Earlier(o.at, p.at) <=> (i < j \/ (i = j /\ t < u))
      BY <2>1, <2>2, EarlierPair
    <2>5. Earlier(p.at, o.at) <=> (j < i \/ (j = i /\ u < t))
      BY <2>1, <2>2, EarlierPair
    <2>6. Earlier(q.at, o.at) <=> (k < i \/ (k = i /\ v < t))
      BY <2>1, <2>3, EarlierPair
    <2>7. Earlier(q.at, p.at) <=> (k < j \/ (k = j /\ v < u))
      BY <2>2, <2>3, EarlierPair
    <2>8. Earlier(o.at, o.at) <=> (i < i \/ (i = i /\ t < t))
      BY <2>1, EarlierPair
    <2>9. i = j /\ t = u => o.at = p.at
      BY <2>1, <2>2
    <2> QED  BY <2>4, <2>5, <2>6, <2>7, <2>8, <2>9
  <1> QED  BY <1>1, <1>2

(* A text has finitely many observations.                                  *)
LEMMA ObservationsFinite ==
  ASSUME NEW ls, IsFiniteSet(DOMAIN ls)
  PROVE  IsFiniteSet(Observations(ls))
  <1>1. IsFiniteSet(UnpinnedActions(ls))
    <2>1. PICK I : I = {j \in Indices(ls, "uses") : ls[j].states.revision \notin {"commit", "template"}}
      OBVIOUS
    <2>2. PICK f : f = [i \in I |->
             [rule |-> "unpinned-action", identity |-> <<ls[i].states.action, ls[i].states.revision>>,
              at |-> <<1, i>>]]
      OBVIOUS
    <2>3. IsFiniteSet(DOMAIN f)
      BY <2>1, <2>2, FS_Subset DEF Indices
    <2>4. UnpinnedActions(ls) = {f[i] : i \in DOMAIN f}
      BY <2>1, <2>2, Zenon DEF UnpinnedActions
    <2> QED  BY <2>3, <2>4, FiniteImage
  <1>2. IsFiniteSet(PermissionWidenings(ls))
    <2>1. PICK I : I = {j \in Indices(ls, "permission") : ls[j].states.value \in {"write", "write-all"}}
      OBVIOUS
    <2>2. PICK f : f = [i \in I |->
             [rule |-> "permission-widening", identity |-> <<ls[i].states.scope, ls[i].states.value>>,
              at |-> <<2, i>>]]
      OBVIOUS
    <2>3. IsFiniteSet(DOMAIN f)
      BY <2>1, <2>2, FS_Subset DEF Indices
    <2>4. PermissionWidenings(ls) = {f[i] : i \in DOMAIN f}
      BY <2>1, <2>2, Zenon DEF PermissionWidenings
    <2> QED  BY <2>3, <2>4, FiniteImage
  <1>3. IsFiniteSet(UnsafeUntrustedCheckouts(ls))
    <2>1. PICK f : f = [x \in (DOMAIN ls) \X (DOMAIN ls) |->
             [rule |-> "unsafe-untrusted-checkout",
              identity |-> <<ls[x[2]].states.event, ls[HeadRef(ls, x[1])].states.ref>>,
              at |-> <<3, x[1], x[2]>>]]
      OBVIOUS
    <2>2. IsFiniteSet((DOMAIN ls) \X (DOMAIN ls))
      BY FS_Product
    <2>3. IsFiniteSet(DOMAIN f)
      BY <2>1, <2>2
    <2>4. UnsafeUntrustedCheckouts(ls) \subseteq {f[x] : x \in DOMAIN f}
      <3>1. SUFFICES ASSUME NEW o \in UnsafeUntrustedCheckouts(ls)  PROVE \E x \in DOMAIN f : f[x] = o
        OBVIOUS
      <3>2. PICK i \in DOMAIN ls, t \in DOMAIN ls :
              o = [rule |-> "unsafe-untrusted-checkout",
                   identity |-> <<ls[t].states.event, ls[HeadRef(ls, i)].states.ref>>, at |-> <<3, i, t>>]
        BY <3>1 DEF UnsafeUntrustedCheckouts, Indices
      <3>3. PICK x : x = <<i, t>>
        OBVIOUS
      <3>4. f[x] = [rule |-> "unsafe-untrusted-checkout",
                    identity |-> <<ls[x[2]].states.event, ls[HeadRef(ls, x[1])].states.ref>>,
                    at |-> <<3, x[1], x[2]>>]
        <4>1. x \in (DOMAIN ls) \X (DOMAIN ls)
          BY <3>3
        <4> QED  BY <2>1, <4>1, Zenon
      <3>5. x[1] = i /\ x[2] = t /\ x \in DOMAIN f
        BY <2>1, <3>3
      <3>6. f[x] = o
        BY <3>2, <3>4, <3>5
      <3> QED  BY <3>5, <3>6
    <2>5. IsFiniteSet({f[x] : x \in DOMAIN f})
      BY <2>3, FiniteImage
    <2> QED  BY <2>4, <2>5, FS_Subset
  <1>4. IsFiniteSet(ShellPipes(ls))
    <2>1. PICK I : I = {j \in Indices(ls, "run") : ls[j].states.pipe}
      OBVIOUS
    <2>2. PICK f : f = [i \in I |->
             [rule |-> "shell-pipe", identity |-> <<ls[i].states.command>>, at |-> <<4, i>>]]
      OBVIOUS
    <2>3. IsFiniteSet(DOMAIN f)
      BY <2>1, <2>2, FS_Subset DEF Indices
    <2>4. ShellPipes(ls) = {f[i] : i \in DOMAIN f}
      BY <2>1, <2>2, Zenon DEF ShellPipes
    <2> QED  BY <2>3, <2>4, FiniteImage
  <1> QED  BY <1>1, <1>2, <1>3, <1>4, FS_Union DEF Observations

(* Those of a rule before an observation.                                  *)
Preceding(S, o) == {p \in S : p.rule = o.rule /\ Earlier(p.at, o.at)}

(* The later of two of a rule is preceded by more.                         *)
LEMMA LaterPrecededByMore ==
  ASSUME NEW S, IsFiniteSet(S), \A o \in S : Placed(o), NEW o \in S, NEW p \in S,
         o.rule = p.rule, Earlier(o.at, p.at)
  PROVE  Cardinality(Preceding(S, o)) # Cardinality(Preceding(S, p))
  <1>1. Preceding(S, o) \subseteq Preceding(S, p)
    <2>1. SUFFICES ASSUME NEW q \in S, q.rule = o.rule, Earlier(q.at, o.at)  PROVE Earlier(q.at, p.at)
      BY DEF Preceding
    <2> QED  BY <2>1, PlacedOrders
  <1>2. o \in Preceding(S, p)
    BY DEF Preceding
  <1>3. o \notin Preceding(S, o)
    BY PlacedOrders DEF Preceding
  <1>4. IsFiniteSet(Preceding(S, p))
    BY FS_Subset DEF Preceding
  <1> QED  BY <1>1, <1>2, <1>3, <1>4, CountsDiffer

(* Of one workflow (workflow_security).                                    *)
LEMMA WorkflowDistinct ==
  ASSUME NEW path, NEW b, NEW h, DOMAIN h \subseteq Nat, IsFiniteSet(DOMAIN h)
  PROVE  Located(WorkflowDelta(path, b, h), path) /\ Distinct(WorkflowDelta(path, b, h))
  <1>1. PICK new : new = {o \in Observations(h) :
                           ObservationKey(o) \notin {ObservationKey(q) : q \in Observations(b)}}
    OBVIOUS
  <1> DEFINE F(o) == [fingerprint |-> <<o.rule, [path |-> path], <<>>, Cardinality(Preceding(new, o))>>,
                      path |-> path, at |-> o.at]
  <1>2. WorkflowDelta(path, b, h) = {F(o) : o \in new}
    BY <1>1, Zenon DEF WorkflowDelta, Preceding
  <1>3. IsFiniteSet(new) /\ \A o \in new : Placed(o)
    BY <1>1, ObservationsFinite, ObservationsPlaced, FS_Subset
  <1>4. ASSUME NEW o
        PROVE  /\ F(o).fingerprint[1] = o.rule /\ F(o).fingerprint[2].path = path
               /\ F(o).fingerprint[4] = Cardinality(Preceding(new, o))
               /\ F(o).path = path /\ F(o).at = o.at
               /\ F(o) = [fingerprint |-> F(o).fingerprint, path |-> path, at |-> o.at]
    OBVIOUS
  <1> HIDE DEF F
  <1>5. ASSUME NEW o \in new, NEW p \in new, F(o).fingerprint = F(p).fingerprint  PROVE F(o) = F(p)
    <2>1. o.rule = p.rule /\ Cardinality(Preceding(new, o)) = Cardinality(Preceding(new, p))
      BY <1>4, <1>5
    <2>2. o.at = p.at \/ Earlier(o.at, p.at) \/ Earlier(p.at, o.at)
      BY <1>3, <2>1, PlacedOrders
    <2>3. o.at = p.at
      BY <1>3, <2>1, <2>2, LaterPrecededByMore
    <2> QED  BY <1>4, <1>5, <2>3
  <1>6. Located({F(o) : o \in new}, path)
    BY <1>4 DEF Located
  <1>7. Distinct({F(o) : o \in new})
    BY <1>5 DEF Distinct
  <1> QED  BY <1>2, <1>6, <1>7

(* Of a path of the trees.                                                 *)
LEMMA PathHas ==
  ASSUME AnalyzersIInv, NEW p \in Path
  PROVE  base[p] \in Contents(p) \cup {Absent} /\ head[p] \in Contents(p) \cup {Absent}
  BY DEF AnalyzersIInv, TreesInv

(* No findings are distinct.                                               *)
LEMMA NothingDistinct == Distinct({})
  BY DEF Distinct

(* Each analyzer's findings are distinct.                                  *)
LEMMA RunsDistinct ==
  ASSUME AnalyzersIInv
  PROVE  /\ Distinct(LockfileRun.findings) /\ Distinct(ManifestRun.findings)
         /\ Distinct(WorkflowRun.findings) /\ Distinct(ControlsRun.findings)
  <1>1. Distinct(LockfileRun.findings)
    <2>1. PICK of : of = [p \in ComparedLockfiles |-> Findings(p, KindOf(p), LockedAt(base, p), LockedAt(head, p))]
      OBVIOUS
    <2>2. \A p \in ComparedLockfiles : Located(of[p], p) /\ Distinct(of[p])
      <3>1. SUFFICES ASSUME NEW p \in ComparedLockfiles  PROVE Located(of[p], p) /\ Distinct(of[p])
        OBVIOUS
      <3>2. p \in Path
        BY DEF ComparedLockfiles, LockfilePaths, ChangedFiles
      <3>3. base[p] \in Contents(p) \cup {Absent} /\ head[p] \in Contents(p) \cup {Absent}
        BY <3>2, PathHas
      <3>4. Shaped(KindOf(p), LockedAt(base, p)) /\ Shaped(KindOf(p), LockedAt(head, p))
        BY <3>2, <3>3, LockedIsShaped
      <3>5. of[p] = Findings(p, KindOf(p), LockedAt(base, p), LockedAt(head, p))
        BY <2>1
      <3> QED  BY <3>4, <3>5, LockfileDistinct
    <2>3. Distinct(UNION {of[p] : p \in ComparedLockfiles})
      BY <2>2, DistinctByPath
    <2>4. UNION {of[p] : p \in ComparedLockfiles} =
            UNION {Findings(p, KindOf(p), LockedAt(base, p), LockedAt(head, p)) : p \in ComparedLockfiles}
      BY <2>1
    <2> QED  BY <2>3, <2>4, RunFields, NothingDistinct DEF LockfileRun
  <1>2. Distinct(ManifestRun.findings)
    <2>1. PICK of : of = [p \in ManifestPaths |-> ManifestDelta(p, DeclaredAt(base, p), DeclaredAt(head, p))]
      OBVIOUS
    <2>2. \A p \in ManifestPaths : Located(of[p], p) /\ Distinct(of[p])
      BY <2>1, ManifestDistinct
    <2>3. Distinct(UNION {of[p] : p \in ManifestPaths})
      BY <2>2, DistinctByPath
    <2>4. UNION {of[p] : p \in ManifestPaths} =
            UNION {ManifestDelta(p, DeclaredAt(base, p), DeclaredAt(head, p)) : p \in ManifestPaths}
      BY <2>1
    <2> QED  BY <2>3, <2>4, RunFields, NothingDistinct DEF ManifestRun
  <1>3. Distinct(WorkflowRun.findings)
    <2>1. PICK of : of = [p \in WorkflowPaths |-> WorkflowDelta(p, LinesAt(base, p), LinesAt(head, p))]
      OBVIOUS
    <2>2. \A p \in WorkflowPaths : Located(of[p], p) /\ Distinct(of[p])
      <3>1. SUFFICES ASSUME NEW p \in WorkflowPaths  PROVE Located(of[p], p) /\ Distinct(of[p])
        OBVIOUS
      <3>2. p \in Path
        BY DEF WorkflowPaths, ChangedFiles
      <3>3. PICK n \in Nat : DOMAIN LinesAt(head, p) = 1 .. n
        BY <3>2, PathHas, LinesAreSeq
      <3>4. DOMAIN LinesAt(head, p) \subseteq Nat /\ IsFiniteSet(DOMAIN LinesAt(head, p))
        BY <3>3, FS_Interval
      <3>5. of[p] = WorkflowDelta(p, LinesAt(base, p), LinesAt(head, p))
        BY <2>1
      <3> QED  BY <3>4, <3>5, WorkflowDistinct
    <2>3. Distinct(UNION {of[p] : p \in WorkflowPaths})
      BY <2>2, DistinctByPath
    <2>4. UNION {of[p] : p \in WorkflowPaths} =
            UNION {WorkflowDelta(p, LinesAt(base, p), LinesAt(head, p)) : p \in WorkflowPaths}
      BY <2>1
    <2> QED  BY <2>3, <2>4, RunFields, NothingDistinct DEF WorkflowRun
  <1>4. Distinct(ControlsRun.findings)
    <2>1. PICK of : of = [p \in ControlPaths |-> ControlReport(p, TextAt(base, p) = TextAt(head, p))]
      OBVIOUS
    <2>2. \A p \in ControlPaths : Located(of[p], p) /\ Distinct(of[p])
      BY <2>1, ControlsDistinct
    <2>3. Distinct(UNION {of[p] : p \in ControlPaths})
      BY <2>2, DistinctByPath
    <2>4. UNION {of[p] : p \in ControlPaths} =
            UNION {ControlReport(p, TextAt(base, p) = TextAt(head, p)) : p \in ControlPaths}
      BY <2>1
    <2> QED  BY <2>3, <2>4, RunFields, NothingDistinct DEF ControlsRun
  <1> QED  BY <1>1, <1>2, <1>3, <1>4

(* What the forge has answered.                                            *)
LEMMA ToldIs ==
  ASSUME ToldInv
  PROVE  /\ told.is \in {"ready", "not_configured", "failed", "limited"}
         /\ told.is = "ready" => /\ told.forge \in DOMAIN Words
                                 /\ \A i \in DOMAIN told.checks : Says(told.forge, told.checks[i])
  <1>1. CASE told = [is |-> "not_configured"]
    <2>1. told.is = "not_configured"
      BY <1>1
    <2> QED  BY <2>1
  <1>2. CASE told \in Told
    <2>1. PICK t \in Told : t = told
      BY <1>2
    <2>2. /\ t.is \in {"ready", "not_configured", "failed", "limited"}
          /\ t.is = "ready" => t.forge \in DOMAIN Words /\ \A i \in DOMAIN t.checks : Says(t.forge, t.checks[i])
      BY AnalyzersAssumption
    <2> QED  BY <2>1, <2>2
  <1> QED  BY <1>1, <1>2 DEF ToldInv

(* The run of the forge's checks.                                          *)
LEMMA CheckRunsRunIs ==
  ASSUME ToldInv, told.is # "limited"
  PROVE  /\ told.is = "ready" =>
              CheckRunsRun = Succeeded({}, Classify(ReadChecks(told.forge, told.checks, App)))
         /\ told.is = "not_configured" => CheckRunsRun = Skipped
         /\ told.is = "failed" => CheckRunsRun = Failed
         /\ told.is \in {"ready", "not_configured", "failed"}
  BY ToldIs DEF CheckRunsRun

(* No two findings of one run are one issue, so that who settles the one   *)
(* has not settled the other unseen (fingerprint.rs, occurrence), where an *)
(* analyzer counts occurrences or names one thing once: the scan for       *)
(* secrets and the inventory of links do neither.                          *)
THEOREM NoIssueEverShared == Spec => []NoSharedIssue
  <1>1. ASSUME AnalyzersIInv  PROVE NoSharedIssue
    <2>1. SUFFICES ASSUME NEW a \in Analyzer \ {"secret-scan", "link-inventory"}, runs # NoRuns
                   PROVE  Distinct(runs[a].findings)
      BY Zenon DEF NoSharedIssue, Distinct
    <2>2. runs[a] = Evaluate(a) /\ told.is # "limited"
      BY <1>1, <2>1, RunsAreEvaluated
    <2>3. CASE a \in {"lockfile-delta", "manifest-delta", "workflow-security", "repository-controls"}
      BY <1>1, <2>2, <2>3, RunsDistinct DEF Evaluate
    <2>4. CASE a = "ci-check-runs"
      <3>1. runs[a] = CheckRunsRun
        BY <2>2, <2>4 DEF Evaluate
      <3>2. CheckRunsRun.findings = {}
        BY <1>1, <2>2, CheckRunsRunIs, RunFields DEF AnalyzersIInv
      <3> QED  BY <3>1, <3>2, NothingDistinct
    <2>5. CASE a = "repository-hygiene"
      <3>1. runs[a] = HygieneRun
        BY <2>2, <2>5 DEF Evaluate
      <3>2. HygieneRun.findings = {}
        BY RunFields DEF HygieneRun
      <3> QED  BY <3>1, <3>2, NothingDistinct
    <2> QED  BY <2>1, <2>3, <2>4, <2>5 DEF Analyzer
  <1> QED  BY <1>1, AnalyzersInductive, PTL

-----------------------------------------------------------------------------
(* What silence means.                                                     *)

(* Every run succeeded, failed or was skipped.                             *)
LEMMA AnalyzersTypes ==
  ASSUME AnalyzersIInv
  PROVE  TypeOK
  <1>1. \A p \in Path : {base[p], head[p]} \subseteq Contents(p) \cup {Absent}
    BY PathHas
  <1>2. ASSUME runs # NoRuns, NEW a \in Analyzer
        PROVE  runs[a].status \in {"succeeded", "failed", "skipped"}
    <2>1. runs[a] = Evaluate(a) /\ told.is # "limited"
      BY <1>2, RunsAreEvaluated
    <2>2. \A run \in {LockfileRun, ManifestRun, SecretRun, LinksRun, WorkflowRun, ControlsRun, HygieneRun} :
            run.status \in {"succeeded", "failed"}
      <3>1. LockfileRun.status \in {"succeeded", "failed"}
        BY RunFields DEF LockfileRun
      <3>2. ManifestRun.status \in {"succeeded", "failed"}
        BY RunFields DEF ManifestRun
      <3>3. SecretRun.status \in {"succeeded", "failed"}
        BY RunFields, Zenon DEF SecretRun
      <3>4. LinksRun.status \in {"succeeded", "failed"}
        BY RunFields DEF LinksRun
      <3>5. WorkflowRun.status \in {"succeeded", "failed"}
        BY RunFields DEF WorkflowRun
      <3>6. ControlsRun.status \in {"succeeded", "failed"}
        BY RunFields DEF ControlsRun
      <3>7. HygieneRun.status \in {"succeeded", "failed"}
        BY RunFields DEF HygieneRun
      <3> QED  BY <3>1, <3>2, <3>3, <3>4, <3>5, <3>6, <3>7
    <2>3. CheckRunsRun.status \in {"succeeded", "failed", "skipped"}
      BY <2>1, CheckRunsRunIs, RunFields DEF AnalyzersIInv
    <2> QED  BY <2>1, <2>2, <2>3 DEF Evaluate, Analyzer
  <1> QED  BY <1>1, <1>2 DEF TypeOK, AnalyzersIInv, ToldInv

(* A lockfile of which nothing is told locks what it locked.               *)
LEMMA SilentDelta ==
  ASSUME NEW kind, NEW b, NEW h, Shaped(kind, b), Shaped(kind, h), NamedOnce(b), NamedOnce(h),
         Delta(kind, b, h) = {}
  PROVE  LinesOf(b) = LinesOf(h)
  <1>1. ASSUME NEW package \in LinesOf(h)  PROVE package \in LinesOf(b)
    <2>1. Cardinality({r \in Delta(kind, b, h) : r.package = package})
            = IF package \in LinesOf(b) THEN 0 ELSE 1
      BY ArrivalsToldOnce
    <2>2. {r \in Delta(kind, b, h) : r.package = package} = {}
      OBVIOUS
    <2> QED  BY <2>1, <2>2, FS_EmptySet
  <1>2. ASSUME NEW package \in LinesOf(b)  PROVE package \in LinesOf(h)
    <2>1. Key(package) \in Keys(h)
      <3>1. SUFFICES ASSUME Key(package) \notin Keys(h)  PROVE FALSE
        OBVIOUS
      <3>2. WentOrMoved(Delta(kind, b, h), package)
        BY <3>1, DeparturesToldOnce
      <3> QED  BY <3>2 DEF WentOrMoved
    <2>2. PICK j \in DOMAIN h : Key(h[j]) = Key(package)
      BY <2>1 DEF Keys
    <2>3. h[j] \in LinesOf(h)
      BY DEF LinesOf
    <2>4. h[j] \in LinesOf(b)
      BY <1>1, <2>3
    <2>5. PICK i \in DOMAIN b : b[i] = h[j]
      BY <2>4 DEF LinesOf
    <2>6. PICK k \in DOMAIN b : b[k] = package
      BY DEF LinesOf
    <2>7. i = k
      BY <2>2, <2>5, <2>6 DEF NamedOnce
    <2> QED  BY <2>3, <2>5, <2>6, <2>7
  <1> QED  BY <1>1, <1>2

(* What a file may be.                                                     *)
LEMMA FileIs ==
  ASSUME NEW p \in Path, NEW tree, tree[p] \in Contents(p) \cup {Absent}
  PROVE  tree[p].is \in {"absent", "text", "binary", "garbled", "other"}
  <1>1. CASE tree[p] \in Contents(p)
    <2>1. PICK f \in Contents(p) : f = tree[p]
      BY <1>1
    <2>2. f.is \in {"text", "binary", "garbled", "other"}
      BY AnalyzersAssumption
    <2> QED  BY <2>1, <2>2
  <1>2. CASE tree[p] = Absent
    BY <1>2, AbsentIs
  <1> QED  BY <1>1, <1>2

(* A silent run of the lockfiles (npm.rs, delta).                          *)
LEMMA SilentLockfiles ==
  ASSUME AnalyzersIInv, Done("lockfile-delta"), runs["lockfile-delta"].findings = {},
         NEW p \in Path, IsLockfile(p), FileAt(head, p) # "none", NamedOnceAt(p), base[p] # head[p]
  PROVE  /\ head[p].is = "text" /\ base[p].is \notin {"garbled", "binary"}
         /\ LinesOf(LockedAt(base, p)) = LinesOf(LockedAt(head, p))
  <1>1. p \in ComparedLockfiles
    BY DEF ComparedLockfiles, LockfilePaths, ChangedFiles, Deleted, FileAt
  <1>2. ParsedAt(base, p) /\ ParsedAt(head, p)
    BY <1>1, LockfileRunIs
  <1>3. head[p].is = "text" /\ base[p].is \notin {"garbled", "binary"}
    BY <1>2, PathHas, FileIs DEF ParsedAt, Garbled, Refused, FileAt
  <1>4. ReportsAt(p) = {}
    BY DEF ReportsAt
  <1>5. Delta(KindOf(p), LockedAt(base, p), LockedAt(head, p)) = {}
    BY <1>1, <1>4, ReportsAreDelta
  <1>6. Shaped(KindOf(p), LockedAt(base, p)) /\ Shaped(KindOf(p), LockedAt(head, p))
    BY PathHas, LockedIsShaped
  <1>7. NamedOnce(LockedAt(base, p)) /\ NamedOnce(LockedAt(head, p))
    BY DEF NamedOnceAt
  <1>8. LinesOf(LockedAt(base, p)) = LinesOf(LockedAt(head, p))
    BY <1>5, <1>6, <1>7, SilentDelta
  <1> QED  BY <1>3, <1>8

(* A silent run of the manifests (manifest_delta.rs).                      *)
LEMMA SilentManifests ==
  ASSUME AnalyzersIInv, Done("manifest-delta"), runs["manifest-delta"].findings = {},
         NEW p \in Path, IsManifest(p), base[p] # head[p]
  PROVE  /\ head[p].is # "garbled"
         /\ Declared(ManifestEcosystem(p), DeclaredAt(base, p))
              = Declared(ManifestEcosystem(p), DeclaredAt(head, p))
  <1>1. p \in ManifestPaths
    BY DEF ManifestPaths, ChangedFiles
  <1>2. runs["manifest-delta"] = ManifestRun
    <2>1. runs["manifest-delta"] = Evaluate("manifest-delta")
      BY RunsAreEvaluated DEF Done, Analyzer
    <2> QED  BY <2>1 DEF Evaluate
  <1>3. ManifestRun.status = "succeeded"
    BY <1>2 DEF Done
  <1>4. /\ \A q \in ManifestPaths : ParsedAt(base, q) /\ ParsedAt(head, q)
        /\ ManifestRun.findings = UNION {ManifestDelta(q, DeclaredAt(base, q), DeclaredAt(head, q)) : q \in ManifestPaths}
    BY <1>3, RunFields DEF ManifestRun
  <1>5. ManifestDelta(p, DeclaredAt(base, p), DeclaredAt(head, p)) = {}
    BY <1>1, <1>2, <1>4
  <1>6. head[p].is # "garbled"
    BY <1>1, <1>4 DEF ParsedAt, Garbled
  <1>7. PICK before : before = Declared(ManifestEcosystem(p), DeclaredAt(base, p))
    OBVIOUS
  <1>8. PICK after : after = Declared(ManifestEcosystem(p), DeclaredAt(head, p))
    OBVIOUS
  <1>9. PICK moved : moved = {n \in DOMAIN before \cup DOMAIN after :
                                n \in DOMAIN before /\ n \in DOMAIN after => before[n] # after[n]}
    OBVIOUS
  <1>10. moved = {}
    <2>1. SUFFICES ASSUME NEW n \in moved  PROVE FALSE
      OBVIOUS
    <2>2. [fingerprint |-> <<ManifestMovement(before, after, n),
                             [path |-> p, ecosystem |-> ManifestEcosystem(p), name |-> n], <<n>>, 0>>,
           path |-> p] \in ManifestDelta(p, DeclaredAt(base, p), DeclaredAt(head, p))
      BY <1>7, <1>8, <1>9, Zenon DEF ManifestDelta
    <2> QED  BY <1>5, <2>2
  <1>11. DOMAIN before = DOMAIN after /\ \A n \in DOMAIN before : before[n] = after[n]
    BY <1>9, <1>10
  <1>12. before = [n \in DOMAIN before |-> before[n]] /\ after = [n \in DOMAIN after |-> after[n]]
    BY <1>7, <1>8 DEF Declared
  <1>13. before = after
    BY <1>11, <1>12
  <1> QED  BY <1>6, <1>7, <1>8, <1>13

(* A silent scan for secrets (secret_scan.rs).                             *)
LEMMA SilentSecrets ==
  ASSUME AnalyzersIInv, Done("secret-scan"), runs["secret-scan"].findings = {},
         NEW p \in Path, head[p].is = "text",
         NEW l \in LinesOf(head[p].lines), SecretRule(l) # "none"
  PROVE  l \in LinesOf(base[p].lines)
  <1>1. CASE base[p] = head[p]
    BY <1>1
  <1>2. CASE base[p] # head[p]
    <2>1. p \in SecretPaths
      BY <1>2 DEF SecretPaths, ChangedFiles, FileAt
    <2>2. runs["secret-scan"] = SecretRun
      <3>1. runs["secret-scan"] = Evaluate("secret-scan")
        BY RunsAreEvaluated DEF Done, Analyzer
      <3> QED  BY <3>1 DEF Evaluate
    <2>3. SecretRun.status = "succeeded"
      BY <2>2 DEF Done
    <2>4. SecretRun # Failed
      BY <2>3, RunFields
    <2>5. \A q \in SecretPaths : FileAt(head, q) # "too-large"
      BY <2>4, Zenon DEF SecretRun
    <2>6. SecretRun = Succeeded(UNION {AddedSecrets(q, LinesAt(base, q), LinesAt(head, q)) : q \in SecretPaths}, 0)
      BY <2>4, Zenon DEF SecretRun
    <2>7. AddedSecrets(p, LinesAt(base, p), LinesAt(head, p)) = {}
      BY <2>1, <2>2, <2>6, RunFields
    <2>8. LinesAt(head, p) = head[p].lines
      BY <2>1, <2>5 DEF LinesAt, FileAt
    <2>9. PICK i \in DOMAIN head[p].lines : head[p].lines[i] = l
      BY DEF LinesOf
    <2>10. l \in LinesOf(LinesAt(base, p))
      <3>1. SUFFICES ASSUME l \notin LinesOf(LinesAt(base, p))  PROVE FALSE
        OBVIOUS
      <3>2. [fingerprint |-> <<SecretRule(LinesAt(head, p)[i]), [path |-> p], <<>>, 0>>, path |-> p, line |-> i]
              \in AddedSecrets(p, LinesAt(base, p), LinesAt(head, p))
        BY <2>8, <2>9, <3>1, Zenon DEF AddedSecrets
      <3> QED  BY <2>7, <3>2
    <2>11. LinesAt(base, p) = base[p].lines \/ LinesAt(base, p) = <<>>
      BY DEF LinesAt
    <2>12. LinesOf(<<>>) = {}
      BY DEF LinesOf
    <2> QED  BY <2>10, <2>11, <2>12
  <1> QED  BY <1>1, <1>2

(* What a check that failed is called, and no other is (CheckConclusion).  *)
LEMMA FailureSaid ==
  ASSUME NEW word
  PROVE  CheckConclusion(word) = "Failure" <=> word \in {"failure", "failed", "error"}
  <1>1. PICK said : said = {c \in DOMAIN ConclusionWords : word \in ConclusionWords[c]}
    OBVIOUS
  <1>2. CheckConclusion(word) = IF said = {} THEN "none" ELSE CHOOSE c \in said : TRUE
    BY <1>1 DEF CheckConclusion
  <1>3. "Failure" \in said <=> word \in {"failure", "failed", "error"}
    BY <1>1 DEF ConclusionWords
  <1>4. ASSUME word \in {"failure", "failed", "error"}  PROVE said = {"Failure"}
    BY <1>1, <1>4 DEF ConclusionWords
  <1>5. CASE word \in {"failure", "failed", "error"}
    <2>1. said = {"Failure"}
      BY <1>4, <1>5
    <2>2. (CHOOSE c \in said : TRUE) \in said
      BY <2>1
    <2> QED  BY <1>2, <1>5, <2>1, <2>2
  <1>6. CASE word \notin {"failure", "failed", "error"}
    <2>1. "Failure" \notin said
      BY <1>3, <1>6
    <2>2. said # {} => (CHOOSE c \in said : TRUE) \in said
      OBVIOUS
    <2> QED  BY <1>2, <1>6, <2>1, <2>2
  <1> QED  BY <1>5, <1>6

(* The words a check may end with say that it has ended (CheckStatus).     *)
LEMMA FailureEnds ==
  CheckStatus("completed") = "Completed" /\ CheckStatus("failure") = "Completed"
    /\ CheckStatus("failed") = "Completed" /\ CheckStatus("error") = "Completed"
  BY DEF CheckStatus, QueuedWords, CompletedWords

(* The checks counted as failed are those their forge calls failed, but    *)
(* not this server's own (classify, checks).                               *)
LEMMA FailuresCounted ==
  ASSUME NEW forge \in DOMAIN Words, NEW checks, \A i \in DOMAIN checks : Says(forge, checks[i])
  PROVE  Classify(ReadChecks(forge, checks, App)) =
           Cardinality({i \in FirstPage(forge, checks) : FailedCheck(forge, checks[i])})
  <1>1. DOMAIN Words = {"github", "gitlab", "gitea"}
    BY DEF Words
  <1>2. PICK R : R = ReadChecks(forge, checks, App)
    OBVIOUS
  <1>3. PICK P : P = FirstPage(forge, checks) /\ P \subseteq DOMAIN checks
    BY <1>1 DEF FirstPage
  <1>4. {i \in DOMAIN R : R[i].status = "Completed" /\ R[i].conclusion = "Failure"}
          = {i \in FirstPage(forge, checks) : FailedCheck(forge, checks[i])}
    <2>1. CASE forge = "github"
      <3>1. R = [i \in {j \in P : ~OwnCheck(checks[j], App)} |-> GithubCheck(checks[i])]
        BY <1>2, <1>3, <2>1 DEF ReadChecks, GithubChecks
      <3>2. \A i \in DOMAIN checks : GithubCheck(checks[i]).status = CheckStatus(checks[i].status)
              /\ GithubCheck(checks[i]).conclusion = CheckConclusion(checks[i].conclusion)
        BY DEF GithubCheck
      <3>3. FailureWords["github"] = {"failure"}
        BY DEF FailureWords
      <3>4. \A i \in DOMAIN checks :
              FailedCheck(forge, checks[i]) <=> checks[i].conclusion = "failure" /\ ~OwnCheck(checks[i], App)
        BY <2>1, <3>3 DEF FailedCheck, OwnCheck
      <3>5. ASSUME NEW i \in DOMAIN checks
            PROVE  (CheckStatus(checks[i].status) = "Completed" /\ CheckConclusion(checks[i].conclusion) = "Failure")
                     <=> checks[i].conclusion = "failure"
        <4>1. Says("github", checks[i])
          BY <2>1
        <4>2. checks[i].conclusion \in Words["github"]
              /\ (checks[i].conclusion # "none" => checks[i].status = "completed")
          BY <4>1 DEF Says
        <4>3. checks[i].conclusion \in {"failure", "failed", "error"} <=> checks[i].conclusion = "failure"
          BY <4>2 DEF Words
        <4> QED  BY <4>2, <4>3, FailureSaid, FailureEnds
      <3> QED  BY <1>3, <3>1, <3>2, <3>4, <3>5
    <2>2. CASE forge = "gitlab"
      <3>1. R = [i \in P |-> GitlabCheck(checks[i])]
        BY <1>2, <1>3, <2>2 DEF ReadChecks
      <3>2. \A i \in DOMAIN checks : GitlabCheck(checks[i]).status = CheckStatus(checks[i].status)
              /\ GitlabCheck(checks[i]).conclusion = CheckConclusion(checks[i].status)
        BY DEF GitlabCheck
      <3>3. FailureWords["gitlab"] = {"failed"}
        BY DEF FailureWords
      <3>4. \A i \in DOMAIN checks : FailedCheck(forge, checks[i]) <=> checks[i].status = "failed"
        BY <2>2, <3>3 DEF FailedCheck
      <3>5. ASSUME NEW i \in DOMAIN checks
            PROVE  (CheckStatus(checks[i].status) = "Completed" /\ CheckConclusion(checks[i].status) = "Failure")
                     <=> checks[i].status = "failed"
        <4>1. Says("gitlab", checks[i])
          BY <2>2
        <4>2. checks[i].status \in Words["gitlab"]
          BY <4>1 DEF Says
        <4>3. checks[i].status \in {"failure", "failed", "error"} <=> checks[i].status = "failed"
          BY <4>2 DEF Words
        <4> QED  BY <4>3, FailureSaid, FailureEnds
      <3> QED  BY <1>3, <3>1, <3>2, <3>4, <3>5
    <2>3. CASE forge = "gitea"
      <3>1. R = [i \in P |-> GiteaCheck(checks[i])]
        BY <1>2, <1>3, <2>3 DEF ReadChecks
      <3>2. \A i \in DOMAIN checks : GiteaCheck(checks[i]).status = CheckStatus(checks[i].status)
              /\ GiteaCheck(checks[i]).conclusion = CheckConclusion(checks[i].status)
        BY DEF GiteaCheck
      <3>3. FailureWords["gitea"] = {"failure", "error"}
        BY DEF FailureWords
      <3>4. \A i \in DOMAIN checks : FailedCheck(forge, checks[i]) <=> checks[i].status \in {"failure", "error"}
        BY <2>3, <3>3 DEF FailedCheck
      <3>5. ASSUME NEW i \in DOMAIN checks
            PROVE  (CheckStatus(checks[i].status) = "Completed" /\ CheckConclusion(checks[i].status) = "Failure")
                     <=> checks[i].status \in {"failure", "error"}
        <4>1. Says("gitea", checks[i])
          BY <2>3
        <4>2. checks[i].status \in Words["gitea"]
          BY <4>1 DEF Says
        <4>3. checks[i].status \in {"failure", "failed", "error"} <=> checks[i].status \in {"failure", "error"}
          BY <4>2 DEF Words
        <4> QED  BY <4>3, FailureSaid, FailureEnds
      <3> QED  BY <1>3, <3>1, <3>2, <3>4, <3>5
    <2> QED  BY <1>1, <2>1, <2>2, <2>3
  <1> QED  BY <1>2, <1>4 DEF Classify

(* Finite sets, one for each place of a finite set, are finite together.   *)
LEMMA FiniteUnion ==
  ASSUME NEW f, IsFiniteSet(DOMAIN f), \A x \in DOMAIN f : IsFiniteSet(f[x])
  PROVE  IsFiniteSet(UNION {f[x] : x \in DOMAIN f})
  <1>1. PICK S : S = {f[x] : x \in DOMAIN f}
    OBVIOUS
  <1>2. IsFiniteSet(S)
    BY <1>1, FiniteImage
  <1>3. \A T \in S : IsFiniteSet(T)
    BY <1>1
  <1> QED  BY <1>1, <1>2, <1>3, FS_UNION

(* The links of a line are at numbered places.                             *)
LEMMA LinksNumbered ==
  ASSUME NEW path, NEW line, line.urls \in Seq(LinesOf(line.urls))
  PROVE  IsFiniteSet(DOMAIN LinksOn(path, line))
  <1>1. PICK A : A = LinesOf(line.urls) \cup
                     {<<line.states.action, line.states.revision>>, <<line.states.image>>}
    OBVIOUS
  <1>2. line.urls \in Seq(A)
    BY <1>1
  <1>3. PICK used : used = IF IsWorkflow(path) /\ line.states.is = "uses"
                           THEN <<<<line.states.action, line.states.revision>>>> ELSE <<>>
    OBVIOUS
  <1>4. used \in Seq(A)
    <2>1. PICK x \in A : x = <<line.states.action, line.states.revision>>
      BY <1>1
    <2>2. used = <<x>> \/ used = <<>>
      BY <1>3, <2>1
    <2>3. <<x>> \in Seq(A) /\ <<>> \in Seq(A)
      OBVIOUS
    <2> QED  BY <2>2, <2>3
  <1>5. PICK from : from = IF path.name = "Dockerfile" /\ line.states.is = "from"
                           THEN <<<<line.states.image>>>> ELSE <<>>
    OBVIOUS
  <1>6. from \in Seq(A)
    <2>1. PICK x \in A : x = <<line.states.image>>
      BY <1>1
    <2>2. from = <<x>> \/ from = <<>>
      BY <1>5, <2>1
    <2>3. <<x>> \in Seq(A) /\ <<>> \in Seq(A)
      OBVIOUS
    <2> QED  BY <2>2, <2>3
  <1>7. LinksOn(path, line) = used \o from \o line.urls
    BY <1>3, <1>5, Zenon DEF LinksOn
  <1>8. used \o from \in Seq(A)
    BY <1>4, <1>6
  <1>9. (used \o from) \o line.urls \in Seq(A)
    BY <1>2, <1>8
  <1>10. PICK s \in Seq(A) : s = LinksOn(path, line)
    BY <1>7, <1>9
  <1>11. Len(s) \in Nat /\ DOMAIN s = 1 .. Len(s)
    OBVIOUS
  <1> QED  BY <1>10, <1>11, FS_Interval

(* Lines as a file has them.                                               *)
Lined(ls) ==
  /\ IsFiniteSet(DOMAIN ls)
  /\ \A i \in DOMAIN ls : ls[i].urls \in Seq(LinesOf(ls[i].urls))

(* The files of a tree have lines.                                         *)
LEMMA FilesAreLined ==
  ASSUME NEW p \in Path, NEW tree, tree[p] \in Contents(p) \cup {Absent}
  PROVE  Lined(LinesAt(tree, p))
  <1>1. PICK n \in Nat : DOMAIN LinesAt(tree, p) = 1 .. n
    BY LinesAreSeq
  <1>2. IsFiniteSet(DOMAIN LinesAt(tree, p))
    BY <1>1, FS_Interval
  <1>3. \A i \in DOMAIN LinesAt(tree, p) :
          LinesAt(tree, p)[i].urls \in Seq(LinesOf(LinesAt(tree, p)[i].urls))
    BY LinesAreSeq
  <1> QED  BY <1>2, <1>3 DEF Lined

(* A count of links is a number, and nothing for a link there is not.      *)
LEMMA CountIsNumber ==
  ASSUME NEW path, NEW ls, Lined(ls), NEW t
  PROVE  /\ CountOf(path, ls, t) \in Nat
         /\ t \notin TextsOf(path, ls) => CountOf(path, ls, t) = 0
  <1> DEFINE At(i) == {<<i, k>> : k \in {l \in DOMAIN LinksOn(path, ls[i]) : LinksOn(path, ls[i])[l] = t}}
  <1>1. ASSUME NEW i \in DOMAIN ls  PROVE IsFiniteSet(At(i))
    <2>1. PICK L : L = {l \in DOMAIN LinksOn(path, ls[i]) : LinksOn(path, ls[i])[l] = t}
      OBVIOUS
    <2>2. IsFiniteSet(DOMAIN LinksOn(path, ls[i]))
      BY LinksNumbered DEF Lined
    <2>3. IsFiniteSet(L)
      BY <2>1, <2>2, FS_Subset
    <2>4. PICK f : f = [k \in L |-> <<i, k>>]
      OBVIOUS
    <2>5. IsFiniteSet({f[k] : k \in DOMAIN f})
      BY <2>3, <2>4, FiniteImage
    <2>6. At(i) = {f[k] : k \in DOMAIN f}
      BY <2>1, <2>4
    <2> QED  BY <2>5, <2>6
  <1>2. CountOf(path, ls, t) = Cardinality(UNION {At(i) : i \in DOMAIN ls})
    BY Zenon DEF CountOf
  <1>3. ASSUME t \notin TextsOf(path, ls), NEW i \in DOMAIN ls  PROVE At(i) = {}
    BY <1>3 DEF TextsOf
  <1> HIDE DEF At
  <1>4. PICK f : f = [i \in DOMAIN ls |-> At(i)]
    OBVIOUS
  <1>5. IsFiniteSet(UNION {f[i] : i \in DOMAIN f})
    BY <1>1, <1>4, FiniteUnion DEF Lined
  <1>6. UNION {At(i) : i \in DOMAIN ls} = UNION {f[i] : i \in DOMAIN f}
    BY <1>4
  <1>7. CountOf(path, ls, t) \in Nat
    BY <1>2, <1>5, <1>6, FS_CardinalityType
  <1>8. ASSUME t \notin TextsOf(path, ls)  PROVE CountOf(path, ls, t) = 0
    <2>1. UNION {At(i) : i \in DOMAIN ls} = {}
      BY <1>3, <1>8
    <2> QED  BY <1>2, <2>1, FS_EmptySet
  <1> QED  BY <1>7, <1>8

(* A file has finitely many links.                                         *)
LEMMA TextsFinite ==
  ASSUME NEW path, NEW ls, Lined(ls)
  PROVE  IsFiniteSet(TextsOf(path, ls))
  <1> DEFINE On(i) == {LinksOn(path, ls[i])[k] : k \in DOMAIN LinksOn(path, ls[i])}
  <1>1. ASSUME NEW i \in DOMAIN ls  PROVE IsFiniteSet(On(i))
    <2>1. IsFiniteSet(DOMAIN LinksOn(path, ls[i]))
      BY LinksNumbered DEF Lined
    <2>2. PICK f : f = LinksOn(path, ls[i])
      OBVIOUS
    <2>3. IsFiniteSet({f[k] : k \in DOMAIN f})
      BY <2>1, <2>2, FiniteImage
    <2> QED  BY <2>2, <2>3
  <1>2. TextsOf(path, ls) = UNION {On(i) : i \in DOMAIN ls}
    BY Zenon DEF TextsOf
  <1> HIDE DEF On
  <1>3. PICK f : f = [i \in DOMAIN ls |-> On(i)]
    OBVIOUS
  <1>4. IsFiniteSet(UNION {f[i] : i \in DOMAIN f})
    BY <1>1, <1>3, FiniteUnion DEF Lined
  <1>5. UNION {On(i) : i \in DOMAIN ls} = UNION {f[i] : i \in DOMAIN f}
    BY <1>3
  <1> QED  BY <1>2, <1>4, <1>5

(* What a file gains is finite.                                            *)
LEMMA GainsFinite ==
  ASSUME NEW path, NEW b, NEW h, Lined(b), Lined(h)
  PROVE  IsFiniteSet(LinksGained(path, b, h))
  <1> DEFINE Gain(t) == {<<path, t, k>> : k \in CountOf(path, b, t) + 1 .. CountOf(path, h, t)}
  <1>1. ASSUME NEW t  PROVE IsFiniteSet(Gain(t))
    <2>1. PICK m \in Nat, n \in Nat : m = CountOf(path, b, t) /\ n = CountOf(path, h, t)
      BY CountIsNumber
    <2>2. PICK f : f = [k \in m + 1 .. n |-> <<path, t, k>>]
      OBVIOUS
    <2>3. IsFiniteSet(DOMAIN f)
      <3>1. IsFiniteSet(m + 1 .. n)
        BY FS_Interval
      <3> QED  BY <2>2, <3>1
    <2>4. IsFiniteSet({f[k] : k \in DOMAIN f})
      BY <2>3, FiniteImage
    <2>5. Gain(t) = {f[k] : k \in DOMAIN f}
      BY <2>1, <2>2
    <2> QED  BY <2>4, <2>5
  <1>2. LinksGained(path, b, h) = UNION {Gain(t) : t \in AddedLinks(path, b, h)}
    BY Zenon DEF LinksGained
  <1> HIDE DEF Gain
  <1>3. IsFiniteSet(AddedLinks(path, b, h))
    BY TextsFinite, FS_Subset DEF AddedLinks
  <1>4. PICK f : f = [t \in AddedLinks(path, b, h) |-> Gain(t)]
    OBVIOUS
  <1>5. IsFiniteSet(UNION {f[t] : t \in DOMAIN f})
    BY <1>1, <1>3, <1>4, FiniteUnion
  <1>6. UNION {Gain(t) : t \in AddedLinks(path, b, h)} = UNION {f[t] : t \in DOMAIN f}
    BY <1>4
  <1> QED  BY <1>2, <1>5, <1>6

(* A silent inventory of links (links.rs).                                 *)
LEMMA SilentLinks ==
  ASSUME AnalyzersIInv, Done("link-inventory"), runs["link-inventory"].signal = 0,
         NEW p \in Path, NEW t
  PROVE  CountOf(p, LinesAt(head, p), t) <= CountOf(p, LinesAt(base, p), t)
  <1>1. runs["link-inventory"] = LinksRun
    <2>1. runs["link-inventory"] = Evaluate("link-inventory")
      BY RunsAreEvaluated DEF Done, Analyzer
    <2> QED  BY <2>1 DEF Evaluate
  <1>2. LinksRun # Failed
    BY <1>1, RunFields DEF Done
  <1> DEFINE Gains == UNION {LinksGained(q, LinesAt(base, q), LinesAt(head, q)) : q \in Path}
  <1>3. Cardinality(Gains) = 0
    <2>1. LinksRun = Succeeded(UNION {LinkFindings(q, LinesAt(base, q), LinesAt(head, q)) : q \in Path},
                               Cardinality(Gains))
      BY <1>2, Zenon DEF LinksRun
    <2> HIDE DEF Gains
    <2> QED  BY <1>1, <2>1, RunFields
  <1>4. \A q \in Path : Lined(LinesAt(base, q)) /\ Lined(LinesAt(head, q))
    BY PathHas, FilesAreLined
  <1>5. IsFiniteSet(Gains)
    <2>1. PICK f : f = [q \in Path |-> LinksGained(q, LinesAt(base, q), LinesAt(head, q))]
      OBVIOUS
    <2>2. IsFiniteSet(DOMAIN f) /\ \A q \in DOMAIN f : IsFiniteSet(f[q])
      BY <1>4, <2>1, GainsFinite, AnalyzersAssumption
    <2>3. IsFiniteSet(UNION {f[q] : q \in DOMAIN f})
      BY <2>2, FiniteUnion
    <2>4. Gains = UNION {f[q] : q \in DOMAIN f}
      BY <2>1
    <2> QED  BY <2>3, <2>4
  <1>6. Gains = {}
    <2> HIDE DEF Gains
    <2> QED  BY <1>3, <1>5, FS_EmptySet
  <1>7. LinksGained(p, LinesAt(base, p), LinesAt(head, p)) = {}
    BY <1>6
  <1>8. PICK b, h : b = LinesAt(base, p) /\ h = LinesAt(head, p)
    OBVIOUS
  <1>9. Lined(b) /\ Lined(h)
    BY <1>4, <1>8
  <1>10. PICK m \in Nat, n \in Nat : m = CountOf(p, b, t) /\ n = CountOf(p, h, t)
    BY <1>9, CountIsNumber
  <1>11. n <= m
    <2>1. SUFFICES ASSUME n > m  PROVE FALSE
      BY <1>10
    <2>2. t \in TextsOf(p, h)
      <3>1. n # 0
        BY <2>1
      <3> QED  BY <1>9, <1>10, <3>1, CountIsNumber
    <2>3. t \in AddedLinks(p, b, h)
      BY <1>10, <2>1, <2>2 DEF AddedLinks
    <2>4. n \in m + 1 .. n
      BY <2>1
    <2>5. n \in CountOf(p, b, t) + 1 .. CountOf(p, h, t)
      BY <1>10, <2>4
    <2> DEFINE G(u) == {<<p, u, k>> : k \in CountOf(p, b, u) + 1 .. CountOf(p, h, u)}
    <2>6. <<p, t, n>> \in G(t)
      BY <2>5, Zenon
    <2>7. <<p, t, n>> \in LinksGained(p, b, h)
      <3>1. LinksGained(p, b, h) = UNION {G(u) : u \in AddedLinks(p, b, h)}
        BY DEF LinksGained
      <3> HIDE DEF G
      <3> QED  BY <2>3, <2>6, <3>1
    <2> QED  BY <1>7, <1>8, <2>7
  <1> QED  BY <1>8, <1>10, <1>11

(* A run that succeeded and says nothing has looked at what it is about,   *)
(* and found nothing there: what cannot be read, fails (runner.rs,         *)
(* docs/vocabulary.md:27-28).  It is silent of a path with no file at the  *)
(* head, of what a parser passes over, and of the checks on a later page.  *)
THEOREM SilenceAlwaysMeansNothing == Spec => []SilenceMeansNothing
  <1>1. ASSUME AnalyzersIInv  PROVE SilenceMeansNothing
    <2>1. TypeOK
      BY <1>1, AnalyzersTypes
    <2>2. ASSUME Done("lockfile-delta"), runs["lockfile-delta"].findings = {},
                 NEW p \in Path, IsLockfile(p), FileAt(head, p) # "none", NamedOnceAt(p), base[p] # head[p]
          PROVE  /\ head[p].is = "text" /\ base[p].is \notin {"garbled", "binary"}
                 /\ LinesOf(LockedAt(base, p)) = LinesOf(LockedAt(head, p))
      BY <1>1, <2>2, SilentLockfiles
    <2>3. ASSUME Done("manifest-delta"), runs["manifest-delta"].findings = {},
                 NEW p \in Path, IsManifest(p), base[p] # head[p]
          PROVE  /\ head[p].is # "garbled"
                 /\ Declared(ManifestEcosystem(p), DeclaredAt(base, p))
                      = Declared(ManifestEcosystem(p), DeclaredAt(head, p))
      BY <1>1, <2>3, SilentManifests
    <2>4. ASSUME Done("secret-scan"), runs["secret-scan"].findings = {},
                 NEW p \in Path, head[p].is = "text",
                 NEW l \in LinesOf(head[p].lines), SecretRule(l) # "none"
          PROVE  l \in LinesOf(base[p].lines)
      BY <1>1, <2>4, SilentSecrets
    <2>5. ASSUME Done("link-inventory"), runs["link-inventory"].signal = 0, NEW p \in Path, NEW t
          PROVE  CountOf(p, LinesAt(head, p), t) <= CountOf(p, LinesAt(base, p), t)
      BY <1>1, <2>5, SilentLinks
    <2>6. ASSUME Done("ci-check-runs")
          PROVE  runs["ci-check-runs"].signal =
                   Cardinality({i \in FirstPage(told.forge, told.checks) :
                                  FailedCheck(told.forge, told.checks[i])})
      <3>1. runs["ci-check-runs"] = CheckRunsRun /\ told.is # "limited"
        <4>1. runs["ci-check-runs"] = Evaluate("ci-check-runs") /\ told.is # "limited"
          BY <1>1, <2>6, RunsAreEvaluated DEF Done, Analyzer
        <4> QED  BY <4>1 DEF Evaluate
      <3>2. CheckRunsRun.status = "succeeded"
        BY <2>6, <3>1 DEF Done
      <3>3. told.is = "ready"
        BY <1>1, <3>1, <3>2, CheckRunsRunIs, RunFields DEF AnalyzersIInv
      <3>4. CheckRunsRun.signal = Classify(ReadChecks(told.forge, told.checks, App))
        BY <1>1, <3>1, <3>3, CheckRunsRunIs, RunFields DEF AnalyzersIInv
      <3>5. told.forge \in DOMAIN Words /\ \A i \in DOMAIN told.checks : Says(told.forge, told.checks[i])
        BY <1>1, <3>3, ToldIs DEF AnalyzersIInv
      <3> QED  BY <3>1, <3>4, <3>5, FailuresCounted
    <2> QED  BY <2>1, <2>2, <2>3, <2>4, <2>5, <2>6, Zenon DEF SilenceMeansNothing
  <1> QED  BY <1>1, AnalyzersInductive, PTL
=================================================================================
