---------------------------- MODULE LockfileDelta ----------------------------
(* The lockfile-delta analyzer (src/src/analysis/lockfile): what the two   *)
(* revisions of one lockfile say of the packages it locks.                 *)
(*                                                                         *)
(* The entries of a lockfile are at their places in the order its parser   *)
(* yields them; a version is its identifiers, each a pair <<0, number>> or *)
(* <<1, text>>, so that the order of pairs is the order of identifiers.    *)
EXTENDS Naturals, Sequences, FiniteSets, FiniteSetsExt

Kind == {"Cargo", "Npm", "Pnpm", "Nix"}

\* The file names Kind::of knows, at any depth.
LockNames ==
  [Cargo |-> "Cargo.lock", Npm |-> "package-lock.json",
   Pnpm |-> "pnpm-lock.yaml", Nix |-> "flake.lock"]
IsLockfile(path) == \E k \in Kind : LockNames[k] = path.name
KindOf(path) == CHOOSE k \in Kind : LockNames[k] = path.name
Ecosystem(kind) == IF kind = "Pnpm" THEN "Npm" ELSE kind

-----------------------------------------------------------------------------
(* What each format makes of an entry: [name, version, from, integrity],   *)
(* where from is the field that says where the package was resolved.       *)
Version == [core : Seq({0, 1} \X Nat), pre : Seq({0, 1} \X Nat), build : Nat]

\* The entries a format leaves out: npm's project, links and members without
\* a version, flake nodes that lock nothing, the root of a flake; and pnpm's
\* whose key is no text, or no name and version.
Locks(kind, entry) ==
  CASE kind = "Cargo" -> TRUE
    [] kind = "Npm" -> entry.from \notin {"project", "link", "unversioned"}
    [] kind = "Pnpm" -> entry.from # "unreadable"
    [] kind = "Nix" -> entry.from \notin {"root", "unlocked"}

CargoOrigin(from) ==
  CASE from = "none" -> "Local"
    [] from = "crates.io" -> "PublicRegistry"
    [] from = "registry" -> "Registry"
    [] OTHER -> "Remote"
NpmOrigin(from) ==
  CASE from = "none" -> "Local"
    [] from = "npmjs" -> "PublicRegistry"
    [] from = "git" -> "Remote"
    [] from = "tarball" -> "Registry"
    [] OTHER -> "Local"
PnpmOrigin(from) == IF from = "none" THEN "PublicRegistry" ELSE "Remote"
\* A flake input is a repository on a forge, one on another host, or a path.
NixOrigin(from) ==
  CASE from \in {"github:x", "github:y", "gitlab:x", "sourcehut:x"} -> "Remote"
    [] from = "path" -> "Local"
    [] OTHER -> "Elsewhere"
Origin(kind, from) ==
  CASE kind = "Cargo" -> CargoOrigin(from)
    [] kind = "Npm" -> NpmOrigin(from)
    [] kind = "Pnpm" -> PnpmOrigin(from)
    [] kind = "Nix" -> NixOrigin(from)

\* A flake knows no registry: a known forge is as ordinary as an input gets.
Ordinary(kind, origin) ==
  \/ origin \in {"PublicRegistry", "Local"}
  \/ kind = "Nix" /\ origin = "Remote"

LockedPackage(kind, entry) ==
  [name |-> entry.name, version |-> entry.version, source |-> entry.from,
   integrity |-> entry.integrity, origin |-> Origin(kind, entry.from)]
Packages(kind, entries) ==
  [i \in {j \in DOMAIN entries : Locks(kind, entries[j])} |-> LockedPackage(kind, entries[i])]

-----------------------------------------------------------------------------
(* Versions, by semver precedence.                                         *)
OrderOf(l, r) == IF l < r THEN "less" ELSE IF l > r THEN "greater" ELSE "equal"
Below(l, r) ==
  \/ l[1] < r[1]
  \/ l[1] = r[1] /\ l[2] < r[2]

\* Where both have an identifier the first that differs decides, else length.
CompareIdentifiers(l, r) ==
  LET both == 1 .. Min({Len(l), Len(r)})
      differ == {k \in both : l[k] # r[k]}
  IN IF differ = {} THEN OrderOf(Len(l), Len(r))
     ELSE IF Below(l[Min(differ)], r[Min(differ)]) THEN "less" ELSE "greater"

\* A release stands above each of its pre-releases.
ComparePreReleases(l, r) ==
  CASE l = <<>> /\ r = <<>> -> "equal"
    [] l = <<>> /\ r # <<>> -> "greater"
    [] l # <<>> /\ r = <<>> -> "less"
    [] OTHER -> CompareIdentifiers(l, r)

\* "none" when a side does not start with a number, as no commit does.
CompareVersions(l, r) ==
  IF l.core[1][1] = 1 \/ r.core[1][1] = 1 THEN "none"
  ELSE LET core == CompareIdentifiers(l.core, r.core)
       IN IF core = "equal" THEN ComparePreReleases(l.pre, r.pre) ELSE core

\* A direction is claimed only when one version left for the one that came.
Movement(base, departures, arrival) ==
  IF Cardinality(departures) # 1 THEN "Changed"
  ELSE LET order == CompareVersions(base[Max(departures)].version, arrival.version)
       IN CASE order = "less" -> "Upgraded"
            [] order = "greater" -> "Downgraded"
            [] OTHER -> "Changed"

-----------------------------------------------------------------------------
(* The delta.  A report is [rule, package, movement, at]; at orders the    *)
(* reports of one rule and name the way the code comes by them.            *)
Key(package) == <<package.name, package.version>>
Keys(packages) == {Key(packages[i]) : i \in DOMAIN packages}
\* Of two entries with one key the later one is kept.
Kept(packages, key) == packages[Max({i \in DOMAIN packages : Key(packages[i]) = key})]

\* What the first pass makes of a package at the head.
RuleFor(kind, base, package) ==
  IF Key(package) \in Keys(base)
    THEN LET before == Kept(base, Key(package))
         IN IF before.source # package.source THEN "source-changed"
            ELSE IF before.integrity # package.integrity THEN "integrity-changed"
            ELSE "same"
  ELSE IF ~Ordinary(kind, package.origin) THEN "unregistered-dependency-added"
  ELSE "appeared"

Report(rule, package, movement, at) ==
  [rule |-> rule, package |-> package, movement |-> movement, at |-> at]

Appeared(kind, base, head) == {i \in DOMAIN head : RuleFor(kind, base, head[i]) = "appeared"}
Vanished(base, head) == {i \in DOMAIN base : Key(base[i]) \notin Keys(head)}
Departures(base, head, name) == {j \in Vanished(base, head) : base[j].name = name}

ChangedPackages(kind, base, head) ==
  {Report(RuleFor(kind, base, head[i]), head[i],
          IF Key(head[i]) \in Keys(base) THEN "none" ELSE "Added", <<1, i>>) :
     i \in {j \in DOMAIN head : RuleFor(kind, base, head[j]) \notin {"same", "appeared"}}}

\* A name that gained and lost a version was moved, except that a flake input
\* from another repository was swapped.
ArrivalRule(kind, base, departures, package) ==
  IF departures = {} THEN "package-added"
  ELSE IF kind = "Nix" /\ \A d \in departures : base[d].source # package.source THEN "source-changed"
  ELSE "package-version-changed"
ArrivedPackages(kind, base, head) ==
  {LET departures == Departures(base, head, head[i].name)
   IN Report(ArrivalRule(kind, base, departures, head[i]), head[i],
             IF departures = {} THEN "Added" ELSE Movement(base, departures, head[i]), <<2, i>>) :
     i \in Appeared(kind, base, head)}

\* Faulty variant of RemovedPackages: any arrival of the name takes them.
RemovedNames(kind, base, head) ==
  {Report("package-removed", base[i], "Removed", <<3, i>>) :
     i \in {j \in Vanished(base, head) :
              \A k \in DOMAIN head : Key(head[k]) \in Keys(base) \/ head[k].name # base[j].name}}

\* Only an ordinary arrival of the name takes its departures with it.
RemovedPackages(kind, base, head) ==
  {Report("package-removed", base[i], "Removed", <<3, i>>) :
     i \in {j \in Vanished(base, head) :
              \A k \in Appeared(kind, base, head) : head[k].name # base[j].name}}

Delta(kind, base, head) ==
  ChangedPackages(kind, base, head) \cup ArrivedPackages(kind, base, head)
    \cup RemovedPackages(kind, base, head)

-----------------------------------------------------------------------------
(* The identity of a finding: a version is part of it where the title says *)
(* one, and reports alike in rule and name are counted.                    *)

\* Faulty variant of Occurrence: nothing is counted.
NotCounted(reports, report) == 0

Occurrence(reports, report) ==
  Cardinality({r \in reports : /\ r.rule = report.rule
                               /\ r.package.name = report.package.name
                               /\ Below(r.at, report.at)})

\* The fingerprint collapses whitespace in it, but has the name once more, as
\* it is, in the location.
TitleOf(report) ==
  IF report.rule \in {"package-added", "package-removed", "package-version-changed"}
  THEN <<report.package.name, report.package.version>>
  ELSE <<report.package.name>>
PackageLocation(path, kind, package) ==
  [path |-> path, ecosystem |-> Ecosystem(kind), name |-> package.name]

Findings(path, kind, base, head) ==
  LET reports == Delta(kind, base, head)
  IN {[fingerprint |-> <<r.rule, PackageLocation(path, kind, r.package), TitleOf(r),
                         Occurrence(reports, r)>>,
       path |-> path, report |-> r] : r \in reports}
=============================================================================
