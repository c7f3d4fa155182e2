----------------------------- MODULE MCAnalyzers -----------------------------
(* An instance of Analyzers for TLC: one file of every kind, each with the *)
(* contents that tell its analyzers' rules apart.                          *)
EXTENDS Analyzers, TLC

At(dir, name) == [dir |-> dir, name |-> name]
CargoLock == At("", "Cargo.lock")
Nested == At("fuzz", "Cargo.lock")
NpmLock == At("web", "package-lock.json")
PnpmLock == At("docs", "pnpm-lock.yaml")
FlakeLock == At("", "flake.lock")
CargoToml == At("", "Cargo.toml")
Workflow == At(".github/workflows", "ci.yml")
Owners == At("", "CODEOWNERS")
Readme == At("", "README.md")
Bundle == At("dist", "Dockerfile")
MCPath == {CargoLock, Nested, NpmLock, PnpmLock, FlakeLock, CargoToml, Workflow, Owners, Readme, Bundle}

-----------------------------------------------------------------------------
Value(length, classes, distinct) ==
  [length |-> length, classes |-> classes, distinct |-> distinct, placeholder |-> FALSE]
NoValue == Value(0, 0, 0)
Line(states) ==
  [states |-> states, urls |-> <<>>, candidates |-> {}, header |-> FALSE, assigned |-> NoValue]
Blank == Line([is |-> "other"])

Text(lines) == [is |-> "text", size |-> 1, lines |-> lines]
Broken == {[is |-> "garbled", size |-> 1, lines |-> <<>>], [is |-> "binary", size |-> 1, lines |-> <<>>]}
Huge == [is |-> "text", size |-> 4, lines |-> <<>>]
Symlink == [is |-> "other", size |-> 0, lines |-> <<>>]

\* Texts of at most two of these lines, in their order.
Sorted(lines) ==
  {Text(<<>>)} \cup {Text(<<lines[i]>>) : i \in DOMAIN lines}
    \cup UNION {{Text(<<lines[i], lines[j]>>) : j \in i + 1 .. Len(lines)} : i \in DOMAIN lines}
Threes(lines) ==
  {Text(<<lines[t[1]], lines[t[2]], lines[t[3]]>>) :
     t \in {u \in (DOMAIN lines) \X (DOMAIN lines) \X (DOMAIN lines) : u[1] < u[2] /\ u[2] < u[3]}}

Locked(name, version, from, integrity) ==
  Line([is |-> "locks", name |-> name, version |-> version, from |-> from, integrity |-> integrity])
Release(major, minor) == [core |-> <<<<0, major>>, <<0, minor>>>>, pre |-> <<>>, build |-> 0]
V1 == Release(1, 9)
V2 == Release(1, 10)
Beta == [V2 EXCEPT !.pre = <<<<1, 2>>, <<0, 1>>>>]
Built == [V2 EXCEPT !.build = 1]
Commit(n) == [core |-> <<<<1, n>>>>, pre |-> <<>>, build |-> 0]

CargoEntries ==
  <<Locked("a", V1, "crates.io", 1), Locked("a", V1, "crates.io", 2), Locked("a", V1, "git", 1),
    Locked("a", Beta, "crates.io", 1), Locked("a", V2, "crates.io", 1), Locked("a", V2, "git", 1),
    Locked("a", Built, "crates.io", 1), Locked("b", V1, "none", 0)>>
NpmEntries ==
  <<Locked("a", V1, "npmjs", 1), Locked("a", V1, "none", 1), Locked("a", V2, "tarball", 1),
    Locked("b", V1, "link", 0)>>
PnpmEntries ==
  <<Locked("a", V1, "none", 1), Locked("a", V2, "none", 1), Locked("a", V2, "https", 1),
    Locked("b", V1, "unreadable", 1)>>
FlakeEntries ==
  {<<>>, <<Locked("n", Commit(1), "github:x", 1)>>, <<Locked("n", Commit(2), "github:x", 1)>>,
   <<Locked("n", Commit(2), "github:y", 1)>>, <<Locked("n", Commit(1), "github:x?host=h", 1)>>}

Declares(table, name, constraint) ==
  Line([is |-> "declares", table |-> table, name |-> name, constraint |-> constraint, source |-> "none"])
Declarations ==
  <<Declares("dependencies", "a", 1), Declares("dependencies", "a", 2),
    Declares("dev-dependencies", "a", 1), Declares("build-dependencies", "b", 1)>>

Uses(action, revision) == Line([is |-> "uses", action |-> action, revision |-> revision])
Checkout == Uses("actions/checkout", "tag")
Statements ==
  <<Line([is |-> "trigger", event |-> "pull_request_target"]), Checkout, Uses("x/y", "tag"),
    Uses("x/y", "commit"), Line([is |-> "ref", ref |-> 1, head |-> TRUE]),
    Line([is |-> "permission", scope |-> "contents", value |-> "write"]),
    Line([is |-> "run", pipe |-> TRUE, command |-> "curl"])>>
Workflows ==
  Sorted(Statements)
    \cup {Text(<<Statements[1], Checkout, Statements[5]>>),
          Text(<<Statements[1], Checkout, Statements[4], Statements[5]>>)}

Candidate(format, body, word) == [format |-> format, body |-> body, word |-> word]
Notes ==
  <<[Blank EXCEPT !.urls = <<<<"u">>>>],
    [Blank EXCEPT !.urls = <<<<"u">>, <<"u", "no-break space">>>>],
    [Blank EXCEPT !.candidates = {Candidate(1, 16, TRUE), Candidate(2, 40, TRUE)}],
    [Blank EXCEPT !.candidates = {Candidate(1, 17, TRUE), Candidate(2, 36, FALSE)}],
    [Blank EXCEPT !.header = TRUE], [Blank EXCEPT !.assigned = Value(20, 3, 10)]>>

From == Line([is |-> "from", image |-> "image"])

MCContents(p) ==
  CASE p = CargoLock -> Sorted(CargoEntries) \cup Threes(CargoEntries) \cup Broken
    [] p = Nested -> {Text(<<CargoEntries[i]>>) : i \in 1 .. 3}
    [] p = NpmLock -> Sorted(NpmEntries) \cup Broken
    [] p = PnpmLock -> Sorted(PnpmEntries) \cup Broken \cup {Symlink, Text(<<Blank>>)}
    [] p = FlakeLock -> {Text(s) : s \in FlakeEntries}
    [] p = CargoToml -> Sorted(Declarations) \cup Broken \cup {Symlink}
    [] p = Workflow -> Workflows \cup Broken \cup {Symlink}
    [] p = Owners -> {Text(<<>>), Text(<<Blank>>), Symlink}
    [] p = Readme -> Sorted(Notes) \cup {Huge, Symlink}
    [] p = Bundle -> {Text(<<From>>), [Text(<<>>) EXCEPT !.size = 3]}

Check(name, status, conclusion, app) ==
  [name |-> name, status |-> status, conclusion |-> conclusion, app |-> app, pipeline |-> 0]
Job(name, status, pipeline) == [Check(name, status, "none", 0) EXCEPT !.pipeline = pipeline]
Ready(forge, checks) == [is |-> "ready", forge |-> forge, checks |-> checks]
MCTold ==
  {Ready("github", <<Check("test", "completed", "failure", 2), Check("menu", "completed", "failure", 1),
                     Check("late", "completed", "failure", 2)>>),
   Ready("github", <<Check("test", "in_progress", "none", 2), Check("lint", "completed", "timed_out", 2)>>),
   Ready("gitlab", <<Job("test", "failed", 1), Job("lint", "canceled", 1), Job("late", "failed", 1),
                     Job("test", "failed", 2), Job("test", "failed", 3)>>),
   Ready("gitea", <<Check("test", "error", "none", 0), Check("lint", "warning", "none", 0),
                    Check("late", "failure", "none", 0)>>),
   [is |-> "failed"], [is |-> "limited"]}
=============================================================================
