------------------------------ MODULE FileDeltas ------------------------------
(* The analyzers that read text: manifests, workflows, secrets, links and  *)
(* repository controls (src/src/analysis).  A path is its directory and    *)
(* its name; a text is a sequence of lines.  A line carries the links on   *)
(* it, the candidates for a secret, and, where its file is a workflow or a *)
(* manifest, the statement it makes.                                       *)
EXTENDS Naturals, Sequences, FiniteSets, FiniteSetsExt

Yaml == {"ci.yml", "release.yaml"}   \* the names that end like a workflow

-----------------------------------------------------------------------------
(* manifest-delta.  A declaration is [table, name, constraint, source].    *)
ManifestTables ==
  [Cargo |-> <<"dependencies", "dev-dependencies", "build-dependencies">>,
   Npm |-> <<"dependencies", "devDependencies", "peerDependencies", "optionalDependencies">>]
IsManifest(path) == path.name \in {"Cargo.toml", "package.json"}
ManifestEcosystem(path) == IF path.name = "Cargo.toml" THEN "Cargo" ELSE "Npm"

\* A name declared in several tables counts as the last of them says.
LastDeclared(ecosystem, declarations, name) ==
  LET Place(d) == Max({k \in DOMAIN ManifestTables[ecosystem] : ManifestTables[ecosystem][k] = d.table})
      those == {d \in declarations : d.name = name}
      last == CHOOSE d \in those : \A e \in those : Place(e) <= Place(d)
  IN <<last.constraint, last.source>>
Declared(ecosystem, declarations) ==
  [name \in {d.name : d \in declarations} |-> LastDeclared(ecosystem, declarations, name)]

ManifestMovement(before, after, name) ==
  CASE name \notin DOMAIN before -> "dependency-added"
    [] name \notin DOMAIN after -> "dependency-removed"
    [] OTHER -> "dependency-changed"
ManifestDelta(path, base, head) ==
  LET before == Declared(ManifestEcosystem(path), base)
      after == Declared(ManifestEcosystem(path), head)
      moved == {n \in DOMAIN before \cup DOMAIN after :
                  n \in DOMAIN before /\ n \in DOMAIN after => before[n] # after[n]}
  IN {[fingerprint |-> <<ManifestMovement(before, after, n),
                         [path |-> path, ecosystem |-> ManifestEcosystem(path), name |-> n], <<n>>, 0>>,
       path |-> path] : n \in moved}

-----------------------------------------------------------------------------
(* workflow-security.  A statement is a use of an action, a permission     *)
(* that is granted, a ref that is checked out, a trigger or a command.     *)
IsWorkflow(path) == path.dir = ".github/workflows" /\ path.name \in Yaml

Indices(lines, statement) == {i \in DOMAIN lines : lines[i].states.is = statement}

UnpinnedActions(lines) ==
  {[rule |-> "unpinned-action", identity |-> <<lines[i].states.action, lines[i].states.revision>>,
    at |-> <<1, i>>] :
     i \in {j \in Indices(lines, "uses") : lines[j].states.revision \notin {"commit", "template"}}}
PermissionWidenings(lines) ==
  {[rule |-> "permission-widening", identity |-> <<lines[i].states.scope, lines[i].states.value>>,
    at |-> <<2, i>>] :
     i \in {j \in Indices(lines, "permission") : lines[j].states.value \in {"write", "write-all"}}}

\* The ref of a checkout is the first to name a pull request's head before
\* the next step begins.
HeadRef(lines, i) ==
  LET refs == {j \in Indices(lines, "ref") :
                 /\ i < j /\ lines[j].states.head
                 /\ \A k \in i + 1 .. j : lines[k].states.is \in {"ref", "other"}}
  IN IF refs = {} THEN 0 ELSE Min(refs)
UnsafeUntrustedCheckouts(lines) ==
  {[rule |-> "unsafe-untrusted-checkout", identity |-> <<lines[t].states.event, lines[HeadRef(lines, i)].states.ref>>,
    at |-> <<3, i, t>>] :
     i \in {j \in Indices(lines, "uses") :
              lines[j].states.action = "actions/checkout" /\ HeadRef(lines, j) # 0},
     t \in {j \in Indices(lines, "trigger") :
              lines[j].states.event \in {"pull_request_target", "issue_comment"}}}
ShellPipes(lines) ==
  {[rule |-> "shell-pipe", identity |-> <<lines[i].states.command>>, at |-> <<4, i>>] :
     i \in {j \in Indices(lines, "run") : lines[j].states.pipe}}

Observations(lines) ==
  UnpinnedActions(lines) \cup PermissionWidenings(lines)
    \cup UnsafeUntrustedCheckouts(lines) \cup ShellPipes(lines)
ObservationKey(o) == <<o.rule, o.identity>>

\* Findings of one rule are counted in the order the observations are made.
Earlier(a, b) ==
  \E k \in DOMAIN a : a[k] < b[k] /\ \A j \in 1 .. k - 1 : a[j] = b[j]
WorkflowDelta(path, base, head) ==
  LET known == {ObservationKey(o) : o \in Observations(base)}
      new == {o \in Observations(head) : ObservationKey(o) \notin known}
  IN {[fingerprint |-> <<o.rule, [path |-> path], <<>>,
                         Cardinality({p \in new : p.rule = o.rule /\ Earlier(p.at, o.at)})>>,
       path |-> path, at |-> o.at] : o \in new}

-----------------------------------------------------------------------------
(* secret-scan.  A candidate is a known prefix with what follows it:       *)
(* [format, body, word], the length of its body in the format's alphabet   *)
(* and whether the whole is a word of its own.                             *)
Exactly(n) == [exact |-> TRUE, length |-> n]
AtLeast(n) == [exact |-> FALSE, length |-> n]
TokenFormats ==
  <<[rule |-> "aws-access-key", body |-> Exactly(16)],
    [rule |-> "github-token", body |-> AtLeast(36)],
    [rule |-> "github-token", body |-> AtLeast(82)],
    [rule |-> "gitlab-token", body |-> AtLeast(20)],
    [rule |-> "slack-token", body |-> AtLeast(15)],
    [rule |-> "stripe-secret-key", body |-> AtLeast(24)],
    [rule |-> "google-api-key", body |-> Exactly(35)],
    [rule |-> "openai-api-key", body |-> AtLeast(64)],
    [rule |-> "anthropic-api-key", body |-> AtLeast(64)],
    [rule |-> "npm-token", body |-> Exactly(36)],
    [rule |-> "pypi-token", body |-> AtLeast(50)],
    [rule |-> "huggingface-token", body |-> Exactly(34)],
    [rule |-> "shopify-token", body |-> Exactly(32)],
    [rule |-> "sendgrid-api-key", body |-> AtLeast(66)]>>

LengthAdmits(format, length) ==
  IF format.body.exact THEN length = format.body.length ELSE length >= format.body.length
TokensOn(line) ==
  {c.format : c \in {d \in line.candidates : d.word /\ LengthAdmits(TokenFormats[d.format], d.body)}}

\* The value assigned to a key that names a secret: [length, classes,
\* distinct, placeholder].
HighEntropy(value) ==
  /\ value.length \in 20 .. 256
  /\ ~value.placeholder
  /\ value.classes >= 3 /\ value.distinct >= 10

\* One rule for a line, a token before a key's header before a value.
SecretRule(line) ==
  IF TokensOn(line) # {} THEN TokenFormats[Min(TokensOn(line))].rule
  ELSE IF line.header THEN "private-key"
  ELSE IF HighEntropy(line.assigned) THEN "high-entropy-secret"
  ELSE "none"

LinesOf(text) == {text[i] : i \in DOMAIN text}
AddedSecrets(path, base, head) ==
  {[fingerprint |-> <<SecretRule(head[i]), [path |-> path], <<>>, 0>>, path |-> path, line |-> i] :
     i \in {j \in DOMAIN head : head[j] \notin LinesOf(base) /\ SecretRule(head[j]) # "none"}}

-----------------------------------------------------------------------------
(* link-inventory.  Links are counted by file, site and exact text, which  *)
(* is a sequence of pieces: a link ends where ASCII has whitespace, and so *)
(* may hold what only Unicode takes for it.                                *)
Whitespace == {"no-break space", "line tabulation"}

SiteKind(path) ==
  CASE IsWorkflow(path) -> "workflow-action"
    [] path.name = "Dockerfile" -> "container-image"
    [] path.name = "README.md" -> "markdown"
    [] path.name = "index.html" -> "html"
    [] path.name \in {"Cargo.lock", "package-lock.json", "pnpm-lock.yaml", "flake.lock"} -> "lockfile"
    [] path.name \in {"Cargo.toml", "package.json", "pyproject.toml", "package.yaml", "flake.nix"} -> "manifest"
    [] OTHER -> "plain-text"

\* The action a workflow's line uses, the image a Dockerfile's line starts
\* from, and the urls of any line.
LinksOn(path, line) ==
  (IF IsWorkflow(path) /\ line.states.is = "uses"
     THEN <<<<line.states.action, line.states.revision>>>> ELSE <<>>)
    \o (IF path.name = "Dockerfile" /\ line.states.is = "from" THEN <<<<line.states.image>>>> ELSE <<>>)
    \o line.urls
TextsOf(path, lines) ==
  UNION {{LinksOn(path, lines[i])[k] : k \in DOMAIN LinksOn(path, lines[i])} : i \in DOMAIN lines}
CountOf(path, lines, text) ==
  Cardinality(UNION {{<<i, k>> : k \in {l \in DOMAIN LinksOn(path, lines[i]) : LinksOn(path, lines[i])[l] = text}} :
                       i \in DOMAIN lines})

AddedLinks(path, base, head) ==
  {t \in TextsOf(path, head) : CountOf(path, head, t) > CountOf(path, base, t)}
\* What a fingerprint keeps of a title, here the text of the link in it.
CollapseWhitespace(text) == SelectSeq(text, LAMBDA piece : piece \notin Whitespace)
LinkFindings(path, base, head) ==
  {[fingerprint |-> <<SiteKind(path), [path |-> path], CollapseWhitespace(t), 0>>,
    path |-> path, text |-> t] : t \in AddedLinks(path, base, head)}
\* What the signal counts: each link as often as it grew.
LinksGained(path, base, head) ==
  UNION {{<<path, t, k>> : k \in CountOf(path, base, t) + 1 .. CountOf(path, head, t)} :
           t \in AddedLinks(path, base, head)}

-----------------------------------------------------------------------------
(* repository-controls: files that say who or what may change the others,  *)
(* some at any depth, some at one place only.                              *)
ControlKind(path) ==
  CASE path.name = "CODEOWNERS" -> "codeowners"
    [] path.name = ".gitattributes" -> "attributes"
    [] path.name = ".gitmodules" -> "gitmodules"
    [] path.dir = ".github" /\ path.name \in {"dependabot.yml", "renovate.json"} -> "repository-automation"
    [] path.dir = "" /\ path.name \in {".npmrc", ".yarnrc", "rust-toolchain"} -> "package-manager"
    [] path.dir = ".cargo" /\ path.name \in {"config", "config.toml"} -> "package-manager"
    [] OTHER -> "none"
ControlReport(path, same) ==
  IF same THEN {} ELSE {[fingerprint |-> <<ControlKind(path), [path |-> path], <<>>, 0>>, path |-> path]}
=============================================================================
