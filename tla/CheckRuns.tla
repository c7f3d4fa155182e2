------------------------------ MODULE CheckRuns ------------------------------
(* What the forges say of a commit's checks, each in words of its own      *)
(* (src/src/forge), and what ci-check-runs makes of them.                  *)
EXTENDS Naturals, Sequences, FiniteSets

CONSTANTS
  PAGE_SIZE,  \* as many as GitHub and GitLab are asked for, and only once
  GITEA_PAGE  \* as many as Gitea sends of itself

(* A check is [name, status, conclusion, app, pipeline] as its forge tells *)
(* it; only GitHub has two words for it, and says which app wrote it, and  *)
(* only GitLab has it in a pipeline, its number in their list.             *)
Words ==
  [github |-> {"none", "success", "failure", "neutral", "skipped", "cancelled", "timed_out",
               "action_required", "stale"},
   gitlab |-> {"created", "waiting_for_resource", "preparing", "pending", "running", "success",
               "failed", "canceled", "skipped", "manual", "scheduled"},
   gitea |-> {"pending", "success", "error", "failure", "warning"}]
Says(forge, check) ==
  IF forge = "github"
  THEN check.conclusion \in Words.github /\ (check.conclusion # "none" => check.status = "completed")
  ELSE check.status \in Words[forge]

QueuedWords == {"queued", "pending", "created", "scheduled"}
CompletedWords ==
  {"completed", "success", "failure", "failed", "error", "warning", "neutral", "skipped",
   "cancelled", "canceled", "timed_out", "action_required", "stale"}
CheckStatus(word) ==
  CASE word \in QueuedWords -> "Queued"
    [] word \in CompletedWords -> "Completed"
    [] OTHER -> "InProgress"

ConclusionWords ==
  [Success |-> {"success"}, Failure |-> {"failure", "failed", "error"},
   Neutral |-> {"warning", "neutral"}, Skipped |-> {"skipped"},
   Cancelled |-> {"cancelled", "canceled"}, TimedOut |-> {"timed_out"},
   ActionRequired |-> {"action_required"}, Stale |-> {"stale"}]
CheckConclusion(word) ==
  LET said == {c \in DOMAIN ConclusionWords : word \in ConclusionWords[c]}
  IN IF said = {} THEN "none" ELSE CHOOSE c \in said : TRUE

GithubCheck(check) ==
  [name |-> check.name, status |-> CheckStatus(check.status), conclusion |-> CheckConclusion(check.conclusion)]
GitlabCheck(check) ==
  [name |-> check.name, status |-> CheckStatus(check.status), conclusion |-> CheckConclusion(check.status)]
GiteaCheck(check) ==
  [name |-> check.name, status |-> CheckStatus(check.status), conclusion |-> CheckConclusion(check.status)]

\* No second page is asked for: of GitLab one of the pipelines, and one of the
\* jobs in each of them.
FirstPage(forge, checks) ==
  CASE forge = "github" -> {i \in DOMAIN checks : i <= PAGE_SIZE}
    [] forge = "gitlab" ->
         {i \in DOMAIN checks :
            /\ checks[i].pipeline <= PAGE_SIZE
            /\ Cardinality({j \in 1 .. i : checks[j].pipeline = checks[i].pipeline}) <= PAGE_SIZE}
    [] forge = "gitea" -> {i \in DOMAIN checks : i <= GITEA_PAGE}

\* On GitHub the checks of this server's own app are left out of the page.
OwnCheck(check, app) == app # 0 /\ check.app = app
GithubChecks(checks, app) ==
  [i \in {j \in FirstPage("github", checks) : ~OwnCheck(checks[j], app)} |-> GithubCheck(checks[i])]
ReadChecks(forge, checks, app) ==
  CASE forge = "github" -> GithubChecks(checks, app)
    [] forge = "gitlab" -> [i \in FirstPage(forge, checks) |-> GitlabCheck(checks[i])]
    [] forge = "gitea" -> [i \in FirstPage(forge, checks) |-> GiteaCheck(checks[i])]

\* The checks that count as failed, and the signal when there are any.
Classify(checks) ==
  Cardinality({i \in DOMAIN checks : checks[i].status = "Completed" /\ checks[i].conclusion = "Failure"})

=============================================================================
