----------------------------- MODULE ForgeReads -----------------------------
(***************************************************************************)
(* How one project's forge is read on GitHub: which installation of the    *)
(* app covers its repository (src/src/forge/github/installation.rs, told   *)
(* by src/src/http/webhook.rs), the tokens asked for in its name           *)
(* (src/src/forge/github/app.rs), the requests that carry them             *)
(* (src/src/forge/reader.rs), and what a pass makes of an answer, a        *)
(* refusal or an exhausted budget (src/src/worker/discovery.rs,            *)
(* src/src/analysis/runner.rs).                                            *)
(*                                                                         *)
(* GitHub's side - repositories that are renamed, installed on and taken   *)
(* away again - is the environment's.  Deliveries arrive in any order,     *)
(* more than once or not at all.  Time passes in steps: a token has some   *)
(* left, and a request takes at most TIMEOUT.  A name once given up is not *)
(* given to another repository.                                            *)
(***************************************************************************)
EXTENDS Integers, FiniteSetsExt

CONSTANTS
  Repository,    \* ids GitHub gives them
  FullName,
  Installation,
  NoInstallation,
  First,         \* the name each repository has at first
  TOKEN_LIFE, TOKEN_MARGIN, TIMEOUT,   \* in steps of the clock
  MaxChanges,    \* bound on what is changed on GitHub
  MaxMishaps     \* bound on lost deliveries and on answers that are none

ASSUME ForgeReadsAssumption ==
  /\ Repository \subseteq Nat \ {0}
  /\ NoInstallation \notin Installation
  /\ \A r \in Repository : First[r] \in FullName
  /\ \A q, r \in Repository : First[q] = First[r] => q = r  \* a name names one of them
  /\ TIMEOUT \in Nat /\ TOKEN_MARGIN \in Nat /\ TOKEN_LIFE \in Nat
  /\ TIMEOUT <= TOKEN_MARGIN /\ TOKEN_MARGIN + TIMEOUT < TOKEN_LIFE
  /\ MaxChanges \in Nat /\ MaxMishaps \in Nat

VARIABLES
  github,      \* name and installation of each repository there
  renamed,     \* names given up, which redirect
  changes,     \* how often GitHub changed
  deliveries,  \* webhooks under way
  covered,     \* table github_installation_repositories
  remote,      \* the name in the project's remote
  tokens,      \* GithubApp::tokens
  pass,        \* the pass, at one of its reads
  kept,        \* ghost: why what is missing from a stored analysis is missing
  mishaps

forge == <<github, renamed, changes>>
readsVars == <<forge, deliveries, covered, remote, tokens, pass, kept, mishaps>>

-----------------------------------------------------------------------------
NoCover == [installation |-> NoInstallation, name |-> CHOOSE n \in FullName : TRUE]
Delivery ==
  [what : {"cover", "uncover"}, repository : Repository, installation : Installation, name : FullName] \cup
  [what : {"remove"}, installation : Installation]
Token == [installation : Installation, name : FullName, repository : Repository, left : 0 .. TOKEN_LIFE]
NoToken == [left |-> 0]

Rest == [at |-> "rest", read |-> "commit", installation |-> NoInstallation, token |-> NoToken,
         waited |-> 0, missing |-> {}]

ReadsInit ==
  /\ github = [r \in Repository |-> [name |-> First[r], installation |-> NoInstallation]]
  /\ renamed = [n \in {} |-> 0]
  /\ changes = 0
  /\ deliveries = {}
  /\ covered = [r \in Repository |-> NoCover]
  /\ remote \in {First[r] : r \in Repository}
  /\ tokens = {} /\ pass = Rest /\ kept = {}
  /\ mishaps = 0

-----------------------------------------------------------------------------
(* GitHub, and those who use it.                                           *)

Named(n) == IF n \in DOMAIN renamed THEN renamed[n] ELSE CHOOSE r \in Repository : github[r].name = n
Covers(what, r) ==
  [what |-> what, repository |-> r, installation |-> github[r].installation, name |-> github[r].name]

Install(r, i) ==
  /\ changes < MaxChanges /\ github[r].installation = NoInstallation
  /\ github' = [github EXCEPT ![r].installation = i]
  /\ deliveries' = deliveries \cup {[Covers("cover", r) EXCEPT !.installation = i]}
  /\ changes' = changes + 1
  /\ UNCHANGED <<renamed, covered, remote, tokens, pass, kept, mishaps>>

Uninstall(r) ==
  /\ changes < MaxChanges /\ github[r].installation # NoInstallation
  /\ github' = [github EXCEPT ![r].installation = NoInstallation]
  /\ deliveries' = deliveries \cup {Covers("uncover", r)}
  /\ changes' = changes + 1
  /\ UNCHANGED <<renamed, covered, remote, tokens, pass, kept, mishaps>>

Suspend(i) ==
  /\ changes < MaxChanges /\ \E r \in Repository : github[r].installation = i
  /\ github' = [r \in Repository |->
       IF github[r].installation = i THEN [github[r] EXCEPT !.installation = NoInstallation] ELSE github[r]]
  /\ deliveries' = deliveries \cup {[what |-> "remove", installation |-> i]}
  /\ changes' = changes + 1
  /\ UNCHANGED <<renamed, covered, remote, tokens, pass, kept, mishaps>>

Rename(r, n) ==
  /\ changes < MaxChanges
  /\ n \notin DOMAIN renamed \cup {github[q].name : q \in Repository}
  /\ github' = [github EXCEPT ![r].name = n]
  /\ renamed' = [m \in DOMAIN renamed \cup {github[r].name} |-> IF m = github[r].name THEN r ELSE renamed[m]]
  /\ changes' = changes + 1
  /\ UNCHANGED <<deliveries, covered, remote, tokens, pass, kept, mishaps>>

(* A commit or a change: the delivery names its installation.              *)
Push(r) ==
  /\ github[r].installation # NoInstallation /\ Covers("cover", r) \notin deliveries
  /\ deliveries' = deliveries \cup {Covers("cover", r)}
  /\ UNCHANGED <<forge, covered, remote, tokens, pass, kept, mishaps>>

Lose(d) ==
  /\ d \in deliveries /\ mishaps < MaxMishaps
  /\ deliveries' = deliveries \ {d}
  /\ mishaps' = mishaps + 1
  /\ UNCHANGED <<forge, covered, remote, tokens, pass, kept>>

-----------------------------------------------------------------------------
(* webhook::handle.                                                        *)

(* Faulty variant: a repository that has a row keeps it.                   *)
FirstCover(d) ==
  IF covered[d.repository] # NoCover THEN covered
  ELSE [covered EXCEPT ![d.repository] = [installation |-> d.installation, name |-> d.name]]
Cover(d) == [covered EXCEPT ![d.repository] = [installation |-> d.installation, name |-> d.name]]
Uncover(d) ==
  [covered EXCEPT ![d.repository] = IF @.installation = d.installation THEN NoCover ELSE @]
Remove(d) ==
  [r \in Repository |-> IF covered[r].installation = d.installation THEN NoCover ELSE covered[r]]

(* A delivery may come again.                                              *)
Handle(d, again) ==
  /\ d \in deliveries /\ (again => mishaps < MaxMishaps)
  /\ covered' = CASE d.what = "cover" -> Cover(d)
                  [] d.what = "uncover" -> Uncover(d)
                  [] d.what = "remove" -> Remove(d)
  /\ deliveries' = IF again THEN deliveries ELSE deliveries \ {d}
  /\ mishaps' = IF again THEN mishaps + 1 ELSE mishaps
  /\ UNCHANGED <<forge, remote, tokens, pass, kept>>

-----------------------------------------------------------------------------
(* A read.                                                                 *)

(* GithubInstallation::for_project: the row of the smallest repository id. *)
ForProject ==
  LET rows == {r \in Repository : covered[r] # NoCover /\ covered[r].name = remote}
  IN IF rows = {} THEN NoInstallation ELSE covered[Min(rows)].installation

Reads == {"commit", "checks", "changes"}

(* The pass starts with a new head of the default branch or, that one      *)
(* being analysed, with the changes.                                       *)
Begin(read) ==
  /\ pass = Rest /\ read \in {"commit", "changes"}
  /\ pass' = [Rest EXCEPT !.at = "lookup", !.read = read]
  /\ UNCHANGED <<forge, deliveries, covered, remote, tokens, kept, mishaps>>

(* installation_token: the one kept, while more than its margin is left.   *)
(* Faulty variant: a token is good to its end.                             *)
KeptToItsEnd(i) == {t \in tokens : t.installation = i /\ t.name = remote /\ t.left > 0}
Kept(i) == {t \in tokens : t.installation = i /\ t.name = remote /\ t.left > TOKEN_MARGIN}

Lookup ==
  /\ pass.at = "lookup"
  /\ LET next == [pass EXCEPT !.installation = ForProject, !.token = NoToken, !.waited = 0] IN
     IF ForProject = NoInstallation THEN pass' = [next EXCEPT !.at = "sent"]
     ELSE IF Kept(ForProject) = {} THEN pass' = [next EXCEPT !.at = "asked"]
     ELSE \E t \in Kept(ForProject) : pass' = [next EXCEPT !.at = "sent", !.token = t]
  /\ UNCHANGED <<forge, deliveries, covered, remote, tokens, kept, mishaps>>

(* GitHub gives out a token for a repository by its name of the day, and   *)
(* the answer takes its time.                                              *)
Granted ==
  {[installation |-> pass.installation, name |-> remote, repository |-> r, left |-> TOKEN_LIFE - pass.waited] :
     r \in {q \in Repository : github[q] = [name |-> remote, installation |-> pass.installation]}}

Grant ==
  /\ pass.at = "asked"
  /\ \E t \in Granted :
       /\ tokens' = {u \in tokens : <<u.installation, u.name>> # <<t.installation, t.name>>} \cup {t}
       /\ pass' = [pass EXCEPT !.at = "sent", !.token = t, !.waited = 0]
  /\ UNCHANGED <<forge, deliveries, covered, remote, kept, mishaps>>

(* A refused token is no obstacle: the installation was taken away.        *)
RefuseToken ==
  /\ pass.at = "asked" /\ Granted = {}
  /\ pass' = [pass EXCEPT !.at = "sent", !.waited = 0]
  /\ UNCHANGED <<forge, deliveries, covered, remote, tokens, kept, mishaps>>

-----------------------------------------------------------------------------
(* Answers.                                                                *)

(* What a forge that has no budget left says of it: GitHub that nothing    *)
(* remains, others that it was too much; and both when there will be more. *)
(* GitHub says when of any answer.                                         *)
Exhausted == {[status |-> 403, remaining |-> 0, reset |-> TRUE],
              [status |-> 429, remaining |-> 1, reset |-> TRUE]}
Refused == {[status |-> 403, remaining |-> 1, reset |-> TRUE]}
Broken == {[status |-> 500, remaining |-> 1, reset |-> FALSE]}

(* refusal.                                                                *)
(* Faulty variant: only 429 is told apart.                                 *)
RefusalByStatus(a) == IF a.reset /\ a.status = 429 THEN "wait" ELSE "refused"
Refusal(a) == IF a.reset /\ (a.remaining = 0 \/ a.status = 429) THEN "wait" ELSE "refused"

(* Api::get, GithubApp::answer.                                            *)
Error(a) == IF a.status < 500 THEN Refusal(a) ELSE "failed"

(* The read that follows, or the end; an analysis is stored after its      *)
(* checks were read.                                                       *)
Advance(missing) ==
  CASE pass.read = "commit" ->
         /\ pass' = [pass EXCEPT !.at = "lookup", !.read = "checks", !.missing = missing]
         /\ UNCHANGED <<kept, remote>>
    [] pass.read = "checks" ->
         /\ kept' = kept \cup missing
         /\ pass' = [pass EXCEPT !.at = "lookup", !.read = "changes", !.missing = {}]
         /\ UNCHANGED remote

(* moved_remote and repoint: changes name the repository they belong to;   *)
(* then one of them is new, or none is.                                    *)
Answered ==
  /\ pass.at = "sent"
  /\ pass.token # NoToken =>
       /\ pass.token.repository = Named(remote) /\ pass.token.left > 0
       /\ github[Named(remote)].installation = pass.token.installation
  /\ IF pass.read = "changes"
     THEN /\ remote' = github[Named(remote)].name
          /\ pass' \in {Rest, [Rest EXCEPT !.at = "lookup"]}
          /\ UNCHANGED kept
     ELSE Advance(pass.missing)
  /\ UNCHANGED <<forge, deliveries, covered, tokens, mishaps>>

(* A token GitHub has taken back is refused; the rest is mishaps.          *)
Unanswered(a) ==
  /\ pass.at \in {"sent", "asked"}
  /\ \/ mishaps < MaxMishaps /\ mishaps' = mishaps + 1
     \/ /\ pass.at = "sent" /\ pass.token # NoToken /\ a \in Refused
        /\ github[Named(remote)].installation # pass.token.installation
        /\ UNCHANGED mishaps
  /\ IF pass.at = "asked" /\ Error(a) = "refused"
     THEN /\ pass' = [pass EXCEPT !.at = "sent", !.waited = 0]
          /\ UNCHANGED <<kept, remote>>
     ELSE IF pass.read = "changes" \/ Error(a) = "wait"
     THEN /\ pass' = Rest
          /\ UNCHANGED <<kept, remote>>
     ELSE Advance(pass.missing \cup {a})
  /\ UNCHANGED <<forge, deliveries, covered, tokens>>

(* Time passes, for tokens and for a request that is out.                  *)
Older(t) == IF t = NoToken THEN t ELSE [t EXCEPT !.left = @ - 1]

Tick ==
  /\ pass.at \in {"sent", "asked"} => pass.waited < TIMEOUT
  /\ tokens' = {Older(t) : t \in {u \in tokens : u.left > 1}}
  /\ pass' = IF pass.at \in {"sent", "asked"}
             THEN [pass EXCEPT !.waited = @ + 1, !.token = Older(@)]
             ELSE pass
  /\ <<tokens, pass>>' # <<tokens, pass>>
  /\ UNCHANGED <<forge, deliveries, covered, remote, kept, mishaps>>

(* The process stops: tokens are in memory only.                           *)
Restart ==
  /\ mishaps < MaxMishaps
  /\ tokens' = {} /\ pass' = Rest
  /\ mishaps' = mishaps + 1
  /\ UNCHANGED <<forge, deliveries, covered, remote, kept>>

-----------------------------------------------------------------------------
ReadsNext ==
  \/ \E r \in Repository, i \in Installation : Install(r, i)
  \/ \E r \in Repository : Uninstall(r) \/ Push(r)
  \/ \E i \in Installation : Suspend(i)
  \/ \E r \in Repository, n \in FullName : Rename(r, n)
  \/ \E d \in deliveries : Lose(d) \/ \E again \in BOOLEAN : Handle(d, again)
  \/ \E read \in Reads : Begin(read)
  \/ Lookup \/ Grant \/ RefuseToken \/ Answered
  \/ \E a \in Exhausted \cup Refused \cup Broken : Unanswered(a)
  \/ Tick \/ Restart

ReadsSpec == ReadsInit /\ [][ReadsNext]_readsVars

(* Repositories go on being pushed to, deliveries come sooner or later,    *)
(* passes are begun again and again, and requests end.                     *)
ReadsFairness ==
  /\ \A r \in Repository : WF_readsVars(Push(r))
  /\ \A d \in Delivery : WF_readsVars(Handle(d, FALSE))
  /\ WF_readsVars(\E read \in Reads : Begin(read))
  /\ WF_readsVars(Lookup) /\ WF_readsVars(Grant) /\ WF_readsVars(RefuseToken)
  /\ WF_readsVars(Answered \/ \E a \in Refused : Unanswered(a))
  /\ WF_readsVars(Tick)

FairReads == ReadsSpec /\ ReadsFairness

-----------------------------------------------------------------------------
(* The tables, the tokens and the read under way are what they can be.     *)
ReadsTypeOK ==
  /\ github \in [Repository -> [name : FullName, installation : Installation \cup {NoInstallation}]]
  /\ deliveries \subseteq Delivery
  /\ \A r \in Repository : covered[r] # NoCover => covered[r].installation \in Installation
  /\ remote \in FullName /\ tokens \subseteq Token
  /\ pass.at \in {"rest", "lookup", "asked", "sent"} /\ pass.read \in Reads
  /\ pass.waited \in 0 .. TIMEOUT

(* "A request that starts with it does not arrive after it expired"        *)
(* (github/app.rs:22), and "it is asked for that repository alone"         *)
(* (app.rs:165): whatever is renamed, moved between installations and read *)
(* again, a request bears a token asked for under the name it reads.       *)
TokensReachTheirRepository ==
  /\ ReadsTypeOK
  /\ pass.at = "sent" /\ pass.token # NoToken =>
       /\ pass.token.left > 0
       /\ pass.token.name = remote /\ pass.token.installation = pass.installation
       /\ github[pass.token.repository].name # remote => Named(remote) = pass.token.repository

(* "An exhausted budget is a wait, not an answer.  Recorded as an absence  *)
(* it would key an analysis to this head that nothing computes again"      *)
(* (discovery.rs:327): whichever request ran into it, for a token, for a   *)
(* commit or for its checks, no stored analysis lacks what a budget        *)
(* withheld.                                                               *)
WaitsAreNotAnswers == kept \cap Exhausted = {}

(* "A repository that was renamed, or that joined the installation while   *)
(* error.menu was down, is covered again" (webhook.rs:248): once nothing   *)
(* is changed any more, the project's remote is the repository's name and  *)
(* its reads find the installation, in whatever order deliveries came and  *)
(* whichever were lost.                                                    *)
CoverCatchesUp ==
  <>[](LET r == Named(remote) IN github[r].installation # NoInstallation =>
         remote = github[r].name /\ ForProject = github[r].installation)
=============================================================================
