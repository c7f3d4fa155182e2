------------------------------- MODULE SignIn -------------------------------
(***************************************************************************)
(* Signing in through GitHub and what a signed-in person holds: attempts,  *)
(* accounts and their instance role, sessions, API tokens, the middleware  *)
(* that tells who calls, and the housekeeping that deletes what expired    *)
(* (src/src/http/oauth/, src/src/http/auth/, src/src/user/).               *)
(*                                                                         *)
(* A sign-in is a redirect to GitHub, which sends the browser back with    *)
(* the state it was given; the callback then consumes the attempt, asks    *)
(* GitHub who it is, registers the account and opens a session, each a     *)
(* request or a transaction of its own, and its answer may be lost.  A     *)
(* person may have several sign-ins under way, open a callback twice, or   *)
(* in another browser.                                                     *)
(*                                                                         *)
(* Random strings are numbers nobody else has; a cookie of 0 is no cookie. *)
(* Time counts in steps, and what a life of one of them stands for is left *)
(* open.                                                                   *)
(***************************************************************************)
EXTENDS Integers, Sequences, FiniteSetsExt

CONSTANTS
  Person,             \* accounts at GitHub
  Browser,
  ALLOW_REGISTRATION,
  ATTEMPT_LIFE,       \* ATTEMPT_SECONDS, in steps of the clock
  SESSION_LIFE,       \* SESSION_SECONDS
  TokenName,          \* names of API tokens
  Never,              \* no expiry (NULL)
  Asked,              \* bound: the roles administrators ask for
  MaxTime,            \* bound on the clock
  MaxStates,          \* bound on sign-ins
  MaxChanges,         \* bound on changes of a role between their check and their write
  MaxFailures         \* bound on failures of storage

ASSUME SignInAssumption ==
  /\ ALLOW_REGISTRATION \in BOOLEAN
  /\ ATTEMPT_LIFE \in Nat \ {0} /\ SESSION_LIFE \in Nat \ {0}
  /\ MaxTime \in Nat /\ MaxStates \in Nat /\ MaxChanges \in Nat
  /\ MaxFailures \in Nat
  /\ Never \notin Nat
  /\ Asked \subseteq {"guest", "member", "admin"}

VARIABLES
  now,
  role,       \* table users: access_role of those registered
  attempts,   \* table auth_attempts
  begun,      \* ghost: the browser each state was handed to
  cookies,    \* the state and the session cookie of each browser
  callbacks,  \* callbacks past their attempt
  sessions,   \* table sessions
  tokens,     \* table api_tokens
  changes,    \* changes of a role let through, not yet written
  sweep,      \* where the housekeeping of a tick is, and the time it read
  failures

vars == <<now, role, attempts, begun, cookies, callbacks, sessions, tokens,
          changes, sweep, failures>>

-----------------------------------------------------------------------------
UserRole == {"guest", "member", "admin"}
Time == 0 .. MaxTime + SESSION_LIFE + ATTEMPT_LIFE
State == 1 .. MaxStates
Handed == 1 .. Len(begun)

(* A session is named after the sign-in it comes of.                       *)
Attempt == [state : State, expires : Time]
Session == [state : State, user : Person, expires : Time]
ApiToken == [user : Person, name : TokenName, expires : Time \cup {Never}]

Stages == {"exchange", "register", "session", "answer"}
Callback == [browser : Browser, state : State, at : Stages, user : Person]
Change == [who : Person, to : UserRole]

Init ==
  /\ now = 0
  /\ role = [p \in Person |-> "none"]
  /\ attempts = {} /\ sessions = {} /\ tokens = {}
  /\ begun = <<>>
  /\ cookies = [b \in Browser |-> [state |-> 0, session |-> 0]]
  /\ callbacks = {} /\ changes = {}
  /\ sweep = [at |-> "rest", read |-> 0]
  /\ failures = 0

Tick ==
  /\ now < MaxTime
  /\ now' = now + 1
  /\ UNCHANGED <<role, attempts, begun, cookies, callbacks, sessions, tokens,
                 changes, sweep, failures>>

-----------------------------------------------------------------------------
(* Who a credential is of.                                                 *)

(* Faulty variant: a credential is good for the moment it expires at.      *)
LiveToItsEnd(expires) == expires = Never \/ expires >= now
Live(expires) == expires = Never \/ expires > now

LiveSessions == {s \in sessions : Live(s.expires)}
LiveTokens == {t \in tokens : Live(t.expires)}

(* session::user_for, of the cookie a browser sends.                       *)
SignedIn(b) == {s.user : s \in {x \in LiveSessions : x.state = cookies[b].session}}

-----------------------------------------------------------------------------
(* The sign-in.                                                            *)

(* login: an attempt, and a cookie that replaces the one before it.        *)
Login(b) ==
  /\ Len(begun) < MaxStates
  /\ begun' = Append(begun, b)
  /\ attempts' = attempts \cup
       {[state |-> Len(begun) + 1, expires |-> now + ATTEMPT_LIFE]}
  /\ cookies' = [cookies EXCEPT ![b].state = Len(begun) + 1]
  /\ UNCHANGED <<now, role, callbacks, sessions, tokens, changes, sweep, failures>>

(* callback, refused at its cookie or at its attempt: the cookie goes, and *)
(* so does the attempt if it was asked for.                                *)
Refuse(b, state) ==
  /\ cookies' = [cookies EXCEPT ![b].state = 0]
  /\ attempts' = IF cookies[b].state = state
                 THEN {a \in attempts : a.state # state} ELSE attempts
  /\ UNCHANGED <<now, role, begun, callbacks, sessions, tokens, changes, sweep, failures>>

(* attempt::consume: whether there is one, and that there is none after.   *)
(* Faulty variant: an attempt is good until housekeeping finds it.         *)
ConsumeKept(b, state, p) ==
  /\ cookies[b].state = state
  /\ \E a \in attempts : a.state = state /\ a.expires > now
  /\ callbacks' = callbacks \cup {[browser |-> b, state |-> state, at |-> "exchange", user |-> p]}
  /\ UNCHANGED <<now, role, attempts, begun, cookies, sessions, tokens, changes, sweep, failures>>
(* Faulty variant: the cookie is not compared with the state.              *)
ConsumeAnywhere(b, state, p) ==
  /\ \E a \in attempts : a.state = state /\ a.expires > now
  /\ attempts' = {a \in attempts : a.state # state}
  /\ callbacks' = callbacks \cup {[browser |-> b, state |-> state, at |-> "exchange", user |-> p]}
  /\ UNCHANGED <<now, role, begun, cookies, sessions, tokens, changes, sweep, failures>>
Consume(b, state, p) ==
  /\ cookies[b].state = state
  /\ \E a \in attempts : a.state = state /\ a.expires > now
  /\ attempts' = {a \in attempts : a.state # state}
  /\ callbacks' = callbacks \cup {[browser |-> b, state |-> state, at |-> "exchange", user |-> p]}
  /\ UNCHANGED <<now, role, begun, cookies, sessions, tokens, changes, sweep, failures>>

(* GitHub redirects the browser, or somebody opens the URL again or in     *)
(* another one.                                                            *)
OpenCallback(b, state) ==
  \/ \E p \in Person : Consume(b, state, p)
  \/ /\ ~ (cookies[b].state = state /\ \E a \in attempts : a.state = state /\ a.expires > now)
     /\ Refuse(b, state)

To(c, at) == callbacks' = (callbacks \ {c}) \cup {[c EXCEPT !.at = at]}

(* The code is exchanged, and GitHub asked for the user of the token.      *)
Exchange(c) ==
  /\ c.at = "exchange"
  /\ To(c, "register")
  /\ UNCHANGED <<now, role, attempts, begun, cookies, sessions, tokens, changes, sweep, failures>>

(* User::register: an account that is there signs in again, the first one  *)
(* of the instance becomes its administrator.                              *)
NewRole(p) == IF \A q \in Person : role[q] = "none" THEN "admin" ELSE "guest"
Register(c) ==
  /\ c.at = "register"
  /\ role[c.user] = "none" => ALLOW_REGISTRATION
  /\ role' = IF role[c.user] = "none"
             THEN [role EXCEPT ![c.user] = NewRole(c.user)] ELSE role
  /\ To(c, "session")
  /\ UNCHANGED <<now, attempts, begun, cookies, sessions, tokens, changes, sweep, failures>>

(* session::create.                                                        *)
OpenSession(c) ==
  /\ c.at = "session"
  /\ sessions' = sessions \cup
       {[state |-> c.state, user |-> c.user, expires |-> now + SESSION_LIFE]}
  /\ To(c, "answer")
  /\ UNCHANGED <<now, role, attempts, begun, cookies, tokens, changes, sweep, failures>>

(* signed_in: the answer sets one cookie and clears the other.             *)
Answer(c) ==
  /\ c.at = "answer"
  /\ cookies' = [cookies EXCEPT ![c.browser] = [state |-> 0, session |-> c.state]]
  /\ callbacks' = callbacks \ {c}
  /\ UNCHANGED <<now, role, attempts, begun, sessions, tokens, changes, sweep, failures>>

(* GitHub does not answer, storage refuses, registration is closed: the    *)
(* cookie goes with the answer.  Or the browser is gone, and it stays.     *)
GiveUp(c) ==
  /\ callbacks' = callbacks \ {c}
  /\ \/ /\ c.at # "answer"
        /\ cookies' = [cookies EXCEPT ![c.browser].state = 0]
     \/ UNCHANGED cookies
  /\ UNCHANGED <<now, role, attempts, begun, sessions, tokens, changes, sweep, failures>>

-----------------------------------------------------------------------------
(* What the signed-in may do.                                              *)

(* logout: the cookie goes even if the row cannot be deleted.              *)
Logout(b) ==
  /\ cookies[b].session # 0
  /\ cookies' = [cookies EXCEPT ![b].session = 0]
  /\ \/ sessions' = {s \in sessions : s.state # cookies[b].session} /\ UNCHANGED failures
     \/ failures < MaxFailures /\ failures' = failures + 1 /\ UNCHANGED sessions
  /\ UNCHANGED <<now, role, attempts, begun, callbacks, tokens, changes, sweep>>

(* TokenApi::create_api_token: the name is unique among all rows, those    *)
(* that expired and are not deleted yet too.                               *)
CreateToken(b, name, expires) ==
  /\ \E p \in SignedIn(b) :
       /\ \A t \in tokens : ~ (t.user = p /\ t.name = name)
       /\ expires # Never => expires > now
       /\ tokens' = tokens \cup {[user |-> p, name |-> name, expires |-> expires]}
  /\ UNCHANGED <<now, role, attempts, begun, cookies, callbacks, sessions, changes, sweep, failures>>

(* TokenApi::revoke_api_token.                                             *)
RevokeToken(b, name) ==
  /\ \E p \in SignedIn(b) :
       tokens' = {t \in tokens : ~ (t.user = p /\ t.name = name)}
  /\ UNCHANGED <<now, role, attempts, begun, cookies, callbacks, sessions, changes, sweep, failures>>

(* UserApi::set_user_role: the caller's role is the one the middleware     *)
(* read.                                                                   *)
CheckSetRole(b, who, to) ==
  /\ Cardinality(changes) < MaxChanges
  /\ \E p \in SignedIn(b) : role[p] = "admin"
  /\ changes' = changes \cup {[who |-> who, to |-> to]}
  /\ UNCHANGED <<now, role, attempts, begun, cookies, callbacks, sessions, tokens, sweep, failures>>

(* User::set_role: an account nobody has, or the last administrator, is    *)
(* left as it is.                                                          *)
(* Faulty variant: administrators may demote themselves, the last one too. *)
AnyChange(c) == role[c.who] # "none"
Changeable(c) ==
  /\ role[c.who] # "none"
  /\ role[c.who] = "admin" /\ c.to # "admin" =>
       Cardinality({p \in Person : role[p] = "admin"}) # 1
SetRole(c) ==
  /\ role' = IF Changeable(c) THEN [role EXCEPT ![c.who] = c.to] ELSE role
  /\ changes' = changes \ {c}
  /\ UNCHANGED <<now, attempts, begun, cookies, callbacks, sessions, tokens, sweep, failures>>

-----------------------------------------------------------------------------
(* clean_up: three deletions one after another, of what had expired when   *)
(* it began; the first that fails ends it.                                 *)

Expired(expires) == expires # Never /\ expires <= sweep.read

BeginSweep ==
  /\ sweep.at = "rest"
  /\ sweep' = [at |-> "attempts", read |-> now]
  /\ UNCHANGED <<now, role, attempts, begun, cookies, callbacks, sessions, tokens, changes, failures>>

SweepAttempts ==
  /\ sweep.at = "attempts"
  /\ attempts' = {a \in attempts : ~ Expired(a.expires)}
  /\ sweep' = [sweep EXCEPT !.at = "sessions"]
  /\ UNCHANGED <<now, role, begun, cookies, callbacks, sessions, tokens, changes, failures>>

SweepSessions ==
  /\ sweep.at = "sessions"
  /\ sessions' = {s \in sessions : ~ Expired(s.expires)}
  /\ sweep' = [sweep EXCEPT !.at = "tokens"]
  /\ UNCHANGED <<now, role, attempts, begun, cookies, callbacks, tokens, changes, failures>>

SweepTokens ==
  /\ sweep.at = "tokens"
  /\ tokens' = {t \in tokens : ~ Expired(t.expires)}
  /\ sweep' = [sweep EXCEPT !.at = "rest"]
  /\ UNCHANGED <<now, role, attempts, begun, cookies, callbacks, sessions, changes, failures>>

FailSweep ==
  /\ sweep.at # "rest" /\ failures < MaxFailures
  /\ failures' = failures + 1
  /\ sweep' = [sweep EXCEPT !.at = "rest"]
  /\ UNCHANGED <<now, role, attempts, begun, cookies, callbacks, sessions, tokens, changes>>

CleanUp == BeginSweep \/ SweepAttempts \/ SweepSessions \/ SweepTokens

-----------------------------------------------------------------------------
SigningIn(c) == Exchange(c) \/ Register(c) \/ OpenSession(c) \/ Answer(c) \/ GiveUp(c)

Next ==
  \/ Tick
  \/ \E b \in Browser :
       \/ Login(b) \/ Logout(b)
       \/ \E state \in Handed : OpenCallback(b, state)
       \/ \E name \in TokenName :
            \/ RevokeToken(b, name)
            \/ \E expires \in {Never, now + 1} : CreateToken(b, name, expires)
       \/ \E who \in Person, to \in Asked : CheckSetRole(b, who, to)
  \/ \E c \in callbacks : SigningIn(c)
  \/ \E c \in changes : SetRole(c)
  \/ CleanUp \/ FailSweep

Spec == Init /\ [][Next]_vars

-----------------------------------------------------------------------------
(* The rows are what the columns allow, and cookies name sign-ins begun.   *)
TypeOK ==
  /\ now \in 0 .. MaxTime
  /\ role \in [Person -> UserRole \cup {"none"}]
  /\ attempts \subseteq Attempt
  /\ begun \in Seq(Browser) /\ Len(begun) <= MaxStates
  /\ cookies \in [Browser -> [state : 0 .. Len(begun), session : 0 .. Len(begun)]]
  /\ callbacks \subseteq Callback
  /\ sessions \subseteq Session
  /\ tokens \subseteq ApiToken
  /\ changes \subseteq Change
  /\ sweep \in [at : {"rest", "attempts", "sessions", "tokens"}, read : 0 .. MaxTime]
  /\ failures \in 0 .. MaxFailures

(* "a state is good for one callback" (user/attempt.rs:26): a callback     *)
(* opened twice at once, or again while the first one waits for GitHub,    *)
(* comes to one session at most.                                           *)
OneCallbackPerState ==
  /\ TypeOK
  /\ \A c, d \in callbacks : c.state = d.state => c = d
  /\ \A c \in callbacks :
       (\E s \in sessions : s.state = c.state) => c.at = "answer"
  /\ \A s, t \in sessions : s.state = t.state => s = t
  /\ \A c \in callbacks, a \in attempts : c.state # a.state

(* "only the browser that started the sign-in can choose where the         *)
(* finished sign-in lands" (migrations/0023_auth_return_path.sql:2): a     *)
(* browser is signed in by a sign-in it began, wherever the callback was   *)
(* opened and whichever cookie was set last.                               *)
SignedInByItsOwn ==
  \A b \in Browser : cookies[b].session # 0 => begun[cookies[b].session] = b

(* An instance somebody has registered with keeps an administrator         *)
(* (user/mod.rs:114, :189), whoever registers at once and whoever demotes  *)
(* whom on the strength of a role read before.                             *)
AdministratorStays ==
  (\E p \in Person : role[p] # "none") => \E p \in Person : role[p] = "admin"

(* "Expired sessions are rejected by every authentication predicate, so    *)
(* deleting them is housekeeping" (user/session.rs:50, and of tokens       *)
(* user/token.rs:93): no step of it changes who a credential is of.        *)
HousekeepingChangesNoAnswer ==
  [][sweep' # sweep => LiveSessions' = LiveSessions /\ LiveTokens' = LiveTokens]_vars
=============================================================================
