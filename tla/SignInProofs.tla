---------------------------- MODULE SignInProofs ----------------------------
(***************************************************************************)
(* Proofs that the properties of SignIn hold for any number of people,     *)
(* browsers and sign-ins, and for any life of what they are given.         *)
(***************************************************************************)
EXTENDS SignIn, FiniteSetTheorems, SequenceTheorems, TLAPS

-----------------------------------------------------------------------------
(* The invariant.                                                          *)

(* No state is in use before it is handed out.                             *)
StatesHanded == \A x \in attempts \cup callbacks \cup sessions : x.state \in Handed

(* An attempt that led to a session is gone.                               *)
AttemptsOpen == \A a \in attempts, s \in sessions : a.state # s.state

(* A browser only ever holds, and comes back with, states handed to it.    *)
StateOfItsOwn ==
  /\ \A b \in Browser : cookies[b].state # 0 => begun[cookies[b].state] = b
  /\ \A c \in callbacks : begun[c.state] = c.browser

SweepBehind == sweep.read <= now

IInv ==
  /\ OneCallbackPerState /\ SignedInByItsOwn /\ AdministratorStays
  /\ StatesHanded /\ AttemptsOpen /\ StateOfItsOwn /\ SweepBehind

-----------------------------------------------------------------------------
(* Types.                                                                  *)

Cookie == [state : 0 .. Len(begun), session : 0 .. Len(begun)]

(* What is given out now expires at a time there is.                       *)
LEMMA ExpiryTyped ==
  ASSUME TypeOK
  PROVE  /\ now + ATTEMPT_LIFE \in Time /\ now + SESSION_LIFE \in Time /\ now + 1 \in Time
         /\ now \in Nat /\ MaxTime \in Nat /\ MaxStates \in Nat /\ MaxFailures \in Nat
  BY SignInAssumption DEF TypeOK, Time

(* A callback goes through its stages with the state it came with.         *)
LEMMA StageTyped ==
  ASSUME NEW c \in Callback, NEW at \in Stages
  PROVE  /\ [c EXCEPT !.at = at] \in Callback
         /\ [c EXCEPT !.at = at].at = at /\ [c EXCEPT !.at = at].state = c.state
         /\ [c EXCEPT !.at = at].browser = c.browser
  BY DEF Callback

(* A state a browser has been handed is one of those there can be.         *)
LEMMA HandedTyped ==
  ASSUME TypeOK
  PROVE  /\ Len(begun) \in Nat /\ DOMAIN begun = Handed
         /\ Handed \subseteq State /\ Handed \subseteq 0 .. Len(begun) /\ 0 \notin Handed
  BY ExpiryTyped DEF TypeOK, Handed, State

(* A cookie of a browser is set or goes, and no other of its jar or of     *)
(* another browser's.                                                      *)
LEMMA StateCookieSet ==
  ASSUME TypeOK, NEW b \in Browser, NEW v \in 0 .. Len(begun),
         cookies' = [cookies EXCEPT ![b].state = v]
  PROVE  /\ cookies' \in [Browser -> Cookie]
         /\ cookies'[b].state = v /\ cookies'[b].session = cookies[b].session
         /\ \A d \in Browser \ {b} : cookies'[d] = cookies[d]
  <1>1. cookies[b] \in Cookie /\ cookies \in [Browser -> Cookie]
    BY DEF TypeOK, Cookie
  <1>2. PICK k : k = [cookies[b] EXCEPT !.state = v]
    OBVIOUS
  <1>3. k \in Cookie /\ k.state = v /\ k.session = cookies[b].session
    BY <1>1, <1>2 DEF Cookie
  <1>4. cookies' = [cookies EXCEPT ![b] = k]
    BY <1>2
  <1> HIDE <1>2
  <1> QED  BY <1>1, <1>3, <1>4

(* A cleared state cookie leaves the browser signed in as it was.          *)
LEMMA StateCookieGone ==
  ASSUME TypeOK, NEW b \in Browser, cookies' = [cookies EXCEPT ![b].state = 0]
  PROVE  /\ cookies' \in [Browser -> Cookie]
         /\ cookies'[b].state = 0 /\ cookies'[b].session = cookies[b].session
         /\ \A d \in Browser \ {b} : cookies'[d] = cookies[d]
  <1>1. PICK v \in 0 .. Len(begun) : v = 0
    BY HandedTyped
  <1>2. cookies' = [cookies EXCEPT ![b].state = v]
    BY <1>1
  <1>3. /\ cookies' \in [Browser -> Cookie]
        /\ cookies'[b].state = v /\ cookies'[b].session = cookies[b].session
        /\ \A d \in Browser \ {b} : cookies'[d] = cookies[d]
    BY <1>2, StateCookieSet
  <1> QED  BY <1>1, <1>3

(* A logout leaves a sign-in of the same browser under way.                *)
LEMMA SessionCookieGone ==
  ASSUME TypeOK, NEW b \in Browser, cookies' = [cookies EXCEPT ![b].session = 0]
  PROVE  /\ cookies' \in [Browser -> Cookie]
         /\ cookies'[b].session = 0 /\ cookies'[b].state = cookies[b].state
         /\ \A d \in Browser \ {b} : cookies'[d] = cookies[d]
  <1>1. cookies[b] \in Cookie /\ cookies \in [Browser -> Cookie]
    BY DEF TypeOK, Cookie
  <1>2. PICK k : k = [cookies[b] EXCEPT !.session = 0]
    OBVIOUS
  <1>3. k \in Cookie /\ k.session = 0 /\ k.state = cookies[b].state
    BY <1>1, <1>2, HandedTyped DEF Cookie
  <1>4. cookies' = [cookies EXCEPT ![b] = k]
    BY <1>2
  <1> HIDE <1>2
  <1> QED  BY <1>1, <1>3, <1>4

-----------------------------------------------------------------------------
(* Steps that only take away.                                              *)

(* Where nothing is handed out and nobody comes further in his sign-in,    *)
(* whatever was deleted and whichever cookies went.                        *)
LEMMA TakingAway ==
  ASSUME IInv, TypeOK', AdministratorStays', SweepBehind', UNCHANGED begun,
         attempts' \subseteq attempts, callbacks' \subseteq callbacks, sessions' \subseteq sessions,
         \A b \in Browser : /\ cookies'[b].state \in {0, cookies[b].state}
                            /\ cookies'[b].session \in {0, cookies[b].session}
  PROVE  IInv'
  <1>1. OneCallbackPerState'
    BY DEF IInv, OneCallbackPerState
  <1>2. SignedInByItsOwn'
    BY DEF IInv, SignedInByItsOwn
  <1>3. StatesHanded' /\ AttemptsOpen'
    BY DEF IInv, StatesHanded, AttemptsOpen, Handed
  <1>4. StateOfItsOwn'
    BY DEF IInv, StateOfItsOwn
  <1> QED  BY <1>1, <1>2, <1>3, <1>4 DEF IInv

(* The clock, a refused callback, one that is given up, and a logout.      *)
LEMMA EndingSteps ==
  ASSUME IInv,
         \/ Tick \/ UNCHANGED vars
         \/ \E b \in Browser : Logout(b) \/ \E state \in Handed : Refuse(b, state)
         \/ \E c \in callbacks : GiveUp(c)
  PROVE  IInv'
  <1>0. TypeOK /\ AdministratorStays /\ SweepBehind
    BY DEF IInv, OneCallbackPerState
  <1>1. CASE Tick
    <2>1. TypeOK' /\ SweepBehind'
      BY <1>0, <1>1, ExpiryTyped DEF Tick, TypeOK, SweepBehind
    <2> QED  BY <1>0, <1>1, <2>1, TakingAway DEF Tick, AdministratorStays
  <1>2. CASE UNCHANGED vars
    <2>1. TypeOK' /\ SweepBehind'
      BY <1>0, <1>2 DEF vars, TypeOK, SweepBehind
    <2> QED  BY <1>0, <1>2, <2>1, TakingAway DEF vars, AdministratorStays
  <1>3. ASSUME NEW b \in Browser, Logout(b)
        PROVE  IInv'
    <2>1. /\ cookies' \in [Browser -> Cookie]
          /\ cookies'[b].session = 0 /\ cookies'[b].state = cookies[b].state
          /\ \A d \in Browser \ {b} : cookies'[d] = cookies[d]
      <3>1. cookies' = [cookies EXCEPT ![b].session = 0]
        BY <1>3, Zenon DEF Logout
      <3> QED  BY <1>0, <3>1, SessionCookieGone
    <2>2. sessions' \subseteq sessions /\ failures' \in 0 .. MaxFailures
      BY <1>0, <1>3, ExpiryTyped DEF Logout, TypeOK
    <2>3. UNCHANGED <<now, role, attempts, begun, callbacks, tokens, changes, sweep>>
      BY <1>3 DEF Logout
    <2>4. TypeOK'
      BY <1>0, <2>1, <2>2, <2>3 DEF TypeOK, Cookie
    <2> QED  BY <1>0, <2>1, <2>2, <2>3, <2>4, TakingAway DEF AdministratorStays, SweepBehind
  <1>4. ASSUME NEW b \in Browser, NEW state \in Handed, Refuse(b, state)
        PROVE  IInv'
    <2>1. /\ cookies' \in [Browser -> Cookie]
          /\ cookies'[b].state = 0 /\ cookies'[b].session = cookies[b].session
          /\ \A d \in Browser \ {b} : cookies'[d] = cookies[d]
      <3>1. cookies' = [cookies EXCEPT ![b].state = 0]
        BY <1>4, Zenon DEF Refuse
      <3> QED  BY <1>0, <3>1, StateCookieGone
    <2>2. attempts' \subseteq attempts
      BY <1>4 DEF Refuse
    <2>3. UNCHANGED <<now, role, begun, callbacks, sessions, tokens, changes, sweep, failures>>
      BY <1>4 DEF Refuse
    <2>4. TypeOK'
      BY <1>0, <2>1, <2>2, <2>3 DEF TypeOK, Cookie
    <2> QED  BY <1>0, <2>1, <2>2, <2>3, <2>4, TakingAway DEF AdministratorStays, SweepBehind
  <1>5. ASSUME NEW c \in callbacks, GiveUp(c)
        PROVE  IInv'
    <2>1. c.browser \in Browser
      BY <1>0 DEF TypeOK, Callback
    <2>2. /\ cookies' \in [Browser -> Cookie]
          /\ \A d \in Browser : /\ cookies'[d].state \in {0, cookies[d].state}
                                /\ cookies'[d].session = cookies[d].session
      <3>1. CASE UNCHANGED cookies
        BY <1>0, <3>1 DEF TypeOK, Cookie
      <3>2. CASE cookies' = [cookies EXCEPT ![c.browser].state = 0]
        <4>1. /\ cookies' \in [Browser -> Cookie]
              /\ cookies'[c.browser].state = 0
              /\ cookies'[c.browser].session = cookies[c.browser].session
              /\ \A d \in Browser \ {c.browser} : cookies'[d] = cookies[d]
          BY <1>0, <2>1, <3>2, StateCookieGone
        <4> QED  BY <4>1
      <3> QED  BY <1>5, <3>1, <3>2 DEF GiveUp
    <2>3. callbacks' \subseteq callbacks
      BY <1>5 DEF GiveUp
    <2>4. UNCHANGED <<now, role, attempts, begun, sessions, tokens, changes, sweep, failures>>
      BY <1>5 DEF GiveUp
    <2>5. TypeOK'
      BY <1>0, <2>2, <2>3, <2>4 DEF TypeOK, Cookie
    <2> QED  BY <1>0, <2>2, <2>3, <2>4, <2>5, TakingAway DEF AdministratorStays, SweepBehind
  <1> QED  BY <1>1, <1>2, <1>3, <1>4, <1>5

(* Tokens, and the changes of a role that are let through.                 *)
LEMMA SignedInSteps ==
  ASSUME IInv, NEW b \in Browser,
         \/ \E name \in TokenName :
              \/ RevokeToken(b, name)
              \/ \E expires \in {Never, now + 1} : CreateToken(b, name, expires)
         \/ \E who \in Person, to \in Asked : CheckSetRole(b, who, to)
  PROVE  IInv'
  <1>0. TypeOK /\ AdministratorStays /\ SweepBehind
    BY DEF IInv, OneCallbackPerState
  <1>1. UNCHANGED <<now, role, attempts, begun, cookies, callbacks, sessions, sweep, failures>>
    BY DEF RevokeToken, CreateToken, CheckSetRole
  <1>2. tokens' \subseteq ApiToken /\ changes' \subseteq Change
    <2>1. ASSUME NEW name \in TokenName, RevokeToken(b, name)
          PROVE  tokens' \subseteq ApiToken /\ changes' \subseteq Change
      BY <1>0, <2>1 DEF RevokeToken, TypeOK
    <2>2. ASSUME NEW name \in TokenName, NEW expires \in {Never, now + 1},
                 CreateToken(b, name, expires)
          PROVE  tokens' \subseteq ApiToken /\ changes' \subseteq Change
      <3>1. PICK p \in SignedIn(b) :
              tokens' = tokens \cup {[user |-> p, name |-> name, expires |-> expires]}
        BY <2>2 DEF CreateToken
      <3>2. p \in Person
        BY <1>0, <3>1 DEF SignedIn, LiveSessions, TypeOK, Session
      <3>3. expires \in Time \cup {Never}
        BY <1>0, ExpiryTyped
      <3>4. [user |-> p, name |-> name, expires |-> expires] \in ApiToken
        BY <3>2, <3>3 DEF ApiToken
      <3> QED  BY <1>0, <2>2, <3>1, <3>4 DEF CreateToken, TypeOK
    <2>3. ASSUME NEW who \in Person, NEW to \in Asked, CheckSetRole(b, who, to)
          PROVE  tokens' \subseteq ApiToken /\ changes' \subseteq Change
      <3>1. [who |-> who, to |-> to] \in Change
        BY SignInAssumption DEF Change, UserRole
      <3> QED  BY <1>0, <2>3, <3>1 DEF CheckSetRole, TypeOK
    <2> QED  BY <2>1, <2>2, <2>3
  <1>3. TypeOK'
    BY <1>0, <1>1, <1>2 DEF TypeOK
  <1> QED  BY <1>0, <1>1, <1>3, TakingAway DEF AdministratorStays, SweepBehind

(* Housekeeping goes by a time that was read before.                       *)
LEMMA SweepSteps ==
  ASSUME IInv, CleanUp \/ FailSweep
  PROVE  IInv'
  <1>0. TypeOK /\ AdministratorStays /\ SweepBehind
    BY DEF IInv, OneCallbackPerState
  <1>1. UNCHANGED <<now, role, begun, cookies, callbacks, changes>>
    BY DEF CleanUp, BeginSweep, SweepAttempts, SweepSessions, SweepTokens, FailSweep
  <1>2. attempts' \subseteq attempts /\ sessions' \subseteq sessions /\ tokens' \subseteq tokens
    BY DEF CleanUp, BeginSweep, SweepAttempts, SweepSessions, SweepTokens, FailSweep
  <1>3. /\ sweep' \in [at : {"rest", "attempts", "sessions", "tokens"}, read : 0 .. MaxTime]
        /\ sweep'.read \in {sweep.read, now}
    BY <1>0 DEF TypeOK, CleanUp, BeginSweep, SweepAttempts, SweepSessions, SweepTokens, FailSweep
  <1>4. failures' \in 0 .. MaxFailures
    BY <1>0, ExpiryTyped
    DEF TypeOK, CleanUp, BeginSweep, SweepAttempts, SweepSessions, SweepTokens, FailSweep
  <1>5. SweepBehind'
    BY <1>0, <1>1, <1>3, ExpiryTyped DEF SweepBehind
  <1>6. TypeOK'
    BY <1>0, <1>1, <1>2, <1>3, <1>4 DEF TypeOK
  <1> QED  BY <1>0, <1>1, <1>2, <1>5, <1>6, TakingAway DEF AdministratorStays

(* User::set_role: an administrator goes only where another one stays.     *)
LEMMA SetRoleStep ==
  ASSUME IInv, NEW c \in changes, SetRole(c)
  PROVE  IInv'
  <1>0. TypeOK /\ AdministratorStays /\ SweepBehind /\ c.who \in Person /\ c.to \in UserRole
    BY DEF IInv, OneCallbackPerState, TypeOK, Change
  <1>1. UNCHANGED <<now, attempts, begun, cookies, callbacks, sessions, tokens, sweep, failures>>
    BY DEF SetRole
  <1>2. role' \in [Person -> UserRole \cup {"none"}] /\ changes' \subseteq changes
    BY <1>0 DEF SetRole, TypeOK
  <1>3. AdministratorStays'
    <2>1. CASE ~ Changeable(c)
      BY <1>0, <2>1 DEF SetRole, AdministratorStays
    <2>2. CASE Changeable(c)
      <3>1. \A p \in Person : role'[p] = IF p = c.who THEN c.to ELSE role[p]
        BY <1>0, <2>2 DEF SetRole, TypeOK
      <3>2. PICK p \in Person : role[p] = "admin"
        BY <1>0, <2>2 DEF Changeable, AdministratorStays
      <3>3. CASE p # c.who \/ c.to = "admin"
        BY <1>0, <3>1, <3>2, <3>3 DEF AdministratorStays
      <3>4. CASE p = c.who /\ c.to # "admin"
        <4>1. Cardinality({q \in Person : role[q] = "admin"}) # 1
          BY <2>2, <3>2, <3>4 DEF Changeable
        <4>2. {q \in Person : role[q] = "admin"} # {p}
          BY <4>1, FS_Singleton
        <4>3. PICK q \in Person : role[q] = "admin" /\ q # p
          BY <3>2, <4>2
        <4> QED  BY <3>1, <3>4, <4>3 DEF AdministratorStays
      <3> QED  BY <3>3, <3>4
    <2> QED  BY <2>1, <2>2
  <1>4. TypeOK'
    BY <1>0, <1>1, <1>2 DEF TypeOK
  <1> QED  BY <1>0, <1>1, <1>3, <1>4, TakingAway DEF SweepBehind

-----------------------------------------------------------------------------
(* The steps of a sign-in.                                                 *)

(* A state that is handed out was in nobody's hands.                       *)
LEMMA LoginStep ==
  ASSUME IInv, NEW b \in Browser, Login(b)
  PROVE  IInv'
  <1>0. /\ TypeOK /\ OneCallbackPerState
        /\ UNCHANGED <<now, role, callbacks, sessions, tokens, changes, sweep, failures>>
    BY DEF IInv, OneCallbackPerState, Login
  <1>1. PICK n : n = Len(begun) + 1
    OBVIOUS
  <1>2. n \in State /\ n \notin Handed /\ n \in Nat \ {0}
    BY <1>0, <1>1, ExpiryTyped DEF Login, State, Handed, TypeOK
  <1>3. PICK new : new = [state |-> n, expires |-> now + ATTEMPT_LIFE]
    OBVIOUS
  <1>4. new \in Attempt /\ new.state = n
    BY <1>0, <1>2, <1>3, ExpiryTyped DEF Attempt
  <1>5. attempts' = attempts \cup {new}
    BY <1>1, <1>3 DEF Login
  <1>6. /\ begun' \in Seq(Browser) /\ Len(begun') = n /\ begun'[n] = b
        /\ \A i \in Handed : begun'[i] = begun[i]
        /\ Handed' = Handed \cup {n} /\ Len(begun') <= MaxStates
    <2>1. begun' = Append(begun, b) /\ begun \in Seq(Browser)
      BY <1>0 DEF Login, TypeOK
    <2>2. Len(begun') = n /\ begun'[n] = b /\ begun' \in Seq(Browser)
          /\ \A i \in Handed : begun'[i] = begun[i]
      BY <1>1, <2>1 DEF Handed
    <2> QED  BY <1>0, <1>1, <1>2, <2>2, ExpiryTyped DEF Handed, State
  <1>7. /\ cookies' \in [Browser -> [state : 0 .. Len(begun'), session : 0 .. Len(begun')]]
        /\ cookies'[b].state = n /\ cookies'[b].session = cookies[b].session
        /\ \A d \in Browser \ {b} : cookies'[d] = cookies[d]
    <2>1. cookies' = [cookies EXCEPT ![b].state = n]
      BY <1>1, Zenon DEF Login
    <2>2. PICK k : k = [cookies[b] EXCEPT !.state = n]
      OBVIOUS
    <2>3. cookies \in [Browser -> [state : 0 .. n, session : 0 .. n]]
      <3>1. \A d \in Browser : cookies[d] \in [state : 0 .. n, session : 0 .. n]
        BY <1>0, <1>1, HandedTyped DEF TypeOK
      <3> QED  BY <1>0, <3>1 DEF TypeOK
    <2>4. /\ k \in [state : 0 .. n, session : 0 .. n]
          /\ k.state = n /\ k.session = cookies[b].session
      BY <1>2, <2>2, <2>3
    <2>5. cookies' = [cookies EXCEPT ![b] = k]
      BY <2>1, <2>2
    <2> HIDE <2>2
    <2> QED  BY <1>6, <2>3, <2>4, <2>5
  <1>8. TypeOK'
    BY <1>0, <1>4, <1>5, <1>6, <1>7 DEF TypeOK
  <1>9. /\ \A c \in callbacks : c.state \in Handed
        /\ \A s \in sessions : s.state \in Handed
        /\ \A a \in attempts : a.state \in Handed
    BY DEF IInv, StatesHanded
  <1>10. OneCallbackPerState'
    BY <1>0, <1>2, <1>4, <1>5, <1>8, <1>9 DEF OneCallbackPerState
  <1>11. SignedInByItsOwn'
    <2> SUFFICES ASSUME NEW d \in Browser, cookies[d].session # 0
                 PROVE  begun'[cookies[d].session] = d
      BY <1>7 DEF SignedInByItsOwn
    <2>1. cookies[d].session \in Handed
      BY <1>0, HandedTyped DEF TypeOK, Handed
    <2> QED  BY <1>6, <2>1 DEF IInv, SignedInByItsOwn
  <1>12. StatesHanded' /\ AttemptsOpen'
    BY <1>0, <1>2, <1>4, <1>5, <1>6, <1>9 DEF IInv, StatesHanded, AttemptsOpen
  <1>13. StateOfItsOwn'
    <2>1. ASSUME NEW d \in Browser, cookies'[d].state # 0
          PROVE  begun'[cookies'[d].state] = d
      <3>1. CASE d = b
        BY <1>6, <1>7, <3>1
      <3>2. CASE d # b
        <4>1. cookies'[d].state = cookies[d].state
          BY <1>7, <3>2
        <4>2. cookies[d].state \in Handed
          BY <1>0, <2>1, <4>1, HandedTyped DEF TypeOK, Handed
        <4>3. begun[cookies[d].state] = d
          BY <2>1, <4>1 DEF IInv, StateOfItsOwn
        <4> QED  BY <1>6, <4>1, <4>2, <4>3
      <3> QED  BY <3>1, <3>2
    <2>2. \A c \in callbacks : begun'[c.state] = c.browser
      BY <1>6, <1>9 DEF IInv, StateOfItsOwn
    <2> QED  BY <1>0, <2>1, <2>2 DEF StateOfItsOwn
  <1>14. AdministratorStays' /\ SweepBehind'
    BY <1>0 DEF IInv, AdministratorStays, SweepBehind
  <1> QED  BY <1>10, <1>11, <1>12, <1>13, <1>14 DEF IInv

(* attempt::consume: a callback with the browser's own state, and no       *)
(* attempt after it.                                                       *)
LEMMA ConsumeStep ==
  ASSUME IInv, NEW b \in Browser, NEW state \in Handed, NEW p \in Person, Consume(b, state, p)
  PROVE  IInv'
  <1>0. /\ TypeOK /\ OneCallbackPerState
        /\ UNCHANGED <<now, role, begun, cookies, sessions, tokens, changes, sweep, failures>>
        /\ attempts' = {a \in attempts : a.state # state}
        /\ cookies[b].state = state
    BY DEF IInv, OneCallbackPerState, Consume
  <1>1. PICK a \in attempts : a.state = state
    BY DEF Consume
  <1>2. PICK c : c = [browser |-> b, state |-> state, at |-> "exchange", user |-> p]
    OBVIOUS
  <1>3. /\ c \in Callback /\ c.state = state /\ c.browser = b
        /\ callbacks' = callbacks \cup {c}
    BY <1>0, <1>2, HandedTyped DEF Consume, Callback, Stages
  <1>4. /\ \A d \in callbacks : d.state # state
        /\ \A s \in sessions : s.state # state
    BY <1>0, <1>1 DEF IInv, OneCallbackPerState, AttemptsOpen
  <1>5. TypeOK'
    BY <1>0, <1>3 DEF TypeOK
  <1>6. OneCallbackPerState'
    BY <1>0, <1>3, <1>4, <1>5 DEF OneCallbackPerState
  <1>7. StatesHanded' /\ AttemptsOpen'
    BY <1>0, <1>3 DEF IInv, StatesHanded, AttemptsOpen, Handed
  <1>8. StateOfItsOwn'
    <2>1. begun[state] = b
      BY <1>0, HandedTyped DEF IInv, StateOfItsOwn
    <2> QED  BY <1>0, <1>3, <2>1 DEF IInv, StateOfItsOwn
  <1>9. SignedInByItsOwn' /\ AdministratorStays' /\ SweepBehind'
    BY <1>0 DEF IInv, SignedInByItsOwn, AdministratorStays, SweepBehind
  <1> QED  BY <1>6, <1>7, <1>8, <1>9 DEF IInv

(* GitHub answers, or the account is registered: the callback goes on to   *)
(* where there still is no session of it.                                  *)
LEMMA GoesOn ==
  ASSUME IInv, NEW c \in callbacks, NEW at \in Stages \ {"answer"}, c.at # "answer", To(c, at),
         UNCHANGED <<now, attempts, begun, cookies, sessions, tokens, changes, sweep, failures>>,
         role' \in [Person -> UserRole \cup {"none"}], AdministratorStays'
  PROVE  IInv'
  <1>0. TypeOK /\ OneCallbackPerState /\ c \in Callback
    BY DEF IInv, OneCallbackPerState, TypeOK
  <1>1. PICK d : d = [c EXCEPT !.at = at]
    OBVIOUS
  <1>2. /\ d \in Callback /\ d.at = at /\ d.state = c.state /\ d.browser = c.browser
        /\ callbacks' = (callbacks \ {c}) \cup {d}
    BY <1>0, <1>1, StageTyped DEF To
  <1>3. TypeOK'
    BY <1>0, <1>2 DEF TypeOK
  <1>4. OneCallbackPerState'
    BY <1>0, <1>2, <1>3 DEF OneCallbackPerState
  <1>5. StatesHanded' /\ AttemptsOpen'
    BY <1>0, <1>2 DEF IInv, StatesHanded, AttemptsOpen, Handed
  <1>6. StateOfItsOwn' /\ SignedInByItsOwn' /\ SweepBehind'
    BY <1>2 DEF IInv, StateOfItsOwn, SignedInByItsOwn, SweepBehind
  <1> QED  BY <1>4, <1>5, <1>6 DEF IInv

(* An answer of GitHub changes nothing here but how far the callback is.   *)
LEMMA ExchangeStep ==
  ASSUME IInv, NEW c \in callbacks, Exchange(c)
  PROVE  IInv'
  <1>1. role' \in [Person -> UserRole \cup {"none"}] /\ AdministratorStays'
    BY DEF IInv, OneCallbackPerState, TypeOK, AdministratorStays, Exchange
  <1> QED  BY <1>1, GoesOn DEF Exchange, Stages

(* User::register: who comes first to an instance is its administrator,    *)
(* and who comes later takes nobody's place.                               *)
LEMMA RegisterStep ==
  ASSUME IInv, NEW c \in callbacks, Register(c)
  PROVE  IInv'
  <1>0. TypeOK /\ c.user \in Person
    BY DEF IInv, OneCallbackPerState, TypeOK, Callback
  <1>1. CASE role[c.user] # "none"
    <2>1. role' \in [Person -> UserRole \cup {"none"}] /\ AdministratorStays'
      BY <1>0, <1>1 DEF IInv, TypeOK, AdministratorStays, Register
    <2> QED  BY <2>1, GoesOn DEF Register, Stages
  <1>2. CASE role[c.user] = "none"
    <2>1. PICK r : r = NewRole(c.user)
      OBVIOUS
    <2>2. r \in UserRole /\ (r = "admin" \/ \E q \in Person : role[q] # "none")
      BY <2>1 DEF NewRole, UserRole
    <2>3. role' = [role EXCEPT ![c.user] = r]
      BY <1>2, <2>1 DEF Register
    <2>4. role' \in [Person -> UserRole \cup {"none"}]
      BY <1>0, <2>2, <2>3 DEF TypeOK
    <2>5. AdministratorStays'
      <3>1. \A q \in Person : role'[q] = IF q = c.user THEN r ELSE role[q]
        BY <1>0, <2>3 DEF TypeOK
      <3>2. CASE r = "admin"
        BY <1>0, <3>1, <3>2 DEF AdministratorStays
      <3>3. CASE \E q \in Person : role[q] # "none"
        <4>1. PICK q \in Person : role[q] = "admin"
          BY <3>3 DEF IInv, AdministratorStays
        <4> QED  BY <1>2, <3>1, <4>1 DEF AdministratorStays
      <3> QED  BY <2>2, <3>2, <3>3
    <2> QED  BY <2>4, <2>5, GoesOn DEF Register, Stages
  <1> QED  BY <1>1, <1>2

(* session::create: the first session of its sign-in, and the last.        *)
LEMMA OpenSessionStep ==
  ASSUME IInv, NEW c \in callbacks, OpenSession(c)
  PROVE  IInv'
  <1>0. /\ TypeOK /\ OneCallbackPerState /\ c \in Callback /\ c.at = "session"
        /\ UNCHANGED <<now, role, attempts, begun, cookies, tokens, changes, sweep, failures>>
    BY DEF IInv, OneCallbackPerState, TypeOK, OpenSession
  <1>1. PICK d, s : /\ d = [c EXCEPT !.at = "answer"]
                    /\ s = [state |-> c.state, user |-> c.user, expires |-> now + SESSION_LIFE]
    OBVIOUS
  <1>2. /\ d \in Callback /\ d.at = "answer" /\ d.state = c.state /\ d.browser = c.browser
        /\ callbacks' = (callbacks \ {c}) \cup {d}
    BY <1>0, <1>1, StageTyped DEF OpenSession, To, Stages
  <1>3. s \in Session /\ s.state = c.state /\ sessions' = sessions \cup {s}
    <2>1. s.state = c.state /\ sessions' = sessions \cup {s}
      BY <1>1 DEF OpenSession
    <2>2. c.state \in State /\ c.user \in Person /\ now + SESSION_LIFE \in Time
      BY <1>0, ExpiryTyped DEF Callback
    <2>3. s \in Session
      BY <1>1, <2>2 DEF Session
    <2> QED  BY <2>1, <2>3
  <1>4. TypeOK'
    BY <1>0, <1>2, <1>3 DEF TypeOK
  <1>5. OneCallbackPerState'
    <2>1. \A x, y \in callbacks' : x.state = y.state => x = y
      BY <1>0, <1>2 DEF OneCallbackPerState
    <2>2. \A x \in callbacks' : (\E y \in sessions' : y.state = x.state) => x.at = "answer"
      BY <1>0, <1>2, <1>3 DEF OneCallbackPerState
    <2>3. \A x \in sessions : x.state # c.state
      BY <1>0 DEF OneCallbackPerState
    <2>4. \A x, y \in sessions' : x.state = y.state => x = y
      BY <1>0, <1>3, <2>3 DEF OneCallbackPerState
    <2>5. \A x \in callbacks', a \in attempts' : x.state # a.state
      BY <1>0, <1>2 DEF OneCallbackPerState
    <2> QED  BY <1>4, <2>1, <2>2, <2>4, <2>5 DEF OneCallbackPerState
  <1>6. StatesHanded' /\ AttemptsOpen'
    BY <1>0, <1>2, <1>3 DEF IInv, StatesHanded, AttemptsOpen, Handed, OneCallbackPerState
  <1>7. StateOfItsOwn' /\ SignedInByItsOwn' /\ SweepBehind' /\ AdministratorStays'
    BY <1>0, <1>2 DEF IInv, StateOfItsOwn, SignedInByItsOwn, SweepBehind, AdministratorStays
  <1> QED  BY <1>5, <1>6, <1>7 DEF IInv

(* signed_in: the answer reaches the browser the state was handed to.      *)
LEMMA AnswerStep ==
  ASSUME IInv, NEW c \in callbacks, Answer(c)
  PROVE  IInv'
  <1>0. /\ TypeOK /\ c \in Callback /\ c.state \in Handed
        /\ UNCHANGED <<now, role, attempts, begun, sessions, tokens, changes, sweep, failures>>
        /\ callbacks' \subseteq callbacks
    BY DEF IInv, OneCallbackPerState, TypeOK, StatesHanded, Answer
  <1>1. PICK b, k : b = c.browser /\ k = [state |-> 0, session |-> c.state]
    OBVIOUS
  <1>2. /\ b \in Browser /\ k \in Cookie /\ k.state = 0 /\ k.session = c.state
        /\ begun[c.state] = b
    BY <1>0, <1>1, HandedTyped DEF IInv, StateOfItsOwn, Callback, Cookie
  <1>3. cookies' = [cookies EXCEPT ![b] = k]
    BY <1>1 DEF Answer
  <1>4. /\ cookies' \in [Browser -> Cookie]
        /\ \A d \in Browser : cookies'[d] = IF d = b THEN k ELSE cookies[d]
    BY <1>0, <1>2, <1>3 DEF TypeOK, Cookie
  <1>5. TypeOK'
    BY <1>0, <1>4 DEF TypeOK, Cookie
  <1>6. SignedInByItsOwn'
    BY <1>0, <1>2, <1>4 DEF IInv, SignedInByItsOwn
  <1>7. StateOfItsOwn'
    BY <1>0, <1>2, <1>4 DEF IInv, StateOfItsOwn
  <1>8. OneCallbackPerState'
    BY <1>0, <1>5 DEF IInv, OneCallbackPerState
  <1>9. StatesHanded' /\ AttemptsOpen' /\ SweepBehind' /\ AdministratorStays'
    BY <1>0 DEF IInv, StatesHanded, AttemptsOpen, SweepBehind, AdministratorStays, Handed
  <1> QED  BY <1>6, <1>7, <1>8, <1>9 DEF IInv

-----------------------------------------------------------------------------
(* The theorems.                                                           *)

(* Before anybody signs in nothing is held and nobody is registered.       *)
LEMMA HoldsInitially == Init => IInv
  <1> SUFFICES ASSUME Init  PROVE IInv
    OBVIOUS
  <1>1. Len(begun) = 0 /\ begun \in Seq(Browser)
    BY DEF Init
  <1>2. cookies \in [Browser -> [state : 0 .. Len(begun), session : 0 .. Len(begun)]]
    BY <1>1 DEF Init
  <1>3. TypeOK
    BY <1>1, <1>2, SignInAssumption DEF Init, TypeOK
  <1>4. \A b \in Browser : cookies[b].state = 0 /\ cookies[b].session = 0
    BY DEF Init
  <1> QED  BY <1>3, <1>4
           DEF Init, IInv, OneCallbackPerState, SignedInByItsOwn, AdministratorStays,
               StatesHanded, AttemptsOpen, StateOfItsOwn, SweepBehind

(* Every step of the browsers, the callbacks and the housekeeping keeps    *)
(* the invariant.                                                          *)
LEMMA StepsKeepInvariant == IInv /\ [Next]_vars => IInv'
  <1> SUFFICES ASSUME IInv, [Next]_vars  PROVE IInv'
    OBVIOUS
  <1>1. CASE Tick \/ UNCHANGED vars
    BY <1>1, EndingSteps
  <1>2. ASSUME NEW b \in Browser, Login(b) \/ Logout(b)
        PROVE  IInv'
    BY <1>2, LoginStep, EndingSteps
  <1>3. ASSUME NEW b \in Browser, NEW state \in Handed, OpenCallback(b, state)
        PROVE  IInv'
    BY <1>3, ConsumeStep, EndingSteps DEF OpenCallback
  <1>4. ASSUME NEW b \in Browser,
               \/ \E name \in TokenName :
                    \/ RevokeToken(b, name)
                    \/ \E expires \in {Never, now + 1} : CreateToken(b, name, expires)
               \/ \E who \in Person, to \in Asked : CheckSetRole(b, who, to)
        PROVE  IInv'
    BY <1>4, SignedInSteps
  <1>5. ASSUME NEW c \in callbacks, SigningIn(c)
        PROVE  IInv'
    BY <1>5, ExchangeStep, RegisterStep, OpenSessionStep, AnswerStep, EndingSteps DEF SigningIn
  <1>6. ASSUME NEW c \in changes, SetRole(c)
        PROVE  IInv'
    BY <1>6, SetRoleStep
  <1>7. CASE CleanUp \/ FailSweep
    BY <1>7, SweepSteps
  <1> QED  BY <1>1, <1>2, <1>3, <1>4, <1>5, <1>6, <1>7 DEF Next

(* States, callbacks, sessions and cookies belong together in every state, *)
(* and no housekeeping goes by a time that has not come.                   *)
THEOREM InvariantHolds == Spec => []IInv
  BY HoldsInitially, StepsKeepInvariant, PTL DEF Spec

(* However often a callback is opened, and by whom, a sign-in comes to one *)
(* session at most.                                                        *)
THEOREM AlwaysOneCallbackPerState == Spec => []OneCallbackPerState
  <1>1. IInv => OneCallbackPerState
    BY DEF IInv
  <1> QED  BY <1>1, InvariantHolds, PTL

(* A browser is never signed in by a sign-in another browser began.        *)
THEOREM AlwaysSignedInByItsOwn == Spec => []SignedInByItsOwn
  <1>1. IInv => SignedInByItsOwn
    BY DEF IInv
  <1> QED  BY <1>1, InvariantHolds, PTL

(* An instance with accounts never loses its last administrator, nor is    *)
(* registered with without having one.                                     *)
THEOREM AdministratorAlwaysStays == Spec => []AdministratorStays
  <1>1. IInv => AdministratorStays
    BY DEF IInv
  <1> QED  BY <1>1, InvariantHolds, PTL

(* What housekeeping deletes was refused before it went.                   *)
THEOREM HousekeepingNeverChangesAnAnswer == Spec => HousekeepingChangesNoAnswer
  <1>1. ASSUME IInv, [Next]_vars, sweep' # sweep
        PROVE  LiveSessions' = LiveSessions /\ LiveTokens' = LiveTokens
    <2>1. TypeOK /\ SweepBehind /\ now \in Nat
      BY <1>1, ExpiryTyped DEF IInv, OneCallbackPerState
    <2>2. CleanUp \/ FailSweep
      BY <1>1
      DEF Next, Tick, Login, Logout, OpenCallback, Consume, Refuse, RevokeToken, CreateToken,
          CheckSetRole, SigningIn, Exchange, Register, OpenSession, Answer, GiveUp, SetRole, vars
    <2>3. UNCHANGED now
      BY <2>2 DEF CleanUp, BeginSweep, SweepAttempts, SweepSessions, SweepTokens, FailSweep
    <2>4. /\ \A s \in sessions : s.expires \in Nat
          /\ \A t \in tokens : t.expires \in Nat \cup {Never}
          /\ sweep.read \in Nat
      BY <2>1, SignInAssumption DEF TypeOK, Session, ApiToken, Time
    <2>5. \A x \in sessions \cup tokens : Expired(x.expires) => ~ Live(x.expires)
      BY <2>1, <2>4, SignInAssumption DEF Expired, Live, SweepBehind
    <2>6. sessions' \in {sessions, {s \in sessions : ~ Expired(s.expires)}}
          /\ tokens' \in {tokens, {t \in tokens : ~ Expired(t.expires)}}
      BY <2>2 DEF CleanUp, BeginSweep, SweepAttempts, SweepSessions, SweepTokens, FailSweep
    <2> QED  BY <2>3, <2>5, <2>6 DEF LiveSessions, LiveTokens, Live
  <1>2. IInv /\ [Next]_vars =>
          [sweep' # sweep => LiveSessions' = LiveSessions /\ LiveTokens' = LiveTokens]_vars
    BY <1>1
  <1> QED  BY <1>2, InvariantHolds, PTL DEF Spec, HousekeepingChangesNoAnswer
=============================================================================
