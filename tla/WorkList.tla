------------------------------ MODULE WorkList ------------------------------
(***************************************************************************)
(* What the job queue promises of the work it holds: what waits goes on    *)
(* waiting, with the highest priority it was asked with, until a run       *)
(* starts for it; and work that a run covers is never run twice at once.   *)
(* Rows, claims, leases, retries and resources are gone: what is left of   *)
(* them is that a run may start, end or come back.                         *)
(***************************************************************************)
EXTENDS Integers

CONSTANTS
  Work,        \* all there may be to do
  Repeatable   \* work that a run does not cover: audits

VARIABLES
  waiting,     \* the priority each work waits with, Nothing if it does not
  running      \* the works some run is at

vars == <<waiting, running>>

Nothing == -2
Priority == {-1, 0}

Init ==
  /\ waiting = [w \in Work |-> Nothing]
  /\ running = {}

(* A run already at covered work answers the request.                      *)
Answered(w) == w \in running /\ w \notin Repeatable

Request(ws, priority) ==
  /\ waiting' = [w \in Work |->
       IF w \in ws /\ ~Answered(w) /\ waiting[w] < priority
       THEN priority ELSE waiting[w]]
  /\ UNCHANGED running

(* A start answers what waited.  Repeatable work may be listed twice, and  *)
(* then goes on waiting.                                                   *)
Start(w) ==
  /\ waiting[w] # Nothing
  /\ w \in running => w \in Repeatable
  /\ running' = running \cup {w}
  /\ \E left \in Priority \cup {Nothing} :
       /\ w \notin Repeatable => left = Nothing
       /\ waiting' = [waiting EXCEPT ![w] = left]

(* A run of w ends; another one may be at the same repeatable work.        *)
End(w) ==
  /\ w \in running
  /\ running \ {w} \subseteq running' /\ running' \subseteq running
  /\ w \notin Repeatable => w \notin running'
  /\ UNCHANGED waiting

(* Runs that failed or lost their lease come back.                         *)
Return(ws) ==
  /\ ws \subseteq running
  /\ running \ ws \subseteq running' /\ running' \subseteq running
  /\ \A w \in ws : w \notin Repeatable => w \notin running'
  /\ waiting' \in [Work -> Priority \cup {Nothing}]
  /\ \A w \in Work : waiting'[w] >= waiting[w]
  /\ \A w \in ws : waiting'[w] # Nothing
  /\ \A w \in Work \ ws : waiting'[w] = waiting[w]

(* The subject of the work is gone.                                        *)
Forget(ws) ==
  /\ waiting' = [w \in Work |-> IF w \in ws THEN Nothing ELSE waiting[w]]
  /\ running' = running \ ws

Next ==
  \/ \E ws \in SUBSET Work, priority \in Priority : Request(ws, priority)
  \/ \E w \in Work : Start(w) \/ End(w)
  \/ \E ws \in SUBSET Work : Return(ws) \/ Forget(ws)

Spec == Init /\ [][Next]_vars
=============================================================================
