----------------------------- MODULE IdGenerator -----------------------------
(***************************************************************************)
(* The generator of ids in src/src/id.rs.  Any thread of the process calls *)
(* `next` on one shared word, a millisecond and a sequence number, without *)
(* a lock: it reads the clock, loads the word, and stores the successor    *)
(* only if the word is still what it loaded.  The clock may stand still or *)
(* be set back.  A restart forgets the word.                               *)
(*                                                                         *)
(* The word is one 64-bit integer; here it is the record of its two        *)
(* fields, which is loaded and compared whole.  A relaxed load may return  *)
(* an older word; that is a load made earlier, which the gap between Load  *)
(* and Exchange already allows.                                            *)
(***************************************************************************)
EXTENDS Integers, Sequences

CONSTANTS
  Caller,     \* threads that may be in `next`
  Node,       \* the node number the generator was given
  NODES,      \* 1 << NODE_BITS
  SEQUENCES,  \* 1 << SEQUENCE_BITS
  MaxClock,   \* bound: the last millisecond of the clock
  MaxIds      \* bound: ids ever minted

ASSUME IdAssumption ==
  /\ Node \in Nat /\ NODES \in Nat \ {0} /\ SEQUENCES \in Nat \ {0}
  /\ MaxClock \in Nat /\ MaxIds \in Nat

VARIABLES
  clock,    \* the millisecond the system clock shows
  state,    \* the shared word
  call,     \* how far each caller is in `next`
  minted,   \* ids in the order their exchanges succeeded
  floor     \* milliseconds of the last id of the processes before this one

idVars == <<clock, state, call, minted, floor>>

Time == 0 .. MaxClock
Word == [milliseconds : Time, sequence : 0 .. SEQUENCES - 1]
Fresh == [milliseconds |-> 0, sequence |-> 0]

Outside == [pc |-> "outside"]
Timed == [pc : {"timed"}, now : Time]
Loaded == [pc : {"loaded"}, now : Time, previous : Word]
Call == {Outside} \cup Timed \cup Loaded

IdInit ==
  /\ clock \in Time
  /\ state = Fresh
  /\ call = [c \in Caller |-> Outside]
  /\ minted = <<>>
  /\ floor = -1

(* Faulty variants: the word follows a clock that was set back; a full     *)
(* millisecond borrows from the next one.                                  *)
FollowsClock(now, word) ==
  IF now # word.milliseconds
  THEN [milliseconds |-> now, sequence |-> 0]
  ELSE [word EXCEPT !.sequence = @ + 1]
Borrows(now, word) ==
  IF now > word.milliseconds
  THEN [milliseconds |-> now, sequence |-> 0]
  ELSE IF word.sequence + 1 = SEQUENCES
  THEN [milliseconds |-> word.milliseconds + 1, sequence |-> 0]
  ELSE [word EXCEPT !.sequence = @ + 1]

(* A clock that moved backwards keeps the previous millisecond.            *)
Successor(now, word) ==
  IF now > word.milliseconds
  THEN [milliseconds |-> now, sequence |-> 0]
  ELSE [word EXCEPT !.sequence = @ + 1]

(* The three fields do not overlap, so the shifts and the "or" add them.   *)
Id(word) == (word.milliseconds * NODES + (Node % NODES)) * SEQUENCES + word.sequence

Milliseconds(id) == id \div (NODES * SEQUENCES)

ReadClock(c) ==
  /\ call[c] = Outside
  /\ Len(minted) < MaxIds
  /\ call' = [call EXCEPT ![c] = [pc |-> "timed", now |-> clock]]
  /\ UNCHANGED <<clock, state, minted, floor>>

Load(c) ==
  /\ call[c].pc = "timed"
  /\ call' = [call EXCEPT ![c] = [pc |-> "loaded", now |-> call[c].now, previous |-> state]]
  /\ UNCHANGED <<clock, state, minted, floor>>

NextWord(c) == Successor(call[c].now, call[c].previous)

(* Around the loop again: the sequence is used up, another thread was      *)
(* first, or a weak exchange failed for no reason.                         *)
Retry(c) ==
  /\ call[c].pc = "loaded"
  /\ call' = [call EXCEPT ![c] = [pc |-> "timed", now |-> clock]]
  /\ UNCHANGED <<clock, state, minted, floor>>

(* Faulty variant: the word is stored whatever it is by now.               *)
Unguarded(c) == NextWord(c).sequence < SEQUENCES
Exchangeable(c) ==
  /\ NextWord(c).sequence < SEQUENCES
  /\ state = call[c].previous

Exchange(c) ==
  /\ call[c].pc = "loaded"
  /\ Exchangeable(c)
  /\ Len(minted) < MaxIds
  /\ state' = NextWord(c)
  /\ minted' = Append(minted, Id(NextWord(c)))
  /\ call' = [call EXCEPT ![c] = Outside]
  /\ UNCHANGED <<clock, floor>>

(* The clock runs or is set, also backwards.  Assumed of it: before its    *)
(* first id a process does not see a time its predecessors already used.   *)
SetClock(t) ==
  /\ state = Fresh => t > floor
  /\ clock' = t
  /\ UNCHANGED <<state, call, minted, floor>>

(* A new process starts with an empty word.                                *)
Restart ==
  /\ state # Fresh
  /\ clock > state.milliseconds
  /\ state' = Fresh
  /\ call' = [c \in Caller |-> Outside]
  /\ floor' = state.milliseconds
  /\ UNCHANGED <<clock, minted>>

Step ==
  \/ \E c \in Caller : ReadClock(c) \/ Load(c) \/ Retry(c) \/ Exchange(c)
  \/ \E t \in Time : SetClock(t)
  \/ Restart

IdSpec == IdInit /\ [][Step]_idVars

-----------------------------------------------------------------------------
(* The word and the calls stay within their fields, and ids are numbers.   *)
IdTypeOK ==
  /\ clock \in Time /\ state \in Word /\ floor \in Time \cup {-1}
  /\ call \in [Caller -> Call]
  /\ minted \in Seq(Nat)

(* Every id is larger than all ids minted before it: by any thread, under  *)
(* any jump of the clock, and by the processes before this one (next).     *)
Increasing ==
  \A i, j \in 1 .. Len(minted) : i < j => minted[i] < minted[j]

(* An id's time is never behind the clock its call read, and never one no  *)
(* clock had shown: a used-up millisecond is waited out (next).            *)
Timely ==
  [][\A c \in Caller :
       Len(minted') > Len(minted) /\ call[c] # call'[c] =>
         LET id == minted'[Len(minted')]
         IN /\ Milliseconds(id) >= call[c].now
            /\ Milliseconds(id) = call[c].now \/ Milliseconds(id) = state.milliseconds]_idVars
=============================================================================
