---------------------------- MODULE CustodyProofs ----------------------------
(***************************************************************************)
(* Proofs that the properties of Custody hold for any number of accounts,  *)
(* organizations, projects and requests at once.                           *)
(***************************************************************************)
EXTENDS Custody, FiniteSetTheorems, TLAPS

-----------------------------------------------------------------------------
(* Requests by what they ask for.                                          *)

Creating == [op : {"create project"}, by : User, org : Organization]
Granting == [op : {"set member", "remove member"}, org : Organization, who : User, role : Role]
Sharing == [op : {"set grant", "remove grant"}, project : Project, who : User, role : Role]
Closing == [op : {"delete organization"}, org : Organization]
Removing ==
  [op : {"delete project"}, project : Project, held : SUBSET Organization, alone : BOOLEAN]
Moving ==
  [op : {"move", "mint", "transfer"}, by : User, project : Project,
   from : Organization, to : Organization, id : 0 .. MaxMoves,
   held : SUBSET Organization, alone : BOOLEAN]

(* What a request asks for tells which columns it has.                     *)
LEMMA RequestKinds ==
  ASSUME NEW r \in Request
  PROVE  /\ r.op = "create project" => r \in Creating
         /\ r.op \in {"set member", "remove member"} => r \in Granting
         /\ r.op \in {"set grant", "remove grant"} => r \in Sharing
         /\ r.op = "delete organization" => r \in Closing
         /\ r.op = "delete project" => r \in Removing
         /\ r.op \in {"move", "mint", "transfer"} => r \in Moving
  BY DEF Request, Creating, Granting, Sharing, Closing, Removing, Moving

(* There are no others.                                                    *)
LEMMA KindsAreRequests ==
  /\ Creating \subseteq Request /\ Granting \subseteq Request /\ Sharing \subseteq Request
  /\ Closing \subseteq Request /\ Removing \subseteq Request /\ Moving \subseteq Request
  BY DEF Request, Creating, Granting, Sharing, Closing, Removing, Moving

(* A move goes through its stages with what it was let through for.        *)
LEMMA MoveStages ==
  ASSUME NEW r \in Moving
  PROVE  /\ [r EXCEPT !.op = "mint"] \in Moving
         /\ \A id \in 0 .. MaxMoves : [r EXCEPT !.op = "transfer", !.id = id] \in Moving
  BY Zenon DEF Moving

(* Having been overtaken changes nothing of a request but that it is known. *)
LEMMA OvertakenRequests ==
  ASSUME NEW r \in Removing \cup Moving
  PROVE  /\ [r EXCEPT !.alone = FALSE] \in Removing \cup Moving
         /\ r \in Moving => [r EXCEPT !.alone = FALSE] \in Moving
         /\ r \in Removing => [r EXCEPT !.alone = FALSE] \in Removing
  <1>1. r \in Moving => [r EXCEPT !.alone = FALSE] \in Moving
    BY Zenon DEF Moving
  <1>2. r \in Removing => [r EXCEPT !.alone = FALSE] \in Removing
    BY Zenon DEF Removing
  <1> QED  BY <1>1, <1>2

-----------------------------------------------------------------------------
(* Types.                                                                  *)

(* The migrations fill the tables as their columns say.                    *)
LEMMA TypedInitially == Init => TypeOK
  BY CustodyAssumption DEF Init, TypeOK, Standing, Home, Role, None, Owner, Request

(* Those who overtook a request leave it one.                              *)
LEMMA OvertakenTyped ==
  ASSUME NEW rs \in SUBSET Request, NEW p
  PROVE  Overtaken(rs, p) \subseteq Request
  <1> SUFFICES ASSUME NEW r \in rs,
                      r.op \in {"delete project", "move", "mint", "transfer"}
               PROVE  [r EXCEPT !.alone = FALSE] \in Request
    BY DEF Overtaken
  <1>1. r \in Removing \cup Moving
    BY RequestKinds
  <1> QED  BY <1>1, OvertakenRequests, KindsAreRequests

(* Every step keeps the types.                                             *)
LEMMA WritesTyped ==
  ASSUME TypeOK, NEW r \in pending, Write(r), r.op = "transfer" => r.id \in 1 .. minted
  PROVE  TypeOK'
  <1> USE DEF Goes, ghosts
  <1>0. r \in Request /\ pending \ {r} \subseteq Request
    BY DEF TypeOK
  <1>1. CASE CheckDestination(r)
    <2>1. [r EXCEPT !.op = "mint"] \in Request
      BY <1>0, <1>1, RequestKinds, MoveStages, KindsAreRequests DEF CheckDestination
    <2> QED  BY <1>0, <1>1, <2>1 DEF CheckDestination, TypeOK
  <1>2. CASE MintTransfer(r)
    <2>1. minted + 1 \in 0 .. MaxMoves
      BY <1>2, CustodyAssumption DEF MintTransfer, TypeOK
    <2>2. [r EXCEPT !.op = "transfer", !.id = minted + 1] \in Request
      BY <1>0, <1>2, <2>1, RequestKinds, MoveStages, KindsAreRequests DEF MintTransfer
    <2> QED  BY <1>0, <1>2, <2>1, <2>2 DEF MintTransfer, TypeOK
  <1>3. CASE Drop(r)
    BY <1>0, <1>3 DEF Drop, TypeOK
  <1>4. CASE DeleteOrganization(r)
    <2>1. r.org \in Organization
      BY <1>0, <1>4, RequestKinds DEF DeleteOrganization, Closing
    <2>2. organization' \in [Organization -> Standing]
      BY <1>4, <2>1 DEF DeleteOrganization, TypeOK, Standing
    <2>3. [u \in User |-> None] \in [User -> Role]
      BY DEF None, Role, Owner
    <2>4. grant' \in [Organization -> [User -> Role]]
      BY <1>4, <2>1, <2>3 DEF DeleteOrganization, TypeOK
    <2> QED  BY <1>0, <1>4, <2>2, <2>4 DEF DeleteOrganization, TypeOK
  <1>5. CASE ChangeMember(r)
    <2>1. r.org \in Organization /\ r.who \in User /\ r.role \in Role
      BY <1>0, <1>5, RequestKinds DEF ChangeMember, Granting
    <2>2. [grant[r.org] EXCEPT ![r.who] = r.role] \in [User -> Role]
      BY <2>1 DEF TypeOK
    <2>3. grant' \in [Organization -> [User -> Role]]
      BY <1>5, <2>1, <2>2 DEF ChangeMember, TypeOK
    <2> QED  BY <1>0, <1>5, <2>3 DEF ChangeMember, TypeOK
  <1>6. CASE ChangeGrant(r)
    <2>1. r.project \in Project /\ r.who \in User /\ r.role \in Role
      BY <1>0, <1>6, RequestKinds DEF ChangeGrant, Sharing
    <2>2. [direct[r.project] EXCEPT ![r.who] = r.role] \in [User -> Role]
      BY <2>1 DEF TypeOK
    <2>3. direct' \in [Project -> [User -> Role]]
      BY <1>6, <2>1, <2>2 DEF ChangeGrant, TypeOK
    <2> QED  BY <1>0, <1>6, <2>3 DEF ChangeGrant, TypeOK
  <1>8. CASE DeleteProject(r)
    <2>1. r.project \in Project
      BY <1>0, <1>8, RequestKinds DEF DeleteProject, Removing
    <2>2. [u \in User |-> None] \in [User -> Role]
      BY DEF None, Role, Owner
    <2>3. direct' \in [Project -> [User -> Role]]
      BY <1>8, <2>1, <2>2 DEF DeleteProject, TypeOK
    <2>4. home' \in [Project -> Home]
      BY <1>8, <2>1 DEF DeleteProject, TypeOK, Home
    <2>5. walked' \subseteq Project
      BY <1>8, <2>1 DEF DeleteProject, Walk, TypeOK
    <2> QED  BY <1>0, <1>8, <2>3, <2>4, <2>5 DEF DeleteProject, TypeOK
  <1>7. CASE Transfer(r)
    <2>1. r \in Moving
      BY <1>0, <1>7, RequestKinds DEF Transfer
    <2>2. r.project \in Project /\ r.to \in Organization
      BY <2>1 DEF Moving
    <2>3. home' \in [Project -> Home]
      BY <1>7, <2>2 DEF Transfer, TypeOK, Home
    <2>4. walked' \subseteq Project /\ slipped' \subseteq Project /\ crossed' \subseteq Project
      BY <1>7, <2>2 DEF Transfer, Walk, Slip, TypeOK
    <2>5. pending' \subseteq Request
      BY <1>0, <1>7, OvertakenTyped DEF Transfer
    <2>6. Record(r) \in ProjectTransfer
      <3>1. r.id \in 1 .. MaxMoves
        BY <1>7, <2>1, CustodyAssumption DEF Transfer, Moving, TypeOK
      <3> QED  BY <2>1, <3>1 DEF Record, Moving, ProjectTransfer
    <2> QED  BY <1>7, <2>3, <2>4, <2>5, <2>6 DEF Transfer, TypeOK
  <1>9. ASSUME NEW p \in Project, CreateProject(r, p)
        PROVE  TypeOK'
    <2>1. r.by \in User /\ r.org \in Organization
      BY <1>0, <1>9, RequestKinds DEF CreateProject, Creating
    <2>2. [direct[p] EXCEPT ![r.by] = Owner] \in [User -> Role]
      BY <2>1 DEF TypeOK, Role, None, Owner
    <2>3. direct' \in [Project -> [User -> Role]]
      BY <1>9, <2>2 DEF CreateProject, TypeOK
    <2>4. home' \in [Project -> Home]
      BY <1>9, <2>1 DEF CreateProject, TypeOK, Home
    <2>5. slipped' \subseteq Project
      BY <1>9 DEF CreateProject, Slip, TypeOK
    <2> QED  BY <1>0, <1>9, <2>3, <2>4, <2>5 DEF CreateProject, TypeOK
  <1> QED  BY <1>1, <1>2, <1>3, <1>4, <1>5, <1>6, <1>7, <1>8, <1>9 DEF Write

-----------------------------------------------------------------------------
(* The invariant.  A request carries what its check read, and what became  *)
(* of that since: this is what the writes rely on.                         *)

(* An organization that a request is about to put a project into has been  *)
(* created; the project a request is about has been too, and while no move *)
(* overtook it, is where it was, under who was let through for it.         *)
RequestHolds(r) ==
  /\ r.op = "create project" => organization[r.org] # "unborn"
  /\ r.op \in {"mint", "transfer"} => organization[r.to] # "unborn"
  /\ r.op \in {"delete project", "move", "mint", "transfer"} =>
       /\ home[r.project] # "unborn"
       /\ r.alone /\ Exists(r.project) => home[r.project] \in r.held
  /\ r.op \in {"move", "mint", "transfer"} /\ r.alone /\ Exists(r.project) =>
       r.from = home[r.project]
  /\ r.op = "transfer" =>
       /\ r.id \in 1 .. minted
       /\ r.alone => \A t \in for_project(r.project) : t.id < r.id
RequestsHold == \A r \in pending : RequestHolds(r)

(* Projects are put into organizations there are, or were.                 *)
NoneUnborn == \A p \in Project : Exists(p) => organization[home[p]] # "unborn"

(* Records are of projects there are, and have ids that were minted.       *)
RecordsStand == \A t \in transfers : t.id <= minted /\ Exists(t.project)

(* Where moves did not overlap, each record but the last has a next one,   *)
(* and ids tell records apart.                                             *)
Nearest(t) == {s \in Later(t) : \A q \in Later(t) : s.id <= q.id}
WayTold(p) ==
  \A t \in for_project(p) :
    /\ \A s \in for_project(p) : s.id = t.id => s = t
    /\ Later(t) = {} => t.to = home[p]
    /\ Later(t) # {} => \E s \in Nearest(t) : t.to = s.from
WaysTold == \A p \in Project \ crossed : WayTold(p)

ProjectsOwned == \A p \in Project : Exists(p) => Owners(direct[p]) # {}

IInv ==
  /\ TypeOK /\ RequestsHold /\ NoneUnborn /\ RecordsStand /\ WaysTold
  /\ ProjectsOwned /\ NoProjectLeftBehind /\ NobodyWalksOff

(* The migrations leave an organization, and nothing else.                 *)
LEMMA HoldsInitially == Init => IInv
  <1> SUFFICES ASSUME Init  PROVE IInv  OBVIOUS
  <1>1. TypeOK
    BY TypedInitially
  <1>2. \A p \in Project : ~ Exists(p)
    BY CustodyAssumption DEF Init, Exists
  <1>3. pending = {} /\ transfers = {} /\ walked = {}
    BY DEF Init
  <1>4. WaysTold
    BY <1>3 DEF WaysTold, WayTold, for_project
  <1> QED  BY <1>1, <1>2, <1>3, <1>4
           DEF IInv, RequestsHold, NoneUnborn, RecordsStand, ProjectsOwned,
               NoProjectLeftBehind, NobodyWalksOff

-----------------------------------------------------------------------------
(* What requests carry stays true of them.                                 *)

(* The ids of moves are counted.                                           *)
LEMMA Counted ==
  ASSUME TypeOK, TypeOK'
  PROVE  minted \in Nat /\ minted' \in Nat
  <1>1. MaxMoves \in Nat
    BY CustodyAssumption
  <1>2. minted \in 0 .. MaxMoves /\ minted' \in 0 .. MaxMoves
    BY DEF TypeOK
  <1> QED  BY <1>1, <1>2

(* A request keeps what it carries, whatever else closes or moves.         *)
LEMMA StillHolds ==
  ASSUME TypeOK, TypeOK', NEW q \in Request, RequestHolds(q),
         \A o \in Organization : organization[o] # "unborn" => organization'[o] # "unborn",
         q.op \in {"delete project", "move", "mint", "transfer"} =>
           /\ home'[q.project] \in {home[q.project], "gone"}
           /\ \A t \in transfers' : t \in transfers \/ t.project # q.project,
         minted <= minted'
  PROVE  RequestHolds(q)'
  <1>0. minted \in Nat /\ minted' \in Nat /\ "gone" \notin Organization
    BY Counted, CustodyAssumption
  <1>1. CASE q.op = "create project"
    <2>1. q.org \in Organization
      BY <1>1, RequestKinds DEF Creating
    <2> QED  BY <1>1, <2>1 DEF RequestHolds
  <1>2. CASE q.op = "delete project"
    BY <1>0, <1>2 DEF RequestHolds, Exists
  <1>3. CASE q.op \in {"move", "mint", "transfer"}
    <2>1. q \in Moving /\ q.to \in Organization
      BY <1>3, RequestKinds DEF Moving
    <2>2. home'[q.project] # "unborn" /\ (Exists(q.project)' => home'[q.project] = home[q.project])
      BY <1>0, <1>3 DEF RequestHolds, Exists
    <2>3. for_project(q.project)' \subseteq for_project(q.project)
      BY <1>3 DEF for_project
    <2>4. q.op = "transfer" => q.id \in 1 .. minted'
      BY <1>0, <2>1 DEF RequestHolds
    <2> QED  BY <1>3, <2>1, <2>2, <2>3, <2>4 DEF RequestHolds, Exists
  <1>4. CASE q.op \notin {"create project", "delete project", "move", "mint", "transfer"}
    BY <1>4 DEF RequestHolds
  <1> QED  BY <1>1, <1>2, <1>3, <1>4

(* So it does of all that wait, when nothing that they carry is touched.   *)
LEMMA OthersHold ==
  ASSUME TypeOK, TypeOK', RequestsHold,
         \A o \in Organization : organization[o] # "unborn" => organization'[o] # "unborn",
         \A p \in Project : home[p] # "unborn" => home'[p] \in {home[p], "gone"},
         transfers' \subseteq transfers, minted <= minted'
  PROVE  \A q \in pending : RequestHolds(q)'
  <1> SUFFICES ASSUME NEW q \in pending  PROVE RequestHolds(q)'
    OBVIOUS
  <1>1. q \in Request /\ RequestHolds(q)
    BY DEF TypeOK, RequestsHold
  <1>2. ASSUME q.op \in {"delete project", "move", "mint", "transfer"}
        PROVE  home'[q.project] \in {home[q.project], "gone"}
    <2>1. q.project \in Project /\ home[q.project] # "unborn"
      BY <1>1, <1>2, RequestKinds DEF RequestHolds, Removing, Moving
    <2> QED  BY <2>1
  <1> QED  BY <1>1, <1>2, StillHolds

(* A request that is let through carries what is so.                       *)
LEMMA ChecksHold ==
  ASSUME TypeOK, Check
  PROVE  \E r \in Request : LetThrough(r) /\ RequestHolds(r)
  <1> USE KindsAreRequests
  <1>0. /\ None \in Role /\ Offered \subseteq Role
        /\ \A o \in Organization, u \in User : organization_access(u, o, Owner) => organization[o] # "unborn"
    BY CustodyAssumption DEF Role, None, Owner, organization_access
  <1>1. ASSUME NEW u \in User, NEW o \in Organization, CheckCreateProject(u, o)
        PROVE  \E r \in Request : LetThrough(r) /\ RequestHolds(r)
    <2> DEFINE r == [op |-> "create project", by |-> u, org |-> o]
    <2>1. r \in Creating
      BY DEF Creating
    <2>2. RequestHolds(r)
      BY <1>0, <1>1 DEF RequestHolds, CheckCreateProject
    <2> QED  BY <1>1, <2>1, <2>2 DEF CheckCreateProject
  <1>2. ASSUME NEW u \in User, NEW o \in Organization, CheckDeleteOrganization(u, o)
        PROVE  \E r \in Request : LetThrough(r) /\ RequestHolds(r)
    <2> DEFINE r == [op |-> "delete organization", org |-> o]
    <2>1. r \in Closing /\ RequestHolds(r)
      BY DEF Closing, RequestHolds
    <2> QED  BY <1>2, <2>1 DEF CheckDeleteOrganization
  <1>3. ASSUME NEW u \in User, NEW o \in Organization, NEW who \in User, CheckMember(u, o, who)
        PROVE  \E r \in Request : LetThrough(r) /\ RequestHolds(r)
    <2>1. PICK role \in Role, op \in {"set member", "remove member"} :
            LetThrough([op |-> op, org |-> o, who |-> who, role |-> role])
      BY <1>0, <1>3 DEF CheckMember
    <2> DEFINE r == [op |-> op, org |-> o, who |-> who, role |-> role]
    <2>2. r \in Granting /\ RequestHolds(r)
      BY DEF Granting, RequestHolds
    <2> QED  BY <2>1, <2>2
  <1>4. ASSUME NEW u \in User, NEW p \in Project, NEW who \in User, CheckGrant(u, p, who)
        PROVE  \E r \in Request : LetThrough(r) /\ RequestHolds(r)
    <2>1. PICK role \in Role, op \in {"set grant", "remove grant"} :
            LetThrough([op |-> op, project |-> p, who |-> who, role |-> role])
      BY <1>0, <1>4 DEF CheckGrant
    <2> DEFINE r == [op |-> op, project |-> p, who |-> who, role |-> role]
    <2>2. r \in Sharing /\ RequestHolds(r)
      BY DEF Sharing, RequestHolds
    <2> QED  BY <2>1, <2>2
  <1>5. ASSUME NEW u \in User, NEW p \in Project, custody_access(u, p)
        PROVE  /\ Exists(p) /\ home[p] \in Organization /\ home[p] # "unborn"
               /\ Owned(u) \subseteq Organization /\ home[p] \in Owned(u)
    <2>1. Exists(p) /\ OrganizationRole(u, home[p]) >= Owner /\ grant[home[p]][u] \in Role
      BY <1>5 DEF custody_access, organization_access, Exists, TypeOK
    <2> QED  BY <2>1, CustodyAssumption DEF Owned, OrganizationRole, Exists, Role, None, Owner
  <1>6. ASSUME NEW u \in User, NEW p \in Project, CheckDeleteProject(u, p)
        PROVE  \E r \in Request : LetThrough(r) /\ RequestHolds(r)
    <2> DEFINE r == [op |-> "delete project", project |-> p, held |-> Owned(u), alone |-> TRUE]
    <2>1. r \in Removing /\ RequestHolds(r)
      BY <1>5, <1>6 DEF CheckDeleteProject, Removing, RequestHolds
    <2> QED  BY <1>6, <2>1 DEF CheckDeleteProject
  <1>7. ASSUME NEW u \in User, NEW p \in Project, NEW to \in Organization, CheckMove(u, p, to)
        PROVE  \E r \in Request : LetThrough(r) /\ RequestHolds(r)
    <2> DEFINE r == [op |-> "move", by |-> u, project |-> p, from |-> home[p], to |-> to,
                     id |-> 0, held |-> Owned(u), alone |-> TRUE]
    <2>1. r \in Moving /\ RequestHolds(r)
      BY <1>5, <1>7, CustodyAssumption DEF CheckMove, Moving, RequestHolds
    <2> QED  BY <1>7, <2>1 DEF CheckMove
  <1> QED  BY <1>1, <1>2, <1>3, <1>4, <1>6, <1>7 DEF Check

(* Writes and the later checks of a move leave or make no request that     *)
(* carries what is not so.                                                 *)
LEMMA WritesKeepRequests ==
  ASSUME IInv, TypeOK', NEW r \in pending, Write(r)
  PROVE  RequestsHold'
  <1> USE DEF Goes, ghosts
  <1>0. /\ TypeOK /\ RequestsHold /\ r \in Request /\ RequestHolds(r)
        /\ minted \in Nat /\ minted' \in Nat
    BY Counted DEF IInv, TypeOK, RequestsHold
  <1>1. CASE CheckDestination(r)
    <2> DEFINE m == [r EXCEPT !.op = "mint"]
    <2>1. /\ organization[r.to] = "open"
          /\ UNCHANGED <<organization, home, transfers, minted>>
          /\ pending' = (pending \ {r}) \cup {m}
      BY <1>1, Zenon DEF CheckDestination, organization_access
    <2>2. r \in Moving /\ r.op = "move"
      BY <1>0, <1>1, RequestKinds DEF CheckDestination
    <2>3. m \in Moving /\ m.op = "mint" /\ m.to = r.to /\ m.project = r.project
          /\ m.alone = r.alone /\ m.held = r.held /\ m.from = r.from
      BY <2>2, Zenon DEF Moving
    <2> HIDE DEF m
    <2>4. RequestHolds(m)
      BY <1>0, <2>1, <2>2, <2>3 DEF RequestHolds
    <2>5. RequestHolds(m)'
      BY <2>1, <2>4 DEF RequestHolds, Exists, for_project
    <2>6. \A q \in pending : RequestHolds(q)'
      BY <1>0, <2>1, OthersHold
    <2> QED  BY <2>1, <2>5, <2>6 DEF RequestsHold
  <1>2. CASE MintTransfer(r)
    <2>0. PICK m : m = [r EXCEPT !.op = "transfer", !.id = minted + 1]
      OBVIOUS
    <2>1. /\ UNCHANGED <<organization, home, transfers>> /\ minted' = minted + 1
          /\ pending' = (pending \ {r}) \cup {m}
      BY <1>2, <2>0, Zenon DEF MintTransfer
    <2>2. r \in Moving /\ r.op = "mint"
      BY <1>0, <1>2, RequestKinds DEF MintTransfer
    <2>3. m.op = "transfer" /\ m.to = r.to /\ m.project = r.project /\ m.id = minted + 1
          /\ m.alone = r.alone /\ m.held = r.held /\ m.from = r.from
      BY <2>0, <2>2, Zenon DEF Moving
    <2>4. \A t \in transfers : t.id \in Nat /\ t.id <= minted
      BY <1>0 DEF IInv, RecordsStand, TypeOK, ProjectTransfer
    <2>5. \A t \in for_project(m.project)' : t.id < m.id
      BY <1>0, <2>1, <2>3, <2>4 DEF for_project
    <2>6. m.id \in 1 .. minted'
      BY <1>0, <2>1, <2>3
    <2>7. RequestHolds(m)'
      BY <1>0, <2>1, <2>2, <2>3, <2>5, <2>6 DEF RequestHolds, Exists
    <2>8. \A q \in pending : RequestHolds(q)'
      BY <1>0, <2>1, OthersHold
    <2> QED  BY <2>1, <2>7, <2>8 DEF RequestsHold
  <1>3. CASE Drop(r) \/ ChangeMember(r) \/ ChangeGrant(r)
    <2>1. /\ UNCHANGED <<organization, home, transfers, minted>> /\ pending' \subseteq pending
      BY <1>3 DEF Drop, ChangeMember, ChangeGrant
    <2> QED  BY <1>0, <2>1, OthersHold DEF RequestsHold
  <1>4. CASE DeleteOrganization(r)
    <2>1. /\ UNCHANGED <<home, transfers, minted>> /\ pending' \subseteq pending
          /\ \A o \in Organization : organization[o] # "unborn" => organization'[o] # "unborn"
      BY <1>0, <1>4 DEF DeleteOrganization, TypeOK
    <2> QED  BY <1>0, <2>1, OthersHold DEF RequestsHold
  <1>5. CASE DeleteProject(r)
    <2>1. /\ UNCHANGED <<organization, minted>> /\ transfers' \subseteq transfers
          /\ pending' \subseteq pending
          /\ \A p \in Project : home'[p] \in {home[p], "gone"}
      BY <1>0, <1>5 DEF DeleteProject, TypeOK
    <2> QED  BY <1>0, <2>1, OthersHold DEF RequestsHold
  <1>6. ASSUME NEW p \in Project, CreateProject(r, p)
        PROVE  RequestsHold'
    <2>1. /\ UNCHANGED <<organization, transfers, minted>> /\ pending' \subseteq pending
          /\ \A q \in Project : home[q] # "unborn" => home'[q] = home[q]
      BY <1>0, <1>6 DEF CreateProject, TypeOK
    <2> QED  BY <1>0, <2>1, OthersHold DEF RequestsHold
  <1>7. CASE Transfer(r)
    <2>1. r \in Moving /\ r.project \in Project /\ r.to \in Organization
      BY <1>0, <1>7, RequestKinds DEF Transfer, Moving
    <2>2. /\ organization' = organization /\ minted' = minted
          /\ home' = [home EXCEPT ![r.project] = r.to]
          /\ transfers' = transfers \cup {Record(r)}
          /\ pending' = Overtaken(pending \ {r}, r.project)
      BY <1>7 DEF Transfer
    <2>3. ASSUME NEW q \in pending,
                 q.op \in {"delete project", "move", "mint", "transfer"} => q.project # r.project
          PROVE  RequestHolds(q)'
      <3>1. q \in Request /\ RequestHolds(q)
        BY <1>0 DEF TypeOK, RequestsHold
      <3>2. q.op \in {"delete project", "move", "mint", "transfer"} => home'[q.project] = home[q.project]
        BY <1>0, <2>1, <2>2, <2>3, <3>1, RequestKinds DEF TypeOK, Removing, Moving
      <3>3. Record(r).project = r.project
        BY DEF Record
      <3>4. ASSUME q.project # r.project, NEW t \in transfers', t \notin transfers
            PROVE  t.project # q.project
        BY <2>2, <3>3, <3>4
      <3>5. minted <= minted'
        BY <1>0, <2>2
      <3>6. \A o \in Organization : organization[o] # "unborn" => organization'[o] # "unborn"
        BY <2>2
      <3>7. q.op \in {"delete project", "move", "mint", "transfer"} =>
              /\ home'[q.project] \in {home[q.project], "gone"}
              /\ \A t \in transfers' : t \in transfers \/ t.project # q.project
        BY <2>3, <3>2, <3>4
      <3> QED  BY <1>0, <3>1, <3>5, <3>6, <3>7, StillHolds
    <2>4. ASSUME NEW q \in pending, q.project = r.project,
                 q.op \in {"delete project", "move", "mint", "transfer"}
          PROVE  RequestHolds([q EXCEPT !.alone = FALSE])'
      <3> DEFINE m == [q EXCEPT !.alone = FALSE]
      <3>1. q \in Removing \cup Moving /\ RequestHolds(q)
        BY <1>0, <2>4, RequestKinds DEF TypeOK, RequestsHold
      <3>2. m.op = q.op /\ m.project = q.project /\ m.alone = FALSE
        BY <3>1, Zenon DEF Removing, Moving
      <3>3. q.op # "delete project" => m.to = q.to /\ m.id = q.id
        BY <3>1, Zenon DEF Removing, Moving
      <3> HIDE DEF m
      <3>4. home'[m.project] # "unborn"
        BY <1>0, <2>1, <2>2, <2>4, <3>2, CustodyAssumption DEF TypeOK
      <3>5. RequestHolds(m)'
        BY <2>2, <2>4, <3>1, <3>2, <3>3, <3>4 DEF RequestHolds
      <3> QED  BY <3>5 DEF m
    <2> QED  BY <2>2, <2>3, <2>4 DEF RequestsHold, Overtaken
  <1> QED  BY <1>1, <1>2, <1>3, <1>4, <1>5, <1>6, <1>7 DEF Write

-----------------------------------------------------------------------------
(* Owners.                                                                 *)

(* Whoever changes a grant leaves an owner if there was one: the last one  *)
(* stays one (sole_owner).                                                 *)
LEMMA OwnerStays ==
  ASSUME NEW roles \in [User -> Role], NEW who \in User, NEW role \in Role,
         MayChange(roles, who, role), Owners(roles) # {}
  PROVE  Owners([roles EXCEPT ![who] = role]) # {}
  <1>1. CASE role = Owner
    BY <1>1 DEF Owners
  <1>2. CASE roles[who] # Owner
    BY <1>2 DEF Owners
  <1>3. CASE roles[who] = Owner /\ role # Owner
    <2>1. Cardinality({who}) = 1
      BY FS_Singleton
    <2>2. Owners(roles) # {who} /\ who \in Owners(roles)
      BY <1>3, <2>1 DEF MayChange, Owners
    <2>3. PICK u \in Owners(roles) : u # who
      BY <2>2
    <2>4. u \in Owners([roles EXCEPT ![who] = role])
      BY <2>3 DEF Owners
    <2> QED  BY <2>4
  <1> QED  BY <1>1, <1>2, <1>3

(* No write takes a project's last owner.                                  *)
LEMMA WritesKeepOwners ==
  ASSUME IInv, NEW r \in pending, Write(r)
  PROVE  ProjectsOwned'
  <1>0. TypeOK /\ ProjectsOwned /\ r \in Request
    BY DEF IInv, TypeOK
  <1>1. CASE \/ CheckDestination(r) \/ MintTransfer(r) \/ Drop(r)
             \/ DeleteOrganization(r) \/ ChangeMember(r)
    <2>1. UNCHANGED <<home, direct>>
      BY <1>1 DEF CheckDestination, MintTransfer, Drop, DeleteOrganization, ChangeMember
    <2> QED  BY <1>0, <2>1 DEF ProjectsOwned, Exists
  <1>2. CASE ChangeGrant(r)
    <2>1. r.project \in Project /\ r.who \in User /\ r.role \in Role
      BY <1>0, <1>2, RequestKinds DEF ChangeGrant, Sharing
    <2>2. /\ direct' = [direct EXCEPT ![r.project] = [direct[r.project] EXCEPT ![r.who] = r.role]]
          /\ home' = home /\ Exists(r.project) /\ MayChange(direct[r.project], r.who, r.role)
      BY <1>2 DEF ChangeGrant
    <2>3. direct[r.project] \in [User -> Role] /\ Owners(direct[r.project]) # {}
      BY <1>0, <2>1, <2>2 DEF TypeOK, ProjectsOwned
    <2>4. Owners([direct[r.project] EXCEPT ![r.who] = r.role]) # {}
      BY <2>1, <2>2, <2>3, OwnerStays
    <2>5. ASSUME NEW p \in Project, Exists(p)'
          PROVE  Owners(direct'[p]) # {}
      <3>1. CASE p = r.project
        BY <1>0, <2>1, <2>2, <2>4, <3>1 DEF TypeOK
      <3>2. CASE p # r.project
        BY <1>0, <2>1, <2>2, <2>5, <3>2 DEF TypeOK, ProjectsOwned, Exists
      <3> QED  BY <3>1, <3>2
    <2> QED  BY <2>5 DEF ProjectsOwned
  <1>3. CASE Transfer(r)
    <2>1. r.project \in Project /\ Exists(r.project) /\ direct' = direct
          /\ home' = [home EXCEPT ![r.project] = r.to]
      BY <1>0, <1>3, RequestKinds DEF Transfer, Moving
    <2> QED  BY <1>0, <2>1 DEF ProjectsOwned, Exists, TypeOK
  <1>4. CASE DeleteProject(r)
    <2>1. r.project \in Project /\ home' = [home EXCEPT ![r.project] = "gone"]
          /\ \A p \in Project : p # r.project => direct'[p] = direct[p]
      BY <1>0, <1>4, RequestKinds DEF DeleteProject, Removing, TypeOK
    <2> QED  BY <1>0, <2>1, CustodyAssumption DEF ProjectsOwned, Exists, TypeOK
  <1>5. ASSUME NEW p \in Project, CreateProject(r, p)
        PROVE  ProjectsOwned'
    <2>1. r.by \in User
      BY <1>0, <1>5, RequestKinds DEF CreateProject, Creating
    <2>2. /\ direct' = [direct EXCEPT ![p] = [direct[p] EXCEPT ![r.by] = Owner]]
          /\ home' = [home EXCEPT ![p] = r.org]
      BY <1>5 DEF CreateProject
    <2>3. r.by \in Owners(direct'[p])
      BY <1>0, <2>1, <2>2 DEF Owners, TypeOK
    <2>4. \A q \in Project : q # p => direct'[q] = direct[q] /\ home'[q] = home[q]
      BY <1>0, <2>2 DEF TypeOK
    <2> QED  BY <1>0, <2>3, <2>4 DEF ProjectsOwned, Exists
  <1> QED  BY <1>1, <1>2, <1>3, <1>4, <1>5 DEF Write

-----------------------------------------------------------------------------
(* Where projects are, how they came there, and by whom.                   *)

Placed == NoneUnborn /\ RecordsStand /\ WaysTold /\ NoProjectLeftBehind /\ NobodyWalksOff

(* A step that moves no project and closes no organization leaves every    *)
(* project placed.                                                         *)
LEMMA QuietStepsKeepPlaces ==
  ASSUME TypeOK, TypeOK', Placed,
         UNCHANGED <<home, transfers, slipped, crossed, walked>>, minted <= minted',
         \A o \in Organization : organization[o] # "unborn" => organization'[o] = organization[o]
  PROVE  Placed'
  <1>0. minted \in Nat /\ minted' \in Nat /\ \A t \in transfers : t.id \in Nat
    BY Counted DEF TypeOK, ProjectTransfer
  <1>1. NoneUnborn' /\ NoProjectLeftBehind'
    BY DEF Placed, NoneUnborn, NoProjectLeftBehind, Exists
  <1>2. RecordsStand'
    BY <1>0 DEF Placed, RecordsStand, Exists
  <1>3. WaysTold' /\ NobodyWalksOff'
    BY DEF Placed, WaysTold, WayTold, for_project, Later, Nearest, NobodyWalksOff
  <1> QED  BY <1>1, <1>2, <1>3 DEF Placed

(* A record that comes last in a project's history is the next one of the  *)
(* record that came last before, and of no other.                          *)
LEMMA HistoryGrows ==
  ASSUME TypeOK, NEW p \in Project, WayTold(p), Exists(p),
         NEW new \in ProjectTransfer,
         new.project = p, new.from = home[p],
         \A t \in for_project(p) : t.id < new.id,
         transfers' = transfers \cup {new}, home'[p] = new.to
  PROVE  WayTold(p)'
  <1>0. \A t \in transfers : t.id \in Int
    BY DEF TypeOK, ProjectTransfer
  <1>1. for_project(p)' = for_project(p) \cup {new} /\ new.id \in Int
    BY DEF for_project, ProjectTransfer
  <1>2. \A t \in for_project(p) : t.project = p /\ t \in transfers
    BY DEF for_project
  <1>3. \A t \in for_project(p) : Later(t)' = Later(t) \cup {new}
    BY <1>1, <1>2 DEF Later
  <1>4. Later(new)' = {}
    BY <1>0, <1>1, <1>2 DEF Later
  <1>5. ASSUME NEW t \in for_project(p)
        PROVE  \E s \in Nearest(t)' : t.to = s.from
    <2>1. CASE Later(t) = {}
      <3>1. Later(t)' = {new} /\ new.from = t.to
        BY <1>3, <2>1 DEF WayTold
      <3> QED  BY <1>1, <3>1 DEF Nearest
    <2>2. CASE Later(t) # {}
      <3>1. PICK s \in Nearest(t) : t.to = s.from
        BY <2>2 DEF WayTold
      <3>2. s \in Later(t) /\ s \in for_project(p) /\ s.id \in Int
        BY <1>0, <1>2, <3>1 DEF Nearest, Later
      <3>3. s \in Nearest(t)'
        BY <1>0, <1>1, <1>3, <3>1, <3>2 DEF Nearest
      <3> QED  BY <3>1, <3>3
    <2> QED  BY <2>1, <2>2
  <1>6. \A t \in for_project(p) : Later(t)' # {}
    BY <1>3
  <1>7. \A s, t \in for_project(p)' : s.id = t.id => s = t
    BY <1>0, <1>1, <1>2 DEF WayTold
  <1> QED  BY <1>1, <1>4, <1>5, <1>6, <1>7 DEF WayTold

(* No write leaves a project without its organization, its history or its  *)
(* mover's right.                                                          *)
LEMMA WritesKeepPlaces ==
  ASSUME IInv, TypeOK', NEW r \in pending, Write(r)
  PROVE  Placed'
  <1>0. /\ TypeOK /\ Placed /\ r \in Request /\ RequestHolds(r) /\ "gone" \notin Organization
        /\ minted \in Nat /\ minted' \in Nat /\ "unborn" \notin Organization
    <2>1. "gone" \notin Organization /\ "unborn" \notin Organization
      BY CustodyAssumption
    <2> QED  BY <2>1, Counted DEF IInv, Placed, TypeOK, RequestsHold
  <1>1. CASE \/ CheckDestination(r) \/ MintTransfer(r) \/ Drop(r) \/ ChangeMember(r)
             \/ ChangeGrant(r)
    <2>1. /\ UNCHANGED <<organization, home, transfers, slipped, crossed, walked>>
          /\ minted' \in {minted, minted + 1}
      BY <1>1 DEF CheckDestination, MintTransfer, Drop, ChangeMember, ChangeGrant, ghosts
    <2>2. minted <= minted'
      BY <1>0, <2>1
    <2> QED  BY <1>0, <2>1, <2>2, QuietStepsKeepPlaces
  <1>2. CASE DeleteOrganization(r)
    <2>1. /\ UNCHANGED <<home, transfers, slipped, crossed, walked, minted>>
          /\ organization' = [organization EXCEPT ![r.org] = "gone"]
          /\ \A p \in Project : home[p] # r.org
      BY <1>2 DEF DeleteOrganization, Inside, ghosts
    <2>2. NoneUnborn' /\ NoProjectLeftBehind'
      BY <1>0, <2>1 DEF Placed, NoneUnborn, NoProjectLeftBehind, Exists, TypeOK
    <2>3. RecordsStand' /\ WaysTold' /\ NobodyWalksOff'
      BY <1>0, <2>1 DEF Placed, RecordsStand, Exists, WaysTold, WayTold, for_project, Later,
                        Nearest, NobodyWalksOff
    <2> QED  BY <2>2, <2>3 DEF Placed
  <1>3. CASE Transfer(r)
    <2>1. r \in Moving /\ r.project \in Project /\ r.to \in Organization
      BY <1>0, <1>3, RequestKinds DEF Transfer, Moving
    <2>2. /\ r.op = "transfer" /\ Exists(r.project)
          /\ home' = [home EXCEPT ![r.project] = r.to]
          /\ transfers' = transfers \cup {Record(r)}
          /\ slipped' = Slip(r.project, r.to)
          /\ crossed' = IF r.alone THEN crossed ELSE crossed \cup {r.project}
          /\ walked' = Walk(r)
          /\ organization' = organization /\ minted' = minted
      BY <1>3, Zenon DEF Transfer
    <2>3. /\ \A p \in Project : p # r.project => home'[p] = home[p]
          /\ home'[r.project] = r.to
      BY <1>0, <2>1, <2>2 DEF TypeOK
    <2>4. r.id \in 1 .. minted /\ organization[r.to] # "unborn"
      BY <1>0, <2>2 DEF RequestHolds
    <2>5. Record(r) \in ProjectTransfer
      <3>1. r.id \in 1 .. MaxMoves
        BY <1>0, <2>4, CustodyAssumption DEF TypeOK
      <3> QED  BY <2>1, <3>1 DEF Record, Moving, ProjectTransfer
    <2>6. Record(r).id = r.id /\ Record(r).project = r.project /\ Record(r).from = r.from
          /\ Record(r).to = r.to
      BY DEF Record
    <2>7. NoneUnborn'
      BY <1>0, <2>2, <2>3, <2>4 DEF Placed, NoneUnborn, Exists
    <2>8. RecordsStand'
      <3>1. ASSUME NEW t \in transfers
            PROVE  t.id <= minted' /\ Exists(t.project)'
        <4>1. t.project \in Project /\ Exists(t.project) /\ t.id <= minted
          BY <1>0 DEF Placed, RecordsStand, TypeOK, ProjectTransfer
        <4> QED  BY <2>1, <2>2, <2>3, <4>1 DEF Exists
      <3>2. r.id <= minted' /\ Exists(r.project)'
        BY <1>0, <2>1, <2>2, <2>3, <2>4 DEF Exists
      <3> QED  BY <2>2, <2>6, <3>1, <3>2 DEF RecordsStand
    <2>9. NoProjectLeftBehind'
      <3>1. organization[r.to] \in {"open", "gone"}
        BY <1>0, <2>1, <2>4 DEF TypeOK, Standing
      <3> QED  BY <1>0, <2>1, <2>2, <2>3, <3>1 DEF Placed, NoProjectLeftBehind, Exists, Slip
    <2>10. NobodyWalksOff'
      BY <1>0, <2>2 DEF Placed, NobodyWalksOff, RequestHolds, Walk
    <2>11. ASSUME NEW p \in Project \ crossed'
           PROVE  WayTold(p)'
      <3>1. p \notin crossed /\ WayTold(p)
        BY <1>0, <2>2, <2>11 DEF Placed, WaysTold
      <3>2. CASE p = r.project
        <4>1. r.alone
          BY <2>2, <2>11, <3>2
        <4>2. /\ r.from = home[p] /\ \A t \in for_project(p) : t.id < r.id
          BY <1>0, <2>2, <3>2, <4>1 DEF RequestHolds
        <4> QED  BY <1>0, <2>2, <2>3, <2>5, <2>6, <3>1, <3>2, <4>2, HistoryGrows
      <3>3. CASE p # r.project
        <4>1. for_project(p)' = for_project(p)
          BY <2>2, <2>6, <3>3 DEF for_project
        <4>2. \A t \in for_project(p) : t.project = p
          BY DEF for_project
        <4>3. \A t \in for_project(p) : Later(t)' = Later(t)
          BY <4>1, <4>2 DEF Later
        <4>4. \A t \in for_project(p) : Nearest(t)' = Nearest(t)
          BY <4>3 DEF Nearest
        <4> QED  BY <2>3, <3>1, <3>3, <4>1, <4>3, <4>4 DEF WayTold
      <3> QED  BY <3>2, <3>3
    <2> QED  BY <2>7, <2>8, <2>9, <2>10, <2>11 DEF Placed, WaysTold
  <1>4. CASE DeleteProject(r)
    <2>1. r.project \in Project
      BY <1>0, <1>4, RequestKinds DEF DeleteProject, Removing
    <2>2. /\ r.op = "delete project" /\ Exists(r.project)
          /\ home' = [home EXCEPT ![r.project] = "gone"]
          /\ transfers' = {t \in transfers : t.project # r.project}
          /\ slipped' = slipped \ {r.project} /\ crossed' = crossed /\ walked' = Walk(r)
          /\ organization' = organization /\ minted' = minted
      BY <1>4, Zenon DEF DeleteProject
    <2>3. /\ \A p \in Project : p # r.project => home'[p] = home[p]
          /\ ~ Exists(r.project)'
      BY <1>0, <2>1, <2>2 DEF TypeOK, Exists
    <2>4. NoneUnborn' /\ NoProjectLeftBehind'
      BY <1>0, <2>2, <2>3 DEF Placed, NoneUnborn, NoProjectLeftBehind, Exists
    <2>5. RecordsStand'
      <3>1. ASSUME NEW t \in transfers, t.project # r.project
            PROVE  t.id <= minted' /\ Exists(t.project)'
        <4>1. t.project \in Project /\ Exists(t.project) /\ t.id <= minted
          BY <1>0 DEF Placed, RecordsStand, TypeOK, ProjectTransfer
        <4> QED  BY <2>2, <2>3, <3>1, <4>1 DEF Exists
      <3> QED  BY <2>2, <3>1 DEF RecordsStand
    <2>6. NobodyWalksOff'
      BY <1>0, <2>2 DEF Placed, NobodyWalksOff, RequestHolds, Walk
    <2>7. ASSUME NEW p \in Project \ crossed'
          PROVE  WayTold(p)'
      <3>1. CASE p = r.project
        <4>1. for_project(p)' = {}
          BY <2>2, <3>1 DEF for_project
        <4> QED  BY <4>1 DEF WayTold
      <3>2. CASE p # r.project
        <4>1. for_project(p)' = for_project(p) /\ WayTold(p)
          BY <1>0, <2>2, <2>7, <3>2 DEF for_project, Placed, WaysTold
        <4>2. \A t \in for_project(p) : t.project = p
          BY DEF for_project
        <4>3. \A t \in for_project(p) : Later(t)' = Later(t)
          BY <4>1, <4>2 DEF Later
        <4>4. \A t \in for_project(p) : Nearest(t)' = Nearest(t)
          BY <4>3 DEF Nearest
        <4> QED  BY <2>3, <3>2, <4>1, <4>3, <4>4 DEF WayTold
      <3> QED  BY <3>1, <3>2
    <2> QED  BY <2>4, <2>5, <2>6, <2>7 DEF Placed, WaysTold
  <1>5. ASSUME NEW p \in Project, CreateProject(r, p)
        PROVE  Placed'
    <2>1. r.org \in Organization /\ organization[r.org] # "unborn"
      BY <1>0, <1>5, RequestKinds DEF CreateProject, Creating, RequestHolds
    <2>2. /\ home[p] = "unborn" /\ home' = [home EXCEPT ![p] = r.org]
          /\ slipped' = Slip(p, r.org) /\ crossed' = crossed /\ walked' = walked
          /\ UNCHANGED <<organization, transfers, minted>>
      BY <1>5, Zenon DEF CreateProject
    <2>3. /\ \A q \in Project : q # p => home'[q] = home[q]
          /\ home'[p] = r.org
      BY <1>0, <2>2 DEF TypeOK
    <2>4. NoneUnborn'
      BY <1>0, <2>1, <2>2, <2>3 DEF Placed, NoneUnborn, Exists
    <2>5. NoProjectLeftBehind'
      <3>1. organization[r.org] \in {"open", "gone"}
        BY <1>0, <2>1 DEF TypeOK, Standing
      <3> QED  BY <1>0, <2>1, <2>2, <2>3, <3>1 DEF Placed, NoProjectLeftBehind, Exists, Slip
    <2>6. \A t \in transfers : t.project # p /\ t.project \in Project
      BY <1>0, <2>2 DEF Placed, RecordsStand, Exists, TypeOK, ProjectTransfer
    <2>7. RecordsStand'
      BY <1>0, <2>2, <2>3, <2>6 DEF Placed, RecordsStand, Exists
    <2>8. ASSUME NEW q \in Project \ crossed'
          PROVE  WayTold(q)'
      <3>1. for_project(q)' = for_project(q) /\ WayTold(q)
        BY <1>0, <2>2, <2>8 DEF for_project, Placed, WaysTold
      <3>2. CASE q = p
        <4>1. for_project(q) = {}
          BY <2>6, <3>2 DEF for_project
        <4> QED  BY <3>1, <4>1 DEF WayTold
      <3>3. CASE q # p
        <4>1. \A t \in for_project(q) : Later(t)' = Later(t) /\ Nearest(t)' = Nearest(t)
          BY <2>2 DEF Later, Nearest, for_project
        <4> QED  BY <2>3, <3>1, <3>3, <4>1 DEF WayTold
      <3> QED  BY <3>2, <3>3
    <2> QED  BY <1>0, <2>2, <2>4, <2>5, <2>7, <2>8 DEF Placed, WaysTold, NobodyWalksOff
  <1> QED  BY <1>1, <1>2, <1>3, <1>4, <1>5 DEF Write

-----------------------------------------------------------------------------
(* The invariant holds.                                                    *)

(* A check writes nothing, and what it lets through carries what is so.    *)
LEMMA ChecksKeepInvariant ==
  ASSUME IInv, Check
  PROVE  IInv'
  <1>1. PICK r \in Request : LetThrough(r) /\ RequestHolds(r)
    BY ChecksHold DEF IInv
  <1>2. /\ UNCHANGED <<organization, grant, home, direct, transfers, minted>>
        /\ UNCHANGED <<slipped, crossed, walked>>
        /\ pending' = pending \cup {r}
    BY <1>1 DEF LetThrough, ghosts
  <1>3. TypeOK /\ TypeOK'
    BY <1>1, <1>2 DEF IInv, TypeOK
  <1>4. RequestsHold'
    <2>1. RequestHolds(r)'
      BY <1>1, <1>2 DEF RequestHolds, Exists, for_project
    <2>2. minted <= minted'
      BY <1>2, <1>3, Counted
    <2>3. \A q \in pending : RequestHolds(q)'
      BY <1>2, <1>3, <2>2, OthersHold DEF IInv
    <2> QED  BY <1>2, <2>1, <2>3 DEF RequestsHold
  <1>5. ProjectsOwned'
    BY <1>2 DEF IInv, ProjectsOwned, Exists
  <1>6. Placed'
    <2>1. minted <= minted'
      BY <1>2, <1>3, Counted
    <2>2. Placed
      BY DEF IInv, Placed
    <2> QED  BY <1>2, <1>3, <2>1, <2>2, QuietStepsKeepPlaces
  <1> QED  BY <1>3, <1>4, <1>5, <1>6 DEF IInv, Placed

(* A new organization (Organization::create) has an owner and nothing in it. *)
LEMMA CreationsKeepInvariant ==
  ASSUME IInv, NEW u \in User, NEW o \in Organization, CreateOrganization(u, o)
  PROVE  IInv'
  <1>1. /\ UNCHANGED <<home, direct, transfers, pending, minted, slipped, crossed, walked>>
        /\ organization[o] = "unborn"
        /\ organization' = [organization EXCEPT ![o] = "open"]
        /\ grant' = [grant EXCEPT ![o] = [grant[o] EXCEPT ![u] = Owner]]
    BY DEF CreateOrganization, ghosts
  <1>2. TypeOK
    BY DEF IInv
  <1>3. TypeOK'
    <2>1. [grant[o] EXCEPT ![u] = Owner] \in [User -> Role]
      BY <1>2 DEF TypeOK, Role, None, Owner
    <2>2. grant' \in [Organization -> [User -> Role]]
      BY <1>1, <1>2, <2>1 DEF TypeOK
    <2>3. organization' \in [Organization -> Standing]
      BY <1>1, <1>2 DEF TypeOK, Standing
    <2> QED  BY <1>1, <1>2, <2>2, <2>3 DEF TypeOK
  <1>4. /\ minted <= minted'
        /\ \A oo \in Organization : organization[oo] # "unborn" => organization'[oo] = organization[oo]
    <2>1. minted <= minted'
      BY <1>1, <1>2, <1>3, Counted
    <2> QED  BY <1>1, <1>2, <2>1 DEF TypeOK
  <1>5. RequestsHold'
    <2>1. \A q \in pending : RequestHolds(q)'
      BY <1>1, <1>2, <1>3, <1>4, OthersHold DEF IInv
    <2> QED  BY <1>1, <2>1 DEF RequestsHold
  <1>6. ProjectsOwned'
    BY <1>1 DEF IInv, ProjectsOwned, Exists
  <1>7. Placed'
    <2>1. Placed
      BY DEF IInv, Placed
    <2> QED  BY <1>1, <1>2, <1>3, <1>4, <2>1, QuietStepsKeepPlaces
  <1> QED  BY <1>3, <1>5, <1>6, <1>7 DEF IInv, Placed

(* Where no table and no request changes, nothing that was so is no more.  *)
LEMMA StutteringKeepsInvariant ==
  ASSUME IInv, UNCHANGED vars
  PROVE  IInv'
  <1> USE DEF vars, Exists, for_project
  <1>1. TypeOK'
    BY DEF IInv, TypeOK
  <1>2. RequestsHold'
    BY DEF IInv, RequestsHold, RequestHolds
  <1>3. WaysTold'
    BY DEF IInv, WaysTold, WayTold, Later, Nearest
  <1>4. /\ NoneUnborn' /\ RecordsStand' /\ ProjectsOwned' /\ NoProjectLeftBehind'
        /\ NobodyWalksOff'
    BY DEF IInv, NoneUnborn, RecordsStand, ProjectsOwned, Owners, NoProjectLeftBehind,
           NobodyWalksOff
  <1> QED  BY <1>1, <1>2, <1>3, <1>4 DEF IInv

(* Each step of Next, or none.                                             *)
LEMMA StepsKeepInvariant == IInv /\ [Next]_vars => IInv'
  <1> SUFFICES ASSUME IInv, [Next]_vars  PROVE IInv'
    OBVIOUS
  <1>1. ASSUME NEW r \in pending, Write(r)
        PROVE  IInv'
    <2>1. TypeOK'
      <3>1. TypeOK /\ RequestHolds(r)
        BY DEF IInv, RequestsHold
      <3>2. r.op = "transfer" => r.id \in 1 .. minted
        BY <3>1 DEF RequestHolds
      <3> QED  BY <1>1, <3>1, <3>2, WritesTyped
    <2> QED  BY <1>1, <2>1, WritesKeepRequests, WritesKeepOwners, WritesKeepPlaces DEF IInv, Placed
  <1> QED  BY <1>1, ChecksKeepInvariant, CreationsKeepInvariant, StutteringKeepsInvariant DEF Next

(* In every order of checks and writes, what requests carry and what the   *)
(* tables hold of it agree.                                                *)
THEOREM InvariantHolds == Spec => []IInv
  BY HoldsInitially, StepsKeepInvariant, PTL DEF Spec

(* Every handler keeps the types of the tables, and a project keeps an     *)
(* owner (project/member.rs:92, :170), whatever moves and changes of       *)
(* grants it goes through.                                                 *)
THEOREM ProjectAlwaysKeepsOwner == Spec => []ProjectKeepsOwner
  <1>1. IInv => ProjectKeepsOwner
    BY DEF IInv, ProjectsOwned, ProjectKeepsOwner
  <1> QED  BY <1>1, InvariantHolds, PTL

(* Deleting an organization leaves no project behind                       *)
(* (organization/mod.rs:25): a project out of reach is one that a request  *)
(* let through before the deletion put there after it.                     *)
THEOREM ProjectNeverLeftBehind == Spec => []NoProjectLeftBehind
  <1>1. IInv => NoProjectLeftBehind
    BY DEF IInv
  <1> QED  BY <1>1, InvariantHolds, PTL

(* Nobody takes a project out of an organization they did not own when     *)
(* they were let through (http/api/mod.rs:123), while moves do not overlap. *)
THEOREM NobodyEverWalksOff == Spec => []NobodyWalksOff
  <1>1. IInv => NobodyWalksOff
    BY DEF IInv
  <1> QED  BY <1>1, InvariantHolds, PTL

(* The next record is the one that ORDER BY id shows next.                 *)
LEMMA NearestFollows ==
  ASSUME TypeOK, NEW p \in Project, WayTold(p), NEW t \in for_project(p),
         Later(t) # {}
  PROVE  t.to = Following(t).from
  <1>1. PICK s \in Nearest(t) : t.to = s.from
    BY DEF WayTold
  <1>2. s \in Later(t) /\ \A q \in Later(t) : s.id <= q.id
    BY <1>1 DEF Nearest
  <1>3. /\ Following(t) \in Later(t)
        /\ \A q \in Later(t) : Following(t).id <= q.id
    BY <1>2, Zenon DEF Following
  <1>4. Later(t) \subseteq for_project(p) /\ \A q \in Later(t) : q.id \in Int
    BY DEF Later, for_project, TypeOK, ProjectTransfer
  <1>5. s.id = Following(t).id
    <2>1. s.id <= Following(t).id /\ Following(t).id <= s.id
      BY <1>2, <1>3
    <2>2. s.id \in Int /\ Following(t).id \in Int
      BY <1>2, <1>3, <1>4
    <2> QED  BY <2>1, <2>2
  <1>6. s = Following(t)
    BY <1>2, <1>3, <1>4, <1>5 DEF WayTold
  <1> QED  BY <1>1, <1>6

(* The records of a project whose moves did not overlap tell, newest       *)
(* first, the way back from where it is (project/mod.rs:355,               *)
(* project/transfer.rs:49).                                                *)
THEOREM HistoryAlwaysTellsTheWay == Spec => []HistoryTellsTheWay
  <1>1. IInv => HistoryTellsTheWay
    <2> SUFFICES ASSUME IInv, NEW p \in Project, p \notin crossed, NEW t \in for_project(p)
                 PROVE  t.to = IF Later(t) = {} THEN home[p] ELSE Following(t).from
      BY DEF HistoryTellsTheWay
    <2>1. TypeOK /\ WayTold(p)
      BY DEF IInv, WaysTold
    <2>2. CASE Later(t) = {}
      BY <2>1, <2>2 DEF WayTold
    <2>3. CASE Later(t) # {}
      BY <2>1, <2>3, NearestFollows
    <2> QED  BY <2>2, <2>3
  <1> QED  BY <1>1, InvariantHolds, PTL

-----------------------------------------------------------------------------
(* What is listed and what is let through.                                 *)

(* The maximum of two roles is the greater one.                            *)
LEMMA GreaterRole ==
  ASSUME NEW a \in Role, NEW b \in Role
  PROVE  Max({a, b}) = IF a >= b THEN a ELSE b
  <1>1. a \in Int /\ b \in Int
    BY DEF Role, None, Owner
  <1>2. \E x \in {a, b} : \A y \in {a, b} : x >= y
    BY <1>1
  <1>3. Max({a, b}) \in {a, b} /\ \A y \in {a, b} : Max({a, b}) >= y
    BY <1>2, Zenon DEF Max
  <1> QED  BY <1>1, <1>3

(* The CASE in SQL and the maximum in Rust give every caller the same role *)
(* (project/mod.rs:187, project/member.rs:42), and the listings and the    *)
(* access checks the same answer, by the types of the tables alone.        *)
THEOREM ListingsAlwaysAgree == Spec => []ListingsAgree
  <1>1. IInv => ListingsAgree
    <2> SUFFICES ASSUME TypeOK, NEW u \in User  PROVE
          /\ \A p \in Project :
               Exists(p) /\ organization[home[p]] = "open" =>
                 /\ p \in ListedProjects(u) <=> project_access(u, p, Viewer)
                 /\ p \in ListedProjects(u) => ListedRole(u, p) = ProjectRole(u, p)
          /\ \A o \in Organization :
               o \in ListedOrganizations(u) <=> organization_access(u, o, Viewer)
      BY DEF IInv, ListingsAgree
    <2>1. ASSUME NEW p \in Project, Exists(p), organization[home[p]] = "open"
          PROVE  /\ p \in ListedProjects(u) <=> project_access(u, p, Viewer)
                 /\ p \in ListedProjects(u) => ListedRole(u, p) = ProjectRole(u, p)
      <3>1. direct[p][u] \in Role /\ grant[home[p]][u] \in Role
        BY <2>1 DEF TypeOK, Exists
      <3>2. PICK a \in Role, b \in Role : a = direct[p][u] /\ b = grant[home[p]][u]
        BY <3>1
      <3>3. ProjectRole(u, p) = IF u \in Admin THEN Owner ELSE IF a >= b THEN a ELSE b
        BY <2>1, <3>2, GreaterRole DEF ProjectRole, role_for_project
      <3>4. p \in ListedProjects(u) <=> u \in Admin \/ a # None \/ b # None
        BY <2>1, <3>2 DEF ListedProjects
      <3>5. ListedRole(u, p) =
              IF u \in Admin \/ Owner \in {a, b} THEN Owner
              ELSE IF Operator \in {a, b} THEN Operator ELSE Viewer
        BY <3>2 DEF ListedRole
      <3>6. project_access(u, p, Viewer) <=> ProjectRole(u, p) >= Viewer
        BY <2>1 DEF project_access
      <3> QED  BY <3>2, <3>3, <3>4, <3>5, <3>6 DEF Role, None, Viewer, Operator, Owner
    <2>2. ASSUME NEW o \in Organization
          PROVE  o \in ListedOrganizations(u) <=> organization_access(u, o, Viewer)
      <3>1. grant[o][u] \in Role
        BY DEF TypeOK
      <3> QED  BY <3>1 DEF ListedOrganizations, organization_access, OrganizationRole, Role,
                           None, Viewer, Owner
    <2> QED  BY <2>1, <2>2
  <1> QED  BY <1>1, InvariantHolds, PTL

-----------------------------------------------------------------------------
(* An organization keeps an owner.                                         *)

(* Only changes of members (organization/member.rs:87, :157) and the       *)
(* deletion of the organization take grants away, and the former leave an  *)
(* owner.                                                                  *)
LEMMA StepsKeepOwner ==
  ASSUME IInv, [Next]_vars, NEW o \in Organization, Owners(grant[o]) # {}
  PROVE  Owners(grant'[o]) # {} \/ organization'[o] = "gone"
  <1>0. TypeOK
    BY DEF IInv
  <1>1. CASE grant' = grant
    BY <1>1
  <1>2. ASSUME NEW u \in User, NEW oo \in Organization, CreateOrganization(u, oo)
        PROVE  Owners(grant'[o]) # {}
    <2>1. grant' = [grant EXCEPT ![oo] = [grant[oo] EXCEPT ![u] = Owner]]
      BY <1>2 DEF CreateOrganization
    <2> QED  BY <1>0, <2>1 DEF Owners, TypeOK
  <1>3. ASSUME NEW r \in pending, DeleteOrganization(r)
        PROVE  Owners(grant'[o]) # {} \/ organization'[o] = "gone"
    BY <1>0, <1>3 DEF DeleteOrganization, TypeOK
  <1>4. ASSUME NEW r \in pending, ChangeMember(r)
        PROVE  Owners(grant'[o]) # {}
    <2>1. r.org \in Organization /\ r.who \in User /\ r.role \in Role
      BY <1>0, <1>4, RequestKinds DEF ChangeMember, Granting, TypeOK
    <2>2. /\ grant' = [grant EXCEPT ![r.org] = [grant[r.org] EXCEPT ![r.who] = r.role]]
          /\ MayChange(grant[r.org], r.who, r.role)
      BY <1>4 DEF ChangeMember
    <2>3. CASE o = r.org
      <3>1. grant[o] \in [User -> Role]
        BY <1>0 DEF TypeOK
      <3>2. Owners([grant[o] EXCEPT ![r.who] = r.role]) # {}
        BY <2>1, <2>2, <2>3, <3>1, OwnerStays
      <3> QED  BY <1>0, <2>2, <2>3, <3>2 DEF TypeOK
    <2>4. CASE o # r.org
      BY <1>0, <2>1, <2>2, <2>4 DEF TypeOK
    <2> QED  BY <2>3, <2>4
  <1>5. ASSUME NEW r \in pending, Write(r), ~ DeleteOrganization(r), ~ ChangeMember(r)
        PROVE  grant' = grant
    BY <1>5 DEF Write, CheckDestination, MintTransfer, Drop, ChangeGrant, Transfer,
                DeleteProject, CreateProject
  <1>6. ASSUME Check
        PROVE  grant' = grant
    BY <1>0, <1>6, ChecksHold DEF LetThrough
  <1> QED  BY <1>1, <1>2, <1>3, <1>4, <1>5, <1>6 DEF Next, vars

(* "An organization keeps at least one owner" (docs/data-model.md:26), at  *)
(* every step, until it is deleted.                                        *)
THEOREM OrganizationAlwaysKeepsOwner == Spec => OrganizationKeepsOwner
  <1>1. IInv /\ [Next]_vars =>
          [\A o \in Organization :
             Owners(grant[o]) # {} => Owners(grant'[o]) # {} \/ organization'[o] = "gone"]_vars
    BY StepsKeepOwner
  <1> QED  BY <1>1, InvariantHolds, PTL DEF Spec, OrganizationKeepsOwner
=============================================================================
