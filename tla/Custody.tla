------------------------------ MODULE Custody ------------------------------
(***************************************************************************)
(* Who holds what: organizations, the projects in them, the grants people  *)
(* hold on either, and the record of the moves (src/src/organization/,     *)
(* src/src/project/, and the handlers of src/src/http/api/ in front of     *)
(* them).                                                                  *)
(*                                                                         *)
(* A handler reads what it needs to let the caller through, answers if it  *)
(* does not, and then writes in a transaction of its own: whatever other   *)
(* handlers do between the two goes unseen, save what the transaction      *)
(* reads again.  A request let through is in pending until its write.      *)
(*                                                                         *)
(* Ids are never used twice, so an id is unborn, in use or gone.  Roles    *)
(* are numbered by privilege, as the two Rust enums are ordered.  Names,   *)
(* descriptions and settings, which no access depends on, are left out;    *)
(* the record of a move names the organization itself.                     *)
(***************************************************************************)
EXTENDS Integers, FiniteSetsExt

CONSTANTS
  User,         \* accounts; they are never deleted
  Admin,        \* the accounts with the instance role admin
  Member,       \* the accounts with the instance role member
  Organization, \* ids of organizations
  Default,      \* the one the migrations create
  Project,      \* ids of projects
  Offered,      \* roles that requests hand out
  MaxRequests,  \* bound on requests between their check and their write
  MaxMoves      \* bound on the ids minted for moves

ASSUME CustodyAssumption ==
  /\ Admin \subseteq User /\ Member \subseteq User
  /\ Offered \subseteq 1 .. 3
  /\ MaxRequests \in Nat /\ MaxMoves \in Nat
  /\ {"unborn", "gone"} \cap Organization = {}
  /\ Default \in Organization

VARIABLES
  organization, \* table organizations: how each id stands
  grant,        \* table organization_members: each user's role, or None
  home,         \* table projects: organization_id of each project there is
  direct,       \* table project_members
  transfers,    \* table project_transfers
  pending,      \* requests let through, not yet written
  minted,       \* how many ids of moves there are
  slipped,      \* ghost: projects put into an organization already deleted
  crossed,      \* ghost: projects whose moves overlapped
  walked        \* ghost: projects moved or deleted by who held no right to

vars == <<organization, grant, home, direct, transfers, pending, minted,
          slipped, crossed, walked>>
ghosts == <<slipped, crossed, walked>>

-----------------------------------------------------------------------------
None == 0
Viewer == 1
Operator == 2
Owner == 3
Role == None .. Owner

Standing == {"unborn", "open", "gone"}
Home == Organization \cup {"unborn", "gone"}
ProjectTransfer ==
  [id : 1 .. MaxMoves, project : Project, from : Organization, to : Organization]

(* A request let through: what it is about to write, and what it read.     *)
Request ==
  [op : {"create project"}, by : User, org : Organization]
    \cup [op : {"set member", "remove member"}, org : Organization, who : User, role : Role]
    \cup [op : {"set grant", "remove grant"}, project : Project, who : User, role : Role]
    \cup [op : {"delete organization"}, org : Organization]
    \cup [op : {"delete project"}, project : Project, held : SUBSET Organization, alone : BOOLEAN]
    \cup [op : {"move", "mint", "transfer"}, by : User, project : Project,
          from : Organization, to : Organization, id : 0 .. MaxMoves,
          held : SUBSET Organization, alone : BOOLEAN]

Exists(p) == home[p] \in Organization
Inside(o) == {p \in Project : home[p] = o}

(* The migrations leave one organization: without members in a new         *)
(* database, with the administrators of an older one as its owners.        *)
Init ==
  /\ organization = [o \in Organization |-> IF o = Default THEN "open" ELSE "unborn"]
  /\ \E owners \in {{}, Admin} :
       grant = [o \in Organization |->
                 [u \in User |-> IF o = Default /\ u \in owners THEN Owner ELSE None]]
  /\ home = [p \in Project |-> "unborn"]
  /\ direct = [p \in Project |-> [u \in User |-> None]]
  /\ transfers = {}
  /\ pending = {}
  /\ minted = 0
  /\ slipped = {} /\ crossed = {} /\ walked = {}

-----------------------------------------------------------------------------
(* Who may do what.                                                        *)

OrganizationRole(u, o) == IF u \in Admin THEN Owner ELSE grant[o][u]

role_for_project(u, p) == IF Exists(p) THEN grant[home[p]][u] ELSE None

(* Faulty variant: a grant on the project hides the inherited one.         *)
DirectFirst(u, p) ==
  IF u \in Admin THEN Owner
  ELSE IF direct[p][u] # None THEN direct[p][u] ELSE role_for_project(u, p)
ProjectRole(u, p) ==
  IF u \in Admin THEN Owner ELSE Max({direct[p][u], role_for_project(u, p)})

organization_access(u, o, permission) ==
  organization[o] = "open" /\ OrganizationRole(u, o) >= permission

project_access(u, p, permission) ==
  Exists(p) /\ ProjectRole(u, p) >= permission

(* Faulty variant: an owner of the project may dispose of it.              *)
ProjectOwnerMayMove(u, p) == project_access(u, p, Owner)
custody_access(u, p) == Exists(p) /\ organization_access(u, home[p], Owner)

can_create_organization(u) == u \in Member \cup Admin

(* Ghost: the organizations a caller owns, by the grants themselves.       *)
Owned(u) == {o \in Organization : u \in Admin \/ grant[o][u] = Owner}

(* What a caller is shown: Project::summaries_for resolves the role in SQL, *)
(* and joins the organization; Organization::summaries_for likewise.       *)
ListedProjects(u) ==
  {p \in Project :
     /\ Exists(p) /\ organization[home[p]] = "open"
     /\ u \in Admin \/ direct[p][u] # None \/ grant[home[p]][u] # None}

ListedRole(u, p) ==
  LET held == {direct[p][u], grant[home[p]][u]}
  IN  IF u \in Admin \/ Owner \in held THEN Owner
      ELSE IF Operator \in held THEN Operator ELSE Viewer

ListedOrganizations(u) ==
  {o \in Organization : organization[o] = "open" /\ (u \in Admin \/ grant[o][u] # None)}

(* ProjectTransfer::for_project, by id.                                    *)
for_project(p) == {t \in transfers : t.project = p}
Later(t) == {s \in for_project(t.project) : s.id > t.id}
Following(t) == CHOOSE s \in Later(t) : \A q \in Later(t) : s.id <= q.id

-----------------------------------------------------------------------------
(* The checks.  Each lets a request through to its write.                  *)

LetThrough(r) ==
  /\ Cardinality(pending) < MaxRequests
  /\ pending' = pending \cup {r}
  /\ UNCHANGED <<organization, grant, home, direct, transfers, minted, ghosts>>

Goes(r) == pending' = pending \ {r}

(* ProjectApi::create_project.                                             *)
CheckCreateProject(u, o) ==
  /\ organization_access(u, o, Owner)
  /\ LetThrough([op |-> "create project", by |-> u, org |-> o])

(* OrganizationApi::set_organization_member, remove_organization_member.   *)
CheckMember(u, o, who) ==
  /\ organization_access(u, o, Owner)
  /\ \/ \E role \in Offered :
          LetThrough([op |-> "set member", org |-> o, who |-> who, role |-> role])
     \/ LetThrough([op |-> "remove member", org |-> o, who |-> who, role |-> None])

(* OrganizationApi::delete_organization.                                   *)
CheckDeleteOrganization(u, o) ==
  /\ organization_access(u, o, Owner)
  /\ LetThrough([op |-> "delete organization", org |-> o])

(* MemberApi::set_project_member, remove_project_member.                   *)
CheckGrant(u, p, who) ==
  /\ project_access(u, p, Owner)
  /\ \/ \E role \in Offered :
          LetThrough([op |-> "set grant", project |-> p, who |-> who, role |-> role])
     \/ LetThrough([op |-> "remove grant", project |-> p, who |-> who, role |-> None])

(* ProjectApi::delete_project.                                             *)
CheckDeleteProject(u, p) ==
  /\ custody_access(u, p)
  /\ LetThrough([op |-> "delete project", project |-> p, held |-> Owned(u), alone |-> TRUE])

(* ProjectApi::move_project: the project and the organization it is in ... *)
CheckMove(u, p, to) ==
  /\ custody_access(u, p)
  /\ home[p] # to
  /\ LetThrough([op |-> "move", by |-> u, project |-> p, from |-> home[p], to |-> to,
                 id |-> 0, held |-> Owned(u), alone |-> TRUE])

(* ... then the one it goes to ...                                         *)
CheckDestination(r) ==
  /\ r.op = "move"
  /\ organization_access(r.by, r.to, Owner)
  /\ pending' = (pending \ {r}) \cup {[r EXCEPT !.op = "mint"]}
  /\ UNCHANGED <<organization, grant, home, direct, transfers, minted, ghosts>>

(* ... and Project::transfer mints the id of the record.                   *)
(* Faulty variant: the record is a transaction of its own, before the move. *)
MintAndRecord(r) ==
  /\ r.op = "mint" /\ minted < MaxMoves
  /\ minted' = minted + 1
  /\ pending' = (pending \ {r}) \cup {[r EXCEPT !.op = "transfer", !.id = minted + 1]}
  /\ transfers' = transfers \cup
       {[id |-> minted + 1, project |-> r.project, from |-> r.from, to |-> r.to]}
  /\ UNCHANGED <<organization, grant, home, direct, ghosts>>
MintTransfer(r) ==
  /\ r.op = "mint" /\ minted < MaxMoves
  /\ minted' = minted + 1
  /\ pending' = (pending \ {r}) \cup {[r EXCEPT !.op = "transfer", !.id = minted + 1]}
  /\ UNCHANGED <<organization, grant, home, direct, transfers, ghosts>>

(* The caller is gone, a statement fails, a later check refuses.           *)
Drop(r) ==
  /\ Goes(r)
  /\ UNCHANGED <<organization, grant, home, direct, transfers, minted, ghosts>>

-----------------------------------------------------------------------------
(* The writes, each one transaction.                                       *)

(* OrganizationApi::create_organization, Organization::create.             *)
CreateOrganization(u, o) ==
  /\ can_create_organization(u)
  /\ organization[o] = "unborn"
  /\ organization' = [organization EXCEPT ![o] = "open"]
  /\ grant' = [grant EXCEPT ![o][u] = Owner]
  /\ UNCHANGED <<home, direct, transfers, pending, minted, ghosts>>

(* Organization::delete.                                                   *)
(* Faulty variant: the projects are counted before the transaction.        *)
DeleteUncounted(r) ==
  /\ r.op = "delete organization" /\ organization[r.org] = "open"
  /\ organization' = [organization EXCEPT ![r.org] = "gone"]
  /\ grant' = [grant EXCEPT ![r.org] = [u \in User |-> None]]
  /\ Goes(r)
  /\ UNCHANGED <<home, direct, transfers, minted, ghosts>>
DeleteOrganization(r) ==
  /\ r.op = "delete organization" /\ organization[r.org] = "open"
  /\ Inside(r.org) = {}
  /\ organization' = [organization EXCEPT ![r.org] = "gone"]
  /\ grant' = [grant EXCEPT ![r.org] = [u \in User |-> None]]
  /\ Goes(r)
  /\ UNCHANGED <<home, direct, transfers, minted, ghosts>>

(* sole_owner.                                                             *)
Owners(roles) == {u \in User : roles[u] = Owner}

(* Faulty variant: only taking a grant away looks for another owner.       *)
DemotionUnchecked(roles, who, role) ==
  role = None => (roles[who] # None /\ (roles[who] = Owner => Cardinality(Owners(roles)) # 1))
(* OrganizationMember::set and remove, ProjectMember::set and remove: the  *)
(* last owner stays one, and there must be a grant to take away.           *)
MayChange(roles, who, role) ==
  /\ role = None => roles[who] # None
  /\ roles[who] = Owner /\ role # Owner => Cardinality(Owners(roles)) # 1

(* OrganizationMember::set, OrganizationMember::remove.  A grant on an     *)
(* organization that is gone is refused by its foreign key.                *)
ChangeMember(r) ==
  /\ r.op \in {"set member", "remove member"}
  /\ organization[r.org] = "open"
  /\ MayChange(grant[r.org], r.who, r.role)
  /\ grant' = [grant EXCEPT ![r.org][r.who] = r.role]
  /\ Goes(r)
  /\ UNCHANGED <<organization, home, direct, transfers, minted, ghosts>>

(* ProjectMember::set, ProjectMember::remove.                              *)
ChangeGrant(r) ==
  /\ r.op \in {"set grant", "remove grant"}
  /\ Exists(r.project)
  /\ MayChange(direct[r.project], r.who, r.role)
  /\ direct' = [direct EXCEPT ![r.project][r.who] = r.role]
  /\ Goes(r)
  /\ UNCHANGED <<organization, grant, home, transfers, minted, ghosts>>

Slip(p, o) == IF organization[o] = "gone" THEN slipped \cup {p} ELSE slipped \ {p}

(* Project::create.  No key holds the organization in place.               *)
(* Faulty variant: the creator is left to their grant on the organization. *)
CreateOwnerless(r, p) ==
  /\ r.op = "create project" /\ home[p] = "unborn"
  /\ home' = [home EXCEPT ![p] = r.org]
  /\ slipped' = Slip(p, r.org)
  /\ Goes(r)
  /\ UNCHANGED <<organization, grant, direct, transfers, minted, crossed, walked>>
CreateProject(r, p) ==
  /\ r.op = "create project" /\ home[p] = "unborn"
  /\ home' = [home EXCEPT ![p] = r.org]
  /\ direct' = [direct EXCEPT ![p][r.by] = Owner]
  /\ slipped' = Slip(p, r.org)
  /\ Goes(r)
  /\ UNCHANGED <<organization, grant, transfers, minted, crossed, walked>>

(* Ghost: requests about p know that it has moved since they read it.      *)
Overtaken(rs, p) ==
  {IF r.op \in {"delete project", "move", "mint", "transfer"} /\ r.project = p
     THEN [r EXCEPT !.alone = FALSE] ELSE r : r \in rs}

Walk(r) ==
  IF r.alone /\ home[r.project] \notin r.held THEN walked \cup {r.project} ELSE walked

(* ProjectTransfer::record.                                                *)
Record(r) == [id |-> r.id, project |-> r.project, from |-> r.from, to |-> r.to]

(* Project::transfer.                                                      *)
Transfer(r) ==
  /\ r.op = "transfer" /\ Exists(r.project)
  /\ home' = [home EXCEPT ![r.project] = r.to]
  /\ transfers' = transfers \cup {Record(r)}
  /\ slipped' = Slip(r.project, r.to)
  /\ crossed' = IF r.alone THEN crossed ELSE crossed \cup {r.project}
  /\ walked' = Walk(r)
  /\ pending' = Overtaken(pending \ {r}, r.project)
  /\ UNCHANGED <<organization, grant, direct, minted>>

(* Project::delete, deepest rows first.                                    *)
DeleteProject(r) ==
  /\ r.op = "delete project" /\ Exists(r.project)
  /\ home' = [home EXCEPT ![r.project] = "gone"]
  /\ direct' = [direct EXCEPT ![r.project] = [u \in User |-> None]]
  /\ transfers' = {t \in transfers : t.project # r.project}
  /\ slipped' = slipped \ {r.project}
  /\ walked' = Walk(r)
  /\ Goes(r)
  /\ UNCHANGED <<organization, grant, minted, crossed>>

-----------------------------------------------------------------------------
Check ==
  \E u \in User :
    \/ \E o \in Organization :
         \/ CheckCreateProject(u, o) \/ CheckDeleteOrganization(u, o)
         \/ \E who \in User : CheckMember(u, o, who)
    \/ \E p \in Project :
         \/ CheckDeleteProject(u, p)
         \/ \E who \in User : CheckGrant(u, p, who)
         \/ \E to \in Organization : CheckMove(u, p, to)

Write(r) ==
  \/ CheckDestination(r) \/ MintTransfer(r) \/ Drop(r)
  \/ DeleteOrganization(r) \/ ChangeMember(r) \/ ChangeGrant(r)
  \/ Transfer(r) \/ DeleteProject(r)
  \/ \E p \in Project : CreateProject(r, p)

Next ==
  \/ Check
  \/ \E u \in User, o \in Organization : CreateOrganization(u, o)
  \/ \E r \in pending : Write(r)

Spec == Init /\ [][Next]_vars

-----------------------------------------------------------------------------
(* The tables hold what their columns and checks allow, and what is let    *)
(* through is within the bound.                                            *)
TypeOK ==
  /\ organization \in [Organization -> Standing]
  /\ grant \in [Organization -> [User -> Role]]
  /\ home \in [Project -> Home]
  /\ direct \in [Project -> [User -> Role]]
  /\ transfers \subseteq ProjectTransfer
  /\ pending \subseteq Request
  /\ minted \in 0 .. MaxMoves
  /\ slipped \subseteq Project /\ crossed \subseteq Project /\ walked \subseteq Project

(* "An organization keeps at least one owner" (docs/data-model.md:26), in  *)
(* whatever order its owners demote and remove one another: the count and  *)
(* the write are of one transaction (organization/member.rs:87, :157).     *)
(* The default organization of a new database has none to lose.            *)
OrganizationKeepsOwner ==
  [][\A o \in Organization :
       Owners(grant[o]) # {} => Owners(grant'[o]) # {} \/ organization'[o] = "gone"]_vars

(* "a project must keep an owner" (http/api/member.rs:118), whatever moves *)
(* and changes of grants it goes through (project/member.rs:92, :170).     *)
ProjectKeepsOwner ==
  /\ TypeOK
  /\ \A p \in Project : Exists(p) => Owners(direct[p]) # {}

(* "An organization that still owns projects is left alone: [...] a        *)
(* project without an organization is a project nobody can reach"          *)
(* (organization/mod.rs:25).  A deletion leaves no project behind; only a  *)
(* create or a move let through before it and written after it puts a      *)
(* project where nobody reaches it.                                        *)
NoProjectLeftBehind ==
  \A p \in Project : Exists(p) /\ organization[home[p]] # "open" => p \in slipped

(* "so a reader can never find a project in an organization with nothing   *)
(* saying how it got there" (project/mod.rs:355): the move that brought a  *)
(* project where it is is recorded, and while moves do not overlap, the    *)
(* records read newest first tell the way back without a gap               *)
(* (project/transfer.rs:49, ORDER BY id).                                  *)
HistoryTellsTheWay ==
  \A p \in Project :
    Exists(p) /\ p \notin crossed =>
      \A t \in for_project(p) :
        t.to = IF Later(t) = {} THEN home[p] ELSE Following(t).from

(* "Both need an owner of the organization that holds the project, never   *)
(* an owner of the project alone" (http/api/mod.rs:123): while moves do    *)
(* not overlap, nobody takes a project out of an organization, or deletes  *)
(* it, who did not own that organization when the request was let through. *)
NobodyWalksOff == walked = {}

(* What the listing shows a caller and what the access check lets them do  *)
(* are resolved by two pieces of code (project/mod.rs:187, a CASE in SQL,  *)
(* and project/member.rs:42, a maximum; organization/mod.rs:99 and         *)
(* organization/member.rs:40): they agree, for every caller and every      *)
(* project and organization that is not orphaned.                          *)
ListingsAgree ==
  \A u \in User :
    /\ \A p \in Project :
         Exists(p) /\ organization[home[p]] = "open" =>
           /\ p \in ListedProjects(u) <=> project_access(u, p, Viewer)
           /\ p \in ListedProjects(u) => ListedRole(u, p) = ProjectRole(u, p)
    /\ \A o \in Organization :
         o \in ListedOrganizations(u) <=> organization_access(u, o, Viewer)
=============================================================================
