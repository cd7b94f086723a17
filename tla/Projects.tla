------------------------------ MODULE Projects -------------------------------
(***************************************************************************)
(* Projects and the people on them: application/use_cases/                 *)
(* project_use_cases.py, project_member_use_cases.py, project_membership.py *)
(* and the tables projects, project_members and users.can_create_projects. *)
(*                                                                         *)
(* Each action is one request handler run to its commit, for the tables of *)
(* this module.  What a handler also does to sort orders, to tasks and      *)
(* milestones, and to team calendars is conjoined to these same actions in *)
(* ProjectOrdering, Workspace and TeamCalendars; what happens when two     *)
(* handlers overlap is the subject of ProjectRequests.                     *)
(***************************************************************************)
EXTENDS ProjectTree

CONSTANTS
    Project,          \* project ids, numbers handed out in ascending order
    User,             \* people who have an account
    NoProject,        \* parent_project_id NULL
    Capacity,         \* pairs of daily hours and engagement that set_capacity accepts
    DefaultCapacity   \* 8 hours, 100 %

ASSUME ProjectAssumption == Project \subseteq Nat /\ NoProject \notin Project
ASSUME CapacityAssumption == DefaultCapacity \in Capacity

VARIABLES
    created,    \* ids handed out so far (AUTOINCREMENT never reuses one)
    live,       \* rows of projects
    parent,     \* parent_project_id of each row
    role,       \* project_members.role, "none" where there is no row
    capacity,   \* project_members.daily_hours and engagement_percent
    creators    \* users.can_create_projects

memberVars == <<role, capacity>>
treeVars   == <<created, live, parent>>
projectVars == <<treeVars, memberVars, creators>>

Role == {"manager", "member"}

TypeOK ==
    /\ created \in SUBSET Project
    /\ live \in SUBSET created
    /\ parent \in [Project -> Project \cup {NoProject}]
    /\ role \in [Project -> [User -> Role \cup {"none"}]]
    /\ capacity \in [Project -> [User -> Capacity]]
    /\ creators \in SUBSET User

Init ==
    /\ created = {}
    /\ live = {}
    /\ parent = [p \in Project |-> NoProject]
    /\ role = [p \in Project |-> [u \in User |-> "none"]]
    /\ capacity = [p \in Project |-> [u \in User |-> DefaultCapacity]]
    /\ creators = {}

------------------------------------------------------------------------------
(***************************************************************************)
(* Who sees what, and who may do what.                                     *)
(***************************************************************************)

\* visible_project_ids: the projects with a member row and all under them.
Visible(u) ==
    {p \in live : \E q \in AncestorsOrSelf(parent, live, p) : role[q][u] # "none"}

\* The root whose members decide about p, in the tree that u can see.
TopOf(u, p) == RootOf(parent, Visible(u), p)

IsManager(u, p) == role[p][u] = "manager"

\* Mutant: only the manager of the destination is asked for.
MayCrossDestinationOnly(u, from, to) ==
    LET top(p) == IF p = NoProject THEN NoProject ELSE TopOf(u, p)
    IN  top(from) = top(to) \/ top(to) = NoProject \/ IsManager(u, top(to))

\* Mutant: that somebody manages both trees is enough.
MayCrossIfSomebodyManages(u, from, to) ==
    LET top(p) == IF p = NoProject THEN NoProject ELSE TopOf(u, p)
    IN  \/ top(from) = top(to)
        \/ \E v \in User : \A r \in {top(from), top(to)} \ {NoProject} : IsManager(v, r)

\* require_manager_to_cross: going to another tree takes the managers of both.
\* "No project" is the user's own and is not checked.
MayCross(u, from, to) ==
    LET top(p) == IF p = NoProject THEN NoProject ELSE TopOf(u, p)
    IN  \/ top(from) = top(to)
        \/ \A r \in {top(from), top(to)} \ {NoProject} : IsManager(u, r)

\* Mutant: the one who leaves is counted too.
AnotherManagerOrSelf(r, leaving) == \E v \in User : IsManager(v, r)

\* _keep_a_manager: someone else manages the root.
AnotherManager(r, leaving) == \E v \in User \ {leaving} : IsManager(v, r)

------------------------------------------------------------------------------
(***************************************************************************)
(* project_use_cases.py                                                    *)
(***************************************************************************)

MayCreate(u, q) ==
    IF q = NoProject THEN u \in creators ELSE q \in Visible(u)

\* create_project: a new root is managed by the one who made it.
CreateProject(u, q, p) ==
    /\ p \in Project
    /\ \A old \in created : old < p
    /\ MayCreate(u, q)
    /\ created' = created \cup {p}
    /\ live' = live \cup {p}
    /\ parent' = [parent EXCEPT ![p] = q]
    /\ role' = IF q = NoProject THEN [role EXCEPT ![p][u] = "manager"] ELSE role
    /\ UNCHANGED <<capacity, creators>>

\* The checks of move_project.
MayMove(u, p, q) ==
    /\ p \in Visible(u)
    /\ q # NoProject => /\ q \in Visible(u)
                        /\ ~WouldCycle(parent, Visible(u), p, q)
                        /\ MayCross(u, p, q)
    /\ parent[p] = NoProject /\ q # NoProject => IsManager(u, p)

\* Mutant: the rows of a root that goes under another project stay.
RowsAfterMoveKept(rows, u, p, q, empty) ==
    IF parent[p] # NoProject /\ q = NoProject THEN [rows EXCEPT ![p] = rows[TopOf(u, p)]] ELSE rows

\* Mutant: the members are looked up on the parent, not on the root.
RowsAfterMoveFromParent(rows, u, p, q, empty) ==
    IF parent[p] = NoProject /\ q # NoProject THEN [rows EXCEPT ![p] = [v \in User |-> empty]]
    ELSE IF parent[p] # NoProject /\ q = NoProject THEN [rows EXCEPT ![p] = rows[parent[p]]]
    ELSE rows

\* forget_members when a root goes under another project, copy_members when a
\* project becomes a root.
RowsAfterMove(rows, u, p, q, empty) ==
    IF parent[p] = NoProject /\ q # NoProject THEN [rows EXCEPT ![p] = [v \in User |-> empty]]
    ELSE IF parent[p] # NoProject /\ q = NoProject THEN [rows EXCEPT ![p] = rows[TopOf(u, p)]]
    ELSE rows

MoveProject(u, p, q) ==
    /\ MayMove(u, p, q)
    /\ parent' = [parent EXCEPT ![p] = q]
    /\ role' = RowsAfterMove(role, u, p, q, "none")
    /\ capacity' = RowsAfterMove(capacity, u, p, q, DefaultCapacity)
    /\ UNCHANGED <<created, live, creators>>

\* delete_project up to the child projects of has_contents; the tasks and
\* milestones of has_contents are the guard Workspace adds.
MayDelete(u, p) ==
    /\ p \in Visible(u)
    /\ parent[p] = NoProject => IsManager(u, p)
    /\ \A x \in live : parent[x] # p

DeleteProject(u, p) ==
    /\ MayDelete(u, p)
    /\ live' = live \ {p}
    /\ parent' = [parent EXCEPT ![p] = NoProject]
    /\ role' = [role EXCEPT ![p] = [v \in User |-> "none"]]
    /\ capacity' = [capacity EXCEPT ![p] = [v \in User |-> DefaultCapacity]]
    /\ UNCHANGED <<created, creators>>

------------------------------------------------------------------------------
(***************************************************************************)
(* project_member_use_cases.py.  p is the project the request names, the   *)
(* rows are those of its root.                                             *)
(***************************************************************************)

\* change_role.
MayChangeRole(u, p, v, r) ==
    /\ p \in Visible(u)
    /\ IsManager(u, TopOf(u, p))
    /\ role[TopOf(u, p)][v] # "none"
    /\ IsManager(v, TopOf(u, p)) /\ r # "manager" => AnotherManager(TopOf(u, p), v)

ChangeRole(u, p, v, r) ==
    /\ MayChangeRole(u, p, v, r)
    /\ role' = [role EXCEPT ![TopOf(u, p)][v] = r]
    /\ UNCHANGED <<treeVars, capacity, creators>>

\* add_member, which becomes change_role for someone already there.  Whether v
\* is choosable (signed in before and not stopped) is the sign-in component's
\* to say and may change at any time: here any v may be.
MayAddMember(u, p, v) ==
    /\ p \in Visible(u)
    /\ IsManager(u, TopOf(u, p))
    /\ role[TopOf(u, p)][v] = "none"

AddMember(u, p, v, r) ==
    \/ /\ MayAddMember(u, p, v)
       /\ role' = [role EXCEPT ![TopOf(u, p)][v] = r]
       /\ capacity' = [capacity EXCEPT ![TopOf(u, p)][v] = DefaultCapacity]
       /\ UNCHANGED <<treeVars, creators>>
    \/ ChangeRole(u, p, v, r)

\* change_capacity: a manager for anyone, a member for themselves.
MayChangeCapacity(u, p, v) ==
    /\ p \in Visible(u)
    /\ v # u => IsManager(u, TopOf(u, p))
    /\ role[TopOf(u, p)][v] # "none"

ChangeCapacity(u, p, v, c) ==
    /\ MayChangeCapacity(u, p, v)
    /\ capacity' = [capacity EXCEPT ![TopOf(u, p)][v] = c]
    /\ UNCHANGED <<treeVars, role, creators>>

\* remove_member: a manager removes anyone, a member leaves; the last manager
\* stays.
MayRemoveMember(u, p, v) ==
    /\ p \in Visible(u)
    /\ v # u => IsManager(u, TopOf(u, p))
    /\ role[TopOf(u, p)][v] # "none"
    /\ IsManager(v, TopOf(u, p)) => AnotherManager(TopOf(u, p), v)

RemoveMember(u, p, v) ==
    /\ MayRemoveMember(u, p, v)
    /\ role' = [role EXCEPT ![TopOf(u, p)][v] = "none"]
    /\ capacity' = [capacity EXCEPT ![TopOf(u, p)][v] = DefaultCapacity]
    /\ UNCHANGED <<treeVars, creators>>

\* project_creator_use_cases.allow: an operator sets or clears the mark.
AllowCreator(u, allowed) ==
    /\ creators' = IF allowed THEN creators \cup {u} ELSE creators \ {u}
    /\ UNCHANGED <<treeVars, memberVars>>

\* A step taken in the name of user u.
ActsAs(u) ==
    \/ \E q \in live \cup {NoProject}, p \in Project : CreateProject(u, q, p)
    \/ \E p \in live, q \in live \cup {NoProject} : MoveProject(u, p, q)
    \/ \E p \in live : DeleteProject(u, p)
    \/ \E p \in live, v \in User, r \in Role : AddMember(u, p, v, r)
    \/ \E p \in live, v \in User, r \in Role : ChangeRole(u, p, v, r)
    \/ \E p \in live, v \in User, c \in Capacity : ChangeCapacity(u, p, v, c)
    \/ \E p \in live, v \in User : RemoveMember(u, p, v)

Next ==
    \E u \in User :
        \/ ActsAs(u)
        \/ \E allowed \in BOOLEAN : AllowCreator(u, allowed)

Spec == Init /\ [][Next]_projectVars
------------------------------------------------------------------------------
(***************************************************************************)
(* Properties.                                                             *)
(***************************************************************************)

\* The true root of p, whoever looks.
TreeOf(p) == RootOf(parent, live, p)

Manages(u, p) == IsManager(u, TreeOf(p))

\* Projects never form a cycle, whatever sequence of moves is made: would_cycle
\* looks only at the tree the mover sees, and that is enough.
Acyclic == NoParentCycle(parent, live)

\* The parent of a project is a project that exists: delete_project leaves no
\* child behind.
ParentsLive == \A p \in live : parent[p] \in live \cup {NoProject}

\* The projects are a forest, whatever was moved and deleted by people who each
\* see a part of it (would_cycle, has_contents).
IsForest == ParentsLive /\ Acyclic

\* Member rows stand on top projects only (models.py, ProjectMemberModel),
\* through every move into and out of a tree.
MembersOnRoots ==
    \A p \in Project, u \in User :
        role[p][u] # "none" => p \in live /\ parent[p] = NoProject

\* Every top project has a manager: the last one can neither leave nor be
\* demoted, and no move makes a root without one.
RootHasManager ==
    \A p \in live : parent[p] = NoProject => \E u \in User : IsManager(u, p)

\* p comes under another tree that was there before.
Crosses(p) ==
    /\ treeVars' # treeVars
    /\ TreeOf(p)' # TreeOf(p)
    /\ TreeOf(p)' \notin SubtreeIds(parent, live, TreeOf(p))

\* ADR-0066 decision 1: whoever's request brings a project under another existing
\* tree manages both trees, and nothing but a request does; this covers every
\* project of the moved branch.
CrossingTakesBothManagers ==
    [][\A p \in live \cap live' : Crosses(p) =>
          /\ \E u \in User : ActsAs(u)
          /\ \A u \in User : ActsAs(u) => Manages(u, p) /\ IsManager(u, TreeOf(p)')]_projectVars

\* ADR-0055 decision 6: when a project of a tree becomes a root of its own,
\* everybody sees what they saw and keeps role and capacity in it.
BecomingRootChangesNobody ==
    [][\A p \in live \cap live' :
          (parent[p] # NoProject /\ parent'[p] = NoProject)
          => /\ \A u \in User : Visible(u)' = Visible(u)
             /\ role'[p] = role[TreeOf(p)]
             /\ capacity'[p] = capacity[TreeOf(p)]]_projectVars

\* u comes to see, or comes to manage, a project that was there before.
GainsRights(u) ==
    /\ <<treeVars, role>>' # <<treeVars, role>>
    /\ \/ (Visible(u)' \ Visible(u)) \cap live # {}
       \/ \E p \in live \cap live' : Manages(u, p)' /\ ~Manages(u, p)

\* Nobody lets themselves in: a person's own request never shows them a project
\* that existed and that they did not see, and never makes them the manager of
\* a tree they did not manage.
NobodyPromotesThemselves ==
    [][\A u \in User : GainsRights(u) => ~ActsAs(u)]_projectVars
==============================================================================
