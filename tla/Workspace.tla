------------------------------ MODULE Workspace ------------------------------
(***************************************************************************)
(* Tasks and milestones inside the projects: task_use_cases.py,            *)
(* task_removal_use_cases.py, milestone_use_cases.py and the parts of      *)
(* move_project and delete_project that touch them.  Kept are the columns  *)
(* that say where a task belongs: project, parent task, milestone, creator. *)
(*                                                                         *)
(* Rows are soft-deleted: a deleted task keeps its columns and is still    *)
(* walked by subtree_ids, but is never shown.  A task without a project    *)
(* ("unclassified") is visible to the person who made it and to no one     *)
(* else, so a task can leave a person's sight in the middle of a handler.  *)
(***************************************************************************)
EXTENDS Projects

CONSTANTS
    Task, Milestone,       \* ids
    NoTask, NoMilestone,   \* NULL
    Keep                   \* a field the request does not send

ASSUME WorkspaceAssumption ==
    /\ NoTask \notin Task
    /\ NoMilestone \notin Milestone
    /\ Keep \notin Project \cup {NoProject}
    /\ User # {}

VARIABLES
    tState,      \* "absent", "live" or "deleted"
    tProject,    \* tasks.project_id
    tParent,     \* tasks.parent_task_id
    tMilestone,  \* tasks.milestone_id
    tOwner,      \* tasks.user_id, the person who made it
    mState,      \* the same for milestones
    mProject,
    mOwner

taskVars      == <<tState, tProject, tParent, tMilestone, tOwner>>
milestoneVars == <<mState, mProject, mOwner>>
workspaceVars == <<projectVars, taskVars, milestoneVars>>

RowState == {"absent", "live", "deleted"}

WorkspaceTypeOK ==
    /\ tState \in [Task -> RowState]
    /\ tProject \in [Task -> Project \cup {NoProject}]
    /\ tParent \in [Task -> Task \cup {NoTask}]
    /\ tMilestone \in [Task -> Milestone \cup {NoMilestone}]
    /\ tOwner \in [Task -> User]
    /\ mState \in [Milestone -> RowState]
    /\ mProject \in [Milestone -> Project \cup {NoProject}]
    /\ mOwner \in [Milestone -> User]

\* Empty tables; the columns of rows that do not exist have no meaning.
EmptyWorkspace ==
    LET someone == CHOOSE u \in User : TRUE IN
    /\ tState = [t \in Task |-> "absent"]
    /\ tProject = [t \in Task |-> NoProject]
    /\ tParent = [t \in Task |-> NoTask]
    /\ tMilestone = [t \in Task |-> NoMilestone]
    /\ tOwner = [t \in Task |-> someone]
    /\ mState = [m \in Milestone |-> "absent"]
    /\ mProject = [m \in Milestone |-> NoProject]
    /\ mOwner = [m \in Milestone |-> someone]

WorkspaceInit == Init /\ EmptyWorkspace

------------------------------------------------------------------------------
(***************************************************************************)
(* What a person sees.  The columns are parameters because handlers look   *)
(* again after they have written.                                          *)
(***************************************************************************)

\* task_visible_to and milestone_visible_to.
Sees(visible, project, owner, u) ==
    project \in visible \/ (project = NoProject /\ owner = u)

SeesTask(u, project, t) ==
    tState[t] # "absent" /\ Sees(Visible(u), project[t], tOwner[t], u)

\* find_by_id_for_user and find_all: deleted rows are not found.
VisibleTasks(u) == {t \in Task : tState[t] = "live" /\ SeesTask(u, tProject, t)}

VisibleMilestones(u) ==
    {m \in Milestone : mState[m] = "live" /\ Sees(Visible(u), mProject[m], mOwner[m], u)}

\* Mutant: the rows under a task are collected whoever may see them.
TaskSubtreeUnfiltered(u, project, parentOf, t) ==
    LET rows   == {x \in Task : tState[x] # "absent"}
        closed == {S \in SUBSET rows : t \in S /\ \A x \in rows : parentOf[x] \in S => x \in S}
    IN  {x \in rows : t \in rows /\ \A S \in closed : x \in S}

\* subtree_ids: the task and, down from it, every child the user sees, deleted
\* ones included.
TaskSubtree(u, project, parentOf, t) ==
    LET seen   == {x \in Task : SeesTask(u, project, x)}
        closed == {S \in SUBSET seen : t \in S /\ \A x \in seen : parentOf[x] \in S => x \in S}
    IN  {x \in seen : t \in seen /\ \A S \in closed : x \in S}

\* _check_milestone.
MayAttach(u, m, project) ==
    /\ m \in VisibleMilestones(u)
    /\ MilestoneReachable(parent, Visible(u), NoProject, mProject[m], project)

\* Mutant: a task without a project keeps its milestone.
StaleMilestoneInProjectOnly(u, visible, par, project, mproject, milestone, t) ==
    LET m == milestone[t] IN
    /\ tState[t] = "live"
    /\ project[t] \in visible
    /\ m # NoMilestone
    /\ mState[m] = "live" /\ Sees(visible, mproject[m], mOwner[m], u)
    /\ ~MilestoneReachable(par, visible, NoProject, mproject[m], project[t])

\* detach_unreachable_milestones: the task and its milestone are both found by
\* the user, and the task is no longer under the milestone's project.
StaleMilestone(u, visible, par, project, mproject, milestone, t) ==
    LET m == milestone[t] IN
    /\ tState[t] = "live"
    /\ Sees(visible, project[t], tOwner[t], u)
    /\ m # NoMilestone
    /\ mState[m] = "live" /\ Sees(visible, mproject[m], mOwner[m], u)
    /\ ~MilestoneReachable(par, visible, NoProject, mproject[m], project[t])

Detached(u, visible, par, project, mproject, milestone) ==
    [t \in Task |-> IF StaleMilestone(u, visible, par, project, mproject, milestone, t)
                    THEN NoMilestone ELSE milestone[t]]

------------------------------------------------------------------------------
(***************************************************************************)
(* Tasks                                                                   *)
(***************************************************************************)

\* create_task.  A subtask takes the project of its parent, so only a task
\* without a parent has a project to choose.
CreateTask(u, t, under, q, m) ==
    /\ tState[t] = "absent"
    /\ under # NoTask => under \in VisibleTasks(u) /\ q = tProject[under]
    /\ under = NoTask /\ q # NoProject => q \in Visible(u)
    /\ m # NoMilestone => MayAttach(u, m, q)
    /\ tState' = [tState EXCEPT ![t] = "live"]
    /\ tProject' = [tProject EXCEPT ![t] = q]
    /\ tParent' = [tParent EXCEPT ![t] = under]
    /\ tMilestone' = [tMilestone EXCEPT ![t] = m]
    /\ tOwner' = [tOwner EXCEPT ![t] = u]
    /\ UNCHANGED <<projectVars, milestoneVars>>

\* Mutant: the subtree is not looked at.
MayPutUnderAnything(u, t, under) ==
    under = NoTask \/ under = tParent[t] \/ (under \in VisibleTasks(u) /\ under # t)

\* The parent update_task checks: found, and not in the subtree the user sees.
MayPutUnder(u, t, under) ==
    under = NoTask \/ under = tParent[t]
    \/ (under \in VisibleTasks(u) /\ under \notin TaskSubtree(u, tProject, tParent, t))

\* _project_for_update: the project of the parent, if the parent is found; a
\* task whose parent was deleted or cannot be seen counts as a root.
ProjectAfterUpdate(u, t, newParent, q) ==
    IF newParent \in VisibleTasks(u) THEN tProject[newParent]
    ELSE IF q = Keep THEN tProject[t] ELSE q

\* update_task.  NoTask and Keep stand for fields that are not sent (a parent
\* cannot be taken away).  The row is saved first; the subtree is looked up
\* after that, with the task's new project deciding whether the user sees it.
UpdateTask(u, t, under, q, m) ==
    LET newParent  == IF under = NoTask THEN tParent[t] ELSE under
        newProject == ProjectAfterUpdate(u, t, newParent, q)
        savedParent  == [tParent EXCEPT ![t] = newParent]
        savedProject == [tProject EXCEPT ![t] = newProject]
        milestone == [tMilestone EXCEPT ![t] = m]
        branch    == TaskSubtree(u, savedProject, savedParent, t)
        project   == [x \in Task |-> IF x \in branch THEN newProject ELSE savedProject[x]]
    IN  /\ t \in VisibleTasks(u)
        /\ MayPutUnder(u, t, under)
        /\ newParent \in VisibleTasks(u) /\ q # Keep => q = newProject
        /\ newParent \notin VisibleTasks(u) /\ q \notin {Keep, NoProject} => q \in Visible(u)
        /\ newProject # tProject[t] => MayCross(u, tProject[t], newProject)
        /\ m \notin {NoMilestone, tMilestone[t]} => MayAttach(u, m, newProject)
        /\ tParent' = savedParent
        /\ IF newProject = tProject[t]
           THEN tProject' = tProject /\ tMilestone' = milestone
           ELSE /\ tProject' = project
                /\ tMilestone' = Detached(u, Visible(u), parent, project, mProject, milestone)
        /\ UNCHANGED <<projectVars, tState, tOwner, milestoneVars>>

\* Mutant: only the selected rows are written, not what is under them.
MovedBranchRootsOnly(u, roots) == roots

\* The rows written by a bulk move: the branches under the selected roots.
MovedBranch(u, roots) == UNION {TaskSubtree(u, tProject, tParent, r) : r \in roots}

\* move_to_project with TaskBranchSelection: a selected task whose parent is
\* found must have a selected ancestor, and then just follows it.
MoveToProject(u, selected, q) ==
    LET found == VisibleTasks(u)
        roots == {t \in selected : tParent[t] \notin found}
        moving == {r \in roots : tProject[r] # q}
        branch == MovedBranch(u, moving)
        project == [x \in Task |-> IF x \in branch THEN q ELSE tProject[x]]
    IN  /\ q # NoProject => q \in Visible(u)
        /\ selected \subseteq found
        /\ \A t \in selected \ roots :
              AncestorsOrSelf(tParent, found, tParent[t]) \cap selected # {}
        /\ \A r \in moving : MayCross(u, tProject[r], q)
        /\ tProject' = project
        /\ tMilestone' = IF branch \cap found = {} THEN tMilestone
                         ELSE Detached(u, Visible(u), parent, project, mProject, tMilestone)
        /\ UNCHANGED <<projectVars, tState, tParent, tOwner, milestoneVars>>

\* TaskRemovalUseCases.delete.  Whether hours are logged (then 409) is decided
\* by the work logs and may go either way here.
DeleteTask(u, t) ==
    /\ t \in VisibleTasks(u)
    /\ tState' = [tState EXCEPT ![t] = "deleted"]
    /\ UNCHANGED <<projectVars, tProject, tParent, tMilestone, tOwner, milestoneVars>>

------------------------------------------------------------------------------
(***************************************************************************)
(* Milestones                                                              *)
(***************************************************************************)

CreateMilestone(u, m, q) ==
    /\ mState[m] = "absent"
    /\ q # NoProject => q \in Visible(u)
    /\ mState' = [mState EXCEPT ![m] = "live"]
    /\ mProject' = [mProject EXCEPT ![m] = q]
    /\ mOwner' = [mOwner EXCEPT ![m] = u]
    /\ UNCHANGED <<projectVars, taskVars>>

UpdateMilestone(u, m, q) ==
    LET project == [mProject EXCEPT ![m] = q] IN
    /\ m \in VisibleMilestones(u)
    /\ q # NoProject => q \in Visible(u)
    /\ q # mProject[m] => MayCross(u, mProject[m], q)
    /\ mProject' = project
    /\ tMilestone' = IF q = mProject[m] THEN tMilestone
                     ELSE Detached(u, Visible(u), parent, tProject, project, tMilestone)
    /\ UNCHANGED <<projectVars, tState, tProject, tParent, tOwner, mState, mOwner>>

\* The tasks keep the id of the deleted milestone.
DeleteMilestone(u, m) ==
    /\ m \in VisibleMilestones(u)
    /\ mState' = [mState EXCEPT ![m] = "deleted"]
    /\ UNCHANGED <<projectVars, taskVars, mProject, mOwner>>

------------------------------------------------------------------------------
(***************************************************************************)
(* Projects, with what their handlers do to tasks and milestones           *)
(***************************************************************************)

\* move_project: when the parent changes, tasks give up the milestones of the
\* ancestors they lost.
MoveProjectWithTasks(u, p, q) ==
    /\ MoveProject(u, p, q)
    /\ tMilestone' = IF q = parent[p] THEN tMilestone
                     ELSE Detached(u, Visible(u)', parent', tProject, mProject, tMilestone)
    /\ UNCHANGED <<tState, tProject, tParent, tOwner, milestoneVars>>

\* has_contents, tasks and milestones: deleted ones do not count.
IsEmpty(p) ==
    /\ \A t \in Task : tState[t] = "live" => tProject[t] # p
    /\ \A m \in Milestone : mState[m] = "live" => mProject[m] # p

\* Mutant: the rows of deleted tasks keep pointing to the deleted project.
WithoutProjectTasksKept(project, p) == project

\* The rows of deleted tasks and milestones let go of the deleted project.
WithoutProject(project, p) ==
    [x \in DOMAIN project |-> IF project[x] = p THEN NoProject ELSE project[x]]

DeleteProjectWithTasks(u, p) ==
    /\ DeleteProject(u, p)
    /\ IsEmpty(p)
    /\ tProject' = WithoutProject(tProject, p)
    /\ mProject' = WithoutProject(mProject, p)
    /\ UNCHANGED <<tState, tParent, tMilestone, tOwner, mState, mOwner>>

\* Requests that leave tasks and milestones alone.
ProjectStep(u) ==
    /\ \/ \E q \in live \cup {NoProject}, p \in Project : CreateProject(u, q, p)
       \/ \E p \in live, v \in User, r \in Role : AddMember(u, p, v, r)
       \/ \E p \in live, v \in User : RemoveMember(u, p, v)
       \/ \E p \in live, v \in User, r \in Role : ChangeRole(u, p, v, r)
       \/ \E p \in live, v \in User, c \in Capacity : ChangeCapacity(u, p, v, c)
    /\ UNCHANGED <<taskVars, milestoneVars>>

TaskStep(u) ==
    \/ \E t \in Task, under \in Task \cup {NoTask}, q \in live \cup {NoProject},
          m \in Milestone \cup {NoMilestone} : CreateTask(u, t, under, q, m)
    \/ \E t \in Task, under \in Task \cup {NoTask}, q \in live \cup {NoProject, Keep},
          m \in Milestone \cup {NoMilestone} : UpdateTask(u, t, under, q, m)
    \/ \E selected \in (SUBSET Task) \ {{}}, q \in live \cup {NoProject} : MoveToProject(u, selected, q)
    \/ \E t \in Task : DeleteTask(u, t)

MilestoneStep(u) ==
    \/ \E m \in Milestone, q \in live \cup {NoProject} : CreateMilestone(u, m, q)
    \/ \E m \in Milestone, q \in live \cup {NoProject} : UpdateMilestone(u, m, q)
    \/ \E m \in Milestone : DeleteMilestone(u, m)

\* A request made by u.
PersonStep(u) ==
    \/ ProjectStep(u)
    \/ \E p \in live, q \in live \cup {NoProject} : MoveProjectWithTasks(u, p, q)
    \/ \E p \in live : DeleteProjectWithTasks(u, p)
    \/ TaskStep(u)
    \/ MilestoneStep(u)

\* The operator's script comes in beside the requests.
WorkspaceNext ==
    \E u \in User :
        \/ PersonStep(u)
        \/ \E allowed \in BOOLEAN :
              AllowCreator(u, allowed) /\ UNCHANGED <<taskVars, milestoneVars>>

WorkspaceSpec == WorkspaceInit /\ [][WorkspaceNext]_workspaceVars

------------------------------------------------------------------------------
(***************************************************************************)
(* Properties.                                                             *)
(***************************************************************************)

\* The columns keep their types, and no row, deleted or not, refers to a project
\* that is gone: delete_project refuses a project with contents and lets go of
\* deleted rows first.
ContentsHaveAProject ==
    /\ WorkspaceTypeOK
    /\ \A t \in Task : tProject[t] \in live \cup {NoProject}
    /\ \A m \in Milestone : mProject[m] \in live \cup {NoProject}

\* ADR-0024: a subtask is in the project of its parent task, through moves of
\* tasks, of branches, of parents and of projects.
ChildFollowsParent ==
    \A t \in Task :
        (tState[t] = "live" /\ tParent[t] # NoTask /\ tState[tParent[t]] = "live")
        => tProject[t] = tProject[tParent[t]]

\* A task is never put under its own subtask ("the branch could not be reached
\* from anywhere").
TasksAcyclic == NoParentCycle(tParent, {t \in Task : tState[t] # "absent"})

\* ADR-0024: the milestone of a task is unclassified or belongs to the task's
\* project or one of its ancestors; what moves out of reach is taken off.
MilestoneWithinReach ==
    \A t \in Task :
        LET m == tMilestone[t] IN
        (tState[t] = "live" /\ m # NoMilestone /\ mState[m] = "live")
        => MilestoneReachable(parent, live, NoProject, mProject[m], tProject[t])

\* Nobody's own request shows them a task they did not see: handlers that carry
\* a branch along carry only what the person sees.
OwnStepsRevealNoTask ==
    [][\A u \in User, t \in Task :
          (tState[t] = "live" /\ ~SeesTask(u, tProject, t) /\ SeesTask(u, tProject, t)')
          => ~PersonStep(u)]_workspaceVars
==============================================================================
