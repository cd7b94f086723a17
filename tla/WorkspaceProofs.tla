--------------------------- MODULE WorkspaceProofs ----------------------------
(***************************************************************************)
(* Tasks, milestones and dependencies inside the projects, for every set   *)
(* of people, projects, tasks and milestones.                              *)
(*                                                                         *)
(* What holds for everybody: rows refer to projects that exist, and nobody *)
(* reveals a task to themselves.  The handlers walk only what the person   *)
(* sees; the shape of the task tree, of the dependencies and the reach of  *)
(* milestones are therefore kept as long as whoever puts work elsewhere    *)
(* sees every row, which one person working alone always does.             *)
(***************************************************************************)
EXTENDS TaskDependencies, ProjectsProofs

Rows == {t \in Task : tState[t] # "absent"}

\* A row refers to rows.
RowsReferToRows ==
    \A t \in Task : tState[t] # "absent" =>
        /\ tParent[t] \in Rows \cup {NoTask}
        /\ tMilestone[t] # NoMilestone => mState[tMilestone[t]] # "absent"

WorkspaceInv ==
    /\ IInv
    /\ ContentsHaveAProject
    /\ RowsReferToRows

------------------------------------------------------------------------------
(* The workspace is built on Projects.                                      *)

\* The requests of one person are requests of Projects, or leave its tables
\* alone.
LEMMA PersonStepIsAStep ==
    ASSUME NEW u \in User, PersonStep(u)
    PROVE  ActsAs(u) \/ UNCHANGED projectVars
<1>1. CASE ProjectStep(u)
  BY <1>1 DEF ProjectStep, ActsAs
<1>2. CASE \E p \in live, q \in live \cup {NoProject} : MoveProjectWithTasks(u, p, q)
  BY <1>2 DEF MoveProjectWithTasks, ActsAs
<1>3. CASE \E p \in live : DeleteProjectWithTasks(u, p)
  BY <1>3 DEF DeleteProjectWithTasks, ActsAs
<1>4. CASE TaskStep(u)
  <2>1. ASSUME NEW t, NEW under, NEW q, NEW m, UpdateTask(u, t, under, q, m)
        PROVE  UNCHANGED projectVars
    BY <2>1 DEF UpdateTask
  <2>2. ASSUME NEW selected, NEW q, MoveToProject(u, selected, q)
        PROVE  UNCHANGED projectVars
    BY <2>2 DEF MoveToProject
  <2> QED
    BY <1>4, <2>1, <2>2 DEF TaskStep, CreateTask, DeleteTask
<1>5. CASE MilestoneStep(u)
  BY <1>5 DEF MilestoneStep, CreateMilestone, UpdateMilestone, DeleteMilestone
<1> QED
  BY <1>1, <1>2, <1>3, <1>4, <1>5 DEF PersonStep

LEMMA WorkspaceStepIsAStep ==
    ASSUME [WorkspaceNext]_workspaceVars
    PROVE  [Next]_projectVars
<1>1. CASE UNCHANGED workspaceVars
  BY <1>1 DEF workspaceVars
<1>2. CASE WorkspaceNext
  BY <1>2, PersonStepIsAStep DEF WorkspaceNext, Next
<1> QED
  BY <1>1, <1>2

------------------------------------------------------------------------------
(* What the handlers compute.                                               *)

\* detach_unreachable_milestones leaves a milestone or takes it off.
LEMMA DetachedColumn ==
    ASSUME NEW u, NEW visible, NEW par, NEW project, NEW mproject,
           NEW milestone \in [Task -> Milestone \cup {NoMilestone}]
    PROVE  /\ Detached(u, visible, par, project, mproject, milestone)
                  \in [Task -> Milestone \cup {NoMilestone}]
           /\ \A t \in Task :
                 Detached(u, visible, par, project, mproject, milestone)[t] \in {milestone[t], NoMilestone}
BY DEF Detached

LEMMA SubtreeOfSeen ==
    ASSUME NEW u, NEW project, NEW parentOf, NEW t, NEW x \in TaskSubtree(u, project, parentOf, t)
    PROVE  x \in Task /\ SeesTask(u, project, x)
BY DEF TaskSubtree

\* A step that touches neither projects nor who belongs to them.
LEMMA TablesAlone ==
    ASSUME WorkspaceInv, UNCHANGED <<projectVars, taskVars, milestoneVars>>
    PROVE  WorkspaceInv'
<1>1. IInv'
  BY NextKeepsIInv DEF WorkspaceInv
<1> QED
  BY <1>1 DEF WorkspaceInv, ContentsHaveAProject, WorkspaceTypeOK, RowsReferToRows, Rows,
              projectVars, treeVars, taskVars, milestoneVars

------------------------------------------------------------------------------
(* Every step keeps the references.                                         *)

LEMMA CreateTaskKeepsInv ==
    ASSUME WorkspaceInv, NEW u \in User, NEW t \in Task, NEW under \in Task \cup {NoTask},
           NEW q \in live \cup {NoProject}, NEW m \in Milestone \cup {NoMilestone},
           CreateTask(u, t, under, q, m)
    PROVE  ContentsHaveAProject' /\ RowsReferToRows'
<1>1. live' = live /\ mState' = mState /\ mProject' = mProject /\ mOwner' = mOwner
  BY DEF CreateTask, projectVars, treeVars, milestoneVars
<1>2. live \subseteq Project
  BY DEF WorkspaceInv, IInv, TypeOK
<1>3. ContentsHaveAProject'
  BY <1>1, <1>2 DEF CreateTask, WorkspaceInv, ContentsHaveAProject, WorkspaceTypeOK, RowState
<1>4. under # NoTask => under \in Rows /\ under # t
  BY DEF CreateTask, VisibleTasks, Rows
<1>5. m # NoMilestone => mState[m] # "absent"
  BY DEF CreateTask, MayAttach, VisibleMilestones
<1>6. Rows' = Rows \cup {t}
  BY DEF Rows, CreateTask, WorkspaceInv, ContentsHaveAProject, WorkspaceTypeOK
<1>7. RowsReferToRows'
  BY <1>1, <1>4, <1>5, <1>6
     DEF CreateTask, WorkspaceInv, ContentsHaveAProject, WorkspaceTypeOK, RowsReferToRows, Rows
<1> QED
  BY <1>3, <1>7

\* A handler of tasks and milestones that leaves the projects and the states of
\* rows alone, puts rows into projects that exist, and attaches rows.
LEMMA ColumnsKeepInv ==
    ASSUME WorkspaceInv, UNCHANGED <<live, tState, tOwner, mState, mOwner>>,
           tProject' \in [Task -> live \cup {NoProject}],
           mProject' \in [Milestone -> live \cup {NoProject}],
           tParent' \in [Task -> Task \cup {NoTask}],
           tMilestone' \in [Task -> Milestone \cup {NoMilestone}],
           \A x \in Rows : tParent'[x] # tParent[x] => tParent'[x] \in Rows,
           \A x \in Task : tMilestone'[x] \notin {tMilestone[x], NoMilestone}
                              => mState[tMilestone'[x]] # "absent"
    PROVE  ContentsHaveAProject' /\ RowsReferToRows'
<1>1. live \subseteq Project
  BY DEF WorkspaceInv, IInv, TypeOK
<1>2. /\ tProject' \in [Task -> Project \cup {NoProject}]
      /\ mProject' \in [Milestone -> Project \cup {NoProject}]
  BY <1>1
<1>3. WorkspaceTypeOK'
  BY <1>2 DEF WorkspaceInv, ContentsHaveAProject, WorkspaceTypeOK
<1>4. Rows' = Rows
  BY DEF Rows
<1>5. RowsReferToRows'
  BY <1>4 DEF WorkspaceInv, RowsReferToRows, Rows
<1> QED
  BY <1>3, <1>5 DEF ContentsHaveAProject

\* The columns as they stand.
LEMMA Columns ==
    ASSUME WorkspaceInv
    PROVE  /\ tState \in [Task -> RowState]
           /\ tProject \in [Task -> live \cup {NoProject}]
           /\ tParent \in [Task -> Task \cup {NoTask}]
           /\ tMilestone \in [Task -> Milestone \cup {NoMilestone}]
           /\ mState \in [Milestone -> RowState]
           /\ mProject \in [Milestone -> live \cup {NoProject}]
           /\ live \subseteq Project
           /\ NoProject \notin Project
           /\ parent \in [Project -> Project \cup {NoProject}]
BY ProjectAssumption DEF WorkspaceInv, ContentsHaveAProject, WorkspaceTypeOK, IInv, TypeOK

\* The project a task gets is one that exists.
LEMMA NewProjectExists ==
    ASSUME WorkspaceInv, NEW u \in User, NEW t \in Task, NEW newParent,
           NEW q \in live \cup {NoProject, Keep}
    PROVE  ProjectAfterUpdate(u, t, newParent, q) \in live \cup {NoProject}
BY Columns DEF ProjectAfterUpdate, VisibleTasks

\* What update_task reads and writes, part by part.
NewParent(t, under) == IF under = NoTask THEN tParent[t] ELSE under

NewProject(u, t, under, q) == ProjectAfterUpdate(u, t, NewParent(t, under), q)

SavedProject(u, t, under, q) == [tProject EXCEPT ![t] = NewProject(u, t, under, q)]

Branch(u, t, under, q) ==
    TaskSubtree(u, SavedProject(u, t, under, q), [tParent EXCEPT ![t] = NewParent(t, under)], t)

\* The columns it writes: with the branch when the project changes, and the
\* milestone before unreachable ones are taken off.
ProjectColumn(u, t, under, q) ==
    [x \in Task |-> IF x \in Branch(u, t, under, q) THEN NewProject(u, t, under, q)
                    ELSE SavedProject(u, t, under, q)[x]]

MilestoneColumn(t, m) == [tMilestone EXCEPT ![t] = m]

LEMMA UpdateTaskDoes ==
    ASSUME NEW u, NEW t, NEW under, NEW q, NEW m, UpdateTask(u, t, under, q, m)
    PROVE  /\ t \in VisibleTasks(u)
           /\ MayPutUnder(u, t, under)
           /\ m \notin {NoMilestone, tMilestone[t]} => MayAttach(u, m, NewProject(u, t, under, q))
           /\ tParent' = [tParent EXCEPT ![t] = NewParent(t, under)]
           /\ \/ /\ NewProject(u, t, under, q) = tProject[t]
                 /\ tProject' = tProject
                 /\ tMilestone' = MilestoneColumn(t, m)
              \/ /\ tProject' = ProjectColumn(u, t, under, q)
                 /\ tMilestone' = Detached(u, Visible(u), parent, tProject', mProject,
                                           MilestoneColumn(t, m))
           /\ UNCHANGED <<projectVars, tState, tOwner, milestoneVars>>
<1> USE DEF NewParent, NewProject, SavedProject, Branch, ProjectColumn, MilestoneColumn
<1>1. /\ t \in VisibleTasks(u)
      /\ MayPutUnder(u, t, under)
      /\ m \notin {NoMilestone, tMilestone[t]} => MayAttach(u, m, NewProject(u, t, under, q))
      /\ tParent' = [tParent EXCEPT ![t] = NewParent(t, under)]
      /\ UNCHANGED <<projectVars, tState, tOwner, milestoneVars>>
  BY DEF UpdateTask
<1>2. CASE NewProject(u, t, under, q) = tProject[t]
  BY <1>1, <1>2 DEF UpdateTask
<1>3. CASE NewProject(u, t, under, q) # tProject[t]
  <2>1. tProject' = ProjectColumn(u, t, under, q)
    BY <1>3 DEF UpdateTask
  <2>2. tMilestone' = Detached(u, Visible(u), parent, tProject', mProject, MilestoneColumn(t, m))
    BY <1>3 DEF UpdateTask
  <2> QED
    BY <1>1, <2>1, <2>2
<1> QED
  BY <1>2, <1>3

LEMMA UpdateTaskKeepsInv ==
    ASSUME WorkspaceInv, NEW u \in User, NEW t \in Task, NEW under \in Task \cup {NoTask},
           NEW q \in live \cup {NoProject, Keep}, NEW m \in Milestone \cup {NoMilestone},
           UpdateTask(u, t, under, q, m)
    PROVE  ContentsHaveAProject' /\ RowsReferToRows'
<1>1. NewProject(u, t, under, q) \in live \cup {NoProject}
  BY NewProjectExists DEF NewProject
<1>2. NewParent(t, under) \in Task \cup {NoTask}
  BY Columns DEF NewParent
<1>3. /\ tParent' = [tParent EXCEPT ![t] = NewParent(t, under)]
      /\ UNCHANGED <<live, tState, tOwner, mState, mOwner>>
      /\ mProject' = mProject
  BY UpdateTaskDoes DEF projectVars, treeVars, milestoneVars
<1>4. tProject' \in [Task -> live \cup {NoProject}]
  <2>1. SavedProject(u, t, under, q) \in [Task -> live \cup {NoProject}]
    BY <1>1, Columns DEF SavedProject
  <2>2. ProjectColumn(u, t, under, q) \in [Task -> live \cup {NoProject}]
    BY <1>1, <2>1 DEF ProjectColumn
  <2> QED
    BY <2>2, Columns, UpdateTaskDoes
<1>5. MilestoneColumn(t, m) \in [Task -> Milestone \cup {NoMilestone}]
  BY Columns DEF MilestoneColumn
<1>6. /\ tMilestone' \in [Task -> Milestone \cup {NoMilestone}]
      /\ \A x \in Task : tMilestone'[x] \in {MilestoneColumn(t, m)[x], NoMilestone}
  BY <1>5, DetachedColumn, UpdateTaskDoes
<1>7. m \notin {tMilestone[t], NoMilestone} => mState[m] # "absent"
  BY UpdateTaskDoes DEF MayAttach, VisibleMilestones
<1>8. NewParent(t, under) # tParent[t] => NewParent(t, under) \in Rows
  BY UpdateTaskDoes DEF NewParent, MayPutUnder, VisibleTasks, Rows
<1>9. /\ \A x \in Rows : tParent'[x] # tParent[x] => tParent'[x] \in Rows
      /\ tParent' \in [Task -> Task \cup {NoTask}]
  BY <1>2, <1>3, <1>8, Columns DEF Rows
<1>10. \A x \in Task : tMilestone'[x] \notin {tMilestone[x], NoMilestone}
                         => mState[tMilestone'[x]] # "absent"
  BY <1>6, <1>7, Columns DEF MilestoneColumn
<1> QED
  BY <1>3, <1>4, <1>6, <1>9, <1>10, Columns, ColumnsKeepInv

LEMMA MoveToProjectKeepsInv ==
    ASSUME WorkspaceInv, NEW u \in User, NEW selected \in SUBSET Task,
           NEW q \in live \cup {NoProject}, MoveToProject(u, selected, q)
    PROVE  ContentsHaveAProject' /\ RowsReferToRows'
<1>1. /\ UNCHANGED <<live, tState, tOwner, mState, mOwner>>
      /\ mProject' = mProject
      /\ tParent' = tParent
  BY DEF MoveToProject, projectVars, treeVars, milestoneVars
<1>2. tProject' \in [Task -> live \cup {NoProject}]
  BY Columns DEF MoveToProject
<1>3. /\ tMilestone' \in [Task -> Milestone \cup {NoMilestone}]
      /\ \A x \in Task : tMilestone'[x] \in {tMilestone[x], NoMilestone}
  BY Columns, DetachedColumn DEF MoveToProject
<1> QED
  BY <1>1, <1>2, <1>3, Columns, ColumnsKeepInv

LEMMA DeleteTaskKeepsInv ==
    ASSUME WorkspaceInv, NEW u \in User, NEW t \in Task, DeleteTask(u, t)
    PROVE  ContentsHaveAProject' /\ RowsReferToRows'
<1>1. /\ UNCHANGED <<live, tProject, tParent, tMilestone, tOwner, mState, mProject, mOwner>>
      /\ tState' = [tState EXCEPT ![t] = "deleted"]
      /\ tState[t] # "absent"
  BY DEF DeleteTask, VisibleTasks, projectVars, treeVars, milestoneVars
<1>2. Rows' = Rows
  BY <1>1, Columns DEF Rows
<1>3. ContentsHaveAProject'
  BY <1>1 DEF WorkspaceInv, ContentsHaveAProject, WorkspaceTypeOK, RowState
<1>4. RowsReferToRows'
  BY <1>1, <1>2 DEF WorkspaceInv, RowsReferToRows, Rows
<1> QED
  BY <1>3, <1>4

LEMMA MilestoneStepKeepsInv ==
    ASSUME WorkspaceInv, NEW u \in User, MilestoneStep(u)
    PROVE  ContentsHaveAProject' /\ RowsReferToRows'
<1>1. ASSUME NEW m \in Milestone, NEW q \in live \cup {NoProject}, CreateMilestone(u, m, q)
      PROVE  ContentsHaveAProject' /\ RowsReferToRows'
  <2>1. /\ UNCHANGED <<live, tState, tProject, tParent, tMilestone, tOwner>>
        /\ mState' = [mState EXCEPT ![m] = "live"]
        /\ mProject' = [mProject EXCEPT ![m] = q]
        /\ mOwner' = [mOwner EXCEPT ![m] = u]
    BY <1>1 DEF CreateMilestone, projectVars, treeVars, taskVars
  <2>2. ContentsHaveAProject'
    BY <2>1, Columns DEF WorkspaceInv, ContentsHaveAProject, WorkspaceTypeOK, RowState
  <2>3. RowsReferToRows'
    BY <2>1, Columns DEF WorkspaceInv, RowsReferToRows, Rows
  <2> QED
    BY <2>2, <2>3
<1>2. ASSUME NEW m \in Milestone, NEW q \in live \cup {NoProject}, UpdateMilestone(u, m, q)
      PROVE  ContentsHaveAProject' /\ RowsReferToRows'
  <2>1. /\ UNCHANGED <<live, tState, tProject, tParent, tOwner, mState, mOwner>>
        /\ mProject' = [mProject EXCEPT ![m] = q]
    BY <1>2 DEF UpdateMilestone, projectVars, treeVars
  <2>2. /\ tMilestone' \in [Task -> Milestone \cup {NoMilestone}]
        /\ \A x \in Task : tMilestone'[x] \in {tMilestone[x], NoMilestone}
    BY <1>2, Columns, DetachedColumn DEF UpdateMilestone
  <2>3. mProject' \in [Milestone -> live \cup {NoProject}]
    BY <2>1, Columns
  <2> QED
    BY <2>1, <2>2, <2>3, Columns, ColumnsKeepInv
<1>3. ASSUME NEW m \in Milestone, DeleteMilestone(u, m)
      PROVE  ContentsHaveAProject' /\ RowsReferToRows'
  <2>1. /\ UNCHANGED <<live, tState, tProject, tParent, tMilestone, tOwner, mProject, mOwner>>
        /\ mState' = [mState EXCEPT ![m] = "deleted"]
    BY <1>3 DEF DeleteMilestone, projectVars, treeVars, taskVars
  <2>2. ContentsHaveAProject'
    BY <2>1 DEF WorkspaceInv, ContentsHaveAProject, WorkspaceTypeOK, RowState
  <2>3. RowsReferToRows'
    BY <2>1, Columns DEF WorkspaceInv, RowsReferToRows, Rows
  <2> QED
    BY <2>2, <2>3
<1> QED
  BY <1>1, <1>2, <1>3 DEF MilestoneStep

\* Projects that stay keep their contents.
LEMMA ProjectStepKeepsInv ==
    ASSUME WorkspaceInv, NEW u \in User, ProjectStep(u)
    PROVE  ContentsHaveAProject' /\ RowsReferToRows'
<1>1. live \subseteq live'
  BY DEF ProjectStep, CreateProject, AddMember, RemoveMember, ChangeRole, ChangeCapacity, treeVars
<1>2. UNCHANGED <<tState, tProject, tParent, tMilestone, tOwner, mState, mProject, mOwner>>
  BY DEF ProjectStep, taskVars, milestoneVars
<1>3. ContentsHaveAProject'
  BY <1>1, <1>2 DEF WorkspaceInv, ContentsHaveAProject, WorkspaceTypeOK
<1>4. RowsReferToRows'
  BY <1>2 DEF WorkspaceInv, RowsReferToRows, Rows
<1> QED
  BY <1>3, <1>4

LEMMA MoveProjectKeepsInv ==
    ASSUME WorkspaceInv, NEW u \in User, NEW p \in live, NEW q \in live \cup {NoProject},
           MoveProjectWithTasks(u, p, q)
    PROVE  ContentsHaveAProject' /\ RowsReferToRows'
<1>1. /\ UNCHANGED <<live, tState, tOwner, mState, mOwner>>
      /\ UNCHANGED <<tProject, tParent, mProject>>
  BY DEF MoveProjectWithTasks, MoveProject, milestoneVars
<1>2. /\ tMilestone' \in [Task -> Milestone \cup {NoMilestone}]
      /\ \A x \in Task : tMilestone'[x] \in {tMilestone[x], NoMilestone}
  BY Columns, DetachedColumn DEF MoveProjectWithTasks
<1> QED
  BY <1>1, <1>2, Columns, ColumnsKeepInv

LEMMA DeleteProjectKeepsInv ==
    ASSUME WorkspaceInv, NEW u \in User, NEW p \in live, DeleteProjectWithTasks(u, p)
    PROVE  ContentsHaveAProject' /\ RowsReferToRows'
<1>1. /\ UNCHANGED <<tState, tParent, tMilestone, tOwner, mState, mOwner>>
      /\ live' = live \ {p}
      /\ tProject' = WithoutProject(tProject, p)
      /\ mProject' = WithoutProject(mProject, p)
  BY DEF DeleteProjectWithTasks, DeleteProject
<1>2. /\ tProject' \in [Task -> live' \cup {NoProject}]
      /\ mProject' \in [Milestone -> live' \cup {NoProject}]
  BY <1>1, Columns DEF WithoutProject
<1>3. /\ tProject' \in [Task -> Project \cup {NoProject}]
      /\ mProject' \in [Milestone -> Project \cup {NoProject}]
  BY <1>1, <1>2, Columns
<1>4. ContentsHaveAProject'
  BY <1>1, <1>2, <1>3 DEF WorkspaceInv, ContentsHaveAProject, WorkspaceTypeOK
<1>5. RowsReferToRows'
  BY <1>1 DEF WorkspaceInv, RowsReferToRows, Rows
<1> QED
  BY <1>4, <1>5

LEMMA WorkspaceKeepsInv == WorkspaceInv /\ [WorkspaceNext]_workspaceVars => WorkspaceInv'
<1> SUFFICES ASSUME WorkspaceInv, [WorkspaceNext]_workspaceVars PROVE WorkspaceInv'
  OBVIOUS
<1>1. IInv'
  BY WorkspaceStepIsAStep, NextKeepsIInv DEF WorkspaceInv
<1>2. CASE UNCHANGED workspaceVars
  BY <1>2, TablesAlone DEF workspaceVars
<1>3. ASSUME NEW u \in User, PersonStep(u) PROVE ContentsHaveAProject' /\ RowsReferToRows'
  <2>1. CASE TaskStep(u)
    BY <2>1, CreateTaskKeepsInv, UpdateTaskKeepsInv, MoveToProjectKeepsInv, DeleteTaskKeepsInv
       DEF TaskStep
  <2> QED
    BY <1>3, <2>1, MilestoneStepKeepsInv, ProjectStepKeepsInv, MoveProjectKeepsInv,
       DeleteProjectKeepsInv DEF PersonStep
<1>4. ASSUME NEW u \in User, NEW allowed \in BOOLEAN, AllowCreator(u, allowed),
             UNCHANGED <<taskVars, milestoneVars>>
      PROVE  ContentsHaveAProject' /\ RowsReferToRows'
  BY <1>4 DEF AllowCreator, WorkspaceInv, ContentsHaveAProject, WorkspaceTypeOK, RowsReferToRows,
              Rows, treeVars, taskVars, milestoneVars
<1> QED
  BY <1>1, <1>2, <1>3, <1>4 DEF WorkspaceNext, WorkspaceInv

LEMMA EmptyWorkspaceIsGood == WorkspaceInit => WorkspaceInv
<1> SUFFICES ASSUME WorkspaceInit PROVE WorkspaceInv
  OBVIOUS
<1>1. (CHOOSE u \in User : TRUE) \in User
  BY WorkspaceAssumption
<1>2. ContentsHaveAProject
  BY <1>1 DEF WorkspaceInit, EmptyWorkspace, ContentsHaveAProject, WorkspaceTypeOK, RowState
<1>3. RowsReferToRows
  BY DEF WorkspaceInit, EmptyWorkspace, RowsReferToRows
<1> QED
  BY <1>2, <1>3, InitIInv DEF WorkspaceInit, WorkspaceInv

LEMMA WorkspaceSpecKeepsInv == WorkspaceSpec => []WorkspaceInv
BY EmptyWorkspaceIsGood, WorkspaceKeepsInv, PTL DEF WorkspaceSpec

\* No row, deleted or not, ever refers to a project that is gone, whoever moves
\* and deletes what they see: has_contents and the clean-up of delete_project.
THEOREM RowsKeepTheirProject == WorkspaceSpec => []ContentsHaveAProject
BY WorkspaceSpecKeepsInv, PTL DEF WorkspaceInv

------------------------------------------------------------------------------
(* Nobody reveals a task to themselves.                                     *)

\* What u sees of the projects that were there does not grow by u's requests.
LEMMA SightDoesNotGrow ==
    ASSUME IInv, NEW u \in User, PersonStep(u), NEW p \in live, p \in Visible(u)'
    PROVE  p \in Visible(u)
<1>1. CASE UNCHANGED <<treeVars, role>>
  BY <1>1 DEF Visible, treeVars
<1>2. CASE ActsAs(u) /\ <<treeVars, role>>' # <<treeVars, role>>
  <2>1. ~GainsRights(u)
    BY <1>2, OwnRequestsGiveNoRights
  <2> QED
    BY <1>2, <2>1 DEF GainsRights
<1> QED
  BY <1>1, <1>2, PersonStepIsAStep DEF projectVars, memberVars

\* A row that is written somewhere else was in sight before.
LEMMA WrittenRowsWereSeen ==
    ASSUME WorkspaceInv, NEW u \in User, TaskStep(u), NEW t \in Task, tState[t] = "live",
           tProject'[t] # tProject[t]
    PROVE  SeesTask(u, tProject, t)
<1>1. ASSUME NEW x \in Task, NEW under \in Task \cup {NoTask}, NEW q \in live \cup {NoProject},
             NEW m \in Milestone \cup {NoMilestone}, CreateTask(u, x, under, q, m)
      PROVE  FALSE
  BY <1>1, Columns DEF CreateTask
<1>2. ASSUME NEW x \in Task, NEW under \in Task \cup {NoTask}, NEW q \in live \cup {NoProject, Keep},
             NEW m \in Milestone \cup {NoMilestone}, UpdateTask(u, x, under, q, m)
      PROVE  SeesTask(u, tProject, t)
  <2>1. CASE t = x
    BY <1>2, <2>1, UpdateTaskDoes DEF VisibleTasks
  <2>2. CASE t # x
    <3>1. SavedProject(u, x, under, q)[t] = tProject[t]
      BY <2>2, Columns DEF SavedProject
    <3>2. tProject' = ProjectColumn(u, x, under, q)
      BY <1>2, UpdateTaskDoes
    <3>3. t \in Branch(u, x, under, q)
      BY <3>1, <3>2 DEF ProjectColumn
    <3>4. SeesTask(u, SavedProject(u, x, under, q), t)
      BY <3>3, SubtreeOfSeen DEF Branch
    <3> QED
      BY <3>1, <3>4 DEF SeesTask
  <2> QED
    BY <2>1, <2>2
<1>3. ASSUME NEW selected \in SUBSET Task, NEW q \in live \cup {NoProject},
             MoveToProject(u, selected, q)
      PROVE  SeesTask(u, tProject, t)
  <2>1. PICK roots : tProject' = [x \in Task |-> IF x \in MovedBranch(u, roots) THEN q ELSE tProject[x]]
    BY <1>3 DEF MoveToProject
  <2>2. t \in MovedBranch(u, roots)
    BY <2>1
  <2> QED
    BY <2>2, SubtreeOfSeen DEF MovedBranch
<1>4. ASSUME NEW x \in Task, DeleteTask(u, x) PROVE FALSE
  BY <1>4 DEF DeleteTask
<1> QED
  BY <1>1, <1>2, <1>3, <1>4 DEF TaskStep

\* The owner of a row does not change.
LEMMA OwnersStay ==
    ASSUME WorkspaceInv, NEW u \in User, PersonStep(u), NEW t \in Task, tState[t] = "live"
    PROVE  tOwner'[t] = tOwner[t]
<1>1. CASE TaskStep(u)
  <2>1. ASSUME NEW x \in Task, NEW under \in Task \cup {NoTask}, NEW q \in live \cup {NoProject},
               NEW m \in Milestone \cup {NoMilestone}, CreateTask(u, x, under, q, m)
        PROVE  tOwner'[t] = tOwner[t]
    BY <2>1 DEF CreateTask, WorkspaceInv, ContentsHaveAProject, WorkspaceTypeOK
  <2>2. ASSUME NEW x, NEW under, NEW q, NEW m, UpdateTask(u, x, under, q, m)
        PROVE  tOwner' = tOwner
    BY <2>2, UpdateTaskDoes
  <2>3. ASSUME NEW selected, NEW q, MoveToProject(u, selected, q) PROVE tOwner' = tOwner
    BY <2>3 DEF MoveToProject
  <2> QED
    BY <1>1, <2>1, <2>2, <2>3 DEF TaskStep, DeleteTask
<1>2. CASE ~TaskStep(u)
  BY <1>2 DEF PersonStep, ProjectStep, MoveProjectWithTasks, DeleteProjectWithTasks, MilestoneStep,
              CreateMilestone, UpdateMilestone, DeleteMilestone, taskVars
<1> QED
  BY <1>1, <1>2

\* Outside the handlers of tasks, a live task stays in its project.
LEMMA LiveTasksStay ==
    ASSUME WorkspaceInv, NEW u \in User, PersonStep(u), ~TaskStep(u), NEW t \in Task,
           tState[t] = "live"
    PROVE  tProject'[t] = tProject[t]
<1>1. ASSUME NEW p \in live, DeleteProjectWithTasks(u, p) PROVE tProject'[t] = tProject[t]
  BY <1>1, Columns DEF DeleteProjectWithTasks, IsEmpty, WithoutProject
<1> QED
  BY <1>1 DEF PersonStep, ProjectStep, MoveProjectWithTasks, MilestoneStep, CreateMilestone,
              UpdateMilestone, DeleteMilestone, taskVars

\* Nobody's own request shows them a task they did not see.
THEOREM RequestsRevealNoTask == WorkspaceSpec => OwnStepsRevealNoTask
<1> DEFINE Hidden ==
      \A u \in User, t \in Task :
          (tState[t] = "live" /\ ~SeesTask(u, tProject, t) /\ SeesTask(u, tProject, t)')
          => ~PersonStep(u)
<1>1. ASSUME WorkspaceInv, NEW u \in User, PersonStep(u), NEW t \in Task, tState[t] = "live",
             SeesTask(u, tProject, t)'
      PROVE  SeesTask(u, tProject, t)
  <2> SUFFICES ASSUME tProject'[t] = tProject[t] PROVE SeesTask(u, tProject, t)
    BY <1>1, WrittenRowsWereSeen, LiveTasksStay
  <2>1. tOwner'[t] = tOwner[t]
    BY <1>1, OwnersStay
  <2>2. tProject[t] \in live \cup {NoProject} /\ IInv
    BY <1>1, Columns DEF WorkspaceInv
  <2>3. tProject[t] \in live /\ tProject[t] \in Visible(u)' => tProject[t] \in Visible(u)
    BY <1>1, <2>2, SightDoesNotGrow
  <2>4. NoProject \notin Visible(u)'
    <3>1. IInv'
      BY <1>1, <2>2, PersonStepIsAStep, NextKeepsIInv DEF Next
    <3> QED
      BY <3>1, ProjectAssumption DEF IInv, TypeOK, Visible
  <2> QED
    BY <1>1, <2>1, <2>2, <2>3, <2>4 DEF SeesTask, Sees
<1>2. WorkspaceInv /\ [WorkspaceNext]_workspaceVars => [Hidden]_workspaceVars
  BY <1>1
<1> QED
  BY <1>2, WorkspaceSpecKeepsInv, PTL DEF WorkspaceSpec, OwnStepsRevealNoTask

------------------------------------------------------------------------------
(* Requests of people who see every row.                                    *)

\* u sees all projects, all tasks and all milestones, deleted rows included.
SeesAll(u) ==
    /\ Visible(u) = live
    /\ \A t \in Rows : SeesTask(u, tProject, t)
    /\ \A m \in Milestone : mState[m] # "absent" => Sees(Visible(u), mProject[m], mOwner[m], u)

\* Whoever puts a task, a milestone or a project elsewhere sees every row before
\* and after. Anybody creates and deletes projects and changes members.
InFullView ==
    \E u \in User :
        \/ ProjectStep(u)
        \/ \E p \in live : DeleteProjectWithTasks(u, p)
        \/ PersonStep(u) /\ SeesAll(u) /\ SeesAll(u)'
        \/ \E allowed \in BOOLEAN :
              AllowCreator(u, allowed) /\ UNCHANGED <<taskVars, milestoneVars>>

\* The rows under a task, the task included.
Down(par, rows, t) ==
    LET closed == {S \in SUBSET rows : t \in S /\ \A x \in rows : par[x] \in S => x \in S}
    IN  {x \in rows : t \in rows /\ \A S \in closed : x \in S}

LEMMA DownHoldsSelf ==
    ASSUME NEW par, NEW rows, NEW t \in rows
    PROVE  t \in Down(par, rows, t) /\ Down(par, rows, t) \subseteq rows
BY DEF Down

LEMMA DownHoldsChildren ==
    ASSUME NEW par, NEW rows, NEW t \in rows, NEW x \in rows, par[x] \in Down(par, rows, t)
    PROVE  x \in Down(par, rows, t)
BY DEF Down

LEMMA DownHoldsParents ==
    ASSUME NEW par, NEW rows, NEW t \in rows, NEW x \in Down(par, rows, t), x # t
    PROVE  par[x] \in Down(par, rows, t)
<1> SUFFICES ASSUME par[x] \notin Down(par, rows, t) PROVE FALSE
  OBVIOUS
<1> DEFINE S == Down(par, rows, t) \ {x}
<1>1. S \in SUBSET rows /\ t \in S
  BY DownHoldsSelf
<1>2. \A y \in rows : par[y] \in S => y \in S
  BY DownHoldsChildren
<1> QED
  BY <1>1, <1>2 DEF Down

LEMMA SubtreeIsDown ==
    ASSUME NEW u, NEW project, NEW parentOf, NEW t, {x \in Task : SeesTask(u, project, x)} = Rows
    PROVE  TaskSubtree(u, project, parentOf, t) = Down(parentOf, Rows, t)
BY DEF TaskSubtree, Down

LEMMA InSight ==
    ASSUME NEW u \in User, WorkspaceInv, SeesAll(u)
    PROVE  /\ {x \in Task : SeesTask(u, tProject, x)} = Rows
           /\ \A t \in Task : t \in VisibleTasks(u) <=> tState[t] = "live"
           /\ \A m \in Milestone : m \in VisibleMilestones(u) <=> mState[m] = "live"
BY DEF SeesAll, Rows, SeesTask, VisibleTasks, VisibleMilestones

------------------------------------------------------------------------------
(* The tree of tasks.                                                       *)

LEMMA CreateTaskMakesNoCycle ==
    ASSUME WorkspaceInv, TasksAcyclic, NEW u \in User, NEW t \in Task,
           NEW under \in Task \cup {NoTask}, NEW q \in live \cup {NoProject},
           NEW m \in Milestone \cup {NoMilestone}, CreateTask(u, t, under, q, m)
    PROVE  TasksAcyclic'
<1>1. /\ tParent' = [tParent EXCEPT ![t] = under]
      /\ t \notin Rows
      /\ under # t
  BY WorkspaceAssumption DEF CreateTask, Rows, VisibleTasks
<1>2. Rows' = Rows \cup {t}
  BY Columns DEF CreateTask, Rows
<1>3. SUFFICES ASSUME NEW S \in SUBSET Rows', \A x \in S : tParent'[x] \in S PROVE S = {}
  BY DEF TasksAcyclic, NoParentCycle, Rows
<1>4. \A x \in S \ {t} : tParent[x] \in S \ {t}
  <2> SUFFICES ASSUME NEW x \in S, x # t PROVE tParent[x] \in S \ {t}
    OBVIOUS
  <2>1. x \in Rows /\ x \in Task
    BY <1>2 DEF Rows
  <2>2. tParent[x] \in Rows \cup {NoTask}
    BY <2>1 DEF WorkspaceInv, RowsReferToRows, Rows
  <2>3. tParent[x] \in S
    BY <1>1, <1>3, <2>1, Columns
  <2> QED
    BY <1>1, <2>2, <2>3, WorkspaceAssumption
<1>5. S \ {t} \in SUBSET Rows
  BY <1>2
<1>6. S \ {t} = {}
  BY <1>4, <1>5 DEF TasksAcyclic, NoParentCycle, Rows
<1>7. t \notin S
  BY <1>1, <1>3, <1>6, Columns
<1> QED
  BY <1>6, <1>7

LEMMA UpdateTaskMakesNoCycle ==
    ASSUME NEW u \in User, WorkspaceInv, SeesAll(u), TasksAcyclic, NEW t \in Task,
           NEW under \in Task \cup {NoTask}, NEW q, NEW m, UpdateTask(u, t, under, q, m)
    PROVE  TasksAcyclic'
<1>1. /\ tParent' = [tParent EXCEPT ![t] = NewParent(t, under)]
      /\ t \in Rows
      /\ MayPutUnder(u, t, under)
      /\ tState' = tState
  BY UpdateTaskDoes DEF VisibleTasks, Rows
<1>2. Rows' = Rows
  BY <1>1 DEF Rows
<1>3. CASE NewParent(t, under) = tParent[t]
  <2>1. tParent' = tParent
    BY <1>1, <1>3, Columns
  <2> QED
    BY <1>2, <2>1 DEF TasksAcyclic, Rows
<1>4. CASE NewParent(t, under) # tParent[t]
  <2> DEFINE D == Down(tParent, Rows, t)
  <2>1. NewParent(t, under) = under /\ under \notin D
    BY <1>1, <1>4, InSight, SubtreeIsDown DEF NewParent, MayPutUnder
  <2>2. SUFFICES ASSUME NEW S \in SUBSET Rows, \A x \in S : tParent'[x] \in S PROVE S = {}
    BY <1>2 DEF TasksAcyclic, NoParentCycle, Rows
  <2>3. \A x \in S \ D : tParent[x] \in S \ D
    <3> SUFFICES ASSUME NEW x \in S, x \notin D PROVE tParent[x] \in S \ D
      OBVIOUS
    <3>1. x # t /\ x \in Rows /\ x \in Task
      BY <1>1, DownHoldsSelf DEF Rows
    <3>2. tParent[x] \in S
      BY <1>1, <2>2, <3>1, Columns
    <3> QED
      BY <1>1, <3>1, <3>2, DownHoldsChildren
  <2>4. S \ D = {}
    BY <2>3 DEF TasksAcyclic, NoParentCycle, Rows
  <2>5. t \notin S
    BY <1>1, <2>1, <2>2, <2>4, Columns
  <2>6. \A x \in S : tParent[x] \in S
    BY <1>1, <2>2, <2>5, Columns DEF Rows
  <2> QED
    BY <2>6 DEF TasksAcyclic, NoParentCycle, Rows
<1> QED
  BY <1>3, <1>4

------------------------------------------------------------------------------
(* Subtasks follow their parents.                                           *)

LEMMA CreateTaskFollows ==
    ASSUME WorkspaceInv, ChildFollowsParent, NEW u \in User, NEW t \in Task,
           NEW under \in Task \cup {NoTask}, NEW q \in live \cup {NoProject},
           NEW m \in Milestone \cup {NoMilestone}, CreateTask(u, t, under, q, m)
    PROVE  ChildFollowsParent'
<1>1. /\ tState' = [tState EXCEPT ![t] = "live"]
      /\ tProject' = [tProject EXCEPT ![t] = q]
      /\ tParent' = [tParent EXCEPT ![t] = under]
      /\ tState[t] = "absent"
      /\ under # NoTask => under # t /\ q = tProject[under]
  BY DEF CreateTask, VisibleTasks
<1> SUFFICES ASSUME NEW x \in Task, tState'[x] = "live", tParent'[x] # NoTask,
                    tState'[tParent'[x]] = "live"
             PROVE  tProject'[x] = tProject'[tParent'[x]]
  BY DEF ChildFollowsParent
<1>2. CASE x = t
  BY <1>1, <1>2, Columns
<1>3. CASE x # t
  <2>1. tState[x] = "live" /\ tParent'[x] = tParent[x] /\ tParent[x] \in Task /\ tParent[x] # t
    BY <1>1, <1>3, Columns DEF WorkspaceInv, RowsReferToRows, Rows
  <2> QED
    BY <1>1, <1>3, <2>1, Columns DEF ChildFollowsParent
<1> QED
  BY <1>2, <1>3

\* The branch that update_task carries along is everything under the task.
LEMMA BranchIsDown ==
    ASSUME NEW u \in User, WorkspaceInv, SeesAll(u), SeesAll(u)', NEW t \in Task,
           NEW under \in Task \cup {NoTask}, NEW q, NEW m, UpdateTask(u, t, under, q, m),
           tProject' = ProjectColumn(u, t, under, q)
    PROVE  Branch(u, t, under, q) = Down(tParent', Rows, t) /\ t \in Rows
<1>1. /\ tState' = tState
      /\ tOwner' = tOwner
      /\ UNCHANGED projectVars
      /\ t \in VisibleTasks(u)
      /\ tParent' = [tParent EXCEPT ![t] = NewParent(t, under)]
  BY UpdateTaskDoes
<1>2. Rows' = Rows /\ t \in Rows
  BY <1>1 DEF Rows, VisibleTasks
<1>3. Visible(u)' = live /\ Visible(u) = live
  BY <1>1 DEF SeesAll, projectVars, treeVars
<1>4. tProject'[t] = SavedProject(u, t, under, q)[t]
  BY Columns DEF ProjectColumn, SavedProject
<1>5. SeesTask(u, SavedProject(u, t, under, q), t)
  <2>1. SeesTask(u, tProject, t)'
    BY <1>2 DEF SeesAll
  <2> QED
    BY <1>1, <1>3, <1>4, <2>1 DEF SeesTask
<1>6. \A x \in Rows : SeesTask(u, SavedProject(u, t, under, q), x)
  <2> SUFFICES ASSUME NEW x \in Rows, x # t PROVE SeesTask(u, SavedProject(u, t, under, q), x)
    BY <1>5
  <2>1. SavedProject(u, t, under, q)[x] = tProject[x]
    BY Columns DEF SavedProject, Rows
  <2> QED
    BY <2>1 DEF SeesAll, SeesTask
<1>7. {x \in Task : SeesTask(u, SavedProject(u, t, under, q), x)} = Rows
  BY <1>6 DEF Rows, SeesTask
<1> QED
  BY <1>1, <1>2, <1>7, SubtreeIsDown DEF Branch

LEMMA UpdateTaskFollows ==
    ASSUME NEW u \in User, WorkspaceInv, SeesAll(u), SeesAll(u)', ChildFollowsParent,
           NEW t \in Task, NEW under \in Task \cup {NoTask}, NEW q, NEW m,
           UpdateTask(u, t, under, q, m)
    PROVE  ChildFollowsParent'
<1> SUFFICES ASSUME NEW x \in Task, tState'[x] = "live", tParent'[x] # NoTask,
                    tState'[tParent'[x]] = "live"
             PROVE  tProject'[x] = tProject'[tParent'[x]]
  BY DEF ChildFollowsParent
<1> DEFINE y == tParent'[x]
<1>1. /\ tState' = tState
      /\ tParent' = [tParent EXCEPT ![t] = NewParent(t, under)]
  BY UpdateTaskDoes
<1>2. y \in Task /\ tState[x] = "live" /\ tState[y] = "live"
  BY <1>1, Columns DEF NewParent
<1>3. x # t => y = tParent[x] /\ tProject[x] = tProject[y]
  BY <1>1, <1>2, Columns DEF ChildFollowsParent
<1>4. x = t => y = NewParent(t, under) /\ NewProject(u, t, under, q) = tProject[y]
  BY <1>1, <1>2, Columns, InSight DEF NewProject, ProjectAfterUpdate
<1>5. CASE NewProject(u, t, under, q) = tProject[t] /\ tProject' = tProject
  BY <1>3, <1>4, <1>5
<1>6. CASE tProject' = ProjectColumn(u, t, under, q)
  <2> DEFINE D == Branch(u, t, under, q)
             new == NewProject(u, t, under, q)
  <2>1. D = Down(tParent', Rows, t) /\ t \in Rows
    BY <1>6, BranchIsDown
  <2>2. x \in Rows /\ y \in Rows
    BY <1>2 DEF Rows
  <2>3. t \in D /\ (y \in D => x \in D) /\ (x \in D /\ x # t => y \in D)
    BY <2>1, <2>2, DownHoldsSelf, DownHoldsChildren, DownHoldsParents
  <2>4. \A z \in Task : tProject'[z] = IF z \in D THEN new ELSE tProject[z]
    BY <1>6, <2>3, Columns DEF ProjectColumn, SavedProject
  <2> QED
    BY <1>2, <1>3, <1>4, <2>3, <2>4
<1> QED
  BY <1>5, <1>6, UpdateTaskDoes

\* What a bulk move starts from: selected tasks at the top of what is found,
\* outside the destination.
Moving(u, selected, q) ==
    {r \in {t \in selected : tParent[t] \notin VisibleTasks(u)} : tProject[r] # q}

MovedColumn(u, selected, q) ==
    [x \in Task |-> IF x \in MovedBranch(u, Moving(u, selected, q)) THEN q ELSE tProject[x]]

LEMMA MoveToProjectDoes ==
    ASSUME NEW u, NEW selected, NEW q, MoveToProject(u, selected, q)
    PROVE  /\ selected \subseteq VisibleTasks(u)
           /\ tProject' = MovedColumn(u, selected, q)
           /\ tMilestone' = IF MovedBranch(u, Moving(u, selected, q)) \cap VisibleTasks(u) = {}
                            THEN tMilestone
                            ELSE Detached(u, Visible(u), parent, tProject', mProject, tMilestone)
           /\ UNCHANGED <<projectVars, tState, tParent, tOwner, milestoneVars>>
<1>1. tProject' = MovedColumn(u, selected, q)
  BY DEF MoveToProject, Moving, MovedColumn
<1>2. tMilestone' = IF MovedBranch(u, Moving(u, selected, q)) \cap VisibleTasks(u) = {}
                    THEN tMilestone
                    ELSE Detached(u, Visible(u), parent, tProject', mProject, tMilestone)
  BY DEF MoveToProject, Moving
<1>3. /\ selected \subseteq VisibleTasks(u)
      /\ UNCHANGED <<projectVars, tState, tParent, tOwner, milestoneVars>>
  BY DEF MoveToProject
<1> QED
  BY <1>1, <1>2, <1>3

LEMMA MoveToProjectFollows ==
    ASSUME NEW u \in User, WorkspaceInv, SeesAll(u), ChildFollowsParent,
           NEW selected \in SUBSET Task, NEW q, MoveToProject(u, selected, q)
    PROVE  ChildFollowsParent'
<1> SUFFICES ASSUME NEW x \in Task, tState[x] = "live", tParent[x] # NoTask,
                    tState[tParent[x]] = "live"
             PROVE  tProject'[x] = tProject'[tParent[x]]
  BY MoveToProjectDoes DEF ChildFollowsParent
<1> DEFINE y == tParent[x]
           roots == Moving(u, selected, q)
           B == MovedBranch(u, roots)
<1>1. y \in Task /\ x \in Rows /\ y \in Rows /\ tProject[x] = tProject[y]
  BY Columns DEF Rows, ChildFollowsParent
<1>2. roots \subseteq Rows
  BY MoveToProjectDoes DEF Moving, VisibleTasks, Rows
<1>3. B = UNION {Down(tParent, Rows, r) : r \in roots}
  BY InSight, SubtreeIsDown DEF MovedBranch
<1>4. x \notin roots
  BY <1>1, InSight DEF Moving
<1>5. ASSUME y \in B PROVE x \in B
  <2>1. PICK r \in roots : y \in Down(tParent, Rows, r)
    BY <1>3, <1>5
  <2>2. x \in Down(tParent, Rows, r)
    BY <1>1, <1>2, <2>1, DownHoldsChildren
  <2> QED
    BY <1>3, <2>2
<1>6. ASSUME x \in B PROVE y \in B
  <2>1. PICK r \in roots : x \in Down(tParent, Rows, r)
    BY <1>3, <1>6
  <2>2. y \in Down(tParent, Rows, r)
    BY <1>2, <1>4, <2>1, DownHoldsParents
  <2> QED
    BY <1>3, <2>2
<1>7. \A z \in Task : tProject'[z] = IF z \in B THEN q ELSE tProject[z]
  BY MoveToProjectDoes DEF MovedColumn
<1> QED
  BY <1>1, <1>5, <1>6, <1>7

------------------------------------------------------------------------------
(* Milestones stay within reach.                                            *)

\* After detach_unreachable_milestones by somebody who sees all, every milestone
\* that is left is within reach.
LEMMA DetachingReaches ==
    ASSUME NEW u, NEW visible, NEW par, NEW project, NEW mproject, NEW milestone, NEW t \in Task,
           NEW d, d = Detached(u, visible, par, project, mproject, milestone),
           tState[t] = "live", Sees(visible, project[t], tOwner[t], u),
           d[t] # NoMilestone, mState[d[t]] = "live",
           Sees(visible, mproject[d[t]], mOwner[d[t]], u)
    PROVE  MilestoneReachable(par, visible, NoProject, mproject[d[t]], project[t])
<1>1. d[t] = milestone[t]
  BY DEF Detached
<1> QED
  BY <1>1 DEF Detached, StaleMilestone

\* A step after which milestones were taken off by somebody who sees all.
LEMMA DetachedIsWithinReach ==
    ASSUME NEW u \in User, WorkspaceInv', SeesAll(u)', NEW milestone, tState' = tState, mState' = mState,
           tOwner' = tOwner, mOwner' = mOwner,
           tMilestone' = Detached(u, Visible(u)', parent', tProject', mProject', milestone)
    PROVE  MilestoneWithinReach'
<1> SUFFICES ASSUME NEW t \in Task, tState[t] = "live", tMilestone'[t] # NoMilestone,
                    mState[tMilestone'[t]] = "live"
             PROVE  MilestoneReachable(parent', live', NoProject, mProject'[tMilestone'[t]], tProject'[t])
  BY DEF MilestoneWithinReach
<1>1. tMilestone'[t] \in Milestone
  BY DEF WorkspaceInv, ContentsHaveAProject, WorkspaceTypeOK
<1>2. Visible(u)' = live'
  BY DEF SeesAll
<1>3. Sees(live', tProject'[t], tOwner[t], u)
  BY <1>2 DEF SeesAll, SeesTask, Rows
<1>4. Sees(live', mProject'[tMilestone'[t]], mOwner[tMilestone'[t]], u)
  BY <1>1, <1>2 DEF SeesAll
<1> QED
  BY <1>2, <1>3, <1>4, DetachingReaches

\* A step that leaves alone what a live task needs to reach its milestone.
LEMMA ReachStays ==
    ASSUME WorkspaceInv, MilestoneWithinReach,
           \A t \in Task : tState'[t] = "live" =>
               /\ tState[t] = "live"
               /\ tProject'[t] = tProject[t]
               /\ tMilestone'[t] \in {tMilestone[t], NoMilestone},
           \A m \in Milestone : mState'[m] = "live" /\ mState[m] # "absent" =>
               mState[m] = "live" /\ mProject'[m] = mProject[m],
           \A p \in live : p \in live' =>
               AncestorsOrSelf(parent, live, p) \subseteq AncestorsOrSelf(parent', live', p),
           \A t \in Task : tState'[t] = "live" => tProject[t] \in live' \cup {NoProject}
    PROVE  MilestoneWithinReach'
<1> SUFFICES ASSUME NEW t \in Task, tState'[t] = "live", tMilestone'[t] # NoMilestone,
                    mState'[tMilestone'[t]] = "live"
             PROVE  MilestoneReachable(parent', live', NoProject, mProject'[tMilestone'[t]], tProject'[t])
  BY DEF MilestoneWithinReach
<1> DEFINE m == tMilestone[t]
<1>1. tState[t] = "live" /\ tMilestone'[t] = m /\ tProject'[t] = tProject[t]
  OBVIOUS
<1>2. m \in Milestone /\ mState[m] # "absent"
  BY <1>1, Columns DEF WorkspaceInv, RowsReferToRows
<1>3. mState[m] = "live" /\ mProject'[m] = mProject[m]
  BY <1>1, <1>2
<1>4. MilestoneReachable(parent, live, NoProject, mProject[m], tProject[t])
  BY <1>1, <1>3 DEF MilestoneWithinReach
<1>5. CASE mProject[m] = NoProject
  BY <1>1, <1>3, <1>5 DEF MilestoneReachable
<1>6. CASE mProject[m] \in AncestorsOrSelf(parent, live, tProject[t])
  <2>1. tProject[t] \in live /\ tProject[t] \in live'
    BY <1>6, Columns DEF AncestorsOrSelf
  <2> QED
    BY <1>1, <1>3, <1>6, <2>1 DEF MilestoneReachable
<1> QED
  BY <1>4, <1>5, <1>6 DEF MilestoneReachable

\* Chains stay when a project comes or goes that nobody is under.
LEMMA ChainsStay ==
    ASSUME NEW par, NEW par2, NEW known, NEW known2,
           \A y \in known : y \in known2 => par2[y] = par[y] /\ (par[y] \in known => par[y] \in known2),
           NEW p \in known, p \in known2
    PROVE  AncestorsOrSelf(par, known, p) \subseteq AncestorsOrSelf(par2, known2, p)
<1> DEFINE A == AncestorsOrSelf(par2, known2, p)
           S == A \cap known
<1>1. S \in SUBSET known /\ p \in S
  BY AncestorsHoldSelf
<1>2. ClosedUpwards(par, known, S)
  <2> SUFFICES ASSUME NEW x \in S, par[x] \in known PROVE par[x] \in S
    BY DEF ClosedUpwards
  <2>1. x \in known2
    BY DEF AncestorsOrSelf
  <2>2. par2[x] = par[x] /\ par[x] \in known2
    BY <2>1
  <2> QED
    BY <2>2, AncestorsClosed DEF ClosedUpwards
<1> QED
  BY <1>1, <1>2, AncestorsLeast

LEMMA CreateTaskWithinReach ==
    ASSUME NEW u \in User, WorkspaceInv, SeesAll(u), MilestoneWithinReach, NEW t \in Task,
           NEW under \in Task \cup {NoTask}, NEW q \in live \cup {NoProject},
           NEW m \in Milestone \cup {NoMilestone}, CreateTask(u, t, under, q, m)
    PROVE  MilestoneWithinReach'
<1>1. /\ tState' = [tState EXCEPT ![t] = "live"]
      /\ tProject' = [tProject EXCEPT ![t] = q]
      /\ tMilestone' = [tMilestone EXCEPT ![t] = m]
      /\ UNCHANGED <<parent, live, mState, mProject>>
  BY DEF CreateTask, projectVars, treeVars, milestoneVars
<1>2. m # NoMilestone => MilestoneReachable(parent, live, NoProject, mProject[m], q)
  BY DEF CreateTask, MayAttach, SeesAll
<1> SUFFICES ASSUME NEW x \in Task, tState'[x] = "live", tMilestone'[x] # NoMilestone,
                    mState'[tMilestone'[x]] = "live"
             PROVE  MilestoneReachable(parent', live', NoProject, mProject'[tMilestone'[x]], tProject'[x])
  BY DEF MilestoneWithinReach
<1>3. CASE x = t
  BY <1>1, <1>2, <1>3, Columns
<1>4. CASE x # t
  BY <1>1, <1>4, Columns DEF MilestoneWithinReach
<1> QED
  BY <1>3, <1>4

LEMMA UpdateTaskWithinReach ==
    ASSUME NEW u \in User, WorkspaceInv, WorkspaceInv', SeesAll(u), SeesAll(u)', MilestoneWithinReach,
           NEW t \in Task, NEW under \in Task \cup {NoTask}, NEW q,
           NEW m \in Milestone \cup {NoMilestone}, UpdateTask(u, t, under, q, m)
    PROVE  MilestoneWithinReach'
<1>1. UNCHANGED <<parent, live, tState, tOwner, mState, mProject, mOwner>>
  BY UpdateTaskDoes DEF projectVars, treeVars, milestoneVars
<1>2. Visible(u)' = Visible(u)
  BY <1>1 DEF SeesAll
<1>3. CASE /\ NewProject(u, t, under, q) = tProject[t]
           /\ tProject' = tProject
           /\ tMilestone' = MilestoneColumn(t, m)
  <2>1. m \notin {NoMilestone, tMilestone[t]}
            => MilestoneReachable(parent, live, NoProject, mProject[m], tProject[t])
    BY <1>3, UpdateTaskDoes DEF MayAttach, SeesAll
  <2> SUFFICES ASSUME NEW x \in Task, tState[x] = "live", tMilestone'[x] # NoMilestone,
                      mState[tMilestone'[x]] = "live"
               PROVE  MilestoneReachable(parent, live, NoProject, mProject[tMilestone'[x]], tProject[x])
    BY <1>1, <1>3 DEF MilestoneWithinReach
  <2>2. tMilestone'[x] = IF x = t THEN m ELSE tMilestone[x]
    BY <1>3, Columns DEF MilestoneColumn
  <2> QED
    BY <2>1, <2>2 DEF MilestoneWithinReach
<1>4. CASE tMilestone' = Detached(u, Visible(u), parent, tProject', mProject, MilestoneColumn(t, m))
  BY <1>1, <1>2, <1>4, DetachedIsWithinReach
<1> QED
  BY <1>3, <1>4, UpdateTaskDoes

LEMMA MoveToProjectWithinReach ==
    ASSUME NEW u \in User, WorkspaceInv, WorkspaceInv', SeesAll(u), SeesAll(u)', MilestoneWithinReach,
           NEW selected \in SUBSET Task, NEW q, MoveToProject(u, selected, q)
    PROVE  MilestoneWithinReach'
<1>1. UNCHANGED <<parent, live, tState, tOwner, mState, mProject, mOwner>>
  BY MoveToProjectDoes DEF projectVars, treeVars, milestoneVars
<1>2. Visible(u)' = Visible(u)
  BY <1>1 DEF SeesAll
<1>3. CASE /\ MovedBranch(u, Moving(u, selected, q)) \cap VisibleTasks(u) = {}
           /\ tMilestone' = tMilestone
  <2>1. \A x \in Task : tState[x] = "live" => tProject'[x] = tProject[x]
    BY <1>3, InSight, MoveToProjectDoes DEF MovedColumn
  <2> QED
    BY <1>1, <1>3, <2>1, Columns, ReachStays
<1>4. CASE tMilestone' = Detached(u, Visible(u), parent, tProject', mProject, tMilestone)
  BY <1>1, <1>2, <1>4, DetachedIsWithinReach
<1> QED
  BY <1>3, <1>4, MoveToProjectDoes

LEMMA DeleteTaskWithinReach ==
    ASSUME WorkspaceInv, MilestoneWithinReach, NEW u \in User, NEW t \in Task, DeleteTask(u, t)
    PROVE  MilestoneWithinReach'
<1>1. UNCHANGED <<parent, live, tProject, tMilestone, mState, mProject>>
  BY DEF DeleteTask, projectVars, treeVars, milestoneVars
<1>2. \A x \in Task : tState'[x] = "live" => tState[x] = "live"
  BY Columns DEF DeleteTask
<1> QED
  BY <1>1, <1>2, Columns, ReachStays

LEMMA MilestoneStepWithinReach ==
    ASSUME NEW u \in User, WorkspaceInv, WorkspaceInv', SeesAll(u), SeesAll(u)', MilestoneWithinReach,
           MilestoneStep(u)
    PROVE  MilestoneWithinReach'
<1>1. ASSUME NEW m \in Milestone, NEW q \in live \cup {NoProject}, CreateMilestone(u, m, q)
      PROVE  MilestoneWithinReach'
  <2>1. UNCHANGED <<parent, live, tState, tProject, tMilestone>>
    BY <1>1 DEF CreateMilestone, projectVars, treeVars, taskVars
  <2>2. \A n \in Milestone : mState'[n] = "live" /\ mState[n] # "absent" =>
            mState[n] = "live" /\ mProject'[n] = mProject[n]
    BY <1>1, Columns DEF CreateMilestone
  <2> QED
    BY <2>1, <2>2, Columns, ReachStays
<1>2. ASSUME NEW m \in Milestone, NEW q \in live \cup {NoProject}, UpdateMilestone(u, m, q)
      PROVE  MilestoneWithinReach'
  <2>1. /\ UNCHANGED <<parent, live, tState, tProject, tOwner, mState, mOwner>>
        /\ mProject' = [mProject EXCEPT ![m] = q]
    BY <1>2 DEF UpdateMilestone, projectVars, treeVars
  <2>2. Visible(u)' = Visible(u)
    BY <2>1 DEF SeesAll
  <2>3. CASE q = mProject[m]
    <3>1. tMilestone' = tMilestone /\ mProject' = mProject
      BY <1>2, <2>1, <2>3, Columns DEF UpdateMilestone
    <3> QED
      BY <2>1, <3>1, Columns, ReachStays
  <2>4. CASE q # mProject[m]
    <3>1. tMilestone' = Detached(u, Visible(u), parent, tProject, mProject', tMilestone)
      BY <1>2, <2>4 DEF UpdateMilestone
    <3> QED
      BY <2>1, <2>2, <3>1, DetachedIsWithinReach
  <2> QED
    BY <2>3, <2>4
<1>3. ASSUME NEW m \in Milestone, DeleteMilestone(u, m)
      PROVE  MilestoneWithinReach'
  <2>1. UNCHANGED <<parent, live, tState, tProject, tMilestone, mProject>>
    BY <1>3 DEF DeleteMilestone, projectVars, treeVars, taskVars
  <2>2. \A n \in Milestone : mState'[n] = "live" => mState[n] = "live"
    BY <1>3, Columns DEF DeleteMilestone
  <2> QED
    BY <2>1, <2>2, Columns, ReachStays
<1> QED
  BY <1>1, <1>2, <1>3 DEF MilestoneStep

LEMMA ProjectStepWithinReach ==
    ASSUME WorkspaceInv, MilestoneWithinReach, NEW u \in User, ProjectStep(u)
    PROVE  MilestoneWithinReach'
<1>1. UNCHANGED <<tState, tProject, tMilestone, mState, mProject>>
  BY DEF ProjectStep, taskVars, milestoneVars
<1>2. CASE UNCHANGED treeVars
  BY <1>1, <1>2, Columns, ReachStays DEF treeVars
<1>3. ASSUME NEW q \in live \cup {NoProject}, NEW p \in Project, CreateProject(u, q, p)
      PROVE  MilestoneWithinReach'
  <2>1. /\ live' = live \cup {p}
        /\ parent' = [parent EXCEPT ![p] = q]
        /\ p \notin live
    BY <1>3, ProjectAssumption DEF CreateProject, WorkspaceInv, IInv, TypeOK
  <2>2. \A y \in live : y \in live' => parent'[y] = parent[y] /\ (parent[y] \in live => parent[y] \in live')
    BY <2>1, Columns
  <2>3. \A x \in live : x \in live' =>
            AncestorsOrSelf(parent, live, x) \subseteq AncestorsOrSelf(parent', live', x)
    BY <2>2, ChainsStay
  <2> QED
    BY <1>1, <2>1, <2>3, Columns, ReachStays
<1> QED
  BY <1>2, <1>3 DEF ProjectStep, AddMember, RemoveMember, ChangeRole, ChangeCapacity

LEMMA MoveProjectWithinReach ==
    ASSUME NEW u \in User, WorkspaceInv, WorkspaceInv', SeesAll(u)', MilestoneWithinReach,
           NEW p \in live, NEW q \in live \cup {NoProject}, MoveProjectWithTasks(u, p, q)
    PROVE  MilestoneWithinReach'
<1>1. /\ UNCHANGED <<live, tState, tProject, tOwner, mState, mProject, mOwner>>
      /\ parent' = [parent EXCEPT ![p] = q]
  BY DEF MoveProjectWithTasks, MoveProject, milestoneVars
<1>2. CASE q = parent[p]
  <2>1. parent' = parent /\ tMilestone' = tMilestone
    BY <1>1, <1>2, Columns DEF MoveProjectWithTasks
  <2> QED
    BY <1>1, <2>1, Columns, ReachStays
<1>3. CASE q # parent[p]
  <2>1. tMilestone' = Detached(u, Visible(u)', parent', tProject, mProject, tMilestone)
    BY <1>3 DEF MoveProjectWithTasks
  <2> QED
    BY <1>1, <2>1, DetachedIsWithinReach
<1> QED
  BY <1>2, <1>3

LEMMA DeleteProjectWithinReach ==
    ASSUME WorkspaceInv, MilestoneWithinReach, NEW u \in User, NEW p \in live,
           DeleteProjectWithTasks(u, p)
    PROVE  MilestoneWithinReach'
<1>1. /\ UNCHANGED <<tState, tMilestone, mState>>
      /\ live' = live \ {p}
      /\ parent' = [parent EXCEPT ![p] = NoProject]
      /\ \A y \in live : parent[y] # p
      /\ \A t \in Task : tState[t] = "live" => tProject[t] # p /\ tProject'[t] = tProject[t]
      /\ \A m \in Milestone : mState[m] = "live" => mProject'[m] = mProject[m]
  BY Columns DEF DeleteProjectWithTasks, DeleteProject, MayDelete, IsEmpty, WithoutProject
<1>2. \A y \in live : y \in live' => parent'[y] = parent[y] /\ (parent[y] \in live => parent[y] \in live')
  BY <1>1, Columns
<1>3. \A x \in live : x \in live' =>
          AncestorsOrSelf(parent, live, x) \subseteq AncestorsOrSelf(parent', live', x)
  BY <1>2, ChainsStay
<1> QED
  BY <1>1, <1>3, Columns, ReachStays

------------------------------------------------------------------------------
(* All three together.                                                      *)

WorkInPlace == TasksAcyclic /\ ChildFollowsParent /\ MilestoneWithinReach

\* Steps that leave the tree of tasks alone.
LEMMA TreeStays ==
    ASSUME TasksAcyclic, ChildFollowsParent, tParent' = tParent, Rows' = Rows,
           \A t \in Task : tState'[t] = "live" => tState[t] = "live" /\ tProject'[t] = tProject[t],
           WorkspaceInv
    PROVE  TasksAcyclic' /\ ChildFollowsParent'
<1>1. TasksAcyclic'
  BY DEF TasksAcyclic, Rows
<1>2. ChildFollowsParent'
  BY Columns DEF ChildFollowsParent
<1> QED
  BY <1>1, <1>2

LEMMA TaskStepKeepsWork ==
    ASSUME NEW u \in User, WorkspaceInv, WorkspaceInv', SeesAll(u), SeesAll(u)', WorkInPlace,
           TaskStep(u)
    PROVE  WorkInPlace'
<1> USE DEF WorkInPlace
<1>1. ASSUME NEW t \in Task, NEW under \in Task \cup {NoTask}, NEW q \in live \cup {NoProject},
             NEW m \in Milestone \cup {NoMilestone}, CreateTask(u, t, under, q, m)
      PROVE  WorkInPlace'
  BY <1>1, CreateTaskMakesNoCycle, CreateTaskFollows, CreateTaskWithinReach
<1>2. ASSUME NEW t \in Task, NEW under \in Task \cup {NoTask}, NEW q \in live \cup {NoProject, Keep},
             NEW m \in Milestone \cup {NoMilestone}, UpdateTask(u, t, under, q, m)
      PROVE  WorkInPlace'
  BY <1>2, UpdateTaskMakesNoCycle, UpdateTaskFollows, UpdateTaskWithinReach
<1>3. ASSUME NEW selected \in SUBSET Task, NEW q \in live \cup {NoProject},
             MoveToProject(u, selected, q)
      PROVE  WorkInPlace'
  <2>1. TasksAcyclic'
    BY <1>3, MoveToProjectDoes DEF TasksAcyclic
  <2> QED
    BY <1>3, <2>1, MoveToProjectFollows, MoveToProjectWithinReach
<1>4. ASSUME NEW t \in Task, DeleteTask(u, t) PROVE WorkInPlace'
  <2>1. /\ Rows' = Rows
        /\ tParent' = tParent
        /\ \A x \in Task : tState'[x] = "live" => tState[x] = "live" /\ tProject'[x] = tProject[x]
    BY <1>4, Columns DEF DeleteTask, VisibleTasks, Rows
  <2> QED
    BY <1>4, <2>1, TreeStays, DeleteTaskWithinReach
<1> QED
  BY <1>1, <1>2, <1>3, <1>4 DEF TaskStep

LEMMA OtherStepsKeepTheTree ==
    ASSUME WorkspaceInv, TasksAcyclic, ChildFollowsParent, NEW u \in User, PersonStep(u), ~TaskStep(u)
    PROVE  TasksAcyclic' /\ ChildFollowsParent'
<1>1. tState' = tState /\ tParent' = tParent
  BY DEF PersonStep, ProjectStep, MoveProjectWithTasks, DeleteProjectWithTasks, MilestoneStep,
         CreateMilestone, UpdateMilestone, DeleteMilestone, taskVars
<1>2. \A t \in Task : tState[t] = "live" => tProject'[t] = tProject[t]
  BY LiveTasksStay
<1> QED
  BY <1>1, <1>2, TreeStays DEF Rows

\* Creating and deleting projects and changing members, whoever does it.
LEMMA ProjectStepKeepsWork ==
    ASSUME WorkspaceInv, WorkInPlace, NEW u \in User, ProjectStep(u)
    PROVE  WorkInPlace'
<1>1. UNCHANGED <<tState, tParent, tProject>>
  BY DEF ProjectStep, taskVars
<1>2. TasksAcyclic' /\ ChildFollowsParent'
  BY <1>1, TreeStays DEF WorkInPlace, Rows
<1> QED
  BY <1>2, ProjectStepWithinReach DEF WorkInPlace

LEMMA DeleteProjectKeepsWork ==
    ASSUME WorkspaceInv, WorkInPlace, NEW u \in User, NEW p \in live, DeleteProjectWithTasks(u, p)
    PROVE  WorkInPlace'
<1>1. /\ UNCHANGED <<tState, tParent>>
      /\ \A t \in Task : tState[t] = "live" => tProject'[t] = tProject[t]
  BY Columns DEF DeleteProjectWithTasks, IsEmpty, WithoutProject
<1>2. TasksAcyclic' /\ ChildFollowsParent'
  BY <1>1, TreeStays DEF WorkInPlace, Rows
<1> QED
  BY <1>2, DeleteProjectWithinReach DEF WorkInPlace

LEMMA WorkStaysInPlace ==
    WorkspaceInv /\ WorkspaceInv' /\ WorkInPlace /\ [InFullView]_workspaceVars => WorkInPlace'
<1> SUFFICES ASSUME WorkspaceInv, WorkspaceInv', WorkInPlace, [InFullView]_workspaceVars
             PROVE  WorkInPlace'
  OBVIOUS
<1>1. ASSUME UNCHANGED <<treeVars, taskVars, milestoneVars>> PROVE WorkInPlace'
  <2>1. UNCHANGED <<live, parent, tState, tProject, tParent, tMilestone, mState, mProject>>
    BY <1>1 DEF treeVars, taskVars, milestoneVars
  <2> QED
    BY <2>1, Columns, ReachStays, TreeStays DEF WorkInPlace, Rows
<1>2. ASSUME NEW u \in User, PersonStep(u), SeesAll(u), SeesAll(u)' PROVE WorkInPlace'
  <2>1. CASE TaskStep(u)
    BY <1>2, <2>1, TaskStepKeepsWork
  <2>2. CASE ~TaskStep(u)
    <3>1. TasksAcyclic' /\ ChildFollowsParent'
      BY <1>2, <2>2, OtherStepsKeepTheTree DEF WorkInPlace
    <3>2. MilestoneWithinReach'
      BY <1>2, <2>2, MilestoneStepWithinReach, ProjectStepWithinReach, MoveProjectWithinReach,
         DeleteProjectWithinReach DEF WorkInPlace, PersonStep
    <3> QED
      BY <3>1, <3>2 DEF WorkInPlace
  <2> QED
    BY <2>1, <2>2
<1>3. ASSUME NEW u \in User, NEW allowed \in BOOLEAN, AllowCreator(u, allowed),
             UNCHANGED <<taskVars, milestoneVars>>
      PROVE  WorkInPlace'
  BY <1>1, <1>3 DEF AllowCreator
<1> QED
  BY <1>1, <1>2, <1>3, ProjectStepKeepsWork, DeleteProjectKeepsWork
     DEF InFullView, workspaceVars, projectVars

LEMMA EmptyIsInPlace == WorkspaceInit => WorkInPlace
<1> SUFFICES ASSUME WorkspaceInit PROVE WorkInPlace
  OBVIOUS
<1>1. \A t \in Task : tState[t] = "absent"
  BY DEF WorkspaceInit, EmptyWorkspace
<1> QED
  BY <1>1 DEF WorkInPlace, TasksAcyclic, NoParentCycle, ChildFollowsParent, MilestoneWithinReach

\* One person, alone, sees every row.
LEMMA OnePersonSeesAll ==
    ASSUME \A v, w \in User : v = w
    PROVE  WorkspaceInv => \A u \in User : SeesAll(u)
<1> SUFFICES ASSUME WorkspaceInv, NEW u \in User
             PROVE  /\ Visible(u) = live
                    /\ \A t \in Rows : SeesTask(u, tProject, t)
                    /\ \A m \in Milestone :
                          mState[m] # "absent" => Sees(Visible(u), mProject[m], mOwner[m], u)
  BY DEF SeesAll
<1>1. ASSUME NEW p \in live PROVE p \in Visible(u)
  <2>1. TreeOf(p) \in live /\ parent[TreeOf(p)] \notin live
    BY RootInTree DEF WorkspaceInv, IInv, Acyclic, TreeOf
  <2>2. parent[TreeOf(p)] = NoProject
    BY <2>1 DEF WorkspaceInv, IInv, ParentsLive
  <2>3. IsManager(u, TreeOf(p))
    BY <2>1, <2>2 DEF WorkspaceInv, IInv, RootHasManager
  <2> QED
    BY <2>3, VisibleFromRoot DEF IsManager, WorkspaceInv
<1>2. Visible(u) = live
  BY <1>1 DEF Visible
<1> QED
  BY <1>2, Columns DEF SeesTask, Sees, Rows, WorkspaceInv, ContentsHaveAProject, WorkspaceTypeOK

\* As long as whoever puts work elsewhere sees every row, no task comes under its
\* own subtask, subtasks are in the project of their parent, and the milestone of
\* a task is one of its project's or of an ancestor's, through all moves of tasks,
\* branches and projects: whatever update_task, move_to_project and move_project
\* get wrong, they get wrong over rows their caller does not see.
THEOREM FullViewKeepsWorkInPlace ==
    WorkspaceSpec /\ [][InFullView]_workspaceVars
        => [](TasksAcyclic /\ ChildFollowsParent /\ MilestoneWithinReach)
<1>1. WorkInPlace => TasksAcyclic /\ ChildFollowsParent /\ MilestoneWithinReach
  BY DEF WorkInPlace
<1> QED
  BY <1>1, EmptyIsInPlace, WorkStaysInPlace, WorkspaceSpecKeepsInv, PTL DEF WorkspaceSpec

LEMMA AloneWorkStaysInPlace ==
    ASSUME \A v, w \in User : v = w
    PROVE  WorkspaceSpec => [](TasksAcyclic /\ ChildFollowsParent /\ MilestoneWithinReach)
<1>1. WorkspaceInv => \A u \in User : SeesAll(u)
  BY OnePersonSeesAll
<1>2. WorkspaceInv' => (\A u \in User : SeesAll(u))'
  BY <1>1, PTL
<1>3. WorkspaceInv /\ WorkspaceInv' /\ [WorkspaceNext]_workspaceVars => [InFullView]_workspaceVars
  BY <1>1, <1>2 DEF WorkspaceNext, InFullView
<1> QED
  BY <1>3, WorkspaceSpecKeepsInv, FullViewKeepsWorkInPlace, PTL DEF WorkspaceSpec

\* One person working alone never gets a task under its own subtask, whatever is
\* re-parented, moved, deleted and created in between.
THEOREM AloneTasksStayATree ==
    ASSUME \A v, w \in User : v = w
    PROVE  WorkspaceSpec => []TasksAcyclic
BY AloneWorkStaysInPlace, PTL

\* One person working alone finds every subtask in the project of its parent:
\* update_task and move_to_project carry the whole branch along.
THEOREM AloneSubtasksFollow ==
    ASSUME \A v, w \in User : v = w
    PROVE  WorkspaceSpec => []ChildFollowsParent
BY AloneWorkStaysInPlace, PTL

\* One person working alone never has a task with a milestone of a project that
\* is neither its own nor above it: detach_unreachable_milestones after every move.
THEOREM AloneMilestonesStayWithinReach ==
    ASSUME \A v, w \in User : v = w
    PROVE  WorkspaceSpec => []MilestoneWithinReach
BY AloneWorkStaysInPlace, PTL

------------------------------------------------------------------------------
(* Dependencies.                                                            *)

\* A dependency is between two rows.
WaitsBetweenRows == waits \subseteq Rows \X Rows

\* Whoever adds a dependency sees all there are.
AddedInFullView ==
    \/ waits' \subseteq waits
    \/ \E u \in User, pred, succ \in Task :
          AddDependency(u, pred, succ) /\ DependenciesSeen(u) = waits

LEMMA RowsStayRows ==
    ASSUME WorkspaceInv, [WorkspaceNext]_workspaceVars
    PROVE  Rows \subseteq Rows'
<1>1. ASSUME NEW u \in User, TaskStep(u) PROVE Rows \subseteq Rows'
  <2>1. ASSUME NEW t, NEW under, NEW q, NEW m, UpdateTask(u, t, under, q, m) PROVE tState' = tState
    BY <2>1, UpdateTaskDoes
  <2>2. ASSUME NEW selected, NEW q, MoveToProject(u, selected, q) PROVE tState' = tState
    BY <2>2, MoveToProjectDoes
  <2>3. ASSUME NEW t \in Task, NEW under, NEW q, NEW m, CreateTask(u, t, under, q, m)
        PROVE  Rows \subseteq Rows'
    BY <2>3, Columns DEF CreateTask, Rows
  <2>4. ASSUME NEW t \in Task, DeleteTask(u, t) PROVE Rows \subseteq Rows'
    BY <2>4, Columns DEF DeleteTask, Rows
  <2> QED
    BY <1>1, <2>1, <2>2, <2>3, <2>4 DEF TaskStep, Rows
<1>2. ASSUME NEW u \in User, PersonStep(u), ~TaskStep(u) PROVE tState' = tState
  BY <1>2 DEF PersonStep, ProjectStep, MoveProjectWithTasks, DeleteProjectWithTasks, MilestoneStep,
              CreateMilestone, UpdateMilestone, DeleteMilestone, taskVars
<1> QED
  BY <1>1, <1>2 DEF WorkspaceNext, workspaceVars, taskVars, Rows

\* The rows that come before a task are closed along the dependencies.
LEMMA BeforeIsClosed ==
    ASSUME NEW deps, deps \subseteq Task \X Task, NEW t \in Task
    PROVE  /\ t \in Before(deps, t)
           /\ \A d \in deps : d[2] \in Before(deps, t) => d[1] \in Before(deps, t)
<1>1. \A d \in deps : d[1] \in Task
  OBVIOUS
<1> QED
  BY <1>1 DEF Before

LEMMA AddingMakesNoCycle ==
    ASSUME NEW u \in User, WorkspaceInv, DependenciesSeen(u) = waits, WaitsBetweenRows,
           DependenciesAcyclic,
           NEW pred \in Task, NEW succ \in Task, AddDependency(u, pred, succ)
    PROVE  DependenciesAcyclic'
<1>1. /\ waits' = waits \cup {<<pred, succ>>}
      /\ succ \notin Before(DependenciesSeen(u), pred)
  BY DEF AddDependency, HasCycle
<1>4. waits \subseteq Task \X Task
  BY DEF WaitsBetweenRows, Rows
<1> DEFINE B == Before(waits, pred)
<1>5. pred \in B /\ succ \notin B /\ \A d \in waits : d[2] \in B => d[1] \in B
  BY <1>1, <1>4, BeforeIsClosed
<1>6. SUFFICES ASSUME NEW S \in SUBSET Task, \A t \in S : \E d \in waits' : d[2] = t /\ d[1] \in S
               PROVE  S = {}
  BY DEF DependenciesAcyclic
<1>7. S \cap B = {}
  <2>1. ASSUME NEW t \in S \cap B PROVE \E d \in waits : d[2] = t /\ d[1] \in S \cap B
    <3>1. PICK d \in waits' : d[2] = t /\ d[1] \in S
      BY <1>6
    <3>2. d # <<pred, succ>>
      BY <1>5, <3>1
    <3>3. d \in waits
      BY <1>1, <3>2
    <3> QED
      BY <1>5, <3>1, <3>3
  <2> QED
    BY <2>1 DEF DependenciesAcyclic
<1>8. ASSUME NEW t \in S PROVE \E d \in waits : d[2] = t /\ d[1] \in S
  <2>1. PICK d \in waits' : d[2] = t /\ d[1] \in S
    BY <1>6
  <2>2. d # <<pred, succ>>
    BY <1>5, <1>7, <2>1
  <2> QED
    BY <1>1, <2>1, <2>2
<1> QED
  BY <1>8 DEF DependenciesAcyclic

LEMMA RemovingMakesNoCycle ==
    ASSUME DependenciesAcyclic, waits' \subseteq waits
    PROVE  DependenciesAcyclic'
BY DEF DependenciesAcyclic

LEMMA DependencyStepIsAStep ==
    [DependencyNext]_dependencyVars => [WorkspaceNext]_workspaceVars
BY DEF DependencyNext, DependencyStep, AddDependency, RemoveDependency, dependencyVars

LEMMA WaitsStayBetweenRows ==
    WorkspaceInv /\ WaitsBetweenRows /\ [DependencyNext]_dependencyVars => WaitsBetweenRows'
<1> SUFFICES ASSUME WorkspaceInv, WaitsBetweenRows, [DependencyNext]_dependencyVars
             PROVE  WaitsBetweenRows'
  OBVIOUS
<1>1. Rows \subseteq Rows'
  BY DependencyStepIsAStep, RowsStayRows
<1>2. waits' \subseteq Rows \X Rows
  BY DEF DependencyNext, DependencyStep, AddDependency, RemoveDependency, WaitsBetweenRows,
         VisibleTasks, Rows, dependencyVars
<1> QED
  BY <1>1, <1>2 DEF WaitsBetweenRows

LEMMA DependenciesStayAcyclic ==
    WorkspaceInv /\ WaitsBetweenRows /\ DependenciesAcyclic /\ [AddedInFullView]_dependencyVars
        => DependenciesAcyclic'
<1> SUFFICES ASSUME WorkspaceInv, WaitsBetweenRows, DependenciesAcyclic,
                    [AddedInFullView]_dependencyVars
             PROVE  DependenciesAcyclic'
  OBVIOUS
<1>1. CASE waits' \subseteq waits
  BY <1>1, RemovingMakesNoCycle
<1>2. CASE \E u \in User, pred, succ \in Task :
              AddDependency(u, pred, succ) /\ DependenciesSeen(u) = waits
  BY <1>2, AddingMakesNoCycle
<1> QED
  BY <1>1, <1>2 DEF AddedInFullView, dependencyVars

LEMMA NoDependenciesYet == DependencyInit => WaitsBetweenRows /\ DependenciesAcyclic
BY DEF DependencyInit, WaitsBetweenRows, DependenciesAcyclic

LEMMA DependencySpecKeepsInv == DependencySpec => []WorkspaceInv /\ []WaitsBetweenRows
<1>1. DependencyInit => WorkspaceInv
  BY EmptyWorkspaceIsGood DEF DependencyInit
<1> QED
  BY <1>1, NoDependenciesYet, DependencyStepIsAStep, WorkspaceKeepsInv, WaitsStayBetweenRows, PTL
     DEF DependencySpec

\* As long as whoever adds a dependency sees all of them, no task ever waits for
\* itself, however many are added and whatever happens to the tasks meanwhile:
\* has_cycle errs over rows its caller does not see, and only there.
THEOREM FullViewKeepsDependenciesAcyclic ==
    DependencySpec /\ [][AddedInFullView]_dependencyVars => []DependenciesAcyclic
BY NoDependenciesYet, DependenciesStayAcyclic, DependencySpecKeepsInv, PTL DEF DependencySpec

\* The same for one person working alone, with no further condition.
THEOREM AloneDependenciesStayAcyclic ==
    ASSUME \A v, w \in User : v = w
    PROVE  DependencySpec => []DependenciesAcyclic
<1>1. ASSUME WorkspaceInv, WaitsBetweenRows, NEW u \in User PROVE DependenciesSeen(u) = waits
  <2>1. \A d \in waits : d[1] \in Rows /\ d[2] \in Rows
    BY <1>1 DEF WaitsBetweenRows
  <2>2. SeesAll(u)
    BY <1>1, OnePersonSeesAll
  <2> QED
    BY <2>1, <2>2 DEF DependenciesSeen, SeesAll
<1>2. WorkspaceInv /\ WaitsBetweenRows /\ [DependencyNext]_dependencyVars
          => [AddedInFullView]_dependencyVars
  BY <1>1 DEF DependencyNext, DependencyStep, RemoveDependency, AddedInFullView
<1> QED
  BY <1>2, DependencySpecKeepsInv, FullViewKeepsDependenciesAcyclic, PTL DEF DependencySpec
==============================================================================
