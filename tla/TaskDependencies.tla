-------------------------- MODULE TaskDependencies ---------------------------
(***************************************************************************)
(* Which task waits for which: dependency_use_cases.py and                 *)
(* task_dependency_repository.py, beside everything that happens to the    *)
(* tasks in Workspace.  A row has no owner; a person sees it when both of  *)
(* its tasks are in sight, deleted or not.                                 *)
(***************************************************************************)
EXTENDS Workspace

VARIABLE waits   \* rows <<predecessor, successor>> of task_dependencies

dependencyVars == <<workspaceVars, waits>>

\* find_all_for_user.
DependenciesSeen(u) ==
    {d \in waits : SeesTask(u, tProject, d[1]) /\ SeesTask(u, tProject, d[2])}

\* The tasks that come before t, t included, along the rows deps.
Before(deps, t) ==
    LET closed == {S \in SUBSET Task : t \in S /\ \A d \in deps : d[2] \in S => d[1] \in S}
    IN  {x \in Task : \A S \in closed : x \in S}

\* Mutant: only the rows of the new predecessor itself are looked at.
HasCycleOneStep(deps, pred, succ) == pred = succ \/ <<succ, pred>> \in deps

\* _has_cycle: the new successor comes before the new predecessor already.
HasCycle(deps, pred, succ) == succ \in Before(deps, pred)

\* add_dependency (a row that is there gets a new type and lag).
AddDependency(u, pred, succ) ==
    /\ pred \in VisibleTasks(u)
    /\ succ \in VisibleTasks(u)
    /\ ~HasCycle(DependenciesSeen(u), pred, succ)
    /\ waits' = waits \cup {<<pred, succ>>}
    /\ UNCHANGED workspaceVars

\* remove_dependency: only the successor has to be in sight.
RemoveDependency(u, pred, succ) ==
    /\ succ \in VisibleTasks(u)
    /\ waits' = waits \ {<<pred, succ>>}
    /\ UNCHANGED workspaceVars

DependencyInit == WorkspaceInit /\ waits = {}

DependencyStep ==
    \E u \in User, pred, succ \in Task :
        AddDependency(u, pred, succ) \/ RemoveDependency(u, pred, succ)

DependencyNext == DependencyStep \/ (WorkspaceNext /\ UNCHANGED waits)

DependencySpec == DependencyInit /\ [][DependencyNext]_dependencyVars

------------------------------------------------------------------------------
\* No task waits for itself through a chain of others (else no forecast has a
\* start for it): "a cycle can only arise among one's own dependencies".
DependenciesAcyclic ==
    \A S \in SUBSET Task :
        (\A t \in S : \E d \in waits : d[2] = t /\ d[1] \in S) => S = {}
==============================================================================
