---------------------------- MODULE MCWorkspace ------------------------------
(***************************************************************************)
(* Tasks for TLC.  The runs with two people start from a state that        *)
(* project requests have led to, so that the search is spent on tasks.     *)
(***************************************************************************)
EXTENDS TaskDependencies, TLC

CONSTANTS ann, bob

TaskSymmetry == Permutations(Task)

\* ann made project 1 and added bob; both may make more.
OneTeamInit ==
    /\ EmptyWorkspace
    /\ waits = {}
    /\ created = {1} /\ live = {1}
    /\ parent = [p \in Project |-> NoProject]
    /\ role = [p \in Project |-> [u \in User |-> IF p # 1 THEN "none"
                                                 ELSE IF u = ann THEN "manager" ELSE "member"]]
    /\ capacity = [p \in Project |-> [u \in User |-> DefaultCapacity]]
    /\ creators = User

\* No handler of tasks, milestones or projects reads the dependencies: they are
\* left out here, and nobody loses the right to make projects.
OneTeamSpec == OneTeamInit /\ [][WorkspaceNext /\ UNCHANGED <<waits, creators>>]_dependencyVars
==============================================================================
